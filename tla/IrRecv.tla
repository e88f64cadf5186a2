------------------------------- MODULE IrRecv -------------------------------
(***************************************************************************)
(* Infrared reception, app/module/irrecv.c, over the decoder IrNec.  The   *)
(* interrupt handler decodes the edges of the bound pins and posts a task; *)
(* the task, later, hands the codes that are ready to the Lua functions;   *)
(* Lua binds pins.  The handler may run between any two steps of the task  *)
(* and of a bind; the task and Lua do not interrupt each other.            *)
(*                                                                         *)
(* External: the remotes, which send whole bursts or have them cut off by  *)
(* a gap; the task queue of the SDK, which all modules share; and the      *)
(* modules that enable interrupts of other pins.                           *)
(***************************************************************************)
EXTENDS IrNec, FiniteSets, SequencesExt

CONSTANTS
    Pin,                      \* GPIO pins, by number
    Jitters,                  \* how far pulses are from their nominal times
    Glitches,                 \* lengths of pulses no remote means to send
    QueueMax,                 \* entries of the task queue
    NoReader                  \* a NULL pin_reader

ASSUME RecvConstants ==
    /\ Pin \subseteq Nat
    /\ IsFiniteSet(Pin)
    /\ Jitters \subseteq Int
    /\ \A j \in Jitters : match(LOGICAL_MARK + j, LOGICAL_MARK)
    /\ Glitches \subseteq 0..UNCERTAIN_PULSE_TIME
    /\ QueueMax \in Nat \ {0}

VARIABLES
    listening,                \* pins whose interrupts are enabled, by any module
    binding,                  \* the pin whose bind is half done, if there is one
    pin_reader,               \* the ir_pin_reader of each pin
    tasks,                    \* how many irrecv_ondata are queued
    refused,                  \* history: the last post failed and none was queued
    scan,                     \* pins the running irrecv_ondata has yet to visit
    air,                      \* the burst each pin sees, and its next pulse
    given,                    \* how often the code that is ready was handed over
    fault                     \* a NULL pin_reader was used

vars == <<listening, binding, pin_reader, tasks, refused, scan, air, given, fault>>

\* What the decoder keeps; first: prev_pulse_time is 0, no edge came yet.
Reader ==
    [state : States, data : Code, len : 0..(Width - 1), ready : BOOLEAN,
     first : BOOLEAN]

ASSUME NoReaderIsNone == NoReader \notin Reader

NewReader ==
    [state |-> "ERROR", data |-> [i \in Pos |-> 0], len |-> 0, ready |-> FALSE,
     first |-> TRUE]

Bursts == [kind : {"code"}, bits : Code] \cup {[kind |-> "repeat"]}

Pulses(b) == IF b.kind = "code" THEN Frame(b.bits) ELSE Repeat

\* at: the number of the pulse that is going on, or 0 between bursts;
\* clean: no pulse of the burst was distorted or split so far.
Air == [burst : Bursts, at : 0..(2 * Bits + 3), clean : BOOLEAN]

Init ==
    /\ listening = {}
    /\ binding = {}
    /\ pin_reader = [p \in Pin |-> NoReader]
    /\ tasks = 0
    /\ refused = FALSE
    /\ scan = {}
    /\ air \in [Pin -> {a \in Air : a.at <= Len(Pulses(a.burst)) /\ a.clean}]
    /\ given = [p \in Pin |-> 0]
    /\ fault = FALSE

\* The pins of dup_mask.
Bound == {p \in Pin : pin_reader[p] # NoReader}

-----------------------------------------------------------------------------
(* The edges a pin may see next: the time since the last one, and what is  *)
(* in the air from then on.                                                *)

GAP == UNCERTAIN_PULSE_TIME + 1

Advance(a) ==
    IF a.at \in 1..(Len(Pulses(a.burst)) - 1)
    THEN [a EXCEPT !.at = @ + 1] ELSE [a EXCEPT !.at = 0]

\* A burst begins after a gap, whether or not the last one was complete.
Begins == {[usec |-> GAP, air |-> [burst |-> b, at |-> 1, clean |-> TRUE]] : b \in Bursts}

Continues(a) ==
    {[usec |-> Pulses(a.burst)[i] + j, air |-> Advance(a)] :
        i \in {a.at} \ {0}, j \in Jitters}

\* A pulse is distorted, or an edge comes in between.
Disturbed(a) ==
    {[usec |-> u, air |-> [b EXCEPT !.clean = FALSE]] :
        u \in Glitches, b \in {a, Advance(a)}}

\* The first time is taken from boot: it is a gap, or, the clock having
\* wrapped, anything else, all of which the error state ignores alike.
Edges(p) ==
    LET seen == Begins \cup Continues(air[p]) \cup Disturbed(air[p])
    IN  IF pin_reader[p].first
        THEN {[usec |-> u, air |-> e.air] : u \in {GAP, 0}, e \in seen}
        ELSE seen

-----------------------------------------------------------------------------
(* The interrupt handler, gpio_intr_handler.  An interrupt of pins none of *)
(* which is bound changes nothing here.  Of others the handler returns a   *)
(* mask shifted down to 0, so that no other module sees any edge of them;  *)
(* what those modules do with edges is not modelled.                       *)

\* Slip: the length is kept as it is counted.
DecodedUnmasked(r, usec) == [ir_recv_nec(r, usec) EXCEPT !.first = FALSE]

\* Slip: the length loses its upper bit.
DecodedShort(r, usec) ==
    LET d == ir_recv_nec(r, usec) IN [d EXCEPT !.len = @ % Bits, !.first = FALSE]

\* One turn of the loop: the length goes through a field of 6 bits.
Decoded(r, usec) ==
    LET d == ir_recv_nec(r, usec) IN [d EXCEPT !.len = @ % Width, !.first = FALSE]

\* Slip: no task is posted while one runs.
PostIfIdle(wanted) ==
    \/ /\ wanted
       /\ tasks < QueueMax
       /\ scan = {}
       /\ tasks' = tasks + 1
       /\ refused' = FALSE
    \/ /\ wanted => scan # {}
       /\ UNCHANGED <<tasks, refused>>
    \/ /\ wanted
       /\ scan = {}
       /\ tasks' = tasks
       /\ refused' = (refused \/ tasks = 0)

\* task_post_medium, whose result is ignored. Tasks of other modules may fill
\* the queue at any time: then the post is lost.
Post(wanted) ==
    \/ /\ wanted
       /\ tasks < QueueMax
       /\ tasks' = tasks + 1
       /\ refused' = FALSE
    \/ /\ wanted
       /\ tasks' = tasks
       /\ refused' = (refused \/ tasks = 0)
    \/ /\ ~wanted
       /\ UNCHANGED <<tasks, refused>>

\* One interrupt for edges on bound pins only.
GpioIntr(mask) ==
    /\ ~fault
    /\ mask # {}
    /\ mask \subseteq Bound
    /\ \E e \in [mask -> UNION {Edges(p) : p \in mask}] :
          /\ \A p \in mask : e[p] \in Edges(p)
          /\ air' = [p \in Pin |-> IF p \in mask THEN e[p].air ELSE air[p]]
          /\ pin_reader' =
                [p \in Pin |-> IF p \in mask THEN Decoded(pin_reader[p], e[p].usec)
                               ELSE pin_reader[p]]
    /\ given' = [p \in Pin |-> IF p \in mask THEN 0 ELSE given[p]]
    /\ Post(\E p \in mask : pin_reader'[p].ready)
    /\ UNCHANGED <<listening, binding, scan, fault>>

\* One interrupt for a bound pin and another, whose bind is half done or which
\* another module enabled: the loop runs over every bit of mask, and uses a
\* reader that is not there.
GpioIntrUnbound(p, q) ==
    /\ ~fault
    /\ p \in Bound
    /\ q \in listening \ Bound
    /\ fault' = TRUE
    /\ UNCHANGED <<listening, binding, pin_reader, tasks, refused, scan, air, given>>

-----------------------------------------------------------------------------
(* The task and Lua.                                                       *)

\* No bind is half done, so that tasks and Lua functions may run.
Settled == ~fault /\ binding = {}

\* irrecv_ondata starts: it visits the pins that are bound now.
OnDataStart ==
    /\ Settled
    /\ tasks > 0
    /\ scan = {}
    /\ tasks' = tasks - 1
    /\ scan' = Bound
    /\ UNCHANGED <<listening, binding, pin_reader, refused, air, given, fault>>

\* irrecv_ondata comes to pin p and calls its function when a code is ready.
\* An edge between the look at the flag and the reads of length and data, all
\* microseconds apart, clears the flag only: both change with a later pulse,
\* milliseconds after. So this is one step.
\* Bound: given tells none, one and more apart.
OnDataVisit(p) ==
    /\ Settled
    /\ p \in scan
    /\ \A q \in scan : p <= q
    /\ scan' = scan \ {p}
    /\ given' = IF pin_reader[p].ready /\ pin_reader[p].len > 0 /\ given[p] < 2
                THEN [given EXCEPT ![p] = @ + 1] ELSE given
    /\ UNCHANGED <<listening, binding, pin_reader, tasks, refused, air, fault>>

\* External: another module enables the interrupts of a pin, as gpio.trig does.
Trig(p) ==
    /\ Settled
    /\ p \notin listening
    /\ listening' = listening \cup {p}
    /\ UNCHANGED <<binding, pin_reader, tasks, refused, scan, air, given, fault>>

\* irrecv.bind of a new pin, as far as platform_gpio_intr_init.
BindEnable(p) ==
    /\ Settled
    /\ p \notin Bound
    /\ binding' = {p}
    /\ listening' = listening \cup {p}
    /\ UNCHANGED <<pin_reader, tasks, refused, scan, air, given, fault>>

\* The rest of it: the reader is set up and the pin enters dup_mask.
BindPublish(p) ==
    /\ ~fault
    /\ p \in binding
    /\ binding' = {}
    /\ pin_reader' = [pin_reader EXCEPT ![p] = NewReader]
    /\ UNCHANGED <<listening, tasks, refused, scan, air, given, fault>>

\* irrecv.bind of a bound pin.  Its error state, set first, keeps the handler
\* from changing what is reset after it.
Rebind(p) ==
    /\ Settled
    /\ p \in Bound
    /\ pin_reader' = [pin_reader EXCEPT ![p] = NewReader]
    /\ given' = [given EXCEPT ![p] = 0]
    /\ UNCHANGED <<listening, binding, tasks, refused, scan, air, fault>>

Next ==
    \/ \E mask \in SUBSET Pin : GpioIntr(mask)
    \/ \E p, q \in Pin : GpioIntrUnbound(p, q)
    \/ OnDataStart
    \/ \E p \in Pin : \/ OnDataVisit(p) \/ Trig(p)
                      \/ BindEnable(p) \/ BindPublish(p) \/ Rebind(p)

Spec == Init /\ [][Next]_vars

\* The SDK runs queued tasks, and a task or a bind once begun goes on.
FairSpec ==
    /\ Spec
    /\ WF_vars(OnDataStart)
    /\ WF_vars(\E p \in Pin : OnDataVisit(p))
    /\ WF_vars(\E p \in Pin : BindPublish(p))

-----------------------------------------------------------------------------
(* Properties.                                                             *)

TypeOK ==
    /\ listening \subseteq Pin
    /\ binding \subseteq listening \ Bound
    /\ pin_reader \in [Pin -> Reader \cup {NoReader}]
    /\ tasks \in 0..QueueMax
    /\ refused \in BOOLEAN
    /\ scan \subseteq Bound
    /\ air \in [Pin -> Air]
    /\ given \in [Pin -> 0..2]
    /\ fault \in BOOLEAN

\* A code is flagged ready on pin p.
Ready(p) == p \in Bound /\ pin_reader[p].ready

\* perform_ondata_callback takes bytes off until the unsigned length is zero:
\* whatever pulses came, and whenever the task gets to it, a code that is
\* flagged ready has the full length, so that the loop ends.
WholeCode == \A p \in Pin : Ready(p) => pin_reader[p].len = Bits

\* What the Lua function is given, however late the task runs, is what the
\* remote sent last, unless that very burst was disturbed: no bit of a burst
\* that was cut off, distorted or half read before is in it, wherever a bind
\* falls.
RightCode ==
    \A p \in Pin : Ready(p) /\ air[p].clean =>
        /\ air[p].at = 0
        /\ air[p].burst.kind = "code"
        /\ pin_reader[p].data = air[p].burst.bits

\* Whatever was received, distorted, cut off or half read, a gap and one burst
\* that is not disturbed deliver the code of that burst.
Recovers ==
    \A p \in Bound, f \in Code :
        LET d == FoldLeft(Decoded, pin_reader[p], <<GAP>> \o Frame(f))
        IN  d.ready /\ d.len = Bits /\ d.data = f

\* A code that stays ready, no edge following it, is handed over in the end,
\* even if a task was running when it came or its own post was lost while
\* another was queued: unless the post was lost with none queued, and no other
\* pin's code has had a task posted since.  That case is real, the result of
\* task_post_medium being ignored: such a code stays where it is.
HandedOver ==
    \A p \in Pin : Ready(p) ~> (fault \/ given[p] > 0 \/ ~Ready(p) \/ refused)
=============================================================================
