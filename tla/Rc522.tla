------------------------------- MODULE Rc522 -------------------------------
(***************************************************************************)
(* The driver of the card reader, app/rfid/rc522.c, and the slots of       *)
(* app/rfid/rfid.c: the calls rc522_sendcmd makes, one register access     *)
(* after the other, while the reader goes on by itself in between.         *)
(*                                                                         *)
(* External: the reader, after the table above rc522_sendcmd (which        *)
(* commands use the FIFO and which finish by themselves); the card, which  *)
(* may be out of the field; the soft watchdog, which restarts the chip     *)
(* when a loop does not feed it; and what an SPI access of SPI_BITSIZE     *)
(* bits carries, and one that goes on with whole bytes.                    *)
(***************************************************************************)
EXTENDS Naturals

CONSTANT RFID_DEV_MAX

ASSUME Rc522Constants == RFID_DEV_MAX \in Nat \ {0}

VARIABLES
    wire,      \* SPI_BITSIZE: 1 as the code has it, 8 as its callers assume
    slots,     \* rfid_devices, filled from below and never freed
    call,      \* the call of rc522_sendcmd under way
    at,        \* the step it has come to
    command,   \* of the reader: its command,
    modem,     \*   the state of its modem,
    fifo,      \*   whose bytes its FIFO holds,
    error,     \*   and its error register
    silent,    \* no card will answer
    stirred    \* history: whole bytes came after one bit, and went astray

vars == <<wire, slots, call, at, command, modem, fifo, error, silent, stirred>>
reader == <<command, modem, fifo, error>>

\* The commands that finish by themselves, and those that last until the next.
Finishing == {"MEM", "GENERATE_RANDOM_ID", "TRANSMIT", "NO_CMD_CHANGE", "RECEIVE",
              "MFAUTHENT", "SOFT_RESET"}
Lasting == {"CALC_CRC", "TRANSCEIVE"}
Commands == {"IDLE"} \cup Finishing \cup Lasting

Without == {"IDLE", "GENERATE_RANDOM_ID", "NO_CMD_CHANGE", "RECEIVE", "SOFT_RESET",
            "TRANSMIT"}

\* The calls, and whether their argument is there, is a single byte, fits into
\* the FIFO or is longer; the arguments of MEM and MFAUTHENT have a size of their
\* own, which fits. rfid_request, the one caller there is, transceives one byte.
Calls == [cmd : Without \cup {"MEM"}, arg : {"none"}]
         \cup [cmd : {"MEM", "MFAUTHENT"}, arg : {"fits"}]
         \cup [cmd : Lasting, arg : {"byte", "fits", "long"}]

NoCall == [cmd |-> "none", arg |-> "none"]

Busy == call # NoCall

Init ==
    /\ wire \in {1, 8}
    /\ slots = 0
    /\ call = NoCall
    /\ at = "end"
    /\ command = "IDLE"
    /\ modem = "idle"
    /\ fifo = "empty"
    /\ error = FALSE
    /\ silent = FALSE
    /\ stirred = FALSE

-----------------------------------------------------------------------------
(* The accesses.                                                           *)

\* What reading CommandReg may give: two bits are not enough for the others.
Seen == IF wire = 8 THEN {command}
        ELSE {"IDLE", "MEM", "GENERATE_RANDOM_ID", "CALC_CRC"}

\* Writing CommandReg: what was under way is given up. Two bits are no access.
Write(cmd) ==
    IF wire = 8
    THEN /\ command' = IF cmd = "NO_CMD_CHANGE" THEN command ELSE cmd
         /\ modem' = IF cmd = "NO_CMD_CHANGE" THEN modem ELSE "idle"
         /\ UNCHANGED <<fifo, error>>
    ELSE UNCHANGED reader

\* The bytes of an argument after an address of one bit, which is 0: the reader
\* takes seven bits of the first byte into the address of a write, and what
\* follows, shifted, for the data. The register may be CommandReg, whose bits
\* also switch the reader off, commands that came and went before the last
\* having used the FIFO; FIFODataReg or FIFOLevelReg; BitFramingReg, which starts
\* a transmission; or one that matters to nothing here.
Astray ==
    /\ stirred' = TRUE
    /\ \/ UNCHANGED reader
       \/ /\ command' \in (Commands \ {"NO_CMD_CHANGE"}) \cup {"OFF"}
          /\ modem' = "idle"
          /\ fifo' \in {fifo, "empty", "stray"}
          /\ UNCHANGED error
       \/ /\ fifo' \in {"empty", "stray"}
          /\ UNCHANGED <<command, modem, error>>
       \/ /\ command = "TRANSCEIVE"
          /\ modem' = "sending"
          /\ error' = FALSE
          /\ UNCHANGED <<command, fifo>>

\* Slip: the bytes are put behind those an earlier call left.
FilledBehind(arg) ==
    IF arg # "long" /\ fifo = "empty" THEN "argument" ELSE fifo

\* to_fifo: an argument that is too long is refused, which no caller heeds.
Filled(arg) == IF arg = "long" THEN fifo ELSE "argument"

\* The calls that flush the FIFO, to find an answer in it.
Reading(c) == c.cmd = "TRANSMIT" \/ (c.cmd = "MEM" /\ c.arg = "none")

\* The first step of a call, seen being the command that is read before it.
First(c, seen) ==
    CASE c.cmd \in Without \ {"TRANSMIT"} -> "exec"
      [] c.cmd = "CALC_CRC" -> IF seen = "CALC_CRC" THEN "crc" ELSE "wait"
      [] c.cmd = "TRANSCEIVE" -> IF seen = "TRANSCEIVE" THEN "fill" ELSE "exec"
      [] c.cmd \in {"TRANSMIT", "MEM", "MFAUTHENT"} -> "wait"

\* Slip: the commands without a FIFO are not waited for.
AwaitedFifo == {"MEM", "TRANSMIT", "MFAUTHENT"}

\* The commands after which a call waits for the reader.
Awaited == Finishing

\* The step that follows: fill and exec change places in a transceive, and a
\* reader that is computing a CRC already is given the bytes only.
After(c, op) ==
    CASE op = "wait" -> IF Reading(c) THEN "clear" ELSE "fill"
      [] op = "clear" -> "exec"
      [] op = "fill" -> IF c.cmd = "TRANSCEIVE" THEN "start" ELSE "exec"
      [] op = "exec" -> CASE c.cmd \in Awaited -> "finish"
                          [] c.cmd = "CALC_CRC" -> "result"
                          [] c.cmd = "TRANSCEIVE" -> "fill"
                          [] OTHER -> "end"
      [] op = "finish" -> IF Reading(c) THEN "take" ELSE "end"
      [] op = "crc" -> "refill"
      [] op = "refill" -> "result"
      [] op = "start" -> "tx"
      [] op = "tx" -> "rx"
      [] op = "rx" -> "check"
      [] op = "check" -> "take"
      [] op \in {"take", "result"} -> "end"

Begin(c) ==
    /\ call' = c
    /\ \E seen \in Seen : at' = First(c, seen)
    /\ fifo' = IF fifo = "empty" THEN "empty" ELSE "left"
    /\ UNCHANGED <<wire, command, modem, error, silent, stirred>>

\* rfid_init, whose rc522_init begins with a reset; what it then writes into
\* the other registers matters to nothing here. The slots may be used up.
rfid_init ==
    /\ ~Busy
    /\ slots < RFID_DEV_MAX
    /\ slots' = slots + 1
    /\ Begin([cmd |-> "SOFT_RESET", arg |-> "none"])

\* rc522_sendcmd, for a device that is there; rfid_request is its only caller.
rc522_sendcmd ==
    /\ ~Busy
    /\ slots > 0
    /\ \E c \in Calls : Begin(c)
    /\ UNCHANGED slots

\* rfid_request of a slot that is not taken: check_rfid looks at the range only,
\* the first access reads through NULL, and the chip restarts.
rfid_request_untaken ==
    /\ ~Busy
    /\ slots < RFID_DEV_MAX
    /\ slots' = 0
    /\ UNCHANGED <<wire, call, at, reader, silent, stirred>>

\* The call goes on, or ends.
Proceed(op) ==
    /\ at' = op
    /\ call' = IF op = "end" THEN NoCall ELSE call
    /\ UNCHANGED <<wire, slots>>

exec_cmd ==
    /\ at = "exec"
    /\ Write(call.cmd)
    /\ silent' \in BOOLEAN
    /\ UNCHANGED stirred
    /\ Proceed(After(call, at))

\* Slip: a reader left in a transceive is waited for, and that does not finish.
CancelledCrc == {"CALC_CRC"}

\* The default case of wait_cmd.
Cancelled == Lasting

\* wait_cmd, before a command is given and after: its loop is a step of its own.
Looping == [wait |-> "waiting", finish |-> "finishing"]

wait_cmd ==
    /\ at \in {"wait", "finish"}
    /\ \E seen \in Seen :
          /\ IF seen \in Cancelled THEN Write("IDLE") ELSE UNCHANGED reader
          /\ Proceed(IF seen \in Cancelled \cup {"IDLE"} THEN After(call, at)
                     ELSE Looping[at])
    /\ UNCHANGED <<silent, stirred>>

Polling == at \in {"waiting", "finishing"}

poll ==
    /\ Polling
    /\ "IDLE" \in Seen
    /\ Proceed(After(call, IF at = "waiting" THEN "wait" ELSE "finish"))
    /\ UNCHANGED <<reader, silent, stirred>>

wait_crc_done ==
    /\ at \in {"crc", "result"}
    /\ wire = 8
    /\ command = "CALC_CRC" => fifo = "empty"
    /\ Proceed(After(call, at))
    /\ UNCHANGED <<reader, silent, stirred>>

wait_transmit_done ==
    /\ at = "tx"
    /\ wire = 8
    /\ modem = "receiving"
    /\ Proceed(After(call, at))
    /\ UNCHANGED <<reader, silent, stirred>>

wait_receive_done ==
    /\ at = "rx"
    /\ modem # "receiving"
    /\ Proceed(After(call, at))
    /\ UNCHANGED <<reader, silent, stirred>>

clear_fifo ==
    /\ at = "clear"
    /\ fifo' = IF wire = 8 THEN "empty" ELSE fifo
    /\ Proceed(After(call, at))
    /\ UNCHANGED <<command, modem, error, silent, stirred>>

\* One byte after one bit is an address and no more.
to_fifo ==
    /\ at \in {"fill", "refill"}
    /\ \/ /\ wire = 8
          /\ fifo' = Filled(call.arg)
          /\ UNCHANGED <<command, modem, error, stirred>>
       \/ /\ wire = 1
          /\ call.arg = "fits"
          /\ Astray
       \/ /\ wire = 1
          /\ call.arg # "fits"
          /\ UNCHANGED <<reader, stirred>>
    /\ Proceed(After(call, at))
    /\ UNCHANGED silent

\* StartSend in BitFramingReg.
start_send ==
    /\ at = "start"
    /\ IF wire = 8 THEN modem' = "sending" /\ error' = FALSE ELSE UNCHANGED <<modem, error>>
    /\ silent' \in BOOLEAN
    /\ Proceed(After(call, at))
    /\ UNCHANGED <<command, fifo, stirred>>

\* An error ends the command, and the answer stays where it is.
check_error ==
    /\ at = "check"
    /\ IF error THEN Write("IDLE") /\ Proceed("end")
                ELSE UNCHANGED reader /\ Proceed(After(call, at))
    /\ UNCHANGED <<silent, stirred>>

\* The addresses blkwrite sends clock the bytes out of the FIFO and drop them:
\* what blkread then gives the caller is not the answer. With a level of two
\* bits some of the bytes are left, or all; the access being a read, the bits
\* out of step change nothing else.
from_fifo ==
    /\ at = "take"
    /\ fifo' \in IF wire = 8 THEN {"empty"} ELSE {fifo, "empty"}
    /\ Proceed(After(call, at))
    /\ UNCHANGED <<command, modem, error, silent, stirred>>

Driver ==
    \/ exec_cmd \/ wait_cmd \/ poll \/ wait_crc_done \/ wait_transmit_done
    \/ wait_receive_done \/ clear_fifo \/ to_fifo \/ start_send \/ check_error
    \/ from_fifo

-----------------------------------------------------------------------------
(* The reader, the card and the watchdog.                                  *)

WithCard == {"RECEIVE", "MFAUTHENT"}

\* The command under way is one the reader brings to its end.
Ends == command \in Finishing /\ (command \in WithCard => ~silent)

Finish ==
    /\ Ends
    /\ command' = "IDLE"
    /\ fifo' = CASE command = "GENERATE_RANDOM_ID" -> fifo
                 [] command = "RECEIVE" \/ (command = "MEM" /\ fifo = "empty") -> "answer"
                 [] OTHER -> "empty"
    /\ UNCHANGED <<wire, slots, call, at, modem, error, silent, stirred>>

Crc ==
    /\ command = "CALC_CRC"
    /\ fifo # "empty"
    /\ fifo' = "empty"
    /\ UNCHANGED <<wire, slots, call, at, command, modem, error, silent, stirred>>

Transmit ==
    /\ modem = "sending"
    /\ modem' = "receiving"
    /\ fifo' = "empty"
    /\ UNCHANGED <<wire, slots, call, at, command, error, silent, stirred>>

Answer ==
    /\ modem = "receiving"
    /\ ~silent
    /\ modem' = "idle"
    /\ fifo' = "answer"
    /\ error' \in BOOLEAN
    /\ UNCHANGED <<wire, slots, call, at, command, silent, stirred>>

\* Without a card the reader may give up listening, or not.
GiveUp ==
    /\ modem = "receiving"
    /\ silent
    /\ modem' = "idle"
    /\ error' = TRUE
    /\ UNCHANGED <<wire, slots, call, at, command, fifo, silent, stirred>>

\* The loop of wait_cmd feeds the watchdog but once. The reader keeps its state.
Restart ==
    /\ Polling
    /\ wire = 8 => command # "IDLE" /\ ~Ends
    /\ call' = NoCall
    /\ at' = "end"
    /\ slots' = 0
    /\ UNCHANGED <<wire, reader, silent, stirred>>

Reader == Finish \/ Crc \/ Transmit \/ Answer

Next ==
    \/ rfid_init \/ rc522_sendcmd \/ rfid_request_untaken \/ Driver \/ Reader \/ GiveUp \/ Restart

\* The driver runs on, the reader does what it is told, the watchdog bites; the
\* card owes no answer, and no call need be made.
Spec ==
    /\ Init /\ [][Next]_vars
    /\ WF_vars(Driver) /\ WF_vars(Reader) /\ WF_vars(Restart)

-----------------------------------------------------------------------------
(* Properties.                                                             *)

TypeOK ==
    /\ wire \in {1, 8}
    /\ slots \in 0..RFID_DEV_MAX
    /\ call \in Calls \cup {NoCall}
    /\ at \in {"end", "exec", "wait", "waiting", "finish", "finishing", "clear", "fill",
              "refill", "crc", "result", "start", "tx", "rx", "check", "take"}
    /\ command \in (Commands \ {"NO_CMD_CHANGE"}) \cup {"OFF"}
    /\ modem \in {"idle", "sending", "receiving"}
    /\ fifo \in {"empty", "argument", "answer", "left", "stray"}
    /\ error \in BOOLEAN
    /\ silent \in BOOLEAN
    /\ stirred \in BOOLEAN

\* A call never finds a command of an earlier one still at work: between calls
\* the reader is idle, or in a command that waits to be given more.  Not so once
\* an argument of two bytes or more was sent with accesses of one bit, as
\* to_fifo does it: that may have put the reader into any command.
Rested ==
    ~Busy /\ slots > 0 /\ ~stirred =>
        /\ command \in {"IDLE"} \cup Lasting
        /\ modem = "idle"
        /\ command = "CALC_CRC" => fifo = "empty"

\* The reader uses the bytes of the call under way, and what from_fifo clocks
\* out, if only to drop it, is the answer to them: never bytes an earlier call
\* left in the FIFO.  Not so for an argument that is too long, which to_fifo
\* refuses and nobody looks at, nor once bytes went astray.
Uses == fifo # "empty" /\ fifo' = "empty" /\ at' = at /\ command # "SOFT_RESET"
Takes == wire = 8 /\ at = "take" /\ at' # at

OwnBytes ==
    [][/\ Uses /\ ~stirred => fifo = "argument" \/ call.arg = "long"
       /\ Takes => fifo = IF call.cmd = "TRANSMIT" THEN "empty" ELSE "answer"]_vars

\* What a call may wait for in vain: with accesses of one bit, for a bit it
\* never reads; for a card that is not there; for the start of an answer that
\* came and went between two looks at the modem.
InVain ==
    \/ wire = 1 /\ (at \in {"crc", "result", "tx"} \/ Polling)
    \/ silent /\ (at = "rx" \/ Polling)
    \/ at = "tx" /\ modem = "idle"

\* Every call returns, or waits in vain in one of these ways.
EveryCallEnds == Busy ~> ((~Busy /\ slots > 0) \/ InVain)
=============================================================================
