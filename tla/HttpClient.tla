----------------------------- MODULE HttpClient -----------------------------
(***************************************************************************)
(* The HTTP client, app/http/httpclient.c.  One request_args_t and at most *)
(* one struct espconn are allocated per hop (the first request, then one   *)
(* per redirection followed); the SDK calls back when the name is found,   *)
(* the connection is made, data was sent or received, the connection ended *)
(* or the timer fired.  The SDK runs one callback at a time, so each       *)
(* handler is one action; what is not fixed is their order.                *)
(*                                                                         *)
(* The SDK (espconn, os_timer) is external and is modelled by what the     *)
(* code relies on: a link ends with one disconnect or one error callback   *)
(* and none follows; espconn_disconnect answers OK exactly when such an    *)
(* end is still to come (lines 151 and 479-486); on a link not yet made it *)
(* may do either.                                                          *)
(***************************************************************************)
EXTENDS Naturals, Sequences, FiniteSets

CONSTANTS
    Call,                     \* calls of http_request made by scripts
    Req,                      \* addresses of request_args_t (never reused)
    NoCall,                   \* the owner of an address not yet allocated
    FollowMax,                \* REDIRECTION_FOLLOW_MAX
    BufferMax,                \* BUFFER_SIZE_MAX, in segments
    MaxSeg                    \* bound: segments a server sends on one link

ASSUME HttpConstants ==
    /\ NoCall \notin Call
    /\ FollowMax \in Nat
    /\ BufferMax \in Nat \ {0}
    /\ MaxSeg \in Nat

VARIABLES
    req,                      \* every request_args_t with its espconn
    calls,                    \* how often the callback of a call was run
    status,                   \* the status it was given last
    started,                  \* calls of http_request made so far
    rejected                  \* calls whose URL, or redirection, is refused

vars == <<req, calls, status, started, rejected>>

Memory == {"none", "live", "freed"}
Links  == {"none", "connecting", "up", "closing"}
Heads  == {"unsent", "bare", "full"}

(***************************************************************************)
(* owner     the call the block works for                                  *)
(* mem, conn the request_args_t and the espconn whose reverse points to it *)
(* dns       espconn_gethostbyname holds the block until it calls back     *)
(* timer     timeout_timer is armed, with conn as its argument             *)
(* link      the SDK's view of the connection                              *)
(* sending   a sent callback is due                                        *)
(* headers, post  the fields are not NULL                                  *)
(* follow    redirect_follow_count                                         *)
(* buf       the segments copied into buffer, in order                     *)
(* zap       buffer[0] was overwritten with '\0' over data                 *)
(* got, lost segments received, and whether one of them was not stored     *)
(* header    the request head went out, with or without headers from Lua   *)
(* length    Content-Length was sent;  bodies  how often the body was      *)
(***************************************************************************)
ReqState ==
    [owner : Call \cup {NoCall}, mem : Memory, conn : Memory, dns : BOOLEAN,
     timer : BOOLEAN, link : Links, sending : BOOLEAN, headers : BOOLEAN,
     post : BOOLEAN, follow : 0..FollowMax, buf : Seq(1..MaxSeg),
     zap : BOOLEAN, got : 0..MaxSeg, lost : BOOLEAN, header : Heads,
     length : BOOLEAN, bodies : Nat]

Blank ==
    [owner |-> NoCall, mem |-> "none", conn |-> "none", dns |-> FALSE,
     timer |-> FALSE, link |-> "none", sending |-> FALSE, headers |-> FALSE,
     post |-> FALSE, follow |-> 0, buf |-> <<>>, zap |-> FALSE, got |-> 0,
     lost |-> FALSE, header |-> "unsent", length |-> FALSE, bodies |-> 0]

Init ==
    /\ req = [r \in Req |-> Blank]
    /\ calls = [c \in Call |-> 0]
    /\ status = [c \in Call |-> "none"]
    /\ started = {}
    /\ rejected = {}

Fresh == {r \in Req : req[r].mem = "none"}

-----------------------------------------------------------------------------
(* What the handlers do to a request block.                                *)

\* Slip: the timer is left armed when the block is freed.
ReleasedArmed(q) ==
    [q EXCEPT !.mem = "freed", !.conn = IF @ = "live" THEN "freed" ELSE @,
              !.headers = FALSE, !.post = FALSE]

\* http_free_req, with the freeing of conn and the os_timer_disarm of
\* http_disconnect_callback.  What the SDK still holds stays as it is.
Released(q) ==
    [q EXCEPT !.mem = "freed", !.conn = IF @ = "live" THEN "freed" ELSE @,
              !.timer = FALSE, !.headers = FALSE, !.post = FALSE]

\* Slip: the connection is attempted without arming the timer.
ConnectingUntimed(q, out) ==
    [q EXCEPT !.dns = FALSE, !.conn = "live",
              !.link = IF out = "connecting" THEN "connecting" ELSE "none"]

\* http_dns_callback with an address: allocate conn, arm the timer, connect.
\* The result of espconn_connect is not looked at; refused, no link exists.
Connecting(q, out) ==
    [q EXCEPT !.dns = FALSE, !.conn = "live", !.timer = TRUE,
              !.link = IF out = "connecting" THEN "connecting" ELSE "none"]

\* http_raw_request: allocate the block and look the name up.  The lookup is
\* pending, or answered at once with an address or a failure.
Lookups == {"pending", "connecting", "refused", "noname"}

Opened(c, h, p, k, out) ==
    LET q == [Blank EXCEPT !.owner = c, !.mem = "live",
                           !.headers = h, !.post = p, !.follow = k]
    IN  CASE out = "pending"                   -> [q EXCEPT !.dns = TRUE]
          [] out \in {"connecting", "refused"} -> Connecting(q, out)
          [] out = "noname"                    -> Released(q)

\* http_connect_callback: send the head; the headers are freed and forgotten.
HeadSent(q) ==
    [q EXCEPT !.link = "up", !.sending = TRUE, !.headers = FALSE,
              !.header = IF q.headers THEN "full" ELSE "bare",
              !.length = q.post]

\* Slip: post_data is not set to NULL once sent.
BodySentAgain(q) ==
    [q EXCEPT !.sending = q.post, !.bodies = IF q.post THEN @ + 1 ELSE @]

\* http_send_callback: the first one sends the body, if any, and frees it.
BodySent(q) ==
    [q EXCEPT !.sending = q.post, !.post = FALSE,
              !.bodies = IF q.post THEN @ + 1 ELSE @]

\* http_receive_callback, the segment fits and memory is found.
Stored(q) == [q EXCEPT !.buf = Append(@, q.got + 1), !.got = @ + 1]

\* Slip: the incomplete response is kept.
DiscardedKept(q) ==
    [q EXCEPT !.got = @ + 1, !.lost = TRUE, !.link = "closing"]

\* http_receive_callback otherwise.  The '\0' put in buffer[0] discards what
\* is there, and nothing when the buffer is still empty: the next segment is
\* copied over it.
Discarded(q) ==
    [q EXCEPT !.zap = (@ \/ q.buf # <<>>), !.got = @ + 1, !.lost = TRUE,
              !.link = "closing"]

\* Slip: the terminator is not counted.
TooLongBare(q) == Len(q.buf) + 1 > BufferMax

TooLong(q) == Len(q.buf) + 2 > BufferMax

\* The buffer starts with the status line, which only a first segment holds.
Readable(q) ==
    /\ q.buf # <<>>
    /\ ~q.zap
    /\ q.buf[1] = 1

\* The status http_disconnect_callback passes on when it does not redirect:
\* ok stands for the number in the status line, error for -1.
Statuses(q) == IF Readable(q) THEN {"ok", "error"} ELSE {"error"}

\* Slip: one redirection too many.
MayFollowMore(q) == Readable(q) /\ q.follow <= FollowMax

\* A complete Location header in a 3xx answer may be followed.
MayFollow(q) == Readable(q) /\ q.follow < FollowMax

-----------------------------------------------------------------------------
(* What the SDK does to a link.                                            *)

\* The connection is over: no further callback carries this conn.
Ended(q) == [q EXCEPT !.link = "none", !.sending = FALSE]

\* Results of espconn_disconnect, and the request block after it.
Results(q) ==
    CASE q.link = "up"         -> {"ESPCONN_OK"}
      [] q.link = "closing"    -> {"ESPCONN_INPROGRESS"}
      [] q.link = "connecting" -> {"ESPCONN_OK", "ESPCONN_ARG"}
      [] q.link = "none"       -> {"ESPCONN_ARG"}

Disconnected(q, result) ==
    IF result = "ESPCONN_ARG" THEN Ended(q) ELSE [q EXCEPT !.link = "closing"]

\* Slip: a disconnect already under way is not waited for.
AwaitsOk(result) == result = "ESPCONN_OK"

\* http_timeout_callback leaves the rest to the disconnect callback.
Awaits(result) == result \in {"ESPCONN_OK", "ESPCONN_INPROGRESS"}

-----------------------------------------------------------------------------
(* Entry points and callbacks.                                             *)

\* req->callback_handle( ... ).
Answer(c, s) ==
    /\ calls' = [calls EXCEPT ![c] = @ + 1]
    /\ status' = [status EXCEPT ![c] = s]

\* Slip: a failed lookup is reported to nobody.
LaunchSilent(released, n, c, h, p, k, out) ==
    /\ req' = [released EXCEPT ![n] = Opened(c, h, p, k, out)]
    /\ UNCHANGED <<calls, status>>

\* A new block n replaces nothing (HttpRequest) or the released block that
\* released already stands for (a redirection); a failed lookup answers.
Launch(released, n, c, h, p, k, out) ==
    /\ req' = [released EXCEPT ![n] = Opened(c, h, p, k, out)]
    /\ IF out = "noname"
       THEN Answer(c, "error")
       ELSE UNCHANGED <<calls, status>>

\* http_request, called from Lua: the URL is refused, or the request starts.
HttpRequest(c) ==
    /\ c \notin started
    /\ started' = started \cup {c}
    /\ \/ /\ rejected' = rejected \cup {c}
          /\ UNCHANGED <<req, calls, status>>
       \/ /\ \E n \in Fresh, h, p \in BOOLEAN, out \in Lookups :
                 Launch(req, n, c, h, p, 0, out)
          /\ UNCHANGED rejected

\* http_dns_callback, called by the SDK.
DnsCallback(r) ==
    /\ req[r].dns
    /\ \/ /\ req' = [req EXCEPT ![r] = Released([@ EXCEPT !.dns = FALSE])]
          /\ Answer(req[r].owner, "error")
       \/ /\ \E out \in {"connecting", "refused"} :
                 req' = [req EXCEPT ![r] = Connecting(@, out)]
          /\ UNCHANGED <<calls, status>>
    /\ UNCHANGED <<started, rejected>>

ConnectCallback(r) ==
    /\ req[r].link = "connecting"
    /\ req' = [req EXCEPT ![r] = HeadSent(@)]
    /\ UNCHANGED <<calls, status, started, rejected>>

SendCallback(r) ==
    /\ req[r].sending
    /\ req' = [req EXCEPT ![r] = BodySent(@)]
    /\ UNCHANGED <<calls, status, started, rejected>>

\* Segments may still arrive between espconn_disconnect and the end.
ReceiveCallback(r) ==
    /\ req[r].link \in {"up", "closing"}
    /\ req[r].got < MaxSeg
    /\ \/ ~TooLong(req[r]) /\ req' = [req EXCEPT ![r] = Stored(@)]
       \/ req' = [req EXCEPT ![r] = Discarded(@)]
    /\ UNCHANGED <<calls, status, started, rejected>>

\* Slip: the response is reported even when its redirection is followed.
FinishReporting(r, q) ==
    LET released == [req EXCEPT ![r] = Released(q)]
    IN  /\ \/ req' = released
           \/ /\ MayFollow(q)
              /\ \E n \in Fresh, out \in Lookups \ {"noname"} :
                    req' = [released EXCEPT ![n] =
                               Opened(q.owner, q.headers, q.post, q.follow + 1, out)]
        /\ \E s \in Statuses(q) : Answer(q.owner, s)
        /\ UNCHANGED <<started, rejected>>

\* http_disconnect_callback; q is the block r as the SDK leaves it.
Finish(r, q) ==
    LET released == [req EXCEPT ![r] = Released(q)]
    IN  /\ \/ /\ req' = released
              /\ \E s \in Statuses(q) : Answer(q.owner, s)
              /\ UNCHANGED rejected
           \/ /\ MayFollow(q)
              /\ \E n \in Fresh, out \in Lookups :
                    Launch(released, n, q.owner, q.headers, q.post,
                           q.follow + 1, out)
              /\ UNCHANGED rejected
           \/ /\ MayFollow(q)
              /\ req' = released
              /\ rejected' = rejected \cup {q.owner}
              /\ UNCHANGED <<calls, status>>
        /\ UNCHANGED started

\* The SDK reports the end of the connection.
DisconnectCallback(r) ==
    /\ req[r].link \in {"up", "closing"}
    /\ Finish(r, Ended(req[r]))

\* http_timeout_callback, called by the timer and by http_error_callback.
GiveUp(r, q) ==
    \E result \in Results(q) :
        LET d == Disconnected(q, result)
        IN  IF Awaits(result)
            THEN /\ req' = [req EXCEPT ![r] = d]
                 /\ UNCHANGED <<calls, status, started, rejected>>
            ELSE Finish(r, d)

\* The SDK reports an error: the link is gone already.
ErrorCallback(r) ==
    /\ req[r].link # "none"
    /\ GiveUp(r, Ended(req[r]))

\* timeout_timer fires, once.
TimeoutCallback(r) ==
    /\ req[r].timer
    /\ GiveUp(r, [req[r] EXCEPT !.timer = FALSE])

Next ==
    \/ \E c \in Call : HttpRequest(c)
    \/ \E r \in Req :
          \/ DnsCallback(r)
          \/ ConnectCallback(r)
          \/ SendCallback(r)
          \/ ReceiveCallback(r)
          \/ DisconnectCallback(r)
          \/ ErrorCallback(r)
          \/ TimeoutCallback(r)

Spec == Init /\ [][Next]_vars

(***************************************************************************)
(* The SDK answers every lookup (its resolver gives up by itself), fires   *)
(* every armed timer, and ends every connection it was told to disconnect. *)
(* No server is assumed to answer or to hang up.                           *)
(***************************************************************************)
EndOfClosing(r) ==
    req[r].link = "closing" /\ (DisconnectCallback(r) \/ ErrorCallback(r))

Fairness ==
    \A r \in Req :
        /\ WF_vars(DnsCallback(r))
        /\ WF_vars(TimeoutCallback(r))
        /\ WF_vars(EndOfClosing(r))

FairSpec == Spec /\ Fairness

-----------------------------------------------------------------------------
(* Properties.                                                             *)

\* The shape of the state; a buffer never grows past BUFFER_SIZE_MAX (the
\* terminator takes one unit) and no hop counts past REDIRECTION_FOLLOW_MAX.
TypeOK ==
    /\ req \in [Req -> ReqState]
    /\ calls \in [Call -> Nat]
    /\ status \in [Call -> {"none", "ok", "error"}]
    /\ started \subseteq Call
    /\ rejected \subseteq Call
    /\ \A r \in Req : Len(req[r].buf) + 1 <= BufferMax

\* A block is referenced by a lookup, a timer or a link that can still call
\* back only while it is allocated, and by the latter two only while the
\* espconn they pass is allocated too: no handler ever runs on freed memory,
\* whichever of timer, error, disconnect and send callbacks comes first.
Referenced(r) ==
    req[r].dns \/ req[r].timer \/ req[r].sending \/ req[r].link # "none"

NoDanglingCallback ==
    \A r \in Req :
        /\ Referenced(r) => req[r].mem = "live"
        /\ Referenced(r) /\ ~req[r].dns => req[r].conn = "live"

\* Every allocated block has something that will wake it up: a lookup, an
\* armed timer, or a link told to close.  A connection attempt that the SDK
\* refused and a server that says nothing are covered by the timer.
WakeUp(r) == req[r].dns \/ req[r].timer \/ req[r].link = "closing"

NoOrphan == \A r \in Req : req[r].mem = "live" => WakeUp(r)

\* The callback of a call runs at most once, and after it ran, or after its
\* URL was refused, nothing allocated for the call is left.
Live(c) == {r \in Req : req[r].mem = "live" /\ req[r].owner = c}

AnsweredOnce ==
    \A c \in Call :
        /\ calls[c] <= 1
        /\ calls[c] = 1 => c \notin rejected
        /\ calls[c] = 1 \/ c \in rejected =>
              \A r \in Req : req[r].owner = c =>
                  req[r].mem = "freed" /\ req[r].conn # "live"

\* A call that was made is being worked on, by exactly one block, or was
\* answered, or its URL was refused: no path through the redirections and
\* failures forgets it.
NoSilentLoss ==
    \A c \in started :
        calls[c] = 0 /\ c \notin rejected => \E r \in Req : Live(c) = {r}

\* "Discard the buffer to avoid using an incomplete response" (line 144): a
\* response of which a segment was not stored, for its length or for want of
\* memory, is reported as an error and never followed, even when the segment
\* lost was the first and later ones were stored.
LostMeansError ==
    \A r \in Req :
        /\ req[r].lost /\ req[r].mem = "freed" =>
              status[req[r].owner] = "error"
        /\ Readable(req[r]) => \A i \in DOMAIN req[r].buf : req[r].buf[i] = i

\* On one connection the body goes out at most once, and only when the head
\* announced it with Content-Length.
BodyAnnounced ==
    \A r \in Req : req[r].bodies <= IF req[r].length THEN 1 ELSE 0

\* A call makes one request and follows at most REDIRECTION_FOLLOW_MAX
\* redirections, whatever the servers answer.
HopsBounded ==
    \A c \in Call :
        Cardinality({r \in Req : req[r].owner = c}) <= FollowMax + 1

\* What a caller sees of a call, in the terms of HttpPromise.
Phase(c) ==
    CASE c \notin started -> "idle"
      [] c \in started /\ calls[c] > 0 -> "done"
      [] c \in started /\ calls[c] = 0 /\ c \in rejected -> "dropped"
      [] OTHER -> "pending"

Promise ==
    INSTANCE HttpPromise WITH phase <- [c \in Call |-> Phase(c)],
                              verdict <- status

\* Every step of the client is one step of the promise or none: an answer is
\* final, a call that was answered is never answered again or given another
\* status, and one callback settles one call.
ImplementsPromise == Promise!PSpec

\* Moreover every call is settled in the end: the timer covers a connection
\* that is refused, a server that stays silent and one that never hangs up.
KeepsPromise == Promise!PFairSpec
=============================================================================
