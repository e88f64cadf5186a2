---------------------------- MODULE HttpPromise ----------------------------
(***************************************************************************)
(* What app/http/httpclient.c promises its caller, app/module/http.c:      *)
(* a call of http_request is refused on the spot, or it is answered by     *)
(* exactly one invocation of its callback, or it is abandoned because the  *)
(* server redirected it to a URL the parser refuses.  Nothing is said of   *)
(* sockets, timers, DNS or memory: HttpClient implements this module.      *)
(***************************************************************************)
CONSTANT Call                 \* the calls of http_request a script makes

VARIABLES
    phase,                    \* where each call stands
    verdict                   \* the status its callback was given

pvars == <<phase, verdict>>

Phases   == {"idle", "pending", "done", "dropped"}
Verdicts == {"none", "ok", "error"}

PTypeOK ==
    /\ phase \in [Call -> Phases]
    /\ verdict \in [Call -> Verdicts]

PInit ==
    /\ phase = [c \in Call |-> "idle"]
    /\ verdict = [c \in Call |-> "none"]

Move(c, from, to) ==
    /\ phase[c] = from
    /\ phase' = [phase EXCEPT ![c] = to]

\* The request is under way: its callback comes later.
Submit(c) ==
    /\ Move(c, "idle", "pending")
    /\ UNCHANGED verdict

\* The URL is not parsed: http_request returns and calls nobody.
Reject(c) ==
    /\ Move(c, "idle", "dropped")
    /\ UNCHANGED verdict

\* The name lookup fails at once: the callback runs inside http_request.
FailFast(c) ==
    /\ Move(c, "idle", "done")
    /\ verdict' = [verdict EXCEPT ![c] = "error"]

\* The callback of a pending request runs.
Complete(c, v) ==
    /\ Move(c, "pending", "done")
    /\ verdict' = [verdict EXCEPT ![c] = v]

\* The request was redirected to a URL that is not parsed.
Abandon(c) ==
    /\ Move(c, "pending", "dropped")
    /\ UNCHANGED verdict

Settle(c) == Abandon(c) \/ \E v \in {"ok", "error"} : Complete(c, v)

PNext ==
    \E c \in Call : Submit(c) \/ Reject(c) \/ FailFast(c) \/ Settle(c)

PSpec == PInit /\ [][PNext]_pvars

PFairSpec == PSpec /\ \A c \in Call : WF_pvars(Settle(c))
=============================================================================
