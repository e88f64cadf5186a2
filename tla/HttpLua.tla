------------------------------ MODULE HttpLua ------------------------------
(***************************************************************************)
(* The Lua side of the HTTP client, app/module/http.c.  One static int,    *)
(* http_callback_registry, holds the key under which the function passed   *)
(* to the last http.get, post, put, delete or request is kept in the Lua   *)
(* registry.  The client below is the abstract one, HttpPromise.           *)
(*                                                                         *)
(* The registry is shared with the other C modules: luaL_ref hands out any *)
(* free key, so a key freed here may at once belong to somebody else.      *)
(***************************************************************************)
EXTENDS Naturals, Sequences, FiniteSets

CONSTANTS
    Call,                     \* the calls scripts make, and their functions
    Key,                      \* keys of the Lua registry
    NoRef                     \* LUA_NOREF

ASSUME LuaConstants ==
    /\ NoRef \notin Key
    /\ {"free", "other"} \cap Call = {}

VARIABLES
    phase, verdict,           \* the client, as HttpPromise has it
    http_callback_registry,   \* a key, or LUA_NOREF
    table,                    \* what the Lua registry holds under each key
    others,                   \* the keys other C modules believe they hold
    passed,                   \* the calls that passed a function
    overlapped,               \* a call was made while another was pending
    got                       \* what each function was called with

luavars == <<phase, verdict, http_callback_registry, table, others, passed,
             overlapped, got>>

Client == INSTANCE HttpPromise

LuaInit ==
    /\ Client!PInit
    /\ http_callback_registry = NoRef
    /\ table = [k \in Key |-> "free"]
    /\ others = {}
    /\ passed = {}
    /\ overlapped = FALSE
    /\ got = [c \in Call |-> <<>>]

-----------------------------------------------------------------------------
(* The Lua registry.                                                       *)

\* luaL_unref: nothing happens for LUA_NOREF.
Unref(t, k) == IF k = NoRef THEN t ELSE [t EXCEPT ![k] = "free"]

Free(t) == {k \in Key : t[k] = "free"}

\* A C module other than this one keeps a value in the registry, or lets it
\* go (bound: a key is left for this module).
OtherRef ==
    /\ Cardinality(Free(table)) > 1
    /\ \E k \in Free(table) :
          /\ table' = [table EXCEPT ![k] = "other"]
          /\ others' = others \cup {k}
    /\ UNCHANGED <<phase, verdict, http_callback_registry, passed, overlapped, got>>

OtherUnref ==
    /\ \E k \in others :
          /\ table' = Unref(table, k)
          /\ others' = others \ {k}
    /\ UNCHANGED <<phase, verdict, http_callback_registry, passed, overlapped, got>>

-----------------------------------------------------------------------------

(* What the C code of the module does.                                     *)

\* Slip: the static keeps the key it gave back.
RunCallbackKeepingKey(c, v, t, k) ==
    /\ table' = Unref(t, k)
    /\ http_callback_registry' = k
    /\ got' = IF k = NoRef THEN got
              ELSE [got EXCEPT ![t[k]] = Append(@, [call |-> c, status |-> v])]

\* Slip: the function stays referenced.
RunCallbackNoUnref(c, v, t, k) ==
    /\ table' = t
    /\ http_callback_registry' = NoRef
    /\ got' = IF k = NoRef THEN got
              ELSE [got EXCEPT ![t[k]] = Append(@, [call |-> c, status |-> v])]

\* Slip: the function is neither let go nor forgotten.
RunCallbackForGood(c, v, t, k) ==
    /\ table' = t
    /\ http_callback_registry' = k
    /\ got' = IF k = NoRef THEN got
              ELSE [got EXCEPT ![t[k]] = Append(@, [call |-> c, status |-> v])]

\* Slip: an error is not passed on.
RunCallbackOnSuccess(c, v, t, k) ==
    /\ table' = Unref(t, k)
    /\ http_callback_registry' = NoRef
    /\ got' = IF k = NoRef \/ v = "error" THEN got
              ELSE [got EXCEPT ![t[k]] = Append(@, [call |-> c, status |-> v])]

\* http_callback for call c with status v, where the registry is t and the
\* static holds k: without a function nothing happens; otherwise the function
\* is let go and the static reset before the function runs.  What the function
\* does, calling http.get for one, comes after, as a step of its own.
RunCallback(c, v, t, k) ==
    /\ table' = Unref(t, k)
    /\ http_callback_registry' = NoRef
    /\ got' = IF k = NoRef THEN got
              ELSE [got EXCEPT ![t[k]] = Append(@, [call |-> c, status |-> v])]

\* Slip: a function that is already kept is not replaced.
RegisteredOnce(c, withFunction) ==
    IF withFunction /\ http_callback_registry = NoRef
    THEN {[key |-> k, table |-> [table EXCEPT ![k] = c]] : k \in Free(table)}
    ELSE {[key |-> http_callback_registry, table |-> table]}

\* The start of http_lapi_get and its siblings: a function passed takes the
\* place of the one kept so far.  The keys and tables that may result.
Registered(c, withFunction) ==
    IF withFunction
    THEN LET rest == Unref(table, http_callback_registry)
         IN  {[key |-> k, table |-> [rest EXCEPT ![k] = c]] : k \in Free(rest)}
    ELSE {[key |-> http_callback_registry, table |-> table]}

\* http.get, post, put, delete or request.
HttpGet(c, withFunction) ==
    /\ overlapped' = (overlapped \/ \E d \in Call : phase[d] = "pending")
    /\ passed' = IF withFunction THEN passed \cup {c} ELSE passed
    /\ \E new \in Registered(c, withFunction) :
          \/ /\ Client!Submit(c) \/ Client!Reject(c)
             /\ table' = new.table
             /\ http_callback_registry' = new.key
             /\ UNCHANGED got
          \/ /\ Client!FailFast(c)
             /\ RunCallback(c, "error", new.table, new.key)
    /\ UNCHANGED others

\* Slip: the status is read before it is set.
HttpCallbackEarly(c) ==
    /\ \E v \in {"ok", "error"} :
          /\ Client!Complete(c, v)
          /\ RunCallback(c, verdict[c], table, http_callback_registry)
    /\ UNCHANGED <<others, passed, overlapped>>

\* The client calls http_callback.
HttpCallback(c) ==
    /\ \E v \in {"ok", "error"} :
          /\ Client!Complete(c, v)
          /\ RunCallback(c, v, table, http_callback_registry)
    /\ UNCHANGED <<others, passed, overlapped>>

\* The client forgets a call whose redirection it cannot parse.
ClientAbandons(c) ==
    /\ Client!Abandon(c)
    /\ UNCHANGED <<http_callback_registry, table, others, passed, overlapped, got>>

LuaNext ==
    \/ \E c \in Call :
          \/ \E withFunction \in BOOLEAN : HttpGet(c, withFunction)
          \/ HttpCallback(c)
          \/ ClientAbandons(c)
    \/ OtherRef
    \/ OtherUnref

LuaSpec == LuaInit /\ [][LuaNext]_luavars

\* The client settles every call in the end (HttpClient, KeepsPromise).
LuaFairSpec ==
    LuaSpec /\ \A c \in Call : WF_luavars(HttpCallback(c) \/ ClientAbandons(c))

-----------------------------------------------------------------------------
(* Properties.                                                             *)

LuaTypeOK ==
    /\ Client!PTypeOK
    /\ http_callback_registry \in Key \cup {NoRef}
    /\ table \in [Key -> Call \cup {"free", "other"}]
    /\ others \subseteq Key
    /\ passed \subseteq Call
    /\ overlapped \in BOOLEAN
    /\ got \in [Call -> Seq([call : Call, status : {"ok", "error"}])]

\* The registry holds a function of a script exactly under the key the static
\* remembers: none is leaked, by overlapping calls, refused URLs or callbacks
\* that run inside http.get, and none the static points to is gone.
NoLeakedFunction ==
    {k \in Key : table[k] \in Call} = {http_callback_registry} \ {NoRef}

\* A key given to another module is never freed, overwritten or called here,
\* although keys are reused: the static never outlives its reference.
OthersKept ==
    /\ \A k \in others : table[k] = "other"
    /\ http_callback_registry \notin others

\* A function is run at most once, whatever overlaps or is omitted.
RunsAtMostOnce == \A c \in Call : Len(got[c]) <= 1

\* Every call made so far passed a function.
AllPassed == \A c \in Call : phase[c] # "idle" => c \in passed

Own(c) == \A i \in DOMAIN got[c] : got[c][i] = [call |-> c, status |-> verdict[c]]

\* A script that passes a function with every call and waits for the end of
\* one call before it makes the next has every function run with the result
\* of its own call, although a function left behind by a refused URL or an
\* abandoned redirection is still registered when the next call is made.
OwnResult == AllPassed /\ ~overlapped => \A c \in Call : Own(c)

\* "In case of TCP or DNS error the callback is called with this status"
\* (httpclient.h:35): the functions of such a script all run in the end, save
\* those of calls whose URL or redirection is refused.
FunctionRuns ==
    \A c \in Call :
        c \in passed ~>
            got[c] # <<>> \/ phase[c] = "dropped" \/ overlapped \/ ~AllPassed

\* "http.get( url, header, function(status, reponse) end )" (line 242): the
\* function passed with a call is given the result of that call, when calls
\* overlap as well.
OwnResultOverlapped == AllPassed => \A c \in Call : Own(c)
=============================================================================
