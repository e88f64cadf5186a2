--------------------------- MODULE HttpLuaProofs ---------------------------
(***************************************************************************)
(* Proofs about app/module/http.c and the texts of app/http/httpclient.c.  *)
(* Of HttpLua, for any calls and any registry: the key the C module keeps  *)
(* and the Lua registry agree, the keys of other modules stay theirs, and  *)
(* each function runs at most once, with its own result when calls do not  *)
(* overlap.  Of HttpText, for responses and chains of redirections of any  *)
(* length: the client is where the last server meant, an answer has the    *)
(* body that was sent, or its start if the connection was cut, and the     *)
(* table a function is given is the header that was sent.                  *)
(***************************************************************************)
EXTENDS HttpLua, HttpText, WellFoundedInduction, SequenceTheorems, TLAPS

Entries == Call \cup {"free", "other"}

Results == [call : Call, status : {"ok", "error"}]

LEMMA Separate == NoRef \notin Key /\ "free" \notin Call /\ "other" \notin Call
  BY LuaConstants DEF LuaConstants

-----------------------------------------------------------------------------
(* The inductive invariant.                                                *)

\* Registry t holds a function under key k and under no other.
Holds(t, k) ==
    /\ t \in [Key -> Entries]
    /\ k \in Key \cup {NoRef}
    /\ \A x \in Key : t[x] \in Call <=> x = k
    /\ \A x \in others : t[x] = "other"

Unrun(t) == \A x \in Key : t[x] \in Call => got[t[x]] = <<>>

\* The function in t is one of a call that was made, and has not run.
Waiting(t) ==
    \A x \in Key : t[x] \in Call => got[t[x]] = <<>> /\ phase[t[x]] # "idle"

\* A function runs once at most, and not before its call is made.
Ran ==
    \A c \in Call :
        /\ got[c] = <<>> \/ \E e \in Results : got[c] = <<e>>
        /\ phase[c] = "idle" => got[c] = <<>> /\ c \notin passed

\* Of a script that passes a function each time and waits for the end of each
\* call, the function kept is that of the pending call.
Paired ==
    AllPassed /\ ~overlapped =>
        \A c \in Call :
            /\ phase[c] = "pending" =>
                  http_callback_registry \in Key /\ table[http_callback_registry] = c
            /\ got[c] # <<>> =>
                  phase[c] = "done" /\ got[c] = <<[call |-> c, status |-> verdict[c]]>>

Types ==
    /\ Client!PTypeOK
    /\ others \subseteq Key
    /\ passed \subseteq Call
    /\ overlapped \in BOOLEAN
    /\ got \in [Call -> Seq(Results)]

IInv ==
    /\ Types
    /\ Holds(table, http_callback_registry)
    /\ Waiting(table)
    /\ Ran
    /\ Paired

LEMMA InitIInv == LuaInit => IInv
<1> SUFFICES ASSUME LuaInit PROVE IInv
  OBVIOUS
<1>1. Types
  <2>1. Client!PTypeOK
    BY DEF LuaInit, Client!PInit, Client!PTypeOK, Client!Phases, Client!Verdicts
  <2>2. got \in [Call -> Seq(Results)]
    <3>1. <<>> \in Seq(Results)
      BY SMT
    <3> QED BY <3>1 DEF LuaInit
  <2> QED BY <2>1, <2>2 DEF LuaInit, Types
<1>2. Holds(table, http_callback_registry) /\ Waiting(table)
  BY Separate DEF LuaInit, Holds, Waiting, Entries
<1>3. Ran /\ Paired
  BY DEF LuaInit, Client!PInit, Ran, Paired
<1> QED BY <1>1, <1>2, <1>3 DEF IInv

-----------------------------------------------------------------------------
(* What the C code does.                                                   *)

\* Letting a function go leaves no function.
LEMMA UnrefHolds ==
    ASSUME NEW t, NEW k, Holds(t, k), others \subseteq Key
    PROVE  Holds(Unref(t, k), NoRef)
<1>1. CASE k = NoRef
  BY <1>1 DEF Unref
<1>2. CASE k \in Key
  <2>1. Unref(t, k) = [t EXCEPT ![k] = "free"]
    BY <1>2, Separate DEF Unref
  <2>2. [t EXCEPT ![k] = "free"] \in [Key -> Entries]
    BY <1>2 DEF Holds, Entries
  <2>3. \A x \in Key : [t EXCEPT ![k] = "free"][x] \notin Call
    BY <1>2, Separate DEF Holds
  <2>4. k \notin others
    BY <1>2, Separate DEF Holds
  <2>5. \A x \in others : [t EXCEPT ![k] = "free"][x] = "other"
    BY <2>4 DEF Holds
  <2> QED BY <2>1, <2>2, <2>3, <2>5, Separate DEF Holds
<1> QED BY <1>1, <1>2 DEF Holds

\* The registry after a call registered its function, or none.
LEMMA RegisteredHolds ==
    ASSUME IInv, NEW c \in Call, phase[c] = "idle", NEW b \in BOOLEAN,
           NEW new \in Registered(c, b)
    PROVE  /\ Holds(new.table, new.key)
           /\ \A x \in Key : new.table[x] \in Call => got[new.table[x]] = <<>>
           /\ \A x \in Key : new.table[x] \in Call =>
                  phase[new.table[x]] # "idle" \/ new.table[x] = c
           /\ b => new.key \in Key /\ new.table[new.key] = c
<1>1. CASE ~b
  <2>1. new.key = http_callback_registry /\ new.table = table
    BY <1>1 DEF Registered
  <2> QED BY <2>1, <1>1 DEF IInv, Waiting
<1>2. CASE b
  <2> DEFINE rest == Unref(table, http_callback_registry)
  <2>1. Holds(rest, NoRef)
    BY UnrefHolds DEF IInv, Types
  <2>2. PICK k \in Free(rest) : new = [key |-> k, table |-> [rest EXCEPT ![k] = c]]
    BY <1>2, Zenon DEF Registered
  <2> HIDE DEF rest
  <2>3. k \in Key /\ rest[k] = "free"
    BY DEF Free
  <2>4. \A x \in Key : rest[x] \notin Call
    BY <2>1, Separate DEF Holds
  <2>5. new.table \in [Key -> Entries] /\ new.table[k] = c
    BY <2>1, <2>2, <2>3 DEF Holds, Entries
  <2>6. \A x \in Key : x # k => new.table[x] \notin Call
    BY <2>1, <2>2, <2>4 DEF Holds
  <2>7. \A x \in others : new.table[x] = "other"
    BY <2>1, <2>2, <2>3 DEF Holds, IInv, Types
  <2>8. Holds(new.table, new.key)
    BY <2>2, <2>3, <2>5, <2>6, <2>7 DEF Holds
  <2>9. got[c] = <<>>
    BY DEF IInv, Ran
  <2> QED BY <2>2, <2>3, <2>5, <2>6, <2>8, <2>9
<1> QED BY <1>1, <1>2

\* After http_callback no function is kept, and the one that was kept, if any,
\* has run once.
RunsOnce(c, v, t, k) ==
    /\ Holds(table', NoRef) /\ http_callback_registry' = NoRef
    /\ got' \in [Call -> Seq(Results)]
    /\ \A d \in Call :
          IF k \in Key /\ t[k] = d
          THEN got[d] = <<>> /\ got'[d] = <<[call |-> c, status |-> v]>>
          ELSE got'[d] = got[d]

LEMMA CallbackRuns ==
    ASSUME Types, NEW t, NEW k, NEW c \in Call, NEW v \in {"ok", "error"},
           Holds(t, k), Unrun(t), RunCallback(c, v, t, k)
    PROVE  RunsOnce(c, v, t, k)
<1> USE DEF RunsOnce, Unrun
<1>1. Holds(table', NoRef) /\ http_callback_registry' = NoRef
  BY UnrefHolds DEF RunCallback, Types
<1>2. CASE k = NoRef
  BY <1>1, <1>2, Separate DEF RunCallback, Types
<1>3. CASE k \in Key
  <2>1. t[k] \in Call /\ got[t[k]] = <<>>
    BY <1>3 DEF Holds
  <2> DEFINE e == [call |-> c, status |-> v]
  <2>2. e \in Results
    BY DEF Results
  <2>3. got' = [got EXCEPT ![t[k]] = Append(@, e)]
    BY <1>3, Separate DEF RunCallback
  <2> HIDE DEF e
  <2>4. Append(<<>>, e) = <<e>>
    BY SMT
  <2>5. got' = [got EXCEPT ![t[k]] = <<e>>]
    BY <2>1, <2>3, <2>4
  <2>6. <<e>> \in Seq(Results)
    BY <2>2, SMT
  <2>7. got \in [Call -> Seq(Results)]
    BY DEF Types
  <2>8. got' \in [Call -> Seq(Results)]
    BY <2>1, <2>5, <2>6, <2>7
  <2>9. \A d \in Call : got'[d] = IF t[k] = d THEN <<e>> ELSE got[d]
    BY <2>1, <2>5, <2>7
  <2> QED BY <1>1, <1>3, <2>1, <2>8, <2>9 DEF e
<1> QED BY <1>2, <1>3 DEF Holds

-----------------------------------------------------------------------------
(* The actions.                                                            *)

LEMMA HttpGetStep ==
    ASSUME IInv, NEW c \in Call, NEW b \in BOOLEAN, HttpGet(c, b)
    PROVE  IInv'
<1>1. PICK new \in Registered(c, b) :
         \/ /\ Client!Submit(c) \/ Client!Reject(c)
            /\ table' = new.table
            /\ http_callback_registry' = new.key
            /\ UNCHANGED got
         \/ /\ Client!FailFast(c)
            /\ RunCallback(c, "error", new.table, new.key)
  BY DEF HttpGet
<1>2. phase[c] = "idle" /\ phase \in [Call -> Client!Phases]
      /\ verdict \in [Call -> Client!Verdicts]
  BY <1>1 DEF Client!Submit, Client!Reject, Client!FailFast, Client!Move, IInv, Types,
              Client!PTypeOK
<1>3. /\ Holds(new.table, new.key)
      /\ \A x \in Key : new.table[x] \in Call => got[new.table[x]] = <<>>
      /\ \A x \in Key : new.table[x] \in Call =>
             phase[new.table[x]] # "idle" \/ new.table[x] = c
      /\ b => new.key \in Key /\ new.table[new.key] = c
  BY <1>2, RegisteredHolds
<1>4. /\ phase'[c] \in {"pending", "dropped", "done"}
      /\ \A d \in Call : d # c => phase'[d] = phase[d] /\ verdict'[d] = verdict[d]
      /\ Client!PTypeOK'
  BY <1>1, <1>2 DEF Client!Submit, Client!Reject, Client!FailFast, Client!Move,
                    Client!PTypeOK, Client!Phases, Client!Verdicts
<1>5. /\ others' = others
      /\ passed' = IF b THEN passed \cup {c} ELSE passed
      /\ overlapped' = (overlapped \/ \E d \in Call : phase[d] = "pending")
  BY DEF HttpGet
<1>6. got[c] = <<>> /\ c \notin passed
  BY <1>2 DEF IInv, Ran
\* When the script behaves, this call passes a function and none is pending.
<1>7. ASSUME AllPassed', ~overlapped'
      PROVE  /\ AllPassed /\ ~overlapped /\ b
             /\ \A d \in Call : phase[d] # "pending"
  <2>1. c \in passed'
    BY <1>4, <1>7 DEF AllPassed
  <2>2. b
    BY <2>1, <1>5, <1>6
  <2>3. AllPassed
    <3>1. \A d \in Call : phase[d] # "idle" => d # c /\ phase'[d] # "idle"
      BY <1>2, <1>4
    <3> QED BY <3>1, <1>5, <1>7 DEF AllPassed
  <2> QED BY <2>2, <2>3, <1>5, <1>7
<1>8. CASE UNCHANGED got /\ table' = new.table /\ http_callback_registry' = new.key
  <2>1. Types'
    BY <1>4, <1>5, <1>8 DEF IInv, Types
  <2>2. Holds(table, http_callback_registry)'
    BY <1>3, <1>5, <1>8 DEF Holds
  <2>3. Waiting(table)'
    BY <1>3, <1>4, <1>8 DEF Waiting
  <2>4. Ran'
    BY <1>4, <1>5, <1>8 DEF IInv, Ran
  <2>5. Paired'
    <3> SUFFICES ASSUME AllPassed', ~overlapped', NEW d \in Call
                 PROVE  /\ phase'[d] = "pending" =>
                             /\ http_callback_registry' \in Key
                             /\ table'[http_callback_registry'] = d
                        /\ got'[d] # <<>> =>
                             /\ phase'[d] = "done"
                             /\ got'[d] = <<[call |-> d, status |-> verdict'[d]]>>
      BY DEF Paired
    <3>1. CASE d = c
      BY <3>1, <1>3, <1>6, <1>7, <1>8
    <3>2. CASE d # c
      BY <3>2, <1>4, <1>7, <1>8 DEF IInv, Paired
    <3> QED BY <3>1, <3>2
  <2> QED BY <2>1, <2>2, <2>3, <2>4, <2>5 DEF IInv
<1>9. CASE Client!FailFast(c) /\ RunCallback(c, "error", new.table, new.key)
  <2>1. /\ Holds(table', NoRef) /\ http_callback_registry' = NoRef
        /\ got' \in [Call -> Seq(Results)]
        /\ \A d \in Call :
              IF new.key \in Key /\ new.table[new.key] = d
              THEN got[d] = <<>> /\ got'[d] = <<[call |-> c, status |-> "error"]>>
              ELSE got'[d] = got[d]
    <3>1. Types /\ Unrun(new.table)
      BY <1>3 DEF IInv, Unrun
    <3>2. RunsOnce(c, "error", new.table, new.key)
      BY <1>3, <1>9, <3>1, CallbackRuns
    <3> QED BY <3>2 DEF RunsOnce
  <2>2. phase'[c] = "done" /\ verdict'[c] = "error"
    BY <1>2, <1>9 DEF Client!FailFast, Client!Move
  <2>3. Types'
    BY <2>1, <1>4, <1>5 DEF IInv, Types
  <2>4. Holds(table, http_callback_registry)' /\ Waiting(table)'
    BY <2>1, <1>5, Separate DEF Holds, Waiting
  <2>5. Ran'
    <3>1. [call |-> c, status |-> "error"] \in Results
      BY DEF Results
    <3>2. ASSUME NEW d \in Call, new.key \in Key, new.table[new.key] = d
          PROVE  phase'[d] # "idle"
      BY <3>2, <1>3, <1>4, <2>2
    <3>3. ASSUME NEW d \in Call
          PROVE  /\ got'[d] = <<>> \/ \E e \in Results : got'[d] = <<e>>
                 /\ phase'[d] = "idle" => got'[d] = <<>> /\ d \notin passed'
      <4>1. CASE new.key \in Key /\ new.table[new.key] = d
        BY <4>1, <2>1, <3>1, <3>2
      <4>2. CASE ~(new.key \in Key /\ new.table[new.key] = d)
        BY <4>2, <2>1, <2>2, <1>4, <1>5 DEF IInv, Ran
      <4> QED BY <4>1, <4>2
    <3> QED BY <3>3 DEF Ran
  <2>6. Paired'
    <3> SUFFICES ASSUME AllPassed', ~overlapped', NEW d \in Call
                 PROVE  /\ phase'[d] # "pending"
                        /\ got'[d] # <<>> =>
                             /\ phase'[d] = "done"
                             /\ got'[d] = <<[call |-> d, status |-> verdict'[d]]>>
      BY DEF Paired
    <3>1. CASE d = c
      BY <3>1, <1>3, <1>7, <2>1, <2>2
    <3>2. CASE d # c
      BY <3>2, <1>3, <1>4, <1>7, <2>1 DEF IInv, Paired
    <3> QED BY <3>1, <3>2
  <2> QED BY <2>3, <2>4, <2>5, <2>6 DEF IInv
<1> QED BY <1>1, <1>8, <1>9

LEMMA HttpCallbackStep ==
    ASSUME IInv, NEW c \in Call, HttpCallback(c)
    PROVE  IInv'
<1>1. PICK v \in {"ok", "error"} :
         Client!Complete(c, v) /\ RunCallback(c, v, table, http_callback_registry)
  BY DEF HttpCallback
<1>2. /\ phase[c] = "pending" /\ phase'[c] = "done" /\ verdict'[c] = v
      /\ \A d \in Call : d # c => phase'[d] = phase[d] /\ verdict'[d] = verdict[d]
      /\ Client!PTypeOK'
  BY <1>1 DEF Client!Complete, Client!Move, IInv, Types, Client!PTypeOK,
              Client!Phases, Client!Verdicts
<1>3. others' = others /\ passed' = passed /\ overlapped' = overlapped
  BY DEF HttpCallback
<1>4. /\ Holds(table', NoRef) /\ http_callback_registry' = NoRef
      /\ got' \in [Call -> Seq(Results)]
      /\ \A d \in Call :
            IF http_callback_registry \in Key /\ table[http_callback_registry] = d
            THEN got[d] = <<>> /\ got'[d] = <<[call |-> c, status |-> v]>>
            ELSE got'[d] = got[d]
  <2>1. Types /\ Holds(table, http_callback_registry) /\ Unrun(table)
    BY DEF IInv, Waiting, Unrun
  <2>2. RunsOnce(c, v, table, http_callback_registry)
    BY <1>1, <2>1, CallbackRuns
  <2> QED BY <2>2 DEF RunsOnce
<1>5. Types'
  BY <1>2, <1>3, <1>4 DEF IInv, Types
<1>6. Holds(table, http_callback_registry)' /\ Waiting(table)'
  BY <1>3, <1>4, Separate DEF Holds, Waiting
<1>7. Ran'
  <2>1. [call |-> c, status |-> v] \in Results
    BY DEF Results
  <2>2. ASSUME NEW d \in Call
        PROVE  /\ got'[d] = <<>> \/ \E e \in Results : got'[d] = <<e>>
               /\ phase'[d] = "idle" => got'[d] = <<>> /\ d \notin passed'
    <3>1. CASE http_callback_registry \in Key /\ table[http_callback_registry] = d
      <4>1. phase[d] # "idle"
        BY <3>1 DEF IInv, Waiting
      <4> QED BY <3>1, <4>1, <2>1, <1>2, <1>4
    <3>2. CASE ~(http_callback_registry \in Key /\ table[http_callback_registry] = d)
      BY <3>2, <1>2, <1>3, <1>4 DEF IInv, Ran
    <3> QED BY <3>1, <3>2
  <2> QED BY <2>2 DEF Ran
<1>8. Paired'
  <2> SUFFICES ASSUME AllPassed', ~overlapped', NEW d \in Call
               PROVE  /\ phase'[d] # "pending"
                      /\ got'[d] # <<>> =>
                           /\ phase'[d] = "done"
                           /\ got'[d] = <<[call |-> d, status |-> verdict'[d]]>>
    BY DEF Paired
  <2>1. AllPassed /\ ~overlapped
    <3>1. \A e \in Call : phase[e] # "idle" => phase'[e] # "idle"
      BY <1>2
    <3> QED BY <1>3, <3>1 DEF AllPassed
  <2>2. http_callback_registry \in Key /\ table[http_callback_registry] = c
    BY <1>2, <2>1 DEF IInv, Paired
  <2>3. CASE d = c
    BY <2>2, <2>3, <1>2, <1>4
  <2>4. CASE d # c
    <3>1. phase[d] # "pending"
      BY <2>1, <2>2, <2>4 DEF IInv, Paired
    <3>2. got'[d] = got[d]
      BY <2>2, <2>4, <1>4
    <3> QED BY <2>1, <2>4, <3>1, <3>2, <1>2 DEF IInv, Paired
  <2> QED BY <2>3, <2>4
<1> QED BY <1>5, <1>6, <1>7, <1>8 DEF IInv

LEMMA AbandonStep ==
    ASSUME IInv, NEW c \in Call, ClientAbandons(c)
    PROVE  IInv'
<1>1. /\ phase[c] = "pending" /\ phase'[c] = "dropped" /\ verdict' = verdict
      /\ \A d \in Call : d # c => phase'[d] = phase[d]
      /\ Client!PTypeOK'
  BY DEF ClientAbandons, Client!Abandon, Client!Move, IInv, Types, Client!PTypeOK,
         Client!Phases
<1>2. UNCHANGED <<http_callback_registry, table, others, passed, overlapped, got>>
  BY DEF ClientAbandons
<1>3. Types' /\ Holds(table, http_callback_registry)'
  BY <1>1, <1>2 DEF IInv, Types, Holds
<1>4. Waiting(table)'
  BY <1>1, <1>2 DEF IInv, Waiting
<1>5. Ran'
  BY <1>1, <1>2 DEF IInv, Ran
<1>6. Paired'
  <2>1. AllPassed' => AllPassed
    BY <1>1, <1>2 DEF AllPassed
  <2>2. \A d \in Call : phase'[d] \in {"pending", "done"} => phase'[d] = phase[d]
    BY <1>1
  <2>3. AllPassed /\ ~overlapped => got[c] = <<>>
    BY <1>1 DEF IInv, Paired
  <2> QED BY <1>1, <1>2, <2>1, <2>2, <2>3 DEF IInv, Paired
<1> QED BY <1>3, <1>4, <1>5, <1>6 DEF IInv

\* The other modules only touch keys that hold no function.
LEMMA OthersStep ==
    ASSUME IInv, OtherRef \/ OtherUnref
    PROVE  IInv'
<1>1. UNCHANGED <<phase, verdict, http_callback_registry, passed, overlapped, got>>
  BY DEF OtherRef, OtherUnref
<1>2. PICK k \in Key :
         \/ /\ table[k] = "free"
            /\ table' = [table EXCEPT ![k] = "other"]
            /\ others' = others \cup {k}
         \/ /\ table[k] = "other"
            /\ table' = [table EXCEPT ![k] = "free"]
            /\ others' = others \ {k}
  <2>1. CASE OtherRef
    BY <2>1 DEF OtherRef, Free
  <2>2. CASE OtherUnref
    BY <2>2, Separate DEF OtherUnref, Unref, IInv, Types, Holds
  <2> QED BY <2>1, <2>2
<1>3. table \in [Key -> Entries] /\ k # http_callback_registry
  BY <1>2, Separate DEF IInv, Holds
<1>4. table' \in [Key -> Entries] /\ \A x \in Key : x # k => table'[x] = table[x]
  BY <1>2, <1>3 DEF Entries
<1>5. table'[k] \notin Call
  BY <1>2, <1>3, Separate
<1>6. others' \subseteq Key /\ \A x \in others' : table'[x] = "other"
  BY <1>2, <1>3, <1>4 DEF IInv, Types, Holds
<1>7. Types'
  BY <1>1, <1>6 DEF IInv, Types, Client!PTypeOK
<1>8. Holds(table, http_callback_registry)'
  BY <1>1, <1>3, <1>4, <1>5, <1>6 DEF IInv, Holds
<1>9. Waiting(table)'
  BY <1>1, <1>4, <1>5 DEF IInv, Waiting
<1>10. Ran'
  BY <1>1 DEF IInv, Ran
<1>11. Paired'
  BY <1>1, <1>3, <1>4 DEF IInv, Paired, AllPassed
<1> QED BY <1>7, <1>8, <1>9, <1>10, <1>11 DEF IInv

LEMMA NextIInv == IInv /\ [LuaNext]_luavars => IInv'
<1> SUFFICES ASSUME IInv, [LuaNext]_luavars PROVE IInv'
  OBVIOUS
<1>1. ASSUME NEW c \in Call, NEW b \in BOOLEAN, HttpGet(c, b) PROVE IInv'
  BY <1>1, HttpGetStep
<1>2. ASSUME NEW c \in Call, HttpCallback(c) PROVE IInv'
  BY <1>2, HttpCallbackStep
<1>3. ASSUME NEW c \in Call, ClientAbandons(c) PROVE IInv'
  BY <1>3, AbandonStep
<1>4. CASE OtherRef \/ OtherUnref
  BY <1>4, OthersStep
<1>5. CASE UNCHANGED luavars
  BY <1>5 DEF luavars, IInv, Types, Client!PTypeOK, Holds, Waiting, Ran, Paired, AllPassed
<1> QED BY <1>1, <1>2, <1>3, <1>4, <1>5 DEF LuaNext

-----------------------------------------------------------------------------
(* The theorems.                                                           *)

\* The inductive invariant, for any calls and any registry.
THEOREM LuaInvariance == LuaSpec => []IInv
  BY InitIInv, NextIInv, PTL DEF LuaSpec

\* The state keeps its shape.
THEOREM LuaTypes == LuaSpec => []LuaTypeOK
<1>1. IInv => LuaTypeOK
  BY DEF IInv, Types, Holds, Entries, Results, LuaTypeOK
<1> QED BY <1>1, LuaInvariance, PTL

\* The function kept is the only one in the registry, and none is lost.
THEOREM NoneLeaked == LuaSpec => []NoLeakedFunction
<1>1. IInv => NoLeakedFunction
  BY Separate DEF IInv, Holds, NoLeakedFunction
<1> QED BY <1>1, LuaInvariance, PTL

\* No key of another module is freed, overwritten or called by this one.
THEOREM OthersUntouched == LuaSpec => []OthersKept
<1>1. IInv => OthersKept
  BY Separate DEF IInv, Types, Holds, OthersKept
<1> QED BY <1>1, LuaInvariance, PTL

\* No function runs a second time.
THEOREM OneRun == LuaSpec => []RunsAtMostOnce
<1>1. IInv => RunsAtMostOnce
  <2> SUFFICES ASSUME IInv, NEW c \in Call PROVE Len(got[c]) <= 1
    BY DEF RunsAtMostOnce
  <2>1. got[c] = <<>> \/ \E e \in Results : got[c] = <<e>>
    BY DEF IInv, Ran
  <2>2. CASE got[c] = <<>>
    BY <2>2, SMT
  <2>3. ASSUME NEW e \in Results, got[c] = <<e>> PROVE Len(got[c]) <= 1
    <3>1. Len(<<e>>) = 1
      BY SMT
    <3> QED BY <2>3, <3>1
  <2> QED BY <2>1, <2>2, <2>3
<1> QED BY <1>1, LuaInvariance, PTL

\* A script that passes functions and does not overlap calls has each function
\* run with the result of its own call.
THEOREM OwnResults == LuaSpec => []OwnResult
<1>1. IInv => OwnResult
  <2> SUFFICES ASSUME IInv, AllPassed, ~overlapped, NEW c \in Call,
                      NEW i \in DOMAIN got[c]
               PROVE  got[c][i] = [call |-> c, status |-> verdict[c]]
    BY DEF OwnResult, Own
  <2>1. got[c] # <<>> => got[c] = <<[call |-> c, status |-> verdict[c]]>>
    BY DEF IInv, Paired
  <2> HIDE DEF IInv
  <2>2. got[c] # <<>>
    BY SMT
  <2> QED BY <2>1, <2>2, SMT
<1> QED BY <1>1, LuaInvariance, PTL

-----------------------------------------------------------------------------
(* Induction: a set of numbers that has one has a least one.               *)

LEMMA LeastNumber ==
    ASSUME NEW T \in SUBSET Nat, T # {}
    PROVE  \E x \in T : \A y \in T : x <= y
<1> DEFINE R == OpToRel(<, Nat)
<1>1. IsWellFoundedOn(R, Nat)
  BY NatLessThanWellFounded
<1>2. \A x, y \in Nat : x < y => <<x, y>> \in R
  BY DEF OpToRel
<1> HIDE DEF R
<1>3. \E x \in T : \A y \in T : ~(<<y, x>> \in R)
  BY <1>1, WFMin
<1>4. PICK x \in T : \A y \in T : ~(<<y, x>> \in R)
  BY <1>3
<1>5. \A y \in T : x \in Nat /\ y \in Nat /\ ~(y < x)
  BY <1>2, <1>4
<1> QED  BY <1>5

LEMMA Induction ==
    ASSUME NEW P \in SUBSET Nat, 0 \in P, \A n \in P : n + 1 \in P
    PROVE  \A n \in Nat : n \in P
<1> DEFINE T == Nat \ P
<1> SUFFICES ASSUME T # {} PROVE FALSE
  OBVIOUS
<1>1. T \in SUBSET Nat
  OBVIOUS
<1> HIDE DEF T
<1>2. PICK x \in T : \A y \in T : x <= y
  BY <1>1, LeastNumber
<1>3. x \in Nat /\ x \notin P /\ x # 0
  BY <1>2 DEF T
<1>4. x - 1 \in Nat /\ x - 1 \notin P
  BY <1>3
<1>5. x - 1 \in T
  BY <1>4 DEF T
<1> QED  BY <1>2, <1>3, <1>5

\* The largest of the places of a sequence that are in a set.
LEMMA GreatestPlace ==
    ASSUME NEW n \in Nat, NEW T \in SUBSET (1..n), T # {}
    PROVE  Max(T) \in T /\ \A y \in T : Max(T) >= y
<1> DEFINE U == {k \in Nat : n - k \in T}
<1>1. U \in SUBSET Nat /\ U # {}
  <2>1. PICK y \in T : TRUE
    OBVIOUS
  <2>2. n - y \in Nat /\ n - (n - y) = y
    OBVIOUS
  <2>3. n - y \in U
    BY <2>2
  <2> QED  BY <2>3
<1>2. PICK x \in U : \A y \in U : x <= y
  BY <1>1, LeastNumber
<1>3. n - x \in T /\ x \in Nat
  BY <1>2
<1>4. ASSUME NEW y \in T PROVE n - x >= y
  <2>1. n - y \in Nat /\ n - (n - y) = y
    OBVIOUS
  <2>2. n - y \in U
    BY <2>1
  <2> QED  BY <1>2, <1>3, <2>1, <2>2
<1> DEFINE z == n - x
<1>5. z \in T /\ \A y \in T : z >= y
  BY <1>3, <1>4
<1> HIDE DEF z
<1> HIDE DEF U
<1> QED  BY <1>5, Zenon DEF Max

-----------------------------------------------------------------------------
(* Places of a text.                                                       *)

\* What texts are made of; the words that the code knows are named.
Extension == {";", "2"}

Scheme == {"http://", "https://"}

Word == STRING \cup {":", SP, CR, LF, "HTTP/1.1", "0", "chunked"} \cup Scheme \cup Extension \cup Searched
           \cup {Digit(n) : n \in Nat}

Text == Seq(Word)

LEMMA Ends == ASSUME NEW t \in Text PROVE Len(t) \in Nat /\ Behind(t) = Len(t) + 1
  BY DEF Text, Behind

LEMMA SeekIs ==
    ASSUME NEW t \in Text, NEW i \in 1..Behind(t), NEW S, NEW k \in i..Behind(t),
           k = Behind(t) \/ t[k] \in S, \A m \in i..(k - 1) : t[m] \notin S
    PROVE  Seek(t, i, S) = k
<1> DEFINE Stands(x) == /\ x \in i..Behind(t)
                        /\ x = Behind(t) \/ t[x] \in S
                        /\ \A m \in i..(x - 1) : t[m] \notin S
           z == CHOOSE x : Stands(x)
<1>1. Seek(t, i, S) = CHOOSE x \in i..Behind(t) :
                         /\ x = Behind(t) \/ t[x] \in S
                         /\ \A m \in i..(x - 1) : t[m] \notin S
  BY DEF Seek
<1>2. \A x : Stands(x) => x = k
  <2> SUFFICES ASSUME NEW x, Stands(x) PROVE x = k
    OBVIOUS
  <2>1. x \in Int /\ k \in Int /\ i \in Int /\ Behind(t) \in Int
    BY Ends
  <2>2. ~(x < k)
    BY <2>1
  <2>3. ~(k < x)
    BY <2>1
  <2> QED  BY <2>1, <2>2, <2>3
<1>3. Stands(k)
  OBVIOUS
<1> QED  BY <1>1, <1>2, <1>3

LEMMA SkipIs ==
    ASSUME NEW t \in Text, NEW i \in 1..Behind(t), NEW S, NEW k \in i..Behind(t),
           k = Behind(t) \/ t[k] \notin S, \A m \in i..(k - 1) : t[m] \in S
    PROVE  Skip(t, i, S) = k
<1> DEFINE Stands(x) == /\ x \in i..Behind(t)
                        /\ x = Behind(t) \/ t[x] \notin S
                        /\ \A m \in i..(x - 1) : t[m] \in S
<1>1. Skip(t, i, S) = CHOOSE x \in i..Behind(t) :
                         /\ x = Behind(t) \/ t[x] \notin S
                         /\ \A m \in i..(x - 1) : t[m] \in S
  BY DEF Skip
<1>2. \A x : Stands(x) => x = k
  <2> SUFFICES ASSUME NEW x, Stands(x) PROVE x = k
    OBVIOUS
  <2>1. x \in Int /\ k \in Int /\ i \in Int /\ Behind(t) \in Int
    BY Ends
  <2>2. ~(x < k)
    BY <2>1
  <2>3. ~(k < x)
    BY <2>1
  <2> QED  BY <2>1, <2>2, <2>3
<1>3. Stands(k)
  OBVIOUS
<1> QED  BY <1>1, <1>2, <1>3

\* There is such a place, whatever the text.
LEMMA SeekThere ==
    ASSUME NEW t \in Text, NEW i \in 1..Behind(t), NEW S
    PROVE  Seek(t, i, S) \in i..Behind(t)
<1> DEFINE T == {x \in i..Behind(t) : x = Behind(t) \/ t[x] \in S}
<1>1. Behind(t) \in T /\ T \in SUBSET Nat
  BY Ends
<1>2. PICK k \in T : \A y \in T : k <= y
  BY <1>1, LeastNumber
<1>3. k \in i..Behind(t) /\ (k = Behind(t) \/ t[k] \in S)
  BY <1>2
<1>4. ASSUME NEW m \in i..(k - 1) PROVE t[m] \notin S
  <2>1. m \in i..Behind(t) /\ ~(k <= m)
    BY <1>3, Ends
  <2> QED  BY <1>2, <2>1
<1> HIDE DEF T
<1> QED  BY <1>3, <1>4, SeekIs

-----------------------------------------------------------------------------
(* Words in a text.                                                        *)

\* w stands in t from place p on.
Stands(w, t, p) ==
    /\ p \in Nat \ {0}
    /\ p + Len(w) <= Behind(t)
    /\ \A i \in 1..Len(w) : t[(p + i) - 1] = w[i]

LEMMA StandsBetween ==
    ASSUME NEW t \in Text, NEW w \in Text, NEW p, Stands(w, t, p)
    PROVE  Between(t, p, p + Len(w)) = w
<1> DEFINE n == Len(w)
           b == SubSeq(t, p, (p + n) - 1)
<1>1. Len(t) \in Nat /\ n \in Nat /\ p \in Nat \ {0} /\ p + n <= Len(t) + 1
  BY Ends DEF Stands
<1>2. \A i \in p..((p + n) - 1) : t[i] \in Word
  BY <1>1 DEF Text
<1>3. t \in Seq(Word)
  BY DEF Text
<1>4. Len(b) = n /\ b \in Seq(Word) /\ \A i \in 1..n : b[i] = t[(p + i) - 1]
  <2>1. /\ SubSeq(t, p, (p + n) - 1) \in Seq(Word)
        /\ Len(SubSeq(t, p, (p + n) - 1)) = IF p <= (p + n) - 1 THEN ((p + n) - 1) - p + 1 ELSE 0
        /\ \A i \in 1..((((p + n) - 1) - p) + 1) : SubSeq(t, p, (p + n) - 1)[i] = t[p + i - 1]
    <3>1. p \in 1..(Len(t) + 1) /\ (p + n) - 1 \in (p - 1)..Len(t)
      BY <1>1
    <3> QED  BY <1>3, <3>1, SubSeqProperties
  <2>2. (((p + n) - 1) - p) + 1 = n
    BY <1>1
  <2> QED  BY <1>1, <2>1, <2>2
<1>5. \A i \in 1..n : b[i] = w[i]
  BY <1>4 DEF Stands
<1> HIDE DEF b
<1>6. b = w
  BY <1>4, <1>5, SeqEqual DEF Text
<1> QED  BY <1>6 DEF b, Between

\* What stands in a text still does when it is continued.
LEMMA StandsOn ==
    ASSUME NEW t \in Text, NEW x \in Text, NEW w, NEW p, Len(w) \in Nat, Stands(w, t, p)
    PROVE  Stands(w, t \o x, p)
<1> DEFINE u == t \o x
<1>1. /\ u \in Text /\ Len(u) = Len(t) + Len(x)
      /\ \A i \in 1..Len(t) : u[i] = t[i]
  BY ConcatProperties DEF Text
<1>2. Len(x) \in Nat /\ Len(t) \in Nat
  BY Ends
<1> HIDE DEF u
<1>3. p \in Nat \ {0} /\ p + Len(w) <= Len(t) + 1 /\ p + Len(w) <= Len(u) + 1
  BY <1>1, <1>2, Ends DEF Stands
<1>4. ASSUME NEW i \in 1..Len(w) PROVE u[(p + i) - 1] = w[i]
  <2>1. (p + i) - 1 \in 1..Len(t)
    BY <1>2, <1>3
  <2> QED  BY <1>1, <2>1 DEF Stands
<1> QED  BY <1>1, <1>3, <1>4, Ends DEF Stands, u

\* What is appended stands behind what was there.
LEMMA StandsBehind ==
    ASSUME NEW t \in Text, NEW w \in Text
    PROVE  Stands(w, t \o w, Behind(t)) /\ Behind(t \o w) = Behind(t) + Len(w)
<1> DEFINE u == t \o w
<1>1. /\ u \in Text /\ Len(u) = Len(t) + Len(w)
      /\ \A i \in (Len(t) + 1)..(Len(t) + Len(w)) : u[i] = w[i - Len(t)]
  BY ConcatProperties DEF Text
<1>2. Len(w) \in Nat /\ Len(t) \in Nat
  BY Ends
<1> HIDE DEF u
<1>3. Behind(t) = Len(t) + 1 /\ Behind(u) = Len(t) + Len(w) + 1
  BY <1>1, Ends
<1>4. ASSUME NEW i \in 1..Len(w) PROVE u[(Behind(t) + i) - 1] = w[i]
  <2>1. (Behind(t) + i) - 1 \in (Len(t) + 1)..(Len(t) + Len(w)) /\ ((Behind(t) + i) - 1) - Len(t) = i
    BY <1>2, <1>3
  <2> QED  BY <1>1, <2>1
<1>5. Stands(w, u, Behind(t)) /\ Behind(u) = Behind(t) + Len(w)
  BY <1>2, <1>3, <1>4 DEF Stands
<1> QED  BY <1>5 DEF u

-----------------------------------------------------------------------------
(* A field in a text.                                                      *)

LEMMA FieldTexts ==
    ASSUME NEW f, WellFormed(f)
    PROVE  /\ f.name \in Text /\ f.pad \in Text /\ f.value \in Text
           /\ Len(f.name) \in Nat \ {0} /\ Len(f.pad) \in Nat /\ Len(f.value) \in Nat
           /\ \A i \in 1..Len(f.name) : f.name[i] \notin {":", CR, LF}
           /\ \A i \in 1..Len(f.pad) : f.pad[i] = SP
           /\ \A i \in 1..Len(f.value) : f.value[i] \notin {CR, LF}
           /\ Len(f.value) > 0 => f.value[1] # SP
<1>1. f.name \in Seq(Word) /\ f.value \in Seq(Word) /\ f.pad \in Seq(Word)
  <2>1. /\ (STRING \ {":", CR, LF}) \subseteq Word /\ (STRING \ {CR, LF}) \subseteq Word
        /\ {SP} \subseteq Word
    BY DEF Word
  <2> QED  BY <2>1, SeqMonotonic DEF WellFormed
<1>2. Len(f.name) \in Nat \ {0}
  BY EmptySeq DEF WellFormed
<1> QED  BY <1>1, <1>2 DEF WellFormed, Text

\* Concatenation, by a name that the provers leave as it is.
Joint(a, b) == a \o b

\* A text made of two, character by character.
LEMMA Joins ==
    ASSUME NEW a \in Text, NEW b \in Text
    PROVE  /\ Joint(a, b) \in Text /\ Len(Joint(a, b)) = Len(a) + Len(b)
           /\ \A i \in 1..Len(a) : Joint(a, b)[i] = a[i]
           /\ \A i \in 1..Len(b) : Joint(a, b)[Len(a) + i] = b[i]
<1> DEFINE u == Joint(a, b)
<1>1. /\ u \in Text /\ Len(u) = Len(a) + Len(b)
      /\ \A i \in 1..(Len(a) + Len(b)) : u[i] = IF i <= Len(a) THEN a[i] ELSE b[i - Len(a)]
  BY ConcatProperties DEF Text, Joint
<1>2. Len(a) \in Nat /\ Len(b) \in Nat
  BY Ends
<1> HIDE DEF u
<1>3. \A i \in 1..Len(a) : u[i] = a[i]
  BY <1>1, <1>2
<1>4. ASSUME NEW i \in 1..Len(b) PROVE u[Len(a) + i] = b[i]
  <2>1. /\ Len(a) + i \in 1..(Len(a) + Len(b)) /\ ~(Len(a) + i <= Len(a))
        /\ (Len(a) + i) - Len(a) = i
    BY <1>2
  <2> QED  BY <1>1, <2>1
<1> QED  BY <1>1, <1>3, <1>4 DEF u

LEMMA LineEnd == CRLF \in Text /\ Len(CRLF) = 2 /\ CRLF[1] = CR /\ CRLF[2] = LF
<1>1. CR \in Word /\ LF \in Word
  BY DEF Word
<1> QED  BY <1>1 DEF CRLF, Text

\* A field as it is written.
Line(name, pad, value) == Joint(Joint(Joint(Joint(name, <<":">>), pad), value), CRLF)

LEMMA HeaderLine == ASSUME NEW f PROVE Header(f) = Line(f.name, f.pad, f.value)
  BY DEF Header, Line, Joint

\* Where the parts of a field stand.
Laid(h, name, pad, value) ==
    LET n == Len(name)
        k == Len(pad)
        v == Len(value)
    IN  /\ h \in Text /\ Len(h) = (((n + 1) + k) + v) + 2
        /\ \A i \in 1..n : h[i] = name[i]
        /\ h[n + 1] = ":"
        /\ \A i \in 1..k : h[(n + 1) + i] = pad[i]
        /\ \A i \in 1..v : h[((n + 1) + k) + i] = value[i]
        /\ h[(((n + 1) + k) + v) + 1] = CR
        /\ h[(((n + 1) + k) + v) + 2] = LF

LEMMA FieldParts ==
    ASSUME NEW name \in Text, NEW pad \in Text, NEW value \in Text
    PROVE  Laid(Line(name, pad, value), name, pad, value)
<1> DEFINE n == Len(name)
           k == Len(pad)
           v == Len(value)
           m == (n + 1) + k
           e == m + v
           c == <<":">>
           a == Joint(name, c)
           b == Joint(a, pad)
           d == Joint(b, value)
           h == Joint(d, CRLF)
<1>1. c \in Text /\ Len(c) = 1 /\ c[1] = ":"
  <2>1. ":" \in Word
    BY DEF Word
  <2> QED  BY <2>1 DEF Text
<1>2. n \in Nat /\ k \in Nat /\ v \in Nat
  BY Ends
<1> HIDE DEF n, k, v
<1>3. m \in Nat /\ e \in Nat /\ n + 1 <= m /\ m <= e /\ m = (n + 1) + k /\ e = m + v
  BY <1>2
<1> HIDE DEF c
<1>4. /\ a \in Text /\ Len(a) = n + 1 /\ a[n + 1] = ":"
      /\ \A i \in 1..n : a[i] = name[i]
  <2>1. /\ a \in Text /\ Len(a) = Len(name) + Len(c)
        /\ \A i \in 1..Len(name) : a[i] = name[i]
        /\ \A i \in 1..Len(c) : a[Len(name) + i] = c[i]
    BY <1>1, Joins
  <2>2. a[n + 1] = c[1]
    BY <1>1, <2>1 DEF n
  <2> QED  BY <1>1, <1>2, <2>1, <2>2 DEF n
<1> HIDE DEF a, m, e
<1>5. /\ b \in Text /\ Len(b) = m
      /\ \A i \in 1..(n + 1) : b[i] = a[i]
      /\ \A i \in 1..k : b[(n + 1) + i] = pad[i]
  <2>1. /\ b \in Text /\ Len(b) = Len(a) + Len(pad)
        /\ \A i \in 1..Len(a) : b[i] = a[i]
        /\ \A i \in 1..Len(pad) : b[Len(a) + i] = pad[i]
    BY <1>4, Joins
  <2> HIDE DEF b
  <2> QED  BY <1>2, <1>3, <1>4, <2>1 DEF k
<1> HIDE DEF b
<1>6. /\ d \in Text /\ Len(d) = e
      /\ \A i \in 1..m : d[i] = b[i]
      /\ \A i \in 1..v : d[m + i] = value[i]
  <2>1. /\ d \in Text /\ Len(d) = Len(b) + Len(value)
        /\ \A i \in 1..Len(b) : d[i] = b[i]
        /\ \A i \in 1..Len(value) : d[Len(b) + i] = value[i]
    BY <1>5, Joins
  <2> HIDE DEF d
  <2> QED  BY <1>2, <1>3, <1>5, <2>1 DEF v
<1> HIDE DEF d
<1>7. /\ h \in Text /\ Len(h) = e + 2
      /\ \A i \in 1..e : h[i] = d[i]
      /\ h[e + 1] = CR /\ h[e + 2] = LF
  <2>1. /\ h \in Text /\ Len(h) = Len(d) + Len(CRLF)
        /\ \A i \in 1..Len(d) : h[i] = d[i]
        /\ \A i \in 1..Len(CRLF) : h[Len(d) + i] = CRLF[i]
    BY <1>6, LineEnd, Joins
  <2> HIDE DEF h
  <2> QED  BY <1>3, <1>6, <2>1, LineEnd
<1> HIDE DEF h
<1>8. \A i \in 1..n : h[i] = name[i]
  BY <1>2, <1>3, <1>4, <1>5, <1>6, <1>7
<1>9. h[n + 1] = ":"
  BY <1>2, <1>3, <1>4, <1>5, <1>6, <1>7
<1>10. ASSUME NEW i \in 1..k PROVE h[(n + 1) + i] = pad[i]
  <2>1. (n + 1) + i \in 1..m
    BY <1>2, <1>3
  <2> QED  BY <1>2, <1>3, <1>5, <1>6, <1>7, <2>1
<1>11. ASSUME NEW i \in 1..v PROVE h[m + i] = value[i]
  <2>1. m + i \in 1..e
    BY <1>2, <1>3
  <2> QED  BY <1>6, <1>7, <2>1
<1> QED  BY <1>7, <1>8, <1>9, <1>10, <1>11 DEF e, m, n, k, v, h, d, b, a, c, Line, Laid

\* What the loop of http_callback finds of a field at p, of a name and with
\* content: the place of the colon, of the value and of the line end.
Found(t, p, name, content, colon, value, eol) ==
    /\ p \in 1..Len(t) /\ eol \in 1..Len(t) /\ colon # eol
    /\ eol + 2 \in 1..Behind(t)
    /\ t[p] \notin {CR, LF}
    /\ Seek(t, p, {CR}) = eol
    /\ Seek(t, p, {":", CR}) = colon
    /\ ValueStart(t, colon) = value
    /\ NextLine(t, eol + 1) = eol + 2
    /\ Between(t, p, colon) = name
    /\ Between(t, value, eol) = content

LEMMA PartsFound ==
    ASSUME NEW t \in Text, NEW f, WellFormed(f), NEW p, Stands(Header(f), t, p)
    PROVE  \E colon, value, eol \in Nat :
             /\ Found(t, p, f.name, f.value, colon, value, eol)
             /\ eol + 2 = p + Len(Header(f))
             /\ colon = p + Len(f.name) /\ t[eol] = CR /\ t[eol + 1] = LF
             /\ \A j \in p..(eol - 1) : t[j] # CR
<1> DEFINE name == f.name
           pad == f.pad
           content == f.value
           n == Len(name)
           k == Len(pad)
           v == Len(content)
           h == Header(f)
           colon == p + n
           value == (colon + 1) + k
           eol   == value + v
<1>0. /\ name \in Text /\ pad \in Text /\ content \in Text
      /\ n # 0
      /\ \A i \in 1..n : name[i] \notin {":", CR, LF}
      /\ \A i \in 1..k : pad[i] = SP
      /\ \A i \in 1..v : content[i] \notin {CR, LF}
      /\ v > 0 => content[1] # SP
  BY FieldTexts
<1>1. n \in Nat \ {0} /\ k \in Nat /\ v \in Nat /\ Len(t) \in Nat /\ Behind(t) = Len(t) + 1
  BY <1>0, Ends
<1>2. /\ h \in Text /\ Len(h) = (((n + 1) + k) + v) + 2
      /\ \A i \in 1..n : h[i] = name[i]
      /\ h[n + 1] = ":"
      /\ \A i \in 1..k : h[(n + 1) + i] = pad[i]
      /\ \A i \in 1..v : h[((n + 1) + k) + i] = content[i]
      /\ h[(((n + 1) + k) + v) + 1] = CR /\ h[(((n + 1) + k) + v) + 2] = LF
  <2>1. h = Line(name, pad, content)
    BY HeaderLine
  <2> HIDE DEF name, pad, content, h
  <2>2. Laid(h, name, pad, content)
    BY <1>0, <2>1, FieldParts
  <2> QED  BY <2>2 DEF Laid
<1>3. /\ p \in Nat \ {0} /\ p + Len(h) <= Behind(t)
      /\ \A i \in 1..Len(h) : t[(p + i) - 1] = h[i]
  BY DEF Stands
<1> HIDE DEF name, pad, content, n, k, v, h
<1>4. \A j \in p..(colon - 1) : t[j] = name[(j - p) + 1] /\ (j - p) + 1 \in 1..n
  <2> TAKE j \in p..(colon - 1)
  <2>1. (j - p) + 1 \in 1..n /\ (j - p) + 1 \in 1..Len(h) /\ (p + ((j - p) + 1)) - 1 = j
    BY <1>1, <1>2, <1>3
  <2> QED  BY <1>2, <1>3, <2>1
<1>5. t[colon] = ":"
  <2>1. n + 1 \in 1..Len(h) /\ (p + (n + 1)) - 1 = colon
    BY <1>1, <1>2, <1>3
  <2> QED  BY <1>2, <1>3, <2>1
<1>6. \A j \in (colon + 1)..(value - 1) : t[j] = SP
  <2> TAKE j \in (colon + 1)..(value - 1)
  <2>1. /\ j - colon \in 1..k /\ (n + 1) + (j - colon) \in 1..Len(h)
        /\ (p + ((n + 1) + (j - colon))) - 1 = j
    BY <1>1, <1>2, <1>3
  <2> DEFINE i == j - colon
             o == (n + 1) + i
  <2>2. i \in 1..k /\ o \in 1..Len(h) /\ (p + o) - 1 = j /\ o = (n + 1) + i
    BY <2>1
  <2> HIDE DEF i, o
  <2>3. h[o] = pad[i] /\ pad[i] = SP
    BY <1>0, <1>2, <2>2
  <2> QED  BY <1>3, <2>2, <2>3
<1>7. \A j \in value..(eol - 1) : t[j] = content[(j - value) + 1] /\ (j - value) + 1 \in 1..v
  <2> TAKE j \in value..(eol - 1)
  <2> DEFINE i == (j - value) + 1
  <2>1. /\ i \in 1..v /\ ((n + 1) + k) + i \in 1..Len(h)
        /\ (p + (((n + 1) + k) + i)) - 1 = j
    BY <1>1, <1>2, <1>3
  <2> DEFINE o == ((n + 1) + k) + i
  <2>2. i \in 1..v /\ o \in 1..Len(h) /\ (p + o) - 1 = j /\ o = ((n + 1) + k) + i
    BY <2>1
  <2>3. i = (j - value) + 1
    OBVIOUS
  <2> HIDE DEF i, o
  <2>4. h[o] = content[i]
    BY <1>2, <2>2
  <2> QED  BY <1>3, <2>2, <2>3, <2>4
<1>8. t[eol] = CR /\ t[eol + 1] = LF
  <2>1. /\ (((n + 1) + k) + v) + 1 \in 1..Len(h) /\ (((n + 1) + k) + v) + 2 \in 1..Len(h)
        /\ (p + ((((n + 1) + k) + v) + 1)) - 1 = eol /\ (p + ((((n + 1) + k) + v) + 2)) - 1 = eol + 1
    BY <1>1, <1>2, <1>3
  <2> QED  BY <1>2, <1>3, <2>1
<1>9. /\ p \in Nat /\ colon \in Nat /\ value \in Nat /\ eol \in Nat
      /\ 1 <= p /\ p < colon /\ colon < value /\ value <= eol /\ eol + 1 <= Len(t)
      /\ eol + 2 = p + Len(h)
      /\ colon = p + n /\ value = (colon + 1) + k /\ eol = value + v
  BY <1>1, <1>2, <1>3
<1>10. \A i \in 1..n : name[i] \notin {":", CR, LF}
  BY <1>0
<1>11. \A i \in 1..v : content[i] \notin {CR, LF}
  BY <1>0
<1>12. v > 0 => content[1] # SP
  BY <1>0
<1> HIDE DEF colon, value, eol
<1>13. t[p] \notin {CR, LF}
  <2>1. p \in p..(colon - 1)
    BY <1>9
  <2> QED  BY <1>4, <1>10, <2>1
<1>14. CR # ":" /\ CR # SP /\ LF # ":" /\ LF # SP
  BY Zenon DEF CR, LF, SP
<1>15. \A j \in p..(eol - 1) : t[j] # CR
  <2> TAKE j \in p..(eol - 1)
  <2>1. \/ j \in p..(colon - 1) \/ j = colon \/ j \in (colon + 1)..(value - 1)
        \/ j \in value..(eol - 1)
    BY <1>9, SMTT(30)
  <2>2. CASE j \in p..(colon - 1)
    BY <1>4, <1>10, <2>2
  <2>3. CASE j = colon
    BY <1>5, <1>14, <2>3
  <2>4. CASE j \in (colon + 1)..(value - 1)
    BY <1>6, <1>14, <2>4
  <2>5. CASE j \in value..(eol - 1)
    BY <1>7, <1>11, <2>5
  <2> QED  BY <2>1, <2>2, <2>3, <2>4, <2>5
<1>16. p \in 1..Behind(t) /\ eol \in p..Behind(t) /\ colon \in p..Behind(t)
       /\ colon + 1 \in 1..Behind(t) /\ value \in (colon + 1)..Behind(t)
  BY <1>1, <1>9
<1>17. Seek(t, p, {CR}) = eol
  <2>1. \A j \in p..(eol - 1) : t[j] \notin {CR}
    BY <1>15
  <2>2. t[eol] \in {CR}
    BY <1>8
  <2> QED  BY <1>16, <2>1, <2>2, SeekIs
<1>18. Seek(t, p, {":", CR}) = colon
  <2>1. \A j \in p..(colon - 1) : t[j] \notin {":", CR}
    BY <1>4, <1>10
  <2>2. t[colon] \in {":", CR}
    BY <1>5
  <2> QED  BY <1>16, <2>1, <2>2, SeekIs
<1>19. ValueStart(t, colon) = value
  <2>1. \A j \in (colon + 1)..(value - 1) : t[j] \in {SP}
    BY <1>6
  <2>2. t[value] \notin {SP}
    <3>1. CASE v = 0
      <4>1. value = eol
        BY <1>9, <3>1
      <4> QED  BY <1>8, <1>14, <4>1
    <3>2. CASE v > 0
      <4>1. value \in value..(eol - 1) /\ (value - value) + 1 = 1
        BY <1>1, <1>9, <3>2
      <4>2. t[value] = content[(value - value) + 1]
        BY <1>7, <4>1
      <4> QED  BY <1>12, <3>2, <4>1, <4>2
    <3> QED  BY <1>1, <3>1, <3>2
  <2>3. Skip(t, colon + 1, {SP}) = value
    BY <1>16, <2>1, <2>2, SkipIs
  <2> QED  BY <2>3 DEF ValueStart
<1>20. NextLine(t, eol + 1) = eol + 2
  BY <1>1, <1>8, <1>9 DEF NextLine
<1>21. Between(t, p, colon) = name
  <2>1. Stands(name, t, p)
    <3>1. ASSUME NEW i \in 1..n PROVE t[(p + i) - 1] = name[i]
      <4>1. (p + i) - 1 \in p..(colon - 1) /\ (((p + i) - 1) - p) + 1 = i
        BY <1>1, <1>9
      <4> QED  BY <1>4, <4>1
    <3>2. p \in Nat \ {0} /\ p + n <= Behind(t)
      BY <1>1, <1>9
    <3> QED  BY <3>1, <3>2 DEF Stands, n, v
  <2> QED  BY <1>0, <1>9, <2>1, StandsBetween DEF n, v
<1>22. Between(t, value, eol) = content
  <2>1. Stands(content, t, value)
    <3>1. ASSUME NEW i \in 1..v PROVE t[(value + i) - 1] = content[i]
      <4>1. (value + i) - 1 \in value..(eol - 1) /\ (((value + i) - 1) - value) + 1 = i
        BY <1>1, <1>9
      <4> QED  BY <1>7, <4>1
    <3>2. value \in Nat \ {0} /\ value + v <= Behind(t)
      BY <1>1, <1>9
    <3> QED  BY <3>1, <3>2 DEF Stands, n, v
  <2> QED  BY <1>0, <1>9, <2>1, StandsBetween DEF n, v
<1>23. p \in 1..Len(t) /\ eol \in 1..Len(t) /\ colon # eol /\ eol + 2 \in 1..Behind(t)
  BY <1>1, <1>9
<1>24. Found(t, p, name, content, colon, value, eol)
  BY <1>13, <1>17, <1>18, <1>19, <1>20, <1>21, <1>22, <1>23 DEF Found
<1> QED  BY <1>8, <1>9, <1>15, <1>24 DEF name, content, h, n

-----------------------------------------------------------------------------
(* The table: the loop of http_callback, field by field.                   *)

\* A table for every place of the text, made from behind.
IsLines(L, t) == L = [p \in 1..Behind(t) |-> FieldAt(L, t, p)]

Lines(t) == CHOOSE L : IsLines(L, t)

LEMMA TableStarts == ASSUME NEW t PROVE Table(t) = Lines(t)[NextLine(t, Seek(t, 1, {LF}))]
  BY DEF Table, Lines, IsLines

\* A place at which the loop ends.
LEMMA FieldsEnd ==
    ASSUME NEW t \in Text, NEW L, NEW p, p = Behind(t) \/ t[p] = CR
    PROVE  FieldAt(L, t, p) = <<>>
  BY DEF FieldAt

\* A field in the text is one more of the table.
LEMMA FieldGoes ==
    ASSUME NEW t \in Text, NEW L, NEW p, NEW name, NEW content,
           NEW colon, NEW value, NEW eol \in Nat,
           Found(t, p, name, content, colon, value, eol), L[eol + 2] # Outside
    PROVE  FieldAt(L, t, p) = WithField(L[eol + 2], LowerCase(name), content)
<1> DEFINE e == Seek(t, p, {CR})
           c == Seek(t, p, {":", CR})
           v == ValueStart(t, c)
           x == NextLine(t, e + 1)
<1>1. FieldAt(L, t, p) =
        IF p = Behind(t) \/ t[p] \in {CR, LF} \/ c = e THEN <<>>
        ELSE IF e = Behind(t) \/ L[x] = Outside THEN Outside
        ELSE WithField(L[x], LowerCase(Between(t, p, c)), Between(t, v, e))
  BY Zenon DEF FieldAt
<1>2. Behind(t) = Len(t) + 1 /\ Len(t) \in Nat
  BY Ends
<1>3. /\ p # Behind(t) /\ t[p] \notin {CR, LF} /\ c # e /\ e # Behind(t)
      /\ x = eol + 2 /\ Between(t, p, c) = name /\ Between(t, v, e) = content
  BY <1>2 DEF Found
<1> HIDE DEF e, c, v, x
<1> QED  BY <1>1, <1>3, Zenon

\* The table from a place depends on the places behind it alone.
LEMMA OnlyBehind ==
    ASSUME NEW t \in Text, NEW p \in 1..Behind(t), NEW L, NEW M,
           \A q \in (p + 1)..Behind(t) : L[q] = M[q]
    PROVE  FieldAt(L, t, p) = FieldAt(M, t, p)
<1> DEFINE e == Seek(t, p, {CR})
           x == NextLine(t, e + 1)
<1>1. Behind(t) = Len(t) + 1 /\ Len(t) \in Nat
  BY Ends
<1>2. e \in p..Behind(t)
  BY SeekThere
<1>3. e # Behind(t) => x \in (p + 1)..Behind(t)
  <2> HIDE DEF e
  <2> QED  BY <1>1, <1>2 DEF NextLine
<1>4. e # Behind(t) => L[x] = M[x]
  BY <1>3
<1> QED  BY <1>4, Zenon DEF FieldAt

LEMMA LinesThere == ASSUME NEW t \in Text PROVE IsLines(Lines(t), t)
<1> DEFINE b == Behind(t)
           Good(L, k) == /\ DOMAIN L = 1..b
                         /\ L = [q \in DOMAIN L |-> L[q]]
                         /\ \A p \in (b - k)..b : L[p] = FieldAt(L, t, p)
           P == {k \in Nat : k < b => \E L : Good(L, k)}
<1>1. b \in Nat /\ b >= 1
  BY Ends
<1>2. 0 \in P
  <2> DEFINE L == [q \in 1..b |-> <<>>]
  <2>1. FieldAt(L, t, b) = <<>>
    BY FieldsEnd
  <2>2. \A p \in (b - 0)..b : p = b /\ p \in 1..b
    BY <1>1
  <2>3. DOMAIN L = 1..b /\ L = [q \in DOMAIN L |-> L[q]] /\ \A p \in 1..b : L[p] = <<>>
    OBVIOUS
  <2> HIDE DEF L, b
  <2>4. Good(L, 0)
    BY <2>1, <2>2, <2>3
  <2> QED  BY <2>4
<1>3. ASSUME NEW k \in P PROVE k + 1 \in P
  <2> SUFFICES ASSUME k + 1 < b PROVE \E L : Good(L, k + 1)
    OBVIOUS
  <2>1. PICK L : Good(L, k)
    BY <1>1
  <2> DEFINE n == b - (k + 1)
             M == [L EXCEPT ![n] = FieldAt(L, t, n)]
  <2>2. n \in 1..b /\ k \in Nat
    BY <1>1
  <2>3. DOMAIN M = 1..b /\ M = [q \in DOMAIN M |-> M[q]]
    BY <2>1
  <2>4. M[n] = FieldAt(L, t, n) /\ \A q \in 1..b : q # n => M[q] = L[q]
    BY <2>1, <2>2
  <2> HIDE DEF M
  <2>5. ASSUME NEW p \in (b - (k + 1))..b PROVE M[p] = FieldAt(M, t, p)
    <3>1. p \in 1..b
      BY <1>1, <2>2
    <3>2. \A q \in (p + 1)..b : L[q] = M[q]
      BY <1>1, <2>2, <2>4
    <3>3. FieldAt(L, t, p) = FieldAt(M, t, p)
      BY <3>1, <3>2, OnlyBehind
    <3>4. CASE p = n
      BY <2>4, <3>3, <3>4
    <3>5. CASE p # n
      <4>1. p \in (b - k)..b
        BY <1>1, <2>2, <3>5
      <4> QED  BY <2>1, <2>4, <3>1, <3>3, <3>5, <4>1
    <3> QED  BY <3>4, <3>5
  <2> HIDE DEF b, n
  <2>6. Good(M, k + 1)
    BY <2>3, <2>5
  <2> QED  BY <2>6
<1> HIDE DEF b, Good
<1>4. \A k \in Nat : k \in P
  <2> HIDE DEF P
  <2>1. P \in SUBSET Nat
    BY DEF P
  <2> QED  BY <1>2, <1>3, <2>1, Induction
<1>5. b - 1 \in P /\ b - 1 < b
  BY <1>1, <1>4
<1>6. PICK L : Good(L, b - 1)
  BY <1>5
<1>7. IsLines(L, t)
  <2>1. DOMAIN L = 1..b /\ L = [q \in DOMAIN L |-> L[q]]
    BY <1>6 DEF Good
  <2>2. \A p \in 1..b : L[p] = FieldAt(L, t, p)
    <3>1. b - (b - 1) = 1
      BY <1>1
    <3> QED  BY <1>6, <3>1 DEF Good
  <2> QED  BY <2>1, <2>2 DEF IsLines, b
<1> QED  BY <1>7, Zenon DEF Lines

-----------------------------------------------------------------------------
(* The table of the fields that were sent.                                 *)

NamedIn(fs, j, n) == {i \in (j + 1)..Len(fs) : LowerCase(fs[i].name) = n}

NamesIn(fs, j) == {LowerCase(fs[i].name) : i \in (j + 1)..Len(fs)}

\* Of the fields behind the j-th one: the last of a name counts.
TableFrom(fs, j) == [n \in NamesIn(fs, j) |-> fs[Max(NamedIn(fs, j, n))].value]

LEMMA MaxIs ==
    ASSUME NEW T \in SUBSET Nat, NEW k \in T, \A y \in T : k >= y
    PROVE  Max(T) = k
<1> DEFINE Top(x) == x \in T /\ \A y \in T : x >= y
<1>1. Max(T) = CHOOSE x : Top(x)
  BY Zenon DEF Max
<1>2. \A x : Top(x) => x = k
  OBVIOUS
<1>3. Top(k)
  OBVIOUS
<1> QED  BY <1>1, <1>2, <1>3

LEMMA TableNone ==
    ASSUME NEW fs, Len(fs) \in Nat
    PROVE  TableFrom(fs, Len(fs)) = <<>>
<1>1. NamesIn(fs, Len(fs)) = {}
  BY DEF NamesIn
<1> QED  BY <1>1 DEF TableFrom

LEMMA TableMore ==
    ASSUME NEW fs, Len(fs) \in Nat, NEW j \in 1..Len(fs)
    PROVE  TableFrom(fs, j - 1) =
               WithField(TableFrom(fs, j), LowerCase(fs[j].name), fs[j].value)
<1> DEFINE new == LowerCase(fs[j].name)
           S == NamesIn(fs, j)
           R == NamesIn(fs, j - 1)
           T(n) == NamedIn(fs, j, n)
           U(n) == NamedIn(fs, j - 1, n)
<1>1. \A i : i \in ((j - 1) + 1)..Len(fs) <=> i = j \/ i \in (j + 1)..Len(fs)
  OBVIOUS
<1>2. R = S \cup {new}
  BY <1>1, Zenon DEF NamesIn
<1>3. ASSUME NEW n \in S PROVE Max(U(n)) = Max(T(n))
  <2>1. T(n) \in SUBSET (1..Len(fs)) /\ T(n) # {}
    BY DEF NamesIn, NamedIn
  <2>2. Max(T(n)) \in T(n) /\ \A y \in T(n) : Max(T(n)) >= y
    BY <2>1, GreatestPlace
  <2>3. \A y \in U(n) : y \in T(n) \/ y = j
    BY <1>1 DEF NamedIn
  <2>4. U(n) \in SUBSET Nat /\ Max(T(n)) \in U(n) /\ Max(T(n)) \in Nat /\ Max(T(n)) > j
    BY <1>1, <2>2 DEF NamedIn
  <2>5. \A y \in U(n) : Max(T(n)) >= y
    BY <2>2, <2>3, <2>4
  <2> QED  BY <2>4, <2>5, MaxIs
<1>4. new \notin S => Max(U(new)) = j
  <2> SUFFICES ASSUME new \notin S PROVE Max(U(new)) = j
    OBVIOUS
  <2>1. T(new) = {}
    BY DEF NamesIn, NamedIn
  <2>2. U(new) = {j}
    BY <1>1, <2>1 DEF NamedIn
  <2> QED  BY <2>2, MaxIs
<1> HIDE DEF new, S, R, T, U
<1>6. TableFrom(fs, j - 1) = [n \in R |-> fs[Max(U(n))].value]
  BY DEF TableFrom, R, U
<1>7. TableFrom(fs, j) = [n \in S |-> fs[Max(T(n))].value]
  BY DEF TableFrom, S, T
<1>8. WithField(TableFrom(fs, j), new, fs[j].value) =
         [n \in S \cup {new} |-> IF n \in S THEN fs[Max(T(n))].value ELSE fs[j].value]
  BY <1>7 DEF WithField
<1>9. ASSUME NEW n \in R
      PROVE  fs[Max(U(n))].value = IF n \in S THEN fs[Max(T(n))].value ELSE fs[j].value
  BY <1>2, <1>3, <1>4
<1> QED  BY <1>2, <1>6, <1>8, <1>9 DEF new

LEMMA TableAll ==
    ASSUME fields \in Seq(Sendable)
    PROVE  FieldTable = TableFrom(fields, 0)
<1> DEFINE I(n) == {i \in 1..Len(fields) : LowerCase(fields[i].name) = n}
<1>1. DOMAIN fields = 1..Len(fields) /\ Len(fields) \in Nat
  OBVIOUS
<1>2. 0 + 1 = 1
  OBVIOUS
<1>3. \A n : I(n) = NamedIn(fields, 0, n)
  BY <1>2, Zenon DEF NamedIn
<1>4. {LowerCase(fields[i].name) : i \in DOMAIN fields} = NamesIn(fields, 0)
  BY <1>1, <1>2, Zenon DEF NamesIn
<1>5. ASSUME NEW n \in NamesIn(fields, 0)
      PROVE  SelectLastInSeq(fields, LAMBDA f : LowerCase(f.name) = n) = Max(NamedIn(fields, 0, n))
  <2>1. SelectLastInSeq(fields, LAMBDA f : LowerCase(f.name) = n) =
          IF I(n) # {} THEN Max(I(n)) ELSE 0
    BY Zenon DEF SelectLastInSeq
  <2>2. NamedIn(fields, 0, n) # {}
    BY DEF NamesIn, NamedIn
  <2> HIDE DEF I
  <2> QED  BY <1>3, <2>1, <2>2
<1>6. FieldTable = [n \in {LowerCase(fields[i].name) : i \in DOMAIN fields} |->
           fields[SelectLastInSeq(fields, LAMBDA f : LowerCase(f.name) = n)].value]
  BY Zenon DEF FieldTable
<1>7. FieldTable = [n \in NamesIn(fields, 0) |-> fields[Max(NamedIn(fields, 0, n))].value]
  BY <1>4, <1>5, <1>6, Zenon
<1> QED  BY <1>7 DEF TableFrom

-----------------------------------------------------------------------------
(* A text that begins with a status line and goes on with fields.          *)

Begins(t) ==
    /\ Len(t) >= 4
    /\ t[1] = "HTTP/1.1" /\ t[2] \notin {CR, LF}
    /\ t[3] = CR /\ t[4] = LF

\* The i-th field stands at st[i], the last place is the one behind them.
Course(st, t, fs) ==
    /\ st \in [1..(Len(fs) + 1) -> Nat \ {0}]
    /\ st[1] = 5
    /\ \A i \in 1..Len(fs) : /\ Stands(Header(fs[i]), t, st[i])
                             /\ st[i + 1] = st[i] + Len(Header(fs[i]))

LEMMA SentFields ==
    /\ \A f \in Sendable : WellFormed(f) /\ f.value \in Seq(STRING)
    /\ \A f \in Sendable : Header(f) \in Text /\ Len(Header(f)) \in Nat
<1>1. \A f \in Sendable : WellFormed(f)
  BY TextConstants
<1>2. ASSUME NEW f \in Sendable PROVE f.value \in Seq(STRING)
  <2>1. (STRING \ {CR, LF}) \subseteq STRING
    OBVIOUS
  <2> QED  BY <1>1, <2>1, SeqMonotonic DEF WellFormed
<1>3. ASSUME NEW f \in Sendable PROVE Header(f) \in Text /\ Len(Header(f)) \in Nat
  <2>1. f.name \in Text /\ f.pad \in Text /\ f.value \in Text
    BY <1>1, FieldTexts
  <2>2. Header(f) = Line(f.name, f.pad, f.value)
    BY HeaderLine
  <2>3. Line(f.name, f.pad, f.value) \in Text
    BY <2>1, FieldParts DEF Laid
  <2> QED  BY <2>2, <2>3, Ends
<1> QED  BY <1>1, <1>2, <1>3

LEMMA FirstLine ==
    ASSUME NEW t \in Text, Begins(t)
    PROVE  NextLine(t, Seek(t, 1, {LF})) = 5
<1>1. Behind(t) = Len(t) + 1 /\ Len(t) \in Nat /\ Len(t) >= 4
  BY Ends DEF Begins
<1>2. 4 \in 1..Behind(t) /\ 1 \in 1..Behind(t) /\ t[4] \in {LF}
  BY <1>1 DEF Begins
<1>3. \A m \in 1..(4 - 1) : t[m] \notin {LF}
  <2>1. \A m \in 1..(4 - 1) : m = 1 \/ m = 2 \/ m = 3
    OBVIOUS
  <2>2. "HTTP/1.1" # LF /\ CR # LF
    BY Zenon DEF CR, LF
  <2> QED  BY <2>1, <2>2 DEF Begins
<1>4. Seek(t, 1, {LF}) = 4
  BY <1>2, <1>3, SeekIs
<1> QED  BY <1>1, <1>4 DEF NextLine, Begins

LEMMA NoOutside ==
    ASSUME NEW fs \in Seq(Sendable), NEW j \in Nat
    PROVE  /\ TableFrom(fs, j) # Outside
           /\ \A s \in Int : \A b \in Seq(STRING) :
                 [kind |-> "answer", status |-> s, body |-> b, table |-> TableFrom(fs, j)] # Outside
<1>1. Len(fs) \in Nat /\ \A i \in 1..Len(fs) : fs[i] \in Sendable
  OBVIOUS
<1>2. NamesIn(fs, j) \in SUBSET {LowerCase(f.name) : f \in Sendable}
  <2>1. \A i \in (j + 1)..Len(fs) : i \in 1..Len(fs)
    BY <1>1
  <2> QED  BY <1>1, <2>1 DEF NamesIn
<1>3. ASSUME NEW n \in NamesIn(fs, j)
      PROVE  fs[Max(NamedIn(fs, j, n))].value \in Seq(STRING)
  <2> DEFINE T == NamedIn(fs, j, n)
  <2>1. T \in SUBSET (1..Len(fs)) /\ T # {}
    BY <1>1 DEF NamesIn, NamedIn
  <2>2. Max(T) \in 1..Len(fs)
    BY <1>1, <2>1, GreatestPlace
  <2> QED  BY <1>1, <2>2, SentFields
<1> DEFINE N == NamesIn(fs, j)
           A == [N -> Seq(STRING)]
           R == [kind : {"answer"}, status : Int, body : Seq(STRING), table : A]
<1>4. TableFrom(fs, j) \in A
  BY <1>3 DEF TableFrom
<1>5. Outside \notin A /\ Outside \notin R
  <2>1. \A M \in SUBSET {LowerCase(f.name) : f \in Sendable} :
          /\ Outside \notin [M -> Seq(STRING)]
          /\ Outside \notin [kind : {"answer"}, status : Int, body : Seq(STRING),
                            table : [M -> Seq(STRING)]]
    BY OutsideConstant, Zenon
  <2> HIDE DEF N
  <2> QED  BY <1>2, <2>1, Zenon DEF N
<1> HIDE DEF N, A
<1>6. \A s \in Int : \A b \in Seq(STRING) :
         [kind |-> "answer", status |-> s, body |-> b, table |-> TableFrom(fs, j)] \in R
  BY <1>4
<1> QED  BY <1>4, <1>5, <1>6, Zenon

\* Where the head ends.
Over(t, p) == p = Behind(t) \/ (p \in 1..Len(t) /\ t[p] = CR)

LEMMA TableRead ==
    ASSUME NEW t \in Text, Begins(t), NEW fs \in Seq(Sendable), NEW st,
           Course(st, t, fs), Over(t, st[Len(fs) + 1])
    PROVE  Table(t) = TableFrom(fs, 0)
<1> DEFINE L == Lines(t)
           n == Len(fs)
           P == {k \in Nat : k <= n => L[st[(n - k) + 1]] = TableFrom(fs, n - k)}
<1>1. n \in Nat /\ \A i \in 1..n : fs[i] \in Sendable
  OBVIOUS
<1>2. Len(t) \in Nat /\ Behind(t) = Len(t) + 1
  BY Ends
<1>3. \A p \in 1..Behind(t) : L[p] = FieldAt(L, t, p)
  BY LinesThere DEF IsLines
<1> HIDE DEF L
<1>4. 0 \in P
  <2>1. st[n + 1] \in 1..Behind(t)
    BY <1>2 DEF Over
  <2>2. L[st[n + 1]] = <<>>
    BY <1>3, <2>1, FieldsEnd DEF Over
  <2>3. TableFrom(fs, n) = <<>>
    BY <1>1, TableNone
  <2>4. (n - 0) + 1 = n + 1 /\ n - 0 = n
    BY <1>1
  <2> QED  BY <2>2, <2>3, <2>4
<1>5. ASSUME NEW k \in P PROVE k + 1 \in P
  <2> SUFFICES ASSUME k + 1 <= n
               PROVE  L[st[(n - (k + 1)) + 1]] = TableFrom(fs, n - (k + 1))
    OBVIOUS
  <2> DEFINE j == n - k
             p == st[j]
             f == fs[j]
  <2>1. j \in 1..n /\ j \in Nat /\ (n - k) + 1 = j + 1 /\ (n - (k + 1)) + 1 = j /\ n - (k + 1) = j - 1
    BY <1>1
  <2>2. L[st[j + 1]] = TableFrom(fs, j)
    BY <1>1, <2>1
  <2>3. f \in Sendable
    BY <1>1, <2>1
  <2>4. WellFormed(f)
    BY <2>3, SentFields
  <2>5. Stands(Header(f), t, p) /\ st[j + 1] = p + Len(Header(f))
    BY <2>1 DEF Course
  <2>6. TableFrom(fs, j) # Outside
    BY <2>1, NoOutside
  <2>7. TableFrom(fs, j - 1) = WithField(TableFrom(fs, j), LowerCase(f.name), f.value)
    BY <1>1, <2>1, TableMore
  <2> HIDE DEF j, p, f, P
  <2>8. PICK colon, value, eol \in Nat :
             /\ Found(t, p, f.name, f.value, colon, value, eol)
             /\ eol + 2 = p + Len(Header(f))
    BY <2>4, <2>5, PartsFound
  <2>9. p \in 1..Behind(t)
    BY <1>2, <2>8 DEF Found
  <2>10. L[eol + 2] = TableFrom(fs, j)
    BY <2>2, <2>5, <2>8
  <2>11. FieldAt(L, t, p) = WithField(L[eol + 2], LowerCase(f.name), f.value)
    BY <2>6, <2>8, <2>10, FieldGoes
  <2>12. L[p] = TableFrom(fs, j - 1)
    BY <1>3, <2>7, <2>9, <2>10, <2>11
  <2> QED  BY <2>1, <2>12 DEF p
<1>6. \A k \in Nat : k \in P
  <2>1. P \in SUBSET Nat
    OBVIOUS
  <2> HIDE DEF P
  <2> QED  BY <1>4, <1>5, <2>1, Induction
<1>7. L[st[1]] = TableFrom(fs, 0)
  <2>1. (n - n) + 1 = 1 /\ n - n = 0 /\ n <= n
    BY <1>1
  <2>2. n \in P
    BY <1>1, <1>6
  <2> QED  BY <2>1, <2>2
<1>8. Table(t) = L[5]
  BY FirstLine, TableStarts DEF L
<1> QED  BY <1>7, <1>8 DEF Course

-----------------------------------------------------------------------------
(* The invariant: behind its status line a response has the fields sent so *)
(* far, one after the other, and then nothing or a line end.               *)

Heads(s, t, fs) ==
    /\ s \in {"idle", "head", "body", "done"}
    /\ t \in Text
    /\ fs \in Seq(Sendable)
    /\ s = "idle" => t = <<>> /\ fs = <<>>
    /\ s # "idle" =>
          /\ Begins(t)
          /\ \E st : /\ Course(st, t, fs)
                     /\ s = "head" => st[Len(fs) + 1] = Behind(t)
                     /\ s # "head" => st[Len(fs) + 1] \in 1..Len(t) /\ t[st[Len(fs) + 1]] = CR

HeadInv == Heads(stage, text, fields)

LEMMA GoesOn ==
    ASSUME NEW t \in Text, NEW x \in Text
    PROVE  /\ t \o x \in Text /\ Len(t \o x) = Len(t) + Len(x)
           /\ \A i \in 1..Len(t) : (t \o x)[i] = t[i]
           /\ Begins(t) => Begins(t \o x)
<1> DEFINE u == t \o x
<1>1. /\ u \in Text /\ Len(u) = Len(t) + Len(x)
      /\ \A i \in 1..Len(t) : u[i] = t[i]
  BY ConcatProperties DEF Text
<1>2. Len(x) \in Nat /\ Len(t) \in Nat
  BY Ends
<1> HIDE DEF u
<1>3. Begins(t) => Begins(u)
  BY <1>1, <1>2 DEF Begins
<1> QED  BY <1>1, <1>3 DEF u

LEMMA CourseOn ==
    ASSUME NEW t \in Text, NEW x \in Text, NEW fs \in Seq(Sendable), NEW st, Course(st, t, fs)
    PROVE  Course(st, t \o x, fs)
<1>1. \A i \in 1..Len(fs) : Len(Header(fs[i])) \in Nat /\ Stands(Header(fs[i]), t, st[i])
  BY SentFields DEF Course
<1>2. \A i \in 1..Len(fs) : Stands(Header(fs[i]), t \o x, st[i])
  BY <1>1, StandsOn
<1> HIDE DEF Header
<1> QED  BY <1>2 DEF Course

\* What is sent behind the head leaves it alone.
LEMMA HeadsOn ==
    ASSUME NEW s, NEW t, NEW fs, Heads(s, t, fs), NEW x \in Text,
           s \in {"body", "done"}, NEW r \in {"body", "done"}
    PROVE  Heads(r, t \o x, fs)
<1>1. t \in Text /\ fs \in Seq(Sendable) /\ s # "idle" /\ s # "head" /\ r # "idle" /\ r # "head"
  BY DEF Heads
<1>2. PICK st : /\ Course(st, t, fs)
                /\ st[Len(fs) + 1] \in 1..Len(t) /\ t[st[Len(fs) + 1]] = CR
  BY <1>1 DEF Heads
<1> DEFINE u == t \o x
<1>3. Course(st, u, fs)
  BY <1>1, <1>2, CourseOn
<1>4. u \in Text /\ Begins(u) /\ Len(u) = Len(t) + Len(x) /\ \A i \in 1..Len(t) : u[i] = t[i]
  BY <1>1, GoesOn DEF Heads
<1>5. Len(t) \in Nat /\ Len(x) \in Nat
  BY <1>1, Ends
<1> HIDE DEF u
<1>6. st[Len(fs) + 1] \in 1..Len(u) /\ u[st[Len(fs) + 1]] = CR
  BY <1>2, <1>4, <1>5
<1>7. Heads(r, u, fs)
  BY <1>1, <1>3, <1>4, <1>6 DEF Heads
<1> QED  BY <1>7 DEF u

LEMMA HeadsEnd ==
    ASSUME NEW t, NEW fs, Heads("head", t, fs)
    PROVE  Heads("body", t \o CRLF, fs)
<1>1. t \in Text /\ fs \in Seq(Sendable)
  BY DEF Heads
<1>2. PICK st : Course(st, t, fs) /\ st[Len(fs) + 1] = Behind(t)
  BY DEF Heads
<1> DEFINE u == t \o CRLF
<1>3. Course(st, u, fs)
  BY <1>1, <1>2, LineEnd, CourseOn
<1>4. u \in Text /\ Begins(u) /\ Len(u) = Len(t) + 2
  <2>1. Begins(t)
    BY DEF Heads
  <2>2. u \in Text /\ Len(u) = Len(t) + Len(CRLF) /\ Begins(u)
    BY <1>1, <2>1, LineEnd, GoesOn
  <2> QED  BY <2>2, LineEnd
<1>5. Len(t) \in Nat /\ Behind(t) = Len(t) + 1
  BY <1>1, Ends
<1>6. Stands(CRLF, u, Behind(t))
  BY <1>1, LineEnd, StandsBehind
<1> HIDE DEF u
<1>7. u[Behind(t)] = CR
  <2>1. (Behind(t) + 1) - 1 = Behind(t) /\ 1 \in 1..Len(CRLF)
    BY <1>5, LineEnd
  <2>2. u[(Behind(t) + 1) - 1] = CRLF[1]
    BY <1>6, <2>1 DEF Stands
  <2> QED  BY <2>1, <2>2, LineEnd
<1>8. st[Len(fs) + 1] \in 1..Len(u) /\ u[st[Len(fs) + 1]] = CR
  BY <1>2, <1>4, <1>5, <1>7
<1>9. Heads("body", u, fs)
  BY <1>1, <1>3, <1>4, <1>8 DEF Heads
<1> QED  BY <1>9 DEF u

LEMMA HeadsMore ==
    ASSUME NEW t, NEW fs, Heads("head", t, fs), NEW f \in Sendable
    PROVE  Heads("head", t \o Header(f), Append(fs, f))
<1> DEFINE h == Header(f)
           u == t \o h
           gs == Append(fs, f)
           n == Len(fs)
<1>1. t \in Text /\ fs \in Seq(Sendable) /\ h \in Text /\ Len(h) \in Nat
  BY SentFields DEF Heads
<1>2. PICK st : Course(st, t, fs) /\ st[n + 1] = Behind(t)
  BY DEF Heads
<1>3. Course(st, u, fs)
  BY <1>1, <1>2, CourseOn
<1>4. u \in Text /\ Begins(u)
  BY <1>1, GoesOn DEF Heads
<1>5. Stands(h, u, Behind(t)) /\ Behind(u) = Behind(t) + Len(h)
  BY <1>1, StandsBehind
<1>6. n \in Nat /\ gs \in Seq(Sendable) /\ Len(gs) = n + 1 /\ gs[n + 1] = f
      /\ \A i \in 1..n : gs[i] = fs[i]
  BY <1>1
<1>7. Behind(t) \in Nat \ {0} /\ Behind(u) \in Nat \ {0}
  BY <1>1, <1>4, Ends
<1> DEFINE su == [i \in 1..(Len(gs) + 1) |-> IF i <= n + 1 THEN st[i] ELSE Behind(u)]
<1> HIDE DEF u, gs, h, n
<1>8. st \in [1..(n + 1) -> Nat \ {0}] /\ st[1] = 5
  BY <1>3 DEF Course, n
<1>9. /\ su \in [1..(Len(gs) + 1) -> Nat \ {0}]
      /\ \A i \in 1..(n + 1) : su[i] = st[i]
      /\ su[(n + 1) + 1] = Behind(u)
  BY <1>6, <1>7, <1>8
<1> HIDE DEF su
<1>10. su[1] = 5
  BY <1>6, <1>8, <1>9
<1>11. ASSUME NEW i \in 1..Len(gs)
       PROVE  Stands(Header(gs[i]), u, su[i]) /\ su[i + 1] = su[i] + Len(Header(gs[i]))
  <2>1. CASE i \in 1..n
    <3>1. i \in 1..(n + 1) /\ i + 1 \in 1..(n + 1)
      BY <1>6, <2>1
    <3>2. Stands(Header(fs[i]), u, st[i]) /\ st[i + 1] = st[i] + Len(Header(fs[i]))
      BY <1>3, <2>1 DEF Course, n
    <3>3. gs[i] = fs[i] /\ su[i] = st[i] /\ su[i + 1] = st[i + 1]
      BY <1>6, <1>9, <2>1, <3>1
    <3> QED  BY <3>2, <3>3, Zenon
  <2>2. CASE i = n + 1
    <3>1. Header(gs[i]) = h
      BY <1>6, <2>2, Zenon DEF h
    <3>2. n + 1 \in 1..(n + 1)
      BY <1>6
    <3>3. su[i] = Behind(t) /\ su[i + 1] = Behind(u)
      BY <1>2, <1>9, <2>2, <3>2 DEF n
    <3>4. Stands(Header(gs[i]), u, su[i])
      BY <1>5, <3>1, <3>3, Zenon
    <3>5. su[i + 1] = su[i] + Len(Header(gs[i]))
      BY <1>5, <3>1, <3>3, Zenon
    <3> QED  BY <3>4, <3>5
  <2> QED  BY <1>6, <2>1, <2>2
<1>12. Course(su, u, gs)
  BY <1>9, <1>10, <1>11 DEF Course
<1>13. su[Len(gs) + 1] = Behind(u)
  BY <1>6, <1>9
<1>14. Heads("head", u, gs)
  BY <1>4, <1>6, <1>12, <1>13 DEF Heads
<1> QED  BY <1>14 DEF u, gs, h

\* A status line has no line end but its own.
LEMMA StatusText ==
    ASSUME NEW s \in Statuses
    PROVE  Heads("head", <<"HTTP/1.1", s>> \o CRLF, <<>>)
<1> DEFINE l == <<"HTTP/1.1", s>>
           u == l \o CRLF
<1>1. "HTTP/1.1" \in Word /\ s \in Word /\ s \notin {CR, LF}
  <2>1. s \in STRING /\ s \notin {CR, LF}
    BY TextConstants
  <2> QED  BY <2>1, Zenon DEF Word
<1>3. l \in Text /\ Len(l) = 2 /\ l[1] = "HTTP/1.1" /\ l[2] = s
  BY <1>1 DEF Text
<1> HIDE DEF l
<1>4. u \in Text /\ Len(u) = 4 /\ u[1] = l[1] /\ u[2] = l[2]
  <2>1. /\ u \in Text /\ Len(u) = Len(l) + Len(CRLF)
        /\ \A i \in 1..Len(l) : u[i] = l[i]
    BY <1>3, LineEnd, GoesOn
  <2> HIDE DEF u
  <2> QED  BY <1>3, <2>1, LineEnd
<1>5. Stands(CRLF, u, Behind(l)) /\ Behind(l) = 3
  <2>1. Stands(CRLF, u, Behind(l))
    BY <1>3, LineEnd, StandsBehind
  <2> QED  BY <1>3, <2>1 DEF Behind
<1> HIDE DEF u
<1>6. u[3] = CR /\ u[4] = LF
  BY <1>5, LineEnd DEF Stands
<1>7. Begins(u)
  BY <1>1, <1>3, <1>4, <1>6 DEF Begins
<1> DEFINE st == [i \in 1..1 |-> 5]
           fs == <<>>
<1>8. Course(st, u, fs) /\ st[Len(fs) + 1] = 5 /\ fs \in Seq(Sendable)
  <2>1. Len(fs) = 0 /\ fs \in Seq(Sendable)
    OBVIOUS
  <2>2. st \in [1..1 -> Nat \ {0}] /\ st[1] = 5
    OBVIOUS
  <2> HIDE DEF fs, st
  <2> QED  BY <2>1, <2>2 DEF Course
<1>9. Behind(u) = 5
  BY <1>4 DEF Behind
<1> HIDE DEF fs, st
<1>10. Heads("head", u, fs)
  BY <1>4, <1>7, <1>8, <1>9 DEF Heads
<1> QED  BY <1>10 DEF u, l, fs

LEMMA HeadsNone == Heads("idle", <<>>, <<>>)
  BY DEF Heads, Text

LEMMA ShortTexts ==
    <<>> \in Text /\ \A y \in Word : <<y>> \in Text /\ \A z \in Word : <<y, z>> \in Text
  BY DEF Text

LEMMA WordsSent ==
    /\ \A d \in Data : d \in Text /\ Len(d) \in Nat
    /\ \A n \in Nat : \A c \in ChunkHead(n) : c \in Text
    /\ <<"0">> \in Text
<1>1. ASSUME NEW d \in Data PROVE d \in Text /\ Len(d) \in Nat
  <2>1. d \in Seq(STRING)
    BY TextConstants
  <2>2. STRING \subseteq Word
    BY Zenon DEF Word
  <2>3. d \in Seq(Word)
    BY <2>1, <2>2, SeqMonotonic, Zenon
  <2> QED  BY <2>3 DEF Text
<1>2. ASSUME NEW n \in Nat, NEW c \in ChunkHead(n) PROVE c \in Text
  <2>1. n \div 16 \in Nat /\ n % 16 \in Nat
    OBVIOUS
  <2>2. Digit(n) \in Word /\ Digit(n \div 16) \in Word /\ Digit(n % 16) \in Word
    BY <2>1, Zenon DEF Word
  <2> DEFINE a == IF n < 16 THEN <<Digit(n)>> ELSE <<Digit(n \div 16), Digit(n % 16)>>
             E == {<<>>, <<";", "2">>}
  <2>3. PICK ext \in E : c = a \o ext \o CRLF
    BY Zenon DEF ChunkHead
  <2>4. a \in Text
    BY <2>2, ShortTexts, Zenon
  <2>7. <<";", "2">> \in Text
    <3>1. ";" \in Word /\ "2" \in Word
      BY Zenon DEF Word, Extension
    <3> QED  BY <3>1, ShortTexts, Zenon
  <2>8. ext \in Text
    BY <2>3, <2>7, ShortTexts, Zenon
  <2> HIDE DEF a, E
  <2>9. a \o ext \in Text
    BY <2>4, <2>8, GoesOn
  <2> DEFINE b == a \o ext
  <2> HIDE DEF b
  <2>10. b \o CRLF \in Text
    BY <2>9, LineEnd, GoesOn DEF b
  <2> QED  BY <2>3, <2>10 DEF b
<1>3. <<"0">> \in Text
  <2>1. "0" \in Word
    BY Zenon DEF Word
  <2> QED  BY <2>1 DEF Text
<1> QED  BY <1>1, <1>2, <1>3, Zenon

\* Texts one behind the other.
LEMMA Together ==
    ASSUME NEW t \in Text, NEW a \in Text, NEW b \in Text
    PROVE  /\ a \o b \in Text
           /\ (t \o a) \o b = t \o (a \o b)
<1>1. a \o b \in Text
  BY GoesOn
<1>2. (t \o a) \o b = t \o (a \o b)
  BY ConcatAssociative DEF Text
<1> QED  BY <1>1, <1>2

LEMMA InitHead == TextInit => HeadInv
  BY HeadsNone DEF TextInit, HeadInv

LEMMA StatusHead == HeadInv /\ StatusLine => HeadInv'
<1> SUFFICES ASSUME HeadInv, StatusLine PROVE HeadInv'
  OBVIOUS
<1>1. fields = <<>>
  BY DEF HeadInv, Heads, StatusLine
<1>2. PICK s \in Statuses : text' = <<"HTTP/1.1", s>> \o CRLF
  BY DEF StatusLine
<1>3. stage' = "head" /\ fields' = fields
  BY DEF StatusLine
<1>4. Heads("head", <<"HTTP/1.1", s>> \o CRLF, <<>>)
  BY StatusText
<1> QED  BY <1>1, <1>2, <1>3, <1>4, Zenon DEF HeadInv

LEMMA FieldHead == HeadInv /\ SendField => HeadInv'
<1> SUFFICES ASSUME HeadInv, SendField PROVE HeadInv'
  OBVIOUS
<1>1. PICK f \in Sendable : fields' = Append(fields, f) /\ text' = text \o Header(f)
  BY Zenon DEF SendField
<1>2. stage = "head" /\ stage' = stage
  BY Zenon DEF SendField
<1>3. Heads("head", text \o Header(f), Append(fields, f))
  BY <1>2, HeadsMore, Zenon DEF HeadInv
<1> QED  BY <1>1, <1>2, <1>3, Zenon DEF HeadInv

LEMMA EndHeadHead == HeadInv /\ EndHead => HeadInv'
<1> SUFFICES ASSUME HeadInv, EndHead PROVE HeadInv'
  OBVIOUS
<1>1. stage = "head" /\ stage' = "body" /\ text' = text \o CRLF /\ fields' = fields
  BY Zenon DEF EndHead
<1>2. Heads("body", text \o CRLF, fields)
  BY <1>1, HeadsEnd, Zenon DEF HeadInv
<1> QED  BY <1>1, <1>2, Zenon DEF HeadInv

LEMMA PieceHead == HeadInv /\ SendPiece => HeadInv'
<1> SUFFICES ASSUME HeadInv, SendPiece PROVE HeadInv'
  OBVIOUS
<1>1. stage = "body" /\ stage' = stage /\ fields' = fields
  BY Zenon DEF SendPiece
<1>2. PICK d \in Data :
        IF IsChunked THEN \E c \in ChunkHead(Len(d)) : text' = text \o c \o d \o CRLF
        ELSE text' = text \o d
  BY Zenon DEF SendPiece
<1>3. d \in Text /\ Len(d) \in Nat /\ text \in Text
  BY WordsSent DEF HeadInv, Heads
<1>4. \E x \in Text : text' = text \o x
  <2>1. CASE IsChunked
    <3>1. PICK c \in ChunkHead(Len(d)) : text' = text \o c \o d \o CRLF
      BY <1>2, <2>1, Zenon
    <3>2. c \in Text
      BY <1>3, WordsSent, Zenon
    <3>3. c \o d \in Text /\ text \o c \o d = text \o (c \o d)
      BY <1>3, <3>2, Together, Zenon
    <3> DEFINE y == c \o d
    <3>4. y \o CRLF \in Text /\ text \o y \o CRLF = text \o (y \o CRLF)
      <4> HIDE DEF y
      <4> QED  BY <1>3, <3>3, LineEnd, Together, Zenon DEF y
    <3> QED  BY <3>1, <3>3, <3>4, Zenon
  <2>2. CASE ~IsChunked
    BY <1>2, <1>3, <2>2, Zenon
  <2> QED  BY <2>1, <2>2
<1>5. PICK x \in Text : text' = text \o x
  BY <1>4
<1>6. Heads("body", text \o x, fields)
  BY <1>1, HeadsOn DEF HeadInv
<1> QED  BY <1>1, <1>5, <1>6, Zenon DEF HeadInv

LEMMA EndBodyHead == HeadInv /\ EndBody => HeadInv'
<1> SUFFICES ASSUME HeadInv, EndBody PROVE HeadInv'
  OBVIOUS
<1>1. stage = "body" /\ stage' = "done" /\ fields' = fields
  BY Zenon DEF EndBody
<1>2. text' = IF IsChunked THEN text \o <<"0">> \o CRLF \o CRLF ELSE text
  BY Zenon DEF EndBody
<1>3. text \in Text /\ <<"0">> \in Text /\ CRLF \in Text /\ <<>> \in Text
  BY WordsSent, LineEnd DEF HeadInv, Heads, Text
<1>4. \E x \in Text : text' = text \o x
  <2>1. CASE IsChunked
    <3> DEFINE z == <<"0">>
               y == z \o CRLF
    <3>1. y \in Text /\ text \o z \o CRLF = text \o y
      <4> HIDE DEF z
      <4>1. z \in Text /\ CRLF \in Text /\ text \in Text
        BY <1>3 DEF z
      <4>2. z \o CRLF \in Text
        BY <4>1, Together, Zenon
      <4>3. text \o z \o CRLF = text \o (z \o CRLF)
        BY <4>1, Together, Zenon
      <4> QED  BY <4>2, <4>3, Zenon
    <3>2. y \o CRLF \in Text /\ text \o y \o CRLF = text \o (y \o CRLF)
      <4> HIDE DEF y
      <4>1. y \in Text /\ CRLF \in Text /\ text \in Text
        BY <1>3, <3>1
      <4>2. y \o CRLF \in Text
        BY <4>1, Together, Zenon
      <4>3. text \o y \o CRLF = text \o (y \o CRLF)
        BY <4>1, Together, Zenon
      <4> QED  BY <4>2, <4>3, Zenon
    <3> QED  BY <1>2, <2>1, <3>1, <3>2, Zenon
  <2>2. CASE ~IsChunked
    <3>1. text \o <<>> = text
      BY <1>3, ConcatEmptySeq DEF Text
    <3> QED  BY <1>2, <1>3, <2>2, <3>1
  <2> QED  BY <2>1, <2>2
<1>5. PICK x \in Text : text' = text \o x
  BY <1>4
<1>6. Heads("done", text \o x, fields)
  BY <1>1, HeadsOn DEF HeadInv
<1> QED  BY <1>1, <1>5, <1>6, Zenon DEF HeadInv

LEMMA FollowHead == HeadInv /\ Follow => HeadInv'
<1> SUFFICES ASSUME HeadInv, Follow PROVE HeadInv'
  OBVIOUS
<1>1. stage' = "idle" /\ fields' = <<>> /\ text' = <<>>
  BY Zenon DEF Follow
<1> QED  BY <1>1, HeadsNone, Zenon DEF HeadInv

LEMMA NextHead == HeadInv /\ [TextNext]_textvars => HeadInv'
<1> SUFFICES ASSUME HeadInv, [TextNext]_textvars PROVE HeadInv'
  OBVIOUS
<1>1. CASE UNCHANGED textvars
  <2>1. stage' = stage /\ text' = text /\ fields' = fields
    BY <1>1 DEF textvars
  <2> QED  BY <2>1, Zenon DEF HeadInv
<1> QED
  BY <1>1, StatusHead, FieldHead, EndHeadHead, PieceHead, EndBodyHead, FollowHead, Zenon DEF TextNext

\* HeadInv is what makes TableArrives true.
LEMMA HeadTable == HeadInv => TableArrives
<1> SUFFICES ASSUME HeadInv, Read(text) # Outside, Read(text).kind = "answer"
             PROVE  Read(text).table = FieldTable
  BY Zenon DEF TableArrives
<1> DEFINE r == Read(text)
           at == Location(text)
           eol == Find(CRLF, text, at)
           blank == Find(CRLF \o CRLF, text, 1)
           body == IF blank = 0 THEN Outside
                   ELSE IF Has(<<"Transfer-Encoding", ":", SP, "chunked">>, text)
                   THEN Chunks(Between(text, blank + 4, Behind(text)))
                   ELSE Plain(text, blank + 4)
           to == [kind |-> "redirect", value |-> Between(text, Skip(text, at + 2, {SP}), eol)]
           s == Status(text)
<1>1. r = CASE s = -1 -> Failure
            [] s \in 300..308 /\ at # 0 -> IF eol = 0 THEN Failure ELSE to
            [] OTHER -> Answer(text)
  BY Zenon DEF Read
<1>2. Failure.kind = "error" /\ to.kind = "redirect"
  <2> HIDE DEF at, eol
  <2> QED  BY DEF Failure
<1> HIDE DEF r, at, eol, to, s
<1>3. r.kind = "answer"
  BY DEF r
<1>4. r = Failure \/ r = to \/ (s # -1 /\ r = Answer(text))
  BY <1>1
<1>5. s # -1 /\ r = Answer(text)
  <2>1. "error" # "answer" /\ "redirect" # "answer"
    OBVIOUS
  <2> QED  BY <1>2, <1>3, <1>4, <2>1
<1>6. Answer(text) = IF body = Outside THEN Outside
                     ELSE [kind |-> "answer", status |-> Status(text), body |-> body,
                           table |-> Table(text)]
  BY Zenon DEF Answer
<1> HIDE DEF body
<1>7. r.table = Table(text)
  <2>1. r # Outside
    BY DEF r
  <2> QED  BY <1>5, <1>6, <2>1
<1>8. stage # "idle"
  <2>1. text = <<>> => s = -1
    BY DEF s, Status
  <2> QED  BY <1>5, <2>1 DEF HeadInv, Heads
<1>9. text \in Text /\ fields \in Seq(Sendable) /\ Begins(text)
  BY <1>8 DEF HeadInv, Heads
<1>10. PICK st : Course(st, text, fields) /\ Over(text, st[Len(fields) + 1])
  BY <1>8 DEF HeadInv, Heads, Over
<1>11. Table(text) = TableFrom(fields, 0)
  BY <1>9, <1>10, TableRead
<1>12. FieldTable = TableFrom(fields, 0)
  BY <1>9, TableAll
<1> QED  BY <1>7, <1>11, <1>12 DEF r

\* The table made for Lua is the header: its fields, with names in lower case
\* and values without the spaces before them, the last one of a name, and no
\* word of the body.
THEOREM TableReadRight == TextSpec => []TableArrives
  BY InitHead, NextHead, HeadTable, PTL DEF TextSpec

-----------------------------------------------------------------------------
(* Words that are searched for.                                            *)

LEMMA StandsThere ==
    ASSUME NEW t \in Text, NEW w \in Text, NEW p \in Nat \ {0}, p + Len(w) <= Behind(t)
    PROVE  Stands(w, t, p) <=> SubSeq(t, p, (p + Len(w)) - 1) = w
<1> DEFINE n == Len(w)
           b == SubSeq(t, p, (p + n) - 1)
<1>1. Len(t) \in Nat /\ n \in Nat /\ p + n <= Len(t) + 1 /\ Behind(t) = Len(t) + 1
  BY Ends
<1>2. Stands(w, t, p) => b = w
  BY StandsBetween DEF Between
<1>3. ASSUME b = w PROVE Stands(w, t, p)
  <2>1. \A i \in 1..((((p + n) - 1) - p) + 1) : b[i] = t[p + i - 1]
    <3>1. p \in 1..(Len(t) + 1) /\ (p + n) - 1 \in (p - 1)..Len(t)
      BY <1>1
    <3>2. t \in Seq(Word)
      BY DEF Text
    <3> QED  BY <3>1, <3>2, SubSeqProperties
  <2> HIDE DEF b
  <2>2. (((p + n) - 1) - p) + 1 = n
    BY <1>1
  <2>3. \A i \in 1..n : t[(p + i) - 1] = w[i]
    BY <1>1, <1>3, <2>1, <2>2
  <2> QED  BY <2>3 DEF Stands
<1> QED  BY <1>2, <1>3

\* strstr finds the first place at which the word stands, if there is one.
LEMMA FindIs ==
    ASSUME NEW t \in Text, NEW w \in Text, Len(w) > 0, NEW i \in Nat \ {0}
    PROVE  \/ /\ Find(w, t, i) = 0
              /\ \A k \in Nat : k >= i => ~Stands(w, t, k)
           \/ /\ Find(w, t, i) \in Nat /\ Find(w, t, i) >= i
              /\ Stands(w, t, Find(w, t, i))
              /\ \A k \in Nat : k >= i /\ k < Find(w, t, i) => ~Stands(w, t, k)
<1> DEFINE at == {k \in i..(Behind(t) - Len(w)) : SubSeq(t, k, (k + Len(w)) - 1) = w}
           First(k) == k \in at /\ \A m \in at : k <= m
<1>1. Len(t) \in Nat /\ Len(w) \in Nat /\ Behind(t) = Len(t) + 1
  BY Ends
<1>2. \A k \in Nat : k >= i => (k \in at <=> Stands(w, t, k))
  <2> TAKE k \in Nat
  <2> HAVE k >= i
  <2>1. CASE k + Len(w) <= Behind(t)
    <3>1. k \in Nat \ {0} /\ k \in i..(Behind(t) - Len(w))
      BY <1>1, <2>1
    <3>2. Stands(w, t, k) <=> SubSeq(t, k, (k + Len(w)) - 1) = w
      BY <2>1, <3>1, StandsThere
    <3> QED  BY <3>1, <3>2
  <2>2. CASE ~(k + Len(w) <= Behind(t))
    <3>1. k \notin i..(Behind(t) - Len(w))
      BY <1>1, <2>2
    <3> QED  BY <2>2, <3>1 DEF Stands
  <2> QED  BY <2>1, <2>2
<1>3. \A k \in at : k \in Nat /\ k >= i
  BY <1>1
<1>4. Find(w, t, i) = IF at = {} THEN 0 ELSE CHOOSE k \in at : \A m \in at : k <= m
  BY DEF Find
<1>5. at # {} => (CHOOSE k \in at : \A m \in at : k <= m) = CHOOSE k : First(k)
  OBVIOUS
<1> HIDE DEF at
<1>6. CASE at = {}
  BY <1>2, <1>4, <1>6
<1>7. CASE at # {}
  <2>1. at \in SUBSET Nat
    BY <1>3
  <2>2. \E x \in at : \A y \in at : x <= y
    BY <1>7, <2>1, LeastNumber
  <2>3. First(CHOOSE k : First(k))
    BY <2>2
  <2> DEFINE f == CHOOSE k : First(k)
  <2>4. Find(w, t, i) = f
    BY <1>4, <1>5, <1>7
  <2> HIDE DEF f
  <2>5. f \in at /\ f \in Nat /\ f >= i /\ \A m \in at : f <= m
    BY <1>3, <2>3 DEF f
  <2>6. \A k \in Nat : k >= i /\ k < f => ~Stands(w, t, k)
    BY <1>2, <2>5
  <2> QED  BY <1>2, <2>4, <2>5, <2>6
<1> QED  BY <1>6, <1>7

LEMMA FindFirst ==
    ASSUME NEW t \in Text, NEW w \in Text, Len(w) > 0, NEW i \in Nat \ {0},
           NEW k \in Nat, k >= i, Stands(w, t, k),
           \A m \in Nat : m >= i /\ m < k => ~Stands(w, t, m)
    PROVE  Find(w, t, i) = k
<1> DEFINE f == Find(w, t, i)
<1>1. \/ f = 0 /\ \A m \in Nat : m >= i => ~Stands(w, t, m)
      \/ /\ f \in Nat /\ f >= i /\ Stands(w, t, f)
         /\ \A m \in Nat : m >= i /\ m < f => ~Stands(w, t, m)
  BY FindIs
<1> HIDE DEF f
<1>2. f \in Nat /\ f >= i /\ ~(f < k) /\ ~(k < f)
  BY <1>1
<1> QED  BY <1>2 DEF f

\* A word followed by another.
LEMMA PairIs ==
    ASSUME NEW x \in Word, NEW y \in Word
    PROVE  /\ <<x, y>> \in Text /\ Len(<<x, y>>) = 2
           /\ \A t \in Text : \A k \in Nat :
                 Stands(<<x, y>>, t, k) <=> k # 0 /\ k + 1 <= Len(t) /\ t[k] = x /\ t[k + 1] = y
<1> DEFINE w == <<x, y>>
<1>1. w \in Text /\ Len(w) = 2 /\ w[1] = x /\ w[2] = y
  BY DEF Text
<1> HIDE DEF w
<1>2. ASSUME NEW t \in Text, NEW k \in Nat
      PROVE  Stands(w, t, k) <=> k # 0 /\ k + 1 <= Len(t) /\ t[k] = x /\ t[k + 1] = y
  <2>1. Len(t) \in Nat /\ Behind(t) = Len(t) + 1
    BY Ends
  <2>2. Stands(w, t, k) <=> k # 0 /\ k + 2 <= Behind(t) /\ \A i \in 1..2 : t[(k + i) - 1] = w[i]
    BY <1>1 DEF Stands
  <2>3. (\A i \in 1..2 : t[(k + i) - 1] = w[i]) <=> t[k] = x /\ t[k + 1] = y
    <3>1. \A i : i \in 1..2 <=> i = 1 \/ i = 2
      OBVIOUS
    <3>2. (k + 1) - 1 = k /\ (k + 2) - 1 = k + 1
      OBVIOUS
    <3> QED  BY <1>1, <3>1, <3>2
  <2> QED  BY <2>1, <2>2, <2>3
<1> QED  BY <1>1, <1>2 DEF w

\* Has, of two words.
LEMMA HasPair ==
    ASSUME NEW x \in Word, NEW y \in Word, NEW t \in Text
    PROVE  Has(<<x, y>>, t) <=> \E k \in 1..(Len(t) - 1) : t[k] = x /\ t[k + 1] = y
<1> DEFINE w == <<x, y>>
<1>1. /\ w \in Text /\ Len(w) = 2
      /\ \A k \in Nat : Stands(w, t, k) <=> k # 0 /\ k + 1 <= Len(t) /\ t[k] = x /\ t[k + 1] = y
  BY PairIs
<1> HIDE DEF w
<1>2. \/ Find(w, t, 1) = 0 /\ \A k \in Nat : k >= 1 => ~Stands(w, t, k)
      \/ Find(w, t, 1) \in Nat /\ Find(w, t, 1) >= 1 /\ Stands(w, t, Find(w, t, 1))
  <2>1. 1 \in Nat \ {0} /\ Len(w) > 0
    BY <1>1
  <2>2. \/ Find(w, t, 1) = 0 /\ \A k \in Nat : k >= 1 => ~Stands(w, t, k)
        \/ /\ Find(w, t, 1) \in Nat /\ Find(w, t, 1) >= 1 /\ Stands(w, t, Find(w, t, 1))
           /\ \A k \in Nat : k >= 1 /\ k < Find(w, t, 1) => ~Stands(w, t, k)
    BY <1>1, <2>1, FindIs, Zenon
  <2> QED  BY <2>2
<1>3. Has(w, t) <=> \E k \in Nat : Stands(w, t, k)
  <2>1. \A k \in Nat : Stands(w, t, k) => k >= 1
    BY <1>1
  <2> QED  BY <1>2, <2>1 DEF Has
<1>4. Len(t) \in Nat
  BY Ends
<1>5. \A k \in Nat : Stands(w, t, k) <=> k \in 1..(Len(t) - 1) /\ t[k] = x /\ t[k + 1] = y
  BY <1>1, <1>4
<1>6. (\E k \in Nat : Stands(w, t, k)) <=> \E k \in 1..(Len(t) - 1) : t[k] = x /\ t[k + 1] = y
  BY <1>4, <1>5
<1> QED  BY <1>3, <1>6 DEF w

LEMMA SearchedWords == Searched \subseteq Word /\ ":" \in Word
  BY Zenon DEF Searched, Word

\* A text is clean if none of the words in it is followed by a colon.
LEMMA CleanIs ==
    ASSUME NEW t \in Text
    PROVE  Clean(t) <=> \A k \in 1..(Len(t) - 1) : ~(t[k] \in Searched /\ t[k + 1] = ":")
<1>1. \A w \in Searched : Has(<<w, ":">>, t) <=> \E k \in 1..(Len(t) - 1) : t[k] = w /\ t[k + 1] = ":"
  BY SearchedWords, HasPair
<1> QED  BY <1>1 DEF Clean

-----------------------------------------------------------------------------
(* The places of a head.                                                   *)

\* What is cut into pieces has each place in one of them.
LEMMA Segment ==
    ASSUME NEW n \in Nat, NEW st \in [1..(n + 1) -> Nat], NEW k \in Nat,
           st[1] <= k, k < st[n + 1]
    PROVE  \E i \in 1..n : st[i] <= k /\ k < st[i + 1]
<1> DEFINE T == {j \in 1..(n + 1) : k < st[j]}
<1>1. n + 1 \in T /\ T \in SUBSET Nat
  OBVIOUS
<1>2. PICK j \in T : \A y \in T : j <= y
  BY <1>1, LeastNumber
<1>3. j \in 1..(n + 1) /\ k < st[j] /\ j # 1
  BY <1>2
<1>4. j - 1 \in 1..n /\ (j - 1) + 1 = j /\ j - 1 \in 1..(n + 1) /\ ~(j <= j - 1)
  BY <1>3
<1>5. j - 1 \notin T
  BY <1>2, <1>4
<1>6. st[j - 1] <= k
  BY <1>4, <1>5
<1> QED  BY <1>3, <1>4, <1>6

LEMMA NoSearched == {":", SP, CR, LF, "HTTP/1.1"} \cap Searched = {}
  BY Zenon DEF SP, CR, LF, Searched

LEMMA Marks == CR # LF /\ CR # ":" /\ CR # SP /\ LF # ":" /\ LF # SP /\ SP # ":" /\ "HTTP/1.1" # CR
  BY Zenon DEF CR, LF, SP

\* In a field such a word is followed by a colon at the end of the name only.
LEMMA FieldWord ==
    ASSUME NEW t \in Text, NEW f, WellFormed(f), Clean(f.value),
           NEW p, Stands(Header(f), t, p),
           NEW k \in Nat, p <= k, k < p + Len(Header(f)), t[k] \in Searched, t[k + 1] = ":"
    PROVE  k = (p + Len(f.name)) - 1 /\ t[k] = f.name[Len(f.name)]
<1> DEFINE name == f.name
           pad == f.pad
           content == f.value
           n == Len(name)
           m == Len(pad)
           v == Len(content)
           h == Header(f)
           i == (k - p) + 1
<1>0. /\ name \in Text /\ pad \in Text /\ content \in Text
      /\ n \in Nat \ {0} /\ m \in Nat /\ v \in Nat
      /\ \A j \in 1..n : name[j] \notin {":", CR, LF}
      /\ \A j \in 1..m : pad[j] = SP
  BY FieldTexts
<1>1. \A j \in 1..(v - 1) : ~(content[j] \in Searched /\ content[j + 1] = ":")
  BY <1>0, CleanIs
<1>2. /\ Len(h) = (((n + 1) + m) + v) + 2
      /\ \A j \in 1..n : h[j] = name[j]
      /\ h[n + 1] = ":"
      /\ \A j \in 1..m : h[(n + 1) + j] = pad[j]
      /\ \A j \in 1..v : h[((n + 1) + m) + j] = content[j]
      /\ h[(((n + 1) + m) + v) + 1] = CR /\ h[(((n + 1) + m) + v) + 2] = LF
  <2>1. h = Line(name, pad, content)
    BY HeaderLine
  <2> HIDE DEF name, pad, content, h
  <2>2. Laid(h, name, pad, content)
    BY <1>0, <2>1, FieldParts
  <2> QED  BY <2>2 DEF Laid
<1>3. p \in Nat \ {0} /\ \A j \in 1..Len(h) : t[(p + j) - 1] = h[j]
  BY DEF Stands
<1> HIDE DEF name, pad, content, n, m, v, h
<1>4. i \in 1..Len(h) /\ (p + i) - 1 = k /\ (p + (i + 1)) - 1 = k + 1
  <2>1. p <= k /\ k < p + Len(h) /\ p \in Nat
    BY <1>3 DEF h
  <2> QED  BY <1>0, <1>2, <2>1
<1> HIDE DEF i
<1>5. h[i] \in Searched /\ (i + 1 \in 1..Len(h) => h[i + 1] = ":")
  BY <1>3, <1>4
<1>6. \/ i \in 1..n \/ i = n + 1 \/ i \in ((n + 1) + 1)..((n + 1) + m)
      \/ i \in (((n + 1) + m) + 1)..(((n + 1) + m) + v)
      \/ i = (((n + 1) + m) + v) + 1 \/ i = (((n + 1) + m) + v) + 2
  BY <1>0, <1>2, <1>4
<1>7. CASE i \in 1..n
  <2>1. ~(i < n)
    <3> SUFFICES ASSUME i < n PROVE FALSE
      OBVIOUS
    <3>1. i + 1 \in 1..n /\ i + 1 \in 1..Len(h)
      BY <1>0, <1>2, <1>7
    <3> QED  BY <1>0, <1>2, <1>5, <3>1
  <2>2. i = n
    BY <1>0, <1>7, <2>1
  <2>3. k = (p + n) - 1 /\ t[k] = name[n]
    BY <1>0, <1>2, <1>3, <1>4, <1>7, <2>2
  <2> QED  BY <2>3 DEF n, name
<1>8. CASE i = n + 1
  BY <1>2, <1>5, <1>8, NoSearched
<1>9. CASE i \in ((n + 1) + 1)..((n + 1) + m)
  <2> DEFINE j == i - (n + 1)
  <2>1. j \in 1..m /\ (n + 1) + j = i
    BY <1>0, <1>9
  <2> HIDE DEF j
  <2>2. h[i] = SP
    BY <1>0, <1>2, <2>1
  <2> QED  BY <1>5, <2>2, NoSearched
<1>10. CASE i \in (((n + 1) + m) + 1)..(((n + 1) + m) + v)
  <2> DEFINE j == i - ((n + 1) + m)
  <2>1. j \in 1..v /\ ((n + 1) + m) + j = i /\ ((n + 1) + m) + (j + 1) = i + 1
    BY <1>0, <1>10
  <2> HIDE DEF j
  <2>2. h[i] = content[j]
    BY <1>2, <2>1
  <2>3. i + 1 \in 1..Len(h)
    BY <1>0, <1>2, <1>4, <1>10
  <2>4. CASE j = v
    <3>1. i + 1 = (((n + 1) + m) + v) + 1
      BY <2>1, <2>4
    <3> QED  BY <1>2, <1>5, <2>3, <3>1, Marks
  <2>5. CASE j # v
    <3>1. j \in 1..(v - 1) /\ j + 1 \in 1..v
      BY <1>0, <2>1, <2>5
    <3>2. h[i + 1] = content[j + 1]
      BY <1>2, <2>1, <3>1
    <3> QED  BY <1>1, <1>5, <2>2, <2>3, <3>1, <3>2
  <2> QED  BY <2>4, <2>5
<1>11. CASE i = (((n + 1) + m) + v) + 1 \/ i = (((n + 1) + m) + v) + 2
  BY <1>2, <1>5, <1>11, NoSearched
<1> QED  BY <1>6, <1>7, <1>8, <1>9, <1>10, <1>11

\* The name is where it was put, and the colon behind it.
LEMMA NameEnds ==
    ASSUME NEW t \in Text, NEW f, WellFormed(f), NEW p, Stands(Header(f), t, p)
    PROVE  LET k == (p + Len(f.name)) - 1
           IN  /\ k \in Nat \ {0} /\ p <= k /\ (k + 1) + 2 < p + Len(Header(f))
               /\ k + 1 <= Len(t)
               /\ t[k] = f.name[Len(f.name)] /\ t[k + 1] = ":"
<1> DEFINE name == f.name
           pad == f.pad
           content == f.value
           n == Len(name)
           h == Header(f)
<1>0. /\ name \in Text /\ pad \in Text /\ content \in Text /\ n \in Nat \ {0}
      /\ Len(pad) \in Nat /\ Len(content) \in Nat
  BY FieldTexts
<1>1. Len(h) = (((n + 1) + Len(pad)) + Len(content)) + 2 /\ h[n] = name[n] /\ h[n + 1] = ":"
  <2>1. h = Line(name, pad, content)
    BY HeaderLine
  <2>2. n \in 1..n
    BY <1>0
  <2> HIDE DEF name, pad, content, h
  <2>3. Laid(h, name, pad, content)
    BY <1>0, <2>1, FieldParts
  <2> QED  BY <2>2, <2>3 DEF Laid
<1>2. p \in Nat \ {0} /\ p + Len(h) <= Behind(t) /\ \A j \in 1..Len(h) : t[(p + j) - 1] = h[j]
  BY DEF Stands
<1>3. Len(t) \in Nat /\ Behind(t) = Len(t) + 1
  BY Ends
<1> HIDE DEF n, h, name, pad, content
<1> DEFINE k == (p + n) - 1
<1>4. k \in Nat \ {0} /\ p <= k /\ (k + 1) + 2 < p + Len(h) /\ k + 1 <= Len(t)
  BY <1>0, <1>1, <1>2, <1>3
<1>5. n \in 1..Len(h) /\ n + 1 \in 1..Len(h) /\ (p + (n + 1)) - 1 = k + 1
  BY <1>0, <1>1, <1>2
<1>6. t[k] = name[n] /\ t[k + 1] = ":"
  BY <1>1, <1>2, <1>5
<1> QED  BY <1>4, <1>6 DEF n, name, h

\* Where a field that stands at p ends.
LEMMA FieldEnds ==
    ASSUME NEW t \in Text, NEW f, WellFormed(f), NEW p, Stands(Header(f), t, p)
    PROVE  \E eol \in Nat :
             /\ eol + 2 = p + Len(Header(f)) /\ p < eol /\ p \in Nat \ {0}
             /\ t[eol] = CR /\ t[eol + 1] = LF /\ eol + 1 <= Len(t)
             /\ \A j \in p..(eol - 1) : t[j] # CR
             /\ t[p] \notin {CR, LF}
<1>1. PICK colon, value, eol \in Nat :
             /\ Found(t, p, f.name, f.value, colon, value, eol)
             /\ eol + 2 = p + Len(Header(f))
             /\ colon = p + Len(f.name) /\ t[eol] = CR /\ t[eol + 1] = LF
             /\ \A j \in p..(eol - 1) : t[j] # CR
  BY PartsFound
<1> DEFINE h == Header(f)
<1>2. p \in Nat \ {0} /\ t[p] \notin {CR, LF}
  BY <1>1 DEF Stands, Found
<1>3. Len(t) \in Nat /\ Behind(t) = Len(t) + 1
  BY Ends
<1>4. eol + 1 <= Len(t)
  BY <1>1, <1>3 DEF Found
<1>5. p < eol
  <2> DEFINE n == Len(f.name)
  <2>1. n \in Nat \ {0} /\ (p + n) - 1 \in Nat /\ ((p + n) - 1) + 1 + 2 < p + Len(h)
    BY FieldTexts, NameEnds
  <2> HIDE DEF n, h
  <2> QED  BY <1>1, <1>2, <2>1 DEF h
<1> QED  BY <1>1, <1>2, <1>4, <1>5

LEMMA FieldsSent ==
    ASSUME NEW f \in Sendable
    PROVE  WellFormed(f) /\ Clean(f.value)
  BY TextConstants

LEMMA CourseIs ==
    ASSUME NEW t \in Text, NEW fs \in Seq(Sendable), NEW st, Course(st, t, fs)
    PROVE  /\ Len(fs) \in Nat /\ st \in [1..(Len(fs) + 1) -> Nat]
           /\ \A i \in 1..Len(fs) :
                 /\ fs[i] \in Sendable /\ WellFormed(fs[i]) /\ Clean(fs[i].value)
                 /\ Stands(Header(fs[i]), t, st[i])
                 /\ st[i] \in Nat \ {0} /\ st[i + 1] \in Nat \ {0}
                 /\ st[i + 1] = st[i] + Len(Header(fs[i]))
<1>1. Len(fs) \in Nat /\ \A i \in 1..Len(fs) : fs[i] \in Sendable
  OBVIOUS
<1>2. \A i \in 1..Len(fs) : WellFormed(fs[i]) /\ Clean(fs[i].value)
  BY <1>1, FieldsSent
<1>3. st \in [1..(Len(fs) + 1) -> Nat \ {0}]
  BY DEF Course
<1>4. \A i \in 1..Len(fs) : i \in 1..(Len(fs) + 1) /\ i + 1 \in 1..(Len(fs) + 1)
  BY <1>1
<1>5. \A i \in 1..Len(fs) : st[i] \in Nat \ {0} /\ st[i + 1] \in Nat \ {0}
  BY <1>3, <1>4
<1>6. st \in [1..(Len(fs) + 1) -> Nat]
  BY <1>3
<1>7. \A i \in 1..Len(fs) : Stands(Header(fs[i]), t, st[i]) /\ st[i + 1] = st[i] + Len(Header(fs[i]))
  BY DEF Course
<1> QED  BY <1>1, <1>2, <1>5, <1>6, <1>7, Zenon

\* In a head such a word is followed by a colon at the end of a name only.
LEMMA HeadWord ==
    ASSUME NEW t \in Text, Begins(t), NEW fs \in Seq(Sendable), NEW st, Course(st, t, fs),
           NEW k \in Nat \ {0}, k < st[Len(fs) + 1], t[k] \in Searched, t[k + 1] = ":"
    PROVE  \E i \in 1..Len(fs) : /\ k = (st[i] + Len(fs[i].name)) - 1
                                 /\ t[k] = fs[i].name[Len(fs[i].name)]
<1> DEFINE n == Len(fs)
<1>1. /\ n \in Nat /\ st \in [1..(n + 1) -> Nat]
      /\ \A i \in 1..n : /\ WellFormed(fs[i]) /\ Clean(fs[i].value)
                         /\ Stands(Header(fs[i]), t, st[i])
                         /\ st[i + 1] = st[i] + Len(Header(fs[i]))
  BY CourseIs
<1>2. st[1] = 5
  BY DEF Course
<1>3. k >= 5
  <2>1. k # 1 /\ k # 2 /\ k # 3 /\ k # 4
    BY NoSearched, Marks DEF Begins
  <2> QED  BY <2>1
<1>4. \E i \in 1..n : st[i] <= k /\ k < st[i + 1]
  BY <1>1, <1>2, <1>3, Segment
<1>5. PICK i \in 1..n : st[i] <= k /\ k < st[i + 1]
  BY <1>4
<1>6. k < st[i] + Len(Header(fs[i]))
  BY <1>1, <1>5
<1>7. k = (st[i] + Len(fs[i].name)) - 1 /\ t[k] = fs[i].name[Len(fs[i].name)]
  BY <1>1, <1>5, <1>6, FieldWord, ZenonT(40)
<1> QED  BY <1>7

\* A line of the head ends with the status line or with a field.
LEMMA HeadLine ==
    ASSUME NEW t \in Text, Begins(t), NEW fs \in Seq(Sendable), NEW st, Course(st, t, fs),
           NEW k \in Nat \ {0}, k < st[Len(fs) + 1], t[k] = CR
    PROVE  k = 3 \/ \E i \in 1..Len(fs) : k + 2 = st[i + 1]
<1> DEFINE n == Len(fs)
<1>1. /\ n \in Nat /\ st \in [1..(n + 1) -> Nat]
      /\ \A i \in 1..n : /\ WellFormed(fs[i])
                         /\ Stands(Header(fs[i]), t, st[i])
                         /\ st[i + 1] = st[i] + Len(Header(fs[i]))
  BY CourseIs
<1>2. st[1] = 5
  BY DEF Course
<1>3. k = 3 \/ k >= 5
  <2>1. k # 1 /\ k # 2 /\ k # 4
    BY Marks DEF Begins
  <2> QED  BY <2>1
<1>4. CASE k >= 5
  <2>1. \E i \in 1..n : st[i] <= k /\ k < st[i + 1]
    BY <1>1, <1>2, <1>4, Segment
  <2>2. PICK i \in 1..n : st[i] <= k /\ k < st[i + 1]
    BY <2>1
  <2>3. PICK eol \in Nat :
             /\ eol + 2 = st[i] + Len(Header(fs[i])) /\ st[i] < eol /\ st[i] \in Nat \ {0}
             /\ t[eol] = CR /\ t[eol + 1] = LF /\ eol + 1 <= Len(t)
             /\ \A j \in st[i]..(eol - 1) : t[j] # CR
             /\ t[st[i]] \notin {CR, LF}
    BY <1>1, <2>2, FieldEnds
  <2>4. st[i] \in Nat /\ eol + 2 = st[i + 1]
    BY <1>1, <2>3
  <2>5. ~(k < eol)
    BY <2>2, <2>3, <2>4
  <2>6. k # eol + 1
    BY <2>3, Marks
  <2>7. k + 2 = st[i + 1]
    BY <2>2, <2>4, <2>5, <2>6
  <2> QED  BY <2>7
<1> QED  BY <1>3, <1>4

\* A line begins with no line end, but for the last one.
LEMMA LineBegins ==
    ASSUME NEW t \in Text, Begins(t), NEW fs \in Seq(Sendable), NEW st, Course(st, t, fs),
           NEW i \in 1..Len(fs)
    PROVE  t[st[i]] \notin {CR, LF}
<1>1. WellFormed(fs[i]) /\ Stands(Header(fs[i]), t, st[i])
  BY CourseIs
<1>2. PICK colon, value, eol \in Nat : Found(t, st[i], fs[i].name, fs[i].value, colon, value, eol)
  BY <1>1, PartsFound, Zenon
<1> QED  BY <1>2 DEF Found

LEMMA BlankLine ==
    /\ CRLF \o CRLF \in Text /\ Len(CRLF \o CRLF) = 4
    /\ \A t \in Text : \A k \in Nat :
          Stands(CRLF \o CRLF, t, k) <=> /\ k # 0 /\ k + 3 <= Len(t)
                                         /\ t[k] = CR /\ t[k + 1] = LF
                                         /\ t[k + 2] = CR /\ t[k + 3] = LF
<1> DEFINE w == CRLF \o CRLF
<1>1. w \in Text /\ Len(w) = 4 /\ w[1] = CR /\ w[2] = LF /\ w[3] = CR /\ w[4] = LF
  <2>1. /\ Joint(CRLF, CRLF) \in Text /\ Len(Joint(CRLF, CRLF)) = Len(CRLF) + Len(CRLF)
        /\ \A i \in 1..Len(CRLF) : Joint(CRLF, CRLF)[i] = CRLF[i]
        /\ \A i \in 1..Len(CRLF) : Joint(CRLF, CRLF)[Len(CRLF) + i] = CRLF[i]
    BY LineEnd, Joins
  <2>2. w = Joint(CRLF, CRLF)
    BY DEF Joint
  <2> HIDE DEF w
  <2> QED  BY <2>1, <2>2, LineEnd
<1> HIDE DEF w
<1>2. ASSUME NEW t \in Text, NEW k \in Nat
      PROVE  Stands(w, t, k) <=> /\ k # 0 /\ k + 3 <= Len(t)
                                 /\ t[k] = CR /\ t[k + 1] = LF /\ t[k + 2] = CR /\ t[k + 3] = LF
  <2>1. Len(t) \in Nat /\ Behind(t) = Len(t) + 1
    BY Ends
  <2>2. Stands(w, t, k) <=> k # 0 /\ k + 4 <= Behind(t) /\ \A i \in 1..4 : t[(k + i) - 1] = w[i]
    BY <1>1 DEF Stands
  <2>3. (\A i \in 1..4 : t[(k + i) - 1] = w[i]) <=>
          /\ t[k] = CR /\ t[k + 1] = LF /\ t[k + 2] = CR /\ t[k + 3] = LF
    <3>1. \A i : i \in 1..4 <=> i = 1 \/ i = 2 \/ i = 3 \/ i = 4
      OBVIOUS
    <3>2. (k + 1) - 1 = k /\ (k + 2) - 1 = k + 1 /\ (k + 3) - 1 = k + 2 /\ (k + 4) - 1 = k + 3
      OBVIOUS
    <3> QED  BY <1>1, <3>1, <3>2
  <2> QED  BY <2>1, <2>2, <2>3
<1> QED  BY <1>1, <1>2 DEF w

\* The first empty line of a response ends its head.
LEMMA NoneBefore ==
    ASSUME NEW t \in Text, Begins(t), NEW fs \in Seq(Sendable), NEW st, Course(st, t, fs),
           NEW k \in Nat, k + 2 < st[Len(fs) + 1]
    PROVE  ~Stands(CRLF \o CRLF, t, k)
<1> SUFFICES ASSUME Stands(CRLF \o CRLF, t, k) PROVE FALSE
  OBVIOUS
<1>1. k # 0 /\ t[k] = CR /\ t[k + 2] = CR
  BY BlankLine
<1> DEFINE n == Len(fs)
<1>2. /\ n \in Nat /\ st \in [1..(n + 1) -> Nat] /\ st[1] = 5
      /\ \A i \in 1..n : st[i + 1] = st[i] + Len(Header(fs[i]))
  BY CourseIs DEF Course
<1>3. \E i \in 1..(n + 1) : k + 2 = st[i]
  <2>1. k \in Nat \ {0} /\ k < st[n + 1]
    BY <1>1, <1>2, SMTT(30)
  <2>2. k = 3 \/ \E i \in 1..n : k + 2 = st[i + 1]
    BY <1>1, <2>1, HeadLine
  <2>3. CASE k = 3
    <3>1. 1 \in 1..(n + 1) /\ k + 2 = 5
      BY <1>2, <2>3
    <3> QED  BY <1>2, <3>1
  <2>4. CASE \E i \in 1..n : k + 2 = st[i + 1]
    <3>1. PICK i \in 1..n : k + 2 = st[i + 1]
      BY <2>4
    <3>2. i + 1 \in 1..(n + 1)
      BY <1>2
    <3> QED  BY <3>1, <3>2
  <2> QED  BY <2>2, <2>3, <2>4
<1>4. PICK i \in 1..(n + 1) : k + 2 = st[i]
  BY <1>3
<1>5. i \in 1..n
  BY <1>2, <1>4
<1> QED  BY <1>1, <1>4, <1>5, LineBegins

LEMMA HeadOver ==
    ASSUME NEW t \in Text, Begins(t), NEW fs \in Seq(Sendable), NEW st, Course(st, t, fs)
    PROVE  LET e == st[Len(fs) + 1]
           IN  e \in Nat /\ e >= 5 /\ t[e - 2] = CR /\ t[e - 1] = LF
<1> DEFINE n == Len(fs)
           e == st[n + 1]
<1>1. /\ n \in Nat /\ st \in [1..(n + 1) -> Nat] /\ st[1] = 5
      /\ \A i \in 1..n : /\ WellFormed(fs[i]) /\ Stands(Header(fs[i]), t, st[i])
                         /\ st[i + 1] = st[i] + Len(Header(fs[i]))
  <2>1. st[1] = 5
    BY DEF Course
  <2> QED  BY <2>1, CourseIs
<1>2. CASE n = 0
  <2>1. e = 5
    BY <1>1, <1>2
  <2> QED  BY <2>1 DEF Begins
<1>3. CASE n # 0
  <2>1. n \in 1..n
    BY <1>1, <1>3
  <2>2. PICK eol \in Nat :
             /\ eol + 2 = st[n] + Len(Header(fs[n])) /\ st[n] < eol /\ st[n] \in Nat \ {0}
             /\ t[eol] = CR /\ t[eol + 1] = LF /\ eol + 1 <= Len(t)
             /\ \A j \in st[n]..(eol - 1) : t[j] # CR
             /\ t[st[n]] \notin {CR, LF}
    BY <1>1, <2>1, FieldEnds
  <2>3. e = eol + 2
    BY <1>1, <2>1, <2>2
  <2>4. e - 2 = eol /\ e - 1 = eol + 1 /\ e \in Nat
    BY <2>3
  <2>5. e >= 5
    <3>1. e # 1 /\ e # 2 /\ e # 3 /\ e # 4 /\ e # 0
      <4>1. eol # 0 /\ eol # 1 /\ eol # 2
        BY <2>2, Marks DEF Begins
      <4> QED  BY <2>3, <4>1
    <3> QED  BY <2>4, <3>1
  <2> QED  BY <2>2, <2>4, <2>5
<1> QED  BY <1>2, <1>3

LEMMA BlankFound ==
    ASSUME NEW t \in Text, Begins(t), NEW fs \in Seq(Sendable), NEW st, Course(st, t, fs),
           Stands(CRLF, t, st[Len(fs) + 1])
    PROVE  Find(CRLF \o CRLF, t, 1) = st[Len(fs) + 1] - 2
<1> DEFINE e == st[Len(fs) + 1]
           w == CRLF \o CRLF
<1>1. e \in Nat /\ e >= 5 /\ t[e - 2] = CR /\ t[e - 1] = LF
  BY HeadOver
<1>2. e + 1 <= Len(t) /\ t[e] = CR /\ t[e + 1] = LF
  <2>1. CR \in Word /\ LF \in Word
    BY DEF Word
  <2> QED  BY <1>1, <2>1, PairIs DEF CRLF
<1> HIDE DEF e
<1> DEFINE k == e - 2
<1>3. k \in Nat /\ k # 0 /\ k >= 1 /\ k + 1 = e - 1 /\ k + 2 = e /\ k + 3 = e + 1
  BY <1>1
<1>4. Stands(w, t, k)
  <2> HIDE DEF k
  <2> QED  BY <1>1, <1>2, <1>3, BlankLine DEF k
<1>5. \A m \in Nat : m >= 1 /\ m < k => ~Stands(w, t, m)
  BY <1>3, NoneBefore DEF e
<1>6. w \in Text /\ Len(w) > 0
  BY BlankLine
<1> HIDE DEF w, k
<1>7. Find(w, t, 1) = k
  BY <1>3, <1>4, <1>5, <1>6, FindFirst
<1> QED  BY <1>7 DEF w, k, e

-----------------------------------------------------------------------------
(* Numbers in a text.                                                      *)

LEMMA NoDigits == {":", "/", ";", SP, CR, LF} \cap Digits = {}
  BY Zenon DEF SP, CR, LF, Digits

LEMMA DigitNumbers ==
    /\ \A d \in Digits : Number[d] \in 0..5
    /\ \A d \in Digits : Digit(Number[d]) \in Digits /\ Number[Digit(Number[d])] = Number[d]
    /\ "0" \in Digits /\ Number["0"] = 0
<1>1. /\ Number["0"] = 0 /\ Number["1"] = 1 /\ Number["2"] = 2
      /\ Number["3"] = 3 /\ Number["4"] = 4 /\ Number["5"] = 5
  BY DEF Number, Digits
<1>2. \A d \in Digits : d = "0" \/ d = "1" \/ d = "2" \/ d = "3" \/ d = "4" \/ d = "5"
  BY Zenon DEF Digits
<1>3. \A d \in Digits : Number[d] \in 0..5
  <2> TAKE d \in Digits
  <2>1. Number[d] = 0 \/ Number[d] = 1 \/ Number[d] = 2 \/ Number[d] = 3 \/ Number[d] = 4 \/ Number[d] = 5
    BY <1>1, <1>2, Zenon
  <2> QED  BY <2>1
<1>4. \A d \in Digits : Digit(Number[d]) \in Digits /\ Number[Digit(Number[d])] = Number[d]
  BY Zenon DEF Digit
<1>5. "0" \in Digits
  BY Zenon DEF Digits
<1> QED  BY <1>1, <1>3, <1>4, <1>5

NumberOf(base, digits) == FoldLeft(LAMBDA n, d : base * n + Number[d], 0, digits)

LEMMA OneDigit ==
    ASSUME NEW base \in Nat, NEW a, Number[a] \in Nat, NEW ds, DOMAIN ds = 1..1, ds[1] = a
    PROVE  NumberOf(base, ds) = Number[a]
<1> DEFINE D == SUBSET (1..1)
           Step(it) == [s \in D |-> IF s = {} THEN 0
                                    ELSE base * it[s \ {Max(s)}] + Number[ds[Max(s)]]]
           it0 == [s \in D |-> IF s = {} THEN 0 ELSE Number[a]]
           iter == CHOOSE it : it = Step(it)
<1>1. NumberOf(base, ds) = iter[1..1]
  BY Zenon DEF NumberOf, FoldLeft, MapThenFoldSet
<1>2. 1..1 = {1} /\ Max({1}) = 1
  BY MaxIs
<1>3. it0 = Step(it0)
  <2> SUFFICES ASSUME NEW s \in D PROVE it0[s] = Step(it0)[s]
    OBVIOUS
  <2>1. CASE s = {}
    BY <2>1
  <2>2. CASE s # {}
    <3>1. s = {1} /\ {} \in D
      BY <1>2, <2>2
    <3>2. s \ {Max(s)} = {}
      BY <1>2, <3>1
    <3>3. Step(it0)[s] = base * it0[{}] + Number[ds[1]]
      BY <1>2, <2>2, <3>1, <3>2
    <3>4. it0[{}] = 0 /\ it0[s] = Number[a]
      BY <2>2, <3>1
    <3> QED  BY <3>3, <3>4
  <2> QED  BY <2>1, <2>2
<1>4. iter = Step(iter)
  <2> HIDE DEF it0
  <2> QED  BY <1>3
<1> HIDE DEF iter
<1>5. iter[{}] = 0
  BY <1>4
<1>6. {1} \in D /\ {1} # {} /\ {1} \ {Max({1})} = {}
  BY <1>2
<1>7. iter[{1}] = base * iter[{}] + Number[ds[1]]
  BY <1>2, <1>4, <1>6
<1> QED  BY <1>1, <1>2, <1>5, <1>7

LEMMA TwoDigits ==
    ASSUME NEW base \in Nat, NEW a, Number[a] \in Nat, NEW b, Number[b] \in Nat,
           NEW ds, DOMAIN ds = 1..2, ds[1] = a, ds[2] = b
    PROVE  NumberOf(base, ds) = base * Number[a] + Number[b]
<1> DEFINE D == SUBSET (1..2)
           Step(it) == [s \in D |-> IF s = {} THEN 0
                                    ELSE base * it[s \ {Max(s)}] + Number[ds[Max(s)]]]
           it0 == [s \in D |-> IF s = {} THEN 0 ELSE IF s = {1} THEN Number[a]
                               ELSE IF s = {2} THEN Number[b] ELSE base * Number[a] + Number[b]]
           iter == CHOOSE it : it = Step(it)
<1>1. NumberOf(base, ds) = iter[1..2]
  BY Zenon DEF NumberOf, FoldLeft, MapThenFoldSet
<1>2. 1..2 = {1, 2} /\ Max({1}) = 1 /\ Max({2}) = 2 /\ Max({1, 2}) = 2
  BY MaxIs
<1>3. {} \in D /\ {1} \in D /\ {2} \in D /\ {1, 2} \in D
      /\ {1} \ {1} = {} /\ {2} \ {2} = {} /\ {1, 2} \ {2} = {1}
      /\ {1} # {} /\ {2} # {} /\ {1, 2} # {} /\ {1} # {2} /\ {1, 2} # {1} /\ {1, 2} # {2}
  OBVIOUS
<1>4. it0[{}] = 0 /\ it0[{1}] = Number[a] /\ it0[{2}] = Number[b]
      /\ it0[{1, 2}] = base * Number[a] + Number[b]
  BY <1>3
<1>5. \A it : /\ Step(it)[{}] = 0
              /\ Step(it)[{1}] = base * it[{}] + Number[a]
              /\ Step(it)[{2}] = base * it[{}] + Number[b]
              /\ Step(it)[{1, 2}] = base * it[{1}] + Number[b]
  BY <1>2, <1>3
<1>6. it0 = Step(it0)
  <2> SUFFICES ASSUME NEW s \in D PROVE it0[s] = Step(it0)[s]
    OBVIOUS
  <2>1. s = {} \/ s = {1} \/ s = {2} \/ s = {1, 2}
    BY <1>2
  <2> HIDE DEF it0, Step
  <2>2. base * 0 = 0 /\ 0 + Number[a] = Number[a] /\ 0 + Number[b] = Number[b]
    OBVIOUS
  <2>3. /\ Step(it0)[{}] = 0 /\ Step(it0)[{1}] = base * 0 + Number[a]
        /\ Step(it0)[{2}] = base * 0 + Number[b]
        /\ Step(it0)[{1, 2}] = base * Number[a] + Number[b]
    BY <1>4, <1>5, ZenonT(40)
  <2>4. /\ Step(it0)[{}] = it0[{}] /\ Step(it0)[{1}] = it0[{1}]
        /\ Step(it0)[{2}] = it0[{2}] /\ Step(it0)[{1, 2}] = it0[{1, 2}]
    BY <1>4, <2>2, <2>3
  <2> QED  BY <2>1, <2>4, Zenon
<1>7. iter = Step(iter)
  <2> HIDE DEF it0
  <2> QED  BY <1>6
<1> HIDE DEF iter, Step
<1>8. iter[{}] = 0 /\ iter[{1}] = base * 0 + Number[a] /\ iter[{1, 2}] = base * iter[{1}] + Number[b]
  BY <1>5, <1>7
<1> QED  BY <1>1, <1>2, <1>8

\* A number of one digit or two, as it is written.
Numeral(n, base) ==
    IF n < base THEN <<Digit(n)>> ELSE <<Digit(n \div base), Digit(n % base)>>

LEMMA NumeralIs ==
    ASSUME NEW base \in {10, 16}, NEW h \in Digits, NEW l \in Digits,
           NEW n, n = base * Number[h] + Number[l]
    PROVE  /\ n \in Nat /\ Numeral(n, base) \in Text /\ Len(Numeral(n, base)) \in {1, 2}
           /\ \A i \in 1..Len(Numeral(n, base)) : Numeral(n, base)[i] \in Digits
           /\ NumberOf(base, Numeral(n, base)) = n
<1> DEFINE x == Number[h]
           y == Number[l]
           ds == Numeral(n, base)
<1>1. x \in 0..5 /\ y \in 0..5
  BY DigitNumbers
<1>2. Digit(x) \in Digits /\ Number[Digit(x)] = x /\ Digit(y) \in Digits /\ Number[Digit(y)] = y
  BY DigitNumbers
<1> HIDE DEF x, y
<1>3. n = base * x + y
  BY DEF x, y
<1>4. Digit(x) \in Word /\ Digit(y) \in Word
  <2>1. x \in Nat /\ y \in Nat
    BY <1>1
  <2> QED  BY <2>1, Zenon DEF Word
<1>5. CASE x = 0
  <2>1. n = y /\ n < base /\ n \in Nat
    BY <1>1, <1>3, <1>5
  <2>2. ds = <<Digit(y)>>
    BY <2>1 DEF Numeral
  <2> HIDE DEF ds
  <2>3. ds \in Text /\ Len(ds) = 1 /\ DOMAIN ds = 1..1 /\ ds[1] = Digit(y)
    BY <1>4, <2>2, ShortTexts
  <2>4. base \in Nat /\ Number[Digit(y)] \in Nat
    BY <1>1, <1>2
  <2>5. NumberOf(base, ds) = Number[Digit(y)]
    BY <2>3, <2>4, OneDigit
  <2>6. \A i \in 1..Len(ds) : ds[i] \in Digits
    BY <1>2, <2>3
  <2> QED  BY <1>2, <2>1, <2>3, <2>5, <2>6 DEF ds
<1>6. CASE x # 0
  <2>1. /\ n \in Nat /\ ~(n < base) /\ n \div base = x /\ n % base = y
    <3>1. CASE base = 10
      BY <1>1, <1>3, <1>6, <3>1
    <3>2. CASE base = 16
      BY <1>1, <1>3, <1>6, <3>2
    <3> QED  BY <3>1, <3>2
  <2>2. ds = <<Digit(x), Digit(y)>>
    BY <2>1 DEF Numeral
  <2> HIDE DEF ds
  <2>3. ds \in Text /\ Len(ds) = 2 /\ DOMAIN ds = 1..2 /\ ds[1] = Digit(x) /\ ds[2] = Digit(y)
    <3>1. ds \in Text
      BY <1>4, <2>2, ShortTexts, Zenon
    <3>2. \A a, b : /\ Len(<<a, b>>) = 2 /\ DOMAIN <<a, b>> = 1..2
                    /\ <<a, b>>[1] = a /\ <<a, b>>[2] = b
      OBVIOUS
    <3> QED  BY <2>2, <3>1, <3>2, Zenon
  <2>4. base \in Nat /\ Number[Digit(y)] \in Nat /\ Number[Digit(x)] \in Nat
    BY <1>1, <1>2
  <2>5. NumberOf(base, ds) = base * Number[Digit(x)] + Number[Digit(y)]
    BY <2>3, <2>4, TwoDigits
  <2>6. \A i \in 1..Len(ds) : ds[i] \in Digits
    BY <1>2, <2>3
  <2> QED  BY <1>2, <1>3, <2>1, <2>3, <2>5, <2>6 DEF ds
<1> QED  BY <1>5, <1>6

\* A numeral that ends where the text does, or at what is no digit, is read.
LEMMA ValueIs ==
    ASSUME NEW t \in Text, NEW ds \in Text, Len(ds) > 0, \A j \in 1..Len(ds) : ds[j] \in Digits,
           NEW i, Stands(ds, t, i),
           i + Len(ds) = Behind(t) \/ t[i + Len(ds)] \notin Digits, NEW base
    PROVE  Value(t, i, base) = NumberOf(base, ds)
<1> DEFINE n == Len(ds)
           first == Skip(t, i, {SP, CR, LF})
           past == Skip(t, first, Digits)
<1>1. n \in Nat \ {0} /\ Len(t) \in Nat /\ Behind(t) = Len(t) + 1
  BY Ends
<1>2. i \in Nat \ {0} /\ i + n <= Behind(t) /\ \A j \in 1..n : t[(i + j) - 1] = ds[j]
  BY DEF Stands
<1>3. \A k \in i..((i + n) - 1) : t[k] \in Digits
  <2> TAKE k \in i..((i + n) - 1)
  <2> DEFINE j == (k - i) + 1
  <2>1. j \in 1..n /\ (i + j) - 1 = k
    BY <1>1, <1>2
  <2> HIDE DEF j
  <2> QED  BY <1>2, <2>1
<1> HIDE DEF n
<1>4. first = i
  <2>1. i \in 1..Behind(t) /\ i \in i..Behind(t) /\ i \in i..((i + n) - 1)
    BY <1>1, <1>2
  <2>2. t[i] \notin {SP, CR, LF}
    BY <1>3, <2>1, NoDigits
  <2>3. \A m \in i..(i - 1) : t[m] \in {SP, CR, LF}
    BY <1>2
  <2> QED  BY <2>1, <2>2, <2>3, SkipIs
<1>5. past = i + n
  <2>1. i \in 1..Behind(t) /\ i + n \in i..Behind(t)
    BY <1>1, <1>2
  <2>2. i + n = Behind(t) \/ t[i + n] \notin Digits
    BY DEF n
  <2>3. Skip(t, i, Digits) = i + n
    BY <1>3, <2>1, <2>2, SkipIs
  <2> QED  BY <1>4, <2>3
<1>6. Value(t, i, base) = NumberOf(base, Between(t, first, past))
  BY Zenon DEF Value, NumberOf
<1>7. Between(t, i, i + n) = ds
  BY StandsBetween DEF n
<1> QED  BY <1>4, <1>5, <1>6, <1>7

-----------------------------------------------------------------------------
(* A URL that is written down and taken apart again.                       *)

LEMMA TwoWords == ASSUME NEW a \in Word, NEW b \in Word PROVE <<a>> \o <<b>> = <<a, b>>
<1> DEFINE x == <<a>>
           y == <<b>>
           z == <<a, b>>
           u == Joint(x, y)
<1>1. x \in Text /\ Len(x) = 1 /\ x[1] = a /\ y \in Text /\ Len(y) = 1 /\ y[1] = b
  BY ShortTexts
<1>2. z \in Text /\ Len(z) = 2 /\ z[1] = a /\ z[2] = b
  <2>1. z \in Text
    BY ShortTexts, Zenon
  <2> QED  BY <2>1
<1> HIDE DEF x, y, z
<1>3. /\ u \in Text /\ Len(u) = Len(x) + Len(y)
      /\ \A i \in 1..Len(x) : u[i] = x[i]
      /\ \A i \in 1..Len(y) : u[Len(x) + i] = y[i]
  BY <1>1, Joins
<1> HIDE DEF u
<1>4. Len(u) = 2 /\ u[1] = a /\ u[2] = b
  <2>1. 1 \in 1..Len(x) /\ 1 \in 1..Len(y) /\ Len(x) + 1 = 2
    BY <1>1
  <2>2. u[Len(x) + 1] = y[1] /\ u[1] = x[1]
    BY <1>3, <2>1
  <2> QED  BY <1>1, <1>3, <2>1, <2>2
<1>5. \A i \in 1..2 : u[i] = z[i]
  <2>1. \A i \in 1..2 : i = 1 \/ i = 2
    OBVIOUS
  <2> QED  BY <1>2, <1>4, <2>1
<1>6. u = z
  BY <1>2, <1>3, <1>4, <1>5, SeqEqual DEF Text
<1> QED  BY <1>6 DEF u, x, y, z, Joint

LEMMA FirstAndRest ==
    ASSUME NEW w \in Word, NEW t \in Text
    PROVE  LET u == <<w>> \o t IN u \in Text /\ u # <<>> /\ u[1] = w /\ Tail(u) = t
<1> DEFINE o == <<w>>
           u == Joint(o, t)
<1>1. o \in Text /\ Len(o) = 1 /\ o[1] = w
  BY ShortTexts
<1> HIDE DEF o
<1>2. /\ u \in Text /\ Len(u) = Len(o) + Len(t)
      /\ \A i \in 1..Len(o) : u[i] = o[i]
      /\ \A i \in 1..Len(t) : u[Len(o) + i] = t[i]
  BY <1>1, Joins
<1>3. u = <<w>> \o t
  BY DEF Joint, o
<1> HIDE DEF u
<1>4. Len(t) \in Nat
  BY Ends
<1>5. u \in Text /\ Len(u) = 1 + Len(t) /\ u[1] = w /\ \A i \in 1..Len(t) : u[1 + i] = t[i]
  BY <1>1, <1>2
<1>6. u # <<>>
  BY <1>4, <1>5
<1>7. Tail(u) = t
  <2> DEFINE v == Tail(u)
  <2>1. v \in Seq(Word) /\ Len(v) = Len(t) /\ \A i \in 1..Len(t) : v[i] = t[i]
    <3>1. u \in Seq(Word)
      BY <1>5 DEF Text
    <3>2. v \in Seq(Word) /\ Len(v) = Len(u) - 1 /\ \A i \in 1..Len(v) : v[i] = u[i + 1]
      BY <1>6, <3>1, HeadTailProperties
    <3> HIDE DEF v
    <3>3. Len(v) = Len(t)
      BY <1>4, <1>5, <3>2
    <3>4. \A i \in 1..Len(t) : v[i] = t[i]
      <4> TAKE i \in 1..Len(t)
      <4>1. v[i] = u[i + 1] /\ i + 1 = 1 + i
        BY <1>4, <3>2, <3>3
      <4> QED  BY <1>5, <4>1
    <3> QED  BY <3>2, <3>3, <3>4
  <2> HIDE DEF v
  <2>2. v = t
    BY <2>1, SeqEqual DEF Text
  <2> QED  BY <2>2 DEF v
<1> QED  BY <1>3, <1>5, <1>6, <1>7

LEMMA ReferenceTexts ==
    ASSUME NEW ref, Reference(ref)
    PROVE  /\ ref.path \in Text
           /\ ref.kind = "url" =>
                 /\ ref.host \in Text /\ \A i \in 1..Len(ref.host) : ref.host[i] \notin {":", "/"}
                 /\ ref.secure \in BOOLEAN
                 /\ \E h, l \in Digits : ref.port = 10 * Number[h] + Number[l]
                 /\ ref.path # <<>> => ref.path[1] = "/"
<1>1. STRING \subseteq Word /\ (STRING \ {":", "/"}) \subseteq Word
  BY Zenon DEF Word
<1>2. ref.path \in Text
  <2>1. ref.path \in Seq(STRING)
    BY DEF Reference
  <2> QED  BY <1>1, <2>1, SeqMonotonic, Zenon DEF Text
<1>3. ASSUME ref.kind = "url"
      PROVE  /\ ref.host \in Seq(STRING \ {":", "/"}) /\ ref.secure \in BOOLEAN
             /\ ref.port \in {10 * Number[h] + Number[l] : h, l \in Digits}
             /\ ref.path # <<>> => ref.path[1] = "/"
  BY <1>3 DEF Reference
<1>4. ASSUME ref.kind = "url"
      PROVE  /\ ref.host \in Text /\ \A i \in 1..Len(ref.host) : ref.host[i] \notin {":", "/"}
             /\ \E h, l \in Digits : ref.port = 10 * Number[h] + Number[l]
  <2>1. ref.host \in Text
    <3>1. ref.host \in Seq(STRING \ {":", "/"})
      BY <1>3, <1>4
    <3> DEFINE S == STRING \ {":", "/"}
    <3>2. S \subseteq Word /\ ref.host \in Seq(S)
      BY <1>1, <3>1
    <3> HIDE DEF S
    <3> QED  BY <3>2, SeqMonotonic, Zenon DEF Text
  <2>2. \A i \in 1..Len(ref.host) : ref.host[i] \in STRING \ {":", "/"}
    BY <1>3, <1>4
  <2> QED  BY <1>3, <1>4, <2>1, <2>2
<1> QED  BY <1>2, <1>3, <1>4

\* What is written of a port.
Port(port) == IF port = 0 THEN <<>> ELSE Joint(<<":">>, Numeral(port, 10))

LEMMA PortIs ==
    ASSUME NEW h \in Digits, NEW l \in Digits, NEW port, port = 10 * Number[h] + Number[l]
    PROVE  /\ port \in Nat /\ Port(port) \in Text
           /\ Port(port) = IF port = 0 THEN <<>>
                           ELSE <<":">> \o (IF port < 10 THEN <<>> ELSE <<Digit(port \div 10)>>)
                                    \o <<Digit(port % 10)>>
           /\ port # 0 => /\ Len(Port(port)) \in {2, 3} /\ Port(port)[1] = ":"
                          /\ \A i \in 2..Len(Port(port)) : Port(port)[i] \in Digits
<1> DEFINE ds == Numeral(port, 10)
           c == <<":">>
<1>1. /\ port \in Nat /\ ds \in Text /\ Len(ds) \in {1, 2}
      /\ \A i \in 1..Len(ds) : ds[i] \in Digits
  BY NumeralIs
<1>2. c \in Text /\ Len(c) = 1 /\ c[1] = ":"
  BY SearchedWords, ShortTexts
<1> DEFINE u == Joint(c, ds)
<1>3. ds = IF port < 10 THEN <<Digit(port)>> ELSE <<Digit(port \div 10), Digit(port % 10)>>
  BY DEF Numeral
<1> HIDE DEF ds, c
<1>4. /\ u \in Text /\ Len(u) = Len(c) + Len(ds)
      /\ \A i \in 1..Len(c) : u[i] = c[i]
      /\ \A i \in 1..Len(ds) : u[Len(c) + i] = ds[i]
  BY <1>1, <1>2, Joins
<1> HIDE DEF u
<1>5. Len(u) \in {2, 3} /\ u[1] = ":"
  <2>1. 1 \in 1..Len(c)
    BY <1>2
  <2>2. u[1] = c[1]
    BY <1>4, <2>1
  <2>3. u[1] = ":"
    BY <1>2, <2>2, Zenon
  <2>4. Len(u) = 1 + Len(ds)
    BY <1>2, <1>4
  <2>5. Len(u) \in {2, 3}
    <3>1. Len(ds) = 1 \/ Len(ds) = 2
      BY <1>1
    <3>2. Len(u) = 2 \/ Len(u) = 3
      <4>1. 1 + 1 = 2 /\ 1 + 2 = 3
        OBVIOUS
      <4> QED  BY <2>4, <3>1, <4>1, Zenon
    <3> QED  BY <3>2, Zenon
  <2> QED  BY <2>3, <2>5
<1>6. \A i \in 2..Len(u) : u[i] \in Digits
  <2> TAKE i \in 2..Len(u)
  <2> DEFINE j == i - 1
  <2>1. j \in 1..Len(ds) /\ Len(c) + j = i
    BY <1>1, <1>2, <1>4
  <2> HIDE DEF j
  <2> QED  BY <1>1, <1>4, <2>1
<1>7. u = c \o (IF port < 10 THEN <<>> ELSE <<Digit(port \div 10)>>) \o <<Digit(port % 10)>>
  <2> DEFINE a == Digit(port \div 10)
             b == Digit(port % 10)
  <2>1. a \in Word /\ b \in Word
    <3>1. port \div 10 \in Nat /\ port % 10 \in Nat
      BY <1>1
    <3> QED  BY <3>1, Zenon DEF Word
  <2>2. CASE port < 10
    <3>1. port % 10 = port
      BY <1>1, <2>2
    <3>2. ds = <<b>>
      BY <1>3, <2>2, <3>1
    <3>3. c \o <<>> = c
      BY <1>2, ConcatEmptySeq DEF Text
    <3> QED  BY <2>2, <3>2, <3>3, Zenon DEF u, Joint
  <2>3. CASE ~(port < 10)
    <3> HIDE DEF a, b
    <3>1. ds = <<a, b>>
      BY <1>3, <2>3 DEF a, b
    <3>2. <<a>> \in Text /\ <<b>> \in Text
      BY <2>1, ShortTexts, Zenon
    <3>3. c \o <<a>> \o <<b>> = c \o (<<a>> \o <<b>>)
      BY <1>2, <3>2, Together, Zenon
    <3>4. <<a>> \o <<b>> = <<a, b>>
      BY <2>1, TwoWords
    <3> QED  BY <2>3, <3>1, <3>3, <3>4, Zenon DEF u, Joint, a, b
  <2> QED  BY <2>2, <2>3
<1>8. Port(port) = IF port = 0 THEN <<>> ELSE u
  BY Zenon DEF Port, u, c, ds
<1>9. <<>> \in Text
  BY ShortTexts
<1> QED  BY <1>1, <1>4, <1>5, <1>6, <1>7, <1>8, <1>9 DEF c

\* What http_request takes from what is behind the scheme.
UrlOf(scheme, rest, path, colon, port) ==
    IF \/ scheme \notin Scheme
       \/ path - 1 >= HostSize
       \/ port = 0
    THEN Refused
    ELSE [secure |-> scheme = "https://",
          host   |-> Between(rest, 1, colon),
          port   |-> port,
          path   |-> IF path = Behind(rest) THEN <<"/">>
                     ELSE Between(rest, path, Behind(rest))]

PortOf(scheme, rest, colon) ==
    IF colon < Behind(rest) /\ rest[colon] = ":" THEN Value(rest, colon + 1, 10)
    ELSE IF scheme = "https://" THEN 443 ELSE 80

LEMMA UrlTaken ==
    ASSUME NEW url, NEW scheme, NEW rest, url # <<>>, url[1] = scheme, Tail(url) = rest
    PROVE  Url(url) = UrlOf(scheme, rest, Seek(rest, 1, {"/"}), HostEnd(rest),
                            PortOf(scheme, rest, HostEnd(rest)))
  BY ZenonT(40) DEF Url, UrlOf, PortOf, Scheme

LEMMA WholeUrl ==
    ASSUME NEW ref, Reference(ref), ref.kind = "url"
    PROVE  LET scheme == IF ref.secure THEN "https://" ELSE "http://"
               rest   == Joint(Joint(ref.host, Port(ref.port)), ref.path)
           IN  /\ rest \in Text
               /\ Written(ref) # <<>> /\ Written(ref)[1] = scheme /\ Tail(Written(ref)) = rest
<1> DEFINE scheme == IF ref.secure THEN "https://" ELSE "http://"
           host == ref.host
           port == Port(ref.port)
           path == ref.path
           rest == Joint(Joint(host, port), path)
           o == <<scheme>>
<1>1. host \in Text /\ path \in Text
  BY ReferenceTexts
<1>2. PICK h, l \in Digits : ref.port = 10 * Number[h] + Number[l]
  BY ReferenceTexts
<1>3. /\ port \in Text
      /\ port = IF ref.port = 0 THEN <<>>
                ELSE <<":">> \o (IF ref.port < 10 THEN <<>> ELSE <<Digit(ref.port \div 10)>>)
                         \o <<Digit(ref.port % 10)>>
  BY <1>2, PortIs
<1>4. Written(ref) =
         <<scheme>> \o host \o
         (IF ref.port = 0 THEN <<>>
          ELSE <<":">> \o (IF ref.port < 10 THEN <<>> ELSE <<Digit(ref.port \div 10)>>)
                   \o <<Digit(ref.port % 10)>>) \o path
  BY Zenon DEF Written
<1>5. scheme \in Word
  BY Zenon DEF Word, Scheme
<1>6. o \in Text
  BY <1>5, ShortTexts, Zenon
<1> HIDE DEF scheme, host, path, port, o
<1>7. Written(ref) = o \o host \o port \o path
  BY <1>3, <1>4, Zenon DEF o
<1>8. Joint(host, port) \in Text /\ o \o host \in Text
  BY <1>1, <1>3, <1>6, Joins, GoesOn, Zenon
<1> DEFINE x == Joint(host, port)
<1>9. o \o host \o port = o \o x
  <2>1. o \o host \o port = o \o (host \o port)
    <3>1. o \in Text /\ host \in Text /\ port \in Text
      BY <1>1, <1>3, <1>6
    <3> QED  BY <3>1, Together, Zenon
  <2>2. host \o port = x
    BY DEF x, Joint
  <2> QED  BY <2>1, <2>2, Zenon
<1> HIDE DEF x
<1>10. x \in Text
  BY <1>8 DEF x
<1>11. o \o x \o path = o \o Joint(x, path) /\ Joint(x, path) \in Text
  <2>1. o \o x \o path = o \o (x \o path) /\ Joint(x, path) \in Text
    <3>1. o \in Text /\ x \in Text /\ path \in Text
      BY <1>1, <1>6, <1>10
    <3>2. o \o x \o path = o \o (x \o path)
      BY <3>1, Together, Zenon
    <3>3. Joint(x, path) \in Text
      BY <3>1, Joins
    <3> QED  BY <3>2, <3>3
  <2>2. x \o path = Joint(x, path)
    BY DEF Joint
  <2> QED  BY <2>1, <2>2, Zenon
<1>12. Written(ref) = <<scheme>> \o rest /\ rest \in Text
  BY <1>7, <1>9, <1>11, Zenon DEF o, x
<1> HIDE DEF rest
<1>13. Written(ref) # <<>> /\ Written(ref)[1] = scheme /\ Tail(Written(ref)) = rest
  BY <1>5, <1>12, FirstAndRest, Zenon
<1> QED  BY <1>12, <1>13 DEF rest, scheme, host, port, path

\* Two texts behind a third: where they stand.
Parts(t, a, b, c) ==
    /\ t \in Text /\ Len(t) = (Len(a) + Len(b)) + Len(c)
    /\ \A i \in 1..Len(a) : t[i] = a[i]
    /\ \A i \in 1..Len(b) : t[Len(a) + i] = b[i]
    /\ \A i \in 1..Len(c) : t[(Len(a) + Len(b)) + i] = c[i]

LEMMA ThreeParts ==
    ASSUME NEW a \in Text, NEW b \in Text, NEW c \in Text
    PROVE  Parts(Joint(Joint(a, b), c), a, b, c)
<1> DEFINE x == Joint(a, b)
           t == Joint(x, c)
<1>1. /\ x \in Text /\ Len(x) = Len(a) + Len(b)
      /\ \A i \in 1..Len(a) : x[i] = a[i]
      /\ \A i \in 1..Len(b) : x[Len(a) + i] = b[i]
  BY Joins
<1> HIDE DEF x
<1>2. /\ t \in Text /\ Len(t) = Len(x) + Len(c)
      /\ \A i \in 1..Len(x) : t[i] = x[i]
      /\ \A i \in 1..Len(c) : t[Len(x) + i] = c[i]
  BY <1>1, Joins
<1> HIDE DEF t
<1>3. Len(a) \in Nat /\ Len(b) \in Nat /\ Len(c) \in Nat
  BY Ends
<1>4. \A i \in 1..Len(a) : t[i] = a[i]
  BY <1>1, <1>2, <1>3
<1>5. ASSUME NEW i \in 1..Len(b) PROVE t[Len(a) + i] = b[i]
  <2>1. Len(a) + i \in 1..Len(x)
    BY <1>1, <1>3
  <2> QED  BY <1>1, <1>2, <2>1
<1>6. \A i \in 1..Len(c) : t[(Len(a) + Len(b)) + i] = c[i]
  BY <1>1, <1>2
<1>7. Parts(t, a, b, c)
  BY <1>1, <1>2, <1>4, <1>5, <1>6 DEF Parts
<1> QED  BY <1>7 DEF t, x

LEMMA UrlRead ==
    ASSUME NEW ref, Reference(ref), ref.kind = "url", NEW from
    PROVE  \/ Url(Written(ref)) = Meant(ref, from)
           \/ Url(Written(ref)) = Refused /\ Len(Meant(ref, from).host) + 3 >= HostSize
<1> DEFINE scheme == IF ref.secure THEN "https://" ELSE "http://"
           host == ref.host
           port == Port(ref.port)
           path == ref.path
           rest == Joint(Joint(host, port), path)
           a == Len(host)
           p == Len(port)
           q == Len(path)
           number == IF ref.port # 0 THEN ref.port ELSE IF ref.secure THEN 443 ELSE 80
<1>1. /\ host \in Text /\ path \in Text /\ ref.secure \in BOOLEAN
      /\ \A i \in 1..a : host[i] \notin {":", "/"}
      /\ path # <<>> => path[1] = "/"
  BY ReferenceTexts
<1>2. PICK h, l \in Digits : ref.port = 10 * Number[h] + Number[l]
  BY ReferenceTexts
<1>3. /\ port \in Text /\ ref.port \in Nat
      /\ ref.port = 0 => port = <<>>
      /\ ref.port # 0 => p \in {2, 3} /\ port[1] = ":" /\ \A i \in 2..p : port[i] \in Digits
  BY <1>2, PortIs
<1>4. Url(Written(ref)) = UrlOf(scheme, rest, Seek(rest, 1, {"/"}), HostEnd(rest),
                                PortOf(scheme, rest, HostEnd(rest)))
  BY WholeUrl, UrlTaken, Zenon
<1>5. Meant(ref, from) = [secure |-> ref.secure, host |-> host, port |-> number,
                          path |-> IF path = <<>> THEN <<"/">> ELSE path]
  BY Zenon DEF Meant
<1>6. /\ rest \in Text /\ Len(rest) = (a + p) + q
      /\ \A i \in 1..a : rest[i] = host[i]
      /\ \A i \in 1..p : rest[a + i] = port[i]
      /\ \A i \in 1..q : rest[(a + p) + i] = path[i]
  <2> HIDE DEF host, port, path
  <2>1. host \in Text /\ port \in Text /\ path \in Text
    BY <1>1, <1>3
  <2>2. rest = Joint(Joint(host, port), path)
    OBVIOUS
  <2> HIDE DEF rest
  <2>3. Parts(rest, host, port, path)
    BY <2>1, <2>2, ThreeParts
  <2> QED  BY <2>3 DEF Parts
<1>7. HostSize \in Nat
  BY TextConstants
<1>8. a \in Nat /\ p \in Nat /\ q \in Nat /\ Behind(rest) = ((a + p) + q) + 1
  BY <1>1, <1>3, <1>6, Ends
<1>9. q = 0 <=> path = <<>>
  BY <1>1, EmptySeq DEF Text
<1>10. scheme \in Scheme /\ (scheme = "https://" <=> ref.secure)
  BY <1>1, Zenon DEF Scheme
<1>11. ref.port = 0 => p = 0
  BY <1>3
<1> DEFINE ds == Numeral(ref.port, 10)
<1>12. /\ ds \in Text /\ Len(ds) \in {1, 2} /\ \A i \in 1..Len(ds) : ds[i] \in Digits
       /\ NumberOf(10, ds) = ref.port
  BY <1>2, NumeralIs
<1>13. ASSUME ref.port # 0 PROVE p = 1 + Len(ds) /\ \A i \in 1..Len(ds) : port[1 + i] = ds[i]
  <2> DEFINE c == <<":">>
  <2>1. c \in Text /\ Len(c) = 1
    BY SearchedWords, ShortTexts
  <2>2. port = Joint(c, ds)
    BY <1>13, Zenon DEF Port
  <2> HIDE DEF c, ds, port
  <2>3. /\ Len(port) = Len(c) + Len(ds)
        /\ \A i \in 1..Len(ds) : port[Len(c) + i] = ds[i]
    BY <1>12, <2>1, <2>2, Joins
  <2> QED  BY <2>1, <2>3 DEF p
<1> HIDE DEF scheme, host, port, path, rest, a, p, q, ds, number
<1>14. Seek(rest, 1, {"/"}) = (a + p) + 1
  <2>1. 1 \in 1..Behind(rest) /\ (a + p) + 1 \in 1..Behind(rest)
    BY <1>8
  <2>2. (a + p) + 1 = Behind(rest) \/ rest[(a + p) + 1] \in {"/"}
    <3>1. CASE q = 0
      BY <1>8, <3>1
    <3>2. CASE q # 0
      <4>1. 1 \in 1..q /\ path[1] = "/"
        BY <1>1, <1>8, <1>9, <3>2
      <4> QED  BY <1>6, <4>1
    <3> QED  BY <3>1, <3>2
  <2>3. \A m \in 1..(((a + p) + 1) - 1) : rest[m] \notin {"/"}
    <3> TAKE m \in 1..(((a + p) + 1) - 1)
    <3>1. CASE m \in 1..a
      BY <1>1, <1>6, <3>1
    <3>2. CASE m \notin 1..a
      <4> DEFINE i == m - a
      <4>1. i \in 1..p /\ a + i = m
        BY <1>8, <3>2
      <4> HIDE DEF i
      <4>2. rest[m] = port[i]
        BY <1>6, <4>1
      <4>3. ref.port # 0
        BY <1>11, <4>1
      <4>4. port[i] = ":" \/ port[i] \in Digits
        <5>1. i = 1 \/ i \in 2..p
          BY <1>8, <4>1
        <5> QED  BY <1>3, <4>3, <5>1
      <4>5. ":" # "/"
        OBVIOUS
      <4> QED  BY <4>2, <4>4, <4>5, NoDigits
    <3> QED  BY <3>1, <3>2
  <2> QED  BY <1>6, <2>1, <2>2, <2>3, SeekIs
<1>15. HostEnd(rest) = a + 1
  <2>1. 1 \in 1..Behind(rest) /\ a + 1 \in 1..Behind(rest)
    BY <1>8
  <2>2. a + 1 = Behind(rest) \/ rest[a + 1] \in {":", "/"}
    <3>1. CASE p = 0 /\ q = 0
      BY <1>8, <3>1
    <3>2. CASE p = 0 /\ q # 0
      <4>1. 1 \in 1..q /\ path[1] = "/" /\ (a + p) + 1 = a + 1
        BY <1>1, <1>8, <1>9, <3>2
      <4> QED  BY <1>6, <4>1
    <3>3. CASE p # 0
      <4>1. 1 \in 1..p /\ port[1] = ":"
        BY <1>3, <1>8, <1>11, <3>3
      <4> QED  BY <1>6, <4>1
    <3> QED  BY <3>1, <3>2, <3>3
  <2>3. \A m \in 1..((a + 1) - 1) : rest[m] \notin {":", "/"}
    BY <1>1, <1>6, <1>8
  <2>4. Seek(rest, 1, {":", "/"}) = a + 1
    BY <1>6, <2>1, <2>2, <2>3, SeekIs
  <2> QED  BY <2>4 DEF HostEnd
<1>16. PortOf(scheme, rest, a + 1) = number
  <2>1. CASE ref.port = 0
    <3>1. ~(a + 1 < Behind(rest) /\ rest[a + 1] = ":")
      <4> SUFFICES ASSUME a + 1 < Behind(rest) PROVE rest[a + 1] # ":"
        OBVIOUS
      <4>1. p = 0 /\ q # 0 /\ 1 \in 1..q /\ (a + p) + 1 = a + 1
        BY <1>8, <1>11, <2>1
      <4>2. rest[a + 1] = "/"
        BY <1>1, <1>6, <1>9, <4>1
      <4> QED  BY <4>2
    <3>2. number = IF ref.secure THEN 443 ELSE 80
      BY <2>1 DEF number
    <3> QED  BY <1>10, <3>1, <3>2, Zenon DEF PortOf
  <2>2. CASE ref.port # 0
    <3>1. p \in Nat \ {0} /\ 1 \in 1..p /\ port[1] = ":"
      BY <1>3, <1>8, <2>2
    <3>2. a + 1 < Behind(rest) /\ rest[a + 1] = ":"
      BY <1>6, <1>8, <3>1
    <3>3. Stands(ds, rest, (a + 1) + 1)
      <4>1. Len(ds) \in Nat /\ p = 1 + Len(ds)
        BY <1>12, <1>13, <2>2
      <4>2. (a + 1) + 1 \in Nat \ {0} /\ ((a + 1) + 1) + Len(ds) <= Behind(rest)
        BY <1>8, <4>1
      <4>3. ASSUME NEW i \in 1..Len(ds) PROVE rest[(((a + 1) + 1) + i) - 1] = ds[i]
        <5>1. 1 + i \in 1..p /\ a + (1 + i) = (((a + 1) + 1) + i) - 1
          BY <1>8, <4>1
        <5>2. port[1 + i] = ds[i] /\ rest[a + (1 + i)] = port[1 + i]
          BY <1>6, <1>13, <2>2, <5>1
        <5> QED  BY <5>1, <5>2
      <4> QED  BY <4>2, <4>3 DEF Stands
    <3>4. ((a + 1) + 1) + Len(ds) = (a + p) + 1
      BY <1>8, <1>12, <1>13, <2>2
    <3>5. (a + p) + 1 = Behind(rest) \/ rest[(a + p) + 1] \notin Digits
      <4>1. CASE q = 0
        BY <1>8, <4>1
      <4>2. CASE q # 0
        <5>1. 1 \in 1..q /\ path[1] = "/"
          BY <1>1, <1>8, <1>9, <4>2
        <5> QED  BY <1>6, <5>1, NoDigits
      <4> QED  BY <4>1, <4>2
    <3>6. Value(rest, (a + 1) + 1, 10) = NumberOf(10, ds)
      <4>1. Len(ds) > 0
        <5>1. Len(ds) = 1 \/ Len(ds) = 2
          BY <1>12
        <5> QED  BY <5>1
      <4> QED  BY <1>6, <1>12, <3>3, <3>4, <3>5, <4>1, ValueIs
    <3>7. number = ref.port
      BY <2>2 DEF number
    <3> QED  BY <1>12, <3>2, <3>6, <3>7, Zenon DEF PortOf
  <2> QED  BY <2>1, <2>2
<1>17. number # 0
  BY DEF number
<1>18. Between(rest, 1, a + 1) = host
  <2>1. Stands(host, rest, 1)
    <3>1. 1 + a <= Behind(rest) /\ \A i \in 1..a : (1 + i) - 1 = i
      BY <1>8
    <3>2. \A i \in 1..a : rest[(1 + i) - 1] = host[i]
      BY <1>6, <3>1
    <3> QED  BY <3>1, <3>2 DEF Stands, a
  <2>2. Between(rest, 1, 1 + Len(host)) = host
    BY <1>1, <1>6, <2>1, StandsBetween
  <2>3. 1 + Len(host) = a + 1
    BY <1>8 DEF a
  <2> QED  BY <2>2, <2>3
<1>19. Between(rest, (a + p) + 1, Behind(rest)) = path
  <2>1. Stands(path, rest, (a + p) + 1)
    <3>1. (a + p) + 1 \in Nat \ {0} /\ ((a + p) + 1) + q <= Behind(rest)
      BY <1>8
    <3>2. \A i \in 1..q : (((a + p) + 1) + i) - 1 = (a + p) + i
      BY <1>8
    <3>3. \A i \in 1..q : rest[(((a + p) + 1) + i) - 1] = path[i]
      BY <1>6, <3>2
    <3> QED  BY <3>1, <3>3 DEF Stands, q
  <2>2. Between(rest, (a + p) + 1, ((a + p) + 1) + Len(path)) = path
    BY <1>1, <1>6, <2>1, StandsBetween
  <2>3. ((a + p) + 1) + Len(path) = Behind(rest)
    BY <1>8 DEF q
  <2> QED  BY <2>2, <2>3
<1> DEFINE x == (a + p) + 1
           good == [secure |-> ref.secure, host |-> host, port |-> number,
                    path |-> IF path = <<>> THEN <<"/">> ELSE path]
<1>20. x = Behind(rest) <=> path = <<>>
  BY <1>8, <1>9
<1>21. UrlOf(scheme, rest, x, a + 1, number) = IF x - 1 >= HostSize THEN Refused ELSE good
  <2> HIDE DEF x
  <2>1. UrlOf(scheme, rest, x, a + 1, number) =
          IF x - 1 >= HostSize THEN Refused
          ELSE [secure |-> scheme = "https://", host |-> Between(rest, 1, a + 1), port |-> number,
                path |-> IF x = Behind(rest) THEN <<"/">> ELSE Between(rest, x, Behind(rest))]
    BY <1>10, <1>17, Zenon DEF UrlOf
  <2>2. (scheme = "https://") = ref.secure
    BY <1>1, <1>10, Zenon
  <2>3. Between(rest, x, Behind(rest)) = path
    BY <1>19 DEF x
  <2> QED  BY <1>18, <1>20, <2>1, <2>2, <2>3, Zenon
<1>22. Url(Written(ref)) = IF x - 1 >= HostSize THEN Refused ELSE good
  BY <1>4, <1>14, <1>15, <1>16, <1>21, Zenon
<1>23. x - 1 >= HostSize => a + 3 >= HostSize
  <2>1. p <= 3
    BY <1>3, <1>8, <1>11
  <2>2. x - 1 <= a + 3
    BY <1>8, <2>1
  <2> QED  BY <1>7, <1>8, <2>2
<1>24. good.host = host
  OBVIOUS
<1> HIDE DEF good, x
<1>25. Meant(ref, from) = good /\ Meant(ref, from).host = host
  BY <1>5, <1>24, Zenon DEF good
<1> QED  BY <1>22, <1>23, <1>25 DEF a

-----------------------------------------------------------------------------
(* The body: pieces one behind the other.                                  *)

\* What the first pieces of a body are together.
SumsTo(G, ps, k) ==
    /\ G \in [0..k -> Seq(STRING)]
    /\ G[0] = <<>>
    /\ \A i \in 1..k : G[i] = G[i - 1] \o ps[i]

Sums(G, ps) == SumsTo(G, ps, Len(ps))

\* The i-th of them goes on to the k-th.
GoesTo(G, i, k) == \E z \in Seq(STRING) : G[k] = G[i] \o z

LEMMA DataTexts ==
    /\ \A d \in Data : d \in Seq(STRING) /\ d \in Text /\ Len(d) \in Nat \ {0}
    /\ Seq(STRING) \subseteq Text
    /\ \A a, b \in Seq(STRING) : a \o b \in Seq(STRING)
<1>1. Seq(STRING) \subseteq Text
  <2>1. STRING \subseteq Word
    BY Zenon DEF Word
  <2> QED  BY <2>1, SeqMonotonic, Zenon DEF Text
<1>2. ASSUME NEW d \in Data PROVE d \in Seq(STRING) /\ d # <<>>
  BY TextConstants
<1>3. ASSUME NEW d \in Data PROVE Len(d) \in Nat \ {0}
  BY <1>2, EmptySeq
<1>4. \A a, b \in Seq(STRING) : a \o b \in Seq(STRING)
  BY ConcatProperties
<1> QED  BY <1>1, <1>2, <1>3, <1>4

LEMMA SumsThere ==
    ASSUME NEW ps \in Seq(Data)
    PROVE  \E G : Sums(G, ps)
<1> DEFINE n == Len(ps)
           P == {k \in Nat : k <= n => \E G : SumsTo(G, ps, k)}
<1>1. n \in Nat /\ \A i \in 1..n : ps[i] \in Seq(STRING)
  BY DataTexts
<1>2. 0 \in P
  <2> DEFINE G == [i \in 0..0 |-> <<>>]
  <2>1. <<>> \in Seq(STRING)
    OBVIOUS
  <2>2. SumsTo(G, ps, 0)
    BY <2>1 DEF SumsTo
  <2> QED  BY <2>2
<1>3. ASSUME NEW k \in P PROVE k + 1 \in P
  <2> SUFFICES ASSUME k + 1 <= n PROVE \E G : SumsTo(G, ps, k + 1)
    OBVIOUS
  <2>1. PICK G : SumsTo(G, ps, k)
    BY <1>1
  <2> DEFINE x == G[k] \o ps[k + 1]
             H == [i \in 0..(k + 1) |-> IF i <= k THEN G[i] ELSE x]
  <2>2. k \in Nat /\ k \in 0..k /\ k + 1 \in 1..n
    BY <1>1
  <2>3. G[k] \in Seq(STRING) /\ ps[k + 1] \in Seq(STRING)
    BY <1>1, <2>1, <2>2 DEF SumsTo
  <2>4. x \in Seq(STRING)
    BY <2>3, DataTexts
  <2> HIDE DEF x
  <2>5. /\ H \in [0..(k + 1) -> Seq(STRING)]
        /\ \A i \in 0..k : H[i] = G[i]
        /\ H[k + 1] = x
    BY <2>1, <2>2, <2>4 DEF SumsTo
  <2> HIDE DEF H
  <2>6. H[0] = <<>>
    BY <2>1, <2>2, <2>5 DEF SumsTo
  <2>7. ASSUME NEW i \in 1..(k + 1) PROVE H[i] = H[i - 1] \o ps[i]
    <3>1. CASE i \in 1..k
      <4>1. i \in 0..k /\ i - 1 \in 0..k
        BY <2>2, <3>1
      <4>2. H[i] = G[i] /\ H[i - 1] = G[i - 1]
        BY <2>5, <4>1
      <4>3. G[i] = G[i - 1] \o ps[i]
        BY <2>1, <3>1 DEF SumsTo
      <4> QED  BY <4>2, <4>3, Zenon
    <3>2. CASE i = k + 1
      <4>1. i - 1 = k
        BY <2>2, <3>2
      <4>2. H[k] = G[k]
        BY <2>2, <2>5
      <4>3. H[i] = x
        BY <2>5, <3>2, Zenon
      <4>4. H[i - 1] = G[k]
        BY <4>1, <4>2
      <4>5. ps[i] = ps[k + 1]
        BY <3>2
      <4>6. H[i - 1] \o ps[i] = x
        BY <4>4, <4>5 DEF x
      <4> QED  BY <4>3, <4>6, Zenon
    <3>3. i \in 1..k \/ i = k + 1
      BY <2>2
    <3> QED  BY <3>1, <3>2, <3>3, Zenon
  <2>8. SumsTo(H, ps, k + 1)
    BY <2>5, <2>6, <2>7 DEF SumsTo
  <2> QED  BY <2>8
<1>4. P \in SUBSET Nat
  OBVIOUS
<1> HIDE DEF P
<1>5. n \in P
  BY <1>1, <1>2, <1>3, <1>4, Induction
<1>6. n <= n
  BY <1>1
<1>7. \E G : SumsTo(G, ps, n)
  BY <1>5, <1>6, Zenon DEF P
<1> QED  BY <1>7, Zenon DEF Sums, SumsTo

LEMMA FlattenIs ==
    ASSUME NEW ps \in Seq(Data), NEW G, Sums(G, ps)
    PROVE  FlattenSeq(ps) = G[Len(ps)] /\ G[Len(ps)] \in Seq(STRING)
<1> DEFINE n == Len(ps)
           Step(F) == [i \in 1..n |-> IF i = 1 THEN ps[i] ELSE F[i - 1] \o ps[i]]
           F0 == [i \in 1..n |-> G[i]]
           F == CHOOSE f : f = Step(f)
<1>1. n \in Nat /\ \A i \in 1..n : ps[i] \in Seq(STRING)
  BY DataTexts
<1>2. FlattenSeq(ps) = IF n = 0 THEN ps ELSE F[n]
  BY Zenon DEF FlattenSeq
<1>3. G \in [0..n -> Seq(STRING)] /\ G[0] = <<>> /\ \A i \in 1..n : G[i] = G[i - 1] \o ps[i]
  BY DEF Sums, SumsTo
<1>4. G[n] \in Seq(STRING)
  BY <1>1, <1>3
<1>5. CASE n = 0
  <2>1. ps = <<>>
    BY <1>5, EmptySeq
  <2> QED  BY <1>2, <1>3, <1>4, <1>5, <2>1
<1>6. CASE n # 0
  <2>1. n >= 1 => G[1] = ps[1]
    <3> SUFFICES ASSUME n >= 1 PROVE G[1] = ps[1]
      OBVIOUS
    <3>1. 1 \in 1..n /\ 1 - 1 = 0
      BY <1>1
    <3>2. G[1] = <<>> \o ps[1]
      BY <1>3, <3>1
    <3>3. <<>> \o ps[1] = ps[1]
      BY <1>1, <3>1, ConcatEmptySeq
    <3> QED  BY <3>2, <3>3
  <2>2. F0 = Step(F0)
    <3> SUFFICES ASSUME NEW i \in 1..n
                 PROVE  G[i] = IF i = 1 THEN ps[i] ELSE F0[i - 1] \o ps[i]
      OBVIOUS
    <3>1. CASE i = 1
      BY <1>1, <1>6, <2>1, <3>1
    <3>2. CASE i # 1
      <4>1. i - 1 \in 1..n
        BY <1>1, <3>2
      <4>2. F0[i - 1] = G[i - 1]
        BY <4>1
      <4> QED  BY <1>3, <3>2, <4>2
    <3> QED  BY <3>1, <3>2
  <2>3. F = Step(F)
    <3> HIDE DEF F0, Step
    <3> QED  BY <2>2
  <2> HIDE DEF F
  <2> DEFINE P == {k \in Nat : k + 1 <= n => F[k + 1] = G[k + 1]}
  <2>4. 0 \in P
    <3> SUFFICES ASSUME 0 + 1 <= n PROVE F[0 + 1] = G[0 + 1]
      OBVIOUS
    <3>1. 1 \in 1..n /\ 0 + 1 = 1
      BY <1>1
    <3>2. F[1] = ps[1]
      BY <2>3, <3>1
    <3> QED  BY <2>1, <3>1, <3>2
  <2>5. ASSUME NEW k \in P PROVE k + 1 \in P
    <3> SUFFICES ASSUME (k + 1) + 1 <= n PROVE F[(k + 1) + 1] = G[(k + 1) + 1]
      OBVIOUS
    <3> DEFINE i == (k + 1) + 1
    <3>1. i \in 1..n /\ i - 1 = k + 1 /\ i # 1 /\ k + 1 <= n
      BY <1>1
    <3>2. F[k + 1] = G[k + 1]
      BY <3>1
    <3> HIDE DEF i, P
    <3>3. F[i] = F[i - 1] \o ps[i]
      BY <2>3, <3>1
    <3>4. G[i] = G[i - 1] \o ps[i]
      BY <1>3, <3>1
    <3> QED  BY <3>1, <3>2, <3>3, <3>4, Zenon DEF i
  <2>6. P \in SUBSET Nat
    OBVIOUS
  <2>7. n - 1 \in Nat /\ (n - 1) + 1 = n
    BY <1>1, <1>6
  <2> HIDE DEF P
  <2>8. n - 1 \in P
    BY <2>4, <2>5, <2>6, <2>7, Induction
  <2>9. F[n] = G[n]
    BY <2>7, <2>8 DEF P
  <2> QED  BY <1>2, <1>4, <1>6, <2>9
<1> QED  BY <1>5, <1>6

LEMMA FlattenText ==
    ASSUME NEW ps \in Seq(Data)
    PROVE  FlattenSeq(ps) \in Seq(STRING) /\ FlattenSeq(ps) \in Text
<1>1. PICK G : Sums(G, ps)
  BY SumsThere
<1>2. FlattenSeq(ps) \in Seq(STRING)
  BY <1>1, FlattenIs
<1> QED  BY <1>2, DataTexts

LEMMA FlattenMore ==
    ASSUME NEW ps \in Seq(Data), NEW d \in Data
    PROVE  FlattenSeq(Append(ps, d)) = FlattenSeq(ps) \o d
<1> DEFINE n == Len(ps)
           qs == Append(ps, d)
<1>1. n \in Nat /\ qs \in Seq(Data) /\ Len(qs) = n + 1 /\ qs[n + 1] = d
      /\ \A i \in 1..n : qs[i] = ps[i]
  OBVIOUS
<1> HIDE DEF qs
<1>2. PICK G : Sums(G, qs)
  BY <1>1, SumsThere
<1>3. /\ G \in [0..(n + 1) -> Seq(STRING)] /\ G[0] = <<>>
      /\ \A i \in 1..(n + 1) : G[i] = G[i - 1] \o qs[i]
  BY <1>1, <1>2 DEF Sums, SumsTo
<1>4. FlattenSeq(qs) = G[n + 1]
  BY <1>1, <1>2, FlattenIs
<1> DEFINE H == [i \in 0..n |-> G[i]]
<1>5. Sums(H, ps)
  <2>1. H \in [0..n -> Seq(STRING)] /\ H[0] = <<>>
    BY <1>1, <1>3
  <2>2. ASSUME NEW i \in 1..n PROVE H[i] = H[i - 1] \o ps[i]
    <3>1. i \in 1..(n + 1) /\ i \in 0..n /\ i - 1 \in 0..n
      BY <1>1
    <3>2. H[i] = G[i] /\ H[i - 1] = G[i - 1]
      BY <3>1
    <3>3. G[i] = G[i - 1] \o qs[i] /\ qs[i] = ps[i]
      BY <1>1, <1>3, <3>1
    <3> HIDE DEF H
    <3> QED  BY <3>2, <3>3, Zenon
  <2> HIDE DEF H
  <2> QED  BY <2>1, <2>2 DEF Sums, SumsTo
<1>6. H[n] = G[n]
  BY <1>1
<1> HIDE DEF H
<1>7. FlattenSeq(ps) = G[n]
  BY <1>5, <1>6, FlattenIs
<1>8. G[n + 1] = G[n] \o d
  <2>1. n + 1 \in 1..(n + 1) /\ (n + 1) - 1 = n
    BY <1>1
  <2> QED  BY <1>1, <1>3, <2>1
<1> QED  BY <1>4, <1>7, <1>8, Zenon DEF qs

\* Behind the first pieces come the others.
LEMMA RestThere ==
    ASSUME NEW ps \in Seq(Data), NEW G, Sums(G, ps)
    PROVE  \A i \in 0..Len(ps) : GoesTo(G, i, Len(ps))
<1> DEFINE n == Len(ps)
           P == {k \in Nat : k <= n => GoesTo(G, n - k, n)}
<1>1. /\ n \in Nat /\ \A i \in 1..n : ps[i] \in Seq(STRING)
      /\ G \in [0..n -> Seq(STRING)] /\ \A i \in 1..n : G[i] = G[i - 1] \o ps[i]
  BY DataTexts DEF Sums, SumsTo
<1>2. 0 \in P
  <2>1. n - 0 = n /\ G[n] \in Seq(STRING)
    BY <1>1
  <2>2. G[n] = G[n] \o <<>> /\ <<>> \in Seq(STRING)
    BY <2>1, ConcatEmptySeq
  <2>3. GoesTo(G, n, n)
    BY <2>2, Zenon DEF GoesTo
  <2> QED  BY <2>1, <2>3
<1>3. ASSUME NEW k \in P PROVE k + 1 \in P
  <2> SUFFICES ASSUME k + 1 <= n PROVE GoesTo(G, n - (k + 1), n)
    OBVIOUS
  <2> DEFINE j == n - k
  <2>1. j \in 1..n /\ n - (k + 1) = j - 1 /\ j - 1 \in 0..n /\ k <= n
    BY <1>1
  <2>2. PICK z \in Seq(STRING) : G[n] = G[j] \o z
    <3>1. GoesTo(G, j, n)
      BY <2>1
    <3> QED  BY <3>1, Zenon DEF GoesTo
  <2> HIDE DEF j, P
  <2>3. G[j] = G[j - 1] \o ps[j] /\ G[j - 1] \in Seq(STRING) /\ ps[j] \in Seq(STRING)
    BY <1>1, <2>1
  <2>4. G[j - 1] \o ps[j] \o z = G[j - 1] \o (ps[j] \o z)
    <3>1. G[j - 1] \in Text /\ ps[j] \in Text /\ z \in Text
      BY <2>3, DataTexts
    <3> QED  BY <3>1, Together, Zenon
  <2>5. ps[j] \o z \in Seq(STRING)
    BY <2>3, DataTexts, Zenon
  <2>6. G[n] = G[j - 1] \o (ps[j] \o z)
    BY <2>2, <2>3, <2>4, Zenon
  <2>7. GoesTo(G, j - 1, n)
    BY <2>5, <2>6, Zenon DEF GoesTo
  <2> QED  BY <2>1, <2>7, Zenon
<1>4. P \in SUBSET Nat
  OBVIOUS
<1> SUFFICES ASSUME NEW i \in 0..n PROVE GoesTo(G, i, n)
  OBVIOUS
<1>5. n - i \in Nat /\ n - (n - i) = i /\ n - i <= n
  BY <1>1
<1> HIDE DEF P
<1>6. n - i \in P
  BY <1>2, <1>3, <1>4, <1>5, Induction
<1> QED  BY <1>5, <1>6 DEF P

-----------------------------------------------------------------------------
(* A chunk: its size and an extension, its data, and line ends.            *)

Extended(ext) ==
    /\ ext \in Text /\ Len(ext) \in {0, 2}
    /\ \A i \in 1..Len(ext) : ext[i] \notin {CR, LF} \cup Searched
    /\ Len(ext) # 0 => ext[1] \notin Digits

LEMMA ExtensionIs == \A ext \in {<<>>, <<";", "2">>} : Extended(ext)
<1>1. Extended(<<>>)
  <2>1. <<>> \in Text /\ Len(<<>>) = 0
    BY ShortTexts
  <2> QED  BY <2>1 DEF Extended
<1> DEFINE a == ";"
           b == "2"
           e == <<a, b>>
<1>2. Extended(e)
  <2>1. a \in Word /\ b \in Word
    BY Zenon DEF Word, Extension
  <2>2. a \notin {CR, LF} \cup Searched /\ b \notin {CR, LF} \cup Searched /\ a \notin Digits
    BY Zenon DEF CR, LF, Searched, Digits
  <2> HIDE DEF a, b
  <2>3. e \in Text
    BY <2>1, ShortTexts, Zenon
  <2>4. Len(e) = 2 /\ e[1] = a /\ e[2] = b
    OBVIOUS
  <2> HIDE DEF e
  <2>5. \A i \in 1..Len(e) : e[i] \notin {CR, LF} \cup Searched
    <3>1. \A i \in 1..2 : i = 1 \/ i = 2
      OBVIOUS
    <3> QED  BY <2>2, <2>4, <3>1
  <2> QED  BY <2>2, <2>3, <2>4, <2>5 DEF Extended
<1> QED  BY <1>1, <1>2, Zenon

\* The line before the data: ds is the size, as it is written.
HeadOf(c, d) ==
    \E ext : Extended(ext) /\ Parts(c, Numeral(Len(d), 16), ext, CRLF)

LEMMA ChunkHeadIs ==
    ASSUME NEW d \in Data, NEW c \in ChunkHead(Len(d))
    PROVE  HeadOf(c, d)
<1> DEFINE n == Len(d)
           ds == Numeral(n, 16)
           E == {<<>>, <<";", "2">>}
<1>1. n \in {16 * Number[h] + Number[l] : h, l \in Digits}
  BY TextConstants
<1>2. PICK h, l \in Digits : n = 16 * Number[h] + Number[l]
  BY <1>1
<1> HIDE DEF n
<1>3. ds \in Text
  BY <1>2, NumeralIs
<1>4. PICK ext \in E : c = ds \o ext \o CRLF
  BY Zenon DEF ChunkHead, Numeral, n
<1> HIDE DEF ds
<1>5. Extended(ext)
  BY ExtensionIs
<1> HIDE DEF E
<1>6. c = Joint(Joint(ds, ext), CRLF)
  BY <1>4, Zenon DEF Joint
<1>7. ext \in Text
  BY <1>5 DEF Extended
<1>8. Parts(c, ds, ext, CRLF)
  BY <1>3, <1>6, <1>7, LineEnd, ThreeParts
<1> QED  BY <1>5, <1>8, Zenon DEF HeadOf, ds, n

LEMMA HeadDigits ==
    ASSUME NEW d \in Data
    PROVE  LET ds == Numeral(Len(d), 16)
           IN  /\ ds \in Text /\ Len(ds) \in {1, 2} /\ \A i \in 1..Len(ds) : ds[i] \in Digits
               /\ NumberOf(16, ds) = Len(d)
<1>1. Len(d) \in {16 * Number[h] + Number[l] : h, l \in Digits}
  BY TextConstants
<1>2. PICK h, l \in Digits : Len(d) = 16 * Number[h] + Number[l]
  BY <1>1
<1> DEFINE n == Len(d)
<1>3. n = 16 * Number[h] + Number[l]
  BY <1>2
<1> HIDE DEF n
<1>4. /\ Numeral(n, 16) \in Text /\ Len(Numeral(n, 16)) \in {1, 2}
      /\ \A i \in 1..Len(Numeral(n, 16)) : Numeral(n, 16)[i] \in Digits
      /\ NumberOf(16, Numeral(n, 16)) = n
  BY <1>3, NumeralIs
<1> QED  BY <1>4, Zenon DEF n

LEMMA DigitsInnocent == Digits \cap ({CR, LF} \cup Searched) = {}
  BY Zenon DEF CR, LF, Searched, Digits

\* No word of that line is one that is searched for; the line ends once.
LEMMA HeadWords ==
    ASSUME NEW d \in Data, NEW c, HeadOf(c, d)
    PROVE  /\ c \in Text /\ Len(c) >= 3 /\ c[1] \in Digits
           /\ \A i \in 1..Len(c) : c[i] \notin Searched
           /\ \A i \in 1..(Len(c) - 2) : c[i] \notin {CR, LF}
           /\ c[Len(c) - 1] = CR /\ c[Len(c)] = LF
<1> DEFINE ds == Numeral(Len(d), 16)
           n == Len(ds)
<1>1. PICK ext : Extended(ext) /\ Parts(c, ds, ext, CRLF)
  BY DEF HeadOf
<1>2. ds \in Text /\ n \in {1, 2} /\ \A i \in 1..n : ds[i] \in Digits
  BY HeadDigits
<1> HIDE DEF ds
<1> DEFINE e == Len(ext)
<1>3. e \in {0, 2} /\ \A i \in 1..e : ext[i] \notin {CR, LF} \cup Searched
  BY <1>1 DEF Extended
<1>4. /\ c \in Text /\ Len(c) = (n + e) + 2
      /\ \A i \in 1..n : c[i] = ds[i]
      /\ \A i \in 1..e : c[n + i] = ext[i]
      /\ \A i \in 1..2 : c[(n + e) + i] = CRLF[i]
  BY <1>1, LineEnd DEF Parts
<1> HIDE DEF n, e
<1>5. n \in Nat \ {0} /\ e \in Nat
  BY <1>2, <1>3
<1>6. c[(n + e) + 1] = CR /\ c[(n + e) + 2] = LF
  BY <1>4, LineEnd
<1>7. c[1] \in Digits /\ Len(c) >= 3
  <2>1. 1 \in 1..n
    BY <1>5
  <2> QED  BY <1>2, <1>4, <1>5, <2>1
<1>8. Len(c) - 1 = (n + e) + 1 /\ Len(c) - 2 = n + e
  BY <1>4, <1>5
<1>9. ASSUME NEW i \in 1..(n + e) PROVE c[i] \notin {CR, LF} \cup Searched
  <2>1. CASE i \in 1..n
    BY <1>2, <1>4, <2>1, DigitsInnocent
  <2>2. CASE i \notin 1..n
    <3> DEFINE j == i - n
    <3>1. j \in 1..e /\ n + j = i
      BY <1>5, <2>2
    <3> HIDE DEF j
    <3> QED  BY <1>3, <1>4, <3>1
  <2> QED  BY <2>1, <2>2
<1>10. ASSUME NEW i \in 1..Len(c) PROVE c[i] \notin Searched
  <2>1. i \in 1..(n + e) \/ i = (n + e) + 1 \/ i = (n + e) + 2
    BY <1>4, <1>5
  <2> QED  BY <1>6, <1>9, <2>1, NoSearched
<1>11. \A i \in 1..(Len(c) - 2) : c[i] \notin {CR, LF}
  BY <1>8, <1>9
<1> QED  BY <1>4, <1>6, <1>7, <1>8, <1>10, <1>11

ChunkOf(c, d) == Joint(Joint(c, d), CRLF)

LastChunk == Joint(Joint(<<"0">>, CRLF), CRLF)

LEMMA LastChunkIs ==
    /\ LastChunk \in Text /\ Len(LastChunk) = 5
    /\ LastChunk[1] = "0" /\ LastChunk[2] = CR /\ LastChunk[3] = LF
    /\ LastChunk[4] = CR /\ LastChunk[5] = LF
<1> DEFINE a == <<"0">>
           t == Joint(Joint(a, CRLF), CRLF)
<1>1. a \in Text /\ Len(a) = 1 /\ a[1] = "0"
  BY WordsSent
<1> HIDE DEF a
<1>2. Parts(t, a, CRLF, CRLF)
  BY <1>1, LineEnd, ThreeParts
<1> HIDE DEF t
<1>3. /\ t \in Text /\ Len(t) = (1 + 2) + 2
      /\ \A i \in 1..1 : t[i] = a[i]
      /\ \A i \in 1..2 : t[1 + i] = CRLF[i]
      /\ \A i \in 1..2 : t[(1 + 2) + i] = CRLF[i]
  BY <1>1, <1>2, LineEnd DEF Parts
<1>4. t[1] = "0" /\ t[1 + 1] = CR /\ t[1 + 2] = LF /\ t[(1 + 2) + 1] = CR /\ t[(1 + 2) + 2] = LF
  <2>1. 1 \in 1..1 /\ 1 \in 1..2 /\ 2 \in 1..2
    OBVIOUS
  <2> QED  BY <1>1, <1>3, <2>1, LineEnd
<1>5. 1 + 1 = 2 /\ 1 + 2 = 3 /\ (1 + 2) + 1 = 4 /\ (1 + 2) + 2 = 5
  OBVIOUS
<1>6. /\ t \in Text /\ Len(t) = 5 /\ t[1] = "0" /\ t[2] = CR /\ t[3] = LF /\ t[4] = CR /\ t[5] = LF
  BY <1>3, <1>4, <1>5
<1> QED  BY <1>6 DEF t, a, LastChunk

LEMMA ChunkIs ==
    ASSUME NEW d \in Data, NEW c, HeadOf(c, d)
    PROVE  Parts(ChunkOf(c, d), c, d, CRLF)
<1>1. c \in Text /\ d \in Text
  BY HeadWords, DataTexts
<1> QED  BY <1>1, LineEnd, ThreeParts DEF ChunkOf

\* Where a chunk stands, its parts do.
LEMMA ChunkStands ==
    ASSUME NEW t \in Text, NEW d \in Data, NEW c, HeadOf(c, d), NEW p, Stands(ChunkOf(c, d), t, p)
    PROVE  /\ Stands(c, t, p) /\ Stands(d, t, p + Len(c))
           /\ Stands(CRLF, t, (p + Len(c)) + Len(d))
           /\ Len(ChunkOf(c, d)) = (Len(c) + Len(d)) + 2
           /\ p \in Nat \ {0} /\ p + Len(ChunkOf(c, d)) <= Behind(t)
<1> DEFINE x == ChunkOf(c, d)
           m == Len(c)
           n == Len(d)
<1>1. c \in Text /\ d \in Text /\ m \in Nat /\ n \in Nat
  BY HeadWords, DataTexts, Ends
<1>2. Parts(x, c, d, CRLF)
  BY ChunkIs
<1> HIDE DEF x
<1>3. /\ Len(x) = (m + n) + 2
      /\ \A i \in 1..m : x[i] = c[i]
      /\ \A i \in 1..n : x[m + i] = d[i]
      /\ \A i \in 1..2 : x[(m + n) + i] = CRLF[i]
  BY <1>2, LineEnd DEF Parts
<1> HIDE DEF m, n
<1>4. p \in Nat \ {0} /\ p + Len(x) <= Behind(t) /\ \A i \in 1..Len(x) : t[(p + i) - 1] = x[i]
  BY DEF Stands, x
<1>5. Len(t) \in Nat /\ Behind(t) = Len(t) + 1
  BY Ends
<1>6. Stands(c, t, p)
  <2>1. p + m <= Behind(t) /\ \A i \in 1..m : i \in 1..Len(x)
    BY <1>1, <1>3, <1>4, <1>5
  <2>2. \A i \in 1..m : t[(p + i) - 1] = c[i]
    BY <1>3, <1>4, <2>1
  <2> QED  BY <1>4, <2>1, <2>2 DEF Stands, m
<1>7. Stands(d, t, p + m)
  <2>1. p + m \in Nat \ {0} /\ (p + m) + n <= Behind(t)
    BY <1>1, <1>3, <1>4, <1>5
  <2>2. ASSUME NEW i \in 1..n PROVE t[((p + m) + i) - 1] = d[i]
    <3>1. m + i \in 1..Len(x) /\ ((p + m) + i) - 1 = (p + (m + i)) - 1
      BY <1>1, <1>3, <1>4
    <3>2. t[(p + (m + i)) - 1] = x[m + i] /\ x[m + i] = d[i]
      BY <1>3, <1>4, <3>1
    <3> QED  BY <3>1, <3>2
  <2> QED  BY <2>1, <2>2 DEF Stands, n
<1>8. Stands(CRLF, t, (p + m) + n)
  <2>1. (p + m) + n \in Nat \ {0} /\ ((p + m) + n) + 2 <= Behind(t)
    BY <1>1, <1>3, <1>4, <1>5
  <2>2. ASSUME NEW i \in 1..2 PROVE t[(((p + m) + n) + i) - 1] = CRLF[i]
    <3>1. (m + n) + i \in 1..Len(x) /\ (((p + m) + n) + i) - 1 = (p + ((m + n) + i)) - 1
      BY <1>1, <1>3, <1>4
    <3>2. t[(p + ((m + n) + i)) - 1] = x[(m + n) + i] /\ x[(m + n) + i] = CRLF[i]
      BY <1>3, <1>4, <3>1
    <3> QED  BY <3>1, <3>2
  <2> QED  BY <2>1, <2>2, LineEnd DEF Stands
<1> QED  BY <1>3, <1>4, <1>6, <1>7, <1>8 DEF m, n, x

-----------------------------------------------------------------------------
(* The invariant: behind the head comes the body, as it is or in chunks.   *)

ChunkedIn(fs) == \E i \in DOMAIN fs : fs[i].name = Chunked

\* A head that is over.
Headed(h, fs) ==
    /\ h \in Text /\ fs \in Seq(Sendable) /\ Begins(h)
    /\ \E st : /\ Course(st, h, fs)
               /\ Stands(CRLF, h, st[Len(fs) + 1])
               /\ Behind(h) = st[Len(fs) + 1] + 2

\* The chunk of the i-th piece stands at cs[i], the last place is behind them.
Laying(cs, b, ps) ==
    /\ cs \in [1..(Len(ps) + 1) -> Nat \ {0}]
    /\ cs[1] = 1
    /\ \A i \in 1..Len(ps) :
          \E c : /\ HeadOf(c, ps[i])
                 /\ Stands(ChunkOf(c, ps[i]), b, cs[i])
                 /\ cs[i + 1] = cs[i] + Len(ChunkOf(c, ps[i]))

\* The last chunk is sent with the end.
InChunks(s, b, ps) ==
    \E cs : /\ Laying(cs, b, ps)
            /\ s = "body" => Behind(b) = cs[Len(ps) + 1]
            /\ s = "done" => /\ Stands(LastChunk, b, cs[Len(ps) + 1])
                             /\ Behind(b) = cs[Len(ps) + 1] + 5

Sent(s, b, fs, ps) ==
    /\ ChunkedIn(fs) => InChunks(s, b, ps)
    /\ ~ChunkedIn(fs) => b = FlattenSeq(ps)

Bodies(s, t, fs, ps) ==
    /\ ps \in Seq(Data)
    /\ s \in {"idle", "head"} => ps = <<>>
    /\ s \in {"body", "done"} =>
          \E h, b \in Text : t = Joint(h, b) /\ Headed(h, fs) /\ Sent(s, b, fs, ps)

BodyInv == HeadInv /\ Bodies(stage, text, fields, pieces)

LEMMA JointText == ASSUME NEW a \in Text, NEW b \in Text PROVE Joint(a, b) \in Text
  BY Joins

LEMMA JointMore ==
    ASSUME NEW a \in Text, NEW b \in Text, NEW c \in Text
    PROVE  Joint(Joint(a, b), c) = Joint(a, Joint(b, c))
  BY Together, Zenon DEF Joint

LEMMA JointNone == ASSUME NEW a \in Text PROVE Joint(a, <<>>) = a
  BY ConcatEmptySeq DEF Text, Joint

LEMMA JointStands ==
    ASSUME NEW t \in Text, NEW x \in Text
    PROVE  /\ Stands(x, Joint(t, x), Behind(t)) /\ Behind(Joint(t, x)) = Behind(t) + Len(x)
           /\ \A w, p : Len(w) \in Nat /\ Stands(w, t, p) => Stands(w, Joint(t, x), p)
  BY StandsBehind, StandsOn, Zenon DEF Joint

LEMMA ChunkText ==
    ASSUME NEW d \in Data, NEW c, HeadOf(c, d)
    PROVE  ChunkOf(c, d) \in Text /\ Len(ChunkOf(c, d)) \in Nat
<1>1. c \in Text /\ d \in Text /\ CRLF \in Text
  BY HeadWords, DataTexts, LineEnd
<1>2. ChunkOf(c, d) \in Text
  BY <1>1, JointText, Zenon DEF ChunkOf
<1> QED  BY <1>2, Ends

LEMMA NoChunks == \E cs : Laying(cs, <<>>, <<>>) /\ Behind(<<>>) = cs[Len(<<>>) + 1]
<1> DEFINE cs == [i \in 1..1 |-> 1]
           ps == <<>>
<1>1. Len(ps) = 0 /\ Behind(ps) = 1
  BY DEF Behind
<1>2. cs \in [1..1 -> Nat \ {0}] /\ cs[1] = 1
  OBVIOUS
<1> HIDE DEF cs, ps
<1>3. Laying(cs, ps, ps) /\ Behind(ps) = cs[Len(ps) + 1]
  BY <1>1, <1>2 DEF Laying
<1> QED  BY <1>3 DEF ps

LEMMA FlattenNone == FlattenSeq(<<>>) = <<>> /\ <<>> \in Seq(Data)
<1> DEFINE ps == <<>>
<1>1. ps \in Seq(Data) /\ Len(ps) = 0
  OBVIOUS
<1> HIDE DEF ps
<1>2. PICK G : Sums(G, ps)
  BY <1>1, SumsThere
<1>3. G[0] = <<>>
  BY <1>2 DEF Sums, SumsTo
<1>4. FlattenSeq(ps) = G[0]
  BY <1>1, <1>2, FlattenIs
<1> QED  BY <1>1, <1>3, <1>4 DEF ps

LEMMA BodyBegins ==
    ASSUME NEW t, NEW fs, Heads("head", t, fs)
    PROVE  Bodies("body", t \o CRLF, fs, <<>>)
<1>1. t \in Text /\ fs \in Seq(Sendable)
  BY DEF Heads
<1>2. PICK st : Course(st, t, fs) /\ st[Len(fs) + 1] = Behind(t)
  BY DEF Heads
<1> DEFINE h == Joint(t, CRLF)
           e == <<>>
<1>3. Course(st, h, fs)
  BY <1>1, <1>2, LineEnd, CourseOn DEF Joint
<1>4. h \in Text /\ Begins(h)
  <2>1. Begins(t)
    BY DEF Heads
  <2> QED  BY <1>1, <2>1, LineEnd, GoesOn, Zenon DEF Joint
<1>5. Stands(CRLF, h, Behind(t)) /\ Behind(h) = Behind(t) + 2
  BY <1>1, LineEnd, JointStands
<1> HIDE DEF h
<1>6. Headed(h, fs)
  BY <1>1, <1>2, <1>3, <1>4, <1>5 DEF Headed
<1>7. Sent("body", e, fs, e)
  <2>1. InChunks("body", e, e)
    <3>1. "body" # "done"
      OBVIOUS
    <3> QED  BY <3>1, NoChunks, Zenon DEF InChunks
  <2> QED  BY <2>1, FlattenNone, Zenon DEF Sent
<1>8. h = Joint(h, e) /\ e \in Text
  BY <1>4, ShortTexts, JointNone
<1>9. e \in Seq(Data)
  OBVIOUS
<1>10. "body" \notin {"idle", "head"}
  OBVIOUS
<1> HIDE DEF e
<1>11. Bodies("body", h, fs, e)
  BY <1>4, <1>6, <1>7, <1>8, <1>9, <1>10, Zenon DEF Bodies
<1> QED  BY <1>11 DEF h, e, Joint

\* One more chunk.
LEMMA LayingMore ==
    ASSUME NEW b \in Text, NEW ps \in Seq(Data), NEW cs, Laying(cs, b, ps),
           Behind(b) = cs[Len(ps) + 1], NEW d \in Data, NEW c, HeadOf(c, d)
    PROVE  InChunks("body", Joint(b, ChunkOf(c, d)), Append(ps, d))
<1> DEFINE n == Len(ps)
           qs == Append(ps, d)
           x == ChunkOf(c, d)
           u == Joint(b, x)
           k == Behind(u)
           ds == [i \in 1..(Len(qs) + 1) |-> IF i <= n + 1 THEN cs[i] ELSE k]
<1>1. x \in Text /\ Len(x) \in Nat
  BY ChunkText
<1>2. n \in Nat /\ qs \in Seq(Data) /\ Len(qs) = n + 1 /\ qs[n + 1] = d
      /\ \A i \in 1..n : qs[i] = ps[i] /\ ps[i] \in Data
  OBVIOUS
<1>3. u \in Text /\ Stands(x, u, Behind(b)) /\ k = Behind(b) + Len(x)
  BY <1>1, JointText, JointStands
<1>4. \A w, p : Len(w) \in Nat /\ Stands(w, b, p) => Stands(w, u, p)
  BY <1>1, JointStands
<1>5. k \in Nat \ {0}
  BY <1>3, Ends
<1>6. cs \in [1..(n + 1) -> Nat \ {0}] /\ cs[1] = 1
  BY DEF Laying
<1> HIDE DEF qs, x, u, k, n
<1>7. /\ ds \in [1..(Len(qs) + 1) -> Nat \ {0}]
      /\ \A i \in 1..(n + 1) : ds[i] = cs[i]
      /\ ds[(n + 1) + 1] = k
  BY <1>2, <1>5, <1>6
<1> HIDE DEF ds
<1>8. ds[1] = 1
  BY <1>2, <1>6, <1>7
<1>9. ASSUME NEW i \in 1..Len(qs)
      PROVE  \E a : /\ HeadOf(a, qs[i])
                    /\ Stands(ChunkOf(a, qs[i]), u, ds[i])
                    /\ ds[i + 1] = ds[i] + Len(ChunkOf(a, qs[i]))
  <2>1. CASE i \in 1..n
    <3>1. i \in 1..(n + 1) /\ i + 1 \in 1..(n + 1)
      BY <1>2, <2>1
    <3>2. PICK a : /\ HeadOf(a, ps[i])
                   /\ Stands(ChunkOf(a, ps[i]), b, cs[i])
                   /\ cs[i + 1] = cs[i] + Len(ChunkOf(a, ps[i]))
      BY <2>1 DEF Laying, n
    <3>3. qs[i] = ps[i] /\ ds[i] = cs[i] /\ ds[i + 1] = cs[i + 1] /\ ps[i] \in Data
      BY <1>2, <1>7, <2>1, <3>1
    <3>4. Len(ChunkOf(a, ps[i])) \in Nat
      BY <3>2, <3>3, ChunkText
    <3>5. Stands(ChunkOf(a, ps[i]), u, cs[i])
      BY <1>4, <3>2, <3>4, Zenon
    <3> QED  BY <3>2, <3>3, <3>5, Zenon
  <2>2. CASE i = n + 1
    <3>1. n + 1 \in 1..(n + 1)
      BY <1>2
    <3>2. ds[i] = Behind(b) /\ ds[i + 1] = k /\ qs[i] = d
      BY <1>2, <1>7, <2>2, <3>1 DEF n
    <3>3. Stands(ChunkOf(c, qs[i]), u, ds[i])
      BY <1>3, <3>2, Zenon DEF x
    <3>4. ds[i + 1] = ds[i] + Len(ChunkOf(c, qs[i]))
      BY <1>3, <3>2, Zenon DEF x
    <3>5. HeadOf(c, qs[i])
      BY <3>2, Zenon
    <3> QED  BY <3>3, <3>4, <3>5, Zenon
  <2> QED  BY <1>2, <2>1, <2>2
<1>10. Laying(ds, u, qs)
  BY <1>7, <1>8, <1>9, Zenon DEF Laying
<1>11. k = ds[Len(qs) + 1]
  BY <1>2, <1>7
<1>12. "body" # "done"
  OBVIOUS
<1>13. InChunks("body", u, qs)
  BY <1>10, <1>11, <1>12, Zenon DEF InChunks, k
<1> QED  BY <1>13 DEF u, x, qs

\* What is appended to a whole text is appended to its body.
LEMMA BodyGoes ==
    ASSUME NEW s, NEW t, NEW fs, NEW ps \in Seq(Data), NEW qs \in Seq(Data), NEW x \in Text,
           NEW h \in Text, NEW b \in Text, t = Joint(h, b), Headed(h, fs),
           NEW r \in {"body", "done"}, Sent(r, Joint(b, x), fs, qs)
    PROVE  Bodies(r, Joint(t, x), fs, qs)
<1>1. Joint(t, x) = Joint(h, Joint(b, x)) /\ Joint(b, x) \in Text
  BY JointMore, JointText
<1>2. r \notin {"idle", "head"}
  OBVIOUS
<1> QED  BY <1>1, <1>2, Zenon DEF Bodies

LEMMA PieceBody == BodyInv /\ SendPiece => BodyInv'
<1> SUFFICES ASSUME BodyInv, SendPiece PROVE BodyInv'
  OBVIOUS
<1>1. stage = "body" /\ stage' = stage /\ fields' = fields
  BY Zenon DEF SendPiece
<1>2. PICK d \in Data :
        /\ pieces' = Append(pieces, d)
        /\ IF IsChunked THEN \E c \in ChunkHead(Len(d)) : text' = text \o c \o d \o CRLF
           ELSE text' = text \o d
  BY Zenon DEF SendPiece
<1>3. pieces \in Seq(Data) /\ text \in Text /\ d \in Text
  BY DataTexts DEF BodyInv, Bodies, HeadInv, Heads
<1>4. "body" \in {"body", "done"}
  OBVIOUS
<1>5. PICK h, b \in Text : text = Joint(h, b) /\ Headed(h, fields)
                           /\ Sent("body", b, fields, pieces)
  BY <1>1, <1>4, Zenon DEF BodyInv, Bodies
<1>6. pieces' \in Seq(Data)
  BY <1>2, <1>3
<1>7. Bodies("body", text', fields, pieces')
  <2>1. CASE ChunkedIn(fields)
    <3>1. PICK c \in ChunkHead(Len(d)) : text' = text \o c \o d \o CRLF
      BY <1>2, <2>1, Zenon DEF IsChunked, ChunkedIn
    <3>2. HeadOf(c, d)
      BY ChunkHeadIs
    <3>3. c \in Text
      BY <3>2, HeadWords
    <3> DEFINE x == ChunkOf(c, d)
               y == Joint(c, d)
    <3>4. y \in Text /\ x \in Text
      BY <1>3, <3>2, <3>3, JointText, ChunkText
    <3>5. text' = Joint(Joint(Joint(text, c), d), CRLF)
      BY <3>1, Zenon DEF Joint
    <3>6. Joint(Joint(text, c), d) = Joint(text, y)
      BY <1>3, <3>3, JointMore
    <3>7. Joint(Joint(text, y), CRLF) = Joint(text, x)
      BY <1>3, <3>4, LineEnd, JointMore DEF ChunkOf
    <3>8. text' = Joint(text, x)
      BY <3>5, <3>6, <3>7, Zenon
    <3>9. PICK cs : Laying(cs, b, pieces) /\ Behind(b) = cs[Len(pieces) + 1]
      BY <1>5, <2>1, Zenon DEF Sent, InChunks
    <3>10. InChunks("body", Joint(b, x), Append(pieces, d))
      BY <1>3, <3>2, <3>9, LayingMore
    <3>11. Sent("body", Joint(b, x), fields, pieces')
      BY <1>2, <2>1, <3>10, Zenon DEF Sent
    <3> HIDE DEF x, y
    <3> QED  BY <1>3, <1>4, <1>5, <1>6, <3>4, <3>8, <3>11, BodyGoes, Zenon
  <2>2. CASE ~ChunkedIn(fields)
    <3>1. text' = Joint(text, d)
      BY <1>2, <2>2, Zenon DEF IsChunked, ChunkedIn, Joint
    <3>2. b = FlattenSeq(pieces)
      BY <1>5, <2>2, Zenon DEF Sent
    <3>3. FlattenSeq(Append(pieces, d)) = FlattenSeq(pieces) \o d
      BY <1>3, FlattenMore
    <3>4. Joint(b, d) = FlattenSeq(pieces')
      BY <1>2, <3>2, <3>3, Zenon DEF Joint
    <3>5. Sent("body", Joint(b, d), fields, pieces')
      BY <2>2, <3>4, Zenon DEF Sent
    <3> QED  BY <1>3, <1>4, <1>5, <1>6, <3>1, <3>5, BodyGoes, Zenon
  <2> QED  BY <2>1, <2>2
<1>8. HeadInv'
  BY PieceHead DEF BodyInv
<1> QED  BY <1>1, <1>7, <1>8, Zenon DEF BodyInv

LEMMA EndBodyBody == BodyInv /\ EndBody => BodyInv'
<1> SUFFICES ASSUME BodyInv, EndBody PROVE BodyInv'
  OBVIOUS
<1>1. stage = "body" /\ stage' = "done" /\ fields' = fields /\ pieces' = pieces
  BY Zenon DEF EndBody
<1>2. text' = IF IsChunked THEN text \o <<"0">> \o CRLF \o CRLF ELSE text
  BY Zenon DEF EndBody
<1>3. pieces \in Seq(Data) /\ text \in Text
  BY DEF BodyInv, Bodies, HeadInv, Heads
<1>4. "body" \in {"body", "done"} /\ "done" \in {"body", "done"} /\ "done" # "body"
  OBVIOUS
<1>5. PICK h, b \in Text : text = Joint(h, b) /\ Headed(h, fields)
                           /\ Sent("body", b, fields, pieces)
  BY <1>1, <1>4, Zenon DEF BodyInv, Bodies
<1>6. Bodies("done", text', fields, pieces)
  <2>1. CASE ChunkedIn(fields)
    <3> DEFINE z == <<"0">>
               y == Joint(z, CRLF)
    <3>1. z \in Text /\ CRLF \in Text
      BY WordsSent, LineEnd
    <3>2. y \in Text /\ LastChunk \in Text
      BY <3>1, LastChunkIs, JointText
    <3>3. text' = Joint(Joint(Joint(text, z), CRLF), CRLF)
      BY <1>2, <2>1, Zenon DEF IsChunked, ChunkedIn, Joint
    <3>4. Joint(Joint(text, z), CRLF) = Joint(text, y)
      BY <1>3, <3>1, JointMore
    <3>5. Joint(Joint(text, y), CRLF) = Joint(text, Joint(y, CRLF))
      BY <1>3, <3>1, <3>2, JointMore
    <3>6. text' = Joint(text, LastChunk)
      BY <3>3, <3>4, <3>5, Zenon DEF LastChunk
    <3>7. PICK cs : Laying(cs, b, pieces) /\ Behind(b) = cs[Len(pieces) + 1]
      BY <1>5, <2>1, Zenon DEF Sent, InChunks
    <3> DEFINE u == Joint(b, LastChunk)
    <3>8. /\ Stands(LastChunk, u, Behind(b)) /\ Behind(u) = Behind(b) + 5
          /\ \A w, p : Len(w) \in Nat /\ Stands(w, b, p) => Stands(w, u, p)
      BY <3>2, LastChunkIs, JointStands
    <3> HIDE DEF u
    <3>9. Laying(cs, u, pieces)
      <4>1. ASSUME NEW i \in 1..Len(pieces)
            PROVE  \E a : /\ HeadOf(a, pieces[i])
                          /\ Stands(ChunkOf(a, pieces[i]), u, cs[i])
                          /\ cs[i + 1] = cs[i] + Len(ChunkOf(a, pieces[i]))
        <5>1. PICK a : /\ HeadOf(a, pieces[i])
                       /\ Stands(ChunkOf(a, pieces[i]), b, cs[i])
                       /\ cs[i + 1] = cs[i] + Len(ChunkOf(a, pieces[i]))
          BY <3>7 DEF Laying
        <5>2. pieces[i] \in Data
          BY <1>3
        <5>3. Len(ChunkOf(a, pieces[i])) \in Nat
          BY <5>1, <5>2, ChunkText
        <5>4. Stands(ChunkOf(a, pieces[i]), u, cs[i])
          BY <3>8, <5>1, <5>3, Zenon
        <5> QED  BY <5>1, <5>4, Zenon
      <4>2. cs \in [1..(Len(pieces) + 1) -> Nat \ {0}] /\ cs[1] = 1
        BY <3>7 DEF Laying
      <4> QED  BY <4>1, <4>2, Zenon DEF Laying
    <3>10. InChunks("done", u, pieces)
      BY <1>4, <3>7, <3>8, <3>9, Zenon DEF InChunks
    <3>11. Sent("done", u, fields, pieces)
      BY <2>1, <3>10, Zenon DEF Sent
    <3>12. Bodies("done", Joint(text, LastChunk), fields, pieces)
      BY <1>3, <1>4, <1>5, <3>2, <3>11, BodyGoes, Zenon DEF u
    <3> QED  BY <3>6, <3>12, Zenon
  <2>2. CASE ~ChunkedIn(fields)
    <3>1. text' = text
      BY <1>2, <2>2, Zenon DEF IsChunked, ChunkedIn
    <3>2. Sent("done", b, fields, pieces)
      BY <1>5, <2>2, Zenon DEF Sent
    <3>3. "done" \notin {"idle", "head"}
      OBVIOUS
    <3> QED  BY <1>3, <1>5, <3>1, <3>2, <3>3, Zenon DEF Bodies
  <2> QED  BY <2>1, <2>2
<1>7. HeadInv'
  BY EndBodyHead DEF BodyInv
<1> QED  BY <1>1, <1>6, <1>7, Zenon DEF BodyInv

LEMMA InitBody == TextInit => BodyInv
<1> SUFFICES ASSUME TextInit PROVE BodyInv
  OBVIOUS
<1>1. stage = "idle" /\ pieces = <<>>
  BY DEF TextInit
<1>2. "idle" \notin {"body", "done"}
  OBVIOUS
<1>3. Bodies(stage, text, fields, pieces)
  BY <1>1, <1>2, FlattenNone, Zenon DEF Bodies
<1> QED  BY <1>3, InitHead DEF BodyInv

LEMMA NextBody == BodyInv /\ [TextNext]_textvars => BodyInv'
<1> SUFFICES ASSUME BodyInv, [TextNext]_textvars PROVE BodyInv'
  OBVIOUS
<1>0. HeadInv'
  BY NextHead DEF BodyInv
<1>1. CASE UNCHANGED textvars
  <2>1. stage' = stage /\ text' = text /\ fields' = fields /\ pieces' = pieces
    BY <1>1 DEF textvars
  <2> QED  BY <1>0, <2>1, Zenon DEF BodyInv
<1>2. ASSUME StatusLine \/ SendField PROVE BodyInv'
  <2>1. stage \in {"idle", "head"} /\ stage' \in {"idle", "head"} /\ pieces' = pieces
    BY <1>2 DEF StatusLine, SendField
  <2>2. stage' \notin {"body", "done"}
    BY <2>1
  <2>3. pieces = <<>> /\ pieces \in Seq(Data)
    BY <2>1 DEF BodyInv, Bodies
  <2>4. Bodies(stage', text', fields', pieces')
    BY <2>1, <2>2, <2>3, Zenon DEF Bodies
  <2> QED  BY <1>0, <2>4, Zenon DEF BodyInv
<1>3. ASSUME EndHead PROVE BodyInv'
  <2>1. stage = "head" /\ stage' = "body" /\ text' = text \o CRLF /\ fields' = fields
        /\ pieces' = pieces
    BY <1>3, Zenon DEF EndHead
  <2>2. pieces = <<>>
    BY <2>1 DEF BodyInv, Bodies
  <2>3. Heads("head", text, fields)
    BY <2>1, Zenon DEF BodyInv, HeadInv
  <2>4. Bodies("body", text \o CRLF, fields, <<>>)
    BY <2>3, BodyBegins
  <2> QED  BY <1>0, <2>1, <2>2, <2>4, Zenon DEF BodyInv
<1>4. ASSUME Follow PROVE BodyInv'
  <2>1. stage' = "idle" /\ pieces' = <<>>
    BY <1>4, Zenon DEF Follow
  <2>2. "idle" \notin {"body", "done"}
    OBVIOUS
  <2>3. Bodies(stage', text', fields', pieces')
    BY <2>1, <2>2, FlattenNone, Zenon DEF Bodies
  <2> QED  BY <1>0, <2>3, Zenon DEF BodyInv
<1> QED
  BY <1>1, <1>2, <1>3, <1>4, PieceBody, EndBodyBody, Zenon DEF TextNext

\* A piece is a part of the body.
LEMMA PieceIn ==
    ASSUME NEW ps \in Seq(Data), NEW i \in 1..Len(ps)
    PROVE  \E a, z \in Text : Parts(FlattenSeq(ps), a, ps[i], z)
<1> DEFINE n == Len(ps)
<1>1. PICK G : Sums(G, ps)
  BY SumsThere
<1>2. n \in Nat /\ i \in 1..n /\ i \in 0..n /\ i - 1 \in 0..n /\ n \in 0..n /\ ps[i] \in Data
  OBVIOUS
<1>3. /\ G \in [0..n -> Seq(STRING)] /\ G[i] = G[i - 1] \o ps[i]
  BY <1>1, <1>2 DEF Sums, SumsTo
<1>4. GoesTo(G, i, n)
  BY <1>1, <1>2, RestThere
<1>5. PICK z \in Seq(STRING) : G[n] = G[i] \o z
  BY <1>4, Zenon DEF GoesTo
<1>6. G[i - 1] \in Text /\ z \in Text /\ ps[i] \in Text
  BY <1>2, <1>3, DataTexts
<1>7. FlattenSeq(ps) = G[n]
  BY <1>1, FlattenIs
<1>8. G[n] = Joint(Joint(G[i - 1], ps[i]), z)
  BY <1>3, <1>5, Zenon DEF Joint
<1>9. Parts(Joint(Joint(G[i - 1], ps[i]), z), G[i - 1], ps[i], z)
  BY <1>6, ThreeParts
<1>10. Parts(FlattenSeq(ps), G[i - 1], ps[i], z)
  BY <1>7, <1>8, <1>9, Zenon
<1> QED  BY <1>6, <1>10, Zenon

LEMMA PieceClean ==
    ASSUME NEW ps \in Seq(Data), NEW i \in 1..Len(ps), Clean(FlattenSeq(ps)),
           NEW j \in 1..(Len(ps[i]) - 1)
    PROVE  ~(ps[i][j] \in Searched /\ ps[i][j + 1] = ":")
<1> DEFINE t == FlattenSeq(ps)
           d == ps[i]
<1>1. PICK a, z \in Text : Parts(t, a, d, z)
  BY PieceIn
<1>2. t \in Text /\ d \in Text
  BY FlattenText, DataTexts
<1>3. \A k \in 1..(Len(t) - 1) : ~(t[k] \in Searched /\ t[k + 1] = ":")
  BY <1>2, CleanIs
<1>4. j \in 1..(Len(d) - 1)
  OBVIOUS
<1> HIDE DEF t, d
<1>5. Len(t) \in Nat /\ Len(d) \in Nat /\ Len(a) \in Nat /\ Len(z) \in Nat
  BY <1>1, <1>2, Ends
<1>6. /\ Len(t) = (Len(a) + Len(d)) + Len(z)
      /\ \A m \in 1..Len(d) : t[Len(a) + m] = d[m]
  BY <1>1 DEF Parts
<1>7. /\ j \in 1..Len(d) /\ j + 1 \in 1..Len(d) /\ Len(a) + j \in 1..(Len(t) - 1)
      /\ Len(a) + (j + 1) = (Len(a) + j) + 1
  BY <1>4, <1>5, <1>6
<1>8. t[Len(a) + j] = d[j] /\ t[(Len(a) + j) + 1] = d[j + 1]
  BY <1>6, <1>7
<1> QED  BY <1>3, <1>7, <1>8 DEF d

\* A word that is searched for begins a field in a chunk only within its data.
LEMMA ChunkWord ==
    ASSUME NEW b \in Text, NEW d \in Data, NEW c, HeadOf(c, d),
           NEW p, Stands(ChunkOf(c, d), b, p),
           NEW k \in Nat, p <= k, k < p + Len(ChunkOf(c, d)), b[k] \in Searched, b[k + 1] = ":"
    PROVE  \E j \in 1..(Len(d) - 1) : d[j] \in Searched /\ d[j + 1] = ":"
<1> DEFINE m == Len(c)
           n == Len(d)
           q == p + m
           e == q + n
<1>1. c \in Text /\ d \in Text /\ m \in Nat /\ n \in Nat
  BY HeadWords, DataTexts, Ends
<1>2. /\ Stands(c, b, p) /\ Stands(d, b, q) /\ Stands(CRLF, b, e)
      /\ Len(ChunkOf(c, d)) = (m + n) + 2 /\ p \in Nat \ {0}
  BY ChunkStands
<1>3. \A i \in 1..m : c[i] \notin Searched
  BY HeadWords
<1>4. /\ \A i \in 1..m : b[(p + i) - 1] = c[i]
      /\ \A i \in 1..n : b[(q + i) - 1] = d[i]
      /\ \A i \in 1..2 : b[(e + i) - 1] = CRLF[i]
  BY <1>2, LineEnd DEF Stands
<1>5. q = p + m /\ e = q + n /\ k < e + 2
  BY <1>1, <1>2
<1> HIDE DEF m, n, q, e
<1>6. b[e] = CR /\ b[e + 1] = LF
  <2>1. (e + 1) - 1 = e /\ (e + 2) - 1 = e + 1 /\ 1 \in 1..2 /\ 2 \in 1..2
    BY <1>1, <1>2, <1>5
  <2> QED  BY <1>4, <2>1, LineEnd
<1>7. ~(k < q)
  <2> SUFFICES ASSUME k < q PROVE FALSE
    OBVIOUS
  <2>1. (k - p) + 1 \in 1..m /\ (p + ((k - p) + 1)) - 1 = k
    BY <1>1, <1>2, <1>5
  <2> QED  BY <1>3, <1>4, <2>1
<1>8. k < e
  <2>1. CR \notin Searched /\ LF \notin Searched
    BY NoSearched
  <2>2. k # e /\ k # e + 1
    BY <1>6, <2>1
  <2> QED  BY <1>1, <1>2, <1>5, <2>2
<1> DEFINE j == (k - q) + 1
<1>9. j \in 1..n /\ (q + j) - 1 = k /\ (q + (j + 1)) - 1 = k + 1
  BY <1>1, <1>2, <1>5, <1>7, <1>8
<1>10. j # n
  <2>1. j = n => k + 1 = e
    BY <1>1, <1>2, <1>5, <1>9
  <2> QED  BY <1>6, <2>1, Marks
<1> HIDE DEF j
<1>11. j \in 1..(n - 1) /\ j + 1 \in 1..n
  BY <1>1, <1>9, <1>10
<1>12. d[j] = b[k] /\ d[j + 1] = b[k + 1]
  BY <1>4, <1>9, <1>11
<1> QED  BY <1>11, <1>12, Zenon DEF n

\* None begins in a body whose pieces together have none.
LEMMA BodyClean ==
    ASSUME NEW b \in Text, NEW ps \in Seq(Data), NEW fs, NEW s \in {"body", "done"},
           Sent(s, b, fs, ps), Clean(FlattenSeq(ps))
    PROVE  Clean(b)
<1> SUFFICES ASSUME ChunkedIn(fs) PROVE Clean(b)
  BY Zenon DEF Sent
<1> DEFINE n == Len(ps)
<1>1. PICK cs : /\ Laying(cs, b, ps)
                /\ s = "body" => Behind(b) = cs[n + 1]
                /\ s = "done" => Stands(LastChunk, b, cs[n + 1]) /\ Behind(b) = cs[n + 1] + 5
  BY Zenon DEF Sent, InChunks
<1>2. n \in Nat /\ \A i \in 1..n : ps[i] \in Data
  OBVIOUS
<1>3. cs \in [1..(n + 1) -> Nat] /\ cs[1] = 1 /\ cs[n + 1] \in Nat \ {0}
  <2>1. cs \in [1..(n + 1) -> Nat \ {0}] /\ cs[1] = 1 /\ n + 1 \in 1..(n + 1)
    BY <1>1, <1>2 DEF Laying
  <2> QED  BY <2>1
<1>4. Len(b) \in Nat /\ Behind(b) = Len(b) + 1
  BY Ends
<1> SUFFICES ASSUME NEW k \in 1..(Len(b) - 1), b[k] \in Searched, b[k + 1] = ":" PROVE FALSE
  BY CleanIs
<1>5. k \in Nat /\ cs[1] <= k /\ k < Behind(b)
  BY <1>3, <1>4
<1> HIDE DEF n
<1>6. ~(k < cs[n + 1])
  <2> SUFFICES ASSUME k < cs[n + 1] PROVE FALSE
    OBVIOUS
  <2>1. PICK i \in 1..n : cs[i] <= k /\ k < cs[i + 1]
    BY <1>2, <1>3, <1>5, Segment
  <2>2. PICK c : /\ HeadOf(c, ps[i])
                 /\ Stands(ChunkOf(c, ps[i]), b, cs[i])
                 /\ cs[i + 1] = cs[i] + Len(ChunkOf(c, ps[i]))
    BY <1>1, <2>1 DEF Laying, n
  <2> DEFINE d == ps[i]
  <2>3. d \in Data
    BY <1>2, <2>1
  <2>4. \E j \in 1..(Len(d) - 1) : d[j] \in Searched /\ d[j + 1] = ":"
    <3> HIDE DEF d
    <3>1. HeadOf(c, d) /\ Stands(ChunkOf(c, d), b, cs[i]) /\ k < cs[i] + Len(ChunkOf(c, d))
      BY <2>1, <2>2 DEF d
    <3> QED  BY <1>5, <2>1, <2>3, <3>1, ChunkWord
  <2> QED  BY <2>1, <2>4, PieceClean DEF n
<1>7. s = "done"
  BY <1>1, <1>5, <1>6
<1>8. Stands(LastChunk, b, cs[n + 1]) /\ Behind(b) = cs[n + 1] + 5
  BY <1>1, <1>7 DEF n
<1>9. \A i \in 1..5 : b[(cs[n + 1] + i) - 1] = LastChunk[i]
  BY <1>8, LastChunkIs DEF Stands
<1>10. \A i \in 1..5 : LastChunk[i] \notin Searched
  <2>1. "0" \notin Searched /\ CR \notin Searched /\ LF \notin Searched
    BY DigitNumbers, DigitsInnocent, NoSearched
  <2>2. \A i \in 1..5 : i = 1 \/ i = 2 \/ i = 3 \/ i = 4 \/ i = 5
    OBVIOUS
  <2> QED  BY <2>1, <2>2, LastChunkIs
<1> DEFINE i == (k - cs[n + 1]) + 1
<1>11. i \in 1..5 /\ (cs[n + 1] + i) - 1 = k
  <2> DEFINE e == cs[n + 1]
  <2>1. e \in Nat /\ k \in Nat /\ ~(k < e) /\ k < e + 5
    BY <1>3, <1>5, <1>6, <1>8
  <2> HIDE DEF e
  <2>2. (k - e) + 1 \in 1..5 /\ (e + ((k - e) + 1)) - 1 = k
    BY <2>1
  <2> QED  BY <2>2 DEF e
<1> HIDE DEF i
<1> QED  BY <1>9, <1>10, <1>11

-----------------------------------------------------------------------------
(* A redirection is found in the response.                                 *)

\* From place e on no field begins that is searched for.
Silent(t, e) ==
    \A k \in Nat : k >= e /\ k + 1 <= Len(t) => ~(t[k] \in Searched /\ t[k + 1] = ":")

\* A head that is over, and a text behind it in which none begins.
LEMMA JoinedHead ==
    ASSUME NEW h \in Text, NEW b \in Text, NEW fs, Headed(h, fs), Clean(b)
    PROVE  /\ Joint(h, b) \in Text /\ fs \in Seq(Sendable) /\ Begins(Joint(h, b))
           /\ \E st : /\ Course(st, Joint(h, b), fs)
                      /\ Course(st, h, fs)
                      /\ Silent(Joint(h, b), st[Len(fs) + 1])
                      /\ Stands(CRLF, Joint(h, b), st[Len(fs) + 1])
                      /\ Behind(h) = st[Len(fs) + 1] + 2
<1> DEFINE t == Joint(h, b)
<1>1. fs \in Seq(Sendable) /\ t \in Text /\ Begins(t)
  BY GoesOn, Zenon DEF Headed, Joint
<1>2. PICK st : /\ Course(st, h, fs)
                /\ Stands(CRLF, h, st[Len(fs) + 1])
                /\ Behind(h) = st[Len(fs) + 1] + 2
  BY DEF Headed
<1>3. Course(st, t, fs)
  BY <1>1, <1>2, CourseOn DEF Joint
<1> DEFINE e == st[Len(fs) + 1]
<1>4. /\ Len(t) = Len(h) + Len(b)
      /\ \A i \in 1..Len(h) : t[i] = h[i]
      /\ \A i \in 1..Len(b) : t[Len(h) + i] = b[i]
  BY Joins
<1>5. Len(h) \in Nat /\ Len(b) \in Nat /\ Behind(h) = Len(h) + 1
  BY Ends
<1>6. /\ e \in Nat \ {0} /\ Len(h) = e + 1
      /\ \A i \in 1..2 : h[(e + i) - 1] = CRLF[i]
  <2>1. e \in Nat \ {0} /\ \A i \in 1..2 : h[(e + i) - 1] = CRLF[i]
    BY <1>2, LineEnd DEF Stands
  <2>2. Behind(h) = e + 2
    BY <1>2
  <2> HIDE DEF e
  <2> QED  BY <1>5, <2>1, <2>2
<1>7. \A i \in 1..(Len(b) - 1) : ~(b[i] \in Searched /\ b[i + 1] = ":")
  BY CleanIs
<1>8. Stands(CRLF, t, e)
  BY <1>2, JointStands, LineEnd
<1> HIDE DEF e, t
<1>9. t[e] = CR /\ t[e + 1] = LF
  <2>1. (e + 1) - 1 = e /\ (e + 2) - 1 = e + 1 /\ 1 \in 1..2 /\ 2 \in 1..2
        /\ e \in 1..Len(h) /\ e + 1 \in 1..Len(h)
    BY <1>6
  <2> QED  BY <1>4, <1>6, <2>1, LineEnd
<1>10. ASSUME NEW k \in Nat, k >= e, k + 1 <= Len(t), t[k] \in Searched, t[k + 1] = ":"
       PROVE  FALSE
  <2>1. CR \notin Searched /\ LF \notin Searched
    BY NoSearched
  <2>2. k # e /\ k # e + 1
    BY <1>9, <1>10, <2>1
  <2> DEFINE i == k - Len(h)
  <2>3. i \in 1..(Len(b) - 1) /\ i \in 1..Len(b) /\ i + 1 \in 1..Len(b)
        /\ Len(h) + i = k /\ Len(h) + (i + 1) = k + 1
    BY <1>4, <1>5, <1>6, <1>10, <2>2
  <2> HIDE DEF i
  <2>4. b[i] = t[k] /\ b[i + 1] = t[k + 1]
    BY <1>4, <2>3
  <2> QED  BY <1>7, <1>10, <2>3, <2>4
<1>11. Silent(t, e)
  BY <1>10, Zenon DEF Silent
<1> QED  BY <1>1, <1>2, <1>3, <1>8, <1>11, Zenon DEF e, t

LEMMA Silence ==
    ASSUME BodyInv, stage # "idle", Innocent
    PROVE  /\ text \in Text /\ fields \in Seq(Sendable) /\ Begins(text)
           /\ \E st : Course(st, text, fields) /\ Silent(text, st[Len(fields) + 1])
<1>1. text \in Text /\ fields \in Seq(Sendable) /\ Begins(text)
  BY DEF BodyInv, HeadInv, Heads
<1>2. Len(text) \in Nat /\ Behind(text) = Len(text) + 1
  BY <1>1, Ends
<1>3. CASE stage = "head"
  <2>1. PICK st : Course(st, text, fields) /\ st[Len(fields) + 1] = Behind(text)
    BY <1>3 DEF BodyInv, HeadInv, Heads
  <2>2. Silent(text, Behind(text))
    BY <1>2 DEF Silent
  <2> QED  BY <1>1, <2>1, <2>2, Zenon
<1>4. CASE stage \in {"body", "done"}
  <2>1. pieces \in Seq(Data)
    BY DEF BodyInv, Bodies
  <2>2. PICK h, b \in Text : /\ text = Joint(h, b) /\ Headed(h, fields)
                             /\ Sent(stage, b, fields, pieces)
    BY <1>4, Zenon DEF BodyInv, Bodies
  <2>3. Clean(b)
    <3>1. Clean(FlattenSeq(pieces))
      BY DEF Innocent, Body
    <3> QED  BY <1>4, <2>1, <2>2, <3>1, BodyClean
  <2>4. PICK st : /\ Course(st, Joint(h, b), fields)
                  /\ Silent(Joint(h, b), st[Len(fields) + 1])
    BY <2>2, <2>3, JoinedHead
  <2> QED  BY <1>1, <2>2, <2>4, Zenon
<1> QED
  <2>1. stage \in {"idle", "head", "body", "done"}
    BY DEF BodyInv, HeadInv, Heads
  <2> QED  BY <1>3, <1>4, <2>1

\* The two kinds of fields.
LEMMA Redirections ==
    ASSUME NEW f \in Sendable
    PROVE  /\ "ref" \in DOMAIN f =>
                /\ f.ref \in Target /\ Reference(f.ref) /\ f.value = Written(f.ref)
                /\ f.name = <<"Location">> \/ f.name = <<"location">>
           /\ "ref" \notin DOMAIN f => f \in Fields
<1>1. CASE f \in Fields
  <2>1. \A x \in Fields : "ref" \notin DOMAIN x
    BY TextConstants
  <2> QED  BY <1>1, <2>1
<1>2. CASE f \notin Fields
  <2>1. PICK n \in {"Location", "location"}, ref \in Target :
          f = [name |-> <<n>>, pad |-> <<SP>>, value |-> Written(ref), ref |-> ref]
    BY <1>2 DEF Sendable
  <2>2. Reference(ref)
    BY TextConstants
  <2>3. f.ref = ref /\ f.value = Written(ref) /\ f.name = <<n>> /\ "ref" \in DOMAIN f
    BY <2>1
  <2> QED  BY <2>1, <2>2, <2>3, Zenon
<1> QED  BY <1>1, <1>2

Names(w) == w \in {"Location", "location"}

\* A field that misleads, or the one of a redirection.
Locates(fs, st, k, w) ==
    \E j \in 1..Len(fs) :
        \/ fs[j].name = <<"Content-", "Location">>
        \/ "ref" \in DOMAIN fs[j] /\ k = st[j] /\ fs[j].name = <<w>>

\* Where a field begins that Location searches for.
LEMMA LocationWord ==
    ASSUME NEW t \in Text, Begins(t), NEW fs \in Seq(Sendable), NEW st, Course(st, t, fs),
           Silent(t, st[Len(fs) + 1]),
           NEW w, Names(w), NEW k \in Nat, Stands(<<w, ":">>, t, k)
    PROVE  Locates(fs, st, k, w)
<1>1. w \in Searched /\ w \in Word /\ ":" \in Word /\ w # "Transfer-Encoding"
  BY SearchedWords DEF Searched, Names
<1>2. k # 0 /\ k + 1 <= Len(t) /\ t[k] = w /\ t[k + 1] = ":"
  BY <1>1, PairIs
<1>3. k < st[Len(fs) + 1]
  <2>1. st[Len(fs) + 1] \in Nat
    BY HeadOver
  <2>2. ~(k >= st[Len(fs) + 1])
    BY <1>1, <1>2, Zenon DEF Silent
  <2> QED  BY <2>1, <2>2
<1>4. PICK j \in 1..Len(fs) : k = (st[j] + Len(fs[j].name)) - 1 /\ t[k] = fs[j].name[Len(fs[j].name)]
  BY <1>1, <1>2, <1>3, HeadWord
<1>5. fs[j] \in Sendable /\ st[j] \in Nat
  BY CourseIs
<1>6. fs[j].name[Len(fs[j].name)] = w
  BY <1>2, <1>4
<1>7. CASE "ref" \in DOMAIN fs[j]
  <2>1. PICK x \in {"Location", "location"} : fs[j].name = <<x>>
    BY <1>5, <1>7, Redirections, Zenon
  <2>2. Len(fs[j].name) = 1
    BY <2>1
  <2>3. x = w
    BY <1>6, <2>1
  <2>4. k = st[j]
    BY <1>4, <1>5, <2>2
  <2> QED  BY <1>7, <2>1, <2>3, <2>4, Zenon DEF Locates
<1>8. CASE "ref" \notin DOMAIN fs[j]
  <2>1. fs[j] \in Fields
    BY <1>5, <1>8, Redirections, Zenon
  <2>2. fs[j].name \in {Chunked, <<"Content-", "Location">>}
    BY <1>1, <1>6, <2>1, TextConstants
  <2>3. fs[j].name # Chunked
    <3>1. Len(Chunked) = 1 /\ Chunked[1] = "Transfer-Encoding"
      BY DEF Chunked
    <3>2. fs[j].name = Chunked => fs[j].name[Len(fs[j].name)] = "Transfer-Encoding"
      BY <3>1
    <3> QED  BY <1>1, <1>6, <3>2
  <2>4. fs[j].name = <<"Content-", "Location">>
    BY <2>2, <2>3, Zenon
  <2> QED  BY <2>4, Zenon DEF Locates
<1> QED  BY <1>7, <1>8

\* The redirection that was sent is the one that is found, and where it leads.
LEMMA LocationFound ==
    ASSUME NEW t \in Text, Begins(t), NEW fs \in Seq(Sendable), NEW st, Course(st, t, fs),
           Silent(t, st[Len(fs) + 1]),
           \A j \in 1..Len(fs) : fs[j].name # <<"Content-", "Location">>,
           NEW i \in 1..Len(fs), "ref" \in DOMAIN fs[i],
           \A j \in 1..Len(fs) : "ref" \in DOMAIN fs[j] => j = i
    PROVE  /\ Location(t) \in Nat \ {0}
           /\ Between(t, Skip(t, Location(t) + 2, {SP}), Find(CRLF, t, Location(t)))
                 = Written(fs[i].ref)
<1> DEFINE p == st[i]
           f == fs[i]
<1>1. f \in Sendable /\ WellFormed(f) /\ Stands(Header(f), t, p) /\ p \in Nat \ {0}
  BY CourseIs
<1>2. f.value = Written(f.ref) /\ (f.name = <<"Location">> \/ f.name = <<"location">>)
  BY <1>1, Redirections
<1>3. PICK w \in {"Location", "location"} : f.name = <<w>>
  BY <1>2, Zenon
<1>4. \A x \in {"Location", "location"} : \A k \in Nat : Stands(<<x, ":">>, t, k) => k = p /\ x = w
  <2> TAKE x \in {"Location", "location"}
  <2> TAKE k \in Nat
  <2> SUFFICES ASSUME Stands(<<x, ":">>, t, k) PROVE k = p /\ x = w
    OBVIOUS
  <2>1. PICK j \in 1..Len(fs) : "ref" \in DOMAIN fs[j] /\ k = st[j] /\ fs[j].name = <<x>>
    <3>1. Locates(fs, st, k, x)
      <4>1. Names(x)
        BY DEF Names
      <4> HIDE DEF p, f
      <4> QED  BY <4>1, LocationWord, Zenon
    <3> QED  BY <3>1, Zenon DEF Locates
  <2>2. j = i
    BY <2>1
  <2>3. k = p /\ f.name = <<x>>
    BY <2>1, <2>2, Zenon
  <2>4. x = w
    <3> HIDE DEF f
    <3> QED  BY <1>3, <2>3
  <2> QED  BY <2>3, <2>4, Zenon
<1> HIDE DEF f, p
<1>5. Len(f.name) = 1 /\ f.name[1] = w
  BY <1>3
<1>6. PICK colon, value, eol \in Nat :
             /\ Found(t, p, f.name, f.value, colon, value, eol)
             /\ eol + 2 = p + Len(Header(f))
             /\ colon = p + Len(f.name) /\ t[eol] = CR /\ t[eol + 1] = LF
             /\ \A j \in p..(eol - 1) : t[j] # CR
  BY <1>1, PartsFound, SMTT(30)
<1>7. Stands(<<w, ":">>, t, p)
  <2>1. /\ p + 1 \in Nat /\ p + 1 <= Len(t) /\ t[p] = w /\ t[p + 1] = ":"
    <3>1. LET k == (p + Len(f.name)) - 1
           IN  /\ k \in Nat \ {0} /\ p <= k /\ (k + 1) + 2 < p + Len(Header(f))
               /\ k + 1 <= Len(t)
               /\ t[k] = f.name[Len(f.name)] /\ t[k + 1] = ":"
      BY <1>1, NameEnds
    <3>2. (p + Len(f.name)) - 1 = p
      BY <1>1, <1>5
    <3> QED  BY <1>1, <1>5, <3>1, <3>2
  <2>2. w \in Word /\ ":" \in Word
    BY SearchedWords DEF Searched
  <2> QED  BY <1>1, <2>1, <2>2, PairIs
<1>8. \A x \in {"Location", "location"} : <<x, ":">> \in Text /\ Len(<<x, ":">>) > 0
  <2> TAKE x \in {"Location", "location"}
  <2>1. x \in Word /\ ":" \in Word
    BY SearchedWords DEF Searched
  <2>2. <<x, ":">> \in Text /\ Len(<<x, ":">>) = 2
    BY <2>1, PairIs
  <2> QED  BY <2>2
<1>9. Find(<<w, ":">>, t, 1) = p
  <2>1. \A m \in Nat : m >= 1 /\ m < p => ~Stands(<<w, ":">>, t, m)
    <3> SUFFICES ASSUME NEW m \in Nat, m < p, Stands(<<w, ":">>, t, m) PROVE FALSE
      OBVIOUS
    <3>1. m = p
      BY <1>4, Zenon
    <3> QED  BY <1>1, <3>1
  <2>2. p >= 1 /\ p \in Nat /\ 1 \in Nat \ {0}
    BY <1>1
  <2> QED  BY <1>7, <1>8, <2>1, <2>2, FindFirst
<1>10. ASSUME NEW x \in {"Location", "location"}, x # w PROVE Find(<<x, ":">>, t, 1) = 0
  <2> DEFINE z == <<x, ":">>
  <2>1. \A k \in Nat : ~Stands(z, t, k)
    BY <1>4, <1>10
  <2>2. z \in Text /\ Len(z) > 0
    BY <1>8
  <2> HIDE DEF z
  <2>3. \/ Find(z, t, 1) = 0
        \/ Find(z, t, 1) \in Nat /\ Stands(z, t, Find(z, t, 1))
    BY <2>2, FindIs
  <2>4. Find(z, t, 1) = 0
    BY <2>1, <2>3
  <2> QED  BY <2>4 DEF z
<1>11. Location(t) = p
  <2>1. CASE w = "Location"
    <3>1. Find(<<"Location", ":">>, t, 1) = p
      BY <1>9, <2>1, Zenon
    <3>2. p # 0
      BY <1>1
    <3> QED  BY <3>1, <3>2, Zenon DEF Location
  <2>2. CASE w = "location"
    <3>1. Find(<<"location", ":">>, t, 1) = p
      BY <1>9, <2>2, Zenon
    <3>2. Find(<<"Location", ":">>, t, 1) = 0
      <4>1. "Location" # w
        BY <2>2
      <4> QED  BY <1>10, <4>1
    <3> QED  BY <3>1, <3>2, Zenon DEF Location
  <2> QED  BY <2>1, <2>2
<1>12. Find(CRLF, t, p) = eol
  <2>1. /\ p \in Nat \ {0} /\ eol \in Nat /\ eol >= p /\ eol + 2 <= Behind(t)
    <3>1. eol + 2 = p + Len(Header(f)) /\ Len(Header(f)) \in Nat /\ eol + 2 <= Behind(t) /\ eol # p
      <4>1. Len(Header(f)) \in Nat
        BY <1>1, SentFields
      <4>2. p + Len(Header(f)) <= Behind(t)
        BY <1>1 DEF Stands
      <4>3. eol # p
        BY <1>6 DEF Found
      <4> QED  BY <1>6, <4>1, <4>2, <4>3
    <3>2. p + Len(f.name) = colon /\ colon <= eol
      <4>1. Len(Header(f)) > 3
        <5>1. LET k == (p + Len(f.name)) - 1
              IN  /\ k \in Nat \ {0} /\ p <= k /\ (k + 1) + 2 < p + Len(Header(f))
                  /\ k + 1 <= Len(t)
                  /\ t[k] = f.name[Len(f.name)] /\ t[k + 1] = ":"
          BY <1>1, NameEnds
        <5> QED  BY <1>1, <1>5, <3>1, <5>1, SMTT(30)
      <4> QED  BY <1>1, <1>5, <1>6, <3>1, <4>1
    <3> QED  BY <1>1, <1>5, <3>1, <3>2
  <2>2. Stands(CRLF, t, eol)
    <3>1. \A k \in 1..2 : k = 1 \/ k = 2
      OBVIOUS
    <3>2. (eol + 1) - 1 = eol /\ (eol + 2) - 1 = eol + 1 /\ eol \in Nat \ {0}
      BY <2>1
    <3>3. t[(eol + 1) - 1] = CRLF[1] /\ t[(eol + 2) - 1] = CRLF[2]
      BY <1>6, <3>2, LineEnd
    <3>4. \A k \in 1..2 : t[(eol + k) - 1] = CRLF[k]
      BY <3>1, <3>3
    <3> QED  BY <2>1, <3>2, <3>4, LineEnd DEF Stands
  <2>3. ASSUME NEW m \in Nat, m >= p, m < eol PROVE ~Stands(CRLF, t, m)
    <3>1. m \in p..(eol - 1) /\ (m + 1) - 1 = m /\ 1 \in 1..2
      BY <2>1, <2>3
    <3>2. t[m] # CRLF[1]
      BY <1>6, <3>1, LineEnd
    <3> QED  BY <3>1, <3>2, LineEnd DEF Stands
  <2>4. CRLF \in Text /\ Len(CRLF) > 0
    BY LineEnd
  <2> QED  BY <2>1, <2>2, <2>3, <2>4, FindFirst
<1>13. Skip(t, p + 2, {SP}) = value /\ Between(t, value, eol) = f.value
  <2>1. ValueStart(t, colon) = value /\ Between(t, value, eol) = f.value
    BY <1>6 DEF Found
  <2>2. colon + 1 = p + 2
    BY <1>1, <1>5, <1>6
  <2> QED  BY <2>1, <2>2, Zenon DEF ValueStart
<1> QED  BY <1>1, <1>2, <1>11, <1>12, <1>13 DEF f

-----------------------------------------------------------------------------
(* The client is where the last server meant.                              *)

OneRef ==
    \A i, j \in DOMAIN fields :
        "ref" \in DOMAIN fields[i] /\ "ref" \in DOMAIN fields[j] => i = j

HopInv ==
    /\ BodyInv
    /\ HopIsMeant
    /\ stage # "idle" => hop # Refused
    /\ OneRef

\* What is not refused is where it was meant to be.
MeantIs(h, m) == m # Doubtful => h = m \/ (h = Refused /\ Len(m.host) + 3 >= HostSize)

LEMMA HopIs == (HopIsMeant <=> MeantIs(hop, meant)) /\ (HopIsMeant' <=> MeantIs(hop', meant'))
  BY DEF HopIsMeant, MeantIs

\* A redirection that is followed from where it was meant leads where it means.
LEMMA RedirectedIs ==
    ASSUME NEW ref, Reference(ref), NEW from, from # Refused, NEW m, MeantIs(from, m)
    PROVE  MeantIs(Redirected(from, Written(ref)), Meant(ref, m))
<1>0. ref.kind \in {"url", "root", "beside"}
  BY DEF Reference
<1>1. CASE ref.kind = "url"
  <2> DEFINE v == Written(ref)
  <2>1. v # <<>> /\ v[1] \in {"http://", "https://"}
    <3>1. LET scheme == IF ref.secure THEN "https://" ELSE "http://"
              rest   == Joint(Joint(ref.host, Port(ref.port)), ref.path)
          IN  /\ rest \in Text
              /\ Written(ref) # <<>> /\ Written(ref)[1] = scheme /\ Tail(Written(ref)) = rest
      BY <1>1, WholeUrl
    <3> HIDE DEF v
    <3> QED  BY <3>1 DEF v
  <2> HIDE DEF v
  <2>2. Redirected(from, v) = Url(v)
    <3>1. v[1] # "/"
      BY <2>1
    <3> QED  BY <2>1, <3>1, Zenon DEF Redirected
  <2>3. \/ Url(v) = Meant(ref, m)
        \/ Url(v) = Refused /\ Len(Meant(ref, m).host) + 3 >= HostSize
    BY <1>1, UrlRead DEF v
  <2> QED  BY <2>2, <2>3, Zenon DEF MeantIs, v
<1>2. CASE ref.kind = "root"
  <2>1. ref.kind # "url"
    BY <1>2
  <2>2. Written(ref) = ref.path /\ ref.path # <<>> /\ ref.path[1] = "/"
    <3>1. Written(ref) = ref.path
      BY <2>1, Zenon DEF Written
    <3> QED  BY <1>2, <3>1 DEF Reference
  <2>3. Meant(ref, m) = IF m = Doubtful THEN Doubtful ELSE [m EXCEPT !.path = ref.path]
    BY <1>2, <2>1, Zenon DEF Meant
  <2>4. Redirected(from, ref.path) = [from EXCEPT !.path = ref.path]
    <3>1. ref.path[1] \notin {"http://", "https://"}
      <4>1. "/" \notin {"http://", "https://"}
        OBVIOUS
      <4> QED  BY <2>2, <4>1
    <3> QED  BY <2>2, <3>1, Zenon DEF Redirected
  <2>5. m # Doubtful => from = m
    BY DEF MeantIs
  <2> QED  BY <2>2, <2>3, <2>4, <2>5, Zenon DEF MeantIs
<1>3. CASE ref.kind = "beside"
  <2>1. ref.kind # "url" /\ ref.kind # "root"
    BY <1>3
  <2>2. Written(ref) = ref.path
    BY <2>1, Zenon DEF Written
  <2>3. ref.path # <<>> => ref.path[1] \notin {"http://", "https://"} /\ ref.path[1] # "/"
    BY <1>3 DEF Reference
  <2>4. Meant(ref, m) = IF m = Doubtful \/ SlashInQuery(m.path) THEN Doubtful
                        ELSE [m EXCEPT !.path = Folder(@) \o ref.path]
    BY <2>1, Zenon DEF Meant
  <2>5. Redirected(from, ref.path) = [from EXCEPT !.path = Folder(@) \o ref.path]
    BY <2>3, Zenon DEF Redirected
  <2>6. m # Doubtful => from = m
    BY DEF MeantIs
  <2> QED  BY <2>2, <2>4, <2>5, <2>6, Zenon DEF MeantIs
<1> QED  BY <1>0, <1>1, <1>2, <1>3

\* What the client reads when it follows a redirection.
LEMMA FollowReads ==
    ASSUME NEW t, Read(t) # Outside, Read(t).kind = "redirect"
    PROVE  Read(t).value = Between(t, Skip(t, Location(t) + 2, {SP}), Find(CRLF, t, Location(t)))
<1> DEFINE r == Read(t)
           at == Location(t)
           eol == Find(CRLF, t, at)
           blank == Find(CRLF \o CRLF, t, 1)
           body == IF blank = 0 THEN Outside
                   ELSE IF Has(<<"Transfer-Encoding", ":", SP, "chunked">>, t)
                   THEN Chunks(Between(t, blank + 4, Behind(t)))
                   ELSE Plain(t, blank + 4)
           to == [kind |-> "redirect", value |-> Between(t, Skip(t, at + 2, {SP}), eol)]
           s == Status(t)
<1>1. r = CASE s = -1 -> Failure
            [] s \in 300..308 /\ at # 0 -> IF eol = 0 THEN Failure ELSE to
            [] OTHER -> Answer(t)
  BY Zenon DEF Read
<1>2. Answer(t) = IF body = Outside THEN Outside
                  ELSE [kind |-> "answer", status |-> s, body |-> body, table |-> Table(t)]
  BY Zenon DEF Answer
<1>3. Failure.kind = "error" /\ to.kind = "redirect"
      /\ to.value = Between(t, Skip(t, at + 2, {SP}), eol)
  <2> HIDE DEF at, eol
  <2> QED  BY DEF Failure
<1> HIDE DEF r, at, eol, to, s, body
<1>4. r # Outside /\ r.kind = "redirect"
  BY DEF r
<1>5. r = Failure \/ r = to \/ r = Answer(t)
  BY <1>1
<1>6. "error" # "redirect" /\ "answer" # "redirect"
  OBVIOUS
<1>7. r = to
  <2>1. r # Failure
    BY <1>3, <1>4, <1>6
  <2>2. r # Answer(t)
    BY <1>2, <1>4, <1>6
  <2> QED  BY <1>5, <2>1, <2>2
<1> QED  BY <1>3, <1>7 DEF r, at, eol

LEMMA InitHop == TextInit => HopInv
<1> SUFFICES ASSUME TextInit PROVE HopInv
  OBVIOUS
<1>1. PICK ref \in Start : hop = Url(Written(ref)) /\ meant = Meant(ref, Doubtful)
  BY Zenon DEF TextInit
<1>2. Reference(ref)
  BY TextConstants
<1>3. MeantIs(hop, meant)
  <2>1. CASE ref.kind = "url"
    <3>1. \/ Url(Written(ref)) = Meant(ref, Doubtful)
          \/ /\ Url(Written(ref)) = Refused
             /\ Len(Meant(ref, Doubtful).host) + 3 >= HostSize
      BY <1>2, <2>1, UrlRead
    <3> QED  BY <1>1, <3>1, Zenon DEF MeantIs
  <2>2. CASE ref.kind # "url"
    <3>1. meant = Doubtful
      <4>1. CASE ref.kind = "root"
        BY <1>1, <2>2, <4>1, Zenon DEF Meant
      <4>2. CASE ref.kind # "root"
        BY <1>1, <2>2, <4>2, Zenon DEF Meant
      <4> QED  BY <4>1, <4>2
    <3> QED  BY <3>1, Zenon DEF MeantIs
  <2> QED  BY <2>1, <2>2
<1>4. stage = "idle" /\ fields = <<>>
  BY DEF TextInit
<1>5. OneRef
  BY <1>4 DEF OneRef
<1>6. BodyInv
  BY InitBody
<1> QED  BY <1>3, <1>4, <1>5, <1>6, HopIs, Zenon DEF HopInv

LEMMA FieldHop == HopInv /\ SendField => HopInv'
<1> SUFFICES ASSUME HopInv, SendField PROVE HopInv'
  OBVIOUS
<1>1. PICK f \in Sendable :
        /\ "ref" \in DOMAIN f => \A i \in DOMAIN fields : "ref" \notin DOMAIN fields[i]
        /\ fields' = Append(fields, f)
  BY Zenon DEF SendField
<1>2. stage # "idle" /\ hop' = hop /\ meant' = meant
  <2>1. stage = "head" /\ hop' = hop /\ meant' = meant
    BY Zenon DEF SendField
  <2> QED  BY <2>1
<1>3. fields \in Seq(Sendable)
  BY DEF HopInv, BodyInv, HeadInv, Heads
<1> DEFINE n == Len(fields)
           gs == Append(fields, f)
<1>4. n \in Nat /\ DOMAIN fields = 1..n /\ DOMAIN gs = 1..(n + 1) /\ gs[n + 1] = f
      /\ \A i \in 1..n : gs[i] = fields[i]
  BY <1>3
<1>5. OneRef'
  <2> SUFFICES ASSUME NEW i \in 1..(n + 1), NEW j \in 1..(n + 1),
                      "ref" \in DOMAIN gs[i], "ref" \in DOMAIN gs[j]
               PROVE  i = j
    BY <1>1, <1>4 DEF OneRef
  <2> HIDE DEF gs, n
  <2>1. CASE i \in 1..n /\ j \in 1..n
    BY <1>4, <2>1 DEF HopInv, OneRef
  <2>2. CASE i = n + 1 /\ j \in 1..n
    BY <1>1, <1>4, <2>2
  <2>3. CASE i \in 1..n /\ j = n + 1
    BY <1>1, <1>4, <2>3
  <2>4. CASE i = n + 1 /\ j = n + 1
    BY <2>4
  <2> QED  BY <1>4, <2>1, <2>2, <2>3, <2>4
<1>6. BodyInv'
  BY NextBody DEF HopInv, TextNext
<1>7. hop' # Refused /\ MeantIs(hop', meant')
  BY <1>2, HopIs, Zenon DEF HopInv
<1> QED  BY <1>5, <1>6, <1>7, HopIs, Zenon DEF HopInv

LEMMA FollowHop == HopInv /\ Follow => HopInv'
<1> SUFFICES ASSUME HopInv, Follow PROVE HopInv'
  OBVIOUS
<1>1. /\ Read(text) # Outside /\ Read(text).kind = "redirect"
      /\ hop' = Redirected(hop, Read(text).value)
      /\ meant' = MeantNext /\ stage' = "idle" /\ fields' = <<>>
  BY Zenon DEF Follow
<1>2. stage # "idle"
  BY DEF Follow
<1>3. hop # Refused /\ MeantIs(hop, meant) /\ BodyInv /\ OneRef
  BY <1>2, HopIs, Zenon DEF HopInv
<1>4. OneRef'
  BY <1>1 DEF OneRef
<1>5. BodyInv'
  BY <1>3, NextBody DEF TextNext
<1>6. MeantIs(hop', meant')
  <2> SUFFICES ASSUME meant' # Doubtful PROVE MeantIs(hop', meant')
    BY Zenon DEF MeantIs
  <2> DEFINE sent == {i \in DOMAIN fields : "ref" \in DOMAIN fields[i]}
             i == CHOOSE i \in sent : TRUE
  <2>1. MeantNext = IF sent = {} \/ Misleading \/ ~Innocent THEN Doubtful
                    ELSE Meant(fields[i].ref, meant)
    BY Zenon DEF MeantNext
  <2>2. sent # {} /\ ~Misleading /\ Innocent /\ meant' = Meant(fields[i].ref, meant)
    <3> HIDE DEF sent, i
    <3> QED  BY <1>1, <2>1, Zenon
  <2>3. i \in sent
    BY <2>2, Zenon
  <2>4. i \in DOMAIN fields /\ "ref" \in DOMAIN fields[i]
    BY <2>3
  <2> HIDE DEF sent, i
  <2>5. text \in Text /\ fields \in Seq(Sendable) /\ Begins(text)
    BY <1>2, <1>3, <2>2, Silence
  <2>6. PICK st : Course(st, text, fields) /\ Silent(text, st[Len(fields) + 1])
    BY <1>2, <1>3, <2>2, Silence
  <2>7. DOMAIN fields = 1..Len(fields) /\ fields[i] \in Sendable
    BY <2>4, <2>5
  <2>8. \A j \in 1..Len(fields) : fields[j].name # <<"Content-", "Location">>
    BY <2>2, <2>7, Zenon DEF Misleading
  <2>9. \A j \in 1..Len(fields) : "ref" \in DOMAIN fields[j] => j = i
    BY <1>3, <2>4, <2>7, Zenon DEF OneRef
  <2>10. i \in 1..Len(fields)
    BY <2>4, <2>7
  <2>11. Between(text, Skip(text, Location(text) + 2, {SP}), Find(CRLF, text, Location(text)))
            = Written(fields[i].ref)
    BY <2>4, <2>5, <2>6, <2>8, <2>9, <2>10, LocationFound
  <2>12. Read(text).value = Written(fields[i].ref)
    BY <1>1, <2>11, FollowReads
  <2>13. Reference(fields[i].ref)
    BY <2>4, <2>7, Redirections
  <2>14. MeantIs(Redirected(hop, Written(fields[i].ref)), Meant(fields[i].ref, meant))
    BY <1>3, <2>13, RedirectedIs
  <2> QED  BY <1>1, <2>2, <2>12, <2>14, Zenon
<1> QED  BY <1>1, <1>4, <1>5, <1>6, HopIs, Zenon DEF HopInv

LEMMA NextHop == HopInv /\ [TextNext]_textvars => HopInv'
<1> SUFFICES ASSUME HopInv, [TextNext]_textvars PROVE HopInv'
  OBVIOUS
<1>1. BodyInv'
  BY NextBody DEF HopInv
<1>2. ASSUME UNCHANGED textvars \/ StatusLine \/ EndHead \/ SendPiece \/ EndBody PROVE HopInv'
  <2>1. hop' = hop /\ meant' = meant /\ fields' = fields
    BY <1>2 DEF textvars, StatusLine, EndHead, SendPiece, EndBody
  <2>2. stage' # "idle" => hop # Refused
    BY <1>2 DEF textvars, StatusLine, EndHead, SendPiece, EndBody, HopInv
  <2>3. OneRef'
    BY <2>1, Zenon DEF OneRef, HopInv
  <2>4. MeantIs(hop', meant')
    BY <2>1, HopIs, Zenon DEF HopInv
  <2> QED  BY <1>1, <2>1, <2>2, <2>3, <2>4, HopIs, Zenon DEF HopInv
<1> QED  BY <1>2, FieldHop, FollowHop, Zenon DEF TextNext

\* "Parse an URL of the form http://host:port/path" (httpclient.c:594): along
\* a chain of redirections to full URLs, to paths and to names beside the page,
\* the client is where the last server meant, unless the host has no room.
THEOREM RedirectionsRight == TextSpec => []HopIsMeant
<1>1. HopInv => HopIsMeant
  BY DEF HopInv
<1> QED  BY <1>1, InitHop, NextHop, PTL DEF TextSpec

-----------------------------------------------------------------------------
(* The head of what is read, in full or cut off.                           *)

\* What tells that a body is chunked.
Coding == <<"Transfer-Encoding", ":", SP, "chunked">>

LEMMA CodingIs ==
    /\ Coding \in Text /\ Len(Coding) = 4
    /\ \A t \in Text : \A k \in Nat :
          Stands(Coding, t, k) <=> /\ k # 0 /\ k + 3 <= Len(t)
                                   /\ t[k] = "Transfer-Encoding" /\ t[k + 1] = ":"
                                   /\ t[k + 2] = SP /\ t[k + 3] = "chunked"
<1> DEFINE w == Coding
<1>1. w \in Text /\ Len(w) = 4 /\ w[1] = "Transfer-Encoding" /\ w[2] = ":" /\ w[3] = SP
      /\ w[4] = "chunked"
  <2>1. "Transfer-Encoding" \in Word /\ ":" \in Word /\ SP \in Word /\ "chunked" \in Word
    BY Zenon DEF Word, Searched
  <2> QED  BY <2>1 DEF Coding, Text
<1> HIDE DEF w
<1>2. ASSUME NEW t \in Text, NEW k \in Nat
      PROVE  Stands(w, t, k) <=> /\ k # 0 /\ k + 3 <= Len(t)
                                 /\ t[k] = "Transfer-Encoding" /\ t[k + 1] = ":"
                                 /\ t[k + 2] = SP /\ t[k + 3] = "chunked"
  <2>1. Len(t) \in Nat /\ Behind(t) = Len(t) + 1
    BY Ends
  <2>2. Stands(w, t, k) <=> k # 0 /\ k + 4 <= Behind(t) /\ \A i \in 1..4 : t[(k + i) - 1] = w[i]
    BY <1>1 DEF Stands
  <2>3. (\A i \in 1..4 : t[(k + i) - 1] = w[i]) <=>
          /\ t[k] = w[1] /\ t[k + 1] = w[2] /\ t[k + 2] = w[3] /\ t[k + 3] = w[4]
    <3>1. \A i : i \in 1..4 <=> i = 1 \/ i = 2 \/ i = 3 \/ i = 4
      OBVIOUS
    <3>2. (k + 1) - 1 = k /\ (k + 2) - 1 = k + 1 /\ (k + 3) - 1 = k + 2 /\ (k + 4) - 1 = k + 3
      OBVIOUS
    <3> QED  BY <3>1, <3>2
  <2>4. k + 4 <= Behind(t) <=> k + 3 <= Len(t)
    BY <2>1
  <2> QED  BY <1>1, <2>2, <2>3, <2>4, Zenon
<1> QED  BY <1>1, <1>2 DEF w

LEMMA HasIs ==
    ASSUME NEW t \in Text, NEW w \in Text, Len(w) > 0
    PROVE  Has(w, t) <=> \E k \in Nat : Stands(w, t, k)
<1>1. \/ /\ Find(w, t, 1) = 0
         /\ \A k \in Nat : k >= 1 => ~Stands(w, t, k)
      \/ /\ Find(w, t, 1) \in Nat /\ Find(w, t, 1) >= 1
         /\ Stands(w, t, Find(w, t, 1))
  <2>1. 1 \in Nat \ {0}
    OBVIOUS
  <2> QED  BY <2>1, FindIs
<1>2. \A k \in Nat : Stands(w, t, k) => k >= 1
  BY DEF Stands
<1> QED  BY <1>1, <1>2 DEF Has

\* A response is taken for chunked if and only if it is.
LEMMA CodingFound ==
    ASSUME NEW t \in Text, Begins(t), NEW fs \in Seq(Sendable), NEW st, Course(st, t, fs),
           Silent(t, st[Len(fs) + 1])
    PROVE  Has(Coding, t) <=> ChunkedIn(fs)
<1>0. DOMAIN fs = 1..Len(fs)
  OBVIOUS
<1>1. ASSUME Has(Coding, t) PROVE ChunkedIn(fs)
  <2>1. PICK k \in Nat : Stands(Coding, t, k)
    BY <1>1, CodingIs, HasIs
  <2>2. k # 0 /\ k + 3 <= Len(t) /\ t[k] = "Transfer-Encoding" /\ t[k + 1] = ":"
    BY <2>1, CodingIs
  <2>3. t[k] \in Searched
    BY <2>2 DEF Searched
  <2>4. k < st[Len(fs) + 1]
    <3>1. st[Len(fs) + 1] \in Nat
      BY HeadOver
    <3>2. k + 1 <= Len(t)
      BY <2>2, Ends
    <3>3. ~(k >= st[Len(fs) + 1])
      BY <2>2, <2>3, <3>2, Zenon DEF Silent
    <3> QED  BY <3>1, <3>3
  <2>5. PICK j \in 1..Len(fs) : t[k] = fs[j].name[Len(fs[j].name)]
    <3>1. k \in Nat \ {0}
      BY <2>2
    <3>2. \E j \in 1..Len(fs) : /\ k = (st[j] + Len(fs[j].name)) - 1
                                /\ t[k] = fs[j].name[Len(fs[j].name)]
      <4>1. t[k + 1] = ":"
        BY <2>2
      <4> QED  BY <2>3, <2>4, <3>1, <4>1, HeadWord
    <3> QED  BY <3>2, Zenon
  <2>6. fs[j] \in Sendable
    BY CourseIs
  <2>7. fs[j].name[Len(fs[j].name)] = "Transfer-Encoding"
    BY <2>2, <2>5
  <2>8. fs[j] \in Fields
    <3> SUFFICES ASSUME "ref" \in DOMAIN fs[j] PROVE FALSE
      BY <2>6, Redirections
    <3>1. PICK x \in {"Location", "location"} : fs[j].name = <<x>>
      BY <2>6, Redirections, Zenon
    <3>2. fs[j].name[Len(fs[j].name)] = x
      BY <3>1
    <3> QED  BY <2>7, <3>2
  <2>9. fs[j].name \in {Chunked, <<"Content-", "Location">>}
    BY <2>3, <2>5, <2>8, TextConstants
  <2>10. fs[j].name # <<"Content-", "Location">>
    <3>1. <<"Content-", "Location">>[Len(<<"Content-", "Location">>)] = "Location"
      OBVIOUS
    <3> QED  BY <2>7, <3>1
  <2>11. fs[j].name = Chunked
    BY <2>9, <2>10, Zenon
  <2> QED  BY <1>0, <2>11 DEF ChunkedIn
<1>2. ASSUME ChunkedIn(fs) PROVE Has(Coding, t)
  <2>1. PICK i \in 1..Len(fs) : fs[i].name = Chunked
    BY <1>0, <1>2 DEF ChunkedIn
  <2> DEFINE f == fs[i]
             p == st[i]
             h == Header(f)
  <2>2. f \in Sendable /\ WellFormed(f) /\ Stands(h, t, p) /\ p \in Nat \ {0}
    BY CourseIs
  <2>3. f.name = Chunked /\ f.pad = <<SP>> /\ f.value = <<"chunked">>
    BY <2>1, <2>2, TextConstants
  <2>4. f.name \in Text /\ f.pad \in Text /\ f.value \in Text
    BY <2>2, FieldTexts
  <2>5. Laid(h, f.name, f.pad, f.value)
    <3>1. h = Line(f.name, f.pad, f.value)
      BY HeaderLine
    <3> HIDE DEF h
    <3> QED  BY <2>4, <3>1, FieldParts
  <2>6. /\ Len(f.name) = 1 /\ f.name[1] = "Transfer-Encoding"
        /\ Len(f.pad) = 1 /\ f.pad[1] = SP
        /\ Len(f.value) = 1 /\ f.value[1] = "chunked"
    BY <2>3 DEF Chunked
  <2> HIDE DEF f, h, p
  <2>7. /\ Len(h) = 6 /\ h[1] = "Transfer-Encoding" /\ h[2] = ":" /\ h[3] = SP /\ h[4] = "chunked"
    <3>1. /\ Len(h) = (((1 + 1) + 1) + 1) + 2
          /\ h[1] = f.name[1] /\ h[1 + 1] = ":"
          /\ h[(1 + 1) + 1] = f.pad[1] /\ h[((1 + 1) + 1) + 1] = f.value[1]
      <4>1. 1 \in 1..1
        OBVIOUS
      <4> QED  BY <2>5, <2>6, <4>1 DEF Laid
    <3>2. 1 + 1 = 2 /\ (1 + 1) + 1 = 3 /\ ((1 + 1) + 1) + 1 = 4 /\ (((1 + 1) + 1) + 1) + 2 = 6
      OBVIOUS
    <3> QED  BY <2>6, <3>1, <3>2
  <2>8. p + 6 <= Behind(t) /\ \A j \in 1..6 : t[(p + j) - 1] = h[j]
    BY <2>2, <2>7 DEF Stands
  <2>9. /\ (p + 1) - 1 = p /\ (p + 2) - 1 = p + 1 /\ (p + 3) - 1 = p + 2 /\ (p + 4) - 1 = p + 3
        /\ 1 \in 1..6 /\ 2 \in 1..6 /\ 3 \in 1..6 /\ 4 \in 1..6
    BY <2>2
  <2>10. t[p] = "Transfer-Encoding" /\ t[p + 1] = ":" /\ t[p + 2] = SP /\ t[p + 3] = "chunked"
    BY <2>7, <2>8, <2>9, Zenon
  <2>11. p + 3 <= Len(t)
    <3>1. Len(t) \in Nat /\ Behind(t) = Len(t) + 1
      BY Ends
    <3> QED  BY <2>2, <2>8, <3>1
  <2>12. Stands(Coding, t, p)
    BY <2>2, <2>10, <2>11, CodingIs
  <2> QED  BY <2>2, <2>12, CodingIs, HasIs, SMTT(30)
<1> QED  BY <1>1, <1>2

\* The start of a text.
Opens(v, t) ==
    /\ v \in Text /\ Len(v) <= Len(t)
    /\ \A i \in 1..Len(v) : v[i] = t[i]

LEMMA StartIs ==
    ASSUME NEW t \in Text, NEW n \in 0..Len(t)
    PROVE  Opens(SubSeq(t, 1, n), t) /\ Len(SubSeq(t, 1, n)) = n
<1> DEFINE v == SubSeq(t, 1, n)
<1>1. Len(t) \in Nat /\ n \in Nat /\ n <= Len(t)
  BY Ends
<1>2. \A i \in 1..n : t[i] \in Word
  BY <1>1 DEF Text
<1>3. /\ v \in Seq(Word) /\ Len(v) = (IF 1 <= n THEN (n - 1) + 1 ELSE 0)
      /\ \A i \in 1..((n - 1) + 1) : v[i] = t[(1 + i) - 1]
  BY <1>1, <1>2, SubSeqProperties
<1> HIDE DEF v
<1>4. Len(v) = n
  BY <1>1, <1>3
<1>5. \A i \in 1..n : v[i] = t[i]
  <2> TAKE i \in 1..n
  <2>1. i \in 1..((n - 1) + 1) /\ (1 + i) - 1 = i
    BY <1>1
  <2> QED  BY <1>3, <2>1
<1> QED  BY <1>1, <1>3, <1>4, <1>5 DEF Opens, Text, v

\* What is cut off in its head has no empty line.
LEMMA HeadCut ==
    ASSUME NEW h \in Text, NEW b \in Text, NEW fs, Headed(h, fs),
           NEW v, Opens(v, Joint(h, b)), Len(v) < Len(h)
    PROVE  Find(CRLF \o CRLF, v, 1) = 0
<1> DEFINE w == CRLF \o CRLF
<1>1. PICK st : /\ Course(st, h, fs)
                /\ Behind(h) = st[Len(fs) + 1] + 2
  BY DEF Headed
<1>2. fs \in Seq(Sendable) /\ Begins(h)
  BY DEF Headed
<1>3. Len(h) = st[Len(fs) + 1] + 1 /\ st[Len(fs) + 1] \in Nat /\ Len(h) \in Nat
  <2>1. st[Len(fs) + 1] \in Nat
    BY <1>1, <1>2, HeadOver
  <2>2. Len(h) \in Nat /\ Behind(h) = Len(h) + 1
    BY Ends
  <2> DEFINE e == st[Len(fs) + 1]
  <2> HIDE DEF e
  <2>3. Len(h) = e + 1
    BY <1>1, <2>1, <2>2 DEF e
  <2> QED  BY <2>1, <2>2, <2>3 DEF e
<1>4. v \in Text /\ Len(v) \in Nat
  BY Ends DEF Opens
<1>5. \A i \in 1..Len(v) : v[i] = h[i]
  <2>1. \A i \in 1..Len(h) : Joint(h, b)[i] = h[i]
    BY Joins
  <2>2. \A i \in 1..Len(v) : i \in 1..Len(h)
    BY <1>3, <1>4
  <2> QED  BY <2>1, <2>2 DEF Opens
<1>6. \A k \in Nat : ~Stands(w, v, k)
  <2> SUFFICES ASSUME NEW k \in Nat, Stands(w, v, k) PROVE FALSE
    OBVIOUS
  <2>1. k # 0 /\ k + 3 <= Len(v) /\ v[k] = CR /\ v[k + 1] = LF /\ v[k + 2] = CR /\ v[k + 3] = LF
    BY <1>4, BlankLine
  <2>2. /\ k \in 1..Len(v) /\ k + 1 \in 1..Len(v) /\ k + 2 \in 1..Len(v) /\ k + 3 \in 1..Len(v)
        /\ k + 3 <= Len(h)
    BY <1>3, <1>4, <2>1
  <2>3. h[k] = CR /\ h[k + 1] = LF /\ h[k + 2] = CR /\ h[k + 3] = LF
    BY <1>5, <2>1, <2>2
  <2>4. Stands(w, h, k)
    BY <2>1, <2>2, <2>3, BlankLine
  <2>5. k + 2 < st[Len(fs) + 1]
    BY <1>3, <1>4, <2>1
  <2> QED  BY <1>1, <1>2, <2>4, <2>5, NoneBefore
<1>7. w \in Text /\ Len(w) > 0 /\ 1 \in Nat \ {0}
  BY BlankLine
<1> HIDE DEF w
<1>8. Find(w, v, 1) = 0
  BY <1>4, <1>6, <1>7, FindIs
<1> QED  BY <1>8 DEF w

\* What is cut off behind its head has all of the head.
LEMMA HeadWhole ==
    ASSUME NEW h \in Text, NEW b \in Text, NEW v, Opens(v, Joint(h, b)), Len(v) >= Len(h)
    PROVE  \E w : Opens(w, b) /\ v = Joint(h, w) /\ (v = Joint(h, b) => w = b)
<1> DEFINE n == Len(v) - Len(h)
           w == SubSeq(b, 1, n)
           t == Joint(h, b)
<1>1. /\ t \in Text /\ Len(t) = Len(h) + Len(b)
      /\ \A i \in 1..Len(h) : t[i] = h[i]
      /\ \A i \in 1..Len(b) : t[Len(h) + i] = b[i]
  BY Joins
<1>2. v \in Text /\ Len(v) <= Len(t) /\ \A i \in 1..Len(v) : v[i] = t[i]
  BY DEF Opens
<1> HIDE DEF t
<1>3. Len(v) \in Nat /\ Len(h) \in Nat /\ Len(b) \in Nat
  BY <1>2, Ends
<1>4. n \in 0..Len(b) /\ n \in Nat
  BY <1>1, <1>2, <1>3
<1>5. Opens(w, b) /\ Len(w) = n
  BY <1>4, StartIs
<1> HIDE DEF w
<1>6. w \in Text /\ \A i \in 1..n : w[i] = b[i]
  BY <1>5 DEF Opens
<1> DEFINE u == Joint(h, w)
<1>7. /\ u \in Text /\ Len(u) = Len(h) + Len(w)
      /\ \A i \in 1..Len(h) : u[i] = h[i]
      /\ \A i \in 1..Len(w) : u[Len(h) + i] = w[i]
  BY <1>6, Joins
<1> HIDE DEF u
<1>8. Len(u) = Len(v)
  BY <1>3, <1>5, <1>7
<1>9. ASSUME NEW i \in 1..Len(v) PROVE v[i] = u[i]
  <2>1. CASE i \in 1..Len(h)
    BY <1>1, <1>2, <1>7, <2>1
  <2>2. CASE i \notin 1..Len(h)
    <3> DEFINE j == i - Len(h)
    <3>1. j \in 1..n /\ j \in 1..Len(b) /\ i = Len(h) + j
      BY <1>3, <1>4, <2>2
    <3> HIDE DEF j
    <3>2. u[i] = b[j] /\ t[i] = b[j]
      BY <1>1, <1>5, <1>6, <1>7, <3>1
    <3> QED  BY <1>2, <3>2
  <2> QED  BY <2>1, <2>2
<1>10. v = u
  BY <1>2, <1>7, <1>8, <1>9, SeqEqual DEF Text
<1>11. v = t => w = b
  <2> SUFFICES ASSUME v = t PROVE w = b
    OBVIOUS
  <2>1. Len(w) = Len(b)
    BY <1>1, <1>3, <1>5
  <2>2. \A i \in 1..Len(w) : w[i] = b[i]
    BY <1>5, <1>6
  <2> QED  BY <1>6, <2>1, <2>2, SeqEqual DEF Text
<1> QED  BY <1>5, <1>10, <1>11 DEF u, t

-----------------------------------------------------------------------------
(* A chunked body is put together: http_chunked_decode.                    *)

LEMMA NoNumber ==
    ASSUME NEW base \in Nat, NEW ds, DOMAIN ds = {}
    PROVE  NumberOf(base, ds) = 0
<1> DEFINE D == SUBSET {}
           Step(it) == [s \in D |-> IF s = {} THEN 0
                                    ELSE base * it[s \ {Max(s)}] + Number[ds[Max(s)]]]
           it0 == [s \in D |-> 0]
           iter == CHOOSE it : it = Step(it)
<1>1. NumberOf(base, ds) = iter[{}]
  BY Zenon DEF NumberOf, FoldLeft, MapThenFoldSet
<1>2. \A s \in D : s = {}
  OBVIOUS
<1>3. it0 = Step(it0)
  BY <1>2
<1>4. iter = Step(iter)
  <2> HIDE DEF it0
  <2> QED  BY <1>3
<1> HIDE DEF iter
<1>5. iter[{}] = 0
  BY <1>4
<1> QED  BY <1>1, <1>5

\* Behind the text there is no number.
LEMMA ValueNone == ASSUME NEW t \in Text PROVE Value(t, Behind(t), 16) = 0
<1> DEFINE b == Behind(t)
           first == Skip(t, b, {SP, CR, LF})
           past == Skip(t, first, Digits)
<1>1. b \in 1..b /\ Len(t) \in Nat /\ b = Len(t) + 1 /\ b \in b..b
  BY Ends
<1>2. \A m \in b..(b - 1) : FALSE
  BY <1>1
<1>3. first = b
  BY <1>1, <1>2, SkipIs
<1>4. past = b
  <2>1. Skip(t, b, Digits) = b
    BY <1>1, <1>2, SkipIs
  <2> QED  BY <1>3, <2>1
<1>5. Value(t, b, 16) = NumberOf(16, Between(t, first, past))
  BY Zenon DEF Value, NumberOf
<1>6. DOMAIN Between(t, b, b) = {}
  <2> DEFINE s == SubSeq(t, b, b - 1)
  <2>1. s \in Seq(Word) /\ Len(s) = 0
    <3>1. \A i \in b..(b - 1) : t[i] \in Word
      BY <1>2
    <3> HIDE DEF b
    <3>2. b \in Int /\ b - 1 \in Int /\ ~(b <= b - 1)
      BY <1>1
    <3> QED  BY <3>1, <3>2, SubSeqProperties
  <2> HIDE DEF s
  <2>2. DOMAIN s = {}
    BY <2>1
  <2> QED  BY <2>2 DEF s, Between
<1>7. NumberOf(16, Between(t, b, b)) = 0
  <2>1. 16 \in Nat
    OBVIOUS
  <2> DEFINE s == Between(t, b, b)
  <2>2. DOMAIN s = {}
    BY <1>6
  <2> HIDE DEF s
  <2>3. NumberOf(16, s) = 0
    BY <2>1, <2>2, NoNumber
  <2> QED  BY <2>3 DEF s
<1> QED  BY <1>3, <1>4, <1>5, <1>7, Zenon

\* One turn of its loop at place j, where D has what comes from further on.
ChunkAt(D, t, j) ==
    LET i     == ChunkSize(t, j)
        data  == Find(CRLF, t, j) + Len(CRLF)
        after == data + i + Len(CRLF)
    IN  IF i = 0 THEN <<>>
        ELSE IF \/ data = Len(CRLF)
                \/ after \notin (j + 1)..Behind(t)
                \/ D[after] = Outside
        THEN Outside
        ELSE Between(t, data, data + i) \o D[after]

IsDecoded(D, t) == D = [j \in 1..Behind(t) |-> ChunkAt(D, t, j)]

Decoded(t) == CHOOSE D : IsDecoded(D, t)

LEMMA ChunksStart == ASSUME NEW t PROVE Chunks(t) = Decoded(t)[1]
  BY Zenon DEF Chunks, Decoded, IsDecoded, ChunkAt

\* The turns of the loop, by names that the provers leave as they are.
Turn(D, t, j, i, data, after) ==
    IF i = 0 THEN <<>>
    ELSE IF \/ data = Len(CRLF)
            \/ after \notin (j + 1)..Behind(t)
            \/ D[after] = Outside
    THEN Outside
    ELSE Between(t, data, data + i) \o D[after]

LEMMA TurnIs ==
    ASSUME NEW t, NEW D, NEW j, NEW i, i = ChunkSize(t, j),
           NEW data, data = Find(CRLF, t, j) + Len(CRLF),
           NEW after, after = data + i + Len(CRLF)
    PROVE  ChunkAt(D, t, j) = Turn(D, t, j, i, data, after)
  BY Zenon DEF ChunkAt, Turn

\* The loop from a place depends on the places behind it alone.
LEMMA ChunkBehind ==
    ASSUME NEW t, NEW p, NEW L, NEW M,
           \A q \in (p + 1)..Behind(t) : L[q] = M[q]
    PROVE  ChunkAt(L, t, p) = ChunkAt(M, t, p)
<1> DEFINE i     == ChunkSize(t, p)
           data  == Find(CRLF, t, p) + Len(CRLF)
           after == data + i + Len(CRLF)
<1>1. /\ ChunkAt(L, t, p) = Turn(L, t, p, i, data, after)
      /\ ChunkAt(M, t, p) = Turn(M, t, p, i, data, after)
  BY Zenon DEF ChunkAt, Turn
<1> HIDE DEF i, data, after
<1>2. after \in (p + 1)..Behind(t) => L[after] = M[after]
  BY Zenon
<1>3. Turn(L, t, p, i, data, after) = Turn(M, t, p, i, data, after)
  BY <1>2, Zenon DEF Turn
<1> QED  BY <1>1, <1>3, Zenon

\* So that there is such a table, whatever the text.
LEMMA DecodedThere == ASSUME NEW t \in Text PROVE IsDecoded(Decoded(t), t)
<1> DEFINE b == Behind(t)
           Good(L, k) == /\ DOMAIN L = 1..b
                         /\ L = [q \in DOMAIN L |-> L[q]]
                         /\ \A p \in (b - k)..b : L[p] = ChunkAt(L, t, p)
           P == {k \in Nat : k < b => \E L : Good(L, k)}
<1>1. b \in Nat /\ b >= 1
  BY Ends
<1>2. 0 \in P
  <2> DEFINE L == [q \in 1..b |-> <<>>]
  <2>1. ChunkAt(L, t, b) = <<>>
    <3>1. ChunkSize(t, b) = 0
      BY ValueNone DEF ChunkSize
    <3> HIDE DEF L, b
    <3> QED  BY <3>1, Zenon DEF ChunkAt
  <2>2. \A p \in (b - 0)..b : p = b /\ p \in 1..b
    BY <1>1
  <2>3. DOMAIN L = 1..b /\ L = [q \in DOMAIN L |-> L[q]] /\ \A p \in 1..b : L[p] = <<>>
    OBVIOUS
  <2> HIDE DEF L, b
  <2>4. Good(L, 0)
    BY <2>1, <2>2, <2>3
  <2> QED  BY <2>4
<1>3. ASSUME NEW k \in P PROVE k + 1 \in P
  <2> SUFFICES ASSUME k + 1 < b PROVE \E L : Good(L, k + 1)
    OBVIOUS
  <2>1. PICK L : Good(L, k)
    BY <1>1
  <2> DEFINE n == b - (k + 1)
             M == [L EXCEPT ![n] = ChunkAt(L, t, n)]
  <2>2. n \in 1..b /\ k \in Nat
    BY <1>1
  <2>3. DOMAIN M = 1..b /\ M = [q \in DOMAIN M |-> M[q]]
    BY <2>1
  <2>4. M[n] = ChunkAt(L, t, n) /\ \A q \in 1..b : q # n => M[q] = L[q]
    BY <2>1, <2>2
  <2> HIDE DEF M
  <2>5. ASSUME NEW p \in (b - (k + 1))..b PROVE M[p] = ChunkAt(M, t, p)
    <3>1. p \in 1..b
      BY <1>1, <2>2
    <3>2. \A q \in (p + 1)..b : L[q] = M[q]
      BY <1>1, <2>2, <2>4
    <3>3. ChunkAt(L, t, p) = ChunkAt(M, t, p)
      BY <3>1, <3>2, ChunkBehind
    <3>4. CASE p = n
      BY <2>4, <3>3, <3>4
    <3>5. CASE p # n
      <4>1. p \in (b - k)..b
        BY <1>1, <2>2, <3>5
      <4> QED  BY <2>1, <2>4, <3>1, <3>3, <3>5, <4>1
    <3> QED  BY <3>4, <3>5
  <2> HIDE DEF b, n
  <2>6. Good(M, k + 1)
    BY <2>3, <2>5
  <2> QED  BY <2>6
<1> HIDE DEF b, Good
<1>4. \A k \in Nat : k \in P
  <2> HIDE DEF P
  <2>1. P \in SUBSET Nat
    BY DEF P
  <2> QED  BY <1>2, <1>3, <2>1, Induction
<1>5. b - 1 \in P /\ b - 1 < b
  BY <1>1, <1>4
<1>6. PICK L : Good(L, b - 1)
  BY <1>5
<1>7. IsDecoded(L, t)
  <2>1. DOMAIN L = 1..b /\ L = [q \in DOMAIN L |-> L[q]]
    BY <1>6 DEF Good
  <2>2. \A p \in 1..b : L[p] = ChunkAt(L, t, p)
    <3>1. b - (b - 1) = 1
      BY <1>1
    <3> QED  BY <1>6, <3>1 DEF Good
  <2> QED  BY <2>1, <2>2 DEF IsDecoded, b
<1> QED  BY <1>7, Zenon DEF Decoded

\* The line before a chunk: its size is read, and its end is found.
LEMMA ChunkHeadRead ==
    ASSUME NEW t \in Text, NEW d \in Data, NEW c, HeadOf(c, d), NEW p, Stands(c, t, p)
    PROVE  /\ ChunkSize(t, p) = Len(d)
           /\ Find(CRLF, t, p) = (p + Len(c)) - 2
<1> DEFINE ds == Numeral(Len(d), 16)
           n == Len(ds)
           m == Len(c)
<1>1. PICK ext : Extended(ext) /\ Parts(c, ds, ext, CRLF)
  BY DEF HeadOf
<1>2. /\ ds \in Text /\ n \in {1, 2} /\ \A i \in 1..n : ds[i] \in Digits
      /\ NumberOf(16, ds) = Len(d)
  BY HeadDigits
<1> HIDE DEF ds
<1> DEFINE e == Len(ext)
<1>3. e \in {0, 2} /\ (e # 0 => ext[1] \notin Digits)
  BY <1>1 DEF Extended
<1>4. /\ c \in Text /\ m = (n + e) + 2
      /\ \A i \in 1..n : c[i] = ds[i]
      /\ \A i \in 1..e : c[n + i] = ext[i]
      /\ \A i \in 1..2 : c[(n + e) + i] = CRLF[i]
  BY <1>1, LineEnd DEF Parts
<1>5. p \in Nat \ {0} /\ p + m <= Behind(t) /\ \A i \in 1..m : t[(p + i) - 1] = c[i]
  BY DEF Stands
<1>6. /\ \A i \in 1..(m - 2) : c[i] \notin {CR, LF}
      /\ c[m - 1] = CR /\ c[m] = LF
  BY HeadWords
<1>7. Len(t) \in Nat /\ Behind(t) = Len(t) + 1
  BY Ends
<1> HIDE DEF n, m, e
<1>8. n \in Nat \ {0} /\ e \in Nat /\ m \in Nat
  BY <1>2, <1>3, <1>4
<1>9. c[n + 1] \notin Digits
  <2>1. CASE e = 0
    <3>1. (n + e) + 1 = n + 1 /\ 1 \in 1..2
      BY <1>8, <2>1
    <3>2. c[n + 1] = CR
      BY <1>4, <3>1, LineEnd
    <3> QED  BY <3>2, NoDigits
  <2>2. CASE e # 0
    <3>1. 1 \in 1..e
      BY <1>8, <2>2
    <3> QED  BY <1>3, <1>4, <2>2, <3>1
  <2> QED  BY <2>1, <2>2
<1>10. Stands(ds, t, p)
  <2>1. p + n <= Behind(t) /\ \A i \in 1..n : i \in 1..m
    BY <1>4, <1>5, <1>7, <1>8
  <2>2. \A i \in 1..n : t[(p + i) - 1] = ds[i]
    BY <1>4, <1>5, <2>1
  <2> QED  BY <1>5, <2>1, <2>2 DEF Stands, n
<1>11. t[p + n] \notin Digits
  <2>1. n + 1 \in 1..m /\ (p + (n + 1)) - 1 = p + n
    BY <1>4, <1>5, <1>8
  <2> QED  BY <1>5, <1>9, <2>1
<1>12. ChunkSize(t, p) = Len(d)
  <2>1. Value(t, p, 16) = NumberOf(16, ds)
    <3>1. Len(ds) > 0 /\ \A i \in 1..Len(ds) : ds[i] \in Digits
      BY <1>2, <1>8 DEF n
    <3>2. t[p + Len(ds)] \notin Digits
      BY <1>11 DEF n
    <3> QED  BY <1>2, <1>10, <3>1, <3>2, ValueIs
  <2> QED  BY <1>2, <2>1 DEF ChunkSize
<1> DEFINE k == (p + m) - 2
<1>13. k \in Nat \ {0} /\ k >= p /\ k + 1 = (p + m) - 1 /\ k + 1 <= Len(t)
       /\ m - 1 \in 1..m /\ m \in 1..m /\ (p + (m - 1)) - 1 = k
  BY <1>4, <1>5, <1>7, <1>8
<1>14. t[k] = CR /\ t[k + 1] = LF
  BY <1>5, <1>6, <1>13
<1>15. CR \in Word /\ LF \in Word
  BY DEF Word
<1>16. Stands(CRLF, t, k)
  <2> HIDE DEF k
  <2> QED  BY <1>13, <1>14, <1>15, PairIs DEF CRLF
<1>17. ASSUME NEW j \in Nat, j >= p, j < k PROVE ~Stands(CRLF, t, j)
  <2> DEFINE i == (j - p) + 1
  <2>1. i \in 1..(m - 2) /\ i \in 1..m /\ (p + i) - 1 = j
    BY <1>4, <1>5, <1>8, <1>17
  <2> HIDE DEF i
  <2>2. t[j] # CR
    BY <1>5, <1>6, <2>1
  <2> QED  BY <1>15, <2>2, PairIs DEF CRLF
<1> HIDE DEF k
<1>18. Find(CRLF, t, p) = k
  <2>1. CRLF \in Text /\ Len(CRLF) > 0
    BY LineEnd
  <2>2. p \in Nat \ {0} /\ k \in Nat /\ k >= p
    BY <1>5, <1>13
  <2> QED  BY <1>16, <1>17, <2>1, <2>2, FindFirst
<1> QED  BY <1>12, <1>18 DEF k, m

\* A chunk that came whole gives its data, and then what is behind it.
LEMMA ChunkRead ==
    ASSUME NEW t \in Text, NEW d \in Data, NEW c, HeadOf(c, d), NEW p,
           Stands(ChunkOf(c, d), t, p), NEW D
    PROVE  ChunkAt(D, t, p) = IF D[p + Len(ChunkOf(c, d))] = Outside THEN Outside
                              ELSE d \o D[p + Len(ChunkOf(c, d))]
<1> DEFINE m == Len(c)
           n == Len(d)
           x == Len(ChunkOf(c, d))
           i == ChunkSize(t, p)
           data == Find(CRLF, t, p) + Len(CRLF)
           after == data + i + Len(CRLF)
<1>1. /\ Stands(c, t, p) /\ Stands(d, t, p + m)
      /\ x = (m + n) + 2 /\ p \in Nat \ {0} /\ p + x <= Behind(t)
  BY ChunkStands
<1>2. i = n /\ Find(CRLF, t, p) = (p + m) - 2
  BY <1>1, ChunkHeadRead
<1>3. m \in Nat /\ n \in Nat \ {0} /\ d \in Text
  BY HeadWords, DataTexts, Ends
<1>4. Between(t, p + m, (p + m) + n) = d
  BY <1>1, <1>3, StandsBetween
<1>5. ChunkAt(D, t, p) = Turn(D, t, p, i, data, after)
  BY TurnIs, Zenon
<1>6. Behind(t) \in Nat
  BY Ends
<1> HIDE DEF i
<1>7. data = ((p + m) - 2) + 2 /\ after = (data + n) + 2
  BY <1>2, LineEnd
<1> HIDE DEF data, after, m, n, x
<1>8. data = p + m /\ after = p + x /\ after \in (p + 1)..Behind(t) /\ data # 2 /\ n # 0
  <2>1. m >= 3
    BY HeadWords DEF m
  <2> QED  BY <1>1, <1>3, <1>6, <1>7, <2>1
<1>9. Turn(D, t, p, i, data, after) = IF D[after] = Outside THEN Outside
                                      ELSE Between(t, data, data + n) \o D[after]
  <2>1. data # Len(CRLF)
    BY <1>8, LineEnd
  <2> QED  BY <1>2, <1>8, <2>1, Zenon DEF Turn
<1> QED  BY <1>4, <1>5, <1>8, <1>9, Zenon DEF x

\* One that did not gives nothing.
LEMMA ChunkCut ==
    ASSUME NEW b \in Text, NEW d \in Data, NEW c, HeadOf(c, d), NEW p,
           Stands(ChunkOf(c, d), b, p), NEW t, Opens(t, b),
           p <= Behind(t), Behind(t) < p + Len(ChunkOf(c, d)), NEW D
    PROVE  ChunkAt(D, t, p) \in {<<>>, Outside}
<1> DEFINE m == Len(c)
           n == Len(d)
           x == Len(ChunkOf(c, d))
           i == ChunkSize(t, p)
           data == Find(CRLF, t, p) + Len(CRLF)
           after == data + i + Len(CRLF)
<1>1. /\ Stands(c, b, p)
      /\ x = (m + n) + 2 /\ p \in Nat \ {0} /\ p + x <= Behind(b)
  BY ChunkStands
<1>2. m \in Nat /\ n \in Nat \ {0} /\ c \in Text /\ m >= 3
  BY HeadWords, DataTexts, Ends
<1>3. t \in Text /\ Len(t) \in Nat /\ Behind(t) = Len(t) + 1 /\ \A k \in 1..Len(t) : t[k] = b[k]
  BY Ends DEF Opens
<1>4. ChunkAt(D, t, p) = Turn(D, t, p, i, data, after)
  BY TurnIs, Zenon
<1>5. p + m <= Behind(b) /\ \A k \in 1..m : b[(p + k) - 1] = c[k]
  BY <1>1 DEF Stands
<1>6. /\ \A k \in 1..(m - 2) : c[k] \notin {CR, LF}
      /\ c[m - 1] = CR /\ c[m] = LF
  BY HeadWords
<1>7. CASE p + m <= Behind(t)
  <2>1. Stands(c, t, p)
    <3>1. \A k \in 1..m : (p + k) - 1 \in 1..Len(t)
      BY <1>1, <1>2, <1>3, <1>7
    <3>2. \A k \in 1..m : t[(p + k) - 1] = c[k]
      BY <1>3, <1>5, <3>1
    <3> QED  BY <1>1, <1>7, <3>2 DEF Stands
  <2>2. i = n /\ Find(CRLF, t, p) = (p + m) - 2
    BY <1>3, <2>1, ChunkHeadRead
  <2> HIDE DEF i
  <2>3. data = ((p + m) - 2) + 2 /\ after = (data + n) + 2
    BY <2>2, LineEnd
  <2> HIDE DEF data, after
  <2>4. after \notin (p + 1)..Behind(t)
    <3>1. after = p + x /\ Behind(t) < p + x
      BY <1>1, <1>2, <2>3
    <3> HIDE DEF x
    <3> QED  BY <1>3, <3>1
  <2>5. Turn(D, t, p, i, data, after) \in {<<>>, Outside}
    BY <2>4, Zenon DEF Turn
  <2> QED  BY <1>4, <2>5, Zenon
<1>8. CASE ~(p + m <= Behind(t))
  <2>1. \A k \in Nat : k >= p => ~Stands(CRLF, t, k)
    <3> SUFFICES ASSUME NEW k \in Nat, k >= p, Stands(CRLF, t, k) PROVE FALSE
      OBVIOUS
    <3>1. k # 0 /\ k + 1 <= Len(t) /\ t[k] = CR /\ t[k + 1] = LF
      <4>1. CR \in Word /\ LF \in Word
        BY DEF Word
      <4> QED  BY <1>3, <4>1, PairIs DEF CRLF
    <3> DEFINE j == (k - p) + 1
    <3>2. j \in 1..(m - 2) /\ j \in 1..m /\ (p + j) - 1 = k /\ k \in 1..Len(t)
      BY <1>1, <1>2, <1>3, <1>8, <3>1
    <3> HIDE DEF j
    <3>3. t[k] = c[j]
      BY <1>3, <1>5, <3>2
    <3> QED  BY <1>6, <3>1, <3>2, <3>3
  <2>2. CRLF \in Text /\ Len(CRLF) > 0
    BY LineEnd
  <2>3. Find(CRLF, t, p) = 0
    <3>1. p \in Nat \ {0}
      BY <1>1
    <3>2. \/ Find(CRLF, t, p) = 0
          \/ /\ Find(CRLF, t, p) \in Nat /\ Find(CRLF, t, p) >= p
             /\ Stands(CRLF, t, Find(CRLF, t, p))
      BY <1>3, <2>2, <3>1, FindIs
    <3> QED  BY <2>1, <3>2
  <2>4. data = Len(CRLF)
    BY <2>3, LineEnd
  <2> HIDE DEF data, after, i
  <2>5. Turn(D, t, p, i, data, after) \in {<<>>, Outside}
    BY <2>4, Zenon DEF Turn
  <2> QED  BY <1>4, <2>5, Zenon
<1> QED  BY <1>7, <1>8

\* The last chunk ends the body, and so does whatever there is of it.
LEMMA LastRead ==
    ASSUME NEW b \in Text, NEW p, Stands(LastChunk, b, p), NEW t, Opens(t, b),
           p <= Behind(t), NEW D
    PROVE  ChunkAt(D, t, p) = <<>>
<1>1. /\ p \in Nat \ {0} /\ p + 5 <= Behind(b)
      /\ \A k \in 1..5 : b[(p + k) - 1] = LastChunk[k]
  BY LastChunkIs DEF Stands
<1>2. t \in Text /\ Len(t) \in Nat /\ Behind(t) = Len(t) + 1 /\ \A k \in 1..Len(t) : t[k] = b[k]
  BY Ends DEF Opens
<1>3. b[p] = "0" /\ b[p + 1] = CR
  <2>1. (p + 1) - 1 = p /\ (p + 2) - 1 = p + 1 /\ 1 \in 1..5 /\ 2 \in 1..5
    BY <1>1
  <2> QED  BY <1>1, <2>1, LastChunkIs
<1>4. ChunkSize(t, p) = 0
  <2>1. CASE p = Behind(t)
    BY <1>2, <2>1, ValueNone DEF ChunkSize
  <2>2. CASE p # Behind(t)
    <3> DEFINE ds == <<"0">>
    <3>1. ds \in Text /\ Len(ds) = 1 /\ ds[1] = "0" /\ DOMAIN ds = 1..1
      BY WordsSent
    <3> HIDE DEF ds
    <3>2. "0" \in Digits /\ Number["0"] = 0
      BY DigitNumbers
    <3>3. \A j \in 1..Len(ds) : ds[j] \in Digits
      BY <3>1, <3>2
    <3>4. p \in 1..Len(t) /\ t[p] = "0"
      BY <1>1, <1>2, <1>3, <2>2
    <3>5. Stands(ds, t, p)
      <4>1. p + 1 <= Behind(t) /\ (p + 1) - 1 = p
        BY <1>1, <1>2, <3>4
      <4>2. \A j \in 1..1 : t[(p + j) - 1] = ds[j]
        BY <3>1, <3>4, <4>1
      <4> QED  BY <1>1, <3>1, <4>1, <4>2 DEF Stands
    <3>6. p + 1 = Behind(t) \/ t[p + 1] \notin Digits
      <4>1. p + 1 = Behind(t) \/ p + 1 \in 1..Len(t)
        BY <1>1, <1>2, <3>4
      <4>2. CR \notin Digits
        BY NoDigits
      <4> QED  BY <1>2, <1>3, <4>1, <4>2
    <3>7. Value(t, p, 16) = NumberOf(16, ds)
      <4>1. Len(ds) > 0 /\ ds \in Text
        BY <3>1
      <4>2. p + Len(ds) = Behind(t) \/ t[p + Len(ds)] \notin Digits
        BY <3>1, <3>6
      <4>3. t \in Text
        BY <1>2
      <4> QED  BY <3>3, <3>5, <4>1, <4>2, <4>3, ValueIs
    <3>8. NumberOf(16, ds) = 0
      <4>1. 16 \in Nat /\ Number["0"] \in Nat
        BY <3>2
      <4> QED  BY <3>1, <3>2, <4>1, OneDigit
    <3> QED  BY <3>7, <3>8 DEF ChunkSize
  <2> QED  BY <2>1, <2>2
<1> QED  BY <1>4, Zenon DEF ChunkAt

\* What stands in a text stands in a start of it that goes on so far.
LEMMA OpensStands ==
    ASSUME NEW b \in Text, NEW t, Opens(t, b), NEW w, Len(w) \in Nat, NEW p, Stands(w, b, p),
           p + Len(w) <= Behind(t)
    PROVE  Stands(w, t, p)
<1>1. t \in Text /\ Len(t) \in Nat /\ Behind(t) = Len(t) + 1 /\ \A k \in 1..Len(t) : t[k] = b[k]
  BY Ends DEF Opens
<1>2. p \in Nat \ {0} /\ \A i \in 1..Len(w) : b[(p + i) - 1] = w[i]
  BY DEF Stands
<1>3. ASSUME NEW i \in 1..Len(w) PROVE t[(p + i) - 1] = w[i]
  <2>1. (p + i) - 1 \in 1..Len(t)
    BY <1>1, <1>2
  <2> QED  BY <1>1, <1>2, <2>1
<1> QED  BY <1>2, <1>3 DEF Stands

\* x is what comes behind g in f, all of it if the text is whole, or undefined.
Yields(x, g, f, whole) ==
    \/ x = Outside /\ ~whole
    \/ /\ x \in Seq(STRING)
       /\ \E z \in Seq(STRING) : f = Joint(Joint(g, x), z) /\ (whole => z = <<>>)

LEMMA NoneOutside == ASSUME NEW x \in Seq(STRING) PROVE x # Outside
  BY OutsideConstant, Zenon

LEMMA YieldsNone ==
    ASSUME NEW g \in Seq(STRING), NEW z \in Seq(STRING), NEW f, f = g \o z,
           NEW whole, whole => z = <<>>
    PROVE  Yields(<<>>, g, f, whole)
<1>1. g \in Text
  BY DataTexts
<1>2. Joint(g, <<>>) = g
  BY <1>1, JointNone
<1>3. f = Joint(Joint(g, <<>>), z)
  BY <1>2, Zenon DEF Joint
<1>4. <<>> \in Seq(STRING)
  OBVIOUS
<1> QED  BY <1>3, <1>4, Zenon DEF Yields

LEMMA YieldsMore ==
    ASSUME NEW g \in Seq(STRING), NEW d \in Seq(STRING), NEW f, NEW whole,
           NEW y, Yields(y, Joint(g, d), f, whole)
    PROVE  Yields(IF y = Outside THEN Outside ELSE d \o y, g, f, whole)
<1>1. CASE y = Outside
  <2>1. ~whole
    <3> SUFFICES ASSUME y \in Seq(STRING) PROVE FALSE
      BY Zenon DEF Yields
    <3> QED  BY <1>1, NoneOutside
  <2> QED  BY <1>1, <2>1, Zenon DEF Yields
<1>2. CASE y # Outside
  <2>1. y \in Seq(STRING)
    BY <1>2, Zenon DEF Yields
  <2>2. PICK z \in Seq(STRING) : f = Joint(Joint(Joint(g, d), y), z) /\ (whole => z = <<>>)
    BY <1>2, Zenon DEF Yields
  <2>3. g \in Text /\ d \in Text /\ y \in Text
    BY <2>1, DataTexts
  <2>4. Joint(Joint(g, d), y) = Joint(g, Joint(d, y))
    BY <2>3, JointMore
  <2>5. d \o y = Joint(d, y)
    BY DEF Joint
  <2>6. d \o y \in Seq(STRING)
    BY <2>1, DataTexts, Zenon
  <2>7. f = Joint(Joint(g, d \o y), z)
    BY <2>2, <2>4, <2>5, Zenon
  <2> QED  BY <1>2, <2>2, <2>6, <2>7, Zenon DEF Yields
<1> QED  BY <1>1, <1>2

\* A chunked body, or what came of it, is put together right.
LEMMA ChunksRead ==
    ASSUME NEW b \in Text, NEW ps \in Seq(Data), InChunks("done", b, ps), NEW t, Opens(t, b)
    PROVE  Yields(Chunks(t), <<>>, FlattenSeq(ps), t = b)
<1> DEFINE n == Len(ps)
           D == Decoded(t)
           end == Behind(t)
<1>1. PICK cs : /\ Laying(cs, b, ps)
                /\ Stands(LastChunk, b, cs[n + 1])
  BY Zenon DEF InChunks
<1>2. PICK G : Sums(G, ps)
  BY SumsThere
<1>3. /\ n \in Nat /\ \A i \in 1..n : ps[i] \in Data /\ ps[i] \in Seq(STRING)
      /\ G \in [0..n -> Seq(STRING)] /\ G[0] = <<>> /\ \A i \in 1..n : G[i] = G[i - 1] \o ps[i]
  BY <1>2, DataTexts DEF Sums, SumsTo
<1>4. FlattenSeq(ps) = G[n]
  BY <1>2, FlattenIs
<1>5. \A i \in 0..n : GoesTo(G, i, n)
  BY <1>2, RestThere
<1>6. cs \in [1..(n + 1) -> Nat \ {0}] /\ cs[1] = 1
  BY <1>1 DEF Laying
<1>7. t \in Text /\ end \in Nat \ {0}
  BY Ends DEF Opens
<1>8. \A p \in 1..end : D[p] = ChunkAt(D, t, p)
  BY <1>7, DecodedThere DEF IsDecoded
<1> DEFINE Right(j) == cs[j + 1] <= end => Yields(D[cs[j + 1]], G[j], G[n], t = b)
           P == {k \in Nat : k <= n => Right(n - k)}
<1> HIDE DEF D, end
<1>9. 0 \in P
  <2> SUFFICES Right(n)
    BY <1>3
  <2> SUFFICES ASSUME cs[n + 1] <= end PROVE Yields(D[cs[n + 1]], G[n], G[n], t = b)
    OBVIOUS
  <2>1. cs[n + 1] \in Nat \ {0}
    BY <1>3, <1>6
  <2>2. ChunkAt(D, t, cs[n + 1]) = <<>>
    BY <1>1, LastRead DEF end
  <2>3. D[cs[n + 1]] = <<>>
    BY <1>7, <1>8, <2>1, <2>2
  <2>4. G[n] \in Seq(STRING) /\ <<>> \in Seq(STRING)
    BY <1>3
  <2>5. G[n] = G[n] \o <<>>
    BY <2>4, ConcatEmptySeq
  <2>6. Yields(<<>>, G[n], G[n], t = b)
    <3> DEFINE z == <<>>
    <3>1. z \in Seq(STRING) /\ G[n] = G[n] \o z /\ (t = b => z = <<>>)
      BY <2>4, <2>5
    <3> HIDE DEF z
    <3> QED  BY <2>4, <3>1, YieldsNone
  <2> QED  BY <2>3, <2>6, Zenon
<1>10. ASSUME NEW k \in P PROVE k + 1 \in P
  <2> SUFFICES ASSUME k + 1 <= n PROVE Right(n - (k + 1))
    OBVIOUS
  <2> DEFINE j == n - k
             d == ps[j]
             p == cs[j]
             q == cs[j + 1]
  <2>1. j \in 1..n /\ n - (k + 1) = j - 1 /\ j - 1 \in 0..n /\ (j - 1) + 1 = j /\ k <= n
        /\ j + 1 \in 1..(n + 1) /\ j \in 1..(n + 1)
    BY <1>3
  <2>2. Right(j)
    BY <2>1
  <2> HIDE DEF P
  <2> SUFFICES ASSUME p <= end PROVE Yields(D[p], G[j - 1], G[n], t = b)
    BY <2>1
  <2>3. d \in Data /\ d \in Seq(STRING) /\ G[j] = Joint(G[j - 1], d) /\ G[j - 1] \in Seq(STRING)
    BY <1>3, <2>1 DEF Joint
  <2>4. PICK c : HeadOf(c, d) /\ Stands(ChunkOf(c, d), b, p) /\ q = p + Len(ChunkOf(c, d))
    BY <1>1, <2>1 DEF Laying
  <2>5. p \in Nat \ {0} /\ p \in 1..end
    BY <1>6, <1>7, <2>1
  <2>6. q <= end => Yields(D[q], G[j], G[n], t = b)
    BY <2>2
  <2> HIDE DEF j, d, p, q, Right
  <2>7. Len(ChunkOf(c, d)) \in Nat
    BY <2>3, <2>4, ChunkText
  <2>8. q <= Behind(b)
    BY <2>4 DEF Stands
  <2>9. D[p] = ChunkAt(D, t, p)
    BY <1>8, <2>5
  <2>10. CASE q <= end
    <3>1. Stands(ChunkOf(c, d), t, p)
      BY <2>4, <2>7, <2>10, OpensStands DEF end
    <3>2. ChunkAt(D, t, p) = IF D[q] = Outside THEN Outside ELSE d \o D[q]
      <4>1. ChunkAt(D, t, p) = IF D[p + Len(ChunkOf(c, d))] = Outside THEN Outside
                               ELSE d \o D[p + Len(ChunkOf(c, d))]
        BY <1>7, <2>3, <2>4, <3>1, ChunkRead, ZenonT(40)
      <4> QED  BY <2>4, <4>1, Zenon
    <3>3. Yields(D[q], Joint(G[j - 1], d), G[n], t = b)
      BY <2>3, <2>6, <2>10, Zenon
    <3>4. Yields(IF D[q] = Outside THEN Outside ELSE d \o D[q], G[j - 1], G[n], t = b)
      <4> DEFINE y == D[q]
                 g == G[j - 1]
                 f == G[n]
                 whole == t = b
      <4>1. Yields(y, Joint(g, d), f, whole) /\ g \in Seq(STRING) /\ d \in Seq(STRING)
        BY <2>3, <3>3
      <4> HIDE DEF y, g, f, whole
      <4>2. Yields(IF y = Outside THEN Outside ELSE d \o y, g, f, whole)
        BY <4>1, YieldsMore
      <4> QED  BY <4>2 DEF y, g, f, whole
    <3> QED  BY <2>9, <3>2, <3>4, Zenon
  <2>11. CASE ~(q <= end)
    <3>1. end < q
      BY <1>7, <2>4, <2>5, <2>7, <2>11
    <3>2. ChunkAt(D, t, p) \in {<<>>, Outside}
      BY <2>3, <2>4, <3>1, ChunkCut DEF end
    <3>3. t # b
      BY <2>8, <2>11 DEF end
    <3>4. PICK z \in Seq(STRING) : G[n] = G[j - 1] \o z
      <4>1. GoesTo(G, j - 1, n)
        BY <1>5, <2>1
      <4> QED  BY <4>1, Zenon DEF GoesTo
    <3>5. Yields(<<>>, G[j - 1], G[n], t = b)
      BY <2>3, <3>3, <3>4, YieldsNone, Zenon
    <3>6. Yields(Outside, G[j - 1], G[n], t = b)
      BY <3>3, Zenon DEF Yields
    <3>7. D[p] = <<>> \/ D[p] = Outside
      BY <2>9, <3>2, Zenon
    <3> QED  BY <3>5, <3>6, <3>7, Zenon
  <2> QED  BY <2>10, <2>11
<1>11. P \in SUBSET Nat
  OBVIOUS
<1>12. Right(0)
  <2> HIDE DEF Right
  <2>1. n - n = 0 /\ n <= n
    BY <1>3
  <2> HIDE DEF P
  <2>2. n \in P
    BY <1>3, <1>9, <1>10, <1>11, Induction
  <2> QED  BY <2>1, <2>2 DEF P
<1>13. cs[0 + 1] = 1 /\ 1 <= end
  BY <1>6, <1>7
<1>14. Yields(D[1], <<>>, G[n], t = b)
  BY <1>3, <1>12, <1>13
<1>15. Chunks(t) = D[1]
  BY ChunksStart DEF D
<1> QED  BY <1>4, <1>14, <1>15, Zenon

-----------------------------------------------------------------------------
(* The answer.                                                             *)

\* What is behind the head is the body.
LEMMA AnswerIs ==
    ASSUME NEW h \in Text, NEW w \in Text, NEW fs, Headed(h, fs), Clean(w),
           NEW x, x = IF ChunkedIn(fs) THEN Chunks(w) ELSE w
    PROVE  Answer(Joint(h, w)) =
             IF x = Outside THEN Outside
             ELSE [kind |-> "answer", status |-> Status(Joint(h, w)), body |-> x,
                   table |-> Table(Joint(h, w))]
<1> DEFINE t == Joint(h, w)
<1>1. t \in Text /\ fs \in Seq(Sendable) /\ Begins(t)
  BY JoinedHead
<1>2. PICK st : /\ Course(st, t, fs)
                /\ Silent(t, st[Len(fs) + 1])
                /\ Stands(CRLF, t, st[Len(fs) + 1])
                /\ Behind(h) = st[Len(fs) + 1] + 2
  BY JoinedHead
<1>3. Stands(w, t, Behind(h)) /\ Behind(t) = Behind(h) + Len(w)
  BY JointStands
<1> DEFINE e == st[Len(fs) + 1]
           blank == Find(CRLF \o CRLF, t, 1)
<1> HIDE DEF t
<1>4. e \in Nat /\ e >= 5
  BY <1>1, <1>2, HeadOver
<1>5. blank = e - 2
  BY <1>1, <1>2, BlankFound
<1>6. Behind(h) = e + 2
  BY <1>2
<1> HIDE DEF e, blank
<1>7. blank # 0 /\ blank + 4 = Behind(h)
  BY <1>4, <1>5, <1>6
<1>8. Between(t, Behind(h), Behind(t)) = w
  BY <1>1, <1>3, StandsBetween
<1>9. Has(Coding, t) <=> ChunkedIn(fs)
  BY <1>1, <1>2, CodingFound
<1> DEFINE body == IF blank = 0 THEN Outside
                   ELSE IF Has(<<"Transfer-Encoding", ":", SP, "chunked">>, t)
                   THEN Chunks(Between(t, blank + 4, Behind(t)))
                   ELSE Plain(t, blank + 4)
<1>10. Answer(t) = IF body = Outside THEN Outside
                   ELSE [kind |-> "answer", status |-> Status(t), body |-> body,
                         table |-> Table(t)]
  BY Zenon DEF Answer, blank
<1>11. body = IF Has(Coding, t) THEN Chunks(w) ELSE w
  BY <1>7, <1>8, Zenon DEF Coding, Plain
<1>12. body = x
  BY <1>9, <1>11, Zenon
<1> HIDE DEF body
<1>13. Answer(t) = IF x = Outside THEN Outside
                   ELSE [kind |-> "answer", status |-> Status(t), body |-> x,
                         table |-> Table(t)]
  BY <1>10, <1>12, Zenon
<1> QED  BY <1>13 DEF t

\* An answer is made in one place.
LEMMA AnswerRead ==
    ASSUME NEW t, Read(t) # Outside, Read(t).kind = "answer"
    PROVE  Read(t) = Answer(t)
<1> DEFINE r == Read(t)
           at == Location(t)
           eol == Find(CRLF, t, at)
           to == [kind |-> "redirect", value |-> Between(t, Skip(t, at + 2, {SP}), eol)]
           s == Status(t)
<1>1. r = CASE s = -1 -> Failure
            [] s \in 300..308 /\ at # 0 -> IF eol = 0 THEN Failure ELSE to
            [] OTHER -> Answer(t)
  BY Zenon DEF Read
<1>2. Failure.kind = "error" /\ to.kind = "redirect"
  <2> HIDE DEF at, eol
  <2> QED  BY DEF Failure
<1> HIDE DEF r, at, eol, to, s
<1>3. r = Failure \/ r = to \/ r = Answer(t)
  BY <1>1
<1>4. "error" # "answer" /\ "redirect" # "answer"
  OBVIOUS
<1>5. r.kind = "answer"
  BY DEF r
<1>6. r = Answer(t)
  BY <1>2, <1>3, <1>4, <1>5
<1> QED  BY <1>6 DEF r

LEMMA CleanStart ==
    ASSUME NEW b \in Text, Clean(b), NEW w, Opens(w, b)
    PROVE  Clean(w)
<1>1. w \in Text /\ Len(w) \in Nat /\ Len(b) \in Nat /\ Len(w) <= Len(b)
      /\ \A i \in 1..Len(w) : w[i] = b[i]
  BY Ends DEF Opens
<1>2. \A k \in 1..(Len(b) - 1) : ~(b[k] \in Searched /\ b[k + 1] = ":")
  BY CleanIs
<1> SUFFICES ASSUME NEW k \in 1..(Len(w) - 1), w[k] \in Searched, w[k + 1] = ":" PROVE FALSE
  BY <1>1, CleanIs
<1>3. k \in 1..(Len(b) - 1) /\ k \in 1..Len(w) /\ k + 1 \in 1..Len(w)
  BY <1>1
<1> QED  BY <1>1, <1>2, <1>3

LEMMA OpensPrefix ==
    ASSUME NEW t \in Text, NEW v, Opens(v, t)
    PROVE  IsPrefix(v, t)
<1> DEFINE n == Len(v)
           a == SubSeq(v, 1, n)
           c == SubSeq(t, 1, n)
<1>1. v \in Text /\ n \in Nat /\ Len(t) \in Nat /\ n <= Len(t) /\ \A i \in 1..n : v[i] = t[i]
  BY Ends DEF Opens
<1>2. n \in 0..Len(v) /\ n \in 0..Len(t)
  BY <1>1
<1>3. Opens(a, v) /\ Len(a) = n
  BY <1>1, <1>2, StartIs
<1>4. Opens(c, t) /\ Len(c) = n
  BY <1>2, StartIs
<1> HIDE DEF a, c
<1>5. a \in Seq(Word) /\ c \in Seq(Word) /\ \A i \in 1..n : a[i] = c[i]
  <2>1. \A i \in 1..n : a[i] = v[i] /\ c[i] = t[i]
    BY <1>3, <1>4 DEF Opens
  <2> QED  BY <1>1, <1>3, <1>4, <2>1 DEF Opens, Text
<1>6. a = c
  BY <1>3, <1>4, <1>5, SeqEqual
<1> QED  BY <1>1, <1>6 DEF IsPrefix, a, c, n

\* What a chunked body yields is the start of it, and all of it from all of it.
LEMMA YieldsStart ==
    ASSUME NEW x, NEW f \in Text, NEW whole, Yields(x, <<>>, f, whole), x # Outside
    PROVE  x \in Seq(STRING) /\ IsPrefix(x, f) /\ (whole => x = f)
<1> DEFINE g == <<>>
<1>1. x \in Seq(STRING)
  BY Zenon DEF Yields
<1>2. PICK z \in Seq(STRING) : f = Joint(Joint(g, x), z) /\ (whole => z = <<>>)
  BY Zenon DEF Yields
<1>3. x \in Text /\ z \in Text
  BY <1>1, DataTexts
<1>4. Joint(g, x) = x
  BY <1>3, ConcatEmptySeq DEF Joint, Text
<1>5. f = Joint(x, z)
  BY <1>2, <1>4, Zenon
<1>6. Opens(x, f)
  <2>1. Len(f) = Len(x) + Len(z) /\ \A i \in 1..Len(x) : f[i] = x[i]
    BY <1>3, <1>5, Joins, ZenonT(40)
  <2>2. Len(x) \in Nat /\ Len(z) \in Nat
    BY <1>3, Ends
  <2>3. Len(x) <= Len(f)
    BY <2>1, <2>2
  <2> QED  BY <1>3, <2>1, <2>3 DEF Opens
<1>7. IsPrefix(x, f)
  BY <1>6, OpensPrefix
<1>8. whole => x = f
  BY <1>2, <1>3, <1>5, JointNone
<1> QED  BY <1>1, <1>7, <1>8

\* The response when it came whole.
LEMMA Whole ==
    ASSUME BodyInv, stage = "done", Innocent
    PROVE  /\ Body \in Seq(STRING) /\ Body \in Text
           /\ \E h, b \in Text : /\ text = Joint(h, b) /\ Headed(h, fields) /\ Clean(b)
                                 /\ ChunkedIn(fields) => InChunks("done", b, pieces)
                                 /\ ~ChunkedIn(fields) => b = Body
<1>1. pieces \in Seq(Data)
  BY DEF BodyInv, Bodies
<1>2. "done" \in {"body", "done"}
  OBVIOUS
<1>3. PICK h, b \in Text : /\ text = Joint(h, b) /\ Headed(h, fields)
                           /\ Sent("done", b, fields, pieces)
  BY <1>2, Zenon DEF BodyInv, Bodies
<1>4. Clean(b)
  <2>1. Clean(FlattenSeq(pieces))
    BY DEF Innocent, Body
  <2> QED  BY <1>1, <1>2, <1>3, <2>1, BodyClean
<1>5. Body \in Seq(STRING) /\ Body \in Text
  BY <1>1, FlattenText DEF Body
<1> QED  BY <1>3, <1>4, <1>5, Zenon DEF Sent, Body

LEMMA BodyPrefix == BodyInv => CutIsPrefix
<1> SUFFICES ASSUME BodyInv, stage = "done", Innocent, NEW n \in DOMAIN text,
                    Read(SubSeq(text, 1, n)) # Outside,
                    Read(SubSeq(text, 1, n)).kind = "answer"
             PROVE  IsPrefix(Read(SubSeq(text, 1, n)).body, Body)
  BY Zenon DEF CutIsPrefix
<1> DEFINE v == SubSeq(text, 1, n)
           r == Read(v)
<1>1. PICK h, b \in Text : /\ text = Joint(h, b) /\ Headed(h, fields) /\ Clean(b)
                           /\ ChunkedIn(fields) => InChunks("done", b, pieces)
                           /\ ~ChunkedIn(fields) => b = Body
  BY Whole
<1>2. Body \in Text /\ pieces \in Seq(Data) /\ text \in Text
  BY Whole DEF BodyInv, Bodies, HeadInv, Heads
<1>3. Opens(v, Joint(h, b))
  <2>1. n \in 0..Len(text)
    BY <1>2 DEF Text
  <2> QED  BY <1>1, <1>2, <2>1, StartIs
<1>4. r # Outside /\ r = Answer(v)
  BY AnswerRead
<1> HIDE DEF v
<1>5. v \in Text /\ Len(v) \in Nat /\ Len(h) \in Nat
  BY <1>3, Ends DEF Opens
<1>6. Len(v) >= Len(h)
  <2> SUFFICES ASSUME Len(v) < Len(h) PROVE FALSE
    BY <1>5
  <2>1. Find(CRLF \o CRLF, v, 1) = 0
    BY <1>1, <1>3, HeadCut
  <2>2. Answer(v) = Outside
    BY <2>1, Zenon DEF Answer
  <2> QED  BY <1>4, <2>2
<1>7. PICK w : Opens(w, b) /\ v = Joint(h, w) /\ (v = Joint(h, b) => w = b)
  BY <1>3, <1>6, HeadWhole
<1> DEFINE x == IF ChunkedIn(fields) THEN Chunks(w) ELSE w
<1>8. w \in Text /\ Clean(w)
  BY <1>1, <1>7, CleanStart DEF Opens
<1>9. Answer(v) = IF x = Outside THEN Outside
                  ELSE [kind |-> "answer", status |-> Status(v), body |-> x, table |-> Table(v)]
  <2> HIDE DEF x
  <2>1. x = IF ChunkedIn(fields) THEN Chunks(w) ELSE w
    BY DEF x
  <2> QED  BY <1>1, <1>7, <1>8, <2>1, AnswerIs
<1>10. x # Outside /\ r.body = x
  <2> HIDE DEF x, r
  <2>1. x # Outside
    BY <1>4, <1>9
  <2> QED  BY <1>4, <1>9, <2>1
<1>11. IsPrefix(x, Body)
  <2>1. CASE ChunkedIn(fields)
    <3>1. x = Chunks(w)
      BY <2>1
    <3>2. Yields(Chunks(w), <<>>, FlattenSeq(pieces), w = b)
      BY <1>1, <1>2, <1>7, <2>1, ChunksRead
    <3> DEFINE whole == w = b
    <3>3. Yields(x, <<>>, Body, whole)
      BY <3>1, <3>2, Zenon DEF Body
    <3> HIDE DEF x, whole
    <3> QED  BY <1>2, <1>10, <3>3, YieldsStart
  <2>2. CASE ~ChunkedIn(fields)
    <3>1. x = w /\ b = Body
      BY <1>1, <2>2
    <3>2. IsPrefix(w, b)
      BY <1>1, <1>7, OpensPrefix
    <3> QED  BY <3>1, <3>2, Zenon
  <2> QED  BY <2>1, <2>2
<1> QED  BY <1>10, <1>11, Zenon DEF r, v

\* The status that is read, whatever the word.
LEMMA StatusIs ==
    ASSUME NEW t, Begins(t)
    PROVE  /\ Status(t) \in Int /\ Status(t) # -1
           /\ Status(t) \in 300..308 => Status(t) = 301
<1>1. t # <<>> /\ t[1] = "HTTP/1.1"
  <2>1. Len(<<>>) = 0
    OBVIOUS
  <2> QED  BY <2>1 DEF Begins
<1>2. Status(t) = IF Len(t) > 1 /\ t[2] \in DOMAIN Number THEN Number[t[2]] ELSE 0
  BY <1>1, Zenon DEF Status
<1>3. \A w \in DOMAIN Number : Number[w] \in 0..5 \cup {200, 301}
  BY DEF Number, Digits
<1> QED  BY <1>2, <1>3, SMTT(30)

LEMMA NotRedirected ==
    ASSUME BodyInv, stage = "done", Innocent, ~Redirects
    PROVE  Read(text) = Answer(text)
<1>0. stage # "idle"
  OBVIOUS
<1>1. text \in Text /\ fields \in Seq(Sendable) /\ Begins(text)
  BY <1>0, Silence
<1>2. PICK st : Course(st, text, fields) /\ Silent(text, st[Len(fields) + 1])
  BY <1>0, Silence
<1> DEFINE s == Status(text)
           at == Location(text)
<1>3. s # -1 /\ (s \in 300..308 => s = 301)
  BY <1>1, StatusIs
<1>4. at # 0 => Misleading \/ \E i \in DOMAIN fields : "ref" \in DOMAIN fields[i]
  <2> SUFFICES ASSUME at # 0
               PROVE  Misleading \/ \E i \in DOMAIN fields : "ref" \in DOMAIN fields[i]
    OBVIOUS
  <2>1. PICK w \in {"Location", "location"} : Find(<<w, ":">>, text, 1) # 0
    BY Zenon DEF Location
  <2>2. Names(w) /\ w \in Word /\ ":" \in Word
    BY SearchedWords DEF Names, Searched
  <2> DEFINE z == <<w, ":">>
  <2>3. z \in Text /\ Len(z) > 0
    <3>1. z \in Text /\ Len(z) = 2
      BY <2>2, PairIs
    <3> QED  BY <3>1
  <2>4. \E k \in Nat : Stands(z, text, k)
    <3> HIDE DEF z
    <3>1. Has(z, text)
      BY <2>1 DEF Has, z
    <3> QED  BY <1>1, <2>3, <3>1, HasIs
  <2>5. PICK k \in Nat : Stands(<<w, ":">>, text, k)
    BY <2>4
  <2>6. Locates(fields, st, k, w)
    BY <1>1, <1>2, <2>2, <2>5, LocationWord, Zenon
  <2>7. DOMAIN fields = 1..Len(fields)
    BY <1>1
  <2> QED  BY <2>6, <2>7, Zenon DEF Locates, Misleading
<1>5. ~(s \in 300..308 /\ at # 0)
  BY <1>3, <1>4 DEF Redirects
<1> HIDE DEF s, at
<1> DEFINE eol == Find(CRLF, text, at)
           to == [kind |-> "redirect", value |-> Between(text, Skip(text, at + 2, {SP}), eol)]
<1>6. Read(text) = CASE s = -1 -> Failure
                     [] s \in 300..308 /\ at # 0 -> IF eol = 0 THEN Failure ELSE to
                     [] OTHER -> Answer(text)
  BY Zenon DEF Read, s, at
<1> HIDE DEF eol, to
<1> QED  BY <1>3, <1>5, <1>6, Zenon

LEMMA BodyWhole == BodyInv => BodyArrives
<1> SUFFICES ASSUME BodyInv, stage = "done", Innocent, ~Redirects
             PROVE  Read(text) # Outside /\ Read(text).kind = "answer" /\ Read(text).body = Body
  BY Zenon DEF BodyArrives
<1>1. PICK h, b \in Text : /\ text = Joint(h, b) /\ Headed(h, fields) /\ Clean(b)
                           /\ ChunkedIn(fields) => InChunks("done", b, pieces)
                           /\ ~ChunkedIn(fields) => b = Body
  BY Whole
<1>2. Body \in Seq(STRING) /\ Body \in Text /\ pieces \in Seq(Data)
  BY Whole DEF BodyInv, Bodies
<1> DEFINE x == IF ChunkedIn(fields) THEN Chunks(b) ELSE b
<1>3. Answer(text) = IF x = Outside THEN Outside
                     ELSE [kind |-> "answer", status |-> Status(text), body |-> x,
                           table |-> Table(text)]
  <2> HIDE DEF x
  <2>1. x = IF ChunkedIn(fields) THEN Chunks(b) ELSE b
    BY DEF x
  <2> QED  BY <1>1, <2>1, AnswerIs
<1>4. x = Body
  <2>1. CASE ChunkedIn(fields)
    <3>1. x = Chunks(b) /\ InChunks("done", b, pieces)
      BY <1>1, <2>1
    <3>2. Opens(b, b)
      BY Ends DEF Opens
    <3>3. Yields(Chunks(b), <<>>, FlattenSeq(pieces), b = b)
      BY <1>2, <3>1, <3>2, ChunksRead
    <3> DEFINE whole == b = b
    <3>4. whole /\ Yields(x, <<>>, Body, whole)
      BY <3>1, <3>3, Zenon DEF Body
    <3> HIDE DEF x, whole
    <3>5. x # Outside
      <4>1. x \in Seq(STRING)
        BY <3>4, Zenon DEF Yields
      <4> QED  BY <4>1, NoneOutside
    <3> QED  BY <1>2, <3>4, <3>5, YieldsStart
  <2>2. CASE ~ChunkedIn(fields)
    BY <1>1, <2>2
  <2> QED  BY <2>1, <2>2
<1>5. x # Outside
  <2> HIDE DEF x
  <2> QED  BY <1>2, <1>4, NoneOutside
<1>6. Answer(text) = [kind |-> "answer", status |-> Status(text), body |-> Body,
                      table |-> Table(text)]
  BY <1>3, <1>4, <1>5, Zenon
<1>7. stage # "idle" /\ text \in Text /\ fields \in Seq(Sendable) /\ Begins(text)
  BY DEF BodyInv, HeadInv, Heads
<1>8. Table(text) = TableFrom(fields, 0)
  <2>1. stage # "head"
    OBVIOUS
  <2>2. PICK st : Course(st, text, fields) /\ Over(text, st[Len(fields) + 1])
    BY <1>7, <2>1 DEF BodyInv, HeadInv, Heads, Over
  <2> QED  BY <1>7, <2>2, TableRead
<1>9. Status(text) \in Int
  BY <1>7, StatusIs
<1>10. Answer(text) # Outside
  <2>1. 0 \in Nat
    OBVIOUS
  <2>2. [kind |-> "answer", status |-> Status(text), body |-> Body,
         table |-> TableFrom(fields, 0)] # Outside
    BY <1>2, <1>7, <1>9, <2>1, NoOutside
  <2> QED  BY <1>6, <1>8, <2>2, Zenon
<1>11. Read(text) = Answer(text)
  BY NotRedirected
<1>12. Answer(text).kind = "answer" /\ Answer(text).body = Body
  BY <1>6
<1> QED  BY <1>10, <1>11, <1>12, Zenon

\* A response that came whole is an answer with the body the server sent, put
\* together from chunks whatever their sizes, data and extensions are.
THEOREM BodyReadRight == TextSpec => []BodyArrives
  BY InitBody, NextBody, BodyWhole, PTL DEF TextSpec

\* A connection that ends early, behind any word, gives the start of what was
\* sent or an error, where what the code does is defined: a size, a line end or
\* an extension that was cut in two is not taken for data.
THEOREM CutReadRight == TextSpec => []CutIsPrefix
  BY InitBody, NextBody, BodyPrefix, PTL DEF TextSpec
=============================================================================
