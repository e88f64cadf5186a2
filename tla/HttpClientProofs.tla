-------------------------- MODULE HttpClientProofs --------------------------
(***************************************************************************)
(* Proofs about HttpClient, for every number of calls and blocks and every *)
(* value of the limits.  What is shown of a single block comes first, one  *)
(* lemma per thing a handler does to it; the handlers follow.  A second    *)
(* invariant rests on the first: what goes out on a connection, what is    *)
(* made of a response with a hole, and how many connections a call makes.  *)
(***************************************************************************)
EXTENDS HttpClient, FiniteSetTheorems, TLAPS

-----------------------------------------------------------------------------
(* Types.                                                                  *)

\* A block of the right shape whose buffer has room for its terminator.
Block(q) == q \in ReqState /\ Len(q.buf) + 1 <= BufferMax

LEMMA BlankType == Block(Blank)
  BY HttpConstants DEF Block, Blank, ReqState, Memory, Links, Heads

LEMMA ReleasedType ==
  ASSUME NEW q, Block(q)
  PROVE  Block(Released(q))
  BY DEF Block, Released, ReqState, Memory

LEMMA ConnectingType ==
  ASSUME NEW q, Block(q), NEW out
  PROVE  Block(Connecting(q, out))
  BY DEF Block, Connecting, ReqState, Memory, Links

LEMMA OpenedType ==
  ASSUME NEW c \in Call, NEW h \in BOOLEAN, NEW p \in BOOLEAN,
         NEW k \in 0..FollowMax, NEW out \in Lookups
  PROVE  Block(Opened(c, h, p, k, out))
<1> DEFINE q == [Blank EXCEPT !.owner = c, !.mem = "live",
                              !.headers = h, !.post = p, !.follow = k]
<1>1. Block(q)
  BY BlankType, ZenonT(40) DEF Block, ReqState, Memory, Blank
<1>2. Block([q EXCEPT !.dns = TRUE])
  BY <1>1 DEF Block, ReqState
<1>3. Opened(c, h, p, k, out) \in {[q EXCEPT !.dns = TRUE], Connecting(q, out), Released(q)}
  BY DEF Opened, Lookups
<1> QED
  BY <1>1, <1>2, <1>3, ConnectingType, ReleasedType

LEMMA HeadSentType ==
  ASSUME NEW q, Block(q)
  PROVE  Block(HeadSent(q))
<1> DEFINE head == IF q.headers THEN "full" ELSE "bare"
<1>1. head \in Heads /\ q.post \in BOOLEAN
  BY DEF Block, ReqState, Heads
<1> HIDE DEF head
<1>2. Block([q EXCEPT !.link = "up", !.sending = TRUE, !.headers = FALSE,
                      !.header = head, !.length = q.post])
  BY <1>1 DEF Block, ReqState, Links
<1> QED
  BY <1>2 DEF HeadSent, head

LEMMA BodySentType ==
  ASSUME NEW q, Block(q)
  PROVE  Block(BodySent(q))
<1> DEFINE n == IF q.post THEN q.bodies + 1 ELSE q.bodies
<1>1. n \in Nat /\ q.post \in BOOLEAN
  BY DEF Block, ReqState
<1> HIDE DEF n
<1>2. Block([q EXCEPT !.sending = q.post, !.post = FALSE, !.bodies = n])
  BY <1>1 DEF Block, ReqState
<1> QED
  BY <1>2 DEF BodySent, n

LEMMA StoredType ==
  ASSUME NEW q, Block(q), q.got < MaxSeg, ~TooLong(q)
  PROVE  Block(Stored(q))
<1> DEFINE b == Append(q.buf, q.got + 1)
           g == q.got + 1
<1>1. b \in Seq(1..MaxSeg) /\ Len(b) + 1 <= BufferMax /\ g \in 0..MaxSeg
  BY HttpConstants DEF Block, ReqState, TooLong
<1> HIDE DEF b, g
<1>2. Block([q EXCEPT !.buf = b, !.got = g])
  BY <1>1 DEF Block, ReqState
<1> QED
  BY <1>2 DEF Stored, b, g

LEMMA DiscardedType ==
  ASSUME NEW q, Block(q), q.got < MaxSeg
  PROVE  Block(Discarded(q))
<1> DEFINE z == (q.zap \/ q.buf # <<>>)
           g == q.got + 1
<1>1. z \in BOOLEAN /\ g \in 0..MaxSeg
  BY HttpConstants DEF Block, ReqState
<1> HIDE DEF z, g
<1>2. Block([q EXCEPT !.zap = z, !.got = g, !.lost = TRUE, !.link = "closing"])
  BY <1>1 DEF Block, ReqState, Links
<1> QED
  BY <1>2 DEF Discarded, z, g

LEMMA SdkType ==
  ASSUME NEW q, Block(q), NEW result
  PROVE  Block(Ended(q)) /\ Block(Disconnected(q, result))
  BY DEF Block, Ended, Disconnected, ReqState, Links

\* A block is replaced by one of the right shape, and the rest has its type.
Rest ==
    /\ calls \in [Call -> Nat]
    /\ status \in [Call -> {"none", "ok", "error"}]
    /\ started \subseteq Call
    /\ rejected \subseteq Call

LEMMA TypedBlocks ==
  TypeOK <=> /\ req = [r \in Req |-> req[r]]
             /\ \A r \in Req : Block(req[r])
             /\ Rest
  BY DEF TypeOK, Block, Rest

LEMMA Replaced ==
  ASSUME TypeOK, Rest', NEW r \in Req, NEW b, Block(b),
         req' = [req EXCEPT ![r] = b]
  PROVE  TypeOK'
<1>1. req \in [Req -> ReqState] /\ \A x \in Req : Block(req[x])
  BY DEF TypeOK, Block
<1>2. req' \in [Req -> ReqState]
  BY <1>1 DEF Block
<1>3. \A x \in Req : Len(req'[x].buf) + 1 <= BufferMax
  BY <1>1 DEF Block
<1> QED
  BY <1>2, <1>3 DEF TypeOK, Rest

LEMMA AnswerType ==
  ASSUME TypeOK, NEW c \in Call, NEW s \in {"ok", "error"}, Answer(c, s)
  PROVE  /\ calls' \in [Call -> Nat]
         /\ status' \in [Call -> {"none", "ok", "error"}]
<1>1. calls \in [Call -> Nat] /\ status \in [Call -> {"none", "ok", "error"}]
  BY DEF TypeOK
<1> QED
  BY <1>1 DEF Answer

LEMMA LaunchType ==
  ASSUME TypeOK, NEW released \in [Req -> ReqState],
         \A x \in Req : Block(released[x]),
         NEW n \in Req, NEW c \in Call, NEW h \in BOOLEAN, NEW p \in BOOLEAN,
         NEW k \in 0..FollowMax, NEW out \in Lookups,
         Launch(released, n, c, h, p, k, out),
         started' \subseteq Call, UNCHANGED rejected
  PROVE  TypeOK'
<1>1. Block(Opened(c, h, p, k, out))
  BY OpenedType
<1>2. req' \in [Req -> ReqState] /\ \A x \in Req : Len(req'[x].buf) + 1 <= BufferMax
  BY <1>1 DEF Launch, Block
<1>3. calls' \in [Call -> Nat] /\ status' \in [Call -> {"none", "ok", "error"}]
  <2>1. CASE out = "noname"
    BY <2>1, AnswerType DEF Launch
  <2>2. CASE out # "noname"
    BY <2>2 DEF Launch, TypeOK
  <2> QED
    BY <2>1, <2>2
<1> QED
  BY <1>2, <1>3 DEF TypeOK

LEMMA FinishType ==
  ASSUME TypeOK, NEW r \in Req, NEW q, Block(q), q.owner \in Call, Finish(r, q)
  PROVE  TypeOK'
<1> DEFINE released == [req EXCEPT ![r] = Released(q)]
<1>1. Block(Released(q))
  BY ReleasedType
<1>2. released \in [Req -> ReqState] /\ \A x \in Req : Block(released[x])
  <2>1. req \in [Req -> ReqState] /\ \A x \in Req : Block(req[x])
    BY DEF TypeOK, Block
  <2> QED
    BY <1>1, <2>1 DEF Block
<1> HIDE DEF released
<1>3. started' \subseteq Call
  BY DEF Finish, TypeOK
<1>4. CASE /\ req' = released
           /\ \E s \in Statuses(q) : Answer(q.owner, s)
           /\ UNCHANGED rejected
  BY <1>2, <1>3, <1>4, AnswerType DEF TypeOK, Block, Statuses
<1>5. CASE /\ MayFollow(q)
           /\ \E n \in Fresh, out \in Lookups :
                 Launch(released, n, q.owner, q.headers, q.post, q.follow + 1, out)
           /\ UNCHANGED rejected
  <2>1. PICK n \in Fresh, out \in Lookups :
            Launch(released, n, q.owner, q.headers, q.post, q.follow + 1, out)
    BY <1>5
  <2>2. n \in Req
    BY DEF Fresh
  <2>3. q.headers \in BOOLEAN /\ q.post \in BOOLEAN /\ q.follow + 1 \in 0..FollowMax
    BY <1>5, HttpConstants DEF Block, ReqState, MayFollow
  <2>4. q.owner \in Call
    OBVIOUS
  <2> QED
    BY <1>2, <1>3, <1>5, <2>1, <2>2, <2>3, LaunchType
<1>6. CASE /\ MayFollow(q)
           /\ req' = released
           /\ rejected' = rejected \cup {q.owner}
           /\ UNCHANGED <<calls, status>>
  BY <1>2, <1>3, <1>6 DEF TypeOK, Block
<1> QED
  BY <1>4, <1>5, <1>6 DEF Finish, released

-----------------------------------------------------------------------------
(* The inductive invariant: of one block, and of the blocks of one call.   *)

\* What refers to a block agrees with whether it is allocated.  A block has
\* either a lookup or an espconn; the latter is woken up by the timer or by a
\* link that closes; data is only on its way on a link that was made.
Sound(q) ==
    /\ q.mem = "none" => q.owner = NoCall
    /\ q.mem # "none" => q.owner \in Call
    /\ q.mem # "live" => /\ ~q.dns /\ ~q.timer /\ ~q.sending
                         /\ q.link = "none" /\ q.conn # "live"
    /\ q.mem = "live" /\ q.dns => ~q.timer /\ ~q.sending /\ q.link = "none"
    /\ q.mem = "live" /\ ~q.dns => q.conn = "live" /\ (q.timer \/ q.link = "closing")
    /\ q.sending => q.link \in {"up", "closing"}

\* The callback of a call was run, or its URL was refused.
Settled(c) == calls[c] = 1 \/ c \in rejected

\* A call not settled has one live block, a settled one has none.
Tracked(c) ==
    /\ calls[c] \in {0, 1}
    /\ ~(calls[c] = 1 /\ c \in rejected)
    /\ Settled(c) => c \in started /\ Live(c) = {}
    /\ c \in started /\ ~Settled(c) => \E r \in Req : Live(c) = {r}
    /\ c \notin started => \A r \in Req : req[r].owner # c

IInv ==
    /\ TypeOK
    /\ \A r \in Req : Sound(req[r])
    /\ \A c \in Call : Tracked(c)

-----------------------------------------------------------------------------
(* What the handlers do keeps a block sound.                               *)

\* Nothing refers to the block but the handler that is running.
Quiet(q) == ~q.dns /\ ~q.sending /\ q.link = "none"

LEMMA BlankSound == Sound(Blank)
  BY DEF Sound, Blank

LEMMA ReleasedSound ==
  ASSUME NEW q, Block(q), q.owner \in Call, Quiet(q)
  PROVE  /\ Sound(Released(q))
         /\ Released(q).owner = q.owner
         /\ Released(q).mem = "freed"
  BY DEF Block, ReqState, Memory, Sound, Released, Quiet

LEMMA ConnectingSound ==
  ASSUME NEW q, Block(q), q.owner \in Call, q.mem = "live", ~q.sending,
         NEW out
  PROVE  /\ Sound(Connecting(q, out))
         /\ Connecting(q, out).owner = q.owner
         /\ Connecting(q, out).mem = "live"
  BY DEF Block, ReqState, Sound, Connecting

LEMMA OpenedSound ==
  ASSUME NEW c \in Call, NEW h \in BOOLEAN, NEW p \in BOOLEAN,
         NEW k \in 0..FollowMax, NEW out \in Lookups
  PROVE  /\ Sound(Opened(c, h, p, k, out))
         /\ Opened(c, h, p, k, out).owner = c
         /\ Opened(c, h, p, k, out).mem = IF out = "noname" THEN "freed" ELSE "live"
<1> DEFINE q == [Blank EXCEPT !.owner = c, !.mem = "live",
                              !.headers = h, !.post = p, !.follow = k]
<1>1. /\ Block(q) /\ q.owner = c /\ q.mem = "live" /\ Quiet(q)
      /\ ~q.timer /\ q.conn = "none"
  BY BlankType, ZenonT(40) DEF Block, ReqState, Memory, Blank, Quiet
<1>2. CASE out = "pending"
  <2>1. Opened(c, h, p, k, out) = [q EXCEPT !.dns = TRUE]
    BY <1>2 DEF Opened
  <2>2. /\ Sound([q EXCEPT !.dns = TRUE])
        /\ [q EXCEPT !.dns = TRUE].owner = c
        /\ [q EXCEPT !.dns = TRUE].mem = "live"
    BY <1>1 DEF Sound, Block, ReqState, Quiet
  <2> QED
    BY <1>2, <2>1, <2>2
<1>3. CASE out \in {"connecting", "refused"}
  <2>1. Opened(c, h, p, k, out) = Connecting(q, out)
    BY <1>3 DEF Opened
  <2> QED
    BY <1>1, <1>3, <2>1, ConnectingSound, ZenonT(40) DEF Quiet
<1>4. CASE out = "noname"
  <2>1. Opened(c, h, p, k, out) = Released(q)
    BY <1>4 DEF Opened
  <2> QED
    BY <1>1, <1>4, <2>1, ReleasedSound
<1> QED
  BY <1>2, <1>3, <1>4 DEF Lookups

\* A handler that keeps the block: it stays allocated, for the same call.
Kept(q, b) == Block(b) /\ Sound(b) /\ b.owner = q.owner /\ b.mem = q.mem

LEMMA HeadSentStays ==
  ASSUME NEW q, Block(q), Sound(q), q.link = "connecting"
  PROVE  Kept(q, HeadSent(q))
<1>1. Sound(HeadSent(q)) /\ HeadSent(q).owner = q.owner /\ HeadSent(q).mem = q.mem
  BY DEF Block, ReqState, Memory, Sound, HeadSent
<1> QED
  BY <1>1, HeadSentType DEF Kept

LEMMA BodySentStays ==
  ASSUME NEW q, Block(q), Sound(q), q.sending
  PROVE  Kept(q, BodySent(q))
<1>1. Sound(BodySent(q)) /\ BodySent(q).owner = q.owner /\ BodySent(q).mem = q.mem
  BY DEF Block, ReqState, Memory, Sound, BodySent
<1> QED
  BY <1>1, BodySentType DEF Kept

LEMMA StoredStays ==
  ASSUME NEW q, Block(q), Sound(q), q.got < MaxSeg, ~TooLong(q)
  PROVE  Kept(q, Stored(q))
<1>1. Sound(Stored(q)) /\ Stored(q).owner = q.owner /\ Stored(q).mem = q.mem
  BY DEF Block, ReqState, Memory, Sound, Stored
<1> QED
  BY <1>1, StoredType DEF Kept

LEMMA DiscardedStays ==
  ASSUME NEW q, Block(q), Sound(q), q.got < MaxSeg, q.link \in {"up", "closing"}
  PROVE  Kept(q, Discarded(q))
<1>1. /\ Sound(Discarded(q))
      /\ Discarded(q).owner = q.owner /\ Discarded(q).mem = q.mem
  BY DEF Block, ReqState, Memory, Sound, Discarded
<1> QED
  BY <1>1, DiscardedType DEF Kept

\* The timer fires and the SDK will report the end of the connection.
LEMMA TimerWaits ==
  ASSUME NEW q, Block(q), Sound(q), q.timer,
         NEW result \in Results([q EXCEPT !.timer = FALSE]), Awaits(result)
  PROVE  Kept(q, Disconnected([q EXCEPT !.timer = FALSE], result))
<1> DEFINE t == [q EXCEPT !.timer = FALSE]
           b == [t EXCEPT !.link = "closing"]
<1>1. Block(t) /\ t.link = q.link
  BY DEF Block, ReqState
<1>2. q.link # "none"
  BY <1>1 DEF Results, Awaits
<1>3. Disconnected(t, result) = b
  BY DEF Disconnected, Awaits
<1>4. Sound(b) /\ b.owner = q.owner /\ b.mem = q.mem
  BY <1>2 DEF Block, ReqState, Memory, Sound
<1>5. Block(b)
  BY <1>1, <1>3, SdkType
<1> QED
  BY <1>3, <1>4, <1>5 DEF Kept

\* Nothing will be reported any more: the handler goes on with a quiet block.
LEMMA OverQuiet ==
  ASSUME NEW q, Block(q), Sound(q), q.mem = "live", ~q.dns, NEW t,
         t = Ended(q) \/ t = [q EXCEPT !.timer = FALSE],
         NEW result \in Results(t), ~Awaits(result)
  PROVE  LET d == Disconnected(t, result)
         IN  /\ Block(d) /\ Quiet(d)
             /\ d.owner = q.owner /\ d.mem = "live" /\ d.owner \in Call
<1>1. Block(t) /\ t.owner = q.owner /\ t.mem = "live" /\ ~t.dns
  <2>1. CASE t = Ended(q)
    <3>1. Block(Ended(q))
      BY SdkType
    <3> QED
      BY <2>1, <3>1 DEF Ended, Block, ReqState
  <2>2. CASE t = [q EXCEPT !.timer = FALSE]
    BY <2>2 DEF Block, ReqState
  <2> QED
    BY <2>1, <2>2
<1>2. result = "ESPCONN_ARG"
  BY <1>1 DEF Results, Awaits, Block, ReqState, Links
<1>3. Disconnected(t, result) = Ended(t)
  BY <1>2 DEF Disconnected
<1>4. /\ Quiet(Ended(t))
      /\ Ended(t).owner = q.owner /\ Ended(t).mem = "live"
  BY <1>1 DEF Quiet, Ended, Block, ReqState
<1> QED
  BY <1>1, <1>3, <1>4, SdkType DEF Sound

\* An error or disconnect report awaits nothing more.
LEMMA EndedAwaitsNothing ==
  ASSUME NEW q, Block(q), NEW result \in Results(Ended(q))
  PROVE  ~Awaits(result)
<1>1. Ended(q).link = "none"
  BY DEF Ended, Block, ReqState
<1> QED
  BY <1>1 DEF Results, Awaits

-----------------------------------------------------------------------------
(* What the handlers do keeps track of every call.                         *)

LEMMA TrackedSame ==
  ASSUME NEW d \in Call, Tracked(d), calls'[d] = calls[d],
         d \in rejected' <=> d \in rejected,
         d \in started' <=> d \in started,
         \A x \in Req : req'[x].owner = d <=> req[x].owner = d,
         \A x \in Req : req[x].owner = d =>
             (req'[x].mem = "live" <=> req[x].mem = "live")
  PROVE  Tracked(d)'
<1>1. Live(d)' = Live(d)
  BY DEF Live
<1>2. Settled(d)' <=> Settled(d)
  BY DEF Settled
<1> QED
  BY <1>1, <1>2 DEF Tracked

\* The handler keeps the block it works on.
LEMMA KeepStep ==
  ASSUME IInv, NEW r \in Req, NEW b, Kept(req[r], b),
         req' = [req EXCEPT ![r] = b],
         UNCHANGED <<calls, status, started, rejected>>
  PROVE  IInv'
<1>1. Rest'
  BY DEF IInv, TypeOK, Rest
<1>2. TypeOK'
  BY <1>1, Replaced DEF IInv, Kept
<1>3. DOMAIN req = Req
  BY DEF IInv, TypeOK
<1>4. \A x \in Req : Sound(req'[x])
  BY <1>3 DEF IInv, Kept
<1>5. \A d \in Call : Tracked(d)'
  <2> TAKE d \in Call
  <2>1. \A x \in Req : req'[x].owner = req[x].owner /\ req'[x].mem = req[x].mem
    BY <1>3 DEF Kept
  <2> QED
    BY <2>1, TrackedSame DEF IInv
<1> QED
  BY <1>2, <1>4, <1>5 DEF IInv

\* The block a handler works on is the only one left of its call.
LEMMA OneLive ==
  ASSUME IInv, NEW r \in Req, req[r].mem = "live"
  PROVE  /\ req[r].owner \in Call
         /\ req[r].owner \in started
         /\ calls[req[r].owner] = 0
         /\ req[r].owner \notin rejected
         /\ Live(req[r].owner) = {r}
<1>1. req[r].owner \in Call
  BY DEF IInv, Sound
<1>2. r \in Live(req[r].owner)
  BY DEF Live
<1>3. Tracked(req[r].owner)
  BY <1>1 DEF IInv
<1> QED
  BY <1>1, <1>2, <1>3 DEF Tracked, Settled

\* The handler frees its block, and the call is answered or given up.
LEMMA CloseStep ==
  ASSUME IInv, NEW r \in Req, req[r].mem = "live", NEW b, Block(b), Sound(b),
         b.owner = req[r].owner, b.mem = "freed",
         req' = [req EXCEPT ![r] = b], UNCHANGED started, Rest',
         \/ /\ calls' = [calls EXCEPT ![req[r].owner] = @ + 1]
            /\ UNCHANGED rejected
         \/ /\ rejected' = rejected \cup {req[r].owner}
            /\ UNCHANGED calls
  PROVE  IInv'
<1> DEFINE c == req[r].owner
<1>1. c \in Call /\ c \in started /\ calls[c] = 0 /\ c \notin rejected /\ Live(c) = {r}
  BY OneLive
<1>2. DOMAIN req = Req /\ DOMAIN calls = Call
  BY DEF IInv, TypeOK
<1>3. TypeOK'
  BY Replaced DEF IInv
<1>4. \A x \in Req : Sound(req'[x])
  BY <1>2 DEF IInv
<1>5. ASSUME NEW d \in Call PROVE Tracked(d)'
  <2>1. CASE d = c
    <3>1. Live(c)' = {}
      <4> SUFFICES ASSUME NEW x \in Req, req'[x].mem = "live", req'[x].owner = c
                   PROVE  FALSE
        BY DEF Live
      <4>1. CASE x = r
        BY <1>2, <4>1
      <4>2. CASE x # r
        <5>1. req'[x] = req[x]
          BY <1>2, <4>2
        <5>2. x \in Live(c)
          BY <5>1 DEF Live
        <5> QED
          BY <1>1, <4>2, <5>2
      <4> QED
        BY <4>1, <4>2
    <3>2. \/ calls'[c] = 1 /\ c \notin rejected'
          \/ calls'[c] = 0 /\ c \in rejected'
      BY <1>1, <1>2
    <3> QED
      BY <1>1, <2>1, <3>1, <3>2 DEF Tracked, Settled
  <2>2. CASE d # c
    <3>1. calls'[d] = calls[d] /\ (d \in rejected' <=> d \in rejected)
      BY <1>2, <2>2
    <3>2. \A x \in Req : req'[x].owner = d <=> req[x].owner = d
      BY <1>2, <2>2
    <3>3. \A x \in Req : req[x].owner = d => req'[x] = req[x]
      BY <1>2, <2>2
    <3> QED
      BY <3>1, <3>2, <3>3, TrackedSame DEF IInv
  <2> QED
    BY <2>1, <2>2
<1> QED
  BY <1>3, <1>4, <1>5 DEF IInv

\* A new block is opened for a call that has no live one: at its start, or
\* when the block it had was just released for a redirection.
LEMMA LaunchStep ==
  ASSUME IInv, TypeOK',
         NEW released \in [Req -> ReqState], NEW n \in Req, NEW c \in Call,
         NEW h \in BOOLEAN, NEW p \in BOOLEAN, NEW k \in 0..FollowMax,
         NEW out \in Lookups,
         Launch(released, n, c, h, p, k, out),
         req[n].mem = "none",
         \A x \in Req : Sound(released[x]) /\ released[x].owner = req[x].owner,
         \A x \in Req : req[x].owner # c => released[x] = req[x],
         \A x \in Req : req[x].owner = c => released[x].mem # "live",
         calls[c] = 0, c \notin rejected,
         started' = started \cup {c}, UNCHANGED rejected
  PROVE  IInv'
<1> DEFINE o == Opened(c, h, p, k, out)
<1>1. /\ Sound(o) /\ o.owner = c
      /\ o.mem = IF out = "noname" THEN "freed" ELSE "live"
  BY OpenedSound
<1> HIDE DEF o
<1>2. req' = [released EXCEPT ![n] = o] /\ DOMAIN released = Req
  BY DEF Launch, o
<1>3. req[n].owner = NoCall
  BY DEF IInv, Sound
<1>4. \A x \in Req : Sound(req'[x])
  BY <1>1, <1>2
<1>5. calls \in [Call -> Nat]
  BY DEF IInv, TypeOK
<1>6. \/ out = "noname" /\ calls' = [calls EXCEPT ![c] = @ + 1]
      \/ out # "noname" /\ calls' = calls
  BY DEF Launch, Answer
<1>7. ASSUME NEW d \in Call PROVE Tracked(d)'
  <2>1. CASE d = c
    <3>1. CASE out = "noname"
      <4>1. Live(c)' = {}
        BY <1>1, <1>2, <3>1 DEF Live
      <4>2. calls'[c] = 1 /\ c \notin rejected' /\ c \in started'
        BY <1>5, <1>6, <3>1
      <4> QED
        BY <2>1, <4>1, <4>2 DEF Tracked, Settled
    <3>2. CASE out # "noname"
      <4>1. Live(c)' = {n}
        BY <1>1, <1>2, <3>2 DEF Live
      <4>2. calls'[c] = 0 /\ c \notin rejected' /\ c \in started'
        BY <1>5, <1>6, <3>2
      <4> QED
        BY <2>1, <4>1, <4>2 DEF Tracked, Settled
    <3> QED
      BY <3>1, <3>2
  <2>2. CASE d # c
    <3>1. calls'[d] = calls[d]
      BY <1>5, <1>6, <2>2
    <3>2. \A x \in Req : req'[x].owner = d <=> req[x].owner = d
      BY <1>1, <1>2, <1>3, <2>2, HttpConstants
    <3>3. \A x \in Req : req[x].owner = d => req'[x] = req[x]
      BY <1>2, <1>3, <2>2, HttpConstants
    <3>4. (d \in started' <=> d \in started) /\ (d \in rejected' <=> d \in rejected)
      BY <2>2
    <3> QED
      BY <3>1, <3>2, <3>3, <3>4, TrackedSame DEF IInv
  <2> QED
    BY <2>1, <2>2
<1> QED
  BY <1>4, <1>7 DEF IInv

\* http_disconnect_callback, from wherever it is called.
LEMMA FinishStep ==
  ASSUME IInv, NEW r \in Req, req[r].mem = "live", NEW q, Block(q), Quiet(q),
         q.owner = req[r].owner, Finish(r, q)
  PROVE  IInv'
<1> DEFINE released == [req EXCEPT ![r] = Released(q)]
           c == req[r].owner
<1>1. /\ c \in Call /\ c \in started /\ calls[c] = 0 /\ c \notin rejected
      /\ Live(c) = {r}
  BY OneLive
<1>2. TypeOK'
  BY <1>1, FinishType DEF IInv
<1>3. Rest'
  BY <1>2 DEF TypeOK, Rest
<1>4. /\ Block(Released(q)) /\ Sound(Released(q))
      /\ Released(q).owner = c /\ Released(q).mem = "freed"
  BY <1>1, ReleasedSound, ReleasedType
<1>5. req \in [Req -> ReqState] /\ UNCHANGED started
  BY DEF IInv, TypeOK, Finish
<1>6. released \in [Req -> ReqState]
  BY <1>4, <1>5 DEF Block
<1>7. CASE /\ req' = released
           /\ \E s \in Statuses(q) : Answer(q.owner, s)
           /\ UNCHANGED rejected
  <2>1. calls' = [calls EXCEPT ![c] = @ + 1]
    BY <1>7 DEF Answer
  <2> QED
    BY <1>3, <1>4, <1>5, <1>7, <2>1, CloseStep
<1>8. CASE /\ MayFollow(q)
           /\ \E n \in Fresh, out \in Lookups :
                 Launch(released, n, q.owner, q.headers, q.post, q.follow + 1, out)
           /\ UNCHANGED rejected
  <2>1. PICK n \in Fresh, out \in Lookups :
            Launch(released, n, c, q.headers, q.post, q.follow + 1, out)
    BY <1>8
  <2>2. n \in Req /\ req[n].mem = "none"
    BY DEF Fresh
  <2>3. q.headers \in BOOLEAN /\ q.post \in BOOLEAN /\ q.follow + 1 \in 0..FollowMax
    BY <1>8, HttpConstants DEF Block, ReqState, MayFollow
  <2>4. \A x \in Req : Sound(released[x]) /\ released[x].owner = req[x].owner
    BY <1>4, <1>5 DEF IInv
  <2>5. \A x \in Req : req[x].owner # c => released[x] = req[x]
    BY <1>5
  <2>6. \A x \in Req : req[x].owner = c => released[x].mem # "live"
    BY <1>1, <1>4, <1>5 DEF Live
  <2>7. started' = started \cup {c}
    BY <1>1, <1>5
  <2> HIDE DEF released, c
  <2> QED
    BY <1>1, <1>2, <1>6, <1>8, <2>1, <2>2, <2>3, <2>4, <2>5, <2>6, <2>7, LaunchStep
<1>9. CASE /\ MayFollow(q)
           /\ req' = released
           /\ rejected' = rejected \cup {q.owner}
           /\ UNCHANGED <<calls, status>>
  BY <1>3, <1>4, <1>5, <1>9, CloseStep
<1> QED
  BY <1>7, <1>8, <1>9 DEF Finish

-----------------------------------------------------------------------------
(* The invariant: it holds at first and every handler keeps it.            *)

LEMMA InitIInv == Init => IInv
<1> SUFFICES ASSUME Init PROVE IInv
  OBVIOUS
<1>1. \A r \in Req : Block(req[r]) /\ Sound(req[r])
  BY BlankType, BlankSound DEF Init
<1>2. TypeOK
  BY <1>1, TypedBlocks DEF Init, Rest
<1>3. \A c \in Call : Tracked(c)
  BY HttpConstants DEF Init, Tracked, Settled, Live, Blank
<1> QED
  BY <1>1, <1>2, <1>3 DEF IInv

LEMMA HttpRequestStep ==
  ASSUME IInv, NEW c \in Call, HttpRequest(c)
  PROVE  IInv'
<1>1. /\ c \notin started /\ calls[c] = 0 /\ c \notin rejected
      /\ \A x \in Req : req[x].owner # c
  BY DEF HttpRequest, IInv, Tracked, Settled
<1>2. TypeOK /\ started' = started \cup {c} /\ started' \subseteq Call
  BY DEF HttpRequest, IInv, TypeOK
<1>3. CASE /\ rejected' = rejected \cup {c}
           /\ UNCHANGED <<req, calls, status>>
  <2>1. TypeOK'
    BY <1>2, <1>3 DEF TypeOK
  <2>2. ASSUME NEW d \in Call PROVE Tracked(d)'
    <3>1. CASE d = c
      BY <1>1, <1>2, <1>3, <3>1 DEF Tracked, Settled, Live
    <3>2. CASE d # c
      BY <1>2, <1>3, <3>2, TrackedSame DEF IInv
    <3> QED
      BY <3>1, <3>2
  <2> QED
    BY <1>3, <2>1, <2>2 DEF IInv
<1>4. CASE /\ \E n \in Fresh, h, p \in BOOLEAN, out \in Lookups :
                 Launch(req, n, c, h, p, 0, out)
           /\ UNCHANGED rejected
  <2>1. PICK n \in Fresh, h \in BOOLEAN, p \in BOOLEAN, out \in Lookups :
            Launch(req, n, c, h, p, 0, out)
    BY <1>4
  <2>2. n \in Req /\ req[n].mem = "none" /\ 0 \in 0..FollowMax
    BY HttpConstants DEF Fresh
  <2>3. req \in [Req -> ReqState] /\ \A x \in Req : Block(req[x])
    BY <1>2 DEF TypeOK, Block
  <2>4. TypeOK'
    BY <1>2, <1>4, <2>1, <2>2, <2>3, LaunchType
  <2> QED
    BY <1>1, <1>2, <1>4, <2>1, <2>2, <2>3, <2>4, LaunchStep DEF IInv
<1> QED
  BY <1>3, <1>4 DEF HttpRequest

LEMMA DnsCallbackStep ==
  ASSUME IInv, NEW r \in Req, DnsCallback(r)
  PROVE  IInv'
<1> DEFINE q == req[r]
           t == [q EXCEPT !.dns = FALSE]
<1>1. Block(q) /\ Sound(q) /\ q.dns
  BY DEF IInv, TypeOK, Block, DnsCallback
<1>2. q.mem = "live" /\ ~q.sending /\ q.link = "none" /\ q.owner \in Call
  BY <1>1 DEF Sound, Block, ReqState
<1>3. Block(t) /\ t.owner = q.owner /\ Quiet(t)
  BY <1>1, <1>2 DEF Block, ReqState, Quiet
<1>4. CASE /\ req' = [req EXCEPT ![r] = Released([@ EXCEPT !.dns = FALSE])]
           /\ Answer(q.owner, "error")
  <2>1. /\ Block(Released(t)) /\ Sound(Released(t))
        /\ Released(t).owner = q.owner /\ Released(t).mem = "freed"
    BY <1>2, <1>3, ReleasedSound, ReleasedType
  <2>2. Rest'
    BY <1>2, <1>4, AnswerType DEF IInv, TypeOK, Rest, DnsCallback
  <2>3. req' = [req EXCEPT ![r] = Released(t)]
    BY <1>4
  <2>4. calls' = [calls EXCEPT ![q.owner] = @ + 1] /\ UNCHANGED <<started, rejected>>
    BY <1>4 DEF Answer, DnsCallback
  <2> HIDE DEF t
  <2> QED
    BY <1>2, <2>1, <2>2, <2>3, <2>4, CloseStep
<1>5. CASE /\ \E out \in {"connecting", "refused"} :
                 req' = [req EXCEPT ![r] = Connecting(@, out)]
           /\ UNCHANGED <<calls, status>>
  <2>1. PICK out \in {"connecting", "refused"} :
            req' = [req EXCEPT ![r] = Connecting(q, out)]
    BY <1>5
  <2>2. Kept(q, Connecting(q, out))
    BY <1>1, <1>2, ConnectingSound, ConnectingType DEF Kept
  <2>3. UNCHANGED <<started, rejected>>
    BY DEF DnsCallback
  <2> QED
    BY <1>5, <2>1, <2>2, <2>3, KeepStep
<1> QED
  BY <1>4, <1>5 DEF DnsCallback

\* A block whose connection was made, or whose timer is armed, is live.
LEMMA ReferencedLive ==
  ASSUME IInv, NEW r \in Req, req[r].timer \/ req[r].link # "none"
  PROVE  Block(req[r]) /\ Sound(req[r]) /\ req[r].mem = "live" /\ ~req[r].dns
<1>1. Block(req[r]) /\ Sound(req[r])
  BY DEF IInv, TypeOK, Block
<1> QED
  BY <1>1 DEF Sound, Block, ReqState, Memory

LEMMA GiveUpStep ==
  ASSUME IInv, NEW r \in Req, NEW t, GiveUp(r, t),
         \/ req[r].link # "none" /\ t = Ended(req[r])
         \/ req[r].timer /\ t = [req[r] EXCEPT !.timer = FALSE]
  PROVE  IInv'
<1> DEFINE q == req[r]
<1>1. Block(q) /\ Sound(q) /\ q.mem = "live" /\ ~q.dns
  BY ReferencedLive
<1>2. PICK result \in Results(t) :
        IF Awaits(result)
        THEN /\ req' = [req EXCEPT ![r] = Disconnected(t, result)]
             /\ UNCHANGED <<calls, status, started, rejected>>
        ELSE Finish(r, Disconnected(t, result))
  BY DEF GiveUp
<1>3. CASE Awaits(result)
  <2>1. q.timer /\ t = [q EXCEPT !.timer = FALSE]
    BY <1>1, <1>2, <1>3, EndedAwaitsNothing
  <2>2. Kept(q, Disconnected(t, result))
    BY <1>1, <1>2, <1>3, <2>1, TimerWaits
  <2> QED
    BY <1>2, <1>3, <2>2, KeepStep
<1>4. CASE ~Awaits(result)
  <2>1. LET d == Disconnected(t, result)
        IN  Block(d) /\ Quiet(d) /\ d.owner = q.owner
    BY <1>1, <1>2, <1>4, OverQuiet
  <2> QED
    BY <1>1, <1>2, <1>4, <2>1, FinishStep
<1> QED
  BY <1>3, <1>4

LEMMA NextIInv == IInv /\ [Next]_vars => IInv'
<1> SUFFICES ASSUME IInv, [Next]_vars PROVE IInv'
  OBVIOUS
<1>1. ASSUME NEW c \in Call, HttpRequest(c) PROVE IInv'
  BY <1>1, HttpRequestStep
<1>2. ASSUME NEW r \in Req, DnsCallback(r) PROVE IInv'
  BY <1>2, DnsCallbackStep
<1>3. ASSUME NEW r \in Req, ConnectCallback(r) PROVE IInv'
  <2>1. Kept(req[r], HeadSent(req[r]))
    BY <1>3, ReferencedLive, HeadSentStays DEF ConnectCallback
  <2> QED
    BY <1>3, <2>1, KeepStep DEF ConnectCallback
<1>4. ASSUME NEW r \in Req, SendCallback(r) PROVE IInv'
  <2>1. Block(req[r]) /\ Sound(req[r])
    BY DEF IInv, TypeOK, Block
  <2>2. Kept(req[r], BodySent(req[r]))
    BY <1>4, <2>1, BodySentStays DEF SendCallback
  <2> QED
    BY <1>4, <2>2, KeepStep DEF SendCallback
<1>5. ASSUME NEW r \in Req, ReceiveCallback(r) PROVE IInv'
  <2>1. /\ Block(req[r]) /\ Sound(req[r])
        /\ req[r].link \in {"up", "closing"} /\ req[r].got < MaxSeg
    BY <1>5 DEF ReceiveCallback, IInv, TypeOK, Block
  <2>2. UNCHANGED <<calls, status, started, rejected>>
    BY <1>5 DEF ReceiveCallback
  <2>3. CASE ~TooLong(req[r]) /\ req' = [req EXCEPT ![r] = Stored(@)]
    BY <2>1, <2>2, <2>3, StoredStays, KeepStep
  <2>4. CASE req' = [req EXCEPT ![r] = Discarded(@)]
    BY <2>1, <2>2, <2>4, DiscardedStays, KeepStep
  <2> QED
    BY <1>5, <2>3, <2>4 DEF ReceiveCallback
<1>6. ASSUME NEW r \in Req, DisconnectCallback(r) PROVE IInv'
  <2>1. Block(req[r]) /\ Sound(req[r]) /\ req[r].mem = "live" /\ ~req[r].dns
    BY <1>6, ReferencedLive DEF DisconnectCallback
  <2>2. Block(Ended(req[r]))
    BY <2>1, SdkType
  <2>3. Quiet(Ended(req[r])) /\ Ended(req[r]).owner = req[r].owner
    BY <2>1 DEF Ended, Quiet, Block, ReqState
  <2> QED
    BY <1>6, <2>1, <2>2, <2>3, FinishStep DEF DisconnectCallback
<1>7. ASSUME NEW r \in Req, ErrorCallback(r) PROVE IInv'
  BY <1>7, GiveUpStep DEF ErrorCallback
<1>8. ASSUME NEW r \in Req, TimeoutCallback(r) PROVE IInv'
  BY <1>8, GiveUpStep DEF TimeoutCallback
<1>9. CASE UNCHANGED vars
  BY <1>9 DEF vars, IInv, TypeOK, Tracked, Settled, Live
<1> QED
  BY <1>1, <1>2, <1>3, <1>4, <1>5, <1>6, <1>7, <1>8, <1>9 DEF Next

\* The invariant holds in every reachable state.
THEOREM Invariance == Spec => []IInv
  BY InitIInv, NextIInv, PTL DEF Spec

\* Every state has its type; the buffer never grows past BUFFER_SIZE_MAX.
THEOREM TypeCorrect == Spec => []TypeOK
<1>1. IInv => TypeOK
  BY DEF IInv
<1> QED
  BY <1>1, Invariance, PTL

\* No callback the SDK still holds refers to freed memory.
THEOREM NoDangling == Spec => []NoDanglingCallback
<1>1. IInv => NoDanglingCallback
  <2> SUFFICES ASSUME IInv, NEW r \in Req
               PROVE  /\ Referenced(r) => req[r].mem = "live"
                      /\ Referenced(r) /\ ~req[r].dns => req[r].conn = "live"
    BY DEF NoDanglingCallback
  <2> QED
    BY DEF IInv, Sound, Referenced
<1> QED
  BY <1>1, Invariance, PTL

\* Every allocated block will be woken up by the resolver, timer or link.
THEOREM NoBlockOrphaned == Spec => []NoOrphan
<1>1. IInv => NoOrphan
  BY DEF IInv, Sound, NoOrphan, WakeUp
<1> QED
  BY <1>1, Invariance, PTL

\* A callback runs at most once, and then nothing of its call is left.
THEOREM AtMostOneAnswer == Spec => []AnsweredOnce
<1>1. IInv => AnsweredOnce
  <2> SUFFICES ASSUME IInv, NEW c \in Call
               PROVE  /\ calls[c] <= 1
                      /\ calls[c] = 1 => c \notin rejected
                      /\ Settled(c) => \A r \in Req : req[r].owner = c =>
                            req[r].mem = "freed" /\ req[r].conn # "live"
    BY DEF AnsweredOnce, Settled
  <2>1. Tracked(c)
    BY DEF IInv
  <2>2. calls[c] <= 1 /\ (calls[c] = 1 => c \notin rejected)
    BY <2>1 DEF Tracked
  <2>3. ASSUME Settled(c), NEW r \in Req, req[r].owner = c
        PROVE  req[r].mem = "freed" /\ req[r].conn # "live"
    <3>1. Live(c) = {}
      BY <2>1, <2>3 DEF Tracked
    <3>2. req[r].mem # "live"
      BY <2>3, <3>1 DEF Live
    <3>3. Sound(req[r]) /\ req[r].mem \in Memory
      BY DEF IInv, TypeOK, ReqState
    <3> QED
      BY <2>3, <3>2, <3>3, HttpConstants DEF Sound, Memory
  <2> QED
    BY <2>2, <2>3
<1> QED
  BY <1>1, Invariance, PTL

\* A call that was made and is not settled has exactly one live block.
THEOREM NothingForgotten == Spec => []NoSilentLoss
<1>1. IInv => NoSilentLoss
  <2> SUFFICES ASSUME IInv, NEW c \in started, calls[c] = 0, c \notin rejected
               PROVE  \E r \in Req : Live(c) = {r}
    BY DEF NoSilentLoss
  <2>1. Tracked(c) /\ ~Settled(c)
    BY DEF IInv, TypeOK, Settled
  <2> QED
    BY <2>1 DEF Tracked
<1> QED
  BY <1>1, Invariance, PTL

-----------------------------------------------------------------------------
(* The client implements HttpPromise: what each handler is to the caller.  *)

\* A call under way, and one not made yet.
Pending(c) == c \in started /\ calls[c] = 0 /\ c \notin rejected
Idle(c)    == c \notin started /\ calls[c] = 0 /\ c \notin rejected

LEMMA PhaseOthers ==
  ASSUME NEW c, NEW d \in Call, d # c, calls'[d] = calls[d],
         d \in started' <=> d \in started, d \in rejected' <=> d \in rejected
  PROVE  Phase(d)' = Phase(d)
  BY DEF Phase

LEMMA Moves ==
  ASSUME NEW c \in Call, NEW from, NEW to, Phase(c) = from, Phase(c)' = to,
         \A d \in Call : d # c => Phase(d)' = Phase(d)
  PROVE  Promise!Move(c, from, to)
<1>1. [d \in Call |-> Phase(d)]' = [[d \in Call |-> Phase(d)] EXCEPT ![c] = to]
  OBVIOUS
<1> QED
  BY <1>1 DEF Promise!Move

LEMMA ViewSame ==
  ASSUME UNCHANGED <<calls, status, started, rejected>>
  PROVE  UNCHANGED Promise!pvars
  BY DEF Promise!pvars, Phase

LEMMA ViewAnswer ==
  ASSUME IInv, NEW c \in Call, Pending(c), NEW s \in {"ok", "error"},
         Answer(c, s), UNCHANGED <<started, rejected>>
  PROVE  Promise!Complete(c, s)
<1>1. calls \in [Call -> Nat] /\ calls' = [calls EXCEPT ![c] = @ + 1]
  BY DEF Answer, IInv, TypeOK
<1>2. calls'[c] = 1 /\ \A d \in Call : d # c => calls'[d] = calls[d]
  BY <1>1 DEF Pending
<1>3. Phase(c) = "pending" /\ Phase(c)' = "done"
  BY <1>2 DEF Phase, Pending
<1>4. \A d \in Call : d # c => Phase(d)' = Phase(d)
  BY <1>2, PhaseOthers
<1> QED
  BY <1>3, <1>4, Moves DEF Promise!Complete, Answer

LEMMA ViewAbandon ==
  ASSUME IInv, NEW c \in Call, Pending(c), rejected' = rejected \cup {c},
         UNCHANGED <<calls, status, started>>
  PROVE  Promise!Abandon(c)
<1>1. Phase(c) = "pending" /\ Phase(c)' = "dropped"
  BY DEF Phase, Pending
<1>2. \A d \in Call : d # c => Phase(d)' = Phase(d)
  BY PhaseOthers
<1> QED
  BY <1>1, <1>2, Moves DEF Promise!Abandon

LEMMA ViewRequest ==
  ASSUME IInv, NEW c \in Call, HttpRequest(c)
  PROVE  Promise!Submit(c) \/ Promise!Reject(c) \/ Promise!FailFast(c)
<1>1. Idle(c) /\ started' = started \cup {c}
  BY DEF HttpRequest, IInv, Tracked, Settled, Idle
<1>2. calls \in [Call -> Nat] /\ Phase(c) = "idle"
  BY <1>1 DEF IInv, TypeOK, Phase, Idle
<1>3. CASE /\ rejected' = rejected \cup {c}
           /\ UNCHANGED <<req, calls, status>>
  <2>1. Phase(c)' = "dropped"
    BY <1>1, <1>3 DEF Phase, Idle
  <2>2. \A d \in Call : d # c => Phase(d)' = Phase(d)
    BY <1>1, <1>3, PhaseOthers
  <2> QED
    BY <1>2, <1>3, <2>1, <2>2, Moves DEF Promise!Reject
<1>4. CASE /\ \E n \in Fresh, h, p \in BOOLEAN, out \in Lookups :
                 Launch(req, n, c, h, p, 0, out)
           /\ UNCHANGED rejected
  <2>1. Answer(c, "error") \/ UNCHANGED <<calls, status>>
    BY <1>4 DEF Launch
  <2>2. CASE Answer(c, "error")
    <3>1. calls'[c] = 1 /\ \A d \in Call : d # c => calls'[d] = calls[d]
      BY <1>1, <1>2, <2>2 DEF Answer, Idle
    <3>2. Phase(c)' = "done"
      BY <1>1, <3>1 DEF Phase
    <3>3. \A d \in Call : d # c => Phase(d)' = Phase(d)
      BY <1>1, <1>4, <3>1, PhaseOthers
    <3> QED
      BY <1>2, <2>2, <3>2, <3>3, Moves DEF Promise!FailFast, Answer
  <2>3. CASE UNCHANGED <<calls, status>>
    <3>1. Phase(c)' = "pending"
      BY <1>1, <1>4, <2>3 DEF Phase, Idle
    <3>2. \A d \in Call : d # c => Phase(d)' = Phase(d)
      BY <1>1, <1>4, <2>3, PhaseOthers
    <3> QED
      BY <1>2, <2>3, <3>1, <3>2, Moves DEF Promise!Submit
  <2> QED
    BY <2>1, <2>2, <2>3
<1> QED
  BY <1>3, <1>4 DEF HttpRequest

\* http_disconnect_callback answers, goes on with a new block, or gives up.
LEMMA ViewFinish ==
  ASSUME IInv, NEW r \in Req, req[r].mem = "live", NEW q,
         q.owner = req[r].owner, Finish(r, q)
  PROVE  \/ Promise!Settle(q.owner)
         \/ UNCHANGED Promise!pvars
<1>1. q.owner \in Call /\ Pending(q.owner)
  BY OneLive DEF Pending
<1>2. CASE /\ \E s \in Statuses(q) : Answer(q.owner, s)
           /\ UNCHANGED <<started, rejected>>
  BY <1>1, <1>2, ViewAnswer DEF Statuses, Promise!Settle
<1>3. CASE /\ \E n \in Fresh, out \in Lookups :
                 Launch([req EXCEPT ![r] = Released(q)], n, q.owner, q.headers,
                        q.post, q.follow + 1, out)
           /\ UNCHANGED <<started, rejected>>
  <2>1. Answer(q.owner, "error") \/ UNCHANGED <<calls, status>>
    BY <1>3 DEF Launch
  <2> QED
    BY <1>1, <1>3, <2>1, ViewAnswer, ViewSame DEF Promise!Settle
<1>4. CASE /\ rejected' = rejected \cup {q.owner}
           /\ UNCHANGED <<calls, status, started>>
  BY <1>1, <1>4, ViewAbandon DEF Promise!Settle
<1> QED
  BY <1>2, <1>3, <1>4 DEF Finish

LEMMA ViewGiveUp ==
  ASSUME IInv, NEW r \in Req, req[r].mem = "live", NEW t, t.owner = req[r].owner,
         Block(t), GiveUp(r, t)
  PROVE  \/ Promise!Settle(req[r].owner)
         \/ UNCHANGED Promise!pvars
<1>1. PICK result \in Results(t) :
        \/ UNCHANGED <<calls, status, started, rejected>>
        \/ Finish(r, Disconnected(t, result))
  BY DEF GiveUp
<1>2. Disconnected(t, result).owner = t.owner
  BY DEF Disconnected, Ended, Block, ReqState
<1> QED
  BY <1>1, <1>2, ViewSame, ViewFinish

LEMMA StepView ==
  ASSUME IInv, [Next]_vars
  PROVE  [Promise!PNext]_(Promise!pvars)
<1>1. ASSUME NEW c \in Call, HttpRequest(c) PROVE Promise!PNext
  BY <1>1, ViewRequest DEF Promise!PNext
<1>2. ASSUME NEW c \in Call, Promise!Settle(c) PROVE Promise!PNext
  BY <1>2 DEF Promise!PNext
<1>3. ASSUME NEW r \in Req, DnsCallback(r)
      PROVE  Promise!PNext \/ UNCHANGED Promise!pvars
  <2>1. Block(req[r]) /\ Sound(req[r]) /\ req[r].dns
    BY <1>3 DEF IInv, TypeOK, Block, DnsCallback
  <2>2. req[r].owner \in Call /\ Pending(req[r].owner)
    BY <2>1, OneLive DEF Sound, Pending
  <2>3. CASE Answer(req[r].owner, "error")
    <3>1. Promise!Complete(req[r].owner, "error")
      BY <1>3, <2>2, <2>3, ViewAnswer DEF DnsCallback
    <3> QED
      BY <1>2, <2>2, <3>1 DEF Promise!Settle
  <2>4. CASE UNCHANGED <<calls, status>>
    BY <1>3, <2>4, ViewSame DEF DnsCallback
  <2> QED
    BY <1>3, <2>3, <2>4 DEF DnsCallback
<1>4. ASSUME NEW r \in Req,
             ConnectCallback(r) \/ SendCallback(r) \/ ReceiveCallback(r)
      PROVE  UNCHANGED Promise!pvars
  BY <1>4, ViewSame DEF ConnectCallback, SendCallback, ReceiveCallback
<1>5. ASSUME NEW r \in Req, DisconnectCallback(r)
      PROVE  Promise!PNext \/ UNCHANGED Promise!pvars
  <2>1. Block(req[r]) /\ req[r].mem = "live" /\ req[r].owner \in Call
    BY <1>5, ReferencedLive, OneLive DEF DisconnectCallback
  <2>2. Ended(req[r]).owner = req[r].owner
    BY <2>1 DEF Ended, Block, ReqState
  <2> QED
    BY <1>2, <1>5, <2>1, <2>2, ViewFinish DEF DisconnectCallback
<1>6. ASSUME NEW r \in Req, NEW t, GiveUp(r, t),
             \/ req[r].link # "none" /\ t = Ended(req[r])
             \/ req[r].timer /\ t = [req[r] EXCEPT !.timer = FALSE]
      PROVE  Promise!PNext \/ UNCHANGED Promise!pvars
  <2>1. Block(req[r]) /\ req[r].mem = "live" /\ req[r].owner \in Call
    BY <1>6, ReferencedLive, OneLive
  <2>2. Block(Ended(req[r])) /\ Ended(req[r]).owner = req[r].owner
    <3>1. Block(Ended(req[r]))
      BY <2>1, SdkType
    <3> QED
      BY <2>1, <3>1 DEF Ended, Block, ReqState
  <2>3. LET u == [req[r] EXCEPT !.timer = FALSE]
        IN  Block(u) /\ u.owner = req[r].owner
    BY <2>1 DEF Block, ReqState
  <2> QED
    BY <1>2, <1>6, <2>1, <2>2, <2>3, ViewGiveUp
<1>7. CASE UNCHANGED vars
  BY <1>7, ViewSame DEF vars
<1> QED
  BY <1>1, <1>3, <1>4, <1>5, <1>6, <1>7
     DEF Next, ErrorCallback, TimeoutCallback

\* Every behaviour of the client is one that HttpPromise allows.
THEOREM Refinement == Spec => ImplementsPromise
<1>1. Init => Promise!PInit
  BY DEF Init, Promise!PInit, Phase
<1>2. IInv /\ [Next]_vars => [Promise!PNext]_(Promise!pvars)
  BY StepView
<1> QED
  BY <1>1, <1>2, Invariance, PTL DEF Spec, ImplementsPromise, Promise!PSpec

-----------------------------------------------------------------------------
(* What a step may do to one block.                                        *)

\* u is block q after the SDK, or the timer, has let go of some of it.
LetGo(q, u) ==
    \E d, t, s \in BOOLEAN, l \in Links :
        /\ u = [q EXCEPT !.dns = d, !.timer = t, !.sending = s, !.link = l]
        /\ s => q.sending
        /\ l = "connecting" => q.link = "connecting"
        /\ d => q.dns

\* A handler other than http_request turns the block q it was called for
\* into b, and opens no other.
Works(q, b) ==
    \/ q.dns /\ \E out \in Lookups : b = Connecting(q, out)
    \/ q.link = "connecting" /\ b = HeadSent(q)
    \/ q.sending /\ b = BodySent(q)
    \/ q.link \in {"up", "closing"} /\ q.got < MaxSeg /\ b \in {Stored(q), Discarded(q)}
    \/ \E u : LetGo(q, u) /\ b \in {u, Released(u)}

\* The ways in which the SDK lets go of a block before a handler runs.
LEMMA SameLetGo ==
  ASSUME NEW q, Block(q)
  PROVE  /\ LetGo(q, q)
         /\ LetGo(q, [q EXCEPT !.dns = FALSE])
         /\ LetGo(q, [q EXCEPT !.timer = FALSE])
         /\ LetGo(q, Ended(q))
<1>1. q = [q EXCEPT !.dns = q.dns, !.timer = q.timer, !.sending = q.sending, !.link = q.link]
  BY DEF Block, ReqState
<1>2. /\ q.dns \in BOOLEAN /\ q.timer \in BOOLEAN /\ q.sending \in BOOLEAN
      /\ q.link \in Links /\ "none" \in Links
  BY DEF Block, ReqState, Links
<1>3. [q EXCEPT !.dns = FALSE] =
        [q EXCEPT !.dns = FALSE, !.timer = q.timer, !.sending = q.sending, !.link = q.link]
  BY DEF Block, ReqState
<1>4. [q EXCEPT !.timer = FALSE] =
        [q EXCEPT !.dns = q.dns, !.timer = FALSE, !.sending = q.sending, !.link = q.link]
  BY DEF Block, ReqState
<1>5. Ended(q) =
        [q EXCEPT !.dns = q.dns, !.timer = q.timer, !.sending = FALSE, !.link = "none"]
  BY DEF Block, ReqState, Ended
<1>6. LetGo(q, q)
  BY <1>1, <1>2, Zenon DEF LetGo
<1>7. LetGo(q, [q EXCEPT !.dns = FALSE])
  BY <1>2, <1>3, Zenon DEF LetGo
<1>8. LetGo(q, [q EXCEPT !.timer = FALSE])
  BY <1>2, <1>4, Zenon DEF LetGo
<1>9. LetGo(q, Ended(q))
  BY <1>2, <1>5 DEF LetGo
<1> QED BY <1>6, <1>7, <1>8, <1>9

\* espconn_disconnect lets go of no more than the link.
LEMMA DisconnectedLetGo ==
  ASSUME NEW q, Block(q), NEW result,
         NEW t, t = Ended(q) \/ t = [q EXCEPT !.timer = FALSE]
  PROVE  LetGo(q, Disconnected(t, result))
<1>1. /\ q.dns \in BOOLEAN /\ q.timer \in BOOLEAN /\ q.sending \in BOOLEAN
      /\ "none" \in Links /\ "closing" \in Links
  BY DEF Block, ReqState, Links
<1>2. PICK b \in BOOLEAN, s \in BOOLEAN, l \in {"none", "closing"} :
        /\ s => q.sending
        /\ Disconnected(t, result)
             = [q EXCEPT !.dns = q.dns, !.timer = b, !.sending = s, !.link = l]
  <2>1. CASE result = "ESPCONN_ARG" /\ t = Ended(q)
    <3>1. Disconnected(t, result)
            = [q EXCEPT !.dns = q.dns, !.timer = q.timer, !.sending = FALSE, !.link = "none"]
      BY <2>1 DEF Disconnected, Ended, Block, ReqState
    <3> QED BY <3>1, <1>1
  <2>2. CASE result = "ESPCONN_ARG" /\ t = [q EXCEPT !.timer = FALSE]
    <3>1. Disconnected(t, result)
            = [q EXCEPT !.dns = q.dns, !.timer = FALSE, !.sending = FALSE, !.link = "none"]
      BY <2>2 DEF Disconnected, Ended, Block, ReqState
    <3> QED BY <3>1, <1>1
  <2>3. CASE result # "ESPCONN_ARG" /\ t = Ended(q)
    <3>1. Disconnected(t, result)
            = [q EXCEPT !.dns = q.dns, !.timer = q.timer, !.sending = FALSE, !.link = "closing"]
      BY <2>3 DEF Disconnected, Ended, Block, ReqState
    <3> QED BY <3>1, <1>1
  <2>4. CASE result # "ESPCONN_ARG" /\ t = [q EXCEPT !.timer = FALSE]
    <3>1. Disconnected(t, result)
            = [q EXCEPT !.dns = q.dns, !.timer = FALSE, !.sending = q.sending, !.link = "closing"]
      BY <2>4 DEF Disconnected, Ended, Block, ReqState
    <3> QED BY <3>1, <1>1
  <2> QED BY <2>1, <2>2, <2>3, <2>4
<1> QED BY <1>1, <1>2, Zenon DEF LetGo

\* What is let go of is no more than that.
LEMMA LetGoKeeps ==
  ASSUME NEW q, Block(q), NEW u, LetGo(q, u)
  PROVE  /\ u.owner = q.owner /\ u.mem = q.mem /\ u.conn = q.conn
         /\ u.headers = q.headers /\ u.post = q.post /\ u.follow = q.follow
         /\ u.buf = q.buf /\ u.zap = q.zap /\ u.got = q.got /\ u.lost = q.lost
         /\ u.header = q.header /\ u.length = q.length /\ u.bodies = q.bodies
         /\ u.sending => q.sending
         /\ u.dns => q.dns
         /\ u.link = "connecting" => q.link = "connecting"
         /\ Block(u)
<1>1. PICK d \in BOOLEAN, t \in BOOLEAN, s \in BOOLEAN, l \in Links :
        /\ u = [q EXCEPT !.dns = d, !.timer = t, !.sending = s, !.link = l]
        /\ s => q.sending
        /\ l = "connecting" => q.link = "connecting"
        /\ d => q.dns
  BY DEF LetGo
<1>2. q = [x \in DOMAIN q |-> q[x]] /\ {"dns", "timer", "sending", "link"} \subseteq DOMAIN q
  BY SMT DEF Block, ReqState
<1>3. u.dns = d /\ u.sending = s /\ u.link = l
  BY <1>1, <1>2
<1>4. /\ u.owner = q.owner /\ u.mem = q.mem /\ u.conn = q.conn
      /\ u.headers = q.headers /\ u.post = q.post /\ u.follow = q.follow
      /\ u.buf = q.buf /\ u.zap = q.zap /\ u.got = q.got /\ u.lost = q.lost
      /\ u.header = q.header /\ u.length = q.length /\ u.bodies = q.bodies
  BY <1>1, SMT DEF Block, ReqState
<1>5. Block(u)
  <2>1. u = [q EXCEPT !.dns = d, !.timer = t, !.sending = s, !.link = l]
    BY <1>1
  <2>2. q \in ReqState
    BY DEF Block
  <2>3. u \in ReqState
    BY <2>1, <2>2, ZenonT(40) DEF ReqState
  <2> QED BY <1>4, <2>3, Zenon DEF Block
<1> QED BY <1>1, <1>3, <1>4, <1>5, Zenon

LEMMA ReleasedKeeps ==
  ASSUME NEW q, Block(q)
  PROVE  /\ Released(q).owner = q.owner /\ Released(q).mem = "freed"
         /\ Released(q).dns = q.dns /\ Released(q).link = q.link
         /\ Released(q).sending = q.sending /\ Released(q).post = FALSE
         /\ Released(q).follow = q.follow /\ Released(q).buf = q.buf
         /\ Released(q).zap = q.zap /\ Released(q).got = q.got
         /\ Released(q).lost = q.lost /\ Released(q).length = q.length
         /\ Released(q).bodies = q.bodies
  BY SMT DEF Released, Block, ReqState

LEMMA ConnectingKeeps ==
  ASSUME NEW q, Block(q), NEW out
  PROVE  /\ Connecting(q, out).owner = q.owner /\ Connecting(q, out).mem = q.mem
         /\ Connecting(q, out).sending = q.sending /\ Connecting(q, out).post = q.post
         /\ Connecting(q, out).follow = q.follow /\ Connecting(q, out).buf = q.buf
         /\ Connecting(q, out).zap = q.zap /\ Connecting(q, out).got = q.got
         /\ Connecting(q, out).lost = q.lost /\ Connecting(q, out).length = q.length
         /\ Connecting(q, out).bodies = q.bodies
  BY SMT DEF Connecting, Block, ReqState

\* A block that was just opened has sent and received nothing.
LEMMA OpenedNew ==
  ASSUME NEW c \in Call, NEW h \in BOOLEAN, NEW p \in BOOLEAN,
         NEW k \in 0..FollowMax, NEW out \in Lookups
  PROVE  LET o == Opened(c, h, p, k, out)
         IN  /\ o.owner = c /\ o.follow = k /\ o.bodies = 0 /\ ~o.sending
             /\ o.buf = <<>> /\ o.got = 0 /\ ~o.lost
<1> DEFINE q == [Blank EXCEPT !.owner = c, !.mem = "live",
                              !.headers = h, !.post = p, !.follow = k]
<1>1. /\ Block(q) /\ q.owner = c /\ q.follow = k /\ q.bodies = 0 /\ ~q.sending
      /\ q.buf = <<>> /\ q.got = 0 /\ ~q.lost
  BY BlankType, ZenonT(40) DEF Block, ReqState, Memory, Blank
<1>2. CASE out = "pending"
  <2>1. Opened(c, h, p, k, out) = [q EXCEPT !.dns = TRUE]
    BY <1>2 DEF Opened
  <2> HIDE DEF q
  <2> QED BY <2>1, <1>1 DEF Block, ReqState
<1>3. CASE out \in {"connecting", "refused"}
  <2>1. Opened(c, h, p, k, out) = Connecting(q, out)
    BY <1>3 DEF Opened
  <2> HIDE DEF q
  <2> QED BY <2>1, <1>1, ConnectingKeeps
<1>4. CASE out = "noname"
  <2>1. Opened(c, h, p, k, out) = Released(q)
    BY <1>4 DEF Opened
  <2> HIDE DEF q
  <2> DEFINE o == Opened(c, h, p, k, out)
  <2>2. /\ o.owner = q.owner /\ o.follow = q.follow /\ o.bodies = q.bodies
        /\ o.sending = q.sending /\ o.buf = q.buf /\ o.got = q.got /\ o.lost = q.lost
    BY <2>1, <1>1, ReleasedKeeps, ZenonT(40)
  <2> HIDE DEF o
  <2>3. /\ o.owner = c /\ o.follow = k /\ o.bodies = 0 /\ ~o.sending
        /\ o.buf = <<>> /\ o.got = 0 /\ ~o.lost
    BY <2>2, <1>1, Zenon
  <2> QED BY <2>3 DEF o
<1> QED BY <1>2, <1>3, <1>4 DEF Lookups

-----------------------------------------------------------------------------
(* What goes out on a connection.                                          *)

\* Before the connection is made nothing goes out; a body that is still to
\* go out was announced and is the first.
OnWire(q) ==
    /\ q.bodies <= IF q.length THEN 1 ELSE 0
    /\ q.dns \/ q.link = "connecting" => q.bodies = 0 /\ ~q.sending
    /\ q.sending /\ q.post => q.length /\ q.bodies = 0

\* A block has not begun to connect while its name is looked up.
LEMMA LookupOrLink ==
  ASSUME NEW q, Block(q), Sound(q)
  PROVE  /\ q.dns => q.link = "none" /\ ~q.sending
         /\ q.sending => q.link # "connecting" /\ ~q.dns
  BY DEF Block, ReqState, Memory, Sound

LEMMA WorksOnWire ==
  ASSUME NEW q, Block(q), Sound(q), OnWire(q), NEW b, Works(q, b)
  PROVE  OnWire(b)
<1>1. /\ q.dns => q.link = "none" /\ ~q.sending
      /\ q.sending => q.link # "connecting" /\ ~q.dns
  BY LookupOrLink
<1>2. q.bodies \in Nat /\ q.length \in BOOLEAN /\ q.post \in BOOLEAN
  BY DEF Block, ReqState
<1>3. ASSUME q.dns, NEW out, b = Connecting(q, out) PROVE OnWire(b)
  <2>1. q.bodies = 0 /\ ~q.sending
    BY <1>3 DEF OnWire
  <2> QED BY <1>2, <1>3, <2>1, ConnectingKeeps, SMT DEF OnWire
<1>4. CASE q.link = "connecting" /\ b = HeadSent(q)
  <2>1. /\ b.bodies = q.bodies /\ b.length = q.post /\ b.link = "up"
        /\ b.dns = q.dns /\ b.post = q.post
    BY <1>4, SMT DEF HeadSent, Block, ReqState
  <2>2. q.bodies = 0 /\ ~q.dns
    BY <1>1, <1>4 DEF OnWire
  <2> QED BY <1>2, <2>1, <2>2, SMT DEF OnWire
<1>5. CASE q.sending /\ b = BodySent(q)
  <2>1. /\ b.bodies = IF q.post THEN q.bodies + 1 ELSE q.bodies
        /\ b.length = q.length /\ b.link = q.link /\ b.dns = q.dns /\ b.post = FALSE
    BY <1>5, SMT DEF BodySent, Block, ReqState
  <2> QED BY <1>1, <1>2, <1>5, <2>1, SMT DEF OnWire
<1>6. CASE q.link \in {"up", "closing"} /\ b \in {Stored(q), Discarded(q)}
  <2>1. /\ b.bodies = q.bodies /\ b.length = q.length /\ b.dns = q.dns
        /\ b.post = q.post /\ b.sending = q.sending /\ b.link \in {"up", "closing"}
    <3>1. CASE b = Stored(q)
      BY <1>6, <3>1, SMT DEF Stored, Block, ReqState
    <3>2. CASE b = Discarded(q)
      BY <1>6, <3>2, SMT DEF Discarded, Block, ReqState
    <3> QED BY <1>6, <3>1, <3>2
  <2> QED BY <1>1, <2>1, SMT DEF OnWire
<1>7. ASSUME NEW u, LetGo(q, u), b \in {u, Released(u)} PROVE OnWire(b)
  <2>1. OnWire(u) /\ Block(u)
    <3>1. /\ u.post = q.post /\ u.length = q.length /\ u.bodies = q.bodies
          /\ u.sending => q.sending
          /\ u.dns => q.dns
          /\ u.link = "connecting" => q.link = "connecting"
          /\ Block(u)
      BY <1>7, LetGoKeeps
    <3>2. (u.bodies <= IF u.length THEN 1 ELSE 0) <=> (q.bodies <= IF q.length THEN 1 ELSE 0)
      BY <3>1, Zenon
    <3> QED BY <3>1, <3>2, Zenon DEF OnWire
  <2>2. OnWire(Released(u))
    BY <2>1, ReleasedKeeps DEF OnWire
  <2> QED BY <1>7, <2>1, <2>2
<1> QED BY <1>3, <1>4, <1>5, <1>6, <1>7 DEF Works

-----------------------------------------------------------------------------
(* What is kept of a response.                                             *)

\* Without a loss the buffer holds the segments received, in order.  After a
\* loss what it holds is void, or begins behind the first segment.
Whole(q) ==
    /\ ~q.lost => Len(q.buf) = q.got /\ \A i \in 1..Len(q.buf) : q.buf[i] = i
    /\ q.lost => q.got >= 1 /\ ~Readable(q)

LEMMA WholeKept ==
  ASSUME NEW q, Whole(q), NEW b,
         b.buf = q.buf, b.zap = q.zap, b.got = q.got, b.lost = q.lost
  PROVE  Whole(b)
<1>1. Readable(b) <=> Readable(q)
  BY Zenon DEF Readable
<1> QED BY <1>1, Zenon DEF Whole

LEMMA StoredWhole ==
  ASSUME NEW q, Block(q), Whole(q)
  PROVE  Whole(Stored(q))
<1>1. /\ Stored(q).buf = Append(q.buf, q.got + 1) /\ Stored(q).got = q.got + 1
      /\ Stored(q).zap = q.zap /\ Stored(q).lost = q.lost
  BY SMT DEF Stored, Block, ReqState
<1>2. q.buf \in Seq(Nat) /\ q.got \in Nat
  BY HttpConstants, SMT DEF Block, ReqState
<1> DEFINE a == Append(q.buf, q.got + 1)
<1>3. /\ Len(a) = Len(q.buf) + 1 /\ a[Len(q.buf) + 1] = q.got + 1 /\ a # <<>>
      /\ \A i \in 1..Len(q.buf) : a[i] = q.buf[i]
      /\ Len(q.buf) \in Nat
  BY <1>2, SMT
<1>4. CASE ~q.lost
  <2>1. Len(a) = q.got + 1
    BY <1>3, <1>4 DEF Whole
  <2>2. \A i \in 1..Len(a) : a[i] = i
    <3> TAKE i \in 1..Len(a)
    <3>1. i \in 1..Len(q.buf) \/ i = Len(q.buf) + 1
      BY <1>3
    <3> HIDE DEF a
    <3> QED BY <1>2, <1>3, <1>4, <3>1 DEF Whole
  <2> HIDE DEF a
  <2> QED BY <1>1, <1>4, <2>1, <2>2 DEF Whole, a
<1>5. CASE q.lost
  <2>1. q.got >= 1 /\ ~Readable(q)
    BY <1>5 DEF Whole
  <2>2. CASE q.buf = <<>>
    <3>1. a[1] = q.got + 1 /\ q.got + 1 # 1
      BY <1>2, <2>1, <2>2, SMT
    <3> HIDE DEF a
    <3> QED BY <1>1, <1>2, <1>5, <2>1, <3>1 DEF Whole, Readable, a
  <2>3. CASE q.buf # <<>>
    <3>1. a[1] = q.buf[1]
      BY <1>2, <2>3, SMT
    <3> HIDE DEF a
    <3> QED BY <1>1, <1>2, <1>5, <2>1, <2>3, <3>1 DEF Whole, Readable, a
  <2> QED BY <2>2, <2>3
<1> QED BY <1>4, <1>5

LEMMA DiscardedWhole ==
  ASSUME NEW q, Block(q)
  PROVE  Whole(Discarded(q))
<1>1. /\ Discarded(q).got = q.got + 1 /\ Discarded(q).lost = TRUE
      /\ Discarded(q).buf = q.buf /\ Discarded(q).zap = (q.zap \/ q.buf # <<>>)
  BY SMT DEF Discarded, Block, ReqState
<1>2. q.got \in Nat
  BY HttpConstants DEF Block, ReqState
<1>3. q.got + 1 >= 1
  BY <1>2
<1>4. ~Readable(Discarded(q))
  BY <1>1, Zenon DEF Readable
<1> QED BY <1>1, <1>3, <1>4, Zenon DEF Whole

LEMMA WorksWhole ==
  ASSUME NEW q, Block(q), Whole(q), NEW b, Works(q, b)
  PROVE  Whole(b)
<1>1. ASSUME NEW out, b = Connecting(q, out) PROVE Whole(b)
  BY <1>1, ConnectingKeeps, WholeKept
<1>2. CASE b = HeadSent(q)
  <2>1. b.buf = q.buf /\ b.zap = q.zap /\ b.got = q.got /\ b.lost = q.lost
    BY <1>2, SMT DEF HeadSent, Block, ReqState
  <2> QED BY <2>1, WholeKept
<1>3. CASE b = BodySent(q)
  <2>1. b.buf = q.buf /\ b.zap = q.zap /\ b.got = q.got /\ b.lost = q.lost
    BY <1>3, SMT DEF BodySent, Block, ReqState
  <2> QED BY <2>1, WholeKept
<1>4. CASE b \in {Stored(q), Discarded(q)}
  BY <1>4, StoredWhole, DiscardedWhole
<1>5. ASSUME NEW u, LetGo(q, u), b \in {u, Released(u)} PROVE Whole(b)
  <2>1. Block(u) /\ Whole(u)
    BY <1>5, LetGoKeeps, WholeKept
  <2>2. Whole(Released(u))
    BY <2>1, ReleasedKeeps, WholeKept
  <2> QED BY <1>5, <2>1, <2>2
<1> QED BY <1>1, <1>2, <1>3, <1>4, <1>5 DEF Works

\* A block that has done nothing yet is in order.
LEMMA NewBlock ==
  ASSUME NEW o, o.bodies = 0, ~o.sending, o.buf = <<>>, o.got = 0, ~o.lost
  PROVE  OnWire(o) /\ Whole(o)
<1>1. OnWire(o)
  BY DEF OnWire
<1>2. Len(o.buf) = 0
  BY SMT
<1> QED BY <1>1, <1>2 DEF Whole

-----------------------------------------------------------------------------
(* What a step may do to all the blocks.                                   *)

\* A handler works on block r, and answers an error when it frees the block
\* without a readable response.
Handled(r, b) ==
    /\ req[r].mem = "live"
    /\ Works(req[r], b)
    /\ req' = [req EXCEPT ![r] = b]
    /\ b.mem = "freed" => Readable(b) \/ Answer(req[r].owner, "error")

\* http_request opens the first block of a call.
Began(n, c) ==
    /\ c \notin started
    /\ req[n].mem = "none"
    /\ \E h, p \in BOOLEAN, out \in Lookups :
          req' = [req EXCEPT ![n] = Opened(c, h, p, 0, out)]

\* A redirection is followed: block r makes way for block n.
Followed(r, b, n) ==
    /\ req[r].mem = "live"
    /\ Works(req[r], b)
    /\ b.mem = "freed" /\ Readable(b)
    /\ req[n].mem = "none"
    /\ req[r].follow + 1 \in 0..FollowMax
    /\ \E h, p \in BOOLEAN, out \in Lookups :
          req' = [[req EXCEPT ![r] = b] EXCEPT
                     ![n] = Opened(req[r].owner, h, p, req[r].follow + 1, out)]

Shape ==
    \/ UNCHANGED req
    \/ \E r \in Req : \E b : Handled(r, b)
    \/ \E n \in Req, c \in Call : Began(n, c)
    \/ \E r, n \in Req : \E b : Followed(r, b, n)

LEMMA FinishShape ==
  ASSUME IInv, NEW r \in Req, req[r].mem = "live", NEW u, LetGo(req[r], u),
         Finish(r, u)
  PROVE  Shape
<1> DEFINE b == Released(u)
           released == [req EXCEPT ![r] = b]
<1>1. Block(req[r])
  BY DEF IInv, TypeOK, Block
<1>2. /\ Block(u) /\ u.owner = req[r].owner /\ u.follow = req[r].follow
      /\ u.headers = req[r].headers /\ u.post = req[r].post
  BY <1>1, LetGoKeeps
<1>3. b.mem = "freed" /\ (Readable(b) <=> Readable(u))
  BY <1>2, ReleasedKeeps, Zenon DEF Readable
<1>4. Works(req[r], b)
  BY DEF Works
<1> HIDE DEF b
<1>5. CASE req' = released /\ \E s \in Statuses(u) : Answer(u.owner, s)
  <2>1. ~Readable(u) => Answer(u.owner, "error")
    BY <1>5 DEF Statuses
  <2>2. Handled(r, b)
    BY <1>2, <1>3, <1>4, <1>5, <2>1 DEF Handled
  <2> QED BY <2>2 DEF Shape
<1>6. CASE /\ MayFollow(u)
           /\ \E n \in Fresh, out \in Lookups :
                 Launch(released, n, u.owner, u.headers, u.post, u.follow + 1, out)
  <2>1. PICK n \in Fresh, out \in Lookups :
          Launch(released, n, u.owner, u.headers, u.post, u.follow + 1, out)
    BY <1>6
  <2>2. n \in Req /\ req[n].mem = "none"
    BY DEF Fresh
  <2>3. Readable(b) /\ req[r].follow + 1 \in 0..FollowMax
    BY <1>1, <1>2, <1>3, <1>6, HttpConstants, SMTT(30) DEF MayFollow, Block, ReqState
  <2>4. u.headers \in BOOLEAN /\ u.post \in BOOLEAN
    BY <1>2 DEF Block, ReqState
  <2>5. req' = [released EXCEPT ![n] = Opened(req[r].owner, u.headers, u.post,
                                              req[r].follow + 1, out)]
    BY <1>2, <2>1 DEF Launch
  <2>6. Followed(r, b, n)
    BY <1>3, <1>4, <2>2, <2>3, <2>4, <2>5, Zenon DEF Followed
  <2> QED BY <2>2, <2>6 DEF Shape
<1>7. CASE MayFollow(u) /\ req' = released
  <2>1. Handled(r, b)
    BY <1>3, <1>4, <1>7 DEF Handled, MayFollow
  <2> QED BY <2>1 DEF Shape
<1> QED BY <1>5, <1>6, <1>7 DEF Finish, b

\* A block a handler keeps.
LEMMA KeptShape ==
  ASSUME NEW r \in Req, req[r].mem = "live", NEW b, Works(req[r], b),
         b.mem = "live", req' = [req EXCEPT ![r] = b]
  PROVE  Shape
<1>1. Handled(r, b)
  BY DEF Handled
<1> QED BY <1>1 DEF Shape

\* Handlers change neither the call nor the hop of a block.
LEMMA WorksKeeps ==
  ASSUME NEW q, Block(q), NEW b, Works(q, b)
  PROVE  b.owner = q.owner /\ b.follow = q.follow /\ b.mem \in {q.mem, "freed"}
<1>1. ASSUME NEW out, b = Connecting(q, out)
      PROVE  b.owner = q.owner /\ b.follow = q.follow /\ b.mem = q.mem
  BY <1>1, ConnectingKeeps
<1>2. CASE b = HeadSent(q)
  BY <1>2, SMT DEF HeadSent, Block, ReqState
<1>3. CASE b = BodySent(q)
  BY <1>3, SMT DEF BodySent, Block, ReqState
<1>4. CASE b = Stored(q)
  BY <1>4, SMT DEF Stored, Block, ReqState
<1>5. CASE b = Discarded(q)
  BY <1>5, SMT DEF Discarded, Block, ReqState
<1>6. ASSUME NEW u, LetGo(q, u), b \in {u, Released(u)}
      PROVE  b.owner = q.owner /\ b.follow = q.follow /\ b.mem \in {q.mem, "freed"}
  <2>1. Block(u) /\ u.owner = q.owner /\ u.follow = q.follow /\ u.mem = q.mem
    BY <1>6, LetGoKeeps
  <2>2. /\ Released(u).owner = u.owner /\ Released(u).follow = u.follow
        /\ Released(u).mem = "freed"
    BY <2>1, ReleasedKeeps
  <2> QED BY <1>6, <2>1, <2>2
<1> QED BY <1>1, <1>2, <1>3, <1>4, <1>5, <1>6 DEF Works

LEMMA GiveUpShape ==
  ASSUME IInv, NEW r \in Req, NEW t, GiveUp(r, t),
         \/ req[r].link # "none" /\ t = Ended(req[r])
         \/ req[r].timer /\ t = [req[r] EXCEPT !.timer = FALSE]
  PROVE  Shape
<1>1. Block(req[r]) /\ req[r].mem = "live"
  BY ReferencedLive
<1>2. PICK result \in Results(t) :
        IF Awaits(result)
        THEN req' = [req EXCEPT ![r] = Disconnected(t, result)]
        ELSE Finish(r, Disconnected(t, result))
  BY DEF GiveUp
<1>3. LetGo(req[r], Disconnected(t, result))
  BY <1>1, DisconnectedLetGo
<1>4. /\ Works(req[r], Disconnected(t, result))
      /\ Disconnected(t, result).mem = "live"
  BY <1>1, <1>3, LetGoKeeps DEF Works
<1> QED BY <1>1, <1>2, <1>3, <1>4, KeptShape, FinishShape

LEMMA StepShape ==
  ASSUME IInv, [Next]_vars
  PROVE  Shape
<1>0. \A r \in Req : Block(req[r]) /\ Sound(req[r])
  BY DEF IInv, TypeOK, Block
<1>1. ASSUME NEW c \in Call, HttpRequest(c) PROVE Shape
  <2>1. CASE UNCHANGED req
    BY <2>1 DEF Shape
  <2>2. CASE \E n \in Fresh, h, p \in BOOLEAN, out \in Lookups :
                Launch(req, n, c, h, p, 0, out)
    <3>1. PICK n \in Fresh, h \in BOOLEAN, p \in BOOLEAN, out \in Lookups :
            Launch(req, n, c, h, p, 0, out)
      BY <2>2
    <3>2. n \in Req /\ Began(n, c)
      BY <1>1, <3>1 DEF Began, Launch, Fresh, HttpRequest
    <3> QED BY <3>2 DEF Shape
  <2> QED BY <1>1, <2>1, <2>2 DEF HttpRequest
<1>2. ASSUME NEW r \in Req, DnsCallback(r) PROVE Shape
  <2> DEFINE q == req[r]
             t == [q EXCEPT !.dns = FALSE]
  <2>1. Block(q) /\ q.dns /\ q.mem = "live"
    BY <1>0, <1>2 DEF DnsCallback, Sound, Block, ReqState, Memory
  <2>2. CASE /\ req' = [req EXCEPT ![r] = Released(t)]
             /\ Answer(q.owner, "error")
    <3>1. LetGo(q, t)
      BY <2>1, SameLetGo
    <3>2. Works(q, Released(t))
      BY <3>1 DEF Works
    <3>3. Handled(r, Released(t))
      BY <2>1, <2>2, <3>2 DEF Handled
    <3> QED BY <3>3 DEF Shape
  <2>3. CASE \E out \in {"connecting", "refused"} :
                req' = [req EXCEPT ![r] = Connecting(q, out)]
    <3>1. PICK out \in {"connecting", "refused"} :
            req' = [req EXCEPT ![r] = Connecting(q, out)]
      BY <2>3
    <3>2. Works(q, Connecting(q, out)) /\ Connecting(q, out).mem = "live"
      BY <2>1, ConnectingKeeps DEF Works, Lookups
    <3> QED BY <2>1, <3>1, <3>2, KeptShape
  <2> QED BY <1>2, <2>2, <2>3 DEF DnsCallback
<1>3. ASSUME NEW r \in Req, ConnectCallback(r) PROVE Shape
  <2>1. Block(req[r]) /\ req[r].mem = "live" /\ Works(req[r], HeadSent(req[r]))
    BY <1>3, ReferencedLive DEF ConnectCallback, Works
  <2>2. HeadSent(req[r]).mem = "live"
    BY <2>1, SMT DEF HeadSent, Block, ReqState
  <2> QED BY <1>3, <2>1, <2>2, KeptShape DEF ConnectCallback
<1>4. ASSUME NEW r \in Req, SendCallback(r) PROVE Shape
  <2>1. Block(req[r]) /\ req[r].mem = "live" /\ Works(req[r], BodySent(req[r]))
    BY <1>0, <1>4, ReferencedLive DEF SendCallback, Works, Sound
  <2>2. BodySent(req[r]).mem = "live"
    BY <2>1, SMT DEF BodySent, Block, ReqState
  <2> QED BY <1>4, <2>1, <2>2, KeptShape DEF SendCallback
<1>5. ASSUME NEW r \in Req, ReceiveCallback(r) PROVE Shape
  <2>1. PICK b \in {Stored(req[r]), Discarded(req[r])} : req' = [req EXCEPT ![r] = b]
    BY <1>5 DEF ReceiveCallback
  <2>2. Block(req[r]) /\ req[r].mem = "live" /\ Works(req[r], b)
    BY <1>5, ReferencedLive DEF ReceiveCallback, Works
  <2>3. b.mem = "live"
    <3>1. CASE b = Stored(req[r])
      BY <2>2, <3>1, SMT DEF Stored, Block, ReqState
    <3>2. CASE b = Discarded(req[r])
      BY <2>2, <3>2, SMT DEF Discarded, Block, ReqState
    <3> QED BY <3>1, <3>2
  <2> QED BY <2>1, <2>2, <2>3, KeptShape
<1>6. ASSUME NEW r \in Req, DisconnectCallback(r) PROVE Shape
  <2>1. Block(req[r]) /\ req[r].mem = "live"
    BY <1>6, ReferencedLive DEF DisconnectCallback
  <2> QED BY <1>6, <2>1, SameLetGo, FinishShape DEF DisconnectCallback
<1>7. ASSUME NEW r \in Req, ErrorCallback(r) PROVE Shape
  BY <1>7, GiveUpShape DEF ErrorCallback
<1>8. ASSUME NEW r \in Req, TimeoutCallback(r) PROVE Shape
  BY <1>8, GiveUpShape DEF TimeoutCallback
<1>9. CASE UNCHANGED vars
  BY <1>9 DEF vars, Shape
<1> QED
  BY <1>1, <1>2, <1>3, <1>4, <1>5, <1>6, <1>7, <1>8, <1>9 DEF Next

-----------------------------------------------------------------------------
(* The invariants.                                                         *)

\* An answer is final.
LEMMA AnswerFinal ==
  ASSUME IInv, [Next]_vars, NEW c \in Call, calls[c] = 1
  PROVE  calls'[c] = 1 /\ status'[c] = status[c]
<1>1. Tracked(c) /\ Tracked(c)'
  BY NextIInv DEF IInv
<1>2. Phase(c) = "done"
  BY <1>1 DEF Phase, Tracked, Settled
<1> DEFINE phase == [d \in Call |-> Phase(d)]
<1>3. Promise!PNext \/ UNCHANGED Promise!pvars
  BY StepView
<1>4. phase'[c] = "done" /\ status'[c] = status[c]
  <2>1. CASE UNCHANGED Promise!pvars
    <3>1. phase' = phase /\ status' = status
      BY <2>1 DEF Promise!pvars
    <3> QED BY <1>2, <3>1
  <2>2. CASE Promise!PNext
    <3>1. PICK d \in Call :
            \/ Promise!Submit(d) \/ Promise!Reject(d)
            \/ Promise!FailFast(d) \/ Promise!Settle(d)
      BY <2>2 DEF Promise!PNext
    <3> DEFINE moved == /\ phase[d] \in {"idle", "pending"}
                        /\ \E to : phase' = [phase EXCEPT ![d] = to]
               named == status' = status \/ \E v : status' = [status EXCEPT ![d] = v]
    <3>2. moved /\ named
      <4>1. CASE Promise!Submit(d)
        BY <4>1, Zenon DEF Promise!Submit, Promise!Move
      <4>2. CASE Promise!Reject(d)
        BY <4>2, Zenon DEF Promise!Reject, Promise!Move
      <4>3. CASE Promise!FailFast(d)
        BY <4>3, Zenon DEF Promise!FailFast, Promise!Move
      <4>4. CASE Promise!Abandon(d)
        BY <4>4, Zenon DEF Promise!Abandon, Promise!Move
      <4>5. ASSUME NEW v, Promise!Complete(d, v) PROVE moved /\ named
        BY <4>5, Zenon DEF Promise!Complete, Promise!Move
      <4> QED BY <3>1, <4>1, <4>2, <4>3, <4>4, <4>5 DEF Promise!Settle
    <3>3. phase[c] = "done" /\ d # c
      BY <1>2, <3>2
    <3>4. DOMAIN phase = Call /\ DOMAIN status = Call
      BY DEF IInv, TypeOK
    <3> HIDE DEF phase
    <3>5. phase'[c] = phase[c] /\ status'[c] = status[c]
      BY <3>2, <3>3, <3>4
    <3> QED BY <3>3, <3>5
  <2> QED BY <1>3, <2>1, <2>2
<1>5. Phase(c)' = "done"
  BY <1>4
<1>6. calls'[c] > 0
  BY <1>5 DEF Phase
<1> QED BY <1>1, <1>4, <1>6 DEF Tracked

\* A call of which a block was freed with a hole in its response is answered
\* with an error.
Failed(r) ==
    req[r].lost /\ req[r].mem = "freed" =>
        calls[req[r].owner] = 1 /\ status[req[r].owner] = "error"

\* The blocks of a call are on different hops, the live one on the last.
Apart(x, y) ==
    req[x].owner = req[y].owner /\ req[x].owner \in Call =>
        /\ x # y => req[x].follow # req[y].follow
        /\ req[x].mem = "live" => req[y].follow <= req[x].follow

DataInv ==
    /\ \A r \in Req : OnWire(req[r]) /\ Whole(req[r]) /\ Failed(r)
    /\ \A x, y \in Req : Apart(x, y)

\* What a step leaves of block x, as far as hops are concerned.
Rests(x) ==
    /\ req'[x].owner = req[x].owner
    /\ req'[x].follow = req[x].follow
    /\ req'[x].mem = "live" => req[x].mem = "live"

LEMMA RestApart ==
  ASSUME NEW x \in Req, NEW y \in Req, Apart(x, y), Rests(x), Rests(y)
  PROVE  Apart(x, y)'
  BY DEF Apart, Rests

\* A handler that opens no block.
LEMMA HandledData ==
  ASSUME IInv, IInv', DataInv, NEW r \in Req, NEW b, Handled(r, b),
         \A x \in Call : calls[x] = 1 => calls'[x] = 1 /\ status'[x] = status[x]
  PROVE  DataInv'
<1>1. /\ Block(req[r]) /\ Sound(req[r]) /\ OnWire(req[r]) /\ Whole(req[r])
      /\ req \in [Req -> ReqState] /\ calls \in [Call -> Nat]
      /\ status \in [Call -> {"none", "ok", "error"}]
  BY DEF IInv, TypeOK, Block, DataInv
<1>2. /\ req[r].mem = "live" /\ Works(req[r], b)
      /\ req' = [req EXCEPT ![r] = b]
      /\ b.mem = "freed" => Readable(b) \/ Answer(req[r].owner, "error")
  BY DEF Handled
<1>3. OnWire(b) /\ Whole(b) /\ b.owner = req[r].owner /\ b.follow = req[r].follow
  BY <1>1, <1>2, WorksOnWire, WorksWhole, WorksKeeps
<1>4. req'[r] = b /\ \A x \in Req : x # r => req'[x] = req[x]
  BY <1>1, <1>2
<1>5. \A x \in Req : OnWire(req'[x]) /\ Whole(req'[x])
  BY <1>3, <1>4 DEF DataInv
<1>6. ASSUME NEW x \in Req PROVE Failed(x)'
  <2>1. CASE x # r
    <3>1. Failed(x) /\ req'[x] = req[x]
      BY <1>4, <2>1 DEF DataInv
    <3>2. req[x].mem = "freed" => req[x].owner \in Call
      BY DEF IInv, Sound
    <3> QED BY <3>1, <3>2 DEF Failed
  <2>2. CASE x = r
    <3> SUFFICES ASSUME b.lost, b.mem = "freed"
                 PROVE  calls'[b.owner] = 1 /\ status'[b.owner] = "error"
      BY <1>4, <2>2 DEF Failed
    <3>1. Answer(b.owner, "error")
      BY <1>2, <1>3 DEF Whole
    <3>2. b.owner \in Call /\ calls[b.owner] = 0
      BY <1>2, <1>3, OneLive
    <3> QED BY <1>1, <3>1, <3>2 DEF Answer
  <2> QED BY <2>1, <2>2
<1>7. \A x \in Req : Rests(x)
  BY <1>2, <1>3, <1>4 DEF Rests
<1>8. \A x, y \in Req : Apart(x, y)'
  BY <1>7, RestApart DEF DataInv
<1> QED BY <1>5, <1>6, <1>8 DEF DataInv

\* http_request opens the first block of a call.
LEMMA BeganData ==
  ASSUME IInv, IInv', DataInv, NEW n \in Req, NEW c \in Call, Began(n, c),
         \A x \in Call : calls[x] = 1 => calls'[x] = 1 /\ status'[x] = status[x]
  PROVE  DataInv'
<1>1. PICK h \in BOOLEAN, p \in BOOLEAN, out \in Lookups :
        req' = [req EXCEPT ![n] = Opened(c, h, p, 0, out)]
  BY DEF Began
<1> DEFINE o == Opened(c, h, p, 0, out)
<1>2. /\ o.owner = c /\ o.follow = 0 /\ o.bodies = 0 /\ ~o.sending
      /\ o.buf = <<>> /\ o.got = 0 /\ ~o.lost
  BY OpenedNew, HttpConstants
<1> HIDE DEF o
<1>3. req \in [Req -> ReqState]
  BY DEF IInv, TypeOK
<1>4. req'[n] = o /\ \A x \in Req : x # n => req'[x] = req[x]
  BY <1>1, <1>3 DEF o
<1>5. \A x \in Req : req[x].owner # c
  BY DEF IInv, Tracked, Began
<1>6. OnWire(o) /\ Whole(o)
  BY <1>2, NewBlock
<1>7. ASSUME NEW x \in Req PROVE Failed(x)'
  <2>1. req[x].mem = "freed" => req[x].owner \in Call
    BY DEF IInv, Sound
  <2>2. Failed(x)
    BY DEF DataInv
  <2> QED BY <1>2, <1>4, <2>1, <2>2 DEF Failed
<1>8. ASSUME NEW x \in Req, NEW y \in Req PROVE Apart(x, y)'
  <2>1. CASE x # n /\ y # n
    BY <1>4, <2>1, RestApart DEF DataInv, Rests
  <2>2. CASE x = n /\ y = n
    BY <1>2, <1>4, <2>2 DEF Apart
  <2>3. CASE (x = n) # (y = n)
    BY <1>2, <1>4, <1>5, <2>3 DEF Apart
  <2> QED BY <2>1, <2>2, <2>3
<1> QED BY <1>4, <1>6, <1>7, <1>8 DEF DataInv

\* A redirection is followed, on a block of the next hop.
LEMMA FollowedData ==
  ASSUME IInv, IInv', DataInv, NEW r \in Req, NEW n \in Req, NEW b, Followed(r, b, n),
         \A x \in Call : calls[x] = 1 => calls'[x] = 1 /\ status'[x] = status[x]
  PROVE  DataInv'
<1> DEFINE c == req[r].owner
           k == req[r].follow + 1
<1>1. PICK h \in BOOLEAN, p \in BOOLEAN, out \in Lookups :
        req' = [[req EXCEPT ![r] = b] EXCEPT ![n] = Opened(c, h, p, k, out)]
  BY DEF Followed
<1>2. /\ c \in Call /\ Live(c) = {r} /\ k \in 0..FollowMax /\ n # r
      /\ req[r].follow \in Nat
  <2>1. req[r].mem = "live" /\ req[n].mem = "none" /\ k \in 0..FollowMax
    BY DEF Followed
  <2>2. req[r].follow \in Nat
    BY HttpConstants DEF IInv, TypeOK, ReqState
  <2> QED BY <2>1, <2>2, OneLive
<1> DEFINE o == Opened(c, h, p, k, out)
<1>3. /\ o.owner = c /\ o.follow = k /\ o.bodies = 0 /\ ~o.sending
      /\ o.buf = <<>> /\ o.got = 0 /\ ~o.lost
  BY <1>2, OpenedNew
<1> HIDE DEF o
<1>4. /\ req \in [Req -> ReqState]
      /\ Block(req[r]) /\ Sound(req[r]) /\ OnWire(req[r]) /\ Whole(req[r])
  BY DEF IInv, TypeOK, Block, DataInv
<1>5. /\ OnWire(b) /\ Whole(b) /\ b.owner = c /\ b.follow = req[r].follow
      /\ b.mem = "freed" /\ ~b.lost
  BY <1>4, WorksOnWire, WorksWhole, WorksKeeps DEF Followed, Whole
<1>6. /\ req'[n] = o /\ req'[r] = b
      /\ \A x \in Req : x # n /\ x # r => req'[x] = req[x]
  BY <1>1, <1>2, <1>4 DEF o
<1>7. OnWire(o) /\ Whole(o)
  BY <1>3, NewBlock
<1>8. ASSUME NEW x \in Req PROVE Failed(x)'
  <2>1. req[x].mem = "freed" => req[x].owner \in Call
    BY DEF IInv, Sound
  <2>2. Failed(x)
    BY DEF DataInv
  <2> QED BY <1>3, <1>5, <1>6, <2>1, <2>2 DEF Failed
<1>9. \A x \in Req : x # n => Rests(x)
  BY <1>5, <1>6 DEF Rests
<1>10. \A x \in Req : x # n /\ req'[x].owner = c =>
           req'[x].follow < k /\ req'[x].mem # "live"
  <2> SUFFICES ASSUME NEW x \in Req, x # n, req'[x].owner = c
               PROVE  req'[x].follow < k /\ req'[x].mem # "live"
    OBVIOUS
  <2>1. req[x].owner = c /\ req'[x].follow = req[x].follow /\ req[x].follow \in Nat
    BY <1>4, <1>9, HttpConstants DEF Rests, ReqState
  <2>2. req[x].follow <= req[r].follow
    <3>1. Apart(r, x) /\ req[r].mem = "live"
      BY DEF DataInv, Followed
    <3> QED BY <1>2, <2>1, <3>1 DEF Apart
  <2>3. req'[x].mem # "live"
    BY <1>2, <1>5, <1>6, <1>9, <2>1 DEF Rests, Live
  <2> QED BY <1>2, <2>1, <2>2, <2>3
<1>11. \A x \in Req : req'[x].follow \in Nat
  BY HttpConstants DEF IInv, TypeOK, ReqState
<1>12. ASSUME NEW x \in Req, NEW y \in Req PROVE Apart(x, y)'
  <2>1. CASE x # n /\ y # n
    BY <1>9, <2>1, RestApart DEF DataInv
  <2>2. CASE x = n
    BY <1>3, <1>6, <1>10, <1>11, <2>2 DEF Apart
  <2>3. CASE x # n /\ y = n
    BY <1>3, <1>6, <1>10, <1>11, <2>3 DEF Apart
  <2> QED BY <2>1, <2>2, <2>3
<1>13. \A x \in Req : OnWire(req'[x]) /\ Whole(req'[x])
  BY <1>5, <1>6, <1>7 DEF DataInv
<1> QED BY <1>8, <1>12, <1>13 DEF DataInv

LEMMA InitData == Init => DataInv
<1> SUFFICES ASSUME Init PROVE DataInv
  OBVIOUS
<1>1. \A r \in Req : req[r] = Blank
  BY DEF Init
<1>2. OnWire(Blank) /\ Whole(Blank)
  BY NewBlock DEF Blank
<1>3. \A r \in Req : Failed(r)
  BY <1>1 DEF Failed, Blank
<1>4. \A x, y \in Req : Apart(x, y)
  BY <1>1, HttpConstants DEF Apart, Blank
<1> QED BY <1>1, <1>2, <1>3, <1>4 DEF DataInv

LEMMA NextData == IInv /\ IInv' /\ DataInv /\ [Next]_vars => DataInv'
<1> SUFFICES ASSUME IInv, IInv', DataInv, [Next]_vars PROVE DataInv'
  OBVIOUS
<1>1. \A x \in Call : calls[x] = 1 => calls'[x] = 1 /\ status'[x] = status[x]
  BY AnswerFinal
<1>2. Shape
  BY StepShape
<1>3. CASE UNCHANGED req
  <2>1. \A r \in Req : req[r].mem = "freed" => req[r].owner \in Call
    BY DEF IInv, Sound
  <2>2. \A r \in Req : Failed(r)'
    BY <1>1, <1>3, <2>1 DEF DataInv, Failed
  <2>3. \A x, y \in Req : Apart(x, y)'
    BY <1>3, RestApart DEF DataInv, Rests
  <2> QED BY <1>3, <2>2, <2>3 DEF DataInv
<1> QED
  BY <1>1, <1>2, <1>3, HandledData, BeganData, FollowedData DEF Shape

\* What goes out, what is kept of the responses and the hops of every call.
THEOREM DataInvariance == Spec => [](IInv /\ DataInv)
<1>1. Init => IInv /\ DataInv
  BY InitIInv, InitData
<1>2. (IInv /\ DataInv) /\ [Next]_vars => (IInv /\ DataInv)'
  BY NextIInv, NextData
<1> QED BY <1>1, <1>2, PTL DEF Spec

\* The body goes out at most once on a connection, and only when the head
\* announced it.
THEOREM BodyOnceAnnounced == Spec => []BodyAnnounced
<1>1. DataInv => BodyAnnounced
  BY DEF DataInv, OnWire, BodyAnnounced
<1> QED BY <1>1, DataInvariance, PTL

\* A response with a hole is reported as an error, and what can be read of a
\* response is what was received, in order.
THEOREM LossIsError == Spec => []LostMeansError
<1>1. IInv /\ DataInv => LostMeansError
  <2> SUFFICES ASSUME IInv, DataInv, NEW r \in Req
               PROVE  /\ req[r].lost /\ req[r].mem = "freed" =>
                             status[req[r].owner] = "error"
                      /\ Readable(req[r]) =>
                             \A i \in DOMAIN req[r].buf : req[r].buf[i] = i
    BY DEF LostMeansError
  <2>1. Failed(r) /\ Whole(req[r])
    BY DEF DataInv
  <2>2. DOMAIN req[r].buf = 1..Len(req[r].buf) /\ req[r].lost \in BOOLEAN
    BY DEF IInv, TypeOK, ReqState
  <2> QED BY <2>1, <2>2 DEF Failed, Whole
<1> QED BY <1>1, DataInvariance, PTL

\* A call makes at most REDIRECTION_FOLLOW_MAX + 1 connections: no two of its
\* blocks are on the same hop.
THEOREM BoundedHops == Spec => []HopsBounded
<1>1. IInv /\ DataInv => HopsBounded
  <2> SUFFICES ASSUME IInv, DataInv, NEW c \in Call
               PROVE  Cardinality({r \in Req : req[r].owner = c}) <= FollowMax + 1
    BY DEF HopsBounded
  <2> DEFINE S == {r \in Req : req[r].owner = c}
             f == [r \in S |-> req[r].follow]
  <2>1. f \in [S -> 0..FollowMax]
    BY DEF IInv, TypeOK, ReqState
  <2>2. ASSUME NEW x \in S, NEW y \in S, f[x] = f[y] PROVE x = y
    <3>1. Apart(x, y) /\ req[x].owner = c /\ req[y].owner = c
      BY DEF DataInv
    <3> QED BY <2>2, <3>1 DEF Apart
  <2>3. f \in Injection(S, 0..FollowMax)
    BY <2>1, <2>2 DEF Injection, IsInjective
  <2>4. /\ IsFiniteSet(0..FollowMax)
        /\ Cardinality(0..FollowMax) = FollowMax + 1
    BY FS_Interval, HttpConstants
  <2> HIDE DEF f, S
  <2>5. Cardinality(S) <= FollowMax + 1
    BY <2>3, <2>4, FS_Injection
  <2> QED BY <2>5 DEF S
<1> QED BY <1>1, DataInvariance, PTL
=============================================================================
