--------------------------- MODULE HttpdPostProofs ---------------------------
(***************************************************************************)
(* Proofs about HttpdPost, for every pool and every length of a body, and  *)
(* about FormParser, the parser it is an abstraction of, for every body    *)
(* and every size of the buffers.                                          *)
(***************************************************************************)
EXTENDS HttpdPost, FormParser, SequenceTheorems, WellFoundedInduction, TLAPS

\* The types of all but the timers, which no property of the requests looks at.
TypeCore ==
  /\ phase \in [Conns -> Phase]
  /\ content_length \in [Conns -> 0..MaxChunks]
  /\ return_code \in [Conns -> ReturnCode]
  /\ lock \in Conns \union {NULL}
  /\ state \in ParserState
  /\ config_ok \in BOOLEAN
  /\ posted \in BOOLEAN
  /\ own \in [Conns -> ParserState]
  /\ pending \in SUBSET Conns

TimerType == quiet \in [Conns -> BOOLEAN]

\* A connection that is not reading a body, or answering one it read, has not
\* used a parser.
UnusedIsInit ==
  \A s \in Conns : phase[s] \in {"free", "request"} =>
                     own[s] = "INIT" /\ return_code[s] = "NONE"

\* A connection in its body still has chunks to come and no error so far.
BodyUnderway ==
  \A s \in Conns : phase[s] = "body" =>
                     content_length[s] > 0 /\ return_code[s] = "OK"

\* The inductive invariant: the three properties hold together because a body
\* is read only by the holder of the lock, who starts from a fresh parser.
IInv ==
  /\ TypeCore
  /\ UnusedIsInit
  /\ BodyUnderway
  /\ ParserBelongsToReader
  /\ AnswerMatchesBody
  /\ AppliedNotForgotten
  /\ LockSoundIfReliable

------------------------------------------------------------------------------
\* The parser stays within its states.
LEMMA AfterChunkType ==
  ASSUME NEW p \in ParserState, NEW c \in Chunk
  PROVE  AfterChunk(p, c) \in ParserState
BY DEF AfterChunk, ParserState, Chunk

\* The answer to a body is 302 or 400, and 302 for a parser at MORE only.
LEMMA BodyCodeType ==
  ASSUME NEW p \in ParserState
  PROVE  BodyCode(p) \in {"OK", "BR"} /\ (BodyCode(p) = "OK" <=> p = "MORE")
BY DEF BodyCode

\* Initially every element is free and the parser fresh.
LEMMA InitInv == Init => IInv
<1> SUFFICES ASSUME Init PROVE IInv
  OBVIOUS
<1>1. TypeCore
  <2>1. config_ok \in BOOLEAN /\ posted \in BOOLEAN
    BY DEF Init
  <2>2. content_length \in [Conns -> 0..MaxChunks]
    BY ChunksAssumption DEF Init
  <2>3. QED
    BY <2>1, <2>2 DEF Init, TypeCore, Phase, ReturnCode, ParserState
<1>2. UnusedIsInit /\ BodyUnderway /\ ParserBelongsToReader /\ AnswerMatchesBody
  BY DEF Init, UnusedIsInit, BodyUnderway, ParserBelongsToReader,
         AnswerMatchesBody
<1>3. AppliedNotForgotten /\ LockSoundIfReliable
  BY DEF Init, AppliedNotForgotten, LockSoundIfReliable, LockHeldByReader
<1>4. QED
  BY <1>1, <1>2, <1>3 DEF IInv

\* Freeing an element.  Without failures only a connection that has answered is
\* freed, and that one does not hold the lock.
LEMMA FreeInv ==
  ASSUME NEW s \in Conns, IInv, Free(s), s \in Unreliable \/ phase[s] = "closing"
  PROVE  IInv'
BY ConnsAssumption, ChunksAssumption, PeerAssumption
   DEF Free, IInv, TypeCore, UnusedIsInit, BodyUnderway, ParserBelongsToReader,
       AnswerMatchesBody, AppliedNotForgotten, LockSoundIfReliable,
       LockHeldByReader, Phase, ReturnCode, ParserState

\* The end of a POST keeps the flag and the unannounced pairs in step.
LEMMA FinishFlag ==
  ASSUME NEW s, NEW l, NEW rc, NEW added,
         AppliedNotForgotten, FinishPost(s, l, rc, added)
  PROVE  AppliedNotForgotten' /\ pending' = {} /\ posted' \in BOOLEAN
BY DEF FinishPost, AppliedNotForgotten

\* The tail of handle_input() run by a connection that does not hold the lock.
LEMMA FinishWithoutLock ==
  ASSUME NEW s \in Conns, IInv, phase[s] = "request",
         NEW rc \in {"LR", "TL", "SU"},
         FinishPost(s, lock, rc, {}), UNCHANGED <<state, own>>
  PROVE  IInv'
<1>1. /\ lock' = Released(lock, s)
      /\ phase' = [phase EXCEPT ![s] = "output"]
      /\ return_code' = [return_code EXCEPT ![s] = rc]
      /\ content_length' = [content_length EXCEPT ![s] = 0]
      /\ config_ok' = FALSE
  BY DEF FinishPost
<1>2. AppliedNotForgotten' /\ pending' = {} /\ posted' \in BOOLEAN
  BY FinishFlag DEF IInv
<1>3. TypeCore'
  <2>1. config_ok' \in BOOLEAN /\ lock' \in Conns \union {NULL}
    BY <1>1 DEF IInv, TypeCore, Released
  <2>2. content_length' \in [Conns -> 0..MaxChunks]
    BY <1>1, ChunksAssumption DEF IInv, TypeCore
  <2>3. /\ phase' \in [Conns -> Phase]
        /\ return_code' \in [Conns -> ReturnCode]
    BY <1>1 DEF IInv, TypeCore, Phase, ReturnCode
  <2>4. QED
    BY <1>2, <2>1, <2>2, <2>3 DEF IInv, TypeCore
<1>4. (UnusedIsInit /\ BodyUnderway /\ AnswerMatchesBody)'
  BY <1>1, <1>2 DEF IInv, TypeCore, UnusedIsInit, BodyUnderway, AnswerMatchesBody
<1>5. (ParserBelongsToReader /\ LockSoundIfReliable)'
  BY <1>1, ConnsAssumption
     DEF IInv, TypeCore, ParserBelongsToReader, LockSoundIfReliable,
         LockHeldByReader, Released
<1>6. QED
  BY <1>2, <1>3, <1>4, <1>5 DEF IInv

\* A POST that obtains the lock begins its body with a fresh parser.
LEMMA PostInv == ASSUME NEW s \in Conns, IInv, Post(s) PROVE IInv'
<1>1. CASE FinishPost(s, s, "BR", {}) /\ state' = "INIT" /\ UNCHANGED own
  BY <1>1, ConnsAssumption, ChunksAssumption, PeerAssumption, ZenonT(40)
     DEF Post, Obtained, FinishPost, Released, IInv, TypeCore, UnusedIsInit,
         BodyUnderway, ParserBelongsToReader, AnswerMatchesBody,
         AppliedNotForgotten, LockSoundIfReliable, LockHeldByReader, Phase,
         ReturnCode, ParserState
<1>2. ASSUME NEW n \in 1..MaxChunks, lock' = s,
             phase' = [phase EXCEPT ![s] = "body"],
             return_code' = [return_code EXCEPT ![s] = "OK"],
             content_length' = [content_length EXCEPT ![s] = n],
             UNCHANGED <<config_ok, posted, pending, own>>
      PROVE  IInv'
  BY <1>2, ConnsAssumption, ChunksAssumption, PeerAssumption
     DEF Post, Obtained, IInv, TypeCore, UnusedIsInit, BodyUnderway,
         ParserBelongsToReader, AnswerMatchesBody, AppliedNotForgotten,
         LockSoundIfReliable, LockHeldByReader, Phase, ReturnCode, ParserState
<1>3. QED
  BY <1>1, <1>2, ChunksAssumption DEF Post

\* A chunk does to the shared parser what it would do to the connection's own.
LEMMA ReadChunkInv == ASSUME NEW s \in Conns, IInv, ReadChunk(s) PROVE IInv'
<1> DEFINE left    == content_length[s] - 1
           next(c) == AfterChunk(state, c)
           added(c) == IF Accepts(state, c) THEN {s} ELSE {}
<1>1. PICK c \in Chunk :
        /\ state' = next(c)
        /\ own' = [own EXCEPT ![s] = AfterChunk(own[s], c)]
        /\ IF BodyDone(next(c), left)
           THEN FinishPost(s, lock, BodyCode(next(c)), added(c))
           ELSE /\ config_ok' = (config_ok \/ added(c) # {})
                /\ pending' = pending \union added(c)
                /\ content_length' = [content_length EXCEPT ![s] = left]
                /\ UNCHANGED <<phase, lock, return_code, posted>>
  BY DEF ReadChunk
<1>2. phase[s] = "body" /\ lock = s /\ state = own[s] /\ state \in ParserState
  BY DEF ReadChunk, IInv, ParserBelongsToReader, TypeCore
<1>3. next(c) \in ParserState /\ own' = [own EXCEPT ![s] = next(c)]
  BY <1>1, <1>2, AfterChunkType
<1>4. BodyCode(next(c)) \in {"OK", "BR"}
      /\ (BodyCode(next(c)) = "OK" <=> next(c) = "MORE")
  BY <1>3, BodyCodeType
<1>5. added(c) \subseteq Conns
  OBVIOUS
<1> HIDE DEF next, added
<1>6. CASE BodyDone(next(c), left)
  <2>1. FinishPost(s, lock, BodyCode(next(c)), added(c))
    BY <1>1, <1>6
  <2>2. /\ lock' = NULL
        /\ phase' = [phase EXCEPT ![s] = "output"]
        /\ return_code' = [return_code EXCEPT ![s] = BodyCode(next(c))]
        /\ content_length' = [content_length EXCEPT ![s] = 0]
        /\ config_ok' = FALSE
    BY <1>2, <2>1 DEF FinishPost, Released
  <2>3. AppliedNotForgotten' /\ pending' = {} /\ posted' \in BOOLEAN
    BY <2>1, FinishFlag DEF IInv
  <2>4. TypeCore'
    <3>1. config_ok' \in BOOLEAN
      BY <2>2
    <3>2. content_length' \in [Conns -> 0..MaxChunks]
      BY <2>2, ChunksAssumption DEF IInv, TypeCore
    <3>3. /\ phase' \in [Conns -> Phase]
          /\ return_code' \in [Conns -> ReturnCode]
          /\ own' \in [Conns -> ParserState]
      BY <1>3, <1>4, <2>2 DEF IInv, TypeCore, Phase, ReturnCode
    <3>4. QED
      BY <1>1, <1>3, <2>2, <2>3, <3>1, <3>2, <3>3 DEF IInv, TypeCore
  <2>5. (UnusedIsInit /\ BodyUnderway /\ AnswerMatchesBody)'
    BY <1>2, <1>3, <1>4, <2>2
       DEF IInv, TypeCore, UnusedIsInit, BodyUnderway, AnswerMatchesBody
  <2>6. (ParserBelongsToReader /\ LockSoundIfReliable)'
    BY <1>2, <2>2, ConnsAssumption
       DEF IInv, TypeCore, ParserBelongsToReader, LockSoundIfReliable,
           LockHeldByReader
  <2>7. QED
    BY <2>3, <2>4, <2>5, <2>6 DEF IInv
<1>7. CASE ~ BodyDone(next(c), left)
  <2>1. left \in 1..MaxChunks
    BY <1>2, <1>7, ChunksAssumption DEF BodyDone, IInv, TypeCore, BodyUnderway
  <2>2. /\ config_ok' = (config_ok \/ added(c) # {})
        /\ pending' = pending \union added(c)
        /\ content_length' = [content_length EXCEPT ![s] = left]
        /\ UNCHANGED <<phase, lock, return_code, posted>>
    BY <1>1, <1>7
  <2>3. AppliedNotForgotten'
    BY <2>2 DEF IInv, AppliedNotForgotten
  <2>4. TypeCore'
    <3>1. config_ok' \in BOOLEAN /\ posted' \in BOOLEAN
      BY <2>2 DEF IInv, TypeCore
    <3>2. QED
      BY <1>1, <1>3, <1>5, <2>1, <2>2, <3>1, ChunksAssumption DEF IInv, TypeCore
  <2>5. (UnusedIsInit /\ BodyUnderway /\ AnswerMatchesBody)'
    BY <1>2, <1>3, <2>1, <2>2
       DEF IInv, TypeCore, UnusedIsInit, BodyUnderway, AnswerMatchesBody
  <2>6. (ParserBelongsToReader /\ LockSoundIfReliable)'
    BY <1>1, <1>2, <1>3, <2>2, ConnsAssumption
       DEF IInv, TypeCore, ParserBelongsToReader, LockSoundIfReliable,
           LockHeldByReader
  <2>7. QED
    BY <2>3, <2>4, <2>5, <2>6 DEF IInv
<1>8. QED
  BY <1>6, <1>7

\* Steps that only move a connection on, touching neither lock nor parser.
LEMMA MoveInv ==
  ASSUME NEW s \in Conns, IInv, Connect(s) \/ Get(s) \/ BadRequestLine(s) \/ Answer(s)
  PROVE  IInv'
BY ConnsAssumption, ChunksAssumption, PeerAssumption
   DEF Connect, Get, BadRequestLine, Answer, IInv, TypeCore, UnusedIsInit,
       BodyUnderway, ParserBelongsToReader, AnswerMatchesBody,
       AppliedNotForgotten, LockSoundIfReliable, LockHeldByReader, Phase,
       ReturnCode, ParserState

\* Time and the timers do not touch the requests.
LEMMA TimerInv ==
  ASSUME IInv, NEW s \in Conns, TimePasses(s) \/ Dribble(s)
  PROVE  IInv'
BY DEF TimePasses, Dribble, IInv, TypeCore, UnusedIsInit, BodyUnderway,
   ParserBelongsToReader, AnswerMatchesBody, AppliedNotForgotten,
   LockSoundIfReliable, LockHeldByReader

\* No step breaks the invariant.
LEMMA NextInv == IInv /\ [Next]_vars => IInv'
<1> SUFFICES ASSUME IInv, [Next]_vars PROVE IInv'
  OBVIOUS
<1>1. CASE UNCHANGED vars
  BY <1>1 DEF vars, IInv, TypeCore, UnusedIsInit, BodyUnderway,
     ParserBelongsToReader, AnswerMatchesBody, AppliedNotForgotten,
     LockSoundIfReliable, LockHeldByReader
<1>2. CASE Deliver
  BY <1>2 DEF Deliver, IInv, TypeCore, UnusedIsInit, BodyUnderway,
     ParserBelongsToReader, AnswerMatchesBody, AppliedNotForgotten,
     LockSoundIfReliable, LockHeldByReader
<1>3. ASSUME NEW s \in Conns,
             Connect(s) \/ Serve(s) \/ TimePasses(s) \/ Dribble(s) \/ PollTimeout(s)
      PROVE  IInv'
  <2>1. CASE Connect(s) \/ Get(s) \/ BadRequestLine(s) \/ Answer(s)
    BY <2>1, MoveInv
  <2>2. CASE PostWithoutBody(s)
    BY <2>2, FinishWithoutLock DEF PostWithoutBody
  <2>3. CASE Post(s)
    BY <2>3, PostInv
  <2>4. CASE PostWhileLocked(s)
    BY <2>4, FinishWithoutLock DEF PostWhileLocked
  <2>5. CASE ReadChunk(s)
    BY <2>5, ReadChunkInv
  <2>6. CASE Terminate(s)
    BY <2>6, FreeInv DEF Terminate
  <2>7. CASE PollTimeout(s)
    BY <2>7, FreeInv DEF PollTimeout, AtWork
  <2>8. QED
    BY <1>3, <2>1, <2>2, <2>3, <2>4, <2>5, <2>6, <2>7, TimerInv DEF Serve
<1>4. QED
  BY <1>1, <1>2, <1>3 DEF Next

------------------------------------------------------------------------------
\* So it holds throughout.
LEMMA Invariance == Spec => []IInv
BY InitInv, NextInv, PTL DEF Spec

\* Every variable keeps its type; in particular the count of what is left of a
\* body never runs below zero.
THEOREM TypeCorrect == Spec => []TypeOK
<1>1. IInv => TypeCore
  BY DEF IInv
<1>2. TypeOK <=> TypeCore /\ TimerType
  BY DEF TypeOK, TypeCore, TimerType
<1>3. Init => TimerType
  BY DEF Init, TimerType
<1>4. TimerType /\ [Next]_vars => TimerType'
  <2> SUFFICES ASSUME TimerType, [Next]_vars PROVE TimerType'
    OBVIOUS
  <2>1. CASE UNCHANGED quiet
    BY <2>1 DEF TimerType
  <2>2. ASSUME NEW s \in Conns,
               Connect(s) \/ Serve(s) \/ TimePasses(s) \/ Dribble(s) \/ PollTimeout(s)
        PROVE  TimerType'
    <3>1. quiet' \in {[quiet EXCEPT ![s] = FALSE], [quiet EXCEPT ![s] = TRUE]}
      BY <2>2 DEF Connect, Serve, TimePasses, Dribble, PollTimeout, Restarted
    <3>2. QED
      BY <3>1 DEF TimerType
  <2>3. QED
    BY <2>1, <2>2 DEF Next, Deliver, vars
<1>5. QED
  BY <1>1, <1>2, <1>3, <1>4, Invariance, PTL DEF Spec

\* The shared static parser behaves like one parser per connection.
THEOREM ParserOwnership == Spec => []ParserBelongsToReader
<1>1. IInv => ParserBelongsToReader
  BY DEF IInv
<1>2. QED
  BY <1>1, Invariance, PTL

\* At most one connection is ever inside the body loop: the lock is mutual
\* exclusion although it leaks.
THEOREM OneReader ==
  Spec => [](\A s, t \in Conns : phase[s] = "body" /\ phase[t] = "body" => s = t)
<1>1. IInv => \A s, t \in Conns : phase[s] = "body" /\ phase[t] = "body" => s = t
  BY DEF IInv, ParserBelongsToReader
<1>2. QED
  BY <1>1, Invariance, PTL

\* The answer to a POST tells whether its own body was accepted.
THEOREM AnswerSound == Spec => []AnswerMatchesBody
<1>1. IInv => AnswerMatchesBody
  BY DEF IInv
<1>2. QED
  BY <1>1, Invariance, PTL

\* Applied and unannounced pairs, and only those, keep the flag set.
THEOREM FlagSound == Spec => []AppliedNotForgotten
<1>1. IInv => AppliedNotForgotten
  BY DEF IInv
<1>2. QED
  BY <1>1, Invariance, PTL

\* With peers that see their requests through, the lock does not leak.
THEOREM LockSound == Spec => []LockSoundIfReliable
<1>1. IInv => LockSoundIfReliable
  BY DEF IInv
<1>2. QED
  BY <1>1, Invariance, PTL

\* Leaving the body loop announces whatever has been applied.
THEOREM EveryFinishAnnounces == Spec => FinishAnnounces
<1> DEFINE A == \A s \in Conns : phase[s] = "body" /\ phase'[s] = "output" =>
                  /\ pending' = {}
                  /\ (config_ok \/ pending # {}) => posted'
<1>1. IInv /\ [Next]_vars => [A]_vars
  <2> SUFFICES ASSUME IInv, Next, NEW s \in Conns,
                      phase[s] = "body", phase'[s] = "output"
               PROVE  pending' = {} /\ ((config_ok \/ pending # {}) => posted')
    OBVIOUS
  <2>1. AppliedNotForgotten /\ TypeCore
    BY DEF IInv
  <2>2. PICK t \in Conns :
          Connect(t) \/ Serve(t) \/ TimePasses(t) \/ Dribble(t) \/ PollTimeout(t)
    BY DEF Next, Deliver
  <2>3. CASE t = s
    <3>1. ReadChunk(s)
      BY <2>1, <2>2, <2>3 DEF Connect, Serve, Get, BadRequestLine,
         PostWithoutBody, Post, PostWhileLocked, Answer, Terminate, TimePasses,
         Dribble, PollTimeout, Free, TypeCore
    <3>2. PICK rc, added : FinishPost(s, lock, rc, added)
      BY <3>1 DEF ReadChunk
    <3>3. QED
      BY <2>1, <3>2 DEF FinishPost, AppliedNotForgotten
  <2>4. CASE t # s
    <3>1. phase'[s] = phase[s]
      BY <2>1, <2>2, <2>4 DEF Connect, Serve, Get, BadRequestLine,
         PostWithoutBody, Post, PostWhileLocked, ReadChunk, FinishPost, Answer,
         Terminate, TimePasses, Dribble, PollTimeout, Free, TypeCore
    <3>2. QED
      BY <3>1
  <2>5. QED
    BY <2>3, <2>4
<1>2. QED
  BY <1>1, Invariance, PTL DEF Spec, FinishAnnounces

\* What the other processes rely on: to them the server is FormEvents, a flag
\* that acceptances raise and the end of a POST announces and lowers.
THEOREM ImplementsFormEvents == Spec => AnnouncesForms
<1>1. Init => Form!Init
  BY DEF Init, Form!Init
<1>2. ASSUME NEW s, NEW l, NEW rc, NEW added, FinishPost(s, l, rc, added)
      PROVE  Form!Finish
  BY <1>2 DEF FinishPost, Form!Finish
<1>3. ASSUME TypeOK, [Next]_vars
      PROVE  [Form!Next]_<<config_ok, posted>>
  <2>1. CASE Deliver
    BY <2>1 DEF Deliver, Form!Next, Form!Deliver
  <2>2. ASSUME NEW s \in Conns,
               Connect(s) \/ Serve(s) \/ TimePasses(s) \/ Dribble(s) \/ PollTimeout(s)
        PROVE  [Form!Next]_<<config_ok, posted>>
    <3>1. CASE Connect(s) \/ Get(s) \/ BadRequestLine(s) \/ Answer(s)
      BY <3>1 DEF Connect, Get, BadRequestLine, Answer
    <3>2. CASE Terminate(s) \/ PollTimeout(s)
      BY <3>2 DEF Terminate, PollTimeout, Free
    <3>3. CASE PostWithoutBody(s) \/ PostWhileLocked(s)
      BY <3>3, <1>2 DEF PostWithoutBody, PostWhileLocked, Form!Next
    <3>4. CASE Post(s)
      BY <3>4, <1>2 DEF Post, Form!Next
    <3>5. CASE ReadChunk(s)
      <4>1. PICK c \in Chunk :
              LET added == IF Accepts(state, c) THEN {s} ELSE {}
                  next  == AfterChunk(state, c)
              IN \/ FinishPost(s, lock, BodyCode(next), added)
                 \/ config_ok' = (config_ok \/ added # {}) /\ UNCHANGED posted
        BY <3>5, Zenon DEF ReadChunk
      <4>2. CASE config_ok' = TRUE /\ UNCHANGED posted
        BY <4>2 DEF Form!Next, Form!Accept
      <4>3. CASE UNCHANGED <<config_ok, posted>>
        BY <4>3
      <4>4. ASSUME NEW added, FinishPost(s, lock, BodyCode(AfterChunk(state, c)), added)
            PROVE  Form!Next
        BY <4>4, <1>2 DEF Form!Next
      <4>5. config_ok \in BOOLEAN
        BY <1>3 DEF TypeOK
      <4>6. QED
        BY <4>1, <4>2, <4>3, <4>4, <4>5
    <3>6. CASE TimePasses(s) \/ Dribble(s)
      BY <3>6 DEF TimePasses, Dribble
    <3>7. QED
      BY <2>2, <3>1, <3>2, <3>3, <3>4, <3>5, <3>6 DEF Serve
  <2>3. CASE UNCHANGED vars
    BY <2>3 DEF vars
  <2>4. QED
    BY <1>3, <2>1, <2>2, <2>3 DEF Next
<1>4. QED
  BY <1>1, <1>3, TypeCorrect, PTL DEF Spec, AnnouncesForms, Form!Spec

------------------------------------------------------------------------------
(* The parser.  First: induction over its loops, and texts.                 *)

\* The order of the natural numbers.
LEMMA SmallestOf ==
  ASSUME NEW S \in SUBSET Nat, S # {}
  PROVE  \E n \in S : \A k \in S : n <= k
<1> DEFINE R == OpToRel(<, Nat)
<1>1. PICK n \in S : \A k \in S : ~(<<k, n>> \in R)
  BY NatLessThanWellFounded, WFMin, Zenon
<1>2. ASSUME NEW k \in S PROVE n <= k
  <2>1. ~(<<k, n>> \in R)
    BY <1>1
  <2>2. k \in Nat /\ n \in Nat
    OBVIOUS
  <2>3. ~(k < n)
    BY <2>1, <2>2 DEF OpToRel
  <2>4. QED
    BY <2>2, <2>3
<1>3. QED
  BY <1>2

\* Min() chooses that one.
LEMMA MinIs ==
  ASSUME NEW S \in SUBSET Nat, S # {}
  PROVE  Min(S) \in S /\ \A k \in S : Min(S) <= k
BY SmallestOf DEF Min

\* Induction over the steps of a loop, for the set of those where a fact holds.
LEMMA EveryStep ==
  ASSUME NEW n \in Nat, NEW G, 0 \in G, \A i \in 1..n : i - 1 \in G => i \in G
  PROVE  \A i \in 0..n : i \in G
<1> DEFINE Bad == {i \in 0..n : i \notin G}
<1>1. SUFFICES ASSUME Bad # {} PROVE FALSE
  OBVIOUS
<1>2. Bad \in SUBSET Nat
  OBVIOUS
<1>3. PICK m \in Bad : \A k \in Bad : m <= k
  <2> HIDE DEF Bad
  <2>1. QED
    BY <1>1, <1>2, SmallestOf
<1>4. m \in 1..n /\ m - 1 \in 0..n /\ ~(m <= m - 1)
  BY <1>3
<1>5. QED
  BY <1>3, <1>4

\* The characters of a body and of the buffers.
Letters == Chars \union {NUL, QUOTE, "other", " ", "2"}
Text    == Seq(Letters)

\* The empty text, a text of one character, and texts put together.
LEMMA EmptyOne ==
  /\ <<>> \in Text /\ Len(<<>>) = 0
  /\ \A c \in Letters : <<c>> \in Text /\ Len(<<c>>) = 1
  /\ \A s \in Text, t \in Text : s \o t \in Text /\ Len(s \o t) = Len(s) + Len(t)
  /\ \A s \in Text : Len(s) \in Nat /\ DOMAIN s = 1..Len(s)
                     /\ \A i \in 1..Len(s) : s[i] \in Letters
<1>1. <<>> \in Text /\ Len(<<>>) = 0
  BY DEF Text
<1>2. \A c \in Letters : <<c>> \in Text /\ Len(<<c>>) = 1
  BY DEF Text
<1>3. \A s \in Text, t \in Text : s \o t \in Text /\ Len(s \o t) = Len(s) + Len(t)
  BY ConcatProperties DEF Text
<1>4. \A s \in Text : Len(s) \in Nat /\ DOMAIN s = 1..Len(s)
                     /\ \A i \in 1..Len(s) : s[i] \in Letters
  BY LenProperties, ElementOfSeq DEF Text
<1>5. QED
  BY <1>1, <1>2, <1>3, <1>4

------------------------------------------------------------------------------
\* The function that url_unescape() is defined with: there is one, as from the end
\* of the text on it can be continued to the beginning.
LEMMA UnescapeExists ==
  ASSUME NEW src, NEW n \in Nat
  PROVE  \E f : f = [i \in 0..(n + 2) |->
           IF i >= n THEN <<>> ELSE <<CharAt(src, i)>> \o f[After(src, i)]]
<1> DEFINE From(f, m) == f = [i \in m..(n + 2) |->
             IF i >= n THEN <<>> ELSE <<CharAt(src, i)>> \o f[After(src, i)]]
           G == {k \in 0..n : \E f : From(f, n - k)}
<1>1. 0 \in G
  <2> DEFINE f == [i \in n..(n + 2) |-> <<>>]
  <2>1. From(f, n)
    OBVIOUS
  <2> HIDE DEF From
  <2>2. n - 0 = n
    OBVIOUS
  <2>3. QED
    BY <2>1, <2>2
<1>2. ASSUME NEW k \in 1..n, k - 1 \in G PROVE k \in G
  <2> DEFINE m == n - k
  <2>1. PICK g : From(g, m + 1)
    <3>1. n - (k - 1) = m + 1
      OBVIOUS
    <3> HIDE DEF From
    <3>2. QED
      BY <1>2, <3>1
  <2> DEFINE first == <<CharAt(src, m)>> \o g[After(src, m)]
             f == [i \in m..(n + 2) |-> IF i = m THEN first ELSE g[i]]
  <2>2. m \in Nat /\ m < n
    OBVIOUS
  <2> HIDE DEF m
  <2>3. ASSUME NEW i \in m..(n + 2)
        PROVE  f[i] = IF i >= n THEN <<>> ELSE <<CharAt(src, i)>> \o f[After(src, i)]
    <3>1. ASSUME i < n
          PROVE  After(src, i) \in (m + 1)..(n + 2) /\ f[After(src, i)] = g[After(src, i)]
      <4>1. After(src, i) \in {i + 1, i + 3}
        BY DEF After
      <4>2. After(src, i) \in (m + 1)..(n + 2)
        BY <2>2, <3>1, <4>1
      <4>3. After(src, i) # m /\ After(src, i) \in m..(n + 2)
        BY <2>2, <4>2
      <4>4. QED
        BY <4>2, <4>3
    <3>2. CASE i = m
      BY <2>2, <3>1, <3>2
    <3>3. CASE i # m
      <4>1. i \in (m + 1)..(n + 2)
        BY <2>2, <3>3
      <4>2. g[i] = IF i >= n THEN <<>> ELSE <<CharAt(src, i)>> \o g[After(src, i)]
        BY <2>1, <4>1
      <4>3. f[i] = g[i]
        BY <3>3
      <4> HIDE DEF f
      <4>4. QED
        BY <2>2, <3>1, <4>2, <4>3
    <3>4. QED
      BY <3>2, <3>3
  <2>4. f = [i \in m..(n + 2) |-> f[i]]
    OBVIOUS
  <2> HIDE DEF f
  <2>5. From(f, m)
    BY <2>3, <2>4
  <2> HIDE DEF From
  <2>6. QED
    BY <2>5 DEF m
<1>3. n \in G
  <2> HIDE DEF G
  <2>1. \A i \in 0..n : i \in G
    BY <1>1, <1>2, EveryStep
  <2>2. QED
    BY <2>1
<1>4. PICK f : From(f, 0)
  <2> HIDE DEF From
  <2>1. n - n = 0
    OBVIOUS
  <2>2. QED
    BY <1>3, <2>1
<1>5. QED
  BY <1>4

\* What that function says: the text from character i on.
LEMMA UnescapeFrom ==
  ASSUME NEW src, NEW n \in Nat
  PROVE  \E f : /\ url_unescape(src, n) = f[0]
                /\ \A i \in 0..(n + 2) : f[i] =
                     IF i >= n THEN <<>> ELSE <<CharAt(src, i)>> \o f[After(src, i)]
<1> DEFINE f == CHOOSE f : f = [i \in 0..(n + 2) |->
             IF i >= n THEN <<>> ELSE <<CharAt(src, i)>> \o f[After(src, i)]]
<1>1. f = [i \in 0..(n + 2) |->
             IF i >= n THEN <<>> ELSE <<CharAt(src, i)>> \o f[After(src, i)]]
  BY UnescapeExists, Zenon
<1>2. url_unescape(src, n) = f[0]
  BY DEF url_unescape
<1> HIDE DEF f
<1>3. \A i \in 0..(n + 2) : f[i] =
        IF i >= n THEN <<>> ELSE <<CharAt(src, i)>> \o f[After(src, i)]
  BY <1>1
<1>4. QED
  BY <1>2, <1>3

\* Those are texts, and not longer than what they come from.
Unescapes(f, src, n) ==
  /\ url_unescape(src, n) = f[0]
  /\ \A i \in 0..(n + 2) : f[i] =
       IF i >= n THEN <<>> ELSE <<CharAt(src, i)>> \o f[After(src, i)]
  /\ \A i \in 0..(n + 2) : f[i] \in Text /\ Len(f[i]) <= IF i < n THEN n - i ELSE 0

\* There is such a function for every buffer and length.
LEMMA UnescapeTexts ==
  ASSUME NEW m \in Nat, NEW src \in [0..m -> Letters], NEW n \in 0..m
  PROVE  \E f : Unescapes(f, src, n)
<1>0. n \in Nat
  OBVIOUS
<1>1. PICK f : /\ url_unescape(src, n) = f[0]
               /\ \A i \in 0..(n + 2) : f[i] =
                     IF i >= n THEN <<>> ELSE <<CharAt(src, i)>> \o f[After(src, i)]
  BY <1>0, UnescapeFrom
<1> DEFINE Ok(i) == f[i] \in Text /\ Len(f[i]) <= IF i < n THEN n - i ELSE 0
           G == {k \in 0..n : \A i \in (n - k)..(n + 2) : Ok(i)}
<1>2. 0 \in G
  <2>1. ASSUME NEW i \in n..(n + 2) PROVE Ok(i)
    <3>1. f[i] = <<>>
      <4>1. i \in 0..(n + 2) /\ i >= n
        BY <1>0
      <4>2. QED
        BY <1>1, <4>1
    <3>2. QED
      BY <3>1, EmptyOne
  <2>2. n - 0 = n
    BY <1>0
  <2> HIDE DEF Ok
  <2>3. QED
    BY <1>0, <2>1, <2>2
<1>3. ASSUME NEW k \in 1..n, k - 1 \in G PROVE k \in G
  <2> DEFINE i == n - k
  <2>1. i \in Nat /\ i < n /\ i \in 0..(n + 2) /\ i \in 0..m /\ n - (k - 1) = i + 1
    OBVIOUS
  <2>2. \A j \in (i + 1)..(n + 2) : Ok(j)
    <3> HIDE DEF Ok
    <3>1. QED
      BY <1>3, <2>1
  <2> HIDE DEF i
  <2>3. PICK a : a = After(src, i)
    OBVIOUS
  <2>4. a \in {i + 1, i + 3} /\ a \in (i + 1)..(n + 2)
    BY <2>1, <2>3 DEF After
  <2>5. CharAt(src, i) \in Letters
    <3>1. src[i] \in Letters
      BY <2>1
    <3>2. \A x, y : Decode(x, y) \in Letters
      BY DEF Decode, Letters
    <3>3. QED
      BY <3>1, <3>2 DEF CharAt, Letters
  <2>6. f[i] = <<CharAt(src, i)>> \o f[a]
    <3>1. i \in 0..(n + 2) /\ ~(i >= n)
      BY <1>0, <2>1
    <3>2. f[i] = <<CharAt(src, i)>> \o f[After(src, i)]
      BY <1>1, <3>1
    <3>3. QED
      BY <2>3, <3>2
  <2>7. f[a] \in Text /\ Len(f[a]) <= IF a < n THEN n - a ELSE 0
    BY <2>2, <2>4
  <2>8. PICK c \in Text : c = <<CharAt(src, i)>> /\ Len(c) = 1
    BY <2>5, EmptyOne
  <2>9. f[i] \in Text /\ Len(f[i]) = 1 + Len(f[a]) /\ Len(f[a]) \in Nat
    BY <2>6, <2>7, <2>8, EmptyOne
  <2>10. Ok(i)
    BY <1>0, <2>1, <2>4, <2>7, <2>9
  <2>11. \A j \in i..(n + 2) : Ok(j)
    <3> HIDE DEF Ok
    <3>1. QED
      BY <2>1, <2>2, <2>10
  <2> HIDE DEF Ok
  <2>12. QED
    BY <2>11 DEF i
<1>4. \A i \in 0..(n + 2) : Ok(i)
  <2> HIDE DEF G
  <2>1. n \in G
    BY <1>0, <1>2, <1>3, EveryStep, SMTT(30)
  <2> HIDE DEF Ok
  <2>2. n - n = 0
    BY <1>0
  <2>3. QED
    BY <2>1, <2>2 DEF G
<1>5. QED
  BY <1>1, <1>4 DEF Unescapes

\* Unescaping makes no text longer.
LEMMA UnescapeType ==
  ASSUME NEW m \in Nat, NEW src \in [0..m -> Letters], NEW n \in 0..m
  PROVE  url_unescape(src, n) \in Text /\ Len(url_unescape(src, n)) <= n
<1>1. PICK f : Unescapes(f, src, n)
  BY UnescapeTexts
<1>2. 0 \in 0..(n + 2) /\ (0 < n => n - 0 = n) /\ (~(0 < n) => n = 0)
  OBVIOUS
<1>3. f[0] \in Text /\ Len(f[0]) <= n
  BY <1>1, <1>2 DEF Unescapes
<1>4. QED
  BY <1>1, <1>3 DEF Unescapes

------------------------------------------------------------------------------
(* The parser keeps its buffers, whatever the character.                    *)

\* What the assumptions on the constants say of the buffers.
LEMMA Buffers ==
  /\ PARSE_POST_BUF_SIZES \in Nat /\ PARSE_POST_BUF_SIZES > 2
  /\ PARSE_POST_MAX_POS = PARSE_POST_BUF_SIZES - 2
  /\ DOMAIN Blank = 0..(PARSE_POST_BUF_SIZES - 1)
  /\ Blank \in [0..(PARSE_POST_BUF_SIZES - 1) -> Letters]
  /\ Blank[PARSE_POST_BUF_SIZES - 1] = NUL
  /\ Chars \subseteq Letters
  /\ Seq(Chars) \subseteq Text
  /\ KnownKey \in Text /\ Len(KnownKey) < PARSE_POST_BUF_SIZES
<1>1. /\ PARSE_POST_BUF_SIZES \in Nat /\ PARSE_POST_BUF_SIZES > 2
      /\ PARSE_POST_MAX_POS = PARSE_POST_BUF_SIZES - 2
  BY BufferAssumption DEF PARSE_POST_MAX_POS
<1>2. /\ DOMAIN Blank = 0..(PARSE_POST_BUF_SIZES - 1)
      /\ Blank \in [0..(PARSE_POST_BUF_SIZES - 1) -> Letters]
      /\ Blank[PARSE_POST_BUF_SIZES - 1] = NUL
  BY <1>1 DEF Blank, Letters
<1>3. Chars \subseteq Letters
  BY DEF Letters
<1>4. ASSUME NEW s \in Seq(Chars) PROVE s \in Text
  BY <1>3, <1>4, SeqMonotonic DEF Text
<1>5. QED
  BY <1>1, <1>2, <1>3, <1>4, KeyAssumption

\* UpTo() cuts a text short or leaves it as it is.
LEMMA UpToType ==
  ASSUME NEW s \in Text, NEW c
  PROVE  UpTo(c, s) \in Text /\ Len(UpTo(c, s)) <= Len(s)
<1> DEFINE found == Position(c, s)
           first == Min(found)
<1>0. Len(s) \in Nat /\ DOMAIN s = 1..Len(s) /\ \A i \in 1..Len(s) : s[i] \in Letters
  BY EmptyOne
<1>1. CASE found = {}
  BY <1>0, <1>1 DEF UpTo
<1>2. CASE found # {}
  <2>1. found \in SUBSET Nat
    BY <1>0 DEF Position
  <2>2. first \in found
    <3> HIDE DEF found
    <3>1. QED
      BY <1>2, <2>1, MinIs
  <2>3. first \in 1..Len(s)
    BY <1>0, <2>2 DEF Position
  <2>4. UpTo(c, s) = SubSeq(s, 1, first - 1)
    BY <1>2 DEF UpTo
  <2> HIDE DEF first
  <2>5. 1 \in Int /\ first - 1 \in Int /\ \A i \in 1..(first - 1) : s[i] \in Letters
    BY <1>0, <2>3
  <2>6. /\ SubSeq(s, 1, first - 1) \in Seq(Letters)
        /\ Len(SubSeq(s, 1, first - 1)) = IF 1 <= first - 1 THEN first - 1 - 1 + 1 ELSE 0
    BY <2>5, SubSeqProperties
  <2>7. QED
    BY <1>0, <2>3, <2>4, <2>6 DEF Text
<1>3. QED
  BY <1>1, <1>2

\* The states of the parser, with texts of any length.
Pairs   == Seq(Text \X Text)
Parsers == [state       : {"INIT", "MORE", "READING_KEY", "READING_VAL", "ERROR"},
            key         : Text,
            val         : [0..(PARSE_POST_BUF_SIZES - 1) -> Letters],
            val_len     : 0..(PARSE_POST_BUF_SIZES - 1),
            val_escaped : Text,
            finish      : {"NONE", "OK", "ERROR", "UNKNOWN"},
            accepted    : Pairs]

\* The keys fit, the last byte of the value's buffer is never written, and the
\* parser knows that no handler knows the key.
ParserOK(p) ==
  /\ p \in Parsers
  /\ Len(p.key) < PARSE_POST_BUF_SIZES
  /\ p.val[PARSE_POST_BUF_SIZES - 1] = NUL
  /\ p.finish = "UNKNOWN" => /\ p.state \in {"READING_VAL", "ERROR"}
                             /\ p.key # KnownKey

\* The handling of one character keeps this: an error, a new pair, the key.
LEMMA FailOK ==
  ASSUME NEW p, ParserOK(p)
  PROVE  /\ ParserOK(Fail(p)) /\ Fail(p).state = "ERROR"
         /\ Fail(p).accepted = p.accepted
BY DEF ParserOK, Parsers, Fail

\* A new pair begins with empty buffers.
LEMMA StartPairOK ==
  ASSUME NEW p, ParserOK(p)
  PROVE  /\ ParserOK(StartPair(p)) /\ StartPair(p).state \notin {"INIT", "MORE"}
         /\ StartPair(p).accepted = p.accepted
         /\ p.state \notin {"INIT", "MORE"} => StartPair(p) = p
         /\ p.state \in {"INIT", "MORE"} => StartPair(p).state = "READING_KEY"
<1>1. CASE p.state \notin {"INIT", "MORE"}
  BY <1>1 DEF StartPair
<1>2. CASE p.state \in {"INIT", "MORE"}
  <2> DEFINE q == StartPair(p)
  <2>1. q = [p EXCEPT !.state = "READING_KEY", !.key = <<>>, !.val = Blank,
                      !.val_len = 0, !.val_escaped = <<>>, !.finish = "NONE"]
    BY <1>2 DEF StartPair
  <2>2. /\ q.state = "READING_KEY" /\ q.key = <<>> /\ q.val = Blank
        /\ q.finish = "NONE" /\ q.accepted = p.accepted
    BY <2>1 DEF ParserOK, Parsers
  <2>3. q \in Parsers
    <3>1. /\ <<>> \in Text /\ 0 \in 0..(PARSE_POST_BUF_SIZES - 1)
          /\ Blank \in [0..(PARSE_POST_BUF_SIZES - 1) -> Letters]
      BY Buffers, EmptyOne
    <3>2. QED
      BY <2>1, <3>1 DEF ParserOK, Parsers
  <2>4. ParserOK(q)
    <3>1. Len(q.key) < PARSE_POST_BUF_SIZES
      BY <2>2, Buffers, EmptyOne
    <3>2. q.val[PARSE_POST_BUF_SIZES - 1] = NUL
      BY <2>2, Buffers
    <3>3. QED
      BY <2>2, <2>3, <3>1, <3>2 DEF ParserOK
  <2>5. QED
    BY <1>2, <2>2, <2>4
<1>3. QED
  BY <1>1, <1>2

\* A character of the key stays in its buffer.
LEMMA ReadKeyOK ==
  ASSUME NEW p, ParserOK(p), p.state = "READING_KEY", NEW c \in Letters
  PROVE  /\ ParserOK(ReadKey(p, c))
         /\ ReadKey(p, c).accepted = p.accepted
         /\ ReadKey(p, c).state \in {"READING_KEY", "READING_VAL", "ERROR"}
<1>1. CASE c = "="
  BY <1>1 DEF ParserOK, Parsers, ReadKey
<1>2. CASE c = "&" \/ ~Room(Len(p.key))
  <2>1. c # "=" => ReadKey(p, c) = Fail(p)
    BY <1>2 DEF ReadKey
  <2>2. QED
    BY <1>1, <2>1, FailOK
<1>3. CASE c \notin {"=", "&"} /\ Room(Len(p.key))
  <2>1. ReadKey(p, c) = [p EXCEPT !.key = Append(@, c)]
    BY <1>3 DEF ReadKey
  <2>2. p.key \in Text /\ Len(p.key) \in Nat
    BY EmptyOne DEF ParserOK, Parsers
  <2>3. Append(p.key, c) \in Text /\ Len(Append(p.key, c)) = Len(p.key) + 1
    BY <2>2, AppendProperties DEF Text
  <2>4. Len(p.key) + 1 < PARSE_POST_BUF_SIZES
    BY <1>3, <2>2, Buffers DEF Room
  <2>5. p.finish # "UNKNOWN"
    BY DEF ParserOK
  <2>6. QED
    BY <2>1, <2>3, <2>4, <2>5 DEF ParserOK, Parsers
<1>4. QED
  BY <1>1, <1>2, <1>3

\* One more character of the value.
Put(p, c) == [p EXCEPT !.val[p.val_len] = c, !.val_len = @ + 1]

\* So does one of the value.
LEMMA PutOK ==
  ASSUME NEW p, ParserOK(p), Room(p.val_len), NEW c \in Letters
  PROVE  /\ ParserOK(Put(p, c)) /\ Put(p, c).val_len = p.val_len + 1
         /\ Put(p, c).state = p.state /\ Put(p, c).key = p.key
         /\ Put(p, c).finish = p.finish /\ Put(p, c).accepted = p.accepted
         /\ \A i \in 0..(PARSE_POST_BUF_SIZES - 1) :
              Put(p, c).val[i] = IF i = p.val_len THEN c ELSE p.val[i]
<1> DEFINE w == Put(p, c)
           b == [p.val EXCEPT ![p.val_len] = c]
<1>1. p.val_len \in 0..(PARSE_POST_BUF_SIZES - 2)
  BY Buffers DEF Room, ParserOK, Parsers
<1>2. /\ p.val \in [0..(PARSE_POST_BUF_SIZES - 1) -> Letters]
      /\ p.val[PARSE_POST_BUF_SIZES - 1] = NUL /\ p \in Parsers
  BY DEF ParserOK, Parsers
<1>3. /\ p.val_len + 1 \in 0..(PARSE_POST_BUF_SIZES - 1)
      /\ PARSE_POST_BUF_SIZES - 1 # p.val_len
      /\ PARSE_POST_BUF_SIZES - 1 \in 0..(PARSE_POST_BUF_SIZES - 1)
  BY <1>1, Buffers
<1>4. /\ b \in [0..(PARSE_POST_BUF_SIZES - 1) -> Letters]
      /\ b[PARSE_POST_BUF_SIZES - 1] = NUL
      /\ \A i \in 0..(PARSE_POST_BUF_SIZES - 1) : b[i] = IF i = p.val_len THEN c ELSE p.val[i]
  BY <1>2, <1>3
<1>5. w = [p EXCEPT !.val = b, !.val_len = p.val_len + 1]
  BY <1>2 DEF Parsers, Put
<1> HIDE DEF b, w
<1>6. /\ w \in Parsers /\ w.val = b /\ w.val_len = p.val_len + 1
      /\ w.state = p.state /\ w.key = p.key /\ w.finish = p.finish
      /\ w.accepted = p.accepted
  BY <1>2, <1>3, <1>4, <1>5 DEF Parsers
<1>7. ParserOK(w)
  BY <1>4, <1>6 DEF ParserOK
<1>8. QED
  BY <1>4, <1>6, <1>7 DEF w

\* What the end of a pair does.  With a key that no handler knows it may come
\* again.
Taken(p) == UpTo(NUL, url_unescape(p.val, p.val_len))

\* What the end of a pair does, by what the handlers say.
LEMMA FinishOK ==
  ASSUME NEW p, ParserOK(p), p.state = "READING_VAL"
  PROVE  /\ ParserOK(Finish(p)) /\ Taken(p) \in Text
         /\ Finish(p).finish = handler(p.key, Taken(p))
         /\ Finish(p).finish = "OK" =>
              Finish(p).accepted = Append(p.accepted, <<p.key, Taken(p)>>)
         /\ Finish(p).finish = "ERROR" => Finish(p).state = "ERROR"
         /\ Finish(p).finish \in {"OK", "ERROR", "UNKNOWN"}
         /\ Finish(p).finish = "OK" =>
              /\ p.key = KnownKey /\ Finish(p).state = "MORE"
              /\ Len(Finish(p).accepted) = Len(p.accepted) + 1
         /\ Finish(p).finish # "OK" =>
              /\ Finish(p).accepted = p.accepted
              /\ Finish(p).state \in {"READING_VAL", "ERROR"}
         /\ p.key # KnownKey => Finish(p).finish = "UNKNOWN"
         /\ Finish(p).finish = "UNKNOWN" => Finish(p).state = "READING_VAL"
<1> DEFINE v == Taken(p)
           result == handler(p.key, v)
           q == [p EXCEPT !.val_escaped = v, !.val_len = Len(v), !.finish = result]
<1>1. v \in Text /\ Len(v) \in 0..(PARSE_POST_BUF_SIZES - 1)
  <2>1. PICK m \in Nat : m = PARSE_POST_BUF_SIZES - 1
    BY Buffers
  <2>2. p.val \in [0..m -> Letters] /\ p.val_len \in 0..m
    BY <2>1 DEF ParserOK, Parsers
  <2>3. PICK u \in Text : u = url_unescape(p.val, p.val_len) /\ Len(u) <= p.val_len
    BY <2>2, UnescapeType
  <2>4. UpTo(NUL, u) \in Text /\ Len(UpTo(NUL, u)) <= Len(u)
    BY UpToType
  <2>5. Len(UpTo(NUL, u)) \in Nat /\ Len(u) \in Nat
    BY <2>4, EmptyOne
  <2>6. QED
    BY <2>1, <2>2, <2>3, <2>4, <2>5 DEF Taken
<1>2. /\ result \in {"UNKNOWN", "ERROR", "OK"}
      /\ result = "UNKNOWN" <=> p.key # KnownKey
  BY DEF handler
<1> HIDE DEF v, result
<1>3. /\ q \in Parsers /\ q.state = "READING_VAL" /\ q.key = p.key /\ q.val = p.val
      /\ q.finish = result /\ q.accepted = p.accepted
  BY <1>1, <1>2 DEF ParserOK, Parsers
<1>4. ParserOK(q)
  <2> HIDE DEF q
  <2>1. QED
    BY <1>2, <1>3 DEF ParserOK
<1>5. Finish(p) = CASE result = "OK" -> [q EXCEPT !.state = "MORE",
                                                  !.accepted = Append(@, <<p.key, v>>)]
                    [] result = "ERROR"   -> Fail(q)
                    [] result = "UNKNOWN" -> Unknown(q)
  BY DEF Finish, v, result, Taken
<1> HIDE DEF q
<1>6. CASE result = "OK"
  <2>1. Finish(p) = [q EXCEPT !.state = "MORE", !.accepted = Append(@, <<p.key, v>>)]
    BY <1>5, <1>6
  <2>2. /\ Append(q.accepted, <<p.key, v>>) \in Pairs
        /\ Len(Append(q.accepted, <<p.key, v>>)) = Len(q.accepted) + 1
    <3>1. <<p.key, v>> \in Text \X Text /\ q.accepted \in Pairs
      BY <1>1, <1>4 DEF ParserOK, Parsers
    <3>2. QED
      BY <3>1, AppendProperties DEF Pairs
  <2>3. QED
    BY <1>1, <1>2, <1>3, <1>4, <1>6, <2>1, <2>2 DEF ParserOK, Parsers, v, result
<1>7. CASE result = "ERROR"
  <2>1. Finish(p) = Fail(q)
    BY <1>5, <1>7
  <2>2. Fail(q).finish = "ERROR"
    BY <1>3, <1>7 DEF Fail, Parsers
  <2>3. QED
    BY <1>1, <1>2, <1>3, <1>4, <1>7, <2>1, <2>2, FailOK DEF v, result
<1>8. CASE result = "UNKNOWN"
  <2>1. Finish(p) = q
    BY <1>5, <1>8 DEF Unknown
  <2>2. QED
    BY <1>1, <1>2, <1>3, <1>4, <1>8, <2>1 DEF v, result
<1>9. QED
  BY <1>2, <1>6, <1>7, <1>8

------------------------------------------------------------------------------
(* What a character does to the parser, as HttpdPost sees it.               *)

\* What one character does to the parser: it may complete a pair, and then the
\* parser is between two pairs; after a pair that no handler knew it completes
\* none.
Onwards(p, q) ==
  /\ q.state # "INIT"
  /\ q.accepted = p.accepted \/ Len(q.accepted) = Len(p.accepted) + 1
  /\ q.state = "MORE" => Len(q.accepted) = Len(p.accepted) + 1
  /\ Seen(p) = "SPILL" => Seen(q) \in {"SPILL", "ERROR"} /\ q.accepted = p.accepted

\* What HttpdPost sees of each state.
LEMMA SeenStates ==
  ASSUME NEW p, ParserOK(p)
  PROVE  /\ p.state \in {"INIT", "MORE", "ERROR"} => Seen(p) = p.state
         /\ p.state = "READING_KEY" => Seen(p) = "PAIR"
         /\ p.state = "READING_VAL" =>
              Seen(p) = IF p.finish = "UNKNOWN" THEN "SPILL" ELSE "PAIR"
         /\ Seen(p) \in {"INIT", "MORE", "ERROR", "PAIR", "SPILL"}
<1>1. p.state \in {"INIT", "MORE", "READING_KEY", "READING_VAL", "ERROR"}
  BY DEF ParserOK, Parsers
<1>2. p.state \in {"INIT", "MORE", "ERROR"} => Seen(p) = p.state
  BY DEF Seen
<1>3. p.state = "READING_KEY" => Seen(p) = "PAIR"
  BY DEF Seen
<1>4. p.state = "READING_VAL" =>
        Seen(p) = IF p.finish = "UNKNOWN" THEN "SPILL" ELSE "PAIR"
  BY DEF Seen
<1>5. QED
  BY <1>1, <1>2, <1>3, <1>4

\* The end of a pair, as one of these steps.
LEMMA FinishOnwards ==
  ASSUME NEW p, ParserOK(p), p.state = "READING_VAL"
  PROVE  ParserOK(Finish(p)) /\ Onwards(p, Finish(p))
<1>1. ParserOK(Finish(p))
  BY FinishOK
<1>2. Seen(p) = "SPILL" => /\ p.key # KnownKey
                           /\ Finish(p).finish = "UNKNOWN"
                           /\ Seen(Finish(p)) = "SPILL"
                           /\ Finish(p).accepted = p.accepted
  BY <1>1, FinishOK, SeenStates DEF ParserOK
<1>3. QED
  BY <1>1, <1>2, FinishOK DEF Onwards

\* An error is one, too.
LEMMA FailOnwards ==
  ASSUME NEW p, ParserOK(p)
  PROVE  ParserOK(Fail(p)) /\ Onwards(p, Fail(p))
BY FailOK, SeenStates DEF Onwards

\* So is every character, whatever the state it finds.
LEMMA ParseOnwards ==
  ASSUME NEW p, ParserOK(p), NEW c \in Letters, NEW final \in BOOLEAN
  PROVE  ParserOK(Parse(p, c, final)) /\ Onwards(p, Parse(p, c, final))
<1> DEFINE q == StartPair(p)
<1>1. ParserOK(q) /\ q.state \in {"READING_KEY", "READING_VAL", "ERROR"}
  <2>1. ParserOK(q) /\ q.state \notin {"INIT", "MORE"}
    BY StartPairOK
  <2>2. QED
    BY <2>1 DEF ParserOK, Parsers
<1>2. q.accepted = p.accepted /\ (Seen(p) = "SPILL" => q = p)
  BY StartPairOK, SeenStates
<1>3. SUFFICES ParserOK(Parse(p, c, final)) /\ Onwards(q, Parse(p, c, final))
  BY <1>2 DEF Onwards
<1> HIDE DEF q
<1>4. CASE q.state = "READING_KEY"
  <2>1. Parse(p, c, final) = ReadKey(q, c)
    BY <1>4 DEF Parse, q
  <2>2. QED
    BY <1>1, <1>4, <2>1, ReadKeyOK, SeenStates DEF Onwards
<1>5. CASE q.state = "READING_VAL"
  <2>1. Parse(p, c, final) = ReadVal(q, c, final)
    BY <1>5 DEF Parse, q
  <2>2. CASE c = "&"
    <3>1. ReadVal(q, c, final) = Finish(q)
      BY <2>2 DEF ReadVal
    <3>2. QED
      BY <1>1, <1>5, <2>1, <3>1, FinishOnwards
  <2>3. CASE c = "=" \/ (c # "&" /\ ~Room(q.val_len))
    <3>1. ReadVal(q, c, final) = Fail(q)
      BY <2>3 DEF ReadVal
    <3>2. QED
      BY <1>1, <2>1, <3>1, FailOnwards
  <2>4. CASE c \notin {"&", "="} /\ Room(q.val_len)
    <3> DEFINE w == Put(q, c)
    <3>1. ReadVal(q, c, final) = IF final THEN Finish(w) ELSE w
      BY <2>4 DEF ReadVal, Put
    <3> HIDE DEF w
    <3>3. /\ w.state = q.state /\ w.key = q.key /\ w.finish = q.finish
          /\ w.accepted = q.accepted
      BY <1>1, <2>4, PutOK DEF w
    <3>4. ParserOK(w)
      BY <1>1, <2>4, PutOK DEF w
    <3>5. Seen(w) = Seen(q)
      BY <1>1, <1>5, <3>3, <3>4, SeenStates
    <3>6. CASE final
      <4>1. ParserOK(Finish(w)) /\ Onwards(w, Finish(w))
        BY <1>5, <3>3, <3>4, FinishOnwards
      <4>2. Onwards(q, Finish(w))
        BY <3>3, <3>5, <4>1 DEF Onwards
      <4>3. QED
        BY <2>1, <3>1, <3>6, <4>1, <4>2
    <3>7. CASE ~final
      <4>1. Onwards(q, w)
        BY <1>5, <3>3, <3>5 DEF Onwards
      <4>2. QED
        BY <2>1, <3>1, <3>4, <3>7, <4>1
    <3>8. QED
      BY <3>6, <3>7
  <2>5. QED
    BY <2>2, <2>3, <2>4
<1>6. CASE q.state = "ERROR"
  <2>1. Parse(p, c, final) = q
    BY <1>6 DEF Parse, q
  <2>2. QED
    BY <1>1, <1>6, <2>1, SeenStates DEF Onwards
<1>7. QED
  BY <1>1, <1>4, <1>5, <1>6

\* The function that Steps() is defined with: there is one.
LEMMA StepsExist ==
  ASSUME NEW n \in Nat
  PROVE  \E f : f = [i \in 0..n |-> IF i = 0 THEN parser
                                    ELSE Parse(f[i - 1], Arrived(at + i), Final(i, n))]
<1> DEFINE IsRun(f, k) == f = [i \in 0..k |-> IF i = 0 THEN parser
                                    ELSE Parse(f[i - 1], Arrived(at + i), Final(i, n))]
           G == {k \in Nat : \E f : IsRun(f, k)}
<1>1. 0 \in G
  <2>1. IsRun([i \in 0..0 |-> parser], 0)
    OBVIOUS
  <2> HIDE DEF IsRun
  <2>2. QED
    BY <2>1
<1>2. ASSUME NEW k \in 1..n, k - 1 \in G PROVE k \in G
  <2>1. PICK g : IsRun(g, k - 1)
    BY <1>2
  <2> DEFINE last == Parse(g[k - 1], Arrived(at + k), Final(k, n))
             f == [i \in 0..k |-> IF i = k THEN last ELSE g[i]]
  <2>2. ASSUME NEW i \in 0..k
        PROVE  f[i] = IF i = 0 THEN parser ELSE Parse(f[i - 1], Arrived(at + i), Final(i, n))
    <3>1. i # 0 => i - 1 \in 0..(k - 1) /\ f[i - 1] = g[i - 1]
      OBVIOUS
    <3>2. CASE i = k
      BY <3>1, <3>2
    <3>3. CASE i # k
      <4>1. i \in 0..(k - 1)
        BY <3>3
      <4>2. g[i] = IF i = 0 THEN parser ELSE Parse(g[i - 1], Arrived(at + i), Final(i, n))
        BY <2>1, <4>1
      <4>3. f[i] = g[i]
        BY <3>3
      <4> HIDE DEF f
      <4>4. QED
        BY <3>1, <4>2, <4>3
    <3>4. QED
      BY <3>2, <3>3
  <2>3. f = [i \in 0..k |-> f[i]]
    OBVIOUS
  <2> HIDE DEF f
  <2>4. IsRun(f, k)
    BY <2>2, <2>3
  <2> HIDE DEF IsRun
  <2>5. QED
    BY <2>4
<1>3. n \in G
  <2> HIDE DEF G
  <2>1. QED
    BY <1>1, <1>2, EveryStep
<1>4. QED
  BY <1>3

\* What that function says of each character.
LEMMA StepsAre ==
  ASSUME NEW n \in Nat
  PROVE  /\ Steps(n)[0] = parser
         /\ \A i \in 1..n :
              Steps(n)[i] = Parse(Steps(n)[i - 1], Arrived(at + i), Final(i, n))
<1> DEFINE f == CHOOSE f : f = [i \in 0..n |-> IF i = 0 THEN parser
                              ELSE Parse(f[i - 1], Arrived(at + i), Final(i, n))]
<1>1. f = [i \in 0..n |-> IF i = 0 THEN parser
                          ELSE Parse(f[i - 1], Arrived(at + i), Final(i, n))]
  BY StepsExist, Zenon
<1>2. Steps(n) = f
  BY DEF Steps
<1> HIDE DEF f
<1>3. f[0] = parser
  BY <1>1
<1>4. \A i \in 1..n : f[i] = Parse(f[i - 1], Arrived(at + i), Final(i, n))
  BY <1>1
<1>5. QED
  BY <1>2, <1>3, <1>4

------------------------------------------------------------------------------
(* Chunks of any length.                                                    *)

\* The inductive invariant of the parser.
ParserInv ==
  /\ body \in Seq(Chars) /\ more \in Seq(Chars)
  /\ at \in 0..(Len(body) + Len(more))
  /\ ParserOK(parser)

\* What some characters have done to the parser.
Reached(p, q) ==
  /\ Len(q.accepted) >= Len(p.accepted)
  /\ q.accepted = p.accepted \/ Len(q.accepted) > Len(p.accepted)
  /\ q.state # "INIT"
  /\ q.state = "MORE" => Len(q.accepted) > Len(p.accepted)
  /\ Seen(p) = "SPILL" => Seen(q) \in {"SPILL", "ERROR"} /\ q.accepted = p.accepted

\* Every character of a chunk has found a parser that is as it should be.
LEMMA ChunkSteps ==
  ASSUME ParserInv, NEW n \in 1..(Len(body) + Len(more) - at)
  PROVE  \A i \in 0..n : /\ ParserOK(Steps(n)[i])
                         /\ i # 0 => Reached(parser, Steps(n)[i])
<1> DEFINE s == Steps(n)
           G == {i \in 0..n : ParserOK(s[i]) /\ (i # 0 => Reached(parser, s[i]))}
<1>1. Len(body) \in Nat /\ Len(more) \in Nat /\ n \in Nat /\ at \in Nat /\ ParserOK(parser)
  BY LenProperties DEF ParserInv
<1>2. s[0] = parser /\ \A i \in 1..n : s[i] = Parse(s[i - 1], Arrived(at + i), Final(i, n))
  BY <1>1, StepsAre
<1> HIDE DEF s
<1>3. 0 \in G
  BY <1>1, <1>2
<1>4. ASSUME NEW i \in 1..n, i - 1 \in G PROVE i \in G
  <2>1. s[i] = Parse(s[i - 1], Arrived(at + i), Final(i, n))
    BY <1>2
  <2>2. Arrived(at + i) \in Letters /\ Final(i, n) \in BOOLEAN
    <3>1. PICK k \in Nat, l \in Nat, j \in Nat :
            k = Len(body) /\ l = Len(more) /\ j = at + i /\ j \in 1..(k + l)
      BY <1>1
    <3>2. CASE j <= k
      <4>1. body[j] \in Chars
        BY <3>1, <3>2, ElementOfSeq DEF ParserInv
      <4>2. QED
        BY <3>1, <3>2, <4>1, Buffers DEF Arrived, Final
    <3>3. CASE ~ j <= k
      <4>1. j - k \in 1..l
        BY <3>1, <3>3
      <4>2. more[j - k] \in Chars
        BY <3>1, <4>1, ElementOfSeq DEF ParserInv
      <4>3. QED
        BY <3>1, <3>3, <4>2, Buffers DEF Arrived, Final
    <3>4. QED
      BY <3>2, <3>3
  <2>3. PICK p, q, c, final :
          p = s[i - 1] /\ q = s[i] /\ c = Arrived(at + i) /\ final = Final(i, n)
    OBVIOUS
  <2>4. ParserOK(p) /\ (i - 1 # 0 => Reached(parser, p)) /\ (i - 1 = 0 => p = parser)
    BY <1>2, <1>4, <2>3
  <2>5. ParserOK(q) /\ Onwards(p, q)
    BY <2>1, <2>2, <2>3, <2>4, ParseOnwards
  <2>6. /\ Len(p.accepted) \in Nat /\ Len(q.accepted) \in Nat
        /\ Len(parser.accepted) \in Nat
    BY <1>1, <2>4, <2>5, LenProperties DEF ParserOK, Parsers, Pairs
  <2>7. Reached(parser, q)
    <3>1. CASE i - 1 = 0
      BY <2>4, <2>5, <2>6, <3>1 DEF Onwards, Reached
    <3>2. CASE i - 1 # 0
      <4>1. Reached(parser, p)
        BY <2>4, <3>2
      <4>2. Seen(parser) = "SPILL" =>
              Seen(q) \in {"SPILL", "ERROR"} /\ q.accepted = parser.accepted
        <5>1. CASE Seen(p) = "SPILL"
          BY <2>5, <4>1, <5>1 DEF Onwards, Reached
        <5>2. CASE Seen(p) = "ERROR"
          <6>1. p.state = "ERROR"
            BY <2>4, <5>2, SeenStates DEF ParserOK, Parsers
          <6>2. q = p
            BY <2>1, <2>3, <6>1 DEF Parse, StartPair
          <6>3. QED
            BY <4>1, <6>2 DEF Reached
        <5>3. QED
          BY <4>1, <5>1, <5>2 DEF Reached
      <4>3. QED
        BY <2>5, <2>6, <4>1, <4>2 DEF Onwards, Reached
    <3>3. QED
      BY <3>1, <3>2
  <2>8. QED
    BY <2>3, <2>5, <2>7
<1>5. \A i \in 0..n : i \in G
  <2> HIDE DEF G
  <2>1. QED
    BY <1>1, <1>3, <1>4, EveryStep
<1>6. QED
  BY <1>5 DEF s

\* A chunk.
LEMMA ChunkInv ==
  ASSUME ParserInv, NEW n \in 1..(Len(body) + Len(more) - at), ParseChunk(n)
  PROVE  ParserInv' /\ Reached(parser, parser') /\ ParserOK(parser')
<1>1. Len(body) \in Nat /\ Len(more) \in Nat /\ n \in Nat /\ n # 0 /\ at \in Nat
  BY LenProperties DEF ParserInv
<1>2. parser' = Steps(n)[n] /\ at' = at + n /\ body' = body /\ more' = more
  BY DEF ParseChunk
<1>3. ParserOK(Steps(n)[n]) /\ Reached(parser, Steps(n)[n])
  <2>1. n \in 0..n
    BY <1>1
  <2>2. QED
    BY <1>1, <2>1, ChunkSteps
<1>4. at' \in 0..(Len(body') + Len(more'))
  BY <1>1, <1>2
<1>5. QED
  BY <1>2, <1>3, <1>4 DEF ParserInv

\* The invariant holds for the buffers that another body has left, and every
\* chunk keeps it.
LEMMA ParserInitInv == ParserInit => ParserInv
<1> SUFFICES ASSUME ParserInit PROVE ParserInv
  OBVIOUS
<1>1. body \in Seq(Chars) /\ more \in Seq(Chars) /\ at \in 0..(Len(body) + Len(more))
  <2>1. body \in Seq(Chars) /\ more \in Seq(Chars)
    BY BodyAssumption DEF ParserInit
  <2>2. Len(body) \in Nat /\ Len(more) \in Nat
    BY <2>1, LenProperties
  <2>3. QED
    BY <2>1, <2>2 DEF ParserInit
<1>2. PICK left \in {[k |-> <<>>, v |-> Blank, n |-> 0],
                     [k |-> KnownKey, v |-> [Blank EXCEPT ![0] = "2"], n |-> 1]} :
        parser = [state |-> "INIT", key |-> left.k, val |-> left.v, val_len |-> left.n,
                  val_escaped |-> <<>>, finish |-> "NONE", accepted |-> <<>>]
  BY DEF ParserInit
<1>3. /\ left.k \in Text /\ Len(left.k) < PARSE_POST_BUF_SIZES
      /\ left.v \in [0..(PARSE_POST_BUF_SIZES - 1) -> Letters]
      /\ left.v[PARSE_POST_BUF_SIZES - 1] = NUL
      /\ left.n \in 0..(PARSE_POST_BUF_SIZES - 1)
  <2>1. PICK b : b = Blank
    OBVIOUS
  <2>2. /\ b \in [0..(PARSE_POST_BUF_SIZES - 1) -> Letters]
        /\ b[PARSE_POST_BUF_SIZES - 1] = NUL
    BY <2>1, Buffers
  <2>3. /\ [b EXCEPT ![0] = "2"] \in [0..(PARSE_POST_BUF_SIZES - 1) -> Letters]
        /\ [b EXCEPT ![0] = "2"][PARSE_POST_BUF_SIZES - 1] = NUL
    <3>1. "2" \in Letters
      BY DEF Letters
    <3>2. QED
      BY <2>2, <3>1, Buffers
  <2>4. <<>> \in Text /\ Len(<<>>) = 0
    BY EmptyOne
  <2>5. QED
    BY <2>1, <2>2, <2>3, <2>4, Buffers
<1>4. ParserOK(parser)
  <2>1. <<>> \in Pairs /\ <<>> \in Text
    BY EmptySeq DEF Pairs, Text
  <2>2. QED
    BY <1>2, <1>3, <2>1 DEF ParserOK, Parsers
<1>5. QED
  BY <1>1, <1>4 DEF ParserInv

\* No chunk breaks the invariant.
LEMMA ParserNextInv == ASSUME ParserInv, [ParserNext]_parserVars PROVE ParserInv'
<1>1. CASE UNCHANGED parserVars
  BY <1>1 DEF parserVars, ParserInv
<1>2. QED
  BY <1>1, ChunkInv DEF ParserNext

\* So it holds throughout.
LEMMA ParserInductive == ParserSpec => []ParserInv
BY ParserInitInv, ParserNextInv, PTL DEF ParserSpec

------------------------------------------------------------------------------
\* The key and the value stay in their buffers of PARSE_POST_BUF_SIZES bytes, with
\* room for the terminator, and the parser in its states, for every body, cut into
\* chunks in every way.
THEOREM ParserTypeCorrect == ParserSpec => []ParserTypeOK
<1>1. ParserInv => ParserTypeOK
  <2> SUFFICES ASSUME ParserInv PROVE ParserTypeOK
    OBVIOUS
  <2>1. parser \in Parsers /\ Len(parser.key) < PARSE_POST_BUF_SIZES
    BY DEF ParserInv, ParserOK
  <2>2. DOMAIN parser.val = DOMAIN Blank
    BY <2>1, Buffers DEF Parsers
  <2>3. QED
    BY <2>1, <2>2 DEF ParserInv, ParserTypeOK, Parsers
<1>2. QED
  BY <1>1, ParserInductive, PTL

\* url_unescape() looks two characters ahead and does not leave the buffer: the
\* last byte is a terminator, which is neither a percent sign nor a digit.
THEOREM UnescapeStaysInside == ParserSpec => []LookAheadInside
<1>1. ParserInv => LookAheadInside
  <2> SUFFICES ASSUME ParserInv, NEW i \in DOMAIN Blank, parser.val[i] = "%",
                      Byte(parser.val, i + 1) \in Hex
               PROVE  i + 2 \in DOMAIN Blank
    BY DEF LookAheadInside
  <2>1. /\ parser.val \in [0..(PARSE_POST_BUF_SIZES - 1) -> Letters]
        /\ parser.val[PARSE_POST_BUF_SIZES - 1] = NUL
    BY DEF ParserInv, ParserOK, Parsers
  <2>2. i \in 0..(PARSE_POST_BUF_SIZES - 1)
    BY Buffers
  <2>3. NUL \notin Hex /\ NUL # "%"
    BY DEF NUL, Hex
  <2>4. i # PARSE_POST_BUF_SIZES - 1
    BY <2>1, <2>3
  <2>5. i + 1 # PARSE_POST_BUF_SIZES - 1
    BY <2>1, <2>2, <2>3 DEF Byte
  <2>6. QED
    BY <2>2, <2>4, <2>5, Buffers
<1>2. QED
  BY <1>1, ParserInductive, PTL

\* What a chunk does to the parser, parsed character by character, is what HttpdPost
\* says that some chunk does: the abstract parser of handle_input() is a sound one.
THEOREM ChunkIsAbstracted == ParserSpec => ChunkAsAbstracted
<1>1. ASSUME ParserInv, ParserNext
      PROVE  \E c \in Handled!Chunk :
               LET p == Seen(parser)
               IN /\ Seen(parser') = Handled!AfterChunk(p, c)
                  /\ (parser'.accepted # parser.accepted) = Handled!Accepts(p, c)
  <2>1. PICK n \in 1..(Len(body) + Len(more) - at) : ParseChunk(n)
    BY <1>1 DEF ParserNext
  <2>2. /\ ParserOK(parser) /\ ParserOK(parser') /\ Reached(parser, parser')
        /\ parser.state # "ERROR"
    BY <1>1, <2>1, ChunkInv DEF ParserInv, ParseChunk
  <2>3. PICK p, q, a : p = Seen(parser) /\ q = Seen(parser')
                       /\ a = (parser'.accepted # parser.accepted)
    OBVIOUS
  <2>4. /\ a \in BOOLEAN
        /\ p \in {"INIT", "MORE", "PAIR", "SPILL"}
        /\ q \in {"MORE", "ERROR", "PAIR", "SPILL"}
        /\ q = "MORE" => a
        /\ p = "SPILL" => q \in {"SPILL", "ERROR"} /\ a = FALSE
    <3>1. PICK x, y : x = parser /\ y = parser'
      OBVIOUS
    <3>2. /\ ParserOK(x) /\ ParserOK(y) /\ Reached(x, y) /\ x.state # "ERROR"
          /\ p = Seen(x) /\ q = Seen(y) /\ a = (y.accepted # x.accepted)
      BY <2>2, <2>3, <3>1
    <3>3. /\ Len(x.accepted) \in Nat /\ Len(y.accepted) \in Nat
      BY <3>2, LenProperties DEF ParserOK, Parsers, Pairs
    <3>4. p \in {"INIT", "MORE", "PAIR", "SPILL"}
      BY <3>2, SeenStates DEF ParserOK, Parsers
    <3>5. /\ q \in {"MORE", "ERROR", "PAIR", "SPILL"}
          /\ q = "MORE" => y.state = "MORE"
      BY <3>2, SeenStates DEF ParserOK, Parsers, Reached
    <3>6. q = "MORE" => y.accepted # x.accepted
      BY <3>2, <3>3, <3>5 DEF Reached
    <3>7. p = "SPILL" => q \in {"SPILL", "ERROR"} /\ y.accepted = x.accepted
      BY <3>2 DEF Reached
    <3>8. QED
      BY <3>2, <3>4, <3>5, <3>6, <3>7
  <2> DEFINE ends == CASE q = "MORE" -> "boundary"
                       [] q = "PAIR" -> "inside"
                       [] q = "SPILL" -> IF p = "SPILL" THEN "inside" ELSE "unknown"
                       [] q = "ERROR" -> "refused"
             c == [accepted |-> a, ends |-> ends]
  <2>5. c \in Handled!Chunk
    BY <2>4 DEF Handled!Chunk
  <2>6. q = Handled!AfterChunk(p, c)
    BY <2>4 DEF Handled!AfterChunk
  <2>7. a = Handled!Accepts(p, c)
    BY <2>4 DEF Handled!Accepts
  <2>8. QED
    BY <2>3, <2>5, <2>6, <2>7
<1>2. QED
  BY <1>1, ParserInductive, PTL DEF ParserSpec, ChunkAsAbstracted

------------------------------------------------------------------------------
(* The text a page shows of a value.                                        *)

\* The function that html_escape_quotes() is defined with: there is one.
LEMMA EscapeExists ==
  ASSUME NEW src, NEW n \in Nat
  PROVE  \E f : f = [i \in 0..n |->
           IF i = 0 THEN [text |-> <<>>, dstpos |-> 0, stop |-> FALSE]
                    ELSE EscapeStep(f[i - 1], src[i])]
<1> DEFINE first == [text |-> <<>>, dstpos |-> 0, stop |-> FALSE]
           IsRun(f, k) == f = [i \in 0..k |-> IF i = 0 THEN first
                                              ELSE EscapeStep(f[i - 1], src[i])]
           G == {k \in Nat : \E f : IsRun(f, k)}
<1> HIDE DEF first
<1>1. 0 \in G
  <2>1. IsRun([i \in 0..0 |-> first], 0)
    OBVIOUS
  <2> HIDE DEF IsRun
  <2>2. QED
    BY <2>1
<1>2. ASSUME NEW k \in 1..n, k - 1 \in G PROVE k \in G
  <2>1. PICK g : IsRun(g, k - 1)
    BY <1>2
  <2> DEFINE last == EscapeStep(g[k - 1], src[k])
             f == [i \in 0..k |-> IF i = k THEN last ELSE g[i]]
  <2>2. ASSUME NEW i \in 0..k
        PROVE  f[i] = IF i = 0 THEN first ELSE EscapeStep(f[i - 1], src[i])
    <3>1. i # 0 => i - 1 \in 0..(k - 1) /\ f[i - 1] = g[i - 1]
      OBVIOUS
    <3>2. CASE i = k
      BY <3>1, <3>2
    <3>3. CASE i # k
      <4>1. i \in 0..(k - 1)
        BY <3>3
      <4>2. g[i] = IF i = 0 THEN first ELSE EscapeStep(g[i - 1], src[i])
        BY <2>1, <4>1
      <4>3. f[i] = g[i]
        BY <3>3
      <4> HIDE DEF f
      <4>4. QED
        BY <3>1, <4>2, <4>3
    <3>4. QED
      BY <3>2, <3>3
  <2>3. f = [i \in 0..k |-> f[i]]
    OBVIOUS
  <2> HIDE DEF f
  <2>4. IsRun(f, k)
    BY <2>2, <2>3
  <2> HIDE DEF IsRun
  <2>5. QED
    BY <2>4
<1>3. n \in G
  <2> HIDE DEF G
  <2>1. QED
    BY <1>1, <1>2, EveryStep
<1>4. QED
  BY <1>3 DEF first

\* What that function says of each character.
LEMMA EscapeRun ==
  ASSUME NEW src \in Text
  PROVE  \E f : /\ html_escape_quotes(src) = f[Len(src)]
                /\ f[0] = [text |-> <<>>, dstpos |-> 0, stop |-> FALSE]
                /\ \A i \in 1..Len(src) : f[i] = EscapeStep(f[i - 1], src[i])
<1>0. PICK n \in Nat : n = Len(src)
  BY EmptyOne
<1> DEFINE first == [text |-> <<>>, dstpos |-> 0, stop |-> FALSE]
           f == CHOOSE f : f = [i \in 0..n |->
                  IF i = 0 THEN first ELSE EscapeStep(f[i - 1], src[i])]
<1>1. f = [i \in 0..n |->
             IF i = 0 THEN first ELSE EscapeStep(f[i - 1], src[i])]
  BY EscapeExists, Zenon
<1>2. html_escape_quotes(src) = f[n]
  BY <1>0 DEF html_escape_quotes
<1> HIDE DEF f, first
<1>3. f[0] = first
  BY <1>1
<1>4. ASSUME NEW i \in 1..n PROVE f[i] = EscapeStep(f[i - 1], src[i])
  BY <1>1
<1>5. QED
  BY <1>0, <1>2, <1>3, <1>4 DEF first

\* What is shown of the first i characters: all of them, or as many as fit.
Signs    == Letters \union {"&quot;"}
Shown    == Seq(Signs)
Outputs  == [text : Shown, dstpos : 0..(HTML_ESCAPED_BUFFER_SIZE - 1), stop : BOOLEAN]
ShownOf(src, i, o) ==
  /\ o \in Outputs
  /\ Len(o.text) <= i
  /\ ~o.stop => Len(o.text) = i
  /\ \A j \in 1..Len(o.text) : o.text[j] = Escaped(src[j])

\* One more character.
LEMMA EscapeStepShows ==
  ASSUME NEW src \in Text, NEW i \in 1..Len(src), NEW o, ShownOf(src, i - 1, o)
  PROVE  ShownOf(src, i, EscapeStep(o, src[i]))
<1>1. /\ Len(src) \in Nat /\ src[i] \in Letters
      /\ HTML_ESCAPED_BUFFER_SIZE \in Nat /\ HTML_ESCAPED_BUFFER_SIZE > 1
  BY EmptyOne, BufferAssumption
<1>2. PICK c \in Letters : c = src[i]
  BY <1>1
<1>3. Escaped(c) \in Signs
  BY DEF Escaped, Signs
<1>4. /\ o.text \in Shown /\ o.dstpos \in 0..(HTML_ESCAPED_BUFFER_SIZE - 1)
      /\ o.stop \in BOOLEAN /\ Len(o.text) <= i - 1
      /\ o.stop = FALSE => Len(o.text) = i - 1
      /\ \A j \in 1..Len(o.text) : o.text[j] = Escaped(src[j])
      /\ o \in Outputs
  BY DEF ShownOf, Outputs
<1>5. Len(o.text) \in Nat
  BY <1>4, LenProperties DEF Shown
<1> DEFINE stops == \/ o.stop
                    \/ o.dstpos >= HTML_ESCAPED_BUFFER_SIZE - 1
                    \/ c = NUL
                    \/ c = QUOTE /\ ~QuoteFits(o.dstpos)
           r == EscapeStep(o, c)
<1>6. CASE stops
  <2>1. r = [o EXCEPT !.stop = TRUE]
    BY <1>6 DEF EscapeStep
  <2> HIDE DEF r, stops
  <2>2. r \in Outputs /\ r.text = o.text /\ r.stop = TRUE
    BY <1>4, <2>1 DEF Outputs
  <2>3. Len(o.text) <= i
    BY <1>4, <1>5
  <2>4. ShownOf(src, i, r)
    BY <1>4, <2>2, <2>3 DEF ShownOf
  <2>5. QED
    BY <1>2, <2>4 DEF r
<1>7. CASE ~stops
  <2> DEFINE n == o.dstpos + IF c = QUOTE THEN 6 ELSE 1
             t == Append(o.text, Escaped(c))
  <2>1. r = [o EXCEPT !.text = t, !.dstpos = n]
    <3>1. r = [o EXCEPT !.text = Append(@, Escaped(c)),
                        !.dstpos = @ + IF c = QUOTE THEN 6 ELSE 1]
      BY <1>7 DEF EscapeStep
    <3>2. QED
      BY <1>4, <3>1 DEF Outputs
  <2>2. n \in 0..(HTML_ESCAPED_BUFFER_SIZE - 1)
    <3>1. CASE c = QUOTE
      <4>1. QuoteFits(o.dstpos)
        BY <1>7, <3>1
      <4>2. o.dstpos + 7 <= HTML_ESCAPED_BUFFER_SIZE
        BY <4>1 DEF QuoteFits
      <4>3. QED
        BY <1>1, <1>4, <3>1, <4>2
    <3>2. CASE c # QUOTE
      <4>1. ~(o.dstpos >= HTML_ESCAPED_BUFFER_SIZE - 1)
        BY <1>7
      <4>2. QED
        BY <1>1, <1>4, <3>2, <4>1
    <3>3. QED
      BY <3>1, <3>2
  <2>3. o.stop = FALSE /\ Len(o.text) = i - 1
    BY <1>4, <1>7
  <2> HIDE DEF r, stops, n
  <2>4. t \in Shown /\ Len(t) = i /\ t[i] = Escaped(c)
        /\ \A j \in 1..Len(o.text) : t[j] = o.text[j]
    <3>1. PICK u \in Shown, e \in Signs : u = o.text /\ e = Escaped(c)
      BY <1>3, <1>4
    <3>2. /\ Append(u, e) \in Shown /\ Len(Append(u, e)) = Len(u) + 1
          /\ Append(u, e)[Len(u) + 1] = e
          /\ \A j \in 1..Len(u) : Append(u, e)[j] = u[j]
      BY AppendProperties DEF Shown
    <3>3. Len(u) + 1 = i
      BY <1>5, <2>3, <3>1
    <3>4. QED
      BY <3>1, <3>2, <3>3
  <2> HIDE DEF t
  <2>5. ASSUME NEW j \in 1..i PROVE t[j] = Escaped(src[j])
    <3>1. CASE j = i
      BY <1>2, <2>4, <3>1
    <3>2. CASE j # i
      <4>1. j \in 1..Len(o.text)
        BY <2>3, <3>2
      <4>2. QED
        BY <1>4, <2>4, <4>1
    <3>3. QED
      BY <3>1, <3>2
  <2>6. r \in Outputs /\ r.text = t /\ r.stop = FALSE
    BY <1>4, <2>1, <2>2, <2>3, <2>4 DEF Outputs
  <2>7. ShownOf(src, i, r)
    BY <2>4, <2>5, <2>6 DEF ShownOf
  <2>8. QED
    BY <1>2, <2>7 DEF r
<1>8. QED
  BY <1>6, <1>7

\* For every text: what is shown of it is a prefix that fits, its quotes whole.
LEMMA EscapeShows ==
  ASSUME NEW src \in Text
  PROVE  ShownOf(src, Len(src), html_escape_quotes(src))
<1>0. Len(src) \in Nat
  BY EmptyOne
<1>1. PICK f : /\ html_escape_quotes(src) = f[Len(src)]
               /\ f[0] = [text |-> <<>>, dstpos |-> 0, stop |-> FALSE]
               /\ \A i \in 1..Len(src) : f[i] = EscapeStep(f[i - 1], src[i])
  BY EscapeRun
<1> DEFINE G == {i \in 0..Len(src) : ShownOf(src, i, f[i])}
<1>2. 0 \in G
  <2>1. <<>> \in Shown /\ Len(<<>>) = 0
    BY EmptySeq DEF Shown
  <2>2. 0 \in 0..(HTML_ESCAPED_BUFFER_SIZE - 1)
    BY BufferAssumption
  <2>3. PICK o : o = f[0]
    OBVIOUS
  <2>4. o = [text |-> <<>>, dstpos |-> 0, stop |-> FALSE]
    BY <1>1, <2>3
  <2>5. o \in Outputs /\ o.text = <<>> /\ o.stop = FALSE
    BY <2>1, <2>2, <2>4 DEF Outputs
  <2>6. ShownOf(src, 0, o)
    BY <2>1, <2>5 DEF ShownOf
  <2>7. QED
    BY <1>0, <2>3, <2>6
<1>3. ASSUME NEW i \in 1..Len(src), i - 1 \in G PROVE i \in G
  <2>1. PICK o : o = f[i - 1] /\ ShownOf(src, i - 1, o)
    BY <1>3
  <2>2. f[i] = EscapeStep(o, src[i])
    BY <1>1, <2>1
  <2>3. ShownOf(src, i, f[i])
    <3>1. ShownOf(src, i, EscapeStep(o, src[i]))
      BY <2>1, EscapeStepShows
    <3>2. QED
      BY <2>2, <3>1
  <2>4. i \in 0..Len(src)
    BY <1>0
  <2>5. QED
    BY <2>3, <2>4
<1>4. Len(src) \in G
  <2> HIDE DEF G
  <2>1. \A i \in 0..Len(src) : i \in G
    BY <1>0, <1>2, <1>3, EveryStep
  <2>2. QED
    BY <1>0, <2>1
<1>5. QED
  BY <1>1, <1>4

\* html_escape_quotes() shows a value, whatever it is and wherever the buffer ends,
\* as a prefix with no quote cut in the middle, and has room for the terminator.
THEOREM QuotesShownWhole == ParserSpec => []QuotesWhole
<1>1. ParserInv => QuotesWhole
  <2> SUFFICES ASSUME ParserInv PROVE QuotesWhole
    OBVIOUS
  <2> DEFINE src == parser.val_escaped
             shown == html_escape_quotes(src)
             whole == [i \in DOMAIN src |-> Escaped(src[i])]
  <2>1. src \in Text
    BY DEF ParserInv, ParserOK, Parsers
  <2>2. Len(src) \in Nat /\ DOMAIN src = 1..Len(src) /\ \A i \in 1..Len(src) : src[i] \in Letters
    BY <2>1, EmptyOne
  <2>3. ShownOf(src, Len(src), shown)
    BY <2>1, EscapeShows
  <2>4. /\ shown.dstpos \in Nat /\ shown.dstpos < HTML_ESCAPED_BUFFER_SIZE
        /\ shown.text \in Shown /\ Len(shown.text) <= Len(src)
        /\ \A j \in 1..Len(shown.text) : shown.text[j] = Escaped(src[j])
    BY <2>3, BufferAssumption DEF ShownOf, Outputs
  <2> HIDE DEF shown, src
  <2>5. whole \in Shown /\ Len(whole) = Len(src) /\ \A i \in 1..Len(src) : whole[i] = Escaped(src[i])
    <3>1. \A i \in 1..Len(src) : Escaped(src[i]) \in Signs
      BY <2>2 DEF Escaped, Signs
    <3>2. whole \in [1..Len(src) -> Signs]
      BY <2>2, <3>1
    <3>3. \A i \in 1..Len(src) : whole[i] = Escaped(src[i])
      BY <2>2
    <3> HIDE DEF whole
    <3>4. whole \in Shown
      BY <2>2, <3>2, SeqDef DEF Shown
    <3>5. Len(whole) = Len(src)
      <4>1. Len(whole) \in Nat /\ DOMAIN whole = 1..Len(whole)
        BY <3>4, LenProperties DEF Shown
      <4>2. DOMAIN whole = 1..Len(src)
        BY <3>2, SMTT(30)
      <4>3. PICK m \in Nat, n \in Nat : m = Len(whole) /\ n = Len(src)
        BY <2>2, <4>1, ZenonT(40)
      <4>4. 1..m = 1..n
        BY <4>1, <4>2, <4>3
      <4>5. m = n
        BY <4>4
      <4>6. QED
        BY <4>3, <4>5
    <3>6. QED
      BY <3>3, <3>4, <3>5
  <2> HIDE DEF whole
  <2>6. PICK s, t, n : s = shown.text /\ t = whole /\ n = Len(s)
    OBVIOUS
  <2>7. /\ s \in Shown /\ t \in Shown /\ n \in Nat /\ n <= Len(t) /\ n = Len(s)
        /\ \A j \in 1..n : s[j] = t[j]
    <3>1. Len(shown.text) \in Nat
      BY <2>4, LenProperties DEF Shown
    <3>2. \A j \in 1..Len(shown.text) : whole[j] = Escaped(src[j])
      BY <2>2, <2>4, <2>5, <3>1
    <3>3. QED
      BY <2>4, <2>5, <2>6, <3>1, <3>2
  <2>8. SubSeq(s, 1, n) = SubSeq(t, 1, n)
    <3>1. /\ \A i \in 1..n : s[i] \in Signs
          /\ \A i \in 1..n : t[i] \in Signs
      BY <2>7, ElementOfSeq DEF Shown
    <3>2. /\ SubSeq(s, 1, n) \in Shown /\ SubSeq(t, 1, n) \in Shown
          /\ Len(SubSeq(s, 1, n)) = n /\ Len(SubSeq(t, 1, n)) = n
          /\ \A i \in 1..n : SubSeq(s, 1, n)[i] = s[i] /\ SubSeq(t, 1, n)[i] = t[i]
      <4>1. ASSUME NEW x, \A i \in 1..n : x[i] \in Signs
            PROVE  /\ SubSeq(x, 1, n) \in Shown /\ Len(SubSeq(x, 1, n)) = n
                   /\ \A i \in 1..n : SubSeq(x, 1, n)[i] = x[i]
        <5>1. 1 \in Int /\ n \in Int
          BY <2>7
        <5>2. /\ SubSeq(x, 1, n) \in Seq(Signs)
              /\ Len(SubSeq(x, 1, n)) = IF 1 <= n THEN n - 1 + 1 ELSE 0
              /\ \A i \in 1..(n - 1 + 1) : SubSeq(x, 1, n)[i] = x[1 + i - 1]
          BY <4>1, <5>1, SubSeqProperties
        <5>3. n - 1 + 1 = n /\ \A i \in 1..n : 1 + i - 1 = i
          BY <2>7
        <5>4. QED
          BY <2>7, <5>2, <5>3 DEF Shown
      <4>2. QED
        BY <3>1, <4>1
    <3>3. QED
      BY <2>7, <3>2, SeqEqual DEF Shown
  <2>9. IsPrefix(s, t)
    BY <2>7, <2>8 DEF IsPrefix
  <2>10. QED
    BY <2>4, <2>6, <2>9 DEF QuotesWhole, shown, whole, src
<1>2. QED
  BY <1>1, ParserInductive, PTL

------------------------------------------------------------------------------
(* The fields of a form: where they are cut.                                *)

\* The function that Cut is defined with: there is one.
LEMMA CutExists ==
  ASSUME NEW n \in Nat
  PROVE  \E f : f = [i \in 0..n |-> IF i = 0 THEN 0
           ELSE Min({Len(body) + 1} \union {j \in Position("&", body) : j > f[i - 1]})]
<1> DEFINE next(c) == Min({Len(body) + 1} \union {j \in Position("&", body) : j > c})
           IsRun(f, k) == f = [i \in 0..k |-> IF i = 0 THEN 0 ELSE next(f[i - 1])]
           G == {k \in Nat : \E f : IsRun(f, k)}
<1> HIDE DEF next
<1>1. 0 \in G
  <2>1. IsRun([i \in 0..0 |-> 0], 0)
    OBVIOUS
  <2> HIDE DEF IsRun
  <2>2. QED
    BY <2>1
<1>2. ASSUME NEW k \in 1..n, k - 1 \in G PROVE k \in G
  <2>1. PICK g : IsRun(g, k - 1)
    BY <1>2
  <2> DEFINE last == next(g[k - 1])
             f == [i \in 0..k |-> IF i = k THEN last ELSE g[i]]
  <2>2. ASSUME NEW i \in 0..k
        PROVE  f[i] = IF i = 0 THEN 0 ELSE next(f[i - 1])
    <3>1. i # 0 => i - 1 \in 0..(k - 1) /\ f[i - 1] = g[i - 1]
      OBVIOUS
    <3>2. CASE i = k
      BY <3>1, <3>2
    <3>3. CASE i # k
      <4>1. i \in 0..(k - 1)
        BY <3>3
      <4>2. g[i] = IF i = 0 THEN 0 ELSE next(g[i - 1])
        BY <2>1, <4>1
      <4>3. f[i] = g[i]
        BY <3>3
      <4> HIDE DEF f
      <4>4. QED
        BY <3>1, <4>2, <4>3
    <3>4. QED
      BY <3>2, <3>3
  <2>3. f = [i \in 0..k |-> f[i]]
    OBVIOUS
  <2> HIDE DEF f
  <2>4. IsRun(f, k)
    BY <2>2, <2>3
  <2> HIDE DEF IsRun
  <2>5. QED
    BY <2>4
<1>3. n \in G
  <2> HIDE DEF G
  <2>1. QED
    BY <1>1, <1>2, EveryStep
<1>4. QED
  BY <1>3 DEF next

\* What that function says of each cut.
LEMMA CutIs ==
  ASSUME body \in Text
  PROVE  /\ Cut[0] = 0
         /\ \A f \in 1..(Len(body) + 1) :
              Cut[f] = Min({Len(body) + 1} \union {j \in Position("&", body) : j > Cut[f - 1]})
<1>1. PICK n \in Nat : n = Len(body) + 1
  BY EmptyOne
<1> DEFINE next(c) == Min({Len(body) + 1} \union {j \in Position("&", body) : j > c})
           f == CHOOSE f : f = [i \in 0..n |-> IF i = 0 THEN 0 ELSE next(f[i - 1])]
<1>2. f = [i \in 0..n |-> IF i = 0 THEN 0 ELSE next(f[i - 1])]
  BY CutExists, Zenon
<1>3. Cut = f
  BY <1>1 DEF Cut
<1> HIDE DEF f, next
<1>4. f[0] = 0
  BY <1>2
<1>5. \A i \in 1..n : f[i] = next(f[i - 1])
  BY <1>2
<1>6. QED
  BY <1>1, <1>3, <1>4, <1>5 DEF next

\* A cut is at the next "&" after the one before, or after the end of the body.
LEMMA CutNext ==
  ASSUME body \in Text, NEW f \in 1..(Len(body) + 1), Cut[f - 1] \in 0..(Len(body) + 1)
  PROVE  /\ Cut[f] \in 1..(Len(body) + 1)
         /\ Cut[f - 1] <= Cut[f]
         /\ Cut[f - 1] <= Len(body) => Cut[f - 1] < Cut[f]
         /\ Cut[f] <= Len(body) => body[Cut[f]] = "&"
         /\ \A i \in 1..Len(body) : Cut[f - 1] < i /\ i < Cut[f] => body[i] # "&"
<1> DEFINE S == {Len(body) + 1} \union {j \in Position("&", body) : j > Cut[f - 1]}
<1>1. Len(body) \in Nat /\ DOMAIN body = 1..Len(body)
  BY EmptyOne
<1>2. S \in SUBSET Nat /\ S # {}
  BY <1>1 DEF Position
<1>3. Cut[f] = Min(S)
  BY CutIs
<1>4. Cut[f] \in S /\ \A k \in S : Cut[f] <= k
  <2> HIDE DEF S
  <2>1. QED
    BY <1>2, <1>3, MinIs
<1>5. PICK a, b : a \in 0..(Len(body) + 1) /\ a = Cut[f - 1] /\ b = Cut[f]
  OBVIOUS
<1>6. /\ b = Len(body) + 1 \/ (b \in 1..Len(body) /\ body[b] = "&" /\ b > a)
      /\ b <= Len(body) + 1
      /\ \A i \in 1..Len(body) : body[i] = "&" /\ i > a => b <= i
  BY <1>1, <1>4, <1>5 DEF Position
<1>7. ASSUME NEW i \in 1..Len(body), a < i, i < b PROVE body[i] # "&"
  BY <1>1, <1>6, <1>7
<1>8. QED
  BY <1>1, <1>5, <1>6, <1>7

\* Cuts are in the body or one behind it, and every field has its own.
LEMMA CutType ==
  ASSUME body \in Text
  PROVE  \A f \in 0..(Len(body) + 1) : Cut[f] \in 0..(Len(body) + 1) /\ f <= Cut[f]
<1>1. PICK n \in Nat : n = Len(body) + 1
  BY EmptyOne
<1> DEFINE G == {f \in 0..n : Cut[f] \in 0..n /\ f <= Cut[f]}
<1>2. 0 \in G
  BY <1>1, CutIs
<1>3. ASSUME NEW f \in 1..n, f - 1 \in G PROVE f \in G
  <2>1. Cut[f - 1] \in 0..n /\ f - 1 <= Cut[f - 1]
    BY <1>3
  <2>2. Cut[f] \in 1..n /\ (Cut[f - 1] <= Len(body) => Cut[f - 1] < Cut[f]) /\ Cut[f - 1] <= Cut[f]
    BY <1>1, <2>1, CutNext
  <2>3. f <= Cut[f]
    <3>1. CASE Cut[f - 1] = n
      BY <2>1, <2>2, <3>1
    <3>2. CASE Cut[f - 1] # n
      BY <1>1, <2>1, <2>2, <3>2
    <3>3. QED
      BY <3>1, <3>2
  <2>4. QED
    BY <2>2, <2>3
<1>4. \A f \in 0..n : f \in G
  <2> HIDE DEF G
  <2>1. QED
    BY <1>2, <1>3, EveryStep
<1>5. QED
  BY <1>1, <1>4

\* They ascend.
LEMMA CutAscends ==
  ASSUME body \in Text, NEW m \in 0..(Len(body) + 1)
  PROVE  \A f \in m..(Len(body) + 1) : Cut[m] <= Cut[f]
<1>1. PICK n \in Nat : n = Len(body) + 1
  BY EmptyOne
<1> DEFINE G == {f \in 0..n : f < m \/ Cut[m] <= Cut[f]}
<1>2. \A f \in 0..n : Cut[f] \in 0..n
  BY <1>1, CutType
<1>3. 0 \in G
  BY <1>1, <1>2
<1>4. ASSUME NEW f \in 1..n, f - 1 \in G PROVE f \in G
  <2>1. Cut[f - 1] <= Cut[f]
    BY <1>1, <1>2, CutNext
  <2>2. PICK a \in 0..n, b \in 0..n, c \in 0..n : a = Cut[m] /\ b = Cut[f - 1] /\ c = Cut[f]
    BY <1>1, <1>2
  <2>3. f < m \/ a <= c
    <3>1. CASE f - 1 < m
      BY <1>1, <2>2, <3>1
    <3>2. CASE ~(f - 1 < m)
      <4>1. a <= b
        BY <1>4, <2>2, <3>2
      <4>2. QED
        BY <2>1, <2>2, <4>1
    <3>3. QED
      BY <3>1, <3>2
  <2>4. QED
    BY <2>2, <2>3
<1>5. \A f \in 0..n : f \in G
  <2> HIDE DEF G
  <2>1. QED
    BY <1>3, <1>4, EveryStep
<1>6. QED
  BY <1>1, <1>5

\* After n fields, between two cuts.
Inside(n, m) == n \in 0..Len(body) /\ Cut[n] <= m /\ m < Cut[n + 1]

\* A character after position m closes the field or belongs to it.
LEMMA NextInside ==
  ASSUME body \in Text, NEW n, NEW m \in 0..(Len(body) - 1), Inside(n, m)
  PROVE  /\ body[m + 1] = "&" => Cut[n + 1] = m + 1
         /\ body[m + 1] # "&" => Inside(n, m + 1)
<1>0. PICK k \in Nat : k = Len(body)
  BY EmptyOne
<1>1. PICK a, b : k = Len(body) /\ a = Cut[n] /\ b = Cut[n + 1]
  BY <1>0
<1>2. n \in 0..k /\ n + 1 - 1 = n /\ n + 1 \in 1..(k + 1) /\ a <= m /\ m < b /\ m \in 0..(k - 1)
  BY <1>1 DEF Inside
<1>3. a \in 0..(k + 1)
  BY <1>1, <1>2, CutType
<1>4. /\ b \in 1..(k + 1) /\ (b <= k => body[b] = "&")
      /\ \A i \in 1..k : a < i /\ i < b => body[i] # "&"
  BY <1>1, <1>2, <1>3, CutNext
<1>5. CASE body[m + 1] = "&"
  <2>1. ~(m + 1 < b)
    BY <1>2, <1>3, <1>4, <1>5
  <2>2. b = m + 1
    BY <1>2, <1>4, <2>1
  <2>3. QED
    BY <1>1, <1>5, <2>2
<1>6. CASE body[m + 1] # "&"
  <2>1. b # m + 1
    BY <1>2, <1>4, <1>6
  <2>2. a <= m + 1 /\ m + 1 < b
    BY <1>2, <1>3, <1>4, <2>1
  <2>3. QED
    BY <1>1, <1>2, <1>6, <2>2 DEF Inside
<1>7. QED
  BY <1>5, <1>6

\* Where a field begins, and that there is one.
LEMMA FieldBegins ==
  ASSUME body \in Text, NEW n \in 0..Len(body), Cut[n] <= Len(body)
  PROVE  Inside(n, Cut[n]) /\ n + 1 \in Fields
<1>1. PICK k \in Nat : k = Len(body)
  BY EmptyOne
<1>2. n \in 0..k /\ n + 1 - 1 = n /\ n + 1 \in 1..(k + 1)
  BY <1>1
<1>3. Cut[n] \in 0..(k + 1)
  BY <1>1, <1>2, CutType
<1>4. Cut[n] < Cut[n + 1]
  BY <1>1, <1>2, <1>3, CutNext
<1>5. QED
  BY <1>1, <1>2, <1>3, <1>4 DEF Inside, Fields

------------------------------------------------------------------------------
(* The text of a value: what url_unescape() makes of it.                    *)

\* The function that Unescaped() is defined with: there is one.
LEMMA UnescapedExists ==
  ASSUME NEW raw, NEW n \in Nat
  PROVE  \E f : f = [i \in 0..n |->
           IF i = 0 THEN <<>>
           ELSE IF i - 1 \in Escapes(raw) \/ i - 2 \in Escapes(raw) THEN f[i - 1]
           ELSE Append(f[i - 1], Sign(raw, i))]
<1> DEFINE next(t, i) == IF i - 1 \in Escapes(raw) \/ i - 2 \in Escapes(raw) THEN t
                         ELSE Append(t, Sign(raw, i))
           IsRun(f, k) == f = [i \in 0..k |-> IF i = 0 THEN <<>> ELSE next(f[i - 1], i)]
           G == {k \in Nat : \E f : IsRun(f, k)}
<1> HIDE DEF next
<1>1. 0 \in G
  <2>1. IsRun([i \in 0..0 |-> <<>>], 0)
    OBVIOUS
  <2> HIDE DEF IsRun
  <2>2. QED
    BY <2>1
<1>2. ASSUME NEW k \in 1..n, k - 1 \in G PROVE k \in G
  <2>1. PICK g : IsRun(g, k - 1)
    BY <1>2
  <2> DEFINE last == next(g[k - 1], k)
             f == [i \in 0..k |-> IF i = k THEN last ELSE g[i]]
  <2>2. ASSUME NEW i \in 0..k
        PROVE  f[i] = IF i = 0 THEN <<>> ELSE next(f[i - 1], i)
    <3>1. i # 0 => i - 1 \in 0..(k - 1) /\ f[i - 1] = g[i - 1]
      OBVIOUS
    <3>2. CASE i = k
      BY <3>1, <3>2
    <3>3. CASE i # k
      <4>1. i \in 0..(k - 1)
        BY <3>3
      <4>2. g[i] = IF i = 0 THEN <<>> ELSE next(g[i - 1], i)
        BY <2>1, <4>1
      <4>3. f[i] = g[i]
        BY <3>3
      <4> HIDE DEF f
      <4>4. QED
        BY <3>1, <4>2, <4>3
    <3>4. QED
      BY <3>2, <3>3
  <2>3. f = [i \in 0..k |-> f[i]]
    OBVIOUS
  <2> HIDE DEF f
  <2>4. IsRun(f, k)
    BY <2>2, <2>3
  <2> HIDE DEF IsRun
  <2>5. QED
    BY <2>4
<1>3. n \in G
  <2> HIDE DEF G
  <2>1. QED
    BY <1>1, <1>2, EveryStep
<1>4. QED
  BY <1>3 DEF next

\* What that function says of each character.
LEMMA UnescapedIs ==
  ASSUME NEW raw, NEW n \in Nat, n = Len(raw)
  PROVE  \E f : /\ Unescaped(raw) = f[n]
                /\ f[0] = <<>>
                /\ \A i \in 1..n : f[i] =
                     IF i - 1 \in Escapes(raw) \/ i - 2 \in Escapes(raw) THEN f[i - 1]
                     ELSE Append(f[i - 1], Sign(raw, i))
<1> DEFINE next(t, i) == IF i - 1 \in Escapes(raw) \/ i - 2 \in Escapes(raw) THEN t
                         ELSE Append(t, Sign(raw, i))
           f == CHOOSE f : f = [i \in 0..n |-> IF i = 0 THEN <<>> ELSE next(f[i - 1], i)]
<1>1. f = [i \in 0..n |-> IF i = 0 THEN <<>> ELSE next(f[i - 1], i)]
  BY UnescapedExists, ZenonT(40)
<1>2. Unescaped(raw) = f[n]
  BY DEF Unescaped
<1> HIDE DEF f, next
<1>3. f[0] = <<>>
  BY <1>1
<1>4. \A i \in 1..n : f[i] = next(f[i - 1], i)
  BY <1>1
<1>5. QED
  BY <1>2, <1>3, <1>4 DEF next

\* A character between two texts belongs to either.
LEMMA AppendConcat ==
  ASSUME NEW s \in Text, NEW c \in Letters, NEW t \in Text
  PROVE  Append(s, c) \o t = s \o (<<c>> \o t)
<1>1. Append(s, c) = s \o <<c>>
  BY AppendIsConcat DEF Text
<1>2. <<c>> \in Text
  BY EmptyOne
<1>3. (s \o <<c>>) \o t = s \o (<<c>> \o t)
  BY <1>2, ConcatAssociative DEF Text
<1>4. QED
  BY <1>1, <1>3

\* What url_unescape() finds in the buffer is what a value means, as the buffer
\* holds no digits behind the value.
THEOREM UnescapeMeans ==
  ASSUME NEW m \in Nat, NEW src \in [0..m -> Letters], NEW raw \in Text, Len(raw) <= m,
         \A i \in 0..m : src[i] = IF i < Len(raw) THEN raw[i + 1] ELSE NUL
  PROVE  url_unescape(src, Len(raw)) = Unescaped(raw)
<1>1. PICK n \in 0..m : n = Len(raw)
  BY EmptyOne
<1>2. n \in Nat /\ DOMAIN raw = 1..n /\ \A i \in 1..n : raw[i] \in Letters
  BY <1>1, EmptyOne
<1>0. PICK f : Unescapes(f, src, n)
  BY UnescapeTexts
<1>3. /\ url_unescape(src, n) = f[0]
      /\ \A i \in 0..(n + 2) : f[i] =
           IF i >= n THEN <<>> ELSE <<CharAt(src, i)>> \o f[After(src, i)]
      /\ \A i \in 0..(n + 2) : f[i] \in Text
  BY <1>0 DEF Unescapes
<1>4. PICK t : /\ Unescaped(raw) = t[n]
               /\ t[0] = <<>>
               /\ \A i \in 1..n : t[i] =
                    IF i - 1 \in Escapes(raw) \/ i - 2 \in Escapes(raw) THEN t[i - 1]
                    ELSE Append(t[i - 1], Sign(raw, i))
  BY <1>1, <1>2, UnescapedIs
\* An escape is one for both.
<1>5. ASSUME NEW i \in 0..(n - 1)
      PROVE  /\ EscapeAt(src, i) <=> i + 1 \in Escapes(raw)
             /\ CharAt(src, i) = Sign(raw, i + 1)
             /\ Sign(raw, i + 1) \in Letters
  <2>1. DOMAIN src = 0..m /\ NUL \notin Hex
    BY DEF NUL, Hex
  <2>2. src[i] = raw[i + 1] /\ i + 1 \in 1..n
    BY <1>1, <1>2
  <2>3. /\ Byte(src, i + 1) = IF i + 1 < n THEN raw[i + 2] ELSE NUL
        /\ Byte(src, i + 2) = IF i + 2 < n THEN raw[i + 3] ELSE NUL
    <3>1. ASSUME NEW j \in 1..2
          PROVE  Byte(src, i + j) = IF i + j < n THEN raw[i + j + 1] ELSE NUL
      <4>1. CASE i + j \in 0..m
        BY <1>1, <2>1, <4>1 DEF Byte
      <4>2. CASE i + j \notin 0..m
        <5>1. ~(i + j < n)
          BY <1>2, <4>2
        <5>2. QED
          BY <2>1, <4>2, <5>1 DEF Byte
      <4>3. QED
        BY <4>1, <4>2
    <3>2. i + 1 + 1 = i + 2 /\ i + 2 + 1 = i + 3
      BY <1>2
    <3>3. QED
      BY <3>1, <3>2
  <2>4. EscapeAt(src, i) <=> i + 1 \in Escapes(raw)
    <3>1. i + 1 \in Escapes(raw) <=> /\ raw[i + 1] = "%" /\ i + 2 < n
                                     /\ raw[i + 2] \in Hex /\ raw[i + 3] \in Hex
      <4>1. i + 1 + 1 = i + 2 /\ i + 1 + 2 = i + 3 /\ (i + 3 <= n <=> i + 2 < n)
        BY <1>2
      <4>2. QED
        BY <1>1, <1>2, <2>2, <4>1 DEF Escapes, Position
    <3>2. i + 2 < n => i + 1 < n
      BY <1>2
    <3>3. QED
      BY <2>1, <2>2, <2>3, <3>1, <3>2 DEF EscapeAt
  <2>5. CharAt(src, i) = Sign(raw, i + 1)
    <3>1. CASE EscapeAt(src, i)
      <4>1. i + 2 <= n - 1
        <5>1. i + 1 \in Escapes(raw) /\ i + 1 + 2 <= n
          BY <1>1, <2>4, <3>1 DEF Escapes
        <5>2. QED
          BY <1>2, <5>1
      <4>2. src[i + 1] = raw[i + 2] /\ src[i + 2] = raw[i + 3]
        <5>1. /\ i + 1 \in 0..m /\ i + 1 < n /\ i + 1 + 1 = i + 2
              /\ i + 2 \in 0..m /\ i + 2 < n /\ i + 2 + 1 = i + 3
          BY <1>2, <4>1
        <5>2. QED
          BY <1>1, <5>1
      <4>3. i + 1 + 1 = i + 2 /\ i + 1 + 2 = i + 3
        BY <1>2
      <4>4. QED
        BY <2>4, <3>1, <4>2, <4>3 DEF CharAt, Sign
    <3>2. CASE ~EscapeAt(src, i)
      BY <2>2, <2>4, <3>2 DEF CharAt, Sign
    <3>3. QED
      BY <3>1, <3>2
  <2>6. Sign(raw, i + 1) \in Letters
    <3>1. raw[i + 1] \in Letters
      BY <1>2, <2>2
    <3>2. \A x, y : Decode(x, y) \in Letters
      BY DEF Decode, Letters
    <3>3. QED
      BY <3>1, <3>2 DEF Sign, Letters
  <2>7. QED
    BY <2>4, <2>5, <2>6
\* Outside of an escape there is no other.
<1>6. ASSUME NEW i \in Escapes(raw)
      PROVE  i \in 1..n /\ i + 2 \in 1..n /\ i + 1 \notin Escapes(raw) /\ i + 2 \notin Escapes(raw)
  <2>1. i \in 1..n /\ i + 2 <= n /\ raw[i + 1] # "%" /\ raw[i + 2] # "%"
    BY <1>1, <1>2 DEF Escapes, Position, Hex
  <2>2. QED
    BY <2>1 DEF Escapes, Position
<1> DEFINE Between(i) == i \notin Escapes(raw) /\ i - 1 \notin Escapes(raw)
           Ok(i) == t[i] \in Text /\ (Between(i) => t[i] \o f[i] = f[0])
           G == {k \in 0..n : \A i \in 0..k : Ok(i)}
<1>7. 0 \in G
  <2>1. 0 \in 0..(n + 2)
    BY <1>2
  <2>2. f[0] \in Text
    BY <1>3, <2>1
  <2>3. <<>> \o f[0] = f[0]
    BY <2>2, ConcatEmptySeq DEF Text
  <2>4. Ok(0)
    BY <1>4, <2>3, EmptyOne
  <2> HIDE DEF Ok
  <2>5. QED
    BY <1>2, <2>4
<1>8. ASSUME NEW k \in 1..n, k - 1 \in G PROVE k \in G
  <2> HIDE DEF Ok
  <2>1. \A i \in 0..(k - 1) : Ok(i)
    BY <1>8
  <2>2. Ok(k)
    <3>1. t[k - 1] \in Text
      <4>1. k - 1 \in 0..(k - 1)
        OBVIOUS
      <4>2. Ok(k - 1)
        BY <2>1, <4>1, Zenon
      <4>3. QED
        BY <4>2 DEF Ok
    <3>2. k - 1 \in 0..(n - 1) /\ k - 1 + 1 = k
      OBVIOUS
    <3>3. Sign(raw, k) \in Letters /\ CharAt(src, k - 1) = Sign(raw, k)
          /\ (EscapeAt(src, k - 1) <=> k \in Escapes(raw))
      BY <1>5, <3>2
    <3>4. CASE k - 1 \in Escapes(raw)
      <4>1. t[k] = t[k - 1]
        BY <1>4, <3>4
      <4>2. QED
        BY <3>1, <3>4, <4>1 DEF Ok
    <3>5. CASE k - 1 \notin Escapes(raw) /\ k - 2 \in Escapes(raw)
      <4>1. t[k] = t[k - 1]
        BY <1>4, <3>5
      <4>2. k - 2 \in 1..n
        BY <1>6, <3>5
      <4>3. k - 2 - 1 \in 0..(k - 1) /\ k - 2 - 1 + 1 = k - 2 /\ k - 2 - 1 \in 0..(n - 1)
            /\ k - 2 \in 1..n /\ k - 1 \in 1..n
        BY <4>2
      <4> DEFINE j == k - 2 - 1
      <4>4. j \notin Escapes(raw) /\ j - 1 \notin Escapes(raw)
        <5>1. ASSUME j \in Escapes(raw) PROVE FALSE
          <6>1. j + 1 \notin Escapes(raw)
            BY <1>6, <5>1
          <6>2. QED
            BY <3>5, <4>3, <6>1
        <5>2. ASSUME j - 1 \in Escapes(raw) PROVE FALSE
          <6>1. j - 1 + 2 \notin Escapes(raw)
            BY <1>6, <5>2
          <6>2. j - 1 + 2 = k - 2
            OBVIOUS
          <6>3. QED
            BY <3>5, <6>1, <6>2
        <5>3. QED
          BY <5>1, <5>2
      <4>5. t[j] \in Text /\ t[j] \o f[j] = f[0]
        BY <2>1, <4>3, <4>4 DEF Ok
      <4>6. f[j] = <<CharAt(src, j)>> \o f[k]
        <5>1. EscapeAt(src, j)
          BY <1>5, <3>5, <4>3
        <5>2. After(src, j) = k
          BY <5>1 DEF After
        <5>3. j \in 0..(n + 2) /\ ~(j >= n)
          BY <4>3
        <5> HIDE DEF j
        <5>4. QED
          BY <1>3, <5>2, <5>3
      <4>7. t[k] = Append(t[j], Sign(raw, k - 2))
        <5>1. t[k - 1] = t[k - 2]
          <6>1. k - 1 \in 1..n /\ k - 1 - 1 = k - 2
            BY <4>3
          <6>2. QED
            BY <1>4, <3>5, <6>1
        <5>2. t[k - 2] = Append(t[j], Sign(raw, k - 2))
          <6>1. k - 2 \in 1..n /\ k - 2 - 2 = j - 1
            BY <4>3
          <6>2. QED
            BY <1>4, <4>4, <6>1
        <5>3. QED
          BY <4>1, <5>1, <5>2
      <4>8. CharAt(src, j) = Sign(raw, k - 2) /\ Sign(raw, k - 2) \in Letters
        BY <1>5, <4>3
      <4>9. f[k] \in Text
        <5>1. k \in 0..(n + 2)
          OBVIOUS
        <5>2. QED
          BY <1>3, <5>1
      <4> HIDE DEF j
      <4>10. t[k] \o f[k] = f[0]
        <5>1. PICK s \in Text, c \in Letters, u \in Text :
                s = t[j] /\ c = Sign(raw, k - 2) /\ u = f[k]
          BY <4>5, <4>8, <4>9
        <5>2. t[k] = Append(s, c) /\ s \o (<<c>> \o u) = f[0]
          BY <4>5, <4>6, <4>7, <4>8, <5>1
        <5>3. Append(s, c) \o u = s \o (<<c>> \o u)
          BY AppendConcat
        <5>4. QED
          BY <5>1, <5>2, <5>3, Zenon
      <4>11. t[k] \in Text
        BY <4>5, <4>7, <4>8, AppendProperties DEF Text
      <4>12. QED
        BY <4>10, <4>11 DEF Ok
    <3>6. CASE k - 1 \notin Escapes(raw) /\ k - 2 \notin Escapes(raw)
      <4>1. t[k] = Append(t[k - 1], Sign(raw, k))
        BY <1>4, <3>6
      <4>2. t[k] \in Text
        BY <3>1, <3>3, <4>1, AppendProperties DEF Text
      <4>3. ASSUME k \notin Escapes(raw)
            PROVE  t[k] \o f[k] = f[0]
        <5>1. After(src, k - 1) = k
          BY <3>3, <4>3 DEF After
        <5>2. k - 1 \in 0..(n + 2) /\ ~(k - 1 >= n) /\ k \in 0..(n + 2)
          OBVIOUS
        <5>3. f[k - 1] = <<CharAt(src, k - 1)>> \o f[k] /\ f[k] \in Text
          BY <1>3, <5>1, <5>2
        <5>4. t[k - 1] \o f[k - 1] = f[0]
          <6>1. k - 1 \in 0..(k - 1) /\ k - 1 - 1 = k - 2
            OBVIOUS
          <6>2. QED
            BY <2>1, <3>6, <6>1 DEF Ok
        <5>5. QED
          <6>1. PICK s \in Text, c \in Letters, u \in Text :
                  s = t[k - 1] /\ c = Sign(raw, k) /\ u = f[k]
            BY <3>1, <3>3, <5>3
          <6>2. t[k] = Append(s, c) /\ s \o (<<c>> \o u) = f[0]
            BY <3>3, <4>1, <5>3, <5>4, <6>1
          <6>3. Append(s, c) \o u = s \o (<<c>> \o u)
            BY AppendConcat
          <6>4. QED
            BY <6>1, <6>2, <6>3, Zenon
      <4>4. QED
        BY <4>2, <4>3 DEF Ok
    <3>7. QED
      BY <3>4, <3>5, <3>6
  <2>3. QED
    BY <2>1, <2>2
<1>9. Ok(n)
  <2> HIDE DEF G, Ok
  <2>1. \A k \in 0..n : k \in G
    BY <1>2, <1>7, <1>8, EveryStep
  <2>2. n \in G
    BY <1>2, <2>1
  <2>3. QED
    BY <1>2, <2>2 DEF G
<1>10. Between(n)
  <2>1. ASSUME NEW i \in Escapes(raw) PROVE i + 2 <= n
    BY <1>6
  <2>2. ~(n + 2 <= n) /\ ~(n - 1 + 2 <= n)
    BY <1>2
  <2>3. QED
    BY <2>1, <2>2
<1>11. f[n] = <<>>
  <2>1. n \in 0..(n + 2) /\ n >= n
    BY <1>2
  <2>2. QED
    BY <1>3, <2>1
<1>12. t[n] = f[0]
  <2>1. t[n] \in Text /\ t[n] \o f[n] = f[0]
    BY <1>9, <1>10
  <2>2. t[n] \o <<>> = t[n]
    BY <2>1, ConcatEmptySeq DEF Text
  <2>3. QED
    BY <1>11, <2>1, <2>2
<1>13. QED
  BY <1>1, <1>3, <1>4, <1>12

------------------------------------------------------------------------------
(* Parts of a text.                                                         *)

\* Two texts with the same characters are the same.
LEMMA SameText ==
  ASSUME NEW s \in Text, NEW t \in Text, Len(s) = Len(t), \A i \in 1..Len(s) : s[i] = t[i]
  PROVE  s = t
BY SeqEqual DEF Text

\* A part of a text.
LEMMA Slice ==
  ASSUME NEW s \in Text, NEW a \in 1..(Len(s) + 1), NEW b \in (a - 1)..Len(s)
  PROVE  /\ SubSeq(s, a, b) \in Text /\ Len(SubSeq(s, a, b)) = b - a + 1
         /\ \A i \in 1..(b - a + 1) : SubSeq(s, a, b)[i] = s[a + i - 1]
<1>1. Len(s) \in Nat /\ \A i \in 1..Len(s) : s[i] \in Letters
  BY EmptyOne
<1>2. a \in Int /\ b \in Int /\ \A i \in a..b : s[i] \in Letters
  BY <1>1
<1>3. /\ SubSeq(s, a, b) \in Seq(Letters)
      /\ Len(SubSeq(s, a, b)) = IF a <= b THEN b - a + 1 ELSE 0
      /\ \A i \in 1..(b - a + 1) : SubSeq(s, a, b)[i] = s[a + i - 1]
  BY <1>2, SubSeqProperties
<1>4. (IF a <= b THEN b - a + 1 ELSE 0) = b - a + 1
  BY <1>1
<1>5. QED
  BY <1>3, <1>4 DEF Text

\* With the next character it is the next longer one.
LEMMA SliceGrows ==
  ASSUME NEW s \in Text, NEW a \in 1..(Len(s) + 1), NEW b \in (a - 1)..(Len(s) - 1)
  PROVE  Append(SubSeq(s, a, b), s[b + 1]) = SubSeq(s, a, b + 1)
<1>0. PICK n \in Nat : n = Len(s)
  BY EmptyOne
<1>1. b \in (a - 1)..Len(s) /\ b + 1 \in (a - 1)..Len(s) /\ b + 1 \in 1..Len(s)
      /\ b - a + 1 \in Nat /\ b + 1 - a + 1 = b - a + 1 + 1 /\ a + (b - a + 1 + 1) - 1 = b + 1
  BY <1>0
<1>2. PICK t \in Text : t = SubSeq(s, a, b)
  BY <1>1, Slice
<1>3. PICK u \in Text : u = SubSeq(s, a, b + 1)
  BY <1>1, Slice
<1>4. PICK c \in Letters : c = s[b + 1]
  BY <1>1, EmptyOne
<1>5. PICK k \in Nat : k = b - a + 1
  BY <1>1
<1>6. Len(t) = k /\ \A i \in 1..k : t[i] = s[a + i - 1]
  BY <1>1, <1>2, <1>5, Slice
<1>7. Len(u) = k + 1 /\ \A i \in 1..(k + 1) : u[i] = s[a + i - 1]
  BY <1>1, <1>3, <1>5, Slice
<1>8. PICK v \in Text : v = Append(t, c) /\ Len(v) = k + 1 /\ v[k + 1] = c
                        /\ \A i \in 1..k : v[i] = t[i]
  <2>1. Append(t, c) \in Text /\ Len(Append(t, c)) = k + 1 /\ Append(t, c)[k + 1] = c
        /\ \A i \in 1..k : Append(t, c)[i] = t[i]
    <3>1. /\ Append(t, c) \in Text /\ Len(Append(t, c)) = Len(t) + 1
          /\ Append(t, c)[Len(t) + 1] = c
          /\ \A i \in 1..Len(t) : Append(t, c)[i] = t[i]
      BY AppendProperties DEF Text
    <3>2. QED
      BY <1>6, <3>1
  <2>2. QED
    BY <2>1
<1>9. ASSUME NEW i \in 1..(k + 1) PROVE v[i] = u[i]
  <2>1. CASE i = k + 1
    BY <1>1, <1>4, <1>5, <1>7, <1>8, <2>1
  <2>2. CASE i # k + 1
    <3>1. i \in 1..k
      BY <2>2
    <3>2. QED
      BY <1>6, <1>7, <1>8, <3>1
  <2>3. QED
    BY <2>1, <2>2
<1>10. v = u
  BY <1>7, <1>8, <1>9, SameText
<1>11. QED
  BY <1>2, <1>3, <1>4, <1>8, <1>10, Zenon

\* UpTo() ends before the first of the characters, and not before it.
LEMMA UpToFirst ==
  ASSUME NEW s \in Text, NEW c, NEW k \in 1..Len(s), s[k] = c, \A i \in 1..(k - 1) : s[i] # c
  PROVE  UpTo(c, s) = SubSeq(s, 1, k - 1)
<1> DEFINE found == Position(c, s)
<1>1. Len(s) \in Nat /\ DOMAIN s = 1..Len(s)
  BY EmptyOne
<1>2. found \in SUBSET Nat /\ k \in found
  BY <1>1 DEF Position
<1>3. \A i \in found : k <= i
  <2>1. ASSUME NEW i \in found, i < k PROVE FALSE
    BY <1>1, <2>1 DEF Position
  <2>2. QED
    BY <1>2, <2>1
<1>4. UpTo(c, s) = SubSeq(s, 1, Min(found) - 1)
  BY <1>2 DEF UpTo
<1> HIDE DEF found
<1>5. Min(found) \in found /\ \A i \in found : Min(found) <= i
  BY <1>2, MinIs
<1>6. Min(found) = k
  <2>1. PICK l \in Nat : l = Min(found)
    BY <1>2, <1>5
  <2>2. k <= l /\ l <= k
    BY <1>2, <1>3, <1>5, <2>1
  <2>3. QED
    BY <1>2, <2>1, <2>2
<1>7. QED
  BY <1>4, <1>6

\* A text that does not begin with the character is not cut early.
LEMMA UpToLong ==
  ASSUME NEW s \in Text, NEW c, NEW k \in 0..Len(s), \A i \in 1..k : s[i] # c
  PROVE  Len(UpTo(c, s)) >= k
<1> DEFINE found == Position(c, s)
<1>1. Len(s) \in Nat /\ DOMAIN s = 1..Len(s)
  BY EmptyOne
<1>2. CASE found = {}
  BY <1>1, <1>2 DEF UpTo
<1>3. CASE found # {}
  <2>1. found \in SUBSET Nat
    BY <1>1 DEF Position
  <2>2. UpTo(c, s) = SubSeq(s, 1, Min(found) - 1)
    BY <1>3 DEF UpTo
  <2>3. Min(found) \in found
    <3> HIDE DEF found
    <3>1. QED
      BY <1>3, <2>1, MinIs
  <2>4. PICK l \in Nat : l = Min(found)
    BY <2>1, <2>3
  <2>5. l \in 1..Len(s) /\ s[l] = c
    BY <1>1, <2>3, <2>4 DEF Position
  <2>6. l > k
    BY <1>1, <2>5
  <2>7. Len(SubSeq(s, 1, l - 1)) = l - 1
    <3>1. 1 \in 1..(Len(s) + 1) /\ l - 1 \in (1 - 1)..Len(s) /\ l - 1 - 1 + 1 = l - 1
      BY <1>1, <2>5
    <3>2. PICK m \in (1 - 1)..Len(s) : m = l - 1
      BY <3>1
    <3>3. Len(SubSeq(s, 1, m)) = m - 1 + 1
      BY <3>1, Slice
    <3>4. QED
      BY <3>1, <3>2, <3>3
  <2>8. QED
    BY <2>2, <2>4, <2>6, <2>7
<1>4. QED
  BY <1>2, <1>3

------------------------------------------------------------------------------
(* The text of a field, and what makes it a good one.                       *)

\* A part of the body has none of these characters.
NoneIn(c, a, b) == \A i \in a..b : body[i] # c

\* The text of field n + 1, and the cuts around it.
FieldIs(n, a, b, t) ==
  /\ a = Cut[n] /\ b = Cut[n + 1] /\ t = Field(n + 1)
  /\ a < b /\ b <= Len(body) + 1
  /\ Len(t) = b - a - 1
  /\ \A i \in 1..(b - a - 1) : t[i] = body[a + i]

\* There is such a text; and the field after this one, if the body goes on.
LEMMA FieldText ==
  ASSUME body \in Text, NEW n, NEW m \in Nat, Inside(n, m)
  PROVE  /\ \E a \in Nat, b \in Nat, t \in Text : FieldIs(n, a, b, t)
         /\ n + 1 \in Fields
         /\ n + 2 \in Fields <=> Cut[n + 1] <= Len(body)
<1>1. PICK k \in Nat : k = Len(body)
  BY EmptyOne
<1>2. n \in 0..k /\ n + 1 - 1 = n /\ n + 1 \in 1..(k + 1) /\ n + 2 - 1 = n + 1
      /\ n \in 0..(k + 1) /\ n + 1 \in 0..(k + 1)
  BY <1>1 DEF Inside
<1>3. PICK a \in 0..(k + 1), b \in 0..(k + 1) : a = Cut[n] /\ b = Cut[n + 1] /\ n + 1 <= b
  BY <1>1, <1>2, CutType
<1>4. a < b
  BY <1>3 DEF Inside
<1>5. n + 1 \in Fields
  BY <1>1, <1>2, <1>3, <1>4 DEF Fields
<1>6. n + 2 \in Fields <=> b <= k
  <2>1. ASSUME b <= k PROVE n + 2 \in 1..(k + 1)
    BY <1>2, <1>3, <2>1
  <2>2. QED
    BY <1>1, <1>2, <1>3, <2>1 DEF Fields
<1>7. Field(n + 1) = SubSeq(body, a + 1, b - 1)
  <2>1. PICK f : f = n + 1 /\ f - 1 = n
    BY <1>2
  <2>2. Field(f) = SubSeq(body, Cut[f - 1] + 1, Cut[f] - 1)
    BY DEF Field
  <2>3. QED
    BY <1>3, <2>1, <2>2
<1>8. PICK x \in 1..(k + 1), y \in Int : x = a + 1 /\ y = b - 1 /\ y \in (x - 1)..k
  BY <1>1, <1>3, <1>4, SMTT(30)
<1>9. /\ SubSeq(body, x, y) \in Text /\ Len(SubSeq(body, x, y)) = y - x + 1
      /\ \A i \in 1..(y - x + 1) : SubSeq(body, x, y)[i] = body[x + i - 1]
  BY <1>1, <1>8, Slice
<1>10. y - x + 1 = b - a - 1 /\ \A i \in 1..(b - a - 1) : x + i - 1 = a + i
  BY <1>3, <1>8
<1>11. PICK t \in Text : /\ t = Field(n + 1) /\ Len(t) = b - a - 1
                         /\ \A i \in 1..(b - a - 1) : t[i] = body[a + i]
  <2>1. PICK t \in Text : /\ t = SubSeq(body, x, y) /\ Len(t) = y - x + 1
                          /\ \A i \in 1..(y - x + 1) : t[i] = body[x + i - 1]
    BY <1>9
  <2>2. t = Field(n + 1)
    BY <1>7, <1>8, <2>1
  <2>3. Len(t) = b - a - 1
    BY <1>10, <2>1
  <2>4. ASSUME NEW i \in 1..(b - a - 1) PROVE t[i] = body[a + i]
    BY <1>10, <2>1
  <2>5. QED
    BY <2>2, <2>3, <2>4
<1>12. FieldIs(n, a, b, t)
  BY <1>1, <1>3, <1>4, <1>11 DEF FieldIs
<1>13. a \in Nat /\ b \in Nat
  OBVIOUS
<1>14. QED
  BY <1>1, <1>3, <1>5, <1>6, <1>12, <1>13

\* Its length.
LEMMA FieldNumbers ==
  ASSUME NEW n, NEW a \in Nat, NEW b \in Nat, NEW t \in Text, FieldIs(n, a, b, t)
  PROVE  a < b /\ Len(t) = b - a - 1 /\ b - a - 1 \in Nat /\ DOMAIN t = 1..(b - a - 1)
BY EmptyOne DEF FieldIs

\* A position inside the field.
LEMMA InsideBounds ==
  ASSUME NEW n, NEW a \in Nat, NEW b \in Nat, NEW t \in Text, FieldIs(n, a, b, t),
         NEW m \in Nat
  PROVE  Inside(n, m) => a <= m /\ m < b
BY DEF FieldIs, Inside

\* A field without an equals sign is not good.
LEMMA NoSign ==
  ASSUME body \in Text, NEW n, NEW m \in Nat, Inside(n, m),
         NoneIn("=", Cut[n] + 1, Cut[n + 1] - 1)
  PROVE  ~Good(n + 1)
<1>1. PICK a \in Nat, b \in Nat, t \in Text : FieldIs(n, a, b, t)
  BY FieldText
<1>2. a < b /\ Len(t) = b - a - 1 /\ b - a - 1 \in Nat /\ DOMAIN t = 1..(b - a - 1)
  BY <1>1, FieldNumbers
<1>3. \A i \in 1..(b - a - 1) : t[i] = body[a + i]
  BY <1>1 DEF FieldIs
<1>4. a = Cut[n] /\ b = Cut[n + 1] /\ t = Field(n + 1)
  BY <1>1 DEF FieldIs
<1>5. ASSUME NEW i \in 1..(b - a - 1) PROVE t[i] # "="
  <2>1. a + i \in (a + 1)..(b - 1)
    BY <1>2
  <2>2. body[a + i] # "="
    BY <1>4, <2>1 DEF NoneIn
  <2>3. QED
    BY <1>3, <2>2
<1>6. Position("=", t) = {}
  BY <1>2, <1>5 DEF Position
<1>7. QED
  BY <1>4, <1>6 DEF Good

\* Nor is one with two.
LEMMA TwoSigns ==
  ASSUME body \in Text, NEW n, NEW d \in Nat, NEW e \in Nat, Inside(n, d), Inside(n, e),
         Cut[n] < d, d < e, body[d] = "=", body[e] = "="
  PROVE  ~Good(n + 1)
<1>1. PICK a \in Nat, b \in Nat, t \in Text : FieldIs(n, a, b, t)
  BY FieldText
<1>2. a < b /\ Len(t) = b - a - 1 /\ b - a - 1 \in Nat /\ DOMAIN t = 1..(b - a - 1)
  BY <1>1, FieldNumbers
<1>3. \A i \in 1..(b - a - 1) : t[i] = body[a + i]
  BY <1>1 DEF FieldIs
<1>4. a = Cut[n] /\ b = Cut[n + 1] /\ t = Field(n + 1)
  BY <1>1 DEF FieldIs
<1>5. a < d /\ d < b /\ e < b
  BY <1>1, <1>4, InsideBounds
<1>6. PICK i \in 1..(b - a - 1), j \in 1..(b - a - 1) : a + i = d /\ a + j = e /\ i # j
  <2>1. d - a \in 1..(b - a - 1) /\ e - a \in 1..(b - a - 1)
        /\ a + (d - a) = d /\ a + (e - a) = e /\ d - a # e - a
    BY <1>5
  <2>2. QED
    BY <2>1
<1>7. t[i] = "=" /\ t[j] = "="
  BY <1>3, <1>6
<1>8. i \in Position("=", t) /\ j \in Position("=", t)
  BY <1>2, <1>7 DEF Position
<1>9. \A k : Position("=", t) # {k}
  BY <1>6, <1>8
<1>10. QED
  BY <1>4, <1>9 DEF Good

\* Nor one whose key is too long.
LEMMA LongKey ==
  ASSUME body \in Text, NEW n, NEW m \in Nat, Inside(n, m), NoneIn("=", Cut[n] + 1, m),
         m - Cut[n] >= PARSE_POST_BUF_SIZES
  PROVE  ~Good(n + 1)
<1>1. PICK a \in Nat, b \in Nat, t \in Text : FieldIs(n, a, b, t)
  BY FieldText
<1>2. a < b /\ Len(t) = b - a - 1 /\ b - a - 1 \in Nat /\ DOMAIN t = 1..(b - a - 1)
  BY <1>1, FieldNumbers
<1>3. \A i \in 1..(b - a - 1) : t[i] = body[a + i]
  BY <1>1 DEF FieldIs
<1>4. a = Cut[n] /\ b = Cut[n + 1] /\ t = Field(n + 1)
  BY <1>1 DEF FieldIs
<1>5. a <= m /\ m < b
  BY <1>1, InsideBounds
<1>6. m - a \in 0..Len(t)
  BY <1>2, <1>5
<1>7. ASSUME NEW i \in 1..(m - a) PROVE t[i] # "="
  <2>1. a + i \in (a + 1)..m /\ i \in 1..(b - a - 1)
    BY <1>5
  <2>2. body[a + i] # "="
    BY <1>4, <2>1 DEF NoneIn
  <2>3. QED
    BY <1>3, <2>1, <2>2
<1>8. PICK l \in Nat : l = m - a
  BY <1>5
<1>9. Len(UpTo("=", t)) >= l
  BY <1>6, <1>7, <1>8, UpToLong
<1>10. PARSE_POST_BUF_SIZES \in Nat /\ Len(UpTo("=", t)) \in Nat
  BY Buffers, UpToType, EmptyOne
<1>11. l >= PARSE_POST_BUF_SIZES
  BY <1>4, <1>8
<1>12. ~(Len(UpTo("=", t)) < PARSE_POST_BUF_SIZES)
  BY <1>9, <1>10, <1>11
<1>13. ~Fits(Key(n + 1))
  BY <1>4, <1>12 DEF Fits, Key
<1>14. QED
  BY <1>13 DEF Good

\* The key and the value of a field whose first equals sign is at e.
LEMMA KeyAndValue ==
  ASSUME body \in Text, NEW n, NEW e \in Nat, Inside(n, e), Cut[n] < e, body[e] = "=",
         NoneIn("=", Cut[n] + 1, e - 1)
  PROVE  /\ Key(n + 1) = SubSeq(body, Cut[n] + 1, e - 1)
         /\ Raw(n + 1) \in Text /\ Len(Raw(n + 1)) = Cut[n + 1] - e - 1
         /\ \A i \in 1..(Cut[n + 1] - e - 1) : Raw(n + 1)[i] = body[e + i]
<1>1. PICK a \in Nat, b \in Nat, t \in Text : FieldIs(n, a, b, t)
  BY FieldText
<1>2. a < b /\ Len(t) = b - a - 1 /\ b - a - 1 \in Nat /\ DOMAIN t = 1..(b - a - 1)
  BY <1>1, FieldNumbers
<1>3. \A i \in 1..(b - a - 1) : t[i] = body[a + i]
  BY <1>1 DEF FieldIs
<1>4. a = Cut[n] /\ b = Cut[n + 1] /\ t = Field(n + 1)
  BY <1>1 DEF FieldIs
<1>5. a < e /\ e < b
  BY <1>1, <1>4, InsideBounds
<1>6. PICK k \in Nat : k = Len(body) /\ b <= k + 1
  BY <1>1, EmptyOne DEF FieldIs
<1>7. PICK j \in Nat : a + j = e /\ j \in 1..(b - a - 1)
  <2>1. e - a \in Nat /\ a + (e - a) = e /\ e - a \in 1..(b - a - 1)
    BY <1>5
  <2>2. QED
    BY <2>1
<1>8. t[j] = "=" /\ \A i \in 1..(j - 1) : t[i] # "="
  <2>1. t[j] = "="
    BY <1>3, <1>7
  <2>2. ASSUME NEW i \in 1..(j - 1) PROVE t[i] # "="
    <3>1. i \in 1..(b - a - 1) /\ a + i \in (a + 1)..(e - 1)
      BY <1>5, <1>7
    <3>2. body[a + i] # "="
      BY <1>4, <3>1 DEF NoneIn
    <3>3. QED
      BY <1>3, <3>1, <3>2
  <2>3. QED
    BY <2>1, <2>2
<1>9. UpTo("=", t) = SubSeq(t, 1, j - 1)
  BY <1>2, <1>7, <1>8, UpToFirst
<1>10. Key(n + 1) \in Text /\ Len(Key(n + 1)) = j - 1
       /\ \A i \in 1..(j - 1) : Key(n + 1)[i] = t[i]
  <2>1. PICK l \in Nat : l = j - 1 /\ l \in (1 - 1)..Len(t) /\ 1 \in 1..(Len(t) + 1)
    BY <1>2, <1>7
  <2>2. /\ SubSeq(t, 1, l) \in Text /\ Len(SubSeq(t, 1, l)) = l - 1 + 1
        /\ \A i \in 1..(l - 1 + 1) : SubSeq(t, 1, l)[i] = t[1 + i - 1]
    BY <2>1, Slice
  <2>3. l - 1 + 1 = j - 1 /\ \A i \in 1..(j - 1) : 1 + i - 1 = i
    BY <1>7, <2>1
  <2>4. Key(n + 1) = SubSeq(t, 1, l)
    BY <1>4, <1>9, <2>1 DEF Key
  <2>5. QED
    BY <2>2, <2>3, <2>4
<1>11. Key(n + 1) = SubSeq(body, Cut[n] + 1, e - 1)
  <2>1. PICK x \in Nat, y \in Nat :
          x = a + 1 /\ y = e - 1 /\ x \in 1..(k + 1) /\ y \in (x - 1)..k
          /\ y - x + 1 = j - 1
    BY <1>5, <1>6, <1>7
  <2>2. PICK v \in Text : /\ v = SubSeq(body, x, y) /\ Len(v) = j - 1
                          /\ \A i \in 1..(j - 1) : v[i] = body[x + i - 1]
    <3>1. /\ SubSeq(body, x, y) \in Text /\ Len(SubSeq(body, x, y)) = y - x + 1
          /\ \A i \in 1..(y - x + 1) : SubSeq(body, x, y)[i] = body[x + i - 1]
      BY <1>6, <2>1, Slice
    <3>2. QED
      BY <2>1, <3>1
  <2>3. ASSUME NEW i \in 1..(j - 1) PROVE Key(n + 1)[i] = v[i]
    <3>1. i \in 1..(b - a - 1) /\ x + i - 1 = a + i
      BY <1>7, <2>1
    <3>2. QED
      BY <1>3, <1>10, <2>2, <3>1
  <2>4. Key(n + 1) = v
    BY <1>10, <2>2, <2>3, SameText
  <2>5. QED
    BY <1>4, <2>1, <2>2, <2>4
<1>12. /\ Raw(n + 1) \in Text /\ Len(Raw(n + 1)) = b - e - 1
       /\ \A i \in 1..(b - e - 1) : Raw(n + 1)[i] = body[e + i]
  <2>1. PICK x \in Nat, y \in Nat :
          x = j + 1 /\ y = b - a - 1 /\ x \in 1..(y + 1) /\ y \in (x - 1)..y
          /\ y - x + 1 = b - e - 1
    BY <1>2, <1>5, <1>7
  <2>2. /\ SubSeq(t, x, y) \in Text /\ Len(SubSeq(t, x, y)) = y - x + 1
        /\ \A i \in 1..(y - x + 1) : SubSeq(t, x, y)[i] = t[x + i - 1]
    BY <1>2, <2>1, Slice
  <2>3. Raw(n + 1) = SubSeq(t, x, y)
    <3>1. Raw(n + 1) = SubSeq(t, Len(Key(n + 1)) + 2, Len(t))
      BY <1>4 DEF Raw
    <3>2. j - 1 + 2 = x
      BY <2>1
    <3>3. QED
      BY <1>2, <1>10, <2>1, <3>1, <3>2
  <2>4. ASSUME NEW i \in 1..(b - e - 1) PROVE SubSeq(t, x, y)[i] = body[e + i]
    <3>1. x + i - 1 \in 1..(b - a - 1) /\ a + (x + i - 1) = e + i /\ i \in 1..(y - x + 1)
      BY <1>5, <1>7, <2>1
    <3>2. t[x + i - 1] = body[a + (x + i - 1)]
      BY <1>3, <3>1
    <3>3. QED
      BY <2>2, <3>1, <3>2
  <2>5. QED
    BY <2>1, <2>2, <2>3, <2>4
<1>13. QED
  BY <1>4, <1>11, <1>12

\* With no other equals sign the rest decides whether it is good.
LEMMA GoodField ==
  ASSUME body \in Text, NEW n, NEW e \in Nat, Inside(n, e), Cut[n] < e, body[e] = "=",
         NoneIn("=", Cut[n] + 1, e - 1), NoneIn("=", e + 1, Cut[n + 1] - 1)
  PROVE  Good(n + 1) <=> /\ Fits(Key(n + 1)) /\ Fits(Raw(n + 1))
                         /\ Raw(n + 1) # <<>> \/ n + 2 \in Fields
                         /\ handler(Key(n + 1), Value(n + 1)) = "OK"
<1>1. PICK a \in Nat, b \in Nat, t \in Text : FieldIs(n, a, b, t)
  BY FieldText
<1>2. a < b /\ Len(t) = b - a - 1 /\ b - a - 1 \in Nat /\ DOMAIN t = 1..(b - a - 1)
  BY <1>1, FieldNumbers
<1>3. \A i \in 1..(b - a - 1) : t[i] = body[a + i]
  BY <1>1 DEF FieldIs
<1>4. a = Cut[n] /\ b = Cut[n + 1] /\ t = Field(n + 1)
  BY <1>1 DEF FieldIs
<1>5. a < e /\ e < b
  BY <1>1, <1>4, InsideBounds
<1>6. PICK j \in 1..(b - a - 1) : a + j = e
  <2>1. e - a \in 1..(b - a - 1) /\ a + (e - a) = e
    BY <1>5
  <2>2. QED
    BY <2>1
<1>7. ASSUME NEW i \in 1..(b - a - 1), i # j PROVE t[i] # "="
  <2>1. a + i \in (a + 1)..(e - 1) \/ a + i \in (e + 1)..(b - 1)
    BY <1>6, <1>7
  <2>2. body[a + i] # "="
    BY <1>4, <2>1 DEF NoneIn
  <2>3. QED
    BY <1>3, <2>2
<1>8. t[j] = "="
  BY <1>3, <1>6
<1>9. Position("=", t) = {j} /\ j \in DOMAIN t
  BY <1>2, <1>7, <1>8 DEF Position
<1>10. \E i \in DOMAIN Field(n + 1) : Position("=", Field(n + 1)) = {i}
  BY <1>4, <1>9
<1>11. n + 1 + 1 = n + 2
  BY DEF Inside
<1>12. QED
  BY <1>10, <1>11 DEF Good

------------------------------------------------------------------------------
(* What has been taken after some characters, and where the parser is.      *)

\* After m characters of the body: n fields have been taken, all of them good ones.
TakenOf(p, n) ==
  /\ n \in Nat
  /\ \A f \in 1..n : f \in Fields /\ Good(f)
  /\ p.accepted = [f \in 1..n |-> <<Key(f), Value(f)>>]

\* The next one is not, and is more than the empty end of a form.
Bad(n) ==
  /\ n + 1 \in Fields /\ ~Good(n + 1)
  /\ Field(n + 1) # <<>> \/ n + 2 \in Fields

\* The parser is in its key, or in its value: the equals sign was at e.
InKey(p, n, m) ==
  /\ Inside(n, m)
  /\ NoneIn("=", Cut[n] + 1, m)
  /\ p.key = SubSeq(body, Cut[n] + 1, m)
  /\ p.val = Blank /\ p.val_len = 0
InValue(p, n, e, m) ==
  /\ Inside(n, e) /\ Inside(n, m) /\ Cut[n] < e /\ e <= m
  /\ body[e] = "="
  /\ NoneIn("=", Cut[n] + 1, e - 1)
  /\ NoneIn("=", e + 1, m)
  /\ p.key = SubSeq(body, Cut[n] + 1, e - 1)
  /\ p.val_len = m - e
  /\ \A i \in 0..(PARSE_POST_BUF_SIZES - 1) :
       p.val[i] = IF i < m - e THEN body[e + i + 1] ELSE NUL

At(p, n, m) ==
  /\ p.state = "INIT" => m = 0 /\ n = 0
  /\ p.state = "MORE" => /\ n # 0
                         /\ Cut[n] = m \/ (m = Len(body) /\ Cut[n] = m + 1)
  /\ p.state = "READING_KEY" => InKey(p, n, m) /\ Cut[n] < m
  /\ p.state = "READING_VAL" =>
       IF p.finish = "UNKNOWN" THEN Bad(n)
       ELSE \E e \in Nat : InValue(p, n, e, m) /\ (m = Len(body) => e = m)
  /\ p.state = "ERROR" => Bad(n)

AsSent(p, m) == \E n : TakenOf(p, n) /\ At(p, n, m)

\* A character that is neither "&" nor the end leaves a field that is not empty.
LEMMA FieldNotEmpty ==
  ASSUME body \in Text, NEW n, NEW m \in Nat, Inside(n, m), Cut[n] < m
  PROVE  n + 1 \in Fields /\ Field(n + 1) # <<>>
<1>1. PICK a \in Nat, b \in Nat, t \in Text : FieldIs(n, a, b, t)
  BY FieldText
<1>2. Len(t) = b - a - 1
  BY <1>1, FieldNumbers
<1>3. a = Cut[n] /\ t = Field(n + 1)
  BY <1>1 DEF FieldIs
<1>4. a < m /\ m < b
  BY <1>1, <1>3, InsideBounds
<1>5. Len(t) # 0
  BY <1>2, <1>4
<1>6. QED
  BY <1>3, <1>5, FieldText, EmptyOne

\* The first character of a field finds this.
LEMMA StartsKey ==
  ASSUME body \in Text, NEW p, ParserOK(p), NEW n, NEW m \in 0..(Len(body) - 1),
         TakenOf(p, n), At(p, n, m), p.state \in {"INIT", "MORE"}
  PROVE  InKey(StartPair(p), n, m) /\ StartPair(p).state = "READING_KEY"
<1> DEFINE q == StartPair(p)
<1>1. PICK k \in Nat : k = Len(body) /\ m < k
  BY EmptyOne
<1>2. q.state = "READING_KEY" /\ q.key = <<>> /\ q.val = Blank /\ q.val_len = 0
  BY DEF StartPair, ParserOK, Parsers
<1>3. Cut[n] = m /\ n \in 0..k
  <2>1. CASE p.state = "INIT"
    <3>1. n = 0 /\ m = 0
      BY <2>1 DEF At
    <3>2. Cut[0] = 0
      BY CutIs
    <3>3. QED
      BY <1>1, <3>1, <3>2
  <2>2. CASE p.state = "MORE"
    <3>1. Cut[n] = m /\ n # 0
      BY <1>1, <2>2 DEF At
    <3>2. n \in 1..n
      BY <3>1 DEF TakenOf
    <3>3. n \in 0..(k + 1)
      BY <1>1, <3>2 DEF TakenOf, Fields
    <3>4. n <= Cut[n]
      BY <1>1, <3>3, CutType
    <3>5. QED
      BY <1>1, <3>1, <3>3, <3>4
  <2>3. QED
    BY <2>1, <2>2
<1>4. Inside(n, m)
  BY <1>1, <1>3, FieldBegins
<1>5. SubSeq(body, Cut[n] + 1, m) = <<>>
  <2>1. PICK x \in Nat : x = m + 1 /\ x \in 1..(k + 1) /\ m \in (x - 1)..k /\ m - x + 1 = 0
    BY <1>1
  <2>2. SubSeq(body, x, m) \in Text /\ Len(SubSeq(body, x, m)) = 0
    BY <1>1, <2>1, Slice
  <2>3. SubSeq(body, x, m) = <<>>
    BY <2>2, EmptyOne, SameText
  <2>4. QED
    BY <1>3, <2>1, <2>3
<1>6. NoneIn("=", Cut[n] + 1, m)
  BY <1>1, <1>3 DEF NoneIn
<1> HIDE DEF q
<1>7. InKey(q, n, m)
  BY <1>2, <1>4, <1>5, <1>6 DEF InKey
<1>8. QED
  BY <1>2, <1>7 DEF q

\* A character of the key.
LEMMA KeyAsSent ==
  ASSUME body \in Text, NEW q, ParserOK(q), q.state = "READING_KEY",
         NEW n, NEW m \in 0..(Len(body) - 1), InKey(q, n, m)
  PROVE  At(ReadKey(q, body[m + 1]), n, m + 1)
<1>1. PICK k \in Nat, c \in Letters : k = Len(body) /\ m < k /\ c = body[m + 1]
  <2>1. Len(body) \in Nat /\ m + 1 \in 1..Len(body)
    BY EmptyOne
  <2>2. body[m + 1] \in Letters
    BY <2>1, EmptyOne
  <2>3. QED
    BY <2>1, <2>2
<1>2. Inside(n, m) /\ NoneIn("=", Cut[n] + 1, m) /\ q.key = SubSeq(body, Cut[n] + 1, m)
  BY DEF InKey
<1>3. PICK a \in 0..k : a = Cut[n] /\ a <= m
  <2>1. PICK a \in Nat, b \in Nat, t \in Text : FieldIs(n, a, b, t)
    BY <1>2, FieldText
  <2>2. a <= m /\ m < b
    BY <1>2, <2>1, InsideBounds
  <2>3. a = Cut[n]
    BY <2>1 DEF FieldIs
  <2>4. QED
    BY <1>1, <2>2, <2>3
<1>4. c # "&" => Inside(n, m + 1) /\ n + 1 \in Fields /\ Field(n + 1) # <<>>
  <2>1. ASSUME c # "&" PROVE Inside(n, m + 1)
    BY <1>1, <1>2, <2>1, NextInside
  <2>2. ASSUME Inside(n, m + 1) PROVE n + 1 \in Fields /\ Field(n + 1) # <<>>
    <3>1. Cut[n] < m + 1 /\ m + 1 \in Nat
      BY <1>1, <1>3
    <3>2. QED
      BY <2>2, <3>1, FieldNotEmpty
  <2>3. QED
    BY <2>1, <2>2
<1>5. c # "=" => NoneIn("=", Cut[n] + 1, m + 1)
  <2>1. ASSUME c # "=", NEW i \in (a + 1)..(m + 1) PROVE body[i] # "="
    <3>1. i = m + 1 \/ i \in (a + 1)..m
      OBVIOUS
    <3>2. QED
      BY <1>1, <1>2, <1>3, <2>1, <3>1 DEF NoneIn
  <2>2. QED
    BY <1>3, <2>1 DEF NoneIn
<1>6. PICK x \in Nat : x = a + 1 /\ x \in 1..(k + 1) /\ m \in (x - 1)..(k - 1) /\ m \in (x - 1)..k
                       /\ m - x + 1 = m - a
  BY <1>1, <1>3
<1>7. Len(q.key) = m - a
  BY <1>1, <1>2, <1>3, <1>6, Slice
<1>8. CASE c = "="
  <2> DEFINE r == ReadKey(q, c)
  <2>1. r = [q EXCEPT !.state = "READING_VAL"]
    BY <1>8 DEF ReadKey
  <2>2. r.state = "READING_VAL" /\ r.finish # "UNKNOWN" /\ r.key = q.key
        /\ r.val = q.val /\ r.val_len = q.val_len
    BY <2>1 DEF ParserOK, Parsers
  <2> HIDE DEF r
  <2>3. m + 1 - 1 = m /\ m + 1 - (m + 1) = 0 /\ m + 1 \in Nat /\ a < m + 1
    BY <1>3
  <2>4. NoneIn("=", m + 1 + 1, m + 1)
    BY DEF NoneIn
  <2>5. \A i \in 0..(PARSE_POST_BUF_SIZES - 1) : r.val[i] = NUL /\ ~(i < 0)
    BY <2>2, Buffers DEF InKey, Blank
  <2>6. Inside(n, m + 1)
    BY <1>4, <1>8
  <2>7. PICK e \in Nat : e = m + 1 /\ e - 1 = m /\ e - e = 0 /\ a < e
    BY <2>3
  <2>8. InValue(r, n, e, e)
    <3>1. \A i \in 0..(PARSE_POST_BUF_SIZES - 1) :
            r.val[i] = IF i < e - e THEN body[e + i + 1] ELSE NUL
      BY <2>5, <2>7
    <3>2. NoneIn("=", Cut[n] + 1, e - 1) /\ NoneIn("=", e + 1, e)
      BY <1>2, <2>4, <2>7
    <3>3. r.key = SubSeq(body, Cut[n] + 1, e - 1) /\ r.val_len = e - e
      BY <1>2, <2>2, <2>7 DEF InKey
    <3>4. Inside(n, e) /\ Cut[n] < e /\ body[e] = "=" /\ e <= e
      <4>1. e <= e
        OBVIOUS
      <4>2. Cut[n] < e
        BY <1>3, <2>7
      <4>3. QED
        BY <1>1, <1>8, <2>6, <2>7, <4>1, <4>2
    <3>5. QED
      BY <3>1, <3>2, <3>3, <3>4 DEF InValue
  <2>9. At(r, n, e)
    BY <2>2, <2>8 DEF At
  <2>10. QED
    BY <1>1, <2>7, <2>9 DEF r
<1>9. CASE c = "&"
  <2>1. ReadKey(q, c) = Fail(q)
    BY <1>9 DEF ReadKey
  <2>2. Fail(q).state = "ERROR"
    BY FailOK
  <2>3. Cut[n + 1] = m + 1
    BY <1>1, <1>2, <1>9, NextInside
  <2>4. m + 1 - 1 = m /\ m + 1 <= k
    BY <1>1
  <2>5. n + 1 \in Fields /\ n + 2 \in Fields
    BY <1>1, <1>2, <2>3, <2>4, FieldText
  <2>6. ~Good(n + 1)
    <3>1. NoneIn("=", Cut[n] + 1, Cut[n + 1] - 1)
      BY <1>2, <2>3, <2>4
    <3>2. QED
      BY <1>2, <3>1, NoSign
  <2>7. At(Fail(q), n, m + 1)
    BY <2>2, <2>5, <2>6 DEF At, Bad
  <2>8. QED
    BY <1>1, <2>1, <2>7
<1>10. CASE c \notin {"=", "&"} /\ ~Room(Len(q.key))
  <2>1. ReadKey(q, c) = Fail(q)
    BY <1>10 DEF ReadKey
  <2>2. Fail(q).state = "ERROR"
    BY FailOK
  <2>3. m + 1 - a >= PARSE_POST_BUF_SIZES
    BY <1>3, <1>7, <1>10, Buffers, SMTT(30) DEF Room
  <2>4. ~Good(n + 1)
    <3>1. PICK s \in Nat : s = m + 1
      BY <1>1
    <3>2. s = m + 1 /\ s - Cut[n] >= PARSE_POST_BUF_SIZES
      <4>1. s - a >= PARSE_POST_BUF_SIZES
        BY <2>3, <3>1
      <4>2. QED
        BY <1>3, <3>1, <4>1
    <3>3. Inside(n, s) /\ NoneIn("=", Cut[n] + 1, s)
      BY <1>4, <1>5, <1>10, <3>2
    <3>4. QED
      BY <3>2, <3>3, LongKey
  <2>5. At(Fail(q), n, m + 1)
    BY <1>4, <1>10, <2>2, <2>4 DEF At, Bad
  <2>6. QED
    BY <1>1, <2>1, <2>5
<1>11. CASE c \notin {"=", "&"} /\ Room(Len(q.key))
  <2> DEFINE r == ReadKey(q, c)
  <2>1. r = [q EXCEPT !.key = Append(@, c)]
    BY <1>11 DEF ReadKey
  <2>2. r.state = "READING_KEY" /\ r.key = Append(q.key, c) /\ r.val = q.val
        /\ r.val_len = q.val_len
    BY <2>1 DEF ParserOK, Parsers
  <2> HIDE DEF r
  <2>3. Append(SubSeq(body, x, m), body[m + 1]) = SubSeq(body, x, m + 1)
    BY <1>1, <1>6, SliceGrows
  <2>4. r.key = SubSeq(body, Cut[n] + 1, m + 1)
    BY <1>1, <1>2, <1>3, <1>6, <2>2, <2>3, Zenon
  <2>5. InKey(r, n, m + 1) /\ Cut[n] < m + 1
    <3>1. PICK s \in Nat : s = m + 1 /\ a < s
      BY <1>3
    <3>2. Inside(n, s) /\ NoneIn("=", Cut[n] + 1, s) /\ r.key = SubSeq(body, Cut[n] + 1, s)
      BY <1>4, <1>5, <1>11, <2>4, <3>1
    <3>3. r.val = Blank /\ r.val_len = 0
      BY <2>2 DEF InKey
    <3>4. InKey(r, n, s) /\ Cut[n] < s
      BY <1>3, <3>1, <3>2, <3>3 DEF InKey
    <3>5. QED
      BY <3>1, <3>4
  <2>6. At(r, n, m + 1)
    BY <2>2, <2>5 DEF At
  <2>7. QED
    BY <1>1, <2>6 DEF r
<1>12. QED
  BY <1>8, <1>9, <1>10, <1>11

\* A list of n pairs grows by one.
Longer(s, u, n, x) ==
  /\ n \in Nat /\ s \in Pairs /\ DOMAIN s = 1..n /\ x \in Text \X Text
  /\ u = [f \in 1..(n + 1) |-> u[f]]
  /\ \A f \in 1..n : u[f] = s[f]
  /\ u[n + 1] = x

\* Such a list is the one before with a pair appended.
LEMMA OneMorePair ==
  ASSUME NEW s, NEW u, NEW n, NEW x, Longer(s, u, n, x)
  PROVE  Append(s, x) = u
<1>0. /\ n \in Nat /\ s \in Pairs /\ DOMAIN s = 1..n /\ x \in Text \X Text
      /\ u = [f \in 1..(n + 1) |-> u[f]]
      /\ \A f \in 1..n : u[f] = s[f]
      /\ u[n + 1] = x
  BY DEF Longer
<1>1. n + 1 \in Nat /\ \A i \in 1..(n + 1) : i = n + 1 \/ i \in 1..n
  BY <1>0
<1>2. Len(s) = n
  <2>1. PICK l \in Nat : l = Len(s) /\ DOMAIN s = 1..l
    BY <1>0, LenProperties DEF Pairs
  <2>2. 1..l = 1..n
    BY <1>0, <2>1
  <2>3. l = n
    BY <1>0, <2>1, <2>2
  <2>4. QED
    BY <2>1, <2>3
<1>3. PICK r \in Pairs : r = Append(s, x) /\ Len(r) = n + 1 /\ r[n + 1] = x
                         /\ \A i \in 1..n : r[i] = s[i]
  <2>1. /\ Append(s, x) \in Seq(Text \X Text) /\ Len(Append(s, x)) = Len(s) + 1
        /\ \A i \in 1..Len(s) : Append(s, x)[i] = s[i]
        /\ Append(s, x)[Len(s) + 1] = x
    BY <1>0, AppendProperties DEF Pairs
  <2>2. QED
    BY <1>0, <1>2, <2>1 DEF Pairs
<1>4. \A i \in 1..n : s[i] \in Text \X Text
  BY <1>0, <1>2, ElementOfSeq DEF Pairs
<1>5. u \in Pairs
  <2>1. \A i \in 1..(n + 1) : u[i] \in Text \X Text
    BY <1>0, <1>1, <1>4
  <2>2. u \in [1..(n + 1) -> Text \X Text]
    BY <1>0, <2>1
  <2>3. QED
    BY <1>1, <2>2, SeqDef DEF Pairs
<1>6. Len(u) = n + 1
  <2>1. PICK l \in Nat, h \in Nat : l = Len(u) /\ DOMAIN u = 1..l /\ h = n + 1
    BY <1>1, <1>5, LenProperties DEF Pairs
  <2>2. DOMAIN u = 1..(n + 1)
    BY <1>0
  <2>3. 1..l = 1..h
    BY <2>1, <2>2
  <2>4. l = h
    BY <2>3
  <2>5. QED
    BY <2>1, <2>4
<1>7. \A i \in 1..(n + 1) : r[i] = u[i]
  BY <1>0, <1>1, <1>3
<1>8. r = u
  BY <1>3, <1>5, <1>6, <1>7, SeqEqual DEF Pairs
<1>9. QED
  BY <1>3, <1>8

\* The end of a value: the pair is taken just when the field is a good one.
LEMMA PairEnds ==
  ASSUME body \in Text, NEW q, ParserOK(q), q.state = "READING_VAL",
         NEW n, NEW e \in Nat, NEW k \in Nat, TakenOf(q, n), InValue(q, n, e, k),
         Cut[n + 1] = k + 1, k + 1 <= Len(body) \/ e < k
  PROVE  \/ TakenOf(Finish(q), n + 1) /\ Finish(q).state = "MORE"
         \/ /\ TakenOf(Finish(q), n) /\ Bad(n)
            /\ \/ Finish(q).state = "ERROR"
               \/ Finish(q).state = "READING_VAL" /\ Finish(q).finish = "UNKNOWN"
<1>1. /\ Inside(n, e) /\ Cut[n] < e /\ e <= k /\ body[e] = "="
      /\ NoneIn("=", Cut[n] + 1, e - 1) /\ NoneIn("=", e + 1, k)
      /\ q.key = SubSeq(body, Cut[n] + 1, e - 1) /\ q.val_len = k - e
      /\ \A i \in 0..(PARSE_POST_BUF_SIZES - 1) :
           q.val[i] = IF i < k - e THEN body[e + i + 1] ELSE NUL
  BY DEF InValue
<1>2. PICK raw \in Text : raw = Raw(n + 1) /\ Len(raw) = k - e
                          /\ \A i \in 1..(k - e) : raw[i] = body[e + i]
  <2>1. /\ Raw(n + 1) \in Text /\ Len(Raw(n + 1)) = Cut[n + 1] - e - 1
        /\ \A i \in 1..(Cut[n + 1] - e - 1) : Raw(n + 1)[i] = body[e + i]
    BY <1>1, KeyAndValue
  <2>2. k + 1 - e - 1 = k - e
    OBVIOUS
  <2>3. QED
    BY <2>1, <2>2
<1>3. Key(n + 1) = q.key
  BY <1>1, KeyAndValue
<1>4. /\ q.val \in [0..(PARSE_POST_BUF_SIZES - 1) -> Letters]
      /\ q.val_len \in 0..(PARSE_POST_BUF_SIZES - 1)
      /\ Len(q.key) < PARSE_POST_BUF_SIZES /\ q.accepted \in Pairs /\ q.key \in Text
  BY DEF ParserOK, Parsers
<1>5. PICK m \in Nat : m = PARSE_POST_BUF_SIZES - 1
  BY Buffers
<1>6. url_unescape(q.val, q.val_len) = Unescaped(raw)
  <2>1. ASSUME NEW i \in 0..m
        PROVE  q.val[i] = IF i < Len(raw) THEN raw[i + 1] ELSE NUL
    <3>1. CASE i < k - e
      <4>1. i + 1 \in 1..(k - e) /\ e + (i + 1) = e + i + 1
        BY <1>1, <3>1
      <4>2. raw[i + 1] = body[e + i + 1]
        BY <1>2, <4>1
      <4>3. QED
        BY <1>1, <1>2, <1>5, <3>1, <4>2
    <3>2. CASE ~(i < k - e)
      BY <1>1, <1>2, <1>5, <3>2
    <3>3. QED
      BY <3>1, <3>2
  <2>2. PICK src \in [0..m -> Letters] : src = q.val
    BY <1>4, <1>5
  <2>3. Len(raw) <= m
    BY <1>1, <1>2, <1>4, <1>5
  <2>4. \A i \in 0..m : src[i] = IF i < Len(raw) THEN raw[i + 1] ELSE NUL
    BY <2>1, <2>2
  <2>5. url_unescape(src, Len(raw)) = Unescaped(raw)
    BY <2>3, <2>4, UnescapeMeans
  <2>6. Len(raw) = q.val_len
    BY <1>1, <1>2
  <2>7. QED
    BY <2>2, <2>5, <2>6
<1>7. Taken(q) = Value(n + 1)
  BY <1>2, <1>6 DEF Taken, Value
<1>8. n + 1 \in Fields /\ Field(n + 1) # <<>> /\ (n + 2 \in Fields <=> k + 1 <= Len(body))
  BY <1>1, FieldNotEmpty, FieldText
<1>9. Good(n + 1) <=> Finish(q).finish = "OK"
  <2>1. Fits(Key(n + 1))
    BY <1>3, <1>4 DEF Fits
  <2>2. Fits(Raw(n + 1))
    <3>1. k - e \in Int /\ k - e < PARSE_POST_BUF_SIZES
      BY <1>1, <1>4, Buffers
    <3>2. QED
      BY <1>2, <3>1 DEF Fits
  <2>3. Raw(n + 1) # <<>> \/ n + 2 \in Fields
    <3>1. CASE k + 1 <= Len(body)
      BY <1>8, <3>1
    <3>2. CASE e < k
      <4>1. k - e # 0
        BY <3>2
      <4>2. QED
        BY <1>2, <4>1, EmptyOne
    <3>3. QED
      BY <3>1, <3>2
  <2>4. NoneIn("=", e + 1, Cut[n + 1] - 1)
    <3>1. k + 1 - 1 = k
      OBVIOUS
    <3>2. QED
      BY <1>1, <3>1
  <2>5. Finish(q).finish = handler(q.key, Taken(q))
    BY FinishOK
  <2>6. QED
    BY <1>1, <1>3, <1>7, <2>1, <2>2, <2>3, <2>4, <2>5, GoodField
<1>10. n \in Nat /\ q.accepted = [f \in 1..n |-> <<Key(f), Value(f)>>]
  BY DEF TakenOf
<1> DEFINE r == Finish(q)
<1>11. /\ Taken(q) \in Text
       /\ r.finish = "OK" => /\ r.accepted = Append(q.accepted, <<q.key, Taken(q)>>)
                             /\ r.state = "MORE"
       /\ r.finish # "OK" => r.accepted = q.accepted
       /\ r.finish = "ERROR" => r.state = "ERROR"
       /\ r.finish = "UNKNOWN" => r.state = "READING_VAL"
       /\ r.finish \in {"OK", "ERROR", "UNKNOWN"}
  BY FinishOK
<1> HIDE DEF r
<1>12. CASE Good(n + 1)
  <2> DEFINE u == [f \in 1..(n + 1) |-> <<Key(f), Value(f)>>]
  <2>1. DOMAIN q.accepted = 1..n /\ \A f \in 1..n : q.accepted[f] = <<Key(f), Value(f)>>
    BY <1>10
  <2>2. PICK x \in Text \X Text : x = <<q.key, Taken(q)>>
    BY <1>4, <1>11
  <2>3. n + 1 \in 1..(n + 1) /\ \A f \in 1..n : f \in 1..(n + 1)
    BY <1>10
  <2>4. \A f \in 1..(n + 1) : u[f] = <<Key(f), Value(f)>>
    OBVIOUS
  <2>5. u = [f \in 1..(n + 1) |-> u[f]]
    OBVIOUS
  <2> HIDE DEF u
  <2>6. u[n + 1] = x
    BY <1>3, <1>7, <2>2, <2>3, <2>4
  <2>7. \A f \in 1..n : u[f] = q.accepted[f]
    BY <2>1, <2>3, <2>4
  <2>8. Append(q.accepted, x) = u
    <3>1. PICK s \in Pairs : s = q.accepted
      BY <1>4
    <3>2. n \in Nat /\ DOMAIN s = 1..n /\ \A f \in 1..n : u[f] = s[f]
      BY <1>10, <2>1, <2>7, <3>1
    <3>3. PICK v : v = u
      OBVIOUS
    <3>4. v = [f \in 1..(n + 1) |-> v[f]]
      BY <2>5, <3>3
    <3>5. v[n + 1] = x /\ \A f \in 1..n : v[f] = s[f]
      BY <2>6, <3>2, <3>3
    <3>6. Longer(s, v, n, x)
      BY <3>2, <3>4, <3>5 DEF Longer
    <3>7. QED
      BY <3>1, <3>3, <3>6, OneMorePair
  <2>9. r.accepted = [f \in 1..(n + 1) |-> <<Key(f), Value(f)>>]
    BY <1>9, <1>11, <1>12, <2>2, <2>8 DEF u, r
  <2>10. \A f \in 1..(n + 1) : f \in Fields /\ Good(f)
    <3>1. \A f \in 1..(n + 1) : f = n + 1 \/ f \in 1..n
      BY <1>10
    <3>2. QED
      BY <1>8, <1>12, <3>1 DEF TakenOf
  <2>11. TakenOf(r, n + 1)
    BY <1>10, <2>9, <2>10 DEF TakenOf
  <2>12. QED
    BY <1>9, <1>11, <1>12, <2>11 DEF r
<1>13. CASE ~Good(n + 1)
  <2>1. r.finish # "OK"
    BY <1>9, <1>13 DEF r
  <2>2. Bad(n)
    BY <1>8, <1>13 DEF Bad
  <2>3. TakenOf(r, n)
    BY <1>11, <2>1 DEF TakenOf
  <2>4. QED
    BY <1>11, <2>1, <2>2, <2>3 DEF r
<1>14. QED
  BY <1>12, <1>13

\* Where the parser is after such an end.
LEMMA AfterPair ==
  ASSUME NEW r, NEW n, NEW s,
         \/ TakenOf(r, n + 1) /\ r.state = "MORE"
         \/ /\ TakenOf(r, n) /\ Bad(n)
            /\ \/ r.state = "ERROR"
               \/ r.state = "READING_VAL" /\ r.finish = "UNKNOWN",
         n \in Nat, Cut[n + 1] = s \/ (s = Len(body) /\ Cut[n + 1] = s + 1)
  PROVE  AsSent(r, s)
<1>1. CASE TakenOf(r, n + 1) /\ r.state = "MORE"
  <2>1. n + 1 # 0
    OBVIOUS
  <2>2. At(r, n + 1, s)
    BY <1>1, <2>1 DEF At
  <2>3. QED
    BY <1>1, <2>2 DEF AsSent
<1>2. CASE TakenOf(r, n) /\ Bad(n) /\ r.state = "ERROR"
  <2>1. At(r, n, s)
    BY <1>2 DEF At
  <2>2. QED
    BY <1>2, <2>1 DEF AsSent
<1>3. CASE TakenOf(r, n) /\ Bad(n) /\ r.state = "READING_VAL" /\ r.finish = "UNKNOWN"
  <2>1. At(r, n, s)
    BY <1>3 DEF At
  <2>2. QED
    BY <1>3, <2>1 DEF AsSent
<1>4. QED
  BY <1>1, <1>2, <1>3

\* A character that the parser refuses.
LEMMA Refused ==
  ASSUME NEW q, ParserOK(q), NEW n, TakenOf(q, n), Bad(n), NEW s
  PROVE  AsSent(Fail(q), s)
<1>1. TakenOf(Fail(q), n) /\ Fail(q).state = "ERROR"
  BY FailOK DEF TakenOf
<1>2. At(Fail(q), n, s)
  BY <1>1 DEF At
<1>3. QED
  BY <1>1, <1>2 DEF AsSent

\* A character of the value.
LEMMA ValAsSent ==
  ASSUME body \in Text, NEW q, ParserOK(q), q.state = "READING_VAL", q.finish # "UNKNOWN",
         NEW n, TakenOf(q, n), NEW e \in Nat, NEW m \in 0..(Len(body) - 1),
         InValue(q, n, e, m), NEW final \in BOOLEAN, final <=> m + 1 = Len(body)
  PROVE  AsSent(ReadVal(q, body[m + 1], final), m + 1)
<1>1. PICK k \in Nat, c \in Letters, s \in Nat :
         k = Len(body) /\ m < k /\ c = body[m + 1] /\ s = m + 1 /\ s <= k /\ s - 1 = m
  <2>1. Len(body) \in Nat /\ m + 1 \in 1..Len(body)
    BY EmptyOne
  <2>2. body[m + 1] \in Letters
    BY <2>1, EmptyOne
  <2>3. m + 1 \in Nat /\ m + 1 - 1 = m /\ m < Len(body) /\ m + 1 <= Len(body)
    BY <2>1
  <2>4. QED
    BY <2>1, <2>2, <2>3
<1>2. /\ Inside(n, e) /\ Inside(n, m) /\ Cut[n] < e /\ e <= m /\ body[e] = "="
      /\ NoneIn("=", Cut[n] + 1, e - 1) /\ NoneIn("=", e + 1, m)
      /\ q.key = SubSeq(body, Cut[n] + 1, e - 1) /\ q.val_len = m - e
      /\ \A i \in 0..(PARSE_POST_BUF_SIZES - 1) :
           q.val[i] = IF i < m - e THEN body[e + i + 1] ELSE NUL
  BY DEF InValue
<1>3. n \in Nat
  BY DEF TakenOf
<1>4. c = "&" => Cut[n + 1] = s
  BY <1>1, <1>2, NextInside
<1>5. c # "&" => Inside(n, s)
  BY <1>1, <1>2, NextInside
<1>6. PICK a \in Nat, b \in Nat : a = Cut[n] /\ b = Cut[n + 1] /\ b <= k + 1 /\ a < e
                                  /\ (Inside(n, s) => s < b)
  <2>1. PICK a \in Nat, b \in Nat, t \in Text : FieldIs(n, a, b, t)
    BY <1>2, FieldText
  <2>2. a = Cut[n] /\ b = Cut[n + 1] /\ b <= k + 1
    BY <1>1, <2>1 DEF FieldIs
  <2>3. Inside(n, s) => s < b
    BY <2>1, InsideBounds
  <2>4. QED
    BY <1>2, <2>2, <2>3
<1>7. Inside(n, s) => n + 1 \in Fields /\ Field(n + 1) # <<>>
  <2>1. Cut[n] < s
    BY <1>1, <1>2, <1>6
  <2>2. QED
    BY <2>1, FieldNotEmpty
<1>8. CASE c = "&"
  <2>1. ReadVal(q, c, final) = Finish(q)
    BY <1>8 DEF ReadVal
  <2>2. /\ Cut[n + 1] = m + 1 /\ m \in Nat
        /\ m + 1 <= Len(body) \/ e < m
    BY <1>1, <1>4, <1>8
  <2>3. \/ TakenOf(Finish(q), n + 1) /\ Finish(q).state = "MORE"
        \/ /\ TakenOf(Finish(q), n) /\ Bad(n)
           /\ \/ Finish(q).state = "ERROR"
              \/ Finish(q).state = "READING_VAL" /\ Finish(q).finish = "UNKNOWN"
    BY <2>2, PairEnds, Zenon
  <2>4. AsSent(Finish(q), m + 1)
    BY <1>3, <2>2, <2>3, AfterPair
  <2>5. QED
    BY <1>1, <2>1, <2>4
<1>9. CASE c = "="
  <2>1. ReadVal(q, c, final) = Fail(q)
    BY <1>9 DEF ReadVal
  <2>2. Inside(n, s)
    BY <1>5, <1>9
  <2>3. e < s /\ body[s] = "="
    BY <1>1, <1>2, <1>9
  <2>4. ~Good(n + 1)
    BY <1>2, <2>2, <2>3, TwoSigns
  <2>5. Bad(n)
    BY <1>7, <2>2, <2>4 DEF Bad
  <2>6. AsSent(Fail(q), m + 1)
    BY <2>5, Refused
  <2>7. QED
    BY <1>1, <2>1, <2>6
<1>10. CASE c \notin {"=", "&"} /\ ~Room(q.val_len)
  <2>1. ReadVal(q, c, final) = Fail(q)
    BY <1>10 DEF ReadVal
  <2>2. Inside(n, s)
    BY <1>5, <1>10
  <2>3. m - e > PARSE_POST_BUF_SIZES - 2
    BY <1>2, <1>10, Buffers DEF Room
  <2>4. b - e - 1 >= PARSE_POST_BUF_SIZES
    BY <1>1, <1>2, <1>6, <2>2, <2>3, Buffers
  <2>5. Len(Raw(n + 1)) = Cut[n + 1] - e - 1
    BY <1>2, KeyAndValue
  <2>6. Len(Raw(n + 1)) = b - e - 1
    BY <1>6, <2>5
  <2>7. ~(Len(Raw(n + 1)) < PARSE_POST_BUF_SIZES)
    BY <2>4, <2>6, Buffers
  <2>8. ~Good(n + 1)
    BY <2>7 DEF Good, Fits
  <2>9. Bad(n)
    BY <1>7, <2>2, <2>8 DEF Bad
  <2>10. AsSent(Fail(q), m + 1)
    BY <2>9, Refused
  <2>11. QED
    BY <1>1, <2>1, <2>10
<1>11. CASE c \notin {"=", "&"} /\ Room(q.val_len)
  <2> DEFINE r == Put(q, c)
  <2>1. ReadVal(q, c, final) = IF final THEN Finish(r) ELSE r
    BY <1>11 DEF ReadVal, Put
  <2>2. /\ ParserOK(r) /\ r.val_len = q.val_len + 1
        /\ r.state = "READING_VAL" /\ r.key = q.key
        /\ r.finish # "UNKNOWN" /\ r.accepted = q.accepted
        /\ \A i \in 0..(PARSE_POST_BUF_SIZES - 1) :
             r.val[i] = IF i = q.val_len THEN c ELSE q.val[i]
    BY <1>11, PutOK
  <2> HIDE DEF r
  <2>3. Inside(n, s)
    BY <1>5, <1>11
  <2>4. NoneIn("=", e + 1, s)
    <3>1. ASSUME NEW i \in (e + 1)..s PROVE body[i] # "="
      <4>1. i = s \/ i \in (e + 1)..m
        BY <1>1
      <4>2. QED
        BY <1>1, <1>2, <1>11, <4>1 DEF NoneIn
    <3>2. QED
      BY <3>1 DEF NoneIn
  <2>5. r.val_len = s - e
    BY <1>1, <1>2, <2>2
  <2>6. ASSUME NEW i \in 0..(PARSE_POST_BUF_SIZES - 1)
        PROVE  r.val[i] = IF i < s - e THEN body[e + i + 1] ELSE NUL
    <3>1. CASE i = m - e
      <4>1. e + i + 1 = s /\ i < s - e
        BY <1>1, <3>1
      <4>2. QED
        BY <1>1, <1>2, <2>2, <3>1, <4>1
    <3>2. CASE i # m - e
      <4>1. i < s - e <=> i < m - e
        BY <1>1, <3>2
      <4>2. r.val[i] = q.val[i]
        BY <1>2, <2>2, <3>2
      <4>3. QED
        BY <1>2, <4>1, <4>2
    <3>3. QED
      BY <3>1, <3>2
  <2>7. e <= s /\ e < s
    BY <1>1, <1>2
  <2>8. InValue(r, n, e, s)
    BY <1>2, <2>2, <2>3, <2>4, <2>5, <2>6, <2>7 DEF InValue
  <2>9. TakenOf(r, n)
    BY <2>2 DEF TakenOf
  <2>10. CASE final
    <3>1. s = Len(body) /\ b = s + 1
      BY <1>1, <1>6, <2>3, <2>10
    <3>2. Cut[n + 1] = s + 1
      BY <1>6, <3>1
    <3>3. \/ TakenOf(Finish(r), n + 1) /\ Finish(r).state = "MORE"
          \/ /\ TakenOf(Finish(r), n) /\ Bad(n)
             /\ \/ Finish(r).state = "ERROR"
                \/ Finish(r).state = "READING_VAL" /\ Finish(r).finish = "UNKNOWN"
      BY <2>2, <2>7, <2>8, <2>9, <3>2, PairEnds, Zenon
    <3>4. AsSent(Finish(r), s)
      BY <1>3, <3>1, <3>2, <3>3, AfterPair
    <3>5. QED
      BY <1>1, <2>1, <2>10, <3>4
  <2>11. CASE ~final
    <3>1. s # Len(body)
      BY <1>1, <2>11
    <3>2. At(r, n, s)
      BY <2>2, <2>8, <3>1 DEF At
    <3>3. AsSent(r, s)
      BY <2>9, <3>2 DEF AsSent
    <3>4. QED
      BY <1>1, <2>1, <2>11, <3>3
  <2>12. QED
    BY <2>10, <2>11
<1>12. QED
  BY <1>8, <1>9, <1>10, <1>11

\* What is left of a form after a key no handler knows changes nothing.
LEMMA SpillAsSent ==
  ASSUME NEW p, ParserOK(p), NEW q, ParserOK(q), Onwards(p, q),
         p.state = "READING_VAL", p.finish = "UNKNOWN", NEW n, TakenOf(p, n), Bad(n), NEW s
  PROVE  AsSent(q, s)
<1>1. Seen(p) = "SPILL"
  BY SeenStates
<1>2. Seen(q) \in {"SPILL", "ERROR"} /\ q.accepted = p.accepted
  BY <1>1 DEF Onwards
<1>3. q.state = "ERROR" \/ (q.state = "READING_VAL" /\ q.finish = "UNKNOWN")
  BY <1>2, SeenStates DEF ParserOK, Parsers
<1>4. TakenOf(q, n)
  BY <1>2 DEF TakenOf
<1>5. At(q, n, s)
  BY <1>3 DEF At
<1>6. QED
  BY <1>4, <1>5 DEF AsSent

\* One more character of a body.
LEMMA ParseAsSent ==
  ASSUME body \in Text, NEW p, ParserOK(p), NEW m \in 0..(Len(body) - 1), AsSent(p, m),
         NEW final \in BOOLEAN, final <=> m + 1 = Len(body)
  PROVE  AsSent(Parse(p, body[m + 1], final), m + 1)
<1>1. PICK n : TakenOf(p, n) /\ At(p, n, m)
  BY DEF AsSent
<1>2. PICK c \in Letters : c = body[m + 1]
  <2>1. Len(body) \in Nat /\ m + 1 \in 1..Len(body)
    BY EmptyOne
  <2>2. body[m + 1] \in Letters
    BY <2>1, EmptyOne
  <2>3. QED
    BY <2>2
<1>3. ASSUME NEW q, ParserOK(q), q.state = "READING_KEY", q.accepted = p.accepted,
             InKey(q, n, m)
      PROVE  AsSent(ReadKey(q, c), m + 1)
  <2>1. At(ReadKey(q, c), n, m + 1)
    BY <1>2, <1>3, KeyAsSent
  <2>2. ReadKey(q, c).accepted = p.accepted
    BY <1>3, ReadKeyOK
  <2>3. TakenOf(ReadKey(q, c), n)
    BY <1>1, <2>2 DEF TakenOf
  <2>4. QED
    BY <2>1, <2>3 DEF AsSent
<1>4. CASE p.state \in {"INIT", "MORE"}
  <2>1. InKey(StartPair(p), n, m) /\ StartPair(p).state = "READING_KEY"
    BY <1>1, <1>4, StartsKey
  <2>2. ParserOK(StartPair(p)) /\ StartPair(p).accepted = p.accepted
    BY StartPairOK
  <2>3. Parse(p, c, final) = ReadKey(StartPair(p), c)
    BY <2>1 DEF Parse
  <2>4. QED
    BY <1>2, <1>3, <2>1, <2>2, <2>3
<1>5. p.state \notin {"INIT", "MORE"} => StartPair(p) = p
  BY StartPairOK
<1>6. CASE p.state = "READING_KEY"
  <2>1. Parse(p, c, final) = ReadKey(p, c)
    BY <1>5, <1>6 DEF Parse
  <2>2. InKey(p, n, m)
    BY <1>1, <1>6 DEF At
  <2>3. QED
    BY <1>2, <1>3, <1>6, <2>1, <2>2
<1>7. CASE p.state = "READING_VAL" /\ p.finish # "UNKNOWN"
  <2>1. Parse(p, c, final) = ReadVal(p, c, final)
    BY <1>5, <1>7 DEF Parse
  <2>2. PICK e \in Nat : InValue(p, n, e, m)
    BY <1>1, <1>7 DEF At
  <2>3. AsSent(ReadVal(p, body[m + 1], final), m + 1)
    BY <1>1, <1>7, <2>2, ValAsSent
  <2>4. QED
    BY <1>2, <2>1, <2>3
<1>8. CASE p.state = "READING_VAL" /\ p.finish = "UNKNOWN"
  <2>1. Bad(n)
    BY <1>1, <1>8 DEF At
  <2>2. ParserOK(Parse(p, c, final)) /\ Onwards(p, Parse(p, c, final))
    BY ParseOnwards
  <2>3. AsSent(Parse(p, c, final), m + 1)
    BY <1>1, <1>8, <2>1, <2>2, SpillAsSent
  <2>4. QED
    BY <1>2, <2>3
<1>9. CASE p.state = "ERROR"
  <2>1. Parse(p, c, final) = p
    BY <1>5, <1>9 DEF Parse
  <2>2. At(p, n, m + 1)
    BY <1>1, <1>9 DEF At
  <2>3. QED
    BY <1>1, <1>2, <2>1, <2>2 DEF AsSent
<1>10. QED
  BY <1>4, <1>6, <1>7, <1>8, <1>9 DEF ParserOK, Parsers

------------------------------------------------------------------------------
(* From one chunk to the next.                                              *)

\* The characters of a chunk, one after the other.
LEMMA ChunkAsSent ==
  ASSUME ParserInv, at <= Len(body), AsSent(parser, at), NEW n \in 1..(Len(body) - at)
  PROVE  AsSent(Steps(n)[n], at + n)
<1>1. body \in Text
  BY Buffers DEF ParserInv
<1>2. PICK k \in Nat, j \in Nat : k = Len(body) /\ j = at /\ j <= k /\ n \in 1..(k - j)
  <2>1. Len(body) \in Nat /\ Len(more) \in Nat
    BY LenProperties DEF ParserInv
  <2>2. at \in Nat
    BY <2>1 DEF ParserInv
  <2>3. QED
    BY <2>1, <2>2
<1> DEFINE G == {i \in 0..n : AsSent(Steps(n)[i], j + i)}
<1>3. Steps(n)[0] = parser /\ \A i \in 1..n :
        Steps(n)[i] = Parse(Steps(n)[i - 1], Arrived(at + i), Final(i, n))
  <2>1. n \in Nat
    BY <1>2
  <2>2. QED
    BY <2>1, StepsAre
<1>4. 0 \in G
  <2>1. j + 0 = at /\ 0 \in 0..n
    BY <1>2
  <2>2. QED
    BY <1>3, <2>1
<1>5. ASSUME NEW i \in 1..n, i - 1 \in G PROVE i \in G
  <2>1. PICK p : p = Steps(n)[i - 1]
    OBVIOUS
  <2>2. i - 1 \in 0..n
    BY <1>2
  <2>3. ParserOK(p)
    <3>1. n \in 1..(Len(body) + Len(more) - at)
      <4>1. Len(more) \in Nat
        BY LenProperties DEF ParserInv
      <4>2. QED
        BY <1>2, <4>1
    <3>2. QED
      BY <2>1, <2>2, <3>1, ChunkSteps
  <2>4. PICK m \in 0..(k - 1) : m = j + (i - 1) /\ m + 1 = j + i
    BY <1>2
  <2>5. AsSent(p, m) /\ m \in 0..(Len(body) - 1)
    BY <1>2, <1>5, <2>1, <2>4
  <2>6. Final(i, n) \in BOOLEAN /\ (Final(i, n) <=> m + 1 = Len(body))
    <3>1. Final(i, n) <=> i = n /\ j + n = k
      BY <1>2 DEF Final
    <3>2. (i = n /\ j + n = k) <=> m + 1 = k
      BY <1>2, <2>4
    <3>3. Final(i, n) \in BOOLEAN
      BY DEF Final
    <3>4. QED
      BY <1>2, <3>1, <3>2, <3>3
  <2>7. PICK final \in BOOLEAN : final = Final(i, n)
    BY <2>6
  <2>8. AsSent(Parse(p, body[m + 1], final), m + 1)
    BY <1>1, <2>3, <2>5, <2>6, <2>7, ParseAsSent
  <2>9. Steps(n)[i] = Parse(p, body[m + 1], final)
    <3>1. at + i = m + 1 /\ m + 1 <= Len(body)
      BY <1>2, <2>4
    <3>2. Arrived(at + i) = body[m + 1]
      BY <3>1 DEF Arrived
    <3>3. QED
      BY <1>3, <2>1, <2>7, <3>2
  <2>10. AsSent(Steps(n)[i], j + i)
    BY <2>4, <2>8, <2>9
  <2>11. i \in 0..n
    OBVIOUS
  <2>12. QED
    BY <2>10, <2>11
<1>6. n \in G
  <2> HIDE DEF G
  <2>1. n \in Nat /\ n \in 0..n
    BY <1>2
  <2>2. \A i \in 0..n : i \in G
    BY <1>4, <1>5, <2>1, EveryStep
  <2>3. QED
    BY <2>1, <2>2
<1>7. QED
  BY <1>2, <1>6

\* The inductive invariant of the parser and of what it has taken, as long as no read
\* has brought more than the body.
SentInv == ParserInv /\ (at <= Len(body) => AsSent(parser, at))

\* A body begins with nothing taken.
LEMMA SentInit == ParserInit => SentInv
<1> SUFFICES ASSUME ParserInit PROVE SentInv
  OBVIOUS
<1>1. ParserInv
  BY ParserInitInv
<1>2. at = 0 /\ parser.state = "INIT" /\ parser.accepted = <<>>
  BY DEF ParserInit
<1>3. TakenOf(parser, 0)
  <2>1. [f \in 1..0 |-> <<Key(f), Value(f)>>] = <<>>
    OBVIOUS
  <2>2. QED
    BY <1>2, <2>1 DEF TakenOf
<1>4. At(parser, 0, at)
  BY <1>2 DEF At
<1>5. QED
  BY <1>1, <1>3, <1>4 DEF SentInv, AsSent

\* The form stays what it is.
LEMMA FormStays ==
  ASSUME body' = body
  PROVE  /\ Cut' = Cut /\ Fields' = Fields
         /\ \A f : Field(f)' = Field(f) /\ Key(f)' = Key(f) /\ Value(f)' = Value(f)
                   /\ (Good(f)' <=> Good(f))
<1>1. Cut' = Cut
  BY DEF Cut, Position
<1>2. Fields' = Fields
  BY <1>1 DEF Fields
<1>3. \A f : Field(f)' = Field(f)
  BY <1>1 DEF Field
<1>4. \A f : Key(f)' = Key(f)
  BY <1>3 DEF Key
<1>5. \A f : Raw(f)' = Raw(f)
  BY <1>3, <1>4 DEF Raw
<1>6. \A f : Value(f)' = Value(f)
  BY <1>5 DEF Value
<1>7. \A f : Good(f)' <=> Good(f)
  BY <1>2, <1>3, <1>4, <1>5, <1>6 DEF Good
<1>8. QED
  BY <1>1, <1>2, <1>3, <1>4, <1>6, <1>7

\* A chunk keeps the invariant.
LEMMA SentNext == ASSUME SentInv, [ParserNext]_parserVars PROVE SentInv'
<1>1. ParserInv'
  BY ParserNextInv DEF SentInv
<1>2. body' = body /\ (at' <= Len(body) => AsSent(parser', at'))
  <2>1. CASE UNCHANGED parserVars
    BY <2>1 DEF parserVars, SentInv
  <2>2. CASE ParserNext
    <3>1. PICK n \in 1..(Len(body) + Len(more) - at) : ParseChunk(n)
      BY <2>2 DEF ParserNext
    <3>2. body' = body /\ at' = at + n /\ parser' = Steps(n)[n] /\ at < Len(body)
      BY <3>1 DEF ParseChunk
    <3>3. ASSUME at + n <= Len(body) PROVE AsSent(Steps(n)[n], at + n)
      <4>1. PICK k \in Nat, j \in Nat : k = Len(body) /\ j = at
        <5>1. Len(body) \in Nat /\ Len(more) \in Nat
          BY LenProperties DEF SentInv, ParserInv
        <5>2. QED
          BY <5>1 DEF SentInv, ParserInv
      <4>2. n \in Nat /\ n >= 1
        OBVIOUS
      <4>3. n \in 1..(k - j) /\ j <= k
        BY <3>2, <3>3, <4>1, <4>2
      <4>4. QED
        BY <4>1, <4>3, ChunkAsSent DEF SentInv
    <3>4. QED
      BY <3>2, <3>3
  <2>3. QED
    BY <2>1, <2>2
<1>3. ASSUME at' <= Len(body') PROVE AsSent(parser, at)'
  <2>1. PICK x, m : x = parser' /\ m = at' /\ AsSent(x, m)
    BY <1>2, <1>3
  <2>2. PICK n : TakenOf(x, n) /\ At(x, n, m)
    BY <2>1 DEF AsSent
  <2>3. /\ body' = body /\ Cut' = Cut /\ Fields' = Fields
        /\ \A f : Field(f)' = Field(f) /\ Key(f)' = Key(f) /\ Value(f)' = Value(f)
                  /\ (Good(f)' <=> Good(f))
    BY <1>2, FormStays
  <2>4. TakenOf(parser, n)'
    BY <2>1, <2>2, <2>3 DEF TakenOf
  <2>5. Bad(n) => Bad(n)'
    BY <2>3 DEF Bad
  <2>6. Inside(n, m) => Inside(n, at)'
    BY <2>1, <2>3 DEF Inside
  <2>7. \A e : Inside(n, e) => Inside(n, e)'
    BY <2>3 DEF Inside
  <2>8. InKey(x, n, m) => InKey(parser, n, at)'
    <3>1. NoneIn("=", Cut[n] + 1, m) => NoneIn("=", Cut[n] + 1, at)'
      BY <2>1, <2>3 DEF NoneIn
    <3>2. QED
      BY <2>1, <2>3, <2>6, <3>1 DEF InKey, Blank
  <2>9. ASSUME NEW e, InValue(x, n, e, m) PROVE InValue(parser, n, e, at)'
    <3>1. NoneIn("=", Cut[n] + 1, e - 1) => NoneIn("=", Cut[n] + 1, e - 1)'
      BY <2>3 DEF NoneIn
    <3>2. NoneIn("=", e + 1, m) => NoneIn("=", e + 1, at)'
      BY <2>1, <2>3 DEF NoneIn
    <3>3. QED
      BY <2>1, <2>3, <2>6, <2>7, <2>9, <3>1, <3>2 DEF InValue
  <2>10. At(parser, n, at)'
    BY <2>1, <2>2, <2>3, <2>5, <2>8, <2>9 DEF At
  <2>11. QED
    BY <2>4, <2>10 DEF AsSent
<1>4. QED
  BY <1>1, <1>3 DEF SentInv

\* So it holds throughout.
LEMMA SentInductive == ParserSpec => []SentInv
BY SentInit, SentNext, PTL DEF ParserSpec

------------------------------------------------------------------------------
(* What has been taken at the end, of a good form and of any other.         *)

\* The fields are numbered without a gap.
LEMMA FieldsBelow ==
  ASSUME body \in Text, NEW f \in Fields, NEW g \in 1..f
  PROVE  g \in Fields
<1>1. PICK k \in Nat : k = Len(body)
  BY EmptyOne
<1>2. f \in 1..(k + 1) /\ Cut[f - 1] <= k
  BY <1>1 DEF Fields
<1>3. PICK x \in 0..(k + 1), y \in 0..(k + 1) : x = g - 1 /\ y = f - 1 /\ y \in x..(k + 1)
  BY <1>2
<1>4. PICK a \in Nat, b \in Nat : a = Cut[x] /\ b = Cut[y]
  BY <1>1, CutType
<1>5. a <= b /\ b <= k
  BY <1>1, <1>2, <1>3, <1>4, CutAscends
<1>6. a <= k
  BY <1>5
<1>7. g \in 1..(k + 1) /\ Cut[g - 1] <= k
  BY <1>2, <1>3, <1>4, <1>6
<1>8. QED
  BY <1>1, <1>7 DEF Fields

\* When the next field is not good, or there is none, those taken are all to take.
LEMMA TakenAll ==
  ASSUME body \in Text, NEW p, NEW n, TakenOf(p, n), n + 1 \notin Fields \/ ~Good(n + 1)
  PROVE  /\ GoodFields = 1..n
         /\ p.accepted = [f \in GoodFields |-> <<Key(f), Value(f)>>]
<1>1. n \in Nat /\ \A f \in 1..n : f \in Fields /\ Good(f)
  BY DEF TakenOf
<1>2. ASSUME NEW f \in 1..n PROVE f \in GoodFields
  <2>1. \A g \in 1..f : g \in 1..n
    BY <1>1
  <2>2. QED
    BY <1>1, <2>1 DEF GoodFields
<1>3. ASSUME NEW f \in GoodFields PROVE f \in 1..n
  <2>1. f \in Fields /\ \A g \in 1..f : Good(g)
    BY DEF GoodFields
  <2>2. f \in Nat /\ f >= 1
    BY <2>1, EmptyOne DEF Fields
  <2>3. ASSUME n < f PROVE FALSE
    <3>1. n + 1 \in 1..f
      BY <1>1, <2>2, <2>3
    <3>2. QED
      BY <2>1, <3>1, FieldsBelow
  <2>4. QED
    BY <1>1, <2>2, <2>3
<1>4. GoodFields = 1..n
  BY <1>2, <1>3
<1>5. QED
  BY <1>4 DEF TakenOf

\* A field that spoils the form.
LEMMA SpoiltForm ==
  ASSUME body \in Text, NEW p, NEW n, TakenOf(p, n), Bad(n)
  PROVE  ~GoodForm /\ p.accepted = [f \in GoodFields |-> <<Key(f), Value(f)>>]
<1>1. n + 1 \in Fields /\ ~Good(n + 1) /\ (Field(n + 1) # <<>> \/ n + 2 \in Fields)
  BY DEF Bad
<1>2. GoodFields = 1..n /\ p.accepted = [f \in GoodFields |-> <<Key(f), Value(f)>>]
  BY <1>1, TakenAll
<1>3. n + 1 \notin 1..n /\ n + 1 + 1 = n + 2
  BY DEF TakenOf
<1>4. QED
  BY <1>1, <1>2, <1>3 DEF GoodForm

\* At the end of the body the last field ends.
LEMMA LastCut ==
  ASSUME body \in Text, NEW n, Inside(n, Len(body))
  PROVE  Cut[n + 1] = Len(body) + 1 /\ n + 2 \notin Fields
<1>1. PICK k \in Nat : k = Len(body)
  BY EmptyOne
<1>2. PICK a \in Nat, b \in Nat, t \in Text : FieldIs(n, a, b, t)
  BY <1>1, FieldText
<1>3. b = Cut[n + 1] /\ b <= k + 1
  BY <1>1, <1>2 DEF FieldIs
<1>4. k < b
  BY <1>1, <1>2, InsideBounds
<1>5. b = k + 1 /\ ~(b <= k)
  BY <1>3, <1>4
<1>6. n + 2 \in Fields <=> b <= k
  BY <1>1, <1>3, FieldText
<1>7. QED
  BY <1>1, <1>3, <1>5, <1>6

\* The field that has begun when the body ends is good only if it is complete.
LEMMA CutShort ==
  ASSUME body \in Text, NEW p, NEW n, At(p, n, Len(body)), ParserOK(p),
         p.state \in {"READING_KEY", "READING_VAL"}
  PROVE  Bad(n)
<1>1. PICK k \in Nat : k = Len(body)
  BY EmptyOne
<1>2. CASE p.state = "READING_KEY"
  <2>1. Inside(n, k) /\ NoneIn("=", Cut[n] + 1, k) /\ Cut[n] < k
    BY <1>1, <1>2 DEF At, InKey
  <2>2. Cut[n + 1] = k + 1
    BY <1>1, <2>1, LastCut
  <2>3. k + 1 - 1 = k
    OBVIOUS
  <2>4. NoneIn("=", Cut[n] + 1, Cut[n + 1] - 1)
    BY <2>1, <2>2, <2>3
  <2>5. ~Good(n + 1)
    BY <2>1, <2>4, NoSign
  <2>6. QED
    BY <2>1, <2>5, FieldNotEmpty DEF Bad
<1>3. CASE p.state = "READING_VAL" /\ p.finish # "UNKNOWN"
  <2>1. PICK e \in Nat : InValue(p, n, e, k) /\ e = k
    BY <1>1, <1>3 DEF At
  <2>2. Inside(n, k) /\ Cut[n] < k /\ body[k] = "=" /\ NoneIn("=", Cut[n] + 1, k - 1)
    BY <2>1 DEF InValue
  <2>3. Cut[n + 1] = k + 1 /\ n + 2 \notin Fields
    BY <1>1, <2>2, LastCut
  <2>4. Raw(n + 1) \in Text /\ Len(Raw(n + 1)) = Cut[n + 1] - k - 1
    BY <2>2, KeyAndValue
  <2>5. k + 1 - k - 1 = 0
    OBVIOUS
  <2>6. Raw(n + 1) = <<>>
    <3>1. Len(Raw(n + 1)) = 0
      BY <2>3, <2>4, <2>5
    <3>2. QED
      BY <2>4, <3>1, EmptyOne, SameText
  <2>7. n + 1 + 1 = n + 2
    BY <2>2 DEF Inside
  <2>8. ~Good(n + 1)
    BY <2>3, <2>6, <2>7 DEF Good
  <2>9. QED
    BY <2>2, <2>8, FieldNotEmpty DEF Bad
<1>4. CASE p.state = "READING_VAL" /\ p.finish = "UNKNOWN"
  BY <1>4 DEF At
<1>5. QED
  BY <1>2, <1>3, <1>4

\* A field that is empty.
LEMMA EmptyField ==
  ASSUME body \in Text, NEW n, Inside(n, Len(body)), Cut[n] = Len(body)
  PROVE  n + 1 \in Fields /\ n + 2 \notin Fields /\ ~Good(n + 1) /\ Field(n + 1) = <<>>
<1>1. PICK k \in Nat : k = Len(body) /\ k + 1 - 1 = k /\ k + 1 - k - 1 = 0
  BY EmptyOne
<1>2. Inside(n, k) /\ Cut[n] = k /\ Cut[n + 1] = k + 1 /\ n + 2 \notin Fields
  BY <1>1, LastCut
<1>3. NoneIn("=", Cut[n] + 1, Cut[n + 1] - 1)
  <2>1. NoneIn("=", k + 1, k)
    BY <1>1 DEF NoneIn
  <2>2. QED
    BY <1>1, <1>2, <2>1
<1>4. ~Good(n + 1)
  BY <1>2, <1>3, NoSign
<1>5. PICK a \in Nat, b \in Nat, t \in Text : FieldIs(n, a, b, t)
  BY <1>2, FieldText
<1>6. a = k /\ b = k + 1 /\ t = Field(n + 1) /\ Len(t) = b - a - 1
  BY <1>2, <1>5 DEF FieldIs
<1>7. Len(t) = 0
  BY <1>6
<1>8. t = <<>>
  BY <1>7, EmptyOne, SameText
<1>9. QED
  BY <1>2, <1>4, <1>6, <1>8, FieldText

\* A parser that expects one more pair when the body ends has seen a good form.
LEMMA GoodEnd ==
  ASSUME body \in Text, NEW p, NEW n, TakenOf(p, n), At(p, n, Len(body)), p.state = "MORE"
  PROVE  GoodForm /\ p.accepted = [f \in GoodFields |-> <<Key(f), Value(f)>>]
<1>1. PICK k \in Nat : k = Len(body)
  BY EmptyOne
<1>2. n \in Nat /\ n # 0 /\ (Cut[n] = k \/ Cut[n] = k + 1)
  BY <1>1 DEF At, TakenOf
<1>3. \A f \in Fields : f \in Nat /\ f >= 1
  BY EmptyOne DEF Fields
<1>4. CASE Cut[n] = k + 1
  <2>1. n + 1 \notin Fields
    <3>1. PICK x : x = n + 1 /\ x - 1 = n
      BY <1>2
    <3>2. ~(k + 1 <= k)
      OBVIOUS
    <3>3. ~(Cut[x - 1] <= k)
      BY <1>4, <3>1, <3>2
    <3>4. QED
      BY <1>1, <3>1, <3>3 DEF Fields
  <2>2. GoodFields = 1..n /\ p.accepted = [f \in GoodFields |-> <<Key(f), Value(f)>>]
    BY <2>1, TakenAll
  <2>3. ASSUME NEW f \in Fields PROVE f \in 1..n
    <3>1. ASSUME n < f PROVE FALSE
      <4>1. n + 1 \in 1..f
        BY <1>2, <1>3, <3>1
      <4>2. QED
        BY <2>1, <4>1, FieldsBelow
    <3>2. QED
      BY <1>2, <1>3, <3>1
  <2>4. QED
    BY <2>2, <2>3 DEF GoodForm
<1>5. CASE Cut[n] = k
  <2>1. n \in 0..k
    <3>1. n \in 1..n
      BY <1>2
    <3>2. n \in 0..(k + 1)
      BY <1>1, <1>2, <3>1 DEF TakenOf, Fields
    <3>3. n <= Cut[n]
      BY <1>1, <3>2, CutType
    <3>4. QED
      BY <1>2, <1>5, <3>3
  <2>2. Inside(n, k)
    <3>1. Cut[n] <= Len(body)
      BY <1>1, <1>5
    <3>2. QED
      BY <1>1, <1>5, <2>1, <3>1, FieldBegins
  <2>3. n + 1 \in Fields /\ n + 2 \notin Fields /\ ~Good(n + 1) /\ Field(n + 1) = <<>>
    BY <1>1, <1>5, <2>2, EmptyField
  <2>4. GoodFields = 1..n /\ p.accepted = [f \in GoodFields |-> <<Key(f), Value(f)>>]
    BY <2>3, TakenAll
  <2>5. ASSUME NEW f \in Fields PROVE f \in 1..n \/ f = n + 1
    <3>1. ASSUME n + 1 < f PROVE FALSE
      <4>1. n + 2 \in 1..f
        BY <1>2, <1>3, <3>1
      <4>2. QED
        BY <2>3, <4>1, FieldsBelow
    <3>2. QED
      BY <1>2, <1>3, <3>1
  <2>6. n + 1 > 1 /\ n + 1 + 1 = n + 2
    BY <1>2
  <2>7. QED
    BY <2>3, <2>4, <2>5, <2>6 DEF GoodForm
<1>6. QED
  BY <1>2, <1>4, <1>5

\* An empty body is no form.
LEMMA EmptyBody ==
  ASSUME body \in Text, NEW p, NEW n, TakenOf(p, n), At(p, n, Len(body)), p.state = "INIT"
  PROVE  ~GoodForm /\ p.accepted = [f \in GoodFields |-> <<Key(f), Value(f)>>]
<1>1. Len(body) = 0 /\ n = 0
  BY DEF At
<1>2. Cut[n] = 0
  BY <1>1, CutIs
<1>3. Inside(n, Len(body)) /\ Cut[n] = Len(body)
  <2>1. n \in 0..Len(body) /\ Cut[n] <= Len(body)
    BY <1>1, <1>2
  <2>2. QED
    BY <1>1, <1>2, <2>1, FieldBegins
<1>4. n + 1 \in Fields /\ ~Good(n + 1)
  BY <1>3, EmptyField
<1>5. GoodFields = 1..n /\ p.accepted = [f \in GoodFields |-> <<Key(f), Value(f)>>]
  BY <1>4, TakenAll
<1>6. n + 1 \notin 1..n /\ ~(n + 1 > 1)
  BY <1>1
<1>7. QED
  BY <1>4, <1>5, <1>6 DEF GoodForm

\* For every body, however it is cut into chunks: the pairs accepted are those of the
\* form's good fields, in order and unescaped, and the answer tells whether it is good.
THEOREM PairsArriveAsSent == ParserSpec => []PairsAsSent
<1>1. SentInv => PairsAsSent
  <2> SUFFICES ASSUME SentInv,
                      at = Len(body) \/ (parser.state = "ERROR" /\ at < Len(body))
               PROVE  /\ parser.accepted = [f \in GoodFields |-> <<Key(f), Value(f)>>]
                      /\ parser.state = "MORE" <=> GoodForm
    BY DEF PairsAsSent
  <2>1. body \in Text /\ ParserOK(parser)
    BY Buffers DEF SentInv, ParserInv
  <2>2. PICK n : TakenOf(parser, n) /\ At(parser, n, at)
    <3>1. Len(body) \in Nat /\ Len(more) \in Nat
      BY LenProperties DEF SentInv, ParserInv
    <3>2. at <= Len(body)
      BY <3>1 DEF SentInv, ParserInv
    <3>3. QED
      BY <3>2 DEF SentInv, AsSent
  <2>3. CASE parser.state = "ERROR"
    <3>1. Bad(n)
      BY <2>2, <2>3 DEF At
    <3>2. QED
      BY <2>1, <2>2, <2>3, <3>1, SpoiltForm
  <2>4. CASE parser.state # "ERROR"
    <3>1. At(parser, n, Len(body))
      BY <2>2, <2>4
    <3>2. CASE parser.state = "INIT"
      BY <2>1, <2>2, <3>1, <3>2, EmptyBody
    <3>3. CASE parser.state = "MORE"
      BY <2>1, <2>2, <3>1, <3>3, GoodEnd
    <3>4. CASE parser.state \in {"READING_KEY", "READING_VAL"}
      <4>1. Bad(n)
        BY <2>1, <3>1, <3>4, CutShort
      <4>2. QED
        BY <2>1, <2>2, <3>4, <4>1, SpoiltForm
    <3>5. QED
      BY <2>1, <2>4, <3>2, <3>3, <3>4 DEF ParserOK, Parsers
  <2>5. QED
    BY <2>3, <2>4
<1>2. QED
  BY <1>1, SentInductive, PTL
==============================================================================
