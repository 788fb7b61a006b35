------------------------------ MODULE HttpdPost ------------------------------
(***************************************************************************)
(* The web server of the RC-CC1310-868 demo (httpd-simple.c): its pool of  *)
(* connections, the one static POST parser the connections share, the      *)
(* global lock that hands the parser to one connection at a time, and the  *)
(* global flag config_ok from which the "new configuration" event is made. *)
(*                                                                         *)
(* All callbacks run to completion in the httpd process, so one action is  *)
(* what one call of appcall() does up to the next blocking PSOCK read or   *)
(* write; connections interleave between those points only.                *)
(*                                                                         *)
(* An operator Name_Fault is a wrong version of Name, kept to show that    *)
(* the properties below notice it; no action uses one.                     *)
(*                                                                         *)
(* Bodies are abstracted to what parse_post_request_chunk() tells apart:   *)
(* whether a chunk completed accepted pairs, and in which parser state it  *)
(* left off.  content_length is counted in chunks of the input buffer; a    *)
(* last read that brings more than is left ends the body as well.          *)
(***************************************************************************)
EXTENDS Naturals, FiniteSets

CONSTANTS
  Conns,      \* the elements of the connection pool MEMB(conns, ..., CONNS)
  NULL,       \* the lock is free
  MaxChunks,  \* CONTENT_LENGTH_MAX, in chunks of HTTPD_INBUF_LEN - 1 bytes
  Unreliable  \* the elements whose peers may close, reset, fall silent or
              \* dribble at any time; the others see their requests through

ASSUME ConnsAssumption  == IsFiniteSet(Conns) /\ Conns # {} /\ NULL \notin Conns
ASSUME ChunksAssumption == MaxChunks \in Nat \ {0}
ASSUME PeerAssumption   == Unreliable \subseteq Conns

VARIABLES
  phase,          \* what each pool element is doing
  content_length, \* chunks of the body a connection has still to read
  return_code,    \* s->return_code
  lock,           \* the connection that may use the static parser, or NULL
  state,          \* the static parser state
  config_ok,      \* some pair was accepted since the last announcement
  posted,         \* a new-configuration event is in the process event queue
  quiet,          \* time has gone by since the connection's timer was set
  own,            \* history: the state of a parser of the connection's own
  pending         \* history: connections with accepted pairs not announced yet

vars == <<phase, content_length, return_code, lock, state, config_ok,
          posted, quiet, own, pending>>

Phase == {"free", "request", "body", "output", "closing"}

\* RETURN_CODE_*: OK, none chosen yet, 411, 413, 503, 400.
ReturnCode == {"OK", "NONE", "LR", "TL", "SU", "BR"}

\* PARSE_POST_STATE_*.  PAIR stands for READING_KEY and for READING_VAL inside
\* a pair; SPILL is READING_VAL after a whole pair whose key no handler knew:
\* the parser goes on appending to that value.
ParserState == {"INIT", "MORE", "PAIR", "SPILL", "ERROR"}

------------------------------------------------------------------------------
(* What one chunk of the body holds.  "accepted": it completed at least one *)
(* pair with a handler answering OK before anything went wrong.  "ends": at *)
(* a pair boundary, inside a pair, after a pair that no handler knew, or    *)
(* with something the parser or a handler refused.  A boundary is only      *)
(* reached by the acceptance of the pair in front of it.                    *)
Chunk == {c \in [accepted : BOOLEAN,
                 ends : {"boundary", "inside", "unknown", "refused"}] :
            c.ends = "boundary" => c.accepted}

\* parse_post_request_chunk(): the parser state a chunk leaves behind ...
AfterChunk(p, c) ==
  CASE p = "ERROR" -> "ERROR"
    [] p = "SPILL" -> IF c.ends = "inside" THEN "SPILL" ELSE "ERROR"
    [] OTHER -> CASE c.ends = "boundary" -> "MORE"
                  [] c.ends = "inside"   -> "PAIR"
                  [] c.ends = "unknown"  -> "SPILL"
                  [] c.ends = "refused"  -> "ERROR"

\* ... and whether a handler answered OK while it was parsed.
Accepts(p, c) == p \notin {"ERROR", "SPILL"} /\ c.accepted

------------------------------------------------------------------------------
Init ==
  /\ phase = [s \in Conns |-> "free"]
  /\ content_length = [s \in Conns |-> 0]
  /\ return_code = [s \in Conns |-> "NONE"]
  /\ lock = NULL
  /\ state = "INIT"
  /\ config_ok = FALSE
  /\ posted = FALSE
  /\ quiet = [s \in Conns |-> FALSE]
  /\ own = [s \in Conns |-> "INIT"]
  /\ pending = {}

\* The lock after lock_obtain(s), and after lock_release(s).
Obtained_Steals(s) == s
Obtained(s) == IF lock = NULL THEN s ELSE lock

Released_Never(l, s) == l
Released(l, s) == IF l = s THEN NULL ELSE l

\* The body loop ends with the last chunk or with a parser error; a body that
\* stops half-way through a pair is a bad request too.
BodyDone(p, left) == p = "ERROR" \/ left = 0

BodyCode_ErrorOnly(p) == IF p = "ERROR" THEN "BR" ELSE "OK"
BodyCode(p) == IF p = "MORE" THEN "OK" ELSE "BR"

FinishPost_AnnouncesIfOK(s, l, rc, added) ==
  LET ok == config_ok \/ added # {}
  IN /\ posted' = (posted \/ (ok /\ rc = "OK"))
     /\ pending' = IF ok /\ rc = "OK" THEN {} ELSE pending \union added
     /\ config_ok' = FALSE
     /\ lock' = Released(l, s)
     /\ phase' = [phase EXCEPT ![s] = "output"]
     /\ return_code' = [return_code EXCEPT ![s] = rc]
     /\ content_length' = [content_length EXCEPT ![s] = 0]

\* The end of handle_input() for a POST that accepted the pairs of "added":
\* broadcast the event if the flag is set, clear the flag, give the lock back
\* and answer.  Events still queued are not counted: both receivers, the save
\* of the configuration and the restart of a timer, are idempotent.
FinishPost(s, l, rc, added) ==
  LET ok == config_ok \/ added # {}
  IN /\ posted' = (posted \/ ok)
     /\ pending' = IF ok THEN {} ELSE pending \union added
     /\ config_ok' = FALSE
     /\ lock' = Released(l, s)
     /\ phase' = [phase EXCEPT ![s] = "output"]
     /\ return_code' = [return_code EXCEPT ![s] = rc]
     /\ content_length' = [content_length EXCEPT ![s] = 0]

Free_ClearsFlag(s) ==
  /\ phase' = [phase EXCEPT ![s] = "free"]
  /\ content_length' = [content_length EXCEPT ![s] = 0]
  /\ return_code' = [return_code EXCEPT ![s] = "NONE"]
  /\ own' = [own EXCEPT ![s] = "INIT"]
  /\ config_ok' = FALSE
  /\ UNCHANGED <<lock, state, posted, pending>>

\* The pool element is zeroed and given back.
Free(s) ==
  /\ phase' = [phase EXCEPT ![s] = "free"]
  /\ content_length' = [content_length EXCEPT ![s] = 0]
  /\ return_code' = [return_code EXCEPT ![s] = "NONE"]
  /\ own' = [own EXCEPT ![s] = "INIT"]
  /\ UNCHANGED <<lock, state, config_ok, posted, pending>>

\* timer_set() for a new connection, and timer_restart() in every callback of an
\* old one that is not a poll, whether it gets the connection anywhere or not.
Restarted(s) == quiet' = [quiet EXCEPT ![s] = FALSE]

------------------------------------------------------------------------------
\* appcall(), uip_connected(): memb_alloc() hands out a free element.  With
\* none left the connection is aborted and nothing changes.
Connect(s) ==
  /\ phase[s] = "free"
  /\ phase' = [phase EXCEPT ![s] = "request"]
  /\ Restarted(s)
  /\ UNCHANGED <<content_length, return_code, lock, state, config_ok,
                 posted, own, pending>>

\* handle_input(): a GET, answered without the parser.
Get(s) ==
  /\ phase[s] = "request"
  /\ phase' = [phase EXCEPT ![s] = "output"]
  /\ UNCHANGED <<content_length, return_code, lock, state, config_ok,
                 posted, own, pending>>

\* Neither GET nor POST, or a path that does not start with a slash.
BadRequestLine(s) ==
  /\ phase[s] = "request"
  /\ phase' = [phase EXCEPT ![s] = "closing"]
  /\ UNCHANGED <<content_length, return_code, lock, state, config_ok,
                 posted, own, pending>>

\* The headers of a POST have no usable Content-Length (411, 413): the body is
\* not read and the lock is not asked for, yet the tail of handle_input() runs.
PostWithoutBody(s) ==
  /\ phase[s] = "request"
  /\ \E rc \in {"LR", "TL"} : FinishPost(s, lock, rc, {})
  /\ UNCHANGED <<state, own>>

\* An acceptable Content-Length: ask for the lock.  The parser is reset only
\* for the connection that got it; a body of length zero is a bad request.
Post(s) ==
  /\ phase[s] = "request"
  /\ Obtained(s) = s
  /\ state' = "INIT"
  /\ \E n \in 0..MaxChunks :
       IF n = 0
       THEN FinishPost(s, s, "BR", {})
       ELSE /\ lock' = s
            /\ phase' = [phase EXCEPT ![s] = "body"]
            /\ return_code' = [return_code EXCEPT ![s] = "OK"]
            /\ content_length' = [content_length EXCEPT ![s] = n]
            /\ UNCHANGED <<config_ok, posted, pending>>
  /\ UNCHANGED own

PostWhileLocked(s) ==
  /\ phase[s] = "request"
  /\ Obtained(s) # s
  /\ FinishPost(s, lock, "SU", {})
  /\ UNCHANGED <<state, own>>

\* One pass of the body loop: a chunk has arrived and is parsed.
ReadChunk(s) ==
  /\ phase[s] = "body"
  /\ \E c \in Chunk :
       LET left  == content_length[s] - 1
           next  == AfterChunk(state, c)
           added == IF Accepts(state, c) THEN {s} ELSE {}
       IN /\ state' = next
          /\ own' = [own EXCEPT ![s] = AfterChunk(own[s], c)]
          /\ IF BodyDone(next, left)
             THEN FinishPost(s, lock, BodyCode(next), added)
             ELSE /\ config_ok' = (config_ok \/ added # {})
                  /\ pending' = pending \union added
                  /\ content_length' = [content_length EXCEPT ![s] = left]
                  /\ UNCHANGED <<phase, lock, return_code, posted>>

\* handle_output() has sent the answer: PSOCK_CLOSE().
Answer(s) ==
  /\ phase[s] = "output"
  /\ phase' = [phase EXCEPT ![s] = "closing"]
  /\ UNCHANGED <<content_length, return_code, lock, state, config_ok,
                 posted, own, pending>>

\* appcall(), uip_closed(), uip_aborted() or uip_timedout().  Once the server
\* has closed the connection this comes for certain; before, only from a peer
\* that gives up.
Terminate(s) ==
  /\ phase[s] # "free"
  /\ phase[s] = "closing" \/ s \in Unreliable
  /\ Free(s)

\* What happens to an open connection in a callback that is not a poll.
Serve(s) ==
  /\ \/ Get(s) \/ BadRequestLine(s) \/ PostWithoutBody(s)
     \/ Post(s) \/ PostWhileLocked(s) \/ ReadChunk(s) \/ Answer(s)
     \/ Terminate(s)
  /\ Restarted(s)

AtWork(s) == phase[s] \in {"request", "body", "output"}

TimePasses_PollRestarts(s) == AtWork(s) /\ s \in Unreliable /\ UNCHANGED vars

\* Time goes by and no callback but polls.
TimePasses(s) ==
  /\ AtWork(s) /\ s \in Unreliable
  /\ ~ quiet[s]
  /\ quiet' = [quiet EXCEPT ![s] = TRUE]
  /\ UNCHANGED <<phase, content_length, return_code, lock, state, config_ok,
                 posted, own, pending>>

\* A callback that gets the connection nowhere: one more header, or a part of a
\* line or of what the body loop waits for.  Neither loop has a bound.
Dribble(s) ==
  /\ AtWork(s) /\ s \in Unreliable
  /\ quiet[s]
  /\ Restarted(s)
  /\ UNCHANGED <<phase, content_length, return_code, lock, state, config_ok,
                 posted, own, pending>>

\* appcall(), uip_poll() with the ten second timer expired: abort and free.
PollTimeout(s) ==
  /\ AtWork(s) /\ s \in Unreliable
  /\ quiet[s]
  /\ Free(s)
  /\ Restarted(s)

\* The event reaches the processes that wait for it.
Deliver ==
  /\ posted
  /\ posted' = FALSE
  /\ UNCHANGED <<phase, content_length, return_code, lock, state, config_ok,
                 quiet, own, pending>>

Next ==
  \/ Deliver
  \/ \E s \in Conns :
       Connect(s) \/ Serve(s) \/ TimePasses(s) \/ Dribble(s) \/ PollTimeout(s)

Spec == Init /\ [][Next]_vars

(***************************************************************************)
(* Contiki's scheduler empties the event queue.  The peers that are not    *)
(* Unreliable see their requests through: that is assumed of them, not     *)
(* enforced by the server.  From the others nothing is expected, neither   *)
(* progress nor the end of the connection; but time passes, uIP polls, and *)
(* a poll that finds the timer expired ends the connection.  New           *)
(* connections need not come.                                              *)
(***************************************************************************)
FairSpec ==
  /\ Spec
  /\ WF_vars(Deliver)
  /\ \A s \in Conns \ Unreliable : WF_vars(Serve(s))
  /\ \A s \in Unreliable : WF_vars(TimePasses(s)) /\ WF_vars(PollTimeout(s))

------------------------------------------------------------------------------
TypeOK ==
  /\ phase \in [Conns -> Phase]
  /\ content_length \in [Conns -> 0..MaxChunks]
  /\ return_code \in [Conns -> ReturnCode]
  /\ lock \in Conns \union {NULL}
  /\ state \in ParserState
  /\ config_ok \in BOOLEAN
  /\ posted \in BOOLEAN
  /\ quiet \in [Conns -> BOOLEAN]
  /\ own \in [Conns -> ParserState]
  /\ pending \in SUBSET Conns

\* The one static parser, its buffers and its state serve every connection in
\* turn.  A connection in the middle of its body finds the parser exactly as it
\* left it, as if it had a parser of its own, whatever the others do meanwhile
\* (be answered 503, 411, 413, be aborted, be handed a recycled pool element).
ParserBelongsToReader ==
  \A s \in Conns : phase[s] = "body" => lock = s /\ state = own[s]

\* A POST is redirected (302) exactly when its whole body, pair by pair, was
\* accepted by its handlers, and told 400 exactly when it was not: the answer
\* does not depend on what other connections sent.
AnswerMatchesBody ==
  \A s \in Conns : phase[s] = "output" =>
    /\ return_code[s] = "OK" => own[s] = "MORE"
    /\ own[s] = "MORE" => return_code[s] = "OK"
    /\ return_code[s] \in {"SU", "LR", "TL"} => own[s] = "INIT"

\* Pairs already applied to the configuration but not announced keep config_ok
\* set, even if the connection that sent them is gone; and the flag is never
\* set without such a pair, so that no event is broadcast for nothing.
AppliedNotForgotten == config_ok <=> pending # {}

\* For the processes whose configuration the forms change, all this is no more
\* than a flag that is raised, announced and lowered.
Form == INSTANCE FormEvents
AnnouncesForms == Form!Spec

\* When a POST ends, with whatever answer, every pair applied until then is
\* announced in the same callback, before another connection is served.
FinishAnnounces ==
  [][\A s \in Conns : phase[s] = "body" /\ phase'[s] = "output" =>
       /\ pending' = {}
       /\ (config_ok \/ pending # {}) => posted']_vars

\* The lock is NULL or points to the connection that is processing a POST (the
\* comment above the declaration of lock).  True of a connection whose peer sees
\* its request through, whatever the others do.
LockHeldByReader == lock = NULL \/ (lock \in Conns /\ phase[lock] = "body")

LockSoundIfReliable == lock \in Unreliable \/ LockHeldByReader

\* The server's work on a connection ends, with an answer or with the timer,
\* whatever its peer does and wherever it stops, unless the peer dribbles for ever:
\* the ten seconds are those since the last byte.  (What is left of a connection
\* that the server has closed is up to uIP and the peer.)
QuietPeersAreDropped ==
  \A s \in Conns :
    <>[][~ Dribble(s)]_vars => []<>(phase[s] \in {"free", "closing"})

\* A connection whose peer sees its request through gives the lock back,
\* whatever happens to the connections beside it.
LockComesBack == \A s \in Conns \ Unreliable : lock = s ~> lock # s

\* What such a connection had applied is eventually announced, even while other
\* connections take and leak the lock, clear the flag or are cut off.
AppliedIsAnnounced == \A s \in Conns \ Unreliable : s \in pending ~> posted
==============================================================================
