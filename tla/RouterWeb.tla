------------------------------- MODULE RouterWeb -------------------------------
(***************************************************************************)
(* The web server of the border router (httpd-simple.c and                 *)
(* httpd-simple-handler.c): one page, with the neighbours and the routes   *)
(* of the router, for whoever asks.  The generator is a protothread that   *)
(* blocks in PSOCK_SEND(); its buffer, the length of the text in it and    *)
(* its iterators are static, so the connections share them.                *)
(*                                                                         *)
(* An action is one callback of uIP, up to the next blocking send.  A      *)
(* piece of text is a sequence of tokens that stand for a few characters   *)
(* each; the page counter and the load time are among those of the last    *)
(* piece.  The tables do not change while a page is sent.                  *)
(*                                                                         *)
(* The margin that is kept for the next line is 45 characters, and a line  *)
(* may have 51 (an address of 39, " INCOMPLETE" and a newline): then the   *)
(* length wraps, which is the step RunOver.                                *)
(*                                                                         *)
(* An operator Name_Fault is a wrong version of Name, kept to show that    *)
(* the properties below notice it; no action uses one.                     *)
(***************************************************************************)
EXTENDS Integers, SequencesExt

CONSTANTS
  Conns,     \* pool elements, CONNS of them
  BUF_SIZE,  \* 256 in the code, which is also where the uint8_t blen wraps
  Margin,    \* 45 in the code
  MSS,       \* UIP_CONF_TCP_MSS
  NBRS,      \* number of neighbours
  ROUTES,    \* number of routes
  LineSizes, \* the sizes that the line of a neighbour may have
  RouteSize, \* size of the text of a route
  NUL

\* A line fits in an empty buffer, but not always in what is left of one that is
\* not full.
ASSUME SizeAssumption ==
  /\ BUF_SIZE \in Nat /\ Margin \in Nat
  /\ MSS \in Nat \ {0} /\ NBRS \in Nat /\ ROUTES \in Nat
  /\ 1 < Margin /\ Margin < BUF_SIZE
  /\ LineSizes \subseteq 1..(BUF_SIZE - 1)
  /\ RouteSize \in 1..(BUF_SIZE - 1)

\* The terminating zero of a string is none of the characters of a text.
Names == {"200 OK", "html", "TOP", "BOTTOM", "Neighbors", "nbr", "Routes",
          "link", "route", "junk", "numtimes"}
Tokens == Names \X Int \X Int
ASSUME NulAssumption == NUL \notin Tokens

VARIABLES
  state,     \* free, waiting for the request, output, or closed by the server
  at,        \* the send the output thread blocks in
  sendptr,   \* how much of that text has been acknowledged
  sendlen,   \* how much has not
  wire,      \* the segment under way, with the text it was sent with
  buf, blen, \* static: the page buffer
  nbr, r,    \* static: the iterators; one past the last entry is a null pointer
  ends,      \* the end of each line in the text of all neighbours; never changes
  overrun,   \* history: the last neighbour whose line wrapped the length, or 0
  intact,    \* history: no other connection has used the static variables since
             \* this one first did, and no line has wrapped the length in its page
  received,  \* history: what the peer has got, as long as that is so
  visitors   \* are new connections still made?

psock  == <<at, sendptr, sendlen, wire>>
static == <<buf, blen, nbr, r, ends, overrun>>
vars   == <<state, psock, static, intact, received, visitors>>

\* A send that is over.
Idle(c) ==
  /\ at' = [at EXCEPT ![c] = "headers"]
  /\ sendptr' = [sendptr EXCEPT ![c] = 0]
  /\ sendlen' = [sendlen EXCEPT ![c] = 0]
  /\ wire' = [wire EXCEPT ![c] = <<>>]

------------------------------------------------------------------------------
(* The texts.                                                               *)

Token(name) == <<name, 0, 0>>

Fixed == [headers |-> <<Token("200 OK")>>,
          type    |-> <<Token("html")>>,
          top     |-> <<Token("TOP")>>,
          bottom  |-> <<Token("BOTTOM")>>]

\* An address is as long as its zeros allow, and the states have their names.
Size(m) == ends[m] - ends[m - 1]
Tables  == {f \in [0..NBRS -> 0..(NBRS * BUF_SIZE)] :
             f[0] = 0 /\ \A m \in 1..NBRS : f[m] - f[m - 1] \in LineSizes}

\* The lines of the neighbours i to m: that part of the text of all neighbours.
Lines(i, m) == [k \in 1..(ends[m] - ends[i - 1]) |-> <<"nbr", ends[i - 1] + k, 0>>]
Heading    == <<Token("Neighbors")>>
Routes     == <<Token("Routes")>>
Ending     == <<Token("numtimes")>>

\* Both halves of a route follow the iterator; through a null pointer they read
\* what is at address 0, which the processor allows.
Link(x)  == IF x > ROUTES THEN <<Token("junk")>> ELSE << <<"link", x, 1>> >>
Via(x)   == IF x > ROUTES THEN <<Token("junk")>>
            ELSE [k \in 1..RouteSize |-> <<"route", x, k>>]

\* The page as it should be.
Page ==
  Fixed.headers \o Fixed.type \o Fixed.top
    \o Heading \o Lines(1, NBRS) \o Routes
    \o FlattenSeq([x \in 1..ROUTES |-> Link(x) \o Via(x)])
    \o Ending \o Fixed.bottom

\* The next entry of a table; the one after a null pointer is a null pointer.
NextOf_Stays(x, size) == x
NextOf(x, size) == IF x > size THEN x ELSE x + 1

------------------------------------------------------------------------------
Init ==
  /\ state = [c \in Conns |-> "free"]
  /\ at = [c \in Conns |-> "headers"]
  /\ sendptr = [c \in Conns |-> 0] /\ sendlen = [c \in Conns |-> 0]
  /\ wire = [c \in Conns |-> <<>>]
  /\ buf = [i \in 1..BUF_SIZE |-> NUL] /\ blen = 0
  /\ nbr = NBRS + 1 /\ r = ROUTES + 1
  /\ ends \in Tables /\ overrun = 0
  /\ received = [c \in Conns |-> <<>>]
  /\ intact = [c \in Conns |-> TRUE]
  /\ visitors = TRUE

(* PSOCK_SEND(): the length is taken when the send begins, the text whenever  *)
(* a segment is made, and a segment is made again if it is retransmitted.     *)

Least(m, n) == IF m < n THEN m ELSE n

Segment(where, b, from, left) ==
  LET n == Least(left, MSS)
  IN IF where \in DOMAIN Fixed THEN SubSeq(Fixed[where], from + 1, from + n)
                               ELSE SubSeq(b, from + 1, from + n)

Send(c, where, b, length) ==
  /\ at' = [at EXCEPT ![c] = where]
  /\ sendptr' = [sendptr EXCEPT ![c] = 0]
  /\ sendlen' = [sendlen EXCEPT ![c] = length]
  /\ wire' = [wire EXCEPT ![c] = Segment(where, b, 0, length)]

SendFixed(c, where) ==
  /\ Send(c, where, buf, Len(Fixed[where]))
  /\ UNCHANGED <<state, static, intact>>

\* The generator has touched the static variables.
InGenerator(d) == state[d] = "output" /\ at[d] \notin {"headers", "type", "top"}
Overlap(c) ==
  intact' = [d \in Conns |-> intact[d] /\ (d = c \/ ~InGenerator(d))]

\* BUF_RESET(), the ADD()s up to the next send, and SEND_STRING(buf).
Put_Appends(text) ==
  LET end == blen + Len(text)
  IN /\ buf' = [i \in 1..BUF_SIZE |->
                 IF i = Least(end + 1, BUF_SIZE) THEN NUL
                 ELSE IF i \in (blen + 1)..end THEN text[i - blen] ELSE buf[i]]
     /\ blen' = end % BUF_SIZE
Put(text) ==
  /\ buf' = [i \in 1..BUF_SIZE |->
              IF i = Least(Len(text) + 1, BUF_SIZE) THEN NUL
              ELSE IF i <= Len(text) THEN text[i] ELSE buf[i]]
  /\ blen' = Len(text) % BUF_SIZE

strlen(b) == CHOOSE n \in 0..(BUF_SIZE - 1) :
               b[n + 1] = NUL /\ \A i \in 1..n : b[i] # NUL

\* The bound variables have TLC evaluate each of the two values once.
SendBuf(c, where, text) ==
  /\ \E t \in {text} : Put(t)
  /\ \E n \in {strlen(buf')} : Send(c, where, buf', n)
  /\ Overlap(c)
  /\ UNCHANGED <<state, ends, overrun>>

(* generate_routes(), from one send to the next.                            *)

Full_Later(text) == Len(text) > BUF_SIZE
Full(text) == Len(text) > BUF_SIZE - Margin

\* The line of m goes past the end of the buffer: the ADD() that reaches the end
\* is cut there, and wraps the length to some k.  What follows of the line is put
\* behind the first k characters of the buffer, which are those of the old text,
\* and the loop goes on without a send.  (The zero behind them, if nothing follows,
\* comes with the next ADD(); nothing looks for it before.)
RunOver(c, m, text) ==
  /\ \E k \in 0..(Len(text) - BUF_SIZE) :
       Put(SubSeq(text, 1, k) \o SubSeq(text, BUF_SIZE + k + 1, Len(text)))
  /\ Send(c, "filling", buf', 0)
  /\ overrun' = m
  /\ intact' = [d \in Conns |-> intact[d] /\ d # c /\ ~InGenerator(d)]
  /\ UNCHANGED <<state, ends>>

\* The neighbours from i on, after "text", until the buffer is full.
Neighbours(c, text, i) ==
  LET stops == {m \in i..NBRS : Full(text \o Lines(i, m))}
      m == CHOOSE m \in stops : \A k \in stops : m <= k
      whole == text \o Lines(i, m)
  IN IF stops = {}
     THEN /\ nbr' = NBRS + 1
          /\ SendBuf(c, "neighbours", text \o Lines(i, NBRS) \o Routes)
     ELSE /\ nbr' = m
          /\ IF Len(whole) < BUF_SIZE THEN SendBuf(c, "neighbour", whole)
                                      ELSE RunOver(c, m, whole)

\* A route, or the end of the page.
Route(c, x) ==
  /\ r' = x
  /\ UNCHANGED nbr
  /\ IF x > ROUTES THEN SendBuf(c, "ending", Ending)
                   ELSE SendBuf(c, "link", Link(x))

Resume(c) ==
  \/ at[c] = "headers" /\ SendFixed(c, "type")
  \/ at[c] = "type" /\ SendFixed(c, "top")
  \/ at[c] = "top" /\ Neighbours(c, Heading, 1) /\ UNCHANGED r
  \/ at[c] = "neighbour" /\ Neighbours(c, <<>>, NextOf(nbr, NBRS)) /\ UNCHANGED r
  \/ at[c] = "neighbours" /\ Route(c, 1)
  \/ at[c] = "link" /\ SendBuf(c, "route", Via(r)) /\ UNCHANGED <<nbr, r>>
  \/ at[c] = "route" /\ Route(c, NextOf(r, ROUTES))
  \/ at[c] = "ending" /\ SendFixed(c, "bottom")
  \/ /\ at[c] = "bottom"
     /\ state' = [state EXCEPT ![c] = "closed"]
     /\ Idle(c)
     /\ UNCHANGED <<static, intact>>

------------------------------------------------------------------------------
(* The callbacks.                                                           *)

\* A new connection is given an element, or aborted if there is none.
Connect(c) ==
  /\ visitors
  /\ state[c] = "free"
  /\ state' = [state EXCEPT ![c] = "waiting"]
  /\ UNCHANGED <<psock, static, intact, received, visitors>>

\* handle_input(): "GET " and a name that begins with a slash.  The name is not
\* looked at: httpd_simple_get_script() always returns the one generator.
Request(c) ==
  /\ state[c] = "waiting"
  /\ state' = [state EXCEPT ![c] = "output"]
  /\ Send(c, "headers", buf, Len(Fixed.headers))
  /\ UNCHANGED <<static, received, intact, visitors>>

BadRequest(c) ==
  /\ state[c] = "waiting"
  /\ state' = [state EXCEPT ![c] = "closed"]
  /\ UNCHANGED <<psock, static, received, intact, visitors>>

\* The segment is acknowledged: the next one, or the generator goes on.
Acked(c) ==
  /\ state[c] = "output"
  /\ UNCHANGED visitors
  /\ IF sendlen[c] > MSS
     THEN /\ sendptr' = [sendptr EXCEPT ![c] = @ + MSS]
          /\ sendlen' = [sendlen EXCEPT ![c] = @ - MSS]
          /\ wire' = [wire EXCEPT ![c] =
                       Segment(at[c], buf, sendptr'[c], sendlen'[c])]
          /\ UNCHANGED <<state, at, static, intact>>
     ELSE Resume(c)
  /\ received' = [d \in Conns |-> IF ~intact'[d] THEN <<>>
                                 ELSE IF d = c THEN received[d] \o wire[d]
                                 ELSE received[d]]

\* uip_rexmit(): the segment was lost, not just its acknowledgement, and what is
\* sent now is what the memory holds now.
Rexmit(c) ==
  /\ state[c] = "output"
  /\ wire' = [wire EXCEPT ![c] = Segment(at[c], buf, sendptr[c], sendlen[c])]
  /\ UNCHANGED <<state, at, sendptr, sendlen, static, received, intact, visitors>>

\* The connection is over, or its poll timer has expired.
End(c) ==
  /\ state[c] # "free"
  /\ state' = [state EXCEPT ![c] = "free"]
  /\ Idle(c)
  /\ received' = [received EXCEPT ![c] = <<>>]
  /\ intact' = [intact EXCEPT ![c] = TRUE]
  /\ UNCHANGED <<static, visitors>>

\* The rest of a callback in which the length has wrapped.
Filling == \E c \in Conns : at[c] = "filling"
GoOn(c) ==
  /\ at[c] = "filling"
  /\ Neighbours(c, SubSeq(buf, 1, blen), NextOf(nbr, NBRS))
  /\ UNCHANGED <<r, received, visitors>>

NoMoreVisitors ==
  /\ visitors
  /\ visitors' = FALSE
  /\ UNCHANGED <<state, psock, static, received, intact>>

\* A callback is over before the next one begins.
Next ==
  \/ /\ ~Filling
     /\ \/ NoMoreVisitors
        \/ \E c \in Conns :
             \/ Connect(c) \/ Request(c) \/ BadRequest(c)
             \/ Acked(c) \/ Rexmit(c) \/ End(c)
  \/ \E c \in Conns : GoOn(c)

Spec == Init /\ [][Next]_vars

\* Peers acknowledge what they are sent, and a callback that has begun goes on.
Continue(c) == GoOn(c) \/ (~Filling /\ Acked(c))
FairSpec == Spec /\ \A c \in Conns : WF_vars(Continue(c))

------------------------------------------------------------------------------
TypeOK ==
  /\ state \in [Conns -> {"free", "waiting", "output", "closed"}]
  /\ at \in [Conns -> DOMAIN Fixed \union
               {"filling", "neighbour", "neighbours", "link", "route", "ending"}]
  /\ {sendptr, sendlen} \subseteq [Conns -> 0..BUF_SIZE]
  /\ blen \in 0..(BUF_SIZE - 1)
  /\ nbr \in 1..(NBRS + 1) /\ r \in 1..(ROUTES + 1)
  /\ ends \in Tables /\ overrun \in 0..NBRS
  /\ intact \in [Conns -> BOOLEAN] /\ visitors \in BOOLEAN

\* Whoever wrote last, and however the connections took turns, blen is the length
\* of the text in the buffer; and only a line that is longer than the margin kept
\* for it ever goes past the end of the buffer, where it wraps that length.
LengthOfText ==
  /\ blen = strlen(buf)
  /\ overrun # 0 => Size(overrun) >= Margin

\* A page whose generator had the static variables to itself, and whose lines did
\* not wrap the length, is received whole, in spite of retransmissions, and
\* whatever pages that were cut off before, or were generated before it first used
\* them, have left in them.
LonePageIsWhole ==
  \A c \in Conns : state[c] = "closed" /\ received[c] # <<>> /\ intact[c] =>
    received[c] = Page

\* Once no new connections come every page ends, though the iterators it uses
\* are moved and set back by others, and though lines wrap the length.
PageEnds ==
  \A c \in Conns : ~visitors /\ state[c] = "output" ~> state[c] # "output"
==============================================================================
