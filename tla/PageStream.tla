------------------------------ MODULE PageStream ------------------------------
(***************************************************************************)
(* How the web server of the demo sends a page (httpd-simple.c): the page  *)
(* generators are protothreads that hand their text, chunk by chunk, to    *)
(* enqueue_chunk(), which collects it in the buffer of the connection and  *)
(* blocks in PSOCK_SEND() while the peer has not acknowledged a full one.  *)
(*                                                                         *)
(* Each callback of a blocked connection runs the generator again from its *)
(* wait statement, and the inner protothread goes on where it was; a       *)
(* callback that brings no acknowledgement changes nothing here.           *)
(*                                                                         *)
(* A callback that is not blocked goes through many chunks; here each      *)
(* chunk is an action of its own.  That adds interleavings but no          *)
(* behaviour: the output of two connections shares no state.  A byte is    *)
(* the number of its chunk in the page and its position there.             *)
(*                                                                         *)
(* Chunks are formatted into a second buffer.  It is as large as the first *)
(* one, but the value of a form's field with its quotes escaped may be     *)
(* longer; what enqueue_chunk() then does is modelled as far as the next   *)
(* copy that leaves the connection's own memory.                           *)
(***************************************************************************)
EXTENDS Naturals, SequencesExt

CONSTANTS
  Conns,           \* pool elements
  Buf,             \* HTTPD_SIMPLE_MAIN_BUF_SIZE, and TMP_BUF_SIZE - 1
  LiteralLengths,  \* the lengths of the chunks that are constants,
  TextLengths,     \* of those made from an address, a number or a reading,
  ValueLengths,    \* and of those that show the value of a field of the form
  Entries,         \* the most entries of a table that a page shows
  Quoted, Plain    \* the fields of the MQTT form with and without quotes escaped

\* A constant and a short text fit the buffer.  A value need not: 32 characters,
\* most of them quotes, become 127, and with value="" around them 136, of 128.
ASSUME SizeAssumption ==
  /\ Buf \in Nat \ {0}
  /\ LiteralLengths \subseteq 0..Buf /\ TextLengths \subseteq 0..Buf
  /\ ValueLengths \subseteq Nat
  /\ Entries \in Nat /\ Quoted \in Nat /\ Plain \in Nat

------------------------------------------------------------------------------
(* The pages: what each chunk is made from.  Of several constants in a row, *)
(* and of the chunks of one entry of a table, there is one here; the others *)
(* repeat its step.  The last chunk of the headers and of a page is an      *)
(* "end": it is sent at once.                                               *)
Headers   == <<"literal", "end">>
TopMatter == <<"literal", "text">>

Page(body) == [chunks |-> Headers \o TopMatter \o body \o <<"end">>, string |-> FALSE]

\* The text of a refusal or of "not found" is sent from where it is.
Redirect == [chunks |-> Headers, string |-> FALSE]
Refusal  == [chunks |-> Headers, string |-> TRUE]

Table(n) == [i \in 1..n |-> "text"]

\* The neighbours, the default route, the routes, the readings, hits and uptime.
Index(neighbours, routes, readings) ==
  Page(<<"literal">> \o Table(neighbours) \o <<"literal", "text", "literal">>
         \o Table(routes) \o <<"literal">> \o Table(readings) \o <<"text">>)

\* The switches of the readings and the interval of the pings.
ConfigForm(readings) ==
  Page(<<"literal">> \o Table(readings) \o <<"literal", "text", "literal">>)

\* The fields, each with its label.
Fields(n, kind) == [i \in 1..(2 * n) |-> IF i % 2 = 0 THEN kind ELSE "literal"]
MqttForm == Page(Fields(Quoted, "value") \o Fields(Plain, "text") \o <<"literal">>)

Pages ==
  {Redirect, Refusal, MqttForm}
    \union {ConfigForm(d) : d \in 0..Entries}
    \union {Index(n, r, d) : n \in 0..Entries, r \in 0..Entries, d \in 0..Entries}

LengthsOf(kind) == CASE kind = "text"  -> TextLengths
                     [] kind = "value" -> ValueLengths
                     [] OTHER          -> LiteralLengths

Chunks(p) == Len(p.chunks)
Pieces(p) == Chunks(p) + IF p.string THEN 1 ELSE 0

VARIABLES
  at,        \* where a connection's output thread is
  page,      \* the page it is sending
  pc,        \* the piece it is at
  buf,       \* s->buf, up to s->blen
  rest,      \* the part of s->tmp_buf that did not fit
  sent,      \* what the peer has acknowledged
  text,      \* history: the text of the page so far
  spoilt,    \* history: connections with a chunk on their page longer than Buf
  halted     \* a copy of negative length has run through the memory

vars == <<at, page, pc, buf, rest, sent, text, spoilt, halted>>

\* "full" and "flush" are the two PSOCK_SEND()s of enqueue_chunk(), "string" is
\* that of send_string().
At == {"idle", "run", "full", "flush", "string", "closing"}

Init ==
  /\ at = [s \in Conns |-> "idle"]
  /\ page = [s \in Conns |-> Redirect]
  /\ pc = [s \in Conns |-> 1]
  /\ buf = [s \in Conns |-> <<>>]
  /\ rest = [s \in Conns |-> <<>>]
  /\ sent = [s \in Conns |-> <<>>]
  /\ text = [s \in Conns |-> <<>>]
  /\ spoilt = {}
  /\ halted = FALSE

------------------------------------------------------------------------------
\* Is there room for the whole chunk?
Fits_IgnoresBlen(b, n) == n < Buf
Fits(b, n) == Len(b) + n < Buf

\* What is left of the chunk once the buffer is full.
Spill_Lost(b, c) == <<>>
Spill(b, c) == SubSeq(c, Buf - Len(b) + 1, Len(c))

\* The chunks that end the headers and the page are sent at once.
Immediate(s) == page[s].chunks[pc[s]] = "end"

\* The chunk is in the buffer, which is sent at once if need be and if there is
\* anything in it; otherwise go on with the next chunk.
ChunkDone(s, b) ==
  /\ buf' = [buf EXCEPT ![s] = b]
  /\ IF Immediate(s) /\ b # <<>>
     THEN /\ at' = [at EXCEPT ![s] = "flush"]
          /\ UNCHANGED pc
     ELSE /\ at' = [at EXCEPT ![s] = "run"]
          /\ pc' = [pc EXCEPT ![s] = @ + 1]

\* A request has been read: the generator starts.
Start(s) ==
  /\ at[s] = "idle"
  /\ at' = [at EXCEPT ![s] = "run"]
  /\ \E p \in Pages : page' = [page EXCEPT ![s] = p]
  /\ UNCHANGED <<pc, buf, rest, sent, text, spoilt, halted>>

\* vsnprintf() returns the length of the whole chunk, but writes no more of it than
\* the buffer holds.  Behind that is the terminating zero, and what comes next.
Formatted(i, n) == [k \in 1..n |-> IF k <= Buf THEN <<i, k>> ELSE <<0, k>>]

Enqueue(s) ==
  /\ at[s] = "run" /\ pc[s] <= Chunks(page[s])
  /\ Len(buf[s]) <= Buf
  /\ \E n \in LengthsOf(page[s].chunks[pc[s]]) :
       LET chunk == Formatted(pc[s], n)
       IN /\ text' = [text EXCEPT ![s] = @ \o [k \in 1..n |-> <<pc[s], k>>]]
          /\ spoilt' = IF n > Buf THEN spoilt \union {s} ELSE spoilt
          /\ IF Fits(buf[s], n)
             THEN /\ ChunkDone(s, buf[s] \o chunk)
                  /\ UNCHANGED rest
             ELSE /\ buf' = [buf EXCEPT ![s] = @ \o SubSeq(chunk, 1, Buf - Len(@))]
                  /\ rest' = [rest EXCEPT ![s] = Spill(buf[s], chunk)]
                  /\ at' = [at EXCEPT ![s] = "full"]
                  /\ UNCHANGED pc
  /\ UNCHANGED <<page, sent, halted>>

\* With more in the buffer than it has room for, the length of the next copy is
\* negative and is taken for a size_t.
Overrun(s) ==
  /\ at[s] = "run" /\ pc[s] <= Chunks(page[s])
  /\ Len(buf[s]) > Buf
  /\ halted' = TRUE
  /\ UNCHANGED <<at, page, pc, buf, rest, sent, text, spoilt>>

\* The buffer is acknowledged; the rest of the chunk moves into it, and over its
\* end if there is more of it than the buffer holds.
AckFull(s) ==
  /\ at[s] = "full"
  /\ sent' = [sent EXCEPT ![s] = @ \o buf[s]]
  /\ ChunkDone(s, rest[s])
  /\ rest' = [rest EXCEPT ![s] = <<>>]
  /\ UNCHANGED <<page, text, spoilt, halted>>

AckFlush(s) ==
  /\ at[s] = "flush"
  /\ sent' = [sent EXCEPT ![s] = @ \o buf[s]]
  /\ buf' = [buf EXCEPT ![s] = <<>>]
  /\ at' = [at EXCEPT ![s] = "run"]
  /\ pc' = [pc EXCEPT ![s] = @ + 1]
  /\ UNCHANGED <<page, rest, text, spoilt, halted>>

\* send_string(): past the buffer, which is empty after the headers.
String(s) == << <<pc[s], 1>> >>

SendString(s) ==
  /\ at[s] = "run" /\ pc[s] > Chunks(page[s]) /\ pc[s] <= Pieces(page[s])
  /\ at' = [at EXCEPT ![s] = "string"]
  /\ text' = [text EXCEPT ![s] = @ \o String(s)]
  /\ UNCHANGED <<page, pc, buf, rest, sent, spoilt, halted>>

AckString(s) ==
  /\ at[s] = "string"
  /\ sent' = [sent EXCEPT ![s] = @ \o String(s)]
  /\ at' = [at EXCEPT ![s] = "run"]
  /\ pc' = [pc EXCEPT ![s] = @ + 1]
  /\ UNCHANGED <<page, buf, rest, text, spoilt, halted>>

\* The page is complete: PSOCK_CLOSE().
Close(s) ==
  /\ at[s] = "run" /\ pc[s] > Pieces(page[s])
  /\ at' = [at EXCEPT ![s] = "closing"]
  /\ UNCHANGED <<page, pc, buf, rest, sent, text, spoilt, halted>>

\* The connection is over, or has timed out: its state is zeroed and the pool
\* element is free for the next one.
Zeroed_Freed(f, s) == f
Zeroed(f, s) == [f EXCEPT ![s] = <<>>]

End(s) ==
  /\ at[s] # "idle"
  /\ at' = [at EXCEPT ![s] = "idle"]
  /\ page' = [page EXCEPT ![s] = Redirect]
  /\ pc' = [pc EXCEPT ![s] = 1]
  /\ buf' = Zeroed(buf, s)
  /\ rest' = [rest EXCEPT ![s] = <<>>]
  /\ sent' = [sent EXCEPT ![s] = <<>>]
  /\ text' = [text EXCEPT ![s] = <<>>]
  /\ spoilt' = spoilt \ {s}
  /\ UNCHANGED halted

Next ==
  /\ ~ halted
  /\ \E s \in Conns :
       \/ Start(s) \/ Enqueue(s) \/ Overrun(s) \/ AckFull(s) \/ AckFlush(s)
       \/ SendString(s) \/ AckString(s) \/ Close(s) \/ End(s)

Spec == Init /\ [][Next]_vars

------------------------------------------------------------------------------
TypeOK ==
  /\ at \in [Conns -> At]
  /\ page \in [Conns -> Pages]
  /\ \A s \in Conns : pc[s] \in 1..(Pieces(page[s]) + 1)
  /\ spoilt \subseteq Conns /\ halted \in BOOLEAN

\* Both memcpy()s of enqueue_chunk() stay inside their buffers on every page whose
\* chunks all fit one: a generator that runs always finds room in the buffer, and
\* what is left of a chunk does not fill the next one.  And it takes a page with a
\* longer chunk, still being sent, for a copy to run through the memory.
RoomInBuffer ==
  /\ \A s \in Conns \ spoilt :
       /\ at[s] = "run" => Len(buf[s]) < Buf
       /\ Len(rest[s]) < Buf
       /\ at[s] = "full" => Len(buf[s]) = Buf
  /\ halted => \E s \in spoilt : at[s] = "run" /\ pc[s] <= Chunks(page[s])

\* The bytes of such a page are in exactly one place, in order: with the peer, in
\* the buffer, or in the rest of a chunk; a string is sent when there are no others.
TextAccountedFor ==
  \A s \in Conns \ spoilt :
    IF at[s] = "string"
    THEN buf[s] = <<>> /\ rest[s] = <<>> /\ text[s] = sent[s] \o String(s)
    ELSE text[s] = sent[s] \o buf[s] \o rest[s]

\* The peer receives the page that was generated, all of it, and nothing else, as
\* long as no chunk of it is longer than the buffer: the page with such a chunk
\* counts as given up there, whatever its peer is sent.  The pages of the other
\* connections, and the next one of this, do not suffer unless the device halts.
Sending == {s \in Conns \ spoilt : at[s] \in {"run", "full", "flush", "string"}}
Sound(f) == [s \in Conns |-> IF s \in spoilt THEN <<>> ELSE f[s]]

Stream == INSTANCE OutputStream
  WITH open <- Sending, produced <- Sound(text), delivered <- Sound(sent)
SendsThePage == Stream!Spec
==============================================================================
