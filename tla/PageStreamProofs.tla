--------------------------- MODULE PageStreamProofs ---------------------------
(***************************************************************************)
(* Proofs about PageStream, for every size of the buffer, every set of     *)
(* connections, pages of any number of entries and fields, and chunks of   *)
(* any length, longer than the buffer if they show a value.                *)
(***************************************************************************)
EXTENDS PageStream, SequenceTheorems, TLAPS

\* A byte is named by its piece of the page and its position there.
Bytes == Nat \X Nat
Text  == Seq(Bytes)

Typed ==
  /\ at \in [Conns -> At] /\ page \in [Conns -> Pages] /\ pc \in [Conns -> Nat]
  /\ buf \in [Conns -> Text] /\ rest \in [Conns -> Text]
  /\ sent \in [Conns -> Text] /\ text \in [Conns -> Text]
  /\ spoilt \subseteq Conns /\ halted \in BOOLEAN

\* Where the output thread of a connection can be, given the piece it is at.
PieceOK(s) ==
  /\ pc[s] \in 1..(Pieces(page[s]) + 1)
  /\ at[s] \in {"full", "flush"} => pc[s] <= Chunks(page[s])
  /\ at[s] = "string" => pc[s] <= Pieces(page[s])
  /\ at[s] = "idle" => pc[s] = 1 /\ s \notin spoilt

\* What is in the buffer, and that nothing is left in it after the last chunk: this
\* and what follows of a page without a chunk that is too long.
BufferOK(s) ==
  /\ Len(buf[s]) <= Buf /\ Len(rest[s]) < Buf
  /\ at[s] = "run" => Len(buf[s]) < Buf
  /\ at[s] = "full" => Len(buf[s]) = Buf
  /\ at[s] # "full" => rest[s] = <<>>
  /\ at[s] \in {"run", "string"} /\ pc[s] > Chunks(page[s]) => buf[s] = <<>>
  /\ at[s] = "string" => pc[s] > Chunks(page[s])
  /\ at[s] = "idle" => buf[s] = <<>>

TextOK(s) ==
  /\ text[s] = IF at[s] = "string" THEN sent[s] \o String(s)
               ELSE (sent[s] \o buf[s]) \o rest[s]
  /\ at[s] = "idle" => sent[s] = <<>>

Good(s) == PieceOK(s) /\ (s \notin spoilt => BufferOK(s) /\ TextOK(s))

IInv == Typed /\ \A s \in Conns : Good(s)

\* The connection whose page has halted the device is still at it.
HaltOK == halted => \E s \in spoilt : at[s] = "run" /\ pc[s] <= Chunks(page[s])

\* Only connection s is concerned.
Others(s) ==
  \A t \in Conns \ {s} :
    /\ at'[t] = at[t] /\ page'[t] = page[t] /\ pc'[t] = pc[t]
    /\ buf'[t] = buf[t] /\ rest'[t] = rest[t]
    /\ sent'[t] = sent[t] /\ text'[t] = text[t]
    /\ t \in spoilt' <=> t \in spoilt

------------------------------------------------------------------------------
(* The pages.                                                               *)

Kinds == {"literal", "text", "value", "end"}

\* The parts that pages are put together from are sequences of kinds.
LEMMA Parts ==
  /\ Headers \in Seq(Kinds) /\ TopMatter \in Seq(Kinds) /\ <<"literal">> \in Seq(Kinds)
  /\ <<"text">> \in Seq(Kinds) /\ <<"literal", "text", "literal">> \in Seq(Kinds)
  /\ \A n \in Nat : Table(n) \in Seq(Kinds)
  /\ \A n \in Nat, k \in Kinds : Fields(n, k) \in Seq(Kinds)
<1>1. /\ Headers \in Seq(Kinds) /\ TopMatter \in Seq(Kinds) /\ <<"literal">> \in Seq(Kinds)
      /\ <<"text">> \in Seq(Kinds) /\ <<"literal", "text", "literal">> \in Seq(Kinds)
  BY DEF Headers, TopMatter, Kinds
<1>2. ASSUME NEW n \in Nat PROVE Table(n) \in Seq(Kinds)
  <2>1. Table(n) \in [1..n -> Kinds]
    BY DEF Table, Kinds
  <2>2. QED
    BY <2>1, SeqDef
<1>3. ASSUME NEW n \in Nat, NEW k \in Kinds PROVE Fields(n, k) \in Seq(Kinds)
  <2>1. Fields(n, k) \in [1..(2 * n) -> Kinds] /\ 2 * n \in Nat
    BY DEF Fields, Kinds
  <2>2. QED
    BY <2>1, SeqDef
<1>4. QED
  BY <1>1, <1>2, <1>3

\* A page ends with a chunk that is sent at once, whatever its body.
LEMMA PageEnds ==
  ASSUME NEW b \in Seq(Kinds)
  PROVE  /\ Len(Page(b).chunks) \in Nat \ {0}
         /\ Page(b).chunks[Len(Page(b).chunks)] = "end"
         /\ Page(b).string = FALSE
<1>1. PICK a \in Seq(Kinds) : a = Headers \o TopMatter \o b
  <2>1. Headers \o TopMatter \in Seq(Kinds)
    BY Parts, ConcatProperties
  <2>2. QED
    BY <2>1, ConcatProperties
<1>2. Page(b).chunks = a \o <<"end">> /\ Page(b).string = FALSE
  BY <1>1 DEF Page
<1>3. PICK n \in Nat : n = Len(a)
  BY LenProperties
<1>4. Len(a \o <<"end">>) = n + 1 /\ (a \o <<"end">>)[n + 1] = "end"
  BY <1>3
<1>5. QED
  BY <1>2, <1>4

\* So does each of them; and one piece more may follow.
LEMMA PageNumbers ==
  ASSUME NEW p \in Pages
  PROVE  /\ Chunks(p) \in Nat \ {0} /\ Pieces(p) \in {Chunks(p), Chunks(p) + 1}
         /\ p.chunks[Chunks(p)] = "end"
<1>1. SUFFICES Len(p.chunks) \in Nat \ {0} /\ p.chunks[Len(p.chunks)] = "end"
  <2>1. Pieces(p) = Chunks(p) + 1 \/ Pieces(p) = Chunks(p) + 0
    BY Zenon DEF Pieces
  <2>2. QED
    BY <2>1 DEF Chunks
<1>2. CASE p \in {Redirect, Refusal}
  <2>1. p.chunks = <<"literal", "end">>
    BY <1>2 DEF Redirect, Refusal, Headers
  <2>2. QED
    BY <2>1
<1>3. CASE p = MqttForm
  <2>1. "text" \in Kinds /\ "value" \in Kinds
    BY DEF Kinds
  <2>2. Fields(Quoted, "value") \in Seq(Kinds) /\ Fields(Plain, "text") \in Seq(Kinds)
    BY <2>1, Parts, SizeAssumption
  <2>3. Fields(Quoted, "value") \o Fields(Plain, "text") \in Seq(Kinds)
    BY <2>2, ConcatProperties
  <2>4. Fields(Quoted, "value") \o Fields(Plain, "text") \o <<"literal">> \in Seq(Kinds)
    BY <2>3, Parts, ConcatProperties
  <2>5. QED
    BY <1>3, <2>4, PageEnds DEF MqttForm
<1>4. CASE \E d \in 0..Entries : p = ConfigForm(d)
  <2>1. PICK d \in Nat : p = ConfigForm(d)
    BY <1>4, SizeAssumption
  <2>2. <<"literal">> \o Table(d) \in Seq(Kinds)
    BY Parts, ConcatProperties
  <2>3. <<"literal">> \o Table(d) \o <<"literal", "text", "literal">> \in Seq(Kinds)
    BY <2>2, Parts, ConcatProperties
  <2>4. QED
    BY <2>1, <2>3, PageEnds DEF ConfigForm
<1>5. CASE \E n \in 0..Entries, r \in 0..Entries, d \in 0..Entries : p = Index(n, r, d)
  <2>1. PICK n \in Nat, r \in Nat, d \in Nat : p = Index(n, r, d)
    BY <1>5, SizeAssumption
  <2>2. PICK b1 \in Seq(Kinds) : b1 = <<"literal">> \o Table(n)
    BY Parts, ConcatProperties
  <2>3. PICK b2 \in Seq(Kinds) : b2 = b1 \o <<"literal", "text", "literal">>
    BY Parts, ConcatProperties
  <2>4. PICK b3 \in Seq(Kinds) : b3 = b2 \o Table(r)
    BY Parts, ConcatProperties
  <2>5. PICK b4 \in Seq(Kinds) : b4 = b3 \o <<"literal">>
    BY Parts, ConcatProperties
  <2>6. PICK b5 \in Seq(Kinds) : b5 = b4 \o Table(d)
    BY Parts, ConcatProperties
  <2>7. b5 \o <<"text">> \in Seq(Kinds)
    BY Parts, ConcatProperties
  <2>8. p = Page(b5 \o <<"text">>)
    BY <2>1, <2>2, <2>3, <2>4, <2>5, <2>6, Zenon DEF Index
  <2>9. QED
    BY <2>7, <2>8, PageEnds
<1>6. QED
  BY <1>2, <1>3, <1>4, <1>5 DEF Pages

\* What the chunks are made from has lengths that are numbers.
LEMMA LengthTypes == ASSUME NEW k PROVE LengthsOf(k) \subseteq Nat
BY SizeAssumption DEF LengthsOf

LEMMA EmptyText == <<>> \in Text /\ Len(<<>>) = 0
BY EmptySeq DEF Text

\* A piece of text that goes through the buffer arrives where it would without.
LEMMA Through ==
  ASSUME NEW a \in Text, NEW b \in Text, NEW c \in Text
  PROVE  /\ ((a \o b) \o <<>>) \o c = (a \o (b \o c)) \o <<>>
         /\ (a \o b) \o <<>> = a \o b
         /\ (a \o b) \o c = ((a \o b) \o c) \o <<>>
<1>1. a \o b \in Text /\ (a \o b) \o c \in Text /\ b \o c \in Text
      /\ a \o (b \o c) \in Text
  BY ConcatProperties DEF Text
<1>2. (a \o b) \o <<>> = a \o b /\ ((a \o b) \o c) \o <<>> = (a \o b) \o c
      /\ (a \o (b \o c)) \o <<>> = a \o (b \o c)
  BY <1>1, ConcatEmptySeq DEF Text
<1>3. (a \o b) \o c = a \o (b \o c)
  BY ConcatAssociative DEF Text
<1>4. QED
  BY <1>2, <1>3

LEMMA Assoc ==
  ASSUME NEW a \in Text, NEW b \in Text, NEW c \in Text
  PROVE  (a \o b) \o c = a \o (b \o c)
BY ConcatAssociative DEF Text

\* The two parts of a chunk that does not fit.
LEMMA Split ==
  ASSUME NEW c \in Text, NEW k \in 0..Len(c)
  PROVE  /\ SubSeq(c, 1, k) \in Text /\ Len(SubSeq(c, 1, k)) = k
         /\ SubSeq(c, k + 1, Len(c)) \in Text
         /\ Len(SubSeq(c, k + 1, Len(c))) = Len(c) - k
         /\ SubSeq(c, 1, k) \o SubSeq(c, k + 1, Len(c)) = c
<1>1. Len(c) \in Nat /\ \A i \in 1..Len(c) : c[i] \in Bytes
  BY LenProperties, ElementOfSeq DEF Text
<1>2. SubSeq(c, 1, k) \in Text /\ Len(SubSeq(c, 1, k)) = k
  <2>1. \A i \in 1..k : c[i] \in Bytes
    BY <1>1
  <2>2. QED
    BY <1>1, <2>1, SubSeqProperties DEF Text
<1>3. /\ SubSeq(c, k + 1, Len(c)) \in Text
      /\ Len(SubSeq(c, k + 1, Len(c))) = Len(c) - k
  <2>1. \A i \in (k + 1)..Len(c) : c[i] \in Bytes
    BY <1>1
  <2>2. QED
    BY <1>1, <2>1, SubSeqProperties DEF Text
<1>4. SubSeq(c, 1, k) \o SubSeq(c, k + 1, Len(c)) = SubSeq(c, 1, Len(c))
  <2>1. c \in Seq(Bytes) /\ 1 \in 1..(Len(c) + 1) /\ k \in (1 - 1)..Len(c)
        /\ Len(c) \in k..Len(c)
    BY <1>1 DEF Text
  <2>2. QED
    BY <2>1, ConcatAdjacentSubSeq, Zenon
<1>5. SubSeq(c, 1, Len(c)) = c
  BY SubSeqFull DEF Text
<1>6. QED
  BY <1>2, <1>3, <1>4, <1>5

\* A chunk, and what becomes of it in a buffer that has room but not enough.
LEMMA ChunkType ==
  ASSUME NEW p \in Nat, NEW n \in Nat
  PROVE  /\ [k \in 1..n |-> <<p, k>>] \in Text
         /\ Len([k \in 1..n |-> <<p, k>>]) = n
         /\ Formatted(p, n) \in Text /\ Len(Formatted(p, n)) = n
         /\ n <= Buf => Formatted(p, n) = [k \in 1..n |-> <<p, k>>]
<1>1. /\ [k \in 1..n |-> <<p, k>>] \in [1..n -> Bytes]
      /\ Formatted(p, n) \in [1..n -> Bytes]
  BY DEF Bytes, Formatted
<1>2. ASSUME n <= Buf PROVE Formatted(p, n) = [k \in 1..n |-> <<p, k>>]
  <2>1. \A k \in 1..n : k <= Buf
    BY <1>2, SizeAssumption
  <2>2. QED
    BY <2>1 DEF Formatted
<1>3. QED
  BY <1>1, <1>2, SeqDef DEF Text

LEMMA Overflow ==
  ASSUME NEW b \in Text, Len(b) < Buf, NEW c \in Text, Len(c) <= Buf,
         ~ Fits(b, Len(c))
  PROVE  LET part == SubSeq(c, 1, Buf - Len(b))
         IN /\ part \in Text /\ Spill(b, c) \in Text
            /\ b \o part \in Text /\ Len(b \o part) = Buf
            /\ Len(Spill(b, c)) < Buf
            /\ part \o Spill(b, c) = c
<1> DEFINE k == Buf - Len(b)
           part == SubSeq(c, 1, k)
<1>1. Len(b) \in Nat /\ Len(c) \in Nat /\ Buf \in Nat
  BY LenProperties, SizeAssumption DEF Text
<1>2. k \in 0..Len(c) /\ k > 0
  BY <1>1 DEF Fits
<1>3. /\ part \in Text /\ Len(part) = k
      /\ Spill(b, c) \in Text /\ Len(Spill(b, c)) = Len(c) - k
      /\ part \o Spill(b, c) = c
  BY <1>2, Split DEF Spill
<1>4. b \o part \in Text /\ Len(b \o part) = Len(b) + Len(part)
  BY <1>3, ConcatProperties DEF Text
<1>5. QED
  BY <1>1, <1>2, <1>3, <1>4

\* Whatever the length of the chunk, both parts are texts.
LEMMA OverflowType ==
  ASSUME NEW b \in Text, Len(b) <= Buf, NEW c \in Text, ~ Fits(b, Len(c))
  PROVE  b \o SubSeq(c, 1, Buf - Len(b)) \in Text /\ Spill(b, c) \in Text
<1> DEFINE k == Buf - Len(b)
<1>1. Len(b) \in Nat /\ Len(c) \in Nat /\ Buf \in Nat
  BY LenProperties, SizeAssumption DEF Text
<1>2. k \in 0..Len(c)
  BY <1>1 DEF Fits
<1>3. SubSeq(c, 1, k) \in Text /\ Spill(b, c) \in Text
  BY <1>2, Split DEF Spill
<1>4. QED
  BY <1>3, ConcatProperties DEF Text

------------------------------------------------------------------------------
\* A step of one connection leaves the others as they are.
LEMMA OneConnection ==
  ASSUME IInv, NEW s \in Conns, Typed', Good(s)', Others(s)
  PROVE  IInv'
<1>1. ASSUME NEW t \in Conns \ {s} PROVE Good(t)'
  <2>1. Good(t)
    BY DEF IInv
  <2>2. QED
    BY <2>1 DEF Others, Good, PieceOK, BufferOK, TextOK, String
<1>2. QED
  BY <1>1 DEF IInv

LEMMA InitInv == Init => IInv
<1> SUFFICES ASSUME Init PROVE IInv
  OBVIOUS
<1>1. Typed
  <2>1. Redirect \in Pages
    BY DEF Pages
  <2>2. QED
    BY <2>1, EmptyText DEF Init, Typed, At
<1>2. ASSUME NEW s \in Conns PROVE Good(s)
  <2>1. PieceOK(s)
    <3>1. Pieces(page[s]) \in Nat /\ Pieces(page[s]) # 0
      BY <1>1, PageNumbers DEF Typed
    <3>2. QED
      BY <3>1 DEF Init, PieceOK
  <2>2. BufferOK(s)
    BY <1>1, EmptyText, SizeAssumption, PageNumbers DEF Init, BufferOK, Typed
  <2>3. TextOK(s)
    BY EmptyText, ConcatEmptySeq DEF Init, TextOK, Text
  <2>4. QED
    BY <2>1, <2>2, <2>3 DEF Good
<1>3. QED
  BY <1>1, <1>2 DEF IInv

LEMMA PieceTypes ==
  ASSUME IInv, NEW s \in Conns
  PROVE  /\ pc[s] \in Nat /\ pc[s] >= 1 /\ page[s] \in Pages
         /\ Chunks(page[s]) \in Nat /\ Pieces(page[s]) \in Nat
         /\ Chunks(page[s]) <= Pieces(page[s])
         /\ page[s].chunks[Chunks(page[s])] = "end"
<1>1. page[s] \in Pages /\ pc[s] \in Nat
  BY DEF IInv, Typed
<1>2. /\ Chunks(page[s]) \in Nat /\ Pieces(page[s]) \in Nat
      /\ Chunks(page[s]) <= Pieces(page[s])
  <2>1. Chunks(page[s]) \in Nat \ {0} /\ Pieces(page[s]) \in {Chunks(page[s]), Chunks(page[s]) + 1}
    BY <1>1, PageNumbers
  <2>2. QED
    BY <2>1
<1>3. pc[s] >= 1
  BY <1>1, <1>2 DEF IInv, Good, PieceOK
<1>4. QED
  BY <1>1, <1>2, <1>3, PageNumbers

\* What the end of enqueue_chunk() leaves: the text t is in the buffer or, if
\* there is none of it, dealt with.
LEMMA DoneInv ==
  ASSUME IInv, NEW s \in Conns, NEW b \in Text, UNCHANGED halted,
         spoilt' = spoilt \/ spoilt' = spoilt \union {s},
         at[s] \in {"run", "full"}, pc[s] <= Chunks(page[s]),
         ChunkDone(s, b), page' = page,
         rest' = rest \/ rest' = [rest EXCEPT ![s] = <<>>],
         sent' \in [Conns -> Text], text' \in [Conns -> Text],
         \A t \in Conns \ {s} : sent'[t] = sent[t] /\ text'[t] = text[t],
         s \notin spoilt' => /\ Len(b) < Buf /\ rest'[s] = <<>>
                              /\ text'[s] = (sent'[s] \o b) \o <<>>
  PROVE  IInv'
<1>1. /\ pc[s] \in Nat /\ pc[s] >= 1 /\ page[s] \in Pages
      /\ Chunks(page[s]) \in Nat /\ Pieces(page[s]) \in Nat
      /\ Chunks(page[s]) <= Pieces(page[s])
      /\ page[s].chunks[Chunks(page[s])] = "end"
  BY PieceTypes
<1>2. Len(b) \in Nat /\ Buf \in Nat \ {0}
  BY LenProperties, SizeAssumption DEF Text
<1>3. buf'[s] = b /\ page'[s] = page[s]
  BY DEF ChunkDone, IInv, Typed
<1>4. \/ at'[s] = "flush" /\ pc'[s] = pc[s] /\ UNCHANGED pc
         /\ at' = [at EXCEPT ![s] = "flush"]
      \/ at'[s] = "run" /\ pc'[s] = pc[s] + 1 /\ (pc[s] = Chunks(page[s]) => b = <<>>)
         /\ at' = [at EXCEPT ![s] = "run"] /\ pc' = [pc EXCEPT ![s] = @ + 1]
  BY <1>1 DEF ChunkDone, Immediate, IInv, Typed
<1>5. Typed'
  <2>1. at' \in [Conns -> At] /\ pc' \in [Conns -> Nat]
    <3>1. at \in [Conns -> At] /\ pc \in [Conns -> Nat] /\ pc[s] + 1 \in Nat
      BY <1>1 DEF IInv, Typed
    <3>2. at' \in {[at EXCEPT ![s] = "flush"], [at EXCEPT ![s] = "run"]}
      BY <1>4
    <3>3. at' \in [Conns -> At]
      BY <3>1, <3>2 DEF At
    <3>4. pc' \in [Conns -> Nat]
      BY <1>4, <3>1
    <3>5. QED
      BY <3>3, <3>4
  <2>2. /\ buf' \in [Conns -> Text] /\ rest' \in [Conns -> Text]
        /\ spoilt' \subseteq Conns
    <3>1. buf' \in [Conns -> Text]
      BY DEF ChunkDone, IInv, Typed
    <3>2. rest' \in [Conns -> Text]
      BY EmptyText DEF IInv, Typed
    <3>3. spoilt' \subseteq Conns
      BY DEF IInv, Typed
    <3>4. QED
      BY <3>1, <3>2, <3>3
  <2>3. QED
    BY <2>1, <2>2 DEF IInv, Typed
<1>6. Others(s)
  <2>1. \A t \in Conns \ {s} : at'[t] = at[t] /\ pc'[t] = pc[t]
    BY <1>4 DEF IInv, Typed
  <2>2. \A t \in Conns \ {s} : page'[t] = page[t] /\ buf'[t] = buf[t] /\ rest'[t] = rest[t]
    BY DEF ChunkDone, IInv, Typed
  <2>3. QED
    BY <2>1, <2>2 DEF Others
<1>7. PieceOK(s)'
  BY <1>1, <1>3, <1>4 DEF PieceOK
<1>8. ASSUME s \notin spoilt' PROVE BufferOK(s)'
  BY <1>1, <1>2, <1>3, <1>4, <1>8, EmptyText DEF BufferOK
<1>9. ASSUME s \notin spoilt' PROVE TextOK(s)'
  BY <1>3, <1>4, <1>9 DEF TextOK
<1>10. QED
  BY <1>5, <1>6, <1>7, <1>8, <1>9, OneConnection DEF Good

------------------------------------------------------------------------------
(* One lemma per action.                                                    *)

LEMMA StartInv == ASSUME IInv, NEW s \in Conns, Start(s) PROVE IInv'
<1>1. PICK p \in Pages : page' = [page EXCEPT ![s] = p]
  BY DEF Start
<1>2. Chunks(p) \in Nat \ {0} /\ Pieces(p) \in {Chunks(p), Chunks(p) + 1}
  BY PageNumbers
<1>3. Typed'
  BY <1>1 DEF Start, IInv, Typed, At
<1>4. Others(s)
  BY <1>1 DEF Start, Others, IInv, Typed
<1>5. /\ at'[s] = "run" /\ pc'[s] = pc[s] /\ page'[s] = p /\ buf'[s] = buf[s]
      /\ rest'[s] = rest[s] /\ sent'[s] = sent[s] /\ text'[s] = text[s]
      /\ spoilt' = spoilt /\ s \notin spoilt
  BY <1>1 DEF Start, IInv, Typed, Good, PieceOK
<1>6. PieceOK(s)' /\ BufferOK(s)'
  BY <1>2, <1>5, EmptyText, SizeAssumption
     DEF Start, IInv, Good, PieceOK, BufferOK
<1>7. TextOK(s)'
  BY <1>5 DEF Start, IInv, Good, TextOK
<1>8. QED
  BY <1>3, <1>4, <1>6, <1>7, OneConnection DEF Good

LEMMA EnqueueInv == ASSUME IInv, NEW s \in Conns, Enqueue(s) PROVE IInv'
<1> DEFINE chunk(n) == Formatted(pc[s], n)
           meant(n) == [k \in 1..n |-> <<pc[s], k>>]
<1>1. PICK n \in LengthsOf(page[s].chunks[pc[s]]) :
        /\ text' = [text EXCEPT ![s] = @ \o meant(n)]
        /\ spoilt' = IF n > Buf THEN spoilt \union {s} ELSE spoilt
        /\ IF Fits(buf[s], n)
           THEN /\ ChunkDone(s, buf[s] \o chunk(n))
                /\ UNCHANGED rest
           ELSE /\ buf' = [buf EXCEPT ![s] = @ \o SubSeq(chunk(n), 1, Buf - Len(@))]
                /\ rest' = [rest EXCEPT ![s] = Spill(buf[s], chunk(n))]
                /\ at' = [at EXCEPT ![s] = "full"]
                /\ UNCHANGED pc
  BY DEF Enqueue
<1> DEFINE c == chunk(n)
           m == meant(n)
<1>2. n \in Nat /\ Buf \in Nat \ {0}
  BY SizeAssumption, LengthTypes
<1>3. c \in Text /\ Len(c) = n /\ m \in Text /\ (n <= Buf => m = c)
  BY <1>2, PieceTypes, ChunkType
<1> HIDE DEF c, m
<1>4. /\ at[s] = "run" /\ pc[s] <= Chunks(page[s]) /\ page' = page /\ sent' = sent
      /\ buf[s] \in Text /\ sent[s] \in Text /\ text[s] \in Text
      /\ Len(buf[s]) <= Buf /\ rest \in [Conns -> Text] /\ UNCHANGED halted
      /\ spoilt \subseteq Conns
  BY DEF Enqueue, IInv, Typed
<1>5. ASSUME s \notin spoilt'
      PROVE  /\ text[s] = (sent[s] \o buf[s]) \o <<>>
             /\ Len(buf[s]) < Buf /\ rest[s] = <<>> /\ n <= Buf /\ m = c
  <2>1. s \notin spoilt /\ n <= Buf
    BY <1>1, <1>2, <1>5
  <2>2. QED
    BY <1>3, <1>4, <2>1 DEF IInv, Good, BufferOK, TextOK
<1>6. ASSUME s \notin spoilt'
      PROVE  text'[s] = (sent[s] \o (buf[s] \o c)) \o <<>>
  <2>1. text'[s] = text[s] \o c
    BY <1>1, <1>5, <1>6 DEF IInv, Typed, m
  <2>2. sent[s] \in Text /\ buf[s] \in Text /\ c \in Text
    BY <1>3, <1>4
  <2>3. ((sent[s] \o buf[s]) \o <<>>) \o c = (sent[s] \o (buf[s] \o c)) \o <<>>
    BY <2>2, Through, ZenonT(40)
  <2>4. QED
    BY <1>5, <1>6, <2>1, <2>3
<1>7. text' \in [Conns -> Text] /\ sent' \in [Conns -> Text]
      /\ \A t \in Conns \ {s} : sent'[t] = sent[t] /\ text'[t] = text[t]
  <2>1. text[s] \o m \in Text
    BY <1>3, <1>4, ConcatProperties DEF Text
  <2>2. QED
    BY <1>1, <1>4, <2>1 DEF IInv, Typed, m
<1>8. CASE Fits(buf[s], n)
  <2>1. buf[s] \o c \in Text /\ Len(buf[s] \o c) < Buf
    BY <1>3, <1>4, <1>8, ConcatProperties DEF Text, Fits
  <2>2. rest' = rest
    BY <1>1, <1>8
  <2>3. ChunkDone(s, buf[s] \o c)
    BY <1>1, <1>8 DEF c
  <2>4. s \notin spoilt' => /\ Len(buf[s] \o c) < Buf /\ rest'[s] = <<>>
                           /\ text'[s] = (sent'[s] \o (buf[s] \o c)) \o <<>>
    BY <1>4, <1>5, <1>6, <2>1, <2>2
  <2>5. spoilt' = spoilt \/ spoilt' = spoilt \union {s}
    BY <1>1
  <2>6. QED
    BY <1>4, <1>7, <2>1, <2>2, <2>3, <2>4, <2>5, DoneInv
<1>9. CASE ~ Fits(buf[s], n)
  <2>0. buf[s] \o SubSeq(c, 1, Buf - Len(buf[s])) \in Text /\ Spill(buf[s], c) \in Text
    BY <1>2, <1>3, <1>4, <1>9, OverflowType
  <2>10. ASSUME s \notin spoilt'
         PROVE  /\ SubSeq(c, 1, Buf - Len(buf[s])) \in Text
                /\ Len(buf[s] \o SubSeq(c, 1, Buf - Len(buf[s]))) = Buf
                /\ Len(Spill(buf[s], c)) < Buf
                /\ SubSeq(c, 1, Buf - Len(buf[s])) \o Spill(buf[s], c) = c
    BY <1>2, <1>3, <1>4, <1>5, <1>9, <2>10, Overflow
  <2>1. PICK part, left :
        /\ left \in Text
        /\ part = SubSeq(c, 1, Buf - Len(buf[s])) /\ left = Spill(buf[s], c)
        /\ buf[s] \o part \in Text
        /\ s \notin spoilt' => /\ part \in Text /\ Len(buf[s] \o part) = Buf
                              /\ Len(left) < Buf
                              /\ part \o left = c
    BY <2>0, <2>10
  <2>2. /\ buf' = [buf EXCEPT ![s] = buf[s] \o part]
        /\ rest' = [rest EXCEPT ![s] = left]
        /\ at' = [at EXCEPT ![s] = "full"]
        /\ pc' = pc
    BY <1>1, <1>9, <2>1 DEF c
  <2>3. Typed'
    <3>1. spoilt' \subseteq Conns
      BY <1>1, <1>4
    <3>2. QED
      BY <1>4, <1>7, <2>1, <2>2, <3>1 DEF IInv, Typed, At
  <2>4. Others(s)
    <3>1. \A t \in Conns \ {s} : t \in spoilt' <=> t \in spoilt
      BY <1>1
    <3>2. QED
      BY <1>4, <1>7, <2>2, <3>1 DEF Others, IInv, Typed
  <2>5. /\ at'[s] = "full" /\ buf'[s] = buf[s] \o part /\ rest'[s] = left
        /\ pc'[s] = pc[s] /\ page'[s] = page[s] /\ sent'[s] = sent[s]
    BY <1>4, <2>2 DEF IInv, Typed
  <2>6. PieceOK(s)'
    <3>1. PieceOK(s)
      BY DEF IInv, Good
    <3>2. QED
      BY <1>4, <2>5, <3>1 DEF PieceOK
  <2>7. ASSUME s \notin spoilt' PROVE BufferOK(s)'
    <3>1. Len(buf'[s]) = Buf /\ Len(rest'[s]) < Buf /\ Buf \in Nat
      BY <1>2, <2>1, <2>5, <2>7
    <3>2. QED
      BY <2>5, <3>1 DEF BufferOK
  <2>8. ASSUME s \notin spoilt' PROVE TextOK(s)'
    <3>1. PICK a \in Text, b \in Text, d \in Text, e \in Text :
            /\ a = sent[s] /\ b = buf[s] /\ d = part /\ e = left
            /\ b \o d \in Text /\ d \o e = c
      BY <1>4, <2>1, <2>8
    <3>2. a \o (b \o c) \in Text
      BY <1>3, <3>1, ConcatProperties DEF Text
    <3>3. (b \o d) \o e = b \o c
      <4>1. (b \o d) \o e = b \o (d \o e)
        BY Assoc, ZenonT(40)
      <4>2. QED
        BY <3>1, <4>1, Zenon
    <3>4. (a \o (b \o d)) \o e = a \o (b \o c)
      <4>0. PICK x \in Text : x = b \o d
        BY <3>1
      <4>1. (a \o x) \o e = a \o (x \o e)
        BY Assoc, ZenonT(40)
      <4>2. QED
        BY <3>3, <4>0, <4>1, Zenon
    <3>5. (a \o (b \o c)) \o <<>> = a \o (b \o c)
      BY <3>2, ConcatEmptySeq DEF Text
    <3>6. QED
      BY <1>6, <2>5, <2>8, <3>1, <3>4, <3>5 DEF TextOK
  <2>9. QED
    BY <2>3, <2>4, <2>6, <2>7, <2>8, OneConnection DEF Good
<1>10. QED
  BY <1>8, <1>9

\* The copy of negative length touches nothing that the invariant is about.
LEMMA OverrunInv == ASSUME IInv, NEW s \in Conns, Overrun(s) PROVE IInv'
BY DEF Overrun, IInv, Typed, Good, PieceOK, BufferOK, TextOK, String

LEMMA AckFullInv == ASSUME IInv, NEW s \in Conns, AckFull(s) PROVE IInv'
<1>1. /\ at[s] = "full" /\ buf[s] \in Text /\ rest[s] \in Text /\ sent[s] \in Text
      /\ pc[s] <= Chunks(page[s])
      /\ spoilt' = spoilt /\ UNCHANGED halted
  BY DEF AckFull, IInv, Typed, Good, PieceOK
<1>2. sent[s] \o buf[s] \in Text
  BY <1>1, ConcatProperties DEF Text
<1>3. /\ sent'[s] = sent[s] \o buf[s] /\ sent' \in [Conns -> Text]
      /\ text' \in [Conns -> Text] /\ text'[s] = text[s]
      /\ \A t \in Conns \ {s} : sent'[t] = sent[t] /\ text'[t] = text[t]
      /\ rest'[s] = <<>>
  BY <1>2 DEF AckFull, IInv, Typed
<1>4. ASSUME s \notin spoilt'
      PROVE  Len(rest[s]) < Buf /\ text'[s] = (sent'[s] \o rest[s]) \o <<>>
  <2>1. Len(rest[s]) < Buf /\ text[s] = (sent[s] \o buf[s]) \o rest[s]
    BY <1>1, <1>4 DEF IInv, Good, BufferOK, TextOK
  <2>2. QED
    BY <1>1, <1>3, <2>1, Through
<1>5. QED
  BY <1>1, <1>3, <1>4, DoneInv DEF AckFull

LEMMA AckFlushInv == ASSUME IInv, NEW s \in Conns, AckFlush(s) PROVE IInv'
<1>1. /\ at[s] = "flush" /\ buf[s] \in Text /\ sent[s] \in Text
      /\ pc[s] <= Chunks(page[s]) /\ spoilt' = spoilt
  BY DEF AckFlush, IInv, Typed, Good, PieceOK
<1>2. sent[s] \o buf[s] \in Text
  BY <1>1, ConcatProperties DEF Text
<1>3. Typed'
  BY <1>2, PieceTypes, EmptyText DEF AckFlush, IInv, Typed, At
<1>4. Others(s)
  BY DEF AckFlush, Others, IInv, Typed
<1>5. /\ at'[s] = "run" /\ pc'[s] = pc[s] + 1 /\ page'[s] = page[s] /\ buf'[s] = <<>>
      /\ rest'[s] = rest[s] /\ sent'[s] = sent[s] \o buf[s] /\ text'[s] = text[s]
  BY <1>1 DEF AckFlush, IInv, Typed
<1>6. PieceOK(s)'
  BY <1>1, <1>5, PieceTypes DEF PieceOK
<1>7. ASSUME s \notin spoilt' PROVE BufferOK(s)' /\ TextOK(s)'
  <2>1. rest[s] = <<>> /\ text[s] = (sent[s] \o buf[s]) \o <<>>
    BY <1>1, <1>7 DEF IInv, Good, BufferOK, TextOK
  <2>2. BufferOK(s)'
    BY <1>5, <2>1, EmptyText, SizeAssumption DEF BufferOK
  <2>3. (sent'[s] \o <<>>) \o <<>> = (sent[s] \o buf[s]) \o <<>>
    BY <1>2, <1>5, ConcatEmptySeq DEF Text
  <2>4. QED
    BY <1>5, <2>1, <2>2, <2>3 DEF TextOK
<1>8. QED
  BY <1>3, <1>4, <1>6, <1>7, OneConnection DEF Good

LEMMA StringType == ASSUME IInv, NEW s \in Conns PROVE String(s) \in Text
<1>1. <<pc[s], 1>> \in Bytes
  BY PieceTypes DEF Bytes
<1>2. QED
  BY <1>1 DEF String, Text

LEMMA SendStringInv == ASSUME IInv, NEW s \in Conns, SendString(s) PROVE IInv'
<1>1. /\ at[s] = "run" /\ sent[s] \in Text /\ text[s] \in Text
      /\ pc[s] > Chunks(page[s]) /\ pc[s] <= Pieces(page[s]) /\ spoilt' = spoilt
  BY DEF SendString, IInv, Typed
<1>2. text[s] \o String(s) \in Text
  BY <1>1, StringType, ConcatProperties DEF Text
<1>3. Typed'
  BY <1>2 DEF SendString, IInv, Typed, At
<1>4. Others(s)
  BY DEF SendString, Others, IInv, Typed
<1>5. /\ at'[s] = "string" /\ pc'[s] = pc[s] /\ page'[s] = page[s] /\ buf'[s] = buf[s]
      /\ rest'[s] = rest[s] /\ sent'[s] = sent[s]
      /\ text'[s] = text[s] \o String(s)
  BY DEF SendString, IInv, Typed
<1>6. PieceOK(s)'
  BY <1>1, <1>5, PieceTypes DEF PieceOK
<1>7. ASSUME s \notin spoilt' PROVE BufferOK(s)' /\ TextOK(s)'
  <2>1. buf[s] = <<>> /\ rest[s] = <<>> /\ text[s] = (sent[s] \o buf[s]) \o rest[s]
    BY <1>1, <1>7 DEF IInv, Good, BufferOK, TextOK
  <2>2. text[s] = sent[s]
    BY <1>1, <2>1, ConcatEmptySeq DEF Text
  <2>3. BufferOK(s)'
    BY <1>1, <1>5, <2>1, PieceTypes, EmptyText, SizeAssumption DEF BufferOK
  <2>4. QED
    BY <1>5, <2>2, <2>3 DEF TextOK, String
<1>8. QED
  BY <1>3, <1>4, <1>6, <1>7, OneConnection DEF Good

LEMMA AckStringInv == ASSUME IInv, NEW s \in Conns, AckString(s) PROVE IInv'
<1>1. /\ at[s] = "string" /\ sent[s] \in Text /\ pc[s] <= Pieces(page[s])
      /\ spoilt' = spoilt
  BY DEF AckString, IInv, Typed, Good, PieceOK
<1>2. sent[s] \o String(s) \in Text
  BY <1>1, StringType, ConcatProperties DEF Text
<1>3. Typed'
  BY <1>2, PieceTypes DEF AckString, IInv, Typed, At
<1>4. Others(s)
  BY DEF AckString, Others, IInv, Typed
<1>5. /\ at'[s] = "run" /\ pc'[s] = pc[s] + 1 /\ page'[s] = page[s] /\ buf'[s] = buf[s]
      /\ rest'[s] = rest[s] /\ sent'[s] = sent[s] \o String(s) /\ text'[s] = text[s]
  BY <1>1 DEF AckString, IInv, Typed
<1>6. PieceOK(s)'
  BY <1>1, <1>5, PieceTypes DEF PieceOK
<1>7. ASSUME s \notin spoilt' PROVE BufferOK(s)' /\ TextOK(s)'
  <2>1. /\ buf[s] = <<>> /\ rest[s] = <<>> /\ text[s] = sent[s] \o String(s)
        /\ pc[s] > Chunks(page[s])
    <3>1. BufferOK(s) /\ TextOK(s)
      BY <1>1, <1>7 DEF IInv, Good
    <3>2. pc[s] > Chunks(page[s])
      BY <1>1, <3>1 DEF BufferOK
    <3>3. QED
      BY <1>1, <3>1, <3>2 DEF BufferOK, TextOK
  <2>2. BufferOK(s)'
    BY <1>1, <1>5, <2>1, PieceTypes, EmptyText, SizeAssumption DEF BufferOK
  <2>3. (sent'[s] \o <<>>) \o <<>> = sent[s] \o String(s)
    BY <1>2, <1>5, ConcatEmptySeq DEF Text
  <2>4. QED
    BY <1>5, <2>1, <2>2, <2>3 DEF TextOK
<1>8. QED
  BY <1>3, <1>4, <1>6, <1>7, OneConnection DEF Good

LEMMA CloseInv == ASSUME IInv, NEW s \in Conns, Close(s) PROVE IInv'
<1>1. Typed'
  BY DEF Close, IInv, Typed, At
<1>2. Others(s)
  BY DEF Close, Others, IInv, Typed
<1>3. /\ at[s] = "run" /\ at'[s] = "closing"
      /\ UNCHANGED <<page, pc, buf, rest, sent, text, spoilt>>
  BY DEF Close, IInv, Typed
<1>4. Good(s)'
  BY <1>3 DEF IInv, Good, PieceOK, BufferOK, TextOK
<1>5. QED
  BY <1>1, <1>2, <1>4, OneConnection

LEMMA EndInv == ASSUME IInv, NEW s \in Conns, End(s) PROVE IInv'
<1>1. Typed'
  BY EmptyText DEF End, Zeroed, IInv, Typed, At, Pages
<1>2. Others(s)
  BY DEF End, Zeroed, Others, IInv, Typed
<1>3. /\ at'[s] = "idle" /\ pc'[s] = 1 /\ page'[s] = Redirect /\ buf'[s] = <<>>
      /\ rest'[s] = <<>> /\ sent'[s] = <<>> /\ text'[s] = <<>> /\ s \notin spoilt'
  BY DEF End, Zeroed, IInv, Typed
<1>4. PieceOK(s)' /\ BufferOK(s)'
  <2>1. /\ Chunks(Redirect) \in Nat \ {0} /\ Pieces(Redirect) \in Nat
        /\ Pieces(Redirect) >= Chunks(Redirect)
    <3>1. Redirect \in Pages
      BY DEF Pages
    <3>2. QED
      BY <3>1, PageNumbers
  <2>2. QED
    BY <1>3, <2>1, EmptyText, SizeAssumption DEF PieceOK, BufferOK
<1>5. TextOK(s)'
  BY <1>3, EmptyText, ConcatEmptySeq DEF TextOK, Text
<1>6. QED
  BY <1>1, <1>2, <1>4, <1>5, OneConnection DEF Good

\* Every step, of whatever connection, keeps the invariant.
LEMMA NextInv == ASSUME IInv, [Next]_vars PROVE IInv'
<1>1. CASE UNCHANGED vars
  BY <1>1 DEF vars, IInv, Typed, Good, PieceOK, BufferOK, TextOK, String
<1>2. CASE Next
  <2>1. PICK s \in Conns :
          \/ Start(s) \/ Enqueue(s) \/ Overrun(s) \/ AckFull(s) \/ AckFlush(s)
          \/ SendString(s) \/ AckString(s) \/ Close(s) \/ End(s)
    BY <1>2 DEF Next
  <2>2. QED
    BY <2>1, StartInv, EnqueueInv, OverrunInv, AckFullInv, AckFlushInv, SendStringInv,
       AckStringInv, CloseInv, EndInv
<1>3. QED
  BY <1>1, <1>2

\* Only a page with a chunk that is too long halts the device, for on any other the
\* generator that runs has room; and after that nothing happens.
LEMMA HaltInv == ASSUME IInv, HaltOK, [Next]_vars PROVE HaltOK'
<1>1. CASE UNCHANGED vars
  BY <1>1 DEF vars, HaltOK
<1>2. CASE Next
  <2>1. ASSUME NEW s \in Conns, Overrun(s) PROVE HaltOK'
    <3>1. Len(buf[s]) > Buf /\ Buf \in Nat /\ Len(buf[s]) \in Nat
      BY <2>1, SizeAssumption, LenProperties DEF Overrun, IInv, Typed, Text
    <3>2. s \in spoilt
      BY <3>1 DEF IInv, Good, BufferOK
    <3>3. QED
      BY <2>1, <3>2 DEF Overrun, HaltOK
  <2>2. ASSUME NEW s \in Conns,
               \/ Start(s) \/ Enqueue(s) \/ AckFull(s) \/ AckFlush(s)
               \/ SendString(s) \/ AckString(s) \/ Close(s) \/ End(s)
        PROVE  UNCHANGED halted
    BY <2>2 DEF Start, Enqueue, AckFull, AckFlush, SendString, AckString, Close, End
  <2>3. QED
    BY <1>2, <2>1, <2>2 DEF Next, HaltOK
<1>3. QED
  BY <1>1, <1>2

\* The two together hold in every state.
LEMMA Inductive == Spec => [](IInv /\ HaltOK)
<1>1. Init => IInv /\ HaltOK
  BY InitInv DEF Init, HaltOK
<1>2. IInv /\ HaltOK /\ [Next]_vars => (IInv /\ HaltOK)'
  BY NextInv, HaltInv
<1>3. QED
  BY <1>1, <1>2, PTL DEF Spec

------------------------------------------------------------------------------
\* Every variable keeps its type; no connection gets past the end of its page.
THEOREM TypeCorrect == Spec => []TypeOK
<1>1. IInv => TypeOK
  BY DEF TypeOK, IInv, Typed, Good, PieceOK
<1>2. QED
  BY <1>1, Inductive, PTL

\* The copies of enqueue_chunk() stay inside their buffers, whatever the size of
\* these and however long a page is, up to the first chunk longer than the buffer;
\* and without one the device does not halt.
THEOREM CopiesFit == Spec => []RoomInBuffer
<1>1. IInv /\ HaltOK => RoomInBuffer
  BY DEF IInv, Good, BufferOK, HaltOK, RoomInBuffer
<1>2. QED
  BY <1>1, Inductive, PTL

\* Between the generator and the peer no byte of a page is lost, doubled or moved,
\* up to the first chunk longer than the buffer.
THEOREM NothingLost == Spec => []TextAccountedFor
<1>1. ASSUME IInv, NEW s \in Conns \ spoilt
      PROVE  IF at[s] = "string"
             THEN buf[s] = <<>> /\ rest[s] = <<>> /\ text[s] = sent[s] \o String(s)
             ELSE text[s] = (sent[s] \o buf[s]) \o rest[s]
  BY <1>1 DEF IInv, Good, BufferOK, TextOK
<1>2. IInv => TextAccountedFor
  BY <1>1 DEF TextAccountedFor
<1>3. QED
  BY <1>2, Inductive, PTL

------------------------------------------------------------------------------
(* The page is what the peer receives.                                      *)

\* A text is a prefix of itself with more behind it.
LEMMA PrefixOfConcat ==
  ASSUME NEW a \in Text, NEW b \in Text
  PROVE  IsPrefix(a, a \o b) /\ (b # <<>> => IsStrictPrefix(a, a \o b))
<1>1. Len(a) \in Nat /\ Len(b) \in Nat
  BY LenProperties DEF Text
<1>2. Len(a \o b) = Len(a) + Len(b)
  BY ConcatProperties DEF Text
<1>3. SubSeq(a, 1, Len(a)) = SubSeq(a \o b, 1, Len(a))
  <2>1. CASE Len(a) = 0
    BY <2>1, SubSeqEmpty
  <2>2. CASE Len(a) # 0
    <3>1. 1 \in 1..Len(a) /\ Len(a) \in 1..Len(a)
      BY <1>1, <2>2
    <3>2. QED
      BY <3>1, SubSeqOfConcat1 DEF Text
  <2>3. QED
    BY <2>1, <2>2
<1>4. b # <<>> => a # a \o b
  BY ConcatEqualIffEmpty DEF Text
<1>5. QED
  BY <1>1, <1>2, <1>3, <1>4 DEF IsPrefix, IsStrictPrefix

\* What OutputStream is about.
View == <<Sending, Sound(text), Sound(sent)>>

\* A change to the text of a page that counts is the same change to what counts.
LEMMA SoundChange ==
  ASSUME NEW f, NEW s \in Conns \ spoilt, NEW x
  PROVE  /\ Sound(f)[s] = f[s]
         /\ DOMAIN f = Conns => Sound([f EXCEPT ![s] = x]) = [Sound(f) EXCEPT ![s] = x]
BY DEF Sound

\* Nothing is seen of a page that does not count, as long as it stays that way.
LEMMA Muted ==
  ASSUME IInv, NEW s \in spoilt, s \in spoilt', Others(s)
  PROVE  UNCHANGED View
<1>1. \A t \in Conns : t \in spoilt' <=> t \in spoilt
  BY DEF Others
<1>2. Sending' = Sending
  BY <1>1 DEF Sending, Others
<1>3. Sound(text)' = Sound(text) /\ Sound(sent)' = Sound(sent)
  BY <1>1 DEF Sound, Others
<1>4. QED
  BY <1>2, <1>3 DEF View

\* A step from one place where a page is being sent to another.
LEMMA StillSending ==
  ASSUME IInv, NEW s \in Sending, NEW x \in {"run", "full", "flush", "string"},
         at' = [at EXCEPT ![s] = x], spoilt' = spoilt
  PROVE  Sending' = Sending
BY DEF Sending, IInv, Typed

\* An acknowledgement of the text b is a delivery, unless there is none of it.
LEMMA Delivery ==
  ASSUME IInv, NEW s \in Sending, NEW b \in Text, NEW c \in Text,
         text[s] = (sent[s] \o b) \o c, UNCHANGED <<Sending, text, spoilt>>,
         sent' = [sent EXCEPT ![s] = @ \o b]
  PROVE  Stream!Deliver(s) \/ UNCHANGED View
<1>1. s \in Conns \ spoilt /\ sent \in [Conns -> Text] /\ sent[s] \in Text
  BY DEF Sending, IInv, Typed
<1>2. PICK a \in Text, d \in Text : a = sent[s] /\ d = sent[s] \o b
  BY <1>1, ConcatProperties DEF Text
<1>3. /\ Sound(text)' = Sound(text) /\ Sound(text)[s] = d \o c
      /\ Sound(sent)[s] = a /\ Sound(sent)' = [Sound(sent) EXCEPT ![s] = d]
  <2>1. Sound(text)' = Sound(text) /\ Sound(sent)' = Sound([sent EXCEPT ![s] = d])
    BY <1>2 DEF Sound
  <2>2. Sound(text)[s] = text[s] /\ Sound(sent)[s] = sent[s]
    BY <1>1, SoundChange
  <2>3. Sound([sent EXCEPT ![s] = d]) = [Sound(sent) EXCEPT ![s] = d]
    BY <1>1, SoundChange
  <2>4. QED
    BY <1>2, <2>1, <2>2, <2>3
<1>4. Sound(sent)'[s] = d
  BY <1>1, <1>3 DEF Sound
<1>5. CASE b = <<>>
  <2>1. d = a
    BY <1>2, <1>5, ConcatEmptySeq DEF Text
  <2>2. Sound(sent)' = Sound(sent)
    BY <1>1, <1>3, <2>1 DEF Sound
  <2>3. QED
    BY <1>3, <2>2 DEF View
<1>6. CASE b # <<>>
  <2>1. IsStrictPrefix(a, d)
    BY <1>2, <1>6, PrefixOfConcat
  <2>2. IsPrefix(d, d \o c)
    BY PrefixOfConcat
  <2>3. /\ s \in Sending /\ IsStrictPrefix(Sound(sent)[s], Sound(sent)'[s])
        /\ IsPrefix(Sound(sent)'[s], Sound(text)[s])
        /\ Sound(sent)' = [Sound(sent) EXCEPT ![s] = Sound(sent)'[s]]
        /\ Sending' = Sending /\ Sound(text)' = Sound(text)
    BY <1>3, <1>4, <2>1, <2>2
  <2>4. QED
    BY <2>3
       DEF Stream!Deliver, Stream!IsPrefix, Stream!IsStrictPrefix, IsPrefix, IsStrictPrefix
<1>7. QED
  BY <1>5, <1>6

\* The text b is generated.
LEMMA Production ==
  ASSUME IInv, NEW s \in Sending, NEW b \in Text,
         UNCHANGED <<Sending, sent, spoilt>>, text' = [text EXCEPT ![s] = @ \o b]
  PROVE  Stream!Produce(s)
<1>1. text \in [Conns -> Text] /\ s \in Conns \ spoilt
  BY DEF Sending, IInv, Typed
<1>2. PICK a \in Text, d \in Text : a = text[s] /\ d = text[s] \o b
  BY <1>1, ConcatProperties DEF Text
<1>3. IsPrefix(a, d)
  BY <1>2, PrefixOfConcat
<1>4. /\ Sound(sent)' = Sound(sent) /\ Sound(text)[s] = a
      /\ Sound(text)' = [Sound(text) EXCEPT ![s] = d]
  <2>1. Sound(sent)' = Sound(sent) /\ Sound(text)' = Sound([text EXCEPT ![s] = d])
    BY <1>2 DEF Sound
  <2>2. Sound(text)[s] = text[s]
    BY <1>1, SoundChange
  <2>3. Sound([text EXCEPT ![s] = d]) = [Sound(text) EXCEPT ![s] = d]
    BY <1>1, SoundChange
  <2>4. QED
    BY <1>2, <2>1, <2>2, <2>3
<1>5. Sound(text)'[s] = d
  BY <1>1, <1>4 DEF Sound
<1>6. /\ s \in Sending /\ IsPrefix(Sound(text)[s], Sound(text)'[s])
      /\ Sound(text)' = [Sound(text) EXCEPT ![s] = Sound(text)'[s]]
      /\ Sending' = Sending /\ Sound(sent)' = Sound(sent)
  BY <1>3, <1>4, <1>5
<1>7. QED
  BY <1>6 DEF Stream!Produce, Stream!IsPrefix, IsPrefix

\* A page that stops counting is given up.
LEMMA GivenUp ==
  ASSUME IInv, NEW s \in Conns, Others(s), s \in spoilt' \/ at'[s] = "idle",
         s \notin spoilt' => sent'[s] = <<>> /\ text'[s] = <<>>
  PROVE  Stream!Abort(s)
<1>1. \A t \in Conns \ {s} : t \in spoilt' <=> t \in spoilt
  BY DEF Others
<1>2. Sending' = Sending \ {s}
  BY <1>1 DEF Sending, Others
<1>3. /\ Sound(text)' = [Sound(text) EXCEPT ![s] = <<>>]
      /\ Sound(sent)' = [Sound(sent) EXCEPT ![s] = <<>>]
  BY <1>1 DEF Sound, Others
<1>4. QED
  BY <1>2, <1>3 DEF Stream!Abort

\* A chunk that fits the buffer is generated; with one that is longer the page is
\* given up.
LEMMA EnqueueProduces ==
  ASSUME IInv, NEW s \in Conns, Enqueue(s)
  PROVE  Stream!Produce(s) \/ Stream!Abort(s) \/ UNCHANGED View
<1> DEFINE chunk(n) == Formatted(pc[s], n)
           meant(n) == [k \in 1..n |-> <<pc[s], k>>]
<1>1. PICK n \in LengthsOf(page[s].chunks[pc[s]]) :
        /\ text' = [text EXCEPT ![s] = @ \o meant(n)]
        /\ spoilt' = IF n > Buf THEN spoilt \union {s} ELSE spoilt
        /\ \/ /\ ChunkDone(s, buf[s] \o chunk(n))
              /\ UNCHANGED rest
           \/ /\ at' = [at EXCEPT ![s] = "full"]
              /\ buf' = [buf EXCEPT ![s] = @ \o SubSeq(chunk(n), 1, Buf - Len(@))]
              /\ rest' = [rest EXCEPT ![s] = Spill(buf[s], chunk(n))]
              /\ UNCHANGED pc
  BY DEF Enqueue
<1>2. n \in Nat /\ pc[s] \in Nat
  BY LengthTypes, PieceTypes
<1>3. meant(n) \in Text
  BY <1>2, ChunkType
<1> DEFINE m == meant(n)
<1> HIDE DEF m
<1>4. at[s] = "run" /\ sent' = sent /\ page' = page
  BY DEF Enqueue
<1>5. PICK x \in {"run", "full", "flush"} : at' = [at EXCEPT ![s] = x]
  BY <1>1 DEF ChunkDone
<1>6. CASE s \notin spoilt'
  <2>1. spoilt' = spoilt
    BY <1>1, <1>6
  <2>2. s \in Sending
    BY <1>4, <1>6, <2>1 DEF Sending
  <2>3. Sending' = Sending
    BY <1>5, <2>1, <2>2, StillSending
  <2>4. text' = [text EXCEPT ![s] = @ \o m] /\ m \in Text
    BY <1>1, <1>3 DEF m
  <2>5. QED
    BY <1>4, <2>1, <2>2, <2>3, <2>4, Production
<1>7. CASE s \in spoilt'
  <2>1. Others(s)
    <3>1. \A t \in Conns \ {s} : t \in spoilt' <=> t \in spoilt
      BY <1>1
    <3>2. \A t \in Conns \ {s} : at'[t] = at[t] /\ text'[t] = text[t]
      BY <1>1, <1>5 DEF IInv, Typed
    <3>3. \A t \in Conns \ {s} : pc'[t] = pc[t] /\ buf'[t] = buf[t] /\ rest'[t] = rest[t]
      BY <1>1 DEF ChunkDone, IInv, Typed
    <3>4. QED
      BY <1>4, <3>1, <3>2, <3>3 DEF Others
  <2>2. QED
    BY <1>7, <2>1, GivenUp
<1>8. QED
  BY <1>6, <1>7

\* An acknowledgement delivers what was sent, if the page counts.
LEMMA AckDelivers ==
  ASSUME IInv, NEW s \in Conns, AckFull(s) \/ AckFlush(s) \/ AckString(s)
  PROVE  Stream!Deliver(s) \/ UNCHANGED View
<1>1. /\ text' = text /\ spoilt' = spoilt
      /\ buf[s] \in Text /\ rest[s] \in Text /\ sent[s] \in Text
  BY DEF AckFull, AckFlush, AckString, IInv, Typed
<1>2. CASE s \in spoilt
  <2>1. Others(s)
    BY <1>1 DEF AckFull, AckFlush, AckString, ChunkDone, Others, IInv, Typed
  <2>2. QED
    BY <1>1, <1>2, <2>1, Muted
<1>3. CASE s \notin spoilt
  <2>1. s \in Sending /\ Good(s) /\ BufferOK(s) /\ TextOK(s)
    BY <1>3 DEF AckFull, AckFlush, AckString, Sending, IInv, Good
  <2>2. Sending' = Sending
    <3>1. PICK x \in {"run", "flush"} : at' = [at EXCEPT ![s] = x]
      BY DEF AckFull, AckFlush, AckString, ChunkDone
    <3>2. QED
      BY <1>1, <2>1, <3>1, StillSending
  <2>3. CASE AckFull(s) \/ AckFlush(s)
    <3>1. text[s] = (sent[s] \o buf[s]) \o rest[s] /\ sent' = [sent EXCEPT ![s] = @ \o buf[s]]
      BY <2>1, <2>3 DEF AckFull, AckFlush, TextOK
    <3>2. QED
      BY <1>1, <2>1, <2>2, <3>1, Delivery
  <2>4. CASE AckString(s)
    <3>1. text[s] = sent[s] \o String(s) /\ sent' = [sent EXCEPT ![s] = @ \o String(s)]
      BY <2>1, <2>4 DEF AckString, TextOK
    <3>2. (sent[s] \o String(s)) \o <<>> = sent[s] \o String(s)
      BY <1>1, StringType, Through, Zenon
    <3>3. QED
      BY <1>1, <2>1, <2>2, <3>1, <3>2, StringType, EmptyText, Delivery
  <2>5. QED
    BY <2>3, <2>4
<1>4. QED
  BY <1>2, <1>3

\* When the connection is closed, the buffer is empty and the page with the peer.
LEMMA CloseCloses ==
  ASSUME IInv, NEW s \in Conns, Close(s)
  PROVE  Stream!Close(s) \/ UNCHANGED View
<1>1. at[s] = "run" /\ UNCHANGED <<page, pc, buf, rest, sent, text, spoilt>>
  BY DEF Close
<1>2. CASE s \in spoilt
  <2>1. Others(s)
    BY DEF Close, Others, IInv, Typed
  <2>2. QED
    BY <1>1, <1>2, <2>1, Muted
<1>3. CASE s \notin spoilt
  <2>1. /\ sent[s] \in Text /\ buf[s] = <<>> /\ rest[s] = <<>>
        /\ text[s] = (sent[s] \o <<>>) \o <<>>
    <3>1. BufferOK(s) /\ TextOK(s) /\ sent[s] \in Text
      BY <1>3 DEF IInv, Typed, Good
    <3>2. pc[s] > Chunks(page[s])
      BY PieceTypes DEF Close
    <3>3. QED
      BY <1>1, <3>1, <3>2 DEF BufferOK, TextOK
  <2>2. sent[s] = text[s]
    BY <2>1, ConcatEmptySeq DEF Text
  <2>3. s \in Sending /\ Sending' = Sending \ {s}
    BY <1>3 DEF Close, Sending, IInv, Typed
  <2>4. Sound(sent)[s] = Sound(text)[s] /\ UNCHANGED <<Sound(text), Sound(sent)>>
    BY <1>1, <2>2 DEF Sound
  <2>5. QED
    BY <2>3, <2>4 DEF Stream!Close
<1>4. QED
  BY <1>2, <1>3

\* The generator starts on a connection of which nothing is left.
LEMMA StartStarts ==
  ASSUME IInv, NEW s \in Conns, Start(s)
  PROVE  Stream!Start(s)
<1>1. at[s] = "idle" /\ UNCHANGED <<buf, rest, sent, text, spoilt>>
  BY DEF Start
<1>2. s \notin spoilt
  BY <1>1 DEF IInv, Good, PieceOK
<1>3. text[s] = <<>> /\ sent[s] = <<>>
  <2>1. /\ text[s] = (sent[s] \o buf[s]) \o rest[s]
        /\ sent[s] = <<>> /\ buf[s] = <<>> /\ rest[s] = <<>>
    BY <1>1, <1>2 DEF IInv, Good, BufferOK, TextOK
  <2>2. QED
    BY <2>1, EmptyText, ConcatEmptySeq DEF Text
<1>4. s \notin Sending /\ Sending' = Sending \union {s}
  BY <1>2 DEF Start, Sending, IInv, Typed
<1>5. /\ Sound(text)' = [Sound(text) EXCEPT ![s] = <<>>]
      /\ Sound(sent)' = [Sound(sent) EXCEPT ![s] = <<>>]
  BY <1>1, <1>2, <1>3 DEF Sound
<1>6. QED
  BY <1>4, <1>5 DEF Stream!Start

\* A string is generated all at once.
LEMMA StringProduces ==
  ASSUME IInv, NEW s \in Conns, SendString(s)
  PROVE  Stream!Produce(s) \/ UNCHANGED View
<1>1. at[s] = "run" /\ UNCHANGED <<sent, spoilt>>
  BY DEF SendString
<1>2. CASE s \in spoilt
  <2>1. Others(s)
    BY DEF SendString, Others, IInv, Typed
  <2>2. QED
    BY <1>1, <1>2, <2>1, Muted
<1>3. CASE s \notin spoilt
  <2>1. s \in Sending
    BY <1>1, <1>3 DEF Sending
  <2>2. Sending' = Sending
    BY <1>1, <2>1, StillSending DEF SendString
  <2>3. QED
    BY <1>1, <2>1, <2>2, StringType, Production DEF SendString
<1>4. QED
  BY <1>2, <1>3

\* The end of a connection gives its page up, if it was not complete.
LEMMA EndGivesUp ==
  ASSUME IInv, NEW s \in Conns, End(s)
  PROVE  Stream!Abort(s)
<1>1. Others(s)
  BY DEF End, Zeroed, Others, IInv, Typed
<1>2. at'[s] = "idle" /\ sent'[s] = <<>> /\ text'[s] = <<>>
  BY DEF End, IInv, Typed
<1>3. QED
  BY <1>1, <1>2, GivenUp

\* The copy that halts the device is not seen by any peer.
LEMMA OverrunUnseen ==
  ASSUME NEW s \in Conns, Overrun(s)
  PROVE  UNCHANGED View
BY DEF Overrun, View, Sending, Sound

\* The peer receives the page that was generated: every step of a connection is
\* one of OutputStream, or changes nothing that it is about.  A page with a chunk
\* longer than the buffer counts as given up.
THEOREM ImplementsOutputStream == Spec => SendsThePage
<1>1. Init => Stream!Init
  BY DEF Init, Sending, Sound, Stream!Init
<1>2. ASSUME IInv, [Next]_vars
      PROVE  [Stream!Next]_View
  <2>1. CASE UNCHANGED vars
    BY <2>1 DEF vars, View, Sending, Sound
  <2>2. ASSUME NEW s \in Conns,
               \/ Start(s) \/ Enqueue(s) \/ Overrun(s) \/ AckFull(s) \/ AckFlush(s)
               \/ SendString(s) \/ AckString(s) \/ Close(s) \/ End(s)
        PROVE  \/ Stream!Start(s) \/ Stream!Produce(s) \/ Stream!Deliver(s)
               \/ Stream!Close(s) \/ Stream!Abort(s)
               \/ UNCHANGED View
    BY <1>2, <2>2, StartStarts, EnqueueProduces, OverrunUnseen, AckDelivers,
       StringProduces, CloseCloses, EndGivesUp
  <2>3. QED
    BY <1>2, <2>1, <2>2 DEF Next, Stream!Next
<1>3. QED
  BY <1>1, <1>2, Inductive, PTL DEF Spec, View, SendsThePage, Stream!Spec
==============================================================================
