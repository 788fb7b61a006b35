---------------------------- MODULE RouterWebProofs ----------------------------
(***************************************************************************)
(* Proofs about RouterWeb, for every size of the buffer and of the margin, *)
(* lines of any sizes, also those that do not fit in the margin, and every *)
(* number of connections, neighbours and routes: first the length of the   *)
(* text, then the page a lone visitor receives.                            *)
(***************************************************************************)
EXTENDS RouterWeb, SequenceTheorems, WellFoundedInduction, TLAPS

Texts  == Seq(Tokens)
Places == DOMAIN Fixed \union
            {"filling", "neighbour", "neighbours", "link", "route", "ending"}

\* A send stays within the text that was in the buffer when it began.
Typed ==
  /\ state \in [Conns -> {"free", "waiting", "output", "closed"}]
  /\ at \in [Conns -> Places]
  /\ sendptr \in [Conns -> Nat] /\ sendlen \in [Conns -> Nat]
  /\ \A c \in Conns : sendptr[c] + sendlen[c] <= BUF_SIZE
  /\ nbr \in 1..(NBRS + 1) /\ r \in 1..(ROUTES + 1)
  /\ ends \in Tables /\ overrun \in 0..NBRS
  /\ intact \in [Conns -> BOOLEAN] /\ visitors \in BOOLEAN

\* blen characters and a zero.
Terminated ==
  /\ blen \in 0..(BUF_SIZE - 1)
  /\ buf[blen + 1] = NUL
  /\ \A i \in 1..blen : buf[i] # NUL

\* What is in the buffer is text.
Written == \A i \in 1..blen : buf[i] \in Tokens

\* Only a long line wraps the length; then the buffer is not full, and the page of
\* the one connection whose callback is not over has lost something.
Overruns ==
  /\ overrun # 0 => Size(overrun) >= Margin
  /\ \A c \in Conns : at[c] = "filling" =>
       /\ blen <= BUF_SIZE - Margin /\ state[c] = "output" /\ ~intact[c]
       /\ \A d \in Conns : at[d] = "filling" => d = c

IInv == Typed /\ Terminated /\ Written /\ Overruns

------------------------------------------------------------------------------
LEMMA Sizes ==
  /\ BUF_SIZE \in Nat /\ BUF_SIZE > 2 /\ Margin \in Nat /\ Margin > 1 /\ Margin < BUF_SIZE
  /\ \A n \in LineSizes : n \in Nat /\ n > 0 /\ n < BUF_SIZE
  /\ RouteSize \in Nat /\ RouteSize < BUF_SIZE /\ RouteSize > 0
  /\ MSS \in Nat /\ MSS > 0 /\ NBRS \in Nat /\ ROUTES \in Nat
BY SizeAssumption

\* strlen() finds the first zero.
LEMMA Strlen ==
  ASSUME NEW b, NEW n \in 0..(BUF_SIZE - 1), b[n + 1] = NUL, \A i \in 1..n : b[i] # NUL
  PROVE  strlen(b) = n
<1>1. ASSUME NEW m \in 0..(BUF_SIZE - 1), b[m + 1] = NUL, \A i \in 1..m : b[i] # NUL
      PROVE  m = n
  <2>1. ~(m < n)
    BY <1>1, Sizes
  <2>2. ~(n < m)
    BY <1>1, Sizes
  <2>3. QED
    BY <2>1, <2>2, Sizes
<1>2. QED
  BY <1>1 DEF strlen

\* A text that is shorter than the buffer is put there with its zero.
LEMMA PutText ==
  ASSUME NEW t \in Texts, Len(t) < BUF_SIZE, Put(t)
  PROVE  Terminated' /\ strlen(buf') = Len(t) /\ Len(t) \in Nat
<1>1. Len(t) \in Nat /\ \A i \in 1..Len(t) : t[i] \in Tokens
  BY LenProperties, ElementOfSeq DEF Texts
<1>2. Least(Len(t) + 1, BUF_SIZE) = Len(t) + 1
  BY <1>1, Sizes DEF Least
<1>3. blen' = Len(t)
  BY <1>1, Sizes DEF Put
<1>4. buf'[Len(t) + 1] = NUL
  BY <1>1, <1>2, Sizes DEF Put
<1>5. ASSUME NEW i \in 1..Len(t) PROVE buf'[i] # NUL
  <2>1. i \in 1..BUF_SIZE /\ i # Len(t) + 1 /\ i <= Len(t)
    BY <1>1, Sizes
  <2>2. buf'[i] = t[i]
    BY <1>2, <2>1 DEF Put
  <2>3. QED
    BY <1>1, <2>2, NulAssumption
<1>6. Len(t) \in 0..(BUF_SIZE - 1)
  BY <1>1, Sizes
<1>7. QED
  BY <1>1, <1>3, <1>4, <1>5, <1>6, Strlen DEF Terminated

\* A text that fits is in the buffer, and nothing else is.
LEMMA PutWritten ==
  ASSUME NEW t \in Texts, Len(t) < BUF_SIZE, Put(t)
  PROVE  /\ blen' = Len(t) /\ Written' /\ SubSeq(buf', 1, blen') = t
<1>1. Len(t) \in Nat /\ \A i \in 1..Len(t) : t[i] \in Tokens
  BY LenProperties, ElementOfSeq DEF Texts
<1>2. Least(Len(t) + 1, BUF_SIZE) = Len(t) + 1
  BY <1>1, Sizes DEF Least
<1>3. blen' = Len(t)
  BY <1>1, Sizes DEF Put
<1>4. ASSUME NEW i \in 1..Len(t) PROVE buf'[i] = t[i]
  <2>1. i \in 1..BUF_SIZE /\ i # Len(t) + 1 /\ i <= Len(t)
    BY <1>1, Sizes
  <2>2. QED
    BY <1>2, <2>1 DEF Put
<1>5. Written'
  BY <1>1, <1>3, <1>4 DEF Written
<1>6. SubSeq(buf', 1, blen') = t
  <2> DEFINE u == SubSeq(buf', 1, blen')
  <2>1. /\ u \in Seq(Tokens)
        /\ Len(u) = IF 1 <= blen' THEN blen' - 1 + 1 ELSE 0
        /\ \A i \in 1..(blen' - 1 + 1) : u[i] = buf'[1 + i - 1]
    <3>1. 1 \in Int /\ blen' \in Int /\ \A i \in 1..blen' : buf'[i] \in Tokens
      BY <1>1, <1>3, <1>5 DEF Written
    <3>2. PICK b, n : b = buf' /\ n = blen'
      OBVIOUS
    <3>3. 1 \in Int /\ n \in Int /\ \A i \in 1..n : b[i] \in Tokens
      BY <3>1, <3>2
    <3>4. /\ SubSeq(b, 1, n) \in Seq(Tokens)
          /\ Len(SubSeq(b, 1, n)) = IF 1 <= n THEN n - 1 + 1 ELSE 0
          /\ \A i \in 1..(n - 1 + 1) : SubSeq(b, 1, n)[i] = b[1 + i - 1]
      BY <3>3, SubSeqProperties
    <3>5. QED
      BY <3>2, <3>4
  <2> HIDE DEF u
  <2>2. Len(u) = Len(t)
    BY <1>1, <1>3, <2>1
  <2>3. \A i \in 1..Len(u) : u[i] = t[i]
    BY <1>1, <1>3, <1>4, <2>1, <2>2
  <2>4. u = t
    BY <2>1, <2>2, <2>3, SeqEqual DEF Texts
  <2>5. QED
    BY <2>4 DEF u
<1>7. QED
  BY <1>3, <1>5, <1>6

------------------------------------------------------------------------------
(* The lengths of the texts.                                                *)

LEMMA Triple ==
  ASSUME NEW n \in Names, NEW a \in Int, NEW b \in Int
  PROVE  <<n, a, b>> \in Tokens
BY Zenon DEF Tokens

LEMMA TokenType == ASSUME NEW n \in Names PROVE Token(n) \in Tokens
BY Triple DEF Token

LEMMA OneToken ==
  ASSUME NEW x \in Tokens PROVE <<x>> \in Texts /\ Len(<<x>>) = 1
BY DEF Texts

LEMMA FixedTexts ==
  /\ Heading \in Texts /\ Len(Heading) = 1
  /\ Routes \in Texts /\ Len(Routes) = 1
  /\ Ending \in Texts /\ Len(Ending) = 1
  /\ \A w \in DOMAIN Fixed : Len(Fixed[w]) = 1
<1>1. \A w \in DOMAIN Fixed : Len(Fixed[w]) = 1
  <2>1. DOMAIN Fixed = {"headers", "type", "top", "bottom"}
    BY DEF Fixed
  <2>2. /\ Fixed["headers"] = <<Token("200 OK")>> /\ Fixed["type"] = <<Token("html")>>
        /\ Fixed["top"] = <<Token("TOP")>> /\ Fixed["bottom"] = <<Token("BOTTOM")>>
    BY DEF Fixed
  <2>3. /\ Len(Fixed["headers"]) = 1 /\ Len(Fixed["type"]) = 1
        /\ Len(Fixed["top"]) = 1 /\ Len(Fixed["bottom"]) = 1
    BY <2>2
  <2>4. QED
    BY <2>1, <2>3
<1>2. QED
  BY <1>1, OneToken, TokenType DEF Heading, Routes, Ending, Names

LEMMA RouteTexts ==
  ASSUME NEW x \in Nat
  PROVE  /\ Link(x) \in Texts /\ Len(Link(x)) < BUF_SIZE
         /\ Via(x) \in Texts /\ Len(Via(x)) < BUF_SIZE
<1>1. Token("junk") \in Tokens /\ <<"link", x, 1>> \in Tokens
  <2>1. "junk" \in Names /\ "link" \in Names /\ x \in Int /\ 1 \in Int
    BY DEF Names
  <2>2. QED
    BY <2>1, TokenType, Triple
<1>2. Link(x) \in Texts /\ Len(Link(x)) < BUF_SIZE
  BY <1>1, OneToken, Sizes DEF Link
<1>3. CASE x > ROUTES
  BY <1>1, <1>2, <1>3, OneToken, Sizes DEF Via
<1>4. CASE ~(x > ROUTES)
  <2>0. ASSUME NEW k \in 1..RouteSize PROVE <<"route", x, k>> \in Tokens
    <3>1. "route" \in Names /\ x \in Int /\ k \in Int
      BY DEF Names
    <3>2. QED
      BY <3>1, Triple
  <2>1. [k \in 1..RouteSize |-> <<"route", x, k>>] \in [1..RouteSize -> Tokens]
    BY <2>0
  <2>2. Via(x) \in Texts /\ Len(Via(x)) = RouteSize
    BY <1>4, <2>1, Sizes, SeqDef DEF Via, Texts
  <2>3. QED
    BY <1>2, <2>2, Sizes
<1>5. QED
  BY <1>3, <1>4

LEMMA SmallestOf ==
  ASSUME NEW S \in SUBSET Nat, S # {}
  PROVE  \E n \in S : \A k \in S : n <= k
<1> DEFINE R == OpToRel(<, Nat)
<1>1. PICK n \in S : \A k \in S : ~(<<k, n>> \in R)
  BY NatLessThanWellFounded, WFMin, Zenon
<1>2. ASSUME NEW k \in S PROVE n <= k
  <2>1. ~(<<k, n>> \in R)
    BY <1>1
  <2>2. k \in Nat /\ n \in Nat
    OBVIOUS
  <2>3. ~(k < n)
    BY <2>1, <2>2 DEF OpToRel
  <2>4. QED
    BY <2>2, <2>3
<1>3. QED
  BY <1>2

\* The ends of the lines of a table are in order.
LEMMA Ends ==
  ASSUME ends \in Tables
  PROVE  /\ \A m \in 0..NBRS : ends[m] \in Nat
         /\ ends[0] = 0
         /\ \A m \in 1..NBRS : /\ Size(m) \in Nat /\ Size(m) < BUF_SIZE
                               /\ ends[m] = ends[m - 1] + Size(m)
         /\ \A m \in 0..NBRS : \A i \in 0..m : ends[i] <= ends[m]
<1>1. /\ ends \in [0..NBRS -> 0..(NBRS * BUF_SIZE)] /\ ends[0] = 0
      /\ \A m \in 1..NBRS : Size(m) \in LineSizes
  BY DEF Tables, Size
<1>2. \A m \in 0..NBRS : ends[m] \in Nat
  <2>1. NBRS * BUF_SIZE \in Nat
    BY Sizes
  <2>2. QED
    BY <1>1, <2>1
<1>3. ASSUME NEW m \in 1..NBRS
      PROVE  /\ Size(m) \in Nat /\ Size(m) > 0 /\ Size(m) < BUF_SIZE
             /\ ends[m] = ends[m - 1] + Size(m)
  <2>1. m \in 0..NBRS /\ m - 1 \in 0..NBRS
    BY Sizes
  <2>2. QED
    BY <1>1, <1>2, <2>1, Sizes DEF Size
<1>4. ASSUME NEW m \in 0..NBRS, NEW i \in 0..m PROVE ends[i] <= ends[m]
  <2> DEFINE Bad == {n \in i..m : ~(ends[i] <= ends[n])}
  <2>1. SUFFICES ASSUME Bad # {} PROVE FALSE
    BY Sizes
  <2>2. PICK n \in Bad : \A j \in Bad : n <= j
    <3>1. Bad \in SUBSET Nat
      BY Sizes
    <3> HIDE DEF Bad
    <3>2. QED
      BY <2>1, <3>1, SmallestOf
  <2>3. n \in i..m /\ i \in Nat /\ m \in Nat /\ m <= NBRS /\ n \in 0..NBRS /\ i \in 0..NBRS
    BY Sizes
  <2>4. n # i
    BY <1>2, <2>2, <2>3
  <2>5. n - 1 \in i..m /\ n \in 1..NBRS /\ n - 1 \in 0..NBRS /\ ~(n <= n - 1)
    BY <2>3, <2>4, Sizes
  <2>6. ends[i] <= ends[n - 1]
    BY <2>2, <2>5
  <2>7. QED
    BY <1>2, <1>3, <2>2, <2>3, <2>5, <2>6
<1>5. QED
  BY <1>1, <1>2, <1>3, <1>4

LEMMA LineTexts ==
  ASSUME ends \in Tables, NEW i \in 1..(NBRS + 1), NEW m \in 0..NBRS, i <= m + 1
  PROVE  /\ Lines(i, m) \in Texts /\ Len(Lines(i, m)) = ends[m] - ends[i - 1]
         /\ ends[m] - ends[i - 1] \in Nat
<1> DEFINE n == ends[m] - ends[i - 1]
<1>1. n \in Nat /\ ends[i - 1] \in Nat
  <2>1. i - 1 \in 0..NBRS /\ i - 1 \in 0..m
    BY Sizes
  <2>2. QED
    BY <2>1, Ends
<1> HIDE DEF n
<1>2. ASSUME NEW k \in 1..n PROVE <<"nbr", ends[i - 1] + k, 0>> \in Tokens
  <2>1. "nbr" \in Names /\ ends[i - 1] + k \in Int /\ 0 \in Int
    BY <1>1 DEF Names
  <2>2. QED
    BY <2>1, Triple
<1>3. [k \in 1..n |-> <<"nbr", ends[i - 1] + k, 0>>] \in [1..n -> Tokens]
  BY <1>2
<1>4. Lines(i, m) \in [1..n -> Tokens]
  BY <1>3 DEF Lines, n
<1>5. Lines(i, m) \in Texts /\ Len(Lines(i, m)) = n
  BY <1>1, <1>4, SeqDef DEF Texts
<1>6. QED
  BY <1>1, <1>5 DEF n

\* After a text that does not make the buffer full, the first line that does fits,
\* or is longer than the margin; if none does, the heading of the routes fits.
LEMMA Room ==
  ASSUME ends \in Tables, NEW t \in Texts, Len(t) <= BUF_SIZE - Margin,
         NEW i \in 1..(NBRS + 1)
  PROVE  /\ \A m \in i..NBRS :
              (\A k \in i..NBRS : Full(t \o Lines(i, k)) => m <= k)
                => /\ t \o Lines(i, m) \in Texts
                   /\ Len(t \o Lines(i, m)) \in Nat
                   /\ Len(t \o Lines(i, m)) <= (BUF_SIZE - Margin) + Size(m)
         /\ (\A k \in i..NBRS : ~Full(t \o Lines(i, k)))
              => /\ t \o Lines(i, NBRS) \o Routes \in Texts
                 /\ Len(t \o Lines(i, NBRS) \o Routes) < BUF_SIZE
<1>1. Len(t) \in Nat /\ i \in Nat /\ i >= 1 /\ i <= NBRS + 1
  BY LenProperties, Sizes DEF Texts
<1>2. ASSUME NEW m \in 0..NBRS, i <= m + 1
      PROVE  /\ t \o Lines(i, m) \in Texts
             /\ Len(t \o Lines(i, m)) = Len(t) + (ends[m] - ends[i - 1])
             /\ Len(t \o Lines(i, m)) \in Nat
  <2>1. Lines(i, m) \in Texts /\ Len(Lines(i, m)) = ends[m] - ends[i - 1]
    BY <1>2, LineTexts
  <2>2. QED
    BY <2>1, ConcatProperties, LenProperties DEF Texts
<1>3. ASSUME NEW m \in i..NBRS, \A k \in i..NBRS : Full(t \o Lines(i, k)) => m <= k
      PROVE  /\ t \o Lines(i, m) \in Texts /\ Len(t \o Lines(i, m)) \in Nat
             /\ Len(t \o Lines(i, m)) <= (BUF_SIZE - Margin) + Size(m)
  <2>1. m \in 1..NBRS /\ m \in 0..NBRS /\ i <= m + 1 /\ m - 1 \in 0..NBRS /\ i - 1 \in 0..NBRS
    BY <1>1, Sizes
  <2>2. /\ Size(m) \in Nat /\ ends[m] = ends[m - 1] + Size(m)
        /\ ends[m] \in Nat /\ ends[m - 1] \in Nat /\ ends[i - 1] \in Nat
    BY <2>1, Ends
  <2>3. Len(t \o Lines(i, m)) = Len(t) + (ends[m] - ends[i - 1])
    BY <1>2, <2>1
  <2>4. PICK n \in Nat, a \in Nat, b \in Nat, e \in Nat, z \in Nat, w \in Nat :
          /\ n = Len(t) /\ a = ends[m] /\ b = ends[m - 1] /\ e = ends[i - 1] /\ z = Size(m)
          /\ w = Len(t \o Lines(i, m))
    BY <1>1, <1>2, <2>1, <2>2
  <2>5. /\ a = b + z /\ w = n + (a - e) /\ n <= BUF_SIZE - Margin
    BY <2>2, <2>3, <2>4
  <2>6. w <= (BUF_SIZE - Margin) + z
    <3>1. CASE m = i
      <4>1. b = e
        BY <2>4, <3>1
      <4>2. QED
        BY <2>5, <4>1, Sizes
    <3>2. CASE m # i
      <4>1. m - 1 \in i..NBRS /\ i <= (m - 1) + 1
        BY <1>1, <2>1, <3>2, Sizes
      <4>2. ~Full(t \o Lines(i, m - 1))
        BY <1>3, <2>1, <4>1, Sizes
      <4>3. /\ Len(t \o Lines(i, m - 1)) = Len(t) + (ends[m - 1] - ends[i - 1])
            /\ Len(t \o Lines(i, m - 1)) \in Nat
        BY <1>2, <2>1, <4>1
      <4>4. PICK v \in Nat : v = Len(t \o Lines(i, m - 1))
        BY <4>3
      <4>5. v = n + (b - e) /\ v <= BUF_SIZE - Margin
        BY <2>4, <4>2, <4>3, <4>4, Sizes DEF Full
      <4>6. QED
        BY <2>5, <4>5, Sizes
    <3>3. QED
      BY <3>1, <3>2
  <2>7. QED
    BY <1>2, <2>1, <2>4, <2>6
<1>4. ASSUME \A k \in i..NBRS : ~Full(t \o Lines(i, k))
      PROVE  /\ t \o Lines(i, NBRS) \o Routes \in Texts
             /\ Len(t \o Lines(i, NBRS) \o Routes) < BUF_SIZE
  <2> DEFINE u == t \o Lines(i, NBRS)
  <2>0. NBRS \in 0..NBRS /\ i - 1 \in 0..NBRS
    BY <1>1, Sizes
  <2>1. /\ u \in Texts /\ Len(u) = Len(t) + (ends[NBRS] - ends[i - 1])
        /\ Len(u) \in Nat
    BY <1>1, <1>2, <2>0
  <2>2. Len(u) + 1 < BUF_SIZE
    <3>1. CASE i <= NBRS
      <4>1. ~Full(u)
        BY <1>1, <1>4, <3>1, Sizes
      <4>2. QED
        BY <2>1, <4>1, Sizes DEF Full
    <3>2. CASE ~(i <= NBRS)
      <4>1. i - 1 = NBRS
        BY <1>1, <3>2, Sizes
      <4>2. ends[NBRS] \in Nat
        BY <2>0, Ends
      <4>3. Len(u) = Len(t)
        BY <1>1, <2>1, <4>1, <4>2
      <4>4. QED
        BY <1>1, <4>3, Sizes
    <3>3. QED
      BY <3>1, <3>2
  <2>3. u \o Routes \in Texts /\ Len(u \o Routes) = Len(u) + 1
    <3>1. PICK v \in Texts, q \in Texts : v = u /\ q = Routes
      BY <2>1, FixedTexts
    <3>2. v \o q \in Texts /\ Len(v \o q) = Len(v) + Len(q)
      BY ConcatProperties DEF Texts
    <3>3. QED
      BY <3>1, <3>2, FixedTexts
  <2>4. QED
    BY <2>1, <2>2, <2>3
<1>5. QED
  BY <1>3, <1>4

\* What is in the buffer when the length has wrapped: as many characters as there
\* are past its end.
LEMMA Wrapped ==
  ASSUME NEW t \in Texts, BUF_SIZE <= Len(t), NEW k \in 0..(Len(t) - BUF_SIZE)
  PROVE  /\ SubSeq(t, 1, k) \o SubSeq(t, BUF_SIZE + k + 1, Len(t)) \in Texts
         /\ Len(SubSeq(t, 1, k) \o SubSeq(t, BUF_SIZE + k + 1, Len(t)))
              = Len(t) - BUF_SIZE
<1>1. Len(t) \in Nat /\ \A i \in 1..Len(t) : t[i] \in Tokens
  BY LenProperties, ElementOfSeq DEF Texts
<1>2. k \in Nat /\ k <= Len(t) /\ BUF_SIZE + k <= Len(t)
  BY <1>1, Sizes
<1>3. SubSeq(t, 1, k) \in Texts /\ Len(SubSeq(t, 1, k)) = k
  <2>1. 1 \in Int /\ k \in Int /\ \A i \in 1..k : t[i] \in Tokens
    BY <1>1, <1>2
  <2>2. SubSeq(t, 1, k) \in Seq(Tokens)
        /\ Len(SubSeq(t, 1, k)) = IF 1 <= k THEN k - 1 + 1 ELSE 0
    BY <2>1, SubSeqProperties
  <2>3. QED
    BY <1>2, <2>2 DEF Texts
<1>4. /\ SubSeq(t, BUF_SIZE + k + 1, Len(t)) \in Texts
      /\ Len(SubSeq(t, BUF_SIZE + k + 1, Len(t))) = Len(t) - (BUF_SIZE + k)
  <2> DEFINE a == BUF_SIZE + k + 1
  <2>1. a \in Int /\ Len(t) \in Int /\ \A i \in a..Len(t) : t[i] \in Tokens
    BY <1>1, <1>2, Sizes
  <2>2. a <= Len(t) + 1 /\ Len(t) - a + 1 = Len(t) - (BUF_SIZE + k)
    BY <1>1, <1>2, Sizes
  <2> HIDE DEF a
  <2>3. SubSeq(t, a, Len(t)) \in Seq(Tokens)
        /\ Len(SubSeq(t, a, Len(t))) = IF a <= Len(t) THEN Len(t) - a + 1 ELSE 0
    BY <2>1, SubSeqProperties
  <2>4. Len(SubSeq(t, a, Len(t))) = Len(t) - (BUF_SIZE + k)
    BY <1>1, <2>1, <2>2, <2>3
  <2>5. QED
    BY <2>3, <2>4 DEF a, Texts
<1>5. PICK x \in Texts, y \in Texts :
        x = SubSeq(t, 1, k) /\ y = SubSeq(t, BUF_SIZE + k + 1, Len(t))
  BY <1>3, <1>4
<1>6. x \o y \in Texts /\ Len(x \o y) = Len(x) + Len(y)
  BY ConcatProperties DEF Texts
<1>7. Len(x) = k /\ Len(y) = Len(t) - (BUF_SIZE + k)
  BY <1>3, <1>4, <1>5
<1>8. Len(x \o y) = Len(t) - BUF_SIZE
  BY <1>1, <1>2, <1>6, <1>7, Sizes
<1>9. QED
  BY <1>5, <1>6, <1>8

------------------------------------------------------------------------------
\* The callback of c is the one that runs.
Turn(c) == \A d \in Conns \ {c} : at[d] # "filling"

\* A piece of text that fits goes into the buffer and is sent.
LEMMA SendBufInv ==
  ASSUME IInv, NEW c \in Conns, Turn(c), NEW w \in Places \ {"filling"},
         NEW t \in Texts, Len(t) < BUF_SIZE, SendBuf(c, w, t), UNCHANGED visitors,
         nbr' \in 1..(NBRS + 1), r' \in 1..(ROUTES + 1)
  PROVE  IInv'
<1>0. Put(t) /\ Send(c, w, buf', strlen(buf'))
  BY DEF SendBuf
<1>1. Terminated' /\ strlen(buf') = Len(t) /\ Len(t) \in Nat /\ Written'
  BY <1>0, PutText, PutWritten
<1>2. /\ at' = [at EXCEPT ![c] = w]
      /\ sendptr' = [sendptr EXCEPT ![c] = 0]
      /\ sendlen' = [sendlen EXCEPT ![c] = Len(t)]
      /\ state' = state /\ ends' = ends /\ overrun' = overrun
  BY <1>0, <1>1 DEF SendBuf, Send
<1>3. intact' \in [Conns -> BOOLEAN]
  BY DEF SendBuf, Overlap
<1>4. \A d \in Conns : sendptr'[d] + sendlen'[d] <= BUF_SIZE
  BY <1>1, <1>2, Sizes DEF IInv, Typed
<1>5. Typed'
  <2>1. ends' \in Tables
    BY <1>2 DEF IInv, Typed
  <2>2. QED
    BY <1>1, <1>2, <1>3, <1>4, <2>1 DEF IInv, Typed
<1>6. Overruns'
  <2>1. \A d \in Conns : at'[d] # "filling"
    BY <1>2 DEF Turn, IInv, Typed
  <2>2. Size(overrun)' = Size(overrun)
    BY <1>2 DEF Size
  <2>3. QED
    BY <1>2, <2>1, <2>2 DEF IInv, Overruns
<1>7. QED
  BY <1>1, <1>5, <1>6 DEF IInv

LEMMA SendFixedInv ==
  ASSUME IInv, NEW c \in Conns, Turn(c), NEW w \in DOMAIN Fixed,
         Send(c, w, buf, Len(Fixed[w])),
         state' \in [Conns -> {"free", "waiting", "output", "closed"}],
         UNCHANGED <<static, intact, visitors>>
  PROVE  IInv'
<1>1. Len(Fixed[w]) = 1
  BY FixedTexts
<1>2. \A d \in Conns : sendptr'[d] + sendlen'[d] <= BUF_SIZE
  <2>1. sendptr' = [sendptr EXCEPT ![c] = 0] /\ sendlen' = [sendlen EXCEPT ![c] = 1]
    BY <1>1 DEF Send
  <2>2. QED
    BY <2>1, Sizes DEF IInv, Typed
<1>3. w \in Places /\ w # "filling"
  BY DEF Places, Fixed
<1>4. Typed'
  <2>1. Len(Fixed[w]) \in Nat
    BY <1>1
  <2>2. QED
    BY <1>2, <1>3, <2>1 DEF Send, static, IInv, Typed
<1>5. Terminated' /\ Written'
  BY DEF static, IInv, Terminated, Written
<1>6. Overruns'
  <2>1. \A d \in Conns : at'[d] # "filling"
    BY <1>3 DEF Send, Turn, IInv, Typed
  <2>2. QED
    BY <2>1 DEF static, IInv, Overruns, Size
<1>7. QED
  BY <1>4, <1>5, <1>6 DEF IInv

\* The send of a connection is over.
LEMMA IdleInv ==
  ASSUME IInv, NEW c \in Conns, Turn(c), Idle(c), UNCHANGED <<static, visitors>>,
         state' \in [Conns -> {"free", "waiting", "output", "closed"}],
         intact' \in [Conns -> BOOLEAN]
  PROVE  IInv'
<1>1. "headers" \in Places
  BY DEF Places, Fixed
<1>2. \A d \in Conns : sendptr'[d] + sendlen'[d] <= BUF_SIZE
  BY Sizes DEF Idle, IInv, Typed
<1>3. Typed'
  BY <1>1, <1>2 DEF Idle, IInv, Typed, static
<1>4. Terminated' /\ Written'
  BY DEF IInv, Terminated, Written, static
<1>5. Overruns'
  <2>1. \A d \in Conns : at'[d] # "filling"
    BY DEF Idle, Turn, IInv, Typed
  <2>2. QED
    BY <2>1 DEF static, IInv, Overruns, Size
<1>6. QED
  BY <1>3, <1>4, <1>5 DEF IInv

\* A long line wraps the length.
LEMMA RunOverInv ==
  ASSUME IInv, NEW c \in Conns, Turn(c), state[c] = "output", NEW m \in 1..NBRS,
         NEW t \in Texts, Len(t) >= BUF_SIZE, Len(t) <= (BUF_SIZE - Margin) + Size(m),
         RunOver(c, m, t), UNCHANGED visitors,
         nbr' \in 1..(NBRS + 1), r' \in 1..(ROUTES + 1)
  PROVE  IInv'
<1>1. PICK k \in 0..(Len(t) - BUF_SIZE) :
        Put(SubSeq(t, 1, k) \o SubSeq(t, BUF_SIZE + k + 1, Len(t)))
  BY DEF RunOver
<1>2. PICK u \in Texts : /\ u = SubSeq(t, 1, k) \o SubSeq(t, BUF_SIZE + k + 1, Len(t))
                         /\ Len(u) = Len(t) - BUF_SIZE
  BY Wrapped
<1>3. Size(m) \in Nat /\ Size(m) < BUF_SIZE /\ ends \in Tables /\ Len(t) \in Nat
  BY Ends, LenProperties DEF IInv, Typed, Texts
<1>4. Len(u) \in Nat /\ Len(u) <= BUF_SIZE - Margin /\ Len(u) < BUF_SIZE
      /\ Size(m) >= Margin
  <2>0. Len(u) \in Nat
    BY LenProperties DEF Texts
  <2>1. PICK n \in Nat, z \in Nat, v \in Nat : n = Len(t) /\ z = Size(m) /\ v = Len(u)
    BY <1>3, <2>0
  <2>2. n >= BUF_SIZE /\ n <= (BUF_SIZE - Margin) + z /\ z < BUF_SIZE /\ v = n - BUF_SIZE
    BY <1>2, <1>3, <2>1
  <2>3. v \in Nat /\ v <= BUF_SIZE - Margin /\ v < BUF_SIZE /\ z >= Margin
    BY <2>2, Sizes
  <2>4. QED
    BY <2>1, <2>3
<1>5. Terminated' /\ Written' /\ blen' = Len(u)
  BY <1>1, <1>2, <1>4, PutText, PutWritten
<1>6. /\ at' = [at EXCEPT ![c] = "filling"] /\ sendptr' = [sendptr EXCEPT ![c] = 0]
      /\ sendlen' = [sendlen EXCEPT ![c] = 0]
      /\ state' = state /\ ends' = ends /\ overrun' = m
      /\ intact' = [d \in Conns |-> intact[d] /\ d # c /\ ~InGenerator(d)]
  BY DEF RunOver, Send
<1>7. Typed'
  <2>1. "filling" \in Places /\ m \in 0..NBRS /\ intact' \in [Conns -> BOOLEAN]
    BY <1>6, Sizes DEF Places
  <2>2. \A d \in Conns : sendptr'[d] + sendlen'[d] <= BUF_SIZE
    BY <1>6, Sizes DEF IInv, Typed
  <2>3. ends' \in Tables
    BY <1>3, <1>6
  <2>4. QED
    BY <1>6, <2>1, <2>2, <2>3 DEF IInv, Typed
<1>8. Overruns'
  <2>1. Size(overrun)' = Size(m)
    BY <1>6 DEF Size
  <2>2. \A d \in Conns : at'[d] = "filling" => d = c
    BY <1>6 DEF Turn, IInv, Typed
  <2>3. state'[c] = "output" /\ ~intact'[c] /\ blen' <= BUF_SIZE - Margin
    BY <1>4, <1>5, <1>6
  <2>4. QED
    BY <1>4, <2>1, <2>2, <2>3 DEF Overruns
<1>9. QED
  BY <1>5, <1>7, <1>8 DEF IInv

LEMMA NeighboursInv ==
  ASSUME IInv, NEW c \in Conns, Turn(c), state[c] = "output",
         NEW t \in Texts, Len(t) <= BUF_SIZE - Margin,
         NEW i \in 1..(NBRS + 1), Neighbours(c, t, i), UNCHANGED <<r, visitors>>
  PROVE  IInv'
<1> DEFINE stops == {m \in i..NBRS : Full(t \o Lines(i, m))}
           m == CHOOSE m \in stops : \A k \in stops : m <= k
           whole == t \o Lines(i, m)
<1>1. r' \in 1..(ROUTES + 1) /\ ends \in Tables
  BY DEF IInv, Typed
<1>2. {"neighbour", "neighbours"} \subseteq Places \ {"filling"}
  BY DEF Places
<1>3. CASE stops # {}
  <2>1. stops \in SUBSET Nat
    BY Sizes
  <2>2. \E n \in stops : \A k \in stops : n <= k
    BY <1>3, <2>1, SmallestOf
  <2>3. m \in stops /\ \A k \in stops : m <= k
    BY <2>2
  <2>4. nbr' = m /\ IF Len(whole) < BUF_SIZE THEN SendBuf(c, "neighbour", whole)
                                             ELSE RunOver(c, m, whole)
    BY <1>3 DEF Neighbours
  <2>5. m \in i..NBRS /\ \A k \in i..NBRS : Full(t \o Lines(i, k)) => m <= k
    BY <2>3
  <2> HIDE DEF m, stops
  <2>6. whole \in Texts /\ Len(whole) \in Nat
        /\ Len(whole) <= (BUF_SIZE - Margin) + Size(m)
    BY <1>1, <2>5, Room
  <2>7. nbr' \in 1..(NBRS + 1) /\ m \in 1..NBRS
    BY <2>4, <2>5, Sizes
  <2> HIDE DEF whole
  <2>8. CASE Len(whole) < BUF_SIZE
    BY <1>1, <1>2, <2>4, <2>6, <2>7, <2>8, SendBufInv
  <2>9. CASE ~(Len(whole) < BUF_SIZE)
    <3>1. Len(whole) >= BUF_SIZE
      BY <2>6, <2>9, Sizes
    <3>2. QED
      BY <1>1, <2>4, <2>6, <2>7, <2>9, <3>1, RunOverInv
  <2>10. QED
    BY <2>8, <2>9
<1>4. CASE stops = {}
  <2>1. nbr' = NBRS + 1 /\ SendBuf(c, "neighbours", t \o Lines(i, NBRS) \o Routes)
    BY <1>4 DEF Neighbours
  <2>2. /\ t \o Lines(i, NBRS) \o Routes \in Texts
        /\ Len(t \o Lines(i, NBRS) \o Routes) < BUF_SIZE
    BY <1>1, <1>4, Room
  <2>3. nbr' \in 1..(NBRS + 1)
    BY <2>1, Sizes
  <2>4. QED
    BY <1>1, <1>2, <2>1, <2>2, <2>3, SendBufInv
<1>5. QED
  BY <1>3, <1>4

LEMMA RouteInv ==
  ASSUME IInv, NEW c \in Conns, Turn(c), NEW x \in 1..(ROUTES + 1), Route(c, x),
         UNCHANGED visitors
  PROVE  IInv'
<1>1. /\ Link(x) \in Texts /\ Len(Link(x)) < BUF_SIZE
      /\ Ending \in Texts /\ Len(Ending) < BUF_SIZE
  <2>1. x \in Nat
    BY Sizes
  <2>2. QED
    BY <2>1, RouteTexts, FixedTexts, Sizes
<1>2. r' \in 1..(ROUTES + 1) /\ nbr' \in 1..(NBRS + 1)
  BY DEF Route, IInv, Typed
<1>3. "ending" \in Places \ {"filling"} /\ "link" \in Places \ {"filling"}
  BY DEF Places
<1>4. SendBuf(c, "ending", Ending) \/ SendBuf(c, "link", Link(x))
  BY DEF Route
<1>5. QED
  BY <1>1, <1>2, <1>3, <1>4, SendBufInv

\* The generator goes on to its next send.
LEMMA ResumeInv ==
  ASSUME IInv, NEW c \in Conns, Turn(c), state[c] = "output", Resume(c),
         UNCHANGED visitors
  PROVE  IInv'
<1>1. {"type", "top", "bottom"} \subseteq DOMAIN Fixed
  BY DEF Fixed
<1>2. state \in [Conns -> {"free", "waiting", "output", "closed"}]
      /\ nbr \in 1..(NBRS + 1) /\ r \in 1..(ROUTES + 1)
  BY DEF IInv, Typed
<1>3. CASE SendFixed(c, "type") \/ SendFixed(c, "top") \/ SendFixed(c, "bottom")
  BY <1>1, <1>2, <1>3, SendFixedInv DEF SendFixed
<1>4. CASE Neighbours(c, Heading, 1) /\ UNCHANGED r
  <2>1. 1 \in 1..(NBRS + 1)
    BY Sizes
  <2>2. Heading \in Texts /\ Len(Heading) <= BUF_SIZE - Margin
    BY FixedTexts, Sizes
  <2>3. QED
    BY <1>4, <2>1, <2>2, NeighboursInv
<1>5. CASE Neighbours(c, <<>>, NextOf(nbr, NBRS)) /\ UNCHANGED r
  <2>1. NextOf(nbr, NBRS) \in 1..(NBRS + 1)
    BY <1>2, Sizes DEF NextOf
  <2>2. <<>> \in Texts /\ Len(<<>>) <= BUF_SIZE - Margin
    BY EmptySeq, Sizes DEF Texts
  <2>3. QED
    BY <1>5, <2>1, <2>2, NeighboursInv
<1>6. CASE Route(c, 1)
  <2>1. 1 \in 1..(ROUTES + 1)
    BY Sizes
  <2>2. QED
    BY <1>6, <2>1, RouteInv
<1>7. CASE SendBuf(c, "route", Via(r)) /\ UNCHANGED <<nbr, r>>
  <2>1. "route" \in Places \ {"filling"}
    BY DEF Places
  <2>2. r \in Nat
    BY <1>2, Sizes
  <2>3. Via(r) \in Texts /\ Len(Via(r)) < BUF_SIZE
    BY <2>2, RouteTexts
  <2>4. QED
    BY <1>2, <1>7, <2>1, <2>3, SendBufInv
<1>8. CASE Route(c, NextOf(r, ROUTES))
  <2>1. NextOf(r, ROUTES) \in 1..(ROUTES + 1)
    BY <1>2, Sizes DEF NextOf
  <2>2. QED
    BY <1>8, <2>1, RouteInv
<1>9. CASE /\ state' = [state EXCEPT ![c] = "closed"]
           /\ Idle(c) /\ UNCHANGED <<static, intact>>
  <2>1. state' \in [Conns -> {"free", "waiting", "output", "closed"}]
        /\ intact' \in [Conns -> BOOLEAN]
    BY <1>2, <1>9 DEF IInv, Typed
  <2>2. QED
    BY <1>9, <2>1, IdleInv
<1>10. QED
  BY <1>3, <1>4, <1>5, <1>6, <1>7, <1>8, <1>9 DEF Resume

(* One lemma per callback that does more than that.                         *)

LEMMA RequestInv ==
  ASSUME IInv, NEW c \in Conns, Turn(c), Request(c) PROVE IInv'
<1>1. "headers" \in DOMAIN Fixed /\ Fixed.headers = Fixed["headers"]
  BY DEF Fixed
<1>2. state' \in [Conns -> {"free", "waiting", "output", "closed"}]
  BY DEF Request, IInv, Typed
<1>3. QED
  BY <1>1, <1>2, SendFixedInv DEF Request

LEMMA AckedInv ==
  ASSUME IInv, NEW c \in Conns, ~Filling, Acked(c) PROVE IInv'
<1>1. CASE sendlen[c] > MSS
  <2>1. /\ sendptr' = [sendptr EXCEPT ![c] = @ + MSS]
        /\ sendlen' = [sendlen EXCEPT ![c] = @ - MSS]
        /\ UNCHANGED <<state, at, static, intact, visitors>>
    BY <1>1 DEF Acked
  <2>2. sendptr[c] \in Nat /\ sendlen[c] \in Nat /\ sendptr[c] + sendlen[c] <= BUF_SIZE
    BY DEF IInv, Typed
  <2>3. sendptr[c] + MSS \in Nat /\ sendlen[c] - MSS \in Nat
        /\ (sendptr[c] + MSS) + (sendlen[c] - MSS) <= BUF_SIZE
    BY <1>1, <2>2, Sizes
  <2>4. Typed'
    BY <2>1, <2>3 DEF IInv, Typed, static
  <2>5. Terminated' /\ Written' /\ Overruns'
    BY <2>1 DEF IInv, Terminated, Written, Overruns, Size, static
  <2>6. QED
    BY <2>4, <2>5 DEF IInv
<1>2. CASE ~(sendlen[c] > MSS)
  BY <1>2, ResumeInv DEF Acked, Filling, Turn
<1>3. QED
  BY <1>1, <1>2

\* What is left of a callback in which the length has wrapped.
LEMMA GoOnInv == ASSUME IInv, NEW c \in Conns, GoOn(c) PROVE IInv'
<1>1. /\ Turn(c) /\ state[c] = "output" /\ blen \in Nat /\ blen <= BUF_SIZE - Margin
      /\ nbr \in 1..(NBRS + 1)
  BY Sizes DEF GoOn, Turn, IInv, Typed, Terminated, Overruns
<1>2. /\ SubSeq(buf, 1, blen) \in Texts
      /\ Len(SubSeq(buf, 1, blen)) <= BUF_SIZE - Margin
  <2>1. 1 \in Int /\ blen \in Int /\ \A i \in 1..blen : buf[i] \in Tokens
    BY <1>1 DEF IInv, Written
  <2>2. /\ SubSeq(buf, 1, blen) \in Seq(Tokens)
        /\ Len(SubSeq(buf, 1, blen)) = IF 1 <= blen THEN blen - 1 + 1 ELSE 0
    BY <2>1, SubSeqProperties
  <2>3. QED
    BY <1>1, <2>2, Sizes DEF Texts
<1>3. NextOf(nbr, NBRS) \in 1..(NBRS + 1)
  BY <1>1, Sizes DEF NextOf
<1>4. Neighbours(c, SubSeq(buf, 1, blen), NextOf(nbr, NBRS)) /\ UNCHANGED <<r, visitors>>
  BY DEF GoOn
<1>5. QED
  BY <1>1, <1>2, <1>3, <1>4, NeighboursInv

LEMMA EndInv == ASSUME IInv, NEW c \in Conns, Turn(c), End(c) PROVE IInv'
<1>1. state' \in [Conns -> {"free", "waiting", "output", "closed"}]
      /\ intact' \in [Conns -> BOOLEAN]
  BY DEF End, IInv, Typed
<1>2. QED
  BY <1>1, IdleInv DEF End

\* Callbacks that leave the psock and the static variables alone.
LEMMA OtherInv ==
  ASSUME IInv, UNCHANGED <<at, sendptr, sendlen, static, intact>>,
         UNCHANGED state \/ ~Filling,
         state' \in [Conns -> {"free", "waiting", "output", "closed"}],
         visitors' \in BOOLEAN
  PROVE  IInv'
<1>1. Typed' /\ Terminated' /\ Written'
  BY DEF IInv, Typed, Terminated, Written, static
<1>2. Overruns'
  BY DEF IInv, Overruns, Size, static, Filling
<1>3. QED
  BY <1>1, <1>2 DEF IInv

LEMMA InitInv == Init => IInv
<1> SUFFICES ASSUME Init PROVE IInv
  OBVIOUS
<1>1. "headers" \in Places
  BY DEF Places, Fixed
<1>2. Typed
  BY <1>1, Sizes DEF Init, Typed
<1>3. Terminated /\ Written
  BY Sizes DEF Init, Terminated, Written
<1>4. Overruns
  BY DEF Init, Overruns
<1>5. QED
  BY <1>2, <1>3, <1>4 DEF IInv

LEMMA NextInv == ASSUME IInv, [Next]_vars PROVE IInv'
<1>1. CASE UNCHANGED vars \/ NoMoreVisitors
  BY <1>1, OtherInv DEF vars, psock, NoMoreVisitors, IInv, Typed
<1>2. ASSUME NEW c \in Conns, ~Filling, Connect(c) \/ BadRequest(c) \/ Rexmit(c)
      PROVE  IInv'
  BY <1>2, OtherInv DEF psock, Connect, BadRequest, Rexmit, IInv, Typed
<1>3. ASSUME NEW c \in Conns, ~Filling PROVE Turn(c)
  BY <1>3 DEF Filling, Turn
<1>4. QED
  BY <1>1, <1>2, <1>3, RequestInv, AckedInv, GoOnInv, EndInv DEF Next

LEMMA Inductive == Spec => []IInv
BY InitInv, NextInv, PTL DEF Spec

------------------------------------------------------------------------------
\* Every variable keeps its type: a send stays inside the buffer, and the
\* iterators, which all connections move, inside their tables or one past them.
THEOREM TypeCorrect == Spec => []TypeOK
<1>1. IInv => TypeOK
  <2> SUFFICES ASSUME IInv PROVE TypeOK
    OBVIOUS
  <2>1. ASSUME NEW c \in Conns
        PROVE  sendptr[c] \in 0..BUF_SIZE /\ sendlen[c] \in 0..BUF_SIZE
    BY Sizes DEF IInv, Typed
  <2>2. sendptr \in [Conns -> 0..BUF_SIZE] /\ sendlen \in [Conns -> 0..BUF_SIZE]
    BY <2>1 DEF IInv, Typed
  <2>3. QED
    BY <2>2 DEF TypeOK, IInv, Typed, Terminated, Places
<1>2. QED
  BY <1>1, Inductive, PTL

\* Whoever wrote last, blen is the length of the text in the buffer; and text is cut
\* off by the end of the buffer only if a line is as long as the margin or longer.
THEOREM TextAndLength == Spec => []LengthOfText
<1>1. IInv => LengthOfText
  BY Strlen DEF IInv, Terminated, Overruns, LengthOfText
<1>2. QED
  BY <1>1, Inductive, PTL

------------------------------------------------------------------------------
(* The contents of a page.  First: texts put together.                       *)

LEMMA ConcatText ==
  ASSUME NEW a \in Texts, NEW b \in Texts
  PROVE  a \o b \in Texts /\ Len(a \o b) = Len(a) + Len(b) /\ Len(a) \in Nat
BY ConcatProperties, LenProperties DEF Texts

LEMMA ConcatAssoc ==
  ASSUME NEW a \in Texts, NEW b \in Texts, NEW c \in Texts
  PROVE  (a \o b) \o c = a \o (b \o c)
BY ConcatAssociative DEF Texts

LEMMA EmptyText ==
  /\ <<>> \in Texts /\ Len(<<>>) = 0
  /\ \A a \in Texts : a \o <<>> = a /\ <<>> \o a = a
BY EmptySeq, ConcatEmptySeq DEF Texts

\* The lines of a table may be written in two parts.
LEMMA LinesJoin ==
  ASSUME ends \in Tables, NEW i \in 1..(NBRS + 1), NEW m \in 0..NBRS, i <= m + 1
  PROVE  Lines(1, i - 1) \o Lines(i, m) = Lines(1, m)
<1> DEFINE L1 == Lines(1, i - 1)
           L2 == Lines(i, m)
           L3 == Lines(1, m)
<1>1. /\ i - 1 \in 0..NBRS /\ 1 \in 1..(NBRS + 1) /\ 1 <= (i - 1) + 1 /\ 1 <= m + 1
      /\ 1 - 1 = 0
  BY Sizes
<1>2. /\ ends[0] = 0 /\ ends[i - 1] \in Nat /\ ends[m] \in Nat
      /\ ends[m] - ends[i - 1] \in Nat
  BY <1>1, Ends, LineTexts
<1>3. /\ L1 \in Texts /\ L2 \in Texts /\ L3 \in Texts
      /\ Len(L1) = ends[i - 1] /\ Len(L2) = ends[m] - ends[i - 1] /\ Len(L3) = ends[m]
  <2>1. L1 \in Texts /\ Len(L1) = ends[i - 1] - ends[1 - 1]
    BY <1>1, LineTexts
  <2>2. L2 \in Texts /\ Len(L2) = ends[m] - ends[i - 1]
    BY LineTexts
  <2>3. L3 \in Texts /\ Len(L3) = ends[m] - ends[1 - 1]
    BY <1>1, LineTexts
  <2>4. QED
    BY <1>1, <1>2, <2>1, <2>2, <2>3
<1>4. ASSUME NEW k \in 1..ends[m] PROVE (L1 \o L2)[k] = L3[k]
  <2>1. (L1 \o L2)[k] = IF k <= ends[i - 1] THEN L1[k] ELSE L2[k - ends[i - 1]]
    <3>1. k \in 1..(Len(L1) + Len(L2))
      BY <1>2, <1>3
    <3>2. (L1 \o L2)[k] = IF k <= Len(L1) THEN L1[k] ELSE L2[k - Len(L1)]
      BY <1>3, <3>1, ConcatProperties DEF Texts
    <3>3. QED
      BY <1>3, <3>2
  <2>2. L3[k] = <<"nbr", ends[0] + k, 0>>
    BY <1>1, <1>2 DEF Lines
  <2>3. CASE k <= ends[i - 1]
    <3>1. L1[k] = <<"nbr", ends[0] + k, 0>>
      BY <1>1, <1>2, <2>3 DEF Lines
    <3>2. QED
      BY <2>1, <2>2, <2>3, <3>1
  <2>4. CASE ~(k <= ends[i - 1])
    <3>1. k - ends[i - 1] \in 1..(ends[m] - ends[i - 1])
      BY <1>2, <2>4
    <3>2. L2[k - ends[i - 1]] = <<"nbr", ends[i - 1] + (k - ends[i - 1]), 0>>
      BY <3>1 DEF Lines
    <3>3. ends[i - 1] + (k - ends[i - 1]) = ends[0] + k
      BY <1>2
    <3>4. QED
      BY <2>1, <2>2, <2>4, <3>2, <3>3
  <2>5. QED
    BY <2>3, <2>4
<1>5. L1 \o L2 \in Texts /\ Len(L1 \o L2) = ends[m]
  BY <1>2, <1>3, ConcatText
<1>6. QED
  <2> HIDE DEF L1, L2, L3
  <2>1. L1 \o L2 = L3
    BY <1>3, <1>4, <1>5, SeqEqual DEF Texts
  <2>2. QED
    BY <2>1 DEF L1, L2, L3

\* The first n routes of the page.
Flat(n) == FlattenSeq([x \in 1..n |-> Link(x) \o Via(x)])

\* FlattenSeq() chooses a function that is defined by recursion: there is one, as
\* the smallest length without one would have one after all.
LEMMA FlattenExists ==
  ASSUME NEW s, NEW N \in Nat
  PROVE  \E f : f = [i \in 1..N |-> IF i = 1 THEN s[i] ELSE f[i - 1] \o s[i]]
<1> DEFINE IsFlat(f, n) == f = [i \in 1..n |-> IF i = 1 THEN s[i] ELSE f[i - 1] \o s[i]]
           Bad == {n \in Nat : ~ \E f : IsFlat(f, n)}
<1>1. SUFFICES Bad = {}
  BY <1>1
<1>2. SUFFICES ASSUME Bad # {} PROVE FALSE
  OBVIOUS
<1>3. PICK n \in Bad : \A k \in Bad : n <= k
  BY <1>2, SmallestOf
<1>4. n # 0
  <2>1. IsFlat(<<>>, 0)
    OBVIOUS
  <2>2. QED
    BY <1>3, <2>1, ZenonT(40)
<1>5. PICK g : IsFlat(g, n - 1)
  <2>1. n - 1 \in Nat /\ ~(n <= n - 1)
    BY <1>3, <1>4
  <2>2. n - 1 \notin Bad
    BY <1>3, <2>1
  <2>3. QED
    BY <2>1, <2>2
<1> DEFINE last == IF n = 1 THEN s[n] ELSE g[n - 1] \o s[n]
           f == [i \in 1..n |-> IF i = n THEN last ELSE g[i]]
<1>6. IsFlat(f, n)
  <2>1. ASSUME NEW i \in 1..n
        PROVE  f[i] = IF i = 1 THEN s[i] ELSE f[i - 1] \o s[i]
    <3>1. CASE i = n
      <4>1. n # 1 => f[n - 1] = g[n - 1]
        BY <1>3, <1>4
      <4>2. QED
        BY <3>1, <4>1
    <3>2. CASE i # n
      <4>1. i \in 1..(n - 1)
        BY <1>3, <3>2
      <4>2. g[i] = IF i = 1 THEN s[i] ELSE g[i - 1] \o s[i]
        BY <1>5, <4>1
      <4>3. i # 1 => f[i - 1] = g[i - 1]
        BY <1>3, <4>1
      <4>4. QED
        BY <3>2, <4>2, <4>3
    <3>3. QED
      BY <3>1, <3>2
  <2>2. f = [i \in 1..n |-> f[i]]
    OBVIOUS
  <2> HIDE DEF f
  <2>3. QED
    BY <2>1, <2>2
<1>7. QED
  BY <1>3, <1>6

\* What that function says of each prefix of the sequence.
LEMMA FlattenValue ==
  ASSUME NEW N \in Nat, N > 0, NEW s \in [1..N -> Texts]
  PROVE  \E f : /\ \A i \in 1..N : f[i] = IF i = 1 THEN s[i] ELSE f[i - 1] \o s[i]
                /\ FlattenSeq(s) = f[N]
<1>1. Len(s) = N
  <2>1. s \in Seq(Texts)
    BY SeqDef
  <2>2. DOMAIN s = 1..Len(s) /\ Len(s) \in Nat
    BY <2>1, LenProperties
  <2>3. QED
    BY <2>2
<1> DEFINE f == CHOOSE f : f = [i \in 1..N |-> IF i = 1 THEN s[i] ELSE f[i - 1] \o s[i]]
<1>2. f = [i \in 1..N |-> IF i = 1 THEN s[i] ELSE f[i - 1] \o s[i]]
  BY FlattenExists
<1>3. FlattenSeq(s) = f[N]
  BY <1>1 DEF FlattenSeq
<1>4. \A i \in 1..N : f[i] = IF i = 1 THEN s[i] ELSE f[i - 1] \o s[i]
  <2> HIDE DEF f
  <2>1. QED
    BY <1>2
<1>5. QED
  BY <1>3, <1>4

LEMMA RouteText ==
  ASSUME NEW x \in Nat PROVE Link(x) \in Texts /\ Via(x) \in Texts /\ Link(x) \o Via(x) \in Texts
BY RouteTexts, ConcatText

\* The routes of a table are those up to the last and the last.
LEMMA FlatStep ==
  ASSUME NEW n \in Nat
  PROVE  /\ Flat(0) = <<>>
         /\ Flat(n) \in Texts
         /\ Flat(n + 1) = Flat(n) \o (Link(n + 1) \o Via(n + 1))
<1> DEFINE e(k) == [x \in 1..k |-> Link(x) \o Via(x)]
<1>1. Flat(0) = <<>>
  <2>1. e(0) = <<>>
    OBVIOUS
  <2>2. Flat(0) = e(0)
    BY <2>1 DEF Flat, FlattenSeq
  <2>3. QED
    BY <2>1, <2>2
<1>2. ASSUME NEW k \in Nat PROVE e(k) \in [1..k -> Texts]
  BY RouteText
<1>3. ASSUME NEW k \in Nat
      PROVE  Flat(k + 1) = Flat(k) \o (Link(k + 1) \o Via(k + 1))
  <2>1. PICK g : /\ \A i \in 1..(k + 1) : g[i] = IF i = 1 THEN e(k + 1)[i]
                                              ELSE g[i - 1] \o e(k + 1)[i]
                 /\ Flat(k + 1) = g[k + 1]
    <3>1. k + 1 \in Nat /\ k + 1 > 0 /\ e(k + 1) \in [1..(k + 1) -> Texts]
      BY <1>2
    <3> HIDE DEF e
    <3>2. QED
      BY <3>1, FlattenValue DEF Flat, e
  <2>2. e(k + 1)[k + 1] = Link(k + 1) \o Via(k + 1)
    OBVIOUS
  <2>3. CASE k = 0
    <3>1. Flat(k + 1) = Link(k + 1) \o Via(k + 1)
      BY <2>1, <2>2, <2>3
    <3>2. Flat(k) = <<>> /\ Link(k + 1) \o Via(k + 1) \in Texts
      BY <1>1, <2>3, RouteText
    <3>3. QED
      BY <3>1, <3>2, EmptyText
  <2>4. CASE k # 0
    <3>1. PICK f : /\ \A i \in 1..k : f[i] = IF i = 1 THEN e(k)[i]
                                          ELSE f[i - 1] \o e(k)[i]
                   /\ Flat(k) = f[k]
      <4>1. k > 0 /\ e(k) \in [1..k -> Texts]
        BY <1>2, <2>4
      <4> HIDE DEF e
      <4>2. QED
        BY <4>1, FlattenValue DEF Flat, e
    <3>2. \A i \in 1..k : e(k)[i] = e(k + 1)[i]
      OBVIOUS
    <3>3. f[k] = g[k]
      <4> DEFINE Bad == {i \in 1..k : f[i] # g[i]}
      <4>1. SUFFICES ASSUME Bad # {} PROVE FALSE
        BY <2>4
      <4>2. PICK i \in Bad : \A j \in Bad : i <= j
        <5>1. Bad \in SUBSET Nat
          OBVIOUS
        <5> HIDE DEF Bad
        <5>2. QED
          BY <4>1, <5>1, SmallestOf
      <4>3. i \in 1..k /\ i \in 1..(k + 1) /\ e(k)[i] = e(k + 1)[i]
        BY <3>2
      <4>4. i # 1 => f[i - 1] = g[i - 1]
        <5>1. i # 1 => i - 1 \in 1..k /\ ~(i <= i - 1)
          BY <4>3
        <5>2. QED
          BY <4>2, <5>1
      <4> HIDE DEF e
      <4>5. QED
        BY <2>1, <3>1, <4>2, <4>3, <4>4
    <3>4. g[k + 1] = g[k] \o e(k + 1)[k + 1]
      <4>1. k + 1 \in 1..(k + 1) /\ k + 1 # 1 /\ (k + 1) - 1 = k
        BY <2>4
      <4> HIDE DEF e
      <4>2. QED
        BY <2>1, <4>1
    <3>5. QED
      BY <2>1, <2>2, <3>1, <3>3, <3>4
  <2>5. QED
    BY <2>3, <2>4
<1>4. Flat(n) \in Texts
  <2> DEFINE Bad == {k \in Nat : Flat(k) \notin Texts}
  <2>1. SUFFICES ASSUME Bad # {} PROVE FALSE
    OBVIOUS
  <2>2. PICK k \in Bad : \A j \in Bad : k <= j
    BY <2>1, SmallestOf
  <2>3. k # 0
    BY <1>1, <2>2, EmptyText
  <2>4. k - 1 \in Nat /\ ~(k <= k - 1) /\ (k - 1) + 1 = k
    BY <2>2, <2>3
  <2>5. Flat(k - 1) \in Texts
    BY <2>2, <2>4
  <2>6. Flat(k) = Flat(k - 1) \o (Link(k) \o Via(k))
    BY <1>3, <2>4
  <2>7. QED
    BY <2>2, <2>5, <2>6, RouteText, ConcatText
<1>5. QED
  BY <1>1, <1>3, <1>4

------------------------------------------------------------------------------
(* What is under way, what has been received, and the rest of the page.      *)

\* The page up to the first neighbour, to neighbour m, to the first route, and to
\* route n.
Opening    == (Fixed.headers \o Fixed.type \o Fixed.top) \o Heading
Nbrs(m)    == Opening \o Lines(1, m)
AllNbrs    == Nbrs(NBRS) \o Routes
Upto(n)    == AllNbrs \o Flat(n)

\* The page up to and with the text at whose sending the output thread is.
Through(w) ==
  CASE w = "headers"    -> Fixed.headers
    [] w = "type"       -> Fixed.headers \o Fixed.type
    [] w = "top"        -> Fixed.headers \o Fixed.type \o Fixed.top
    [] w = "neighbour"  -> Nbrs(nbr)
    [] w = "neighbours" -> AllNbrs
    [] w = "link"       -> Upto(r - 1) \o Link(r)
    [] w = "route"      -> Upto(r)
    [] w = "ending"     -> Upto(ROUTES) \o Ending
    [] w = "bottom"     -> Page

\* That text, and the part of it that has not been acknowledged.
Current(w) == IF w \in DOMAIN Fixed THEN Fixed[w] ELSE SubSeq(buf, 1, blen)
Left(c)    == SubSeq(Current(at[c]), sendptr[c] + 1, Len(Current(at[c])))

OutputOK(c) ==
  /\ sendptr[c] + sendlen[c] = Len(Current(at[c]))
  /\ wire[c] = Segment(at[c], buf, sendptr[c], sendlen[c])
  /\ received[c] \o Left(c) = Through(at[c])
  /\ at[c] = "neighbour" => nbr <= NBRS
  /\ at[c] \in {"link", "route"} => r <= ROUTES

\* What a connection that has the static variables to itself has received.
Lone(c) ==
  intact[c] =>
    /\ state[c] = "output" => OutputOK(c)
    /\ state[c] = "closed" => received[c] \in {<<>>, Page}
    /\ state[c] \in {"free", "waiting"} => received[c] = <<>>

\* What is received is text.
Received == received \in [Conns -> Texts] /\ wire = [d \in Conns |-> wire[d]]

\* The inductive invariant for the contents of a page.  The last conjunct is about
\* a connection that is "intact", and needs the text that is under way, what the
\* peer has, and the place in the generator to agree; a text that is put in the
\* buffer by another connection makes the others "not intact" in the same step.
PInv == IInv /\ Received /\ \A c \in Conns : Lone(c)

\* The texts that are constants of the code.
LEMMA FixedType ==
  /\ DOMAIN Fixed = {"headers", "type", "top", "bottom"}
  /\ \A w \in DOMAIN Fixed : Fixed[w] \in Texts /\ Len(Fixed[w]) \in Nat
  /\ Fixed["headers"] = Fixed.headers /\ Fixed["type"] = Fixed.type
  /\ Fixed["top"] = Fixed.top /\ Fixed["bottom"] = Fixed.bottom
<1>1. /\ DOMAIN Fixed = {"headers", "type", "top", "bottom"}
      /\ Fixed["headers"] = Fixed.headers /\ Fixed["type"] = Fixed.type
      /\ Fixed["top"] = Fixed.top /\ Fixed["bottom"] = Fixed.bottom
  BY DEF Fixed
<1>2. /\ Fixed["headers"] = <<Token("200 OK")>> /\ Fixed["type"] = <<Token("html")>>
      /\ Fixed["top"] = <<Token("TOP")>> /\ Fixed["bottom"] = <<Token("BOTTOM")>>
  BY DEF Fixed
<1>3. /\ Token("200 OK") \in Tokens /\ Token("html") \in Tokens
      /\ Token("TOP") \in Tokens /\ Token("BOTTOM") \in Tokens
  BY TokenType DEF Names
<1>4. \A w \in DOMAIN Fixed : Fixed[w] \in Texts
  BY <1>1, <1>2, <1>3, OneToken
<1>5. QED
  BY <1>1, <1>4, LenProperties DEF Texts

\* While the table of the neighbours stays the same, so does the page.
LEMMA SamePage ==
  ASSUME ends' = ends
  PROVE  /\ \A m : Nbrs(m)' = Nbrs(m)
         /\ AllNbrs' = AllNbrs
         /\ \A n : Upto(n)' = Upto(n)
         /\ Page' = Page
<1>1. \A m : Nbrs(m)' = Nbrs(m)
  BY DEF Nbrs, Lines
<1>2. AllNbrs' = AllNbrs
  BY DEF AllNbrs, Nbrs, Lines
<1>3. \A n : Upto(n)' = Upto(n)
  BY <1>2 DEF Upto
<1>4. Page' = Page
  BY DEF Page, Lines
<1>5. QED
  BY <1>1, <1>2, <1>3, <1>4

\* The text under way is as long as the buffer says, unless it is a constant.
LEMMA CurrentType ==
  ASSUME PInv, NEW w \in Places
  PROVE  /\ Current(w) \in Texts /\ Len(Current(w)) \in Nat
         /\ w \notin DOMAIN Fixed => /\ Len(Current(w)) = blen
                                     /\ \A i \in 1..blen : Current(w)[i] = buf[i]
<1>1. CASE w \in DOMAIN Fixed
  BY <1>1, FixedType DEF Current
<1>2. CASE w \notin DOMAIN Fixed
  <2>1. blen \in Nat
    BY Sizes DEF PInv, IInv, Terminated
  <2>2. /\ SubSeq(buf, 1, blen) \in Seq(Tokens)
        /\ Len(SubSeq(buf, 1, blen)) = IF 1 <= blen THEN blen - 1 + 1 ELSE 0
        /\ \A i \in 1..(blen - 1 + 1) : SubSeq(buf, 1, blen)[i] = buf[1 + i - 1]
    <3>1. 1 \in Int /\ blen \in Int /\ \A i \in 1..blen : buf[i] \in Tokens
      BY <2>1 DEF PInv, IInv, Written
    <3>2. QED
      BY <3>1, SubSeqProperties
  <2>3. QED
    BY <1>2, <2>1, <2>2 DEF Current, Texts
<1>3. QED
  BY <1>1, <1>2

\* Whether it is made for the first time or again, a segment holds what is next.
LEMMA SegmentText ==
  ASSUME PInv, NEW w \in Places, NEW p \in Nat, NEW l \in Nat,
         p + l = Len(Current(w))
  PROVE  Segment(w, buf, p, l) = SubSeq(Current(w), p + 1, p + Least(l, MSS))
<1> DEFINE n == Least(l, MSS)
           t == Current(w)
<1>1. n \in Nat /\ n <= l
  BY Sizes DEF Least
<1>2. CASE w \in DOMAIN Fixed
  BY <1>2 DEF Segment, Current
<1>3. CASE w \notin DOMAIN Fixed
  <2>1. Segment(w, buf, p, l) = SubSeq(buf, p + 1, p + n)
    BY <1>3 DEF Segment
  <2>2. /\ t \in Texts /\ Len(t) = blen
        /\ \A i \in 1..blen : t[i] = buf[i] /\ t[i] \in Tokens /\ buf[i] \in Tokens
    BY <1>3, CurrentType DEF PInv, IInv, Written
  <2>3. \A i \in (p + 1)..(p + n) : i \in 1..blen
    BY <1>1, <2>2
  <2> HIDE DEF n, t
  <2>4. /\ SubSeq(buf, p + 1, p + n) \in Seq(Tokens)
        /\ Len(SubSeq(buf, p + 1, p + n)) = IF p + 1 <= p + n THEN (p + n) - (p + 1) + 1 ELSE 0
        /\ \A i \in 1..((p + n) - (p + 1) + 1) : SubSeq(buf, p + 1, p + n)[i] = buf[(p + 1) + i - 1]
    <3>1. \A i \in (p + 1)..(p + n) : buf[i] \in Tokens
      BY <2>2, <2>3
    <3>2. p + 1 \in Int /\ p + n \in Int
      BY <1>1
    <3>3. QED
      BY <3>1, <3>2, SubSeqProperties
  <2>5. /\ SubSeq(t, p + 1, p + n) \in Seq(Tokens)
        /\ Len(SubSeq(t, p + 1, p + n)) = IF p + 1 <= p + n THEN (p + n) - (p + 1) + 1 ELSE 0
        /\ \A i \in 1..((p + n) - (p + 1) + 1) : SubSeq(t, p + 1, p + n)[i] = t[(p + 1) + i - 1]
    <3>1. \A i \in (p + 1)..(p + n) : t[i] \in Tokens
      BY <2>2, <2>3
    <3>2. p + 1 \in Int /\ p + n \in Int
      BY <1>1
    <3>3. QED
      BY <3>1, <3>2, SubSeqProperties
  <2>6. \A i \in 1..Len(SubSeq(buf, p + 1, p + n)) :
           SubSeq(buf, p + 1, p + n)[i] = SubSeq(t, p + 1, p + n)[i]
    <3>1. ASSUME NEW i \in 1..Len(SubSeq(buf, p + 1, p + n))
          PROVE  SubSeq(buf, p + 1, p + n)[i] = SubSeq(t, p + 1, p + n)[i]
      <4>1. i \in 1..((p + n) - (p + 1) + 1) /\ (p + 1) + i - 1 \in (p + 1)..(p + n)
        BY <1>1, <2>4
      <4>2. t[(p + 1) + i - 1] = buf[(p + 1) + i - 1]
        BY <2>2, <2>3, <4>1
      <4>3. QED
        BY <2>4, <2>5, <4>1, <4>2
    <3>2. QED
      BY <3>1
  <2>7. SubSeq(buf, p + 1, p + n) = SubSeq(t, p + 1, p + n)
    BY <2>4, <2>5, <2>6, SeqEqual
  <2>8. QED
    BY <2>1, <2>7 DEF n, t
<1>4. QED
  BY <1>2, <1>3

\* An acknowledged segment moves from what is left to what has been received.
LEMMA Advance ==
  ASSUME NEW t \in Texts, NEW a \in Texts, NEW p \in Nat, NEW n \in Nat,
         p + n <= Len(t)
  PROVE  /\ SubSeq(t, p + 1, p + n) \in Texts
         /\ SubSeq(t, p + n + 1, Len(t)) \in Texts
         /\ (a \o SubSeq(t, p + 1, p + n)) \o SubSeq(t, p + n + 1, Len(t))
              = a \o SubSeq(t, p + 1, Len(t))
<1>1. Len(t) \in Nat /\ \A i \in 1..Len(t) : t[i] \in Tokens
  BY LenProperties, ElementOfSeq DEF Texts
<1>2. SubSeq(t, p + 1, p + n) \in Texts
  <2>1. p + 1 \in Int /\ p + n \in Int /\ \A i \in (p + 1)..(p + n) : t[i] \in Tokens
    BY <1>1
  <2>2. QED
    BY <2>1, SubSeqProperties DEF Texts
<1>3. SubSeq(t, p + n + 1, Len(t)) \in Texts
  <2>1. p + n + 1 \in Int /\ Len(t) \in Int /\ \A i \in (p + n + 1)..Len(t) : t[i] \in Tokens
    BY <1>1
  <2>2. QED
    BY <2>1, SubSeqProperties DEF Texts
<1>4. SubSeq(t, p + 1, p + n) \o SubSeq(t, p + n + 1, Len(t)) = SubSeq(t, p + 1, Len(t))
  <2>1. p + 1 \in 1..(Len(t) + 1) /\ p + n \in ((p + 1) - 1)..Len(t) /\ Len(t) \in (p + n)..Len(t)
    BY <1>1
  <2>2. QED
    BY <2>1, ConcatAdjacentSubSeq DEF Texts
<1>5. QED
  <2>1. PICK x \in Texts, y \in Texts :
          x = SubSeq(t, p + 1, p + n) /\ y = SubSeq(t, p + n + 1, Len(t))
    BY <1>2, <1>3
  <2>2. (a \o x) \o y = a \o (x \o y)
    BY ConcatAssoc, ZenonT(40)
  <2>3. QED
    BY <1>2, <1>3, <1>4, <2>1, <2>2

------------------------------------------------------------------------------
(* The sends of the generator.                                               *)

\* What the others have sent and received is not touched; they have no use for
\* the static variables, or these are not touched either.
LEMMA OtherLone ==
  ASSUME PInv, NEW d \in Conns, ends' = ends,
         intact'[d] => /\ intact[d] /\ state'[d] = state[d] /\ at'[d] = at[d]
                      /\ sendptr'[d] = sendptr[d] /\ sendlen'[d] = sendlen[d]
                      /\ wire'[d] = wire[d] /\ received'[d] = received[d],
         intact'[d] => UNCHANGED static \/ ~InGenerator(d)
  PROVE  Lone(d)'
<1> SUFFICES ASSUME intact'[d] PROVE Lone(d)'
  BY DEF Lone
<1>1. /\ intact[d] /\ state'[d] = state[d] /\ at'[d] = at[d]
      /\ sendptr'[d] = sendptr[d] /\ sendlen'[d] = sendlen[d]
      /\ wire'[d] = wire[d] /\ received'[d] = received[d]
  OBVIOUS
<1>2. Lone(d)
  BY DEF PInv
<1>3. state[d] = "output" => OutputOK(d)'
  <2> SUFFICES ASSUME state[d] = "output" PROVE OutputOK(d)'
    OBVIOUS
  <2>1. OutputOK(d)
    BY <1>1, <1>2 DEF Lone
  <2>2. CASE UNCHANGED static
    <3>1. buf' = buf /\ blen' = blen /\ nbr' = nbr /\ r' = r /\ ends' = ends
      BY <2>2 DEF static
    <3>2. Current(at[d])' = Current(at[d])
      BY <1>1, <3>1 DEF Current
    <3>3. Through(at[d])' = Through(at[d])
      BY <1>1, <3>1, SamePage DEF Through, Nbrs, AllNbrs, Upto, Page, Lines
    <3>4. Left(d)' = Left(d)
      BY <1>1, <3>1, <3>2 DEF Left, Current
    <3>5. QED
      BY <1>1, <2>1, <3>1, <3>2, <3>3, <3>4 DEF OutputOK
  <2>3. CASE ~InGenerator(d)
    <3>1. at[d] \in {"headers", "type", "top"} /\ at[d] \in DOMAIN Fixed
      BY <2>3, FixedType DEF InGenerator
    <3>2. Current(at[d])' = Current(at[d]) /\ Through(at[d])' = Through(at[d])
      BY <1>1, <3>1 DEF Current, Through
    <3>3. Left(d)' = Left(d)
      BY <1>1, <3>2 DEF Left
    <3>4. Segment(at[d], buf, sendptr[d], sendlen[d])' = Segment(at[d], buf, sendptr[d], sendlen[d])
      BY <1>1, <3>1 DEF Segment
    <3>5. QED
      BY <1>1, <2>1, <3>1, <3>2, <3>3, <3>4 DEF OutputOK
  <2>4. QED
    BY <2>2, <2>3
<1>4. QED
  BY <1>1, <1>2, <1>3, SamePage DEF Lone

\* A text is put into the buffer and sent: with what the peer has got it makes up
\* the page to there.
LEMMA SendBufLone ==
  ASSUME PInv, NEW c \in Conns, NEW w \in Places \ DOMAIN Fixed,
         NEW t \in Texts, Len(t) < BUF_SIZE, SendBuf(c, w, t),
         state[c] = "output",
         intact[c] => received'[c] \o t = Through(w)',
         w = "neighbour" => nbr' <= NBRS,
         w \in {"link", "route"} => r' <= ROUTES
  PROVE  Lone(c)'
<1>1. /\ Put(t) /\ Send(c, w, buf', strlen(buf')) /\ state' = state
      /\ intact'[c] = intact[c]
  BY DEF SendBuf, Overlap, PInv, IInv, Typed
<1>2. blen' = Len(t) /\ Written' /\ SubSeq(buf', 1, blen') = t
  BY <1>1, PutWritten
<1>3. strlen(buf') = Len(t) /\ Len(t) \in Nat
  BY <1>1, PutText
<1>4. /\ at'[c] = w /\ sendptr'[c] = 0 /\ sendlen'[c] = Len(t)
      /\ wire'[c] = Segment(w, buf', 0, Len(t))
  <2>1. at' = [at EXCEPT ![c] = w] /\ sendptr' = [sendptr EXCEPT ![c] = 0]
        /\ sendlen' = [sendlen EXCEPT ![c] = Len(t)]
    BY <1>1, <1>3 DEF Send
  <2>2. wire'[c] = Segment(w, buf', 0, Len(t))
    <3>1. wire' = [wire EXCEPT ![c] = Segment(w, buf', 0, Len(t))]
      BY <1>1, <1>3 DEF Send
    <3>2. QED
      BY <3>1 DEF PInv, Received
  <2>3. QED
    BY <2>1, <2>2 DEF PInv, IInv, Typed
<1>5. Current(w)' = t
  BY <1>2 DEF Current
<1>6. Left(c)' = t
  <2>1. Left(c)' = SubSeq(t, 0 + 1, Len(t))
    BY <1>4, <1>5 DEF Left
  <2>2. QED
    BY <2>1, SubSeqFull DEF Texts
<1>7. intact[c] => OutputOK(c)'
  BY <1>3, <1>4, <1>5, <1>6 DEF OutputOK
<1>8. QED
  BY <1>1, <1>2, <1>7 DEF Lone

\* The same for a text that is a constant of the code.
LEMMA SendFixedLone ==
  ASSUME PInv, NEW c \in Conns, NEW w \in DOMAIN Fixed,
         Send(c, w, buf, Len(Fixed[w])), state'[c] = "output",
         intact[c] => received'[c] \o Fixed[w] = Through(w)'
  PROVE  intact'[c] = intact[c] => Lone(c)'
<1>1. Fixed[w] \in Texts /\ Len(Fixed[w]) \in Nat /\ w \in {"headers", "type", "top", "bottom"}
  BY FixedType
<1>2. /\ at'[c] = w /\ sendptr'[c] = 0 /\ sendlen'[c] = Len(Fixed[w])
      /\ wire'[c] = Segment(w, buf, 0, Len(Fixed[w]))
  BY DEF Send, PInv, IInv, Typed, Received
<1>3. Current(w)' = Fixed[w] /\ Segment(w, buf', 0, Len(Fixed[w])) = wire'[c]
  BY <1>2 DEF Current, Segment
<1>4. Left(c)' = Fixed[w]
  <2>1. Left(c)' = SubSeq(Fixed[w], 0 + 1, Len(Fixed[w]))
    BY <1>2, <1>3 DEF Left
  <2>2. QED
    BY <1>1, <2>1, SubSeqFull DEF Texts
<1>5. intact[c] => OutputOK(c)'
  BY <1>1, <1>2, <1>3, <1>4 DEF OutputOK
<1>6. QED
  BY <1>5 DEF Lone

\* The neighbours from i on continue a page that ends before them.
LEMMA NeighboursLone ==
  ASSUME PInv, NEW c \in Conns, NEW t \in Texts, Len(t) <= BUF_SIZE - Margin,
         NEW i \in 1..(NBRS + 1), Neighbours(c, t, i), state[c] = "output",
         received'[c] \in Texts,
         intact[c] => \A m \in 0..NBRS : i <= m + 1 =>
                       received'[c] \o (t \o Lines(i, m)) = Nbrs(m)
  PROVE  Lone(c)'
<1> DEFINE stops == {m \in i..NBRS : Full(t \o Lines(i, m))}
           m == CHOOSE m \in stops : \A k \in stops : m <= k
           whole == t \o Lines(i, m)
<1>1. /\ "neighbour" \in Places \ DOMAIN Fixed
      /\ "neighbours" \in Places \ DOMAIN Fixed
      /\ ends \in Tables
  BY FixedType DEF Places, PInv, IInv, Typed
<1>2. CASE stops # {}
  <2>1. stops \in SUBSET Nat
    BY Sizes
  <2>2. \E n \in stops : \A k \in stops : n <= k
    BY <1>2, <2>1, SmallestOf
  <2>3. m \in stops /\ \A k \in stops : m <= k
    BY <2>2
  <2>4. nbr' = m /\ IF Len(whole) < BUF_SIZE THEN SendBuf(c, "neighbour", whole)
                                             ELSE RunOver(c, m, whole)
    BY <1>2 DEF Neighbours
  <2>5. m \in i..NBRS /\ \A k \in i..NBRS : Full(t \o Lines(i, k)) => m <= k
    BY <2>3
  <2> HIDE DEF m, stops
  <2>6. whole \in Texts
    BY <1>1, <2>5, Room
  <2>7. m \in 0..NBRS /\ i <= m + 1 /\ nbr' <= NBRS
    BY <2>4, <2>5, Sizes
  <2>8. CASE Len(whole) < BUF_SIZE
    <3>1. SendBuf(c, "neighbour", whole)
      BY <2>4, <2>8
    <3>2. Through("neighbour")' = Nbrs(m)
      <4>1. ends' = ends /\ nbr' = m
        BY <2>4, <3>1 DEF SendBuf
      <4>2. QED
        BY <4>1 DEF Through, Nbrs, Lines
    <3>3. intact[c] => received'[c] \o whole = Through("neighbour")'
      BY <2>7, <3>2
    <3> HIDE DEF whole
    <3>4. QED
      BY <1>1, <2>6, <2>7, <2>8, <3>1, <3>3, SendBufLone
  <2>9. CASE ~(Len(whole) < BUF_SIZE)
    BY <2>4, <2>9 DEF RunOver, Lone
  <2>10. QED
    BY <2>8, <2>9
<1>3. CASE stops = {}
  <2> DEFINE u == t \o Lines(i, NBRS)
  <2>1. SendBuf(c, "neighbours", u \o Routes)
    BY <1>3 DEF Neighbours
  <2>2. u \o Routes \in Texts /\ Len(u \o Routes) < BUF_SIZE
    BY <1>1, <1>3, Room
  <2>3. u \in Texts
    <3>1. NBRS \in 0..NBRS /\ i <= NBRS + 1
      BY Sizes
    <3>2. QED
      BY <1>1, <3>1, LineTexts, ConcatText
  <2> HIDE DEF u
  <2>4. intact[c] => received'[c] \o (u \o Routes) = Through("neighbours")'
    <3>1. Through("neighbours")' = Nbrs(NBRS) \o Routes
      <4>1. ends' = ends
        BY <2>1 DEF SendBuf
      <4>2. Through("neighbours")' = AllNbrs'
        BY DEF Through
      <4>3. QED
        BY <4>1, <4>2, SamePage DEF AllNbrs
    <3>2. intact[c] => received'[c] \o u = Nbrs(NBRS)
      <4>1. NBRS \in 0..NBRS /\ i <= NBRS + 1
        BY Sizes
      <4>2. QED
        BY <4>1, Zenon DEF u
    <3>3. (received'[c] \o u) \o Routes = received'[c] \o (u \o Routes)
      <4>1. PICK a \in Texts, b \in Texts, e \in Texts :
              a = received'[c] /\ b = u /\ e = Routes
        BY <2>3, FixedTexts
      <4>2. (a \o b) \o e = a \o (b \o e)
        BY ConcatAssoc, ZenonT(40)
      <4>3. QED
        BY <4>1, <4>2
    <3>4. QED
      BY <3>1, <3>2, <3>3
  <2>5. QED
    BY <1>1, <2>1, <2>2, <2>4, SendBufLone
<1>4. QED
  BY <1>2, <1>3

\* A route, or the end, continues a page with the routes before it.
LEMMA RouteLone ==
  ASSUME PInv, NEW c \in Conns, NEW x \in 1..(ROUTES + 1), Route(c, x),
         state[c] = "output", intact[c] => received'[c] = Upto(x - 1)
  PROVE  Lone(c)'
<1>1. /\ "ending" \in Places \ DOMAIN Fixed
      /\ "link" \in Places \ DOMAIN Fixed
  BY FixedType DEF Places
<1>2. /\ Link(x) \in Texts /\ Len(Link(x)) < BUF_SIZE
      /\ Ending \in Texts /\ Len(Ending) < BUF_SIZE
  <2>1. x \in Nat
    BY Sizes
  <2>2. QED
    BY <2>1, RouteTexts, FixedTexts, Sizes
<1>3. CASE x > ROUTES
  <2>1. SendBuf(c, "ending", Ending) /\ x - 1 = ROUTES
    BY <1>3, Sizes DEF Route
  <2>2. intact[c] => received'[c] \o Ending = Through("ending")'
    <3>1. ends' = ends
      BY <2>1 DEF SendBuf
    <3>2. Through("ending")' = Upto(ROUTES) \o Ending
      BY <3>1 DEF Through, Upto, AllNbrs, Nbrs, Lines
    <3>3. QED
      BY <2>1, <3>2
  <2>3. QED
    BY <1>1, <1>2, <2>1, <2>2, SendBufLone
<1>4. CASE ~(x > ROUTES)
  <2>1. SendBuf(c, "link", Link(x)) /\ r' = x /\ x <= ROUTES
    BY <1>4, Sizes DEF Route
  <2>2. intact[c] => received'[c] \o Link(x) = Through("link")'
    <3>1. ends' = ends
      BY <2>1 DEF SendBuf
    <3>2. Through("link")' = Upto(x - 1) \o Link(x)
      BY <2>1, <3>1 DEF Through, Upto, AllNbrs, Nbrs, Lines
    <3>3. QED
      BY <3>2
  <2>3. QED
    BY <1>1, <1>2, <2>1, <2>2, SendBufLone
<1>5. QED
  BY <1>3, <1>4

\* The parts of a page are texts.
LEMMA PageText ==
  ASSUME ends \in Tables, NEW m \in 0..NBRS
  PROVE  /\ Fixed.headers \in Texts /\ Fixed.type \in Texts /\ Fixed.top \in Texts
         /\ Fixed.bottom \in Texts
         /\ Opening \in Texts /\ Lines(1, m) \in Texts /\ Nbrs(m) \in Texts
<1>1. /\ Fixed.headers \in Texts /\ Fixed.type \in Texts /\ Fixed.top \in Texts
      /\ Fixed.bottom \in Texts
  BY FixedType
<1>2. Lines(1, m) \in Texts
  BY LineTexts, Sizes
<1>3. Opening \in Texts
  BY <1>1, ConcatText, FixedTexts DEF Opening
<1>4. QED
  BY <1>1, <1>2, <1>3, ConcatText DEF Nbrs

\* The two halves of a route make up the route.
LEMMA WholeRoute ==
  ASSUME ends \in Tables, NEW n \in Nat
  PROVE  (Upto(n) \o Link(n + 1)) \o Via(n + 1) = Upto(n + 1)
<1>1. PICK a \in Texts : a = AllNbrs
  <2>1. NBRS \in 0..NBRS
    BY Sizes
  <2>2. QED
    BY <2>1, PageText, ConcatText, FixedTexts DEF AllNbrs
<1>2. PICK f \in Texts : f = Flat(n)
  BY FlatStep
<1>3. n + 1 \in Nat
  OBVIOUS
<1>4. PICK l \in Texts : l = Link(n + 1)
  BY <1>3, RouteText
<1>5. PICK v \in Texts : v = Via(n + 1)
  BY <1>3, RouteText
<1>6. ((a \o f) \o l) \o v = a \o (f \o (l \o v))
  <2>1. \A q \in Texts : (a \o f) \o q = a \o (f \o q)
    BY ConcatAssoc, Zenon
  <2>2. \A p \in Texts : (p \o l) \o v = p \o (l \o v)
    BY ConcatAssoc, ZenonT(40)
  <2>3. a \o f \in Texts /\ l \o v \in Texts
    BY ConcatText
  <2>4. QED
    BY <2>1, <2>2, <2>3
<1>7. Flat(n + 1) = f \o (l \o v)
  BY <1>2, <1>4, <1>5, FlatStep
<1>8. QED
  BY <1>1, <1>2, <1>4, <1>5, <1>6, <1>7 DEF Upto

\* The generator goes on when the whole text before is acknowledged.
LEMMA ResumeLone ==
  ASSUME PInv, NEW c \in Conns, Resume(c), state[c] = "output",
         received'[c] \in Texts,
         intact'[c] => intact[c] /\ received'[c] = Through(at[c])
  PROVE  Lone(c)'
<1> SUFFICES ASSUME intact'[c] PROVE Lone(c)'
  BY DEF Lone
<1> DEFINE got == received'[c]
<1>1. /\ "type" \in DOMAIN Fixed /\ Fixed.type = Fixed["type"]
      /\ "top" \in DOMAIN Fixed /\ Fixed.top = Fixed["top"]
      /\ "bottom" \in DOMAIN Fixed /\ Fixed.bottom = Fixed["bottom"]
  BY FixedType
<1>2. intact[c] \in BOOLEAN /\ nbr \in 1..(NBRS + 1) /\ r \in 1..(ROUTES + 1)
      /\ state \in [Conns -> {"free", "waiting", "output", "closed"}]
      /\ ends \in Tables
  BY DEF PInv, IInv, Typed
<1>3. intact[c] => OutputOK(c)
  BY DEF PInv, Lone
<1>4. CASE at[c] = "headers" /\ SendFixed(c, "type")
  <2>1. Through("headers") = Fixed.headers
        /\ Through("type")' = Fixed.headers \o Fixed.type
    BY DEF Through
  <2>2. Send(c, "type", buf, Len(Fixed["type"])) /\ UNCHANGED <<state, static, intact>>
    BY <1>4 DEF SendFixed
  <2>3. intact[c] => got \o Fixed["type"] = Through("type")'
    BY <1>1, <1>4, <2>1
  <2>4. QED
    BY <1>1, <2>2, <2>3, SendFixedLone
<1>4a. CASE at[c] = "type" /\ SendFixed(c, "top")
  <2>1. Through("type") = Fixed.headers \o Fixed.type
        /\ Through("top")' = (Fixed.headers \o Fixed.type) \o Fixed.top
    BY DEF Through
  <2>2. Send(c, "top", buf, Len(Fixed["top"])) /\ UNCHANGED <<state, static, intact>>
    BY <1>4a DEF SendFixed
  <2>3. intact[c] => got \o Fixed["top"] = Through("top")'
    BY <1>1, <1>4a, <2>1
  <2>4. QED
    BY <1>1, <2>2, <2>3, SendFixedLone
<1>5. CASE at[c] = "top" /\ Neighbours(c, Heading, 1)
  <2>1. ASSUME intact[c], NEW m \in 0..NBRS
        PROVE  got \o (Heading \o Lines(1, m)) = Nbrs(m)
    <3>1. PICK a \in Texts, b \in Texts, l \in Texts :
            /\ a = Fixed.headers \o Fixed.type \o Fixed.top
            /\ b = Heading /\ l = Lines(1, m)
      BY <1>2, PageText, ConcatText, FixedTexts
    <3>2. got = a
      BY <1>5, <2>1, <3>1 DEF Through
    <3>3. (a \o b) \o l = a \o (b \o l)
      BY ConcatAssoc
    <3>4. QED
      BY <3>1, <3>2, <3>3 DEF Nbrs, Opening
  <2>2. 1 \in 1..(NBRS + 1) /\ Heading \in Texts /\ Len(Heading) <= BUF_SIZE - Margin
    BY Sizes, FixedTexts
  <2>3. QED
    BY <1>5, <2>1, <2>2, NeighboursLone
<1>6. CASE at[c] = "neighbour" /\ Neighbours(c, <<>>, NextOf(nbr, NBRS))
  <2> DEFINE i == NextOf(nbr, NBRS)
  <2>1. i \in 1..(NBRS + 1) /\ i \in Nat /\ i > 0
    BY <1>2, Sizes DEF NextOf
  <2>2. intact[c] => i - 1 = nbr /\ nbr \in Nat
    BY <1>2, <1>3, <1>6, Sizes DEF NextOf, OutputOK
  <2> HIDE DEF i
  <2>3. ASSUME intact[c], NEW m \in 0..NBRS, i <= m + 1
        PROVE  got \o (<<>> \o Lines(i, m)) = Nbrs(m)
    <3>1. PICK a \in Texts, b \in Texts, l \in Texts :
            a = Opening /\ b = Lines(1, i - 1) /\ l = Lines(i, m)
      <4>1. i - 1 \in 0..NBRS
        BY <2>1, Sizes
      <4>2. Opening \in Texts /\ Lines(1, i - 1) \in Texts
        BY <1>2, <4>1, PageText
      <4>3. Lines(i, m) \in Texts
        BY <1>2, <2>1, <2>3, LineTexts
      <4>4. QED
        BY <4>2, <4>3
    <3>2. got = a \o b
      BY <1>6, <2>2, <2>3, <3>1 DEF Through, Nbrs, Lines
    <3>3. (a \o b) \o (<<>> \o l) = a \o (b \o l)
      <4>1. <<>> \o l = l
        BY EmptyText
      <4>2. (a \o b) \o l = a \o (b \o l)
        BY ConcatAssoc
      <4>3. QED
        BY <4>1, <4>2, Zenon
    <3>4. b \o l = Lines(1, m)
      BY <1>2, <2>1, <2>3, <3>1, LinesJoin
    <3>5. QED
      BY <3>1, <3>2, <3>3, <3>4 DEF Nbrs
  <2>4. Neighbours(c, <<>>, i)
    BY <1>6 DEF i
  <2>5. <<>> \in Texts /\ Len(<<>>) <= BUF_SIZE - Margin
    BY EmptyText, Sizes
  <2>6. intact[c] => \A m \in 0..NBRS : i <= m + 1 =>
                     received'[c] \o (<<>> \o Lines(i, m)) = Nbrs(m)
    BY <2>3
  <2>7. QED
    BY <2>1, <2>4, <2>5, <2>6, NeighboursLone
<1>7. CASE at[c] = "neighbours" /\ Route(c, 1)
  <2>1. Upto(0) = AllNbrs
    <3>1. AllNbrs \in Texts
      <4>1. NBRS \in 0..NBRS
        BY Sizes
      <4>2. QED
        BY <1>2, <4>1, PageText, ConcatText, FixedTexts DEF AllNbrs
    <3>2. QED
      BY <3>1, FlatStep, EmptyText DEF Upto
  <2>2. PICK x \in 1..(ROUTES + 1) : x = 1
    BY Sizes
  <2>3. intact[c] => received'[c] = Upto(x - 1)
    <3>1. x - 1 = 0
      BY <2>2
    <3>2. QED
      BY <1>7, <2>1, <3>1 DEF Through
  <2>4. Route(c, x)
    BY <1>7, <2>2
  <2>5. QED
    BY <2>3, <2>4, RouteLone
<1>8. CASE at[c] = "link" /\ SendBuf(c, "route", Via(r)) /\ UNCHANGED <<nbr, r>>
  <2>0. r \in Nat
    BY <1>2, Sizes
  <2>1. Via(r) \in Texts /\ Len(Via(r)) < BUF_SIZE
    BY <2>0, RouteTexts
  <2>2. intact[c] => got \o Via(r) = Through("route")'
    <3>0. Through("route")' = Upto(r)
      <4>1. ends' = ends /\ r' = r
        BY <1>8 DEF SendBuf
      <4>2. QED
        BY <4>1 DEF Through, Upto, AllNbrs, Nbrs, Lines
    <3> SUFFICES ASSUME intact[c] PROVE got \o Via(r) = Upto(r)
      BY <3>0
    <3>1. got = Upto(r - 1) \o Link(r)
      BY <1>8 DEF Through
    <3>2. PICK n \in Nat : n = r - 1 /\ n + 1 = r
      BY <1>2
    <3>3. (Upto(n) \o Link(n + 1)) \o Via(n + 1) = Upto(n + 1)
      BY <1>2, WholeRoute
    <3>4. QED
      BY <3>1, <3>2, <3>3
  <2>3. "route" \in Places \ DOMAIN Fixed
    BY FixedType DEF Places
  <2>4. intact[c] => r' <= ROUTES
    BY <1>3, <1>8 DEF OutputOK
  <2>5. PICK w \in Places \ DOMAIN Fixed, t \in Texts : w = "route" /\ t = Via(r)
    BY <2>1, <2>3
  <2>6. SendBuf(c, w, t) /\ Len(t) < BUF_SIZE /\ w # "neighbour"
    BY <1>8, <2>1, <2>5
  <2>7. intact[c] => received'[c] \o t = Through(w)'
    BY <2>2, <2>5
  <2>8. QED
    BY <2>4, <2>6, <2>7, SendBufLone
<1>9. CASE at[c] = "route" /\ Route(c, NextOf(r, ROUTES))
  <2>1. NextOf(r, ROUTES) \in 1..(ROUTES + 1)
    BY <1>2, Sizes DEF NextOf
  <2>2. intact[c] => NextOf(r, ROUTES) - 1 = r
    BY <1>2, <1>3, <1>9, Sizes DEF NextOf, OutputOK
  <2>3. PICK x \in 1..(ROUTES + 1) : x = NextOf(r, ROUTES)
    BY <2>1
  <2>4. intact[c] => received'[c] = Upto(x - 1)
    BY <1>9, <2>2, <2>3 DEF Through
  <2>5. Route(c, x)
    BY <1>9, <2>3
  <2>6. QED
    BY <2>4, <2>5, RouteLone
<1>10. CASE at[c] = "ending" /\ SendFixed(c, "bottom")
  <2>1. Send(c, "bottom", buf, Len(Fixed["bottom"])) /\ UNCHANGED <<state, static, intact>>
    BY <1>10, SMTT(30) DEF SendFixed
  <2>2. intact[c] => got \o Fixed["bottom"] = Through("bottom")'
    <3>1. Through("bottom")' = Page
      BY <2>1, SamePage DEF Through, static
    <3>2. QED
      BY <1>1, <1>10, <3>1 DEF Through, Page, Upto, AllNbrs, Nbrs, Opening, Flat
  <2>3. QED
    BY <1>1, <2>1, <2>2, SendFixedLone
<1>11. CASE /\ at[c] = "bottom" /\ state' = [state EXCEPT ![c] = "closed"]
            /\ Idle(c) /\ UNCHANGED <<static, intact>>
  <2>1. intact[c] => got = Page
    BY <1>11 DEF Through
  <2>2. state'[c] = "closed"
    BY <1>2, <1>11
  <2>3. Page' = Page
    BY <1>11, SamePage DEF static
  <2>4. QED
    BY <1>11, <2>1, <2>2, <2>3 DEF Lone
<1>12. QED
  BY <1>4, <1>5, <1>6, <1>7, <1>8, <1>9, <1>10, <1>11, <1>4a DEF Resume

------------------------------------------------------------------------------
(* The callbacks.                                                            *)

\* What a step of the generator of c does to the others.
Aside(c) ==
  /\ ends' = ends
  /\ wire' = [d \in Conns |-> wire'[d]]
  /\ \A d \in Conns \ {c} :
       /\ state'[d] = state[d] /\ at'[d] = at[d]
       /\ sendptr'[d] = sendptr[d] /\ sendlen'[d] = sendlen[d] /\ wire'[d] = wire[d]
       /\ intact'[d] => intact[d] /\ (UNCHANGED static \/ ~InGenerator(d))
  /\ intact'[c] => intact[c]

LEMMA SendAside ==
  ASSUME PInv, NEW c \in Conns, NEW w, NEW b, NEW n, Send(c, w, b, n)
  PROVE  /\ wire' = [d \in Conns |-> wire'[d]]
         /\ \A d \in Conns \ {c} :
              /\ at'[d] = at[d] /\ sendptr'[d] = sendptr[d]
              /\ sendlen'[d] = sendlen[d] /\ wire'[d] = wire[d]
BY DEF Send, PInv, IInv, Typed, Received

LEMMA ResumeAside ==
  ASSUME PInv, NEW c \in Conns,
         Resume(c) \/ \E t, i : Neighbours(c, t, i)
  PROVE  Aside(c)
<1>1. /\ intact \in [Conns -> BOOLEAN] /\ at \in [Conns -> Places]
      /\ sendptr \in [Conns -> Nat] /\ sendlen \in [Conns -> Nat]
      /\ wire = [d \in Conns |-> wire[d]]
      /\ state \in [Conns -> {"free", "waiting", "output", "closed"}]
  BY DEF PInv, IInv, Typed, Received
<1>2. ASSUME NEW w, SendFixed(c, w) PROVE Aside(c)
  <2>1. Send(c, w, buf, Len(Fixed[w])) /\ UNCHANGED <<state, static, intact>>
    BY <1>2 DEF SendFixed
  <2>2. QED
    BY <2>1, SendAside DEF Aside, static
<1>3. ASSUME NEW w, NEW t, SendBuf(c, w, t) PROVE Aside(c)
  <2>1. Send(c, w, buf', strlen(buf')) /\ state' = state /\ ends' = ends
    BY <1>3 DEF SendBuf
  <2>2. \A d \in Conns : intact'[d] = (intact[d] /\ (d = c \/ ~InGenerator(d)))
    BY <1>3 DEF SendBuf, Overlap
  <2>3. intact'[c] = intact[c] /\ \A d \in Conns \ {c} : intact'[d] => intact[d] /\ ~InGenerator(d)
    BY <1>1, <2>2
  <2>4. QED
    BY <2>1, <2>3, SendAside DEF Aside
<1>4. CASE state' = [state EXCEPT ![c] = "closed"] /\ Idle(c) /\ UNCHANGED <<static, intact>>
  BY <1>1, <1>4 DEF Idle, Aside, static
<1>5a. ASSUME NEW m, NEW t, RunOver(c, m, t) PROVE Aside(c)
  <2>1. Send(c, "filling", buf', 0) /\ state' = state /\ ends' = ends
    BY <1>5a DEF RunOver
  <2>2. \A d \in Conns : intact'[d] = (intact[d] /\ d # c /\ ~InGenerator(d))
    BY <1>5a DEF RunOver
  <2>3. (intact'[c] => intact[c]) /\ \A d \in Conns \ {c} : intact'[d] => intact[d] /\ ~InGenerator(d)
    BY <1>1, <2>2
  <2>4. QED
    BY <2>1, <2>3, SendAside DEF Aside
<1>5. ASSUME NEW t, NEW i, Neighbours(c, t, i) PROVE Aside(c)
  BY <1>3, <1>5, <1>5a DEF Neighbours
<1>6. ASSUME NEW x, Route(c, x) PROVE Aside(c)
  BY <1>3, <1>6 DEF Route
<1>7. QED
  BY <1>2, <1>3, <1>4, <1>5, <1>6 DEF Resume

\* An acknowledgement: the next segment of the text, or the generator goes on.
LEMMA AckedPage == ASSUME PInv, NEW c \in Conns, ~Filling, Acked(c) PROVE PInv'
<1>1. state[c] = "output" /\ intact[c] \in BOOLEAN /\ at[c] \in Places
      /\ sendptr[c] \in Nat /\ sendlen[c] \in Nat
  BY DEF Acked, PInv, IInv, Typed
<1>2. \A d \in Conns : received'[d] = IF ~intact'[d] THEN <<>>
                                     ELSE IF d = c THEN received[d] \o wire[d]
                                     ELSE received[d]
  BY DEF Acked
<1>3. IInv'
  BY AckedInv DEF PInv
<1> DEFINE t == Current(at[c])
           p == sendptr[c]
           n == Least(sendlen[c], MSS)
<1>4. t \in Texts /\ Len(t) \in Nat
  BY <1>1, CurrentType
<1>5. n \in Nat /\ n <= sendlen[c] /\ (sendlen[c] <= MSS => n = sendlen[c])
      /\ (sendlen[c] > MSS => n = MSS)
  BY <1>1, Sizes DEF Least
<1>6. received[c] \in Texts
  BY DEF PInv, Received
<1>7. ASSUME intact[c]
      PROVE  /\ p + sendlen[c] = Len(t) /\ p + n <= Len(t)
             /\ wire[c] = SubSeq(t, p + 1, p + n)
             /\ wire[c] \in Texts
             /\ SubSeq(t, p + n + 1, Len(t)) \in Texts
             /\ (received[c] \o wire[c]) \o SubSeq(t, p + n + 1, Len(t)) = Through(at[c])
             /\ OutputOK(c)
  <2>1. OutputOK(c)
    BY <1>1, <1>7 DEF PInv, Lone
  <2>2. p + sendlen[c] = Len(t) /\ p + n <= Len(t)
    BY <1>1, <1>4, <1>5, <2>1 DEF OutputOK
  <2>3. wire[c] = SubSeq(t, p + 1, p + n)
    BY <1>1, <2>1, <2>2, SegmentText DEF OutputOK
  <2>4. received[c] \o SubSeq(t, p + 1, Len(t)) = Through(at[c])
    BY <2>1 DEF OutputOK, Left
  <2> HIDE DEF t, n, p
  <2>5. p \in Nat
    BY <1>1 DEF p
  <2>6. /\ SubSeq(t, p + 1, p + n) \in Texts
        /\ SubSeq(t, p + n + 1, Len(t)) \in Texts
        /\ (received[c] \o SubSeq(t, p + 1, p + n)) \o SubSeq(t, p + n + 1, Len(t))
             = received[c] \o SubSeq(t, p + 1, Len(t))
    BY <1>4, <1>5, <1>6, <2>2, <2>5, Advance, ZenonT(40)
  <2>7. QED
    BY <2>1, <2>2, <2>3, <2>4, <2>6
<1> HIDE DEF t, n, p
<1>8. CASE sendlen[c] > MSS
  <2>1. /\ sendptr' = [sendptr EXCEPT ![c] = @ + MSS]
        /\ sendlen' = [sendlen EXCEPT ![c] = @ - MSS]
        /\ wire' = [wire EXCEPT ![c] = Segment(at[c], buf, sendptr'[c], sendlen'[c])]
        /\ UNCHANGED <<state, at, static, intact>>
    BY <1>8 DEF Acked
  <2>2. /\ sendptr'[c] = p + n /\ sendlen'[c] = sendlen[c] - n
        /\ wire'[c] = Segment(at[c], buf, sendptr'[c], sendlen'[c])
        /\ at'[c] = at[c] /\ state'[c] = "output" /\ intact' = intact
        /\ nbr' = nbr /\ r' = r /\ buf' = buf /\ blen' = blen /\ ends' = ends
    BY <1>1, <1>5, <1>8, <2>1 DEF PInv, IInv, Typed, Received, static, p
  <2>3. Received'
    <3>1. wire' = [d \in Conns |-> wire'[d]]
      BY <2>1 DEF PInv, Received
    <3>2. ASSUME NEW d \in Conns PROVE received'[d] \in Texts
      <4>1. intact[c] => received[c] \o wire[c] \in Texts
        BY <1>6, <1>7, ConcatText
      <4>2. received[d] \in Texts /\ <<>> \in Texts
        BY EmptyText DEF PInv, Received
      <4>3. QED
        BY <1>2, <2>2, <4>1, <4>2
    <3>3. received' = [d \in Conns |-> received'[d]]
      BY DEF Acked
    <3>4. QED
      BY <3>1, <3>2, <3>3 DEF Received
  <2>5. intact[c] => OutputOK(c)'
    <3> SUFFICES ASSUME intact[c] PROVE OutputOK(c)'
      OBVIOUS
    <3>1. Current(at[c])' = t /\ Through(at[c])' = Through(at[c])
      <4>1. Current(at[c])' = t
        BY <2>2 DEF t, Current
      <4>2. Through(at[c])' = Through(at[c])
        BY <2>2, SamePage DEF Through, Nbrs, AllNbrs, Upto, Page, Lines
      <4>3. QED
        BY <4>1, <4>2
    <3>2. Left(c)' = SubSeq(t, p + n + 1, Len(t))
      BY <2>2, <3>1 DEF Left
    <3>3. received'[c] = received[c] \o wire[c]
      BY <1>2, <2>2
    <3>4. sendptr'[c] + sendlen'[c] = Len(t)
      <4>1. p \in Nat
        BY <1>1 DEF p
      <4>2. QED
        BY <1>1, <1>5, <1>7, <2>2, <4>1
    <3>5. received'[c] \o Left(c)' = Through(at[c])
      BY <1>7, <3>2, <3>3
    <3>6. QED
      BY <1>7, <2>2, <3>1, <3>4, <3>5 DEF OutputOK
  <2>6. Lone(c)'
    BY <2>2, <2>5 DEF Lone
  <2>7. ASSUME NEW d \in Conns, d # c PROVE Lone(d)'
    <3>1. /\ state'[d] = state[d] /\ at'[d] = at[d] /\ sendptr'[d] = sendptr[d]
          /\ sendlen'[d] = sendlen[d] /\ wire'[d] = wire[d] /\ intact'[d] = intact[d]
          /\ UNCHANGED static
      BY <2>1, <2>7 DEF PInv, IInv, Typed, Received
    <3>2. intact'[d] => received'[d] = received[d]
      BY <1>2, <2>7
    <3>3. QED
      BY <2>2, <3>1, <3>2, OtherLone
  <2>8. QED
    BY <1>3, <2>3, <2>6, <2>7 DEF PInv
<1>9. CASE ~(sendlen[c] > MSS)
  <2>1. Resume(c)
    BY <1>9 DEF Acked
  <2>2. Aside(c)
    BY <2>1, ResumeAside
  <2>3. ASSUME NEW d \in Conns PROVE received'[d] \in Texts
    <3>1. intact[c] => received[c] \o wire[c] \in Texts
      BY <1>6, <1>7, ConcatText
    <3>2. received[d] \in Texts /\ <<>> \in Texts
      BY EmptyText DEF PInv, Received
    <3>3. intact'[c] => intact[c]
      BY <2>2 DEF Aside
    <3>4. QED
      BY <1>2, <3>1, <3>2, <3>3
  <2>4. Received'
    <3>1. received' = [d \in Conns |-> received'[d]]
      BY DEF Acked
    <3>2. QED
      BY <2>2, <2>3, <3>1 DEF Received, Aside
  <2>5. intact'[c] => intact[c] /\ received'[c] = Through(at[c])
    <3> SUFFICES ASSUME intact'[c] PROVE intact[c] /\ received'[c] = Through(at[c])
      OBVIOUS
    <3>0. intact[c]
      BY <2>2 DEF Aside
    <3>1. n = sendlen[c] /\ p \in Nat
      BY <1>1, <1>5, <1>9, Sizes DEF p
    <3>2. p + n = Len(t)
      BY <1>7, <3>0, <3>1
    <3>3. SubSeq(t, p + n + 1, Len(t)) = <<>>
      <4>1. p + n + 1 \in Int /\ Len(t) \in Int /\ Len(t) < p + n + 1
        BY <1>4, <1>5, <3>1, <3>2
      <4>2. QED
        BY <4>1, SubSeqEmpty
    <3>4. received[c] \o wire[c] \in Texts
      BY <1>6, <1>7, <3>0, ConcatText
    <3>5. (received[c] \o wire[c]) \o <<>> = Through(at[c])
      BY <1>7, <3>0, <3>3
    <3>6. received[c] \o wire[c] = Through(at[c])
      BY <3>4, <3>5, EmptyText
    <3>7. QED
      BY <1>2, <3>0, <3>6
  <2>6. Lone(c)'
    BY <1>1, <2>1, <2>3, <2>5, ResumeLone
  <2>7. ASSUME NEW d \in Conns, d # c PROVE Lone(d)'
    <3>1. /\ ends' = ends
          /\ state'[d] = state[d] /\ at'[d] = at[d] /\ sendptr'[d] = sendptr[d]
          /\ sendlen'[d] = sendlen[d] /\ wire'[d] = wire[d]
          /\ intact'[d] => intact[d] /\ (UNCHANGED static \/ ~InGenerator(d))
      BY <2>2, <2>7 DEF Aside
    <3>2. intact'[d] => received'[d] = received[d]
      BY <1>2, <2>7
    <3>3. QED
      BY <3>1, <3>2, OtherLone
  <2>8. QED
    BY <1>3, <2>4, <2>6, <2>7 DEF PInv
<1>10. QED
  BY <1>8, <1>9

\* What is left of a callback in which the length has wrapped: that page is not
\* intact, and the others are as before.
LEMMA GoOnPage == ASSUME PInv, NEW c \in Conns, GoOn(c) PROVE PInv'
<1>1. IInv'
  BY GoOnInv DEF PInv
<1>2. Aside(c) /\ received' = received
  BY ResumeAside DEF GoOn
<1>3. Lone(c)'
  <2>1. ~intact[c]
    BY DEF GoOn, PInv, IInv, Overruns
  <2>2. QED
    BY <1>2, <2>1 DEF Aside, Lone
<1>4. ASSUME NEW d \in Conns, d # c PROVE Lone(d)'
  <2>1. /\ ends' = ends
        /\ state'[d] = state[d] /\ at'[d] = at[d] /\ sendptr'[d] = sendptr[d]
        /\ sendlen'[d] = sendlen[d] /\ wire'[d] = wire[d] /\ received'[d] = received[d]
        /\ intact'[d] => intact[d] /\ (UNCHANGED static \/ ~InGenerator(d))
    BY <1>2, <1>4 DEF Aside
  <2>2. QED
    BY <2>1, OtherLone
<1>5. Received'
  BY <1>2 DEF Aside, PInv, Received
<1>6. QED
  BY <1>1, <1>3, <1>4, <1>5 DEF PInv

\* A page begins with its headers, and the peer has received nothing.
LEMMA RequestPage == ASSUME PInv, NEW c \in Conns, Turn(c), Request(c) PROVE PInv'
<1>1. IInv'
  BY RequestInv DEF PInv
<1>2. /\ Send(c, "headers", buf, Len(Fixed.headers)) /\ state[c] = "waiting"
      /\ state' = [state EXCEPT ![c] = "output"]
      /\ UNCHANGED <<static, received, intact, visitors>>
  BY DEF Request
<1>3. "headers" \in DOMAIN Fixed /\ Fixed["headers"] = Fixed.headers
      /\ Fixed.headers \in Texts
  BY FixedType
<1>4. Lone(c)'
  <2>1. state'[c] = "output"
    BY <1>2 DEF PInv, IInv, Typed
  <2>2. intact[c] => received'[c] = <<>>
    BY <1>2 DEF PInv, Lone
  <2>3. intact[c] => received'[c] \o Fixed["headers"] = Through("headers")'
    BY <1>3, <2>2, EmptyText DEF Through
  <2>4. QED
    BY <1>2, <1>3, <2>1, <2>3, SendFixedLone
<1>5. ASSUME NEW d \in Conns, d # c PROVE Lone(d)'
  <2>1. /\ at'[d] = at[d] /\ sendptr'[d] = sendptr[d]
        /\ sendlen'[d] = sendlen[d] /\ wire'[d] = wire[d]
    BY <1>2, <1>5, SendAside
  <2>2. state'[d] = state[d]
    BY <1>2, <1>5 DEF PInv, IInv, Typed
  <2>3. QED
    BY <1>2, <2>1, <2>2, OtherLone DEF static
<1>6. Received'
  <2>1. wire' = [d \in Conns |-> wire'[d]]
    BY <1>2, SendAside
  <2>2. QED
    BY <1>2, <2>1 DEF PInv, Received
<1>7. QED
  BY <1>1, <1>4, <1>5, <1>6 DEF PInv

\* A page that is cut off is forgotten.
LEMMA EndPage == ASSUME PInv, NEW c \in Conns, Turn(c), End(c) PROVE PInv'
<1>1. IInv'
  BY EndInv DEF PInv
<1>2. /\ state'[c] = "free" /\ received'[c] = <<>>
      /\ received' \in [Conns -> Texts] /\ wire' = [d \in Conns |-> wire'[d]]
      /\ UNCHANGED static
  BY EmptyText DEF End, Idle, PInv, IInv, Typed, Received
<1>3. Lone(c)'
  BY <1>2 DEF Lone
<1>4. ASSUME NEW d \in Conns, d # c PROVE Lone(d)'
  <2>1. /\ state'[d] = state[d] /\ at'[d] = at[d] /\ sendptr'[d] = sendptr[d]
        /\ sendlen'[d] = sendlen[d] /\ wire'[d] = wire[d]
        /\ intact'[d] = intact[d] /\ received'[d] = received[d]
    BY <1>4 DEF End, Idle, PInv, IInv, Typed, Received
  <2>2. QED
    BY <1>2, <2>1, OtherLone DEF static
<1>5. Received'
  BY <1>2 DEF PInv, Received
<1>6. QED
  BY <1>1, <1>3, <1>4, <1>5 DEF PInv

\* A segment that is sent again is the one that was sent.
LEMMA RexmitPage == ASSUME PInv, NEW c \in Conns, ~Filling, Rexmit(c) PROVE PInv'
<1>1. IInv'
  BY OtherInv DEF Rexmit, PInv, IInv, Typed
<1>2. /\ state[c] = "output"
      /\ wire' = [wire EXCEPT ![c] = Segment(at[c], buf, sendptr[c], sendlen[c])]
      /\ UNCHANGED <<state, at, sendptr, sendlen, static, received, intact, visitors>>
  BY DEF Rexmit
<1>3. wire' = [d \in Conns |-> wire'[d]]
      /\ wire'[c] = Segment(at[c], buf, sendptr[c], sendlen[c])
      /\ \A d \in Conns \ {c} : wire'[d] = wire[d]
  BY <1>2 DEF PInv, Received
<1>4. ASSUME NEW d \in Conns PROVE intact[d] => wire'[d] = wire[d]
  BY <1>2, <1>3 DEF PInv, Lone, OutputOK
<1>5. ASSUME NEW d \in Conns PROVE Lone(d)'
  <2>1. intact'[d] => wire'[d] = wire[d]
    BY <1>2, <1>4
  <2>2. QED
    BY <1>2, <2>1, OtherLone DEF static
<1>6. Received'
  BY <1>2, <1>3 DEF PInv, Received
<1>7. QED
  BY <1>1, <1>5, <1>6 DEF PInv

LEMMA ConnectPage ==
  ASSUME PInv, NEW c \in Conns, ~Filling, Connect(c) \/ BadRequest(c) PROVE PInv'
<1>1. IInv'
  BY OtherInv DEF Connect, BadRequest, psock, PInv, IInv, Typed
<1>2. UNCHANGED <<psock, static, intact, received>>
  BY DEF Connect, BadRequest
<1>3. Lone(c)'
  <2>1. \/ state[c] = "free" /\ state'[c] = "waiting"
        \/ state[c] = "waiting" /\ state'[c] = "closed"
    BY DEF Connect, BadRequest, PInv, IInv, Typed
  <2>2. intact[c] => received[c] = <<>>
    BY <2>1 DEF PInv, Lone
  <2>3. QED
    BY <1>2, <2>1, <2>2 DEF Lone
<1>4. ASSUME NEW d \in Conns, d # c PROVE Lone(d)'
  <2>1. state'[d] = state[d]
    BY <1>4 DEF Connect, BadRequest, PInv, IInv, Typed
  <2>2. QED
    BY <1>2, <2>1, OtherLone DEF psock, static
<1>5. Received'
  BY <1>2 DEF PInv, Received, psock
<1>6. QED
  BY <1>1, <1>3, <1>4, <1>5 DEF PInv

LEMMA InitPage == Init => PInv
<1> SUFFICES ASSUME Init PROVE PInv
  OBVIOUS
<1>1. IInv
  BY InitInv
<1>2. Received
  BY EmptyText DEF Init, Received
<1>3. \A c \in Conns : Lone(c)
  BY DEF Init, Lone
<1>4. QED
  BY <1>1, <1>2, <1>3 DEF PInv

LEMMA NextPage == ASSUME PInv, [Next]_vars PROVE PInv'
<1>1. CASE UNCHANGED vars \/ NoMoreVisitors
  <2>1. UNCHANGED <<state, psock, static, received, intact>>
    BY <1>1 DEF vars, NoMoreVisitors
  <2>2. IInv'
    BY NextInv DEF PInv
  <2>3. \A d \in Conns : Lone(d)'
    BY <2>1, OtherLone DEF psock, static
  <2>4. Received'
    BY <2>1 DEF PInv, Received, psock
  <2>5. QED
    BY <2>2, <2>3, <2>4 DEF PInv
<1>2. ASSUME NEW c \in Conns, ~Filling PROVE Turn(c)
  BY <1>2 DEF Filling, Turn
<1>3. QED
  BY <1>1, <1>2, ConnectPage, RequestPage, AckedPage, RexmitPage, GoOnPage, EndPage
     DEF Next

\* A page whose generator had the static variables to itself is received whole,
\* unless one of its lines wrapped the length.
THEOREM LonePages == Spec => []LonePageIsWhole
<1>1. PInv => LonePageIsWhole
  BY DEF PInv, Lone, LonePageIsWhole
<1>2. QED
  BY <1>1, InitPage, NextPage, PTL DEF Spec
==============================================================================
