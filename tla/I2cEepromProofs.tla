--------------------------- MODULE I2cEepromProofs ---------------------------
(***************************************************************************)
(* Proofs about I2cEeprom, for every size of page, block and chip.         *)
(***************************************************************************)
EXTENDS I2cEeprom, TLAPS

Typed ==
  /\ mem \in [Addr -> Bytes] /\ before \in [Addr -> Bytes]
  /\ word \in Addr /\ selected \in BOOLEAN
  /\ DOMAIN latch \subseteq Addr
  /\ \A a \in DOMAIN latch : latch[a] \in Bytes
  /\ pc \in {"idle", "data", "next"}
  /\ addr \in 0..WPBlock /\ left \in 0..WPBlock
  /\ call.addr \in Addr /\ call.len \in 0..Size
  /\ result \in 0..Size /\ nacked \in BOOLEAN

\* How far a running write has come; in a transaction the chip, if it takes
\* part, is where the driver is.
Progress ==
  pc # "idle" =>
    /\ call.op = "write" /\ call.addr + call.len <= WPBlock /\ call.len > 0
    /\ call.byte \in [0..call.len - 1 -> Bytes]
    /\ left <= call.len /\ addr = call.addr + (call.len - left)
    /\ pc = "data" => left > 0 /\ (selected => word = addr)
    /\ pc = "next" => DOMAIN latch = {}
    /\ DOMAIN latch \subseteq call.addr..addr - 1

\* With every start acknowledged: what is stored and what is still latched are
\* together the bytes sent so far.
Placed ==
  pc # "idle" /\ ~ nacked =>
    \E k \in 0..call.len - left :
      /\ mem = Overwritten(k)
      /\ DOMAIN latch = call.addr + k..addr - 1
      /\ \A a \in DOMAIN latch : latch[a] = call.byte[a - call.addr]
      /\ pc = "data" => selected

IInv == Typed /\ Progress /\ Placed /\ OnlyTheBlock /\ PrefixInPlace

------------------------------------------------------------------------------
(* The chip's word address.                                                 *)

LEMMA DivMod ==
  ASSUME NEW n \in Nat, NEW p \in Nat \ {0}
  PROVE  /\ n \div p \in Nat /\ n % p \in 0..(p - 1)
         /\ n = (p * (n \div p)) + (n % p)
OBVIOUS

LEMMA SamePage ==
  ASSUME NEW n \in Nat, NEW p \in Nat \ {0}, (n + 1) % p # 0
  PROVE  (n \div p) * p + ((n + 1) % p) = n + 1
<1> DEFINE q0 == n \div p
           q1 == (n + 1) \div p
           r0 == n % p
           r1 == (n + 1) % p
<1>1. q0 \in Nat /\ r0 \in 0..(p - 1) /\ n = (p * q0) + r0
  BY DivMod
<1>2. q1 \in Nat /\ r1 \in 0..(p - 1) /\ n + 1 = (p * q1) + r1
  <2>1. n + 1 \in Nat
    OBVIOUS
  <2>2. QED
    BY <2>1, DivMod
<1>3. r1 # 0
  OBVIOUS
<1> HIDE DEF q0, q1, r0, r1
<1>4. p * (q1 - q0) = (r0 + 1) - r1
  <2>1. p * (q1 - q0) = p * q1 - p * q0
    BY <1>1, <1>2
  <2>2. QED
    BY <2>1, <1>1, <1>2
<1>5. (r0 + 1) - r1 \in (1 - p)..(p - 1)
  BY <1>1, <1>2, <1>3
<1>6. q1 - q0 = 0
  BY <1>1, <1>2, <1>4, <1>5
<1>7. r1 = r0 + 1
  BY <1>1, <1>2, <1>4, <1>6
<1>8. q0 * p + r1 = n + 1
  BY <1>1, <1>2, <1>7
<1>9. QED
  BY <1>8 DEF q0, r1

\* While a transaction goes on the address counts up; it stays in the chip.
LEMMA NextWordIsNext ==
  ASSUME NEW a \in 0..WPBlock - 1
  PROVE  /\ NextWord(a) \in Addr
         /\ (a + 1) % PageSize # 0 => NextWord(a) = a + 1 /\ a + 1 < WPBlock
<1>1. PageSize \in Nat \ {0} /\ WPBlock \in Nat /\ Size \in Nat
      /\ WPBlock <= Size /\ WPBlock % PageSize = 0 /\ a \in Nat
  BY SizeAssumption
<1>2. CASE (a + 1) % PageSize = 0
  <2>1. a \div PageSize \in Nat /\ a % PageSize \in 0..(PageSize - 1)
        /\ a = (PageSize * (a \div PageSize)) + (a % PageSize)
    BY <1>1, DivMod
  <2>2. PageSize * (a \div PageSize) = (a \div PageSize) * PageSize
    BY <1>1, <2>1
  <2>3. (a \div PageSize) * PageSize \in 0..a
    BY <1>1, <2>1, <2>2
  <2>4. NextWord(a) = (a \div PageSize) * PageSize
    BY <1>2, <2>3 DEF NextWord
  <2>5. QED
    BY <1>1, <1>2, <2>3, <2>4 DEF Addr
<1>3. CASE (a + 1) % PageSize # 0
  <2>1. NextWord(a) = a + 1
    BY <1>1, <1>3, SamePage DEF NextWord
  <2>2. a + 1 # WPBlock
    BY <1>1, <1>3
  <2>3. QED
    BY <1>1, <2>1, <2>2 DEF Addr
<1>4. QED
  BY <1>2, <1>3

\* Where the driver is in the call, when it is about to send a byte.
LEMMA Sending ==
  ASSUME IInv, pc = "data"
  PROVE  /\ addr \in 0..WPBlock - 1 /\ addr \in Addr /\ addr \in Nat
         /\ left \in 1..WPBlock /\ call.len \in Nat /\ call.addr \in Nat
         /\ call.len - left \in 0..call.len - 1
         /\ addr - call.addr = call.len - left
         /\ call.byte[call.len - left] \in Bytes
         /\ addr \in call.addr..call.addr + call.len - 1
         /\ selected => word = addr
<1>1. /\ left \in Int /\ left > 0 /\ left <= call.len /\ left <= WPBlock
      /\ call.addr \in Int /\ call.addr >= 0 /\ call.len \in Int
      /\ addr = call.addr + (call.len - left)
      /\ call.addr + call.len <= WPBlock
      /\ call.byte \in [0..call.len - 1 -> Bytes]
  BY SizeAssumption DEF IInv, Typed, Progress, Addr
<1>2. selected => word = addr
  BY DEF IInv, Progress
<1>3. WPBlock \in Nat /\ Size \in Nat /\ WPBlock <= Size
  BY SizeAssumption
<1>4. addr \in Int /\ 0 <= addr /\ addr < WPBlock
  BY <1>1, <1>3
<1>5. call.len - left \in 0..call.len - 1
  BY <1>1, <1>3
<1>6. call.byte[call.len - left] \in Bytes
  BY <1>1, <1>5
<1>7. addr \in Addr
  BY <1>3, <1>4 DEF Addr
<1>8. /\ addr - call.addr = call.len - left
      /\ addr \in call.addr..call.addr + call.len - 1
  BY <1>1, <1>4
<1>9. QED
  BY <1>1, <1>2, <1>3, <1>4, <1>5, <1>6, <1>7, <1>8
------------------------------------------------------------------------------
(* One lemma per action.                                                    *)

LEMMA InitInv == Init => IInv
<1> SUFFICES ASSUME Init PROVE IInv
  OBVIOUS
<1>1. DOMAIN latch = {} /\ call.addr = 0 /\ call.len = 0 /\ call.op = "none"
  BY DEF Init, None, NoCall
<1>2. Typed
  BY <1>1, SizeAssumption DEF Init, Typed, Addr
<1>3. Progress /\ Placed /\ OnlyTheBlock /\ PrefixInPlace
  BY <1>1 DEF Init, Progress, Placed, OnlyTheBlock, PrefixInPlace
<1>4. QED
  BY <1>2, <1>3 DEF IInv

\* A call that changes nothing in the chip.
LEMMA NoWriteInv ==
  ASSUME IInv, NEW op, NEW a \in Addr, NEW n \in 0..Size, Begin(op, a, n, None),
         result' \in 0..Size, UNCHANGED <<driver, chip>>
  PROVE  IInv'
<1>1. /\ pc' = "idle" /\ call'.addr = a /\ call'.len = n /\ mem' = mem
      /\ before' = mem' /\ before' = mem /\ nacked' = FALSE
  BY DEF Begin, driver, chip
<1>2. Typed'
  BY <1>1 DEF IInv, Typed, driver, chip
<1>3. Progress' /\ Placed' /\ OnlyTheBlock'
  BY <1>1 DEF Progress, Placed, OnlyTheBlock
<1>4. PrefixInPlace'
  <2>1. mem' = Overwritten(0)'
    <3>1. mem' = [x \in Addr |-> before'[x]]
      BY <1>1, <1>2 DEF Typed
    <3>2. \A x \in Addr : x \notin a..a + 0 - 1
      BY SizeAssumption DEF Addr
    <3>3. QED
      BY <1>1, <3>1, <3>2 DEF Overwritten
  <2>2. 0 \in 0..call'.len
    BY <1>1, SizeAssumption
  <2>3. QED
    BY <2>1, <2>2 DEF PrefixInPlace
<1>5. QED
  BY <1>2, <1>3, <1>4 DEF IInv

LEMMA WriteInv == ASSUME IInv, Write PROVE IInv'
<1>1. PICK a \in Addr, n \in 0..Size :
        /\ ~ WriteRefused(a, n)
        /\ \E d \in [0..n - 1 -> Bytes] : Begin("write", a, n, d)
        /\ addr' = a /\ left' = n
        /\ word' = a /\ selected' = TRUE
  BY DEF Write
<1>2. PICK d \in [0..n - 1 -> Bytes] : Begin("write", a, n, d)
  BY <1>1
<1>3. a \in Nat /\ n \in Nat /\ n > 0 /\ a + n <= WPBlock /\ WPBlock \in Nat
  BY <1>1, SizeAssumption DEF WriteRefused, Addr
<1>4. /\ call'.op = "write" /\ call'.addr = a /\ call'.len = n /\ call'.byte = d
      /\ before' = mem /\ mem' = mem /\ nacked' = FALSE /\ pc' = "data"
      /\ DOMAIN latch' = {} /\ result' = result
  BY <1>2 DEF Begin, Write, None
<1>5. Typed'
  <2>1. selected' \in BOOLEAN /\ nacked' \in BOOLEAN
    BY <1>1, <1>4
  <2>2. mem' \in [Addr -> Bytes] /\ before' \in [Addr -> Bytes] /\ result' \in 0..Size
    BY <1>4 DEF IInv, Typed
  <2>3. addr' \in 0..WPBlock /\ left' \in 0..WPBlock /\ word' \in Addr
        /\ call'.addr \in Addr /\ call'.len \in 0..Size
    BY <1>1, <1>3, <1>4
  <2>4. QED
    BY <1>4, <2>1, <2>2, <2>3 DEF Typed
<1>6. Progress'
  BY <1>1, <1>3, <1>4 DEF Progress
<1>7. OnlyTheBlock'
  BY <1>4 DEF OnlyTheBlock
<1>8. mem' = Overwritten(0)'
  <2>1. mem' = [x \in Addr |-> before'[x]]
    BY <1>4, <1>5 DEF Typed
  <2>2. \A x \in Addr : x \notin a..a + 0 - 1
    BY <1>3 DEF Addr
  <2>3. QED
    BY <1>4, <2>1, <2>2 DEF Overwritten
<1>9. Placed'
  <2>1. 0 \in 0..call'.len - left' /\ DOMAIN latch' = call'.addr + 0..addr' - 1
    BY <1>1, <1>3, <1>4
  <2>2. QED
    BY <1>1, <1>4, <1>8, <2>1 DEF Placed
<1>10. PrefixInPlace'
  <2>1. 0 \in 0..call'.len
    BY <1>3, <1>4
  <2>2. QED
    BY <1>8, <2>1 DEF PrefixInPlace
<1>11. QED
  BY <1>5, <1>6, <1>7, <1>9, <1>10 DEF IInv

\* What becomes of the latch when the chip has seen the byte, and what is stored
\* of it: the byte goes to the address the driver is at, or nowhere.
LEMMA LatchInv ==
  ASSUME IInv, pc = "data", NEW after,
         after = IF selected
                 THEN [a \in DOMAIN latch \union {word} |->
                         IF a = word THEN call.byte[call.len - left] ELSE latch[a]]
                 ELSE latch
  PROVE  /\ DOMAIN after \subseteq call.addr..addr
         /\ \A a \in DOMAIN after : after[a] \in Bytes
         /\ selected => /\ DOMAIN after = DOMAIN latch \union {addr}
                        /\ after[addr] = call.byte[call.len - left]
                        /\ \A a \in DOMAIN latch : a # addr => after[a] = latch[a]
<1>1. /\ DOMAIN latch \subseteq call.addr..addr - 1
      /\ \A a \in DOMAIN latch : latch[a] \in Bytes
  BY DEF IInv, Typed, Progress
<1>2. /\ addr \in Nat /\ call.addr \in Nat /\ addr \in call.addr..addr
      /\ call.byte[call.len - left] \in Bytes
      /\ selected => word = addr
  BY Sending
<1>3. DOMAIN latch \subseteq call.addr..addr
  BY <1>1, <1>2
<1>4. CASE ~ selected
  BY <1>1, <1>3, <1>4
<1>5. CASE selected
  <2>1. after = [a \in DOMAIN latch \union {addr} |->
                   IF a = addr THEN call.byte[call.len - left] ELSE latch[a]]
    BY <1>2, <1>5
  <2>2. DOMAIN after = DOMAIN latch \union {addr}
    BY <2>1
  <2>3. QED
    BY <1>1, <1>2, <1>3, <2>1, <2>2
<1>6. QED
  BY <1>4, <1>5

\* The last byte of a transaction: what the chip stores is what Placed asks for.
LEMMA StoredIsPlaced ==
  ASSUME IInv, pc = "data", selected, NEW k \in 0..call.len - left,
         mem = Overwritten(k), NEW after,
         DOMAIN after = call.addr + k..addr,
         \A a \in DOMAIN after : after[a] = call.byte[a - call.addr]
  PROVE  Stored(after) = Overwritten(call.len - left + 1)
<1>1. /\ addr \in Nat /\ addr < WPBlock /\ call.addr \in Nat /\ WPBlock \in Nat
      /\ call.len \in Nat /\ left \in Nat
      /\ addr - call.addr = call.len - left
      /\ call.addr + (call.len - left + 1) - 1 = addr
      /\ k \in Nat /\ call.addr + k <= addr
  <2>1. /\ addr \in 0..WPBlock - 1 /\ call.addr \in Nat /\ call.len \in Nat
        /\ left \in 1..WPBlock /\ addr - call.addr = call.len - left
    BY Sending
  <2>2. WPBlock \in Nat /\ k \in Nat /\ k <= call.len - left
    BY <2>1, SizeAssumption
  <2>3. QED
    BY <2>1, <2>2
<1>2. ASSUME NEW a \in Addr
      PROVE  Stored(after)[a] = Overwritten(call.len - left + 1)[a]
  <2>1. a \in Nat
    BY SizeAssumption DEF Addr
  <2>2. mem[a] = IF a \in call.addr..call.addr + k - 1
                 THEN call.byte[a - call.addr] ELSE before[a]
    BY DEF Overwritten
  <2>3. Overwritten(call.len - left + 1)[a]
          = IF a \in call.addr..addr THEN call.byte[a - call.addr] ELSE before[a]
    BY <1>1 DEF Overwritten
  <2>4. Stored(after)[a] = IF a \in DOMAIN after /\ a < WPBlock THEN after[a] ELSE mem[a]
    BY DEF Stored
  <2>5. CASE a \in call.addr + k..addr
    <3>1. a \in DOMAIN after /\ a < WPBlock /\ a \in call.addr..addr
      BY <1>1, <2>1, <2>5
    <3>2. QED
      BY <2>3, <2>4, <3>1
  <2>6. CASE a \notin call.addr + k..addr
    <3>1. Stored(after)[a] = mem[a]
      BY <2>4, <2>6
    <3>2. a \in call.addr..addr <=> a \in call.addr..call.addr + k - 1
      BY <1>1, <2>1, <2>6
    <3>3. QED
      BY <2>2, <2>3, <3>1, <3>2
  <2>7. QED
    BY <2>5, <2>6
<1>3. QED
  BY <1>2 DEF Stored, Overwritten

LEMMA SendByteInv == ASSUME IInv, SendByte PROVE IInv'
<1> DEFINE byte    == call.byte[call.len - left]
           latched == [a \in DOMAIN latch \union {word} |->
                         IF a = word THEN byte ELSE latch[a]]
<1>1. PICK after :
        /\ after = IF selected THEN latched ELSE latch
        /\ IF EndsTransaction(addr + 1, left - 1)
           THEN pc' = "next" /\ latch' = None /\ mem' = Stored(after)
           ELSE latch' = after /\ pc' = pc /\ mem' = mem
  BY DEF SendByte
<1>2. /\ pc = "data" /\ addr' = addr + 1 /\ left' = left - 1
      /\ word' = IF selected THEN NextWord(word) ELSE word
      /\ selected' = selected /\ call' = call /\ before' = before
      /\ result' = result /\ nacked' = nacked
  BY DEF SendByte
<1>3. /\ addr \in 0..WPBlock - 1 /\ addr \in Addr /\ addr \in Nat
      /\ left \in 1..WPBlock /\ call.len \in Nat /\ call.addr \in Nat
      /\ call.len - left \in 0..call.len - 1
      /\ addr - call.addr = call.len - left
      /\ addr \in call.addr..call.addr + call.len - 1
      /\ selected => word = addr
  BY <1>2, Sending
<1>4. /\ DOMAIN after \subseteq call.addr..addr
      /\ \A a \in DOMAIN after : after[a] \in Bytes
      /\ selected => /\ DOMAIN after = DOMAIN latch \union {addr}
                     /\ after[addr] = byte
                     /\ \A a \in DOMAIN latch : a # addr => after[a] = latch[a]
  BY <1>1, <1>2, LatchInv
<1> HIDE DEF latched
<1>5. WPBlock \in Nat /\ Size \in Nat /\ WPBlock <= Size
  BY SizeAssumption
<1>6. word' \in Addr
  <2>1. CASE selected
    BY <1>2, <1>3, <2>1, NextWordIsNext
  <2>2. CASE ~ selected
    BY <1>2, <2>2 DEF IInv, Typed
  <2>3. QED
    BY <2>1, <2>2
<1>7. /\ addr' \in 0..WPBlock /\ left' \in 0..WPBlock /\ left' <= call'.len
      /\ addr' = call'.addr + (call'.len - left')
  BY <1>2, <1>3, <1>5
<1>8. /\ before' \in [Addr -> Bytes] /\ call'.addr \in Addr
      /\ call'.len \in 0..Size /\ result' \in 0..Size
      /\ call'.op = "write" /\ call'.addr + call'.len <= WPBlock /\ call'.len > 0
      /\ call'.byte \in [0..call'.len - 1 -> Bytes]
  BY <1>2 DEF IInv, Typed, Progress
<1>9. selected' \in BOOLEAN /\ nacked' \in BOOLEAN
  BY <1>2 DEF IInv, Typed
\* The byte that the chip has seen is in the latch, if it takes part.
<1>10. ASSUME ~ nacked
       PROVE  \E k \in 0..call.len - left :
                /\ selected /\ mem = Overwritten(k)
                /\ DOMAIN after = call.addr + k..addr
                /\ \A a \in DOMAIN after : after[a] = call.byte[a - call.addr]
  <2>1. PICK k \in 0..call.len - left :
          /\ mem = Overwritten(k)
          /\ DOMAIN latch = call.addr + k..addr - 1
          /\ \A a \in DOMAIN latch : latch[a] = call.byte[a - call.addr]
          /\ selected
    BY <1>2, <1>10 DEF IInv, Placed
  <2>2. DOMAIN after = call.addr + k..addr
    BY <1>3, <1>4, <2>1, SMTT(30)
  <2>3. \A a \in DOMAIN after : after[a] = call.byte[a - call.addr]
    BY <1>3, <1>4, <2>1, <2>2
  <2>4. QED
    BY <2>1, <2>2, <2>3
<1>11. CASE EndsTransaction(addr + 1, left - 1)
  <2>1. /\ pc' = "next" /\ mem' = Stored(after) /\ DOMAIN latch' = {}
    BY <1>1, <1>11 DEF None
  <2>2. Typed'
    <3>1. mem' \in [Addr -> Bytes]
      BY <1>4, <2>1 DEF Stored, IInv, Typed
    <3>2. QED
      BY <1>6, <1>7, <1>8, <1>9, <2>1, <3>1 DEF Typed
  <2>3. Progress'
    BY <1>7, <1>8, <2>1 DEF Progress
  <2>4. OnlyTheBlock'
    <3>1. ASSUME NEW a \in Addr, mem'[a] # before[a]
          PROVE  a < WPBlock /\ a \in call.addr..call.addr + call.len - 1
      <4>1. CASE a \in DOMAIN after /\ a < WPBlock
        BY <1>3, <1>4, <4>1
      <4>2. CASE ~ (a \in DOMAIN after /\ a < WPBlock)
        <5>1. mem'[a] = mem[a]
          BY <2>1, <4>2 DEF Stored
        <5>2. QED
          BY <3>1, <5>1 DEF IInv, OnlyTheBlock
      <4>3. QED
        BY <4>1, <4>2
    <3>2. QED
      BY <1>2, <1>8, <3>1 DEF OnlyTheBlock
  <2>5. ASSUME ~ nacked
        PROVE  \E k \in 0..call'.len - left' :
                 /\ mem' = Overwritten(k)'
                 /\ DOMAIN latch' = call'.addr + k..addr' - 1
    <3>1. PICK k \in 0..call.len - left :
            /\ selected /\ mem = Overwritten(k)
            /\ DOMAIN after = call.addr + k..addr
            /\ \A a \in DOMAIN after : after[a] = call.byte[a - call.addr]
      BY <1>10, <2>5
    <3>2. PICK j \in Nat : j = call.len - left + 1
      BY <1>3
    <3>3. Stored(after) = Overwritten(j)
      BY <1>2, <3>1, <3>2, StoredIsPlaced
    <3>4. mem' = Overwritten(j)'
      BY <1>2, <2>1, <3>3 DEF Overwritten
    <3>5. call'.len = call.len /\ call'.addr = call.addr
      BY <1>2
    <3>6. j \in 0..call.len - (left - 1) /\ call.addr + j > (addr + 1) - 1
      BY <1>3, <3>2
    <3>7. j \in 0..call'.len - left' /\ call'.addr + j..addr' - 1 = {}
      BY <1>2, <1>3, <3>5, <3>6
    <3>8. QED
      BY <2>1, <3>4, <3>7
  <2>6. Placed'
    <3>1. nacked' = nacked /\ pc' # "data" /\ \A a : a \notin DOMAIN latch'
      BY <1>2, <2>1
    <3>2. QED
      BY <2>5, <3>1, Zenon DEF Placed
  <2>7. PrefixInPlace'
    <3>1. 0..call'.len - left' \subseteq 0..call'.len
      BY <1>2, <1>3
    <3>2. nacked' = nacked
      BY <1>2
    <3>3. QED
      BY <2>5, <3>1, <3>2, Zenon DEF PrefixInPlace
  <2>8. QED
    BY <2>2, <2>3, <2>4, <2>6, <2>7 DEF IInv
<1>12. CASE ~ EndsTransaction(addr + 1, left - 1)
  <2>1. /\ pc' = "data" /\ mem' = mem /\ latch' = after
        /\ (addr + 1) % PageSize # 0 /\ left - 1 # 0
    BY <1>1, <1>2, <1>12 DEF EndsTransaction
  <2>2. Typed'
    <3>1. DOMAIN latch' \subseteq Addr /\ mem' \in [Addr -> Bytes]
      BY <1>3, <1>4, <1>5, <2>1, SMTT(30) DEF IInv, Typed, Addr
    <3>2. QED
      BY <1>4, <1>6, <1>7, <1>8, <1>9, <2>1, <3>1 DEF Typed
  <2>3. Progress'
    <3>1. selected => word' = addr'
      BY <1>2, <1>3, <2>1, NextWordIsNext
    <3>2. left' > 0 /\ DOMAIN latch' \subseteq call'.addr..addr' - 1
      BY <1>2, <1>3, <1>4, <2>1
    <3>3. QED
      BY <1>2, <1>7, <1>8, <2>1, <3>1, <3>2 DEF Progress
  <2>4. OnlyTheBlock'
    BY <1>2, <2>1 DEF IInv, OnlyTheBlock
  <2>5. ASSUME ~ nacked
        PROVE  \E k \in 0..call'.len - left' :
                 /\ mem' = Overwritten(k)'
                 /\ DOMAIN latch' = call'.addr + k..addr' - 1
                 /\ \A a \in DOMAIN latch' : latch'[a] = call'.byte[a - call'.addr]
                 /\ selected'
    <3>1. PICK k \in 0..call.len - left :
            /\ selected /\ mem = Overwritten(k)
            /\ DOMAIN after = call.addr + k..addr
            /\ \A a \in DOMAIN after : after[a] = call.byte[a - call.addr]
      BY <1>10, <2>5
    <3>2. k \in 0..call'.len - left' /\ addr' - 1 = addr
      BY <1>2, <1>3
    <3>3. mem' = Overwritten(k)'
      BY <1>2, <2>1, <3>1 DEF Overwritten
    <3>4. QED
      BY <1>2, <2>1, <3>1, <3>2, <3>3
  <2>6. Placed'
    <3>1. nacked' = nacked
      BY <1>2
    <3>2. QED
      BY <2>5, <3>1, Zenon DEF Placed
  <2>7. PrefixInPlace'
    <3>1. 0..call'.len - left' \subseteq 0..call'.len
      BY <1>2, <1>3
    <3>2. nacked' = nacked
      BY <1>2
    <3>3. QED
      BY <2>5, <3>1, <3>2, Zenon DEF PrefixInPlace
  <2>8. QED
    BY <2>2, <2>3, <2>4, <2>6, <2>7 DEF IInv
<1>13. QED
  BY <1>11, <1>12

LEMMA NextPageInv == ASSUME IInv, NextPage PROVE IInv'
<1>1. /\ pc = "next" /\ left # 0 /\ Selects(addr % Size) /\ pc' = "data"
      /\ mem' = mem /\ latch' = latch /\ addr' = addr /\ left' = left
      /\ call' = call /\ before' = before /\ result' = result
  BY DEF NextPage
<1>2. addr \in 0..WPBlock - 1 /\ left \in Nat /\ left > 0
  <2>1. WPBlock \in Nat /\ Size \in Nat
    BY SizeAssumption
  <2>2. left \in 0..WPBlock /\ call.addr \in 0..Size - 1 /\ call.len \in 0..Size
    BY DEF IInv, Typed, Addr
  <2>3. /\ call.addr + call.len <= WPBlock
        /\ left <= call.len /\ addr = call.addr + (call.len - left)
    BY <1>1 DEF IInv, Progress
  <2>4. QED
    BY <1>1, <2>1, <2>2, <2>3
<1>3. addr % Size = addr /\ addr \in Addr
  BY <1>2, SizeAssumption DEF Addr
<1>4. \/ selected' = TRUE /\ word' = addr /\ nacked' = nacked
      \/ selected' = FALSE /\ nacked' = TRUE /\ word' = word
  BY <1>1, <1>3 DEF Selects
<1>5. Typed'
  <2>1. word' \in Addr /\ selected' \in BOOLEAN /\ nacked' \in BOOLEAN
    BY <1>3, <1>4 DEF IInv, Typed
  <2>2. QED
    BY <1>1, <2>1 DEF IInv, Typed
<1>6. Progress'
  <2>1. selected' => word' = addr'
    BY <1>1, <1>4
  <2>2. QED
    BY <1>1, <1>2, <2>1 DEF IInv, Progress
<1>7. OnlyTheBlock'
  BY <1>1 DEF IInv, OnlyTheBlock
<1>8. ASSUME ~ nacked'
      PROVE  selected' /\ ~ nacked
  BY <1>4, <1>8
<1>9. Placed'
  <2>1. ASSUME ~ nacked'
        PROVE  \E k \in 0..call'.len - left' :
                 /\ mem' = Overwritten(k)'
                 /\ DOMAIN latch' = call'.addr + k..addr' - 1
                 /\ \A a \in DOMAIN latch' : latch'[a] = call'.byte[a - call'.addr]
                 /\ selected'
    <3>1. PICK k \in 0..call.len - left :
            /\ mem = Overwritten(k)
            /\ DOMAIN latch = call.addr + k..addr - 1
            /\ \A a \in DOMAIN latch : latch[a] = call.byte[a - call.addr]
      BY <1>1, <1>8, <2>1 DEF IInv, Placed
    <3>2. mem' = Overwritten(k)'
      BY <1>1, <3>1 DEF Overwritten
    <3>3. QED
      BY <1>1, <1>8, <2>1, <3>1, <3>2
  <2>2. QED
    BY <2>1, Zenon DEF Placed
<1>10. PrefixInPlace'
  <2>1. ASSUME ~ nacked, call.op = "write"
        PROVE  \E k \in 0..call'.len : mem' = Overwritten(k)'
    <3>1. PICK k \in 0..call.len : mem = Overwritten(k)
      BY <2>1 DEF IInv, PrefixInPlace
    <3>2. mem' = Overwritten(k)'
      BY <1>1, <3>1 DEF Overwritten
    <3>3. QED
      BY <1>1, <3>1, <3>2
  <2>2. call'.op = call.op
    BY <1>1
  <2>3. QED
    BY <1>8, <2>1, <2>2, Zenon DEF PrefixInPlace
<1>11. QED
  BY <1>5, <1>6, <1>7, <1>9, <1>10 DEF IInv

\* A step that leaves the contents, the call and its history alone.
LEMMA Finished ==
  ASSUME IInv, pc' = "idle", UNCHANGED <<mem, word, latch, selected, addr, left>>,
         UNCHANGED <<call, before, nacked>>, result' \in 0..Size
  PROVE  IInv'
<1>1. Typed'
  <2>1. selected' \in BOOLEAN /\ nacked' \in BOOLEAN
    BY DEF IInv, Typed
  <2>2. QED
    BY <2>1 DEF IInv, Typed
<1>2. Progress' /\ Placed'
  BY DEF Progress, Placed
<1>3. OnlyTheBlock'
  BY DEF IInv, OnlyTheBlock
<1>4. PrefixInPlace'
  <2>1. ASSUME ~ nacked, call.op = "write"
        PROVE  \E k \in 0..call'.len : mem' = Overwritten(k)'
    <3>1. PICK k \in 0..call.len : mem = Overwritten(k)
      BY <2>1 DEF IInv, PrefixInPlace
    <3>2. mem' = Overwritten(k)'
      BY <3>1 DEF Overwritten
    <3>3. QED
      BY <3>1, <3>2
  <2>2. call'.op = call.op /\ (nacked' <=> nacked)
    OBVIOUS
  <2>3. QED
    BY <2>1, <2>2, Zenon DEF PrefixInPlace
<1>5. QED
  BY <1>1, <1>2, <1>3, <1>4 DEF IInv

LEMMA ResetInv == ASSUME IInv, Reset PROVE IInv'
<1>1. /\ pc' = "idle" /\ addr' = 0 /\ left' = 0 /\ word' = 0 /\ DOMAIN latch' = {}
      /\ call'.op = "none" /\ call'.addr = 0 /\ call'.len = 0
      /\ before' = mem /\ mem' = mem /\ result' = 0
  BY DEF Reset, NoCall, None
<1>2. selected' \in BOOLEAN /\ nacked' \in BOOLEAN
  BY DEF Reset
<1>3. Typed'
  BY <1>1, <1>2, SizeAssumption DEF IInv, Typed, Addr
<1>4. Progress' /\ Placed' /\ OnlyTheBlock' /\ PrefixInPlace'
  BY <1>1 DEF Progress, Placed, OnlyTheBlock, PrefixInPlace
<1>5. QED
  BY <1>3, <1>4 DEF IInv

LEMMA Inductive == Spec => []IInv
<1>1. ASSUME IInv, [Next]_vars PROVE IInv'
  <2>1. CASE WriteFails
    BY <1>1, <2>1, NoWriteInv, SizeAssumption DEF WriteFails
  <2>2. CASE Write
    BY <1>1, <2>2, WriteInv
  <2>3. CASE SendByte
    BY <1>1, <2>3, SendByteInv
  <2>4. CASE NextPage
    BY <1>1, <2>4, NextPageInv
  <2>5. CASE WriteReturns
    <3>1. result' \in 0..Size
      BY <1>1, <2>5 DEF WriteReturns, IInv, Typed
    <3>2. QED
      BY <1>1, <2>5, <3>1, Finished DEF WriteReturns, chip
  <2>6. CASE Read
    BY <1>1, <2>6, NoWriteInv, SizeAssumption DEF Read
  <2>7. CASE Reset
    BY <1>1, <2>7, ResetInv
  <2>8. CASE UNCHANGED vars
    BY <1>1, <2>8
       DEF vars, IInv, Typed, Progress, Placed, OnlyTheBlock, PrefixInPlace, Overwritten
  <2>9. QED
    BY <1>1, <2>1, <2>2, <2>3, <2>4, <2>5, <2>6, <2>7, <2>8 DEF Next
<1>2. QED
  BY <1>1, InitInv, PTL DEF Spec

------------------------------------------------------------------------------
(* The theorems.                                                            *)

\* Every variable of the driver and the chip keeps its type; in particular the
\* driver's address never runs past the writable block.
THEOREM TypeCorrect == Spec => []TypeOK
<1>1. IInv => TypeOK
  BY DEF IInv, Typed, TypeOK
<1>2. QED
  BY <1>1, Inductive, PTL

\* i2c_eeprom_write_block() changes no byte outside its block, and none of the
\* protected one, whether the chip acknowledges or not.
THEOREM BlockOnly == Spec => []OnlyTheBlock
<1>1. IInv => OnlyTheBlock
  BY DEF IInv
<1>2. QED
  BY <1>1, Inductive, PTL

\* The split at page boundaries leaves no hole: a reset finds a prefix in place.
THEOREM PrefixAlways == Spec => []PrefixInPlace
<1>1. IInv => PrefixInPlace
  BY DEF IInv
<1>2. QED
  BY <1>1, Inductive, PTL

\* The length a write returns is that of what it wrote.
THEOREM AllWritten == Spec => WrittenWhenReturned
<1>1. ASSUME IInv, [Next]_vars, pc # "idle", pc' = "idle", result' > 0, ~ nacked
      PROVE  mem' = Overwritten(call.len)
  <2>1. WriteReturns
    <3>1. ~ Reset
      BY <1>1 DEF Reset
    <3>2. QED
      BY <1>1, <3>1
         DEF Next, vars, WriteFails, Write, SendByte, NextPage, Read, Begin
  <2>2. mem' = mem /\ pc = "next" /\ left = 0
    BY <2>1 DEF WriteReturns, chip
  <2>3. PICK k \in 0..call.len - left :
          mem = Overwritten(k) /\ DOMAIN latch = call.addr + k..addr - 1
    BY <1>1 DEF IInv, Placed
  <2>4. DOMAIN latch = {} /\ addr = call.addr + call.len
        /\ call.addr \in Nat /\ call.len \in Nat
    BY <1>1, <2>2, SizeAssumption DEF IInv, Typed, Progress, Addr
  <2>5. k \in Nat /\ k <= call.len
    BY <2>2, <2>3, <2>4
  <2>6. k >= call.len
    <3>1. SUFFICES ASSUME k < call.len PROVE FALSE
      BY <2>4, <2>5
    <3>2. call.addr + k \in call.addr + k..addr - 1
      BY <2>4, <2>5, <3>1
    <3>3. QED
      BY <2>3, <2>4, <3>2
  <2>7. k = call.len
    BY <2>4, <2>5, <2>6
  <2>8. QED
    BY <2>2, <2>3, <2>7
<1>2. IInv /\ [Next]_vars
        => (pc # "idle" /\ pc' = "idle" /\ result' > 0
              => nacked \/ mem' = Overwritten(call.len))
  BY <1>1
<1>3. QED
  BY <1>2, Inductive, PTL DEF Spec, WrittenWhenReturned
==============================================================================
