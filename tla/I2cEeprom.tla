------------------------------ MODULE I2cEeprom ------------------------------
(***************************************************************************)
(* The driver of the saker board's configuration EEPROM (i2c-eeprom.c) and *)
(* the chip on the other side of the bus.                                  *)
(*                                                                         *)
(* A write is split at the chip's page boundaries: each page is one bus    *)
(* transaction, whose bytes the chip latches and stores when the           *)
(* transaction ends.  Within a transaction the chip's word address wraps   *)
(* around inside the page.  The driver looks for errors after the first    *)
(* word address of a call and never again.                                 *)
(*                                                                         *)
(* The chip is external and modelled from what the driver expects of it.   *)
(* Sizes are parameters: 8 bytes to a page, 128 writable, 256 in all.      *)
(*                                                                         *)
(* An operator Name_Fault is a wrong version of Name, kept to show that    *)
(* the properties below notice it; no action uses one.                     *)
(***************************************************************************)
EXTENDS Integers, FiniteSets

CONSTANTS
  PageSize,   \* EEPROM_PAGE_SIZE
  WPBlock,    \* EEPROM_START_ADDR_WP_BLOCK
  Size,       \* EEPROM_END_ADDR + 1, which is also the number of uint8_t values
  Bytes       \* what a byte can hold

ASSUME SizeAssumption ==
  /\ PageSize \in Nat \ {0} /\ WPBlock \in Nat /\ Size \in Nat \ {0}
  /\ WPBlock <= Size /\ WPBlock % PageSize = 0 /\ Size % PageSize = 0

Addr == 0..Size - 1

VARIABLES
  mem,      \* the contents of the chip
  word,     \* the chip's word address
  latch,    \* bytes latched in the current transaction: address -> byte
  selected, \* the chip takes part in the current transaction
  pc,       \* where the driver is: "idle", "data", "next"
  addr,     \* addr, as the driver counts it
  left,     \* data_len
  call,     \* history: the call that is running, or was the last one
  before,   \* history: the contents when that call began
  result,   \* what the last call returned
  nacked    \* history: a later start of that call was not acknowledged

driver == <<pc, addr, left>>
chip   == <<mem, word, latch, selected>>
vars   == <<mem, word, latch, selected, pc, addr, left, call, before, result,
          nacked>>

NoCall == [op |-> "none", addr |-> 0, len |-> 0, byte |-> [i \in {} |-> 0]]

None == [a \in {} |-> 0]

Init ==
  /\ mem \in [Addr -> Bytes]
  /\ word = 0 /\ latch = None /\ selected = FALSE
  /\ pc = "idle" /\ addr = 0 /\ left = 0
  /\ call = NoCall
  /\ before = mem
  /\ result = 0
  /\ nacked = FALSE

------------------------------------------------------------------------------
(* The chip.                                                                *)

\* A start condition with a word address: acknowledged, or not.
Selects(a) ==
  \/ /\ selected' = TRUE
     /\ word' = a
     /\ UNCHANGED nacked
  \/ /\ selected' = FALSE
     /\ nacked' = TRUE
     /\ UNCHANGED word

NextWord(a) == (a \div PageSize) * PageSize + ((a + 1) % PageSize)

\* A stop condition: what was latched is stored, outside the protected block.
Stored(l) == [a \in Addr |-> IF a \in DOMAIN l /\ a < WPBlock THEN l[a] ELSE mem[a]]

------------------------------------------------------------------------------
(* i2c_eeprom_write_block().                                                *)

WriteRefused_FirstByte(a, n) == a >= WPBlock \/ n = 0
WriteRefused(a, n) == a + n - 1 >= WPBlock \/ n = 0

\* The transaction ends at a page boundary or with the last byte: "a" and "n"
\* are the address and the number of bytes left after the byte just sent.
EndsTransaction_AtEnd(a, n) == n = 0
EndsTransaction(a, n) == a % PageSize = 0 \/ n = 0

Begin(op, a, n, d) ==
  /\ pc = "idle"
  /\ call' = [op |-> op, addr |-> a, len |-> n, byte |-> d]
  /\ before' = mem
  /\ nacked' = FALSE

\* A call that the range check refuses, or that finds nobody on the bus.
WriteFails ==
  /\ \E a \in Addr, n \in 0..Size : Begin("write", a, n, None)
  /\ result' = 0
  /\ UNCHANGED <<driver, chip>>

Write ==
  /\ \E a \in Addr, n \in 0..Size :
       /\ ~ WriteRefused(a, n)
       /\ \E d \in [0..n - 1 -> Bytes] : Begin("write", a, n, d)
       /\ addr' = a /\ left' = n
       /\ word' = a /\ selected' = TRUE
  /\ pc' = "data"
  /\ latch' = None
  /\ UNCHANGED <<mem, result>>

\* One data byte; with the last one of a transaction the stop condition.  The
\* driver waits for the controller, but not for an acknowledgement.
SendByte ==
  LET byte    == call.byte[call.len - left]
      latched == [a \in DOMAIN latch \union {word} |->
                    IF a = word THEN byte ELSE latch[a]]
      after   == IF selected THEN latched ELSE latch
  IN /\ pc = "data"
     /\ addr' = addr + 1
     /\ left' = left - 1
     /\ word' = IF selected THEN NextWord(word) ELSE word
     /\ IF EndsTransaction(addr + 1, left - 1)
        THEN /\ pc' = "next"
             /\ latch' = None
             /\ mem' = Stored(after)
        ELSE /\ latch' = after
             /\ UNCHANGED <<pc, mem>>
     /\ UNCHANGED <<selected, call, before, result, nacked>>

\* After the write cycle: the next page, or the end.
NextPage ==
  /\ pc = "next" /\ left # 0
  /\ Selects(addr % Size)
  /\ pc' = "data"
  /\ UNCHANGED <<mem, latch, addr, left, call, before, result>>

WriteReturns ==
  /\ pc = "next" /\ left = 0
  /\ pc' = "idle"
  /\ result' = call.len
  /\ UNCHANGED <<chip, addr, left, call, before, nacked>>

------------------------------------------------------------------------------
(* i2c_eeprom_read_block(); the buffer it fills is left out.                *)

ReadRefused(a, n) == a + n > Size \/ n = 0

Read ==
  /\ \E a \in Addr, n \in 0..Size :
       /\ Begin("read", a, n, None)
       /\ \/ ~ ReadRefused(a, n) /\ result' = n
          \/ result' = 0
  /\ UNCHANGED <<driver, chip>>

\* Power fails: what the chip has latched but not stored is gone.
Reset ==
  /\ pc' = "idle" /\ addr' = 0 /\ left' = 0
  /\ word' = 0 /\ latch' = None /\ selected' = FALSE
  /\ call' = NoCall
  /\ before' = mem
  /\ result' = 0 /\ nacked' = FALSE
  /\ UNCHANGED mem

Next ==
  \/ WriteFails \/ Write \/ SendByte \/ NextPage \/ WriteReturns
  \/ Read \/ Reset

Spec == Init /\ [][Next]_vars

------------------------------------------------------------------------------
TypeOK ==
  /\ mem \in [Addr -> Bytes]
  /\ word \in Addr
  /\ DOMAIN latch \subseteq Addr
  /\ selected \in BOOLEAN
  /\ pc \in {"idle", "data", "next"}
  /\ addr \in 0..WPBlock /\ left \in 0..WPBlock
  /\ result \in 0..Size /\ nacked \in BOOLEAN

\* The contents with the first k bytes of the running call in place.
Overwritten(k) ==
  [a \in Addr |-> IF a \in call.addr..call.addr + k - 1
                  THEN call.byte[a - call.addr] ELSE before[a]]

\* Whatever the bus does, a call never changes a byte outside the block it was
\* given, nor one of the protected block with the board's EUI-48.
OnlyTheBlock ==
  \A a \in Addr :
    mem[a] # before[a] =>
      /\ call.op = "write" /\ a < WPBlock
      /\ a \in call.addr..call.addr + call.len - 1

\* Splitting at page boundaries: as long as the chip acknowledges, the contents
\* are the old ones with a prefix of the block in place, so that a reset in the
\* middle of a call leaves no hole and no byte at a wrong address.
PrefixInPlace ==
  nacked \/ call.op # "write" \/ \E k \in 0..call.len : mem = Overwritten(k)

\* ... and all of it when the call returns its length.
WrittenWhenReturned ==
  [][pc # "idle" /\ pc' = "idle" /\ result' > 0
       => nacked \/ mem' = Overwritten(call.len)]_vars
==============================================================================
