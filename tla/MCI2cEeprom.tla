----------------------------- MODULE MCI2cEeprom -----------------------------
(* Instances of I2cEeprom for TLC. *)
EXTENDS I2cEeprom, TLC

\* Driver and chip copy bytes without looking at them.
ByteSymmetry == Permutations(Bytes)
==============================================================================
