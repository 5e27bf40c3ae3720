---------------------------- MODULE ObjectBytes ----------------------------
(***************************************************************************)
(* The bytes of a striped object, as libradosstriper keeps them: a         *)
(* sequence in which each byte is the name of who wrote it last, or Hole   *)
(* where nobody did.  Offsets count from 0.                                *)
(***************************************************************************)
EXTENDS Integers, Sequences

CONSTANT Hole    \* a byte nobody wrote, which reads as zero

ByteAt(bytes, i) == IF i <= Len(bytes) THEN bytes[i] ELSE Hole

\* A write of count bytes at offset; a write of none leaves the object alone.
Overwritten(bytes, offset, count, who) ==
  IF count = 0 THEN bytes
  ELSE [i \in 1 .. (IF Len(bytes) > offset + count THEN Len(bytes) ELSE offset + count) |->
          IF i \in offset + 1 .. offset + count THEN who ELSE ByteAt(bytes, i)]

\* A truncation, which may also make the object longer.
Resized(bytes, size) == [i \in 1 .. size |-> ByteAt(bytes, i)]

\* The number of bytes a read of count at offset gets.
Available(bytes, offset, count) ==
  IF offset >= Len(bytes) THEN 0
  ELSE IF offset + count <= Len(bytes) THEN count ELSE Len(bytes) - offset
=============================================================================
