---------------------------- MODULE Pkcs7Buffers ----------------------------
(***************************************************************************)
(* The padding functions against their definition in PKCS#7, for every     *)
(* buffer up to a length over an alphabet: the state is a buffer that      *)
(* grows byte by byte.                                                     *)
(***************************************************************************)
EXTENDS Pkcs7

CONSTANTS
  Alphabet,   \* the bytes of a buffer
  BlockSize,  \* the modulus of the functions, a uint8_t
  MaxLength   \* bound: length of a buffer

ASSUME ConstantsAssumption ==
  /\ BlockSize \in 1 .. 255
  /\ MaxLength \in Nat

VARIABLE buffer

Init == buffer = << >>

Next == \/ Len(buffer) < MaxLength /\ \E b \in Alphabet : buffer' = Append(buffer, b)
        \/ Len(buffer) = MaxLength /\ buffer' = << >>

Spec == Init /\ [][Next]_buffer

(* PKCS#7: data of n bytes is followed by k bytes of value k, where k is   *)
(* between 1 and the block length and fills the last block.                *)
Padded(data) ==
  LET k == CHOOSE k \in 1 .. BlockSize : (Len(data) + k) % BlockSize = 0
  IN  data \o [i \in 1 .. k |-> k]

(* A buffer with room for the padding gets exactly the padding PKCS#7 asks *)
(* for, behind its first n bytes, and the result is its length; one without *)
(* room is left as it was.  A buffer is valid when that padding is there   *)
(* already.                                                                *)
PadsAsDefined ==
  \A n \in 0 .. Len(buffer) :
    LET data == SubSeq(buffer, 1, n)
        p    == PadBuffer(buffer, n, BlockSize)
        fits == Len(Padded(data)) <= Len(buffer)
    IN  /\ fits => p.ret = Len(Padded(data)) - n
        /\ fits => SubSeq(p.buffer, 1, Len(Padded(data))) = Padded(data)
        /\ ~fits => p.buffer = buffer
        /\ Valid(buffer, n, BlockSize) <=> (fits /\ p.buffer = buffer)

(* What the header promises of a buffer without room for the padding: the  *)
(* result is zero.                                                         *)
NoRoomIsZero ==
  \A n \in 0 .. Len(buffer) :
    Len(Padded(SubSeq(buffer, 1, n))) > Len(buffer) =>
      PadBuffer(buffer, n, BlockSize).ret = 0

(* A padded length is reported exactly for the buffers that some data was  *)
(* padded to, and it is the length of that data.                           *)
LengthAsDefined ==
  buffer # << >> =>
    LET n == DataLength(buffer, BlockSize)
    IN  /\ n > 0 => buffer = Padded(SubSeq(buffer, 1, n))
        /\ \A k \in 1 .. Len(buffer) : buffer = Padded(SubSeq(buffer, 1, k)) => n = k
==============================================================================
