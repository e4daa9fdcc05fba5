------------------------ MODULE Pkcs7Buffers_proofs ------------------------
(***************************************************************************)
(* The padding functions do what PKCS#7 says, for every buffer, alphabet   *)
(* and block length.                                                       *)
(***************************************************************************)
EXTENDS Pkcs7Buffers, Pkcs7_proofs

LEMMA Size == BlockSize \in Modulus
BY ConstantsAssumption DEF ConstantsAssumption, Modulus

(* Only one number of bytes between 1 and a block fills the last block.    *)
LEMMA PadIsUnique ==
  ASSUME NEW m \in Modulus, NEW n \in Nat, NEW k \in 1 .. m, (n + k) % m = 0
  PROVE  k = PadByte(n, m)
<1> DEFINE a == n \div m
           r == n % m
           q == (n + k) \div m
<1>1. a \in Nat /\ r \in 0 .. m - 1 /\ n = m * a + r
  BY DEF Modulus
<1>2. q \in Nat /\ n + k = m * q
  BY DEF Modulus
<1> HIDE DEF a, r, q
<1>3. m * q = m * a + (r + k) /\ r + k \in 1 .. 2 * m - 1
  BY <1>1, <1>2 DEF Modulus
<1>4. ~(q <= a)
  <2> SUFFICES ASSUME q <= a PROVE FALSE
    OBVIOUS
  <2>1. m * q <= m * a
    BY <1>1, <1>2 DEF Modulus
  <2> QED
    BY <1>1, <1>2, <1>3, <2>1 DEF Modulus
<1>5. ~(q >= a + 2)
  <2> SUFFICES ASSUME q >= a + 2 PROVE FALSE
    OBVIOUS
  <2>1. m * q >= m * (a + 2)
    BY <1>1, <1>2 DEF Modulus
  <2>2. m * (a + 2) = m * a + 2 * m
    BY <1>1 DEF Modulus
  <2> QED
    BY <1>1, <1>2, <1>3, <2>1, <2>2 DEF Modulus
<1>6. q = a + 1
  BY <1>1, <1>2, <1>4, <1>5
<1>7. m * (a + 1) = m * a + m
  BY <1>1 DEF Modulus
<1>8. r + k = m
  BY <1>1, <1>3, <1>6, <1>7 DEF Modulus
<1> QED
  BY <1>1, <1>8 DEF PadByte, r, Modulus

LEMMA PaddedBytes ==
  ASSUME NEW S, NEW data \in Seq(S)
  PROVE  LET n == Len(data)
             k == PadByte(n, BlockSize)
         IN  /\ k \in 1 .. BlockSize
             /\ Padded(data) = [i \in 1 .. n + k |-> IF i <= n THEN data[i] ELSE k]
<1> DEFINE n == Len(data)
           k == PadByte(n, BlockSize)
           c == CHOOSE j \in 1 .. BlockSize : (n + j) % BlockSize = 0
<1>1. k \in 1 .. BlockSize /\ (n + k) % BlockSize = 0
  BY Size, PadByteRange, PadByteFills
<1>2. c \in 1 .. BlockSize /\ (n + c) % BlockSize = 0
  BY <1>1
<1>3. c = k
  BY <1>2, Size, PadIsUnique
<1>4. Padded(data) = data \o [i \in 1 .. k |-> k]
  BY <1>3 DEF Padded
<1> HIDE DEF c, k
<1>5. [i \in 1 .. k |-> k] \in Seq(Nat) /\ Len([i \in 1 .. k |-> k]) = k
  BY <1>1, Size DEF Modulus
<1>6. data \o [i \in 1 .. k |-> k] = [i \in 1 .. n + k |-> IF i <= n THEN data[i] ELSE k]
  BY <1>1, <1>5, Size DEF Modulus
<1> QED
  BY <1>1, <1>4, <1>6 DEF k

BufferType == buffer \in Seq(Alphabet)

LEMMA BufferTyped == Spec => []BufferType
<1>1. Init => BufferType
  BY DEF Init, BufferType
<1>2. BufferType /\ [Next]_buffer => BufferType'
  <2> SUFFICES ASSUME BufferType, [Next]_buffer PROVE buffer' \in Seq(Alphabet)
    BY DEF BufferType
  <2>1. CASE \E b \in Alphabet : buffer' = Append(buffer, b)
    BY <2>1 DEF BufferType
  <2>2. CASE buffer' = << >>
    BY <2>2
  <2>3. CASE UNCHANGED buffer
    BY <2>3 DEF BufferType
  <2> QED
    BY <2>1, <2>2, <2>3 DEF Next
<1> QED
  BY <1>1, <1>2, PTL DEF Spec

LEMMA FrontOfBuffer ==
  ASSUME BufferType, NEW n \in 0 .. Len(buffer)
  PROVE  /\ SubSeq(buffer, 1, n) \in Seq(Alphabet)
         /\ Len(SubSeq(buffer, 1, n)) = n
         /\ \A i \in 1 .. n : SubSeq(buffer, 1, n)[i] = buffer[i]
BY DEF BufferType

LEMMA PaddedFront ==
  ASSUME BufferType, NEW n \in 0 .. Len(buffer)
  PROVE  LET k == PadByte(n, BlockSize)
         IN  Padded(SubSeq(buffer, 1, n)) =
               [i \in 1 .. n + k |-> IF i <= n THEN SubSeq(buffer, 1, n)[i] ELSE k]
<1> DEFINE data == SubSeq(buffer, 1, n)
<1>1. data \in Seq(Alphabet) /\ Len(data) = n
  BY FrontOfBuffer
<1> HIDE DEF data
<1>2. LET k == PadByte(Len(data), BlockSize)
      IN  Padded(data) = [i \in 1 .. Len(data) + k |-> IF i <= Len(data) THEN data[i] ELSE k]
  BY <1>1, PaddedBytes
<1> QED
  BY <1>1, <1>2 DEF data

LEMMA Pads == BufferType => PadsAsDefined
<1> SUFFICES ASSUME BufferType, NEW n \in 0 .. Len(buffer)
             PROVE  LET data == SubSeq(buffer, 1, n)
                        p    == PadBuffer(buffer, n, BlockSize)
                        fits == Len(Padded(data)) <= Len(buffer)
                    IN  /\ fits => p.ret = Len(Padded(data)) - n
                        /\ fits => SubSeq(p.buffer, 1, Len(Padded(data))) = Padded(data)
                        /\ ~fits => p.buffer = buffer
                        /\ Valid(buffer, n, BlockSize) <=> (fits /\ p.buffer = buffer)
  BY DEF PadsAsDefined
<1> DEFINE data == SubSeq(buffer, 1, n)
           k    == PadByte(n, BlockSize)
           p    == PadBuffer(buffer, n, BlockSize)
           fits == n + k <= Len(buffer)
<1>1. /\ n \in Nat /\ k \in 1 .. BlockSize /\ BlockSize \in Nat /\ Len(buffer) \in Nat
      /\ buffer = [i \in 1 .. Len(buffer) |-> buffer[i]]
  <2>1. Len(buffer) \in Nat /\ buffer = [i \in 1 .. Len(buffer) |-> buffer[i]]
    BY DEF BufferType
  <2>2. n \in Nat /\ BlockSize \in Nat
    <3>1. n \in Nat
      BY <2>1
    <3> QED
      BY <3>1, Size DEF Modulus
  <2>3. k \in 1 .. BlockSize
    BY <2>2, Size, PadByteRange
  <2> QED
    BY <2>1, <2>2, <2>3
<1>2. Padded(data) = [i \in 1 .. n + k |-> IF i <= n THEN data[i] ELSE k]
  BY PaddedFront
<1>3. \A i \in 1 .. n : data[i] = buffer[i]
  BY FrontOfBuffer
<1> HIDE DEF data
<1>4. Len(Padded(data)) = n + k
  BY <1>1, <1>2
<1>5. CASE ~fits
  <2>1. p.buffer = buffer
    BY <1>5, <1>1 DEF PadBuffer
  <2>2. ~Valid(buffer, n, BlockSize)
    BY <1>5, <1>1 DEF Valid
  <2>3. ~(Len(Padded(data)) <= Len(buffer))
    BY <1>1, <1>4, <1>5, <2>1
  <2> QED
    BY <2>1, <2>2, <2>3 DEF data
<1>6. CASE fits
  <2> DEFINE b == [i \in 1 .. Len(buffer) |-> IF i \in n + 1 .. n + k THEN k ELSE buffer[i]]
  <2>1. p.ret = k /\ p.buffer = b
    BY <1>6, <1>1 DEF PadBuffer
  <2>2. Valid(buffer, n, BlockSize) <=> \A i \in n + 1 .. n + k : buffer[i] = k
    BY <1>6 DEF Valid
  <2> HIDE DEF p
  <2>3. SubSeq(b, 1, n + k) = [i \in 1 .. n + k |-> b[i]]
    BY <1>1, <1>6
  <2>4. [i \in 1 .. n + k |-> b[i]] = Padded(data)
    BY <1>1, <1>2, <1>3, <1>6
  <2>5. b = buffer <=> \A i \in n + 1 .. n + k : buffer[i] = k
    BY <1>1, <1>6
  <2>6. Len(Padded(data)) <= Len(buffer) /\ p.ret = Len(Padded(data)) - n
    BY <1>1, <1>4, <1>6, <2>1
  <2>7. SubSeq(p.buffer, 1, Len(Padded(data))) = Padded(data)
    BY <1>4, <2>1, <2>3, <2>4
  <2> HIDE DEF b
  <2>8. Valid(buffer, n, BlockSize) <=> p.buffer = buffer
    BY <2>1, <2>2, <2>5
  <2> QED
    BY <2>6, <2>7, <2>8 DEF data, p
<1> QED
  BY <1>5, <1>6

(* Padding and the test for it are what PKCS#7 defines, for a buffer of    *)
(* any length and the data in front of any part of it: what is returned is *)
(* the length of the padding, and a buffer it does not fit is left alone.  *)
THEOREM PaddingDefined == Spec => []PadsAsDefined
BY BufferTyped, Pads, PTL

LEMMA Lengths == BufferType => LengthAsDefined
<1> SUFFICES ASSUME BufferType, buffer # << >>
             PROVE  LET n == DataLength(buffer, BlockSize)
                    IN  /\ n > 0 => buffer = Padded(SubSeq(buffer, 1, n))
                        /\ \A k \in 1 .. Len(buffer) :
                             buffer = Padded(SubSeq(buffer, 1, k)) => n = k
  BY DEF LengthAsDefined
<1> DEFINE m    == BlockSize
           size == Len(buffer)
           x    == buffer[size]
           ok   == /\ size % m = 0 /\ size >= m
                   /\ x \in 1 .. m /\ size >= x + 1
                   /\ \A i \in size - x + 1 .. size - 1 : buffer[i] = x
<1>1. /\ m \in Nat \ { 0 } /\ size \in Nat \ { 0 }
      /\ buffer = [i \in 1 .. size |-> buffer[i]]
  <2>1. size \in Nat /\ buffer = [i \in 1 .. size |-> buffer[i]]
    BY DEF BufferType
  <2>2. size # 0
    BY DEF BufferType
  <2>3. m \in Nat \ { 0 }
    BY Size DEF Modulus
  <2> QED
    BY <2>1, <2>2, <2>3
<1>2. DataLength(buffer, m) = IF ok THEN size - x ELSE 0
  BY DEF DataLength
<1>3. ASSUME NEW n \in 1 .. size, ok, n = size - x
      PROVE  buffer = Padded(SubSeq(buffer, 1, n))
  <2> DEFINE data == SubSeq(buffer, 1, n)
  <2>1. x \in 1 .. m /\ n + x = size
    BY <1>1, <1>3
  <2>2. x = PadByte(n, m)
    BY <1>3, <2>1, Size, PadIsUnique
  <2>3. Padded(data) = [i \in 1 .. n + x |-> IF i <= n THEN data[i] ELSE x]
    BY <1>1, <2>2, PaddedFront
  <2>4. \A i \in 1 .. n : data[i] = buffer[i]
    BY <1>3, FrontOfBuffer
  <2>5. \A i \in n + 1 .. size : buffer[i] = x
    BY <1>1, <1>3, <2>1
  <2> HIDE DEF data
  <2>6. \A i \in 1 .. size : buffer[i] = IF i <= n THEN data[i] ELSE x
    BY <1>1, <2>4, <2>5
  <2> HIDE DEF x, size
  <2>7. Padded(data) = [i \in 1 .. size |-> buffer[i]]
    BY <2>1, <2>3, <2>6
  <2> QED
    BY <1>1, <2>7 DEF data
<1>4. ASSUME NEW k \in 1 .. size, buffer = Padded(SubSeq(buffer, 1, k))
      PROVE  ok /\ size - x = k
  <2> DEFINE data == SubSeq(buffer, 1, k)
             j    == PadByte(k, m)
  <2>1. j \in 1 .. m /\ (k + j) % m = 0 /\ k + j >= m
    <3>1. k \in Nat
      BY <1>1
    <3>2. k % m <= k /\ k % m \in 0 .. m - 1
      <4> HIDE DEF m
      <4> QED
        BY <1>1, <3>1
    <3> QED
      BY <1>1, <3>1, <3>2, Size, PadByteRange, PadByteFills DEF PadByte
  <2>2. buffer = [i \in 1 .. k + j |-> IF i <= k THEN data[i] ELSE j]
    <3>1. k \in 0 .. Len(buffer)
      BY <1>1
    <3>2. Padded(data) = [i \in 1 .. k + j |-> IF i <= k THEN data[i] ELSE j]
      BY <3>1, PaddedFront
    <3> QED
      BY <1>4, <3>2
  <2> HIDE DEF data, j
  <2>3. size = k + j
    BY <1>1, <2>1, <2>2
  <2>4. \A i \in k + 1 .. size : buffer[i] = j
    BY <1>1, <2>1, <2>2, <2>3
  <2> QED
    BY <1>1, <2>1, <2>3, <2>4
<1>5. ok => size - x \in 1 .. size
  BY <1>1
<1> HIDE DEF ok, x, size
<1>6. \A k \in 1 .. size : buffer = Padded(SubSeq(buffer, 1, k)) => DataLength(buffer, m) = k
  BY <1>2, <1>4
<1>7. DataLength(buffer, m) > 0 => buffer = Padded(SubSeq(buffer, 1, DataLength(buffer, m)))
  <2>1. CASE ok
    BY <1>2, <1>3, <1>5, <2>1
  <2>2. CASE ~ok
    BY <1>2, <2>2
  <2> QED
    BY <2>1, <2>2
<1> QED
  BY <1>6, <1>7 DEF size

(* The length without the padding is reported exactly for the buffers that *)
(* some data was padded to, and it is the length of that data.             *)
THEOREM LengthDefined == Spec => []LengthAsDefined
BY BufferTyped, Lengths, PTL
=============================================================================
