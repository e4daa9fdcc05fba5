----------------------------- MODULE Pkcs7_proofs -----------------------------
(***************************************************************************)
(* Theorems about the padding functions, for buffers of any length and any *)
(* block length a uint8_t can hold.                                        *)
(***************************************************************************)
EXTENDS Pkcs7, TLAPS

Octet   == 0 .. 255
Modulus == 1 .. 255

LEMMA PadByteRange ==
  ASSUME NEW m \in Modulus, NEW n \in Nat
  PROVE  PadByte(n, m) \in 1 .. m
BY DEF Modulus, PadByte

LEMMA PadByteFills ==
  ASSUME NEW m \in Modulus, NEW n \in Nat
  PROVE  (n + PadByte(n, m)) % m = 0
<1>1. n = m * (n \div m) + (n % m)
  BY DEF Modulus
<1>2. n + PadByte(n, m) = m * ((n \div m) + 1)
  BY <1>1 DEF PadByte, Modulus
<1>3. (n \div m) + 1 \in Nat
  BY DEF Modulus
<1>4. \A k \in Nat : (m * k) % m = 0
  BY DEF Modulus
<1> QED
  BY <1>2, <1>3, <1>4

(* Padding into a buffer with exactly the room for it changes nothing but  *)
(* the padding, ...                                                        *)
LEMMA PadWrites ==
  ASSUME NEW m \in Modulus, NEW buffer \in Seq(Octet), NEW n \in Nat,
         Len(buffer) = n + PadByte(n, m)
  PROVE  LET p == PadBuffer(buffer, n, m).buffer
         IN  /\ p \in Seq(Octet)
             /\ Len(p) = Len(buffer)
             /\ \A i \in 1 .. n : p[i] = buffer[i]
             /\ \A i \in n + 1 .. Len(buffer) : p[i] = PadByte(n, m)
<1> DEFINE p == PadBuffer(buffer, n, m).buffer
<1>1. PadByte(n, m) \in 1 .. m
  BY PadByteRange
<1>2. p = [i \in 1 .. Len(buffer) |->
             IF i \in n + 1 .. n + PadByte(n, m) THEN PadByte(n, m) ELSE buffer[i]]
  BY <1>1 DEF PadBuffer, Modulus
<1> HIDE DEF p
<1>3. ASSUME NEW i \in 1 .. Len(buffer) PROVE p[i] \in Octet
  <2>1. buffer[i] \in Octet
    OBVIOUS
  <2>2. PadByte(n, m) \in Octet
    <3>1. \A k \in 1 .. m : k \in Octet
      BY DEF Octet, Modulus
    <3> QED
      BY <1>1, <3>1
  <2>3. p[i] = PadByte(n, m) \/ p[i] = buffer[i]
    BY <1>2
  <2> QED
    BY <2>1, <2>2, <2>3
<1>4. p \in Seq(Octet) /\ Len(p) = Len(buffer)
  BY <1>1, <1>2, <1>3 DEF Modulus
<1>5. ASSUME NEW i \in 1 .. n PROVE p[i] = buffer[i]
  <2>1. i \in 1 .. Len(buffer) /\ i \notin n + 1 .. n + PadByte(n, m)
    BY <1>1 DEF Modulus
  <2> QED
    BY <1>2, <2>1
<1>6. ASSUME NEW i \in n + 1 .. Len(buffer) PROVE p[i] = PadByte(n, m)
  <2>1. i \in 1 .. Len(buffer) /\ i \in n + 1 .. n + PadByte(n, m)
    BY <1>1 DEF Modulus
  <2> QED
    BY <1>2, <2>1
<1> QED
  BY <1>4, <1>5, <1>6 DEF p

(* ... the padding is recognized as valid, and the receiver finds the      *)
(* length of the data again, whatever the data is, even when it is empty   *)
(* or ends like a padding itself.                                          *)
THEOREM RoundTrip ==
  ASSUME NEW m \in Modulus, NEW buffer \in Seq(Octet), NEW n \in Nat,
         Len(buffer) = n + PadByte(n, m)
  PROVE  LET p == PadBuffer(buffer, n, m).buffer
         IN  Valid(p, n, m) /\ DataLength(p, m) = n
<1> DEFINE p == PadBuffer(buffer, n, m).buffer
<1>1. PadByte(n, m) \in 1 .. m
  BY PadByteRange
<1>2. /\ Len(p) = n + PadByte(n, m)
      /\ \A i \in n + 1 .. Len(p) : p[i] = PadByte(n, m)
  BY PadWrites
<1>3. Len(p) % m = 0
  BY <1>2, PadByteFills
<1> HIDE DEF p
<1>4. p[Len(p)] = PadByte(n, m)
  BY <1>1, <1>2 DEF Modulus
<1>5. Len(p) >= m
  <2>1. n % m <= n
    BY DEF Modulus
  <2> QED
    BY <1>2, <2>1 DEF PadByte, Modulus
<1>6. \A i \in Len(p) - PadByte(n, m) + 1 .. Len(p) - 1 : p[i] = PadByte(n, m)
  BY <1>1, <1>2 DEF Modulus
<1>7. DataLength(p, m) = Len(p) - PadByte(n, m)
  BY <1>1, <1>2, <1>3, <1>4, <1>5, <1>6 DEF DataLength, Modulus
<1>8. Valid(p, n, m)
  BY <1>2 DEF Valid, PadByte
<1>9. DataLength(p, m) = n
  BY <1>1, <1>2, <1>7 DEF Modulus
<1> QED
  BY <1>8, <1>9 DEF p
=============================================================================
