-------------------------------- MODULE Pkcs7 --------------------------------
(***************************************************************************)
(* The padding functions of pkcs7_padding.cpp.  A buffer is a sequence of  *)
(* bytes whose length is the buffer_size of the C functions; the modulus m *)
(* is a block length between 1 and 255, so the uint8_t arithmetic of the   *)
(* code does not wrap.                                                     *)
(***************************************************************************)
EXTENDS Integers, Sequences

(* Variant for checking: a full block gets no padding.                     *)
PadByteNone(n, m) == (m - (n % m)) % m

(* pad_byte, and expected_pad_byte of the check.                           *)
PadByte(n, m) == m - (n % m)

(* pkcs7_padding_pad_buffer: what it returns and leaves in the buffer.     *)
PadBuffer(buffer, n, m) ==
  LET pad == PadByte(n, m)
  IN  IF n + pad > Len(buffer)
      THEN [ret |-> -pad, buffer |-> buffer]
      ELSE [ret |-> pad,
            buffer |-> [i \in 1 .. Len(buffer) |->
                          IF i \in n + 1 .. n + pad THEN pad ELSE buffer[i]]]

(* pkcs7_padding_valid: whether the first n bytes are followed by their    *)
(* padding.                                                                *)
Valid(buffer, n, m) ==
  LET pad == PadByte(n, m)
  IN  /\ n + pad <= Len(buffer)
      /\ \A i \in n + 1 .. n + pad : buffer[i] = pad

(* Variant for checking: the loop compares one byte too few.               *)
DataLengthShort(buffer, m) ==
  LET size == Len(buffer)
      x    == buffer[size]
  IN  IF /\ size % m = 0
         /\ size >= m
         /\ x \in 1 .. m
         /\ size >= x + 1
         /\ \A i \in size - x + 2 .. size - 1 : buffer[i] = x
      THEN size - x
      ELSE 0

(* pkcs7_padding_data_length: the length without the padding, 0 when there *)
(* is no valid padding or nothing else.                                    *)
DataLength(buffer, m) ==
  LET size == Len(buffer)
      x    == buffer[size]
  IN  IF /\ size % m = 0
         /\ size >= m
         /\ x \in 1 .. m
         /\ size >= x + 1
         /\ \A i \in size - x + 1 .. size - 1 : buffer[i] = x
      THEN size - x
      ELSE 0
==============================================================================
