-------------------------- MODULE AESWrapper_proofs --------------------------
(***************************************************************************)
(* Theorems about encryption and decryption, for any block cipher, any     *)
(* block length a uint8_t holds, and any messages, vectors and passwords.  *)
(***************************************************************************)
EXTENDS AESWrapper, Pkcs7_proofs

LEMMA Sizes ==
  /\ BlockLen \in Modulus /\ BlockLen \in Nat \ { 0 }
  /\ KeySize \in Nat
  /\ 0 \in Byte
  /\ Byte \subseteq Octet
  /\ \A i \in 1 .. BlockLen : i \in Byte
<1>1. { BlockLen, KeySize } \subseteq Nat \ { 0 }
  BY ConstantsAssumption DEF ConstantsAssumption
<1>2. 0 .. BlockLen \subseteq Byte /\ Byte \subseteq 0 .. 255
  BY ConstantsAssumption DEF ConstantsAssumption
<1>3. BlockLen \in 0 .. 255 /\ 0 \in Byte
  BY <1>1, <1>2
<1> QED
  BY <1>1, <1>2, <1>3 DEF Modulus, Octet

(* The place of a byte in a buffer of blocks.                              *)
LEMMA Place ==
  ASSUME NEW b \in Nat \ { 0 }, NEW q \in Nat, NEW r \in 0 .. b - 1
  PROVE  (q * b + r) \div b = q /\ (q * b + r) % b = r
<1> DEFINE n == q * b + r
           d == n \div b
           e == n % b
<1>1. q * b \in Nat
  OBVIOUS
<1>2. n \in Nat
  BY <1>1
<1>3. d \in Nat /\ e \in 0 .. b - 1 /\ n = b * d + e
  BY <1>2
<1> HIDE DEF d, e
<1>4. b * d + e = b * q + r
  BY <1>3
<1>5. ~(d > q)
  <2> SUFFICES ASSUME d >= q + 1 PROVE FALSE
    BY <1>3
  <2>1. b * d >= b * (q + 1)
    BY <1>3
  <2>2. b * (q + 1) = b * q + b
    OBVIOUS
  <2> QED
    BY <1>3, <1>4, <2>1, <2>2
<1>6. ~(d < q)
  <2> SUFFICES ASSUME q >= d + 1 PROVE FALSE
    BY <1>3
  <2>1. b * q >= b * (d + 1)
    BY <1>3
  <2>2. b * (d + 1) = b * d + b
    BY <1>3
  <2> QED
    BY <1>3, <1>4, <2>1, <2>2
<1>7. d = q
  BY <1>3, <1>5, <1>6
<1>8. e = r
  BY <1>3, <1>4, <1>7
<1> QED
  BY <1>7, <1>8 DEF d, e

(* The length of a buffer made of blocks, and the blocks of such a buffer. *)
LEMMA BufferLength ==
  ASSUME NEW n \in Nat, NEW out \in [1 .. n -> Blocks]
  PROVE  Len(out) = n /\ Len(Buffer(out)) = n * BlockLen /\ n * BlockLen \in Nat
<1>1. n * BlockLen \in Nat
  BY Sizes
<1>2. Len(out) = n
  OBVIOUS
<1> QED
  BY <1>1, <1>2 DEF Buffer

LEMMA BlockOfBuffer ==
  ASSUME NEW n \in Nat, NEW out \in [1 .. n -> Blocks], NEW k \in 1 .. n
  PROVE  Block(Buffer(out), k) = out[k]
<1>1. Len(out) = n
  OBVIOUS
<1>2. ASSUME NEW i \in 1 .. BlockLen PROVE Buffer(out)[(k - 1) * BlockLen + i] = out[k][i]
  <2> DEFINE j == (k - 1) * BlockLen + i
  <2>1. k - 1 \in Nat /\ i - 1 \in 0 .. BlockLen - 1 /\ BlockLen \in Nat \ { 0 }
    BY Sizes
  <2>2. ((k - 1) * BlockLen + (i - 1)) \div BlockLen = k - 1
        /\ ((k - 1) * BlockLen + (i - 1)) % BlockLen = i - 1
    BY <2>1, Place
  <2>3. j - 1 = (k - 1) * BlockLen + (i - 1)
    BY <2>1
  <2>4. j \in 1 .. n * BlockLen
    <3>1. (k - 1) * BlockLen \in Nat /\ n * BlockLen \in Nat
      BY <2>1
    <3>2. (k - 1) * BlockLen + BlockLen = k * BlockLen
      BY <2>1
    <3>3. k * BlockLen <= n * BlockLen
      BY <2>1
    <3> QED
      BY <2>1, <3>1, <3>2, <3>3
  <2> HIDE DEF j
  <2>5. Buffer(out)[j] = out[((j - 1) \div BlockLen) + 1][((j - 1) % BlockLen) + 1]
    BY <1>1, <2>4 DEF Buffer
  <2>6. (j - 1) \div BlockLen = k - 1 /\ (j - 1) % BlockLen = i - 1
    BY <2>2, <2>3
  <2>7. Buffer(out)[j] = out[(k - 1) + 1][(i - 1) + 1]
    BY <2>5, <2>6
  <2> QED
    BY <2>1, <2>7 DEF j
<1>3. out[k] \in [1 .. BlockLen -> Byte]
  BY DEF Blocks
<1> QED
  BY <1>2, <1>3 DEF Block

LEMMA BufferOfBlocks ==
  ASSUME NEW n \in Nat, NEW buffer \in Seq(Byte), Len(buffer) = n * BlockLen,
         NEW out \in [1 .. n -> Blocks], \A k \in 1 .. n : out[k] = Block(buffer, k)
  PROVE  Buffer(out) = buffer
<1>1. Len(out) = n /\ n * BlockLen \in Nat
  BY BufferLength
<1>2. ASSUME NEW i \in 1 .. n * BlockLen PROVE Buffer(out)[i] = buffer[i]
  <2> DEFINE q == (i - 1) \div BlockLen
             r == (i - 1) % BlockLen
  <2>1. BlockLen \in Nat \ { 0 } /\ i - 1 \in Nat
    BY Sizes
  <2>2. q \in Nat /\ r \in 0 .. BlockLen - 1 /\ i - 1 = BlockLen * q + r
    BY <2>1
  <2>3. Buffer(out)[i] = out[q + 1][r + 1]
    BY <1>1 DEF Buffer
  <2> HIDE DEF q, r
  <2>4. q + 1 \in 1 .. n
    <3> SUFFICES ASSUME q >= n PROVE FALSE
      BY <2>2
    <3>1. BlockLen * q >= BlockLen * n
      BY <2>1, <2>2
    <3> QED
      BY <2>1, <2>2, <3>1
  <2>5. out[q + 1][r + 1] = buffer[((q + 1) - 1) * BlockLen + (r + 1)]
    BY <2>1, <2>2, <2>4 DEF Block
  <2>6. ((q + 1) - 1) * BlockLen + (r + 1) = i
    BY <2>1, <2>2
  <2> QED
    BY <2>3, <2>5, <2>6
<1>3. Buffer(out) = [i \in 1 .. n * BlockLen |-> Buffer(out)[i]]
  BY <1>1 DEF Buffer
<1>4. buffer = [i \in 1 .. n * BlockLen |-> buffer[i]]
  BY <1>1
<1> QED
  BY <1>2, <1>3, <1>4

-----------------------------------------------------------------------------
(* Decryption undoes the chain, whatever the buffer holds.                 *)
LEMMA BlockType ==
  ASSUME NEW n \in Nat, NEW buffer \in Seq(Byte), Len(buffer) = n * BlockLen, NEW k \in 1 .. n
  PROVE  Block(buffer, k) \in Blocks
<1>1. ASSUME NEW i \in 1 .. BlockLen PROVE buffer[(k - 1) * BlockLen + i] \in Byte
  <2>1. BlockLen \in Nat \ { 0 } /\ (k - 1) * BlockLen \in Nat /\ n * BlockLen \in Nat
    BY Sizes
  <2>2. (k - 1) * BlockLen + BlockLen = k * BlockLen /\ k * BlockLen <= n * BlockLen
    BY <2>1
  <2>3. (k - 1) * BlockLen + i \in 1 .. Len(buffer)
    BY <2>1, <2>2
  <2> QED
    BY <2>3
<1> QED
  BY <1>1 DEF Block, Blocks

LEMMA XorTwice ==
  ASSUME NEW a \in Blocks, NEW b \in Blocks
  PROVE  XorWithIv(a, b) \in Blocks /\ XorWithIv(XorWithIv(a, b), b) = a
<1>1. \A i \in 1 .. BlockLen :
        /\ a[i] \in Byte /\ b[i] \in Byte
        /\ XorByte(a[i], b[i]) \in Byte
        /\ XorByte(XorByte(a[i], b[i]), b[i]) = a[i]
  BY CipherAssumption DEF CipherAssumption, Blocks
<1>2. XorWithIv(a, b) \in Blocks
  BY <1>1 DEF XorWithIv, Blocks
<1>3. XorWithIv(XorWithIv(a, b), b) = [i \in 1 .. BlockLen |-> a[i]]
  BY <1>1 DEF XorWithIv
<1> QED
  BY <1>2, <1>3 DEF Blocks

LEMMA CBCInverts ==
  ASSUME NEW key \in [1 .. KeySize -> Byte], NEW iv \in Blocks, NEW n \in Nat,
         NEW buffer \in Seq(Byte), Len(buffer) = n * BlockLen,
         NEW out \in CBCEncrypted(key, iv, buffer)
  PROVE  /\ Len(Buffer(out)) = n * BlockLen
         /\ Buffer(CBCDecrypt(key, iv, Buffer(out))) = buffer
<1>1. BlockLen \in Nat \ { 0 } /\ n * BlockLen \in Nat
  BY Sizes
<1>2. (n * BlockLen) \div BlockLen = n
  <2>1. (n * BlockLen + 0) \div BlockLen = n
    BY <1>1, Place
  <2> QED
    BY <1>1, <2>1
<1>3. /\ out \in [1 .. n -> Blocks]
      /\ \A k \in 1 .. n :
           out[k] = Cipher(key, XorWithIv(Block(buffer, k), IF k = 1 THEN iv ELSE out[k - 1]))
  BY <1>2 DEF CBCEncrypted
<1>4. Len(Buffer(out)) = n * BlockLen
  BY <1>3, BufferLength
<1>5. CBCDecrypt(key, iv, Buffer(out)) =
        [k \in 1 .. n |-> XorWithIv(InvCipher(key, Block(Buffer(out), k)),
                                    IF k = 1 THEN iv ELSE Block(Buffer(out), k - 1))]
  BY <1>2, <1>4 DEF CBCDecrypt
<1>6. ASSUME NEW k \in 1 .. n
      PROVE  CBCDecrypt(key, iv, Buffer(out))[k] = Block(buffer, k)
  <2> DEFINE prev == IF k = 1 THEN iv ELSE out[k - 1]
  <2>1. Block(Buffer(out), k) = out[k]
    BY <1>3, BlockOfBuffer
  <2>2. k # 1 => k - 1 \in 1 .. n /\ Block(Buffer(out), k - 1) = out[k - 1]
    BY <1>3, BlockOfBuffer
  <2>3. prev \in Blocks
    BY <1>3, <2>2
  <2>4. CBCDecrypt(key, iv, Buffer(out))[k] = XorWithIv(InvCipher(key, out[k]), prev)
    BY <1>5, <2>1, <2>2
  <2>5. out[k] = Cipher(key, XorWithIv(Block(buffer, k), prev))
    BY <1>3
  <2> HIDE DEF prev
  <2>6. Block(buffer, k) \in Blocks
    BY BlockType
  <2>7. XorWithIv(Block(buffer, k), prev) \in Blocks
    BY <2>3, <2>6, XorTwice
  <2>8. InvCipher(key, out[k]) = XorWithIv(Block(buffer, k), prev)
    BY <2>5, <2>7, CipherAssumption DEF CipherAssumption
  <2> QED
    BY <2>3, <2>4, <2>6, <2>8, XorTwice
<1>7. CBCDecrypt(key, iv, Buffer(out)) \in [1 .. n -> Blocks]
  <2>1. \A k \in 1 .. n : CBCDecrypt(key, iv, Buffer(out))[k] \in Blocks
    BY <1>6, BlockType
  <2> QED
    BY <1>5, <2>1
<1>8. Buffer(CBCDecrypt(key, iv, Buffer(out))) = buffer
  BY <1>6, <1>7, BufferOfBlocks
<1> QED
  BY <1>4, <1>8

-----------------------------------------------------------------------------
(* What Encrypt hands to the cipher: whole blocks that begin with the      *)
(* message, and from which the receiver finds the message's length.        *)
LEMMA PaddedMessage ==
  ASSUME NEW m \in Seq(Byte)
  PROVE  LET p == PaddedBuffer(m)
         IN  /\ p \in Seq(Byte)
             /\ Len(p) = Len(m) + PadByte(Len(m), BlockLen)
             /\ \E n \in Nat : Len(p) = n * BlockLen
             /\ \A i \in 1 .. Len(m) : p[i] = m[i]
             /\ DataLength(p, BlockLen) = Len(m)
<1> DEFINE p    == PaddedBuffer(m)
           room == [i \in 1 .. EncryptedLength(Len(m)) |-> IF i <= Len(m) THEN m[i] ELSE 0]
<1>1. Len(m) \in Nat /\ PadByte(Len(m), BlockLen) \in 1 .. BlockLen
  BY Sizes, PadByteRange
<1>2. EncryptedLength(Len(m)) = Len(m) + PadByte(Len(m), BlockLen)
  BY <1>1, Sizes DEF EncryptedLength, PadByte
<1>3. room \in Seq(Byte) /\ Len(room) = Len(m) + PadByte(Len(m), BlockLen)
  BY <1>1, <1>2, Sizes
<1>4. room \in Seq(Octet)
  BY <1>3, Sizes
<1>5. p = PadBuffer(room, Len(m), BlockLen).buffer
  BY DEF PaddedBuffer
<1>6. \A i \in 1 .. Len(m) : room[i] = m[i]
  BY <1>1, <1>2
<1> HIDE DEF room, p
<1>7. /\ p \in Seq(Octet)
      /\ Len(p) = Len(room)
      /\ \A i \in 1 .. Len(m) : p[i] = room[i]
      /\ \A i \in Len(m) + 1 .. Len(room) : p[i] = PadByte(Len(m), BlockLen)
  BY <1>1, <1>3, <1>4, <1>5, Sizes, PadWrites
<1>8. \A i \in 1 .. Len(p) : p[i] \in Byte
  <2>1. \A i \in 1 .. Len(m) : p[i] \in Byte
    BY <1>6, <1>7
  <2>2. \A i \in Len(m) + 1 .. Len(p) : p[i] \in Byte
    BY <1>1, <1>7, Sizes
  <2> QED
    BY <1>1, <1>3, <1>7, <2>1, <2>2
<1>9. p \in Seq(Byte)
  BY <1>7, <1>8
<1>10. \E n \in Nat : Len(p) = n * BlockLen
  <2>1. Len(p) \in Nat /\ Len(p) % BlockLen = 0
    BY <1>1, <1>3, <1>7, Sizes, PadByteFills
  <2>2. Len(p) = BlockLen * (Len(p) \div BlockLen) + (Len(p) % BlockLen)
    BY <2>1, Sizes
  <2>3. Len(p) \div BlockLen \in Nat
    BY <2>1, Sizes
  <2>4. Len(p) = (Len(p) \div BlockLen) * BlockLen
    BY <2>1, <2>2, <2>3, Sizes
  <2> QED
    BY <2>3, <2>4
<1>11. DataLength(p, BlockLen) = Len(m)
  BY <1>1, <1>3, <1>4, <1>5, Sizes, RoundTrip
<1> QED
  BY <1>3, <1>6, <1>7, <1>9, <1>10, <1>11 DEF p

(* The receiver gets the message, whatever the cipher is.                  *)
LEMMA MessageInverts ==
  ASSUME NEW key \in [1 .. KeySize -> Byte], NEW iv \in Blocks, NEW m \in Seq(Byte),
         NEW out \in CBCEncrypted(key, iv, PaddedBuffer(m))
  PROVE  /\ Len(Buffer(out)) = Len(m) + PadByte(Len(m), BlockLen)
         /\ Len(Buffer(out)) % BlockLen = 0
         /\ Plain(CBCDecrypt(key, iv, Buffer(out))) = m
<1> DEFINE p == PaddedBuffer(m)
<1>1. /\ p \in Seq(Byte) /\ Len(p) = Len(m) + PadByte(Len(m), BlockLen)
      /\ \A i \in 1 .. Len(m) : p[i] = m[i]
      /\ DataLength(p, BlockLen) = Len(m)
  BY PaddedMessage
<1>2. PICK n \in Nat : Len(p) = n * BlockLen
  BY PaddedMessage
<1> HIDE DEF p
<1>3. Len(Buffer(out)) = n * BlockLen /\ Buffer(CBCDecrypt(key, iv, Buffer(out))) = p
  BY <1>1, <1>2, CBCInverts DEF p
<1>4. (n * BlockLen) % BlockLen = 0
  <2>1. BlockLen \in Nat \ { 0 } /\ 0 \in 0 .. BlockLen - 1
    BY Sizes
  <2>2. (n * BlockLen + 0) % BlockLen = 0
    BY <2>1, Place
  <2>3. n * BlockLen + 0 = n * BlockLen
    BY <2>1
  <2> QED
    BY <2>2, <2>3
<1>5. Plain(CBCDecrypt(key, iv, Buffer(out))) = SubSeq(p, 1, Len(m))
  BY <1>1, <1>3 DEF Plain
<1>6. SubSeq(p, 1, Len(m)) = [i \in 1 .. Len(m) |-> p[i]]
  BY <1>1, Sizes, PadByteRange
<1>7. m = [i \in 1 .. Len(m) |-> m[i]]
  OBVIOUS
<1>8. SubSeq(p, 1, Len(m)) = m
  BY <1>1, <1>6, <1>7
<1> QED
  BY <1>1, <1>2, <1>3, <1>4, <1>5, <1>8

-----------------------------------------------------------------------------
(* Every datagram on the network was made by Encrypt with the sender's key *)
(* and its own vector; both keys come from one password; what was received *)
(* last is what Decrypt makes of a datagram.                               *)
Made(d) ==
  /\ d.iv \in Blocks /\ d.msg \in Seq(Byte)
  /\ \E out \in CBCEncrypted(sendKey, d.iv, PaddedBuffer(d.msg)) : d.data = Buffer(out)

CipherInv ==
  /\ password \in Seq(Byte)
  /\ sendKey \in [1 .. KeySize -> Byte]
  /\ password # << >> => recvKey = sendKey
  /\ \A d \in network : Made(d)
  /\ delivered # << >> =>
       \E d \in network : delivered = <<d, Plain(CBCDecrypt(recvKey, d.iv, d.data))>>

LEMMA KeyType ==
  ASSUME NEW p \in Seq(Byte), NEW g \in Byte
  PROVE  GenerateKey(p, g) \in [1 .. KeySize -> Byte]
BY Sizes DEF GenerateKey

LEMMA KeysAgree ==
  ASSUME NEW p \in Seq(Byte), p # << >>, NEW g \in Byte, NEW h \in Byte
  PROVE  GenerateKey(p, g) = GenerateKey(p, h)
<1>1. Len(p) \in Nat \ { 0 }
  OBVIOUS
<1>2. KeySize \in Nat \ { 0 }
  BY ConstantsAssumption DEF ConstantsAssumption
<1> QED
  BY <1>1, <1>2 DEF GenerateKey

LEMMA CipherInvStart == Init => CipherInv
<1> SUFFICES ASSUME Init PROVE CipherInv
  OBVIOUS
<1>1. password \in Seq(Byte) /\ Garbage \subseteq Byte
  BY ConstantsAssumption DEF ConstantsAssumption, Init
<1>2. PICK g \in Garbage : sendKey = GenerateKey(password, g)
  BY DEF Init
<1>3. PICK h \in Garbage : recvKey = GenerateKey(password, h)
  BY DEF Init
<1>4. sendKey \in [1 .. KeySize -> Byte]
  BY <1>1, <1>2, KeyType
<1>5. password # << >> => recvKey = sendKey
  BY <1>1, <1>2, <1>3, KeysAgree
<1> QED
  BY <1>1, <1>4, <1>5 DEF Init, CipherInv

LEMMA CipherInvStep ==
  ASSUME CipherInv, [Next]_vars
  PROVE  CipherInv'
<1>1. CASE Send
  <2>1. PICK iv \in Ivs, m \in Messages : \E out \in CBCEncrypted(sendKey, iv, PaddedBuffer(m)) :
          network' = network \cup { [iv |-> iv, data |-> Buffer(out), msg |-> m] }
    BY <1>1 DEF Send
  <2>2. PICK out \in CBCEncrypted(sendKey, iv, PaddedBuffer(m)) :
          network' = network \cup { [iv |-> iv, data |-> Buffer(out), msg |-> m] }
    BY <2>1
  <2>3. iv \in Blocks /\ m \in Seq(Byte)
    BY ConstantsAssumption DEF ConstantsAssumption
  <2>4. UNCHANGED <<password, sendKey, recvKey, delivered>>
    BY <1>1 DEF Send
  <2>5. Made([iv |-> iv, data |-> Buffer(out), msg |-> m])
    BY <2>3 DEF Made
  <2>6. \A d \in network' : Made(d)
    BY <2>2, <2>5 DEF CipherInv
  <2>7. \A d \in network' : Made(d)'
    BY <2>4, <2>6 DEF Made
  <2> QED
    BY <2>2, <2>4, <2>7 DEF CipherInv
<1>2. CASE Receive
  <2>1. \E d \in network : delivered' = <<d, Plain(CBCDecrypt(recvKey, d.iv, d.data))>>
    BY <1>2 DEF Receive
  <2>2. UNCHANGED <<password, sendKey, recvKey, network>>
    BY <1>2 DEF Receive
  <2> QED
    BY <2>1, <2>2 DEF CipherInv, Made
<1>3. CASE UNCHANGED vars
  BY <1>3 DEF vars, CipherInv, Made
<1> QED
  BY <1>1, <1>2, <1>3 DEF Next

LEMMA CipherInvariance == Spec => []CipherInv
BY CipherInvStart, CipherInvStep, PTL DEF Spec

(* Every ciphertext fills whole blocks and is longer than its message, by  *)
(* one block at most.                                                      *)
THEOREM WholeBlocks == Spec => []CiphertextLength
<1>1. CipherInv => CiphertextLength
  <2> SUFFICES ASSUME CipherInv, NEW d \in network
               PROVE  Len(d.data) % BlockLen = 0 /\ Len(d.data) - Len(d.msg) \in 1 .. BlockLen
    BY DEF CiphertextLength
  <2>1. PICK out \in CBCEncrypted(sendKey, d.iv, PaddedBuffer(d.msg)) : d.data = Buffer(out)
    BY DEF CipherInv, Made
  <2>2. d.iv \in Blocks /\ d.msg \in Seq(Byte) /\ sendKey \in [1 .. KeySize -> Byte]
    BY DEF CipherInv, Made
  <2>3. Len(d.data) % BlockLen = 0 /\ Len(d.data) = Len(d.msg) + PadByte(Len(d.msg), BlockLen)
    BY <2>1, <2>2, MessageInverts
  <2>4. Len(d.msg) \in Nat
    BY <2>2
  <2>5. PadByte(Len(d.msg), BlockLen) \in 1 .. BlockLen
    BY <2>4, Sizes, PadByteRange
  <2> QED
    BY <2>3, <2>4, <2>5, Sizes
<1> QED
  BY <1>1, CipherInvariance, PTL

(* Whatever the block cipher, the vectors and the messages are, and        *)
(* however datagrams are lost, repeated and reordered, each one that       *)
(* arrives decrypts to the message it was made from.                       *)
THEOREM Delivery == Spec => []DeliveredAsSent
<1>1. CipherInv => DeliveredAsSent
  <2> SUFFICES ASSUME CipherInv, delivered # << >>, password # << >>
               PROVE  delivered[2] = delivered[1].msg
    BY DEF DeliveredAsSent
  <2>1. PICK d \in network : delivered = <<d, Plain(CBCDecrypt(recvKey, d.iv, d.data))>>
    BY DEF CipherInv
  <2>2. PICK out \in CBCEncrypted(sendKey, d.iv, PaddedBuffer(d.msg)) : d.data = Buffer(out)
    BY DEF CipherInv, Made
  <2>3. d.iv \in Blocks /\ d.msg \in Seq(Byte)
    BY DEF CipherInv, Made
  <2>4. recvKey = sendKey /\ sendKey \in [1 .. KeySize -> Byte]
    BY DEF CipherInv
  <2>5. Plain(CBCDecrypt(recvKey, d.iv, d.data)) = d.msg
    BY <2>2, <2>3, <2>4, MessageInverts
  <2> QED
    BY <2>1, <2>5
<1> QED
  BY <1>1, CipherInvariance, PTL
==============================================================================
