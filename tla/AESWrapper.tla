----------------------------- MODULE AESWrapper -----------------------------
(***************************************************************************)
(* AESWrapper.cpp and the CBC mode of aes.cpp, used as AudioStream uses    *)
(* them: the server encrypts messages with a fresh initialization vector   *)
(* each, UDP carries vector and ciphertext, and the receiver, whose        *)
(* wrapper was given the same password, decrypts what arrives.             *)
(*                                                                         *)
(* The block cipher itself is a parameter, any pair of inverse functions   *)
(* on blocks.                                                              *)
(***************************************************************************)
EXTENDS Pkcs7

CONSTANTS
  BlockLen,           \* AES_BLOCKLEN
  KeySize,            \* AES_KEY_SIZE
  Byte,               \* the values of a byte, an initial part of Nat
  Passwords,          \* passwords the program may be started with
  Ivs,                \* initialization vectors the random generator returns
  Messages,           \* messages to encrypt
  Garbage,            \* bytes the uninitialized memory of a wrapper may hold
  MaxSends,           \* bound: datagrams sent in a behaviour
  XorByte(_, _),      \* exclusive or of two bytes
  Cipher(_, _),       \* a block encrypted under a key
  InvCipher(_, _)

Blocks == [1 .. BlockLen -> Byte]

ASSUME ConstantsAssumption ==
  /\ { BlockLen, KeySize } \subseteq Nat \ { 0 }
  /\ 0 .. BlockLen \subseteq Byte /\ Byte \subseteq 0 .. 255
  /\ Ivs \subseteq Blocks
  /\ Messages \subseteq Seq(Byte) \ { << >> }
  /\ Passwords \subseteq Seq(Byte)
  /\ Garbage \subseteq Byte
  /\ MaxSends \in Nat

(* All that is used of the block cipher and the exclusive or.              *)
ASSUME CipherAssumption ==
  /\ \A key \in [1 .. KeySize -> Byte], b \in Blocks :
       Cipher(key, b) \in Blocks /\ InvCipher(key, Cipher(key, b)) = b
  /\ \A a, b \in Byte : XorByte(a, b) \in Byte /\ XorByte(XorByte(a, b), b) = a

VARIABLES
  password,  \* m_password
  sendKey,   \* the sender's m_key
  recvKey,   \* the receiver's m_key
  sendIv,    \* the sender's m_iv
  encIv,     \* the sender's m_encrypt_ctx.Iv
  recvIv,    \* the receiver's m_iv
  decIv,     \* the receiver's m_decrypt_ctx.Iv
  network,   \* datagrams sent, with the message they carry
  sends,     \* number of datagrams sent
  delivered  \* the last datagram received and what it decrypted to

vars == <<password, sendKey, recvKey, sendIv, encIv, recvIv, decIv, network,
          sends, delivered>>

-----------------------------------------------------------------------------
(* GenerateKey: the first bytes of the password, then its last byte again. *)
(* Without a password the byte that is repeated is whatever lies before    *)
(* m_key in memory.                                                        *)
GenerateKey(p, garbage) ==
  LET n == IF Len(p) < KeySize THEN Len(p) ELSE KeySize
  IN  [i \in 1 .. KeySize |-> IF i <= n THEN p[i] ELSE IF n > 0 THEN p[n] ELSE garbage]

(* The sequence of a buffer's blocks, and the buffer made of blocks.       *)
Block(buffer, k) == [i \in 1 .. BlockLen |-> buffer[(k - 1) * BlockLen + i]]
Buffer(blocks) ==
  [i \in 1 .. Len(blocks) * BlockLen |->
     blocks[((i - 1) \div BlockLen) + 1][((i - 1) % BlockLen) + 1]]

XorWithIv(block, iv) == [i \in 1 .. BlockLen |-> XorByte(block[i], iv[i])]

(* The blocks AES_CBC_encrypt_buffer leaves in the buffer: each block is   *)
(* combined with the one before it, the first with the vector, and         *)
(* encrypted.                                                              *)
CBCEncrypted(key, iv, buffer) ==
  { out \in [1 .. Len(buffer) \div BlockLen -> Blocks] :
      \A k \in DOMAIN out :
        out[k] = Cipher(key, XorWithIv(Block(buffer, k), IF k = 1 THEN iv ELSE out[k - 1])) }

CBCDecrypt(key, iv, buffer) ==
  [k \in 1 .. Len(buffer) \div BlockLen |->
     XorWithIv(InvCipher(key, Block(buffer, k)),
               IF k = 1 THEN iv ELSE Block(buffer, k - 1))]

(* Variant for checking: data that fills its blocks gets no further block.  *)
EncryptedLengthFull(n) ==
  IF n % BlockLen # 0 THEN n + (BlockLen - (n % BlockLen)) ELSE n

(* The buffer Encrypt hands to the cipher: the data, room up to the next   *)
(* multiple of the block length, and the padding.                          *)
EncryptedLength(n) ==
  IF n % BlockLen # 0 THEN n + (BlockLen - (n % BlockLen)) ELSE n + BlockLen

PaddedBuffer(data) ==
  LET room == [i \in 1 .. EncryptedLength(Len(data)) |->
                 IF i <= Len(data) THEN data[i] ELSE 0]
  IN  PadBuffer(room, Len(data), BlockLen).buffer

Plain(blocks) == SubSeq(Buffer(blocks), 1, DataLength(Buffer(blocks), BlockLen))

-----------------------------------------------------------------------------
Uninitialized == { [i \in 1 .. BlockLen |-> g] : g \in Garbage }

(* Both sides generate their key from the same password; the rest of the   *)
(* wrappers is uninitialized.                                              *)
Init ==
  /\ password \in Passwords
  /\ \E g \in Garbage : sendKey = GenerateKey(password, g)
  /\ \E g \in Garbage : recvKey = GenerateKey(password, g)
  /\ sendIv \in Uninitialized /\ encIv \in Uninitialized
  /\ recvIv \in Uninitialized /\ decIv \in Uninitialized
  /\ network = {}
  /\ sends = 0
  /\ delivered = << >>

(* Variant for checking: the context is not initialized with the vector    *)
(* again and continues the chain of the previous message.                  *)
SendChained ==
  /\ sends < MaxSends
  /\ sends' = sends + 1
  /\ \E iv \in Ivs, m \in Messages :
       \E out \in CBCEncrypted(sendKey, encIv, PaddedBuffer(m)) :
         /\ sendIv' = iv
         /\ encIv' = out[Len(out)]
         /\ network' = network \cup { [iv |-> iv, data |-> Buffer(out), msg |-> m] }
  /\ UNCHANGED <<password, sendKey, recvKey, recvIv, decIv, delivered>>

(* A fresh vector, SetIv, Encrypt, and the datagram is sent.               *)
Send ==
  /\ sends < MaxSends
  /\ sends' = sends + 1
  /\ \E iv \in Ivs, m \in Messages :
       \E out \in CBCEncrypted(sendKey, iv, PaddedBuffer(m)) :
         /\ sendIv' = iv
         /\ encIv' = out[Len(out)]
         /\ network' = network \cup { [iv |-> iv, data |-> Buffer(out), msg |-> m] }
  /\ UNCHANGED <<password, sendKey, recvKey, recvIv, decIv, delivered>>

(* Any datagram that was sent arrives, perhaps again, perhaps never:       *)
(* SetIv with the vector it carries, then Decrypt.                         *)
Receive ==
  /\ \E d \in network :
       /\ recvIv' = d.iv
       /\ decIv' = Block(d.data, Len(d.data) \div BlockLen)
       /\ delivered' = <<d, Plain(CBCDecrypt(recvKey, d.iv, d.data))>>
  /\ UNCHANGED <<password, sendKey, recvKey, sendIv, encIv, network, sends>>

Next == Send \/ Receive

Spec == Init /\ [][Next]_vars

-----------------------------------------------------------------------------
(* Datagrams may be lost, repeated and reordered: each one that arrives    *)
(* decrypts to the message it was made from, whatever arrived before it,   *)
(* provided that there is a password to make the same key from.            *)
DeliveredAsSent ==
  delivered # << >> /\ password # << >> => delivered[2] = delivered[1].msg

(* A ciphertext fills whole blocks and is longer than its message by at    *)
(* least one byte and at most one block.                                   *)
CiphertextLength ==
  \A d \in network :
    /\ Len(d.data) % BlockLen = 0
    /\ Len(d.data) - Len(d.msg) \in 1 .. BlockLen
=============================================================================
