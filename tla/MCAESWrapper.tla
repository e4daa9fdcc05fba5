---------------------------- MODULE MCAESWrapper ----------------------------
(***************************************************************************)
(* AESWrapper with blocks of two bytes of two bits and a small stand-in    *)
(* for the block cipher.                                                   *)
(***************************************************************************)
EXTENDS AESWrapper, Bitwise

MCByte == 0 .. 3
MCXor(a, b) == a ^^ b

(* Swap the bytes of a block and add the key.                              *)
MCCipher(key, block) ==
  [i \in 1 .. 2 |-> (block[3 - i] + key[i] + i) % 4]
MCInvCipher(key, block) ==
  [i \in 1 .. 2 |-> (block[3 - i] - (key[3 - i] + (3 - i))) % 4]

(* None, one and two bytes, and a password longer than the key.            *)
MCPasswords == { << >>, <<2>>, <<1, 3>>, <<3, 1, 2>> }
MCIvs       == { <<0, 0>>, <<1, 3>> }

(* Messages of one to four bytes, some of which look like padding.         *)
MCMessages == { <<0>>, <<1>>, <<2, 2>>, <<3, 1>>, <<0, 2, 2>>, <<1, 3, 0, 1>> }
==============================================================================
