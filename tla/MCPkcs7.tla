------------------------------- MODULE MCPkcs7 -------------------------------
(* Buffers of two blocks over the values that occur as padding, zero and    *)
(* one more.                                                               *)
EXTENDS Pkcs7Buffers

MCBlockSize == 3
MCAlphabet  == 0 .. MCBlockSize + 1
MCMaxLength == 2 * MCBlockSize
==============================================================================
