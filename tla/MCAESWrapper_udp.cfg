SPECIFICATION Spec
CONSTANTS
  BlockLen = 2
  KeySize = 2
  Byte <- MCByte
  Passwords <- MCPasswords
  Ivs <- MCIvs
  Messages <- MCMessages
  Garbage = {0, 1}
  MaxSends = 2
  XorByte <- MCXor
  Cipher <- MCCipher
  InvCipher <- MCInvCipher
INVARIANTS
  DeliveredAsSent
  CiphertextLength
