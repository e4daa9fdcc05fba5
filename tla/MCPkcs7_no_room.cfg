SPECIFICATION Spec
CONSTANTS
  Alphabet <- MCAlphabet
  BlockSize <- MCBlockSize
  MaxLength <- MCMaxLength
INVARIANTS
  NoRoomIsZero
