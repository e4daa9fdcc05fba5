SPECIFICATION FairSpec
CONSTANTS
  Clients = {c1, c2}
  NoClient = nobody
  MaxDraws = 2
  ProgramFailures <- AllFailures
  Codes <- MCCodes
  UserFiles <- MCUserFiles
  Numbers <- MCNumbers
  LongCodes <- MCLongCodes
  MaxStarts = 2
INVARIANTS
  TypeOK
  VectorMatches
  FreshUntilCommand
  AudioFollowsAnswer
  ThreadsOwnSockets
  PairingKept
PROPERTIES
  HelloHandled
