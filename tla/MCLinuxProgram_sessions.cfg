SPECIFICATION LinuxFairSpec
CONSTANTS
  MaxHellos = 3
  Commands <- AllCommands
  Configs <- AllConfigs
  Failures <- AllFailures
  Clients = {c1}
  NoClient = nobody
  MaxDraws = 1
  Codes <- OneCode
  UserFiles = {}
  Numbers <- MCNumbers
  LongCodes = {}
  MaxStarts = 1
  OtherFailures = {}
INVARIANTS
  TypeOK
  LoopExclusive
  LoopHasObjects
  QuitWasRequested
  FreshInit
  SettingsMatchStream
PROPERTIES
  StopReturns
  ProgramSpec
  AllHandled
