SPECIFICATION FairSpec
CONSTANTS
  MaxHellos = 2
  Commands <- OnlyStop
  Failures <- StartFailures
INVARIANTS
  TypeOK
  WaiterHasSignal
  TransientHasWork
PROPERTIES
  WaitEnds
  TransientEnds
