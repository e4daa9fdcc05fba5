SPECIFICATION FairSpec
CONSTANTS
  MaxHellos = 1
  Commands <- AllCommands
  Failures <- AllFailures
INVARIANTS
  SampleHasClient
PROPERTIES
  PauseQuiesces
