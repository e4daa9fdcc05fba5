SPECIFICATION Spec
CONSTANTS
  MaxHellos = 2
  Commands <- AllCommands
  Failures <- NoFailures
PROPERTIES
  InitAwaitsActivation
