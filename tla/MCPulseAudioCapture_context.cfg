SPECIFICATION Spec
CONSTANTS
  MaxHellos = 2
  Commands <- OnlyPing
  Configs <- DefaultConfigs
  Failures <- ContextFailures
INVARIANTS
  NoUseAfterFree
