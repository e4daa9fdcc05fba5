SPECIFICATION FairSpec
CONSTANTS
  MaxHellos = 1
  Commands <- OnlyPlay
  Configs <- DefaultConfigs
  Failures <- NoFailures
PROPERTIES
  PlayStarts
