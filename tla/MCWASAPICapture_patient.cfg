SPECIFICATION PatientSpec
CONSTANTS
  MaxHellos = 3
  Commands <- PlayCommands
  Failures <- BlockingFailures
INVARIANTS
  NeverCrashes
PROPERTIES
  InitAwaitsActivation
  DeviceSpec
