SPECIFICATION FairSpec
CONSTANTS
  MaxVersions = 1
  MaxRestarts = 0
PROPERTY RunningModuleRegisters
