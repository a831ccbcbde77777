SPECIFICATION Spec
CONSTANTS
  PMEM_BASE = 144
  IMAGE_START = 10
  HANDLER = 17
  STACK = 8
  REGS = 4
  DIFFTEST_REGS = 3
  MTU = 5
  BOOT = 5
  BOOT_STEPS = 4
  MEMORY <- MCMemory
  Scenario <- MCScenario
INVARIANTS
  Lockstep
  NoFalseAlarm
PROPERTY
  CallsReturn
\* The program ends.
CHECK_DEADLOCK FALSE
