SPECIFICATION Spec
CONSTANTS
  BYTE = 4
  PMEM_BASE = 0
  PMEM_SIZE = 16
  PAGE_SIZE = 32
  IO_SPACE_MAX = 256
  PORT_IO_SPACE_MAX = 128
  KEY_QUEUE_LEN = 3
  Devices <- MCDevices
  VGACTL = 38
  USEC = 2
  Guest <- MCGuest
PROPERTIES
  ExecExact
  DevicesApart
  KeysInOrder
\* The guest ends, and so do its steps.
CHECK_DEADLOCK FALSE
