\* Two threads share a group of up to 2 SubDevices with any layout of up to 3
\* bytes of PDI; a frame holds 3 bytes of it, 1 beside the clock, or a check.
SPECIFICATION FairSpec
CONSTANTS
  Tasks = {t1, t2}
  NoTask = NoTask
  MAX_PDI = 3
  MAX_SUBDEVICES = 2
  PdiStart = 3
  FrameLen = 4
  Overhead = 1
  StatusLen = 1
  TimeLen = 1
  MaxChecks = 0
  DcRef = TRUE
  Kinds = {"tx_rx", "tx_rx_dc"}
  Faults = {"timeout", "noframe", "silent"}
  MaxCycles = 2
  MaxWrites = 1
  MaxNow = 1
INVARIANT CycleInv
PROPERTIES
  InputsDelivered
  OutputsDelivered
  OutputsKept
  StatesComplete
  ClockOnce
  CycleEnds
