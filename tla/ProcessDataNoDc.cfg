\* A network without a DC reference SubDevice: one call of
\* tx_rx_sync_system_time.
SPECIFICATION FairSpec
CONSTANTS
  Tasks = {t1, t2}
  NoTask = NoTask
  MAX_PDI = 3
  MAX_SUBDEVICES = 2
  PdiStart = 3
  FrameLen = 4
  Overhead = 1
  StatusLen = 1
  TimeLen = 1
  MaxChecks = 0
  DcRef = FALSE
  Kinds = {"tx_rx_sync_system_time"}
  Faults = {}
  MaxCycles = 1
  MaxWrites = 1
  MaxNow = 1
PROPERTIES
  CycleEnds
CHECK_DEADLOCK FALSE
