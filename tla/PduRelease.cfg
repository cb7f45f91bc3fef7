\* Tasks on one thread, the driver on another; the driver may fail, the
\* MainDevice is released and its driver stopped and restarted.
SPECIFICATION FairSpec
CONSTANTS
  N = 1
  PduMod = 4
  Tasks = {t1, t2}
  NoTask = NoTask
  MaxReqs = 1
  MaxRetries = 0
  MaxPdus = 1
  MaxResets = 1
  Modes = {"first"}
  Sched = "driver"
  StopOnError = TRUE
  Faults = {"timeout", "loss", "send"}
PROPERTIES
  OnlyHolderFrees
  DriverStops
  EveryRequestEnds
