\* Tasks on one thread, the driver on another, no timeouts and a network that
\* answers every frame.
SPECIFICATION FairSpec
CONSTANTS
  N = 2
  PduMod = 6
  Tasks = {t1, t2}
  NoTask = NoTask
  MaxReqs = 1
  MaxRetries = 0
  MaxPdus = 2
  MaxResets = 0
  Modes = {"first", "iter"}
  Sched = "driver"
  StopOnError = FALSE
  Faults = {}
PROPERTIES
  EveryRequestAnswered
