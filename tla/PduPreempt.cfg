\* Every actor on a thread of its own, one slot for two tasks, requests that
\* time out and are retried: what must hold whatever interleaves.
SPECIFICATION Spec
CONSTANTS
  N = 1
  PduMod = 4
  Tasks = {t1, t2}
  NoTask = NoTask
  MaxReqs = 1
  MaxRetries = 1
  MaxPdus = 1
  MaxResets = 0
  Modes = {"first"}
  Sched = "preempt"
  StopOnError = FALSE
  Faults = {"timeout", "drop"}
SYMMETRY Symmetry
INVARIANTS
  PduInv
  SlotOwnerUnique
  ReceivedFrameIntact
  NoInvalidFrameState
  NoLostWakeup
  NoLostSend
