\* Tasks on several threads: a ReceivedPdu outlives the claim on its frame.
SPECIFICATION Spec
CONSTANTS
  N = 1
  PduMod = 4
  Tasks = {t1, t2}
  NoTask = NoTask
  MaxReqs = 1
  MaxRetries = 0
  MaxPdus = 1
  MaxResets = 0
  Modes = {"first"}
  Sched = "preempt"
  StopOnError = FALSE
  Faults = {"timeout"}
SYMMETRY Symmetry
INVARIANTS
  ReadsOwnReply
