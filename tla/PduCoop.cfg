\* Everything on one executor thread, every fault, one slot that two tasks use
\* again and again, and PDU indices that go round while replies are late.
SPECIFICATION Spec
CONSTANTS
  N = 1
  PduMod = 3
  Tasks = {t1, t2}
  NoTask = NoTask
  MaxReqs = 2
  MaxRetries = 1
  MaxPdus = 1
  MaxResets = 0
  Modes = {"first", "iter"}
  Sched = "coop"
  StopOnError = FALSE
  Faults = {"timeout", "drop", "loss", "send", "toolong", "oversize"}
SYMMETRY Symmetry
INVARIANTS
  NoSlotLeak
  ReadsOwnReply
  SendsRequests
