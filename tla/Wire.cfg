SPECIFICATION Spec
CONSTANTS
  Items <- MCItems
  Patterns <- MCPatterns
  DataLen = 58
  Requests <- MCRequests
  Slots <- MCSlots
  Counters = {3}
  Expected <- MCExpected
INVARIANTS ReadsImage RepliesMatch
PROPERTY PacksImage
