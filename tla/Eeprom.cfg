\* Two calls, one after the other, on five EEPROMs.
SPECIFICATION FairSpec
CONSTANTS
  U16 = 65536
  MaxRetries = 1
  Faults = {"timeout", "bus", "error", "other"}
  MaxFaults = 2
  FirstCategory = 8
  MaxEmpty = 4
  MaxString = 3
  MaxItems = 2
  Images <- MCImages
  Calls <- MCCalls
  Crc <- MCCrc
INVARIANTS
  ReadsDescription
  ChecksumHolds
PROPERTIES
  StreamSpec
  CallEnds
CHECK_DEADLOCK FALSE
