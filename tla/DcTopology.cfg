\* Every tree of up to 6 SubDevices on every combination of ports, one SubDevice
\* of up to 4 being odd.
SPECIFICATION Spec
CONSTANTS
  MaxDevices = 6
  Cables <- MCCables
  EntryPorts = {0, 2}
  Clocks = {0, 120}
  TimeMod = 128
  MaxOdd = 1
  OddDevices = 4
  Now = 100
  Misses <- MCMisses
  OldLatches <- MCOldLatches
  Faults = {"command"}
INVARIANTS
  ParentsFound
  TopologyAccepted
  ClocksAgree
CHECK_DEADLOCK FALSE
