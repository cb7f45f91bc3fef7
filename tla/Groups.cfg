SPECIFICATION Spec
CONSTANTS
  s1 = s1
  s2 = s2
  s3 = s3
  g1 = g1
  g2 = g2
  Devices = {s1, s2, s3}
  Groups = {g1, g2}
  Station <- MCStation
  Rings <- MCRings
  MaxPdi <- MCMaxPdi
  GroupSize <- MCGroupSize
  MaxSubDevices = 3
  Wrap = 65536
  ChecksPerFrame = 1
  Applications <- MCApplications
  DcConfs <- MCDcConfs
  MaxLate = 1
  MaxClock = 6
  MaxInits = 2
  MaxMaps = 2
  MaxEvents = 2
INVARIANTS LayoutSound
PROPERTIES InitComplete TransitionReached SyncPhase
CHECK_DEADLOCK FALSE
