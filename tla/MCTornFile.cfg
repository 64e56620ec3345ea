CONSTANTS
  Devices = {d1, d2}
  Inodes = {1, 2, 3, 4}
  Overlap = TRUE
  MaxFaults = 1
  MaxEarlier = 1
  NoFile = NoFile
SPECIFICATION StoreSpec
SYMMETRY DeviceSymmetry
INVARIANTS
  CrashLeavesWholeFile
