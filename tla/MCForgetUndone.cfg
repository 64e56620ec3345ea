CONSTANTS
  Devices = {d1, d2}
  Inodes = {1, 2}
  Overlap = FALSE
  MaxFaults = 0
  MaxEarlier = 1
  NoFile = NoFile
SPECIFICATION StoreSpec
SYMMETRY DeviceSymmetry
INVARIANTS
  ForgetIsFinal
