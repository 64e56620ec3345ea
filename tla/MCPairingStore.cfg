CONSTANTS
  Devices = {d1, d2}
  Inodes = {1, 2}
  Overlap = FALSE
  MaxFaults = 1
  MaxEarlier = 2
  NoFile = NoFile
SPECIFICATION StoreSpec
SYMMETRY DeviceSymmetry
PROPERTIES
  AtomicReplace
  ForgetHolds
  FileKept
