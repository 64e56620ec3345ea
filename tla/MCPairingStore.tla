---------------------------- MODULE MCPairingStore ----------------------------
EXTENDS PairingStore, TLC

(* Devices are interchangeable; inodes are not, FreeInode picks one.       *)
DeviceSymmetry == Permutations(Devices)
=============================================================================
