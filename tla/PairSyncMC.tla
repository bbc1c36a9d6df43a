----------------------------- MODULE PairSyncMC -----------------------------
(* Instances of PairSync: one pair of two accounts, nobody with a push     *)
(* device.                                                                 *)
EXTENDS PairSync, TLC

CONSTANTS p1

MCPairOf == [a \in Accounts |-> p1]
MCDeviceOwner == [d \in Devices |-> Me]

KeySymmetry == Permutations(Keys)
=============================================================================
