---------------------------- MODULE FocusStoreMC ----------------------------
(* FocusStore for TLC: the two members of one pair.                        *)
EXTENDS FocusStore, TLC

OnePair == CHOOSE p \in Pairs : TRUE

(* Every account is a member of the one pair.                              *)
MCPairOf == [a \in Accounts |-> OnePair]

(* Every account has one device.                                           *)
MCDevices == Accounts
MCDeviceOwner == [d \in MCDevices |-> d]

MCInstants == {0, 2}

(* Sound for the safety runs: the model never tells two sessions, two keys *)
(* or the two members apart.                                               *)
Symmetry ==
  Permutations(Sessions) \cup Permutations(Keys) \cup Permutations(Accounts)
=============================================================================
