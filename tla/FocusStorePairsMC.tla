-------------------------- MODULE FocusStorePairsMC --------------------------
(* FocusStore for TLC: a pair, one member of a second pair and an account  *)
(* that has no pair.                                                       *)
EXTENDS FocusStore, TLC

CONSTANTS a1, a2, b1, single, pairA, pairB

MCPairOf == (a1 :> pairA) @@ (a2 :> pairA) @@ (b1 :> pairB) @@ (single :> NULL)

MCDeviceOwner == [d \in Devices |-> d]

(* The model tells neither two keys nor the members of the pair apart.     *)
Symmetry == Permutations(Keys) \cup Permutations({a1, a2})
=============================================================================
