----------------------------- MODULE AuthStoreMC -----------------------------
(* AuthStore for TLC.                                                      *)
EXTENDS AuthStore, TLC

(* Sound for a safety run: no action tells two of these ids apart, and New *)
(* chooses among none of them.                                             *)
Symmetry ==
  Permutations(Accounts) \cup Permutations(Installs) \cup Permutations(Requests)
=============================================================================
