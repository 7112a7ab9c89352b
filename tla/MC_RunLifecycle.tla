--------------------------- MODULE MC_RunLifecycle ---------------------------
(* Instances of RunLifecycle for TLC.                                      *)
EXTENDS RunLifecycle, TLC

(* Clients are interchangeable.                                            *)
Symmetry == Permutations(Client)
=============================================================================
