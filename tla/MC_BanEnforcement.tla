------------------------- MODULE MC_BanEnforcement -------------------------
(* Instances of BanEnforcement for TLC.                                    *)
EXTENDS BanEnforcement, TLC

(* Clients, types, callers and administrators are interchangeable.         *)
Symmetry == Permutations(Client) \cup Permutations(WorkflowType)
              \cup Permutations(Admin) \cup Permutations(Caller)
=============================================================================
