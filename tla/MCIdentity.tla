----------------------------- MODULE MCIdentity ------------------------------
(* Instances of Identity.                                                  *)
EXTENDS Identity, TLC

Symmetry == Permutations(Handler) \cup Permutations(User) \cup Permutations(Ledger)
              \cup Permutations(Session)
=============================================================================
