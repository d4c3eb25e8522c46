----------------------------- MODULE MCHousehold -----------------------------
(* Instances of Household.                                                 *)
EXTENDS Household, TLC

CONSTANTS t1, t2, u3

(* The texts fold alike: t1 is everybody's display name, t2 is u3's open   *)
(* id, and either may be given to a member as an alias.                    *)
MCFolded == [t \in Text |-> t1]
MCDisplayName == [u \in User |-> t1]
MCSubject == [t \in Text |-> IF t = t2 THEN u3 ELSE None]

Symmetry == Permutations(Handler) \cup Permutations(User \ {u3}) \cup Permutations(Invitation)
=============================================================================
