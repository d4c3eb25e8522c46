--------------------------- MODULE MCDeadLetters ---------------------------
EXTENDS DeadLetters, TLC
CONSTANTS e1, r1, c1, o1, o2
MCEventOf == [r \in {r1} |-> e1]
Symmetry == Permutations({o1, o2})
=============================================================================
