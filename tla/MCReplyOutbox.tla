--------------------------- MODULE MCReplyOutbox ---------------------------
(* An instance of ReplyOutbox: one event with a file (sequence 0) and the  *)
(* card that goes with it (sequence 1).                                    *)
EXTENDS ReplyOutbox

CONSTANTS file, card

Export == {file, card}
Files == {file}
Cards == {card}
FileFirst == [r \in Reply |-> IF r = card THEN {file} ELSE {}]

(* Of the bounded troubles at most two kinds in one story, and at most one *)
(* kind of an operator's; no step that fairness asks for is cut off.       *)
Operators == {"result", "deadLetter", "reconcile"}
Kinds(B) == Cardinality({b \in B : spent[b] > 0})
TwoTroubles == Kinds(DOMAIN spent) <= 2 /\ Kinds(Operators) <= 1
=============================================================================
