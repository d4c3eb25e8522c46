----------------------------- MODULE MCEntryBook -----------------------------
(* Instances of EntryBook: requests that meet on one entry and one key.    *)
EXTENDS EntryBook

(* An update names one field: either is enough to be a change.             *)
Named(q) == q.op = "update" => q.value = None \/ q.account = None
OneField == /\ \A h \in Handler : Asked(h) # None => Named(Asked(h))
            /\ \A k \in Scope : \A t \in told[k] : Named(t.asked)
=============================================================================
