---------------------------- MODULE MCAccountBook ----------------------------
(* Instances of AccountBook.                                               *)
EXTENDS AccountBook, TLC

Wallet == [name |-> "default", type |-> "cash", currency |-> "CNY", opening |-> 0]
Savings == [name |-> "savings", type |-> "asset", currency |-> "CNY", opening |-> 2]
Card == [name |-> "card", type |-> "liability", currency |-> "CNY", opening |-> 1]
Drafts == {Wallet, Savings, Card}

(* An amendment names one thing: the accounts, the currency or the status. *)
OneFieldChanges ==
    {c \in [currency : Currency \cup {None}, accounts : (SUBSET Account) \cup {None},
            status : {"active", "completed", "archived", None}] :
        Cardinality({f \in {"accounts", "currency", "status"} : c[f] # None}) = 1}

Symmetry == Permutations(Handler) \cup Permutations(Account \ {First})
=============================================================================
