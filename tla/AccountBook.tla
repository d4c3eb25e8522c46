---------------------------- MODULE AccountBook ----------------------------
(***************************************************************************)
(* The accounts of one ledger and what is booked on them: entries,         *)
(* transfers with their revisions, and savings goals bound to accounts.    *)
(* The ledger is shared by a household; a personal ledger is the case of   *)
(* one user.                                                               *)
(*                                                                         *)
(* A handler is one request with its transaction (READ COMMITTED): it      *)
(* reads and checks without locks, and then writes and commits, so that    *)
(* what it read may be old by then. Only transfers and goals are read FOR  *)
(* UPDATE. Changing the default account takes two statements: the UPDATE   *)
(* that clears the old default, which may have to wait for its row, and    *)
(* the write of the new one. A row that is written is entered in the       *)
(* unique indexes next, and there it waits for a transaction that holds    *)
(* the row it collides with: whether that row stands is not known before   *)
(* the other one ends. A request that is refused when it arrives, or would *)
(* leave the row as it is, changes nothing and is no step.                 *)
(***************************************************************************)
EXTENDS Integers, Sequences, FiniteSets, Functions

CONSTANTS User, Owner,  \* the members of the ledger; the one whose role is "owner"
          Account,      \* account ids
          First,        \* the account the ledger was created with
          Draft,        \* what accounts are opened with
          Currency,     \* currencies; Base is the ledger's
          Base,
          Amount,       \* amounts of money that are moved, > 0
          Entry, Transfer, Goal,
          GoalChange,   \* what one request may change of a goal
          Handler,      \* requests the service works on at a time
          None,
          MaxRequests   \* bound: requests

VARIABLES
    account,   \* account[a]: a's row of accounts, or None
    entry,     \* entry[e]: e's row of ledger_entries, or None
    transfer,  \* transfer[t]: t's row of transfers, or None
    trail,     \* trail[t]: t's rows of transfer_revisions
    goal,      \* goal[g]: g's row of financial_goals, or None
    bound,     \* bound[g]: g's rows of goal_account_bindings
    named,     \* named[g]: history, the accounts of the last request that named any
    handler,   \* handler[h]: the request h is at
    requests

vars == <<account, entry, transfer, trail, goal, bound, named, handler, requests>>

Type == {"cash", "asset", "liability"}
Name == {d.name : d \in Draft}
(* owner is None unless the account is private.                            *)
AccountRow == [name : Name, type : Type, currency : Currency, opening : Int,
               active : BOOLEAN, default : BOOLEAN, private : BOOLEAN, owner : User \cup {None}]
(* amount is signed: income is positive. open is history: the account was  *)
(* active when the request resolved it.                                    *)
EntryRow == [account : Account, amount : Int, live : BOOLEAN, open : BOOLEAN]
TransferRow == [from : Account, to : Account, amount : Amount, reversed : BOOLEAN]
TransferRevision == [type : {"update", "reverse"}, before : TransferRow, after : TransferRow]
GoalRow == [by : User, currency : Currency, status : {"active", "completed", "archived"}]

ASSUME AccountBookAssumption ==
    /\ Owner \in User /\ First \in Account /\ Base \in Currency
    /\ Draft \subseteq [name : STRING, type : Type, currency : Currency, opening : Int]
    /\ [name |-> "default", type |-> "cash", currency |-> Base, opening |-> 0] \in Draft
    /\ Amount \subseteq Nat \ {0}
    /\ GoalChange \subseteq [currency : Currency \cup {None}, accounts : (SUBSET Account) \cup {None},
                              status : {"active", "completed", "archived", None}]
    /\ IsFiniteSet(Account) /\ IsFiniteSet(Entry) /\ IsFiniteSet(Transfer)
    /\ None \notin User \cup Account \cup Goal \cup Currency /\ None \notin Draft
    /\ None \notin AccountRow \cup EntryRow \cup TransferRow \cup GoalRow
    /\ \A A \in SUBSET Account : None # A
    /\ MaxRequests \in Nat

-----------------------------------------------------------------------------
(* What the channels send                                                  *)

Openings == [op : {"open"}, by : User, draft : Draft, default : BOOLEAN, private : BOOLEAN]
Renames == [op : {"rename"}, by : User, account : Account, name : Name]
Switches == [op : {"archive", "default"}, by : User, account : Account]
Showings == [op : {"visibility"}, by : User, account : Account, private : BOOLEAN]
Moves == [op : {"transfer"}, by : User, from : Account, to : Account, amount : Amount]
Reversals == [op : {"reverse"}, by : User, transfer : Transfer]
Revisions == [op : {"revise"}, by : User, transfer : Transfer, amount : Amount]
Postings == [op : {"post"}, by : User, account : Account \cup {None}, sign : {-1, 1}, amount : Amount]
Plans == [op : {"plan"}, by : User, currency : Currency, accounts : SUBSET Account]
Amendments == {[op |-> "amend", by |-> u, goal |-> g,
                currency |-> c.currency, accounts |-> c.accounts, status |-> c.status] :
                  u \in User, g \in Goal, c \in GoalChange}
GoalSteps == [op : {"complete", "shelve", "forget"}, by : User, goal : Goal]

(* The Web API opens, renames, archives and shows accounts, and makes one  *)
(* the default.                                                            *)
WebAccounts == Openings \cup Renames \cup Switches \cup Showings
(* The client API does not know visibility: what it opens is shared.       *)
ClientAccounts == {q \in Openings : ~q.private} \cup Renames \cup Switches
WebTransfers == Moves \cup Reversals
ClientTransfers == Moves \cup Reversals
(* A command of a chat or a client names its accounts by hints or not at   *)
(* all; a hint that is not one name of an active account is refused.       *)
Commands == Moves \cup Postings
WebPlans == Plans
WebAmendments == Amendments \cup GoalSteps
Request == WebAccounts \cup ClientAccounts \cup WebTransfers \cup ClientTransfers
             \cup Revisions \cup Commands \cup WebPlans \cup WebAmendments

-----------------------------------------------------------------------------
Opened == {a \in Account : account[a] # None}
Defaults == {a \in Opened : account[a].default}

(* Private accounts are there for their owner only.                        *)
Visible(a, u) == a \in Opened /\ (account[a].private => account[a].owner = u)
(* AccountService.get with require_active.                                 *)
Usable(a, u) == Visible(a, u) /\ account[a].active

(* A row as AccountService.create makes it.                                *)
NewAccount(d, u, default, private) ==
    [name |-> d.name, type |-> d.type, currency |-> d.currency, opening |-> d.opening,
     active |-> TRUE, default |-> default, private |-> private,
     owner |-> IF private THEN u ELSE None]

(* uq_accounts_ledger_name: archived and hidden accounts keep their names. *)
NameFree(n, a) == \A b \in Opened \ {a} : account[b].name # n

Idle == [at |-> "idle", asked |-> None, on |-> None, row |-> None]
Stage == {"idle", "read", "clearing", "cleared", "written", "waiting", "locked"}
Asked(h) == handler[h].asked

TypeOK == /\ account \in [Account -> AccountRow \cup {None}]
          /\ entry \in [Entry -> EntryRow \cup {None}]
          /\ transfer \in [Transfer -> TransferRow \cup {None}]
          /\ trail \in [Transfer -> Seq(TransferRevision)]
          /\ goal \in [Goal -> GoalRow \cup {None}]
          /\ bound \in [Goal -> SUBSET Account]
          /\ named \in [Goal -> SUBSET Account]
          /\ handler \in [Handler -> [at : Stage, asked : Request \cup {None},
                 on : Account \cup {None}, row : AccountRow \cup {None}]]
          /\ requests \in Nat

(* A ledger comes with its default account; others may have been opened.   *)
Init == /\ \E d \in [Account -> Draft \cup {None}] :
              /\ d[First] = [name |-> "default", type |-> "cash", currency |-> Base, opening |-> 0]
              /\ \A a, b \in Account : d[a] # None /\ d[b] # None /\ a # b => d[a].name # d[b].name
              /\ account = [a \in Account |->
                     IF d[a] = None THEN None ELSE NewAccount(d[a], Owner, a = First, FALSE)]
        /\ entry = [e \in Entry |-> None]
        /\ transfer = [t \in Transfer |-> None]
        /\ trail = [t \in Transfer |-> <<>>]
        /\ goal = [g \in Goal |-> None]
        /\ bound = [g \in Goal |-> {}]
        /\ named = [g \in Goal |-> {}]
        /\ handler = [h \in Handler |-> Idle]
        /\ requests = 0

books == <<entry, transfer, trail>>
goals == <<goal, bound, named>>

-----------------------------------------------------------------------------
(* Balances                                                                *)

(* Live entries, and transfers that are not reversed, in and out.          *)
Posted(a) == {e \in Entry : entry[e] # None /\ entry[e].account = a /\ entry[e].live}
Moved(end, a) == {t \in Transfer : /\ transfer[t] # None /\ ~transfer[t].reversed
                                   /\ transfer[t][end] = a}
Movement(a) == SumFunction([e \in Posted(a) |-> entry[e].amount])
                 + SumFunction([t \in Moved("to", a) |-> transfer[t].amount])
                 - SumFunction([t \in Moved("from", a) |-> transfer[t].amount])

Balance_OneSign(a) == account[a].opening + Movement(a)
(* A positive balance of a liability is a debt.                            *)
Balance(a) == IF account[a].type = "liability" THEN account[a].opening - Movement(a)
                                               ELSE account[a].opening + Movement(a)

(* Assets less liabilities, archived accounts included.                    *)
Debts(A) == {a \in A : account[a].type = "liability"}
NetAssets(A) == SumFunction([a \in A \ Debts(A) |-> Balance(a)])
                  - SumFunction([a \in Debts(A) |-> Balance(a)])

-----------------------------------------------------------------------------
(* Requests arrive, read and check                                         *)

(* The account of an entry: the one that was named, or the default; a      *)
(* default that is archived or hidden is used as well, because             *)
(* create_default_for_ledger then returns whatever row is the default.     *)
Resolved(q, a) == IF q.account # None THEN a = q.account /\ Usable(a, q.by) ELSE a \in Defaults

(* A transfer needs two accounts in the ledger's currency.                 *)
Movable(q) == /\ Usable(q.from, q.by) /\ Usable(q.to, q.by) /\ q.from # q.to
              /\ account[q.from].currency = Base /\ account[q.to].currency = Base

(* A goal needs accounts that can save, in its currency.                   *)
Savable(A, u, currency) ==
    /\ A # {}
    /\ \A a \in A : Usable(a, u) /\ account[a].currency = currency /\ account[a].type # "liability"

(* Hiding makes the actor the owner, showing leaves none.                  *)
Shown(q) == [owner |-> IF q.private THEN q.by ELSE None, private |-> q.private]

(* The ledger's owner and the owner of a private account may show or hide. *)
MayShow(q) == Visible(q.account, q.by) /\ (q.by = Owner \/ account[q.account].owner = q.by)

Accepted(q) ==
    CASE q.op = "open" -> NameFree(q.draft.name, None)
      [] q.op = "rename" -> /\ Visible(q.account, q.by) /\ NameFree(q.name, q.account)
                            /\ account[q.account].name # q.name
      [] q.op = "archive" -> Usable(q.account, q.by) /\ ~account[q.account].default
      [] q.op = "default" -> Usable(q.account, q.by)
      [] q.op = "visibility" -> /\ MayShow(q)
                                /\ \/ account[q.account].private # q.private
                                   \/ account[q.account].owner # Shown(q).owner
      [] q.op = "transfer" -> Movable(q)
      [] q.op = "plan" -> Savable(q.accounts, q.by, q.currency)
      [] q.op \in {"reverse", "revise"} -> transfer[q.transfer] # None
      [] q.op \in {"amend", "complete", "shelve", "forget"} -> goal[q.goal] # None
      [] OTHER -> TRUE

(* A request is read and checked. The entry's account and the row that is  *)
(* shown or hidden are kept; locked rows are waited for.                   *)
Arrive(h, q) ==
    /\ handler[h].at = "idle" /\ requests < MaxRequests
    /\ Accepted(q)
    /\ \E a \in Account \cup {None} :
          /\ IF q.op = "post" THEN a # None /\ Resolved(q, a) ELSE a = None
          /\ handler' = [handler EXCEPT ![h] =
                [at |-> IF q.op \in {"reverse", "revise", "amend", "complete", "shelve", "forget"}
                        THEN "waiting" ELSE "read",
                 asked |-> q,
                 on |-> a,
                 row |-> CASE q.op = "visibility" -> account[q.account]
                           [] q.op = "post" -> account[a]
                           [] OTHER -> None]]
    /\ requests' = requests + 1
    /\ UNCHANGED <<account, books, goals>>

Refused(h) == handler' = [handler EXCEPT ![h] = Idle]
Done(h) == handler' = [handler EXCEPT ![h] = Idle]

-----------------------------------------------------------------------------
(* Accounts                                                                *)

(* k has changed a's row and not committed: it has cleared the default, or *)
(* has written the row and is at an index.                                 *)
Holds(k, a) ==
    \/ handler[k].at \in {"cleared", "written"} /\ handler[k].on = a
    \/ handler[k].at = "written" /\ Asked(k).op \in {"default", "rename"} /\ Asked(k).account = a
Locked(h, a) == \E k \in Handler \ {h} : Holds(k, a)

(* A new name is a change of the key: what refers to the account waits.    *)
KeyHeld(k, A) == handler[k].at = "written" /\ Asked(k).op = "rename" /\ Asked(k).account \in A
KeyLocked(h, A) == \E k \in Handler \ {h} : KeyHeld(k, A)

(* k has inserted an account of the name n and not committed.              *)
Inserts(k, n) == handler[k].at = "written" /\ Asked(k).op = "open" /\ Asked(k).draft.name = n

(* The accounts that keep a from having the name n.                        *)
Namesakes(n, a) == {b \in Opened \ {a} : account[b].name = n}
NameAwaited(h, n, a) == \/ \E b \in Namesakes(n, a) : Locked(h, b)
                        \/ \E k \in Handler \ {h} : Inserts(k, n)

MakesDefault(q) == q.op = "default" \/ (q.op = "open" /\ q.default)

(* _clear_default: the UPDATE finds the committed default, ...             *)
Clear(h) == /\ handler[h].at = "read" /\ MakesDefault(Asked(h))
            /\ \E d \in Defaults :
                  handler' = [handler EXCEPT ![h].at = "clearing", ![h].on = d]
            /\ UNCHANGED <<account, books, goals, requests>>

(* ... waits for its row, and leaves it alone if it is no default by then. *)
StillDefault(a) == account[a].default
Cleared(h) == /\ handler[h].at = "clearing" /\ ~Locked(h, handler[h].on)
              /\ handler' = [handler EXCEPT ![h].at = "cleared",
                                            ![h].on = IF StillDefault(@) THEN @ ELSE None]
              /\ UNCHANGED <<account, books, goals, requests>>

(* uq_accounts_ledger_default: a default other than a is left, and another *)
(* transaction may be about to change it.                                  *)
Others(h, a) == Defaults \ {handler[h].on, a}
Conflict(h, a) == Others(h, a) # {}
DefaultAwaited(h, a) == \E d \in Others(h, a) : Locked(h, d)

Writes(h) == handler' = [handler EXCEPT ![h].at = "written"]

NotDefault(d) == [account EXCEPT ![d].default = FALSE]
Without(d) == IF d = None THEN account ELSE NotDefault(d)

(* The new default's row is written, ...                                   *)
WriteDefault(h) ==
    /\ handler[h].at = "cleared" /\ Asked(h).op = "default"
    /\ ~Locked(h, Asked(h).account)
    /\ Writes(h)
    /\ UNCHANGED <<account, books, goals, requests>>

(* ... and committed with the old one's clearing, if the index lets it in. *)
MakeDefault(h) ==
    /\ handler[h].at = "written" /\ Asked(h).op = "default"
    /\ LET a == Asked(h).account
       IN  /\ ~DefaultAwaited(h, a)
           /\ IF Conflict(h, a) THEN UNCHANGED account
              ELSE account' = [Without(handler[h].on) EXCEPT ![a].default = TRUE]
    /\ Done(h)
    /\ UNCHANGED <<books, goals, requests>>

(* A new default is inserted; uq_accounts_ledger_name is the older index.  *)
Insert(h) ==
    /\ handler[h].at = "cleared" /\ Asked(h).op = "open"
    /\ ~NameAwaited(h, Asked(h).draft.name, None)
    /\ IF NameFree(Asked(h).draft.name, None) THEN Writes(h) ELSE Refused(h)
    /\ UNCHANGED <<account, books, goals, requests>>

(* The index that the new row comes to last.                               *)
LastIndexAwaited(h) == IF Asked(h).default THEN DefaultAwaited(h, None)
                       ELSE NameAwaited(h, Asked(h).draft.name, None)

(* A new account, under a free id.                                         *)
Open(h) ==
    /\ Asked(h) # None /\ Asked(h).op = "open"
    /\ handler[h].at = IF Asked(h).default THEN "written" ELSE "read"
    /\ ~LastIndexAwaited(h)
    /\ \E a \in Account \ Opened :
          IF IF Asked(h).default THEN Conflict(h, a) ELSE ~NameFree(Asked(h).draft.name, None)
          THEN UNCHANGED account
          ELSE account' = [Without(handler[h].on) EXCEPT ![a] =
                   NewAccount(Asked(h).draft, Asked(h).by, Asked(h).default, Asked(h).private)]
    /\ Done(h)
    /\ UNCHANGED <<books, goals, requests>>

(* A new name is written, and checked again by uq_accounts_ledger_name.    *)
WriteName(h) ==
    /\ handler[h].at = "read" /\ Asked(h).op = "rename"
    /\ ~Locked(h, Asked(h).account)
    /\ Writes(h)
    /\ UNCHANGED <<account, books, goals, requests>>

Rename(h) ==
    /\ handler[h].at = "written" /\ Asked(h).op = "rename"
    /\ LET a == Asked(h).account
       IN  /\ ~NameAwaited(h, Asked(h).name, a)
           /\ account' = IF NameFree(Asked(h).name, a)
                         THEN [account EXCEPT ![a].name = Asked(h).name] ELSE account
    /\ Done(h)
    /\ UNCHANGED <<books, goals, requests>>

(* is_default was read before: only the status is written.                 *)
Archive(h) ==
    /\ handler[h].at = "read" /\ Asked(h).op = "archive"
    /\ ~Locked(h, Asked(h).account)
    /\ account' = [account EXCEPT ![Asked(h).account].active = FALSE]
    /\ Done(h)
    /\ UNCHANGED <<books, goals, requests>>

(* The UPDATE writes the columns that differ from the row that was read.   *)
Show(h) ==
    /\ handler[h].at = "read" /\ Asked(h).op = "visibility"
    /\ LET a == Asked(h).account  old == handler[h].row  new == Shown(Asked(h))
       IN  /\ ~Locked(h, a)
           /\ account' = [account EXCEPT
                 ![a].owner = IF new.owner # old.owner THEN new.owner ELSE @,
                 ![a].private = IF new.private # old.private THEN new.private ELSE @]
    /\ Done(h)
    /\ UNCHANGED <<books, goals, requests>>

-----------------------------------------------------------------------------
(* Entries and transfers                                                   *)

Post(h) ==
    /\ handler[h].at = "read" /\ Asked(h).op = "post"
    /\ ~KeyLocked(h, {handler[h].on})
    /\ \E e \in Entry :
          /\ entry[e] = None
          /\ entry' = [entry EXCEPT ![e] =
                [account |-> handler[h].on, amount |-> Asked(h).sign * Asked(h).amount,
                 live |-> TRUE, open |-> handler[h].row.active]]
    /\ Done(h)
    /\ UNCHANGED <<account, transfer, trail, goals, requests>>

(* An entry is deleted or restored (EntryBook has the details).            *)
Delete(e) == /\ entry[e] # None
             /\ entry' = [entry EXCEPT ![e].live = ~@]
             /\ UNCHANGED <<account, transfer, trail, goals, handler, requests>>

Move(h) ==
    /\ handler[h].at = "read" /\ Asked(h).op = "transfer"
    /\ ~KeyLocked(h, {Asked(h).from, Asked(h).to})
    /\ \E t \in Transfer :
          /\ transfer[t] = None
          /\ transfer' = [transfer EXCEPT ![t] =
                [from |-> Asked(h).from, to |-> Asked(h).to,
                 amount |-> Asked(h).amount, reversed |-> FALSE]]
    /\ Done(h)
    /\ UNCHANGED <<account, entry, trail, goals, requests>>

TransferLocked_Never(h, t) == FALSE
TransferLocked_Queued(h, t) == \E g \in Handler \ {h} : /\ handler[g].at \in {"waiting", "locked"}
                                                        /\ Asked(g).op \in {"reverse", "revise"}
                                                        /\ Asked(g).transfer = t
(* Another transaction has t's row FOR UPDATE.                             *)
TransferLocked(h, t) == \E g \in Handler \ {h} : /\ handler[g].at = "locked"
                                                 /\ Asked(g).op \in {"reverse", "revise"}
                                                 /\ Asked(g).transfer = t

(* The transfer is read FOR UPDATE; a reversed one stays as it is.         *)
LockTransfer(h) ==
    /\ handler[h].at = "waiting" /\ Asked(h).op \in {"reverse", "revise"}
    /\ LET t == Asked(h).transfer
       IN  /\ ~TransferLocked(h, t)
           /\ IF transfer[t].reversed THEN Refused(h)
              ELSE handler' = [handler EXCEPT ![h].at = "locked"]
    /\ UNCHANGED <<account, books, goals, requests>>

(* The row changes and a revision tells how.                               *)
Change(h, type, new) ==
    LET t == Asked(h).transfer
    IN  /\ transfer' = [transfer EXCEPT ![t] = new]
        /\ trail' = [trail EXCEPT ![t] =
              Append(@, [type |-> type, before |-> transfer[t], after |-> new])]
        /\ Done(h)
        /\ UNCHANGED <<account, entry, goals, requests>>

Reverse(h) == /\ handler[h].at = "locked" /\ Asked(h).op = "reverse"
              /\ Change(h, "reverse", [transfer[Asked(h).transfer] EXCEPT !.reversed = TRUE])

Revise(h) == /\ handler[h].at = "locked" /\ Asked(h).op = "revise"
             /\ Change(h, "update", [transfer[Asked(h).transfer] EXCEPT !.amount = Asked(h).amount])

-----------------------------------------------------------------------------
(* Goals                                                                   *)

Plan(h) ==
    /\ handler[h].at = "read" /\ Asked(h).op = "plan"
    /\ ~KeyLocked(h, Asked(h).accounts)
    /\ \E g \in Goal :
          /\ goal[g] = None
          /\ goal' = [goal EXCEPT ![g] =
                [by |-> Asked(h).by, currency |-> Asked(h).currency, status |-> "active"]]
          /\ bound' = [bound EXCEPT ![g] = Asked(h).accounts]
          /\ named' = [named EXCEPT ![g] = Asked(h).accounts]
    /\ Done(h)
    /\ UNCHANGED <<account, books, requests>>

(* A goal shows what its accounts hold, so it is there for those who see   *)
(* all of them.                                                            *)
GoalVisible(g, u) == goal[g] # None /\ \A a \in bound[g] : Visible(a, u)
Managed(g, u) == GoalVisible(g, u) /\ (u = Owner \/ goal[g].by = u)

GoalLocked(h, g) == \E k \in Handler \ {h} : /\ handler[k].at = "locked"
                                             /\ Asked(k).op \in {"amend", "complete", "shelve", "forget"}
                                             /\ Asked(k).goal = g

Steppable(q) == CASE q.op = "complete" -> goal[q.goal].status = "active"
                  [] q.op = "shelve" -> goal[q.goal].status # "archived"
                  [] q.op = "amend" -> q.accounts # None =>
                        Savable(q.accounts, q.by,
                                IF q.currency = None THEN goal[q.goal].currency ELSE q.currency)
                  [] OTHER -> TRUE

(* The goal is read FOR UPDATE and the request checked against it.         *)
LockGoal(h) ==
    /\ handler[h].at = "waiting" /\ Asked(h).op \in {"amend", "complete", "shelve", "forget"}
    /\ LET g == Asked(h).goal
       IN  /\ ~GoalLocked(h, g)
           /\ IF Managed(g, Asked(h).by) /\ Steppable(Asked(h))
              THEN handler' = [handler EXCEPT ![h].at = "locked"] ELSE Refused(h)
    /\ UNCHANGED <<account, books, goals, requests>>

(* The bindings of a goal are deleted and made anew.                       *)
Rebound(g, A) == A

Amend(h) ==
    /\ handler[h].at = "locked" /\ Asked(h).op = "amend"
    /\ LET q == Asked(h)  g == Asked(h).goal
       IN  /\ goal' = [goal EXCEPT
                 ![g].currency = IF q.currency = None THEN @ ELSE q.currency,
                 ![g].status = IF q.status = None THEN @ ELSE q.status]
           /\ IF q.accounts = None THEN UNCHANGED <<bound, named>>
              ELSE /\ ~KeyLocked(h, q.accounts)
                   /\ bound' = [bound EXCEPT ![g] = Rebound(g, q.accounts)]
                   /\ named' = [named EXCEPT ![g] = q.accounts]
    /\ Done(h)
    /\ UNCHANGED <<account, books, requests>>

Step(h) ==
    /\ handler[h].at = "locked" /\ Asked(h).op \in {"complete", "shelve"}
    /\ goal' = [goal EXCEPT ![Asked(h).goal].status =
                  IF Asked(h).op = "complete" THEN "completed" ELSE "archived"]
    /\ Done(h)
    /\ UNCHANGED <<account, books, bound, named, requests>>

(* The bindings go with the goal; accounts and entries do not.             *)
Forget(h) ==
    /\ handler[h].at = "locked" /\ Asked(h).op = "forget"
    /\ goal' = [goal EXCEPT ![Asked(h).goal] = None]
    /\ bound' = [bound EXCEPT ![Asked(h).goal] = {}]
    /\ named' = [named EXCEPT ![Asked(h).goal] = {}]
    /\ Done(h)
    /\ UNCHANGED <<account, books, requests>>

-----------------------------------------------------------------------------
(* Whom a request waits for                                                *)

(* The row of accounts that h writes next.                                 *)
WantsRow(h, a) ==
    \/ handler[h].at = "clearing" /\ handler[h].on = a
    \/ /\ \/ handler[h].at = "cleared" /\ Asked(h).op = "default"
          \/ handler[h].at = "read" /\ Asked(h).op \in {"rename", "archive", "visibility"}
       /\ Asked(h).account = a

(* h is about to enter the name n in the index for a, or a as the default. *)
EntersName(h, n, a) ==
    \/ /\ handler[h].at \in {"read", "cleared"} /\ Asked(h).op = "open"
       /\ handler[h].at = "read" => ~Asked(h).default
       /\ Asked(h).draft.name = n /\ a = None
    \/ /\ handler[h].at = "written" /\ Asked(h).op = "rename"
       /\ Asked(h).name = n /\ Asked(h).account = a
EntersDefault(h, a) ==
    /\ handler[h].at = "written" /\ MakesDefault(Asked(h))
    /\ a = IF Asked(h).op = "default" THEN Asked(h).account ELSE None

(* The row that h's entry in an index collides with.                       *)
CollidesWith(h, b) ==
    \E a \in Account \cup {None} :
        \/ \E n \in Name : EntersName(h, n, a) /\ b \in Namesakes(n, a)
        \/ EntersDefault(h, a) /\ b \in Others(h, a)

(* The accounts that what h writes refers to.                              *)
RefersTo(h) ==
    CASE handler[h].at = "read" /\ Asked(h).op = "post" -> {handler[h].on}
      [] handler[h].at = "read" /\ Asked(h).op = "transfer" -> {Asked(h).from, Asked(h).to}
      [] handler[h].at = "read" /\ Asked(h).op = "plan" -> Asked(h).accounts
      [] handler[h].at = "locked" /\ Asked(h).op = "amend" ->
            IF Asked(h).accounts = None THEN {} ELSE Asked(h).accounts
      [] OTHER -> {}

OnTransfer == {"reverse", "revise"}
OnGoal == {"amend", "complete", "shelve", "forget"}

WaitsFor(h, k) ==
    /\ h # k
    /\ \/ \E a \in Account : Holds(k, a) /\ (WantsRow(h, a) \/ CollidesWith(h, a))
       \/ \E n \in Name : Inserts(k, n) /\ \E a \in Account \cup {None} : EntersName(h, n, a)
       \/ KeyHeld(k, RefersTo(h))
       \/ /\ handler[h].at = "waiting" /\ handler[k].at = "locked"
          /\ \/ /\ {Asked(h).op, Asked(k).op} \subseteq OnTransfer
                /\ Asked(h).transfer = Asked(k).transfer
             \/ /\ {Asked(h).op, Asked(k).op} \subseteq OnGoal
                /\ Asked(h).goal = Asked(k).goal

(* Bound: no id is left for a request that could go on.                    *)
NoRoom(h) == /\ handler[h].at \in {"read", "cleared", "written"} /\ \A k \in Handler : ~WaitsFor(h, k)
             /\ CASE Asked(h).op = "open" -> Account \subseteq Opened
                  [] Asked(h).op = "post" -> \A e \in Entry : entry[e] # None
                  [] Asked(h).op = "transfer" -> \A t \in Transfer : transfer[t] # None
                  [] Asked(h).op = "plan" -> \A g \in Goal : goal[g] # None
                  [] OTHER -> FALSE
             /\ Refused(h)
             /\ UNCHANGED <<account, books, goals, requests>>

(* h is on a circle of requests that wait for each other: of no part of it *)
(* does everyone wait for that part only.                                  *)
InCircle(h) ==
    \E S \in SUBSET Handler :
        /\ h \in S /\ S # {h}
        /\ \A T \in (SUBSET S) \ {{}, S} : \E g \in T, k \in S \ T : WaitsFor(g, k)

(* PostgreSQL finds the circle and rolls one of its transactions back; the *)
(* request fails.                                                          *)
Victim(h) == /\ InCircle(h)
             /\ Refused(h)
             /\ UNCHANGED <<account, books, goals, requests>>

-----------------------------------------------------------------------------
Work(h) == \/ Clear(h) \/ Cleared(h) \/ WriteDefault(h) \/ MakeDefault(h)
           \/ Insert(h) \/ Open(h) \/ NoRoom(h)
           \/ WriteName(h) \/ Rename(h) \/ Archive(h) \/ Show(h)
           \/ Post(h) \/ Move(h) \/ LockTransfer(h) \/ Reverse(h) \/ Revise(h)
           \/ Plan(h) \/ LockGoal(h) \/ Amend(h) \/ Step(h) \/ Forget(h)

Next == \/ \E h \in Handler : \/ \E q \in Request : Arrive(h, q)
                              \/ Work(h) \/ Victim(h)
        \/ \E e \in Entry : Delete(e)

Spec == Init /\ [][Next]_vars

-----------------------------------------------------------------------------
(* Properties                                                              *)

(* A ledger has one default account at all times, however many requests    *)
(* change it at the same time: what the UPDATE of one does not see, the    *)
(* unique index refuses.                                                   *)
OneDefault == \E d \in Account : Defaults = {d}

(* A private account has its owner and a shared one has none, although     *)
(* showing and hiding it each write only what has changed for them.        *)
PrivateIsOwned == \A a \in Opened : account[a].private <=> account[a].owner # None

(* The accounts of a goal are those of one request, never a mixture of two *)
(* that came at the same time.                                             *)
GoalBoundAsNamed == \A g \in Goal : bound[g] = named[g] /\ (goal[g] # None => bound[g] # {})

(* What the household is worth changes with an entry and with a new        *)
(* account's opening balance, and with nothing else: transfers, reversals  *)
(* and revisions, between whatever kinds of accounts, only move it, and    *)
(* archiving or hiding an account takes nothing out of it.                 *)
NetMovesOnlyByEntries ==
    [][entry' = entry /\ Opened' = Opened => NetAssets(Opened)' = NetAssets(Opened)]_vars

(* The revisions of a transfer explain it: each starts from what the one   *)
(* before it left, the last one left what stands, and a reversal is the    *)
(* last thing that happens to a transfer, however many requests reverse    *)
(* or revise it at the same time.                                          *)
TrailExplainsTransfer ==
    \A t \in Transfer :
        LET rs == trail[t]
        IN  /\ \A i \in 1 .. Len(rs) - 1 : rs[i].after = rs[i + 1].before /\ rs[i].type = "update"
            /\ rs # <<>> => rs[Len(rs)].after = transfer[t]
            /\ transfer[t] # None => (transfer[t].reversed <=> rs # <<>> /\ rs[Len(rs)].type = "reverse")

OnAccount == {"rename", "archive", "default", "visibility"}
(* Where a request can be, and what it found when it was read stands: rows *)
(* of accounts and transfers do not go away. A row that is read for the    *)
(* columns to write may be old, but it was one that its actor could see.   *)
RequestStands(h) ==
    LET q == Asked(h)  at == handler[h].at  on == handler[h].on  row == handler[h].row
    IN  at # "idle" =>
          /\ q \in Request
          /\ at \in {"waiting", "locked"} <=> q.op \in OnTransfer \cup OnGoal
          /\ at \in {"clearing", "cleared"} => MakesDefault(q)
          /\ at = "written" => MakesDefault(q) \/ q.op = "rename"
          /\ IF q.op = "post" \/ at = "clearing" THEN on \in Opened
             ELSE on = None \/ (at \in {"cleared", "written"} /\ on \in Opened)
          /\ q.op = "post" => row # None
          /\ q.op = "visibility" => /\ row # None /\ (row.private <=> row.owner # None)
                                    /\ row.private => row.owner = q.by
          /\ q.op \in OnAccount => q.account \in Opened
          /\ q.op = "transfer" => {q.from, q.to} \subseteq Opened /\ q.from # q.to
          /\ q.op = "plan" => q.accounts # {}
          /\ q.op \in OnTransfer => /\ transfer[q.transfer] # None
                                    /\ at = "locked" => ~transfer[q.transfer].reversed
          /\ q.op \in OnGoal /\ at = "locked" =>
                /\ goal[q.goal] # None
                /\ q.op = "amend" => q.accounts # {}

(* A transfer or a goal that is locked is locked by one request.           *)
OneHolder ==
    \A h, k \in Handler : handler[h].at = "locked" /\ handler[k].at = "locked" /\ h # k =>
        /\ {Asked(h).op, Asked(k).op} \subseteq OnTransfer => Asked(h).transfer # Asked(k).transfer
        /\ {Asked(h).op, Asked(k).op} \subseteq OnGoal => Asked(h).goal # Asked(k).goal

(* A transfer is between two accounts of the ledger.                       *)
TransfersLink == \A t \in Transfer : transfer[t] # None =>
                     {transfer[t].from, transfer[t].to} \subseteq Opened /\ transfer[t].from # transfer[t].to

(* A row of accounts that is changed and not committed is held by one      *)
(* request, and what a request has cleared is still the default.           *)
RowsHeld ==
    /\ \A h, k \in Handler, a \in Account : Holds(h, a) /\ Holds(k, a) => h = k
    /\ \A h \in Handler : handler[h].at \in {"cleared", "written"} /\ handler[h].on # None =>
           handler[h].on \in Defaults

(* The invariant: every row has its shape, the ledger its one default,     *)
(* each account the owner its visibility asks for, each goal the accounts  *)
(* of one request and each transfer its explanation, whatever the requests *)
(* have read before they write.                                            *)
Consistent ==
    /\ TypeOK /\ OneDefault /\ PrivateIsOwned /\ GoalBoundAsNamed /\ TrailExplainsTransfer
    /\ TransfersLink /\ OneHolder /\ \A h \in Handler : RequestStands(h)
IInv == Consistent /\ RowsHeld

(* Only requests that rename accounts or change the default can deadlock:  *)
(* nobody who books, transfers, saves, archives, shows or hides is ever in *)
(* a circle, and none of them is the victim of one.                        *)
CirclesAreOfAccounts ==
    \A h \in Handler : InCircle(h) => Asked(h).op \in {"open", "rename", "default"}

(* Nobody is stuck: a request that waits for no other can go on, one that  *)
(* waits cannot, and so while there are any at work, one of them goes on   *)
(* or is the victim of a circle.                                           *)
SomeoneGoesOn ==
    /\ CirclesAreOfAccounts
    /\ \A h \in Handler : handler[h].at # "idle" =>
           ((\A k \in Handler : ~WaitsFor(h, k)) <=> ENABLED Work(h))

(* The docstring of _resolve_entry_account: an entry that names no account *)
(* goes to "the ledger's active default account", archived ones are        *)
(* rejected.                                                               *)
BookedOnOpenAccount == \A e \in Entry : entry[e] # None => entry[e].open

(* The docstring of goals.py: every account of a goal has its currency.    *)
GoalInOneCurrency ==
    \A g \in Goal : goal[g] # None => \A a \in bound[g] : account[a].currency = goal[g].currency
=============================================================================
