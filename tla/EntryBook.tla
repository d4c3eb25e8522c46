----------------------------- MODULE EntryBook -----------------------------
(***************************************************************************)
(* The entries of a ledger and their revisions, changed from three sides:  *)
(* the client API (an idempotency key and the updated_at the client saw),  *)
(* the Web API (only the updated_at) and chat (neither), and the records   *)
(* that make a request with a key safe to send again.                      *)
(*                                                                         *)
(* A handler is one HTTP request or chat command with its database         *)
(* transaction. It holds the unique key of its idempotency record from the *)
(* insert, and the row lock of its entry from the read, to its commit or   *)
(* rollback; a step that waits for either is disabled meanwhile.           *)
(***************************************************************************)
EXTENDS Naturals, Sequences

CONSTANTS Entry,       \* ledger entries, by short id
          Value,       \* what an entry says: amount, direction, category, note, ...
          Account,     \* the accounts of the ledger
          Key,         \* idempotency keys
          Handler,     \* requests the service works on at a time
          None,
          MaxRequests, \* bound: requests
          MaxRollbacks \* bound: handlers that crash or fail

VARIABLES
    entry,     \* entry[e]: e's row of ledger_entries, or None
    revisions, \* revisions[e]: e's rows of ledger_entry_revisions
    record,    \* record[k]: scope k's row of client_idempotency_records, or None
    handler,   \* handler[h]: the request h is at
    clock,     \* the last time stamp given to a row
    runs,      \* runs[k]: history, business commits for k since its record expired
    told,      \* told[k]: history, successes reported for k since its record expired
    requests, rollbacks

vars == <<entry, revisions, record, handler, clock, runs, told, requests, rollbacks>>

(* A row; stamp is updated_at.                                             *)
Row == [value : Value, account : Account, deleted : BOOLEAN, stamp : Nat]

(* A request. value and account are None when it leaves them alone, seen   *)
(* is expected_updated_at, key the Idempotency-Key.                        *)
Edit == {"update", "delete", "restore"}
RequestAt(stamps) == [op : Edit \cup {"create"}, entry : Entry \cup {None},
                      value : Value \cup {None}, account : Account \cup {None},
                      seen : stamps \cup {None}, key : Key \cup {None}]
Request == RequestAt(Nat)

ASSUME EntryBookAssumption ==
    /\ None \notin Entry \cup Value \cup Account \cup Key
    /\ None \notin Nat /\ None \notin Row /\ None \notin Request
    /\ MaxRequests \in Nat /\ MaxRollbacks \in Nat

(* A key counts for one operation on one entry.                            *)
Scope == (Edit \X Entry \X Key) \cup ({"create"} \X {None} \X Key)
ScopeOf(q) == <<q.op, q.entry, q.key>>

Record == [asked : Request, response : Row, live : BOOLEAN]
ASSUME RecordAssumption == None \notin Record
(* seen is history: the version the author of the change had seen.         *)
Revision == [type : Edit, before : Row, after : Row, seen : Nat \cup {None}]

(* "insert": the lookup found no record; "ready": the key, if any, is      *)
(* claimed; "locked": row was read under its lock.                         *)
Stage == {"idle", "insert", "ready", "locked"}
Idle == [at |-> "idle", asked |-> None, row |-> None]

TypeOK == /\ entry \in [Entry -> Row \cup {None}]
          /\ revisions \in [Entry -> Seq(Revision)]
          /\ record \in [Scope -> Record \cup {None}]
          /\ handler \in [Handler -> [at : Stage, asked : Request \cup {None},
                                      row : Row \cup {None}]]
          /\ clock \in Nat
          /\ runs \in [Scope -> Nat]
          /\ told \in [Scope -> SUBSET [asked : Request, got : Row]]
          /\ requests \in Nat /\ rollbacks \in Nat

Init == /\ entry = [e \in Entry |-> None]
        /\ revisions = [e \in Entry |-> <<>>]
        /\ record = [k \in Scope |-> None]
        /\ handler = [h \in Handler |-> Idle]
        /\ clock = 0
        /\ runs = [k \in Scope |-> 0]
        /\ told = [k \in Scope |-> {}]
        /\ requests = 0 /\ rollbacks = 0

-----------------------------------------------------------------------------
(* Idempotency records                                                     *)

Asked(h) == handler[h].asked

(* A record counts until expires_at.                                       *)
Remembered(k) == record[k] # None /\ record[k].live

(* What request_digest is computed from. The operation and the entry are   *)
(* in the scope; PATCH passes the account beside the digested command.     *)
Digest(q) == IF q.op = "create" THEN <<q.value, q.account>> ELSE <<q.value, q.seen>>

(* Another transaction has k's record inserted and not committed.          *)
KeyHeld(h, k) == \E g \in Handler \ {h} : /\ handler[g].at \in {"ready", "locked"}
                                          /\ ScopeOf(Asked(g)) = k

(* The insert breaks uq_client_idempotency_scope.                          *)
Duplicate(k) == Remembered(k)

Replayed_Current(q) == IF q.entry = None THEN record[ScopeOf(q)].response
                                         ELSE entry[q.entry]
(* What a repeated request is answered with.                               *)
Replayed(q) == record[ScopeOf(q)].response

Telling(k, q, r) == told' = [told EXCEPT ![k] = @ \cup {[asked |-> q, got |-> r]}]

(* A remembered request: its answer again, or 409 for another request.     *)
Answer(q) == LET k == ScopeOf(q)
             IN  IF Digest(q) = Digest(record[k].asked)
                 THEN Telling(k, q, Replayed(q)) ELSE UNCHANGED told

(* The record that is committed with the business it stands for.           *)
Recorded(q, r) == [asked |-> q, response |-> r, live |-> TRUE]

(* The commit of q with answer r.                                          *)
Commit(h, r) ==
    LET q == Asked(h)  k == ScopeOf(Asked(h))
    IN  /\ handler' = [handler EXCEPT ![h] = Idle]
        /\ IF q.key = None
           THEN UNCHANGED <<record, runs, told>>
           ELSE /\ record' = [record EXCEPT ![k] = Recorded(q, r)]
                /\ runs' = [runs EXCEPT ![k] = @ + 1]
                /\ Telling(k, q, r)

-----------------------------------------------------------------------------
(* Entries                                                                 *)

RowLocked_Never(h, e) == FALSE
(* Another transaction has e's row locked.                                 *)
RowLocked(h, e) == \E g \in Handler \ {h} : /\ handler[g].at = "locked"
                                            /\ Asked(g).entry = e

(* _assert_expected_updated_at refuses the row.                            *)
Stale(row, q) == q.seen # None /\ row.stamp # q.seen

Or(x, default) == IF x = None THEN default ELSE x

(* The row with what the request names; a deleted one stays as it is.      *)
Edited(q, row) ==
    IF row.deleted THEN row
    ELSE [row EXCEPT !.value = Or(q.value, @), !.account = Or(q.account, @)]

Changed(q, row) == CASE q.op = "update"  -> Edited(q, row)
                     [] q.op = "delete"  -> [row EXCEPT !.deleted = TRUE]
                     [] q.op = "restore" -> [row EXCEPT !.deleted = FALSE]

Stamps(e) == {entry[e].stamp} \cup {revisions[e][i].before.stamp : i \in DOMAIN revisions[e]}

book == <<entry, revisions, clock>>
idem == <<record, runs, told>>

-----------------------------------------------------------------------------
(* What a channel sends. A client has seen a version of what it edits.     *)

Sendable(q) ==
    \/ q.op = "create" /\ q.entry = None /\ q.seen = None
       /\ q.value # None /\ q.account # None
    \/ /\ q.op \in Edit /\ q.entry # None /\ entry[q.entry] # None
       /\ q.seen # None => q.seen \in Stamps(q.entry)
       /\ q.key # None => q.seen # None
       /\ IF q.op = "update" THEN q.value # None \/ q.account # None
                             ELSE q.value = None /\ q.account = None

(* A request arrives. With a key, the record is looked up first.           *)
Arrive(h, q) ==
    /\ handler[h].at = "idle" /\ requests < MaxRequests /\ Sendable(q)
    /\ requests' = requests + 1
    /\ IF q.key # None /\ Remembered(ScopeOf(q))
       THEN Answer(q) /\ UNCHANGED handler
       ELSE /\ handler' = [handler EXCEPT ![h] =
                  [at |-> IF q.key = None THEN "ready" ELSE "insert", asked |-> q, row |-> None]]
            /\ UNCHANGED told
    /\ UNCHANGED <<book, record, runs, rollbacks>>

(* The record is inserted, in place of an expired one; or another request  *)
(* committed it since the lookup, and won.                                 *)
Insert(h) ==
    /\ handler[h].at = "insert"
    /\ LET k == ScopeOf(Asked(h))
       IN  /\ ~KeyHeld(h, k)
           /\ IF Duplicate(k)
              THEN Answer(Asked(h)) /\ handler' = [handler EXCEPT ![h] = Idle]
              ELSE handler' = [handler EXCEPT ![h].at = "ready"] /\ UNCHANGED told
    /\ UNCHANGED <<book, record, runs, requests, rollbacks>>

(* A new entry under a free short id.                                      *)
Create(h) ==
    /\ handler[h].at = "ready" /\ Asked(h).op = "create"
    /\ \E e \in Entry :
          LET row == [value |-> Asked(h).value, account |-> Asked(h).account,
                      deleted |-> FALSE, stamp |-> clock + 1]
          IN  /\ entry[e] = None
              /\ entry' = [entry EXCEPT ![e] = row]
              /\ Commit(h, row)
    /\ clock' = clock + 1
    /\ UNCHANGED <<revisions, requests, rollbacks>>

Refused_NoRollback(h) == handler' = handler
(* EntryConflictError: the transaction is rolled back, its record with it. *)
Refused(h) == handler' = [handler EXCEPT ![h] = Idle]

(* The entry is read FOR UPDATE and its version compared.                  *)
Lock(h) ==
    /\ handler[h].at = "ready" /\ Asked(h).op \in Edit
    /\ LET e == Asked(h).entry
       IN  /\ ~RowLocked(h, e)
           /\ IF Stale(entry[e], Asked(h)) THEN Refused(h)
              ELSE handler' = [handler EXCEPT ![h].at = "locked", ![h].row = entry[e]]
    /\ UNCHANGED <<book, idem, requests, rollbacks>>

(* The entry is changed and the revision added, and all of it committed; a *)
(* request that changes nothing writes no revision and is answered, too.   *)
Write(h) ==
    /\ handler[h].at = "locked"
    /\ LET q == Asked(h)  e == Asked(h).entry  old == handler[h].row
           changed == Changed(q, old) # old
           new == IF changed THEN [Changed(q, old) EXCEPT !.stamp = clock + 1] ELSE old
       IN  /\ Commit(h, new)
           /\ IF changed
              THEN /\ entry' = [entry EXCEPT ![e] = new]
                   /\ revisions' = [revisions EXCEPT ![e] =
                        Append(@, [type |-> q.op, before |-> old, after |-> new, seen |-> q.seen])]
                   /\ clock' = clock + 1
              ELSE UNCHANGED book
    /\ UNCHANGED <<requests, rollbacks>>

(* No short id is free: the request fails.                                 *)
BookIsFull(h) == /\ handler[h].at = "ready" /\ Asked(h).op = "create"
                 /\ \A e \in Entry : entry[e] # None
                 /\ Refused(h)
                 /\ UNCHANGED <<book, idem, requests, rollbacks>>

(* The handler crashes or fails: its transaction is rolled back.           *)
Rollback(h) == /\ handler[h].at # "idle" /\ rollbacks < MaxRollbacks
               /\ handler' = [handler EXCEPT ![h] = Idle]
               /\ rollbacks' = rollbacks + 1
               /\ UNCHANGED <<book, idem, requests>>

(* The retention of a record, seven days, passes; no request is that long. *)
Expire(k) == /\ Remembered(k)
             /\ \A h \in Handler : handler[h].at # "idle" => ScopeOf(Asked(h)) # k
             /\ record' = [record EXCEPT ![k].live = FALSE]
             /\ runs' = [runs EXCEPT ![k] = 0]
             /\ told' = [told EXCEPT ![k] = {}]
             /\ UNCHANGED <<book, handler, requests, rollbacks>>

(* The cleanup job deletes expired records.                                *)
CleanUp == /\ \E k \in Scope : record[k] # None /\ ~record[k].live
           /\ record' = [k \in Scope |-> IF Remembered(k) THEN record[k] ELSE None]
           /\ UNCHANGED <<book, handler, runs, told, requests, rollbacks>>

Next == \/ \E h \in Handler : \/ \E q \in RequestAt(1 .. clock) : Arrive(h, q)
                              \/ Insert(h) \/ Create(h) \/ BookIsFull(h)
                              \/ Lock(h) \/ Write(h) \/ Rollback(h)
        \/ \E k \in Scope : Expire(k)
        \/ CleanUp

Spec == Init /\ [][Next]_vars

(* A handler that can go on does: awaits time out, transactions end. What  *)
(* clients send, failures and retention are nobody's duty.                 *)
FairSpec == Spec /\ \A h \in Handler :
    WF_vars(Insert(h)) /\ WF_vars(Create(h) \/ BookIsFull(h)) /\ WF_vars(Lock(h)) /\ WF_vars(Write(h))

-----------------------------------------------------------------------------
(* Properties                                                              *)

(* The revisions of an entry are a complete account of it: each starts     *)
(* from the row the one before it left, and the last one left the row that *)
(* stands. Edits that meet on one entry (client, Web, chat) do not tear    *)
(* the chain, although the row is read an exchange-rate call before it is  *)
(* written.                                                                *)
ChainExplainsRow ==
    \A e \in Entry :
        LET rs == revisions[e]
        IN  /\ entry[e] = None => rs = <<>>
            /\ \A i \in 1 .. Len(rs) - 1 : rs[i].after = rs[i + 1].before
            /\ rs # <<>> => rs[Len(rs)].after = entry[e]

(* A revision tells what kind of change it was: an update leads from a     *)
(* live row to a different live one, a delete and a restore change nothing *)
(* but that; each gives the row a later updated_at, so that a version is   *)
(* never seen twice.                                                       *)
RevisionTellsChange ==
    \A e \in Entry : \A i \in DOMAIN revisions[e] :
        LET r == revisions[e][i]
        IN  /\ r.before.stamp < r.after.stamp
            /\ r.before.deleted = (r.type = "restore")
            /\ r.after.deleted = (r.type = "delete")
            /\ (r.type = "update") = (<<r.before.value, r.before.account>>
                                         # <<r.after.value, r.after.account>>)

(* A client that names the version it saw changes that version and no      *)
(* other: nobody's change between the two is lost.                         *)
NoLostUpdate ==
    \A e \in Entry : \A i \in DOMAIN revisions[e] :
        revisions[e][i].seen # None => revisions[e][i].before.stamp = revisions[e][i].seen

(* A key's record and the business it stands for are committed together    *)
(* and once, however many requests carry the key at the same time and      *)
(* however often they fail.                                                *)
AppliedIffRecorded == \A k \in Scope : runs[k] = IF Remembered(k) THEN 1 ELSE 0

(* The records keep the promise of AnsweredOnce: a request that is sent    *)
(* again is told what the first one was, not what the entry is by now.     *)
remembered == [k \in Scope |-> IF Remembered(k) THEN record[k].response ELSE None]
reported == [k \in Scope |-> {t.got : t \in told[k]}]
Promise == INSTANCE AnsweredOnce WITH
    Outcome <- Row, outcome <- remembered, applied <- runs, told <- reported
KeepsPromise == Promise!Spec

(* Every request is answered: no two handlers wait for each other's key    *)
(* or row.                                                                 *)
EveryoneAnswered == \A h \in Handler : handler[h].at # "idle" ~> handler[h].at = "idle"

(* docs/client-api.md: a key that comes back with another request body is  *)
(* refused with 409; so whoever is told of a success asked for what was    *)
(* done.                                                                   *)
SuccessIsWhatWasAsked ==
    \A k \in Scope : Remembered(k) => \A t \in told[k] : t.asked = record[k].asked

-----------------------------------------------------------------------------
(* The invariant of the proofs                                             *)

(* A handler at work has a request, and holds the row as it still stands.  *)
HandlersInOrder ==
    \A h \in Handler : handler[h].at # "idle" =>
        LET q == Asked(h)
        IN  /\ q \in Request
            /\ q.op = "create" => q.entry = None /\ q.value \in Value /\ q.account \in Account
            /\ q.op # "create" => q.entry \in Entry /\ entry[q.entry] # None
            /\ handler[h].at = "insert" => q.key # None
            /\ handler[h].at = "locked" => /\ q.op # "create" /\ handler[h].row = entry[q.entry]
                                           /\ ~Stale(handler[h].row, q)

RowsLockedOnce == \A g, h \in Handler :
    g # h /\ handler[g].at = "locked" /\ handler[h].at = "locked" => Asked(g).entry # Asked(h).entry

(* A handler past the insert of its record is alone with its key.          *)
KeysClaimedOnce == \A h \in Handler :
    handler[h].at \in {"ready", "locked"} /\ Asked(h).key # None
      => ~Remembered(ScopeOf(Asked(h))) /\ ~KeyHeld(h, ScopeOf(Asked(h)))

StampsPast == \A e \in Entry : entry[e] # None => entry[e].stamp <= clock

ToldIsRecorded == \A k \in Scope : \A t \in told[k] : Remembered(k) /\ t.got = record[k].response

IInv == /\ TypeOK /\ HandlersInOrder /\ RowsLockedOnce /\ KeysClaimedOnce /\ StampsPast
        /\ ToldIsRecorded /\ AppliedIffRecorded
        /\ ChainExplainsRow /\ RevisionTellsChange /\ NoLostUpdate
=============================================================================
