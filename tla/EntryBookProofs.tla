--------------------------- MODULE EntryBookProofs ---------------------------
(***************************************************************************)
(* Proofs about EntryBook for any entries, values, accounts, keys,         *)
(* handlers and bounds: the inductive invariant, and from it that the      *)
(* revisions explain every row, that no update is lost, and that the       *)
(* idempotency records keep the promise of AnsweredOnce.                   *)
(***************************************************************************)
EXTENDS EntryBook, TLAPS

(* One more element in one of a family of sets.                            *)
LEMMA OneMore ==
    ASSUME NEW S, NEW T, NEW f \in [S -> SUBSET T], NEW k \in S, NEW t \in T
    PROVE  [f EXCEPT ![k] = @ \cup {t}] \in [S -> SUBSET T]
  OBVIOUS

(* A request with a key has a scope.                                       *)
LEMMA ScopeIsScope ==
    ASSUME NEW q \in Request, q.key # None,
           q.op = "create" => q.entry = None,
           q.op # "create" => q.entry \in Entry
    PROVE  ScopeOf(q) \in Scope
  <1>1. q.op \in Edit \cup {"create"} /\ q.key \in Key
    BY DEF Request, RequestAt
  <1> QED
    BY <1>1 DEF Scope, ScopeOf

(* What a request makes of a row is a row.                                 *)
LEMMA ChangedRow ==
    ASSUME NEW q \in Request, q.op # "create", NEW row \in Row
    PROVE  Changed(q, row) \in Row /\ Changed(q, row).stamp = row.stamp
  <1>1. q.op \in Edit /\ q.value \in Value \cup {None} /\ q.account \in Account \cup {None}
    BY DEF Request, RequestAt
  <1>2. Or(q.value, row.value) \in Value /\ Or(q.account, row.account) \in Account
    BY <1>1 DEF Or, Row
  <1>3. Edited(q, row) \in Row /\ Edited(q, row).stamp = row.stamp
    BY <1>2 DEF Edited, Row
  <1> QED
    BY <1>1, <1>3 DEF Changed, Edit, Row

(* What a change amounts to, by its kind.                                  *)
LEMMA ChangedTells ==
    ASSUME NEW q \in Request, q.op # "create", NEW row \in Row, Changed(q, row) # row
    PROVE  LET new == Changed(q, row)
           IN  /\ row.deleted = (q.op = "restore")
               /\ new.deleted = (q.op = "delete")
               /\ (q.op = "update") = (<<row.value, row.account>> # <<new.value, new.account>>)
  <1>1. q.op \in Edit /\ row.deleted \in BOOLEAN
    BY DEF Request, RequestAt, Row
  <1>2. CASE q.op = "update"
    <2>1. ~row.deleted /\ Changed(q, row) = Edited(q, row)
      BY <1>1, <1>2 DEF Changed, Edited
    <2>2. Edited(q, row).deleted = row.deleted /\ Edited(q, row).stamp = row.stamp
          /\ Edited(q, row) \in Row
      BY <1>2, <2>1, ChangedRow DEF Edited, Row
    <2>3. <<row.value, row.account>> # <<Edited(q, row).value, Edited(q, row).account>>
      BY <2>1, <2>2 DEF Row
    <2> QED
      BY <1>1, <1>2, <2>1, <2>2, <2>3
  <1>3. CASE q.op = "delete"
    BY <1>1, <1>3 DEF Changed, Row
  <1>4. CASE q.op = "restore"
    BY <1>1, <1>4 DEF Changed, Row
  <1> QED
    BY <1>1, <1>2, <1>3, <1>4 DEF Edit

(* An answer from the record tells what the record holds.                  *)
LEMMA AnswerTellsRecord ==
    ASSUME TypeOK, ToldIsRecorded, NEW q \in Request, ScopeOf(q) \in Scope,
           Remembered(ScopeOf(q)), Answer(q)
    PROVE  /\ told' \in [Scope -> SUBSET [asked : Request, got : Row]]
           /\ \A k \in Scope : \A t \in told'[k] : Remembered(k) /\ t.got = record[k].response
  <1> DEFINE k == ScopeOf(q)
  <1>1. record[k] \in Record
    BY DEF TypeOK, Remembered
  <1>2. [asked |-> q, got |-> record[k].response] \in [asked : Request, got : Row]
    BY <1>1 DEF Record
  <1>3. told' = told \/ told' = [told EXCEPT ![k] = @ \cup {[asked |-> q, got |-> record[k].response]}]
    BY DEF Answer, Telling, Replayed
  <1>4. told' \in [Scope -> SUBSET [asked : Request, got : Row]]
    BY <1>2, <1>3, OneMore DEF TypeOK
  <1>5. ASSUME NEW j \in Scope, NEW t \in told'[j]
        PROVE  Remembered(j) /\ t.got = record[j].response
    <2>1. t \in told[j] \/ (j = k /\ t = [asked |-> q, got |-> record[k].response])
      BY <1>3, <1>5 DEF TypeOK
    <2> QED
      BY <2>1 DEF ToldIsRecorded
  <1> QED
    BY <1>4, <1>5

(* A handler alone with its key, when it commits, leaves the records right *)
(* and every other handler alone with its own.                             *)
LEMMA CommitKeepsRecords ==
    ASSUME IInv, NEW h \in Handler, handler[h].at \in {"ready", "locked"},
           NEW r \in Row, Commit(h, r)
    PROVE  /\ record' \in [Scope -> Record \cup {None}]
           /\ runs' \in [Scope -> Nat]
           /\ told' \in [Scope -> SUBSET [asked : Request, got : Row]]
           /\ ToldIsRecorded' /\ AppliedIffRecorded' /\ KeysClaimedOnce'
  <1> USE EntryBookAssumption, RecordAssumption DEF IInv
  <1> DEFINE q == Asked(h)  k == ScopeOf(Asked(h))
  <1>1. q \in Request /\ (q.key # None => k \in Scope)
    BY ScopeIsScope DEF HandlersInOrder
  <1>2. handler' = [handler EXCEPT ![h] = Idle]
    BY DEF Commit
  <1>3. \A g \in Handler : g # h => handler'[g] = handler[g]
    BY <1>2 DEF TypeOK
  <1>4. handler'[h].at = "idle"
    BY <1>2 DEF TypeOK, Idle
  <1>5. CASE q.key = None
    <2>1. record' = record /\ runs' = runs /\ told' = told
      BY <1>5 DEF Commit
    <2>2. KeysClaimedOnce'
      BY <1>3, <1>4, <2>1 DEF KeysClaimedOnce, KeyHeld, Asked, Remembered
    <2> QED
      BY <2>1, <2>2 DEF TypeOK, ToldIsRecorded, AppliedIffRecorded, Remembered
  <1>6. CASE q.key # None
    <2> DEFINE row == [asked |-> q, response |-> r, live |-> TRUE]
               t == [asked |-> q, got |-> r]
    <2>1. /\ record' = [record EXCEPT ![k] = row]
          /\ runs' = [runs EXCEPT ![k] = @ + 1]
          /\ told' = [told EXCEPT ![k] = @ \cup {t}]
      BY <1>6 DEF Commit, Recorded, Telling
    <2>2. ~Remembered(k) /\ ~KeyHeld(h, k) /\ runs[k] = 0 /\ told[k] = {}
      BY <1>1, <1>6 DEF KeysClaimedOnce, AppliedIffRecorded, ToldIsRecorded, TypeOK
    <2>3. row \in Record /\ row # None /\ row.live = TRUE /\ row.response = r
      <3>1. row \in Record
        BY <1>1, Zenon DEF Record
      <3> QED
        BY <3>1
    <2>4. record' \in [Scope -> Record \cup {None}]
      BY <2>1, <2>3 DEF TypeOK
    <2>5. runs' \in [Scope -> Nat]
      BY <1>1, <1>6, <2>1, <2>2 DEF TypeOK
    <2>6. told' \in [Scope -> SUBSET [asked : Request, got : Row]]
      <3>1. t \in [asked : Request, got : Row]
        BY <1>1
      <3> QED
        BY <1>1, <1>6, <2>1, <3>1, OneMore DEF TypeOK
    <2>7. \A j \in Scope : IF j = k THEN record'[j] = row /\ runs'[j] = 1 /\ told'[j] = {t}
                           ELSE record'[j] = record[j] /\ runs'[j] = runs[j] /\ told'[j] = told[j]
      BY <1>1, <1>6, <2>1, <2>2 DEF TypeOK
    <2>8. ToldIsRecorded'
      BY <2>3, <2>7 DEF ToldIsRecorded, Remembered
    <2>9. AppliedIffRecorded'
      BY <2>3, <2>7 DEF AppliedIffRecorded, Remembered
    <2>10. KeysClaimedOnce'
      <3> SUFFICES ASSUME NEW g \in Handler, handler'[g].at \in {"ready", "locked"},
                          handler'[g].asked.key # None
                   PROVE  /\ ~Remembered(ScopeOf(handler[g].asked))'
                          /\ ~KeyHeld(g, ScopeOf(handler[g].asked))'
        BY DEF KeysClaimedOnce, Asked, ScopeOf
      <3>1. g # h /\ handler'[g] = handler[g]
        BY <1>3, <1>4
      <3>2. ScopeOf(handler[g].asked) # k
        BY <2>2, <3>1 DEF KeyHeld, Asked
      <3>3. ScopeOf(handler[g].asked) \in Scope
        BY <3>1, ScopeIsScope DEF HandlersInOrder, Asked
      <3>4. ~Remembered(ScopeOf(handler[g].asked)) /\ ~KeyHeld(g, ScopeOf(handler[g].asked))
        BY <3>1 DEF KeysClaimedOnce, Asked
      <3>5. record'[ScopeOf(handler[g].asked)] = record[ScopeOf(handler[g].asked)]
        BY <2>7, <3>2, <3>3
      <3>6. ScopeOf(handler[g].asked)' = ScopeOf(handler[g].asked)
        BY <3>1 DEF ScopeOf
      <3>7. ~KeyHeld(g, ScopeOf(handler[g].asked))'
        BY <1>3, <1>4, <3>4, <3>6 DEF KeyHeld, Asked
      <3> QED
        BY <3>4, <3>5, <3>6, <3>7 DEF Remembered
    <2> QED
      BY <2>4, <2>5, <2>6, <2>8, <2>9, <2>10
  <1> QED
    BY <1>5, <1>6

(* A step that leaves the book alone leaves its properties alone.          *)
LEMMA BookKept ==
    ASSUME IInv, UNCHANGED book
    PROVE  StampsPast' /\ ChainExplainsRow' /\ RevisionTellsChange' /\ NoLostUpdate'
  BY DEF IInv, book, StampsPast, ChainExplainsRow, RevisionTellsChange, NoLostUpdate

(* A handler that ends without a commit leaves the invariant standing.     *)
LEMMA HandlerEnds ==
    ASSUME IInv, NEW h \in Handler, handler' = [handler EXCEPT ![h] = Idle],
           UNCHANGED book, UNCHANGED record
    PROVE  /\ handler' \in [Handler -> [at : Stage, asked : Request \cup {None}, row : Row \cup {None}]]
           /\ HandlersInOrder' /\ RowsLockedOnce' /\ KeysClaimedOnce'
  <1> USE DEF IInv, book
  <1>1. handler' \in [Handler -> [at : Stage, asked : Request \cup {None}, row : Row \cup {None}]]
    BY DEF TypeOK, Idle, Stage
  <1>2. handler'[h].at = "idle" /\ \A g \in Handler : g # h => handler'[g] = handler[g]
    BY DEF TypeOK, Idle
  <1>3. HandlersInOrder'
    BY <1>2 DEF HandlersInOrder, Asked, Stale
  <1>4. RowsLockedOnce'
    BY <1>2 DEF RowsLockedOnce, Asked
  <1>5. KeysClaimedOnce'
    <2> SUFFICES ASSUME NEW g \in Handler, handler'[g].at \in {"ready", "locked"},
                        handler'[g].asked.key # None
                 PROVE  ~Remembered(ScopeOf(handler[g].asked))'
                        /\ ~KeyHeld(g, ScopeOf(handler[g].asked))'
      BY DEF KeysClaimedOnce, Asked, ScopeOf
    <2>1. g # h /\ handler'[g] = handler[g]
      BY <1>2
    <2>2. ~Remembered(ScopeOf(handler[g].asked)) /\ ~KeyHeld(g, ScopeOf(handler[g].asked))
      BY <2>1 DEF KeysClaimedOnce, Asked
    <2> QED
      BY <1>2, <2>1, <2>2 DEF KeyHeld, Asked, Remembered
  <1> QED
    BY <1>1, <1>3, <1>4, <1>5

(* A request arrives.                                                      *)
LEMMA ArriveInv ==
    ASSUME IInv, NEW h \in Handler, NEW q \in RequestAt(1 .. clock), Arrive(h, q)
    PROVE  IInv'
  <1> USE EntryBookAssumption DEF IInv
  <1>1. q \in Request /\ requests' \in Nat /\ rollbacks' \in Nat
    BY DEF Request, RequestAt, TypeOK, Arrive
  <1>2. /\ q.op = "create" => q.entry = None /\ q.value \in Value /\ q.account \in Account
        /\ q.op # "create" => q.entry \in Entry /\ entry[q.entry] # None
    BY <1>1 DEF Arrive, Sendable, Request, RequestAt, Edit
  <1>3. UNCHANGED book /\ UNCHANGED <<record, runs>>
    BY DEF Arrive
  <1>4. CASE q.key # None /\ Remembered(ScopeOf(q))
    <2>1. Answer(q) /\ handler' = handler /\ ScopeOf(q) \in Scope
      BY <1>1, <1>2, <1>4, ScopeIsScope DEF Arrive
    <2>2. /\ told' \in [Scope -> SUBSET [asked : Request, got : Row]]
          /\ \A k \in Scope : \A t \in told'[k] : Remembered(k) /\ t.got = record[k].response
      BY <1>1, <1>4, <2>1, AnswerTellsRecord
    <2>3. TypeOK'
      BY <1>1, <1>3, <2>1, <2>2 DEF TypeOK, book
    <2>4. ToldIsRecorded' /\ AppliedIffRecorded'
      BY <1>3, <2>2 DEF ToldIsRecorded, AppliedIffRecorded, Remembered
    <2>5. HandlersInOrder' /\ RowsLockedOnce' /\ KeysClaimedOnce'
      BY <1>3, <2>1
      DEF HandlersInOrder, RowsLockedOnce, KeysClaimedOnce, Asked, KeyHeld, Remembered, Stale, book
    <2> QED
      BY <1>3, <2>3, <2>4, <2>5, BookKept
  <1>5. CASE ~(q.key # None /\ Remembered(ScopeOf(q)))
    <2> DEFINE new == [at |-> IF q.key = None THEN "ready" ELSE "insert", asked |-> q, row |-> None]
    <2>1. handler' = [handler EXCEPT ![h] = new] /\ told' = told /\ handler[h].at = "idle"
      BY <1>5 DEF Arrive
    <2>2. /\ handler'[h] = new
          /\ \A g \in Handler : g # h => handler'[g] = handler[g]
      BY <2>1 DEF TypeOK
    <2>3. new \in [at : Stage, asked : Request \cup {None}, row : Row \cup {None}]
      BY <1>1 DEF Stage
    <2>4. TypeOK'
      BY <1>1, <1>3, <2>1, <2>3 DEF TypeOK, book
    <2>5. ToldIsRecorded' /\ AppliedIffRecorded'
      BY <1>3, <2>1 DEF ToldIsRecorded, AppliedIffRecorded, Remembered
    <2>6. HandlersInOrder'
      BY <1>1, <1>2, <1>3, <2>2 DEF HandlersInOrder, Asked, Stale, book
    <2>7. RowsLockedOnce'
      BY <2>2 DEF RowsLockedOnce, Asked
    <2>8. KeysClaimedOnce'
      <3> SUFFICES ASSUME NEW g \in Handler, handler'[g].at \in {"ready", "locked"},
                          handler'[g].asked.key # None
                   PROVE  ~Remembered(ScopeOf(handler[g].asked))'
                          /\ ~KeyHeld(g, ScopeOf(handler[g].asked))'
        BY DEF KeysClaimedOnce, Asked, ScopeOf
      <3>1. g # h /\ handler'[g] = handler[g]
        BY <2>2
      <3>2. ~Remembered(ScopeOf(handler[g].asked)) /\ ~KeyHeld(g, ScopeOf(handler[g].asked))
        BY <3>1 DEF KeysClaimedOnce, Asked
      <3>3. handler'[h].at \in {"ready", "locked"}
              => ScopeOf(handler'[h].asked) # ScopeOf(handler[g].asked)
        BY <2>2, <3>1 DEF ScopeOf
      <3> QED
        BY <1>3, <2>2, <3>1, <3>2, <3>3 DEF KeyHeld, Asked, Remembered
    <2> QED
      BY <1>3, <2>4, <2>5, <2>6, <2>7, <2>8, BookKept
  <1> QED
    BY <1>4, <1>5

(* The record of a request is inserted, or turns out to be there.          *)
LEMMA InsertInv ==
    ASSUME IInv, NEW h \in Handler, Insert(h)
    PROVE  IInv'
  <1> USE EntryBookAssumption DEF IInv
  <1> DEFINE q == Asked(h)  k == ScopeOf(Asked(h))
  <1>1. q \in Request /\ q.key # None /\ k \in Scope /\ handler[h].at = "insert"
    BY ScopeIsScope DEF Insert, HandlersInOrder
  <1>2. UNCHANGED book /\ UNCHANGED <<record, runs, requests, rollbacks>> /\ ~KeyHeld(h, k)
    BY DEF Insert
  <1>3. CASE Remembered(k)
    <2>1. Answer(q) /\ handler' = [handler EXCEPT ![h] = Idle]
      BY <1>3 DEF Insert, Duplicate
    <2>2. /\ told' \in [Scope -> SUBSET [asked : Request, got : Row]]
          /\ \A j \in Scope : \A t \in told'[j] : Remembered(j) /\ t.got = record[j].response
      BY <1>1, <1>3, <2>1, AnswerTellsRecord
    <2>3. /\ handler' \in [Handler -> [at : Stage, asked : Request \cup {None}, row : Row \cup {None}]]
          /\ HandlersInOrder' /\ RowsLockedOnce' /\ KeysClaimedOnce'
      BY <1>2, <2>1, HandlerEnds
    <2>4. TypeOK'
      BY <1>2, <2>2, <2>3 DEF TypeOK, book
    <2>5. ToldIsRecorded' /\ AppliedIffRecorded'
      BY <1>2, <2>2 DEF ToldIsRecorded, AppliedIffRecorded, Remembered
    <2> QED
      BY <1>2, <2>3, <2>4, <2>5, BookKept
  <1>4. CASE ~Remembered(k)
    <2>1. handler' = [handler EXCEPT ![h].at = "ready"] /\ told' = told
      BY <1>4 DEF Insert, Duplicate
    <2>2. /\ handler'[h].at = "ready" /\ handler'[h].asked = q
          /\ \A g \in Handler : g # h => handler'[g] = handler[g]
      BY <2>1 DEF TypeOK, Asked
    <2>3. TypeOK'
      BY <1>2, <2>1 DEF TypeOK, book, Stage
    <2>4. ToldIsRecorded' /\ AppliedIffRecorded'
      BY <1>2, <2>1 DEF ToldIsRecorded, AppliedIffRecorded, Remembered
    <2>5. HandlersInOrder'
      BY <1>1, <1>2, <2>2 DEF HandlersInOrder, Asked, Stale, book
    <2>6. RowsLockedOnce'
      BY <2>2 DEF RowsLockedOnce, Asked
    <2>7. KeysClaimedOnce'
      <3> SUFFICES ASSUME NEW g \in Handler, handler'[g].at \in {"ready", "locked"},
                          handler'[g].asked.key # None
                   PROVE  ~Remembered(ScopeOf(handler[g].asked))'
                          /\ ~KeyHeld(g, ScopeOf(handler[g].asked))'
        BY DEF KeysClaimedOnce, Asked, ScopeOf
      <3>1. CASE g = h
        BY <1>2, <1>4, <2>2, <3>1 DEF KeyHeld, Asked, Remembered
      <3>2. CASE g # h
        <4>1. ~Remembered(ScopeOf(handler[g].asked)) /\ ~KeyHeld(g, ScopeOf(handler[g].asked))
          BY <2>2, <3>2 DEF KeysClaimedOnce, Asked
        <4>2. ScopeOf(handler[g].asked) # k
          BY <1>2, <2>2, <3>2 DEF KeyHeld, Asked
        <4> QED
          BY <1>2, <2>2, <3>2, <4>1, <4>2 DEF KeyHeld, Asked, Remembered
      <3> QED
        BY <3>1, <3>2
    <2> QED
      BY <1>2, <2>3, <2>4, <2>5, <2>6, <2>7, BookKept
  <1> QED
    BY <1>3, <1>4

(* An entry is created.                                                    *)
LEMMA CreateInv ==
    ASSUME IInv, NEW h \in Handler, Create(h)
    PROVE  IInv'
  <1> USE EntryBookAssumption DEF IInv
  <1> DEFINE q == Asked(h)
             row == [value |-> q.value, account |-> q.account, deleted |-> FALSE, stamp |-> clock + 1]
  <1>1. PICK e \in Entry : entry[e] = None /\ entry' = [entry EXCEPT ![e] = row] /\ Commit(h, row)
    BY DEF Create
  <1>2. clock' = clock + 1 /\ revisions' = revisions /\ UNCHANGED <<requests, rollbacks>>
        /\ handler[h].at = "ready" /\ q.op = "create" /\ clock \in Nat
    BY DEF Create, TypeOK
  <1>3. row \in Row
    BY <1>2 DEF HandlersInOrder, Row
  <1>4. handler' = [handler EXCEPT ![h] = Idle]
    BY <1>1 DEF Commit
  <1>5. /\ record' \in [Scope -> Record \cup {None}] /\ runs' \in [Scope -> Nat]
        /\ told' \in [Scope -> SUBSET [asked : Request, got : Row]]
        /\ ToldIsRecorded' /\ AppliedIffRecorded' /\ KeysClaimedOnce'
    BY <1>1, <1>2, <1>3, CommitKeepsRecords
  <1>6. /\ entry'[e] = row /\ row # None
        /\ \A f \in Entry : f # e => entry'[f] = entry[f]
    BY <1>1, <1>3 DEF TypeOK
  <1>7. handler'[h].at = "idle" /\ \A g \in Handler : g # h => handler'[g] = handler[g]
    BY <1>4 DEF TypeOK, Idle
  <1>8. TypeOK'
    <2>1. handler' \in [Handler -> [at : Stage, asked : Request \cup {None}, row : Row \cup {None}]]
      BY <1>4 DEF TypeOK, Idle, Stage
    <2>2. entry' \in [Entry -> Row \cup {None}]
      BY <1>1, <1>3 DEF TypeOK
    <2> QED
      BY <1>2, <1>5, <2>1, <2>2 DEF TypeOK
  <1>9. HandlersInOrder'
    BY <1>1, <1>6, <1>7 DEF HandlersInOrder, Asked, Stale
  <1>10. RowsLockedOnce'
    BY <1>7 DEF RowsLockedOnce, Asked
  <1>11. StampsPast'
    <2> SUFFICES ASSUME NEW f \in Entry, entry'[f] # None PROVE entry'[f].stamp <= clock'
      BY DEF StampsPast
    <2>1. CASE f = e
      BY <1>2, <1>6, <2>1
    <2>2. CASE f # e
      <3>1. entry[f] \in Row /\ entry[f].stamp <= clock
        BY <1>6, <2>2 DEF TypeOK, StampsPast
      <3> QED
        BY <1>2, <1>6, <2>2, <3>1 DEF Row
    <2> QED
      BY <2>1, <2>2
  <1>12. ChainExplainsRow'
    BY <1>1, <1>2, <1>6 DEF ChainExplainsRow
  <1>13. RevisionTellsChange' /\ NoLostUpdate'
    BY <1>2 DEF RevisionTellsChange, NoLostUpdate
  <1> QED
    BY <1>5, <1>8, <1>9, <1>10, <1>11, <1>12, <1>13

(* The row is locked, or refused.                                          *)
LEMMA LockInv ==
    ASSUME IInv, NEW h \in Handler, Lock(h)
    PROVE  IInv'
  <1> USE EntryBookAssumption DEF IInv
  <1> DEFINE q == Asked(h)  e == Asked(h).entry
  <1>1. /\ handler[h].at = "ready" /\ q.op \in Edit /\ q.op # "create" /\ ~RowLocked(h, e)
        /\ UNCHANGED book /\ UNCHANGED <<record, runs, told, requests, rollbacks>>
    BY DEF Lock, Edit, idem
  <1>2. q \in Request /\ e \in Entry /\ entry[e] # None
    BY <1>1 DEF HandlersInOrder
  <1>3. CASE Stale(entry[e], q)
    <2>1. handler' = [handler EXCEPT ![h] = Idle]
      BY <1>3 DEF Lock, Refused
    <2>2. /\ handler' \in [Handler -> [at : Stage, asked : Request \cup {None}, row : Row \cup {None}]]
          /\ HandlersInOrder' /\ RowsLockedOnce' /\ KeysClaimedOnce'
      BY <1>1, <2>1, HandlerEnds
    <2>3. TypeOK' /\ ToldIsRecorded' /\ AppliedIffRecorded'
      BY <1>1, <2>2 DEF TypeOK, book, ToldIsRecorded, AppliedIffRecorded, Remembered
    <2> QED
      BY <1>1, <2>2, <2>3, BookKept
  <1>4. CASE ~Stale(entry[e], q)
    <2>1. handler' = [handler EXCEPT ![h].at = "locked", ![h].row = entry[e]]
      BY <1>4 DEF Lock
    <2>2. /\ handler'[h].at = "locked" /\ handler'[h].asked = q /\ handler'[h].row = entry[e]
          /\ \A g \in Handler : g # h => handler'[g] = handler[g]
      BY <2>1 DEF TypeOK, Asked
    <2>3. TypeOK'
      BY <1>1, <1>2, <2>1, ZenonT(60) DEF TypeOK, book, Stage
    <2>4. ToldIsRecorded' /\ AppliedIffRecorded'
      BY <1>1 DEF ToldIsRecorded, AppliedIffRecorded, Remembered
    <2>5. HandlersInOrder'
      BY <1>1, <1>2, <1>4, <2>2 DEF HandlersInOrder, Asked, Stale, book
    <2>6. RowsLockedOnce'
      BY <1>1, <2>2 DEF RowsLockedOnce, RowLocked, Asked
    <2>7. KeysClaimedOnce'
      BY <1>1, <2>2 DEF KeysClaimedOnce, KeyHeld, Asked, Remembered
    <2> QED
      BY <1>1, <2>3, <2>4, <2>5, <2>6, <2>7, BookKept
  <1> QED
    BY <1>3, <1>4

(* A chain grows by a revision that starts from the row that stands.       *)
LEMMA ChainGrows ==
    ASSUME NEW rs \in Seq(Revision), NEW r \in Revision, NEW old, NEW new,
           \A i \in 1 .. Len(rs) - 1 : rs[i].after = rs[i + 1].before,
           rs # <<>> => rs[Len(rs)].after = old,
           r.before = old, r.after = new
    PROVE  LET ts == Append(rs, r)
           IN  /\ ts # <<>> /\ ts[Len(ts)].after = new
               /\ \A i \in 1 .. Len(ts) - 1 : ts[i].after = ts[i + 1].before
               /\ \A i \in DOMAIN ts : (i \in DOMAIN rs /\ ts[i] = rs[i]) \/ ts[i] = r
  <1> DEFINE ts == Append(rs, r)
  <1>1. Len(ts) = Len(rs) + 1 /\ ts[Len(rs) + 1] = r /\ Len(rs) \in Nat
    OBVIOUS
  <1>2. \A i \in 1 .. Len(rs) : ts[i] = rs[i]
    OBVIOUS
  <1>3. \A i \in 1 .. Len(ts) - 1 : ts[i].after = ts[i + 1].before
    <2> SUFFICES ASSUME NEW i \in 1 .. Len(rs) PROVE ts[i].after = ts[i + 1].before
      BY <1>1
    <2>1. CASE i = Len(rs)
      BY <1>1, <1>2, <2>1
    <2>2. CASE i < Len(rs)
      BY <1>1, <1>2, <2>2
    <2> QED
      BY <2>1, <2>2
  <1>4. DOMAIN ts = 1 .. Len(rs) + 1 /\ DOMAIN rs = 1 .. Len(rs)
    OBVIOUS
  <1> QED
    BY <1>1, <1>2, <1>3, <1>4

(* The change of an entry is committed with its revision.                  *)
LEMMA WriteInv ==
    ASSUME IInv, NEW h \in Handler, Write(h)
    PROVE  IInv'
  <1> USE EntryBookAssumption DEF IInv
  <1> DEFINE q == Asked(h)  e == Asked(h).entry  old == handler[h].row
             changed == Changed(q, old) # old
             new == IF changed THEN [Changed(q, old) EXCEPT !.stamp = clock + 1] ELSE old
             r == [type |-> q.op, before |-> old, after |-> new, seen |-> q.seen]
  <1>1. /\ handler[h].at = "locked" /\ Commit(h, new)
        /\ UNCHANGED <<requests, rollbacks>>
        /\ IF changed
           THEN /\ entry' = [entry EXCEPT ![e] = new]
                /\ revisions' = [revisions EXCEPT ![e] = Append(@, r)]
                /\ clock' = clock + 1
           ELSE UNCHANGED book
    BY DEF Write
  <1>2. /\ q \in Request /\ q.op # "create" /\ e \in Entry /\ entry[e] # None /\ old = entry[e]
        /\ ~Stale(old, q) /\ clock \in Nat
    BY <1>1 DEF HandlersInOrder, TypeOK
  <1>3. old \in Row /\ old.stamp <= clock
    BY <1>2 DEF TypeOK, StampsPast
  <1>4. Changed(q, old) \in Row
    BY <1>2, <1>3, ChangedRow
  <1>5. new \in Row
    BY <1>2, <1>3, <1>4 DEF Row
  <1>6. handler' = [handler EXCEPT ![h] = Idle]
    BY <1>1 DEF Commit
  <1>7. /\ record' \in [Scope -> Record \cup {None}] /\ runs' \in [Scope -> Nat]
        /\ told' \in [Scope -> SUBSET [asked : Request, got : Row]]
        /\ ToldIsRecorded' /\ AppliedIffRecorded' /\ KeysClaimedOnce'
    BY <1>1, <1>5, CommitKeepsRecords
  <1>8. handler'[h].at = "idle" /\ \A g \in Handler : g # h => handler'[g] = handler[g]
    BY <1>6 DEF TypeOK, Idle
  <1>9. handler' \in [Handler -> [at : Stage, asked : Request \cup {None}, row : Row \cup {None}]]
    BY <1>6 DEF TypeOK, Idle, Stage
  <1>10. RowsLockedOnce'
    BY <1>8 DEF RowsLockedOnce, Asked
  <1>11. CASE ~changed
    <2>1. UNCHANGED book
      BY <1>1, <1>11
    <2>2. TypeOK'
      BY <1>1, <1>7, <1>9, <2>1 DEF TypeOK, book
    <2>3. HandlersInOrder'
      BY <1>8, <2>1 DEF book, HandlersInOrder, Asked, Stale
    <2> QED
      BY <1>7, <1>10, <2>1, <2>2, <2>3, BookKept
  <1>12. CASE changed
    <2>1. /\ entry' = [entry EXCEPT ![e] = new]
          /\ revisions' = [revisions EXCEPT ![e] = Append(@, r)]
          /\ clock' = clock + 1
      BY <1>1, <1>12
    <2>2. /\ entry'[e] = new /\ new # None /\ revisions'[e] = Append(revisions[e], r)
          /\ \A f \in Entry : f # e => entry'[f] = entry[f] /\ revisions'[f] = revisions[f]
      BY <1>2, <1>5, <2>1 DEF TypeOK
    <2>3. r \in Revision
      BY <1>2, <1>3, <1>5 DEF Revision, Request, RequestAt, Edit
    <2>4. TypeOK'
      <3>1. Append(revisions[e], r) \in Seq(Revision)
        BY <1>2, <2>3 DEF TypeOK
      <3>2. entry' \in [Entry -> Row \cup {None}] /\ revisions' \in [Entry -> Seq(Revision)]
        BY <1>5, <2>1, <3>1 DEF TypeOK
      <3> QED
        BY <1>1, <1>2, <1>7, <1>9, <2>1, <3>2 DEF TypeOK
    <2>5. HandlersInOrder'
      <3> SUFFICES ASSUME NEW g \in Handler, g # h, handler[g].at # "idle"
                   PROVE  /\ Asked(g).op # "create" => entry'[Asked(g).entry] # None
                          /\ handler[g].at = "locked" => entry'[Asked(g).entry] = entry[Asked(g).entry]
        BY <1>8 DEF HandlersInOrder, Asked, Stale
      <3>1. handler[g].at = "locked" => Asked(g).entry # e /\ Asked(g).op # "create"
        BY <1>1 DEF RowsLockedOnce, HandlersInOrder
      <3> QED
        BY <2>2, <3>1 DEF HandlersInOrder
    <2>6. StampsPast'
      <3> SUFFICES ASSUME NEW f \in Entry, entry'[f] # None PROVE entry'[f].stamp <= clock'
        BY DEF StampsPast
      <3>1. CASE f = e
        BY <1>2, <1>4, <1>12, <2>1, <2>2, <3>1 DEF Row
      <3>2. CASE f # e
        <4>1. entry[f] \in Row /\ entry[f].stamp <= clock
          BY <2>2, <3>2 DEF TypeOK, StampsPast
        <4> QED
          BY <1>2, <2>1, <2>2, <3>2, <4>1 DEF Row
      <3> QED
        BY <3>1, <3>2
    <2>7. LET rs == revisions[e]  ts == revisions'[e]
          IN  /\ ts # <<>> /\ ts[Len(ts)].after = new
              /\ \A i \in 1 .. Len(ts) - 1 : ts[i].after = ts[i + 1].before
              /\ \A i \in DOMAIN ts : (i \in DOMAIN rs /\ ts[i] = rs[i]) \/ ts[i] = r
      <3>1. revisions[e] \in Seq(Revision)
        BY <1>2 DEF TypeOK
      <3>2. /\ \A i \in 1 .. Len(revisions[e]) - 1 : revisions[e][i].after = revisions[e][i + 1].before
            /\ revisions[e] # <<>> => revisions[e][Len(revisions[e])].after = old
        BY <1>2 DEF ChainExplainsRow
      <3>3. r.before = old /\ r.after = new
        OBVIOUS
      <3>4. revisions'[e] = Append(revisions[e], r)
        BY <2>2
      <3> DEFINE rs == revisions[e]
                 ts == Append(rs, r)
      <3>5. rs \in Seq(Revision)
        BY <3>1
      <3>6. /\ \A i \in 1 .. Len(rs) - 1 : rs[i].after = rs[i + 1].before
            /\ rs # <<>> => rs[Len(rs)].after = old
        BY <3>2
      <3> HIDE DEF r, new, old, rs
      <3>7. /\ ts # <<>> /\ ts[Len(ts)].after = new
            /\ \A i \in 1 .. Len(ts) - 1 : ts[i].after = ts[i + 1].before
            /\ \A i \in DOMAIN ts : (i \in DOMAIN rs /\ ts[i] = rs[i]) \/ ts[i] = r
        BY ONLY <2>3, <3>3, <3>5, <3>6, ChainGrows
      <3> QED
        BY <3>4, <3>7 DEF rs
    <2>8. ChainExplainsRow'
      <3> SUFFICES ASSUME NEW f \in Entry
                   PROVE  /\ entry'[f] = None => revisions'[f] = <<>>
                          /\ \A i \in 1 .. Len(revisions'[f]) - 1 :
                                revisions'[f][i].after = revisions'[f][i + 1].before
                          /\ revisions'[f] # <<>> => revisions'[f][Len(revisions'[f])].after = entry'[f]
        BY DEF ChainExplainsRow
      <3> HIDE DEF r, new, old
      <3>1. CASE f = e
        BY <2>2, <2>7, <3>1
      <3>2. CASE f # e
        BY <2>2, <3>2 DEF ChainExplainsRow
      <3> QED
        BY <3>1, <3>2
    <2>9. /\ r.before.stamp < r.after.stamp
          /\ r.before.deleted = (r.type = "restore")
          /\ r.after.deleted = (r.type = "delete")
          /\ (r.type = "update") = (<<r.before.value, r.before.account>>
                                      # <<r.after.value, r.after.account>>)
      <3>1. new.stamp = clock + 1 /\ new.deleted = Changed(q, old).deleted
            /\ new.value = Changed(q, old).value /\ new.account = Changed(q, old).account
        BY <1>4, <1>12 DEF Row
      <3>2. /\ old.deleted = (q.op = "restore")
            /\ Changed(q, old).deleted = (q.op = "delete")
            /\ (q.op = "update") = (<<old.value, old.account>>
                                      # <<Changed(q, old).value, Changed(q, old).account>>)
        BY <1>2, <1>3, <1>12, ChangedTells
      <3>3. old.stamp < clock + 1
        BY <1>2, <1>3 DEF Row
      <3> HIDE DEF new, old
      <3> QED
        BY <3>1, <3>2, <3>3
    <2>10. r.seen # None => r.before.stamp = r.seen
      BY <1>2 DEF Stale
    <2>11. RevisionTellsChange' /\ NoLostUpdate'
      <3> HIDE DEF r, new, old
      <3> SUFFICES ASSUME NEW f \in Entry, NEW i \in DOMAIN revisions'[f]
                   PROVE  LET x == revisions'[f][i]
                          IN  /\ x.before.stamp < x.after.stamp
                              /\ x.before.deleted = (x.type = "restore")
                              /\ x.after.deleted = (x.type = "delete")
                              /\ (x.type = "update") = (<<x.before.value, x.before.account>>
                                                          # <<x.after.value, x.after.account>>)
                              /\ x.seen # None => x.before.stamp = x.seen
        BY DEF RevisionTellsChange, NoLostUpdate
      <3>1. revisions'[f][i] = r \/ (i \in DOMAIN revisions[f] /\ revisions'[f][i] = revisions[f][i])
        BY <2>2, <2>7
      <3> QED
        BY <2>9, <2>10, <3>1 DEF RevisionTellsChange, NoLostUpdate
    <2> QED
      BY <1>7, <1>10, <2>4, <2>5, <2>6, <2>8, <2>11
  <1> QED
    BY <1>11, <1>12

(* A handler fails, or finds no short id.                                  *)
LEMMA FailInv ==
    ASSUME IInv, NEW h \in Handler, Rollback(h) \/ BookIsFull(h)
    PROVE  IInv'
  <1> USE DEF IInv, idem
  <1>1. /\ handler' = [handler EXCEPT ![h] = Idle] /\ UNCHANGED book
        /\ UNCHANGED <<record, runs, told, requests>> /\ rollbacks' \in Nat
    BY DEF Rollback, BookIsFull, Refused, TypeOK
  <1>2. /\ handler' \in [Handler -> [at : Stage, asked : Request \cup {None}, row : Row \cup {None}]]
        /\ HandlersInOrder' /\ RowsLockedOnce' /\ KeysClaimedOnce'
    BY <1>1, HandlerEnds
  <1>3. TypeOK' /\ ToldIsRecorded' /\ AppliedIffRecorded'
    BY <1>1, <1>2 DEF TypeOK, book, ToldIsRecorded, AppliedIffRecorded, Remembered
  <1> QED
    BY <1>1, <1>2, <1>3, BookKept

(* A record expires.                                                       *)
LEMMA ExpireInv ==
    ASSUME IInv, NEW k \in Scope, Expire(k)
    PROVE  IInv'
  <1> USE RecordAssumption DEF IInv
  <1>1. /\ Remembered(k) /\ UNCHANGED book /\ UNCHANGED <<handler, requests, rollbacks>>
        /\ record' = [record EXCEPT ![k].live = FALSE]
        /\ runs' = [runs EXCEPT ![k] = 0] /\ told' = [told EXCEPT ![k] = {}]
    BY DEF Expire
  <1>2. record[k] \in Record
    BY <1>1 DEF Remembered, TypeOK
  <1>3. \A j \in Scope : IF j = k THEN ~Remembered(j)' /\ runs'[j] = 0 /\ told'[j] = {}
                         ELSE /\ record'[j] = record[j] /\ runs'[j] = runs[j] /\ told'[j] = told[j]
    BY <1>1, <1>2 DEF TypeOK, Remembered, Record
  <1>4. TypeOK'
    <2>1. record' \in [Scope -> Record \cup {None}]
      BY <1>1, <1>2 DEF TypeOK, Record
    <2> QED
      BY <1>1, <2>1 DEF TypeOK, book
  <1>5. ToldIsRecorded' /\ AppliedIffRecorded'
    BY <1>3 DEF ToldIsRecorded, AppliedIffRecorded, Remembered
  <1>6. HandlersInOrder' /\ RowsLockedOnce'
    BY <1>1 DEF HandlersInOrder, RowsLockedOnce, Asked, Stale, book
  <1>7. KeysClaimedOnce'
    <2> SUFFICES ASSUME NEW g \in Handler, handler[g].at \in {"ready", "locked"},
                        Asked(g).key # None
                 PROVE  ~Remembered(ScopeOf(Asked(g)))' /\ ~KeyHeld(g, ScopeOf(Asked(g)))'
      BY <1>1 DEF KeysClaimedOnce, Asked
    <2>1. ScopeOf(Asked(g)) \in Scope /\ ~Remembered(ScopeOf(Asked(g))) /\ ~KeyHeld(g, ScopeOf(Asked(g)))
      BY ScopeIsScope DEF HandlersInOrder, KeysClaimedOnce
    <2>2. ScopeOf(Asked(g))' = ScopeOf(Asked(g))
      BY <1>1 DEF Asked, ScopeOf
    <2> QED
      BY <1>1, <1>3, <2>1, <2>2 DEF KeyHeld, Asked, Remembered
  <1> QED
    BY <1>1, <1>4, <1>5, <1>6, <1>7, BookKept

(* Expired records are deleted.                                            *)
LEMMA CleanUpInv ==
    ASSUME IInv, CleanUp
    PROVE  IInv'
  <1> USE RecordAssumption DEF IInv
  <1>1. /\ UNCHANGED book /\ UNCHANGED <<handler, runs, told, requests, rollbacks>>
        /\ record' = [k \in Scope |-> IF Remembered(k) THEN record[k] ELSE None]
    BY DEF CleanUp
  <1>2. \A k \in Scope : /\ Remembered(k)' = Remembered(k)
                         /\ Remembered(k) => record'[k] = record[k]
    BY <1>1 DEF Remembered
  <1>3. TypeOK'
    BY <1>1 DEF TypeOK, book
  <1>4. ToldIsRecorded' /\ AppliedIffRecorded'
    BY <1>1, <1>2 DEF ToldIsRecorded, AppliedIffRecorded
  <1>5. HandlersInOrder' /\ RowsLockedOnce'
    BY <1>1 DEF HandlersInOrder, RowsLockedOnce, Asked, Stale, book
  <1>6. KeysClaimedOnce'
    <2> SUFFICES ASSUME NEW g \in Handler, handler[g].at \in {"ready", "locked"},
                        Asked(g).key # None
                 PROVE  ~Remembered(ScopeOf(Asked(g)))' /\ ~KeyHeld(g, ScopeOf(Asked(g)))'
      BY <1>1 DEF KeysClaimedOnce, Asked
    <2>1. ScopeOf(Asked(g)) \in Scope /\ ~Remembered(ScopeOf(Asked(g))) /\ ~KeyHeld(g, ScopeOf(Asked(g)))
      BY ScopeIsScope DEF HandlersInOrder, KeysClaimedOnce
    <2>2. ScopeOf(Asked(g))' = ScopeOf(Asked(g))
      BY <1>1 DEF Asked, ScopeOf
    <2> QED
      BY <1>1, <2>1, <2>2 DEF KeyHeld, Asked, Remembered
  <1> QED
    BY <1>1, <1>3, <1>4, <1>5, <1>6, BookKept

(* The first state is in the invariant.                                    *)
LEMMA InitInv == Init => IInv
  <1> SUFFICES ASSUME Init PROVE IInv
    OBVIOUS
  <1>1. TypeOK
    BY DEF Init, TypeOK, Idle, Stage
  <1>2. HandlersInOrder /\ RowsLockedOnce /\ KeysClaimedOnce
    BY DEF Init, HandlersInOrder, RowsLockedOnce, KeysClaimedOnce, Idle
  <1>3. StampsPast /\ ToldIsRecorded /\ AppliedIffRecorded
    BY DEF Init, StampsPast, ToldIsRecorded, AppliedIffRecorded, Remembered
  <1>4. ChainExplainsRow /\ RevisionTellsChange /\ NoLostUpdate
    BY DEF Init, ChainExplainsRow, RevisionTellsChange, NoLostUpdate
  <1> QED
    BY <1>1, <1>2, <1>3, <1>4 DEF IInv

(* Every step keeps the invariant.                                         *)
LEMMA NextInv == IInv /\ [Next]_vars => IInv'
  <1> SUFFICES ASSUME IInv, [Next]_vars PROVE IInv'
    OBVIOUS
  <1>1. ASSUME NEW h \in Handler, NEW q \in RequestAt(1 .. clock), Arrive(h, q) PROVE IInv'
    BY <1>1, ArriveInv
  <1>2. ASSUME NEW h \in Handler, Insert(h) PROVE IInv'
    BY <1>2, InsertInv
  <1>3. ASSUME NEW h \in Handler, Create(h) PROVE IInv'
    BY <1>3, CreateInv
  <1>4. ASSUME NEW h \in Handler, Lock(h) PROVE IInv'
    BY <1>4, LockInv
  <1>5. ASSUME NEW h \in Handler, Write(h) PROVE IInv'
    BY <1>5, WriteInv
  <1>6. ASSUME NEW h \in Handler, Rollback(h) \/ BookIsFull(h) PROVE IInv'
    BY <1>6, FailInv
  <1>7. ASSUME NEW k \in Scope, Expire(k) PROVE IInv'
    BY <1>7, ExpireInv
  <1>8. CASE CleanUp
    BY <1>8, CleanUpInv
  <1>9. CASE UNCHANGED vars
    <2>1. TypeOK' /\ HandlersInOrder' /\ RowsLockedOnce'
      BY <1>9 DEF IInv, TypeOK, HandlersInOrder, RowsLockedOnce, Asked, Stale, vars
    <2>2. KeysClaimedOnce' /\ ToldIsRecorded' /\ AppliedIffRecorded'
      BY <1>9 DEF IInv, KeysClaimedOnce, ToldIsRecorded, AppliedIffRecorded, KeyHeld, Asked,
                  Remembered, vars
    <2> QED
      BY <1>9, <2>1, <2>2, BookKept DEF IInv, vars, book
  <1> QED
    BY <1>1, <1>2, <1>3, <1>4, <1>5, <1>6, <1>7, <1>8, <1>9 DEF Next

(* The invariant of the proofs holds in every reachable state.             *)
THEOREM Invariance == Spec => []IInv
  BY InitInv, NextInv, PTL DEF Spec

(* The tables, handlers and records have the shapes the module gives them. *)
THEOREM TypeCorrect == Spec => []TypeOK
  <1>1. IInv => TypeOK
    BY DEF IInv
  <1> QED
    BY <1>1, Invariance, PTL

(* The revisions of an entry account for the row that stands.              *)
THEOREM ChainExplainsRowHolds == Spec => []ChainExplainsRow
  <1>1. IInv => ChainExplainsRow
    BY DEF IInv
  <1> QED
    BY <1>1, Invariance, PTL

(* Each revision tells the kind of change its two snapshots differ by.     *)
THEOREM RevisionTellsChangeHolds == Spec => []RevisionTellsChange
  <1>1. IInv => RevisionTellsChange
    BY DEF IInv
  <1> QED
    BY <1>1, Invariance, PTL

(* A request that names a version changes that version only.               *)
THEOREM NoLostUpdateHolds == Spec => []NoLostUpdate
  <1>1. IInv => NoLostUpdate
    BY DEF IInv
  <1> QED
    BY <1>1, Invariance, PTL

(* A remembered key was applied exactly once, any other not at all.        *)
THEOREM AppliedIffRecordedHolds == Spec => []AppliedIffRecorded
  <1>1. IInv => AppliedIffRecorded
    BY DEF IInv
  <1> QED
    BY <1>1, Invariance, PTL

-----------------------------------------------------------------------------
(* Refinement: a commit with a key applies it, an answer from the record   *)
(* repeats it, an expiry forgets it, and nothing else is seen.             *)

(* Where the records say the same, the promise sees nothing.               *)
LEMMA SameRemembered ==
    ASSUME \A k \in Scope : /\ Remembered(k)' = Remembered(k)
                            /\ Remembered(k) => record'[k] = record[k]
    PROVE  remembered' = remembered
  BY DEF remembered, Remembered

(* A commit applies its key once, or has no key and is not seen.           *)
LEMMA CommitImplements ==
    ASSUME IInv, NEW h \in Handler, handler[h].at \in {"ready", "locked"},
           NEW r \in Row, Commit(h, r)
    PROVE  Promise!Next \/ UNCHANGED <<remembered, runs, reported>>
  <1> USE EntryBookAssumption, RecordAssumption DEF IInv
  <1> DEFINE q == Asked(h)  k == ScopeOf(Asked(h))
  <1>1. q \in Request /\ (q.key # None => k \in Scope)
    BY ScopeIsScope DEF HandlersInOrder
  <1>2. CASE q.key = None
    BY <1>2 DEF Commit, remembered, reported, Remembered
  <1>3. CASE q.key # None
    <2> DEFINE row == [asked |-> q, response |-> r, live |-> TRUE]
               t == [asked |-> q, got |-> r]
    <2>1. /\ record' = [record EXCEPT ![k] = row]
          /\ runs' = [runs EXCEPT ![k] = @ + 1]
          /\ told' = [told EXCEPT ![k] = @ \cup {t}]
      BY <1>3 DEF Commit, Recorded, Telling
    <2>2. ~Remembered(k) /\ runs[k] = 0 /\ told[k] = {}
      BY <1>1, <1>3 DEF KeysClaimedOnce, AppliedIffRecorded, ToldIsRecorded, TypeOK
    <2>3. row # None /\ row.live = TRUE /\ row.response = r
      <3>1. row \in Record
        BY <1>1, Zenon DEF Record
      <3> QED
        BY <3>1
    <2>4. remembered[k] = None /\ remembered' = [remembered EXCEPT ![k] = r]
      <3>1. \A j \in Scope : record'[j] = IF j = k THEN row ELSE record[j]
        BY <2>1 DEF TypeOK
      <3> QED
        BY <1>1, <1>3, <2>2, <2>3, <3>1 DEF remembered, Remembered
    <2>5. reported' = [reported EXCEPT ![k] = {r}]
      <3>1. \A j \in Scope : told'[j] = IF j = k THEN {t} ELSE told[j]
        BY <2>1, <2>2 DEF TypeOK
      <3>2. {x.got : x \in {t}} = {r}
        OBVIOUS
      <3> QED
        BY <3>1, <3>2 DEF reported
    <2>6. runs' = [runs EXCEPT ![k] = 1]
      BY <1>1, <1>3, <2>1, <2>2 DEF TypeOK
    <2>7. remembered'[k] = r
      BY <1>1, <1>3, <2>4 DEF remembered
    <2>8. Promise!Apply(k)
      BY <2>4, <2>5, <2>6, <2>7 DEF Promise!Apply
    <2> QED
      BY <1>1, <1>3, <2>8 DEF Promise!Next
  <1> QED
    BY <1>2, <1>3

(* An answer from the record repeats the outcome that was applied.         *)
LEMMA AnswerImplements ==
    ASSUME IInv, NEW q \in Request, ScopeOf(q) \in Scope, Remembered(ScopeOf(q)), Answer(q),
           UNCHANGED <<record, runs>>
    PROVE  Promise!Next \/ UNCHANGED <<remembered, runs, reported>>
  <1> USE EntryBookAssumption DEF IInv
  <1> DEFINE k == ScopeOf(q)  t == [asked |-> q, got |-> record[ScopeOf(q)].response]
  <1>1. remembered' = remembered
    BY DEF remembered, Remembered
  <1>2. CASE told' = told
    BY <1>1, <1>2 DEF reported
  <1>3. CASE told' = [told EXCEPT ![k] = @ \cup {t}]
    <2>1. remembered[k] = record[k].response
      BY DEF remembered
    <2>2. record[k].response # None
      BY DEF Remembered, TypeOK, Record
    <2>3. reported' = [reported EXCEPT ![k] = @ \cup {remembered[k]}]
      <3>1. \A j \in Scope : told'[j] = IF j = k THEN told[k] \cup {t} ELSE told[j]
        BY <1>3 DEF TypeOK
      <3>2. {x.got : x \in told[k] \cup {t}} = {x.got : x \in told[k]} \cup {t.got}
        OBVIOUS
      <3>3. t.got = remembered[k]
        BY <2>1
      <3> QED
        BY <3>1, <3>2, <3>3 DEF reported
    <2>4. Promise!Repeat(k)
      BY <1>1, <2>1, <2>2, <2>3 DEF Promise!Repeat
    <2> QED
      BY <2>4 DEF Promise!Next
  <1> QED
    BY <1>2, <1>3 DEF Answer, Telling, Replayed

(* Every step keeps the promise or is not seen by it.                      *)
LEMMA StepImplements ==
    ASSUME IInv, [Next]_vars
    PROVE  [Promise!Next]_<<remembered, runs, reported>>
  <1> USE EntryBookAssumption, RecordAssumption DEF IInv
  <1> SUFFICES Promise!Next \/ UNCHANGED <<remembered, runs, reported>>
    OBVIOUS
  <1>1. ASSUME NEW h \in Handler, NEW q \in RequestAt(1 .. clock), Arrive(h, q)
        PROVE  Promise!Next \/ UNCHANGED <<remembered, runs, reported>>
    <2>1. q \in Request /\ UNCHANGED <<record, runs>>
      BY <1>1 DEF Request, RequestAt, TypeOK, Arrive
    <2>2. CASE q.key # None /\ Remembered(ScopeOf(q))
      <3>1. /\ q.op = "create" => q.entry = None
            /\ q.op # "create" => q.entry \in Entry
        BY <1>1, <2>1 DEF Arrive, Sendable, Request, RequestAt, Edit
      <3>2. Answer(q) /\ ScopeOf(q) \in Scope
        BY <1>1, <2>1, <2>2, <3>1, ScopeIsScope DEF Arrive
      <3> QED
        BY <2>1, <2>2, <3>2, AnswerImplements
    <2>3. CASE ~(q.key # None /\ Remembered(ScopeOf(q)))
      BY <1>1, <2>1, <2>3 DEF Arrive, remembered, reported, Remembered
    <2> QED
      BY <2>2, <2>3
  <1>2. ASSUME NEW h \in Handler, Insert(h)
        PROVE  Promise!Next \/ UNCHANGED <<remembered, runs, reported>>
    <2>1. Asked(h) \in Request /\ ScopeOf(Asked(h)) \in Scope /\ UNCHANGED <<record, runs>>
      BY <1>2, ScopeIsScope DEF Insert, HandlersInOrder
    <2>2. CASE Remembered(ScopeOf(Asked(h)))
      BY <1>2, <2>1, <2>2, AnswerImplements DEF Insert, Duplicate
    <2>3. CASE ~Remembered(ScopeOf(Asked(h)))
      BY <1>2, <2>1, <2>3 DEF Insert, Duplicate, remembered, reported, Remembered
    <2> QED
      BY <2>2, <2>3
  <1>3. ASSUME NEW h \in Handler, Create(h)
        PROVE  Promise!Next \/ UNCHANGED <<remembered, runs, reported>>
    <2> DEFINE row == [value |-> Asked(h).value, account |-> Asked(h).account,
                       deleted |-> FALSE, stamp |-> clock + 1]
    <2>1. row \in Row
      BY <1>3 DEF Create, HandlersInOrder, Row, TypeOK
    <2>2. Commit(h, row) /\ handler[h].at = "ready"
      BY <1>3 DEF Create
    <2> QED
      BY <2>1, <2>2, CommitImplements
  <1>4. ASSUME NEW h \in Handler, Write(h)
        PROVE  Promise!Next \/ UNCHANGED <<remembered, runs, reported>>
    <2> DEFINE q == Asked(h)  old == handler[h].row
               new == IF Changed(q, old) # old
                      THEN [Changed(q, old) EXCEPT !.stamp = clock + 1] ELSE old
    <2>1. q \in Request /\ q.op # "create" /\ old \in Row /\ clock \in Nat
      BY <1>4 DEF Write, HandlersInOrder, TypeOK
    <2>2. new \in Row
      BY <2>1, ChangedRow DEF Row
    <2>3. Commit(h, new) /\ handler[h].at = "locked"
      BY <1>4 DEF Write
    <2> QED
      BY <2>2, <2>3, CommitImplements
  <1>5. ASSUME NEW h \in Handler, Lock(h) \/ Rollback(h) \/ BookIsFull(h)
        PROVE  UNCHANGED <<remembered, runs, reported>>
    BY <1>5 DEF Lock, Rollback, BookIsFull, idem, remembered, reported, Remembered
  <1>6. ASSUME NEW k \in Scope, Expire(k)
        PROVE  Promise!Next
    <2>1. record[k] \in Record
      BY <1>6 DEF Expire, Remembered, TypeOK
    <2>2. remembered' = [remembered EXCEPT ![k] = None]
      BY <1>6, <2>1 DEF Expire, remembered, Remembered, TypeOK, Record
    <2>3. reported' = [reported EXCEPT ![k] = {}]
      <3>1. \A j \in Scope : told'[j] = IF j = k THEN {} ELSE told[j]
        BY <1>6 DEF Expire, TypeOK
      <3>2. {t.got : t \in {}} = {}
        OBVIOUS
      <3> QED
        BY <3>1, <3>2 DEF reported
    <2> QED
      BY <1>6, <2>2, <2>3 DEF Expire, Promise!Forget, Promise!Next
  <1>7. CASE CleanUp
    <2>1. remembered' = remembered
      BY <1>7, SameRemembered DEF CleanUp, Remembered
    <2> QED
      BY <1>7, <2>1 DEF CleanUp, reported
  <1>8. CASE UNCHANGED vars
    BY <1>8 DEF vars, remembered, reported, Remembered
  <1> QED
    BY <1>1, <1>2, <1>3, <1>4, <1>5, <1>6, <1>7, <1>8 DEF Next

(* The idempotency records implement AnsweredOnce: one application until   *)
(* the key is forgotten, and its outcome for whoever asks again.           *)
THEOREM Refinement == Spec => KeepsPromise
  <1>1. Init => Promise!Init
    BY DEF Init, Promise!Init, remembered, reported, Remembered
  <1>2. IInv /\ [Next]_vars => [Promise!Next]_<<remembered, runs, reported>>
    BY StepImplements
  <1> QED
    BY <1>1, <1>2, Invariance, PTL DEF Spec, KeepsPromise, Promise!Spec, Promise!vars
=============================================================================
