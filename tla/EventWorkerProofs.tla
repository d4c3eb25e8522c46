------------------------- MODULE EventWorkerProofs -------------------------
(***************************************************************************)
(* Proofs about EventWorker for any events, workers, attempt budget, batch *)
(* size and bounds: the inductive invariant, and from it that the business *)
(* result of an event is committed at most once. Then the same about       *)
(* PendingConfirm, which decides the commands those events freeze.         *)
(***************************************************************************)
EXTENDS EventWorker, TLAPS

(* The queue starts in a state of the invariant.                           *)
LEMMA InitInv == Init => IInv
  <1> SUFFICES ASSUME Init PROVE IInv
    OBVIOUS
  <1>1. TypeOK
    BY EventWorkerAssumption DEF Init, TypeOK, Row, NoRow, Status, Sweep, Idle, Stage
  <1>2. Attempts /\ BatchedExists
    BY DEF Init, Attempts, BatchedExists, InFlight, Idle
  <1>3. ResultIsProven /\ LateCommitIsFenced /\ AtMostOnce
    BY DEF Init, ResultIsProven, LateCommitIsFenced, AtMostOnce, Idle
  <1> QED
    BY <1>1, <1>2, <1>3 DEF IInv

(* What the outcome of an attempt makes of the row: it loses its lease, and *)
(* what is known of its business result stays.                             *)
LEMMA SettledRow ==
    ASSUME TypeOK, NEW e \in Event, NEW st \in Status, NEW r \in {"none", "later", "due"},
           row' = [row EXCEPT ![e].status = st, ![e].owner = None, ![e].lease = "none",
                              ![e].retry = r]
    PROVE  /\ row' \in [Event -> Row]
           /\ row'[e].status = st /\ row'[e].owner = None
           /\ row'[e].attempts = row[e].attempts /\ row'[e].replays = row[e].replays
           /\ row'[e].committed = row[e].committed
           /\ \A f \in Event \ {e} : row'[f] = row[f]
  <1>1. row[e] \in Row /\ row \in [Event -> Row]
    BY DEF TypeOK
  <1>2. row' = [row EXCEPT ![e] = [row[e] EXCEPT !.status = st, !.owner = None,
                                                 !.lease = "none", !.retry = r]]
    BY <1>1 DEF Row
  <1>3. [row[e] EXCEPT !.status = st, !.owner = None, !.lease = "none", !.retry = r] \in Row
    BY <1>1 DEF Row
  <1> DEFINE new == [row[e] EXCEPT !.status = st, !.owner = None, !.lease = "none", !.retry = r]
  <1>4. /\ new.status = st /\ new.owner = None /\ new.attempts = row[e].attempts
        /\ new.replays = row[e].replays /\ new.committed = row[e].committed
    BY <1>1 DEF Row
  <1>5. row' = [row EXCEPT ![e] = new] /\ new \in Row
    BY <1>2, <1>3
  <1> HIDE DEF new
  <1>6. row' \in [Event -> Row]
    BY <1>1, <1>5
  <1>7. row'[e] = new /\ \A f \in Event \ {e} : row'[f] = row[f]
    BY <1>1, <1>5
  <1> QED
    BY <1>4, <1>6, <1>7

(* Every step of the queue keeps the invariant.                            *)
LEMMA NextInv == IInv /\ [Next]_vars => IInv'
  <1> SUFFICES ASSUME IInv, [Next]_vars PROVE IInv'
    OBVIOUS
  <1> USE EventWorkerAssumption DEF IInv, bounds, dbVars
  <1>1. ASSUME NEW e \in Event, Receive(e) PROVE IInv'
    <2>1. TypeOK'
      BY <1>1, SMTT(60) DEF TypeOK, Row, Status, Sweep, Stage, Attempts, Receive, NoRow
    <2>2. Attempts' /\ BatchedExists'
      BY <1>1 DEF TypeOK, Sweep, Stage, Attempts, BatchedExists, InFlight, Row, Receive, NoRow
    <2>3. ResultIsProven'
      BY <1>1 DEF TypeOK, Row, ResultIsProven, Attempts, BatchedExists, InFlight, Sweep, Receive, NoRow
    <2>4. LateCommitIsFenced' /\ AtMostOnce'
      BY <1>1 DEF TypeOK, Row, Sweep, Attempts, BatchedExists, InFlight, LateCommitIsFenced, ResultIsProven, AtMostOnce, Receive, NoRow
    <2> QED BY <2>1, <2>2, <2>3, <2>4
  <1>2. ASSUME NEW e \in Event, LeaseRunsOut(e) PROVE IInv'
    <2>1. TypeOK'
      BY <1>2, SMTT(60) DEF TypeOK, Row, Status, Sweep, Stage, Attempts, LeaseRunsOut
    <2>2. Attempts' /\ BatchedExists'
      BY <1>2 DEF TypeOK, Sweep, Stage, Attempts, BatchedExists, InFlight, Row, LeaseRunsOut
    <2>3. ResultIsProven'
      BY <1>2 DEF TypeOK, Row, ResultIsProven, Attempts, BatchedExists, InFlight, Sweep, LeaseRunsOut
    <2>4. LateCommitIsFenced' /\ AtMostOnce'
      BY <1>2 DEF TypeOK, Row, Sweep, Attempts, BatchedExists, InFlight, LateCommitIsFenced, ResultIsProven, AtMostOnce, LeaseRunsOut
    <2> QED BY <2>1, <2>2, <2>3, <2>4
  <1>3. ASSUME NEW e \in Event, RetryFallsDue(e) PROVE IInv'
    <2>1. TypeOK'
      <3>1. [row[e] EXCEPT !.retry = "due"] \in Row
        BY SMTT(60) DEF TypeOK, Row
      <3>2. row' = [row EXCEPT ![e] = [row[e] EXCEPT !.retry = "due"]]
        BY <1>3 DEF RetryFallsDue
      <3> QED
        BY <1>3, <3>1, <3>2 DEF TypeOK, RetryFallsDue
    <2>2. Attempts' /\ BatchedExists'
      BY <1>3 DEF TypeOK, Sweep, Stage, Attempts, BatchedExists, InFlight, Row, RetryFallsDue
    <2>3. ResultIsProven'
      BY <1>3 DEF TypeOK, Row, ResultIsProven, Attempts, BatchedExists, InFlight, Sweep, RetryFallsDue
    <2>4. LateCommitIsFenced' /\ AtMostOnce'
      BY <1>3 DEF TypeOK, Row, Sweep, Attempts, BatchedExists, InFlight, LateCommitIsFenced, ResultIsProven, AtMostOnce, RetryFallsDue
    <2> QED BY <2>1, <2>2, <2>3, <2>4
  <1>4. ASSUME NEW w \in Worker, NEW S \in SUBSET Event, Claim(w, S) PROVE IInv'
    <2> DEFINE claimed(e) == [row[e] EXCEPT !.status = "processing", !.owner = w,
                                            !.lease = "live", !.retry = "none",
                                            !.attempts = @ + 1]
    <2>1. \A e \in Event : claimed(e) \in Row /\ claimed(e).status = "processing"
                           /\ claimed(e).committed = row[e].committed
      <3> SUFFICES ASSUME NEW e \in Event
                   PROVE  /\ claimed(e) \in Row /\ claimed(e).status = "processing"
                          /\ claimed(e).committed = row[e].committed
        OBVIOUS
      <3>1. row[e] \in Row
        BY DEF TypeOK
      <3>2. row[e].attempts + 1 \in Nat
        BY <3>1 DEF Row
      <3> QED
        BY <3>1, <3>2 DEF Row, Status
    <2>2. row' = [e \in Event |-> IF e \in S THEN claimed(e) ELSE row[e]]
      BY <1>4 DEF Claim
    <2>3. \A e \in Event : /\ row'[e] \in Row
                           /\ row'[e].committed = row[e].committed
                           /\ row'[e].status = IF e \in S THEN "processing" ELSE row[e].status
      BY <2>1, <2>2 DEF TypeOK
    <2>4. \A e \in S : row[e].status \notin {"absent", "purged"}
      BY <1>4 DEF Claim, Claimable
    <2> HIDE DEF claimed
    <2>5. /\ worker' = [worker EXCEPT ![w].batch = S]
          /\ worker[w].batch = {} /\ worker[w].cur = None
          /\ UNCHANGED <<outbox, entries, writes, pendings, bounds>>
      BY <1>4 DEF Claim, Attempts, TypeOK, Sweep
    <2>6. TypeOK'
      <3>1. row' \in [Event -> Row]
        BY <2>2, <2>3
      <3>2. worker' \in [Worker -> Sweep]
        BY <2>5 DEF TypeOK, Sweep
      <3> QED
        BY <2>5, <3>1, <3>2 DEF TypeOK
    <2>7. \A v \in Worker : /\ worker'[v].cur = worker[v].cur
                            /\ worker'[v].stage = worker[v].stage
                            /\ worker'[v].batch = IF v = w THEN S ELSE worker[v].batch
      BY <2>5 DEF TypeOK, Sweep
    <2>8. Attempts' /\ BatchedExists'
      BY <2>3, <2>4, <2>5, <2>7 DEF Attempts, BatchedExists, InFlight
    <2>9. ResultIsProven' /\ LateCommitIsFenced' /\ AtMostOnce'
      <3>1. ResultIsProven'
        BY <2>3, <2>4, <2>5 DEF ResultIsProven
      <3>2. LateCommitIsFenced' /\ AtMostOnce'
        BY <2>5, <2>7 DEF LateCommitIsFenced, AtMostOnce
      <3> QED
        BY <3>1, <3>2
    <2> QED
      BY <2>6, <2>8, <2>9
  <1>5. ASSUME NEW w \in Worker, NEW e \in Event, Begin(w, e) PROVE IInv'
    <2>1. TypeOK'
      <3>1. worker' \in [Worker -> Sweep]
        <4> DEFINE st == IF AlreadyHandled(e) THEN "reply" ELSE "run"
        <4>1. st \in Stage
          BY DEF Stage
        <4>2. worker' = [worker EXCEPT ![w].cur = e, ![w].stage = st]
          BY <1>5 DEF Begin
        <4> HIDE DEF st
        <4> QED
          BY <4>1, <4>2, ZenonT(60) DEF TypeOK, Sweep
      <3> QED
        BY <1>5, <3>1 DEF TypeOK, Begin
    <2>2. Attempts' /\ BatchedExists'
      BY <1>5 DEF TypeOK, Sweep, Stage, Attempts, BatchedExists, InFlight, Row, Begin, AlreadyHandled
    <2>3. ResultIsProven'
      BY <1>5 DEF TypeOK, Row, ResultIsProven, Attempts, BatchedExists, InFlight, Sweep, Begin, AlreadyHandled
    <2>4. LateCommitIsFenced' /\ AtMostOnce'
      BY <1>5 DEF TypeOK, Row, Sweep, Attempts, BatchedExists, InFlight, LateCommitIsFenced, ResultIsProven, AtMostOnce, Begin, AlreadyHandled
    <2> QED BY <2>1, <2>2, <2>3, <2>4
  <1>6. ASSUME NEW w \in Worker, NEW o \in Outcome, Commit(w, o) PROVE IInv'
    <2> DEFINE e == worker[w].cur
    <2>0. e \in Event
      BY <1>6 DEF Commit, Attempts, TypeOK, Sweep
    <2>1. TypeOK'
      <3>1. row' \in [Event -> Row]
        <4> DEFINE proof == row[e].committed \/ ProvesCommit(o)
        <4>1. proof \in BOOLEAN
          BY Zenon
        <4>2. row' = [row EXCEPT ![e].committed = proof]
          BY <1>6 DEF Commit
        <4> HIDE DEF proof
        <4> QED
          BY <2>0, <4>1, <4>2 DEF TypeOK, Row
      <3>2. outbox' \in [Event -> SUBSET ReplyType]
        BY <1>6, <2>0 DEF TypeOK, Commit, Outcome, RepliesOf, ReplyType
      <3>3. worker' \in [Worker -> Sweep]
        BY <1>6 DEF TypeOK, Sweep, Stage, Commit, AtStage
      <3> QED
        BY <1>6, <2>0, <3>1, <3>2, <3>3 DEF TypeOK, Commit
    <2>2. Attempts' /\ BatchedExists'
      BY <1>6 DEF TypeOK, Sweep, Stage, Attempts, BatchedExists, InFlight, Row, Commit, AtStage, Conflict, ProvesCommit, Outcome, RepliesOf, LedgerWrite, ReplyType
    <2>3. ResultIsProven'
      <3>1. row'[e].committed <=> row[e].committed \/ o # "refuse"
        BY <1>6, <2>0, ZenonT(60) DEF TypeOK, Row, Commit, ProvesCommit
      <3>2. row'[e].status = row[e].status
        BY <1>6, <2>0 DEF TypeOK, Row, Commit
      <3>3. o = "refuse" => writes'[e] = writes[e] /\ pendings'[e] = pendings[e]
        BY <1>6, <2>0 DEF TypeOK, Commit, LedgerWrite
      <3>4. \A f \in Event \ {e} : row'[f] = row[f] /\ writes'[f] = writes[f]
                                   /\ pendings'[f] = pendings[f]
        BY <1>6, <2>0 DEF TypeOK, Commit
      <3> QED
        BY <2>0, <3>1, <3>2, <3>3, <3>4 DEF ResultIsProven
    <2>4. LateCommitIsFenced' /\ AtMostOnce'
      BY <1>6, SMTT(60) DEF TypeOK, Row, Sweep, Attempts, BatchedExists, InFlight, LateCommitIsFenced, ResultIsProven, AtMostOnce, Commit, AtStage, Conflict, ProvesCommit, Outcome, RepliesOf, LedgerWrite, ReplyType
    <2> QED BY <2>1, <2>2, <2>3, <2>4
  <1>7. ASSUME NEW w \in Worker, NEW o \in Outcome, CommitConflict(w, o) PROVE IInv'
    <2>1. TypeOK'
      BY <1>7 DEF TypeOK, Row, Status, Sweep, Stage, Attempts, CommitConflict, AtStage
    <2>2. Attempts' /\ BatchedExists'
      BY <1>7 DEF TypeOK, Sweep, Stage, Attempts, BatchedExists, InFlight, Row, CommitConflict, AtStage
    <2>3. ResultIsProven'
      BY <1>7 DEF TypeOK, Row, ResultIsProven, Attempts, BatchedExists, InFlight, Sweep, CommitConflict, AtStage
    <2>4. LateCommitIsFenced' /\ AtMostOnce'
      BY <1>7 DEF TypeOK, Row, Sweep, Attempts, BatchedExists, InFlight, LateCommitIsFenced, ResultIsProven, AtMostOnce, CommitConflict, AtStage
    <2> QED BY <2>1, <2>2, <2>3, <2>4
  <1>8. ASSUME NEW w \in Worker, SuppressDuplicateMedia(w) PROVE IInv'
    <2>1. TypeOK'
      <3>1. worker[w].cur \in Event
        BY <1>8 DEF SuppressDuplicateMedia, Attempts, TypeOK, Sweep
      <3>2. row' \in [Event -> Row]
        <4> DEFINE e == worker[w].cur
        <4>1. row' = [row EXCEPT ![e].committed = TRUE]
          BY <1>8 DEF SuppressDuplicateMedia
        <4> HIDE DEF e
        <4>2. e \in Event
          BY <3>1 DEF e
        <4>3. row \in [Event -> Row]
          BY DEF TypeOK
        <4> DEFINE new == [row[e] EXCEPT !.committed = TRUE]
        <4>4. new \in Row
          BY <4>2, <4>3 DEF Row
        <4>5. row' = [row EXCEPT ![e] = new]
          BY <4>1
        <4> HIDE DEF new
        <4> QED
          BY <4>2, <4>3, <4>4, <4>5
      <3>3. worker' \in [Worker -> Sweep]
        BY <1>8 DEF TypeOK, Sweep, Stage, SuppressDuplicateMedia, AtStage
      <3> QED
        BY <1>8, <3>2, <3>3 DEF TypeOK, SuppressDuplicateMedia
    <2>2. Attempts' /\ BatchedExists'
      BY <1>8 DEF TypeOK, Sweep, Stage, Attempts, BatchedExists, InFlight, Row, SuppressDuplicateMedia, AtStage
    <2>3. ResultIsProven'
      BY <1>8 DEF TypeOK, Row, ResultIsProven, Attempts, BatchedExists, InFlight, Sweep, SuppressDuplicateMedia, AtStage
    <2>4. LateCommitIsFenced' /\ AtMostOnce'
      BY <1>8 DEF TypeOK, Row, Sweep, Attempts, BatchedExists, InFlight, LateCommitIsFenced, ResultIsProven, AtMostOnce, SuppressDuplicateMedia, AtStage
    <2> QED BY <2>1, <2>2, <2>3, <2>4
  <1>9. ASSUME NEW w \in Worker, AnswerDirectly(w) PROVE IInv'
    <2>1. TypeOK'
      BY <1>9 DEF TypeOK, Row, Status, Sweep, Stage, Attempts, AnswerDirectly, AtStage
    <2>2. Attempts' /\ BatchedExists'
      BY <1>9 DEF TypeOK, Sweep, Stage, Attempts, BatchedExists, InFlight, Row, AnswerDirectly, AtStage
    <2>3. ResultIsProven'
      BY <1>9 DEF TypeOK, Row, ResultIsProven, Attempts, BatchedExists, InFlight, Sweep, AnswerDirectly, AtStage
    <2>4. LateCommitIsFenced' /\ AtMostOnce'
      BY <1>9 DEF TypeOK, Row, Sweep, Attempts, BatchedExists, InFlight, LateCommitIsFenced, ResultIsProven, AtMostOnce, AnswerDirectly, AtStage
    <2> QED BY <2>1, <2>2, <2>3, <2>4
  <1>10. ASSUME NEW w \in Worker, NEW k \in {"transient", "permanent"}, Raise(w, k) PROVE IInv'
    <2>1. TypeOK'
      BY <1>10 DEF TypeOK, Row, Status, Sweep, Stage, Attempts, Raise, AtStage
    <2>2. Attempts' /\ BatchedExists'
      BY <1>10 DEF TypeOK, Sweep, Stage, Attempts, BatchedExists, InFlight, Row, Raise, AtStage
    <2>3. ResultIsProven'
      BY <1>10 DEF TypeOK, Row, ResultIsProven, Attempts, BatchedExists, InFlight, Sweep, Raise, AtStage
    <2>4. LateCommitIsFenced' /\ AtMostOnce'
      BY <1>10 DEF TypeOK, Row, Sweep, Attempts, BatchedExists, InFlight, LateCommitIsFenced, ResultIsProven, AtMostOnce, Raise, AtStage
    <2> QED BY <2>1, <2>2, <2>3, <2>4
  <1>11. ASSUME NEW w \in Worker, Complete(w) PROVE IInv'
    <2>1. TypeOK'
      BY <1>11, SMTT(60) DEF TypeOK, Row, Status, Sweep, Stage, Attempts, Complete, NextItem, Holds
    <2>2. Attempts' /\ BatchedExists'
      BY <1>11, SMTT(60) DEF TypeOK, Sweep, Stage, Attempts, BatchedExists, InFlight, Row, Complete, NextItem, Holds
    <2>3. ResultIsProven'
      BY <1>11, SMTT(60) DEF TypeOK, Row, ResultIsProven, Attempts, BatchedExists, InFlight, Sweep, Complete, NextItem, Holds
    <2>4. LateCommitIsFenced' /\ AtMostOnce'
      BY <1>11, SMTT(60) DEF TypeOK, Row, Sweep, Attempts, BatchedExists, InFlight, LateCommitIsFenced, ResultIsProven, AtMostOnce, Complete, NextItem, Holds
    <2> QED BY <2>1, <2>2, <2>3, <2>4
  <1>12. ASSUME NEW w \in Worker, RecordFailure(w) PROVE IInv'
    <2> DEFINE e == worker[w].cur
    <2>1. TypeOK'
      <3>1. row' \in [Event -> Row]
        <4>1. CASE ~Holds(w, e)
          BY <1>12, <4>1 DEF RecordFailure, TypeOK
        <4>2. CASE Holds(w, e)
          <5> DEFINE st == FailureStatus(row[e].attempts, worker[w].stage = "permanent")
                     rt == IF st = "failed" THEN "later" ELSE "none"
          <5>1. e \in Event /\ st \in Status /\ rt \in {"none", "later", "due"}
            BY <1>12 DEF RecordFailure, Attempts, TypeOK, Sweep, FailureStatus, Status
          <5>2. row' = [row EXCEPT ![e].status = st, ![e].owner = None, ![e].lease = "none",
                                   ![e].retry = rt]
            BY <1>12, <4>2 DEF RecordFailure
          <5> HIDE DEF st, rt
          <5> QED
            BY <5>1, <5>2, SettledRow
        <4> QED
          BY <4>1, <4>2
      <3>2. worker' \in [Worker -> Sweep]
        BY <1>12 DEF RecordFailure, NextItem, TypeOK, Sweep, Stage
      <3> QED
        BY <1>12, <3>1, <3>2 DEF RecordFailure, TypeOK
    <2>2. \A f \in Event :
             /\ row'[f].committed = row[f].committed
             /\ row'[f].status \in {"absent", "purged"} <=> row[f].status \in {"absent", "purged"}
             /\ row[f].status = "purged" => row'[f].status = "purged"
      <3>1. CASE ~Holds(w, e)
        BY <1>12, <3>1 DEF RecordFailure
      <3>2. CASE Holds(w, e)
        <4> DEFINE st == FailureStatus(row[e].attempts, worker[w].stage = "permanent")
                   rt == IF st = "failed" THEN "later" ELSE "none"
        <4>1. /\ e \in Event /\ st \in Status /\ st \notin {"absent", "purged"}
              /\ rt \in {"none", "later", "due"} /\ row[e].status = "processing"
          BY <1>12, <3>2 DEF RecordFailure, Attempts, TypeOK, Sweep, FailureStatus, Status, Holds
        <4>2. row' = [row EXCEPT ![e].status = st, ![e].owner = None, ![e].lease = "none",
                                 ![e].retry = rt]
          BY <1>12, <3>2 DEF RecordFailure
        <4> HIDE DEF st, rt, e
        <4>3. /\ row'[e].status = st /\ row'[e].committed = row[e].committed
              /\ \A f \in Event \ {e} : row'[f] = row[f]
          BY <4>1, <4>2, SettledRow
        <4> QED
          BY <4>1, <4>3
      <3> QED
        BY <3>1, <3>2
    <2>3. Attempts' /\ BatchedExists'
      <3>1. Attempts'
        BY <1>12 DEF RecordFailure, NextItem, Attempts, TypeOK, Sweep
      <3>2. \A f \in Event : InFlight(f)' => InFlight(f)
        BY <1>12 DEF RecordFailure, NextItem, InFlight, TypeOK, Sweep
      <3> QED
        BY <2>2, <3>1, <3>2 DEF BatchedExists
    <2>4. ResultIsProven'
      <3>1. writes' = writes /\ pendings' = pendings
        BY <1>12 DEF RecordFailure
      <3> QED
        BY <2>2, <3>1 DEF ResultIsProven
    <2>5. LateCommitIsFenced' /\ AtMostOnce'
      BY <1>12 DEF RecordFailure, NextItem, TypeOK, Sweep, LateCommitIsFenced, AtMostOnce
    <2> QED BY <2>1, <2>3, <2>4, <2>5
  <1>13. ASSUME NEW w \in Worker, Abandon(w) PROVE IInv'
    <2>1. TypeOK'
      BY <1>13 DEF TypeOK, Row, Status, Sweep, Stage, Attempts, Abandon, Idle
    <2>2. Attempts' /\ BatchedExists'
      BY <1>13 DEF TypeOK, Sweep, Stage, Attempts, BatchedExists, InFlight, Row, Abandon, Idle
    <2>3. ResultIsProven'
      BY <1>13 DEF TypeOK, Row, ResultIsProven, Attempts, BatchedExists, InFlight, Sweep, Abandon, Idle
    <2>4. LateCommitIsFenced' /\ AtMostOnce'
      BY <1>13 DEF TypeOK, Row, Sweep, Attempts, BatchedExists, InFlight, LateCommitIsFenced, ResultIsProven, AtMostOnce, Abandon, Idle
    <2> QED BY <2>1, <2>2, <2>3, <2>4
  <1>14. ASSUME NEW e \in Event, Replay(e) PROVE IInv'
    <2>1. TypeOK'
      BY <1>14 DEF TypeOK, Row, Status, Sweep, Stage, Attempts, Replay, Replayable
    <2>2. Attempts' /\ BatchedExists'
      BY <1>14 DEF TypeOK, Sweep, Stage, Attempts, BatchedExists, InFlight, Row, Replay, Replayable
    <2>3. ResultIsProven'
      BY <1>14 DEF TypeOK, Row, ResultIsProven, Attempts, BatchedExists, InFlight, Sweep, Replay, Replayable
    <2>4. LateCommitIsFenced' /\ AtMostOnce'
      BY <1>14 DEF TypeOK, Row, Sweep, Attempts, BatchedExists, InFlight, LateCommitIsFenced, ResultIsProven, AtMostOnce, Replay, Replayable
    <2> QED BY <2>1, <2>2, <2>3, <2>4
  <1>15. ASSUME NEW e \in Event, NEW t \in ReplyType, PurgeReply(e, t) PROVE IInv'
    <2>1. TypeOK'
      BY <1>15 DEF TypeOK, Row, Status, Sweep, Stage, Attempts, PurgeReply
    <2>2. Attempts' /\ BatchedExists'
      BY <1>15 DEF TypeOK, Sweep, Stage, Attempts, BatchedExists, InFlight, Row, PurgeReply
    <2>3. ResultIsProven'
      BY <1>15 DEF TypeOK, Row, ResultIsProven, Attempts, BatchedExists, InFlight, Sweep, PurgeReply
    <2>4. LateCommitIsFenced' /\ AtMostOnce'
      BY <1>15 DEF TypeOK, Row, Sweep, Attempts, BatchedExists, InFlight, LateCommitIsFenced, ResultIsProven, AtMostOnce, PurgeReply
    <2> QED BY <2>1, <2>2, <2>3, <2>4
  <1>16. ASSUME NEW e \in Event, PurgeEvent(e) PROVE IInv'
    <2>1. TypeOK'
      BY <1>16 DEF TypeOK, Row, Status, Sweep, Stage, Attempts, PurgeEvent, NoRow
    <2>2. Attempts' /\ BatchedExists'
      BY <1>16 DEF TypeOK, Sweep, Stage, Attempts, BatchedExists, InFlight, Row, PurgeEvent, NoRow
    <2>3. ResultIsProven'
      BY <1>16 DEF TypeOK, Row, ResultIsProven, Attempts, BatchedExists, InFlight, Sweep, PurgeEvent, NoRow
    <2>4. LateCommitIsFenced' /\ AtMostOnce'
      BY <1>16 DEF TypeOK, Row, Sweep, Attempts, BatchedExists, InFlight, LateCommitIsFenced, ResultIsProven, AtMostOnce, PurgeEvent, NoRow
    <2> QED BY <2>1, <2>2, <2>3, <2>4
  <1>17. CASE UNCHANGED vars
    BY <1>17 DEF vars, TypeOK, Attempts, BatchedExists, InFlight, ResultIsProven,
                 LateCommitIsFenced, AtMostOnce
  <1> QED
    BY <1>1, <1>2, <1>3, <1>4, <1>5, <1>6, <1>7, <1>8, <1>9, <1>10, <1>11, <1>12, <1>13, <1>14, <1>15, <1>16, <1>17
       DEF Next, WorkerStep, AttemptEnds

-----------------------------------------------------------------------------
(* The invariant holds in every reachable state.                           *)
THEOREM Invariance == Spec => []IInv
  BY InitInv, NextInv, PTL DEF Spec

(* Whatever the workers, crashes, takeovers, retries, replays and purges:  *)
(* the ledger write of an event, and its pending confirmation, are each    *)
(* committed at most once (MessageProcessor._execute_with_outbox and       *)
(* _create_pending_with_preview_outbox under EventWorker).                 *)
THEOREM AtMostOnceHolds == Spec => []AtMostOnce
  <1>1. IInv => AtMostOnce
    BY DEF IInv
  <1> QED
    BY <1>1, Invariance, PTL

(* Every committed result is proven by business_committed_at for as long   *)
(* as its event row is retained.                                           *)
THEOREM ResultIsProvenHolds == Spec => []ResultIsProven
  <1>1. IInv => ResultIsProven
    BY DEF IInv
  <1> QED
    BY <1>1, Invariance, PTL

(* The state keeps its types.                                              *)
THEOREM TypeCorrect == Spec => []TypeOK
  <1>1. IInv => TypeOK
    BY DEF IInv
  <1> QED
    BY <1>1, Invariance, PTL

(* An operator replay never requeues an event with a committed result      *)
(* (EventReplayService._execute), purged reply intents or not.             *)
THEOREM ReplayNeverRepeatsHolds == Spec => ReplayNeverRepeats
  <1> DEFINE A == \A e \in Event : row'[e].replays > row[e].replays
                                     => writes[e] = 0 /\ pendings[e] = 0
  <1>1. IInv /\ [Next]_vars => [A]_vars
    <2> SUFFICES ASSUME IInv, Next, NEW e \in Event, row'[e].replays > row[e].replays
                 PROVE  writes[e] = 0 /\ pendings[e] = 0
      BY DEF A
    <2>1. ASSUME NEW f \in Event, Replay(f) PROVE writes[e] = 0 /\ pendings[e] = 0
      BY <2>1 DEF Replay, Replayable, IInv, TypeOK, Row, ResultIsProven
    <2>2. ASSUME NEW f \in Event,
                 \/ Receive(f) \/ LeaseRunsOut(f) \/ RetryFallsDue(f) \/ PurgeEvent(f)
                 \/ \E t \in ReplyType : PurgeReply(f, t)
          PROVE  FALSE
      <3>1. ASSUME Receive(f) \/ LeaseRunsOut(f) \/ RetryFallsDue(f)
            PROVE  row'[e].replays = row[e].replays
        BY <3>1 DEF Receive, LeaseRunsOut, RetryFallsDue, IInv, TypeOK, Row
      <3>2. ASSUME PurgeEvent(f)
            PROVE  row'[e].replays \in {0, row[e].replays}
        BY <3>2 DEF PurgeEvent, NoRow, IInv, TypeOK, Row
      <3>3. ASSUME NEW t \in ReplyType, PurgeReply(f, t)
            PROVE  row'[e].replays = row[e].replays
        BY <3>3 DEF PurgeReply
      <3> QED
        BY <2>2, <3>1, <3>2, <3>3 DEF IInv, TypeOK, Row
    <2>3. ASSUME NEW w \in Worker, WorkerStep(w) \/ Abandon(w) PROVE FALSE
      <3>1. row'[e].replays = row[e].replays
        <4>1. ASSUME NEW S \in SUBSET Event, Claim(w, S)
              PROVE  row'[e].replays = row[e].replays
          BY <4>1 DEF Claim, IInv, TypeOK, Row
        <4>2. ASSUME Complete(w) \/ RecordFailure(w)
              PROVE  row'[e].replays = row[e].replays
          BY <4>2, SMTT(60) DEF Complete, RecordFailure, IInv, TypeOK, Row
        <4>3. ASSUME NEW o \in Outcome, Commit(w, o)
              PROVE  row'[e].replays = row[e].replays
          BY <4>3 DEF Commit, IInv, TypeOK, Row
        <4>4. ASSUME SuppressDuplicateMedia(w)
              PROVE  row'[e].replays = row[e].replays
          BY <4>4 DEF SuppressDuplicateMedia, IInv, TypeOK, Row
        <4>5. ASSUME \/ \E f \in Event : Begin(w, f)
                     \/ \E o \in Outcome : CommitConflict(w, o)
                     \/ \E k \in {"transient", "permanent"} : Raise(w, k)
                     \/ AnswerDirectly(w) \/ Abandon(w)
              PROVE  row'[e].replays = row[e].replays
          BY <4>5 DEF Begin, CommitConflict, Raise, AnswerDirectly, Abandon, dbVars
        <4> QED
          BY <2>3, <4>1, <4>2, <4>3, <4>4, <4>5 DEF WorkerStep, AttemptEnds
      <3> QED
        BY <3>1 DEF IInv, TypeOK, Row
    <2> QED
      BY <2>1, <2>2, <2>3 DEF Next
  <1> QED
    BY <1>1, Invariance, PTL DEF Spec, ReplayNeverRepeats

(* Only the holder of the lease, at the end of its own attempt, records    *)
(* the outcome of an event (the WHERE clauses of complete and              *)
(* record_failure, under takeovers and attempts that end late).            *)
THEOREM OutcomeByHolderHolds == Spec => OutcomeByHolder
  <1> DEFINE A ==
    \A e \in Event :
          row[e].status = "processing" /\ row'[e].status \in {"succeeded", "failed", "dead"}
            => LET w == row[e].owner IN
               /\ worker[w].cur = e /\ worker'[w].cur = None
               /\ row'[e].status = "succeeded" <=> worker[w].stage = "reply"
  <1>1. IInv /\ [Next]_vars => [A]_vars
    <2> DEFINE ByHolder(e) == LET w == row[e].owner IN
                              /\ worker[w].cur = e /\ worker'[w].cur = None
                              /\ row'[e].status = "succeeded" <=> worker[w].stage = "reply"
    <2> SUFFICES ASSUME IInv, Next, NEW e \in Event, row[e].status = "processing",
                        row'[e].status \in {"succeeded", "failed", "dead"}
                 PROVE  ByHolder(e)
      BY Zenon
    <2>0. row[e] \in Row /\ row'[e].status # row[e].status /\ row'[e] # row[e]
      BY DEF IInv, TypeOK
    <2>1. ASSUME NEW w \in Worker, NextItem(w) PROVE worker'[w].cur = None
      BY <2>1 DEF NextItem, IInv, TypeOK, Sweep
    <2>2. ASSUME NEW w \in Worker, Complete(w) PROVE ByHolder(e)
      <3>1. Holds(w, worker[w].cur) /\ worker[w].cur = e
        BY <2>0, <2>2 DEF Complete, IInv, TypeOK
      <3>2. row[e].owner = w /\ worker[w].stage = "reply"
        BY <2>2, <3>1 DEF Holds, Complete
      <3>3. row'[e].status = "succeeded"
        BY <2>2, <3>1 DEF Complete, IInv, TypeOK, Row
      <3>4. worker'[w].cur = None
        BY <2>1, <2>2 DEF Complete
      <3> QED
        BY <3>1, <3>2, <3>3, <3>4
    <2>3. ASSUME NEW w \in Worker, RecordFailure(w) PROVE ByHolder(e)
      <3>1. Holds(w, worker[w].cur) /\ worker[w].cur = e
        BY <2>0, <2>3 DEF RecordFailure, IInv, TypeOK
      <3>2. row[e].owner = w /\ worker[w].stage \in {"transient", "permanent"}
        BY <2>3, <3>1 DEF Holds, RecordFailure
      <3>3. row'[e].status # "succeeded"
        <4> DEFINE st == FailureStatus(row[e].attempts, worker[w].stage = "permanent")
                   rt == IF st = "failed" THEN "later" ELSE "none"
        <4>1. row' = [row EXCEPT ![e].status = st, ![e].owner = None, ![e].lease = "none",
                                 ![e].retry = rt]
          BY <2>3, <3>1 DEF RecordFailure
        <4>2. st # "succeeded"
          BY DEF FailureStatus
        <4> HIDE DEF st, rt
        <4> QED
          BY <4>1, <4>2, SMTT(60) DEF IInv, TypeOK, Row
      <3>4. worker'[w].cur = None
        BY <2>1, <2>3 DEF RecordFailure
      <3> QED
        BY <3>1, <3>2, <3>3, <3>4
    <2>4. ASSUME NEW w \in Worker, WorkerStep(w) \/ Abandon(w),
                 ~Complete(w), ~RecordFailure(w)
          PROVE  FALSE
      <3>1. ASSUME NEW S \in SUBSET Event, Claim(w, S) PROVE FALSE
        BY <2>0, <3>1 DEF Claim, IInv, TypeOK, Row
      <3>2. ASSUME NEW o \in Outcome, Commit(w, o) PROVE row'[e].status = row[e].status
        BY <3>2 DEF Commit, IInv, TypeOK, Row
      <3>3. ASSUME SuppressDuplicateMedia(w) PROVE row'[e].status = row[e].status
        BY <3>3 DEF SuppressDuplicateMedia, IInv, TypeOK, Row
      <3>4. ASSUME \/ \E f \in Event : Begin(w, f)
                   \/ \E o \in Outcome : CommitConflict(w, o)
                   \/ \E k \in {"transient", "permanent"} : Raise(w, k)
                   \/ AnswerDirectly(w) \/ Abandon(w)
            PROVE  row' = row
        BY <3>4 DEF Begin, CommitConflict, Raise, AnswerDirectly, Abandon, dbVars
      <3> QED
        BY <2>0, <2>4, <3>1, <3>2, <3>3, <3>4 DEF WorkerStep, AttemptEnds
    <2>5. ASSUME NEW f \in Event,
                 \/ Receive(f) \/ LeaseRunsOut(f) \/ RetryFallsDue(f) \/ Replay(f)
                 \/ PurgeEvent(f) \/ \E t \in ReplyType : PurgeReply(f, t)
          PROVE  FALSE
      <3>1. CASE Receive(f)
        BY <2>0, <3>1 DEF Receive, IInv, TypeOK, Row
      <3>2. CASE LeaseRunsOut(f) \/ RetryFallsDue(f)
        BY <2>0, <3>2 DEF LeaseRunsOut, RetryFallsDue, IInv, TypeOK, Row
      <3>3. CASE Replay(f)
        BY <2>0, <3>3 DEF Replay, IInv, TypeOK, Row
      <3>4. CASE PurgeEvent(f)
        BY <2>0, <3>4 DEF PurgeEvent, NoRow, IInv, TypeOK, Row
      <3>5. CASE \E t \in ReplyType : PurgeReply(f, t)
        BY <2>0, <3>5 DEF PurgeReply
      <3> QED
        BY <2>5, <3>1, <3>2, <3>3, <3>4, <3>5
    <2> QED
      BY <2>2, <2>3, <2>4, <2>5 DEF Next
  <1> QED
    BY <1>1, Invariance, PTL DEF Spec, OutcomeByHolder

-----------------------------------------------------------------------------
(* Refinement. One step of the queue is a step of EventLifecycle or leaves *)
(* the life of every event and its count of writes alone.                  *)
LEMMA LifeValues ==
    /\ \A e \in Event : life[e] = LifeOf[row[e].status]
    /\ LifeOf["absent"] = "unseen" /\ LifeOf["received"] = "waiting"
    /\ LifeOf["failed"] = "waiting" /\ LifeOf["processing"] = "attempted"
    /\ LifeOf["succeeded"] = "settled" /\ LifeOf["dead"] = "abandoned"
    /\ LifeOf["purged"] = "forgotten"
  BY DEF life, LifeOf

(* One row's new status moves that event's life and no other.              *)
LEMMA OneLife ==
    ASSUME TypeOK, NEW f \in Event, NEW to \in Status,
           row' \in [Event -> Row], row'[f].status = to,
           \A e \in Event \ {f} : row'[e] = row[e]
    PROVE  life' = [life EXCEPT ![f] = LifeOf[to]]
  <1>1. \A e \in Event \ {f} : row'[e].status = row[e].status
    OBVIOUS
  <1> QED
    BY <1>1 DEF life

(* Without a new status no life moves.                                     *)
LEMMA SameLife ==
    ASSUME \A e \in Event : row'[e].status = row[e].status
    PROVE  life' = life
  BY DEF life

(* Every step of the queue is one of its lifecycle, or not seen there.     *)
LEMMA StepImplements == IInv /\ IInv' /\ [Next]_vars => [Lifecycle!Next]_<<life, writes>>
  <1> SUFFICES ASSUME IInv, IInv', Next PROVE Lifecycle!Next \/ UNCHANGED <<life, writes>>
    BY DEF vars, life
  <1> USE DEF IInv, bounds, dbVars
  <1>0. TypeOK /\ row' \in [Event -> Row]
    BY DEF TypeOK
  <1>1. ASSUME NEW e \in Event, Receive(e) PROVE Lifecycle!Arrive(e)
    <2>1. row'[e].status = "received" /\ row[e].status = "absent" /\ writes' = writes
      BY <1>0, <1>1 DEF Receive, TypeOK, Row
    <2>2. \A f \in Event \ {e} : row'[f] = row[f]
      BY <1>0, <1>1 DEF Receive, TypeOK
    <2>3. life' = [life EXCEPT ![e] = LifeOf["received"]]
      BY <1>0, <2>1, <2>2, OneLife DEF Status
    <2> QED
      BY <2>1, <2>3 DEF Lifecycle!Arrive, Lifecycle!Move, life, LifeOf
  <1>2. ASSUME NEW w \in Worker, NEW S \in SUBSET Event, Claim(w, S)
        PROVE  Lifecycle!Take(S)
    <2>1. \A e \in Event : row'[e].status = IF e \in S THEN "processing" ELSE row[e].status
      <3>1. row' = [e \in Event |->
                      IF e \in S
                      THEN [row[e] EXCEPT !.status = "processing", !.owner = w,
                              !.lease = "live", !.retry = "none", !.attempts = @ + 1]
                      ELSE row[e]]
        BY <1>2 DEF Claim
      <3> SUFFICES ASSUME NEW e \in Event
                   PROVE  row'[e].status = IF e \in S THEN "processing" ELSE row[e].status
        OBVIOUS
      <3>2. row[e] \in Row
        BY DEF TypeOK
      <3> QED
        BY <3>1, <3>2 DEF Row
    <2>2. life' = [e \in Event |-> IF e \in S THEN "attempted" ELSE life[e]]
      BY <2>1 DEF life, LifeOf
    <2>3. \A e \in S : life[e] \in {"waiting", "attempted"}
      BY <1>2, LifeValues DEF Claim, Claimable
    <2> QED
      BY <1>2, <2>2, <2>3 DEF Claim, Lifecycle!Take
  <1>3. ASSUME NEW w \in Worker, NEW o \in Outcome, Commit(w, o)
        PROVE  (\E e \in Event : Lifecycle!Apply(e)) \/ UNCHANGED <<life, writes>>
    <2> DEFINE e == worker[w].cur
    <2>1. e \in Event /\ e \in worker[w].batch
      BY <1>3 DEF Commit, Attempts, TypeOK, Sweep
    <2>2. \A f \in Event : row'[f].status = row[f].status
      BY <1>3, SMTT(60) DEF Commit, TypeOK, Row
    <2>3. life' = life
      BY <2>2, SameLife
    <2>4. CASE o \notin LedgerWrite
      BY <1>3, <2>3, <2>4 DEF Commit, TypeOK
    <2>5. CASE o \in LedgerWrite
      <3>1. RepliesOf[o] = {"text"}
        BY <2>5 DEF LedgerWrite, RepliesOf
      <3>2. "text" \notin outbox[e]
        BY <1>3, <3>1 DEF Commit, Conflict
      <3>3. writes[e] = 0
        BY <1>3, <2>1, <3>2 DEF Commit, LateCommitIsFenced, TypeOK
      <3>4. writes' = [writes EXCEPT ![e] = 1]
        BY <1>3, <2>5, <3>3 DEF Commit, TypeOK
      <3>5. life[e] \notin {"unseen", "forgotten"}
        BY <2>1 DEF BatchedExists, InFlight, life, LifeOf, TypeOK, Row, Status
      <3> QED
        BY <2>1, <2>3, <3>3, <3>4, <3>5 DEF Lifecycle!Apply
    <2> QED
      BY <2>4, <2>5
  <1>4. ASSUME NEW w \in Worker, Complete(w)
        PROVE  (\E e \in Event : Lifecycle!Settle(e)) \/ UNCHANGED <<life, writes>>
    <2> DEFINE e == worker[w].cur
    <2>1. e \in Event
      BY <1>4 DEF Complete, Attempts, TypeOK, Sweep
    <2>2. CASE ~Holds(w, e)
      BY <1>4, <2>2 DEF Complete, life
    <2>3. CASE Holds(w, e)
      <3>1. row'[e].status = "succeeded" /\ \A f \in Event \ {e} : row'[f] = row[f]
        <4>1. row' = [row EXCEPT ![e].status = "succeeded", ![e].owner = None,
                                 ![e].lease = "none", ![e].retry = "none"]
          BY <1>4, <2>3 DEF Complete
        <4> QED
          BY <2>1, <4>1, SettledRow DEF Status
      <3>2. life' = [life EXCEPT ![e] = LifeOf["succeeded"]]
        BY <1>0, <2>1, <3>1, OneLife DEF Status
      <3> QED
        BY <1>4, <2>1, <2>3, <3>2, LifeValues
           DEF Holds, Complete, Lifecycle!Settle, Lifecycle!Move
    <2> QED
      BY <2>2, <2>3
  <1>5. ASSUME NEW w \in Worker, RecordFailure(w)
        PROVE  \/ \E e \in Event : Lifecycle!Retry(e) \/ Lifecycle!Abandon(e)
               \/ UNCHANGED <<life, writes>>
    <2> DEFINE e == worker[w].cur
               st == FailureStatus(row[e].attempts, worker[w].stage = "permanent")
    <2>1. e \in Event /\ st \in {"failed", "dead"}
      BY <1>5 DEF RecordFailure, Attempts, TypeOK, Sweep, FailureStatus
    <2>2. CASE ~Holds(w, e)
      BY <1>5, <2>2 DEF RecordFailure, life
    <2>3. CASE Holds(w, e)
      <3>1. row'[e].status = st /\ \A f \in Event \ {e} : row'[f] = row[f]
        <4> HIDE DEF st
        <4>1. \E r \in {"later", "none"} :
                row' = [row EXCEPT ![e].status = st, ![e].owner = None, ![e].lease = "none",
                                   ![e].retry = r]
          BY <1>5, <2>3 DEF RecordFailure, st
        <4> QED
          BY <2>1, <4>1, SettledRow DEF Status
      <3>2. life' = [life EXCEPT ![e] = LifeOf[st]]
        BY <1>0, <2>1, <3>1, OneLife DEF Status
      <3> HIDE DEF st
      <3> QED
        BY <1>5, <2>1, <2>3, <3>2, LifeValues
           DEF Holds, RecordFailure, Lifecycle!Retry, Lifecycle!Abandon, Lifecycle!Move
    <2> QED
      BY <2>2, <2>3
  <1>6. ASSUME NEW e \in Event, Replay(e)
        PROVE  Lifecycle!Requeue(e) \/ UNCHANGED <<life, writes>>
    <2>1. row'[e].status = "received" /\ (\A f \in Event \ {e} : row'[f] = row[f])
          /\ writes' = writes
      BY <1>6 DEF Replay, TypeOK, Row
    <2>2. life' = [life EXCEPT ![e] = LifeOf["received"]]
      BY <1>0, <2>1, OneLife DEF Status
    <2>3. writes[e] = 0
      BY <1>6, SMTT(60) DEF Replay, Replayable, ResultIsProven, TypeOK
    <2> QED
      <3>1. CASE row[e].status = "failed"
        <4>1. life' = life
          BY <1>0, <2>2, <3>1, LifeValues, ZenonT(60) DEF life
        <4> QED
          BY <2>1, <4>1
      <3>2. CASE row[e].status \in {"dead", "processing"}
        BY <2>1, <2>2, <2>3, <3>2, LifeValues DEF Lifecycle!Requeue, Lifecycle!Move
      <3> QED
        BY <1>6, <3>1, <3>2 DEF Replay, Replayable
  <1>7. ASSUME NEW e \in Event, PurgeEvent(e) PROVE Lifecycle!Forget(e)
    <2>1. row'[e].status = "purged" /\ (\A f \in Event \ {e} : row'[f] = row[f])
          /\ writes' = writes
      BY <1>7 DEF PurgeEvent, NoRow, TypeOK
    <2>2. life' = [life EXCEPT ![e] = LifeOf["purged"]]
      BY <1>0, <2>1, OneLife DEF Status
    <2> QED
      BY <1>7, <2>1, <2>2 DEF PurgeEvent, Lifecycle!Forget, Lifecycle!Move, life, LifeOf
  <1>8. ASSUME \/ \E e \in Event : LeaseRunsOut(e) \/ RetryFallsDue(e)
               \/ \E w \in Worker : SuppressDuplicateMedia(w)
        PROVE  UNCHANGED <<life, writes>>
    <2>1. (\A e \in Event : row'[e].status = row[e].status) /\ writes' = writes
      <3>1. ASSUME NEW e \in Event, LeaseRunsOut(e) \/ RetryFallsDue(e)
            PROVE  (\A f \in Event : row'[f].status = row[f].status) /\ writes' = writes
        BY <3>1 DEF LeaseRunsOut, RetryFallsDue, TypeOK, Row
      <3>2. ASSUME NEW w \in Worker, SuppressDuplicateMedia(w)
            PROVE  (\A f \in Event : row'[f].status = row[f].status) /\ writes' = writes
        BY <3>2 DEF SuppressDuplicateMedia, TypeOK, Row
      <3> QED
        BY <1>8, <3>1, <3>2
    <2> QED
      BY <2>1, SameLife
  <1>9. ASSUME NEW w \in Worker,
               \/ \E e \in Event : Begin(w, e)
               \/ \E o \in Outcome : CommitConflict(w, o)
               \/ \E k \in {"transient", "permanent"} : Raise(w, k)
               \/ AnswerDirectly(w) \/ Abandon(w)
        PROVE  UNCHANGED <<life, writes>>
    BY <1>9 DEF Begin, CommitConflict, Raise, AnswerDirectly, Abandon, life
  <1>12. ASSUME NEW e \in Event, NEW t \in ReplyType, PurgeReply(e, t)
         PROVE  UNCHANGED <<life, writes>>
    BY <1>12 DEF PurgeReply, life
  <1>10. ASSUME NEW w \in Worker, WorkerStep(w) \/ Abandon(w)
         PROVE  Lifecycle!Next \/ UNCHANGED <<life, writes>>
    <2>1. ASSUME NEW o \in Outcome, Commit(w, o)
          PROVE  Lifecycle!Next \/ UNCHANGED <<life, writes>>
      BY <1>3, <2>1 DEF Lifecycle!Next
    <2>2. ASSUME Complete(w) PROVE Lifecycle!Next \/ UNCHANGED <<life, writes>>
      BY <1>4, <2>2 DEF Lifecycle!Next
    <2>3. ASSUME RecordFailure(w) PROVE Lifecycle!Next \/ UNCHANGED <<life, writes>>
      BY <1>5, <2>3 DEF Lifecycle!Next
    <2>4. ASSUME NEW S \in SUBSET Event, Claim(w, S) PROVE Lifecycle!Next
      BY <1>2, <2>4 DEF Lifecycle!Next
    <2>5. ASSUME SuppressDuplicateMedia(w) PROVE UNCHANGED <<life, writes>>
      BY <1>8, <2>5
    <2>6. ASSUME \/ \E e \in Event : Begin(w, e)
                 \/ \E o \in Outcome : CommitConflict(w, o)
                 \/ \E k \in {"transient", "permanent"} : Raise(w, k)
                 \/ AnswerDirectly(w) \/ Abandon(w)
          PROVE  UNCHANGED <<life, writes>>
      BY <1>9, <2>6
    <2> QED
      BY <1>10, <2>1, <2>2, <2>3, <2>4, <2>5, <2>6 DEF WorkerStep, AttemptEnds
  <1>11. ASSUME NEW e \in Event,
                \/ Receive(e) \/ LeaseRunsOut(e) \/ RetryFallsDue(e)
                \/ Replay(e) \/ PurgeEvent(e) \/ \E t \in ReplyType : PurgeReply(e, t)
         PROVE  Lifecycle!Next \/ UNCHANGED <<life, writes>>
    BY <1>1, <1>6, <1>7, <1>8, <1>12, <1>11 DEF Lifecycle!Next
  <1> QED
    BY <1>10, <1>11 DEF Next

(* The queue implements the life of an event it promises: applied at most  *)
(* once, settled for good, requeued only with nothing applied.             *)
THEOREM Refinement == Spec => ImplementsLifecycle
  <1>1. Init => Lifecycle!Init
    BY DEF Init, Lifecycle!Init, life, LifeOf, NoRow
  <1>2. IInv /\ IInv' /\ [Next]_vars => [Lifecycle!Next]_<<life, writes>>
    BY StepImplements
  <1> QED
    BY <1>1, <1>2, Invariance, PTL DEF Spec, ImplementsLifecycle, Lifecycle!Spec, Lifecycle!vars

-----------------------------------------------------------------------------
(* Confirmations: what becomes of a command that a message has frozen, in  *)
(* the worker's transaction, instead of executing it. PendingConfirm is    *)
(* instantiated here: the constants and the counter of crashes that it has *)
(* in common with EventWorker stand, from here on, for its own, and no     *)
(* assumption of EventWorker is used.                                      *)

CONSTANTS Rule, Shared, Message, Image, Session, LastDay, Period, MaxMoves, MaxFailures
VARIABLES today, rule, occurrence, pending, overdue, applied, told, failed, ignored, awake,
          session

P == INSTANCE PendingConfirm

(* Resuming a rule moves its schedule past the given day.                  *)
LEMMA FirstAfterIsLater ==
    ASSUME P!PendingAssumption, NEW n \in Nat, NEW t \in Nat
    PROVE  P!FirstAfter(n, t) \in Nat /\ P!FirstAfter(n, t) > t
  <1>1. CASE n > t
    BY <1>1 DEF P!FirstAfter
  <1>2. CASE n <= t
    <2> DEFINE q == (t - n) \div Period
    <2>1. q \in Nat /\ t - n < Period * (q + 1)
      BY <1>2 DEF P!PendingAssumption
    <2> QED
      BY <1>2, <2>1 DEF P!PendingAssumption, P!FirstAfter
  <1> QED
    BY <1>1, <1>2

(* What is confirmed is an occurrence or a message, never both.            *)
LEMMA Sources ==
    ASSUME P!PendingAssumption
    PROVE  /\ \A o \in P!Occurrence : o \in P!Source /\ o \notin Message
           /\ \A m \in Message : m \in P!Source /\ m \notin P!Occurrence /\ ~P!HasMembers(m)
           /\ \A s \in P!Source : P!HasMembers(s) => s \in P!Occurrence
           /\ \A o \in P!Occurrence : o[1] \in Rule /\ o[2] \in P!Day /\ o = <<o[1], o[2]>>
           /\ \A r \in Rule, d \in P!Day : <<r, d>> \in P!Occurrence
           /\ P!Day \subseteq Nat
  <1>1. \A o \in P!Occurrence : o[1] \in Rule /\ o[2] \in P!Day /\ o = <<o[1], o[2]>>
    BY DEF P!Occurrence
  <1>2. \A r \in Rule, d \in P!Day : <<r, d>> \in P!Occurrence
    BY DEF P!Occurrence
  <1>3. P!Occurrence \cap Message = {} /\ P!Day \subseteq Nat
    BY DEF P!PendingAssumption, P!Day
  <1> QED
    BY <1>1, <1>2, <1>3 DEF P!Source, P!HasMembers

(* Transactions that end, and rows that stay, leave the others in order.   *)
LEMMA SessionsKept ==
    ASSUME P!PendingAssumption, P!TypeOK, P!Sessions,
           \A w \in Session : session'[w] = session[w] \/ session'[w] = P!Idle,
           \A s \in P!Source : pending[s] \notin {"none", "purged"}
                              => pending'[s] \notin {"none", "purged"}
    PROVE  P!Sessions'
  <1> SUFFICES ASSUME NEW w \in Session, session'[w] = session[w]
               PROVE  LET s == session[w].src IN
                      /\ session[w].at = "parse" => s \in Message
                      /\ session[w].at = "skip" => s \in P!Occurrence
                      /\ session[w].at = "found"
                           => P!HasMembers(s) /\ pending'[s] \notin {"none", "purged"}
    BY DEF P!Sessions, P!Idle
  <1> QED
    BY Sources DEF P!Sessions, P!HasMembers

(* What the confirm of a row writes has the right type.                    *)
LEMMA ConfirmTypes ==
    ASSUME P!PendingAssumption, P!TypeOK, NEW s \in P!Source, NEW status, P!ConfirmAs(s, status)
    PROVE  /\ pending' \in [P!Source -> P!PendingStatus]
           /\ occurrence' \in [P!Occurrence -> P!OccurrenceStatus]
           /\ applied' \in [P!Source -> Nat]
           /\ told' \in [P!Source -> SUBSET P!Answer]
           /\ failed' \subseteq P!Source
           /\ \A x \in P!Source : pending[x] \notin {"none", "purged"}
                                => pending'[x] \notin {"none", "purged"}
  <1>1. CASE P!Answered(s, status)
    <2>1. told' \in [P!Source -> SUBSET P!Answer]
      BY <1>1 DEF P!Answered, P!Tell, P!TypeOK
    <2> QED
      BY <1>1, <2>1 DEF P!Answered, P!TypeOK
  <1>2. CASE P!FoundOverdue(s, status)
    BY <1>2 DEF P!FoundOverdue, P!history, P!TypeOK, P!PendingStatus, P!Final
  <1>3. CASE P!Executed(s, status)
    <2>1. told' \in [P!Source -> SUBSET P!Answer]
      BY <1>3 DEF P!Executed, P!Tell, P!TypeOK
    <2>2. occurrence' \in [P!Occurrence -> P!OccurrenceStatus]
      BY <1>3 DEF P!Executed, P!MarkOccurrence, P!TypeOK, P!OccurrenceStatus
    <2>3. pending' \in [P!Source -> P!PendingStatus]
      BY <1>3 DEF P!Executed, P!TypeOK, P!PendingStatus, P!Final
    <2>4. applied' \in [P!Source -> Nat]
      BY <1>3 DEF P!Executed, P!TypeOK
    <2>5. \A x \in P!Source : pending'[x] = pending[x] \/ pending'[x] = "executed"
      BY <1>3 DEF P!Executed, P!TypeOK
    <2> QED
      BY <1>3, <2>1, <2>2, <2>3, <2>4, <2>5 DEF P!Executed, P!TypeOK
  <1>4. CASE P!Failed(s, status)
    BY <1>4 DEF P!Failed, P!TypeOK
  <1> QED
    BY <1>1, <1>2, <1>3, <1>4 DEF P!ConfirmAs

(* The first state is in the invariant.                                    *)
LEMMA PendingInit ==
    ASSUME P!PendingAssumption, P!Init
    PROVE  P!IInv
  <1>1. P!TypeOK
    BY DEF P!PendingAssumption, P!Init, P!TypeOK, P!Day, P!RuleStatus, P!OccurrenceStatus,
       P!PendingStatus, P!Final, P!Work, P!Idle
  <1>2. P!Sessions /\ P!AwakeWhenDue /\ P!OccurrenceFirst /\ P!CancelStands
    BY Sources DEF P!Init, P!Sessions, P!AwakeWhenDue, P!OccurrenceFirst, P!CancelStands, P!Idle
  <1>3. P!NoBackfill /\ P!ExecutedOnce /\ P!TablesAgree /\ P!OneActivePerImage
    BY Sources DEF P!Init, P!NoBackfill, P!ExecutedOnce, P!TablesAgree, P!OneActivePerImage
  <1> QED
    BY <1>1, <1>2, <1>3 DEF P!IInv

(* Every step keeps the invariant.                                         *)
LEMMA PendingNext ==
    ASSUME P!PendingAssumption, P!IInv, [P!Next]_P!vars
    PROVE  P!IInv'
  <1> USE Sources DEF P!PendingAssumption, P!IInv, P!ruleVars, P!history
  <1>1. ASSUME P!NextDay PROVE P!IInv'
    <2>1. P!TypeOK'
      <3>1. today + 1 \in P!Day
        BY <1>1 DEF P!NextDay, P!TypeOK, P!Day
      <3> QED
        BY <1>1, <3>1 DEF P!NextDay, P!TypeOK
    <2>2. P!Sessions'
      BY <1>1 DEF P!NextDay, P!TypeOK, P!Work, P!Sessions
    <2>3. P!AwakeWhenDue'
      <3>1. \A d \in P!Day : d <= today + 1 => d <= today \/ d = today + 1
        BY DEF P!TypeOK, P!Day
      <3>2. \A r \in Rule : awake'[r] = IF rule[r].status = "active"
                                       THEN awake[r] \cup {today + 1} ELSE awake[r]
        BY <1>1 DEF P!NextDay
      <3> QED
        BY <1>1, <3>1, <3>2 DEF P!NextDay, P!AwakeWhenDue
    <2>4. P!OccurrenceFirst' /\ P!NoBackfill'
      BY <1>1 DEF P!NextDay, P!TypeOK, P!Work, P!OccurrenceFirst, P!NoBackfill, P!AwakeWhenDue,
         P!Sessions
    <2>5. P!CancelStands' /\ P!OneActivePerImage'
      BY <1>1 DEF P!NextDay, P!TypeOK, P!Work, P!CancelStands, P!TablesAgree,
         P!OneActivePerImage, P!Sessions, P!Final, P!Answer
    <2>6. P!ExecutedOnce' /\ P!TablesAgree'
      BY <1>1 DEF P!NextDay, P!TypeOK, P!Work, P!ExecutedOnce, P!TablesAgree, P!OccurrenceFirst,
         P!Sessions, P!Final
    <2> QED BY <2>1, <2>2, <2>3, <2>4, <2>5, <2>6
  <1>2. ASSUME NEW r \in Rule, NEW d \in P!Day, P!CreateRule(r, d) PROVE P!IInv'
    <2>1. P!TypeOK'
      <3>1. awake' \in [Rule -> SUBSET P!Day]
        BY <1>2 DEF P!CreateRule, P!Wakes, P!TypeOK
      <3>2. rule' \in [Rule -> [status : P!RuleStatus, next : Nat, moves : Nat]]
        <4>1. rule' = [rule EXCEPT ![r] = [rule[r] EXCEPT !.status = "active", !.next = d]]
          BY <1>2 DEF P!CreateRule, P!TypeOK
        <4>2. rule[r] \in [status : P!RuleStatus, next : Nat, moves : Nat] /\ d \in Nat
          BY DEF P!PendingAssumption, P!TypeOK, P!Day
        <4>3. [rule[r] EXCEPT !.status = "active", !.next = d]
                \in [status : P!RuleStatus, next : Nat, moves : Nat]
          BY <4>2 DEF P!RuleStatus
        <4> QED
          BY <4>1, <4>3 DEF P!TypeOK
      <3> QED
        BY <1>2, <3>1, <3>2 DEF P!CreateRule, P!unruled, P!TypeOK
    <2>2. P!Sessions'
      BY <1>2 DEF P!CreateRule, P!unruled, P!Wakes, P!TypeOK, P!Work, P!Sessions
    <2>3. P!AwakeWhenDue'
      <3>1. \A x \in Rule : awake'[x] = IF x = r THEN awake[r] \cup {today} ELSE awake[x]
        BY <1>2 DEF P!CreateRule, P!Wakes, P!TypeOK
      <3>2. \A x \in Rule : rule'[x] = IF x = r THEN [rule[r] EXCEPT !.status = "active", !.next = d]
                                       ELSE rule[x]
        BY <1>2 DEF P!CreateRule, P!TypeOK
      <3>3. rule'[r].next = d /\ d >= today /\ today' = today
        BY <1>2, <3>2 DEF P!CreateRule, P!unruled, P!TypeOK
      <3>4. \A x \in P!Day : d <= x /\ x <= today => x = today
        <4>1. today \in Nat /\ d \in Nat /\ d >= today
          BY <3>3 DEF P!TypeOK
        <4>2. \A x \in Nat : d <= x /\ x <= today => x = today
          BY <4>1
        <4> QED
          BY <4>2
      <3> QED
        BY <3>1, <3>2, <3>3, <3>4 DEF P!AwakeWhenDue
    <2>4. P!OccurrenceFirst' /\ P!NoBackfill'
      BY <1>2 DEF P!CreateRule, P!unruled, P!Wakes, P!TypeOK, P!Work, P!OccurrenceFirst,
         P!NoBackfill, P!AwakeWhenDue, P!Sessions
    <2>5. P!CancelStands' /\ P!OneActivePerImage'
      BY <1>2 DEF P!CreateRule, P!unruled, P!Wakes, P!TypeOK, P!Work, P!CancelStands,
         P!TablesAgree, P!OneActivePerImage, P!Sessions, P!Final, P!Answer
    <2>6. P!ExecutedOnce' /\ P!TablesAgree'
      BY <1>2 DEF P!CreateRule, P!unruled, P!Wakes, P!TypeOK, P!Work, P!ExecutedOnce,
         P!TablesAgree, P!OccurrenceFirst, P!Sessions, P!Final
    <2> QED BY <2>1, <2>2, <2>3, <2>4, <2>5, <2>6
  <1>3. ASSUME NEW r \in Rule, NEW d \in P!Day, P!Move(r, d) PROVE P!IInv'
    <2>1. P!TypeOK'
      BY <1>3 DEF P!Move, P!unruled, P!TypeOK, P!RuleStatus, P!OccurrenceStatus, P!PendingStatus,
         P!Final, P!Answer, P!Work
    <2>2. P!Sessions'
      BY <1>3 DEF P!Move, P!unruled, P!TypeOK, P!Work, P!Sessions
    <2>3. P!AwakeWhenDue'
      BY <1>3, FirstAfterIsLater DEF P!Move, P!unruled, P!TypeOK, P!AwakeWhenDue, P!Sessions
    <2>4. P!OccurrenceFirst' /\ P!NoBackfill'
      BY <1>3 DEF P!Move, P!unruled, P!TypeOK, P!Work, P!OccurrenceFirst, P!NoBackfill,
         P!AwakeWhenDue, P!Sessions
    <2>5. P!CancelStands' /\ P!OneActivePerImage'
      BY <1>3 DEF P!Move, P!unruled, P!TypeOK, P!Work, P!CancelStands, P!TablesAgree,
         P!OneActivePerImage, P!Sessions, P!Final, P!Answer
    <2>6. P!ExecutedOnce' /\ P!TablesAgree'
      BY <1>3 DEF P!Move, P!unruled, P!TypeOK, P!Work, P!ExecutedOnce, P!TablesAgree,
         P!OccurrenceFirst, P!Sessions, P!Final
    <2> QED BY <2>1, <2>2, <2>3, <2>4, <2>5, <2>6
  <1>4. ASSUME NEW r \in Rule, P!Pause(r) PROVE P!IInv'
    <2>1. P!TypeOK'
      BY <1>4 DEF P!Pause, P!unruled, P!TypeOK, P!RuleStatus, P!OccurrenceStatus,
         P!PendingStatus, P!Final, P!Answer, P!Work
    <2>2. P!Sessions'
      BY <1>4 DEF P!Pause, P!unruled, P!TypeOK, P!Work, P!Sessions
    <2>3. P!AwakeWhenDue'
      BY <1>4, FirstAfterIsLater DEF P!Pause, P!unruled, P!TypeOK, P!AwakeWhenDue, P!Sessions
    <2>4. P!OccurrenceFirst' /\ P!NoBackfill'
      BY <1>4 DEF P!Pause, P!unruled, P!TypeOK, P!Work, P!OccurrenceFirst, P!NoBackfill,
         P!AwakeWhenDue, P!Sessions
    <2>5. P!CancelStands' /\ P!OneActivePerImage'
      BY <1>4 DEF P!Pause, P!unruled, P!TypeOK, P!Work, P!CancelStands, P!TablesAgree,
         P!OneActivePerImage, P!Sessions, P!Final, P!Answer
    <2>6. P!ExecutedOnce' /\ P!TablesAgree'
      BY <1>4 DEF P!Pause, P!unruled, P!TypeOK, P!Work, P!ExecutedOnce, P!TablesAgree,
         P!OccurrenceFirst, P!Sessions, P!Final
    <2> QED BY <2>1, <2>2, <2>3, <2>4, <2>5, <2>6
  <1>5. ASSUME NEW r \in Rule, P!Resume(r) PROVE P!IInv'
    <2>1. P!TypeOK'
      <3>1. awake' \in [Rule -> SUBSET P!Day]
        BY <1>5 DEF P!Resume, P!Wakes, P!TypeOK
      <3>2. rule[r].next \in Nat /\ today \in Nat
        BY DEF P!TypeOK
      <3>3. P!FirstAfter(rule[r].next, today) \in Nat
        BY <3>2, FirstAfterIsLater
      <3>4. rule' \in [Rule -> [status : P!RuleStatus, next : Nat, moves : Nat]]
        <4> DEFINE n == P!FirstAfter(rule[r].next, today)
        <4>1. rule' = [rule EXCEPT ![r].status = "active", ![r].next = n]
          BY <1>5 DEF P!Resume, P!TypeOK
        <4>2. n \in Nat
          BY <3>3
        <4> HIDE DEF n
        <4>3. rule' = [rule EXCEPT ![r] = [rule[r] EXCEPT !.status = "active", !.next = n]]
          BY <4>1 DEF P!TypeOK
        <4>5. rule[r] \in [status : P!RuleStatus, next : Nat, moves : Nat]
          BY DEF P!TypeOK
        <4>4. [rule[r] EXCEPT !.status = "active", !.next = n]
                \in [status : P!RuleStatus, next : Nat, moves : Nat]
          BY <4>2, <4>5 DEF P!RuleStatus
        <4> QED
          BY <4>3, <4>4 DEF P!TypeOK
      <3> QED
        BY <1>5, <3>1, <3>4 DEF P!Resume, P!unruled, P!TypeOK
    <2>2. P!Sessions'
      BY <1>5 DEF P!Resume, P!unruled, P!Wakes, P!TypeOK, P!Work, P!Sessions
    <2>3. P!AwakeWhenDue'
      BY <1>5, FirstAfterIsLater DEF P!Resume, P!unruled, P!Wakes, P!TypeOK, P!AwakeWhenDue,
         P!Sessions
    <2>4. P!OccurrenceFirst' /\ P!NoBackfill'
      BY <1>5 DEF P!Resume, P!unruled, P!Wakes, P!TypeOK, P!Work, P!OccurrenceFirst,
         P!NoBackfill, P!AwakeWhenDue, P!Sessions
    <2>5. P!CancelStands' /\ P!OneActivePerImage'
      BY <1>5 DEF P!Resume, P!unruled, P!Wakes, P!TypeOK, P!Work, P!CancelStands, P!TablesAgree,
         P!OneActivePerImage, P!Sessions, P!Final, P!Answer
    <2>6. P!ExecutedOnce' /\ P!TablesAgree'
      BY <1>5 DEF P!Resume, P!unruled, P!Wakes, P!TypeOK, P!Work, P!ExecutedOnce, P!TablesAgree,
         P!OccurrenceFirst, P!Sessions, P!Final
    <2> QED BY <2>1, <2>2, <2>3, <2>4, <2>5, <2>6
  <1>6. ASSUME NEW r \in Rule, P!Disable(r) PROVE P!IInv'
    <2>1. P!TypeOK'
      <3>1. rule' \in [Rule -> [status : P!RuleStatus, next : Nat, moves : Nat]]
        BY <1>6 DEF P!Disable, P!TypeOK, P!RuleStatus
      <3> QED
        BY <1>6, <3>1 DEF P!Disable, P!unruled, P!TypeOK
    <2>2. P!Sessions'
      BY <1>6 DEF P!Disable, P!unruled, P!TypeOK, P!Work, P!Sessions
    <2>3. P!AwakeWhenDue'
      BY <1>6, FirstAfterIsLater DEF P!Disable, P!unruled, P!TypeOK, P!AwakeWhenDue, P!Sessions
    <2>4. P!OccurrenceFirst' /\ P!NoBackfill'
      BY <1>6 DEF P!Disable, P!unruled, P!TypeOK, P!Work, P!OccurrenceFirst, P!NoBackfill,
         P!AwakeWhenDue, P!Sessions
    <2>5. P!CancelStands' /\ P!OneActivePerImage'
      BY <1>6 DEF P!Disable, P!unruled, P!TypeOK, P!Work, P!CancelStands, P!TablesAgree,
         P!OneActivePerImage, P!Sessions, P!Final, P!Answer
    <2>6. P!ExecutedOnce' /\ P!TablesAgree'
      BY <1>6 DEF P!Disable, P!unruled, P!TypeOK, P!Work, P!ExecutedOnce, P!TablesAgree,
         P!OccurrenceFirst, P!Sessions, P!Final
    <2> QED BY <2>1, <2>2, <2>3, <2>4, <2>5, <2>6
  <1>7. ASSUME NEW R \in SUBSET Rule, P!Sweep(R) PROVE P!IInv'
    <2>1. P!TypeOK'
      <3>1. rule' \in [Rule -> [status : P!RuleStatus, next : Nat, moves : Nat]]
        <4>1. \A r \in Rule : [rule[r] EXCEPT !.next = @ + Period]
                             \in [status : P!RuleStatus, next : Nat, moves : Nat]
          BY DEF P!PendingAssumption, P!TypeOK
        <4> QED
          BY <1>7, <4>1 DEF P!Sweep, P!TypeOK
      <3>2. occurrence' \in [P!Occurrence -> P!OccurrenceStatus]
        BY <1>7 DEF P!Sweep, P!TypeOK, P!OccurrenceStatus
      <3>3. pending' \in [P!Source -> P!PendingStatus]
        BY <1>7 DEF P!Sweep, P!TypeOK, P!PendingStatus
      <3> QED
        BY <1>7, <3>1, <3>2, <3>3 DEF P!Sweep, P!TypeOK
    <2>2. P!Sessions'
      <3>1. \A s \in P!Source : pending'[s] = pending[s] \/ pending'[s] = "pending"
        BY <1>7 DEF P!Sweep
      <3>2. session' = session
        BY <1>7 DEF P!Sweep
      <3> QED
        BY <3>1, <3>2, SessionsKept
    <2>3. P!AwakeWhenDue'
      BY <1>7, FirstAfterIsLater DEF P!Sweep, P!Claimable, P!Ungenerated, P!TypeOK,
         P!AwakeWhenDue, P!Sessions
    <2>4. P!OccurrenceFirst' /\ P!NoBackfill'
      BY <1>7 DEF P!Sweep, P!Claimable, P!Ungenerated, P!TypeOK, P!Work, P!OccurrenceFirst,
         P!NoBackfill, P!AwakeWhenDue, P!Sessions
    <2>5. P!CancelStands' /\ P!OneActivePerImage'
      BY <1>7 DEF P!Sweep, P!Claimable, P!Ungenerated, P!TypeOK, P!Work, P!CancelStands,
         P!TablesAgree, P!OneActivePerImage, P!Sessions, P!Final, P!Answer
    <2>6. P!ExecutedOnce' /\ P!TablesAgree'
      BY <1>7 DEF P!Sweep, P!Claimable, P!Ungenerated, P!TypeOK, P!Work, P!ExecutedOnce,
         P!TablesAgree, P!OccurrenceFirst, P!Sessions, P!Final
    <2> QED BY <2>1, <2>2, <2>3, <2>4, <2>5, <2>6
  <1>8. ASSUME NEW S \in SUBSET P!Source, P!ExpireBatch(S) PROVE P!IInv'
    <2>1. P!TypeOK'
      BY <1>8 DEF P!ExpireBatch, P!Expirable, P!TypeOK, P!RuleStatus, P!OccurrenceStatus,
         P!PendingStatus, P!Final, P!Answer, P!Work
    <2>2. P!Sessions'
      <3>1. \A s \in P!Source : pending'[s] = pending[s] \/ pending'[s] = "expired"
        BY <1>8 DEF P!ExpireBatch
      <3>2. session' = session
        BY <1>8 DEF P!ExpireBatch
      <3> QED
        BY <3>1, <3>2, SessionsKept
    <2>3. P!AwakeWhenDue'
      BY <1>8, FirstAfterIsLater DEF P!ExpireBatch, P!Expirable, P!TypeOK, P!AwakeWhenDue,
         P!Sessions
    <2>4. P!OccurrenceFirst' /\ P!NoBackfill'
      BY <1>8 DEF P!ExpireBatch, P!Expirable, P!TypeOK, P!Work, P!OccurrenceFirst, P!NoBackfill,
         P!AwakeWhenDue, P!Sessions
    <2>5. P!CancelStands' /\ P!OneActivePerImage'
      BY <1>8 DEF P!ExpireBatch, P!Expirable, P!TypeOK, P!Work, P!CancelStands, P!TablesAgree,
         P!OneActivePerImage, P!Sessions, P!Final, P!Answer
    <2>6. P!ExecutedOnce' /\ P!TablesAgree'
      BY <1>8 DEF P!ExpireBatch, P!Expirable, P!TypeOK, P!Work, P!ExecutedOnce, P!TablesAgree,
         P!OccurrenceFirst, P!Sessions, P!Final
    <2> QED BY <2>1, <2>2, <2>3, <2>4, <2>5, <2>6
  <1>9. ASSUME NEW w \in Session, NEW r \in Rule, P!SkipReads(w, r) PROVE P!IInv'
    <2>1. P!TypeOK'
      BY <1>9 DEF P!SkipReads, P!Idle, P!TypeOK, P!RuleStatus, P!OccurrenceStatus,
         P!PendingStatus, P!Final, P!Answer, P!Work
    <2>2. P!Sessions'
      BY <1>9 DEF P!SkipReads, P!Idle, P!TypeOK, P!Work, P!Sessions
    <2>3. P!AwakeWhenDue'
      BY <1>9, FirstAfterIsLater DEF P!SkipReads, P!Idle, P!TypeOK, P!AwakeWhenDue, P!Sessions
    <2>4. P!OccurrenceFirst' /\ P!NoBackfill'
      BY <1>9 DEF P!SkipReads, P!Idle, P!TypeOK, P!Work, P!OccurrenceFirst, P!NoBackfill,
         P!AwakeWhenDue, P!Sessions
    <2>5. P!CancelStands' /\ P!OneActivePerImage'
      BY <1>9 DEF P!SkipReads, P!Idle, P!TypeOK, P!Work, P!CancelStands, P!TablesAgree,
         P!OneActivePerImage, P!Sessions, P!Final, P!Answer
    <2>6. P!ExecutedOnce' /\ P!TablesAgree'
      BY <1>9 DEF P!SkipReads, P!Idle, P!TypeOK, P!Work, P!ExecutedOnce, P!TablesAgree,
         P!OccurrenceFirst, P!Sessions, P!Final
    <2> QED BY <2>1, <2>2, <2>3, <2>4, <2>5, <2>6
  <1>10. ASSUME NEW w \in Session, NEW m \in Message, P!StartParsing(w, m) PROVE P!IInv'
    <2>1. P!TypeOK'
      <3>1. [P!Idle EXCEPT !.at = "parse", !.src = m] \in P!Work
        BY DEF P!Idle, P!Work, P!OccurrenceStatus
      <3>2. session' \in [Session -> P!Work]
        BY <1>10, <3>1 DEF P!StartParsing, P!TypeOK
      <3>3. ignored' \subseteq Message
        BY <1>10 DEF P!StartParsing, P!TypeOK
      <3> QED
        BY <1>10, <3>2, <3>3 DEF P!StartParsing, P!TypeOK
    <2>2. P!Sessions'
      <3>1. CASE session' = session
        BY <1>10, <3>1, SessionsKept DEF P!StartParsing
      <3>2. CASE session' = [session EXCEPT ![w] = [P!Idle EXCEPT !.at = "parse", !.src = m]]
        <4>1. session'[w].at = "parse" /\ session'[w].src = m
          BY <3>2 DEF P!TypeOK, P!Idle
        <4>2. \A v \in Session \ {w} : session'[v] = session[v]
          BY <3>2 DEF P!TypeOK
        <4>3. pending' = pending
          BY <1>10 DEF P!StartParsing
        <4> QED
          BY <4>1, <4>2, <4>3 DEF P!Sessions
      <3> QED
        BY <1>10, <3>1, <3>2 DEF P!StartParsing
    <2>3. P!AwakeWhenDue'
      BY <1>10, FirstAfterIsLater DEF P!StartParsing, P!Idle, P!TypeOK, P!AwakeWhenDue, P!Sessions
    <2>4. P!OccurrenceFirst' /\ P!NoBackfill'
      BY <1>10 DEF P!StartParsing, P!Idle, P!TypeOK, P!Work, P!OccurrenceFirst, P!NoBackfill,
         P!AwakeWhenDue, P!Sessions
    <2>5. P!CancelStands' /\ P!OneActivePerImage'
      BY <1>10 DEF P!StartParsing, P!Idle, P!TypeOK, P!Work, P!CancelStands, P!TablesAgree,
         P!OneActivePerImage, P!Sessions, P!Final, P!Answer
    <2>6. P!ExecutedOnce' /\ P!TablesAgree'
      BY <1>10 DEF P!StartParsing, P!Idle, P!TypeOK, P!Work, P!ExecutedOnce, P!TablesAgree,
         P!OccurrenceFirst, P!Sessions, P!Final
    <2> QED BY <2>1, <2>2, <2>3, <2>4, <2>5, <2>6
  <1>11. ASSUME NEW w \in Session, NEW o \in P!Occurrence, P!MemberFinds(w, o) PROVE P!IInv'
    <2>1. P!TypeOK'
      BY <1>11 DEF P!MemberFinds, P!Idle, P!TypeOK, P!RuleStatus, P!OccurrenceStatus,
         P!PendingStatus, P!Final, P!Answer, P!Work
    <2>2. P!Sessions'
      BY <1>11 DEF P!MemberFinds, P!Idle, P!TypeOK, P!Work, P!Sessions
    <2>3. P!AwakeWhenDue'
      BY <1>11, FirstAfterIsLater DEF P!MemberFinds, P!Idle, P!TypeOK, P!AwakeWhenDue, P!Sessions
    <2>4. P!OccurrenceFirst' /\ P!NoBackfill'
      BY <1>11 DEF P!MemberFinds, P!Idle, P!TypeOK, P!Work, P!OccurrenceFirst, P!NoBackfill,
         P!AwakeWhenDue, P!Sessions
    <2>5. P!CancelStands' /\ P!OneActivePerImage'
      BY <1>11 DEF P!MemberFinds, P!Idle, P!TypeOK, P!Work, P!CancelStands, P!TablesAgree,
         P!OneActivePerImage, P!Sessions, P!Final, P!Answer
    <2>6. P!ExecutedOnce' /\ P!TablesAgree'
      BY <1>11 DEF P!MemberFinds, P!Idle, P!TypeOK, P!Work, P!ExecutedOnce, P!TablesAgree,
         P!OccurrenceFirst, P!Sessions, P!Final
    <2> QED BY <2>1, <2>2, <2>3, <2>4, <2>5, <2>6
  <1>12. ASSUME NEW w \in Session, P!SkipWrites(w) PROVE P!IInv'
    <2>1. P!TypeOK'
      <3> DEFINE o == session[w].src
      <3>1. o \in P!Occurrence /\ o[1] \in Rule
        BY <1>12 DEF P!SkipWrites, P!Sessions
      <3>2. pending' \in [P!Source -> P!PendingStatus]
        BY <1>12 DEF P!SkipWrites, P!TypeOK, P!PendingStatus, P!Final
      <3>3. occurrence' \in [P!Occurrence -> P!OccurrenceStatus]
        BY <1>12 DEF P!SkipWrites, P!TypeOK, P!OccurrenceStatus
      <3>4. rule[o[1]].next + Period \in Nat
        BY <3>1 DEF P!TypeOK
      <3>5. rule' \in [Rule -> [status : P!RuleStatus, next : Nat, moves : Nat]]
        <4> DEFINE R == [status : P!RuleStatus, next : Nat, moves : Nat]
        <4>1. [rule[o[1]] EXCEPT !.next = @ + Period] \in R
          <5>1. rule[o[1]] \in R
            BY <3>1 DEF P!TypeOK
          <5> QED
            BY <3>4, <5>1
        <4>2. rule' = [rule EXCEPT ![o[1]] = [rule[o[1]] EXCEPT !.next = @ + Period]]
          BY <1>12, <3>1 DEF P!SkipWrites, P!TypeOK
        <4>3. rule \in [Rule -> R]
          BY DEF P!TypeOK
        <4> HIDE DEF R
        <4>4. rule' \in [Rule -> R]
          BY <3>1, <4>1, <4>2, <4>3
        <4> QED
          BY <4>4 DEF R
      <3>6. session' \in [Session -> P!Work]
        BY <1>12 DEF P!SkipWrites, P!TypeOK, P!Idle, P!Work, P!OccurrenceStatus
      <3> QED
        BY <1>12, <3>2, <3>3, <3>5, <3>6 DEF P!SkipWrites, P!TypeOK
    <2>2. P!Sessions'
      BY <1>12 DEF P!SkipWrites, P!Idle, P!SkipCancels, P!TypeOK, P!Work, P!Sessions
    <2>3. P!AwakeWhenDue'
      BY <1>12, FirstAfterIsLater DEF P!SkipWrites, P!Idle, P!SkipCancels, P!TypeOK,
         P!AwakeWhenDue, P!Sessions
    <2>4. P!OccurrenceFirst' /\ P!NoBackfill'
      BY <1>12 DEF P!SkipWrites, P!Idle, P!SkipCancels, P!TypeOK, P!Work, P!OccurrenceFirst,
         P!NoBackfill, P!AwakeWhenDue, P!Sessions
    <2>5. P!CancelStands' /\ P!OneActivePerImage'
      BY <1>12 DEF P!SkipWrites, P!Idle, P!SkipCancels, P!TypeOK, P!Work, P!CancelStands,
         P!TablesAgree, P!OneActivePerImage, P!Sessions, P!Final, P!Answer
    <2>6. P!ExecutedOnce' /\ P!TablesAgree'
      BY <1>12 DEF P!SkipWrites, P!Idle, P!SkipCancels, P!TypeOK, P!Work, P!ExecutedOnce,
         P!TablesAgree, P!OccurrenceFirst, P!Sessions, P!Final
    <2> QED BY <2>1, <2>2, <2>3, <2>4, <2>5, <2>6
  <1>13. ASSUME NEW w \in Session, P!Freeze(w) PROVE P!IInv'
    <2>1. P!TypeOK'
      <3>1. session[w].src \in Message
        BY <1>13 DEF P!Freeze, P!Sessions
      <3>2. pending' \in [P!Source -> P!PendingStatus]
        BY <1>13 DEF P!Freeze, P!TypeOK, P!PendingStatus
      <3>3. session' \in [Session -> P!Work]
        BY <1>13 DEF P!Freeze, P!TypeOK, P!Idle, P!Work, P!OccurrenceStatus
      <3>4. ignored' \subseteq Message
        BY <1>13, <3>1 DEF P!Freeze, P!TypeOK
      <3> QED
        BY <1>13, <3>2, <3>3, <3>4 DEF P!Freeze, P!TypeOK
    <2>2. P!Sessions'
      BY <1>13 DEF P!Freeze, P!Idle, P!ActiveImage, P!TypeOK, P!Work, P!Sessions
    <2>3. P!AwakeWhenDue'
      BY <1>13, FirstAfterIsLater DEF P!Freeze, P!Idle, P!ActiveImage, P!TypeOK, P!AwakeWhenDue,
         P!Sessions
    <2>4. P!OccurrenceFirst' /\ P!NoBackfill'
      BY <1>13 DEF P!Freeze, P!Idle, P!ActiveImage, P!TypeOK, P!Work, P!OccurrenceFirst,
         P!NoBackfill, P!AwakeWhenDue, P!Sessions
    <2>5. P!CancelStands' /\ P!OneActivePerImage'
      BY <1>13 DEF P!Freeze, P!Idle, P!ActiveImage, P!TypeOK, P!Work, P!CancelStands,
         P!TablesAgree, P!OneActivePerImage, P!Sessions, P!Final, P!Answer
    <2>6. P!ExecutedOnce' /\ P!TablesAgree'
      BY <1>13 DEF P!Freeze, P!Idle, P!ActiveImage, P!TypeOK, P!Work, P!ExecutedOnce,
         P!TablesAgree, P!OccurrenceFirst, P!Sessions, P!Final
    <2> QED BY <2>1, <2>2, <2>3, <2>4, <2>5, <2>6
  <1>14. ASSUME NEW w \in Session, P!MemberConfirms(w) PROVE P!IInv'
    <2>1. P!TypeOK'
      <3>1. session[w].src \in P!Source
        BY <1>14 DEF P!MemberConfirms, P!Sessions, P!HasMembers
      <3>2. session' \in [Session -> P!Work]
        BY <1>14 DEF P!MemberConfirms, P!TypeOK, P!Idle, P!Work, P!OccurrenceStatus
      <3> QED
        BY <1>14, <3>1, <3>2, ConfirmTypes DEF P!MemberConfirms, P!TypeOK
    <2>2. P!Sessions'
      <3>1. session[w].src \in P!Source
        BY <1>14 DEF P!MemberConfirms, P!Sessions, P!HasMembers
      <3>2. \A v \in Session : session'[v] = session[v] \/ session'[v] = P!Idle
        BY <1>14 DEF P!MemberConfirms, P!TypeOK
      <3> QED
        BY <1>14, <3>1, <3>2, ConfirmTypes, SessionsKept DEF P!MemberConfirms
    <2>3. P!AwakeWhenDue'
      BY <1>14, FirstAfterIsLater DEF P!MemberConfirms, P!Idle, P!ConfirmAs, P!Answered,
         P!FoundOverdue, P!Executed, P!Failed, P!MayConfirm, P!Repeats, P!Tell, P!MarkOccurrence,
         P!TypeOK, P!AwakeWhenDue, P!Sessions
    <2>4. P!OccurrenceFirst' /\ P!NoBackfill'
      BY <1>14 DEF P!MemberConfirms, P!Idle, P!ConfirmAs, P!Answered, P!FoundOverdue, P!Executed,
         P!Failed, P!MayConfirm, P!Repeats, P!Tell, P!MarkOccurrence, P!TypeOK, P!Work,
         P!OccurrenceFirst, P!NoBackfill, P!AwakeWhenDue, P!Sessions
    <2>5. P!CancelStands' /\ P!OneActivePerImage'
      <3>1. P!CancelStands'
        BY <1>14 DEF P!MemberConfirms, P!Idle, P!ConfirmAs, P!Answered, P!FoundOverdue,
           P!Executed, P!Failed, P!MayConfirm, P!Repeats, P!Tell, P!MarkOccurrence, P!TypeOK,
           P!Work, P!CancelStands, P!TablesAgree, P!Sessions, P!Final, P!Answer
      <3>2. P!OneActivePerImage'
        BY <1>14 DEF P!MemberConfirms, P!Idle, P!ConfirmAs, P!Answered, P!FoundOverdue,
           P!Executed, P!Failed, P!MayConfirm, P!Repeats, P!Tell, P!MarkOccurrence, P!TypeOK,
           P!Work, P!OneActivePerImage, P!Sessions, P!Final
      <3> QED
        BY <3>1, <3>2
    <2>6. P!ExecutedOnce' /\ P!TablesAgree'
      BY <1>14 DEF P!MemberConfirms, P!Idle, P!ConfirmAs, P!Answered, P!FoundOverdue, P!Executed,
         P!Failed, P!MayConfirm, P!Repeats, P!Tell, P!MarkOccurrence, P!TypeOK, P!Work,
         P!ExecutedOnce, P!TablesAgree, P!OccurrenceFirst, P!Sessions, P!Final
    <2> QED BY <2>1, <2>2, <2>3, <2>4, <2>5, <2>6
  <1>15. ASSUME NEW w \in Session, P!Crash(w) PROVE P!IInv'
    <2>1. P!TypeOK'
      BY <1>15 DEF P!Crash, P!Idle, P!TypeOK, P!RuleStatus, P!OccurrenceStatus, P!PendingStatus,
         P!Final, P!Answer, P!Work
    <2>2. P!Sessions'
      BY <1>15 DEF P!Crash, P!Idle, P!TypeOK, P!Work, P!Sessions
    <2>3. P!AwakeWhenDue'
      BY <1>15, FirstAfterIsLater DEF P!Crash, P!Idle, P!TypeOK, P!AwakeWhenDue, P!Sessions
    <2>4. P!OccurrenceFirst' /\ P!NoBackfill'
      BY <1>15 DEF P!Crash, P!Idle, P!TypeOK, P!Work, P!OccurrenceFirst, P!NoBackfill,
         P!AwakeWhenDue, P!Sessions
    <2>5. P!CancelStands' /\ P!OneActivePerImage'
      BY <1>15 DEF P!Crash, P!Idle, P!TypeOK, P!Work, P!CancelStands, P!TablesAgree,
         P!OneActivePerImage, P!Sessions, P!Final, P!Answer
    <2>6. P!ExecutedOnce' /\ P!TablesAgree'
      BY <1>15 DEF P!Crash, P!Idle, P!TypeOK, P!Work, P!ExecutedOnce, P!TablesAgree,
         P!OccurrenceFirst, P!Sessions, P!Final
    <2> QED BY <2>1, <2>2, <2>3, <2>4, <2>5, <2>6
  <1>16. ASSUME NEW s \in P!Source, P!FallsOverdue(s) PROVE P!IInv'
    <2>1. P!TypeOK'
      BY <1>16 DEF P!FallsOverdue, P!TypeOK, P!RuleStatus, P!OccurrenceStatus, P!PendingStatus,
         P!Final, P!Answer, P!Work
    <2>2. P!Sessions'
      BY <1>16 DEF P!FallsOverdue, P!TypeOK, P!Work, P!Sessions
    <2>3. P!AwakeWhenDue'
      BY <1>16, FirstAfterIsLater DEF P!FallsOverdue, P!TypeOK, P!AwakeWhenDue, P!Sessions
    <2>4. P!OccurrenceFirst' /\ P!NoBackfill'
      BY <1>16 DEF P!FallsOverdue, P!TypeOK, P!Work, P!OccurrenceFirst, P!NoBackfill,
         P!AwakeWhenDue, P!Sessions
    <2>5. P!CancelStands' /\ P!OneActivePerImage'
      BY <1>16 DEF P!FallsOverdue, P!TypeOK, P!Work, P!CancelStands, P!TablesAgree,
         P!OneActivePerImage, P!Sessions, P!Final, P!Answer
    <2>6. P!ExecutedOnce' /\ P!TablesAgree'
      BY <1>16 DEF P!FallsOverdue, P!TypeOK, P!Work, P!ExecutedOnce, P!TablesAgree,
         P!OccurrenceFirst, P!Sessions, P!Final
    <2> QED BY <2>1, <2>2, <2>3, <2>4, <2>5, <2>6
  <1>17. ASSUME NEW s \in P!Source, P!Confirm(s) PROVE P!IInv'
    <2>1. P!TypeOK'
      BY <1>17, ConfirmTypes DEF P!Confirm, P!TypeOK
    <2>2. P!Sessions'
      BY <1>17, ConfirmTypes, SessionsKept DEF P!Confirm
    <2>3. P!AwakeWhenDue'
      BY <1>17, FirstAfterIsLater DEF P!Confirm, P!ConfirmAs, P!Answered, P!FoundOverdue,
         P!Executed, P!Failed, P!MayConfirm, P!Repeats, P!Tell, P!MarkOccurrence, P!TypeOK,
         P!AwakeWhenDue, P!Sessions
    <2>4. P!OccurrenceFirst' /\ P!NoBackfill'
      BY <1>17 DEF P!Confirm, P!ConfirmAs, P!Answered, P!FoundOverdue, P!Executed, P!Failed,
         P!MayConfirm, P!Repeats, P!Tell, P!MarkOccurrence, P!TypeOK, P!Work, P!OccurrenceFirst,
         P!NoBackfill, P!AwakeWhenDue, P!Sessions
    <2>5. P!CancelStands' /\ P!OneActivePerImage'
      <3>1. \A m \in Message : pending'[m] = "pending" => pending[m] = "pending"
        BY <1>17 DEF P!Confirm, P!ConfirmAs, P!Answered, P!FoundOverdue, P!Executed, P!Failed,
           P!TypeOK
      <3>2. P!OneActivePerImage'
        BY <3>1 DEF P!OneActivePerImage
      <3>3. \A m \in Message : \/ /\ pending'[m] = pending[m] /\ applied'[m] = applied[m]
                                  /\ "cancelled" \in told'[m]
                                       => "cancelled" \in told[m] \/ pending[m] = "cancelled"
                               \/ /\ pending[m] \notin {"cancelled", "purged"}
                                  /\ "cancelled" \in told'[m] => "cancelled" \in told[m]
        <4>1. CASE P!Answered(s, pending[s])
          BY <1>17, <4>1 DEF P!Confirm, P!Answered, P!Repeats, P!Tell, P!TypeOK
        <4>2. CASE P!FoundOverdue(s, pending[s]) \/ P!Failed(s, pending[s])
          BY <1>17, <4>2 DEF P!Confirm, P!FoundOverdue, P!Failed, P!MayConfirm, P!TypeOK
        <4>3. CASE P!Executed(s, pending[s])
          BY <1>17, <4>3 DEF P!Confirm, P!Executed, P!MayConfirm, P!Tell, P!TypeOK
        <4> QED
          BY <1>17, <4>1, <4>2, <4>3 DEF P!Confirm, P!ConfirmAs
      <3>4. P!CancelStands'
        BY <3>3 DEF P!CancelStands, P!TablesAgree, P!TypeOK
      <3> QED
        BY <3>2, <3>4
    <2>6. P!ExecutedOnce' /\ P!TablesAgree'
      BY <1>17 DEF P!Confirm, P!ConfirmAs, P!Answered, P!FoundOverdue, P!Executed, P!Failed,
         P!MayConfirm, P!Repeats, P!Tell, P!MarkOccurrence, P!TypeOK, P!Work, P!ExecutedOnce,
         P!TablesAgree, P!OccurrenceFirst, P!Sessions, P!Final
    <2> QED BY <2>1, <2>2, <2>3, <2>4, <2>5, <2>6
  <1>18. ASSUME NEW s \in P!Source, P!Cancel(s) PROVE P!IInv'
    <2>1. P!TypeOK'
      <3>2. CASE P!Answered(s, pending[s]) \/ P!FoundOverdue(s, pending[s])
        BY <1>18, <3>2, ConfirmTypes DEF P!ConfirmAs, P!Cancel, P!TypeOK
      <3>3. CASE /\ pending' = [pending EXCEPT ![s] = "cancelled"]
                 /\ P!MarkOccurrence(s, "cancelled") /\ P!Tell(s, "cancelled")
                 /\ UNCHANGED <<applied, failed>>
        <4>1. told' \in [P!Source -> SUBSET P!Answer]
          BY <3>3 DEF P!Tell, P!TypeOK
        <4>2. occurrence' \in [P!Occurrence -> P!OccurrenceStatus]
          BY <3>3 DEF P!MarkOccurrence, P!TypeOK, P!OccurrenceStatus
        <4>3. pending' \in [P!Source -> P!PendingStatus]
          BY <3>3 DEF P!TypeOK, P!PendingStatus, P!Final
        <4> QED
          BY <1>18, <3>3, <4>1, <4>2, <4>3 DEF P!Cancel, P!TypeOK
      <3> QED
        BY <1>18, <3>2, <3>3 DEF P!Cancel
    <2>2. P!Sessions'
      <3>2. CASE P!Answered(s, pending[s]) \/ P!FoundOverdue(s, pending[s])
        BY <1>18, <3>2, ConfirmTypes, SessionsKept DEF P!ConfirmAs, P!Cancel
      <3>3. CASE /\ pending' = [pending EXCEPT ![s] = "cancelled"]
                 /\ P!MarkOccurrence(s, "cancelled") /\ P!Tell(s, "cancelled")
                 /\ UNCHANGED <<applied, failed>>
        <4>1. \A x \in P!Source : pending'[x] = pending[x] \/ pending'[x] = "cancelled"
          BY <3>3 DEF P!TypeOK
        <4>2. session' = session
          BY <1>18 DEF P!Cancel
        <4> QED
          BY <4>1, <4>2, SessionsKept
      <3> QED
        BY <1>18, <3>2, <3>3 DEF P!Cancel
    <2>3. P!AwakeWhenDue'
      BY <1>18, FirstAfterIsLater DEF P!Cancel, P!Answered, P!FoundOverdue, P!MayConfirm, P!Tell,
         P!MarkOccurrence, P!TypeOK, P!AwakeWhenDue, P!Sessions
    <2>4. P!OccurrenceFirst' /\ P!NoBackfill'
      BY <1>18 DEF P!Cancel, P!Answered, P!FoundOverdue, P!MayConfirm, P!Tell, P!MarkOccurrence,
         P!TypeOK, P!Work, P!OccurrenceFirst, P!NoBackfill, P!AwakeWhenDue, P!Sessions
    <2>5. P!CancelStands' /\ P!OneActivePerImage'
      <3>1. P!OneActivePerImage'
        BY <1>18 DEF P!Cancel, P!Answered, P!FoundOverdue, P!MayConfirm, P!TypeOK,
           P!OneActivePerImage
      <3>5. \A x \in P!Source : /\ x # s => pending'[x] = pending[x] /\ told'[x] = told[x]
                              /\ applied'[x] = applied[x]
        BY <1>18 DEF P!Cancel, P!Answered, P!FoundOverdue, P!Tell, P!TypeOK
      <3>2. P!CancelStands'
        <4> SUFFICES ASSUME NEW m \in Message, "cancelled" \in told'[m]
                     PROVE  applied'[m] = 0 /\ pending'[m] \in {"cancelled", "purged"}
          BY DEF P!CancelStands
        <4>1. m \in P!Source /\ m \notin P!Occurrence
          BY Sources DEF P!PendingAssumption
        <4>2. "cancelled" \in told[m]
                => applied[m] = 0 /\ pending[m] \in {"cancelled", "purged"}
          BY DEF P!CancelStands
        <4>3. CASE m # s
          BY <4>1, <4>2, <4>3, <3>5
        <4>4. CASE m = s /\ P!Answered(s, pending[s])
          <5>1. told'[s] = told[s] \cup ({pending[s]} \cap P!Answer) /\ pending' = pending
            BY <4>4 DEF P!Answered, P!Tell, P!TypeOK
          <5>2. pending[s] = "cancelled" => applied[s] = 0
            BY <4>1, <4>4 DEF P!TablesAgree, P!TypeOK, P!HasMembers
          <5> QED
            BY <4>1, <4>2, <4>4, <3>5, <5>1, <5>2
        <4>5. CASE m = s /\ P!FoundOverdue(s, pending[s])
          <5>1. told' = told /\ pending[s] = "pending"
            BY <4>5 DEF P!FoundOverdue, P!MayConfirm, P!history
          <5> QED
            BY <4>2, <4>5, <5>1
        <4>6. CASE m = s /\ pending[s] = "pending" /\ pending' = [pending EXCEPT ![s] = "cancelled"]
          <5>1. applied[s] = 0
            BY <4>1, <4>6 DEF P!TablesAgree, P!TypeOK, P!HasMembers
          <5> QED
            BY <4>1, <4>6, <3>5, <5>1 DEF P!TypeOK
        <4> QED
          BY <1>18, <4>3, <4>4, <4>5, <4>6 DEF P!Cancel
      <3> QED
        BY <3>1, <3>2
    <2>6. P!ExecutedOnce' /\ P!TablesAgree'
      BY <1>18 DEF P!Cancel, P!Answered, P!FoundOverdue, P!MayConfirm, P!Tell, P!MarkOccurrence,
         P!TypeOK, P!Work, P!ExecutedOnce, P!TablesAgree, P!OccurrenceFirst, P!Sessions, P!Final
    <2> QED BY <2>1, <2>2, <2>3, <2>4, <2>5, <2>6
  <1>19. ASSUME NEW s \in P!Source, P!Purge(s) PROVE P!IInv'
    <2>1. P!TypeOK'
      BY <1>19 DEF P!Purge, P!TypeOK, P!RuleStatus, P!OccurrenceStatus, P!PendingStatus, P!Final,
         P!Answer, P!Work
    <2>2. P!Sessions'
      BY <1>19 DEF P!Purge, P!TypeOK, P!Work, P!Sessions
    <2>3. P!AwakeWhenDue'
      BY <1>19, FirstAfterIsLater DEF P!Purge, P!TypeOK, P!AwakeWhenDue, P!Sessions
    <2>4. P!OccurrenceFirst' /\ P!NoBackfill'
      <3>1. \A x \in P!Source : pending'[x] = IF x = s THEN "purged" ELSE pending[x]
        BY <1>19 DEF P!Purge, P!TypeOK
      <3>2. pending[s] # "none"
        BY <1>19 DEF P!Purge, P!Final
      <3> QED
        BY <1>19, <3>1, <3>2 DEF P!Purge, P!OccurrenceFirst, P!NoBackfill
    <2>5. P!CancelStands' /\ P!OneActivePerImage'
      BY <1>19 DEF P!Purge, P!TypeOK, P!Work, P!CancelStands, P!TablesAgree, P!OneActivePerImage,
         P!Sessions, P!Final, P!Answer
    <2>6. P!ExecutedOnce' /\ P!TablesAgree'
      BY <1>19 DEF P!Purge, P!TypeOK, P!Work, P!ExecutedOnce, P!TablesAgree, P!OccurrenceFirst,
         P!Sessions, P!Final
    <2> QED BY <2>1, <2>2, <2>3, <2>4, <2>5, <2>6
  <1>20. CASE UNCHANGED P!vars
    BY <1>20 DEF P!vars, P!TypeOK, P!Sessions, P!AwakeWhenDue, P!OccurrenceFirst, P!CancelStands,
                  P!NoBackfill, P!ExecutedOnce, P!TablesAgree, P!OneActivePerImage
  <1> QED
    BY <1>1, <1>2, <1>3, <1>4, <1>5, <1>6, <1>7, <1>8, <1>9, <1>10, <1>11, <1>12, <1>13, <1>14,
       <1>15, <1>16, <1>17, <1>18, <1>19, <1>20
    DEF P!Next, P!RuleCommand, P!RecurringWorker, P!CleanupWorker, P!SessionStarts,
        P!SessionFinishes

(* The inductive invariant holds of every behaviour of confirmations.      *)
THEOREM PendingInvariance ==
    ASSUME P!PendingAssumption
    PROVE  P!Spec => []P!IInv
  <1>1. P!Init => P!IInv
    BY PendingInit
  <1>2. P!IInv /\ [P!Next]_P!vars => P!IInv'
    BY PendingNext
  <1> QED
    BY <1>1, <1>2, PTL DEF P!Spec

(* A frozen command is executed at most once, however many handlers of its *)
(* owner and of other members confirm it (confirm_and_execute).            *)
THEOREM ExecutedOnceHolds ==
    ASSUME P!PendingAssumption
    PROVE  P!Spec => []P!ExecutedOnce
  <1>1. P!IInv => P!ExecutedOnce
    BY DEF P!IInv
  <1> QED
    BY <1>1, PendingInvariance, PTL

(* Status, ledger and occurrence agree on what was executed.               *)
THEOREM TablesAgreeHolds ==
    ASSUME P!PendingAssumption
    PROVE  P!Spec => []P!TablesAgree
  <1>1. P!IInv => P!TablesAgree
    BY DEF P!IInv
  <1> QED
    BY <1>1, PendingInvariance, PTL

(* Of a message's confirm and cancel only one succeeds.                    *)
THEOREM MessageDecidedOnceHolds ==
    ASSUME P!PendingAssumption
    PROVE  P!Spec => []P!MessageDecidedOnce
  <1>1. P!IInv => P!MessageDecidedOnce
    BY DEF P!IInv, P!CancelStands, P!MessageDecidedOnce
  <1> QED
    BY <1>1, PendingInvariance, PTL

(* The same photo never awaits two decisions.                              *)
THEOREM OneActivePerImageHolds ==
    ASSUME P!PendingAssumption
    PROVE  P!Spec => []P!OneActivePerImage
  <1>1. P!IInv => P!OneActivePerImage
    BY DEF P!IInv
  <1> QED
    BY <1>1, PendingInvariance, PTL

(* A resumed rule never asks for the periods it slept through.             *)
THEOREM NoBackfillHolds ==
    ASSUME P!PendingAssumption
    PROVE  P!Spec => []P!NoBackfill
  <1>1. P!IInv => P!NoBackfill
    BY DEF P!IInv
  <1> QED
    BY <1>1, PendingInvariance, PTL

(* Only the worker's sweep asks for a period, and only for one that has no *)
(* occurrence yet.                                                         *)
LEMMA StepNeverAsksAgain ==
    ASSUME P!PendingAssumption, P!IInv, [P!Next]_P!vars, NEW o \in P!Occurrence,
           occurrence[o] # "none", pending[o] # "pending"
    PROVE  pending'[o] # "pending"
  <1> USE Sources DEF P!IInv
  <1>1. ASSUME NEW R \in SUBSET Rule, P!Sweep(R) PROVE pending'[o] # "pending"
    BY <1>1 DEF P!Sweep, P!Ungenerated
  <1>2. ASSUME NEW w \in Session, P!Freeze(w) PROVE pending'[o] # "pending"
    BY <1>2 DEF P!Freeze, P!Sessions, P!TypeOK
  <1>3. ASSUME NEW w \in Session, P!SkipWrites(w) \/ P!MemberConfirms(w)
        PROVE  pending'[o] # "pending"
    BY <1>3 DEF P!SkipWrites, P!MemberConfirms, P!ConfirmAs, P!Answered, P!FoundOverdue,
       P!Executed, P!Failed,
                P!TypeOK
  <1>4. ASSUME NEW s \in P!Source, P!Confirm(s) \/ P!Cancel(s) \/ P!Purge(s)
        PROVE  pending'[o] # "pending"
    BY <1>4 DEF P!Confirm, P!Cancel, P!Purge, P!ConfirmAs, P!Answered, P!FoundOverdue,
       P!Executed, P!Failed,
                P!TypeOK
  <1>5. ASSUME NEW S \in SUBSET P!Source, P!ExpireBatch(S) PROVE pending'[o] # "pending"
    BY <1>5 DEF P!ExpireBatch
  <1>6. ASSUME NEW r \in Rule, P!RuleCommand(r) PROVE pending'[o] # "pending"
    BY <1>6 DEF P!RuleCommand, P!CreateRule, P!Move, P!Pause, P!Resume, P!Disable, P!unruled
  <1>7. ASSUME NEW w \in Session, P!SessionStarts(w) \/ P!Crash(w) PROVE pending'[o] # "pending"
    BY <1>7 DEF P!SessionStarts, P!SkipReads, P!StartParsing, P!MemberFinds, P!Crash
  <1>8. ASSUME NEW s \in P!Source, P!FallsOverdue(s) PROVE pending'[o] # "pending"
    BY <1>8 DEF P!FallsOverdue
  <1>9. CASE P!NextDay \/ UNCHANGED P!vars
    BY <1>9 DEF P!NextDay, P!vars
  <1> QED
    BY <1>1, <1>2, <1>3, <1>4, <1>5, <1>6, <1>7, <1>8, <1>9
    DEF P!Next, P!RecurringWorker, P!CleanupWorker, P!SessionFinishes

(* A decided, skipped or deleted period is never asked for again.          *)
THEOREM NeverAskedAgainHolds ==
    ASSUME P!PendingAssumption
    PROVE  P!Spec => P!NeverAskedAgain
  <1>1. P!IInv /\ [P!Next]_P!vars
          => [\A o \in P!Occurrence : occurrence[o] # "none" /\ pending[o] # "pending"
                                     => pending'[o] # "pending"]_P!vars
    BY StepNeverAsksAgain
  <1> QED
    BY <1>1, PendingInvariance, PTL DEF P!Spec, P!NeverAskedAgain
=============================================================================
