---------------------------- MODULE EventWorker ----------------------------
(***************************************************************************)
(* The reliable event queue of LarkLedger: table processed_events, the     *)
(* EventWorker processes that drain it, the business transaction of        *)
(* MessageProcessor, the operator's event replay and the retention jobs.   *)
(*                                                                         *)
(* An action is one database transaction, or one step of a worker between  *)
(* two of its awaits. Wall-clock time is abstracted: a lease is "live"     *)
(* until LeaseRunsOut, a retry is "later" until RetryFallsDue; the two are *)
(* the comparisons the code makes with the clock.                          *)
(***************************************************************************)
EXTENDS Naturals, FiniteSets

CONSTANTS Event,       \* Feishu event ids
          Worker,      \* worker owner ids (hostname:pid:nonce)
          None,        \* SQL NULL
          MaxAttempts, \* EVENT_MAX_ATTEMPTS
          BatchSize,   \* worker batch size
          MaxCrashes,  \* bound: attempts lost to a crash, a stop or a failed sweep
          MaxStalls,   \* bound: leases that run out under a live worker
          MaxReplays   \* bound: operator replays per event

ASSUME EventWorkerAssumption ==
    /\ None \notin Event /\ None \notin Worker
    /\ MaxAttempts \in Nat \ {0} /\ BatchSize \in Nat \ {0}
    /\ MaxCrashes \in Nat /\ MaxStalls \in Nat /\ MaxReplays \in Nat

VARIABLES
    row,      \* row[e]: e's row of processed_events
    outbox,   \* outbox[e]: reply_type of e's rows in reply_outbox
    entries,  \* entries[e]: ledger entries carry e's source_message_id
    writes,   \* writes[e]: history, ledger-writing transactions committed for e
    pendings, \* pendings[e]: history, pending confirmations committed for e
    worker,   \* worker[w]: the sweep w is in
    crashes, stalls

vars == <<row, outbox, entries, writes, pendings, worker, crashes, stalls>>

Status == {"absent", "received", "processing", "failed", "dead", "succeeded", "purged"}
ReplyType == {"text", "card", "file"}

Row == [status : Status, owner : Worker \cup {None},
        lease : {"none", "live", "expired"}, retry : {"none", "later", "due"},
        attempts : Nat, replays : Nat, committed : BOOLEAN]

NoRow == [status |-> "absent", owner |-> None, lease |-> "none", retry |-> "none",
          attempts |-> 0, replays |-> 0, committed |-> FALSE]

(* A worker runs its claimed batch one event at a time. Stage of the event *)
(* it is at: "run" business not committed by this attempt, "reply" nothing *)
(* left but the bookkeeping, "transient"/"permanent" an exception escaped. *)
Stage == {"ready", "run", "reply", "transient", "permanent"}
Sweep == [batch : SUBSET Event, cur : Event \cup {None}, stage : Stage]
Idle == [batch |-> {}, cur |-> None, stage |-> "ready"]

(* What an attempt may commit, by the reply intents committed with it.     *)
RepliesOf == [record  |-> {"text"}, command |-> {"text"},  refuse |-> {"text"},
              pending |-> {"card"}, report  |-> {"card"},  export |-> {"file", "text"}]
Outcome == DOMAIN RepliesOf
LedgerWrite == {"record", "command"}

TypeOK == /\ row \in [Event -> Row]
          /\ outbox \in [Event -> SUBSET ReplyType]
          /\ entries \in [Event -> BOOLEAN]
          /\ writes \in [Event -> Nat]
          /\ pendings \in [Event -> Nat]
          /\ worker \in [Worker -> Sweep]
          /\ crashes \in Nat /\ stalls \in Nat

Init == /\ row = [e \in Event |-> NoRow]
        /\ outbox = [e \in Event |-> {}]
        /\ entries = [e \in Event |-> FALSE]
        /\ writes = [e \in Event |-> 0]
        /\ pendings = [e \in Event |-> 0]
        /\ worker = [w \in Worker |-> Idle]
        /\ crashes = 0 /\ stalls = 0

-----------------------------------------------------------------------------
(* Helpers. An operator named X_Y is X with a bug of the kind a change to  *)
(* the code could bring in; no definition uses it, see the README.         *)

Claimable_NoTakeover(e) == \/ row[e].status = "received"
                           \/ row[e].status = "failed" /\ row[e].retry = "due"
Claimable(e) == \/ row[e].status = "received"
                \/ row[e].status = "failed" /\ row[e].retry = "due"
                \/ row[e].status = "processing" /\ row[e].lease = "expired"

Holds_NoOwner(w, e) == row[e].status = "processing"
(* The guard every outcome update carries in its WHERE clause.             *)
Holds(w, e) == row[e].status = "processing" /\ row[e].owner = w

(* The processor's pre-check: the event's business is already committed.   *)
AlreadyHandled(e) == outbox[e] # {} \/ row[e].committed

Conflict_NoReplyKey(e, o) == o = "record" /\ entries[e]
(* Committing outcome o for e breaks UNIQUE (event_id, reply_type) or      *)
(* UNIQUE (source_message_id, source_item_index).                          *)
Conflict(e, o) == \/ outbox[e] \cap RepliesOf[o] # {}
                  \/ o = "record" /\ entries[e]

(* business_committed_at is written with every result but a refusal.       *)
ProvesCommit(o) == o # "refuse"

FailureStatus(attempts, permanent) ==
    IF permanent \/ attempts >= MaxAttempts THEN "dead" ELSE "failed"

Replayable_AnyStatus(e) == /\ row[e].status \notin {"absent", "purged"}
                           /\ row[e].lease # "live"
                           /\ ~row[e].committed /\ outbox[e] = {} /\ ~entries[e]
(* The operator's preflight finds no reason against a replay.              *)
Replayable(e) == /\ row[e].status \in {"dead", "failed", "processing"}
                 /\ row[e].lease # "live"
                 /\ row[e].status = "processing" => row[e].lease = "expired"
                 /\ ~row[e].committed
                 /\ outbox[e] = {}
                 /\ ~entries[e]

(* Some worker still has e in its batch.                                   *)
InFlight(e) == \E w \in Worker : e \in worker[w].batch

(* Worker w is done with the event it was at.                              *)
NextItem(w) == worker' = [worker EXCEPT ![w].batch = @ \ {worker[w].cur},
                                        ![w].cur = None, ![w].stage = "ready"]
AtStage(w, s) == worker' = [worker EXCEPT ![w].stage = s]

dbVars == <<row, outbox, entries, writes, pendings>>
bounds == <<crashes, stalls>>

-----------------------------------------------------------------------------
(* Transport                                                               *)

(* T1: the first delivery inserts the row; a duplicate hits the primary    *)
(* key and changes nothing.                                                *)
Receive(e) == /\ row[e].status = "absent"
              /\ row' = [row EXCEPT ![e].status = "received"]
              /\ UNCHANGED <<outbox, entries, writes, pendings, worker, bounds>>

(* Clock                                                                   *)

(* A lease runs out; under a worker that is still at it, the bound counts. *)
LeaseRunsOut(e) ==
    /\ row[e].status = "processing" /\ row[e].lease = "live"
    /\ IF e \in worker[row[e].owner].batch
       THEN stalls < MaxStalls /\ stalls' = stalls + 1
       ELSE stalls' = stalls
    /\ row' = [row EXCEPT ![e].lease = "expired"]
    /\ UNCHANGED <<outbox, entries, writes, pendings, worker, crashes>>

RetryFallsDue(e) ==
    /\ row[e].status = "failed" /\ row[e].retry = "later"
    /\ row' = [row EXCEPT ![e].retry = "due"]
    /\ UNCHANGED <<outbox, entries, writes, pendings, worker, bounds>>

-----------------------------------------------------------------------------
(* Event worker                                                            *)

(* FOR UPDATE SKIP LOCKED: one transaction claims a batch. Which of the    *)
(* claimable rows it gets depends on the locks other transactions hold.    *)
Claim(w, S) ==
    /\ worker[w].batch = {}
    /\ S # {} /\ Cardinality(S) <= BatchSize
    /\ \A e \in S : Claimable(e)
    /\ row' = [e \in Event |->
                 IF e \in S
                 THEN [row[e] EXCEPT !.status = "processing", !.owner = w, !.lease = "live",
                                     !.retry = "none", !.attempts = @ + 1]
                 ELSE row[e]]
    /\ worker' = [worker EXCEPT ![w].batch = S]
    /\ UNCHANGED <<outbox, entries, writes, pendings, bounds>>

(* Start the next claimed event: no look at the lease, only the pre-check. *)
Begin(w, e) ==
    /\ worker[w].cur = None /\ e \in worker[w].batch
    /\ worker' = [worker EXCEPT ![w].cur = e,
                                ![w].stage = IF AlreadyHandled(e) THEN "reply" ELSE "run"]
    /\ UNCHANGED <<dbVars, bounds>>

(* T2: the business result, its reply intents and business_committed_at in *)
(* one transaction. The lease is not looked at here either.                *)
Commit(w, o) ==
    LET e == worker[w].cur IN
    /\ worker[w].stage = "run" /\ ~Conflict(e, o)
    /\ outbox' = [outbox EXCEPT ![e] = @ \cup RepliesOf[o]]
    /\ row' = [row EXCEPT ![e].committed = @ \/ ProvesCommit(o)]
    /\ entries' = [entries EXCEPT ![e] = @ \/ o = "record"]
    /\ writes' = [writes EXCEPT ![e] = IF o \in LedgerWrite THEN @ + 1 ELSE @]
    /\ pendings' = [pendings EXCEPT ![e] = IF o = "pending" THEN @ + 1 ELSE @]
    /\ AtStage(w, "reply")
    /\ UNCHANGED bounds

(* The same transaction rolled back by a unique constraint: IntegrityError,*)
(* a permanent error.                                                      *)
CommitConflict(w, o) ==
    /\ worker[w].stage = "run" /\ Conflict(worker[w].cur, o)
    /\ AtStage(w, "permanent")
    /\ UNCHANGED <<dbVars, bounds>>

(* The media is already waiting for a confirmation (seen before parsing,   *)
(* or by the fingerprint index at commit): only the proof is written.      *)
SuppressDuplicateMedia(w) ==
    /\ worker[w].stage = "run"
    /\ row' = [row EXCEPT ![worker[w].cur].committed = TRUE]
    /\ AtStage(w, "reply")
    /\ UNCHANGED <<outbox, entries, writes, pendings, bounds>>

(* A controlled rejection is answered directly; nothing is committed.      *)
AnswerDirectly(w) ==
    /\ worker[w].stage = "run"
    /\ AtStage(w, "reply")
    /\ UNCHANGED <<dbVars, bounds>>

(* Any other exception, before the commit or in the steps after it.        *)
Raise(w, kind) ==
    /\ worker[w].stage \in {"run", "reply"}
    /\ AtStage(w, kind)
    /\ UNCHANGED <<dbVars, bounds>>

Complete(w) ==
    LET e == worker[w].cur IN
    /\ worker[w].stage = "reply"
    /\ row' = IF Holds(w, e)
              THEN [row EXCEPT ![e].status = "succeeded", ![e].owner = None,
                               ![e].lease = "none", ![e].retry = "none"]
              ELSE row
    /\ NextItem(w)
    /\ UNCHANGED <<outbox, entries, writes, pendings, bounds>>

RecordFailure(w) ==
    LET e  == worker[w].cur
        st == FailureStatus(row[e].attempts, worker[w].stage = "permanent")
    IN
    /\ worker[w].stage \in {"transient", "permanent"}
    /\ row' = IF Holds(w, e)
              THEN [row EXCEPT ![e].status = st, ![e].owner = None, ![e].lease = "none",
                               ![e].retry = IF st = "failed" THEN "later" ELSE "none"]
              ELSE row
    /\ NextItem(w)
    /\ UNCHANGED <<outbox, entries, writes, pendings, bounds>>

(* The process dies, stop() cancels the task, or the sweep itself fails on *)
(* the database: the rest of the batch stays leased in the table.          *)
Abandon(w) ==
    /\ worker[w].batch # {} /\ crashes < MaxCrashes
    /\ worker' = [worker EXCEPT ![w] = Idle]
    /\ crashes' = crashes + 1
    /\ UNCHANGED <<dbVars, stalls>>

-----------------------------------------------------------------------------
(* Operator and retention                                                  *)

(* EventReplayService: preflight and requeue under FOR UPDATE.             *)
Replay(e) ==
    /\ Replayable(e) /\ row[e].replays < MaxReplays
    /\ row' = [row EXCEPT ![e].status = "received", ![e].attempts = 0,
                          ![e].replays = @ + 1, ![e].retry = "none",
                          ![e].owner = None, ![e].lease = "none"]
    /\ UNCHANGED <<outbox, entries, writes, pendings, worker, bounds>>

(* Retention is counted in days and an attempt in minutes: the jobs never  *)
(* meet an event that is still in some worker's batch.                     *)
PurgeReply(e, t) ==
    /\ t \in outbox[e] /\ ~InFlight(e)
    /\ outbox' = [outbox EXCEPT ![e] = @ \ {t}]
    /\ UNCHANGED <<row, entries, writes, pendings, worker, bounds>>

PurgeEvent(e) ==
    /\ row[e].status \in {"succeeded", "dead"}
    /\ outbox[e] = {} /\ ~InFlight(e)
    /\ row' = [row EXCEPT ![e] = [NoRow EXCEPT !.status = "purged"]]
    /\ UNCHANGED <<outbox, entries, writes, pendings, worker, bounds>>

-----------------------------------------------------------------------------
AttemptEnds(w) ==
    \/ \E o \in Outcome : Commit(w, o) \/ CommitConflict(w, o)
    \/ SuppressDuplicateMedia(w)
    \/ AnswerDirectly(w)
    \/ \E kind \in {"transient", "permanent"} : Raise(w, kind)

WorkerStep(w) ==
    \/ \E S \in SUBSET Event : Claim(w, S)
    \/ \E e \in Event : Begin(w, e)
    \/ AttemptEnds(w)
    \/ Complete(w)
    \/ RecordFailure(w)

Next == \/ \E w \in Worker : WorkerStep(w) \/ Abandon(w)
        \/ \E e \in Event : \/ Receive(e) \/ LeaseRunsOut(e) \/ RetryFallsDue(e)
                            \/ Replay(e) \/ PurgeEvent(e)
                            \/ \E t \in ReplyType : PurgeReply(e, t)

Spec == Init /\ [][Next]_vars

(* The worker loop keeps sweeping and its awaits return (client timeouts); *)
(* the clock advances. Deliveries, operators and retention owe nothing.    *)
Fairness == /\ \A w \in Worker : WF_vars(WorkerStep(w))
            /\ \A e \in Event : WF_vars(LeaseRunsOut(e)) /\ WF_vars(RetryFallsDue(e))

FairSpec == Spec /\ Fairness

-----------------------------------------------------------------------------
(* Safety                                                                  *)

(* The ledger write of one event is committed at most once and so is its   *)
(* pending confirmation, although the business transaction never looks at  *)
(* the lease: two attempts of a taken-over event race on the unique keys,  *)
(* and retries, retention and operator replays come on top.                *)
AtMostOnce == \A e \in Event : writes[e] <= 1 /\ pendings[e] <= 1

(* business_committed_at is a durable proof: as long as the row exists, a  *)
(* committed result is on record even when its reply intents are purged.   *)
ResultIsProven ==
    \A e \in Event : writes[e] + pendings[e] > 0 /\ row[e].status # "purged"
                        => row[e].committed

(* An attempt that is about to commit a result of an event that has one is *)
(* stopped by the reply intent of the first, which retention left in place.*)
LateCommitIsFenced ==
    \A w \in Worker : worker[w].stage = "run" =>
        LET e == worker[w].cur IN
        /\ writes[e] > 0 => "text" \in outbox[e]
        /\ pendings[e] > 0 => "card" \in outbox[e]

(* The inductive invariant behind these: what a worker is at is in its     *)
(* batch, and what is in a batch is a row that exists.                     *)
Attempts == \A w \in Worker : /\ worker[w].stage = "ready" <=> worker[w].cur = None
                              /\ worker[w].cur # None => worker[w].cur \in worker[w].batch
BatchedExists == \A e \in Event : InFlight(e) => row[e].status \notin {"absent", "purged"}
IInv == TypeOK /\ Attempts /\ BatchedExists /\ ResultIsProven /\ LateCommitIsFenced /\ AtMostOnce

(* Only the holder of the lease, at the end of its own attempt, decides    *)
(* the outcome of an event: a worker that was taken over changes nothing.  *)
OutcomeByHolder ==
    [][\A e \in Event :
          row[e].status = "processing" /\ row'[e].status \in {"succeeded", "failed", "dead"}
            => LET w == row[e].owner IN
               /\ worker[w].cur = e /\ worker'[w].cur = None
               /\ row'[e].status = "succeeded" <=> worker[w].stage = "reply"]_vars

(* No operator replay requeues an event whose business result is committed,*)
(* even after retention removed the reply intents that would show it.      *)
ReplayNeverRepeats ==
    [][\A e \in Event : row'[e].replays > row[e].replays
                          => writes[e] = 0 /\ pendings[e] = 0]_vars

(* The queue implements the life of an event it promises.                  *)
LifeOf == [absent |-> "unseen", received |-> "waiting", failed |-> "waiting",
           processing |-> "attempted", succeeded |-> "settled", dead |-> "abandoned",
           purged |-> "forgotten"]
life == [e \in Event |-> LifeOf[row[e].status]]
Lifecycle == INSTANCE EventLifecycle WITH applied <- writes
ImplementsLifecycle == Lifecycle!Spec

(* Liveness: with workers that keep sweeping and finitely many crashes, a  *)
(* received event is eventually succeeded or dead.                         *)
EventuallySettled ==
    \A e \in Event : row[e].status = "received"
                       ~> row[e].status \in {"succeeded", "dead", "purged"}

(* What the documents claim and the code does not keep, see the README.    *)

(* "The maximum number of attempts includes the first one."                *)
AttemptsWithinBudget == \A e \in Event : row[e].attempts <= MaxAttempts

(* "Database leases make several workers safe": one business result.       *)
OneBusinessResult == \A e \in Event : writes[e] + pendings[e] <= 1

=============================================================================
