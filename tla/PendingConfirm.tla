--------------------------- MODULE PendingConfirm ---------------------------
(***************************************************************************)
(* Confirmations: commands frozen in pending_commands until their owner    *)
(* confirms or cancels them, and the recurring rules whose worker freezes  *)
(* one such command for every period (recurring_occurrences).              *)
(*                                                                         *)
(* An action is one database transaction, or the part of one between two   *)
(* reads that no lock protects. Confirm and cancel hold the row lock of    *)
(* their pending from the first read to the commit and are one step; a     *)
(* member's confirm, a skip and the freezing of a message are two, and     *)
(* other transactions run in between. The calendar is abstracted to a      *)
(* schedule with a fixed period, expires_at to "overdue".                  *)
(***************************************************************************)
EXTENDS Naturals, FiniteSets

CONSTANTS Rule,      \* recurring rules
          Shared,    \* the rules whose ledger has other members
          Message,   \* messages and photos whose command needs a confirmation
          Image,     \* Image[m]: fingerprint of m's media, None if it has none
          Session,   \* database sessions of handlers
          None,
          LastDay,   \* bound: business dates 0 .. LastDay
          Period,    \* days between two occurrences of a rule
          BatchSize, \* RECURRING_BATCH_SIZE
          MaxMoves,  \* bound: re-schedulings of a rule
          MaxFailures, \* bound: commands with a deterministic failure
          MaxCrashes \* bound: transactions that never commit

Day == 0..LastDay
(* What is confirmed: one period of a rule, or one message.                *)
Occurrence == Rule \X Day
Source == Occurrence \cup Message

ASSUME PendingAssumption ==
    /\ Shared \subseteq Rule /\ Occurrence \cap Message = {} /\ None \notin Source
    /\ LastDay \in Nat /\ Period \in Nat \ {0} /\ BatchSize \in Nat \ {0}
    /\ MaxMoves \in Nat /\ MaxFailures \in Nat /\ MaxCrashes \in Nat
    /\ DOMAIN Image = Message

VARIABLES
    today,      \* business date
    rule,       \* rule[r]: r's row of recurring_rules
    occurrence, \* occurrence[o]: status in recurring_occurrences
    pending,    \* pending[s]: status in pending_commands
    overdue,    \* overdue[s]: expires_at <= now
    applied,    \* applied[s]: history, executions of s's command committed
    told,       \* told[s]: history, what committed replies said of s
    failed,     \* history, a confirm of these failed deterministically
    ignored,    \* messages suppressed as duplicates of an active media
    awake,      \* awake[r]: history, days on which r was active
    session, crashes

vars == <<today, rule, occurrence, pending, overdue, applied, told, failed,
          ignored, awake, session, crashes>>

RuleStatus == {"absent", "active", "paused", "disabled"}
OccurrenceStatus == {"none", "pending", "confirmed", "skipped", "cancelled", "failed"}
Final == {"executed", "cancelled", "expired", "failed"}
PendingStatus == {"none", "pending", "purged"} \cup Final
Answer == {"executed", "cancelled"}

(* The first read of a transaction that is not protected by a lock:        *)
(* "found" a member's confirm, "skip" a skip, "parse" a message.           *)
Work == [at : {"idle", "found", "skip", "parse"}, src : Source \cup {None},
         seen : OccurrenceStatus]
Idle == [at |-> "idle", src |-> None, seen |-> "none"]

TypeOK ==
    /\ today \in Day
    /\ rule \in [Rule -> [status : RuleStatus, next : Nat, moves : Nat]]
    /\ occurrence \in [Occurrence -> OccurrenceStatus]
    /\ pending \in [Source -> PendingStatus]
    /\ overdue \in [Source -> BOOLEAN]
    /\ applied \in [Source -> Nat]
    /\ told \in [Source -> SUBSET Answer]
    /\ failed \subseteq Source /\ ignored \subseteq Message
    /\ awake \in [Rule -> SUBSET Day]
    /\ session \in [Session -> Work]
    /\ crashes \in Nat

Init ==
    /\ today = 0
    /\ rule = [r \in Rule |-> [status |-> "absent", next |-> 0, moves |-> 0]]
    /\ occurrence = [o \in Occurrence |-> "none"]
    /\ pending = [s \in Source |-> "none"]
    /\ overdue = [s \in Source |-> FALSE]
    /\ applied = [s \in Source |-> 0]
    /\ told = [s \in Source |-> {}]
    /\ failed = {} /\ ignored = {}
    /\ awake = [r \in Rule |-> {}]
    /\ session = [w \in Session |-> Idle]
    /\ crashes = 0

-----------------------------------------------------------------------------
(* Helpers. An operator named X_Y is X with a bug of the kind a change to  *)
(* the code could bring in; no definition uses it, see the README.         *)

HasMembers(s) == s \in Occurrence /\ s[1] \in Shared

(* A skip holds the rule's row lock from its first read to its commit.     *)
Locked(r) == \E w \in Session : session[w].at = "skip" /\ session[w].src[1] = r

Claimable_BeforeToday(r) == rule[r].status = "active" /\ rule[r].next < today /\ ~Locked(r)
(* The rules the worker's FOR UPDATE SKIP LOCKED can get.                  *)
Claimable(r) == rule[r].status = "active" /\ rule[r].next <= today /\ ~Locked(r)

Ungenerated_ByPending(o) == pending[o] \in {"none", "purged"}
(* No occurrence row carries this (rule_id, occurrence_date) yet.          *)
Ungenerated(o) == occurrence[o] = "none"

(* resume: the first date of the schedule after t.                         *)
FirstAfter(next, t) == IF next > t THEN next
                       ELSE next + Period * ((t - next) \div Period + 1)

(* The unique index on active fingerprints already has m's media.          *)
ActiveImage(m) == /\ Image[m] # None
                  /\ \E n \in Message : Image[n] = Image[m] /\ pending[n] = "pending"

(* Executing s again breaks UNIQUE (source_message_id, source_item_index): *)
(* the command of an occurrence always creates an entry.                   *)
Repeats(s) == s \in Occurrence /\ applied[s] > 0

(* skip: UPDATE pending_commands ... WHERE status = 'pending'.             *)
SkipCancels(s) == pending[s] = "pending"

Expirable_MessagesOnly(s) == s \in Message /\ pending[s] = "pending" /\ overdue[s]
Expirable(s) == pending[s] = "pending" /\ overdue[s]

Tell(s, answer) == told' = [told EXCEPT ![s] = @ \cup ({answer} \cap Answer)]
(* Every change to the occurrence is made only while it is still pending.  *)
MarkOccurrence(s, status) ==
    occurrence' = IF s \in Occurrence /\ occurrence[s] = "pending"
                  THEN [occurrence EXCEPT ![s] = status]
                  ELSE occurrence

MayConfirm_NotDone(status) == status \notin {"executed", "failed"}
MayConfirm(status) == status = "pending"

ruleVars == <<rule, awake>>
history == <<applied, told, failed>>

-----------------------------------------------------------------------------
(* Clock                                                                   *)

NextDay ==
    /\ today < LastDay
    /\ today' = today + 1
    /\ awake' = [r \in Rule |-> IF rule[r].status = "active" THEN awake[r] \cup {today + 1}
                                ELSE awake[r]]
    /\ UNCHANGED <<rule, occurrence, pending, overdue, history, ignored, session, crashes>>

FallsOverdue(s) ==
    /\ pending[s] \notin {"none", "purged"} /\ ~overdue[s]
    /\ overdue' = [overdue EXCEPT ![s] = TRUE]
    /\ UNCHANGED <<today, ruleVars, occurrence, pending, history, ignored, session, crashes>>

-----------------------------------------------------------------------------
(* Recurring rules: each command holds the rule's row lock                 *)

unruled == <<today, occurrence, pending, overdue, history, ignored, session, crashes>>
Wakes(r) == awake' = [awake EXCEPT ![r] = @ \cup {today}]

CreateRule(r, d) ==
    /\ rule[r].status = "absent" /\ d >= today
    /\ rule' = [rule EXCEPT ![r].status = "active", ![r].next = d]
    /\ Wakes(r)
    /\ UNCHANGED unruled

(* Any rule can be re-scheduled, onto a past period's date as well.        *)
Move(r, d) ==
    /\ rule[r].status # "absent" /\ ~Locked(r) /\ d >= today
    /\ rule[r].moves < MaxMoves
    /\ rule' = [rule EXCEPT ![r].next = d, ![r].moves = @ + 1]
    /\ UNCHANGED <<unruled, awake>>

Pause(r) ==
    /\ rule[r].status = "active" /\ ~Locked(r)
    /\ rule' = [rule EXCEPT ![r].status = "paused"]
    /\ UNCHANGED <<unruled, awake>>

Resume(r) ==
    /\ rule[r].status = "paused" /\ ~Locked(r)
    /\ rule' = [rule EXCEPT ![r].status = "active", ![r].next = FirstAfter(@, today)]
    /\ Wakes(r)
    /\ UNCHANGED unruled

Disable(r) ==
    /\ rule[r].status \in {"active", "paused"} /\ ~Locked(r)
    /\ rule' = [rule EXCEPT ![r].status = "disabled"]
    /\ UNCHANGED <<unruled, awake>>

(* skip_occurrence: locks the rule, reads its occurrence without a lock. A *)
(* decided occurrence is a conflict and changes nothing.                   *)
SkipReads(w, r) ==
    LET o == <<r, rule[r].next>> IN
    /\ session[w] = Idle
    /\ rule[r].status = "active" /\ ~Locked(r) /\ rule[r].next \in Day
    /\ occurrence[o] \in {"none", "pending", "skipped"}
    /\ session' = [session EXCEPT ![w] = [at |-> "skip", src |-> o, seen |-> occurrence[o]]]
    /\ UNCHANGED <<today, ruleVars, occurrence, pending, overdue, history, ignored, crashes>>

(* ... cancels what it saw pending and writes the occurrence it had read.  *)
SkipWrites(w) ==
    LET o == session[w].src IN
    /\ session[w].at = "skip"
    /\ pending' = IF session[w].seen = "pending" /\ SkipCancels(o)
                  THEN [pending EXCEPT ![o] = "cancelled"]
                  ELSE pending
    /\ occurrence' = [occurrence EXCEPT ![o] = "skipped"]
    /\ rule' = [rule EXCEPT ![o[1]].next = @ + Period]
    /\ session' = [session EXCEPT ![w] = Idle]
    /\ UNCHANGED <<today, awake, overdue, history, ignored, crashes>>

(* One sweep of the recurring worker: a batch of due rules in the order of *)
(* their dates; each gets its occurrence, pending command and reminder     *)
(* unless the occurrence exists, and moves to its next date in any case.   *)
Sweep(R) ==
    LET due == {r \in Rule : Claimable(r)}
        fresh == {<<r, rule[r].next>> : r \in R} \cap {o \in Occurrence : Ungenerated(o)}
    IN
    /\ R # {} /\ R \subseteq due
    /\ Cardinality(R) = BatchSize \/ (R = due /\ Cardinality(R) < BatchSize)
    /\ \A r \in R, q \in due \ R : rule[r].next <= rule[q].next
    /\ occurrence' = [o \in Occurrence |-> IF o \in fresh THEN "pending" ELSE occurrence[o]]
    /\ pending' = [s \in Source |-> IF s \in fresh THEN "pending" ELSE pending[s]]
    /\ rule' = [r \in Rule |-> IF r \in R THEN [rule[r] EXCEPT !.next = @ + Period]
                               ELSE rule[r]]
    /\ UNCHANGED <<today, awake, overdue, history, ignored, session, crashes>>

-----------------------------------------------------------------------------
(* Messages and photos                                                     *)

(* The look at the active fingerprints, before the media is interpreted.   *)
StartParsing(w, m) ==
    /\ session[w] = Idle /\ pending[m] = "none" /\ m \notin ignored
    /\ IF ActiveImage(m)
       THEN /\ ignored' = ignored \cup {m}
            /\ UNCHANGED session
       ELSE /\ session' = [session EXCEPT ![w] = [Idle EXCEPT !.at = "parse", !.src = m]]
            /\ UNCHANGED ignored
    /\ UNCHANGED <<today, ruleVars, occurrence, pending, overdue, history, crashes>>

(* The commit of the pending command and its card; the unique keys refuse  *)
(* a second one of the event or of an active media.                        *)
Freeze(w) ==
    LET m == session[w].src IN
    /\ session[w].at = "parse"
    /\ pending' = IF pending[m] = "none" /\ ~ActiveImage(m)
                  THEN [pending EXCEPT ![m] = "pending"]
                  ELSE pending
    /\ ignored' = IF ActiveImage(m) THEN ignored \cup {m} ELSE ignored
    /\ session' = [session EXCEPT ![w] = Idle]
    /\ UNCHANGED <<today, ruleVars, occurrence, overdue, history, crashes>>

-----------------------------------------------------------------------------
(* Confirm and cancel                                                      *)

(* Already decided: the reply repeats the decision.                        *)
Answered(s, status) ==
    /\ status \in Final
    /\ Tell(s, status)
    /\ UNCHANGED <<pending, occurrence, applied, failed>>

FoundOverdue(s, status) ==
    /\ MayConfirm(status) /\ overdue[s]
    /\ pending' = [pending EXCEPT ![s] = "expired"]
    /\ UNCHANGED <<occurrence, history>>

(* The frozen command, the new status, the occurrence and the reply in one *)
(* transaction.                                                            *)
Executed(s, status) ==
    /\ MayConfirm(status) /\ ~overdue[s] /\ ~Repeats(s)
    /\ applied' = [applied EXCEPT ![s] = @ + 1]
    /\ pending' = [pending EXCEPT ![s] = "executed"]
    /\ MarkOccurrence(s, "confirmed")
    /\ Tell(s, "executed")
    /\ UNCHANGED failed

(* The command fails for good and is rolled back. The code then reads the  *)
(* expired instance of the pending row, which raises in turn: the update   *)
(* to failed never commits. (A transient failure changes nothing at all.)  *)
Failed(s, status) ==
    /\ MayConfirm(status) /\ ~overdue[s]
    /\ failed' = failed \cup {s} /\ Cardinality(failed') <= MaxFailures
    /\ UNCHANGED <<pending, occurrence, applied, told>>

ConfirmAs(s, status) == \/ Answered(s, status)
                        \/ FoundOverdue(s, status)
                        \/ Executed(s, status)
                        \/ Failed(s, status)

(* The owner's confirm: decided on the row as it is under its lock. A row  *)
(* that is not found or not accessible any more is refused and unchanged.  *)
Confirm(s) ==
    /\ pending[s] \in {"pending"} \cup Final
    /\ ConfirmAs(s, pending[s])
    /\ UNCHANGED <<today, ruleVars, overdue, ignored, session, crashes>>

(* A member's confirm of a shared occurrence: found without a lock ...     *)
MemberFinds(w, o) ==
    /\ session[w] = Idle /\ HasMembers(o) /\ pending[o] = "pending"
    /\ session' = [session EXCEPT ![w] = [Idle EXCEPT !.at = "found", !.src = o]]
    /\ UNCHANGED <<today, ruleVars, occurrence, pending, overdue, history, ignored, crashes>>

(* ... then locked, but the session keeps the attributes it loaded first.  *)
MemberConfirms(w) ==
    /\ session[w].at = "found"
    /\ ConfirmAs(session[w].src, "pending")
    /\ session' = [session EXCEPT ![w] = Idle]
    /\ UNCHANGED <<today, ruleVars, overdue, ignored, crashes>>

Cancel(s) ==
    /\ pending[s] \in {"pending"} \cup Final
    /\ \/ Answered(s, pending[s])
       \/ FoundOverdue(s, pending[s])
       \/ /\ pending[s] = "pending" /\ ~overdue[s]
          /\ pending' = [pending EXCEPT ![s] = "cancelled"]
          /\ MarkOccurrence(s, "cancelled")
          /\ Tell(s, "cancelled")
          /\ UNCHANGED <<applied, failed>>
    /\ UNCHANGED <<today, ruleVars, overdue, ignored, session, crashes>>

-----------------------------------------------------------------------------
(* Retention and crashes                                                   *)

(* The cleanup worker expires what is overdue; occurrences are untouched.  *)
ExpireBatch(S) ==
    /\ S # {} /\ \A s \in S : Expirable(s)
    /\ pending' = [s \in Source |-> IF s \in S THEN "expired" ELSE pending[s]]
    /\ UNCHANGED <<today, ruleVars, occurrence, overdue, history, ignored, session, crashes>>

(* Retention is counted in days and a request in seconds: a decided row is *)
(* not deleted while a transaction is still at it.                         *)
Purge(s) ==
    /\ pending[s] \in Final /\ \A w \in Session : session[w].src # s
    /\ pending' = [pending EXCEPT ![s] = "purged"]
    /\ UNCHANGED <<today, ruleVars, occurrence, overdue, history, ignored, session, crashes>>

(* The transaction dies: its locks are released and nothing is written.    *)
Crash(w) ==
    /\ session[w] # Idle /\ crashes < MaxCrashes
    /\ session' = [session EXCEPT ![w] = Idle]
    /\ crashes' = crashes + 1
    /\ UNCHANGED <<today, ruleVars, occurrence, pending, overdue, history, ignored>>

-----------------------------------------------------------------------------
RuleCommand(r) == \/ \E d \in Day : CreateRule(r, d) \/ Move(r, d)
                  \/ Pause(r) \/ Resume(r) \/ Disable(r)

SessionFinishes(w) == SkipWrites(w) \/ Freeze(w) \/ MemberConfirms(w)

SessionStarts(w) == \/ \E r \in Rule : SkipReads(w, r)
                    \/ \E m \in Message : StartParsing(w, m)
                    \/ \E o \in Occurrence : MemberFinds(w, o)

RecurringWorker == \E R \in SUBSET Rule : Sweep(R)
CleanupWorker == \E S \in SUBSET Source : ExpireBatch(S)

Next == \/ NextDay
        \/ \E r \in Rule : RuleCommand(r)
        \/ RecurringWorker \/ CleanupWorker
        \/ \E w \in Session : SessionStarts(w) \/ SessionFinishes(w) \/ Crash(w)
        \/ \E s \in Source : FallsOverdue(s) \/ Confirm(s) \/ Cancel(s) \/ Purge(s)

Spec == Init /\ [][Next]_vars

(* The workers keep polling, a running transaction ends and expires_at     *)
(* passes. Users, operators and deletion owe nothing.                      *)
Fairness == /\ WF_vars(RecurringWorker) /\ WF_vars(CleanupWorker)
            /\ \A w \in Session : WF_vars(SessionFinishes(w))
            /\ \A s \in Source : WF_vars(FallsOverdue(s))

FairSpec == Spec /\ Fairness

-----------------------------------------------------------------------------
(* Safety                                                                  *)

(* A frozen command is executed at most once, whoever confirms it and how  *)
(* often: the row lock for its owner, the entries' unique key for members. *)
ExecutedOnce == \A s \in Source : applied[s] <= 1

(* The tables agree on what was executed: the status, the ledger and the   *)
(* occurrence, as long as the pending row is kept. (A member's confirm may *)
(* overwrite an executed shared occurrence with expired.)                  *)
TablesAgree ==
    \A s \in Source :
        /\ pending[s] = "executed" => applied[s] > 0
        /\ applied[s] > 0 => pending[s] \in {"executed", "purged"}
                               \cup (IF HasMembers(s) THEN {"expired"} ELSE {})
        /\ s \in Occurrence => (occurrence[s] = "confirmed" => applied[s] > 0)

(* Of a message's confirm and cancel only one succeeds: nobody who was     *)
(* told "cancelled, nothing was written" has an entry in the ledger.       *)
MessageDecidedOnce == \A m \in Message : "cancelled" \in told[m] => applied[m] = 0

(* Exactly the same photos await at most one decision.                     *)
OneActivePerImage ==
    \A m, n \in Message :
        m # n /\ Image[m] # None /\ Image[m] = Image[n]
          => ~(pending[m] = "pending" /\ pending[n] = "pending")

(* A resumed rule never asks for the periods it slept through.             *)
NoBackfill == \A o \in Occurrence : pending[o] # "none" => o[2] \in awake[o[1]]

(* The inductive invariant behind these. A transaction that has begun is   *)
(* at a row of the right kind, which is there;                             *)
Sessions ==
    \A w \in Session :
        LET s == session[w].src IN
        /\ session[w].at = "parse" => s \in Message
        /\ session[w].at = "skip" => s \in Occurrence
        /\ session[w].at = "found" => HasMembers(s) /\ pending[s] \notin {"none", "purged"}
(* an active rule was active on every day it still has to ask for;         *)
AwakeWhenDue ==
    \A r \in Rule :
        rule[r].status = "active" => /\ today \in awake[r]
                                     /\ \A d \in Day : rule[r].next <= d /\ d <= today
                                                        => d \in awake[r]
(* a period has no pending row before it has an occurrence;                *)
OccurrenceFirst == \A o \in Occurrence : occurrence[o] = "none" => pending[o] = "none"
(* and a message's cancellation stands.                                    *)
CancelStands == \A m \in Message : "cancelled" \in told[m]
                                     => applied[m] = 0 /\ pending[m] \in {"cancelled", "purged"}
IInv == /\ TypeOK /\ Sessions /\ AwakeWhenDue /\ OccurrenceFirst /\ CancelStands
        /\ NoBackfill /\ ExecutedOnce /\ TablesAgree /\ OneActivePerImage

(* A period is asked for once: not again when the rule is moved back onto  *)
(* its date, when it was skipped, or when its pending row was deleted.     *)
NeverAskedAgain ==
    [][\A o \in Occurrence : occurrence[o] # "none" /\ pending[o] # "pending"
                               => pending'[o] # "pending"]_vars

(* Liveness: a due period of an active rule is asked for or passed over.   *)
DueIsHandled ==
    \A r \in Rule, d \in Day :
        rule[r].status = "active" /\ rule[r].next = d /\ d <= today
          ~> rule[r].status # "active" \/ rule[r].next # d

(* Liveness: a pending command does not wait forever.                      *)
PendingIsDecided == \A s \in Source : pending[s] = "pending" ~> pending[s] # "pending"

(* What the documents claim and the code does not keep, see the README.    *)

(* "Of a concurrent confirm and cancel only one succeeds."                 *)
OneOfConfirmAndCancel == \A s \in Source : "cancelled" \in told[s] => applied[s] = 0

(* "Deterministic failures mark the pending failed."                       *)
FailureIsMarked == \A s \in failed : pending[s] \in {"failed", "purged"}
=============================================================================
