---------------------------- MODULE Conversation ----------------------------
(***************************************************************************)
(* What is said to the assistant in the browser. A sentence goes through   *)
(* one pipeline (interpret, weigh the risk, then ask for confirmation or   *)
(* execute), in one transaction with the idempotency record of its request *)
(* and, when it belongs to a conversation, with its question and its       *)
(* answer in the conversation's bounded history. The entry form of the     *)
(* browser shares the record and the execution.                            *)
(*                                                                         *)
(* A handler is one HTTP request with its transaction. From the question   *)
(* to the end it holds the row lock of its conversation, the call of the   *)
(* AI provider included: row is its own, uncommitted copy.                 *)
(***************************************************************************)
EXTENDS Naturals, Sequences, FiniteSets

CONSTANTS Conv,         \* ids of conversations
          Key,          \* idempotency keys
          Text,         \* what is said, by the entry it describes
          Handler,      \* requests the service works on at a time
          None,
          MaxHistory,   \* MAX_MESSAGES: messages a conversation keeps
          MaxRequests,  \* bound: requests
          MaxRollbacks  \* bound: handlers that crash

VARIABLES
    conversation, \* conversation[c]: c's row and its messages
    record,       \* record[k]: scope k's idempotency record, or None
    booked,       \* the texts whose entry stands in the ledger
    handler,      \* handler[h]: the request h is at
    written,      \* written[k]: history, changes of the ledger committed for k
    told,         \* told[k]: history, responses given for k
    requests, rollbacks

vars == <<conversation, record, booked, handler, written, told, requests, rollbacks>>

(* A request: a sentence for the assistant or a filled-in form, which no   *)
(* conversation knows of. A key counts for one of the two operations.      *)
Op == {"ask", "form"}
Request == {q \in [op : Op, key : Key, text : Text, conv : Conv \cup {None}] :
               q.op = "form" => q.conv = None}
Scope == Op \X Key
ScopeOf(q) == <<q.op, q.key>>

(* What the AI reads in a sentence: a structured query, another read (a    *)
(* list, a report, accounts, assets), one entry, a change of what is       *)
(* there, or something that is always asked about (several entries or      *)
(* budgets, a transfer).                                                   *)
Intent == {"query", "read", "entry", "change", "batch"}

(* What the interpreter can make of a sentence; None: it does not comply   *)
(* with the schema, names an entry that was not named, or the provider     *)
(* does not answer.                                                        *)
Reading == Intent \cup {"help", None}

(* What is answered. QUERY_RESULT is "answered" with a query_result and    *)
(* "shown" without; "unclear": nothing was attempted (not understood,      *)
(* help, an unknown operation, no AI provider); "failed": the execution    *)
(* raised.                                                                 *)
Status == {"executed", "confirm", "answered", "shown", "unclear", "failed"}
Response == [of : 1 .. MaxRequests, status : Status]

(* of is the request id; role "user" has no status.                        *)
Message == [seq : Nat, role : {"user", "assistant"}, of : 1 .. MaxRequests,
            status : Status \cup {None}]
Row == [status : {"none", "active", "archived", "deleted"},
        messages : Seq(Message), context : 0 .. MaxRequests]
Blank(s) == [status |-> s, messages |-> <<>>, context |-> 0]
Record == [asked : Request, response : Response]

ASSUME ConversationAssumption ==
    /\ MaxHistory \in Nat \ {0} /\ MaxRequests \in Nat /\ MaxRollbacks \in Nat
    /\ None \notin Nat \cup Conv \cup Key \cup Text \cup Status \cup Intent
    /\ None \notin Row /\ None \notin Record /\ None \notin Request /\ None \notin Response

(* "insert": the lookup found no record; "claimed": the record is inserted *)
(* and the conversation not read; "context": its context was read; from    *)
(* "interpret" on the question is in row.                                  *)
Stage == {"idle", "insert", "claimed", "context", "interpret", "decide", "execute", "reply"}
Idle == [at |-> "idle", asked |-> None, id |-> 0, known |-> FALSE, prior |-> 0,
         row |-> None, intent |-> None, status |-> None]
Turn == [at : Stage, asked : Request \cup {None}, id : 0 .. MaxRequests, known : BOOLEAN,
         prior : 0 .. MaxRequests, row : Row \cup {None}, intent : Intent \cup {None},
         status : Status \cup {None}]

TypeOK ==
    /\ conversation \in [Conv -> Row]
    /\ record \in [Scope -> Record \cup {None}]
    /\ booked \subseteq Text
    /\ handler \in [Handler -> Turn]
    /\ written \in [Scope -> Nat]
    /\ told \in [Scope -> SUBSET Response]
    /\ requests \in 0 .. MaxRequests /\ rollbacks \in 0 .. MaxRollbacks

Init == /\ conversation = [c \in Conv |-> Blank("none")]
        /\ record = [k \in Scope |-> None]
        /\ booked = {}
        /\ handler = [h \in Handler |-> Idle]
        /\ written = [k \in Scope |-> 0]
        /\ told = [k \in Scope |-> {}]
        /\ requests = 0 /\ rollbacks = 0

-----------------------------------------------------------------------------
(* Conversations                                                           *)

Asked(h) == handler[h].asked
ConvOf(h) == handler[h].asked.conv

(* What _owned finds; others' conversations are as good as missing.        *)
Found(c) == conversation[c].status \in {"active", "archived"}

Open_Found(c) == Found(c)
(* append goes on: the row is there, and is not archived.                  *)
Open(c) == conversation[c].status = "active"

(* Another transaction has c's row locked.                                 *)
RowHeld(h, c) == \E g \in Handler \ {h} : handler[g].row # None /\ ConvOf(g) = c

NextSeq_Count(ms) == Len(ms) + 1
(* One more than the highest sequence number that is left.                 *)
NextSeq(ms) == IF ms = <<>> THEN 1 ELSE ms[Len(ms)].seq + 1

Kept_First(ms) == SubSeq(ms, 1, IF Len(ms) < MaxHistory THEN Len(ms) ELSE MaxHistory)
(* The newest MaxHistory messages stay, the others are deleted.            *)
Kept(ms) == IF Len(ms) <= MaxHistory THEN ms
            ELSE SubSeq(ms, Len(ms) - MaxHistory + 1, Len(ms))

(* append: the row with one more message. A structured query that was      *)
(* answered becomes the context of what is asked next; any other message   *)
(* leaves the context as it is.                                            *)
Appended(row, role, of, status) ==
    [row EXCEPT !.messages = Kept(Append(@, [seq |-> NextSeq(@), role |-> role,
                                             of |-> of, status |-> status])),
                !.context = IF status = "answered" THEN of ELSE @]

-----------------------------------------------------------------------------
(* Idempotency records and the risk of a command                           *)

Claims_FromLookup(g) == handler[g].at # "idle" /\ handler[g].status # "failed"
(* g's transaction holds its inserted record: until its end, or until the  *)
(* rollback of a failed execution.                                         *)
Claims(g) == handler[g].at \notin {"idle", "insert"} /\ handler[g].status # "failed"
KeyHeld(h, k) == \E g \in Handler \ {h} : Claims(g) /\ ScopeOf(Asked(g)) = k

(* The insert breaks uq_client_idempotency_scope.                          *)
Duplicate(k) == record[k] # None

Replayed_Anew(q) == [record[ScopeOf(q)].response EXCEPT !.status = "unclear"]
Replayed(q) == record[ScopeOf(q)].response

(* A remembered request is answered again; another one under its key, 409. *)
Answer(q) == LET k == ScopeOf(q)
             IN  IF q = record[k].asked THEN told' = [told EXCEPT ![k] = @ \cup {Replayed(q)}]
                 ELSE UNCHANGED told

(* _find_duplicates: an entry like it stands in the ledger.                *)
Hits(t) == t \in booked

(* What the router sends to confirmation, for a sentence without media.    *)
Risky(intent, t) == intent = "batch" \/ (intent = "entry" /\ Hits(t))

(* The allowlist of operations an assistant may propose.                   *)
Registered(r) == r \in Intent

(* How a result is told. Only a structured query has a query_result.       *)
ResultFor(intent) == CASE intent = "query" -> "answered"
                       [] intent = "read"  -> "shown"
                       [] OTHER            -> "executed"

(* Where a request goes when its record is inserted. A form is executed as *)
(* it stands; what is said outside a conversation has no history.          *)
FirstStage(q) == CASE q.op = "form" -> "execute"
                   [] q.conv # None -> "claimed"
                   [] OTHER         -> "interpret"

(* 404, 409, 422 or 503: the transaction is rolled back with its record.   *)
Refused(h) == handler' = [handler EXCEPT ![h] = Idle]

-----------------------------------------------------------------------------
(* The request                                                             *)

store == <<conversation, record, booked, written>>

(* A request arrives; the record is looked up first.                       *)
Arrive(h, q) ==
    /\ handler[h].at = "idle" /\ requests < MaxRequests
    /\ requests' = requests + 1
    /\ IF record[ScopeOf(q)] # None
       THEN Answer(q) /\ UNCHANGED handler
       ELSE /\ handler' = [handler EXCEPT ![h] =
                  [Idle EXCEPT !.at = "insert", !.asked = q, !.id = requests + 1,
                               !.known = q.text \in booked]]
            /\ UNCHANGED told
    /\ UNCHANGED <<store, rollbacks>>

(* The record is inserted; or another request committed it meanwhile.      *)
Insert(h) ==
    /\ handler[h].at = "insert"
    /\ LET q == Asked(h)
       IN  /\ ~KeyHeld(h, ScopeOf(q))
           /\ IF Duplicate(ScopeOf(q))
              THEN Answer(q) /\ handler' = [handler EXCEPT ![h] = Idle]
              ELSE /\ handler' = [handler EXCEPT ![h].at = FirstStage(q),
                           ![h].intent = IF q.op = "form" THEN "entry" ELSE None]
                   /\ UNCHANGED told
    /\ UNCHANGED <<store, requests, rollbacks>>

(* context_for: the context of the turn before, read without a lock.       *)
ReadContext(h) ==
    /\ handler[h].at = "claimed"
    /\ IF Found(ConvOf(h))
       THEN handler' = [handler EXCEPT ![h].at = "context",
                                       ![h].prior = conversation[ConvOf(h)].context]
       ELSE Refused(h)
    /\ UNCHANGED <<store, told, requests, rollbacks>>

(* The question is appended, under the lock of the conversation.           *)
AppendQuestion(h) ==
    /\ handler[h].at = "context" /\ ~RowHeld(h, ConvOf(h))
    /\ IF Open(ConvOf(h))
       THEN handler' = [handler EXCEPT ![h].at = "interpret",
                ![h].row = Appended(conversation[ConvOf(h)], "user", handler[h].id, None)]
       ELSE Refused(h)
    /\ UNCHANGED <<store, told, requests, rollbacks>>

(* The sentence is read; help and an unknown operation go no further.      *)
Interpret(h) ==
    /\ handler[h].at = "interpret"
    /\ \E r \in Reading :
          handler' = IF Registered(r)
                     THEN [handler EXCEPT ![h].at = "decide", ![h].intent = r]
                     ELSE [handler EXCEPT ![h].at = "reply", ![h].status = "unclear"]
    /\ UNCHANGED <<store, told, requests, rollbacks>>

(* The command is frozen with its accounts, or one does not resolve.       *)
Freeze(h) == \/ handler' = [handler EXCEPT ![h].at = "reply", ![h].status = "confirm"]
             \/ Refused(h)

(* A risky command waits for a confirmation, any other is executed.        *)
Decide(h) ==
    /\ handler[h].at = "decide"
    /\ IF Risky(handler[h].intent, Asked(h).text)
       THEN Freeze(h)
       ELSE handler' = [handler EXCEPT ![h].at = "execute"]
    /\ UNCHANGED <<store, told, requests, rollbacks>>

Executes(h) == handler' = [handler EXCEPT ![h].at = "reply",
                                          ![h].status = ResultFor(handler[h].intent)]

(* A sentence is executed. When that raises, the transaction is rolled     *)
(* back, with the record, the question and both locks, and goes on.        *)
Execute(h) ==
    /\ handler[h].at = "execute" /\ Asked(h).op = "ask"
    /\ \/ Executes(h)
       \/ handler' = [handler EXCEPT ![h].at = "reply", ![h].status = "failed", ![h].row = None]
    /\ UNCHANGED <<store, told, requests, rollbacks>>

(* A form is executed, and refused when that raises.                       *)
ExecuteForm(h) ==
    /\ handler[h].at = "execute" /\ Asked(h).op = "form"
    /\ Executes(h) \/ Refused(h)
    /\ UNCHANGED <<store, told, requests, rollbacks>>

Remembered_NotPending(status) == status \notin {"failed", "confirm"}
(* The record outlives the request, but for a failed execution.            *)
Remembered(status) == status # "failed"

(* The commit, with c's new row: the history, the ledger, the pending      *)
(* command and the record at once. After a failure there is no record.     *)
Commit(h, rows) ==
    LET q == Asked(h)  k == ScopeOf(Asked(h))  s == handler[h].status
        response == [of |-> handler[h].id, status |-> s]
        writes == s = "confirm" \/ s = "executed"
    IN  /\ conversation' = rows
        /\ record' = IF Remembered(s) THEN [record EXCEPT ![k] = [asked |-> q, response |-> response]]
                     ELSE record
        /\ booked' = IF s = "executed" /\ handler[h].intent = "entry"
                     THEN booked \cup {q.text} ELSE booked
        /\ written' = IF writes THEN [written EXCEPT ![k] = @ + 1] ELSE written
        /\ told' = [told EXCEPT ![k] = @ \cup {response}]
        /\ handler' = [handler EXCEPT ![h] = Idle]

(* The answer is appended and all is committed. After a failed execution   *)
(* the conversation has to be locked again, and may be closed by then.     *)
Reply(h) ==
    /\ handler[h].at = "reply"
    /\ LET c == ConvOf(h)  row == handler[h].row
       IN  IF c = None THEN Commit(h, conversation)
           ELSE IF row # None
           THEN Commit(h, [conversation EXCEPT ![c] =
                    Appended(row, "assistant", handler[h].id, handler[h].status)])
           ELSE /\ ~RowHeld(h, c)
                /\ IF Open(c)
                   THEN Commit(h, [conversation EXCEPT ![c] =
                            Appended(@, "assistant", handler[h].id, handler[h].status)])
                   ELSE Refused(h) /\ UNCHANGED <<store, told>>
    /\ UNCHANGED <<requests, rollbacks>>

(* The handler crashes: its transaction is rolled back.                    *)
Rollback(h) == /\ handler[h].at # "idle" /\ rollbacks < MaxRollbacks
               /\ handler' = [handler EXCEPT ![h] = Idle]
               /\ rollbacks' = rollbacks + 1
               /\ UNCHANGED <<store, told, requests>>

-----------------------------------------------------------------------------
(* The other requests                                                      *)

Becomes(c, row) ==
    /\ conversation' = [conversation EXCEPT ![c] = row]
    /\ UNCHANGED <<record, booked, handler, written, told, requests, rollbacks>>

(* A new conversation has a new id.                                        *)
Create(c) == conversation[c].status = "none" /\ Becomes(c, Blank("active"))

Unlocked(c) == \A h \in Handler : handler[h].row # None => ConvOf(h) # c

Archive(c) == /\ Open(c) /\ Unlocked(c)
              /\ Becomes(c, [conversation[c] EXCEPT !.status = "archived"])

(* The messages go with the row.                                           *)
Delete(c) == Found(c) /\ Unlocked(c) /\ Becomes(c, Blank("deleted"))

(* An entry is booked through another channel.                             *)
BookElsewhere(t) == /\ t \notin booked
                    /\ booked' = booked \cup {t}
                    /\ UNCHANGED <<conversation, record, handler, written, told,
                                   requests, rollbacks>>

Step(h) == \/ Insert(h) \/ ReadContext(h) \/ AppendQuestion(h) \/ Interpret(h)
           \/ Decide(h) \/ Execute(h) \/ ExecuteForm(h) \/ Reply(h)

Next == \/ \E h \in Handler : (\E q \in Request : Arrive(h, q)) \/ Step(h) \/ Rollback(h)
        \/ \E c \in Conv : Create(c) \/ Archive(c) \/ Delete(c)
        \/ \E t \in Text : BookElsewhere(t)

Spec == Init /\ [][Next]_vars

-----------------------------------------------------------------------------
(* Properties                                                              *)

InOrder(row) ==
    LET ms == row.messages
        queries == {i \in DOMAIN ms : ms[i].status = "answered"}
    IN  /\ Len(ms) <= MaxHistory
        /\ ms # <<>> /\ Len(ms) < MaxHistory => ms[1].seq = 1
        /\ \A i \in 1 .. Len(ms) - 1 : ms[i + 1].seq = ms[i].seq + 1
        /\ \A i \in queries : (\A j \in queries : j <= i) => row.context = ms[i].of

(* The history of a conversation is the newest part of all that was said:  *)
(* numbered without a gap, from 1 as long as nothing had to go. Its        *)
(* context is that of the newest answered structured query in it, whatever *)
(* else was read or written since. Turns that meet in one conversation,    *)
(* and pruning, do not use a number twice.                                 *)
HistoryInOrder == \A c \in Conv : InOrder(conversation[c])

(* A sentence that repeats an entry which stood in the ledger when it was  *)
(* sent does not become a second entry unasked.                            *)
RepeatIsAskedAbout ==
    \A h \in Handler : Asked(h) # None /\ Asked(h).op = "ask" /\ handler[h].intent = "entry"
                          /\ handler[h].status = "executed" => ~handler[h].known

(* h waits for the key or the conversation that k has.                     *)
WaitsFor(h, k) ==
    /\ h # k
    /\ \/ /\ handler[h].at = "insert"
          /\ Claims(k) /\ ScopeOf(Asked(k)) = ScopeOf(Asked(h))
       \/ /\ handler[h].at = "context" \/ (handler[h].at = "reply" /\ handler[h].row = None)
          /\ handler[k].row # None /\ ConvOf(k) = ConvOf(h)

(* No requests wait for each other's keys and conversations in a circle,   *)
(* although a failed one, having lost both, comes back for the             *)
(* conversation: of any set of them, one waits for none of the set.        *)
NoCircle == \A S \in SUBSET Handler : S # {} => \E h \in S : \A k \in S : ~WaitsFor(h, k)

(* No request is ever stuck: there is no circle, and one that waits for no *)
(* other can go on, each step bringing it nearer to its end.               *)
NobodyStuck ==
    /\ NoCircle
    /\ \A h \in Handler : handler[h].at # "idle" /\ (\A k \in Handler : ~WaitsFor(h, k))
                             => ENABLED <<Step(h)>>_vars

Whole(ms, i) ==
    IF ms[i].role = "user"
    THEN i < Len(ms) /\ ms[i + 1].role = "assistant" /\ ms[i + 1].of = ms[i].of
    ELSE i = 1 \/ ms[i].status = "failed"
           \/ (ms[i - 1].role = "user" /\ ms[i - 1].of = ms[i].of)

(* A turn is in the history as a whole: each question is followed by its   *)
(* own answer, and each answer follows its question unless that is pruned  *)
(* or the execution failed, whoever else talks in the conversation.        *)
TurnsAreWhole ==
    \A c \in Conv : LET ms == conversation[c].messages IN \A i \in DOMAIN ms : Whole(ms, i)

(* What a key changed in the ledger, and the answer that tells of it, are  *)
(* committed together and once, however often the request is sent, fails   *)
(* and is sent again.                                                      *)
WrittenAsAnswered ==
    \A k \in Scope : written[k] =
        IF record[k] # None /\ record[k].response.status \in {"executed", "confirm"} THEN 1 ELSE 0

(* A request has at each stage what it needs for the next ones: a question *)
(* in the row it has locked, until the execution fails; ...                *)
Staged(r) ==
    /\ r.at = "idle" <=> r.asked = None
    /\ r.at # "idle" => r.id > 0
    /\ r.at \in {"claimed", "context"} => r.asked.conv # None
    /\ r.at \in {"idle", "insert", "claimed", "context"} \/ r.status = "failed" => r.row = None
    /\ r.at \in {"interpret", "decide", "execute", "reply"} /\ r.status # "failed" =>
          (r.row # None <=> r.asked.conv # None)
    /\ r.at = "reply" <=> r.status # None
(* ... a sentence that was known to the ledger on arrival still is; ...    *)
Weighed(r) ==
    /\ r.asked # None /\ r.known => r.asked.text \in booked
    /\ r.asked # None /\ r.asked.op = "ask" /\ r.intent = "entry"
          /\ (r.at = "execute" \/ r.status = "executed") => ~r.known
(* ... the lock keeps the row as it was when the question was added; ...   *)
Locks(h) == handler[h].row # None =>
    /\ Open(ConvOf(h)) /\ ~RowHeld(h, ConvOf(h))
    /\ handler[h].row = Appended(conversation[ConvOf(h)], "user", handler[h].id, None)
(* ... and whoever has claimed a key is alone with it and has no record.   *)
ClaimsKey(h) == Claims(h) => LET k == ScopeOf(Asked(h)) IN record[k] = None /\ ~KeyHeld(h, k)
RequestsStand ==
    \A h \in Handler : Staged(handler[h]) /\ Weighed(handler[h]) /\ Locks(h) /\ ClaimsKey(h)

(* What was told for a key, but for a failure, is what is recorded.        *)
ToldIsRecorded ==
    \A k \in Scope :
        /\ record[k] # None => record[k].response.status # "failed"
        /\ \A r \in told[k] : r.status = "failed" \/ (record[k] # None /\ r = record[k].response)

(* The tables have their shape, histories are in order and turns whole, a  *)
(* repeat is asked about and a key writes once; with what this rests on.   *)
IInv == /\ TypeOK /\ HistoryInOrder /\ TurnsAreWhole /\ RepeatIsAskedAbout
        /\ WrittenAsAnswered /\ RequestsStand /\ ToldIsRecorded

(* The records keep the promise of AnsweredOnce; a failed execution is the *)
(* one answer that is not remembered.                                      *)
remembered == [k \in Scope |-> IF record[k] = None THEN None ELSE record[k].response]
applied == [k \in Scope |-> IF record[k] = None THEN 0 ELSE 1]
reported == [k \in Scope |-> {r \in told[k] : r.status # "failed"}]
Promise == INSTANCE AnsweredOnce WITH Outcome <- Response, outcome <- remembered,
                                      applied <- applied, told <- reported
KeepsPromise == Promise!Spec

(* What is archived stays as it is until it is deleted: no turn that was   *)
(* on its way slips in, not even the answer after a failed execution.      *)
ArchivedIsClosed ==
    [][\A c \in Conv : conversation[c].status = "archived" /\ conversation'[c] # conversation[c]
          => conversation'[c].status = "deleted"]_vars

(* services/ai_entry.py, after a failed execution: "nothing was            *)
(* persisted", so that a retry starts afresh.                              *)
FailurePersistsNothing ==
    \A c \in Conv : \A i \in DOMAIN conversation[c].messages :
        conversation[c].messages[i].status # "failed"

(* services/conversation.py, expand_follow_up: the parser is given the     *)
(* facts of the prior turn.                                                *)
FollowsPriorTurn ==
    \A h \in Handler : handler[h].at = "interpret" /\ handler[h].row # None
                          => handler[h].prior = handler[h].row.context
=============================================================================
