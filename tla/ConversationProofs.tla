------------------------- MODULE ConversationProofs -------------------------
(***************************************************************************)
(* Proofs about Conversation for any conversations, messages, requests,    *)
(* response values and bounds: what append, prune and archive do to the    *)
(* messages of a conversation, the inductive invariant, and from it that   *)
(* a turn is kept whole, that an archived conversation stays closed, and   *)
(* that its requests keep the promise of AnsweredOnce.                     *)
(***************************************************************************)
EXTENDS Conversation, SequenceTheorems, TLAPS

(* What append makes of a row: the messages that are kept, moved by what   *)
(* was pruned, and the new one at the end.                                 *)
Extends(new, row, role, of, status) ==
    /\ new \in Row /\ new.status = row.status
    /\ new.context = IF status = "answered" THEN of ELSE row.context
    /\ Len(row.messages) \in Nat /\ Len(new.messages) \in 1 .. MaxHistory
    /\ new.messages[Len(new.messages)] =
          [seq |-> NextSeq(row.messages), role |-> role, of |-> of, status |-> status]
    /\ \E cut \in {0, 1} :
          /\ Len(row.messages) = Len(new.messages) + cut - 1
          /\ cut = 1 => Len(new.messages) = MaxHistory
          /\ \A i \in 1 .. Len(new.messages) - 1 : new.messages[i] = row.messages[i + cut]

(* Appending extends a row in this way.                                    *)
LEMMA AppendedShape ==
    ASSUME NEW row \in Row, Len(row.messages) <= MaxHistory,
           NEW role \in {"user", "assistant"}, NEW of \in 1 .. MaxRequests,
           NEW status \in Status \cup {None},
           NEW new, new = Appended(row, role, of, status)
    PROVE  Extends(new, row, role, of, status)
  <1> DEFINE ms == row.messages
             m == [seq |-> NextSeq(ms), role |-> role, of |-> of, status |-> status]
             all == Append(ms, m)
             context == IF status = "answered" THEN of ELSE row.context
  <1>1. /\ ms \in Seq(Message) /\ row.context \in 0 .. MaxRequests
        /\ row.status \in {"none", "active", "archived", "deleted"}
        /\ MaxHistory \in Nat \ {0} /\ MaxRequests \in Nat
    BY ConversationAssumption DEF Row
  <1>2. NextSeq(ms) \in Nat
    <2>1. CASE ms = <<>>
      BY <2>1 DEF NextSeq
    <2>2. CASE ms # <<>>
      <3>1. ms[Len(ms)] \in Message
        BY <1>1, <2>2
      <3> QED
        BY <2>2, <3>1 DEF NextSeq, Message
    <2> QED
      BY <2>1, <2>2
  <1>3. m \in Message
    BY <1>2 DEF Message
  <1> HIDE DEF m
  <1>4. /\ all \in Seq(Message) /\ Len(all) = Len(ms) + 1 /\ Len(ms) \in Nat
        /\ all[Len(ms) + 1] = m /\ \A i \in 1 .. Len(ms) : all[i] = ms[i]
        /\ \A i \in 1 .. Len(ms) + 1 : all[i] \in Message
    BY <1>1, <1>3
  <1>5. new = [row EXCEPT !.messages = Kept(all), !.context = context]
    BY DEF Appended, m
  <1> HIDE DEF all, context
  <1>6. /\ Kept(all) \in Seq(Message) /\ Len(Kept(all)) \in 1 .. MaxHistory
        /\ Kept(all)[Len(Kept(all))] = m
        /\ \E cut \in {0, 1} :
              /\ Len(ms) = Len(Kept(all)) + cut - 1
              /\ cut = 1 => Len(Kept(all)) = MaxHistory
              /\ \A i \in 1 .. Len(Kept(all)) - 1 : Kept(all)[i] = ms[i + cut]
    <2>1. CASE Len(all) <= MaxHistory
      <3>1. Kept(all) = all /\ Len(all) = Len(ms) + 1
        BY <1>4, <2>1 DEF Kept
      <3>2. \A i \in 1 .. Len(all) - 1 : i + 0 = i /\ all[i] = ms[i]
        BY <1>4, <3>1
      <3>3. all[Len(all)] = m /\ Len(all) \in 1 .. MaxHistory
        BY <1>1, <1>4, <2>1, <3>1
      <3> QED
        BY <1>4, <3>1, <3>2, <3>3
    <2>2. CASE ~(Len(all) <= MaxHistory)
      <3> DEFINE kept == SubSeq(all, Len(all) - MaxHistory + 1, Len(all))
      <3>1. Len(ms) = MaxHistory /\ Len(all) = MaxHistory + 1 /\ Kept(all) = kept
        <4>1. Kept(all) = kept
          BY <2>2 DEF Kept
        <4>2. Len(ms) = MaxHistory /\ Len(all) = MaxHistory + 1
          BY <1>1, <1>4, <2>2
        <4> QED
          BY <4>1, <4>2
      <3>2. kept = SubSeq(all, 2, MaxHistory + 1) /\ MaxHistory + 1 \in Int /\ 2 <= MaxHistory + 1
        BY <1>1, <3>1
      <3> HIDE DEF kept
      <3>6. \A i \in 2 .. MaxHistory + 1 : all[i] \in Message
        BY <1>1, <1>4, <3>1
      <3>7. /\ SubSeq(all, 2, MaxHistory + 1) \in Seq(Message)
            /\ Len(SubSeq(all, 2, MaxHistory + 1)) = (MaxHistory + 1) - 2 + 1
            /\ \A i \in 1 .. (MaxHistory + 1) - 2 + 1 :
                  SubSeq(all, 2, MaxHistory + 1)[i] = all[2 + i - 1]
        BY <3>2, <3>6, SubSeqProperties
      <3>8. (MaxHistory + 1) - 2 + 1 = MaxHistory /\ \A i \in 1 .. MaxHistory : 2 + i - 1 = i + 1
        BY <1>1
      <3>3. /\ kept \in Seq(Message) /\ Len(kept) = MaxHistory
            /\ \A i \in 1 .. MaxHistory : kept[i] = all[i + 1]
        BY <3>2, <3>7, <3>8
      <3>4. kept[MaxHistory] = m /\ \A i \in 1 .. MaxHistory - 1 : kept[i] = ms[i + 1]
        BY <1>1, <1>4, <3>1, <3>3
      <3>5. Len(ms) = Len(kept) + 1 - 1 /\ Len(kept) \in 1 .. MaxHistory
        BY <1>1, <3>1, <3>3
      <3> QED
        BY <3>1, <3>3, <3>4, <3>5
    <2> QED
      BY <2>1, <2>2
  <1> DEFINE kept == Kept(all)
  <1>7. /\ kept \in Seq(Message) /\ context \in 0 .. MaxRequests
        /\ new = [row EXCEPT !.messages = kept, !.context = context]
    BY <1>1, <1>5, <1>6 DEF context
  <1> HIDE DEF kept
  <1>8. new \in Row /\ new.status = row.status /\ new.messages = kept /\ new.context = context
    BY <1>7 DEF Row
  <1> QED
    BY <1>1, <1>4, <1>6, <1>8 DEF Extends, m, kept, context

(* The history stays in order.                                             *)
LEMMA AppendedInOrder ==
    ASSUME NEW row \in Row, InOrder(row),
           NEW role, NEW of, NEW status, NEW new, Extends(new, row, role, of, status)
    PROVE  InOrder(new)
  <1> DEFINE ms == row.messages
             ns == new.messages
             n == Len(ns)
  <1>1. /\ ms \in Seq(Message) /\ DOMAIN ms = 1 .. Len(ms) /\ (ms = <<>> <=> Len(ms) = 0)
        /\ ns \in Seq(Message) /\ DOMAIN ns = 1 .. n /\ MaxHistory \in Nat \ {0}
        /\ n \in Nat /\ Len(ms) \in Nat
    BY ConversationAssumption DEF Extends, Row
  <1>2. PICK cut \in {0, 1} :
           /\ Len(ms) = n + cut - 1 /\ (cut = 1 => n = MaxHistory)
           /\ \A i \in 1 .. n - 1 : ns[i] = ms[i + cut]
    BY DEF Extends
  <1>8. /\ n \in 1 .. MaxHistory
        /\ new.context = IF status = "answered" THEN of ELSE row.context
        /\ ns[n].seq = NextSeq(ms) /\ ns[n].status = status /\ ns[n].of = of
    BY DEF Extends
  <1>3. /\ Len(ms) <= MaxHistory
        /\ Len(ms) > 0 /\ Len(ms) < MaxHistory => ms[1].seq = 1
        /\ \A i \in 1 .. Len(ms) - 1 : ms[i + 1].seq = ms[i].seq + 1
        /\ \A i \in 1 .. Len(ms) :
              /\ ms[i].status = "answered"
              /\ \A j \in 1 .. Len(ms) : ms[j].status = "answered" => j <= i
              => row.context = ms[i].of
    BY <1>1, SMTT(30) DEF InOrder
  <1>4. NextSeq(ms) = IF Len(ms) = 0 THEN 1 ELSE ms[Len(ms)].seq + 1
    BY <1>1 DEF NextSeq
  <1> HIDE DEF ms, ns, n
  <1>5. n < MaxHistory => ns[1].seq = 1
    <2>1. CASE n = 1
      BY <1>1, <1>2, <1>8, <1>4, <2>1
    <2>2. CASE n # 1
      BY <1>1, <1>2, <1>8, <1>3, <2>2
    <2> QED
      BY <2>1, <2>2
  <1>6. ASSUME NEW i \in 1 .. n - 1
        PROVE  ns[i + 1].seq = ns[i].seq + 1
    <2>1. CASE i + 1 = n
      BY <1>1, <1>2, <1>8, <1>4, <2>1
    <2>2. CASE i + 1 # n
      <3>1. /\ i + cut \in 1 .. Len(ms) - 1 /\ (i + 1) + cut = (i + cut) + 1
            /\ i \in 1 .. n - 1 /\ i + 1 \in 1 .. n - 1
        BY <1>1, <1>2, <1>8, <2>2
      <3>2. ns[i] = ms[i + cut] /\ ns[i + 1] = ms[(i + cut) + 1]
        BY <1>2, <3>1
      <3>3. ms[(i + cut) + 1].seq = ms[i + cut].seq + 1
        BY <1>3, <3>1
      <3> QED
        BY <3>2, <3>3
    <2> QED
      BY <2>1, <2>2
  <1>7. ASSUME NEW i \in 1 .. n, ns[i].status = "answered",
               \A j \in 1 .. n : ns[j].status = "answered" => j <= i
        PROVE  new.context = ns[i].of
    <2>1. CASE status = "answered"
      BY <1>1, <1>2, <1>8, <1>7, <2>1
    <2>2. CASE status # "answered"
      <3>1. i \in 1 .. n - 1 /\ i + cut \in 1 .. Len(ms) /\ ns[i] = ms[i + cut]
        BY <1>1, <1>2, <1>8, <1>7, <2>2
      <3>2. ASSUME NEW j \in 1 .. Len(ms), ms[j].status = "answered"
            PROVE  j <= i + cut
        <4>1. CASE j - cut \in 1 .. n - 1
          <5>1. ns[j - cut] = ms[j] /\ j - cut \in 1 .. n
            BY <1>1, <1>2, <1>8, <4>1
          <5>2. j - cut <= i
            BY <1>7, <3>2, <5>1
          <5> QED
            BY <1>1, <1>2, <5>2
        <4>2. CASE j - cut \notin 1 .. n - 1
          BY <1>1, <1>2, <1>8, <3>1, <4>2
        <4> QED
          BY <4>1, <4>2
      <3> QED
        BY <1>1, <1>2, <1>8, <1>3, <1>7, <2>2, <3>1, <3>2
    <2> QED
      BY <2>1, <2>2
  <1> QED
    <2>1. /\ n <= MaxHistory /\ (ns # <<>> /\ n < MaxHistory => ns[1].seq = 1)
          /\ \A i \in 1 .. n - 1 : ns[i + 1].seq = ns[i].seq + 1
      BY <1>1, <1>2, <1>8, <1>5, <1>6
    <2>2. \A i \in DOMAIN ns :
             /\ ns[i].status = "answered"
             /\ \A j \in DOMAIN ns : ns[j].status = "answered" => j <= i
             => new.context = ns[i].of
      BY <1>1, <1>7
    <2> QED
      BY <2>1, <2>2 DEF InOrder, ns, n

(* A question comes after whole turns; an answer comes after its question, *)
(* or after whole turns when the execution failed.                         *)
LEMMA AppendedTurns ==
    ASSUME NEW row \in Row, NEW role, NEW of, NEW status, NEW new,
           Extends(new, row, role, of, status), role \in {"user", "assistant"},
           \A i \in 1 .. Len(row.messages) : Whole(row.messages, i) \/
               /\ role = "assistant" /\ i = Len(row.messages)
               /\ row.messages[i].role = "user" /\ row.messages[i].of = of,
           role = "assistant" /\ status # "failed" /\ Len(row.messages) > 0 =>
               /\ row.messages[Len(row.messages)].role = "user"
               /\ row.messages[Len(row.messages)].of = of
    PROVE  \A i \in 1 .. Len(new.messages) : Whole(new.messages, i) \/
               (role = "user" /\ i = Len(new.messages))
  <1> DEFINE ms == row.messages
             ns == new.messages
             n == Len(ns)
             l == Len(ms)
  <1>1. n \in Nat /\ l \in Nat /\ n > 0
    BY ConversationAssumption DEF Extends, Row
  <1>2. PICK cut \in {0, 1} : l = n + cut - 1 /\ \A i \in 1 .. n - 1 : ns[i] = ms[i + cut]
    BY DEF Extends
  <1>3. ns[n].role = role /\ ns[n].status = status /\ ns[n].of = of
    BY DEF Extends
  <1>4. /\ \A i \in 1 .. l : Whole(ms, i) \/
              (role = "assistant" /\ i = l /\ ms[i].role = "user" /\ ms[i].of = of)
        /\ role = "assistant" /\ status # "failed" /\ l > 0 => ms[l].role = "user" /\ ms[l].of = of
    OBVIOUS
  <1>5. /\ \A i \in 1 .. l : Whole(ms, i) <=>
              IF ms[i].role = "user"
              THEN i < l /\ ms[i + 1].role = "assistant" /\ ms[i + 1].of = ms[i].of
              ELSE i = 1 \/ ms[i].status = "failed"
                     \/ (ms[i - 1].role = "user" /\ ms[i - 1].of = ms[i].of)
        /\ \A i \in 1 .. n : Whole(ns, i) <=>
              IF ns[i].role = "user"
              THEN i < n /\ ns[i + 1].role = "assistant" /\ ns[i + 1].of = ns[i].of
              ELSE i = 1 \/ ns[i].status = "failed"
                     \/ (ns[i - 1].role = "user" /\ ns[i - 1].of = ns[i].of)
    BY DEF Whole
  <1> HIDE DEF n, l, ms, ns
  <1> SUFFICES ASSUME NEW i \in 1 .. n
               PROVE  Whole(ns, i) \/ (role = "user" /\ i = n)
    BY DEF n, ns
  <1>6. CASE i = n
    <2>1. CASE i = 1 \/ role = "user" \/ status = "failed"
      BY <1>1, <1>3, <1>5, <1>6, <2>1
    <2>2. CASE ~(i = 1 \/ role = "user" \/ status = "failed")
      <3>1. i - 1 \in 1 .. n - 1 /\ i - 1 + cut = l /\ l > 0 /\ role = "assistant"
        BY <1>1, <1>2, <1>6, <2>2
      <3>2. ns[i - 1] = ms[l] /\ ms[l].role = "user" /\ ms[l].of = of
        BY <1>2, <1>4, <2>2, <3>1
      <3> QED
        BY <1>3, <1>5, <1>6, <2>2, <3>1, <3>2
    <2> QED
      BY <2>1, <2>2
  <1>7. CASE i # n
    <2>1. PICK k \in 1 .. l : k = i + cut /\ i \in 1 .. n - 1 /\ ns[i] = ms[k]
      <3>1. i \in 1 .. n - 1 /\ i + cut \in 1 .. l
        BY <1>1, <1>2, <1>7
      <3> QED
        BY <1>2, <3>1
    <2>2. CASE ns[i].role = "user" /\ k = l
      <3>1. i + 1 = n
        BY <1>1, <1>2, <2>1, <2>2
      <3>2. role = "assistant" /\ ms[l].of = of
        <4>1. l \in 1 .. l /\ ms[l].role = "user" /\ ~(l < l)
          BY <1>1, <2>1, <2>2
        <4>2. ~Whole(ms, l)
          BY <1>5, <4>1
        <4> QED
          BY <1>4, <4>1, <4>2
      <3> QED
        BY <1>1, <1>3, <1>5, <2>1, <2>2, <3>1, <3>2
    <2>3. CASE ns[i].role = "user" /\ k # l
      <3>1. i + 1 \in 1 .. n - 1 /\ (i + 1) + cut = k + 1 /\ ns[i + 1] = ms[k + 1]
        BY <1>1, <1>2, <2>1, <2>3
      <3>2. ms[k + 1].role = "assistant" /\ ms[k + 1].of = ms[k].of
        BY <1>4, <1>5, <2>1, <2>3
      <3> QED
        BY <1>1, <1>5, <2>1, <2>3, <3>1, <3>2
    <2>4. CASE ns[i].role # "user" /\ i # 1 /\ ns[i].status # "failed"
      <3>1. i - 1 \in 1 .. n - 1 /\ ns[i - 1] = ms[k - 1] /\ k # 1
        BY <1>1, <1>2, <2>1, <2>4
      <3>2. ms[k - 1].role = "user" /\ ms[k - 1].of = ms[k].of
        BY <1>4, <1>5, <2>1, <2>4, <3>1
      <3> QED
        BY <1>5, <2>1, <2>4, <3>1, <3>2
    <2> QED
      BY <1>5, <2>2, <2>3, <2>4
  <1> QED
    BY <1>6, <1>7

(* What request h may become in the middle of its transaction: a row it    *)
(* has locked is its own, and so is a key it has claimed.                  *)
Fits(h, r) ==
    /\ r \in Turn /\ Staged(r) /\ Weighed(r)
    /\ r.row # None =>
          /\ Open(r.asked.conv) /\ ~RowHeld(h, r.asked.conv)
          /\ r.row = Appended(conversation[r.asked.conv], "user", r.id, None)
    /\ r.at \notin {"idle", "insert"} /\ r.status # "failed" =>
          record[ScopeOf(r.asked)] = None /\ ~KeyHeld(h, ScopeOf(r.asked))

(* A recorded answer is given once more, or nothing is told.               *)
Retold == \/ UNCHANGED told
          \/ \E k \in Scope : /\ record[k] # None
                               /\ told' = [told EXCEPT ![k] = @ \cup {record[k].response}]

(* One request goes on, and what is told is what is recorded.              *)
LEMMA QuietCore ==
    ASSUME IInv, NEW h \in Handler, NEW r, Fits(h, r),
           handler' = [handler EXCEPT ![h] = r], UNCHANGED store, Retold,
           requests' \in 0 .. MaxRequests, rollbacks' \in 0 .. MaxRollbacks
    PROVE  IInv'
  <1>1. /\ TypeOK /\ HistoryInOrder /\ TurnsAreWhole /\ RepeatIsAskedAbout
        /\ WrittenAsAnswered /\ RequestsStand /\ ToldIsRecorded
    BY DEF IInv
  <1>2. UNCHANGED <<conversation, record, booked, written>>
    BY DEF store
  <1>3. /\ handler' \in [Handler -> Turn] /\ handler'[h] = r
        /\ \A g \in Handler \ {h} : handler'[g] = handler[g]
    BY <1>1 DEF TypeOK, Fits
  <1>4. told' \in [Scope -> SUBSET Response]
    <2>1. \A k \in Scope : record[k] # None => record[k].response \in Response
      BY <1>1 DEF TypeOK, Record
    <2> QED
      BY <1>1, <2>1 DEF TypeOK, Retold
  <1>5. TypeOK'
    BY <1>1, <1>2, <1>3, <1>4 DEF TypeOK
  <1>6. HistoryInOrder' /\ TurnsAreWhole' /\ WrittenAsAnswered'
    BY <1>1, <1>2 DEF HistoryInOrder, TurnsAreWhole, WrittenAsAnswered
  <1>7. RepeatIsAskedAbout'
    <2>1. Weighed(r) /\ Staged(r)
      BY DEF Fits
    <2> QED
      BY <1>1, <1>3, <2>1 DEF RepeatIsAskedAbout, Weighed, Staged, Asked
  <1>8. RequestsStand'
    <2> SUFFICES ASSUME NEW g \in Handler
                 PROVE  (Staged(handler[g]) /\ Weighed(handler[g]) /\ Locks(g) /\ ClaimsKey(g))'
      BY DEF RequestsStand
    <2>1. CASE g = h
      <3>1. Staged(handler[g])' /\ Weighed(handler[g])'
        BY <1>2, <1>3, <2>1 DEF Fits, Staged, Weighed
      <3>2. Locks(g)'
        BY <1>2, <1>3, <2>1 DEF Fits, Locks, Open, RowHeld, ConvOf
      <3>3. ClaimsKey(g)'
        BY <1>2, <1>3, <2>1 DEF Fits, ClaimsKey, Claims, KeyHeld, Asked
      <3> QED
        BY <3>1, <3>2, <3>3
    <2>2. CASE g # h
      <3>1. handler'[g] = handler[g] /\ Staged(handler[g]) /\ Weighed(handler[g])
            /\ Locks(g) /\ ClaimsKey(g)
        BY <1>1, <1>3, <2>2 DEF RequestsStand
      <3>2. Staged(handler[g])' /\ Weighed(handler[g])'
        BY <1>2, <3>1 DEF Staged, Weighed
      <3>3. Locks(g)'
        BY <1>2, <1>3, <2>2, <3>1 DEF Fits, Locks, Open, RowHeld, ConvOf
      <3>4. ClaimsKey(g)'
        BY <1>2, <1>3, <2>2, <3>1 DEF Fits, ClaimsKey, Claims, KeyHeld, Asked
      <3> QED
        BY <3>2, <3>3, <3>4
    <2> QED
      BY <2>1, <2>2
  <1>9. ToldIsRecorded'
    <2>1. \A k \in Scope : \A x \in told'[k] :
             x \in told[k] \/ (record[k] # None /\ x = record[k].response)
      BY <1>1 DEF Retold, TypeOK
    <2> QED
      BY <1>1, <1>2, <2>1 DEF ToldIsRecorded
  <1> QED
    BY <1>5, <1>6, <1>7, <1>8, <1>9 DEF IInv

(* A request has a scope, and what it answers for it is recorded.          *)
LEMMA AnswerIsRetold ==
    ASSUME NEW q \in Request
    PROVE  /\ ScopeOf(q) \in Scope
           /\ Answer(q) /\ record[ScopeOf(q)] # None => Retold
  BY DEF Request, Op, Scope, ScopeOf, Answer, Replayed, Retold

(* Whoever is done, crashes or is refused fits.                            *)
LEMMA IdleFits ==
    ASSUME NEW h \in Handler
    PROVE  Fits(h, Idle)
  <1>1. Idle \in Turn
    BY ConversationAssumption DEF Idle, Turn, Stage
  <1> QED
    BY <1>1 DEF Fits, Staged, Weighed, Idle

(* Whoever does nothing still fits.                                        *)
LEMMA StillFits ==
    ASSUME IInv, NEW h \in Handler
    PROVE  Fits(h, handler[h]) /\ handler = [handler EXCEPT ![h] = handler[h]]
  BY DEF IInv, TypeOK, RequestsStand, Fits, Locks, ClaimsKey, Claims, ConvOf, Asked

(* A request on its way is a sentence or a form.                           *)
LEMMA AskedIsRequest ==
    ASSUME IInv, NEW h \in Handler, handler[h].at # "idle"
    PROVE  /\ handler[h] \in Turn /\ handler[h].asked \in Request
           /\ handler[h].id \in 1 .. MaxRequests
  <1>1. handler[h] \in Turn /\ Staged(handler[h])
    BY DEF IInv, TypeOK, RequestsStand
  <1>2. MaxRequests \in Nat
    BY ConversationAssumption
  <1> QED
    BY <1>1, <1>2 DEF Turn, Staged

(* A request arrives.                                                      *)
LEMMA ArriveCore ==
    ASSUME IInv, NEW h \in Handler, NEW q \in Request, Arrive(h, q)
    PROVE  IInv'
  <1>1. /\ requests' = requests + 1 /\ requests < MaxRequests /\ UNCHANGED <<store, rollbacks>>
        /\ handler[h].at = "idle"
    BY DEF Arrive
  <1>2. requests \in 0 .. MaxRequests /\ rollbacks \in 0 .. MaxRollbacks /\ MaxRequests \in Nat
    BY ConversationAssumption DEF IInv, TypeOK
  <1>3. requests' \in 0 .. MaxRequests /\ rollbacks' \in 0 .. MaxRollbacks
    BY <1>1, <1>2
  <1>4. CASE record[ScopeOf(q)] # None
    <2>1. Answer(q) /\ handler' = handler
      BY <1>4 DEF Arrive
    <2> QED
      BY <1>1, <1>3, <1>4, <2>1, AnswerIsRetold, StillFits, QuietCore
  <1>5. CASE record[ScopeOf(q)] = None
    <2> DEFINE known == q.text \in booked
               r == [Idle EXCEPT !.at = "insert", !.asked = q, !.id = requests + 1, !.known = known]
    <2>1. handler' = [handler EXCEPT ![h] = r] /\ UNCHANGED told
      BY <1>5 DEF Arrive
    <2>7. known \in BOOLEAN /\ (known => q.text \in booked)
      OBVIOUS
    <2> HIDE DEF known
    <2>2. /\ r.at = "insert" /\ r.asked = q /\ r.id = requests + 1 /\ r.known = known
          /\ r.row = None /\ r.intent = None /\ r.status = None
      BY DEF Idle
    <2>3. requests + 1 \in 0 .. MaxRequests /\ requests + 1 > 0
      BY <1>1, <1>2
    <2>4. r \in Turn
      <3>1. Idle \in Turn
        BY IdleFits DEF Fits
      <3> QED
        BY <2>3, <2>7, <3>1 DEF Turn, Stage
    <2> HIDE DEF r
    <2>5. q # None
      BY ConversationAssumption
    <2>6. Fits(h, r)
      BY <2>2, <2>3, <2>4, <2>5, <2>7, ConversationAssumption DEF Fits, Staged, Weighed
    <2> QED
      BY <1>1, <1>3, <2>1, <2>6, QuietCore DEF Retold
  <1> QED
    BY <1>4, <1>5

(* The record is inserted, or was committed meanwhile.                     *)
LEMMA InsertCore ==
    ASSUME IInv, NEW h \in Handler, Insert(h)
    PROVE  IInv'
  <1> DEFINE q == handler[h].asked
  <1>1. /\ handler[h].at = "insert" /\ ~KeyHeld(h, ScopeOf(q))
        /\ UNCHANGED <<store, requests, rollbacks>>
    BY DEF Insert, Asked
  <1>2. handler[h] \in Turn /\ q \in Request
    BY <1>1, AskedIsRequest
  <1>3. requests' \in 0 .. MaxRequests /\ rollbacks' \in 0 .. MaxRollbacks
    BY <1>1 DEF IInv, TypeOK
  <1>4. CASE record[ScopeOf(q)] # None
    <2>1. Answer(q) /\ handler' = [handler EXCEPT ![h] = Idle]
      BY <1>4 DEF Insert, Duplicate, Asked
    <2> QED
      BY <1>1, <1>2, <1>3, <1>4, <2>1, AnswerIsRetold, IdleFits, QuietCore
  <1>5. CASE record[ScopeOf(q)] = None
    <2> DEFINE r == [handler[h] EXCEPT !.at = FirstStage(q),
                                       !.intent = IF q.op = "form" THEN "entry" ELSE None]
    <2>1. handler' = [handler EXCEPT ![h] = r] /\ UNCHANGED told
      <3>1. /\ UNCHANGED told
            /\ handler' = [handler EXCEPT ![h].at = FirstStage(q),
                             ![h].intent = IF q.op = "form" THEN "entry" ELSE None]
        BY <1>5 DEF Insert, Duplicate, Asked
      <3> QED
        BY <3>1 DEF IInv, TypeOK
    <2>2. /\ r.at = FirstStage(q) /\ r.intent = IF q.op = "form" THEN "entry" ELSE None
          /\ r.asked = q /\ r.id = handler[h].id /\ r.known = handler[h].known
          /\ r.row = handler[h].row /\ r.status = handler[h].status
      BY <1>2 DEF Turn
    <2>3. /\ FirstStage(q) \in {"execute", "claimed", "interpret"}
          /\ FirstStage(q) = "execute" => q.op = "form"
          /\ FirstStage(q) = "claimed" <=> q.conv # None
      BY <1>2 DEF FirstStage, Request, Op
    <2>4. r \in Turn
      BY <1>2, <2>3 DEF Turn, Stage, Intent
    <2>5. Staged(handler[h]) /\ Weighed(handler[h])
      BY DEF IInv, RequestsStand
    <2> HIDE DEF r
    <2>6. Staged(r) /\ Weighed(r)
      <3>1. /\ handler[h].row = None /\ handler[h].status = None /\ handler[h].id > 0 /\ q # None
            /\ handler[h].known => q.text \in booked
        BY <1>1, <2>5 DEF Staged, Weighed
      <3> QED
        BY <2>2, <2>3, <3>1, ConversationAssumption DEF Staged, Weighed
    <2>7. Fits(h, r)
      BY <1>1, <1>5, <2>2, <2>3, <2>4, <2>6 DEF Fits, Staged
    <2> QED
      BY <1>1, <1>3, <2>1, <2>7, QuietCore DEF Retold
  <1> QED
    BY <1>4, <1>5

(* The request takes its turn and changes nothing but itself.              *)
LEMMA TurnCore ==
    ASSUME IInv, NEW h \in Handler, NEW r, Fits(h, r), handler' = [handler EXCEPT ![h] = r],
           UNCHANGED <<store, told, requests>>, rollbacks' \in 0 .. MaxRollbacks
    PROVE  IInv'
  <1>1. requests' \in 0 .. MaxRequests
    BY DEF IInv, TypeOK
  <1> QED
    BY <1>1, QuietCore DEF Retold

(* A request that has claimed its key goes on to a later stage.            *)
LEMMA GoesOn ==
    ASSUME IInv, NEW h \in Handler, handler[h].at \notin {"idle", "insert"},
           NEW r \in Turn, r.at \notin {"idle", "insert"},
           r.asked = handler[h].asked, r.id = handler[h].id,
           r.row \in {handler[h].row, None},
           r.status = "failed" \/ handler[h].status # "failed",
           Staged(r), Weighed(r), handler' = [handler EXCEPT ![h] = r],
           UNCHANGED <<store, told, requests, rollbacks>>
    PROVE  IInv'
  <1>1. Locks(h) /\ ClaimsKey(h) /\ rollbacks \in 0 .. MaxRollbacks
    BY DEF IInv, RequestsStand, TypeOK
  <1>2. Fits(h, r)
    BY <1>1 DEF Fits, Locks, ClaimsKey, Claims, ConvOf, Asked
  <1> QED
    BY <1>1, <1>2, TurnCore

(* A request is refused, or crashes.                                       *)
LEMMA DropCore ==
    ASSUME IInv, NEW h \in Handler,
           Rollback(h) \/ (Refused(h) /\ UNCHANGED <<store, told, requests, rollbacks>>)
    PROVE  IInv'
  <1>1. rollbacks \in 0 .. MaxRollbacks /\ MaxRollbacks \in Nat
    BY ConversationAssumption DEF IInv, TypeOK
  <1>2. /\ rollbacks' \in 0 .. MaxRollbacks /\ UNCHANGED <<store, told, requests>>
        /\ handler' = [handler EXCEPT ![h] = Idle]
    BY <1>1 DEF Rollback, Refused
  <1> QED
    BY <1>2, IdleFits, TurnCore

(* The context is read.                                                    *)
LEMMA ReadContextCore ==
    ASSUME IInv, NEW h \in Handler, ReadContext(h)
    PROVE  IInv'
  <1>1. handler[h].at = "claimed" /\ UNCHANGED <<store, told, requests, rollbacks>>
    BY DEF ReadContext
  <1>2. CASE Refused(h)
    BY <1>1, <1>2, DropCore
  <1>3. CASE handler' = [handler EXCEPT ![h].at = "context",
                                        ![h].prior = conversation[ConvOf(h)].context]
    <2> DEFINE r == [handler[h] EXCEPT !.at = "context",
                                       !.prior = conversation[ConvOf(h)].context]
    <2>1. handler[h] \in Turn /\ handler[h].asked \in Request /\ Staged(handler[h])
          /\ Weighed(handler[h]) /\ conversation \in [Conv -> Row]
          /\ handler \in [Handler -> Turn]
      BY <1>1, AskedIsRequest DEF IInv, TypeOK, RequestsStand
    <2>2. ConvOf(h) \in Conv
      BY <1>1, <2>1 DEF Staged, ConvOf, Request
    <2>3. r \in Turn
      BY <2>1, <2>2 DEF Turn, Stage, Row
    <2>4. /\ r.at = "context" /\ r.asked = handler[h].asked /\ r.id = handler[h].id
          /\ r.row = handler[h].row /\ r.status = handler[h].status
          /\ r.known = handler[h].known /\ r.intent = handler[h].intent
      BY <2>1 DEF Turn
    <2>5. handler' = [handler EXCEPT ![h] = r]
      BY <1>3, <2>1
    <2> HIDE DEF r
    <2>6. Staged(r) /\ Weighed(r) /\ handler[h].status # "failed"
      BY <1>1, <2>1, <2>4, ConversationAssumption DEF Staged, Weighed, Status
    <2> QED
      BY <1>1, <2>3, <2>4, <2>5, <2>6, GoesOn
  <1> QED
    BY <1>2, <1>3 DEF ReadContext

(* The sentence is interpreted.                                            *)
LEMMA InterpretCore ==
    ASSUME IInv, NEW h \in Handler, Interpret(h)
    PROVE  IInv'
  <1>1. /\ handler[h].at = "interpret" /\ UNCHANGED <<store, told, requests, rollbacks>>
        /\ handler[h] \in Turn /\ Staged(handler[h]) /\ Weighed(handler[h])
        /\ handler \in [Handler -> Turn]
    BY DEF Interpret, IInv, TypeOK, RequestsStand
  <1>2. PICK i \in Reading :
           handler' = IF Registered(i)
                      THEN [handler EXCEPT ![h].at = "decide", ![h].intent = i]
                      ELSE [handler EXCEPT ![h].at = "reply", ![h].status = "unclear"]
    BY DEF Interpret
  <1>3. CASE Registered(i)
    <2> DEFINE r == [handler[h] EXCEPT !.at = "decide", !.intent = i]
    <2>1. r \in Turn /\ handler' = [handler EXCEPT ![h] = r]
      BY <1>1, <1>2, <1>3 DEF Turn, Stage, Registered
    <2>2. /\ r.at = "decide" /\ r.asked = handler[h].asked /\ r.id = handler[h].id
          /\ r.row = handler[h].row /\ r.status = handler[h].status
          /\ r.known = handler[h].known
      BY <1>1 DEF Turn
    <2> HIDE DEF r
    <2>3. Staged(r) /\ Weighed(r) /\ handler[h].status # "failed"
      BY <1>1, <2>2, ConversationAssumption DEF Staged, Weighed, Status
    <2> QED
      BY <1>1, <2>1, <2>2, <2>3, GoesOn
  <1>4. CASE ~Registered(i)
    <2> DEFINE r == [handler[h] EXCEPT !.at = "reply", !.status = "unclear"]
    <2>1. r \in Turn /\ handler' = [handler EXCEPT ![h] = r]
      BY <1>1, <1>2, <1>4 DEF Turn, Stage, Status
    <2>2. /\ r.at = "reply" /\ r.asked = handler[h].asked /\ r.id = handler[h].id
          /\ r.row = handler[h].row /\ r.status = "unclear"
          /\ r.known = handler[h].known
      BY <1>1 DEF Turn
    <2> HIDE DEF r
    <2>3. Staged(r) /\ Weighed(r) /\ handler[h].status # "failed"
      BY <1>1, <2>2, ConversationAssumption DEF Staged, Weighed, Status
    <2> QED
      BY <1>1, <2>1, <2>2, <2>3, GoesOn
  <1> QED
    BY <1>3, <1>4

(* The risk is weighed: what is executed was not known to the ledger.      *)
LEMMA DecideCore ==
    ASSUME IInv, NEW h \in Handler, Decide(h)
    PROVE  IInv'
  <1>1. /\ handler[h].at = "decide" /\ UNCHANGED <<store, told, requests, rollbacks>>
        /\ handler[h] \in Turn /\ Staged(handler[h]) /\ Weighed(handler[h])
        /\ handler \in [Handler -> Turn]
    BY DEF Decide, IInv, TypeOK, RequestsStand
  <1>2. CASE Refused(h)
    BY <1>1, <1>2, DropCore
  <1>3. CASE handler' = [handler EXCEPT ![h].at = "reply", ![h].status = "confirm"]
    <2> DEFINE r == [handler[h] EXCEPT !.at = "reply", !.status = "confirm"]
    <2>1. r \in Turn /\ handler' = [handler EXCEPT ![h] = r]
      BY <1>1, <1>3 DEF Turn, Stage, Status
    <2>2. /\ r.at = "reply" /\ r.asked = handler[h].asked /\ r.id = handler[h].id
          /\ r.row = handler[h].row /\ r.status = "confirm"
          /\ r.known = handler[h].known
      BY <1>1 DEF Turn
    <2> HIDE DEF r
    <2>3. Staged(r) /\ Weighed(r) /\ handler[h].status # "failed"
      BY <1>1, <2>2, ConversationAssumption DEF Staged, Weighed, Status
    <2> QED
      BY <1>1, <2>1, <2>2, <2>3, GoesOn
  <1>4. CASE /\ ~Risky(handler[h].intent, handler[h].asked.text)
             /\ handler' = [handler EXCEPT ![h].at = "execute"]
    <2> DEFINE r == [handler[h] EXCEPT !.at = "execute"]
    <2>1. r \in Turn /\ handler' = [handler EXCEPT ![h] = r]
      BY <1>1, <1>4 DEF Turn, Stage
    <2>2. /\ r.at = "execute" /\ r.asked = handler[h].asked /\ r.id = handler[h].id
          /\ r.row = handler[h].row /\ r.status = handler[h].status
          /\ r.known = handler[h].known /\ r.intent = handler[h].intent
      BY <1>1 DEF Turn
    <2> HIDE DEF r
    <2>3. handler[h].intent = "entry" => handler[h].asked.text \notin booked
      BY <1>4 DEF Risky, Hits
    <2>4. Staged(r) /\ Weighed(r) /\ handler[h].status # "failed"
      BY <1>1, <2>2, <2>3, ConversationAssumption DEF Staged, Weighed, Status
    <2> QED
      BY <1>1, <2>1, <2>2, <2>4, GoesOn
  <1> QED
    BY <1>2, <1>3, <1>4 DEF Decide, Freeze, Asked

(* What has no status yet is executed.                                     *)
LEMMA ExecutesCore ==
    ASSUME IInv, NEW h \in Handler, handler[h].at = "execute", Executes(h),
           UNCHANGED <<store, told, requests, rollbacks>>
    PROVE  IInv'
  <1>1. /\ handler[h] \in Turn /\ Staged(handler[h]) /\ Weighed(handler[h])
        /\ handler \in [Handler -> Turn]
    BY DEF IInv, TypeOK, RequestsStand
  <1> DEFINE s == ResultFor(handler[h].intent)
             r == [handler[h] EXCEPT !.at = "reply", !.status = s]
  <1>2. s \in {"answered", "shown", "executed"}
    BY DEF ResultFor
  <1>3. handler' = [handler EXCEPT ![h] = r]
    BY <1>1 DEF Executes
  <1> HIDE DEF s
  <1>4. r \in Turn
    BY <1>1, <1>2 DEF Turn, Stage, Status
  <1>5. /\ r.at = "reply" /\ r.asked = handler[h].asked /\ r.id = handler[h].id
        /\ r.row = handler[h].row /\ r.status = s
        /\ r.known = handler[h].known /\ r.intent = handler[h].intent
    BY <1>1 DEF Turn
  <1> HIDE DEF r
  <1>6. Staged(r) /\ Weighed(r) /\ handler[h].status # "failed"
    BY <1>1, <1>2, <1>5, ConversationAssumption DEF Staged, Weighed, Status
  <1> QED
    BY <1>3, <1>4, <1>5, <1>6, GoesOn

(* A sentence is executed, or loses its transaction.                       *)
LEMMA ExecuteCore ==
    ASSUME IInv, NEW h \in Handler, Execute(h)
    PROVE  IInv'
  <1>1. /\ handler[h].at = "execute" /\ UNCHANGED <<store, told, requests, rollbacks>>
        /\ handler[h] \in Turn /\ Staged(handler[h]) /\ Weighed(handler[h])
        /\ handler \in [Handler -> Turn]
    BY DEF Execute, IInv, TypeOK, RequestsStand
  <1>2. CASE Executes(h)
    BY <1>1, <1>2, ExecutesCore
  <1>3. CASE handler' = [handler EXCEPT ![h].at = "reply", ![h].status = "failed", ![h].row = None]
    <2> DEFINE r == [handler[h] EXCEPT !.at = "reply", !.status = "failed", !.row = None]
    <2>1. r \in Turn /\ handler' = [handler EXCEPT ![h] = r]
      BY <1>1, <1>3 DEF Turn, Stage, Status
    <2>2. /\ r.at = "reply" /\ r.asked = handler[h].asked /\ r.id = handler[h].id
          /\ r.row = None /\ r.status = "failed" /\ r.known = handler[h].known
      BY <1>1 DEF Turn
    <2> HIDE DEF r
    <2>3. Staged(r) /\ Weighed(r)
      BY <1>1, <2>2, ConversationAssumption DEF Staged, Weighed, Status
    <2> QED
      BY <1>1, <2>1, <2>2, <2>3, GoesOn
  <1> QED
    BY <1>2, <1>3 DEF Execute

(* A form is executed, or refused.                                         *)
LEMMA ExecuteFormCore ==
    ASSUME IInv, NEW h \in Handler, ExecuteForm(h)
    PROVE  IInv'
  BY ExecutesCore, DropCore DEF ExecuteForm

(* The question is appended to a row that nobody else has locked.          *)
LEMMA AppendQuestionCore ==
    ASSUME IInv, NEW h \in Handler, AppendQuestion(h)
    PROVE  IInv'
  <1>1. /\ handler[h].at = "context" /\ UNCHANGED <<store, told, requests, rollbacks>>
        /\ ~RowHeld(h, ConvOf(h)) /\ handler[h] \in Turn /\ Staged(handler[h])
        /\ Weighed(handler[h]) /\ ClaimsKey(h) /\ handler \in [Handler -> Turn]
        /\ rollbacks \in 0 .. MaxRollbacks /\ conversation \in [Conv -> Row] /\ HistoryInOrder
    BY DEF AppendQuestion, IInv, TypeOK, RequestsStand
  <1>2. handler[h].asked \in Request /\ handler[h].id \in 1 .. MaxRequests
    BY <1>1, AskedIsRequest
  <1>3. CASE Refused(h)
    BY <1>1, <1>3, DropCore
  <1>4. CASE /\ Open(ConvOf(h))
             /\ handler' = [handler EXCEPT ![h].at = "interpret",
                   ![h].row = Appended(conversation[ConvOf(h)], "user", handler[h].id, None)]
    <2> DEFINE new == Appended(conversation[ConvOf(h)], "user", handler[h].id, None)
               r == [handler[h] EXCEPT !.at = "interpret", !.row = new]
    <2>1. ConvOf(h) \in Conv /\ handler[h].asked.conv = ConvOf(h)
      BY <1>1, <1>2 DEF Staged, ConvOf, Request
    <2>2. Len(conversation[ConvOf(h)].messages) <= MaxHistory
      BY <1>1, <2>1 DEF HistoryInOrder, InOrder
    <2>3. Extends(new, conversation[ConvOf(h)], "user", handler[h].id, None)
      BY <1>1, <1>2, <2>1, <2>2, AppendedShape
    <2>4. handler' = [handler EXCEPT ![h] = r]
      BY <1>1, <1>4
    <2>5. new \in Row /\ new # None
      BY <2>3, ConversationAssumption DEF Extends
    <2>6. new = Appended(conversation[ConvOf(h)], "user", handler[h].id, None)
      OBVIOUS
    <2> HIDE DEF new
    <2>7. r \in Turn
      BY <1>1, <2>5 DEF Turn, Stage
    <2>8. /\ r.at = "interpret" /\ r.asked = handler[h].asked /\ r.id = handler[h].id
          /\ r.row = new /\ r.status = handler[h].status
          /\ r.known = handler[h].known /\ r.intent = handler[h].intent
      BY <1>1 DEF Turn
    <2> HIDE DEF r
    <2>9. Staged(r) /\ Weighed(r)
      BY <1>1, <2>5, <2>8, ConversationAssumption DEF Staged, Weighed, Status
    <2>10. Fits(h, r)
      BY <1>1, <1>4, <2>1, <2>6, <2>7, <2>8, <2>9 DEF Fits, ClaimsKey, Claims, Asked, Staged
    <2> QED
      BY <1>1, <2>4, <2>10, TurnCore
  <1> QED
    BY <1>1, <1>3, <1>4 DEF AppendQuestion

(* What a turn leaves of an open conversation: the history in order and    *)
(* its turns whole.                                                        *)
Continues(c, new) ==
    /\ Open(c) /\ new \in Row /\ new.status = conversation[c].status /\ InOrder(new)
    /\ \A i \in DOMAIN new.messages : Whole(new.messages, i)

(* A question and its answer make a whole turn.                            *)
LEMMA TurnContinues ==
    ASSUME IInv, NEW c \in Conv, Open(c), NEW of \in 1 .. MaxRequests, NEW status \in Status,
           NEW row, row = Appended(conversation[c], "user", of, None),
           NEW new, new = Appended(row, "assistant", of, status)
    PROVE  Continues(c, new)
  <1>1. /\ conversation[c] \in Row /\ InOrder(conversation[c])
        /\ \A i \in 1 .. Len(conversation[c].messages) : Whole(conversation[c].messages, i)
        /\ Len(conversation[c].messages) <= MaxHistory
    <2>1. conversation[c] \in Row /\ InOrder(conversation[c])
      BY DEF IInv, TypeOK, HistoryInOrder
    <2>2. DOMAIN conversation[c].messages = 1 .. Len(conversation[c].messages)
      BY <2>1 DEF Row
    <2> QED
      BY <2>1, <2>2 DEF IInv, TurnsAreWhole, InOrder
  <1>2. Extends(row, conversation[c], "user", of, None)
    BY <1>1, AppendedShape
  <1>3. row \in Row /\ row.status = conversation[c].status /\ InOrder(row)
    <2>1. InOrder(row)
      BY <1>1, <1>2, AppendedInOrder
    <2> QED
      BY <1>2, <2>1 DEF Extends
  <1>4. /\ \A i \in 1 .. Len(row.messages) : Whole(row.messages, i) \/ i = Len(row.messages)
        /\ Len(row.messages) <= MaxHistory
        /\ row.messages[Len(row.messages)].role = "user"
        /\ row.messages[Len(row.messages)].of = of
    <2>1. \A i \in 1 .. Len(row.messages) : Whole(row.messages, i) \/ i = Len(row.messages)
      BY <1>1, <1>2, AppendedTurns
    <2> QED
      BY <1>2, <1>3, <2>1 DEF Extends, InOrder
  <1>5. Extends(new, row, "assistant", of, status)
    BY <1>3, <1>4, AppendedShape
  <1>6. new \in Row /\ new.status = row.status /\ InOrder(new)
    <2>1. InOrder(new)
      BY <1>3, <1>5, AppendedInOrder
    <2> QED
      BY <1>5, <2>1 DEF Extends
  <1>7. \A i \in 1 .. Len(new.messages) : Whole(new.messages, i)
    BY <1>3, <1>4, <1>5, AppendedTurns
  <1>8. DOMAIN new.messages = 1 .. Len(new.messages)
    BY <1>6 DEF Row
  <1> QED
    BY <1>3, <1>6, <1>7, <1>8 DEF Continues

(* So does the answer alone, when the execution failed.                    *)
LEMMA FailureContinues ==
    ASSUME IInv, NEW c \in Conv, Open(c), NEW of \in 1 .. MaxRequests,
           NEW new, new = Appended(conversation[c], "assistant", of, "failed")
    PROVE  Continues(c, new)
  <1>1. /\ conversation[c] \in Row /\ InOrder(conversation[c])
        /\ \A i \in 1 .. Len(conversation[c].messages) : Whole(conversation[c].messages, i)
        /\ Len(conversation[c].messages) <= MaxHistory
    <2>1. conversation[c] \in Row /\ InOrder(conversation[c])
      BY DEF IInv, TypeOK, HistoryInOrder
    <2>2. DOMAIN conversation[c].messages = 1 .. Len(conversation[c].messages)
      BY <2>1 DEF Row
    <2> QED
      BY <2>1, <2>2 DEF IInv, TurnsAreWhole, InOrder
  <1>2. Extends(new, conversation[c], "assistant", of, "failed")
    BY <1>1, AppendedShape DEF Status
  <1>3. new \in Row /\ new.status = conversation[c].status /\ InOrder(new)
    <2>1. InOrder(new)
      BY <1>1, <1>2, AppendedInOrder
    <2> QED
      BY <1>2, <2>1 DEF Extends
  <1>4. \A i \in 1 .. Len(new.messages) : Whole(new.messages, i)
    BY <1>1, <1>2, AppendedTurns
  <1>5. DOMAIN new.messages = 1 .. Len(new.messages)
    BY <1>3 DEF Row
  <1> QED
    BY <1>3, <1>4, <1>5 DEF Continues

(* A request commits: its conversation, its key and its answer agree.      *)
LEMMA CommitCore ==
    ASSUME IInv, NEW h \in Handler, handler[h].at = "reply",
           NEW rows \in [Conv -> Row],
           \A c \in Conv : rows[c] = conversation[c] \/ (Continues(c, rows[c]) /\ ~RowHeld(h, c)),
           Commit(h, rows), UNCHANGED <<requests, rollbacks>>
    PROVE  IInv'
  <1> DEFINE q == handler[h].asked
             k == ScopeOf(q)
             s == handler[h].status
             response == [of |-> handler[h].id, status |-> s]
  <1>1. /\ TypeOK /\ HistoryInOrder /\ TurnsAreWhole /\ RepeatIsAskedAbout
        /\ WrittenAsAnswered /\ RequestsStand /\ ToldIsRecorded
    BY DEF IInv
  <1>2. /\ conversation' = rows
        /\ record' = IF s # "failed" THEN [record EXCEPT ![k] = [asked |-> q, response |-> response]]
                     ELSE record
        /\ booked' = IF s = "executed" /\ handler[h].intent = "entry"
                     THEN booked \cup {q.text} ELSE booked
        /\ written' = IF s = "confirm" \/ s = "executed"
                      THEN [written EXCEPT ![k] = @ + 1] ELSE written
        /\ told' = [told EXCEPT ![k] = @ \cup {response}]
        /\ handler' = [handler EXCEPT ![h] = Idle]
    BY DEF Commit, Asked, Remembered
  <1>3. /\ handler[h] \in Turn /\ q \in Request /\ handler[h].id \in 1 .. MaxRequests
        /\ k \in Scope /\ q.text \in Text
    BY AskedIsRequest, AnswerIsRetold DEF Request
  <1>4. Staged(handler[h]) /\ ClaimsKey(h)
    BY <1>1 DEF RequestsStand
  <1>5. s \in Status /\ response \in Response
    BY <1>3, <1>4 DEF Staged, Turn, Response
  <1>6. s # "failed" => record[k] = None /\ ~KeyHeld(h, k)
    BY <1>4 DEF ClaimsKey, Claims, Asked
  <1>7. [asked |-> q, response |-> response] \in Record
    BY <1>3, <1>5 DEF Record
  <1>8. [asked |-> q, response |-> response] # None
    BY <1>7, ConversationAssumption
  <1> HIDE DEF k, q, s
  <1>9. /\ handler' \in [Handler -> Turn] /\ handler'[h] = Idle
        /\ \A g \in Handler \ {h} : handler'[g] = handler[g]
    BY <1>1, <1>2, IdleFits DEF TypeOK, Fits
  <1>10. TypeOK'
    <2>1. record' \in [Scope -> Record \cup {None}]
      BY <1>1, <1>2, <1>7 DEF TypeOK
    <2>2. booked' \subseteq Text
      BY <1>1, <1>2, <1>3 DEF TypeOK
    <2>3. written' \in [Scope -> Nat]
      BY <1>1, <1>2, <1>3 DEF TypeOK
    <2>4. told' \in [Scope -> SUBSET Response]
      BY <1>1, <1>2, <1>5 DEF TypeOK
    <2> QED
      BY <1>1, <1>2, <1>9, <2>1, <2>2, <2>3, <2>4 DEF TypeOK
  <1>11. HistoryInOrder' /\ TurnsAreWhole'
    BY <1>1, <1>2 DEF HistoryInOrder, TurnsAreWhole, Continues
  <1>12. RepeatIsAskedAbout'
    BY <1>1, <1>9 DEF RepeatIsAskedAbout, Asked, Idle
  <1>13. WrittenAsAnswered'
    <2> SUFFICES ASSUME NEW j \in Scope
                 PROVE  written'[j] = IF record'[j] # None
                            /\ record'[j].response.status \in {"executed", "confirm"} THEN 1 ELSE 0
      BY DEF WrittenAsAnswered
    <2>1. written[j] = IF record[j] # None
                            /\ record[j].response.status \in {"executed", "confirm"} THEN 1 ELSE 0
      BY <1>1 DEF WrittenAsAnswered
    <2>2. CASE j # k \/ s = "failed"
      BY <1>1, <1>2, <2>1, <2>2 DEF TypeOK
    <2>3. CASE j = k /\ s # "failed"
      <3>1. record'[j] # None /\ record'[j].response.status = s /\ written[j] = 0
        BY <1>1, <1>2, <1>3, <1>6, <1>8, <2>1, <2>3 DEF TypeOK
      <3>2. written'[j] = IF s \in {"executed", "confirm"} THEN 1 ELSE 0
        BY <1>1, <1>2, <2>3, <3>1 DEF TypeOK
      <3> QED
        BY <3>1, <3>2
    <2> QED
      BY <2>2, <2>3
  <1>14. RequestsStand'
    <2> SUFFICES ASSUME NEW g \in Handler
                 PROVE  (Staged(handler[g]) /\ Weighed(handler[g]) /\ Locks(g) /\ ClaimsKey(g))'
      BY DEF RequestsStand
    <2>1. CASE g = h
      BY <1>9, <2>1 DEF Staged, Weighed, Locks, ClaimsKey, Claims, Idle
    <2>2. CASE g # h
      <3>1. handler'[g] = handler[g] /\ Staged(handler[g]) /\ Weighed(handler[g])
            /\ Locks(g) /\ ClaimsKey(g)
        BY <1>1, <1>9, <2>2 DEF RequestsStand
      <3>2. Staged(handler[g])'
        BY <3>1 DEF Staged
      <3>3. Weighed(handler[g])'
        <4>1. booked \subseteq booked'
          BY <1>2
        <4> QED
          BY <3>1, <4>1 DEF Weighed
      <3>4. Locks(g)'
        <4> SUFFICES ASSUME handler[g].row # None
                     PROVE  Locks(g)'
          BY <3>1 DEF Locks
        <4> DEFINE c == handler[g].asked.conv
        <4>1. c \in Conv
          <5>1. handler[g] \in Turn /\ handler[g].asked # None /\ c # None
            BY <1>1, <3>1 DEF TypeOK, Staged, Turn, Stage
          <5> QED
            BY <5>1 DEF Turn, Request
        <4>2. RowHeld(h, c)
          BY <2>2 DEF RowHeld, ConvOf
        <4>3. conversation'[c] = conversation[c]
          BY <1>2, <4>1, <4>2
        <4>4. \A f \in Handler : handler'[f].row # None => handler'[f] = handler[f]
          BY <1>9 DEF Idle
        <4> QED
          BY <3>1, <4>3, <4>4 DEF Locks, Open, RowHeld, ConvOf
      <3>5. ClaimsKey(g)'
        <4> SUFFICES ASSUME Claims(g)
                     PROVE  ClaimsKey(g)'
          BY <3>1 DEF ClaimsKey, Claims
        <4>1. s # "failed" => ScopeOf(handler[g].asked) # k
          BY <1>6, <2>2 DEF KeyHeld, Asked
        <4>2. record'[ScopeOf(handler[g].asked)] = record[ScopeOf(handler[g].asked)]
          BY <1>1, <1>2, <4>1 DEF TypeOK
        <4>3. \A f \in Handler : handler'[f].at # "idle" => handler'[f] = handler[f]
          BY <1>9 DEF Idle
        <4> QED
          BY <3>1, <4>2, <4>3 DEF ClaimsKey, Claims, KeyHeld, Asked
      <3> QED
        BY <3>2, <3>3, <3>4, <3>5
    <2> QED
      BY <2>1, <2>2
  <1>15. ToldIsRecorded'
    <2> SUFFICES ASSUME NEW j \in Scope
                 PROVE  /\ record'[j] # None => record'[j].response.status # "failed"
                        /\ \A r \in told'[j] : r.status = "failed"
                               \/ (record'[j] # None /\ r = record'[j].response)
      BY DEF ToldIsRecorded
    <2>1. /\ record[j] # None => record[j].response.status # "failed"
          /\ \A r \in told[j] : r.status = "failed"
                 \/ (record[j] # None /\ r = record[j].response)
      BY <1>1 DEF ToldIsRecorded
    <2>2. CASE j # k
      <3>1. record'[j] = record[j] /\ told'[j] = told[j]
        BY <1>1, <1>2, <2>2 DEF TypeOK
      <3> QED
        BY <2>1, <3>1
    <2>3. CASE j = k /\ s = "failed"
      <3>1. record'[j] = record[j] /\ told'[j] = told[j] \cup {response}
        BY <1>1, <1>2, <2>3 DEF TypeOK
      <3> QED
        BY <2>1, <2>3, <3>1
    <2>4. CASE j = k /\ s # "failed"
      <3>1. /\ record'[j] = [asked |-> q, response |-> response]
            /\ told'[j] = told[j] \cup {response} /\ record[j] = None
        BY <1>1, <1>2, <1>6, <2>4 DEF TypeOK
      <3> QED
        BY <1>8, <2>1, <2>4, <3>1
    <2> QED
      BY <2>2, <2>3, <2>4
  <1> QED
    BY <1>10, <1>11, <1>12, <1>13, <1>14, <1>15 DEF IInv

(* The answer is appended under the lock, or the request is refused.       *)
LEMMA ReplyCore ==
    ASSUME IInv, NEW h \in Handler, Reply(h)
    PROVE  IInv'
  <1> DEFINE c == handler[h].asked.conv  row == handler[h].row  s == handler[h].status
             of == handler[h].id
  <1>1. /\ handler[h].at = "reply" /\ UNCHANGED <<requests, rollbacks>>
        /\ conversation \in [Conv -> Row] /\ Staged(handler[h]) /\ Locks(h)
    BY DEF Reply, IInv, TypeOK, RequestsStand
  <1>2. handler[h] \in Turn /\ handler[h].asked \in Request /\ of \in 1 .. MaxRequests
    BY <1>1, AskedIsRequest
  <1>3. s \in Status /\ c \in Conv \cup {None}
    BY <1>1, <1>2 DEF Staged, Turn, Request
  <1>4. CASE Refused(h) /\ UNCHANGED <<store, told>>
    BY <1>1, <1>4, DropCore
  <1>5. CASE c = None /\ Commit(h, conversation)
    BY <1>1, <1>5, CommitCore
  <1>6. CASE c # None /\ row # None
             /\ Commit(h, [conversation EXCEPT ![c] = Appended(row, "assistant", of, s)])
    <2> DEFINE new == Appended(row, "assistant", of, s)
               rows == [conversation EXCEPT ![c] = new]
    <2>1. c \in Conv /\ Open(c) /\ ~RowHeld(h, c) /\ row = Appended(conversation[c], "user", of, None)
      BY <1>1, <1>3, <1>6 DEF Locks, ConvOf
    <2>2. Continues(c, new)
      BY <1>2, <1>3, <2>1, TurnContinues
    <2>3. Commit(h, rows)
      BY <1>6
    <2> HIDE DEF new
    <2>4. rows \in [Conv -> Row]
      BY <1>1, <2>1, <2>2 DEF Continues
    <2>5. \A d \in Conv : rows[d] = conversation[d] \/ (Continues(d, rows[d]) /\ ~RowHeld(h, d))
      BY <1>1, <2>1, <2>2
    <2> HIDE DEF rows
    <2> QED
      BY <1>1, <2>3, <2>4, <2>5, CommitCore
  <1>7. CASE /\ c # None /\ row = None /\ ~RowHeld(h, c) /\ Open(c)
             /\ Commit(h, [conversation EXCEPT ![c] = Appended(@, "assistant", of, s)])
    <2> DEFINE new == Appended(conversation[c], "assistant", of, s)
               rows == [conversation EXCEPT ![c] = new]
    <2>1. c \in Conv /\ s = "failed"
      BY <1>1, <1>3, <1>7 DEF Staged
    <2>2. Continues(c, new)
      BY <1>2, <1>7, <2>1, FailureContinues
    <2>3. Commit(h, rows)
      BY <1>7
    <2> HIDE DEF new
    <2>4. rows \in [Conv -> Row]
      BY <1>1, <2>1, <2>2 DEF Continues
    <2>5. \A d \in Conv : rows[d] = conversation[d] \/ (Continues(d, rows[d]) /\ ~RowHeld(h, d))
      BY <1>1, <1>7, <2>1, <2>2
    <2> HIDE DEF rows
    <2> QED
      BY <1>1, <2>3, <2>4, <2>5, CommitCore
  <1> QED
    BY <1>4, <1>5, <1>6, <1>7 DEF Reply, ConvOf

(* A conversation nobody has locked is created, archived or deleted.       *)
LEMMA BecomesCore ==
    ASSUME IInv, NEW c \in Conv, Create(c) \/ Archive(c) \/ Delete(c)
    PROVE  IInv'
  <1>1. /\ TypeOK /\ HistoryInOrder /\ TurnsAreWhole /\ RepeatIsAskedAbout
        /\ WrittenAsAnswered /\ RequestsStand /\ ToldIsRecorded
    BY DEF IInv
  <1>2. Blank("active") \in Row /\ Blank("deleted") \in Row
    BY ConversationAssumption DEF Blank, Row
  <1>3. \A x \in {"active", "deleted"} : InOrder(Blank(x)) /\ DOMAIN Blank(x).messages = {}
    BY ConversationAssumption DEF Blank, InOrder
  <1>4. PICK new \in Row :
           /\ conversation' = [conversation EXCEPT ![c] = new] /\ InOrder(new)
           /\ \A i \in DOMAIN new.messages : Whole(new.messages, i)
    <2>1. CASE Create(c)
      BY <1>2, <1>3, <2>1 DEF Create, Becomes
    <2>2. CASE Archive(c)
      <3> DEFINE row == conversation[c]  new == [row EXCEPT !.status = "archived"]
      <3>1. row \in Row /\ InOrder(row) /\ \A i \in DOMAIN row.messages : Whole(row.messages, i)
        BY <1>1 DEF TypeOK, HistoryInOrder, TurnsAreWhole
      <3>2. new \in Row /\ new.messages = row.messages /\ new.context = row.context
        BY <3>1 DEF Row
      <3>3. conversation' = [conversation EXCEPT ![c] = new]
        BY <2>2 DEF Archive, Becomes
      <3> HIDE DEF new
      <3>4. InOrder(new)
        BY <3>1, <3>2 DEF InOrder
      <3> QED
        BY <3>1, <3>2, <3>3, <3>4
    <2>3. CASE Delete(c)
      BY <1>2, <1>3, <2>3 DEF Delete, Becomes
    <2> QED
      BY <2>1, <2>2, <2>3
  <1>5. UNCHANGED <<record, booked, handler, written, told, requests, rollbacks>>
    BY DEF Create, Archive, Delete, Becomes
  <1>6. \A g \in Handler : handler[g].row # None => ConvOf(g) # c
    <2>1. CASE Create(c)
      BY <1>1, <2>1 DEF Create, RequestsStand, Locks, Open
    <2>2. CASE Archive(c) \/ Delete(c)
      BY <2>2 DEF Archive, Delete, Unlocked
    <2> QED
      BY <2>1, <2>2
  <1>7. TypeOK'
    BY <1>1, <1>4, <1>5 DEF TypeOK
  <1>8. HistoryInOrder' /\ TurnsAreWhole'
    BY <1>1, <1>4 DEF HistoryInOrder, TurnsAreWhole, TypeOK
  <1>9. RepeatIsAskedAbout' /\ WrittenAsAnswered' /\ ToldIsRecorded'
    BY <1>1, <1>5 DEF RepeatIsAskedAbout, WrittenAsAnswered, ToldIsRecorded, Asked
  <1>10. RequestsStand'
    <2> SUFFICES ASSUME NEW g \in Handler
                 PROVE  (Staged(handler[g]) /\ Weighed(handler[g]) /\ Locks(g) /\ ClaimsKey(g))'
      BY DEF RequestsStand
    <2>1. Staged(handler[g]) /\ Weighed(handler[g]) /\ Locks(g) /\ ClaimsKey(g)
      BY <1>1 DEF RequestsStand
    <2>2. Staged(handler[g])' /\ Weighed(handler[g])' /\ ClaimsKey(g)'
      BY <1>5, <2>1 DEF Staged, Weighed, ClaimsKey, Claims, KeyHeld, Asked
    <2>3. Locks(g)'
      BY <1>1, <1>4, <1>5, <1>6, <2>1 DEF Locks, Open, RowHeld, ConvOf, TypeOK
    <2> QED
      BY <2>2, <2>3
  <1> QED
    BY <1>7, <1>8, <1>9, <1>10 DEF IInv

(* An entry is booked through another channel.                             *)
LEMMA BookElsewhereCore ==
    ASSUME IInv, NEW t \in Text, BookElsewhere(t)
    PROVE  IInv'
  <1>1. /\ TypeOK /\ HistoryInOrder /\ TurnsAreWhole /\ RepeatIsAskedAbout
        /\ WrittenAsAnswered /\ RequestsStand /\ ToldIsRecorded
    BY DEF IInv
  <1>2. /\ booked' = booked \cup {t}
        /\ UNCHANGED <<conversation, record, handler, written, told, requests, rollbacks>>
    BY DEF BookElsewhere
  <1>3. TypeOK'
    BY <1>1, <1>2 DEF TypeOK
  <1>4. HistoryInOrder' /\ TurnsAreWhole' /\ RepeatIsAskedAbout' /\ WrittenAsAnswered' /\ ToldIsRecorded'
    BY <1>1, <1>2 DEF HistoryInOrder, TurnsAreWhole, RepeatIsAskedAbout, WrittenAsAnswered,
                      ToldIsRecorded, Asked
  <1>5. RequestsStand'
    BY <1>1, <1>2 DEF RequestsStand, Staged, Weighed, Locks, ClaimsKey, Claims, KeyHeld, Asked,
                      Open, RowHeld, ConvOf
  <1> QED
    BY <1>3, <1>4, <1>5 DEF IInv

(* Nothing is said, booked or asked at first.                              *)
LEMMA InitCore == Init => IInv
  <1> SUFFICES ASSUME Init PROVE IInv
    OBVIOUS
  <1>1. Blank("none") \in Row /\ InOrder(Blank("none")) /\ DOMAIN Blank("none").messages = {}
    BY ConversationAssumption DEF Blank, Row, InOrder
  <1>2. TypeOK
    <2>1. Idle \in Turn
      BY ConversationAssumption DEF Idle, Turn, Stage
    <2> QED
      BY <1>1, <2>1, ConversationAssumption DEF TypeOK, Init
  <1>3. HistoryInOrder /\ TurnsAreWhole
    BY <1>1 DEF Init, HistoryInOrder, TurnsAreWhole
  <1>4. RepeatIsAskedAbout /\ WrittenAsAnswered /\ ToldIsRecorded
    BY DEF Init, RepeatIsAskedAbout, WrittenAsAnswered, ToldIsRecorded, Asked, Idle
  <1>5. RequestsStand
    BY DEF Init, RequestsStand, Staged, Weighed, Locks, ClaimsKey, Claims, Idle
  <1> QED
    BY <1>2, <1>3, <1>4, <1>5 DEF IInv

(* Every step of the service.                                              *)
LEMMA NextCore == IInv /\ [Next]_vars => IInv'
  <1> SUFFICES ASSUME IInv, [Next]_vars PROVE IInv'
    OBVIOUS
  <1>1. ASSUME NEW h \in Handler, (\E q \in Request : Arrive(h, q)) \/ Step(h) \/ Rollback(h)
        PROVE  IInv'
    <2>1. ASSUME NEW q \in Request, Arrive(h, q)
          PROVE  IInv'
      BY <2>1, ArriveCore
    <2>2. CASE Insert(h)
      BY <2>2, InsertCore
    <2>3. CASE ReadContext(h)
      BY <2>3, ReadContextCore
    <2>4. CASE AppendQuestion(h)
      BY <2>4, AppendQuestionCore
    <2>5. CASE Interpret(h)
      BY <2>5, InterpretCore
    <2>6. CASE Decide(h)
      BY <2>6, DecideCore
    <2>7. CASE Execute(h)
      BY <2>7, ExecuteCore
    <2>8. CASE ExecuteForm(h)
      BY <2>8, ExecuteFormCore
    <2>9. CASE Reply(h)
      BY <2>9, ReplyCore
    <2>10. CASE Rollback(h)
      BY <2>10, DropCore
    <2> QED
      BY <1>1, <2>1, <2>2, <2>3, <2>4, <2>5, <2>6, <2>7, <2>8, <2>9, <2>10 DEF Step
  <1>2. ASSUME NEW c \in Conv, Create(c) \/ Archive(c) \/ Delete(c)
        PROVE  IInv'
    BY <1>2, BecomesCore
  <1>3. CASE UNCHANGED vars
    BY <1>3 DEF vars, IInv, TypeOK, HistoryInOrder, TurnsAreWhole, RepeatIsAskedAbout,
                WrittenAsAnswered, ToldIsRecorded, RequestsStand, Staged, Weighed, Locks, ClaimsKey,
                Claims, KeyHeld, Asked, Open, RowHeld, ConvOf
  <1> QED
    BY <1>1, <1>2, <1>3, BookElsewhereCore DEF Next

(* Histories stay in order, turns whole, a repeat is asked about, and a    *)
(* key writes once and is answered with that.                              *)
THEOREM Invariance == Spec => []IInv
  BY InitCore, NextCore, PTL DEF Spec

(* A question and its answer are in the history together.                  *)
THEOREM TurnsAreWholeHolds == Spec => []TurnsAreWhole
  <1>1. IInv => TurnsAreWhole
    BY DEF IInv
  <1> QED
    BY <1>1, Invariance, PTL

(* No requests wait for each other in a circle. Who has a conversation     *)
(* waits for nobody; who has only a key waits for a conversation at most,  *)
(* and so for nobody of a set in which none is held; and where nothing is  *)
(* held, nobody waits.                                                     *)
THEOREM NoCircleHolds == Spec => []NoCircle
  <1>1. ASSUME IInv, NEW S \in SUBSET Handler, S # {}
        PROVE  \E h \in S : \A k \in S : ~WaitsFor(h, k)
    <2>1. \A h \in S : handler[h].at \in {"insert", "context"} => handler[h].row = None
      BY <1>1 DEF IInv, RequestsStand, Staged
    <2>2. CASE \E h \in S : handler[h].row # None
      BY <2>1, <2>2 DEF WaitsFor
    <2>3. CASE (\A k \in S : handler[k].row = None) /\ \E h \in S : Claims(h)
      BY <2>3 DEF WaitsFor, Claims
    <2>4. CASE (\A k \in S : handler[k].row = None) /\ \A k \in S : ~Claims(k)
      BY <1>1, <2>4 DEF WaitsFor
    <2> QED
      BY <2>2, <2>3, <2>4
  <1>2. IInv => NoCircle
    BY <1>1 DEF NoCircle
  <1> QED
    BY <1>2, Invariance, PTL

(* What a turn adds is added to an open conversation only: the lock of the *)
(* question keeps it open, and the answer to a failed execution looks      *)
(* again.                                                                  *)
THEOREM ArchivedIsClosedHolds == Spec => ArchivedIsClosed
  <1> DEFINE A == \A c \in Conv :
                    conversation[c].status = "archived" /\ conversation'[c] # conversation[c]
                      => conversation'[c].status = "deleted"
  <1>1. ASSUME IInv, [Next]_vars, NEW c \in Conv, conversation[c].status = "archived",
               conversation'[c] # conversation[c]
        PROVE  conversation'[c].status = "deleted"
    <2>1. conversation \in [Conv -> Row]
      BY <1>1 DEF IInv, TypeOK
    <2>2. ASSUME NEW d \in Conv, Create(d) \/ Archive(d) \/ Delete(d)
          PROVE  conversation'[c].status = "deleted"
      BY <1>1, <2>1, <2>2 DEF Create, Archive, Delete, Becomes, Open, Blank
    <2>3. ASSUME NEW h \in Handler, Reply(h)
          PROVE  FALSE
      <3>1. Locks(h)
        BY <1>1 DEF IInv, RequestsStand
      <3>2. ASSUME NEW new, ConvOf(h) # None, Open(ConvOf(h)),
                   Commit(h, [conversation EXCEPT ![ConvOf(h)] = new])
            PROVE  FALSE
        <4>1. conversation'[c] = IF c = ConvOf(h) THEN new ELSE conversation[c]
          BY <2>1, <3>2 DEF Commit
        <4> QED
          BY <1>1, <3>2, <4>1 DEF Open
      <3>3. CASE Commit(h, conversation) \/ (Refused(h) /\ UNCHANGED <<store, told>>)
        BY <1>1, <3>3 DEF Commit, store
      <3> QED
        BY <2>3, <3>1, <3>2, <3>3 DEF Reply, Locks
    <2>4. CASE UNCHANGED conversation
      BY <1>1, <2>4
    <2>5. CASE \E h \in Handler : (\E q \in Request : Arrive(h, q)) \/ Rollback(h)
                   \/ (Step(h) /\ ~Reply(h))
      BY <2>4, <2>5 DEF Arrive, Rollback, Step, Insert, ReadContext, AppendQuestion, Interpret,
                        Decide, Execute, ExecuteForm, store
    <2>6. CASE \E t \in Text : BookElsewhere(t)
      BY <2>4, <2>6 DEF BookElsewhere
    <2> QED
      BY <1>1, <2>2, <2>3, <2>4, <2>5, <2>6 DEF Next, Step, vars
  <1>2. IInv /\ [Next]_vars => [A]_vars
    BY <1>1
  <1> QED
    BY <1>2, Invariance, PTL DEF Spec, ArchivedIsClosed

(* Refinement: a commit that is remembered applies its key, an answer from *)
(* the record repeats the outcome, and nothing else can be seen.           *)

(* A recorded answer.                                                      *)
LEMMA RetoldImplements ==
    ASSUME IInv, Retold, record' = record
    PROVE  Promise!Next \/ UNCHANGED <<remembered, applied, reported>>
  <1>1. remembered' = remembered /\ applied' = applied
    BY DEF remembered, applied
  <1>2. CASE UNCHANGED told
    BY <1>1, <1>2 DEF reported
  <1>3. ASSUME NEW k \in Scope, record[k] # None,
               told' = [told EXCEPT ![k] = @ \cup {record[k].response}]
        PROVE  Promise!Next
    <2>1. /\ record[k].response \in Response /\ record[k].response.status # "failed"
          /\ told \in [Scope -> SUBSET Response]
      BY <1>3 DEF IInv, TypeOK, Record, ToldIsRecorded
    <2>2. remembered[k] = record[k].response /\ remembered[k] # None
      BY <1>3, <2>1, ConversationAssumption DEF remembered
    <2>3. reported' = [reported EXCEPT ![k] = @ \cup {remembered[k]}]
      <3>1. \A j \in Scope : told'[j] = IF j = k THEN told[k] \cup {record[k].response} ELSE told[j]
        BY <1>3, <2>1
      <3>2. {r \in told[k] \cup {record[k].response} : r.status # "failed"} =
               {r \in told[k] : r.status # "failed"} \cup {record[k].response}
        BY <2>1
      <3> QED
        BY <2>2, <3>1, <3>2 DEF reported
    <2> QED
      BY <1>1, <2>2, <2>3 DEF Promise!Next, Promise!Repeat
  <1> QED
    BY <1>2, <1>3 DEF Retold

(* A commit.                                                               *)
LEMMA CommitImplements ==
    ASSUME IInv, NEW h \in Handler, handler[h].at = "reply", NEW rows, Commit(h, rows)
    PROVE  Promise!Next \/ UNCHANGED <<remembered, applied, reported>>
  <1> DEFINE q == handler[h].asked
             k == ScopeOf(q)
             s == handler[h].status
             response == [of |-> handler[h].id, status |-> s]
             row == [asked |-> q, response |-> response]
  <1>1. /\ record' = IF s # "failed" THEN [record EXCEPT ![k] = row] ELSE record
        /\ told' = [told EXCEPT ![k] = @ \cup {response}]
    BY DEF Commit, Asked, Remembered
  <1>2. /\ handler[h] \in Turn /\ q \in Request /\ handler[h].id \in 1 .. MaxRequests
        /\ k \in Scope /\ Staged(handler[h]) /\ ClaimsKey(h)
        /\ told \in [Scope -> SUBSET Response] /\ record \in [Scope -> Record \cup {None}]
    BY AskedIsRequest, AnswerIsRetold DEF IInv, RequestsStand, TypeOK
  <1>3. s \in Status /\ response \in Response
    BY <1>2 DEF Staged, Turn, Response
  <1>4. row \in Record /\ row # None /\ row.response = response
    <2>1. row \in Record
      BY <1>2, <1>3 DEF Record
    <2> QED
      BY <2>1, ConversationAssumption
  <1>5. \A j \in Scope : told'[j] = IF j = k THEN told[k] \cup {response} ELSE told[j]
    BY <1>1, <1>2
  <1>6. CASE s = "failed"
    <2>1. remembered' = remembered /\ applied' = applied
      BY <1>1, <1>6 DEF remembered, applied
    <2>2. {r \in told[k] \cup {response} : r.status # "failed"} = {r \in told[k] : r.status # "failed"}
      BY <1>6
    <2>3. reported' = reported
      BY <1>5, <2>2 DEF reported
    <2> QED
      BY <2>1, <2>3
  <1>7. CASE s # "failed"
    <2>1. record[k] = None /\ \A r \in told[k] : r.status = "failed"
      BY <1>2, <1>7 DEF ClaimsKey, Claims, Asked, IInv, ToldIsRecorded
    <2> HIDE DEF k, q, s
    <2>2. \A j \in Scope : record'[j] = IF j = k THEN row ELSE record[j]
      BY <1>1, <1>2, <1>7
    <2> HIDE DEF row, response
    <2>3. remembered[k] = None /\ remembered' = [remembered EXCEPT ![k] = response]
      BY <1>2, <1>4, <2>1, <2>2 DEF remembered
    <2>4. applied' = [applied EXCEPT ![k] = 1]
      BY <1>2, <1>4, <2>1, <2>2 DEF applied
    <2>5. reported' = [reported EXCEPT ![k] = {response}]
      <3>1. response.status # "failed"
        BY <1>7 DEF response
      <3>2. {r \in told[k] \cup {response} : r.status # "failed"} = {response}
        BY <2>1, <3>1
      <3> QED
        BY <1>2, <1>5, <3>2 DEF reported
    <2>6. remembered'[k] = response
      BY <1>2, <1>4, <2>2 DEF remembered
    <2>7. Promise!Apply(k)
      BY <1>3, <2>3, <2>4, <2>5, <2>6 DEF Promise!Apply
    <2> QED
      BY <1>2, <2>7 DEF Promise!Next
  <1> QED
    BY <1>6, <1>7

(* Every step.                                                             *)
LEMMA StepImplements ==
    ASSUME IInv, [Next]_vars
    PROVE  [Promise!Next]_<<remembered, applied, reported>>
  <1> SUFFICES Promise!Next \/ UNCHANGED <<remembered, applied, reported>>
    OBVIOUS
  <1>1. CASE UNCHANGED <<record, told>>
    BY <1>1 DEF remembered, applied, reported
  <1>2. ASSUME NEW h \in Handler, NEW q \in Request, Arrive(h, q)
        PROVE  Promise!Next \/ UNCHANGED <<remembered, applied, reported>>
    BY <1>2, AnswerIsRetold, RetoldImplements DEF Arrive, Retold, store
  <1>3. ASSUME NEW h \in Handler, Insert(h)
        PROVE  Promise!Next \/ UNCHANGED <<remembered, applied, reported>>
    <2>1. handler[h].asked \in Request /\ record' = record
      BY <1>3, AskedIsRequest DEF Insert, store
    <2>2. Retold
      BY <1>3, <2>1, AnswerIsRetold DEF Insert, Duplicate, Asked, Retold
    <2> QED
      BY <2>1, <2>2, RetoldImplements
  <1>4. ASSUME NEW h \in Handler, Reply(h)
        PROVE  Promise!Next \/ UNCHANGED <<remembered, applied, reported>>
    <2>1. handler[h].at = "reply"
      BY <1>4 DEF Reply
    <2>2. (\E rows : Commit(h, rows)) \/ UNCHANGED <<store, told>>
      BY <1>4 DEF Reply
    <2> QED
      BY <1>1, <2>1, <2>2, CommitImplements DEF store
  <1>5. CASE \/ \E h \in Handler : Rollback(h) \/ (Step(h) /\ ~Insert(h) /\ ~Reply(h))
             \/ \E c \in Conv : Create(c) \/ Archive(c) \/ Delete(c)
             \/ \E t \in Text : BookElsewhere(t)
             \/ UNCHANGED vars
    BY <1>1, <1>5 DEF Rollback, Step, ReadContext, AppendQuestion, Interpret, Decide, Execute,
                      ExecuteForm, Create, Archive, Delete, Becomes, BookElsewhere, store, vars
  <1> QED
    BY <1>2, <1>3, <1>4, <1>5 DEF Next, Step

(* The records of the browser keep the promise of AnsweredOnce, but for a  *)
(* failed execution.                                                       *)
THEOREM Refinement == Spec => KeepsPromise
  <1>1. Init => Promise!Init
    BY DEF Init, Promise!Init, remembered, applied, reported
  <1>2. IInv /\ [Next]_vars => [Promise!Next]_<<remembered, applied, reported>>
    BY StepImplements
  <1> QED
    BY <1>1, <1>2, Invariance, PTL DEF Spec, KeepsPromise, Promise!Spec, Promise!vars
=============================================================================
