---------------------------- MODULE IdentityProofs ----------------------------
(***************************************************************************)
(* Proofs about Identity for any subjects, users, ledgers, sessions,       *)
(* credentials, handlers and number of requests: a user has one default    *)
(* ledger and a way in, a session is its subject's user's, and revoking is *)
(* final.                                                                  *)
(***************************************************************************)
EXTENDS Identity, TLAPS

(* The invariant in its parts.                                             *)
Core == /\ TypeOK /\ OneDefault /\ NoOrphan /\ SessionIsSubjects
        /\ Rooted /\ RequestsStand /\ Apart

HandlerRow ==
    [at : {"idle", "seen", "new", "in", "read", "clearing", "cleared"},
     asked : Request \cup {None}, by : User \cup {None}, made : User \cup {None},
     row : SessionRow \cup {None}, picked : SUBSET Session, on : Ledger \cup {None}]

(* What a request of each kind carries.                                    *)
LEMMA RequestShape ==
    ASSUME NEW q \in Request
    PROVE  /\ q.op \in {"message", "login", "create", "rename", "default", "logout", "revoke",
                        "revoke_others", "issue", "withdraw"}
           /\ q.from \in Subjects \cup Sessions \cup Credentials
           /\ q.op \in Plain => q.from \in Subjects
           /\ q.op \in {"logout", "revoke", "revoke_others"} => q.from \in Sessions
           /\ q.op \in {"rename", "default"} => q.ledger \in Ledger
           /\ q.op \in {"create", "rename"} => q.name \in Name
           /\ q.op = "withdraw" => q.credential \in Credential
  <1>1. /\ Request = Comings \cup LedgerRequests(Subjects) \cup LedgerRequests(Sessions)
                       \cup LedgerRequests(Credentials) \cup SessionRequests
                       \cup CredentialRequests
    BY DEF Request, ChatLedgers, WebLedgers, ClientLedgers
  <1>2. CASE q \in Comings
    <2>1. PICK op \in Plain, f \in Subjects : q = [op |-> op, from |-> f]
      BY <1>2 DEF Comings
    <2> QED
      BY <2>1 DEF Plain
  <1>3. ASSUME NEW entrance \in {Subjects, Sessions, Credentials}, q \in LedgerRequests(entrance)
        PROVE  /\ q.op \in LedgerOps /\ q.from \in entrance
               /\ q.op \in {"rename", "default"} => q.ledger \in Ledger
               /\ q.op \in {"create", "rename"} => q.name \in Name
    <2>1. CASE \E f \in entrance, n \in Name : q = [op |-> "create", from |-> f, name |-> n]
      BY <2>1 DEF LedgerOps
    <2>2. CASE \E f \in entrance, l \in Ledger, n \in Name :
                  q = [op |-> "rename", from |-> f, ledger |-> l, name |-> n]
      BY <2>2 DEF LedgerOps
    <2>3. CASE \E f \in entrance, l \in Ledger :
                  q = [op |-> "default", from |-> f, ledger |-> l]
      BY <2>3 DEF LedgerOps
    <2> QED
      BY <1>3, <2>1, <2>2, <2>3 DEF LedgerRequests
  <1>4. CASE q \in SessionRequests
    <2>1. CASE q \in {[op |-> op, from |-> f] : op \in {"logout", "revoke_others"}, f \in Sessions}
      <3>1. PICK op \in {"logout", "revoke_others"}, f \in Sessions : q = [op |-> op, from |-> f]
        BY <2>1
      <3> QED
        BY <3>1 DEF Plain
    <2>2. CASE q \in {[op |-> "revoke", from |-> f, session |-> d] : f \in Sessions, d \in Session}
      <3>1. PICK f \in Sessions, d \in Session : q = [op |-> "revoke", from |-> f, session |-> d]
        BY <2>2
      <3> QED
        BY <3>1 DEF Plain
    <2> QED
      BY <1>4, <2>1, <2>2 DEF SessionRequests
  <1>5. CASE q \in CredentialRequests
    <2>0. \/ \E f \in Sessions : q = [op |-> "issue", from |-> f]
          \/ \E f \in Sessions, c \in Credential :
                q = [op |-> "withdraw", from |-> f, credential |-> c]
      BY <1>5 DEF CredentialRequests
    <2>1. CASE \E f \in Sessions : q = [op |-> "issue", from |-> f]
      BY <2>1 DEF Plain
    <2>2. CASE \E f \in Sessions, c \in Credential :
                  q = [op |-> "withdraw", from |-> f, credential |-> c]
      BY <2>2 DEF Plain
    <2> QED
      BY <2>0, <2>1, <2>2
  <1>6. CASE \E entrance \in {Subjects, Sessions, Credentials} : q \in LedgerRequests(entrance)
    BY <1>3, <1>6 DEF LedgerOps, Plain
  <1> QED
    BY <1>1, <1>2, <1>4, <1>5, <1>6

(* With what a request comes is a subject, a session or a credential.      *)
LEMMA KeyShape ==
    ASSUME NEW q \in Request
    PROVE  /\ q.from.with = "subject" => q.from.key \in Subject
           /\ q.from.with = "session" => q.from.key \in Session
           /\ q.op \in Plain => q.from.with = "subject"
           /\ q.op \in {"logout", "revoke", "revoke_others"} => q.from.with = "session"
  BY RequestShape DEF Subjects, Sessions, Credentials

(* None is no row.                                                         *)
LEMMA NoneIsNoRow ==
    /\ None \notin LedgerRow /\ None \notin SessionRow /\ None \notin CredentialRow
    /\ None \notin User /\ None \notin Ledger
  BY IdentityAssumption

(* Who is idle acts for nobody and holds nothing.                          *)
LEMMA IdleStands ==
    /\ Idle \in HandlerRow /\ Idle.at = "idle" /\ Idle.made = None
    /\ \A r : r.at = "idle" /\ r.made = None => ActsForIts(r)' /\ HoldsIts(r)'
  <1>1. Idle \in HandlerRow /\ Idle.at = "idle" /\ Idle.made = None
    BY DEF Idle, HandlerRow
  <1>2. \A r : r.at = "idle" /\ r.made = None => ActsForIts(r)' /\ HoldsIts(r)'
    BY DEF ActsForIts, HoldsIts
  <1> QED
    BY <1>1, <1>2

(* A step of one handler that leaves the tables as they are, but for what  *)
(* a session's row says of its age and its end.                            *)
LEMMA TablesStay ==
    ASSUME Core, TypeOK', UNCHANGED <<user, identity, ledger, credential>>,
           \A d \in Session : session'[d] # None =>
              /\ session[d] # None
              /\ session'[d].user = session[d].user /\ session'[d].subject = session[d].subject,
           NEW h \in Handler, NEW new, handler' = [handler EXCEPT ![h] = new],
           ActsForIts(new), HoldsIts(new), new.made = handler[h].made,
           new.made # None => new.asked = handler[h].asked,
           new.at = "cleared" /\ new.on # None => ~Locked(h, new.on)
    PROVE  Core'
  <1>1. \A g \in Handler : handler'[g] = IF g = h THEN new ELSE handler[g]
    BY DEF Core, TypeOK
  <1>2. OneDefault' /\ Rooted'
    BY DEF Core, OneDefault, Rooted, Defaults, Owned, Known
  <1>3. NoOrphan'
    <2> SUFFICES ASSUME NEW u \in user
                 PROVE  Known(u) \/ \E g \in Handler : handler'[g].made = u
      BY DEF NoOrphan, Known
    <2> QED
      BY <1>1 DEF Core, NoOrphan
  <1>4. SessionIsSubjects'
    BY DEF Core, SessionIsSubjects
  <1>5. RequestsStand'
    <2> SUFFICES ASSUME NEW g \in Handler, NEW r, r = handler'[g]
                 PROVE  ActsForIts(r) /\ HoldsIts(r)
      BY DEF RequestsStand, ActsForIts, HoldsIts, Known, Owned, Defaults
    <2> QED
      BY <1>1 DEF Core, RequestsStand
  <1>6. Apart'
    <2> SUFFICES ASSUME NEW f \in Handler, NEW g \in Handler, f # g
                 PROVE  /\ handler'[f].made # None /\ handler'[g].made # None =>
                              /\ handler'[f].made # handler'[g].made
                              /\ handler'[f].asked.from.key # handler'[g].asked.from.key
                        /\ ~(/\ handler'[f].at = "cleared" /\ handler'[f].on # None
                             /\ handler'[g].at = "cleared" /\ handler'[g].on = handler'[f].on)
      BY DEF Apart, Key, Locked
    <2>1. /\ handler[f].made # None /\ handler[g].made # None =>
                handler[f].made # handler[g].made /\ Key(f) # Key(g)
          /\ ~(/\ handler[f].at = "cleared" /\ handler[f].on # None
               /\ handler[g].at = "cleared" /\ handler[g].on = handler[f].on)
      BY DEF Core, Apart, Locked
    <2> QED
      BY <1>1, <2>1 DEF Locked, Key, Asked
  <1> QED
    BY <1>2, <1>3, <1>4, <1>5, <1>6 DEF Core

(* With a handler's last step the user it has made becomes one that can    *)
(* come in.                                                                *)
LEMMA Committing ==
    ASSUME Core, NEW h \in Handler, Done(h), handler[h].at \notin {"idle", "new"}
    PROVE  /\ identity' = IF handler[h].made = None THEN identity
                          ELSE [identity EXCEPT ![Key(h)] = handler[h].made]
           /\ handler' = [handler EXCEPT ![h] = Idle] /\ user' = user /\ requests' = requests
           /\ handler[h].by \in user /\ handler[h].asked \in Request
           /\ handler[h].made = None =>
                 /\ Known(handler[h].by)
                 /\ handler[h].asked.from.with = "subject" => handler[h].by = identity[Key(h)]
           /\ handler[h].made # None =>
                 /\ handler[h].by = handler[h].made /\ ~Known(handler[h].made)
                 /\ identity[Key(h)] = None
                 /\ handler[h].asked.from.with = "subject" /\ Key(h) \in Subject
           /\ \A g \in Handler : handler'[g] = IF g = h THEN Idle ELSE handler[g]
           /\ user \subseteq User /\ identity \in [Subject -> User \cup {None}]
           /\ None \notin User /\ handler[h].by \in User
           /\ identity' \in [Subject -> User \cup {None}]
           /\ \A s \in Subject : identity[s] # None => identity'[s] = identity[s]
           /\ \A s \in Subject : identity'[s] # None => identity'[s] \in user
           /\ \A s \in Subject : identity'[s] # identity[s] =>
                 s = Key(h) /\ identity'[s] = handler[h].by
           /\ handler[h].made # None => identity'[Key(h)] = handler[h].by
           /\ \A u \in User : Known(u) => \E s \in Subject : identity'[s] = u
           /\ \E s \in Subject : identity'[s] = handler[h].by
           /\ handler[h].asked.from.with = "subject" => handler[h].by = identity'[Key(h)]
  <1> DEFINE key == Key(h)
             made == handler[h].made
             by == handler[h].by
  <1>1. /\ identity' = IF made = None THEN identity ELSE [identity EXCEPT ![key] = made]
        /\ handler' = [handler EXCEPT ![h] = Idle] /\ user' = user /\ requests' = requests
    BY DEF Done
  <1>2. ActsForIts(handler[h])
    BY DEF Core, RequestsStand
  <1>3. /\ by \in user /\ handler[h].asked \in Request
        /\ made = None => Known(by) /\ (handler[h].asked.from.with = "subject" => by = identity[key])
        /\ made # None => /\ by = made /\ ~Known(made) /\ identity[key] = None
                          /\ handler[h].asked.from.with = "subject" /\ key \in Subject
    BY <1>2, KeyShape DEF ActsForIts, Key
  <1>4. \A g \in Handler : handler'[g] = IF g = h THEN Idle ELSE handler[g]
    BY <1>1 DEF Core, TypeOK
  <1>5. /\ user \subseteq User /\ identity \in [Subject -> User \cup {None}] /\ None \notin User
        /\ by \in User
    BY <1>3, NoneIsNoRow DEF Core, TypeOK
  <1>8. \A s \in Subject : identity[s] # None => identity[s] \in user
    BY DEF Core, Rooted
  <1>9. identity \in [Subject -> User \cup {None}]
    BY DEF Core, TypeOK
  <1>6. /\ identity' \in [Subject -> User \cup {None}]
        /\ \A s \in Subject : identity[s] # None => identity'[s] = identity[s]
        /\ \A s \in Subject : identity'[s] # None => identity'[s] \in user
        /\ \A s \in Subject : identity'[s] # identity[s] => s = key /\ identity'[s] = by
        /\ made # None => identity'[key] = by
    <2>1. CASE made = None
      BY <1>1, <1>8, <1>9, <2>1
    <2>2. CASE made # None
      <3>1. identity' = [identity EXCEPT ![key] = by] /\ key \in Subject /\ identity[key] = None
        BY <1>1, <1>3, <2>2
      <3>2. \A s \in Subject : identity'[s] = IF s = key THEN by ELSE identity[s]
        BY <1>9, <3>1
      <3>3. identity' \in [Subject -> User \cup {None}]
        BY <1>5, <1>9, <3>1
      <3> QED
        BY <1>3, <1>8, <3>1, <3>2, <3>3
    <2> QED
      BY <2>1, <2>2
  <1>7. /\ \A u \in User : Known(u) => \E s \in Subject : identity'[s] = u
        /\ \E s \in Subject : identity'[s] = by
        /\ handler[h].asked.from.with = "subject" => by = identity'[key]
    <2>1. \A u \in User : Known(u) => \E s \in Subject : identity'[s] = u
      BY <1>5, <1>6 DEF Known
    <2>2. CASE made = None
      BY <1>1, <1>3, <1>5, <2>1, <2>2
    <2>3. CASE made # None
      BY <1>3, <1>6, <2>1, <2>3
    <2> QED
      BY <2>1, <2>2, <2>3
  <1> QED
    BY <1>1, <1>3, <1>4, <1>5, <1>6, <1>7 DEF key, made, by

(* A handler's last step: with its identity the user it has made becomes   *)
(* one that can come in. Ledgers and credentials last; new sessions and    *)
(* credentials are its user's.                                             *)
LEMMA EndCore ==
    ASSUME Core, NEW h \in Handler, Done(h), handler[h].at \notin {"idle", "new"},
           ledger' \in [Ledger -> LedgerRow \cup {None}],
           session' \in [Session -> SessionRow \cup {None}],
           credential' \in [Credential -> CredentialRow \cup {None}],
           \A l \in Ledger : ledger[l] # None =>
              ledger'[l] # None /\ ledger'[l].owner = ledger[l].owner,
           \A l \in Ledger : ledger'[l] # None => ledger'[l].owner \in user,
           OneDefault',
           \A g \in Handler \ {h} : handler[g].at = "cleared" /\ handler[g].on # None =>
              ledger'[handler[g].on].default,
           \A d \in Session : session'[d] # None =>
              \/ /\ session[d] # None
                 /\ session'[d].user = session[d].user
                 /\ session'[d].subject = session[d].subject
              \/ /\ handler[h].asked.from.with = "subject"
                 /\ session'[d].user = handler[h].by
                 /\ session'[d].subject = handler[h].asked.from.key,
           \A c \in Credential : credential[c] # None => credential'[c] # None,
           \A c \in Credential : credential'[c] # None =>
              \/ credential[c] # None /\ credential'[c].user = credential[c].user
              \/ credential'[c].user = handler[h].by
    PROVE  Core'
  <1> DEFINE key == Key(h)
             made == handler[h].made
             by == handler[h].by
  <1>1. /\ identity' = IF made = None THEN identity ELSE [identity EXCEPT ![key] = made]
        /\ handler' = [handler EXCEPT ![h] = Idle] /\ user' = user /\ requests' = requests
    BY Committing
  <1>3. /\ by \in user /\ handler[h].asked \in Request
        /\ made = None => Known(by) /\ (handler[h].asked.from.with = "subject" => by = identity[key])
        /\ made # None => /\ by = made /\ ~Known(made) /\ identity[key] = None
                          /\ handler[h].asked.from.with = "subject" /\ key \in Subject
    BY Committing
  <1>4. \A g \in Handler : handler'[g] = IF g = h THEN Idle ELSE handler[g]
    BY Committing
  <1>5. /\ user \subseteq User /\ identity \in [Subject -> User \cup {None}] /\ None \notin User
        /\ by \in User
    BY Committing
  <1>6. /\ identity' \in [Subject -> User \cup {None}]
        /\ \A s \in Subject : identity[s] # None => identity'[s] = identity[s]
        /\ \A s \in Subject : identity'[s] # None => identity'[s] \in user
        /\ \A s \in Subject : identity'[s] # identity[s] => s = key /\ identity'[s] = by
        /\ made # None => identity'[key] = by
    BY Committing
  <1>7. /\ \A u \in User : Known(u) => \E s \in Subject : identity'[s] = u
        /\ \E s \in Subject : identity'[s] = by
        /\ handler[h].asked.from.with = "subject" => by = identity'[key]
    BY Committing
  <1> HIDE DEF key, made, by
  <1>8. TypeOK'
    <2>1. handler' \in [Handler -> HandlerRow]
      BY <1>1, IdleStands DEF Core, TypeOK, HandlerRow
    <2> QED
      BY <1>1, <1>5, <1>6, <2>1 DEF Core, TypeOK, HandlerRow
  <1>9. NoOrphan'
    <2> SUFFICES ASSUME NEW u \in user
                 PROVE  \/ \E s \in Subject : identity'[s] = u
                        \/ \E g \in Handler : handler'[g].made = u
      BY <1>1 DEF NoOrphan, Known
    <2>1. u \in User
      BY <1>5
    <2>2. CASE \E g \in Handler \ {h} : handler[g].made = u
      BY <1>4, <2>2
    <2>3. CASE handler[h].made = u
      BY <1>3, <1>5, <1>7, <2>1, <2>3 DEF made
    <2> QED
      BY <1>7, <2>1, <2>2, <2>3 DEF Core, NoOrphan
  <1>10. SessionIsSubjects'
    <2> SUFFICES ASSUME NEW d \in Session, session'[d] # None
                 PROVE  session'[d].user = identity'[session'[d].subject]
      BY DEF SessionIsSubjects
    <2>1. session'[d].subject \in Subject /\ session'[d].user \in User
      BY DEF SessionRow
    <2>2. CASE /\ session[d] # None /\ session'[d].user = session[d].user
               /\ session'[d].subject = session[d].subject
      BY <1>5, <1>6, <2>1, <2>2 DEF Core, SessionIsSubjects
    <2>3. CASE /\ handler[h].asked.from.with = "subject"
               /\ session'[d].user = handler[h].by
               /\ session'[d].subject = handler[h].asked.from.key
      BY <1>7, <2>3 DEF key, by, Key
    <2> QED
      BY <2>2, <2>3
  <1>11. Rooted'
    <2>1. \A c \in Credential : credential'[c] # None =>
             \E s \in Subject : identity'[s] = credential'[c].user
      <3> SUFFICES ASSUME NEW c \in Credential, credential'[c] # None
                   PROVE  \E s \in Subject : identity'[s] = credential'[c].user
        OBVIOUS
      <3>1. CASE credential[c] # None /\ credential'[c].user = credential[c].user
        <4>1. Known(credential[c].user) /\ credential[c].user \in User
          BY <3>1 DEF Core, Rooted, TypeOK, CredentialRow
        <4> QED
          BY <1>7, <3>1, <4>1
      <3>2. CASE credential'[c].user = handler[h].by
        BY <1>7, <3>2 DEF by
      <3> QED
        BY <3>1, <3>2
    <2> QED
      BY <1>1, <1>6, <2>1 DEF Rooted, Known
  <1>12. RequestsStand'
    <2>1. ASSUME NEW g \in Handler, NEW r, r = handler'[g]
          PROVE  ActsForIts(r)' /\ HoldsIts(r)'
      <3>1. CASE g = h
        BY <1>4, <2>1, <3>1, IdleStands
      <3>2. CASE g # h
        <4>1. r = handler[g] /\ ActsForIts(r) /\ HoldsIts(r)
          BY <1>4, <2>1, <3>2 DEF Core, RequestsStand
        <4>2. HoldsIts(r)'
          <5>1. \A l \in Owned(r.by) : l \in Ledger /\ ledger'[l] # None /\ ledger'[l].owner = r.by
            BY DEF Owned
          <5>2. r.at = "cleared" /\ r.on # None => ledger'[r.on].default
            BY <3>2, <4>1
          <5>3. /\ r.at \in {"read", "clearing", "cleared"} /\ r.asked.op \in {"rename", "default"}
                      => r.asked.ledger \in Owned(r.by)'
                /\ r.at = "clearing" => r.on \in Owned(r.by)'
                /\ r.at = "cleared" /\ r.on # None => r.on \in Defaults(r.by)'
            BY <4>1, <5>1, <5>2 DEF HoldsIts, Owned, Defaults
          <5>4. r.at = "read" /\ r.asked.op = "withdraw" => credential'[r.asked.credential] # None
            <6> SUFFICES ASSUME r.at = "read", r.asked.op = "withdraw"
                         PROVE  credential'[r.asked.credential] # None
              OBVIOUS
            <6>1. r.asked.credential \in Credential
              BY <4>1, RequestShape DEF ActsForIts
            <6> QED
              BY <4>1, <6>1 DEF HoldsIts
          <5> QED
            BY <5>3, <5>4 DEF HoldsIts
        <4>3. ActsForIts(r)'
          <5>1. r.at \notin {"idle", "new"} /\ r.made = None =>
                   /\ \E s \in Subject : identity'[s] = r.by
                   /\ r.asked.from.with = "subject" => r.by = identity'[r.asked.from.key]
            <6> SUFFICES ASSUME r.at \notin {"idle", "new"}, r.made = None
                         PROVE  /\ \E s \in Subject : identity'[s] = r.by
                                /\ r.asked.from.with = "subject" => r.by = identity'[r.asked.from.key]
              OBVIOUS
            <6>1. /\ Known(r.by) /\ r.by \in User /\ r.asked \in Request
                  /\ r.asked.from.with = "subject" => r.by = identity[r.asked.from.key]
              BY <1>5, <4>1 DEF ActsForIts
            <6>2. r.asked.from.with = "subject" => r.asked.from.key \in Subject
              BY <6>1, KeyShape
            <6> QED
              BY <1>5, <1>6, <1>7, <6>1, <6>2
          <5>2. r.made # None =>
                   /\ \A s \in Subject : identity'[s] # r.made
                   /\ identity'[r.asked.from.key] = None
            <6> SUFFICES ASSUME r.made # None
                         PROVE  /\ \A s \in Subject : identity'[s] # r.made
                                /\ identity'[r.asked.from.key] = None
              OBVIOUS
            <6>1. /\ ~Known(r.made) /\ identity[r.asked.from.key] = None
                  /\ r.asked.from.key \in Subject
              BY <4>1, KeyShape DEF ActsForIts
            <6>2. made # None => r.made # made /\ r.asked.from.key # key
              BY <3>2, <4>1 DEF Core, Apart, Key, Asked, made, key
            <6> QED
              BY <1>1, <1>3, <1>5, <1>6, <6>1, <6>2 DEF Known
          <5> QED
            BY <1>1, <4>1, <5>1, <5>2 DEF ActsForIts, Known
        <4> QED
          BY <4>2, <4>3
      <3> QED
        BY <3>1, <3>2
    <2> QED
      BY <2>1 DEF RequestsStand, ActsForIts, HoldsIts, Known, Owned, Defaults
  <1>13. Apart'
    BY <1>4, IdleStands DEF Core, Apart, Key, Asked, Locked
  <1> QED
    BY <1>8, <1>9, <1>10, <1>11, <1>12, <1>13 DEF Core

(* ... when it has left the ledgers as they were.                          *)
LEMMA EndLedgersStay ==
    ASSUME Core, NEW h \in Handler, Done(h), handler[h].at \notin {"idle", "new"},
           ledger' = ledger,
           session' \in [Session -> SessionRow \cup {None}],
           credential' \in [Credential -> CredentialRow \cup {None}],
           \A d \in Session : session'[d] # None =>
              \/ /\ session[d] # None
                 /\ session'[d].user = session[d].user
                 /\ session'[d].subject = session[d].subject
              \/ /\ handler[h].asked.from.with = "subject"
                 /\ session'[d].user = handler[h].by
                 /\ session'[d].subject = handler[h].asked.from.key,
           \A c \in Credential : credential[c] # None => credential'[c] # None,
           \A c \in Credential : credential'[c] # None =>
              \/ credential[c] # None /\ credential'[c].user = credential[c].user
              \/ credential'[c].user = handler[h].by
    PROVE  Core'
  <1>1. OneDefault'
    BY DEF Done, Core, OneDefault, Defaults, Owned
  <1>2. /\ ledger' \in [Ledger -> LedgerRow \cup {None}]
        /\ \A l \in Ledger : ledger'[l] # None => ledger'[l].owner \in user
    BY DEF Core, TypeOK, Rooted
  <1>3. \A g \in Handler : handler[g].at = "cleared" /\ handler[g].on # None =>
            ledger'[handler[g].on].default
    BY DEF Core, RequestsStand, HoldsIts, Defaults
  <1> QED
    BY <1>1, <1>2, <1>3, EndCore

-----------------------------------------------------------------------------
(* The tables start empty and the handlers idle.                           *)
LEMMA InitCore == Init => Core
  <1> SUFFICES ASSUME Init PROVE Core
    OBVIOUS
  <1>1. \A h \in Handler : handler[h] = Idle
    BY DEF Init
  <1>2. TypeOK
    BY IdleStands DEF Init, TypeOK, HandlerRow
  <1>3. OneDefault /\ NoOrphan /\ SessionIsSubjects /\ Rooted
    BY DEF Init, OneDefault, NoOrphan, SessionIsSubjects, Rooted
  <1>4. RequestsStand /\ Apart
    BY <1>1, IdleStands DEF RequestsStand, Apart, ActsForIts, HoldsIts
  <1> QED
    BY <1>2, <1>3, <1>4 DEF Core

(* A handler's row with a new request.                                     *)
LEMMA BeginCore ==
    ASSUME Core, NEW h \in Handler, NEW q \in Request, NEW stage \in {"seen", "new", "in"},
           NEW u \in User \cup {None}, NEW row \in SessionRow \cup {None},
           Begin(h, q, stage, u, row),
           stage = "seen" => row # None /\ q.from.with = "session",
           stage = "new" => q.from.with = "subject",
           stage # "new" => /\ u \in user /\ Known(u)
                            /\ q.from.with = "subject" => u = identity[q.from.key]
    PROVE  Core'
  <1> DEFINE new == [Idle EXCEPT !.at = stage, !.asked = q, !.by = u, !.row = row]
  <1>1. /\ handler[h].at = "idle" /\ handler' = [handler EXCEPT ![h] = new]
        /\ requests' = requests + 1
        /\ UNCHANGED <<user, identity, ledger, session, credential>>
    BY DEF Begin
  <1>2. /\ new \in HandlerRow /\ new.at = stage /\ new.asked = q /\ new.by = u
        /\ new.row = row /\ new.made = None
    BY DEF Idle, HandlerRow
  <1> HIDE DEF new
  <1>3. ActsForIts(new) /\ HoldsIts(new)
    BY <1>2 DEF ActsForIts, HoldsIts
  <1>4. TypeOK'
    BY <1>1, <1>2 DEF Core, TypeOK, HandlerRow
  <1>5. handler[h].made = None
    BY <1>1 DEF Core, RequestsStand, ActsForIts
  <1> QED
    BY <1>1, <1>2, <1>3, <1>4, <1>5, TablesStay

(* Whoever comes in is, or is about to be made, a user.                    *)
LEMMA ArriveCore ==
    ASSUME Core, NEW h \in Handler, Arrive(h)
    PROVE  Core'
  <1>1. PICK q \in Request : ComeWithSubject(h, q) \/ ComeWithSession(h, q)
                               \/ ComeWithCredential(h, q)
    BY DEF Arrive
  <1>2. CASE ComeWithSubject(h, q)
    <2> DEFINE u == identity[q.from.key]  stage == IF u = None THEN "new" ELSE "in"
    <2>1. /\ q.from.with = "subject" /\ Begin(h, q, stage, u, None)
          /\ q.from.key \in Subject
      BY <1>2, KeyShape DEF ComeWithSubject
    <2>2. /\ u \in User \cup {None} /\ stage \in {"seen", "new", "in"}
          /\ stage # "seen"
          /\ stage # "new" => u \in user /\ Known(u)
      BY <2>1 DEF Core, TypeOK, Rooted, Known
    <2> HIDE DEF u, stage
    <2>3. PICK uu \in User \cup {None}, st \in {"seen", "new", "in"} : uu = u /\ st = stage
      BY <2>2
    <2>4. Begin(h, q, st, uu, None) /\ (st # "new" => uu \in user /\ Known(uu)) /\ st # "seen"
      BY <2>1, <2>2, <2>3
    <2>5. uu = identity[q.from.key]
      BY <2>3 DEF u
    <2> QED
      BY <2>1, <2>4, <2>5, BeginCore
  <1>3. CASE ComeWithSession(h, q)
    <2> DEFINE d == q.from.key
    <2>1. /\ q.from.with = "session" /\ session[d] # None /\ d \in Session
          /\ Begin(h, q, "seen", session[d].user, session[d])
      BY <1>3, KeyShape DEF ComeWithSession, Live
    <2>2. session[d] \in SessionRow /\ session[d].user \in User /\ session[d].subject \in Subject
      BY <2>1 DEF Core, TypeOK, SessionRow
    <2>3. session[d].user = identity[session[d].subject]
      BY <2>1 DEF Core, SessionIsSubjects
    <2>4. session[d].user \in user /\ Known(session[d].user)
      BY <2>2, <2>3, NoneIsNoRow DEF Core, Rooted, Known
    <2>5. PICK u \in User \cup {None}, row \in SessionRow \cup {None} :
             u = session[d].user /\ row = session[d]
      BY <2>2
    <2>6. /\ Begin(h, q, "seen", u, row) /\ u \in user /\ Known(u) /\ row # None
      BY <2>1, <2>4, <2>5
    <2> QED
      BY <2>1, <2>6, BeginCore
  <1>4. CASE ComeWithCredential(h, q)
    <2> DEFINE c == q.from.key
    <2>1. /\ q.from.with = "credential" /\ credential[c] # None /\ c \in Credential
          /\ Begin(h, q, "in", credential[c].user, None)
      BY <1>4, RequestShape DEF ComeWithCredential, Usable, Subjects, Sessions, Credentials
    <2>2. credential[c].user \in User /\ Known(credential[c].user)
      BY <2>1 DEF Core, TypeOK, CredentialRow, Rooted
    <2>3. credential[c].user \in user
      BY <2>2, NoneIsNoRow DEF Core, Rooted, Known
    <2>4. PICK u \in User : u = credential[c].user
      BY <2>2
    <2>5. Begin(h, q, "in", u, None) /\ u \in user /\ Known(u)
      BY <2>1, <2>2, <2>3, <2>4
    <2> QED
      BY <2>1, <2>5, BeginCore
  <1> QED
    BY <1>1, <1>2, <1>3, <1>4

-----------------------------------------------------------------------------
(* A session's last use is written into the row as it is now, if there is  *)
(* one.                                                                    *)
LEMMA TouchCore ==
    ASSUME Core, NEW h \in Handler, Touch(h)
    PROVE  Core'
  <1> DEFINE old == handler[h].row
             d == Key(h)
             gone == old.quiet /\ session[d] = None
             on == [handler[h] EXCEPT !.at = "in", !.row = None]
             new == IF gone THEN Idle ELSE on
             touched == [session[d] EXCEPT !.quiet = FALSE]
  <1>1. /\ handler[h].at = "seen"
        /\ session' = IF old.quiet /\ ~gone THEN [session EXCEPT ![d] = touched] ELSE session
        /\ handler' = [handler EXCEPT ![h] = new]
        /\ UNCHANGED <<user, identity, ledger, credential, requests>>
    BY DEF Touch, Touched
  <1>2. /\ handler[h] \in HandlerRow /\ ActsForIts(handler[h])
        /\ old # None /\ handler[h].made = None /\ handler[h].asked \in Request
        /\ handler[h].asked.from.with = "session"
    BY <1>1 DEF Core, TypeOK, HandlerRow, RequestsStand, ActsForIts
  <1>3. /\ on \in HandlerRow /\ on.at = "in" /\ on.asked = handler[h].asked
        /\ on.by = handler[h].by /\ on.made = handler[h].made
    BY <1>2 DEF HandlerRow
  <1>4. d \in Session
    BY <1>2, KeyShape DEF Key
  <1>5. /\ session' \in [Session -> SessionRow \cup {None}]
        /\ \A k \in Session : session'[k] # None =>
              /\ session[k] # None
              /\ session'[k].user = session[k].user /\ session'[k].subject = session[k].subject
    <2>1. CASE session' = session
      BY <2>1 DEF Core, TypeOK
    <2>2. CASE session[d] # None /\ session' = [session EXCEPT ![d] = touched]
      <3>1. session[d] \in SessionRow
        BY <1>4, <2>2 DEF Core, TypeOK
      <3>2. /\ touched \in SessionRow /\ touched.user = session[d].user
            /\ touched.subject = session[d].subject
        BY <3>1 DEF SessionRow
      <3> HIDE DEF touched, d
      <3> QED
        BY <2>2, <3>1, <3>2 DEF Core, TypeOK
    <2> QED
      BY <1>1, <2>1, <2>2
  <1> HIDE DEF on, gone
  <1>6. ActsForIts(on) /\ HoldsIts(on)
    BY <1>1, <1>2, <1>3 DEF ActsForIts, HoldsIts
  <1>7. ActsForIts(Idle) /\ HoldsIts(Idle)
    BY DEF Idle, ActsForIts, HoldsIts
  <1>8. /\ new \in HandlerRow /\ ActsForIts(new) /\ HoldsIts(new) /\ new.made = handler[h].made
        /\ new.at # "cleared" /\ new.made = None
    BY <1>2, <1>3, <1>6, <1>7, IdleStands
  <1> HIDE DEF new
  <1>9. TypeOK'
    BY <1>1, <1>5, <1>8 DEF Core, TypeOK, HandlerRow
  <1> QED
    BY <1>1, <1>5, <1>8, <1>9, TablesStay

(* What a request finds is its user's.                                     *)
LEMMA LookCore ==
    ASSUME Core, NEW h \in Handler, Look(h)
    PROVE  Core'
  <1> DEFINE new == [handler[h] EXCEPT !.at = "read", !.picked = Picked(h)]
  <1>1. handler[h].at = "in" /\ UNCHANGED <<ledger, session, credential>>
    BY DEF Look
  <1>2. /\ handler[h] \in HandlerRow /\ ActsForIts(handler[h]) /\ handler[h].asked \in Request
    BY <1>1 DEF Core, TypeOK, HandlerRow, RequestsStand, ActsForIts
  <1>3. CASE Done(h)
    BY <1>1, <1>3, EndLedgersStay DEF Core, TypeOK
  <1>4. CASE /\ Accepted(h) /\ UNCHANGED <<user, identity, requests>>
             /\ handler' = [handler EXCEPT ![h].at = "read", ![h].picked = Picked(h)]
    <2>1. Picked(h) \in SUBSET Session
      BY DEF Picked, Unrevoked
    <2>2. /\ new \in HandlerRow /\ new.at = "read" /\ new.asked = handler[h].asked
          /\ new.by = handler[h].by /\ new.made = handler[h].made
      <3> DEFINE p == Picked(h)
      <3>1. p \in SUBSET Session
        BY <2>1
      <3> HIDE DEF p
      <3>2. new = [handler[h] EXCEPT !.at = "read", !.picked = p]
        BY DEF p
      <3> QED
        BY <1>2, <3>1, <3>2, ZenonT(60) DEF HandlerRow
    <2>3. handler' = [handler EXCEPT ![h] = new]
      BY <1>4 DEF Core, TypeOK
    <2> HIDE DEF new
    <2>4. TypeOK'
      <3>1. handler' \in [Handler -> HandlerRow]
        BY <2>2, <2>3 DEF Core, TypeOK, HandlerRow
      <3> QED
        BY <1>1, <1>4, <3>1 DEF Core, TypeOK, HandlerRow
    <2>5. ActsForIts(new)
      BY <1>1, <1>2, <2>2 DEF ActsForIts
    <2>6. HoldsIts(new)
      BY <1>4, <2>2 DEF HoldsIts, Accepted, Asked
    <2> QED
      BY <1>1, <1>4, <2>2, <2>3, <2>4, <2>5, <2>6, TablesStay
  <1> QED
    BY <1>3, <1>4 DEF Look

(* A message leaves the user it has made.                                  *)
LEMMA MessageCore ==
    ASSUME Core, NEW h \in Handler, Message(h)
    PROVE  Core'
  <1>1. handler[h].at = "in" /\ Done(h) /\ UNCHANGED <<ledger, session, credential>>
    BY DEF Message, At
  <1> QED
    BY <1>1, EndLedgersStay DEF Core, TypeOK

(* A login leaves a session of its subject and its user.                   *)
LEMMA LogInCore ==
    ASSUME Core, NEW h \in Handler, LogIn(h)
    PROVE  Core'
  <1>1. /\ handler[h].at = "in" /\ Asked(h).op \in Plain /\ Done(h)
        /\ UNCHANGED <<ledger, credential>>
    BY DEF LogIn, At, Plain
  <1> DEFINE new == [subject |-> Key(h), user |-> handler[h].by, revoked |-> FALSE,
                     quiet |-> FALSE, past |-> FALSE, old |-> FALSE]
  <1>2. PICK d \in Session : session[d] = None /\ session' = [session EXCEPT ![d] = new]
    BY DEF LogIn
  <1>3. /\ handler[h].asked.from.with = "subject" /\ Key(h) \in Subject /\ handler[h].by \in User
    <2>1. handler[h].asked \in Request
      BY <1>1 DEF Core, RequestsStand, ActsForIts
    <2>2. handler[h].by \in User
      BY <1>1, Committing
    <2> QED
      BY <1>1, <2>1, <2>2, KeyShape DEF Asked, Key
  <1>4. /\ new \in SessionRow /\ new.user = handler[h].by
        /\ new.subject = handler[h].asked.from.key
    BY <1>3 DEF SessionRow, Key
  <1> HIDE DEF new
  <1>5. /\ session' \in [Session -> SessionRow \cup {None}]
        /\ \A k \in Session : session'[k] = IF k = d THEN new ELSE session[k]
    BY <1>2, <1>4 DEF Core, TypeOK
  <1>6. /\ credential' \in [Credential -> CredentialRow \cup {None}]
        /\ credential' = credential
    BY <1>1 DEF Core, TypeOK
  <1> QED
    BY <1>1, <1>3, <1>4, <1>5, <1>6, EndLedgersStay

(* Revoking changes nothing else.                                          *)
LEMMA RevokeCore ==
    ASSUME Core, NEW h \in Handler, Revoke(h)
    PROVE  Core'
  <1>1. /\ handler[h].at = "read" /\ Done(h) /\ UNCHANGED <<ledger, credential>>
        /\ \/ session' = session
           \/ /\ \A d \in handler[h].picked : session[d] # None
              /\ session' = [d \in Session |-> IF d \in handler[h].picked
                                THEN [session[d] EXCEPT !.revoked = TRUE] ELSE session[d]]
    BY DEF Revoke, At
  <1>2. /\ session' \in [Session -> SessionRow \cup {None}]
        /\ \A d \in Session : session'[d] # None =>
              /\ session[d] # None
              /\ session'[d].user = session[d].user /\ session'[d].subject = session[d].subject
    <2>1. CASE session' = session
      BY <2>1 DEF Core, TypeOK
    <2>2. CASE /\ \A d \in handler[h].picked : session[d] # None
               /\ session' = [d \in Session |-> IF d \in handler[h].picked
                                THEN [session[d] EXCEPT !.revoked = TRUE] ELSE session[d]]
      <3> SUFFICES ASSUME NEW d \in Session
                   PROVE  /\ session'[d] \in SessionRow \cup {None}
                          /\ session'[d] # None =>
                                /\ session[d] # None
                                /\ session'[d].user = session[d].user
                                /\ session'[d].subject = session[d].subject
        BY <2>2
      <3>1. session[d] \in SessionRow \cup {None}
        BY DEF Core, TypeOK
      <3>2. CASE d \notin handler[h].picked
        BY <2>2, <3>1, <3>2
      <3>3. CASE d \in handler[h].picked
        <4> DEFINE new == [session[d] EXCEPT !.revoked = TRUE]
        <4>1. session[d] \in SessionRow /\ session[d] # None
          BY <2>2, <3>1, <3>3
        <4>2. /\ new \in SessionRow /\ new.user = session[d].user
              /\ new.subject = session[d].subject
          BY <4>1 DEF SessionRow
        <4>3. session'[d] = new
          BY <2>2, <3>3
        <4> HIDE DEF new
        <4> QED
          BY <4>1, <4>2, <4>3
      <3> QED
        BY <3>2, <3>3
    <2> QED
      BY <1>1, <2>1, <2>2
  <1>3. credential' \in [Credential -> CredentialRow \cup {None}] /\ credential' = credential
    BY <1>1 DEF Core, TypeOK
  <1> QED
    BY <1>1, <1>2, <1>3, EndLedgersStay

(* A credential is issued for whoever asks for it.                         *)
LEMMA IssueCore ==
    ASSUME Core, NEW h \in Handler, Issue(h)
    PROVE  Core'
  <1> DEFINE new == [user |-> handler[h].by, revoked |-> FALSE, past |-> FALSE]
  <1>1. /\ handler[h].at = "read" /\ Done(h) /\ UNCHANGED <<ledger, session>>
    BY DEF Issue, At
  <1>2. PICK c \in Credential : credential[c] = None
                                  /\ credential' = [credential EXCEPT ![c] = new]
    BY DEF Issue
  <1>3. handler[h].by \in User
    BY <1>1, Committing
  <1>4. new \in CredentialRow /\ new.user = handler[h].by
    BY <1>3 DEF CredentialRow
  <1>5. new # None
    BY <1>4, NoneIsNoRow
  <1> HIDE DEF new
  <1>6. /\ credential' \in [Credential -> CredentialRow \cup {None}]
        /\ \A k \in Credential : credential'[k] = IF k = c THEN new ELSE credential[k]
    BY <1>2, <1>4 DEF Core, TypeOK
  <1>7. session' \in [Session -> SessionRow \cup {None}] /\ session' = session
    BY <1>1 DEF Core, TypeOK
  <1> QED
    BY <1>1, <1>4, <1>5, <1>6, <1>7, EndLedgersStay

(* A credential that is withdrawn stays one of the same user.              *)
LEMMA WithdrawCore ==
    ASSUME Core, NEW h \in Handler, Withdraw(h)
    PROVE  Core'
  <1> DEFINE c == Asked(h).credential
             new == [credential[c] EXCEPT !.revoked = TRUE]
  <1>1. /\ handler[h].at = "read" /\ handler[h].asked.op = "withdraw" /\ Done(h)
        /\ UNCHANGED <<ledger, session>>
        /\ credential' = [credential EXCEPT ![c].revoked = TRUE]
    BY DEF Withdraw, At, Asked
  <1>2. c \in Credential /\ credential[c] # None
    <2>1. handler[h].asked \in Request /\ credential[c] # None
      BY <1>1 DEF Core, RequestsStand, ActsForIts, HoldsIts, Asked
    <2> QED
      BY <1>1, <2>1, RequestShape DEF Asked
  <1>3. credential[c] \in CredentialRow
    BY <1>2 DEF Core, TypeOK
  <1>4. new \in CredentialRow /\ new.user = credential[c].user
    BY <1>3 DEF CredentialRow
  <1>5. new # None /\ credential' = [credential EXCEPT ![c] = new]
    <2>1. new # None
      BY <1>4, NoneIsNoRow
    <2> QED
      BY <1>1, <2>1 DEF Core, TypeOK
  <1> HIDE DEF new, c
  <1>6. /\ credential' \in [Credential -> CredentialRow \cup {None}]
        /\ \A k \in Credential : credential'[k] = IF k = c THEN new ELSE credential[k]
    BY <1>4, <1>5 DEF Core, TypeOK
  <1>7. session' \in [Session -> SessionRow \cup {None}] /\ session' = session
    BY <1>1 DEF Core, TypeOK
  <1> QED
    BY <1>1, <1>2, <1>4, <1>5, <1>6, <1>7, EndLedgersStay

-----------------------------------------------------------------------------
(* What users own does not change with the names of ledgers and with       *)
(* ledgers that are not their default.                                     *)
LEMMA DefaultsStay ==
    ASSUME Core, user' = user,
           \A u \in user, l \in Ledger :
              ledger'[l] # None /\ ledger'[l].owner = u /\ ledger'[l].default
                 <=> ledger[l] # None /\ ledger[l].owner = u /\ ledger[l].default
    PROVE  OneDefault'
  <1> SUFFICES ASSUME NEW u \in user
               PROVE  \E l \in Ledger :
                         {k \in {m \in Ledger : ledger'[m] # None /\ ledger'[m].owner = u} :
                             ledger'[k].default} = {l}
    BY DEF OneDefault, Defaults, Owned
  <1>1. {k \in {m \in Ledger : ledger'[m] # None /\ ledger'[m].owner = u} : ledger'[k].default}
           = Defaults(u)
    BY DEF Defaults, Owned
  <1> QED
    BY <1>1 DEF Core, OneDefault

(* A new ledger is nobody's default.                                       *)
LEMMA CreateCore ==
    ASSUME Core, NEW h \in Handler, Create(h)
    PROVE  Core'
  <1> DEFINE new == [owner |-> handler[h].by, name |-> Asked(h).name, default |-> FALSE]
  <1>1. /\ handler[h].at = "read" /\ handler[h].asked.op = "create" /\ Done(h)
        /\ UNCHANGED <<session, credential>>
    BY DEF Create, At, Asked
  <1>2. PICK l \in Ledger :
           /\ ledger[l] = None
           /\ ledger' = ledger \/ ledger' = [ledger EXCEPT ![l] = new]
    BY DEF Create
  <1>3. /\ session' \in [Session -> SessionRow \cup {None}] /\ session' = session
        /\ credential' \in [Credential -> CredentialRow \cup {None}] /\ credential' = credential
    BY <1>1 DEF Core, TypeOK
  <1>4. CASE ledger' = ledger
    BY <1>1, <1>3, <1>4, EndLedgersStay
  <1>5. CASE ledger' = [ledger EXCEPT ![l] = new]
    <2>1. handler[h].by \in User /\ handler[h].by \in user /\ user' = user
          /\ handler[h].asked \in Request
      BY <1>1, Committing
    <2>2. Asked(h).name \in Name
      BY <1>1, <2>1, RequestShape DEF Asked
    <2>3. /\ new \in LedgerRow /\ new.owner = handler[h].by /\ new.default = FALSE
      BY <2>1, <2>2 DEF LedgerRow
    <2> HIDE DEF new
    <2>4. /\ ledger' \in [Ledger -> LedgerRow \cup {None}]
          /\ \A k \in Ledger : ledger'[k] = IF k = l THEN new ELSE ledger[k]
      BY <1>5, <2>3 DEF Core, TypeOK
    <2>5. OneDefault'
      BY <1>2, <2>1, <2>3, <2>4, DefaultsStay
    <2>6. /\ \A k \in Ledger : ledger[k] # None =>
                ledger'[k] # None /\ ledger'[k].owner = ledger[k].owner
          /\ \A k \in Ledger : ledger'[k] # None => ledger'[k].owner \in user
      BY <1>2, <2>1, <2>3, <2>4 DEF Core, Rooted
    <2>7. \A g \in Handler : handler[g].at = "cleared" /\ handler[g].on # None =>
             ledger'[handler[g].on].default
      BY <1>2, <2>4 DEF Core, RequestsStand, HoldsIts, Defaults, Owned
    <2> QED
      BY <1>1, <1>3, <2>4, <2>5, <2>6, <2>7, EndCore
  <1> QED
    BY <1>2, <1>4, <1>5

(* A ledger's name is nobody's default.                                    *)
LEMMA RenameCore ==
    ASSUME Core, NEW h \in Handler, Rename(h)
    PROVE  Core'
  <1> DEFINE l == Asked(h).ledger
             new == [ledger[l] EXCEPT !.name = Asked(h).name]
  <1>1. /\ handler[h].at = "read" /\ handler[h].asked.op = "rename" /\ Done(h)
        /\ UNCHANGED <<session, credential>>
        /\ ledger' = ledger \/ ledger' = [ledger EXCEPT ![l].name = Asked(h).name]
    BY DEF Rename, At, Asked
  <1>2. /\ session' \in [Session -> SessionRow \cup {None}] /\ session' = session
        /\ credential' \in [Credential -> CredentialRow \cup {None}] /\ credential' = credential
    BY <1>1 DEF Core, TypeOK
  <1>3. CASE ledger' = ledger
    BY <1>1, <1>2, <1>3, EndLedgersStay
  <1>4. CASE ledger' = [ledger EXCEPT ![l].name = Asked(h).name]
    <2>1. handler[h].asked \in Request /\ user' = user
      BY <1>1, Committing
    <2>2. Asked(h).name \in Name /\ l \in Ledger
      BY <1>1, <2>1, RequestShape DEF Asked
    <2>3. l \in Owned(handler[h].by)
      BY <1>1 DEF Core, RequestsStand, HoldsIts, Asked
    <2>4. ledger[l] # None /\ ledger[l] \in LedgerRow
      BY <2>2, <2>3 DEF Owned, Core, TypeOK
    <2>5. /\ new \in LedgerRow /\ new.owner = ledger[l].owner /\ new.default = ledger[l].default
      BY <2>2, <2>4 DEF LedgerRow
    <2>6. new # None /\ ledger' = [ledger EXCEPT ![l] = new]
      <3>1. new # None
        BY <2>5, NoneIsNoRow
      <3> QED
        BY <1>4, <3>1 DEF Core, TypeOK
    <2> HIDE DEF new, l
    <2>7. /\ ledger' \in [Ledger -> LedgerRow \cup {None}]
          /\ \A k \in Ledger : ledger'[k] = IF k = l THEN new ELSE ledger[k]
      BY <2>5, <2>6 DEF Core, TypeOK
    <2>8. \A k \in Ledger : /\ ledger'[k] # None <=> ledger[k] # None
                            /\ ledger[k] # None =>
                                  /\ ledger'[k].owner = ledger[k].owner
                                  /\ ledger'[k].default = ledger[k].default
      BY <2>4, <2>5, <2>6, <2>7
    <2>9. OneDefault'
      BY <2>1, <2>8, DefaultsStay
    <2>10. /\ \A k \in Ledger : ledger[k] # None =>
                 ledger'[k] # None /\ ledger'[k].owner = ledger[k].owner
           /\ \A k \in Ledger : ledger'[k] # None => ledger'[k].owner \in user
      BY <2>8 DEF Core, Rooted
    <2>11. \A g \in Handler : handler[g].at = "cleared" /\ handler[g].on # None =>
             ledger'[handler[g].on].default
      BY <2>8 DEF Core, RequestsStand, HoldsIts, Defaults, Owned
    <2> QED
      BY <1>1, <1>2, <2>7, <2>9, <2>10, <2>11, EndCore
  <1> QED
    BY <1>1, <1>3, <1>4

(* The default that is to be cleared is its user's, ...                    *)
LEMMA ClearCore ==
    ASSUME Core, NEW h \in Handler, Clear(h)
    PROVE  Core'
  <1>1. /\ handler[h].at = "read" /\ handler[h].asked.op = "default"
        /\ UNCHANGED <<user, identity, ledger, session, credential, requests>>
    BY DEF Clear, At, Asked
  <1>2. PICK l \in Defaults(handler[h].by) :
           handler' = [handler EXCEPT ![h].at = "clearing", ![h].on = l]
    BY DEF Clear
  <1> DEFINE new == [handler[h] EXCEPT !.at = "clearing", !.on = l]
  <1>3. /\ handler[h] \in HandlerRow /\ ActsForIts(handler[h]) /\ HoldsIts(handler[h])
        /\ l \in Ledger /\ l \in Owned(handler[h].by)
    BY DEF Core, TypeOK, HandlerRow, RequestsStand, Defaults, Owned
  <1>4. handler' = [handler EXCEPT ![h] = new]
    BY <1>2 DEF Core, TypeOK
  <1>5. /\ new \in HandlerRow /\ new.at = "clearing" /\ new.asked = handler[h].asked
        /\ new.by = handler[h].by /\ new.made = handler[h].made /\ new.on = l
    BY <1>3 DEF HandlerRow
  <1> HIDE DEF new
  <1>6. TypeOK'
    BY <1>1, <1>4, <1>5 DEF Core, TypeOK, HandlerRow
  <1>7. ActsForIts(new) /\ HoldsIts(new)
    BY <1>1, <1>3, <1>5 DEF ActsForIts, HoldsIts
  <1> QED
    BY <1>1, <1>4, <1>5, <1>6, <1>7, TablesStay

(* ... and is cleared by one handler at a time.                            *)
LEMMA ClearedCore ==
    ASSUME Core, NEW h \in Handler, Cleared(h)
    PROVE  Core'
  <1> DEFINE l == handler[h].on
             on == IF ledger[l].default THEN l ELSE None
             new == [handler[h] EXCEPT !.at = "cleared", !.on = on]
  <1>1. /\ handler[h].at = "clearing" /\ ~Locked(h, l)
        /\ UNCHANGED <<user, identity, ledger, session, credential, requests>>
    BY DEF Cleared
  <1>2. /\ handler[h] \in HandlerRow /\ ActsForIts(handler[h]) /\ HoldsIts(handler[h])
        /\ l \in Owned(handler[h].by) /\ l \in Ledger
    BY <1>1 DEF Core, TypeOK, HandlerRow, RequestsStand, HoldsIts, Owned
  <1>3. /\ on \in Ledger \cup {None}
        /\ on # None => on = l /\ on \in Defaults(handler[h].by)
    BY <1>2 DEF Defaults
  <1>4. handler' = [handler EXCEPT ![h] = new]
    BY DEF Cleared, Core, TypeOK
  <1> HIDE DEF on
  <1>5. /\ new \in HandlerRow /\ new.at = "cleared" /\ new.asked = handler[h].asked
        /\ new.by = handler[h].by /\ new.made = handler[h].made /\ new.on = on
    BY <1>2, <1>3 DEF HandlerRow
  <1> HIDE DEF new
  <1>6. TypeOK'
    BY <1>1, <1>4, <1>5 DEF Core, TypeOK, HandlerRow
  <1>7. ActsForIts(new) /\ HoldsIts(new)
    BY <1>1, <1>2, <1>3, <1>5 DEF ActsForIts, HoldsIts
  <1> QED
    BY <1>1, <1>3, <1>4, <1>5, <1>6, <1>7, TablesStay

(* The new default is the only one, or the index refuses it; the defaults  *)
(* that others have cleared are other ledgers.                             *)
LEMMA MakeDefaultCore ==
    ASSUME Core, NEW h \in Handler, MakeDefault(h)
    PROVE  Core'
  <1> DEFINE l == Asked(h).ledger
             on == handler[h].on
             by == handler[h].by
             Now(k) == IF k = l THEN [ledger[k] EXCEPT !.default = TRUE]
                       ELSE IF k = on THEN [ledger[k] EXCEPT !.default = FALSE]
                       ELSE ledger[k]
  <1>1. /\ handler[h].at = "cleared" /\ handler[h].asked.op = "default" /\ Done(h)
        /\ UNCHANGED <<session, credential>> /\ ~Locked(h, l)
        /\ ledger' = IF Conflict(h, l) THEN ledger ELSE [k \in Ledger |-> Now(k)]
    BY DEF MakeDefault, At, Asked
  <1>2. /\ session' \in [Session -> SessionRow \cup {None}] /\ session' = session
        /\ credential' \in [Credential -> CredentialRow \cup {None}] /\ credential' = credential
    BY <1>1 DEF Core, TypeOK
  <1>3. CASE ledger' = ledger
    BY <1>1, <1>2, <1>3, EndLedgersStay
  <1>4. CASE ~Conflict(h, l) /\ ledger' = [k \in Ledger |-> Now(k)]
    <2>1. handler[h].asked \in Request /\ user' = user /\ by \in user
      BY <1>1, Committing
    <2>2. HoldsIts(handler[h])
      BY DEF Core, RequestsStand
    <2>3. l \in Ledger /\ ledger[l] # None /\ ledger[l].owner = by
      BY <1>1, <2>2 DEF HoldsIts, Owned, Asked
    <2>4. on # None => on \in Ledger /\ ledger[on] # None /\ ledger[on].owner = by
      BY <1>1, <2>2 DEF HoldsIts, Owned, Defaults
    <2>5. \A k \in Ledger : ledger[k] # None => ledger[k] \in LedgerRow
      BY DEF Core, TypeOK
    <2>6. ASSUME NEW k \in Ledger
          PROVE  /\ ledger'[k] \in LedgerRow \cup {None}
                 /\ ledger'[k] = None <=> ledger[k] = None
                 /\ ledger[k] # None =>
                       /\ ledger'[k].owner = ledger[k].owner
                       /\ ledger'[k].default = IF k = l THEN TRUE
                                               ELSE IF k = on THEN FALSE ELSE ledger[k].default
      <3>1. ledger'[k] = Now(k)
        BY <1>4
      <3>2. CASE k = l
        <4> DEFINE new == [ledger[k] EXCEPT !.default = TRUE]
        <4>1. new \in LedgerRow /\ new.owner = ledger[k].owner /\ new.default = TRUE
          BY <2>3, <2>5, <3>2 DEF LedgerRow
        <4>2. ledger'[k] = new /\ new # None
          BY <3>1, <3>2, <4>1, NoneIsNoRow
        <4> HIDE DEF new
        <4> QED
          BY <2>3, <3>2, <4>1, <4>2
      <3>3. CASE k # l /\ k = on
        <4> DEFINE new == [ledger[k] EXCEPT !.default = FALSE]
        <4>1. ledger[k] # None
          BY <2>4, <3>3, NoneIsNoRow
        <4>2. new \in LedgerRow /\ new.owner = ledger[k].owner /\ new.default = FALSE
          BY <2>5, <4>1 DEF LedgerRow
        <4>3. ledger'[k] = new /\ new # None
          BY <3>1, <3>3, <4>2, NoneIsNoRow
        <4> HIDE DEF new
        <4> QED
          BY <3>3, <4>1, <4>2, <4>3
      <3>4. CASE k # l /\ k # on
        BY <2>5, <3>1, <3>4
      <3> QED
        BY <3>2, <3>3, <3>4
    <2>7. \A k \in Ledger \ {on, l} : ~(ledger[k] # None /\ ledger[k].owner = by /\ ledger[k].default)
      BY <1>4 DEF Conflict, Defaults, Owned
    <2> HIDE DEF Now, l, on, by
    <2>8. OneDefault'
      <3> SUFFICES ASSUME NEW u \in user
                   PROVE  \E m \in Ledger : \A k \in Ledger :
                             ledger'[k] # None /\ ledger'[k].owner = u /\ ledger'[k].default
                                <=> k = m
        <4>1. \A u \in user : \E m \in Ledger : \A k \in Ledger :
                 ledger'[k] # None /\ ledger'[k].owner = u /\ ledger'[k].default <=> k = m
          OBVIOUS
        <4> QED
          BY <2>1, <4>1 DEF OneDefault, Defaults, Owned
      <3>1. CASE u = by
        <4>1. \A k \in Ledger :
                 ledger'[k] # None /\ ledger'[k].owner = u /\ ledger'[k].default <=> k = l
          <5> SUFFICES ASSUME NEW k \in Ledger
                       PROVE ledger'[k] # None /\ ledger'[k].owner = u /\ ledger'[k].default
                                <=> k = l
            OBVIOUS
          <5>1. CASE k = l
            BY <2>3, <2>6, <3>1, <5>1
          <5>2. CASE k = on /\ k # l
            BY <2>6, <5>2
          <5>3. CASE k # on /\ k # l
            BY <2>6, <2>7, <3>1, <5>3
          <5> QED
            BY <5>1, <5>2, <5>3
        <4> QED
          BY <2>3, <4>1
      <3>2. CASE u # by
        <4>1. PICK m \in Ledger : Defaults(u) = {m}
          BY DEF Core, OneDefault
        <4>2. \A k \in Ledger : ledger[k] # None /\ ledger[k].owner = u /\ ledger[k].default <=> k = m
          BY <4>1 DEF Defaults, Owned
        <4>3. ASSUME NEW k \in Ledger
              PROVE  ledger'[k] # None /\ ledger'[k].owner = u /\ ledger'[k].default
                        <=> ledger[k] # None /\ ledger[k].owner = u /\ ledger[k].default
          <5>1. CASE k = l \/ k = on
            BY <2>3, <2>4, <2>6, <3>2, <5>1, NoneIsNoRow
          <5>2. CASE k # l /\ k # on
            BY <2>6, <5>2
          <5> QED
            BY <5>1, <5>2
        <4> QED
          BY <4>2, <4>3
      <3> QED
        BY <3>1, <3>2
    <2>9. ledger' \in [Ledger -> LedgerRow \cup {None}]
      <3>1. ledger' = [k \in Ledger |-> ledger'[k]]
        BY <1>4
      <3> QED
        BY <2>6, <3>1
    <2>10. /\ \A k \in Ledger : ledger[k] # None =>
                 ledger'[k] # None /\ ledger'[k].owner = ledger[k].owner
           /\ \A k \in Ledger : ledger'[k] # None => ledger'[k].owner \in user
      BY <2>6 DEF Core, Rooted
    <2>11. ASSUME NEW g \in Handler \ {h}, handler[g].at = "cleared", handler[g].on # None
           PROVE  ledger'[handler[g].on].default
      <3>1. /\ handler[g].on \in Ledger /\ ledger[handler[g].on] # None
            /\ ledger[handler[g].on].default
        BY <2>11 DEF Core, RequestsStand, HoldsIts, Defaults, Owned
      <3>2. handler[g].on # on
        BY <1>1, <2>11 DEF Core, Apart, Locked, on
      <3> QED
        BY <2>6, <3>1, <3>2
    <2> QED
      BY <1>1, <1>2, <2>8, <2>9, <2>10, <2>11, EndCore
  <1> HIDE DEF Now
  <1> QED
    BY <1>1, <1>3, <1>4

-----------------------------------------------------------------------------
(* The user made for a new subject has a ledger nobody else has, and no    *)
(* other request can name the user; the loser goes on as the winner's.     *)
LEMMA BootstrapCore ==
    ASSUME Core, NEW h \in Handler, Bootstrap(h)
    PROVE  Core'
  <1>1. /\ handler[h].at = "new" /\ UNCHANGED <<identity, session, credential, requests>>
        /\ \A g \in Handler \ {h} : handler[g].made # None => Key(g) # Key(h)
    BY DEF Bootstrap
  <1>2. /\ handler[h] \in HandlerRow /\ handler[h].made = None /\ handler[h].asked \in Request
        /\ handler[h].asked.from.with = "subject" /\ Key(h) \in Subject
    <2>1. /\ handler[h] \in HandlerRow /\ ActsForIts(handler[h])
      BY DEF Core, TypeOK, HandlerRow, RequestsStand
    <2>2. /\ handler[h].made = None /\ handler[h].asked \in Request
          /\ handler[h].asked.from.with = "subject"
      BY <1>1, <2>1 DEF ActsForIts
    <2> QED
      BY <2>1, <2>2, KeyShape DEF Key
  <1>3. PICK u \in User \ user, l \in {k \in Ledger : ledger[k] = None} :
          IF identity[Key(h)] = None
          THEN /\ user' = user \cup {u}
               /\ ledger' = [ledger EXCEPT ![l] = FirstLedger(u)]
               /\ handler' = [handler EXCEPT ![h].at = "in", ![h].by = u, ![h].made = u]
          ELSE /\ user' = user \cup Kept(u)
               /\ ledger' = IF Kept(u) = {} THEN ledger
                            ELSE [ledger EXCEPT ![l] = FirstLedger(u)]
               /\ handler' = [handler EXCEPT ![h].at = "in", ![h].by = Reloaded(Key(h), u)]
    BY DEF Bootstrap
  <1>4. CASE identity[Key(h)] # None
    <2> DEFINE by == identity[Key(h)]
               new == [handler[h] EXCEPT !.at = "in", !.by = by]
    <2>1. user' = user /\ ledger' = ledger /\ handler' = [handler EXCEPT ![h] = new]
      BY <1>3, <1>4 DEF Kept, Reloaded, Core, TypeOK
    <2>2. by \in user /\ by \in User /\ Known(by)
      BY <1>2, <1>4 DEF Core, Rooted, TypeOK, Known
    <2>3. by = identity[handler[h].asked.from.key]
      BY DEF Key
    <2> HIDE DEF by
    <2>4. /\ new \in HandlerRow /\ new.at = "in" /\ new.asked = handler[h].asked
          /\ new.by = by /\ new.made = None
      BY <1>2, <2>2 DEF HandlerRow
    <2> HIDE DEF new
    <2>5. ActsForIts(new) /\ HoldsIts(new)
      BY <1>2, <2>2, <2>3, <2>4 DEF ActsForIts, HoldsIts
    <2>6. TypeOK'
      BY <1>1, <2>1, <2>4 DEF Core, TypeOK, HandlerRow
    <2> QED
      BY <1>1, <1>2, <2>1, <2>4, <2>5, <2>6, TablesStay
  <1>5. CASE identity[Key(h)] = None
    <2> DEFINE new == [handler[h] EXCEPT !.at = "in", !.by = u, !.made = u]
               first == FirstLedger(u)
    <2>1. /\ user' = user \cup {u} /\ ledger' = [ledger EXCEPT ![l] = first]
          /\ handler' = [handler EXCEPT ![h] = new]
      BY <1>3, <1>5 DEF Core, TypeOK
    <2>2. /\ new \in HandlerRow /\ new.at = "in" /\ new.asked = handler[h].asked
          /\ new.by = u /\ new.made = u
      BY <1>2 DEF HandlerRow
    <2>3. first \in LedgerRow /\ first.owner = u /\ first.default = TRUE
      BY IdentityAssumption DEF FirstLedger, LedgerRow
    <2>4. first # None /\ u # None /\ u \notin user /\ user \subseteq User
      BY <2>3, NoneIsNoRow DEF Core, TypeOK
    <2> HIDE DEF new, first
    <2>5. /\ ledger' \in [Ledger -> LedgerRow \cup {None}]
          /\ \A k \in Ledger : ledger'[k] = IF k = l THEN first ELSE ledger[k]
          /\ \A g \in Handler : handler'[g] = IF g = h THEN new ELSE handler[g]
          /\ l \in Ledger /\ ledger[l] = None
      BY <2>1, <2>3 DEF Core, TypeOK
    <2>6. ~Known(u)
      BY <2>4 DEF Core, Rooted, Known
    <2>7. \A k \in Ledger : ledger[k] # None => ledger[k].owner # u
      BY <2>4 DEF Core, Rooted
    <2>8. TypeOK'
      <3>1. handler' \in [Handler -> HandlerRow]
        BY <2>1, <2>2 DEF Core, TypeOK, HandlerRow
      <3> QED
        BY <1>1, <2>1, <2>4, <2>5, <3>1 DEF Core, TypeOK, HandlerRow
    <2>9. OneDefault'
      <3> SUFFICES ASSUME NEW v \in user \cup {u}
                   PROVE  \E m \in Ledger : \A k \in Ledger :
                             ledger'[k] # None /\ ledger'[k].owner = v /\ ledger'[k].default
                                <=> k = m
        <4>1. \A v \in user \cup {u} : \E m \in Ledger : \A k \in Ledger :
                 ledger'[k] # None /\ ledger'[k].owner = v /\ ledger'[k].default <=> k = m
          OBVIOUS
        <4> QED
          BY <2>1, <4>1 DEF OneDefault, Defaults, Owned
      <3>1. CASE v = u
        BY <2>3, <2>4, <2>5, <2>7, <3>1
      <3>2. CASE v # u
        <4>1. PICK m \in Ledger : Defaults(v) = {m}
          BY <3>2 DEF Core, OneDefault
        <4>2. \A k \in Ledger : ledger[k] # None /\ ledger[k].owner = v /\ ledger[k].default <=> k = m
          BY <4>1 DEF Defaults, Owned
        <4> QED
          BY <2>3, <2>5, <3>2, <4>2
      <3> QED
        BY <3>1, <3>2
    <2>10. NoOrphan'
      <3> SUFFICES ASSUME NEW v \in user \cup {u}
                   PROVE  Known(v) \/ \E g \in Handler : handler'[g].made = v
        BY <1>1, <2>1 DEF NoOrphan, Known
      <3>1. CASE v = u
        BY <2>2, <2>5, <3>1
      <3>2. CASE v # u
        <4>1. Known(v) \/ \E g \in Handler : handler[g].made = v
          BY <3>2 DEF Core, NoOrphan
        <4>2. v # None
          BY <2>4, <3>2, NoneIsNoRow
        <4> QED
          BY <1>2, <2>5, <4>1, <4>2
      <3> QED
        BY <3>1, <3>2
    <2>11. SessionIsSubjects'
      BY <1>1 DEF Core, SessionIsSubjects
    <2>12. Rooted'
      BY <1>1, <2>1, <2>3, <2>5 DEF Core, Rooted, Known
    <2>13. RequestsStand'
      <3>1. ASSUME NEW g \in Handler, NEW r, r = handler'[g]
            PROVE  ActsForIts(r)' /\ HoldsIts(r)'
        <4>1. CASE g = h
          <5>1. r = new
            BY <2>5, <3>1, <4>1
          <5> QED
            BY <1>1, <1>2, <1>5, <2>1, <2>2, <2>4, <2>6, <5>1 DEF ActsForIts, HoldsIts, Known, Key
        <4>2. CASE g # h
          <5>1. r = handler[g] /\ ActsForIts(r) /\ HoldsIts(r)
            BY <2>5, <3>1, <4>2 DEF Core, RequestsStand
          <5>2. ActsForIts(r)'
            BY <1>1, <2>1, <5>1 DEF ActsForIts, Known
          <5>3. /\ Owned(r.by) \subseteq Owned(r.by)'
                /\ Defaults(r.by) \subseteq Defaults(r.by)'
            BY <2>5 DEF Owned, Defaults
          <5> QED
            BY <1>1, <5>1, <5>2, <5>3 DEF HoldsIts
        <4> QED
          BY <4>1, <4>2
      <3> QED
        BY <3>1 DEF RequestsStand, ActsForIts, HoldsIts, Known, Owned, Defaults
    <2>14. Apart'
      <3> SUFFICES ASSUME NEW f \in Handler, NEW g \in Handler, f # g
                   PROVE  /\ handler'[f].made # None /\ handler'[g].made # None =>
                                /\ handler'[f].made # handler'[g].made
                                /\ handler'[f].asked.from.key # handler'[g].asked.from.key
                          /\ ~(/\ handler'[f].at = "cleared" /\ handler'[f].on # None
                               /\ handler'[g].at = "cleared" /\ handler'[g].on = handler'[f].on)
        BY DEF Apart, Key, Locked
      <3>1. /\ handler[f].made # None /\ handler[g].made # None =>
                  handler[f].made # handler[g].made /\ Key(f) # Key(g)
            /\ ~(/\ handler[f].at = "cleared" /\ handler[f].on # None
                 /\ handler[g].at = "cleared" /\ handler[g].on = handler[f].on)
        BY DEF Core, Apart, Locked
      <3>2. \A e \in Handler : handler[e].made # None => handler[e].made # u
        BY <2>4 DEF Core, RequestsStand, ActsForIts
      <3> QED
        BY <1>1, <2>2, <2>5, <3>1, <3>2 DEF Key
    <2> QED
      BY <2>8, <2>9, <2>10, <2>11, <2>12, <2>13, <2>14 DEF Core
  <1> QED
    BY <1>4, <1>5

(* What is undone with an unfinished request is only its own.              *)
LEMMA AbortCore ==
    ASSUME Core, NEW h \in Handler, Abort(h)
    PROVE  Core'
  <1> DEFINE m == handler[h].made
  <1>1. /\ UNCHANGED <<identity, session, credential, requests>>
        /\ handler' = [handler EXCEPT ![h] = Idle] /\ user' = user \ {m}
        /\ ledger' = [l \in Ledger |-> IF m # None /\ l \in Owned(m) THEN None ELSE ledger[l]]
    BY DEF Abort
  <1>2. CASE m = None
    <2>1. user' = user /\ ledger' = ledger
      BY <1>1, <1>2, NoneIsNoRow DEF Core, TypeOK
    <2>2. ActsForIts(Idle) /\ HoldsIts(Idle) /\ Idle.at # "cleared"
      BY DEF Idle, ActsForIts, HoldsIts
    <2>3. TypeOK'
      BY <1>1, <2>1, IdleStands DEF Core, TypeOK, HandlerRow
    <2> QED
      BY <1>1, <1>2, <2>1, <2>2, <2>3, IdleStands, TablesStay
  <1>3. CASE m # None
    <2>1. m \in user /\ ~Known(m) /\ m \in User /\ user \subseteq User
      BY <1>3 DEF Core, RequestsStand, ActsForIts, TypeOK
    <2>2. /\ \A g \in Handler : handler'[g] = IF g = h THEN Idle ELSE handler[g]
          /\ \A g \in Handler \ {h} : handler[g].made # m
      BY <1>1, <1>3 DEF Core, TypeOK, Apart
    <2>3. /\ \A l \in Ledger : ledger'[l] = IF l \in Owned(m) THEN None ELSE ledger[l]
          /\ \A l \in Ledger : ledger'[l] # None <=> ledger[l] # None /\ ledger[l].owner # m
          /\ \A l \in Ledger : ledger'[l] # None => ledger'[l] = ledger[l]
      BY <1>1, <1>3 DEF Owned
    <2> HIDE DEF m
    <2>4. TypeOK'
      <3>1. ledger' \in [Ledger -> LedgerRow \cup {None}]
        BY <1>1 DEF Core, TypeOK
      <3>2. handler' \in [Handler -> HandlerRow]
        BY <1>1, IdleStands DEF Core, TypeOK, HandlerRow
      <3> QED
        BY <1>1, <3>1, <3>2 DEF Core, TypeOK, HandlerRow
    <2>5. OneDefault'
      <3> SUFFICES ASSUME NEW v \in user, v # m
                   PROVE  \E l \in Ledger : \A k \in Ledger :
                             ledger'[k] # None /\ ledger'[k].owner = v /\ ledger'[k].default
                                <=> k = l
        <4>1. \A v \in user \ {m} : \E l \in Ledger : \A k \in Ledger :
                 ledger'[k] # None /\ ledger'[k].owner = v /\ ledger'[k].default <=> k = l
          OBVIOUS
        <4> QED
          BY <1>1, <4>1 DEF OneDefault, Defaults, Owned
      <3>1. PICK l \in Ledger : Defaults(v) = {l}
        BY DEF Core, OneDefault
      <3>2. \A k \in Ledger : ledger[k] # None /\ ledger[k].owner = v /\ ledger[k].default <=> k = l
        BY <3>1 DEF Defaults, Owned
      <3> QED
        BY <2>3, <3>2
    <2>6. NoOrphan'
      <3> SUFFICES ASSUME NEW v \in user, v # m
                   PROVE  Known(v) \/ \E g \in Handler : handler'[g].made = v
        BY <1>1 DEF NoOrphan, Known
      <3>1. Known(v) \/ \E g \in Handler \ {h} : handler[g].made = v
        BY DEF Core, NoOrphan, m
      <3> QED
        BY <2>2, <3>1
    <2>7. SessionIsSubjects'
      BY <1>1 DEF Core, SessionIsSubjects
    <2>8. Rooted'
      <3>1. \A s \in Subject : identity[s] # None => identity[s] \in user \ {m}
        BY <2>1 DEF Core, Rooted, Known
      <3>2. \A l \in Ledger : ledger'[l] # None => ledger'[l].owner \in user \ {m}
        BY <2>3 DEF Core, Rooted
      <3> QED
        BY <1>1, <3>1, <3>2 DEF Core, Rooted, Known
    <2>9. RequestsStand'
      <3>1. ASSUME NEW g \in Handler, NEW r, r = handler'[g]
            PROVE  ActsForIts(r)' /\ HoldsIts(r)'
        <4>1. CASE g = h
          BY <2>2, <3>1, <4>1, IdleStands
        <4>2. CASE g # h
          <5>1. r = handler[g] /\ ActsForIts(r) /\ HoldsIts(r) /\ r.made # m
            BY <2>2, <3>1, <4>2 DEF Core, RequestsStand
          <5>2. r.at \notin {"idle", "new"} => r.by \in user \ {m}
            BY <2>1, <5>1 DEF ActsForIts
          <5>3. ActsForIts(r)'
            BY <1>1, <5>1, <5>2 DEF ActsForIts, Known
          <5>4. r.by # m => /\ Owned(r.by) \subseteq Owned(r.by)'
                            /\ Defaults(r.by) \subseteq Defaults(r.by)'
            BY <2>3 DEF Owned, Defaults
          <5>5. HoldsIts(r)'
            <6>1. CASE r.at \in {"read", "clearing", "cleared"}
              <7>1. r.by # m
                BY <5>2, <6>1
              <7> QED
                BY <1>1, <5>1, <5>4, <7>1 DEF HoldsIts
            <6>2. CASE r.at \notin {"read", "clearing", "cleared"}
              BY <6>2 DEF HoldsIts
            <6> QED
              BY <6>1, <6>2
          <5> QED
            BY <5>3, <5>5
        <4> QED
          BY <4>1, <4>2
      <3> QED
        BY <3>1 DEF RequestsStand, ActsForIts, HoldsIts, Known, Owned, Defaults
    <2>10. Apart'
      BY <2>2, IdleStands DEF Core, Apart, Key, Asked, Locked
    <2> QED
      BY <2>4, <2>5, <2>6, <2>7, <2>8, <2>9, <2>10 DEF Core
  <1> QED
    BY <1>2, <1>3

(* Time, the expiry of credentials and the cleanup of sessions name nobody *)
(* anew.                                                                   *)
LEMMA TimeCore ==
    ASSUME Core, UNCHANGED <<user, identity, ledger, handler, requests>>,
           session' \in [Session -> SessionRow \cup {None}],
           \A d \in Session : session'[d] # None =>
              /\ session[d] # None
              /\ session'[d].user = session[d].user /\ session'[d].subject = session[d].subject,
           credential' \in [Credential -> CredentialRow \cup {None}],
           \A c \in Credential : /\ credential'[c] = None <=> credential[c] = None
                                 /\ credential[c] # None => credential'[c].user = credential[c].user
    PROVE  Core'
  <1>1. TypeOK'
    BY DEF Core, TypeOK
  <1>2. OneDefault' /\ NoOrphan' /\ Rooted'
    BY DEF Core, OneDefault, NoOrphan, Rooted, Defaults, Owned, Known
  <1>3. SessionIsSubjects'
    BY DEF Core, SessionIsSubjects
  <1>4. RequestsStand'
    <2> SUFFICES ASSUME NEW h \in Handler, NEW r, r = handler[h]
                 PROVE  /\ ActsForIts(r)
                        /\ (/\ r.at \in {"read", "clearing", "cleared"}
                            /\ r.asked.op \in {"rename", "default"})
                              => r.asked.ledger \in Owned(r.by)
                        /\ r.at = "clearing" => r.on \in Owned(r.by)
                        /\ r.at = "cleared" /\ r.on # None => r.on \in Defaults(r.by)
                        /\ r.at = "read" /\ r.asked.op = "withdraw" =>
                              credential'[r.asked.credential] # None
      BY DEF RequestsStand, ActsForIts, HoldsIts, Known, Owned, Defaults
    <2>1. ActsForIts(r) /\ HoldsIts(r)
      BY DEF Core, RequestsStand
    <2>2. r.at = "read" /\ r.asked.op = "withdraw" => r.asked.credential \in Credential
      BY <2>1, RequestShape DEF ActsForIts
    <2> QED
      BY <2>1, <2>2 DEF HoldsIts
  <1>5. Apart'
    BY DEF Core, Apart, Key, Asked, Locked
  <1> QED
    BY <1>1, <1>2, <1>3, <1>4, <1>5 DEF Core

(* So pass the actions of time and of the cleanup.                         *)
LEMMA PassCore ==
    ASSUME Core,
           \/ \E d \in Session : GrowQuiet(d) \/ Expire(d) \/ Age(d) \/ Purge(d)
           \/ \E c \in Credential : ExpireCredential(c)
    PROVE  Core'
  <1>1. ASSUME NEW d \in Session, GrowQuiet(d) \/ Expire(d) \/ Age(d)
        PROVE  Core'
    <2>1. /\ session[d] # None
          /\ UNCHANGED <<user, identity, ledger, credential, handler, requests>>
      BY <1>1 DEF GrowQuiet, Expire, Age, Live
    <2>2. session[d] \in SessionRow
      BY <2>1 DEF Core, TypeOK
    <2>3. PICK new \in SessionRow : /\ session' = [session EXCEPT ![d] = new]
                                    /\ new.user = session[d].user
                                    /\ new.subject = session[d].subject
      <3>1. CASE GrowQuiet(d)
        <4> DEFINE new == [session[d] EXCEPT !.quiet = TRUE]
        <4>1. new \in SessionRow /\ new.user = session[d].user /\ new.subject = session[d].subject
          BY <2>2 DEF SessionRow
        <4>2. session' = [session EXCEPT ![d] = new]
          BY <3>1 DEF GrowQuiet, Core, TypeOK
        <4> HIDE DEF new
        <4> QED
          BY <4>1, <4>2
      <3>2. CASE Expire(d)
        <4> DEFINE new == [session[d] EXCEPT !.past = TRUE]
        <4>1. new \in SessionRow /\ new.user = session[d].user /\ new.subject = session[d].subject
          BY <2>2 DEF SessionRow
        <4>2. session' = [session EXCEPT ![d] = new]
          BY <3>2 DEF Expire, Core, TypeOK
        <4> HIDE DEF new
        <4> QED
          BY <4>1, <4>2
      <3>3. CASE Age(d)
        <4> DEFINE new == [session[d] EXCEPT !.old = TRUE]
        <4>1. new \in SessionRow /\ new.user = session[d].user /\ new.subject = session[d].subject
          BY <2>2 DEF SessionRow
        <4>2. session' = [session EXCEPT ![d] = new]
          BY <3>3 DEF Age, Core, TypeOK
        <4> HIDE DEF new
        <4> QED
          BY <4>1, <4>2
      <3> QED
        BY <1>1, <3>1, <3>2, <3>3
    <2>4. /\ session' \in [Session -> SessionRow \cup {None}]
          /\ \A k \in Session : session'[k] = IF k = d THEN new ELSE session[k]
          /\ credential' \in [Credential -> CredentialRow \cup {None}] /\ credential' = credential
      BY <2>1, <2>3 DEF Core, TypeOK
    <2> QED
      BY <2>1, <2>3, <2>4, TimeCore
  <1>2. ASSUME NEW d \in Session, Purge(d)
        PROVE  Core'
    <2>1. /\ session' = [session EXCEPT ![d] = None]
          /\ UNCHANGED <<user, identity, ledger, credential, handler, requests>>
      BY <1>2 DEF Purge
    <2>2. /\ session' \in [Session -> SessionRow \cup {None}]
          /\ \A k \in Session : session'[k] = IF k = d THEN None ELSE session[k]
          /\ credential' \in [Credential -> CredentialRow \cup {None}] /\ credential' = credential
      BY <2>1 DEF Core, TypeOK
    <2> QED
      BY <2>1, <2>2, TimeCore
  <1>3. ASSUME NEW c \in Credential, ExpireCredential(c)
        PROVE  Core'
    <2> DEFINE new == [credential[c] EXCEPT !.past = TRUE]
    <2>1. /\ credential[c] # None
          /\ UNCHANGED <<user, identity, ledger, session, handler, requests>>
      BY <1>3 DEF ExpireCredential
    <2>2. credential[c] \in CredentialRow
      BY <2>1 DEF Core, TypeOK
    <2>3. new \in CredentialRow /\ new.user = credential[c].user
      BY <2>2 DEF CredentialRow
    <2>4. new # None /\ credential' = [credential EXCEPT ![c] = new]
      <3>1. new # None
        BY <2>3, NoneIsNoRow
      <3> QED
        BY <1>3, <3>1 DEF ExpireCredential, Core, TypeOK
    <2> HIDE DEF new
    <2>5. /\ credential' \in [Credential -> CredentialRow \cup {None}]
          /\ \A k \in Credential : credential'[k] = IF k = c THEN new ELSE credential[k]
          /\ session' \in [Session -> SessionRow \cup {None}] /\ session' = session
      BY <2>1, <2>3, <2>4 DEF Core, TypeOK
    <2> QED
      BY <2>1, <2>3, <2>4, <2>5, TimeCore
  <1> QED
    BY <1>1, <1>2, <1>3

-----------------------------------------------------------------------------
(* No step disturbs the invariant.                                         *)
LEMMA NextCore == Core /\ [Next]_vars => Core'
  <1> SUFFICES ASSUME Core, [Next]_vars PROVE Core'
    OBVIOUS
  <1>1. ASSUME NEW h \in Handler, Arrive(h) \/ Abort(h) PROVE Core'
    BY <1>1, ArriveCore, AbortCore
  <1>2. ASSUME NEW h \in Handler, Work(h) PROVE Core'
    BY <1>2, TouchCore, BootstrapCore, LookCore, MessageCore, LogInCore, RevokeCore, IssueCore,
       WithdrawCore, CreateCore, RenameCore, ClearCore, ClearedCore, MakeDefaultCore DEF Work
  <1>3. CASE UNCHANGED vars
    <2>1. UNCHANGED <<user, identity, ledger, session, credential, handler, requests>>
      BY <1>3 DEF vars
    <2>2. /\ session' \in [Session -> SessionRow \cup {None}]
          /\ credential' \in [Credential -> CredentialRow \cup {None}]
      BY <2>1 DEF Core, TypeOK
    <2> QED
      BY <2>1, <2>2, TimeCore
  <1> QED
    BY <1>1, <1>2, <1>3, PassCore DEF Next

(* Whatever the requests do and however their transactions interleave,     *)
(* crash and are cleaned up after, the tables keep their shape, each user  *)
(* one default ledger and a way in, each session its subject's user.       *)
THEOREM Invariance == Spec => []IInv
  <1>1. Core => IInv
    BY DEF Core, IInv, Inv
  <1> QED
    BY <1>1, InitCore, NextCore, PTL DEF Spec

(* A user has one default ledger at all times.                             *)
THEOREM OneDefaultHolds == Spec => []OneDefault
  <1>1. Core => OneDefault
    BY DEF Core
  <1> QED
    BY <1>1, InitCore, NextCore, PTL DEF Spec

(* There is no user that nobody can come in as.                            *)
THEOREM NoOrphanHolds == Spec => []NoOrphan
  <1>1. Core => NoOrphan
    BY DEF Core
  <1> QED
    BY <1>1, InitCore, NextCore, PTL DEF Spec

(* A session acts for the user of the subject that logged in.              *)
THEOREM SessionIsSubjectsHolds == Spec => []SessionIsSubjects
  <1>1. Core => SessionIsSubjects
    BY DEF Core
  <1> QED
    BY <1>1, InitCore, NextCore, PTL DEF Spec

(* Revoking is final: no request that read the row before brings a session *)
(* or a credential back.                                                   *)
THEOREM RevokedIsFinalHolds == Spec => RevokedIsFinal
  <1> DEFINE A == /\ \A d \in Session : session[d] # None /\ session[d].revoked
                        => session'[d] = None \/ session'[d].revoked
                  /\ \A c \in Credential : credential[c] # None /\ credential[c].revoked
                        => credential'[c].revoked
  <1>1. Core /\ [Next]_vars => [A]_vars
    <2> SUFFICES ASSUME Core, [Next]_vars PROVE A
      OBVIOUS
    <2>1. ASSUME NEW d \in Session, session[d] # None, session[d].revoked
          PROVE  session'[d] = None \/ session'[d].revoked
      <3>1. session[d] \in SessionRow
        BY <2>1 DEF Core, TypeOK
      <3>2. ASSUME NEW h \in Handler, Arrive(h) \/ Abort(h) \/ Bootstrap(h) \/ Look(h)
                     \/ Message(h) \/ Issue(h) \/ Withdraw(h) \/ Create(h) \/ Rename(h)
                     \/ Clear(h) \/ Cleared(h) \/ MakeDefault(h)
            PROVE  session' = session
        <4>1. CASE Arrive(h)
          BY <4>1 DEF Arrive, ComeWithSubject, ComeWithSession, ComeWithCredential, Begin
        <4> QED
          BY <3>2, <4>1 DEF Abort, Bootstrap, Look, Message, Issue, Withdraw, Create, Rename,
             Clear, Cleared, MakeDefault
      <3>3. ASSUME NEW h \in Handler, Touch(h) PROVE session'[d].revoked
        <4> DEFINE k == Key(h)
        <4>1. \/ session' = session
              \/ session' = [session EXCEPT ![k] = [session[k] EXCEPT !.quiet = FALSE]]
          BY <3>3 DEF Touch, Touched
        <4>2. CASE session' = session
          BY <2>1, <4>2
        <4>3. CASE session' = [session EXCEPT ![k] = [session[k] EXCEPT !.quiet = FALSE]]
          <5>1. CASE k = d
            <6>1. session'[d] = [session[d] EXCEPT !.quiet = FALSE]
              BY <4>3, <5>1 DEF Core, TypeOK
            <6>2. session'[d].revoked = session[d].revoked
              BY <3>1, <6>1 DEF SessionRow
            <6> QED
              BY <2>1, <6>2
          <5>2. CASE k # d
            <6>1. session'[d] = session[d]
              BY <4>3, <5>2 DEF Core, TypeOK
            <6> QED
              BY <2>1, <6>1
          <5> QED
            BY <5>1, <5>2
        <4> QED
          BY <4>1, <4>2, <4>3
      <3>4. ASSUME NEW h \in Handler, LogIn(h) PROVE session'[d].revoked
        <4>1. PICK e \in Session : /\ session[e] = None
                                     /\ \E new : session' = [session EXCEPT ![e] = new]
          BY <3>4 DEF LogIn
        <4>2. session'[d] = session[d]
          BY <2>1, <4>1 DEF Core, TypeOK
        <4> QED
          BY <2>1, <4>2
      <3>5. ASSUME NEW h \in Handler, Revoke(h) PROVE session'[d].revoked
        <4>1. \/ session'[d] = session[d]
              \/ session'[d] = [session[d] EXCEPT !.revoked = TRUE]
          BY <3>5 DEF Revoke
        <4>2. [session[d] EXCEPT !.revoked = TRUE].revoked
          BY <3>1 DEF SessionRow
        <4> QED
          BY <2>1, <4>1, <4>2
      <3>6. ASSUME NEW e \in Session, GrowQuiet(e) \/ Expire(e) \/ Age(e) \/ Purge(e)
            PROVE  session'[d] = None \/ session'[d].revoked
        <4>1. \/ session'[d] = session[d]
              \/ session'[d] = None
              \/ session'[d] = [session[d] EXCEPT !.quiet = TRUE]
              \/ session'[d] = [session[d] EXCEPT !.past = TRUE]
              \/ session'[d] = [session[d] EXCEPT !.old = TRUE]
          BY <3>6 DEF GrowQuiet, Expire, Age, Purge, Core, TypeOK
        <4>2. /\ [session[d] EXCEPT !.quiet = TRUE].revoked = session[d].revoked
              /\ [session[d] EXCEPT !.past = TRUE].revoked = session[d].revoked
              /\ [session[d] EXCEPT !.old = TRUE].revoked = session[d].revoked
          BY <3>1 DEF SessionRow
        <4> QED
          BY <2>1, <4>1, <4>2
      <3>7. CASE UNCHANGED session
        BY <2>1, <3>7
      <3>8. ASSUME NEW c \in Credential, ExpireCredential(c) PROVE session' = session
        BY <3>8 DEF ExpireCredential
      <3> QED
        BY <2>1, <3>2, <3>3, <3>4, <3>5, <3>6, <3>7, <3>8 DEF Next, Work, vars
    <2>2. ASSUME NEW c \in Credential, credential[c] # None, credential[c].revoked
          PROVE  credential'[c].revoked
      <3>1. credential[c] \in CredentialRow
        BY <2>2 DEF Core, TypeOK
      <3>2. ASSUME NEW h \in Handler, Arrive(h) \/ Abort(h) \/ Touch(h) \/ Bootstrap(h) \/ Look(h)
                     \/ Message(h) \/ LogIn(h) \/ Revoke(h) \/ Create(h) \/ Rename(h)
                     \/ Clear(h) \/ Cleared(h) \/ MakeDefault(h)
            PROVE  credential' = credential
        <4>1. CASE Arrive(h)
          BY <4>1 DEF Arrive, ComeWithSubject, ComeWithSession, ComeWithCredential, Begin
        <4> QED
          BY <3>2, <4>1 DEF Abort, Touch, Bootstrap, Look, Message, LogIn, Revoke, Create, Rename,
             Clear, Cleared, MakeDefault
      <3>3. ASSUME NEW h \in Handler, Issue(h) PROVE credential'[c].revoked
        <4>1. PICK e \in Credential : /\ credential[e] = None
                                        /\ \E new : credential' = [credential EXCEPT ![e] = new]
          BY <3>3 DEF Issue
        <4>2. credential'[c] = credential[c]
          BY <2>2, <4>1 DEF Core, TypeOK
        <4> QED
          BY <2>2, <4>2
      <3>4. ASSUME (\E h \in Handler : Withdraw(h)) \/ (\E e \in Credential : ExpireCredential(e))
            PROVE  credential'[c].revoked
        <4>1. \/ credential'[c] = credential[c]
              \/ credential'[c] = [credential[c] EXCEPT !.revoked = TRUE]
              \/ credential'[c] = [credential[c] EXCEPT !.past = TRUE]
          BY <3>4 DEF Withdraw, ExpireCredential, Core, TypeOK
        <4>2. /\ [credential[c] EXCEPT !.revoked = TRUE].revoked
              /\ [credential[c] EXCEPT !.past = TRUE].revoked = credential[c].revoked
          BY <3>1 DEF CredentialRow
        <4> QED
          BY <2>2, <4>1, <4>2
      <3>5. ASSUME NEW d \in Session, GrowQuiet(d) \/ Expire(d) \/ Age(d) \/ Purge(d)
            PROVE  credential' = credential
        BY <3>5 DEF GrowQuiet, Expire, Age, Purge
      <3>6. CASE UNCHANGED credential
        BY <2>2, <3>6
      <3> QED
        BY <2>2, <3>2, <3>3, <3>4, <3>5, <3>6 DEF Next, Work, vars
    <2> QED
      BY <2>1, <2>2
  <1> QED
    BY <1>1, InitCore, NextCore, PTL DEF Spec, RevokedIsFinal
=============================================================================
