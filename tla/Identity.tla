------------------------------ MODULE Identity -------------------------------
(***************************************************************************)
(* Who comes in and with what: users and the chat subjects they are known  *)
(* by, their personal ledgers, the browser sessions of the Web and the     *)
(* credentials of the client API.                                          *)
(*                                                                         *)
(* A handler is one request. What it comes with is checked in a            *)
(* transaction of its own (a session or a credential is read, and its      *)
(* last use written), and then the request works in another one, READ      *)
(* COMMITTED; a subject is resolved in the transaction that works. A       *)
(* subject nobody knows is made a user on the way. A write changes the     *)
(* columns that differ from the row that was read, and fails when the row  *)
(* is gone. Audit rows are left out.                                       *)
(***************************************************************************)
EXTENDS Naturals, FiniteSets

CONSTANTS Subject,      \* open ids of the chat platform
          User, Ledger, Session, Credential,
          Name,         \* normalized names of ledgers; First is the first one's
          First,
          Handler,      \* requests the service works on at a time
          None,
          MaxRequests   \* bound: requests

VARIABLES
    user,        \* the users there are
    identity,    \* identity[s]: the user of s's row of channel_identities, or None
    ledger,      \* ledger[l]: l's row of ledgers, or None
    session,     \* session[d]: d's row of dashboard_sessions, or None
    credential,  \* credential[c]: c's row of client_credentials, or None
    handler,     \* handler[h]: the request h is at
    requests

vars == <<user, identity, ledger, session, credential, handler, requests>>

LedgerRow == [owner : User, name : Name, default : BOOLEAN]
(* quiet: last_seen_at is older than the refresh window; past: expires_at  *)
(* has passed; old: the retention window has.                              *)
SessionRow == [subject : Subject, user : User, revoked : BOOLEAN,
               quiet : BOOLEAN, past : BOOLEAN, old : BOOLEAN]
CredentialRow == [user : User, revoked : BOOLEAN, past : BOOLEAN]

ASSUME IdentityAssumption ==
    /\ First \in Name
    /\ None \notin Subject \cup User \cup Ledger \cup Session \cup Credential \cup Name
    /\ None \notin LedgerRow \cup SessionRow \cup CredentialRow
    /\ MaxRequests \in Nat

-----------------------------------------------------------------------------
(* Requests: with a subject, a session or a credential                     *)

Subjects == [with : {"subject"}, key : Subject]
Sessions == [with : {"session"}, key : Session]
Credentials == [with : {"credential"}, key : Credential]

Plain == {"message", "login"}
LedgerOps == {"create", "rename", "default"}

(* Any message of a chat, and the login that the platform has vouched for. *)
Comings == {[op |-> op, from |-> f] : op \in Plain, f \in Subjects}
(* Personal ledgers are managed from everywhere.                           *)
LedgerRequests(entrance) ==
    {[op |-> "create", from |-> f, name |-> n] : f \in entrance, n \in Name}
      \cup {[op |-> "rename", from |-> f, ledger |-> l, name |-> n] :
                f \in entrance, l \in Ledger, n \in Name}
      \cup {[op |-> "default", from |-> f, ledger |-> l] : f \in entrance, l \in Ledger}
ChatLedgers == LedgerRequests(Subjects)
WebLedgers == LedgerRequests(Sessions)
ClientLedgers == LedgerRequests(Credentials)
(* Sessions and credentials are managed from the Web.                      *)
SessionRequests ==
    {[op |-> op, from |-> f] : op \in {"logout", "revoke_others"}, f \in Sessions}
      \cup {[op |-> "revoke", from |-> f, session |-> d] : f \in Sessions, d \in Session}
CredentialRequests ==
    {[op |-> "issue", from |-> f] : f \in Sessions}
      \cup {[op |-> "withdraw", from |-> f, credential |-> c] : f \in Sessions, c \in Credential}
Request == Comings \cup ChatLedgers \cup WebLedgers \cup ClientLedgers
             \cup SessionRequests \cup CredentialRequests

-----------------------------------------------------------------------------
Owned(u) == {l \in Ledger : ledger[l] # None /\ ledger[l].owner = u}
Defaults(u) == {l \in Owned(u) : ledger[l].default}
NameFree(u, n, l) == \A k \in Owned(u) \ {l} : ledger[k].name # n
Live(d) == session[d] # None /\ ~session[d].revoked /\ ~session[d].past
Usable(c) == credential[c] # None /\ ~credential[c].revoked /\ ~credential[c].past

(* by: the user; made: the user made for a new subject, not committed yet  *)
(* (and not to be found by others: nothing committed leads there);         *)
(* row, picked: sessions that were read; on: the default to be cleared.    *)
Idle == [at |-> "idle", asked |-> None, by |-> None, made |-> None,
         row |-> None, picked |-> {}, on |-> None]
Asked(h) == handler[h].asked
Key(h) == handler[h].asked.from.key
At(h, stage, ops) == handler[h].at = stage /\ Asked(h).op \in ops

TypeOK ==
    /\ user \subseteq User
    /\ identity \in [Subject -> User \cup {None}]
    /\ ledger \in [Ledger -> LedgerRow \cup {None}]
    /\ session \in [Session -> SessionRow \cup {None}]
    /\ credential \in [Credential -> CredentialRow \cup {None}]
    /\ handler \in [Handler -> [
          at : {"idle", "seen", "new", "in", "read", "clearing", "cleared"},
          asked : Request \cup {None}, by : User \cup {None}, made : User \cup {None},
          row : SessionRow \cup {None}, picked : SUBSET Session, on : Ledger \cup {None}]]
    /\ requests \in Nat

Init == /\ user = {}
        /\ identity = [s \in Subject |-> None]
        /\ ledger = [l \in Ledger |-> None]
        /\ session = [d \in Session |-> None]
        /\ credential = [c \in Credential |-> None]
        /\ handler = [h \in Handler |-> Idle]
        /\ requests = 0

-----------------------------------------------------------------------------
(* Coming in                                                               *)

Begin(h, q, stage, u, row) ==
    /\ handler[h].at = "idle" /\ requests < MaxRequests
    /\ handler' = [handler EXCEPT ![h] = [Idle EXCEPT !.at = stage, !.asked = q,
                                                      !.by = u, !.row = row]]
    /\ requests' = requests + 1
    /\ UNCHANGED <<user, identity, ledger, session, credential>>

ComeWithSubject(h, q) ==
    /\ q.from.with = "subject"
    /\ LET u == identity[q.from.key]
       IN  Begin(h, q, IF u = None THEN "new" ELSE "in", u, None)

(* A session that is revoked or past is turned away.                       *)
ComeWithSession(h, q) ==
    /\ q.from.with = "session" /\ Live(q.from.key)
    /\ Begin(h, q, "seen", session[q.from.key].user, session[q.from.key])

ComeWithCredential(h, q) ==
    /\ q.from.with = "credential" /\ Usable(q.from.key)
    /\ Begin(h, q, "in", credential[q.from.key].user, None)

Touched_WholeRow(old, now) == [old EXCEPT !.quiet = FALSE]
Touched(old, now) == [now EXCEPT !.quiet = FALSE]

(* last_seen_at is written at most once per window.                        *)
Touch(h) ==
    /\ handler[h].at = "seen"
    /\ LET old == handler[h].row  gone == old.quiet /\ session[Key(h)] = None
       IN  /\ session' = IF old.quiet /\ ~gone
                         THEN [session EXCEPT ![Key(h)] = Touched(old, @)] ELSE session
           /\ handler' = [handler EXCEPT ![h] = IF gone THEN Idle
                                                ELSE [@ EXCEPT !.at = "in", !.row = None]]
    /\ UNCHANGED <<user, identity, ledger, credential, requests>>

(* What the savepoint leaves of the user made by the loser of two          *)
(* bootstraps of one subject.                                              *)
Kept(u) == {}
Reloaded_Own(s, u) == u
(* Whom the loser goes on as.                                              *)
Reloaded(s, u) == identity[s]

FirstLedger(u) == [owner |-> u, name |-> First, default |-> TRUE]

(* The user, the first ledger and the identity of a new subject: its index *)
(* makes a second handler wait for the first one to commit or roll back.   *)
Bootstrap(h) ==
    /\ handler[h].at = "new"
    /\ \A g \in Handler \ {h} : handler[g].made # None => Key(g) # Key(h)
    /\ \E u \in User \ user, l \in {k \in Ledger : ledger[k] = None} :
          IF identity[Key(h)] = None
          THEN /\ user' = user \cup {u}
               /\ ledger' = [ledger EXCEPT ![l] = FirstLedger(u)]
               /\ handler' = [handler EXCEPT ![h].at = "in", ![h].by = u, ![h].made = u]
          ELSE /\ user' = user \cup Kept(u)
               /\ ledger' = IF Kept(u) = {} THEN ledger
                            ELSE [ledger EXCEPT ![l] = FirstLedger(u)]
               /\ handler' = [handler EXCEPT ![h].at = "in", ![h].by = Reloaded(Key(h), u)]
    /\ UNCHANGED <<identity, session, credential, requests>>

(* The request ends; a new subject's identity is committed with it.        *)
Done(h) ==
    /\ identity' = IF handler[h].made = None THEN identity
                   ELSE [identity EXCEPT ![Key(h)] = handler[h].made]
    /\ handler' = [handler EXCEPT ![h] = Idle]
    /\ UNCHANGED <<user, requests>>

(* A crash or an error: what has not been committed is undone.             *)
Abort(h) ==
    /\ handler[h].at # "idle"
    /\ handler' = [handler EXCEPT ![h] = Idle]
    /\ user' = user \ {handler[h].made}
    /\ ledger' = [l \in Ledger |-> IF handler[h].made # None /\ l \in Owned(handler[h].made)
                                   THEN None ELSE ledger[l]]
    /\ UNCHANGED <<identity, session, credential, requests>>

-----------------------------------------------------------------------------
(* What a request finds when it begins to work. A chat answers a refusal   *)
(* and commits; others have nothing to commit.                             *)

Unrevoked(u) == {d \in Session : session[d] # None /\ session[d].user = u /\ ~session[d].revoked}
Picked(h) == LET q == Asked(h)  own == Unrevoked(handler[h].by)
             IN  CASE q.op = "logout" -> own \cap {Key(h)}
                   [] q.op = "revoke" -> own \cap {q.session}
                   [] q.op = "revoke_others" -> own \ {Key(h)}
                   [] OTHER -> {}

Accepted(h) ==
    LET q == Asked(h)  u == handler[h].by
    IN  CASE q.op = "create" -> NameFree(u, q.name, None)
          [] q.op = "rename" -> q.ledger \in Owned(u) /\ NameFree(u, q.name, q.ledger)
          [] q.op = "default" -> q.ledger \in Owned(u)
          [] q.op = "withdraw" -> /\ credential[q.credential] # None
                                  /\ credential[q.credential].user = u
                                  /\ ~credential[q.credential].revoked
          [] q.op \in {"logout", "revoke", "revoke_others"} -> Picked(h) # {}
          [] OTHER -> TRUE

Look(h) ==
    /\ handler[h].at = "in" /\ Asked(h).op \notin Plain
    /\ IF Accepted(h)
       THEN /\ handler' = [handler EXCEPT ![h].at = "read", ![h].picked = Picked(h)]
            /\ UNCHANGED <<user, identity, requests>>
       ELSE Done(h)
    /\ UNCHANGED <<ledger, session, credential>>

Message(h) == /\ At(h, "in", {"message"})
              /\ Done(h) /\ UNCHANGED <<ledger, session, credential>>

(* Every login makes a session of its own.                                 *)
LogIn(h) ==
    /\ At(h, "in", {"login"})
    /\ \E d \in Session :
          /\ session[d] = None
          /\ session' = [session EXCEPT ![d] =
                [subject |-> Key(h), user |-> handler[h].by, revoked |-> FALSE,
                 quiet |-> FALSE, past |-> FALSE, old |-> FALSE]]
    /\ Done(h) /\ UNCHANGED <<ledger, credential>>

-----------------------------------------------------------------------------
(* Sessions and credentials                                                *)

(* All of the picked sessions, or none when one of them has been purged.   *)
Revoke(h) ==
    /\ At(h, "read", {"logout", "revoke", "revoke_others"})
    /\ session' = IF \E d \in handler[h].picked : session[d] = None THEN session
                  ELSE [d \in Session |-> IF d \in handler[h].picked
                                          THEN [session[d] EXCEPT !.revoked = TRUE] ELSE session[d]]
    /\ Done(h) /\ UNCHANGED <<ledger, credential>>

Issue(h) ==
    /\ At(h, "read", {"issue"})
    /\ \E c \in Credential :
          /\ credential[c] = None
          /\ credential' = [credential EXCEPT ![c] =
                               [user |-> handler[h].by, revoked |-> FALSE, past |-> FALSE]]
    /\ Done(h) /\ UNCHANGED <<ledger, session>>

Withdraw(h) ==
    /\ At(h, "read", {"withdraw"})
    /\ credential' = [credential EXCEPT ![Asked(h).credential].revoked = TRUE]
    /\ Done(h) /\ UNCHANGED <<ledger, session>>

(* Time passes, ...                                                        *)
GrowQuiet(d) == /\ Live(d) /\ ~session[d].quiet
                /\ session' = [session EXCEPT ![d].quiet = TRUE]
                /\ UNCHANGED <<user, identity, ledger, credential, handler, requests>>
Expire(d) == /\ session[d] # None /\ ~session[d].past
             /\ session' = [session EXCEPT ![d].past = TRUE]
             /\ UNCHANGED <<user, identity, ledger, credential, handler, requests>>
ExpireCredential(c) == /\ credential[c] # None /\ ~credential[c].past
                       /\ credential' = [credential EXCEPT ![c].past = TRUE]
                       /\ UNCHANGED <<user, identity, ledger, session, handler, requests>>
Age(d) == /\ session[d] # None /\ ~session[d].old
          /\ session' = [session EXCEPT ![d].old = TRUE]
          /\ UNCHANGED <<user, identity, ledger, credential, handler, requests>>

(* ... and the cleanup deletes what is dead and old enough.                *)
Purge(d) == /\ session[d] # None /\ (session[d].revoked \/ session[d].past)
            /\ session[d].old
            /\ session' = [session EXCEPT ![d] = None]
            /\ UNCHANGED <<user, identity, ledger, credential, handler, requests>>

-----------------------------------------------------------------------------
(* Personal ledgers                                                        *)

(* Another transaction has changed l's row and not committed.              *)
Locked(h, l) == \E g \in Handler \ {h} : handler[g].at = "cleared" /\ handler[g].on = l

Create(h) ==
    /\ At(h, "read", {"create"})
    /\ \E l \in Ledger :
          /\ ledger[l] = None
          /\ ledger' = IF NameFree(handler[h].by, Asked(h).name, None)
                       THEN [ledger EXCEPT ![l] = [owner |-> handler[h].by, name |-> Asked(h).name,
                                                   default |-> FALSE]]
                       ELSE ledger
    /\ Done(h) /\ UNCHANGED <<session, credential>>

Rename(h) ==
    /\ At(h, "read", {"rename"})
    /\ ~Locked(h, Asked(h).ledger)
    /\ ledger' = IF NameFree(handler[h].by, Asked(h).name, Asked(h).ledger)
                 THEN [ledger EXCEPT ![Asked(h).ledger].name = Asked(h).name] ELSE ledger
    /\ Done(h) /\ UNCHANGED <<session, credential>>

(* The UPDATE that clears the default finds the committed one, ...         *)
Clear(h) ==
    /\ At(h, "read", {"default"})
    /\ \E l \in Defaults(handler[h].by) :
          handler' = [handler EXCEPT ![h].at = "clearing", ![h].on = l]
    /\ UNCHANGED <<user, identity, ledger, session, credential, requests>>

(* ... waits for its row, and leaves it if it is the default no longer.    *)
Cleared(h) ==
    /\ handler[h].at = "clearing" /\ ~Locked(h, handler[h].on)
    /\ handler' = [handler EXCEPT ![h].at = "cleared",
                                  ![h].on = IF ledger[@].default THEN @ ELSE None]
    /\ UNCHANGED <<user, identity, ledger, session, credential, requests>>

(* uq_ledgers_owner_default: a default other than l is left.               *)
Conflict(h, l) == Defaults(handler[h].by) \ {handler[h].on, l} # {}

MakeDefault(h) ==
    /\ At(h, "cleared", {"default"})
    /\ LET l == Asked(h).ledger
       IN  /\ ~Locked(h, l)
           /\ ledger' = IF Conflict(h, l) THEN ledger
                        ELSE [k \in Ledger |->
                                IF k = l THEN [ledger[k] EXCEPT !.default = TRUE]
                                ELSE IF k = handler[h].on THEN [ledger[k] EXCEPT !.default = FALSE]
                                ELSE ledger[k]]
    /\ Done(h) /\ UNCHANGED <<session, credential>>

-----------------------------------------------------------------------------
Arrive(h) == \E q \in Request : \/ ComeWithSubject(h, q)
                                \/ ComeWithSession(h, q)
                                \/ ComeWithCredential(h, q)

Work(h) == \/ Touch(h) \/ Bootstrap(h) \/ Look(h) \/ Message(h) \/ LogIn(h)
           \/ Revoke(h) \/ Issue(h) \/ Withdraw(h)
           \/ Create(h) \/ Rename(h) \/ Clear(h) \/ Cleared(h) \/ MakeDefault(h)

Next == \/ \E h \in Handler : Arrive(h) \/ Work(h) \/ Abort(h)
        \/ \E d \in Session : GrowQuiet(d) \/ Expire(d) \/ Age(d) \/ Purge(d)
        \/ \E c \in Credential : ExpireCredential(c)

Spec == Init /\ [][Next]_vars

-----------------------------------------------------------------------------
(* Properties                                                              *)

(* A user has one default ledger at all times, from the transaction that   *)
(* makes the user on and however many requests change it.                  *)
OneDefault == \A u \in user : \E l \in Ledger : Defaults(u) = {l}

(* There is no user, and so no ledger, that nobody can come in as: of two  *)
(* handlers that make a user for one new subject the loser leaves nothing, *)
(* and neither does one that crashes.                                      *)
Known(u) == \E s \in Subject : identity[s] = u
NoOrphan == \A u \in user : Known(u) \/ \E h \in Handler : handler[h].made = u

(* A session acts for the user of the subject that logged in, also when    *)
(* the subject was new and wrote to the chat at the same time.             *)
SessionIsSubjects ==
    \A d \in Session : session[d] # None => session[d].user = identity[session[d].subject]

(* The tables have their shape, each user one default ledger and a way in, *)
(* and each session its subject's user.                                    *)
Inv == TypeOK /\ OneDefault /\ NoOrphan /\ SessionIsSubjects

(* What an identity, a credential or a ledger names is a user there is,    *)
(* and a credential is of one who can come in otherwise too.               *)
Rooted ==
    /\ \A s \in Subject : identity[s] # None => identity[s] \in user
    /\ \A l \in Ledger : ledger[l] # None => ledger[l].owner \in user
    /\ \A c \in Credential : credential[c] # None => Known(credential[c].user)

(* A request r works for a user somebody can come in as, and for its       *)
(* subject's, or for one it has made, whom nothing committed leads to.     *)
ActsForIts(r) ==
    /\ r.at = "idle" => r.made = None
    /\ r.at # "idle" => r.asked \in Request
    /\ r.at = "seen" => r.row # None /\ r.made = None /\ r.asked.from.with = "session"
    /\ r.at = "new" => r.made = None /\ r.asked.from.with = "subject"
    /\ r.at \notin {"idle", "new"} => r.by \in user
    /\ r.at \notin {"idle", "new"} /\ r.made = None =>
          /\ Known(r.by)
          /\ r.asked.from.with = "subject" => r.by = identity[r.asked.from.key]
    /\ r.made # None => /\ r.by = r.made /\ r.made \in user /\ ~Known(r.made)
                        /\ r.asked.from.with = "subject"
                        /\ identity[r.asked.from.key] = None
(* What it has found stays its user's, and the default it has cleared is   *)
(* one until it commits.                                                   *)
HoldsIts(r) ==
    /\ r.at \in {"read", "clearing", "cleared"} /\ r.asked.op \in {"rename", "default"} =>
          r.asked.ledger \in Owned(r.by)
    /\ r.at = "clearing" => r.on \in Owned(r.by)
    /\ r.at = "cleared" /\ r.on # None => r.on \in Defaults(r.by)
    /\ r.at = "read" /\ r.asked.op = "withdraw" => credential[r.asked.credential] # None
RequestsStand == \A h \in Handler : ActsForIts(handler[h]) /\ HoldsIts(handler[h])

(* No two requests make one user, or a user for one subject, or have       *)
(* cleared one default.                                                    *)
Apart == \A g, h \in Handler : g # h =>
    /\ handler[g].made # None /\ handler[h].made # None =>
          handler[g].made # handler[h].made /\ Key(g) # Key(h)
    /\ handler[g].at = "cleared" /\ handler[g].on # None => ~Locked(g, handler[g].on)

(* With what it rests on.                                                  *)
IInv == Inv /\ Rooted /\ RequestsStand /\ Apart

(* Revoking is final: no request that read the row before brings a session *)
(* or a credential back.                                                   *)
RevokedIsFinal ==
    [][/\ \A d \in Session : session[d] # None /\ session[d].revoked
              => session'[d] = None \/ session'[d].revoked
       /\ \A c \in Credential : credential[c] # None /\ credential[c].revoked
              => credential'[c].revoked]_vars
=============================================================================
