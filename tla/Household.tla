------------------------------ MODULE Household ------------------------------
(***************************************************************************)
(* Households: their members, the invitations that make members, and the   *)
(* ledger that each of a user's entrances has selected (None is the        *)
(* default personal ledger; a household has one shared ledger).            *)
(*                                                                         *)
(* A handler is one request with its transaction (READ COMMITTED). It      *)
(* reads and checks without locks and then writes and commits, so that     *)
(* what it read may be old by then; only an invitation that is answered is *)
(* read FOR UPDATE. Who ends a membership writes in two steps, for others  *)
(* may write between its statements. A write changes the columns that      *)
(* differ from the row the handler read. A request that is refused when it *)
(* arrives, or has nothing to change, is no step.                          *)
(***************************************************************************)
EXTENDS Naturals, FiniteSets

CONSTANTS User, Household, Name, Invitation,
          Text,         \* what a member may be called, as normalize_alias leaves it
          Folded,       \* Folded[t]: what _normalize makes of t
          DisplayName,  \* DisplayName[u]: users.display_name, or None
          Subject,      \* Subject[t]: the user whose Feishu open id is t, or None
          Handler,      \* requests the service works on at a time
          None,
          MaxRequests   \* bound: requests

VARIABLES
    home,        \* home[hh]: hh's row of households, or None
    member,      \* member[hh][u]: their row of household_members, or None
    invitation,  \* invitation[i]: i's row of household_invitations, or None
    current,     \* current[u][s]: the household whose ledger u has selected at s, or None
    handler,     \* handler[h]: the request h is at
    requests,
    late         \* history: the <<u, s>> whose selection of a household was written
                 \* when the end of u's membership had looked for selections

vars == <<home, member, invitation, current, handler, requests, late>>

(* channel_identities, dashboard_sessions and client_credentials.          *)
Slot == {"channel", "session", "credential"}
HomeRow == [owner : User, name : Name]
MemberRow == [role : {"owner", "member"}, status : {"active", "left", "removed"},
              alias : Text \cup {None}]
(* due: expires_at has passed.                                             *)
InvitationRow == [household : Household, target : User, due : BOOLEAN,
                  status : {"pending", "accepted", "rejected", "cancelled", "expired"}]

ASSUME HouseholdAssumption ==
    /\ None \notin User \cup Household \cup Text \cup Handler
    /\ Text \cap User = {}
    /\ DisplayName \in [User -> Text \cup {None}] /\ Subject \in [Text -> User \cup {None}]
    /\ None \notin HomeRow \cup MemberRow \cup InvitationRow
    /\ MaxRequests \in Nat

-----------------------------------------------------------------------------
(* What the channels send. In a chat the reply to a refusal is committed   *)
(* with whatever the handler has written before it was refused; the Web    *)
(* and the client API roll back.                                           *)
Foundings == [op : {"create"}, by : User, name : Name]
Renamings == [op : {"rename"}, by : User, household : Household, name : Name]
Invitations == [op : {"invite"}, by : User, household : Household, target : User, chat : BOOLEAN]
Answers == [op : {"accept", "reject", "cancel"}, by : User, invitation : Invitation, chat : BOOLEAN]
Departures == [op : {"leave"}, by : User, household : Household]
Removals == [op : {"remove"}, by : User, household : Household, target : User]
Callings == [op : {"alias"}, by : User, household : Household, target : User,
             alias : Text \cup {None}]
Choices == [op : {"select"}, by : User, household : Household \cup {None}, slot : Slot]

(* Only the Web knows aliases, and a chat cancels nothing.                 *)
WebHouseholds == Foundings \cup Renamings \cup Callings
ClientHouseholds == Foundings \cup Renamings \cup Departures \cup Removals
WebInvitations == {q \in Invitations \cup Answers : ~q.chat} \cup Departures \cup Removals
ClientInvitations == {q \in Invitations \cup Answers : ~q.chat}
ChatRequest == Foundings \cup Departures
                 \cup {q \in Invitations \cup Answers : q.chat /\ q.op # "cancel"}
Request == WebHouseholds \cup ClientHouseholds \cup WebInvitations \cup ClientInvitations
             \cup ChatRequest \cup Choices

-----------------------------------------------------------------------------
Founded == {hh \in Household : home[hh] # None}
Active(hh, u) == hh \in Founded /\ member[hh][u] # None /\ member[hh][u].status = "active"
Plain(hh, u) == Active(hh, u) /\ member[hh][u].role = "member"
IsOwner(hh, u) == Active(hh, u) /\ home[hh].owner = u /\ member[hh][u].role = "owner"

Members(hh) == {u \in User : Active(hh, u)}
AliasOf(hh, u) == member[hh][u].alias
Households(u) == {hh \in Founded : Active(hh, u)}
(* A chat that names no household means the selected one or the only one.  *)
Meant(u) == IF current[u]["channel"] \in Households(u) THEN {current[u]["channel"]}
            ELSE IF Cardinality(Households(u)) = 1 THEN Households(u) ELSE {}

(* The members that the text t may mean: by alias, or else by display      *)
(* name, or else by open id; aliases and names are compared folded.        *)
Aliased(hh, t) == {u \in Members(hh) : AliasOf(hh, u) # None /\ Folded[AliasOf(hh, u)] = Folded[t]}
Named(hh, t) == {u \in Members(hh) : DisplayName[u] # None /\ Folded[DisplayName[u]] = Folded[t]}
Meanings(hh, t) == IF Aliased(hh, t) # {} THEN Aliased(hh, t)
                   ELSE IF Named(hh, t) # {} THEN Named(hh, t)
                   ELSE Members(hh) \cap {Subject[t]}

(* Who pays when an entry of the household's ledger names ref: the actor   *)
(* if nothing is named, a member by id, or the one member that a text      *)
(* means. {}: the entry is refused.                                        *)
Payers(hh, actor, ref) ==
    IF ref = None THEN {actor}
    ELSE IF ref \in User THEN Members(hh) \cap {ref}
    ELSE IF Cardinality(Meanings(hh, ref)) = 1 THEN Meanings(hh, ref) ELSE {}

Pending(i) == invitation[i] # None /\ invitation[i].status = "pending"

(* uq_households_owner_name                                                *)
NameFree(u, n, hh) == \A o \in Founded \ {hh} : home[o] # [owner |-> u, name |-> n]

(* The unlocked check looks at active members only, ...                    *)
AliasLooksFree(hh, u, a) == \A v \in Members(hh) \ {u} : AliasOf(hh, v) # a
AliasFree_NoIndex(hh, u, a) == TRUE
(* ... uq_household_members_alias at those who have left as well.          *)
AliasFree(hh, u, a) ==
    \A v \in User \ {u} : member[hh][v] # None => AliasOf(hh, v) # a

(* row: the row of household_members that was read; slots: the entrances   *)
(* whose rows the end of a membership holds.                               *)
HandlerRow == [at : {"idle", "read", "reset", "waiting", "locked"}, asked : Request \cup {None},
               row : MemberRow \cup {None}, slots : SUBSET Slot]
Idle == [at |-> "idle", asked |-> None, row |-> None, slots |-> {}]
Asked(h) == handler[h].asked

TypeOK == /\ home \in [Household -> HomeRow \cup {None}]
          /\ member \in [Household -> [User -> MemberRow \cup {None}]]
          /\ invitation \in [Invitation -> InvitationRow \cup {None}]
          /\ current \in [User -> [Slot -> Household \cup {None}]]
          /\ handler \in [Handler -> HandlerRow]
          /\ requests \in Nat
          /\ late \in SUBSET (User \X Slot)

Init == /\ home = [hh \in Household |-> None]
        /\ member = [hh \in Household |-> [u \in User |-> None]]
        /\ invitation = [i \in Invitation |-> None]
        /\ current = [u \in User |-> [s \in Slot |-> None]]
        /\ handler = [h \in Handler |-> Idle]
        /\ requests = 0
        /\ late = {}

-----------------------------------------------------------------------------
(* Arrival                                                                 *)

Invitable(q) == /\ IsOwner(q.household, q.by)
                /\ q.target # q.by
                /\ ~Active(q.household, q.target)

(* What the request finds without a lock.                                  *)
Accepted(q) ==
    CASE q.op = "create" -> NameFree(q.by, q.name, None)
      [] q.op = "rename" -> IsOwner(q.household, q.by) /\ NameFree(q.by, q.name, q.household)
      [] q.op = "invite" -> Invitable(q) /\ (q.chat => q.household \in Meant(q.by))
      [] q.op \in {"accept", "reject"} ->
            invitation[q.invitation] # None /\ invitation[q.invitation].target = q.by
      [] q.op = "cancel" -> invitation[q.invitation] # None
      [] q.op = "leave" -> Plain(q.household, q.by)
      [] q.op = "remove" -> IsOwner(q.household, q.by) /\ Plain(q.household, q.target)
      [] q.op = "alias" -> /\ IsOwner(q.household, q.by) /\ Plain(q.household, q.target)
                           /\ q.alias = None \/ AliasLooksFree(q.household, q.target, q.alias)
      [] q.op = "select" -> /\ current[q.by][q.slot] # q.household
                            /\ q.household = None \/ Active(q.household, q.by)

Answering(q) == q.op \in {"accept", "reject", "cancel"}

Arrive(h, q) ==
    /\ handler[h].at = "idle" /\ requests < MaxRequests
    /\ Accepted(q)
    /\ handler' = [handler EXCEPT ![h] =
          [at |-> IF Answering(q) THEN "waiting" ELSE "read",
           asked |-> q,
           row |-> IF q.op = "alias" THEN member[q.household][q.target] ELSE None,
           slots |-> {}]]
    /\ requests' = requests + 1
    /\ UNCHANGED <<home, member, invitation, current, late>>

Done(h) == handler' = [handler EXCEPT ![h] = Idle] /\ UNCHANGED requests
Works(h, op) == handler[h].at = "read" /\ Asked(h).op = op

-----------------------------------------------------------------------------
(* Households and members                                                  *)

NewMember(role) == [role |-> role, status |-> "active", alias |-> None]

(* The household, its owner's membership and its ledger.                   *)
Create(h) ==
    /\ Works(h, "create")
    /\ LET q == Asked(h)
       IN  \/ \E hh \in Household \ Founded :
                 /\ NameFree(q.by, q.name, None)
                 /\ home' = [home EXCEPT ![hh] = [owner |-> q.by, name |-> q.name]]
                 /\ member' = [member EXCEPT ![hh][q.by] = NewMember("owner")]
           \/ /\ ~NameFree(q.by, q.name, None) \/ Household \subseteq Founded
              /\ UNCHANGED <<home, member>>
    /\ Done(h) /\ UNCHANGED <<invitation, current, late>>

Rename(h) ==
    /\ Works(h, "rename")
    /\ LET q == Asked(h)
       IN  home' = IF NameFree(q.by, q.name, q.household)
                   THEN [home EXCEPT ![q.household].name = q.name] ELSE home
    /\ Done(h) /\ UNCHANGED <<member, invitation, current, late>>

Ending(q) == q.op \in {"leave", "remove"}
Whose(q) == IF q.op = "remove" THEN q.target ELSE q.by

(* The rows that somebody who ends a membership has written and not        *)
(* committed: the member's, and those of the entrances that were on the    *)
(* household's ledger. Who writes one of them waits.                       *)
MemberHeld(hh, u) == \E g \in Handler : /\ handler[g].at = "reset"
                                        /\ Asked(g).household = hh /\ Whose(Asked(g)) = u
SlotHeld(u, s) == \E g \in Handler : /\ handler[g].at = "reset"
                                     /\ Whose(Asked(g)) = u /\ s \in handler[g].slots

Selecting_Channel(hh, u) == {s \in {"channel"} : current[u][s] = hh}
(* What _reset_selections looks for; a credential is corrected when it is  *)
(* next used.                                                              *)
Selecting(hh, u) == {s \in Slot \ {"credential"} : current[u][s] = hh}

(* The member's row is written, by a role that was read before, and the    *)
(* selections are reset ...                                                *)
Reset(h) ==
    /\ handler[h].at = "read" /\ Ending(Asked(h))
    /\ LET q == Asked(h)
       IN  /\ ~MemberHeld(q.household, Whose(q))
           /\ handler' = [handler EXCEPT ![h].at = "reset",
                                         ![h].slots = Selecting(q.household, Whose(q))]
    /\ UNCHANGED <<home, member, invitation, current, requests, late>>

(* ... and then committed.                                                 *)
EndMembership(h, status) ==
    /\ LET u == Whose(Asked(h))  S == handler[h].slots
       IN  /\ member' = [member EXCEPT ![Asked(h).household][u].status = status]
           /\ current' = [current EXCEPT ![u] = [s \in Slot |-> IF s \in S THEN None ELSE @[s]]]
           /\ late' = late \ ({u} \X S)
    /\ Done(h) /\ UNCHANGED <<home, invitation>>

Leave(h) == handler[h].at = "reset" /\ Asked(h).op = "leave" /\ EndMembership(h, "left")
Remove(h) == handler[h].at = "reset" /\ Asked(h).op = "remove" /\ EndMembership(h, "removed")

(* A taken alias is refused by the index at the latest.                    *)
SetAlias(h) ==
    /\ Works(h, "alias")
    /\ LET q == Asked(h)
       IN  IF \/ handler[h].row.alias = q.alias
              \/ q.alias # None /\ ~AliasFree(q.household, q.target, q.alias)
           THEN member' = member
           ELSE /\ ~MemberHeld(q.household, q.target)
                /\ member' = [member EXCEPT ![q.household][q.target].alias = q.alias]
    /\ Done(h) /\ UNCHANGED <<home, invitation, current, late>>

-----------------------------------------------------------------------------
(* Invitations                                                             *)

InvitationLocked_Never(h, i) == FALSE
(* Another transaction has i's row FOR UPDATE.                             *)
InvitationLocked(h, i) ==
    \E g \in Handler \ {h} : handler[g].at = "locked" /\ Asked(g).invitation = i

(* _expire_pending: every overdue invitation, of whatever household.       *)
Overdue == {i \in Invitation : Pending(i) /\ invitation[i].due}
Swept == [i \in Invitation |->
             IF i \in Overdue THEN [invitation[i] EXCEPT !.status = "expired"] ELSE invitation[i]]

Invite(h) ==
    /\ Works(h, "invite")
    /\ \A i \in Overdue : ~InvitationLocked(h, i)
    /\ LET q == Asked(h)
           taken == \E i \in Invitation \ Overdue : /\ Pending(i)
                                                    /\ invitation[i].household = q.household
                                                    /\ invitation[i].target = q.target
           free == {i \in Invitation : invitation[i] = None}
       IN  \/ ~taken /\ \E i \in free :
                 invitation' = [Swept EXCEPT ![i] = [household |-> q.household, target |-> q.target,
                                                     due |-> FALSE, status |-> "pending"]]
           \* refused by the index
           \/ (taken \/ free = {}) /\ UNCHANGED invitation
           \* refused by the check, in a chat
           \/ taken /\ q.chat /\ invitation' = Swept
    /\ Done(h) /\ UNCHANGED <<home, member, current, late>>

(* Listing the invitations expires the overdue ones (Web and chat; the     *)
(* client API does not commit).                                            *)
List == /\ Overdue # {} /\ \A i \in Overdue : ~InvitationLocked(None, i)
        /\ invitation' = Swept
        /\ UNCHANGED <<home, member, current, handler, requests, late>>

Answerable_Again(q) == \/ Pending(q.invitation)
                       \/ q.op = "accept" /\ invitation[q.invitation].status = "accepted"
(* What has been answered is not answered again, and an overdue invitation *)
(* is not accepted.                                                        *)
Answerable(q) == /\ Pending(q.invitation)
                 /\ q.op = "accept" => ~invitation[q.invitation].due
                 /\ q.op = "cancel" => IsOwner(invitation[q.invitation].household, q.by)

(* The invitation is read FOR UPDATE, and then the member's row.           *)
LockInvitation(h) ==
    /\ handler[h].at = "waiting"
    /\ LET q == Asked(h)  i == Asked(h).invitation
       IN  /\ ~InvitationLocked(h, i)
           /\ \/ /\ Answerable(q)
                 /\ handler' = [handler EXCEPT ![h].at = "locked",
                                               ![h].row = member[invitation[i].household][q.by]]
                 /\ UNCHANGED <<invitation, requests>>
              \/ /\ ~Answerable(q)
                 /\ invitation' = IF q.op = "accept" /\ q.chat /\ i \in Overdue
                                  THEN [invitation EXCEPT ![i].status = "expired"] ELSE invitation
                 /\ Done(h)
    /\ UNCHANGED <<home, member, current, late>>

(* Whoever comes back keeps the alias; what the old row already says is    *)
(* not written.                                                            *)
Joined(old, now) ==
    IF old = None THEN NewMember("member")
    ELSE [now EXCEPT !.role = IF old.role = "member" THEN @ ELSE "member",
                     !.status = IF old.status = "active" THEN @ ELSE "active"]

Accept(h) ==
    /\ handler[h].at = "locked" /\ Asked(h).op = "accept"
    /\ LET q == Asked(h)  hh == invitation[Asked(h).invitation].household
       IN  /\ ~MemberHeld(hh, q.by)
           /\ member' = [member EXCEPT ![hh][q.by] = Joined(handler[h].row, @)]
           /\ invitation' = [invitation EXCEPT ![q.invitation].status = "accepted"]
    /\ Done(h) /\ UNCHANGED <<home, current, late>>

Decline(h) ==
    /\ handler[h].at = "locked" /\ Asked(h).op \in {"reject", "cancel"}
    /\ invitation' = [invitation EXCEPT ![Asked(h).invitation].status =
                         IF Asked(h).op = "reject" THEN "rejected" ELSE "cancelled"]
    /\ Done(h) /\ UNCHANGED <<home, member, current, late>>

(* Time passes.                                                            *)
FallDue(i) == /\ Pending(i) /\ ~invitation[i].due
              /\ invitation' = [invitation EXCEPT ![i].due = TRUE]
              /\ UNCHANGED <<home, member, current, handler, requests, late>>

-----------------------------------------------------------------------------
(* Selected ledgers                                                        *)

Select(h) ==
    /\ Works(h, "select")
    /\ LET q == Asked(h)  hh == Asked(h).household
           behind == /\ hh # None /\ q.slot # "credential"
                     /\ ~Active(hh, q.by) \/ MemberHeld(hh, q.by)
       IN  /\ ~SlotHeld(q.by, q.slot)
           /\ current' = [current EXCEPT ![q.by][q.slot] = hh]
           /\ late' = IF behind THEN late \cup {<<q.by, q.slot>>} ELSE late \ {<<q.by, q.slot>>}
    /\ Done(h) /\ UNCHANGED <<home, member, invitation>>

(* Whoever comes in with a ledger that is no longer theirs is given the    *)
(* default one.                                                            *)
Resolve(u, s) == /\ current[u][s] # None /\ ~Active(current[u][s], u)
                 /\ ~SlotHeld(u, s)
                 /\ current' = [current EXCEPT ![u][s] = None]
                 /\ late' = late \ {<<u, s>>}
                 /\ UNCHANGED <<home, member, invitation, handler, requests>>

-----------------------------------------------------------------------------
Work(h) == \/ Create(h) \/ Rename(h) \/ Reset(h) \/ Leave(h) \/ Remove(h) \/ SetAlias(h)
           \/ Invite(h) \/ LockInvitation(h) \/ Accept(h) \/ Decline(h) \/ Select(h)

Next == \/ \E h \in Handler : \/ \E q \in Request : Arrive(h, q)
                              \/ Work(h)
        \/ List
        \/ \E i \in Invitation : FallDue(i)
        \/ \E u \in User, s \in Slot : Resolve(u, s)

Spec == Init /\ [][Next]_vars

-----------------------------------------------------------------------------
(* Properties                                                              *)

(* A household has one active owner at all times, the one it belongs to:   *)
(* no sequence of invitations, departures and removals, in whatever order  *)
(* they commit, takes the role away or gives it to another.                *)
OneOwner == \A hh \in Founded :
    {u \in User : Active(hh, u) /\ member[hh][u].role = "owner"} = {home[hh].owner}

(* A member is found by the alias they were given, whoever has been given  *)
(* it meanwhile, has left with it or come back; unless another member's    *)
(* alias is a different text that folds to the same: then nobody is.       *)
PayerIsFound == \A hh \in Founded : \A u \in Members(hh), actor \in User :
    LET a == AliasOf(hh, u)
        Twin(v) == AliasOf(hh, v) \notin {None, a} /\ Folded[AliasOf(hh, v)] = Folded[a]
    IN  a # None /\ ~(\E v \in Members(hh) : Twin(v)) => Payers(hh, actor, a) = {u}

(* The tables have their shape, each household its one owner, and an alias *)
(* finds its member.                                                       *)
Inv == TypeOK /\ OneOwner /\ PayerIsFound

(* A membership is of a household there is; its owner's is active and the  *)
(* owner's, and every other one a plain member's.                          *)
Rooted ==
    /\ \A hh \in Founded : IsOwner(hh, home[hh].owner)
    /\ \A hh \in Household, u \in User :
          member[hh][u] # None => /\ hh \in Founded
                                  /\ u # home[hh].owner => member[hh][u].role = "member"

(* An alias is one member's, also among those who have left.               *)
AliasesDiffer ==
    \A hh \in Household, u, v \in User :
        /\ u # v /\ member[hh][u] # None /\ member[hh][v] # None
        /\ AliasOf(hh, u) # None
        => AliasOf(hh, u) # AliasOf(hh, v)

(* Nobody invites the owner, and nobody twice at a time.                   *)
InvitationsRooted ==
    /\ \A i \in Invitation : invitation[i] # None =>
          /\ invitation[i].household \in Founded
          /\ invitation[i].target # home[invitation[i].household].owner
    /\ \A i, j \in Invitation :
          /\ Pending(i) /\ Pending(j)
          /\ invitation[i].household = invitation[j].household
          /\ invitation[i].target = invitation[j].target
          => i = j

(* u, who is not the owner of hh, is or was a member of it.                *)
Guest(hh, u) == hh \in Founded /\ member[hh][u] # None /\ u # home[hh].owner

(* What a request has found on arrival and may rely on when it writes,     *)
(* however old it is.                                                      *)
Checked(q) ==
    /\ q.op \in {"rename", "invite"} => q.household \in Founded
    /\ q.op = "invite" => q.target # home[q.household].owner
    /\ q.op = "leave" => Guest(q.household, q.by)
    /\ q.op \in {"remove", "alias"} => Guest(q.household, q.target)
    /\ Answering(q) => invitation[q.invitation] # None
    /\ q.op \in {"accept", "reject"} => invitation[q.invitation].target = q.by
ChecksStand == \A h \in Handler : handler[h].at # "idle" =>
    /\ Asked(h) \in Request /\ Checked(Asked(h))
    /\ handler[h].at \in {"read", "reset"} <=> ~Answering(Asked(h))
    /\ handler[h].at = "reset" => Ending(Asked(h))

(* Whoever has an invitation locked is alone with it: it is pending, and   *)
(* the user's membership still to be made if it was when it was read.      *)
LocksStand == \A h \in Handler : handler[h].at = "locked" =>
    LET q == Asked(h)  i == Asked(h).invitation
    IN  /\ Pending(i) /\ ~InvitationLocked(h, i)
        /\ q.op = "accept" => (handler[h].row = None
                                <=> member[invitation[i].household][q.by] = None)

(* One request at a time ends a membership, and what is on the household's *)
(* ledger is what it resets, or late.                                      *)
ResetsStand == \A h \in Handler : handler[h].at = "reset" =>
    LET q == Asked(h)
    IN  /\ \A g \in Handler \ {h} :
              ~(/\ handler[g].at = "reset"
                /\ Asked(g).household = q.household /\ Whose(Asked(g)) = Whose(q))
        /\ \A s \in Slot \ {"credential"} : current[Whose(q)][s] = q.household =>
              s \in handler[h].slots \/ <<Whose(q), s>> \in late
        /\ \A s \in handler[h].slots : current[Whose(q)][s] = q.household

(* With what the properties rest on.                                       *)
IInv == /\ Inv /\ Rooted /\ AliasesDiffer /\ InvitationsRooted
        /\ ChecksStand /\ LocksStand /\ ResetsStand

(* An entrance stays on the ledger of a household that its user has left   *)
(* only if a selection that was accepted before was written after the      *)
(* reset: what is selected when a membership ends is reset with it.        *)
OnlyLateStays == \A hh \in Household, u \in User, s \in Slot \ {"credential"} :
    current[u][s] = hh /\ ~Active(hh, u) => <<u, s>> \in late

(* An invitation is decided once: of an acceptance, a refusal, a           *)
(* cancellation and the sweep of overdue ones the first to commit stands.  *)
DecidedOnce == [][\A i \in Invitation :
    invitation[i] # None /\ ~Pending(i) => invitation'[i] = invitation[i]]_vars

(* Whoever has left or was removed comes back with a new invitation and    *)
(* never by answering an old one again.                                    *)
BackByInvitation == [][\A hh \in Household, u \in User :
    member[hh][u] # None /\ ~Active(hh, u) /\ Active(hh, u)'
        => \E i \in Invitation : /\ Pending(i) /\ invitation[i].household = hh
                                 /\ invitation[i].target = u
                                 /\ invitation'[i].status = "accepted"]_vars

(* There is no invitation for somebody who is a member already.            *)
NoInvitationForMember == \A i \in Invitation :
    Pending(i) => ~Active(invitation[i].household, invitation[i].target)

(* Aliases drive deterministic payer resolution.                           *)
AliasFinds == \A hh \in Founded : \A u \in Members(hh) :
    AliasOf(hh, u) # None => Payers(hh, u, AliasOf(hh, u)) = {u}

(* Accepting an invitation makes the user a member.                        *)
AcceptedIsMember == [][\A i \in Invitation :
    Pending(i) /\ invitation'[i].status = "accepted"
        => Active(invitation[i].household, invitation[i].target)']_vars
=============================================================================
