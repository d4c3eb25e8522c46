-------------------------- MODULE HouseholdProofs --------------------------
(***************************************************************************)
(* Proofs about Household for any users, households, names, texts,         *)
(* invitations, handlers and number of requests: a household has one       *)
(* owner, a member is found by the alias, an invitation is decided once,   *)
(* nobody who left is back without one, and a selection that outlives a    *)
(* membership was written behind its end.                                  *)
(***************************************************************************)
EXTENDS Household, FiniteSetTheorems, TLAPS

USE DEF AliasOf

(* The part of IInv that is inductive as it stands.                        *)
Core == /\ TypeOK /\ Rooted /\ AliasesDiffer /\ InvitationsRooted
        /\ ChecksStand /\ LocksStand

(* What no step undoes: households and their owners, memberships as rows,  *)
(* and whom an invitation invites to what.                                 *)
Lasting ==
    /\ \A hh \in Household : hh \in Founded =>
          home'[hh] # None /\ home'[hh].owner = home[hh].owner
    /\ \A hh \in Household, u \in User : member[hh][u] # None => member'[hh][u] # None
    /\ \A i \in Invitation : invitation[i] # None =>
          /\ invitation'[i] # None
          /\ invitation'[i].household = invitation[i].household
          /\ invitation'[i].target = invitation[i].target

(* What a request of each kind carries.                                    *)
LEMMA RequestShape ==
    ASSUME NEW q \in Request
    PROVE  /\ q.by \in User
           /\ q.op \in {"create", "rename"} => q.name \in Name
           /\ q.op \in {"rename", "invite", "leave", "remove", "alias"} => q.household \in Household
           /\ q.op \in {"invite", "remove", "alias"} => q.target \in User
           /\ q.op = "invite" => q.chat \in BOOLEAN
           /\ Answering(q) => q.invitation \in Invitation
           /\ q.op = "alias" => q.alias \in Text \cup {None}
           /\ q.op = "select" => q.household \in Household \cup {None} /\ q.slot \in Slot
           /\ q.op \in {"create", "rename", "invite", "accept", "reject", "cancel", "leave",
                        "remove", "alias", "select"}
  <1>1. \/ q \in Foundings \/ q \in Renamings \/ q \in Invitations \/ q \in Answers
        \/ q \in Departures \/ q \in Removals \/ q \in Callings \/ q \in Choices
    BY DEF Request, WebHouseholds, ClientHouseholds, WebInvitations, ClientInvitations,
           ChatRequest
  <1> USE DEF Answering
  <1>2. CASE q \in Foundings \/ q \in Renamings
    BY <1>2 DEF Foundings, Renamings
  <1>3. CASE q \in Invitations
    BY <1>3 DEF Invitations
  <1>4. CASE q \in Answers
    BY <1>4 DEF Answers
  <1>5. CASE q \in Departures \/ q \in Removals
    BY <1>5 DEF Departures, Removals
  <1>6. CASE q \in Callings
    BY <1>6 DEF Callings
  <1>7. CASE q \in Choices
    BY <1>7 DEF Choices
  <1> QED
    BY <1>1, <1>2, <1>3, <1>4, <1>5, <1>6, <1>7

(* Idle is no state of a request that works.                               *)
LEMMA IdleIsIdle ==
    Idle.at = "idle" /\ Idle \in HandlerRow
  BY DEF Idle, HandlerRow

(* None is no row.                                                         *)
LEMMA NoneIsNoRow == None \notin HomeRow /\ None \notin MemberRow /\ None \notin InvitationRow
  BY HouseholdAssumption

(* What was checked still stands, ...                                      *)
LEMMA CheckedLasts ==
    ASSUME Lasting, NEW q \in Request, Checked(q)
    PROVE  Checked(q)'
  BY RequestShape DEF Lasting, Checked, Guest, Founded, Answering

(* ... and so do the checks of all handlers after a step that makes none   *)
(* of them work.                                                           *)
LEMMA ChecksKept ==
    ASSUME ChecksStand, Lasting,
           \A g \in Handler : handler'[g] = handler[g] \/ handler'[g] = Idle
    PROVE  ChecksStand'
  <1> SUFFICES ASSUME NEW g \in Handler, handler'[g].at # "idle",
                      NEW q, q = handler'[g].asked
               PROVE  /\ q \in Request /\ Checked(q)'
                      /\ handler'[g].at \in {"read", "reset"} <=> ~Answering(q)
                      /\ handler'[g].at = "reset" => Ending(q)
    BY DEF ChecksStand, Asked, Answering, Ending, Checked, Guest, Founded
  <1>1. handler'[g] = handler[g]
    BY IdleIsIdle
  <1>2. /\ q \in Request /\ Checked(q) /\ (handler[g].at \in {"read", "reset"} <=> ~Answering(q))
        /\ handler[g].at = "reset" => Ending(q)
    BY <1>1 DEF ChecksStand, Asked
  <1> QED
    BY <1>1, <1>2, CheckedLasts

(* Locks stand after a step that takes none and leaves what they protect.  *)
LEMMA LocksKept ==
    ASSUME Core, Lasting,
           \A g \in Handler : handler'[g] = handler[g] \/ handler'[g] = Idle,
           \A g \in Handler, i \in Invitation :
              handler[g].at = "locked" /\ handler[g].asked.invitation = i /\ handler'[g] = handler[g]
                 => /\ invitation'[i].status = "pending"
                    /\ handler[g].asked.op = "accept" =>
                          \A u \in User, hh \in Household :
                             u = handler[g].asked.by /\ hh = invitation[i].household
                               => (member'[hh][u] = None <=> member[hh][u] = None)
    PROVE  LocksStand'
  <1> USE DEF Asked, Pending, InvitationLocked
  <1> SUFFICES ASSUME NEW g \in Handler, handler'[g].at = "locked",
                      NEW i, i = handler'[g].asked.invitation
               PROVE  /\ invitation'[i] # None /\ invitation'[i].status = "pending"
                      /\ \A f \in Handler \ {g} :
                            ~(handler'[f].at = "locked" /\ handler'[f].asked.invitation = i)
                      /\ handler'[g].asked.op = "accept" =>
                            (handler'[g].row = None
                             <=> member'[invitation'[i].household][handler'[g].asked.by] = None)
    BY DEF LocksStand
  <1>1. handler'[g] = handler[g] /\ handler[g].at = "locked"
    BY IdleIsIdle
  <1>2. /\ invitation[i] # None /\ invitation[i].status = "pending"
        /\ \A f \in Handler \ {g} :
              ~(handler[f].at = "locked" /\ handler[f].asked.invitation = i)
        /\ handler[g].asked.op = "accept" =>
              (handler[g].row = None
               <=> member[invitation[i].household][handler[g].asked.by] = None)
    BY <1>1 DEF Core, LocksStand
  <1>3. i \in Invitation /\ handler[g].asked.by \in User
    BY <1>1, RequestShape DEF Core, ChecksStand
  <1>4. invitation[i].household \in Household
    BY <1>2, <1>3 DEF Core, InvitationsRooted, Founded
  <1>5. invitation'[i] # None /\ invitation'[i].household = invitation[i].household
    BY <1>2, <1>3 DEF Lasting
  <1>6. \A f \in Handler \ {g} :
              ~(handler'[f].at = "locked" /\ handler'[f].asked.invitation = i)
    BY <1>2, IdleIsIdle
  <1> QED
    BY <1>1, <1>2, <1>3, <1>4, <1>5, <1>6

(* A step that leaves invitations alone and ends at most its own handler.  *)
LEMMA InvitationsStay ==
    ASSUME Core, TypeOK', Rooted', AliasesDiffer', Lasting, invitation' = invitation,
           \A g \in Handler : handler'[g] = handler[g] \/ handler'[g] = Idle,
           \A hh \in Household, u \in User :
              hh \in Founded /\ member[hh][u] = None => member'[hh][u] = None
    PROVE  Core'
  <1>1. ChecksStand'
    BY ChecksKept DEF Core
  <1>2. LocksStand'
    <2>1. ASSUME NEW g \in Handler, NEW i \in Invitation, handler[g].at = "locked",
                 handler[g].asked.invitation = i
          PROVE  /\ invitation'[i].status = "pending"
                 /\ invitation[i].household \in Founded
      BY <2>1 DEF Core, LocksStand, InvitationsRooted, Asked, Pending
    <2> QED
      BY <2>1, LocksKept DEF Lasting
  <1>3. InvitationsRooted'
    BY DEF Core, InvitationsRooted, Lasting, Pending, Founded
  <1> QED
    BY <1>1, <1>2, <1>3 DEF Core

(* A step that leaves households and members alone, makes no invitation    *)
(* and decides none that somebody else has locked.                         *)
LEMMA MembersStay ==
    ASSUME Core, TypeOK', UNCHANGED <<home, member>>,
           \A g \in Handler : handler'[g] = handler[g] \/ handler'[g] = Idle,
           \A i \in Invitation :
              /\ invitation'[i] = None <=> invitation[i] = None
              /\ invitation[i] # None =>
                    /\ invitation'[i].household = invitation[i].household
                    /\ invitation'[i].target = invitation[i].target
                    /\ invitation'[i].status = "pending" => invitation[i].status = "pending",
           \A g \in Handler, i \in Invitation :
              handler[g].at = "locked" /\ handler[g].asked.invitation = i /\ handler'[g] = handler[g]
                 => invitation'[i].status = "pending"
    PROVE  Core'
  <1>1. Lasting
    BY DEF Lasting, Founded
  <1>2. Rooted' /\ AliasesDiffer'
    BY DEF Core, Rooted, AliasesDiffer, Founded, IsOwner, Active
  <1>3. ChecksStand'
    BY <1>1, ChecksKept DEF Core
  <1>4. LocksStand'
    BY <1>1, LocksKept
  <1>5. InvitationsRooted'
    BY DEF Core, InvitationsRooted, Pending, Founded
  <1> QED
    BY <1>2, <1>3, <1>4, <1>5 DEF Core

(* The handler is done.                                                    *)
LEMMA DoneEnds ==
    ASSUME TypeOK, NEW h \in Handler, Done(h)
    PROVE  /\ handler' \in [Handler -> HandlerRow]
           /\ \A g \in Handler : handler'[g] = handler[g] \/ handler'[g] = Idle
           /\ \A g \in Handler \ {h} : handler'[g] = handler[g]
           /\ handler'[h] = Idle /\ requests' = requests
  BY IdleIsIdle DEF Done, TypeOK

(* The request of a handler that works.                                    *)
LEMMA AtWork ==
    ASSUME Core, NEW h \in Handler, handler[h].at # "idle"
    PROVE  /\ Asked(h) \in Request /\ Checked(Asked(h))
           /\ handler[h].at \in {"read", "reset"} <=> ~Answering(Asked(h))
  BY DEF Core, ChecksStand

-----------------------------------------------------------------------------
(* The tables start empty.                                                 *)
LEMMA InitCore == Init => Core
  <1> SUFFICES ASSUME Init PROVE Core
    OBVIOUS
  <1> USE HouseholdAssumption DEF Init
  <1>1. TypeOK
    BY IdleIsIdle DEF TypeOK
  <1>2. Rooted /\ AliasesDiffer /\ InvitationsRooted
    BY DEF Rooted, AliasesDiffer, InvitationsRooted, Founded, Pending
  <1>3. ChecksStand /\ LocksStand
    BY DEF ChecksStand, LocksStand, Idle
  <1> QED
    BY <1>1, <1>2, <1>3 DEF Core

(* What a request finds on arrival is what it may rely on.                 *)
LEMMA ArriveCore ==
    ASSUME Core, NEW h \in Handler, NEW q \in Request, Arrive(h, q)
    PROVE  Core'
  <1> DEFINE row == IF q.op = "alias" THEN member[q.household][q.target] ELSE None
             at == IF Answering(q) THEN "waiting" ELSE "read"
             new == [at |-> at, asked |-> q, row |-> row, slots |-> {}]
  <1>1. /\ handler' = [handler EXCEPT ![h] = new] /\ handler[h].at = "idle" /\ Accepted(q)
        /\ requests' = requests + 1 /\ UNCHANGED <<home, member, invitation, current, late>>
    BY DEF Arrive
  <1>2. row \in MemberRow \cup {None}
    BY RequestShape DEF Core, TypeOK
  <1>3. new \in HandlerRow
    <2> HIDE DEF row
    <2> QED
      BY <1>2 DEF HandlerRow
  <1>4. new.at = at /\ new.asked = q /\ at \in {"waiting", "read"}
        /\ (at = "read" <=> ~Answering(q))
    OBVIOUS
  <1> HIDE DEF new, row, at
  <1>5. TypeOK'
    BY <1>1, <1>3 DEF Core, TypeOK
  <1>6. Checked(q)
    <2> USE RequestShape, <1>1 DEF Accepted, Checked, Guest, IsOwner, Plain, Active, Answering
    <2>1. CASE q.op \in {"create", "select"}
      BY <2>1
    <2>2. CASE q.op = "rename"
      BY <2>2
    <2>3. CASE q.op = "invite"
      BY <2>3 DEF Invitable
    <2>4. CASE q.op \in {"accept", "reject"}
      BY <2>4
    <2>5. CASE q.op = "cancel"
      BY <2>5
    <2>6. CASE q.op = "leave"
      <3>1. Plain(q.household, q.by)
        BY <2>6
      <3> QED
        BY <2>6, <3>1 DEF Core, Rooted, Founded
    <2>7. CASE q.op \in {"remove", "alias"}
      <3>1. Plain(q.household, q.target)
        BY <2>7
      <3> QED
        BY <2>7, <3>1 DEF Core, Rooted, Founded
    <2> QED
      BY <2>1, <2>2, <2>3, <2>4, <2>5, <2>6, <2>7
  <1>7. \A g \in Handler : handler'[g] = IF g = h THEN new ELSE handler[g]
    BY <1>1 DEF Core, TypeOK
  <1>8. ChecksStand'
    <2> SUFFICES ASSUME NEW g \in Handler, handler'[g].at # "idle",
                        NEW p, p = handler'[g].asked
                 PROVE  /\ p \in Request /\ Checked(p)
                        /\ handler'[g].at \in {"read", "reset"} <=> ~Answering(p)
                        /\ handler'[g].at = "reset" => Ending(p)
      BY <1>1 DEF ChecksStand, Asked, Answering, Ending, Checked, Guest, Founded
    <2>1. CASE g = h
      BY <1>4, <1>6, <1>7, <2>1
    <2>2. CASE g # h
      BY <1>7, <2>2 DEF Core, ChecksStand, Asked
    <2> QED
      BY <2>1, <2>2
  <1>9. LocksStand'
    BY <1>1, <1>4, <1>7, SMTT(60) DEF Core, LocksStand, Asked, Pending, InvitationLocked
  <1>10. Rooted' /\ AliasesDiffer' /\ InvitationsRooted'
    BY <1>1 DEF Core, Rooted, AliasesDiffer, InvitationsRooted, Founded, Pending, IsOwner, Active
  <1> QED
    BY <1>5, <1>8, <1>9, <1>10 DEF Core

-----------------------------------------------------------------------------
(* A new household has its founder as owner.                               *)
LEMMA CreateCore ==
    ASSUME Core, NEW h \in Handler, Create(h)
    PROVE  Core'
  <1> DEFINE q == Asked(h)
  <1>1. q \in Request /\ q.by \in User /\ q.name \in Name
    BY AtWork, RequestShape DEF Create, Works
  <1>2. /\ \A g \in Handler : handler'[g] = handler[g] \/ handler'[g] = Idle
        /\ requests' = requests
    BY DoneEnds DEF Create, Core
  <1>3. invitation' = invitation /\ current' = current /\ late' = late
    BY DEF Create
  <1>4. handler' \in [Handler -> HandlerRow]
    BY DoneEnds DEF Create, Core
  <1>5. CASE UNCHANGED <<home, member>>
    <2>1. TypeOK'
      BY <1>2, <1>3, <1>4, <1>5 DEF Core, TypeOK
    <2>2. Rooted' /\ AliasesDiffer' /\ Lasting
      BY <1>3, <1>5 DEF Core, Rooted, AliasesDiffer, Lasting, Founded, IsOwner, Active
    <2> QED
      BY <1>2, <1>3, <1>5, <2>1, <2>2, InvitationsStay
  <1>6. ASSUME NEW hh \in Household \ Founded,
               home' = [home EXCEPT ![hh] = [owner |-> q.by, name |-> q.name]],
               member' = [member EXCEPT ![hh][q.by] = NewMember("owner")]
        PROVE  Core'
    <2> DEFINE root == [owner |-> q.by, name |-> q.name]  m == NewMember("owner")
    <2>1. /\ root \in HomeRow /\ root.owner = q.by /\ root # None
          /\ m \in MemberRow /\ m.role = "owner" /\ m.status = "active" /\ m.alias = None
          /\ m # None
      <3>1. root \in HomeRow /\ root.owner = q.by
        BY <1>1 DEF HomeRow
      <3>2. m \in MemberRow /\ m.role = "owner" /\ m.status = "active" /\ m.alias = None
        BY DEF NewMember, MemberRow
      <3> QED
        BY <3>1, <3>2, NoneIsNoRow
    <2> HIDE DEF root, m
    <2>2. \A u \in User : member[hh][u] = None
      BY <1>6 DEF Core, Rooted
    <2>3. /\ home' \in [Household -> HomeRow \cup {None}]
          /\ member' \in [Household -> [User -> MemberRow \cup {None}]]
      BY <1>1, <1>6, <2>1 DEF Core, TypeOK, root, m
    <2>4. \A k \in Household : home'[k] = IF k = hh THEN root ELSE home[k]
      BY <1>6 DEF Core, TypeOK, root
    <2>5. \A k \in Household, u \in User :
             member'[k][u] = IF k = hh /\ u = q.by THEN m ELSE member[k][u]
      BY <1>6 DEF Core, TypeOK, m
    <2>6. TypeOK'
      BY <1>2, <1>3, <1>4, <2>3 DEF Core, TypeOK
    <2>7. Lasting
      BY <1>3, <1>6, <2>1, <2>4, <2>5 DEF Lasting, Founded
    <2>8. Rooted'
      <3> SUFFICES /\ \A k \in Household : home'[k] # None =>
                         /\ member'[k][home'[k].owner] # None
                         /\ member'[k][home'[k].owner].status = "active"
                         /\ member'[k][home'[k].owner].role = "owner"
                   /\ \A k \in Household, u \in User : member'[k][u] # None =>
                         /\ home'[k] # None
                         /\ u # home'[k].owner => member'[k][u].role = "member"
        BY DEF Rooted, Founded, IsOwner, Active
      <3>1. \A k \in Household \ {hh} : home'[k] = home[k] /\ member'[k] = member[k]
        BY <1>6 DEF Core, TypeOK
      <3>2. ASSUME NEW k \in Household \ {hh}
            PROVE  /\ home'[k] # None =>
                         /\ member'[k][home'[k].owner] # None
                         /\ member'[k][home'[k].owner].status = "active"
                         /\ member'[k][home'[k].owner].role = "owner"
                   /\ \A u \in User : member'[k][u] # None =>
                         /\ home'[k] # None
                         /\ u # home'[k].owner => member'[k][u].role = "member"
        BY <3>1 DEF Core, Rooted, Founded, IsOwner, Active
      <3>3. /\ home'[hh] = root /\ member'[hh][q.by] = m
            /\ \A u \in User \ {q.by} : member'[hh][u] = None
        BY <1>1, <1>6, <2>2, <2>4, <2>5
      <3> QED
        BY <1>1, <2>1, <3>2, <3>3
    <2>9. AliasesDiffer'
      BY <2>1, <2>2, <2>5 DEF Core, AliasesDiffer
    <2>10. \A k \in Household, u \in User :
              k \in Founded /\ member[k][u] = None => member'[k][u] = None
      BY <1>6, <2>5
    <2> QED
      BY <1>2, <1>3, <2>6, <2>7, <2>8, <2>9, <2>10, InvitationsStay
  <1> QED
    BY <1>5, <1>6 DEF Create

(* The name of a household changes, its owner does not.                    *)
LEMMA RenameCore ==
    ASSUME Core, NEW h \in Handler, Rename(h)
    PROVE  Core'
  <1> DEFINE q == Asked(h)
             new == [home[q.household] EXCEPT !.name = q.name]
  <1>1. q.household \in Founded /\ q.name \in Name
    BY AtWork, RequestShape DEF Rename, Works, Checked
  <1>2. /\ \A g \in Handler : handler'[g] = handler[g] \/ handler'[g] = Idle
        /\ requests' = requests
        /\ handler' \in [Handler -> HandlerRow]
    BY DoneEnds DEF Rename, Core
  <1>3. home[q.household] \in HomeRow
    BY <1>1 DEF Core, TypeOK, Founded
  <1>4. new \in HomeRow /\ new.owner = home[q.household].owner /\ new # None
    <2>1. new \in HomeRow /\ new.owner = home[q.household].owner
      BY <1>1, <1>3 DEF HomeRow
    <2> QED
      BY <2>1, NoneIsNoRow
  <1>5. /\ home' = home \/ home' = [home EXCEPT ![q.household] = new]
        /\ UNCHANGED <<member, invitation, current, late>>
    BY DEF Rename
  <1> HIDE DEF new
  <1>6. /\ home' \in [Household -> HomeRow \cup {None}]
        /\ \A hh \in Household : /\ home'[hh] = None <=> home[hh] = None
                                 /\ home[hh] # None => home'[hh].owner = home[hh].owner
    BY <1>1, <1>4, <1>5 DEF Core, TypeOK, Founded
  <1>7. TypeOK'
    BY <1>2, <1>5, <1>6 DEF Core, TypeOK
  <1>8. Rooted' /\ AliasesDiffer' /\ Lasting
    BY <1>5, <1>6 DEF Core, Rooted, AliasesDiffer, Lasting, Founded, IsOwner, Active
  <1> QED
    BY <1>2, <1>5, <1>7, <1>8, InvitationsStay

(* A row of a member who is not the owner is changed, without its role and *)
(* alias.                                                                  *)
LEMMA GuestChanges ==
    ASSUME Core, NEW hh \in Household, NEW u \in User, Guest(hh, u), NEW new \in MemberRow,
           new.role = "member",
           new.alias # None => \A v \in User \ {u} :
              member[hh][v] # None => member[hh][v].alias # new.alias,
           home' = home, member' = [member EXCEPT ![hh][u] = new]
    PROVE  /\ Rooted' /\ AliasesDiffer'
           /\ member' \in [Household -> [User -> MemberRow \cup {None}]]
           /\ \A k \in Household, v \in User : member'[k][v] = None <=> member[k][v] = None
  <1>1. \A k \in Household, v \in User :
           member'[k][v] = IF k = hh /\ v = u THEN new ELSE member[k][v]
    BY DEF Core, TypeOK
  <1>2. new # None
    BY NoneIsNoRow
  <1>3. member' \in [Household -> [User -> MemberRow \cup {None}]]
    BY DEF Core, TypeOK
  <1>4. Rooted'
    BY <1>1, <1>2 DEF Core, Rooted, Founded, IsOwner, Active, Guest
  <1>5. AliasesDiffer'
    BY <1>1, <1>2 DEF Core, AliasesDiffer
  <1>6. \A k \in Household, v \in User : member'[k][v] = None <=> member[k][v] = None
    BY <1>1, <1>2 DEF Guest
  <1> QED
    BY <1>3, <1>4, <1>5, <1>6

(* Whoever ends a membership has its row, and it is not the owner's.       *)
LEMMA Ends ==
    ASSUME Core, NEW h \in Handler, Leave(h) \/ Remove(h)
    PROVE  \E hh \in Household, u \in User, st \in {"left", "removed"} :
              /\ hh = handler[h].asked.household /\ u = Whose(Asked(h)) /\ Guest(hh, u)
              /\ handler[h].at = "reset" /\ EndMembership(h, st)
  <1> DEFINE q == Asked(h)
  <1>1. q \in Request /\ Checked(q)
    BY AtWork DEF Leave, Remove
  <1>2. CASE Leave(h)
    <2>1. /\ q.household \in Household /\ q.by \in User /\ Guest(q.household, q.by)
          /\ Whose(q) = q.by
      BY <1>1, <1>2, RequestShape DEF Leave, Checked, Whose
    <2> QED
      BY <1>2, <2>1 DEF Leave, Asked
  <1>3. CASE Remove(h)
    <2>1. /\ q.household \in Household /\ q.target \in User /\ Guest(q.household, q.target)
          /\ Whose(q) = q.target
      BY <1>1, <1>3, RequestShape DEF Remove, Checked, Whose
    <2> QED
      BY <1>3, <2>1 DEF Remove, Asked
  <1> QED
    BY <1>2, <1>3

(* A membership ends: the owner's never does.                              *)
LEMMA EndCore ==
    ASSUME Core, NEW h \in Handler, Leave(h) \/ Remove(h)
    PROVE  Core'
  <1>1. PICK hh \in Household, u \in User, st \in {"left", "removed"} :
              /\ hh = handler[h].asked.household /\ u = Whose(Asked(h)) /\ Guest(hh, u)
              /\ handler[h].at = "reset" /\ EndMembership(h, st)
    BY Ends
  <1> DEFINE S == handler[h].slots
             new == [member[hh][u] EXCEPT !.status = st]
             row == [s \in Slot |-> IF s \in S THEN None ELSE current[u][s]]
  <1>2. /\ \A g \in Handler : handler'[g] = handler[g] \/ handler'[g] = Idle
        /\ requests' = requests
        /\ handler' \in [Handler -> HandlerRow]
    BY <1>1, DoneEnds DEF EndMembership, Core
  <1>3. /\ UNCHANGED <<home, invitation>>
        /\ member' = [member EXCEPT ![hh][u].status = st]
        /\ current' = [current EXCEPT ![u] = row]
        /\ late' = late \ ({u} \X S)
    BY <1>1 DEF EndMembership, Asked
  <1>4. member[hh][u] \in MemberRow /\ member[hh][u].role = "member"
    BY <1>1 DEF Core, TypeOK, Guest, Rooted
  <1>5. new \in MemberRow /\ new.role = "member" /\ new.alias = member[hh][u].alias
    BY <1>4 DEF MemberRow
  <1>6. member' = [member EXCEPT ![hh][u] = new]
    BY <1>3 DEF Core, TypeOK
  <1>7. row \in [Slot -> Household \cup {None}]
    BY DEF Core, TypeOK
  <1> HIDE DEF new, row
  <1>8. new.alias # None => \A v \in User \ {u} :
              member[hh][v] # None => member[hh][v].alias # new.alias
    BY <1>1, <1>5 DEF Core, AliasesDiffer, Guest
  <1>9. /\ Rooted' /\ AliasesDiffer'
        /\ member' \in [Household -> [User -> MemberRow \cup {None}]]
        /\ \A k \in Household, v \in User : member'[k][v] = None <=> member[k][v] = None
    <2>1. home' = home
      BY <1>3
    <2> HIDE DEF S
    <2> QED
      BY <1>1, <1>5, <1>6, <1>8, <2>1, GuestChanges
  <1>10. TypeOK'
    <2>1. current' \in [User -> [Slot -> Household \cup {None}]]
      BY <1>3, <1>7 DEF Core, TypeOK
    <2>2. late' \in SUBSET (User \X Slot)
      BY <1>3 DEF Core, TypeOK
    <2> QED
      BY <1>2, <1>3, <1>9, <2>1, <2>2 DEF Core, TypeOK
  <1>11. Lasting
    BY <1>3, <1>9 DEF Lasting, Founded
  <1> QED
    BY <1>2, <1>3, <1>9, <1>10, <1>11, InvitationsStay

(* What is held is no table's.                                             *)
LEMMA ResetCore ==
    ASSUME Core, NEW h \in Handler, Reset(h)
    PROVE  Core'
  <1> DEFINE q == Asked(h)
             S == Selecting(q.household, Whose(q))
             new == [handler[h] EXCEPT !.at = "reset", !.slots = S]
  <1>1. /\ handler[h].at = "read" /\ Ending(q)
        /\ UNCHANGED <<home, member, invitation, current, requests, late>>
    BY DEF Reset
  <1>2. q \in Request /\ Checked(q) /\ ~Answering(q)
    BY <1>1, AtWork
  <1>3. handler' = [handler EXCEPT ![h] = new]
    BY DEF Reset, Core, TypeOK
  <1>4. new \in HandlerRow /\ new.at = "reset" /\ new.asked = q
    <2>1. S \in SUBSET Slot
      BY DEF Selecting
    <2>2. handler[h] \in HandlerRow
      BY DEF Core, TypeOK
    <2> HIDE DEF S
    <2> QED
      BY <2>1, <2>2 DEF HandlerRow, Asked
  <1> HIDE DEF new
  <1>5. TypeOK'
    <2>1. handler' \in [Handler -> HandlerRow]
      BY <1>3, <1>4 DEF Core, TypeOK
    <2> QED
      BY <1>1, <2>1 DEF Core, TypeOK
  <1>6. \A g \in Handler : handler'[g] = IF g = h THEN new ELSE handler[g]
    BY <1>3 DEF Core, TypeOK
  <1>7. ChecksStand'
    <2> SUFFICES ASSUME NEW g \in Handler, handler'[g].at # "idle",
                        NEW p, p = handler'[g].asked
                 PROVE  /\ p \in Request /\ Checked(p)
                        /\ handler'[g].at \in {"read", "reset"} <=> ~Answering(p)
                        /\ handler'[g].at = "reset" => Ending(p)
      BY <1>1 DEF ChecksStand, Asked, Answering, Ending, Checked, Guest, Founded
    <2>1. CASE g = h
      BY <1>1, <1>2, <1>4, <1>6, <2>1
    <2>2. CASE g # h
      BY <1>6, <2>2 DEF Core, ChecksStand, Asked
    <2> QED
      BY <2>1, <2>2
  <1>8. LocksStand'
    BY <1>1, <1>4, <1>6, SMTT(60) DEF Core, LocksStand, Asked, Pending, InvitationLocked
  <1>9. Rooted' /\ AliasesDiffer' /\ InvitationsRooted'
    BY <1>1 DEF Core, Rooted, AliasesDiffer, InvitationsRooted, Founded, Pending, IsOwner, Active
  <1> QED
    BY <1>5, <1>7, <1>8, <1>9 DEF Core

(* An alias is given only if no other membership, also of those who left,  *)
(* has it.                                                                 *)
LEMMA AliasCore ==
    ASSUME Core, NEW h \in Handler, SetAlias(h)
    PROVE  Core'
  <1> DEFINE q == Asked(h)
             hh == q.household
             u == q.target
             new == [member[hh][u] EXCEPT !.alias = q.alias]
  <1>1. hh \in Household /\ u \in User /\ Guest(hh, u) /\ q.alias \in Text \cup {None}
    BY AtWork, RequestShape DEF SetAlias, Works, Checked
  <1>2. /\ \A g \in Handler : handler'[g] = handler[g] \/ handler'[g] = Idle
        /\ requests' = requests
        /\ handler' \in [Handler -> HandlerRow]
    BY DoneEnds DEF SetAlias, Core
  <1>3. /\ UNCHANGED <<home, invitation, current, late>>
        /\ \/ member' = member
           \/ /\ member' = [member EXCEPT ![hh][u].alias = q.alias]
              /\ q.alias = None \/ AliasFree(hh, u, q.alias)
    BY DEF SetAlias
  <1>4. member[hh][u] \in MemberRow /\ member[hh][u].role = "member"
    BY <1>1 DEF Core, TypeOK, Guest, Rooted
  <1>5. new \in MemberRow /\ new.role = "member" /\ new.alias = q.alias
    BY <1>1, <1>4 DEF MemberRow
  <1>6. /\ Rooted' /\ AliasesDiffer'
        /\ member' \in [Household -> [User -> MemberRow \cup {None}]]
        /\ \A k \in Household, v \in User : member'[k][v] = None <=> member[k][v] = None
    <2>1. CASE member' = member
      BY <1>3, <2>1 DEF Core, TypeOK, Rooted, AliasesDiffer, Founded, IsOwner, Active
    <2>2. CASE /\ member' = [member EXCEPT ![hh][u].alias = q.alias]
               /\ q.alias = None \/ AliasFree(hh, u, q.alias)
      <3>1. member' = [member EXCEPT ![hh][u] = new]
        BY <1>1, <2>2 DEF Core, TypeOK
      <3>2. new.alias # None => \A v \in User \ {u} :
                member[hh][v] # None => member[hh][v].alias # new.alias
        BY <1>5, <2>2 DEF AliasFree
      <3> QED
        BY <1>1, <1>3, <1>5, <3>1, <3>2, GuestChanges
    <2> QED
      BY <1>3, <2>1, <2>2
  <1>7. TypeOK'
    BY <1>2, <1>3, <1>6 DEF Core, TypeOK
  <1>8. Lasting
    BY <1>3, <1>6 DEF Lasting, Founded
  <1> QED
    BY <1>2, <1>3, <1>6, <1>7, <1>8, InvitationsStay

-----------------------------------------------------------------------------
(* The sweep decides overdue invitations and no others.                    *)
LEMMA SweptRows ==
    ASSUME Core
    PROVE  /\ Swept \in [Invitation -> InvitationRow \cup {None}]
           /\ \A i \in Invitation :
                 /\ Swept[i] = None <=> invitation[i] = None
                 /\ i \notin Overdue => Swept[i] = invitation[i]
                 /\ i \in Overdue => Swept[i].status = "expired"
                 /\ invitation[i] # None =>
                       /\ Swept[i].household = invitation[i].household
                       /\ Swept[i].target = invitation[i].target
                       /\ Swept[i].status = "pending" => invitation[i].status = "pending"
  <1> SUFFICES ASSUME NEW i \in Invitation
               PROVE  /\ Swept[i] \in InvitationRow \cup {None}
                      /\ Swept[i] = None <=> invitation[i] = None
                      /\ i \notin Overdue => Swept[i] = invitation[i]
                      /\ i \in Overdue => Swept[i].status = "expired"
                      /\ invitation[i] # None =>
                            /\ Swept[i].household = invitation[i].household
                            /\ Swept[i].target = invitation[i].target
                            /\ Swept[i].status = "pending" => invitation[i].status = "pending"
    BY DEF Swept
  <1>1. invitation[i] \in InvitationRow \cup {None}
    BY DEF Core, TypeOK
  <1>2. CASE i \notin Overdue
    BY <1>1, <1>2 DEF Swept
  <1>3. CASE i \in Overdue
    <2> DEFINE new == [invitation[i] EXCEPT !.status = "expired"]
    <2>1. Swept[i] = new
      BY <1>3 DEF Swept
    <2>2. invitation[i] # None
      BY <1>3 DEF Overdue, Pending
    <2>3. invitation[i] \in InvitationRow
      BY <1>1, <2>2
    <2>4. /\ new \in InvitationRow /\ new.household = invitation[i].household
          /\ new.target = invitation[i].target /\ new.status = "expired"
      BY <2>3 DEF InvitationRow
    <2>5. new # None
      BY <2>4, NoneIsNoRow
    <2> HIDE DEF new
    <2> QED
      BY <1>3, <2>1, <2>2, <2>4, <2>5
  <1> QED
    BY <1>2, <1>3

(* Whoever has an invitation locked keeps it out of a sweep.               *)
LEMMA LockedIsNotSwept ==
    ASSUME Core, NEW g \in Handler, NEW i \in Invitation, i \notin Overdue,
           handler[g].at = "locked", handler[g].asked.invitation = i
    PROVE  Swept[i].status = "pending"
  BY SweptRows DEF Core, LocksStand, Asked, Pending

(* A new invitation is to nobody who has one, and not to the owner.        *)
LEMMA InviteCore ==
    ASSUME Core, NEW h \in Handler, Invite(h)
    PROVE  Core'
  <1> DEFINE q == Asked(h)
             taken == \E i \in Invitation \ Overdue : /\ Pending(i)
                                                      /\ invitation[i].household = q.household
                                                      /\ invitation[i].target = q.target
             new == [household |-> q.household, target |-> q.target,
                     due |-> FALSE, status |-> "pending"]
  <1>1. /\ q.household \in Founded /\ q.target \in User
        /\ q.target # home[q.household].owner /\ q.household \in Household
    BY AtWork, RequestShape DEF Invite, Works, Checked
  <1>2. /\ \A g \in Handler : handler'[g] = handler[g] \/ handler'[g] = Idle
        /\ requests' = requests /\ handler'[h] = Idle /\ handler[h].at = "read"
        /\ handler' \in [Handler -> HandlerRow]
    BY DoneEnds DEF Invite, Works, Core
  <1>3. UNCHANGED <<home, member, current, late>>
    BY DEF Invite
  <1>4. \A g \in Handler, i \in Invitation :
           handler[g].at = "locked" /\ handler[g].asked.invitation = i /\ handler'[g] = handler[g]
              => i \notin Overdue /\ invitation[i] # None /\ invitation[i].status = "pending"
    <2> SUFFICES ASSUME NEW g \in Handler, NEW i \in Invitation, handler[g].at = "locked",
                        handler[g].asked.invitation = i
                 PROVE  i \notin Overdue /\ invitation[i] # None /\ invitation[i].status = "pending"
      OBVIOUS
    <2>1. g # h
      BY <1>2
    <2>2. i \notin Overdue
      BY <2>1 DEF Invite, InvitationLocked, Asked
    <2> QED
      BY <2>2 DEF Core, LocksStand, Asked, Pending
  <1>5. \/ invitation' = invitation
        \/ invitation' = Swept
        \/ ~taken /\ \E i \in Invitation : invitation[i] = None
                                          /\ invitation' = [Swept EXCEPT ![i] = new]
    BY DEF Invite
  <1>6. CASE invitation' = invitation
    <2>1. TypeOK'
      BY <1>2, <1>3, <1>6 DEF Core, TypeOK
    <2> QED
      BY <1>2, <1>3, <1>4, <1>6, <2>1, MembersStay
  <1>7. CASE invitation' = Swept
    <2>1. TypeOK'
      BY <1>2, <1>3, <1>7, SweptRows DEF Core, TypeOK
    <2>2. \A g \in Handler, i \in Invitation :
             handler[g].at = "locked" /\ handler[g].asked.invitation = i /\ handler'[g] = handler[g]
                => invitation'[i].status = "pending"
      BY <1>4, <1>7, LockedIsNotSwept
    <2> QED
      BY <1>2, <1>3, <1>7, <2>1, <2>2, SweptRows, MembersStay
  <1>8. ASSUME ~taken, NEW i \in Invitation, invitation[i] = None,
               invitation' = [Swept EXCEPT ![i] = new]
        PROVE  Core'
    <2>1. new \in InvitationRow /\ new.household = q.household /\ new.target = q.target
      BY <1>1 DEF InvitationRow
    <2>2. new # None
      BY <2>1, NoneIsNoRow
    <2> HIDE DEF new
    <2>3. \A j \in Invitation : invitation'[j] = IF j = i THEN new ELSE Swept[j]
      BY <1>8, SweptRows
    <2>4. TypeOK'
      <3>1. invitation' \in [Invitation -> InvitationRow \cup {None}]
        BY <1>8, <2>1, SweptRows
      <3> QED
        BY <1>2, <1>3, <3>1 DEF Core, TypeOK
    <2>5. \A j \in Invitation : invitation[j] # None =>
             /\ invitation'[j] = Swept[j] /\ invitation'[j] # None
             /\ invitation'[j].household = invitation[j].household
             /\ invitation'[j].target = invitation[j].target
      BY <1>8, <2>3, SweptRows
    <2>6. Lasting
      BY <1>3, <2>5 DEF Lasting, Founded
    <2>7. Rooted' /\ AliasesDiffer'
      BY <1>3 DEF Core, Rooted, AliasesDiffer, Founded, IsOwner, Active
    <2>8. ChecksStand'
      BY <1>2, <2>6, ChecksKept DEF Core
    <2>9. LocksStand'
      BY <1>2, <1>3, <1>4, <2>5, <2>6, LockedIsNotSwept, LocksKept
    <2>10. InvitationsRooted'
      <3>1. \A j \in Invitation : invitation'[j] # None =>
               /\ invitation'[j].household \in Founded
               /\ invitation'[j].target # home[invitation'[j].household].owner
        BY <1>1, <2>1, <2>3, SweptRows DEF Core, InvitationsRooted
      <3>2. ASSUME NEW j \in Invitation, j # i, invitation'[j] # None,
                   invitation'[j].status = "pending"
            PROVE  /\ j \notin Overdue /\ Pending(j) /\ invitation'[j] = invitation[j]
                   /\ ~(invitation'[j].household = q.household /\ invitation'[j].target = q.target)
        <4>1. j \notin Overdue
          BY <2>3, <3>2, SweptRows
        <4>2. Pending(j) /\ invitation'[j] = invitation[j]
          BY <2>3, <3>2, <4>1, SweptRows DEF Pending
        <4> QED
          BY <1>8, <4>1, <4>2
      <3>3. \A j, k \in Invitation :
               /\ invitation'[j] # None /\ invitation'[j].status = "pending"
               /\ invitation'[k] # None /\ invitation'[k].status = "pending"
               /\ invitation'[j].household = invitation'[k].household
               /\ invitation'[j].target = invitation'[k].target
               => j = k
        <4> HIDE DEF taken, q
        <4> QED
          BY <2>1, <2>3, <3>2 DEF Core, InvitationsRooted
      <3> QED
        BY <1>3, <3>1, <3>3 DEF InvitationsRooted, Founded, Pending
    <2> QED
      BY <2>4, <2>7, <2>8, <2>9, <2>10 DEF Core
  <1> QED
    BY <1>5, <1>6, <1>7, <1>8

(* Listing decides only overdue invitations that nobody has locked.        *)
LEMMA ListCore ==
    ASSUME Core, List
    PROVE  Core'
  <1>1. /\ invitation' = Swept /\ UNCHANGED <<home, member, current, handler, requests, late>>
        /\ \A i \in Overdue : ~InvitationLocked(None, i)
    BY DEF List
  <1>2. TypeOK'
    BY <1>1, SweptRows DEF Core, TypeOK
  <1>3. \A g \in Handler, i \in Invitation :
           handler[g].at = "locked" /\ handler[g].asked.invitation = i
              => invitation'[i].status = "pending"
    <2> SUFFICES ASSUME NEW g \in Handler, NEW i \in Invitation, handler[g].at = "locked",
                        handler[g].asked.invitation = i
                 PROVE  invitation'[i].status = "pending"
      OBVIOUS
    <2>1. CASE i \notin Overdue
      BY <1>1, <2>1, LockedIsNotSwept
    <2>2. CASE i \in Overdue
      BY <1>1, <2>2, HouseholdAssumption DEF InvitationLocked, Asked
    <2> QED
      BY <2>1, <2>2
  <1> QED
    BY <1>1, <1>2, <1>3, SweptRows, MembersStay

(* One invitation is decided or falls due, by nobody else's lock.          *)
LEMMA OneInvitation ==
    ASSUME Core, NEW i \in Invitation, invitation[i] # None, Pending(i),
           NEW new \in InvitationRow,
           new.household = invitation[i].household, new.target = invitation[i].target,
           invitation' = [invitation EXCEPT ![i] = new]
    PROVE  /\ invitation' \in [Invitation -> InvitationRow \cup {None}]
           /\ \A j \in Invitation :
                 /\ invitation'[j] = None <=> invitation[j] = None
                 /\ invitation[j] # None =>
                       /\ invitation'[j].household = invitation[j].household
                       /\ invitation'[j].target = invitation[j].target
                       /\ invitation'[j].status = "pending" => invitation[j].status = "pending"
           /\ \A j \in Invitation \ {i} : invitation'[j] = invitation[j]
           /\ invitation'[i] = new
  <1>1. /\ invitation' \in [Invitation -> InvitationRow \cup {None}]
        /\ \A j \in Invitation : invitation'[j] = IF j = i THEN new ELSE invitation[j]
    BY DEF Core, TypeOK
  <1>2. new # None
    BY NoneIsNoRow
  <1> QED
    BY <1>1, <1>2 DEF Pending

(* An invitation is locked by whoever answers it, if it can be answered.   *)
LEMMA LockCore ==
    ASSUME Core, NEW h \in Handler, LockInvitation(h)
    PROVE  Core'
  <1> DEFINE q == Asked(h)
             i == q.invitation
             row == member[invitation[i].household][q.by]
             new == [handler[h] EXCEPT !.at = "locked", !.row = row]
             off == [invitation[i] EXCEPT !.status = "expired"]
  <1>1. /\ q \in Request /\ Checked(q) /\ Answering(q)
        /\ i \in Invitation /\ q.by \in User /\ invitation[i] # None
    BY AtWork, RequestShape DEF LockInvitation, Checked
  <1>2. /\ handler[h].at = "waiting" /\ ~InvitationLocked(h, i)
        /\ UNCHANGED <<home, member, current, late>>
    BY DEF LockInvitation
  <1>3. CASE Answerable(q) /\ UNCHANGED <<invitation, requests>>
             /\ handler' = [handler EXCEPT ![h].at = "locked", ![h].row = row]
    <2>1. row \in MemberRow \cup {None}
      BY <1>1 DEF Core, TypeOK, InvitationsRooted, Founded
    <2>2. handler' = [handler EXCEPT ![h] = new]
      BY <1>3 DEF Core, TypeOK
    <2>3. /\ new.at = "locked" /\ new.row = row /\ new.asked = q
          /\ new \in HandlerRow
      <3>1. handler[h] \in HandlerRow
        BY DEF Core, TypeOK
      <3> HIDE DEF row
      <3> QED
        BY <2>1, <3>1 DEF Asked, HandlerRow
    <2> HIDE DEF new
    <2>4. \A g \in Handler : handler'[g] = IF g = h THEN new ELSE handler[g]
      BY <2>2 DEF Core, TypeOK
    <2>5. TypeOK'
      <3>1. handler' \in [Handler -> HandlerRow]
        BY <2>2, <2>3 DEF Core, TypeOK
      <3> QED
        BY <1>2, <1>3, <3>1 DEF Core, TypeOK
    <2>6. Rooted' /\ AliasesDiffer' /\ InvitationsRooted'
      BY <1>2, <1>3
         DEF Core, Rooted, AliasesDiffer, InvitationsRooted, Founded, Pending, IsOwner, Active
    <2>7. ChecksStand'
      <3> SUFFICES ASSUME NEW g \in Handler, handler'[g].at # "idle",
                          NEW p, p = handler'[g].asked
                   PROVE  /\ p \in Request /\ Checked(p)
                          /\ handler'[g].at \in {"read", "reset"} <=> ~Answering(p)
                          /\ handler'[g].at = "reset" => Ending(p)
        <4>1. UNCHANGED <<home, member, invitation>>
          BY <1>2, <1>3
        <4> QED
          BY <4>1, ZenonT(60) DEF ChecksStand, Asked, Answering, Ending, Checked, Guest, Founded
      <3>1. CASE g = h
        BY <1>1, <2>3, <2>4, <3>1
      <3>2. CASE g # h
        BY <2>4, <3>2 DEF Core, ChecksStand, Asked
      <3> QED
        BY <3>1, <3>2
    <2>8. LocksStand'
      <3>0. SUFFICES
               \A g \in Handler : handler'[g].at = "locked" =>
                  \E p, j :
                     /\ p = handler'[g].asked /\ j = p.invitation
                     /\ Pending(j)
                     /\ \A f \in Handler \ {g} :
                           ~(handler'[f].at = "locked" /\ handler'[f].asked.invitation = j)
                     /\ p.op = "accept" =>
                           (handler'[g].row = None
                            <=> member[invitation[j].household][p.by] = None)
        <4>1. invitation' = invitation /\ member' = member
          BY <1>2, <1>3
        <4> QED
          BY <4>1 DEF LocksStand, Asked, Pending, InvitationLocked
      <3> SUFFICES ASSUME NEW g \in Handler, handler'[g].at = "locked",
                          NEW p, p = handler'[g].asked, NEW j, j = p.invitation
                   PROVE  /\ Pending(j)
                          /\ \A f \in Handler \ {g} :
                                ~(handler'[f].at = "locked" /\ handler'[f].asked.invitation = j)
                          /\ p.op = "accept" =>
                                (handler'[g].row = None
                                 <=> member[invitation[j].household][p.by] = None)
        BY <3>0
      <3>1. CASE g = h
        <4>1. p = q /\ j = i /\ handler'[g].row = row
          BY <2>3, <2>4, <3>1
        <4>2. Pending(j)
          BY <1>3, <4>1 DEF Answerable
        <4>3. \A f \in Handler \ {g} :
                 ~(handler'[f].at = "locked" /\ handler'[f].asked.invitation = j)
          BY <1>2, <2>4, <3>1, <4>1 DEF InvitationLocked, Asked
        <4> QED
          BY <4>1, <4>2, <4>3
      <3>2. CASE g # h
        <4>1. handler'[g] = handler[g]
          BY <2>4, <3>2
        <4>2. /\ Pending(j)
              /\ \A f \in Handler \ {g} :
                    ~(handler[f].at = "locked" /\ handler[f].asked.invitation = j)
              /\ p.op = "accept" => (handler[g].row = None
                                     <=> member[invitation[j].household][p.by] = None)
          BY <4>1 DEF Core, LocksStand, Asked, InvitationLocked
        <4>3. ~(handler'[h].at = "locked" /\ handler'[h].asked.invitation = j)
          <5>1. handler'[h].asked.invitation = i
            BY <2>3, <2>4
          <5>2. i # j
            BY <1>2, <3>2, <4>1 DEF InvitationLocked, Asked
          <5> QED
            BY <5>1, <5>2
        <4> QED
          BY <2>4, <4>1, <4>2, <4>3
      <3> QED
        BY <3>1, <3>2
    <2> QED
      BY <2>5, <2>6, <2>7, <2>8 DEF Core
  <1>4. CASE /\ invitation' = IF q.op = "accept" /\ q.chat /\ i \in Overdue
                              THEN [invitation EXCEPT ![i].status = "expired"] ELSE invitation
             /\ Done(h)
    <2>1. /\ \A g \in Handler : handler'[g] = handler[g] \/ handler'[g] = Idle
          /\ requests' = requests /\ handler'[h] = Idle
          /\ handler' \in [Handler -> HandlerRow]
      BY <1>4, DoneEnds DEF Core
    <2>2. \A g \in Handler, j \in Invitation :
             handler[g].at = "locked" /\ handler[g].asked.invitation = j
                => j # i /\ invitation[j].status = "pending"
      BY <1>2 DEF Core, LocksStand, Asked, Pending, InvitationLocked
    <2>3. CASE invitation' = invitation
      <3>1. TypeOK'
        BY <1>2, <2>1, <2>3 DEF Core, TypeOK
      <3> QED
        BY <1>2, <2>1, <2>2, <2>3, <3>1, MembersStay
    <2>4. CASE i \in Overdue /\ invitation' = [invitation EXCEPT ![i].status = "expired"]
      <3>1. Pending(i)
        BY <2>4 DEF Overdue
      <3>2. invitation[i] \in InvitationRow
        BY <1>1 DEF Core, TypeOK
      <3>3. /\ off \in InvitationRow /\ off.household = invitation[i].household
            /\ off.target = invitation[i].target
        BY <3>2 DEF InvitationRow
      <3>4. invitation' = [invitation EXCEPT ![i] = off]
        BY <1>1, <2>4 DEF Core, TypeOK
      <3> HIDE DEF off
      <3>6. /\ invitation' \in [Invitation -> InvitationRow \cup {None}]
            /\ \A k \in Invitation :
                  /\ invitation'[k] = None <=> invitation[k] = None
                  /\ invitation[k] # None =>
                        /\ invitation'[k].household = invitation[k].household
                        /\ invitation'[k].target = invitation[k].target
                        /\ invitation'[k].status = "pending" => invitation[k].status = "pending"
            /\ \A k \in Invitation \ {i} : invitation'[k] = invitation[k]
        BY <1>1, <3>1, <3>3, <3>4, OneInvitation
      <3>7. TypeOK'
        BY <1>2, <2>1, <3>6 DEF Core, TypeOK
      <3> QED
        BY <1>2, <2>1, <2>2, <3>6, <3>7, MembersStay
    <2> QED
      BY <1>4, <2>3, <2>4
  <1> QED
    BY <1>2, <1>3, <1>4 DEF LockInvitation

(* Whoever has an invitation locked answers it alone, and it is pending.   *)
LEMMA Holder ==
    ASSUME Core, NEW h \in Handler, handler[h].at = "locked",
           NEW i, i = handler[h].asked.invitation
    PROVE  /\ i \in Invitation /\ Pending(i) /\ invitation[i] \in InvitationRow
           /\ Asked(h) \in Request /\ Checked(Asked(h)) /\ Asked(h).by \in User
           /\ \A g \in Handler, j \in Invitation :
                 g # h /\ handler[g].at = "locked" /\ handler[g].asked.invitation = j
                    => j # i /\ invitation[j].status = "pending"
  <1>1. Asked(h) \in Request /\ Checked(Asked(h)) /\ Answering(Asked(h))
    BY AtWork
  <1>2. i \in Invitation /\ Asked(h).by \in User
    BY <1>1, RequestShape DEF Asked
  <1>3. Pending(i) /\ ~InvitationLocked(h, i)
    BY DEF Core, LocksStand, Asked
  <1>4. invitation[i] \in InvitationRow
    BY <1>2, <1>3 DEF Core, TypeOK, Pending
  <1> QED
    BY <1>1, <1>2, <1>3, <1>4 DEF Core, LocksStand, InvitationLocked, Asked, Pending

(* A refusal or a cancellation ends the lock with the invitation.          *)
LEMMA DeclineCore ==
    ASSUME Core, NEW h \in Handler, Decline(h)
    PROVE  Core'
  <1> DEFINE i == handler[h].asked.invitation
             status == IF Asked(h).op = "reject" THEN "rejected" ELSE "cancelled"
             off == [invitation[i] EXCEPT !.status = status]
  <1>1. /\ i \in Invitation /\ Pending(i) /\ invitation[i] \in InvitationRow
        /\ \A g \in Handler, j \in Invitation :
              g # h /\ handler[g].at = "locked" /\ handler[g].asked.invitation = j
                 => j # i /\ invitation[j].status = "pending"
    BY Holder DEF Decline
  <1>2. /\ \A g \in Handler : handler'[g] = handler[g] \/ handler'[g] = Idle
        /\ requests' = requests /\ handler'[h] = Idle /\ handler[h].at = "locked"
        /\ handler' \in [Handler -> HandlerRow]
    BY DoneEnds DEF Decline, Core
  <1>3. UNCHANGED <<home, member, current, late>>
    BY DEF Decline
  <1>4. off \in InvitationRow /\ off.household = invitation[i].household
        /\ off.target = invitation[i].target
    BY <1>1 DEF InvitationRow
  <1>5. invitation' = [invitation EXCEPT ![i] = off]
    BY <1>1 DEF Decline, Core, TypeOK, Asked
  <1> HIDE DEF off, i
  <1>6. PICK j \in Invitation, new \in InvitationRow : j = i /\ new = off
    BY <1>1, <1>4
  <1>7. /\ invitation' \in [Invitation -> InvitationRow \cup {None}]
        /\ \A k \in Invitation :
              /\ invitation'[k] = None <=> invitation[k] = None
              /\ invitation[k] # None =>
                    /\ invitation'[k].household = invitation[k].household
                    /\ invitation'[k].target = invitation[k].target
                    /\ invitation'[k].status = "pending" => invitation[k].status = "pending"
        /\ \A k \in Invitation \ {i} : invitation'[k] = invitation[k]
    BY <1>1, <1>4, <1>5, <1>6, OneInvitation DEF Pending
  <1>8. TypeOK'
    BY <1>2, <1>3, <1>7 DEF Core, TypeOK
  <1>9. \A g \in Handler, k \in Invitation :
           handler[g].at = "locked" /\ handler[g].asked.invitation = k /\ handler'[g] = handler[g]
              => invitation'[k].status = "pending"
    BY <1>1, <1>2, <1>7, IdleIsIdle
  <1> QED
    BY <1>2, <1>3, <1>7, <1>8, <1>9, MembersStay

(* An invitation that falls due is as pending as before.                   *)
LEMMA FallDueCore ==
    ASSUME Core, NEW i \in Invitation, FallDue(i)
    PROVE  Core'
  <1> DEFINE over == [invitation[i] EXCEPT !.due = TRUE]
  <1>1. Pending(i) /\ UNCHANGED <<home, member, current, handler, requests, late>>
    BY DEF FallDue
  <1>2. invitation[i] \in InvitationRow
    BY <1>1 DEF Core, TypeOK, Pending
  <1>3. over \in InvitationRow /\ over.household = invitation[i].household
        /\ over.target = invitation[i].target /\ over.status = invitation[i].status
    BY <1>2 DEF InvitationRow
  <1>4. invitation' = [invitation EXCEPT ![i] = over]
    BY DEF FallDue, Core, TypeOK
  <1> HIDE DEF over
  <1>5. PICK new \in InvitationRow : new = over
    BY <1>3
  <1>6. /\ invitation' \in [Invitation -> InvitationRow \cup {None}]
        /\ \A k \in Invitation :
              /\ invitation'[k] = None <=> invitation[k] = None
              /\ invitation[k] # None =>
                    /\ invitation'[k].household = invitation[k].household
                    /\ invitation'[k].target = invitation[k].target
                    /\ invitation'[k].status = "pending" => invitation[k].status = "pending"
        /\ \A k \in Invitation \ {i} : invitation'[k] = invitation[k]
        /\ invitation'[i] = new
    BY <1>1, <1>3, <1>4, <1>5, OneInvitation DEF Pending
  <1>7. TypeOK'
    BY <1>1, <1>6 DEF Core, TypeOK
  <1>8. \A g \in Handler, k \in Invitation :
           handler[g].at = "locked" /\ handler[g].asked.invitation = k
              => invitation'[k].status = "pending"
    <2>1. \A k \in Invitation : Pending(k) => invitation'[k].status = "pending"
      BY <1>3, <1>5, <1>6 DEF Pending
    <2> QED
      BY <2>1, Holder
  <1> QED
    BY <1>1, <1>6, <1>7, <1>8, MembersStay

(* Selections are in no check.                                             *)
LEMMA SelectCore ==
    ASSUME Core, NEW h \in Handler, Select(h)
    PROVE  Core'
  <1>1. Asked(h) \in Request /\ Asked(h).op = "select"
    BY AtWork DEF Select, Works
  <1>2. /\ Asked(h).by \in User /\ Asked(h).slot \in Slot
        /\ Asked(h).household \in Household \cup {None}
    BY <1>1, RequestShape
  <1>3. /\ \A g \in Handler : handler'[g] = handler[g] \/ handler'[g] = Idle
        /\ requests' = requests
        /\ handler' \in [Handler -> HandlerRow]
    BY DoneEnds DEF Select, Core
  <1>4. UNCHANGED <<home, member, invitation>>
    BY DEF Select
  <1>5. TypeOK'
    <2>1. current' \in [User -> [Slot -> Household \cup {None}]]
      BY <1>2 DEF Select, Core, TypeOK
    <2>2. late' \in SUBSET (User \X Slot)
      <3>1. \/ late' = late \cup {<<Asked(h).by, Asked(h).slot>>}
            \/ late' = late \ {<<Asked(h).by, Asked(h).slot>>}
        BY DEF Select
      <3> QED
        BY <1>2, <3>1 DEF Core, TypeOK
    <2> QED
      BY <1>3, <1>4, <2>1, <2>2 DEF Core, TypeOK
  <1>6. Rooted' /\ AliasesDiffer' /\ Lasting
    BY <1>4 DEF Core, Rooted, AliasesDiffer, Lasting, Founded, IsOwner, Active
  <1> QED
    BY <1>3, <1>4, <1>5, <1>6, InvitationsStay

(* Nor is the return to the default ledger.                                *)
LEMMA ResolveCore ==
    ASSUME Core, NEW u \in User, NEW s \in Slot, Resolve(u, s)
    PROVE  Core'
  <1>1. /\ UNCHANGED <<home, member, invitation, handler, requests>>
        /\ current' = [current EXCEPT ![u][s] = None] /\ late' = late \ {<<u, s>>}
    BY DEF Resolve
  <1>2. TypeOK'
    BY <1>1 DEF Core, TypeOK
  <1>3. Rooted' /\ AliasesDiffer' /\ Lasting
    BY <1>1 DEF Core, Rooted, AliasesDiffer, Lasting, Founded, IsOwner, Active
  <1> QED
    BY <1>1, <1>2, <1>3, InvitationsStay

(* Accepting makes the row of the invited user an active or an ended       *)
(* membership of a plain member, who keeps the alias.                      *)
LEMMA Accepts ==
    ASSUME Core, NEW h \in Handler, Accept(h)
    PROVE  \E i \in Invitation, hh \in Founded, u \in User, new \in MemberRow :
              /\ i = handler[h].asked.invitation /\ u = handler[h].asked.by /\ Pending(i)
              /\ hh = invitation[i].household /\ u = invitation[i].target
              /\ u # home[hh].owner
              /\ new.role = "member"
              /\ member[hh][u] = None => new.alias = None
              /\ member[hh][u] # None => new.alias = member[hh][u].alias
              /\ \/ new.status = "active"
                 \/ member[hh][u] # None /\ new.status = member[hh][u].status
              /\ member' = [member EXCEPT ![hh][u] = new]
              /\ invitation' = [invitation EXCEPT ![i].status = "accepted"]
  <1> DEFINE q == Asked(h)
             i == handler[h].asked.invitation
             u == handler[h].asked.by
             hh == invitation[i].household
             old == handler[h].row
             now == member[hh][u]
             new == Joined(old, now)
  <1>1. /\ handler[h].at = "locked" /\ q.op = "accept"
        /\ member' = [member EXCEPT ![hh][u] = new]
        /\ invitation' = [invitation EXCEPT ![i].status = "accepted"]
    <2>1. member' = [member EXCEPT ![hh][u] = Joined(old, @)]
      BY DEF Accept, Asked
    <2>2. member' = [member EXCEPT ![hh][u] = Joined(old, now)]
      BY <2>1
    <2> QED
      BY <2>2 DEF Accept, Asked
  <1>2. i \in Invitation /\ Pending(i) /\ u \in User /\ u = invitation[i].target
    <2>1. i \in Invitation /\ Pending(i) /\ Checked(q) /\ q.by \in User
      BY <1>1, Holder
    <2> QED
      BY <1>1, <2>1 DEF Checked, Asked
  <1>3. hh \in Founded /\ u # home[hh].owner
    BY <1>2 DEF Core, InvitationsRooted, Pending
  <1>4. old = None <=> now = None
    BY <1>1 DEF Core, LocksStand, Asked
  <1>5. /\ old \in MemberRow \cup {None} /\ now \in MemberRow \cup {None}
        /\ now # None => now.role = "member"
    <2>1. hh \in Household
      BY <1>3 DEF Founded
    <2>2. now \in MemberRow \cup {None}
      BY <1>2, <2>1 DEF Core, TypeOK
    <2>3. old \in MemberRow \cup {None}
      BY DEF Core, TypeOK, HandlerRow
    <2>4. now # None => now.role = "member"
      BY <1>2, <1>3, <2>1 DEF Core, Rooted
    <2> QED
      BY <2>2, <2>3, <2>4
  <1>6. /\ new \in MemberRow /\ new.role = "member"
        /\ now = None => new.alias = None
        /\ now # None => new.alias = now.alias
        /\ \/ new.status = "active"
           \/ now # None /\ new.status = now.status
    <2>1. CASE old = None
      BY <1>4, <2>1 DEF Joined, NewMember, MemberRow
    <2>2. CASE old # None
      <3> DEFINE role == IF old.role = "member" THEN now.role ELSE "member"
                 status == IF old.status = "active" THEN now.status ELSE "active"
                 row == [now EXCEPT !.role = role, !.status = status]
      <3>1. now \in MemberRow
        BY <1>4, <1>5, <2>2
      <3>2. /\ role = "member" /\ status \in {"active", "left", "removed"}
            /\ status = "active" \/ status = now.status
        BY <1>4, <1>5, <2>2, <3>1 DEF MemberRow
      <3>3. new = row
        BY <2>2 DEF Joined
      <3> HIDE DEF role, status
      <3>4. row \in MemberRow /\ row.role = role /\ row.status = status /\ row.alias = now.alias
        BY <3>1, <3>2 DEF MemberRow
      <3> HIDE DEF row
      <3> QED
        BY <1>4, <2>2, <3>2, <3>3, <3>4
    <2> QED
      BY <2>1, <2>2
  <1> HIDE DEF new
  <1> QED
    BY <1>1, <1>2, <1>3, <1>6

(* The invitation that made a member is decided with the membership; no    *)
(* other lock is about the same membership.                                *)
LEMMA AcceptCore ==
    ASSUME Core, NEW h \in Handler, Accept(h)
    PROVE  Core'
  <1>1. PICK i \in Invitation, hh \in Founded, u \in User, new \in MemberRow :
              /\ i = handler[h].asked.invitation /\ u = handler[h].asked.by /\ Pending(i)
              /\ hh = invitation[i].household /\ u = invitation[i].target
              /\ u # home[hh].owner
              /\ new.role = "member"
              /\ member[hh][u] = None => new.alias = None
              /\ member[hh][u] # None => new.alias = member[hh][u].alias
              /\ \/ new.status = "active"
                 \/ member[hh][u] # None /\ new.status = member[hh][u].status
              /\ member' = [member EXCEPT ![hh][u] = new]
              /\ invitation' = [invitation EXCEPT ![i].status = "accepted"]
    BY Accepts
  <1> DEFINE off == [invitation[i] EXCEPT !.status = "accepted"]
  <1>2. /\ \A g \in Handler : handler'[g] = handler[g] \/ handler'[g] = Idle
        /\ requests' = requests /\ handler'[h] = Idle /\ handler[h].at = "locked"
        /\ handler' \in [Handler -> HandlerRow]
        /\ UNCHANGED <<home, current, late>>
    BY DoneEnds DEF Accept, Core
  <1>3. /\ \A g \in Handler, j \in Invitation :
              g # h /\ handler[g].at = "locked" /\ handler[g].asked.invitation = j
                 => j # i /\ invitation[j].status = "pending"
        /\ invitation[i] \in InvitationRow
    <2>1. handler[h].at = "locked" /\ i = handler[h].asked.invitation
      BY <1>1, <1>2
    <2>2. invitation[i] \in InvitationRow
      BY <1>1 DEF Core, TypeOK, Pending
    <2> QED
      BY <2>1, <2>2, Holder
  <1>4. off \in InvitationRow /\ off.household = invitation[i].household
        /\ off.target = invitation[i].target
    BY <1>3 DEF InvitationRow
  <1>5. invitation' = [invitation EXCEPT ![i] = off]
    BY <1>1 DEF Core, TypeOK
  <1> HIDE DEF off
  <1>6. PICK row \in InvitationRow : row = off
    BY <1>4
  <1>7. /\ invitation' \in [Invitation -> InvitationRow \cup {None}]
        /\ \A k \in Invitation :
              /\ invitation'[k] = None <=> invitation[k] = None
              /\ invitation[k] # None =>
                    /\ invitation'[k].household = invitation[k].household
                    /\ invitation'[k].target = invitation[k].target
                    /\ invitation'[k].status = "pending" => invitation[k].status = "pending"
        /\ \A k \in Invitation \ {i} : invitation'[k] = invitation[k]
    <2>1. /\ row.household = invitation[i].household /\ row.target = invitation[i].target
          /\ invitation' = [invitation EXCEPT ![i] = row]
      BY <1>4, <1>5, <1>6
    <2>2. Pending(i) /\ invitation[i] # None
      BY <1>1 DEF Pending
    <2> QED
      BY <2>1, <2>2, OneInvitation
  <1>8. hh \in Household
    BY DEF Founded
  <1>9. /\ member' \in [Household -> [User -> MemberRow \cup {None}]]
        /\ \A k \in Household, v \in User :
              member'[k][v] = IF k = hh /\ v = u THEN new ELSE member[k][v]
    BY <1>1, <1>8 DEF Core, TypeOK
  <1>10. new # None
    BY NoneIsNoRow
  <1>11. TypeOK'
    BY <1>2, <1>7, <1>9 DEF Core, TypeOK
  <1>12. Lasting
    BY <1>2, <1>7, <1>9, <1>10 DEF Lasting, Founded
  <1>13. Rooted'
    <2> SUFFICES /\ \A k \in Founded : /\ member'[k][home[k].owner] # None
                                       /\ member'[k][home[k].owner].status = "active"
                                       /\ member'[k][home[k].owner].role = "owner"
                 /\ \A k \in Household, v \in User : member'[k][v] # None =>
                       k \in Founded /\ (v # home[k].owner => member'[k][v].role = "member")
      BY <1>2 DEF Rooted, Founded, IsOwner, Active
    <2>1. \A k \in Founded : k \in Household /\ home[k].owner \in User
      BY DEF Core, TypeOK, Founded, HomeRow
    <2>2. \A k \in Founded : /\ member[k][home[k].owner] # None
                              /\ member[k][home[k].owner].status = "active"
                              /\ member[k][home[k].owner].role = "owner"
      BY DEF Core, Rooted, IsOwner, Active
    <2>3. \A k \in Household, v \in User : member[k][v] # None =>
             k \in Founded /\ (v # home[k].owner => member[k][v].role = "member")
      BY DEF Core, Rooted
    <2>4. \A k \in Founded : member'[k][home[k].owner] = member[k][home[k].owner]
      BY <1>1, <1>9, <2>1
    <2>5. \A k \in Household, v \in User : member'[k][v] # None =>
             k \in Founded /\ (v # home[k].owner => member'[k][v].role = "member")
      <3>1. ASSUME NEW k \in Household, NEW v \in User, member'[k][v] # None
            PROVE  k \in Founded /\ (v # home[k].owner => member'[k][v].role = "member")
        <4>1. CASE k = hh /\ v = u
          BY <1>1, <1>9, <4>1
        <4>2. CASE ~(k = hh /\ v = u)
          BY <1>9, <2>3, <3>1, <4>2
        <4> QED
          BY <4>1, <4>2
      <3> QED
        BY <3>1
    <2> QED
      BY <2>2, <2>4, <2>5
  <1>14. AliasesDiffer'
    <2>1. \A k \in Household, v \in User :
             member'[k][v] # None /\ member'[k][v].alias # None
                => member[k][v] # None /\ member'[k][v].alias = member[k][v].alias
      BY <1>1, <1>9
    <2>2. \A k \in Household, v, w \in User :
             /\ v # w /\ member[k][v] # None /\ member[k][w] # None
             /\ member[k][v].alias # None
             => member[k][v].alias # member[k][w].alias
      BY DEF Core, AliasesDiffer
    <2>3. \A k \in Household, v, w \in User :
             /\ v # w /\ member'[k][v] # None /\ member'[k][w] # None
             /\ member'[k][v].alias # None
             => member'[k][v].alias # member'[k][w].alias
      BY <2>1, <2>2
    <2> QED
      BY <2>3 DEF AliasesDiffer
  <1>15. InvitationsRooted'
    BY <1>2, <1>7 DEF Core, InvitationsRooted, Pending, Founded
  <1>16. ChecksStand'
    BY <1>2, <1>12, ChecksKept DEF Core
  <1>17. LocksStand'
    <2>1. ASSUME NEW g \in Handler, NEW k \in Invitation, handler[g].at = "locked",
                 handler[g].asked.invitation = k, handler'[g] = handler[g]
          PROVE  /\ invitation'[k].status = "pending"
                 /\ handler[g].asked.op = "accept" =>
                       ~(handler[g].asked.by = u /\ invitation[k].household = hh)
      <3>1. g # h /\ k # i
        BY <1>2, <1>3, <2>1, IdleIsIdle
      <3>2. Pending(k) /\ Checked(Asked(g))
        BY <2>1, Holder
      <3>3. handler[g].asked.op = "accept" => invitation[k].target = handler[g].asked.by
        BY <2>1, <3>2 DEF Checked, Asked
      <3>4. invitation'[k].status = "pending"
        BY <1>7, <3>1, <3>2 DEF Pending
      <3>5. ~(invitation[k].target = u /\ invitation[k].household = hh)
        BY <1>1, <3>1, <3>2 DEF Core, InvitationsRooted
      <3> QED
        BY <3>3, <3>4, <3>5
    <2>2. \A g \in Handler, k \in Invitation :
              handler[g].at = "locked" /\ handler[g].asked.invitation = k /\ handler'[g] = handler[g]
                 => /\ invitation'[k].status = "pending"
                    /\ handler[g].asked.op = "accept" =>
                          \A v \in User, kk \in Household :
                             v = handler[g].asked.by /\ kk = invitation[k].household
                               => (member'[kk][v] = None <=> member[kk][v] = None)
      BY <1>9, <2>1
    <2> QED
      BY <1>2, <1>12, <2>2, LocksKept
  <1> QED
    BY <1>11, <1>13, <1>14, <1>15, <1>16, <1>17 DEF Core

-----------------------------------------------------------------------------
(* No step disturbs the inductive part.                                    *)
LEMMA NextCore == Core /\ [Next]_vars => Core'
  <1> SUFFICES ASSUME Core, [Next]_vars PROVE Core'
    OBVIOUS
  <1>1. ASSUME NEW h \in Handler, NEW q \in Request, Arrive(h, q) PROVE Core'
    BY <1>1, ArriveCore
  <1>2. ASSUME NEW h \in Handler, Work(h) PROVE Core'
    BY <1>2, CreateCore, RenameCore, ResetCore, EndCore, AliasCore, InviteCore, LockCore, AcceptCore,
       DeclineCore, SelectCore DEF Work
  <1>3. ASSUME List PROVE Core'
    BY <1>3, ListCore
  <1>4. ASSUME NEW i \in Invitation, FallDue(i) PROVE Core'
    BY <1>4, FallDueCore
  <1>5. ASSUME NEW u \in User, NEW s \in Slot, Resolve(u, s) PROVE Core'
    BY <1>5, ResolveCore
  <1>6. CASE UNCHANGED vars
    <2>1. UNCHANGED <<home, member, invitation, current, handler, requests, late>>
      BY <1>6 DEF vars
    <2>2. TypeOK' /\ Rooted' /\ AliasesDiffer' /\ Lasting
      BY <2>1 DEF Core, TypeOK, Rooted, AliasesDiffer, Lasting, Founded, IsOwner, Active
    <2> QED
      BY <2>1, <2>2, InvitationsStay
  <1> QED
    BY <1>1, <1>2, <1>3, <1>4, <1>5, <1>6 DEF Next

(* The owner is the one active member with that role, and equal aliases    *)
(* are told apart by the index.                                            *)
LEMMA CoreImplies == Core => OneOwner /\ PayerIsFound
  <1> SUFFICES ASSUME Core PROVE OneOwner /\ PayerIsFound
    OBVIOUS
  <1>1. OneOwner
    <2> SUFFICES ASSUME NEW hh \in Founded
                 PROVE  {u \in User : Active(hh, u) /\ member[hh][u].role = "owner"}
                           = {home[hh].owner}
      BY DEF OneOwner
    <2>1. home[hh].owner \in User
      BY DEF Core, TypeOK, Founded, HomeRow
    <2>2. IsOwner(hh, home[hh].owner)
      BY DEF Core, Rooted
    <2>3. ASSUME NEW u \in User, Active(hh, u), member[hh][u].role = "owner"
          PROVE  u = home[hh].owner
      BY <2>3 DEF Core, Rooted, Active, Founded
    <2> QED
      BY <2>1, <2>2, <2>3 DEF IsOwner
  <1>2. PayerIsFound
    <2> SUFFICES ASSUME NEW hh \in Founded, NEW u \in Members(hh), NEW actor \in User,
                        NEW a, a = member[hh][u].alias, a # None,
                        \A v \in Members(hh) :
                           ~(/\ member[hh][v].alias \notin {None, a}
                             /\ Folded[member[hh][v].alias] = Folded[a])
                 PROVE  Payers(hh, actor, a) = {u}
      BY DEF PayerIsFound
    <2>1. a \in Text /\ a \notin User
      <3>1. member[hh][u] \in MemberRow
        BY DEF Members, Active, Founded, Core, TypeOK
      <3> QED
        BY <3>1, HouseholdAssumption DEF MemberRow
    <2>2. Aliased(hh, a) = {u}
      <3>1. u \in Aliased(hh, a)
        BY DEF Aliased
      <3>2. ASSUME NEW v \in Aliased(hh, a) PROVE v = u
        <4>1. v \in Members(hh) /\ member[hh][v].alias = a
          BY DEF Aliased
        <4> QED
          BY <4>1 DEF Members, Active, Founded, Core, AliasesDiffer
      <3> QED
        BY <3>1, <3>2
    <2>3. Meanings(hh, a) = {u}
      BY <2>2 DEF Meanings
    <2>4. Cardinality({u}) = 1
      BY FS_Singleton
    <2> QED
      BY <2>1, <2>3, <2>4 DEF Payers
  <1> QED
    BY <1>1, <1>2

-----------------------------------------------------------------------------
(* An invitation is decided once: of an acceptance, a refusal, a           *)
(* cancellation and the sweep of overdue ones the first to commit stands.  *)
THEOREM DecidedOnceHolds == Spec => DecidedOnce
  <1> DEFINE A == \A i \in Invitation :
                     invitation[i] # None /\ ~Pending(i) => invitation'[i] = invitation[i]
  <1>1. Core /\ [Next]_vars => [A]_vars
    <2> SUFFICES ASSUME Core, [Next]_vars, NEW i \in Invitation, invitation[i] # None, ~Pending(i)
                 PROVE  invitation'[i] = invitation[i]
      OBVIOUS
    <2>1. i \notin Overdue
      BY DEF Overdue
    <2>2. ASSUME NEW h \in Handler, NEW q \in Request, Arrive(h, q)
          PROVE  invitation'[i] = invitation[i]
      BY <2>2 DEF Arrive
    <2>3. ASSUME NEW h \in Handler, Work(h)
          PROVE  invitation'[i] = invitation[i]
      <3>1. CASE \/ Create(h) \/ Rename(h) \/ Reset(h) \/ Leave(h) \/ Remove(h)
                  \/ SetAlias(h) \/ Select(h)
        BY <3>1 DEF Create, Rename, Reset, Leave, Remove, EndMembership, SetAlias, Select
      <3>2. CASE Invite(h)
        <4> DEFINE q == Asked(h)
                   new == [household |-> q.household, target |-> q.target,
                           due |-> FALSE, status |-> "pending"]
        <4>1. \/ invitation' = invitation
              \/ invitation' = Swept
              \/ \E j \in Invitation : invitation[j] = None
                                         /\ invitation' = [Swept EXCEPT ![j] = new]
          BY <3>2 DEF Invite
        <4> HIDE DEF new
        <4>2. Swept[i] = invitation[i] /\ Swept \in [Invitation -> InvitationRow \cup {None}]
          BY <2>1, SweptRows
        <4> QED
          BY <4>1, <4>2
      <3>3. CASE LockInvitation(h)
        <4>1. \/ invitation' = invitation
              \/ \E j \in Overdue : invitation' = [invitation EXCEPT ![j].status = "expired"]
          BY <3>3 DEF LockInvitation
        <4> QED
          BY <2>1, <4>1 DEF Core, TypeOK
      <3>4. CASE Accept(h) \/ Decline(h)
        <4>1. handler[h].at = "locked"
          BY <3>4 DEF Accept, Decline
        <4>2. i # handler[h].asked.invitation
          BY <4>1, Holder
        <4> QED
          BY <3>4, <4>2 DEF Accept, Decline, Asked, Core, TypeOK
      <3> QED
        BY <2>3, <3>1, <3>2, <3>3, <3>4 DEF Work
    <2>4. CASE List
      BY <2>1, <2>4, SweptRows DEF List
    <2>5. ASSUME NEW j \in Invitation, FallDue(j) PROVE invitation'[i] = invitation[i]
      BY <2>5 DEF FallDue, Core, TypeOK
    <2>6. ASSUME NEW u \in User, NEW s \in Slot, Resolve(u, s)
          PROVE  invitation'[i] = invitation[i]
      BY <2>6 DEF Resolve
    <2> QED
      BY <2>2, <2>3, <2>4, <2>5, <2>6 DEF Next, vars
  <1> QED
    BY <1>1, InitCore, NextCore, PTL DEF Spec, DecidedOnce

(* h's step ends the membership of u in hh.                                *)
EndedBy(h, hh, u) == /\ Leave(h) \/ Remove(h)
                     /\ handler[h].asked.household = hh /\ Whose(Asked(h)) = u

(* In a step a membership keeps its status, or ends by a request that had  *)
(* reset the selections, or is made active by an invitation.               *)
LEMMA Memberships ==
    ASSUME Core, [Next]_vars, NEW hh \in Household, NEW u \in User, member[hh][u] # None
    PROVE  /\ hh \in Founded /\ home'[hh] # None /\ member'[hh][u] # None
           /\ \/ member'[hh][u].status = member[hh][u].status
              \/ /\ member'[hh][u].status # "active"
                 /\ \E h \in Handler : EndedBy(h, hh, u)
              \/ /\ member'[hh][u].status = "active"
                 /\ \E i \in Invitation : /\ Pending(i) /\ invitation[i].household = hh
                                          /\ invitation[i].target = u
                                          /\ invitation'[i].status = "accepted"
  <1> DEFINE Kept == home'[hh] # None /\ member'[hh] = member[hh]
             Ended == /\ home' = home /\ member'[hh][u] # None
                      /\ member'[hh][u].status # "active"
                      /\ \E h \in Handler : EndedBy(h, hh, u)
             Same == /\ home' = home /\ member'[hh][u] # None
                     /\ member'[hh][u].status = member[hh][u].status
             Back == /\ home' = home /\ member'[hh][u] # None /\ member'[hh][u].status = "active"
                     /\ \E i \in Invitation : /\ Pending(i) /\ invitation[i].household = hh
                                              /\ invitation[i].target = u
                                              /\ invitation'[i].status = "accepted"
  <1>1. hh \in Founded /\ home[hh] # None
    BY DEF Core, Rooted, Founded
  <1>2. ASSUME NEW h \in Handler, NEW q \in Request, Arrive(h, q) PROVE Kept
    BY <1>1, <1>2 DEF Arrive
  <1>3. ASSUME NEW h \in Handler, Work(h) PROVE Kept \/ Ended \/ Same \/ Back
    <2>1. CASE Create(h)
      BY <1>1, <2>1 DEF Create, Core, TypeOK
    <2>2. CASE Rename(h)
      <3>1. Asked(h).household \in Founded /\ member' = member
        BY <2>2, AtWork DEF Rename, Works, Checked
      <3>2. home' = home \/ home' = [home EXCEPT ![Asked(h).household].name = Asked(h).name]
        BY <2>2 DEF Rename
      <3>3. home'[hh] # None
        <4>1. CASE hh # Asked(h).household \/ home' = home
          BY <1>1, <3>2, <4>1 DEF Core, TypeOK
        <4>2. CASE hh = Asked(h).household /\ home' # home
          <5>1. home[hh] \in HomeRow /\ Asked(h).name \in Name
            BY <1>1, <2>2, AtWork, RequestShape DEF Core, TypeOK, Rename, Works
          <5>2. home'[hh] = [home[hh] EXCEPT !.name = Asked(h).name]
            BY <3>2, <4>2 DEF Core, TypeOK
          <5>3. home'[hh] \in HomeRow
            BY <5>1, <5>2 DEF HomeRow
          <5> QED
            BY <5>3, NoneIsNoRow
        <4> QED
          BY <4>1, <4>2
      <3> QED
        BY <3>1, <3>3
    <2>3. CASE Leave(h) \/ Remove(h)
      <3>1. PICK k \in Household, v \in User, st \in {"left", "removed"} :
                /\ k = handler[h].asked.household /\ v = Whose(Asked(h)) /\ Guest(k, v)
                /\ handler[h].at = "reset" /\ EndMembership(h, st)
        BY <2>3, Ends
      <3>2. home' = home /\ member' = [member EXCEPT ![k][v].status = st]
        BY <3>1 DEF EndMembership, Asked
      <3>3. CASE k = hh /\ v = u
        <4>1. member[hh][u] \in MemberRow
          BY DEF Core, TypeOK
        <4>2. member'[hh][u] = [member[hh][u] EXCEPT !.status = st]
          BY <3>2, <3>3 DEF Core, TypeOK
        <4>3. member'[hh][u].status = st /\ member'[hh][u] \in MemberRow
          BY <4>1, <4>2 DEF MemberRow
        <4>4. EndedBy(h, hh, u)
          BY <2>3, <3>1, <3>3 DEF EndedBy
        <4> QED
          BY <3>2, <4>3, <4>4, NoneIsNoRow
      <3>4. CASE ~(k = hh /\ v = u)
        <4>1. member'[hh][u] = member[hh][u]
          BY <3>2, <3>4 DEF Core, TypeOK
        <4> QED
          BY <3>2, <4>1
      <3> QED
        BY <3>3, <3>4
    <2>4. CASE SetAlias(h)
      <3> DEFINE q == Asked(h)
      <3>1. /\ home' = home
            /\ \/ member' = member
               \/ member' = [member EXCEPT ![q.household][q.target].alias = q.alias]
        BY <2>4 DEF SetAlias
      <3>2. q.alias \in Text \cup {None}
        BY <2>4, AtWork, RequestShape DEF SetAlias, Works
      <3>3. CASE member' = member
        BY <1>1, <3>1, <3>3
      <3>4. CASE member' = [member EXCEPT ![q.household][q.target].alias = q.alias]
        <4>1. CASE q.household = hh /\ q.target = u
          <5>1. member[hh][u] \in MemberRow
            BY DEF Core, TypeOK
          <5>2. member'[hh][u] = [member[hh][u] EXCEPT !.alias = q.alias]
            BY <3>4, <4>1 DEF Core, TypeOK
          <5>3. member'[hh][u] \in MemberRow /\ member'[hh][u].status = member[hh][u].status
            BY <3>2, <5>1, <5>2 DEF MemberRow
          <5> QED
            BY <3>1, <5>3, NoneIsNoRow
        <4>2. CASE ~(q.household = hh /\ q.target = u)
          <5>1. member'[hh][u] = member[hh][u]
            BY <3>4, <4>2 DEF Core, TypeOK
          <5> QED
            BY <3>1, <5>1
        <4> QED
          BY <4>1, <4>2
      <3> QED
        BY <3>1, <3>3, <3>4
    <2>5. CASE Invite(h) \/ LockInvitation(h) \/ Decline(h) \/ Select(h) \/ Reset(h)
      BY <1>1, <2>5 DEF Invite, LockInvitation, Decline, Select, Reset
    <2>6. CASE Accept(h)
      <3>1. PICK i \in Invitation, k \in Founded, v \in User, new \in MemberRow :
                /\ i = handler[h].asked.invitation /\ v = handler[h].asked.by /\ Pending(i)
                /\ k = invitation[i].household /\ v = invitation[i].target
                /\ v # home[k].owner
                /\ new.role = "member"
                /\ member[k][v] = None => new.alias = None
                /\ member[k][v] # None => new.alias = member[k][v].alias
                /\ \/ new.status = "active"
                   \/ member[k][v] # None /\ new.status = member[k][v].status
                /\ member' = [member EXCEPT ![k][v] = new]
                /\ invitation' = [invitation EXCEPT ![i].status = "accepted"]
        BY <2>6, Accepts
      <3>2. home' = home /\ k \in Household
        BY <2>6 DEF Accept, Founded
      <3>3. CASE k = hh /\ v = u
        <4>1. member'[hh][u] = new /\ new # None
          BY <3>1, <3>3, NoneIsNoRow DEF Core, TypeOK
        <4>2. invitation'[i].status = "accepted"
          <5>1. invitation[i] \in InvitationRow
            BY <3>1 DEF Core, TypeOK, Pending
          <5> QED
            BY <3>1, <5>1 DEF Core, TypeOK, InvitationRow
        <4> QED
          BY <3>1, <3>2, <3>3, <4>1, <4>2
      <3>4. CASE ~(k = hh /\ v = u)
        <4>1. member'[hh][u] = member[hh][u]
          BY <3>1, <3>2, <3>4 DEF Core, TypeOK
        <4> QED
          BY <3>2, <4>1
      <3> QED
        BY <3>3, <3>4
    <2> QED
      BY <1>3, <2>1, <2>2, <2>3, <2>4, <2>5, <2>6 DEF Work
  <1>4. ASSUME List \/ (\E i \in Invitation : FallDue(i))
                 \/ (\E v \in User, s \in Slot : Resolve(v, s)) \/ UNCHANGED vars
        PROVE  Kept
    BY <1>1, <1>4 DEF List, FallDue, Resolve, vars
  <1>5. Kept \/ Ended \/ Same \/ Back
    <2> HIDE DEF Kept, Ended, Same, Back
    <2> QED
      BY <1>2, <1>3, <1>4 DEF Next
  <1> QED
    BY <1>1, <1>5

(* Whoever has left or was removed comes back with a new invitation and    *)
(* never by answering an old one again.                                    *)
THEOREM BackByInvitationHolds == Spec => BackByInvitation
  <1> DEFINE A == \A hh \in Household, u \in User :
                     member[hh][u] # None /\ ~Active(hh, u) /\ Active(hh, u)'
                        => \E i \in Invitation : /\ Pending(i) /\ invitation[i].household = hh
                                                 /\ invitation[i].target = u
                                                 /\ invitation'[i].status = "accepted"
  <1>1. Core /\ [Next]_vars => [A]_vars
    <2> SUFFICES ASSUME Core, [Next]_vars, NEW hh \in Household, NEW u \in User,
                        member[hh][u] # None, ~Active(hh, u), member'[hh][u].status = "active"
                 PROVE  \E i \in Invitation : /\ Pending(i) /\ invitation[i].household = hh
                                              /\ invitation[i].target = u
                                              /\ invitation'[i].status = "accepted"
      BY DEF Active
    <2> QED
      BY Memberships DEF Active
  <1> QED
    BY <1>1, InitCore, NextCore, PTL DEF Spec, BackByInvitation

-----------------------------------------------------------------------------
(* A handler begins to hold what it resets only by its own Reset.          *)
LEMMA HandlersChange ==
    ASSUME Core, [Next]_vars, NEW g \in Handler
    PROVE  \/ handler'[g] = handler[g]
           \/ handler'[g].at # "reset"
           \/ Reset(g) /\ \A f \in Handler \ {g} : handler'[f] = handler[f]
  <1>1. ASSUME NEW h \in Handler, NEW q \in Request, Arrive(h, q)
        PROVE  handler'[g] = handler[g] \/ handler'[g].at # "reset"
    <2> DEFINE at == IF Answering(q) THEN "waiting" ELSE "read"
               row == IF q.op = "alias" THEN member[q.household][q.target] ELSE None
               new == [at |-> at, asked |-> q, row |-> row, slots |-> {}]
    <2>1. handler' = [handler EXCEPT ![h] = new]
      BY <1>1 DEF Arrive
    <2> HIDE DEF row
    <2>2. new.at = at /\ at # "reset"
      OBVIOUS
    <2> HIDE DEF new
    <2> QED
      BY <2>1, <2>2 DEF Core, TypeOK
  <1>2. ASSUME NEW h \in Handler, Done(h)
        PROVE  handler'[g] = handler[g] \/ handler'[g].at # "reset"
    BY <1>2, DoneEnds, IdleIsIdle DEF Core
  <1>3. ASSUME NEW h \in Handler, LockInvitation(h)
        PROVE  handler'[g] = handler[g] \/ handler'[g].at # "reset"
    <2>1. CASE Done(h)
      BY <1>2, <2>1
    <2>2. CASE \E row : handler' = [handler EXCEPT ![h].at = "locked", ![h].row = row]
      <3>1. PICK row : handler' = [handler EXCEPT ![h].at = "locked", ![h].row = row]
        BY <2>2
      <3>2. handler[h] \in HandlerRow
        BY DEF Core, TypeOK
      <3>3. g = h => handler'[g] = [handler[h] EXCEPT !.at = "locked", !.row = row]
        BY <3>1 DEF Core, TypeOK
      <3>4. g = h => handler'[g].at = "locked"
        BY <3>2, <3>3 DEF HandlerRow
      <3> QED
        BY <3>1, <3>4 DEF Core, TypeOK
    <2> QED
      BY <1>3, <2>1, <2>2 DEF LockInvitation
  <1>4. ASSUME NEW h \in Handler, Reset(h)
        PROVE  \/ handler'[g] = handler[g]
               \/ Reset(g) /\ \A f \in Handler \ {g} : handler'[f] = handler[f]
    <2>1. \A f \in Handler \ {h} : handler'[f] = handler[f]
      BY <1>4 DEF Reset, Core, TypeOK
    <2> QED
      BY <1>4, <2>1
  <1>5. ASSUME NEW h \in Handler, Work(h), ~LockInvitation(h), ~Reset(h)
        PROVE  Done(h)
    BY <1>5 DEF Work, Create, Rename, Leave, Remove, EndMembership, SetAlias, Invite, Accept,
                Decline, Select
  <1>6. ASSUME List \/ (\E i \in Invitation : FallDue(i))
                 \/ (\E v \in User, s \in Slot : Resolve(v, s)) \/ UNCHANGED vars
        PROVE  handler'[g] = handler[g]
    BY <1>6 DEF List, FallDue, Resolve, vars
  <1> QED
    BY <1>1, <1>2, <1>3, <1>4, <1>5, <1>6 DEF Next

(* What becomes of a selection: nothing; or it is given up, and if its row *)
(* was held by whoever held it; or it is written when its row is not held, *)
(* and late if the membership has ended or somebody is about to end it.    *)
LEMMA SelectionsChange ==
    ASSUME Core, [Next]_vars, NEW u \in User, NEW s \in Slot
    PROVE  \/ current'[u][s] = current[u][s] /\ (<<u, s>> \in late => <<u, s>> \in late')
           \/ /\ current'[u][s] = None
              /\ \/ ~SlotHeld(u, s)
                 \/ \E h \in Handler : /\ Leave(h) \/ Remove(h)
                                       /\ Whose(Asked(h)) = u /\ s \in handler[h].slots
           \/ /\ ~SlotHeld(u, s)
              /\ \/ s = "credential" \/ <<u, s>> \in late'
                 \/ /\ Active(current'[u][s], u)
                    /\ ~MemberHeld(current'[u][s], u)
  <1> DEFINE Stays == /\ current'[u][s] = current[u][s]
                      /\ <<u, s>> \in late => <<u, s>> \in late'
             Off == /\ current'[u][s] = None
                    /\ \/ ~SlotHeld(u, s)
                       \/ \E h \in Handler : /\ Leave(h) \/ Remove(h)
                                             /\ Whose(Asked(h)) = u /\ s \in handler[h].slots
             On == /\ ~SlotHeld(u, s)
                   /\ \/ s = "credential" \/ <<u, s>> \in late'
                      \/ /\ Active(current'[u][s], u)
                         /\ ~MemberHeld(current'[u][s], u)
  <1>1. ASSUME current' = current, late' = late PROVE Stays
    BY <1>1
  <1>2. ASSUME NEW h \in Handler, Leave(h) \/ Remove(h) PROVE Stays \/ Off
    <2>1. PICK k \in Household, v \in User, st \in {"left", "removed"} :
              /\ k = handler[h].asked.household /\ v = Whose(Asked(h)) /\ Guest(k, v)
              /\ handler[h].at = "reset" /\ EndMembership(h, st)
      BY <1>2, Ends
    <2> DEFINE S == handler[h].slots
               row == [t \in Slot |-> IF t \in S THEN None ELSE current[v][t]]
    <2>2. current' = [current EXCEPT ![v] = row] /\ late' = late \ ({v} \X S)
      BY <2>1 DEF EndMembership
    <2>3. CASE v = u /\ s \in S
      <3>1. current'[u] = row
        BY <2>2, <2>3 DEF Core, TypeOK
      <3> QED
        BY <1>2, <2>1, <2>3, <3>1
    <2>4. CASE ~(v = u /\ s \in S)
      <3>1. current'[u][s] = current[u][s]
        BY <2>2, <2>4 DEF Core, TypeOK
      <3> QED
        BY <2>2, <2>4, <3>1
    <2> QED
      BY <2>3, <2>4
  <1>3. ASSUME NEW h \in Handler, Select(h) PROVE Stays \/ Off \/ On
    <2> DEFINE q == Asked(h)
               behind == /\ q.household # None /\ q.slot # "credential"
                         /\ ~Active(q.household, q.by) \/ MemberHeld(q.household, q.by)
    <2>1. /\ current' = [current EXCEPT ![q.by][q.slot] = q.household]
          /\ ~SlotHeld(q.by, q.slot)
          /\ late' = IF behind THEN late \cup {<<q.by, q.slot>>} ELSE late \ {<<q.by, q.slot>>}
      BY <1>3 DEF Select
    <2> HIDE DEF q
    <2>2. CASE q.by = u /\ q.slot = s
      <3>1. current'[u][s] = q.household
        BY <2>1, <2>2 DEF Core, TypeOK
      <3> QED
        BY <2>1, <2>2, <3>1
    <2>3. CASE ~(q.by = u /\ q.slot = s)
      <3>1. current'[u][s] = current[u][s]
        BY <2>1, <2>3 DEF Core, TypeOK
      <3>2. <<u, s>> # <<q.by, q.slot>>
        BY <2>3
      <3> QED
        BY <2>1, <3>1, <3>2
    <2> QED
      BY <2>2, <2>3
  <1>4. ASSUME NEW v \in User, NEW t \in Slot, Resolve(v, t) PROVE Stays \/ Off
    <2>1. /\ current' = [current EXCEPT ![v][t] = None] /\ late' = late \ {<<v, t>>}
          /\ ~SlotHeld(v, t)
      BY <1>4 DEF Resolve
    <2>2. CASE v = u /\ t = s
      BY <2>1, <2>2 DEF Core, TypeOK
    <2>3. CASE ~(v = u /\ t = s)
      <3>1. current'[u][s] = current[u][s]
        BY <2>1, <2>3 DEF Core, TypeOK
      <3>2. <<u, s>> # <<v, t>>
        BY <2>3
      <3> QED
        BY <2>1, <3>1, <3>2
    <2> QED
      BY <2>2, <2>3
  <1>5. ASSUME NEW h \in Handler, Work(h) PROVE Stays \/ Off \/ On
    <2> HIDE DEF Stays, Off, On
    <2>1. CASE Leave(h) \/ Remove(h)
      BY <1>2, <2>1
    <2>2. CASE Select(h)
      BY <1>3, <2>2
    <2>3. CASE \/ Create(h) \/ Rename(h) \/ Reset(h) \/ SetAlias(h) \/ Invite(h)
               \/ LockInvitation(h) \/ Accept(h) \/ Decline(h)
      <3>1. current' = current /\ late' = late
        BY <2>3 DEF Create, Rename, Reset, SetAlias, Invite, LockInvitation, Accept, Decline
      <3> QED
        BY <1>1, <3>1
    <2> QED
      BY <1>5, <2>1, <2>2, <2>3 DEF Work
  <1>6. ASSUME \/ \E h \in Handler, q \in Request : Arrive(h, q)
               \/ List \/ (\E i \in Invitation : FallDue(i)) \/ UNCHANGED vars
        PROVE  Stays
    <2>1. current' = current /\ late' = late
      BY <1>6 DEF Arrive, List, FallDue, vars
    <2> QED
      BY <1>1, <2>1
  <1>7. Stays \/ Off \/ On
    <2> HIDE DEF Stays, Off, On
    <2> QED
      BY <1>4, <1>5, <1>6 DEF Next
  <1> QED
    BY <1>7

(* Whoever ends a membership is alone with it and with what it resets.     *)
LEMMA ResetsKept == Core /\ ResetsStand /\ [Next]_vars => ResetsStand'
  <1> SUFFICES ASSUME Core, ResetsStand, [Next]_vars PROVE ResetsStand'
    OBVIOUS
  <1>1. ASSUME NEW g \in Handler, NEW f \in Handler \ {g},
               handler'[g].at = "reset", handler'[f].at = "reset", handler'[f] = handler[f],
               handler'[f].asked.household = handler'[g].asked.household,
               Whose(handler'[f].asked) = Whose(handler'[g].asked)
        PROVE  handler'[g] # handler[g] /\ ~Reset(g)
    <2>1. CASE handler'[g] = handler[g]
      BY <1>1, <2>1 DEF ResetsStand, Asked
    <2>2. CASE Reset(g)
      <3>1. /\ ~MemberHeld(handler[g].asked.household, Whose(handler[g].asked))
            /\ handler'[g].asked = handler[g].asked
        <4>1. handler[g] \in HandlerRow
          BY DEF Core, TypeOK
        <4>2. PICK S : handler'[g] = [handler[g] EXCEPT !.at = "reset", !.slots = S]
          BY <2>2 DEF Reset, Core, TypeOK
        <4> QED
          BY <2>2, <4>1, <4>2 DEF Reset, Asked, HandlerRow
      <3> QED
        BY <1>1, <3>1 DEF MemberHeld, Asked
    <2> QED
      BY <2>1, <2>2
  <1>2. ASSUME NEW g \in Handler, NEW f \in Handler \ {g},
               handler'[g].at = "reset", handler'[f].at = "reset"
        PROVE  ~(/\ handler'[f].asked.household = handler'[g].asked.household
                 /\ Whose(handler'[f].asked) = Whose(handler'[g].asked))
    <2>1. CASE handler'[f] = handler[f]
      BY <1>1, <1>2, <2>1, HandlersChange
    <2>2. CASE handler'[f] # handler[f]
      <3>1. Reset(f) /\ handler'[g] = handler[g]
        BY <1>2, <2>2, HandlersChange
      <3> QED
        BY <1>1, <1>2, <3>1
    <2> QED
      BY <2>1, <2>2
  <1>3. ASSUME NEW g \in Handler, handler'[g].at = "reset", NEW q, q = handler'[g].asked
        PROVE  /\ \A s \in Slot \ {"credential"} : current'[Whose(q)][s] = q.household =>
                     s \in handler'[g].slots \/ <<Whose(q), s>> \in late'
               /\ \A s \in handler'[g].slots : current'[Whose(q)][s] = q.household
    <2>1. CASE Reset(g)
      <3>1. handler[g] \in HandlerRow
        BY DEF Core, TypeOK
      <3>2. /\ handler'[g] = [handler[g] EXCEPT !.at = "reset",
                                 !.slots = Selecting(Asked(g).household, Whose(Asked(g)))]
            /\ current' = current
        BY <2>1 DEF Reset, Core, TypeOK
      <3>3. handler'[g].slots = Selecting(q.household, Whose(q))
        BY <1>3, <3>1, <3>2 DEF HandlerRow, Asked
      <3> QED
        BY <3>2, <3>3 DEF Selecting
    <2>2. CASE handler'[g] = handler[g]
      <3>1. /\ handler[g].at = "reset" /\ q = Asked(g) /\ q \in Request /\ Ending(q)
        BY <1>3, <2>2, AtWork DEF Asked, Core, ChecksStand
      <3>2. Whose(q) \in User /\ q.household \in Household /\ q.household # None
        BY <3>1, RequestShape, HouseholdAssumption DEF Whose, Ending
      <3> DEFINE u == Whose(q)  hh == q.household
      <3>3. /\ \A s \in Slot \ {"credential"} : current[u][s] = hh =>
                    s \in handler[g].slots \/ <<u, s>> \in late
            /\ \A s \in handler[g].slots : current[u][s] = hh
            /\ \A f \in Handler \ {g} :
                  ~(/\ handler[f].at = "reset"
                    /\ Asked(f).household = hh /\ Whose(Asked(f)) = u)
        BY <3>1 DEF ResetsStand
      <3>4. MemberHeld(hh, u) /\ \A s \in handler[g].slots : SlotHeld(u, s)
        BY <3>1 DEF MemberHeld, SlotHeld
      <3>5. ASSUME NEW s \in handler[g].slots PROVE current'[u][s] = hh
        <4>1. s \in Slot
          BY DEF Core, TypeOK, HandlerRow
        <4>2. ASSUME NEW h \in Handler, Leave(h) \/ Remove(h), Whose(Asked(h)) = u,
                     s \in handler[h].slots
              PROVE  FALSE
          <5>1. handler[h].at = "reset" /\ Done(h)
            BY <4>2 DEF Leave, Remove, EndMembership
          <5>2. current[u][s] = Asked(h).household
            BY <4>2, <5>1 DEF ResetsStand
          <5>3. h = g
            BY <3>3, <4>2, <5>1, <5>2
          <5>4. handler'[h].at = "idle"
            BY <5>1, DoneEnds, IdleIsIdle DEF Core
          <5> QED
            BY <1>3, <5>3, <5>4
        <4> QED
          BY <3>2, <3>3, <3>4, <4>1, <4>2, SelectionsChange
      <3>6. ASSUME NEW s \in Slot \ {"credential"}, current'[u][s] = hh
            PROVE  s \in handler[g].slots \/ <<u, s>> \in late'
        BY <3>2, <3>3, <3>4, <3>6, SelectionsChange
      <3> QED
        BY <2>2, <3>5, <3>6
    <2> QED
      BY <1>3, <2>1, <2>2, HandlersChange
  <1> QED
    BY <1>2, <1>3 DEF ResetsStand, Asked, Whose

(* A selection that outlives its membership was written behind the reset.  *)
LEMMA LateKept == Core /\ ResetsStand /\ OnlyLateStays /\ [Next]_vars => OnlyLateStays'
  <1> SUFFICES ASSUME Core, ResetsStand, OnlyLateStays, [Next]_vars,
                      NEW hh \in Household, NEW u \in User, NEW s \in Slot \ {"credential"},
                      current'[u][s] = hh,
                      ~(home'[hh] # None /\ member'[hh][u] # None
                          /\ member'[hh][u].status = "active")
               PROVE  <<u, s>> \in late'
    BY DEF OnlyLateStays, Active, Founded
  <1>1. hh # None
    BY HouseholdAssumption
  <1>2. Active(hh, u) => \E h \in Handler : EndedBy(h, hh, u)
    BY Memberships DEF Active
  <1>3. ASSUME NEW h \in Handler, EndedBy(h, hh, u) PROVE <<u, s>> \in late'
    <2>1. PICK k \in Household, v \in User, st \in {"left", "removed"} :
              /\ k = handler[h].asked.household /\ v = Whose(Asked(h)) /\ Guest(k, v)
              /\ handler[h].at = "reset" /\ EndMembership(h, st)
      BY <1>3, Ends DEF EndedBy
    <2> DEFINE S == handler[h].slots
               row == [t \in Slot |-> IF t \in S THEN None ELSE current[u][t]]
    <2>2. /\ k = hh /\ v = u
          /\ current' = [current EXCEPT ![u] = row] /\ late' = late \ ({u} \X S)
      BY <1>3, <2>1 DEF EndedBy, EndMembership
    <2>3. current'[u] = row
      BY <2>2 DEF Core, TypeOK
    <2>4. s \notin S /\ current[u][s] = hh
      BY <1>1, <2>3
    <2>5. <<u, s>> \in late
      BY <2>1, <2>2, <2>4 DEF ResetsStand, Asked
    <2> QED
      BY <2>2, <2>4, <2>5
  <1>4. CASE ~Active(hh, u)
    <2>1. current[u][s] = hh => <<u, s>> \in late
      BY <1>4 DEF OnlyLateStays
    <2> QED
      BY <1>1, <1>4, <2>1, SelectionsChange
  <1> QED
    BY <1>2, <1>3, <1>4

(* Nobody resets anything at first, and nothing is selected.               *)
LEMMA InitResets == Init => ResetsStand /\ OnlyLateStays
  BY HouseholdAssumption, IdleIsIdle DEF Init, ResetsStand, OnlyLateStays

(* Whatever the handlers do and however their transactions interleave, the *)
(* tables keep their shape, each household its owner, each alias its       *)
(* member, each lock its invitation, and each end of a membership what it  *)
(* resets.                                                                 *)
THEOREM Invariance == Spec => []IInv
  <1>1. Core /\ ResetsStand => IInv
    BY CoreImplies DEF Core, IInv, Inv
  <1> QED
    BY <1>1, InitCore, NextCore, InitResets, ResetsKept, PTL DEF Spec

(* A household has one active owner at all times, the one it belongs to.   *)
THEOREM OneOwnerHolds == Spec => []OneOwner
  BY InitCore, NextCore, CoreImplies, PTL DEF Spec

(* A member is found by the alias they were given, unless another member's *)
(* alias is a different text that folds to the same.                       *)
THEOREM PayerIsFoundHolds == Spec => []PayerIsFound
  BY InitCore, NextCore, CoreImplies, PTL DEF Spec

(* An entrance stays on the ledger of a household that its user has left   *)
(* only if a selection that was accepted before was written after the      *)
(* reset.                                                                  *)
THEOREM OnlyLateStaysHolds == Spec => []OnlyLateStays
  BY InitCore, NextCore, InitResets, ResetsKept, LateKept, PTL DEF Spec
=============================================================================
