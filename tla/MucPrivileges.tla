---------------------------- MODULE MucPrivileges ----------------------------
(***************************************************************************)
(* The affiliation lattice of src/session/muc/data/affiliation.go and the  *)
(* role privilege table and occupant authorization queries of             *)
(* src/session/muc/role_privileges.go.                                     *)
(*                                                                         *)
(* An affiliation is one of five Go types; it is represented here by its   *)
(* Name() string.  Each method with one body per type becomes an operator  *)
(* that dispatches on that name.  Roles belong to data.Role, which is not  *)
(* in src/; only the role predicates the queries call are needed.          *)
(*                                                                         *)
(* The state is a small room: each occupant's affiliation and role, which  *)
(* the roster changes as presence and admin events arrive (spec 4.3).      *)
(* The properties quantify over pairs of occupants of the current state.   *)
(***************************************************************************)
EXTENDS Naturals, FiniteSets

CONSTANTS Occupants

Affiliations == {"none", "outcast", "member", "admin", "owner"}
Roles == {"none", "visitor", "participant", "moderator"}

(***************************************************************************)
(* Affiliation predicates (affiliation.go lines 67-170): the set of types  *)
(* for which each one returns true.                                        *)
(***************************************************************************)
IsAdmin(a)     == a = "admin"
IsBanned(a)    == a = "outcast"
IsMember(a)    == a \in {"member", "admin", "owner"}
IsModeratorAffiliation(a) == a \in {"admin", "owner"}
IsOwner(a)     == a = "owner"
IsOutcast(a)   == a = "outcast"
IsNone(a)      == a = "none"

\* Mutant: Member lower than Admin only.
IsLowerThanMemberNoOwner(a, b) ==
    CASE a = "none"    -> ~IsNone(b)
      [] a = "outcast" -> TRUE
      [] a = "member"  -> IsAdmin(b)
      [] a = "admin"   -> IsOwner(b)
      [] a = "owner"   -> FALSE

\* Mutant: None answers true unconditionally, as Outcast does.
IsLowerThanNoneAlways(a, b) ==
    CASE a = "none"    -> TRUE
      [] a = "outcast" -> TRUE
      [] a = "member"  -> IsAdmin(b) \/ IsOwner(b)
      [] a = "admin"   -> IsOwner(b)
      [] a = "owner"   -> FALSE

\* IsLowerThan, receiver a, argument b (lines 187-210).
IsLowerThan(a, b) ==
    CASE a = "none"    -> ~IsNone(b)
      [] a = "outcast" -> TRUE
      [] a = "member"  -> IsAdmin(b) \/ IsOwner(b)
      [] a = "admin"   -> IsOwner(b)
      [] a = "owner"   -> FALSE

\* Mutant: the Member case without its correction for admins and owners,
\* who are members too.
IsDifferentFromMemberPlain(a, b) ==
    CASE a = "none"    -> ~IsNone(b)
      [] a = "outcast" -> ~IsBanned(b)
      [] a = "member"  -> ~IsMember(b)
      [] a = "admin"   -> ~IsAdmin(b)
      [] a = "owner"   -> ~IsOwner(b)

\* IsDifferentFrom, receiver a, argument b (lines 212-237).
IsDifferentFrom(a, b) ==
    CASE a = "none"    -> ~IsNone(b)
      [] a = "outcast" -> ~IsBanned(b)
      [] a = "member"  -> ~IsMember(b) \/ IsAdmin(b) \/ IsOwner(b)
      [] a = "admin"   -> ~IsAdmin(b)
      [] a = "owner"   -> ~IsOwner(b)

(***************************************************************************)
(* Role predicates (data.Role, spec section 3).                            *)
(***************************************************************************)
IsModerator(r)   == r = "moderator"
IsParticipant(r) == r = "participant"
IsVisitor(r)     == r = "visitor"

(***************************************************************************)
(* The privilege table (role_privileges.go lines 7-64): the iota constants *)
(* and the privileges each role is built with.                             *)
(***************************************************************************)
presentInRoom == 0
receiveMessages == 1
receiveOccupantPresence == 2
presenceToAllOccupants == 3
changeAvailabilityStatus == 4
changeRoomNickname == 5
sendPrivateMessages == 6
inviteOtherUsers == 7
sendMessagesToAll == 8
modifySubject == 9
kickParticipantsAndVisitors == 10
grantVoice == 11
revokeVoice == 12

Privileges == 0..12

\* Mutant: the visitor entry without sendPrivateMessages.
VisitorPrivilegesNoPM ==
    {presentInRoom, receiveMessages, receiveOccupantPresence,
     presenceToAllOccupants, changeAvailabilityStatus, changeRoomNickname,
     inviteOtherUsers}

\* The visitor entry (lines 26-35).
VisitorPrivileges ==
    {presentInRoom, receiveMessages, receiveOccupantPresence,
     presenceToAllOccupants, changeAvailabilityStatus, changeRoomNickname,
     sendPrivateMessages, inviteOtherUsers}

\* The participant entry (lines 36-47).
ParticipantPrivileges ==
    {presentInRoom, receiveMessages, receiveOccupantPresence,
     presenceToAllOccupants, changeAvailabilityStatus, changeRoomNickname,
     sendPrivateMessages, inviteOtherUsers, sendMessagesToAll, modifySubject}

\* Mutant: the moderator entry without modifySubject.
ModeratorPrivilegesNoSubject ==
    {presentInRoom, receiveMessages, receiveOccupantPresence,
     presenceToAllOccupants, changeAvailabilityStatus, changeRoomNickname,
     sendPrivateMessages, inviteOtherUsers, sendMessagesToAll,
     kickParticipantsAndVisitors, grantVoice, revokeVoice}

\* The moderator entry (lines 48-62).
ModeratorPrivileges ==
    {presentInRoom, receiveMessages, receiveOccupantPresence,
     presenceToAllOccupants, changeAvailabilityStatus, changeRoomNickname,
     sendPrivateMessages, inviteOtherUsers, sendMessagesToAll, modifySubject,
     kickParticipantsAndVisitors, grantVoice, revokeVoice}

\* definedPrivilegesForRoles: the none role has no privileges.
DefinedPrivileges ==
    [none        |-> {},
     visitor     |-> VisitorPrivileges,
     participant |-> ParticipantPrivileges,
     moderator   |-> ModeratorPrivileges]

\* roleCan: look the role up and test membership.
RoleCan(p, r) == p \in DefinedPrivileges[r]

\* The privilege each occupant query delegates to (lines 75-146).
\* CanInviteOtherUsers asks for sendPrivateMessages (line 120).
QueryPrivilege ==
    [CanPresentInRoom                   |-> presentInRoom,
     CanReceiveMessage                  |-> receiveMessages,
     CanReceiveOccupantPresence         |-> receiveOccupantPresence,
     CanBroadcastPresenceToAllOccupants |-> presenceToAllOccupants,
     CanChangeAvailabilityStatus        |-> changeAvailabilityStatus,
     CanChangeRoomNickname              |-> changeRoomNickname,
     CanSendPrivateMessages             |-> sendPrivateMessages,
     CanInviteOtherUsers                |-> sendPrivateMessages,
     CanSendMessagesToAll               |-> sendMessagesToAll,
     CanModifySubject                   |-> modifySubject,
     CanKickParticipantsAndVisitors     |-> kickParticipantsAndVisitors,
     CanGrantVoice                      |-> grantVoice]

\* The privilege each query is documented to answer (its comment).
DocumentedPrivilege ==
    [QueryPrivilege EXCEPT !.CanInviteOtherUsers = inviteOtherUsers]

\* roleHasPrivilege and the single-occupant queries.
Can(q, r) == RoleCan(QueryPrivilege[q], r)

(***************************************************************************)
(* Occupant-pair queries; an occupant is a record [aff, role].            *)
(***************************************************************************)

\* CanRevokeVoice (lines 150-160).
CanRevokeVoice(o, oc) ==
    /\ ~(IsAdmin(oc.aff) \/ IsOwner(oc.aff))
    /\ IsModerator(o.role)

\* CanChangeRole (lines 164-170).
CanChangeRole(o, oc) ==
    /\ ~(IsOwner(oc.aff) \/ IsAdmin(oc.aff))
    /\ IsAdmin(o.aff) \/ IsOwner(o.aff)
    /\ IsLowerThan(oc.aff, o.aff)

\* CanKickOccupant (lines 174-177).
CanKickOccupant(o, oc) ==
    /\ IsModerator(o.role)
    /\ IsParticipant(oc.role) \/ IsVisitor(oc.role)
    /\ IsLowerThan(oc.aff, o.aff)

(***************************************************************************)
(* The room roster (spec 4.3).  An occupant is present while its role is  *)
(* not none.  A ban arrives as affiliation outcast with role none, after   *)
(* which the occupant is gone until it joins again, which a server allows  *)
(* only once the ban is lifted, with an affiliation other than outcast.    *)
(***************************************************************************)
PresentAffiliations == Affiliations \ {"outcast"}
PresentRoles == Roles \ {"none"}

VARIABLES aff, role

vars == <<aff, role>>

Occupant(o) == [aff |-> aff[o], role |-> role[o]]

Present(o) == role[o] # "none"

Init ==
    /\ aff \in [Occupants -> PresentAffiliations]
    /\ role \in [Occupants -> PresentRoles]

\* Roster UpdateAffiliation.
UpdateAffiliation(o, a) ==
    /\ Present(o) /\ aff[o] # a
    /\ aff' = [aff EXCEPT ![o] = a]
    /\ UNCHANGED role

\* Roster UpdateRole.
UpdateRole(o, r) ==
    /\ Present(o) /\ role[o] # r
    /\ role' = [role EXCEPT ![o] = r]
    /\ UNCHANGED aff

\* The ban presence: affiliation outcast, role none.
Ban(o) ==
    /\ Present(o)
    /\ aff' = [aff EXCEPT ![o] = "outcast"]
    /\ role' = [role EXCEPT ![o] = "none"]

\* Roster AddOccupant for an occupant that is not present.
Join(o, a, r) ==
    /\ ~Present(o)
    /\ aff' = [aff EXCEPT ![o] = a]
    /\ role' = [role EXCEPT ![o] = r]

Next ==
    \/ \E o \in Occupants, a \in PresentAffiliations : UpdateAffiliation(o, a)
    \/ \E o \in Occupants, r \in PresentRoles : UpdateRole(o, r)
    \/ \E o \in Occupants : Ban(o)
    \/ \E o \in Occupants, a \in PresentAffiliations, r \in PresentRoles :
          Join(o, a, r)

Spec == Init /\ [][Next]_vars

(***************************************************************************)
(* Properties.                                                             *)
(***************************************************************************)

\* XEP-0045's order of roles, lowest first.
RoleRank == [none |-> 0, visitor |-> 1, participant |-> 2, moderator |-> 3]

\* XEP-0045's order of affiliations, lowest first.
Rank == [outcast |-> 0, none |-> 1, member |-> 2, admin |-> 3, owner |-> 4]

\* The five IsDifferentFrom methods together are inequality: in particular
\* the Member method's correction makes admins and owners, who are members
\* too, different from a member.
DifferentFromIsInequality ==
    \A x, y \in Occupants : IsDifferentFrom(aff[x], aff[y]) <=> aff[x] # aff[y]

\* Among the affiliations of occupants present in the room, the five
\* IsLowerThan methods define a strict total order: irreflexive,
\* transitive and total.
PresentAffiliationsTotallyOrdered ==
    \A x, y, z \in {o \in Occupants : Present(o)} :
        /\ ~IsLowerThan(aff[x], aff[x])
        /\ IsLowerThan(aff[x], aff[y]) /\ IsLowerThan(aff[y], aff[z])
              => IsLowerThan(aff[x], aff[z])
        /\ aff[x] # aff[y]
              => IsLowerThan(aff[x], aff[y]) \/ IsLowerThan(aff[y], aff[x])

\* The privilege table grows with the role (spec 3: each role adds to the
\* one below), so promoting an occupant never takes a privilege away.
PrivilegesMonotone ==
    \A x, y \in Occupants :
        RoleRank[role[x]] <= RoleRank[role[y]]
            => DefinedPrivileges[role[x]] \subseteq DefinedPrivileges[role[y]]

\* Every occupant query answers the privilege its comment names, for the
\* roles present.  CanInviteOtherUsers asks for sendPrivateMessages, and
\* this holds only because the table gives both to the same roles.
QueriesAnswerTheirPrivilege ==
    \A x \in Occupants, q \in DOMAIN QueryPrivilege :
        Can(q, role[x]) <=> RoleCan(DocumentedPrivilege[q], role[x])

\* No occupant of the roster may kick, or change the role of, an occupant
\* whose affiliation ranks at or above its own.
AuthorityRespectsRank ==
    \A x, y \in Occupants :
        CanKickOccupant(Occupant(x), Occupant(y))
          \/ CanChangeRole(Occupant(x), Occupant(y))
            => Rank[aff[y]] < Rank[aff[x]]

\* Spec section 8: for affiliations A and B, here those of two roster
\* entries, A.IsLowerThan(B) and B.IsLowerThan(A) are not both true, except
\* for the pair None/Outcast.
LowerThanAsymmetric ==
    \A x, y \in Occupants :
        {aff[x], aff[y]} # {"none", "outcast"}
            => ~(IsLowerThan(aff[x], aff[y]) /\ IsLowerThan(aff[y], aff[x]))

====
