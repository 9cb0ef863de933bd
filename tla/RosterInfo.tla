------------------------------ MODULE RosterInfo ------------------------------
(***************************************************************************)
(* The occupant information panel of src/gui/muc_room_roster_info.go and  *)
(* the kick dialog of src/gui/muc_room_kick_occupant.go, composed with the *)
(* room roster and the privilege queries of MucPrivileges.                 *)
(*                                                                         *)
(* The panel holds two pointers into the roster, r.occupant (the occupant  *)
(* shown, nil until the user first opens one) and r.selfOccupant, and four *)
(* widgets computed from them by validateOccupantPrivileges: the change-   *)
(* affiliation, change-role and kick buttons and the "role cannot be       *)
(* changed" label.  Roster changes arrive off the UI thread and reach the  *)
(* panel as refresh closures queued with doInUIThread; the user's clicks   *)
(* run on the UI thread between them.                                      *)
(*                                                                         *)
(* The self occupant is the constant Self: updateSelfOccupant's caller is  *)
(* not in src/, and the room view is closed when the self occupant is      *)
(* banned (spec 4.3), so Self is never banned or re-joined here.  A roster *)
(* entry that re-joins after a ban is a new muc.Occupant; a pointer to the *)
(* old one is the value Gone, which keeps the ban's outcast and none.      *)
(***************************************************************************)
EXTENDS MucPrivileges

CONSTANTS
    Self,       \* the self occupant, one of Occupants
    MaxQueued   \* bound on refresh closures waiting for the UI thread

ASSUME Self \in Occupants /\ MaxQueued \in Nat \ {0}

Nil == "nil"
Gone == "gone"

VARIABLES
    occupant,      \* r.occupant: Nil, an occupant, or Gone
    shown,         \* r.view is visible
    affBtn,        \* changeAffiliationButton visible
    roleBtn,       \* changeRoleButton visible
    roleDisabled,  \* roleDisableLabel visible
    kickBtn,       \* kickOccupantButton visible
    pending,       \* refresh closures queued on the UI thread
    kickDialogs,   \* the occupants open kick dialogs were created for
    badKick,       \* a kickOccupant was started that the self occupant may not do
    panicked       \* the UI thread dereferenced a nil occupant

panel == <<occupant, shown, affBtn, roleBtn, roleDisabled, kickBtn, pending,
           kickDialogs, badKick, panicked>>
allVars == <<aff, role, panel>>

\* The muc.Occupant a pointer of the panel designates.
Obj(p) == IF p = Gone THEN [aff |-> "outcast", role |-> "none"] ELSE Occupant(p)

\* CanChangeAffiliation (spec 4.2): the actor is admin or owner and
\* outranks the target in the affiliation lattice.
CanChangeAffiliation(o, oc) ==
    /\ IsAdmin(o.aff) \/ IsOwner(o.aff)
    /\ IsLowerThan(oc.aff, o.aff)

\* Mutant: the role section without the refresh of its disabled label.
ValidateKeepsLabel(s, oc) ==
    [affBtn |-> CanChangeAffiliation(s, oc),
     roleBtn |-> CanChangeRole(s, oc),
     roleDisabled |-> roleDisabled \/ (IsOwner(s.aff) /\ (IsOwner(oc.aff) \/ IsAdmin(oc.aff))),
     kickBtn |-> CanKickOccupant(s, oc)]

\* validateOccupantPrivileges: the affiliation, role and kick sections.
Validate(s, oc) ==
    [affBtn |-> CanChangeAffiliation(s, oc),
     roleBtn |-> CanChangeRole(s, oc),
     roleDisabled |-> IsOwner(s.aff) /\ (IsOwner(oc.aff) \/ IsAdmin(oc.aff)),
     kickBtn |-> CanKickOccupant(s, oc)]

\* refresh: reset, then the refresh callbacks; both end with
\* validateOccupantPrivileges, whose result is what the widgets keep.  With
\* no occupant, refreshOccupantAffiliation dereferences nil and panics.
Refresh(p) ==
    IF p = Nil
       THEN /\ panicked' = TRUE
            /\ UNCHANGED <<affBtn, roleBtn, roleDisabled, kickBtn>>
       ELSE LET w == Validate(Occupant(Self), Obj(p)) IN
            /\ affBtn' = w.affBtn /\ roleBtn' = w.roleBtn
            /\ roleDisabled' = w.roleDisabled /\ kickBtn' = w.kickBtn
            /\ UNCHANGED panicked

\* The roster as MucPrivileges starts it; the panel as newRoomViewRosterInfo
\* leaves it: no occupant, hidden, no widgets shown.
RosterInit ==
    /\ Init
    /\ occupant = Nil /\ shown = FALSE
    /\ affBtn = FALSE /\ roleBtn = FALSE /\ roleDisabled = FALSE
    /\ kickBtn = FALSE
    /\ pending = 0 /\ kickDialogs = {} /\ badKick = FALSE /\ panicked = FALSE

(***************************************************************************)
(* Roster changes, applied off the UI thread, and the panel method each   *)
(* one calls.  Every step of the program stops at a panic.                 *)
(***************************************************************************)

\* Mutant: updateOccupantRole without the refresh.
UpdateOccupantRoleNoRefresh(o, r) ==
    /\ ~panicked /\ pending < MaxQueued
    /\ UpdateRole(o, r)
    /\ UNCHANGED panel

\* An affiliation change, then updateOccupantAffiliation, which queues a
\* refresh whatever the panel shows.
UpdateOccupantAffiliation(o, a) ==
    /\ ~panicked /\ pending < MaxQueued
    /\ UpdateAffiliation(o, a)
    /\ pending' = pending + 1
    /\ UNCHANGED <<occupant, shown, affBtn, roleBtn, roleDisabled, kickBtn,
                   kickDialogs, badKick, panicked>>

\* A role change, then updateOccupantRole, which queues a refresh.
UpdateOccupantRole(o, r) ==
    /\ ~panicked /\ pending < MaxQueued
    /\ UpdateRole(o, r)
    /\ pending' = pending + 1
    /\ UNCHANGED <<occupant, shown, affBtn, roleBtn, roleDisabled, kickBtn,
                   kickDialogs, badKick, panicked>>

\* A ban reaches the panel as the affiliation update to outcast.
BanOccupant(o) ==
    /\ ~panicked /\ pending < MaxQueued /\ o # Self
    /\ Ban(o)
    /\ pending' = pending + 1
    /\ UNCHANGED <<occupant, shown, affBtn, roleBtn, roleDisabled, kickBtn,
                   kickDialogs, badKick, panicked>>

\* A banned nickname joins again as a new muc.Occupant; the panel and the
\* kick dialogs keep their pointers to the old one and hear nothing.
RejoinOccupant(o, a, r) ==
    /\ ~panicked /\ o # Self
    /\ Join(o, a, r)
    /\ occupant' = IF occupant = o THEN Gone ELSE occupant
    /\ kickDialogs' = {IF d = o THEN Gone ELSE d : d \in kickDialogs}
    /\ UNCHANGED <<shown, affBtn, roleBtn, roleDisabled, kickBtn, pending,
                   badKick, panicked>>

\* occupantUpdatedEvent (a presence or status change): occupantUpdated
\* queues a refresh only when an occupant has been shown.
OccupantUpdated ==
    /\ ~panicked /\ pending < MaxQueued /\ occupant # Nil
    /\ pending' = pending + 1
    /\ UNCHANGED <<aff, role, occupant, shown, affBtn, roleBtn, roleDisabled,
                   kickBtn, kickDialogs, badKick, panicked>>

(***************************************************************************)
(* The UI thread: queued refreshes and the user's clicks.                  *)
(***************************************************************************)

\* A queued refresh closure runs.
RunRefresh ==
    /\ ~panicked /\ pending > 0
    /\ pending' = pending - 1
    /\ Refresh(occupant)
    /\ UNCHANGED <<aff, role, occupant, shown, kickDialogs, badKick>>

\* showOccupantInfo for the roster row the user activated.
ShowOccupantInfo(o) ==
    /\ ~panicked /\ Present(o)
    /\ occupant' = o /\ shown' = TRUE
    /\ Refresh(o)
    /\ UNCHANGED <<aff, role, pending, kickDialogs, badKick>>

\* on_hide: hide the view and reset, which validates the privileges again;
\* r.occupant is kept.
Hide ==
    /\ ~panicked /\ shown
    /\ shown' = FALSE
    /\ Refresh(occupant)
    /\ UNCHANGED <<aff, role, occupant, pending, kickDialogs, badKick>>

\* Mutant: the kick button usable before the panel has validated it.
KickOccupantClickedUnguarded ==
    /\ ~panicked
    /\ kickDialogs' = kickDialogs \cup {occupant}
    /\ UNCHANGED <<aff, role, occupant, shown, affBtn, roleBtn, roleDisabled,
                   kickBtn, pending, badKick, panicked>>

\* on_kick: a kick dialog for the occupant the panel points to.
KickOccupantClicked ==
    /\ ~panicked /\ shown /\ kickBtn
    /\ kickDialogs' = kickDialogs \cup {occupant}
    /\ UNCHANGED <<aff, role, occupant, shown, affBtn, roleBtn, roleDisabled,
                   kickBtn, pending, badKick, panicked>>

\* on_ok: start kickOccupant for the nickname the dialog was made for,
\* with no new check of the privileges, and close the dialog.
KickClicked(d) ==
    /\ ~panicked /\ d \in kickDialogs
    /\ badKick' = (badKick \/ ~CanKickOccupant(Occupant(Self), Obj(d)))
    /\ kickDialogs' = kickDialogs \ {d}
    /\ UNCHANGED <<aff, role, occupant, shown, affBtn, roleBtn, roleDisabled,
                   kickBtn, pending, panicked>>

\* on_cancel: close the dialog.
KickCancelClicked(d) ==
    /\ ~panicked /\ d \in kickDialogs
    /\ kickDialogs' = kickDialogs \ {d}
    /\ UNCHANGED <<aff, role, occupant, shown, affBtn, roleBtn, roleDisabled,
                   kickBtn, pending, badKick, panicked>>

\* After a panic the program has exited.
Exited == panicked /\ UNCHANGED allVars

RosterNext ==
    \/ \E o \in Occupants, a \in PresentAffiliations : UpdateOccupantAffiliation(o, a)
    \/ \E o \in Occupants, r \in PresentRoles : UpdateOccupantRole(o, r)
    \/ \E o \in Occupants : BanOccupant(o)
    \/ \E o \in Occupants, a \in PresentAffiliations, r \in PresentRoles :
          RejoinOccupant(o, a, r)
    \/ OccupantUpdated
    \/ RunRefresh
    \/ \E o \in Occupants : ShowOccupantInfo(o)
    \/ Hide
    \/ KickOccupantClicked
    \/ \E d \in kickDialogs : KickClicked(d) \/ KickCancelClicked(d)
    \/ Exited

RosterSpec == RosterInit /\ [][RosterNext]_allVars

(***************************************************************************)
(* Properties.                                                             *)
(***************************************************************************)

PanelTypeOK ==
    /\ occupant \in Occupants \cup {Nil, Gone}
    /\ {shown, affBtn, roleBtn, roleDisabled, kickBtn, badKick, panicked} \subseteq BOOLEAN
    /\ pending \in 0..MaxQueued
    /\ kickDialogs \subseteq Occupants \cup {Gone}

\* Once the UI thread has run every queued refresh, the panel's buttons and
\* label are what validateOccupantPrivileges computes for the self occupant
\* and the occupant shown as they are now: every roster change to either,
\* the self occupant's own included, reaches the panel.
PanelReflectsPrivileges ==
    (shown /\ pending = 0 /\ ~panicked)
        => LET s == Occupant(Self)
               oc == Obj(occupant)
           IN  /\ affBtn = CanChangeAffiliation(s, oc)
               /\ roleBtn = CanChangeRole(s, oc)
               /\ kickBtn = CanKickOccupant(s, oc)
               /\ roleDisabled = (s.aff = "owner" /\ oc.aff \in {"owner", "admin"})

\* updateOccupantAffiliation and updateOccupantRole queue a refresh with no
\* occupant shown, which dereferences the nil r.occupant; occupantUpdated
\* (line 109) guards against exactly that.
NoNilOccupantRefresh == ~panicked

\* A kick is started only when the self occupant may kick its target at
\* that moment, though the dialog was opened earlier.
KickStillAuthorised == ~badKick

====
