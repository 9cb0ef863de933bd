---------------------------- MODULE CreateRoomForm ----------------------------
(***************************************************************************)
(* The create room form of src/gui/muc_create_room_form.go: the room name  *)
(* entry, the service entry and the account selector, the create button   *)
(* that enableCreationIfConditionsAreMet makes sensitive or not, the       *)
(* spinner, and the goroutine listenToCreateError that waits for the      *)
(* outcome of v.createRoom and records conflicting room ids in             *)
(* f.roomNameConflictList.  v.createRoom itself is not in src/: it sends   *)
(* one of the errors the listener's switch names.                          *)
(***************************************************************************)
EXTENDS Naturals, Sequences

CONSTANTS
    Names,      \* the room names the user may type; "" is the empty entry
    MaxCreates  \* bound on create attempts

Errors == {"checkIfExistsFails", "alreadyExists", "failed"}

VARIABLES
    name,        \* the text of the room name entry
    service,     \* the service entry holds a value
    account,     \* currentAccount() is not nil
    conflicts,   \* f.roomNameConflictList: room ids known to exist
    button,      \* the create button is sensitive
    fields,      \* the room entry and the selectors are sensitive
    spinner,     \* the spinner is shown
    listener,    \* listenToCreateError: "none", "waiting" or the error it got
    target,      \* the room id of the create in flight
    creates,     \* create attempts so far
    uiQueue      \* closures passed to doInUIThread, not yet run

vars == <<name, service, account, conflicts, button, fields, spinner,
          listener, target, creates, uiQueue>>

\* validateRoomRequiredFields.
RequiredFields(n, s, a) == n # "" /\ s /\ a

\* validateIfRoomIsInConflict: it fails, with "That room already exists",
\* when isRoomInConflict is false.
NotInConflict(n, c) == n \in c

\* enableCreationIfConditionsAreMet runs the validations in order and stops
\* at the first that fails; the deferred SetSensitive takes the last result.
CanCreate(n, s, a, c) == RequiredFields(n, s, a) /\ NotInConflict(n, c)

\* newCreateRoomForm: reset() hides the spinner, enables the fields and
\* clearFields() empties the name, which re-evaluates the button.
Init ==
    /\ name = ""
    /\ service = FALSE
    /\ account = FALSE
    /\ conflicts = {}
    /\ fields = TRUE
    /\ button = CanCreate("", FALSE, FALSE, {})
    /\ spinner = FALSE
    /\ listener = "none"
    /\ target = ""
    /\ creates = 0
    /\ uiQueue = <<>>

(***************************************************************************)
(* The user and the accounts component, on the UI thread.                 *)
(***************************************************************************)

\* on_roomName_change: the entry changes, then enableCreationIfConditionsAreMet.
TypeName(n) ==
    /\ fields /\ n # name
    /\ name' = n
    /\ button' = CanCreate(n, service, account, conflicts)
    /\ UNCHANGED <<service, account, conflicts, fields, spinner, listener,
                   target, creates, uiQueue>>

\* on_chatServiceEntry_change: the service entry gains or loses its text.
EditService(s) ==
    /\ fields /\ s # service
    /\ service' = s
    /\ button' = CanCreate(name, s, account, conflicts)
    /\ UNCHANGED <<name, account, conflicts, fields, spinner, listener,
                   target, creates, uiQueue>>

\* The accounts component selects an account (updateServicesBasedOnAccount)
\* or reports that none is connected (onNoAccountsConnected); either way a
\* closure re-evaluates the button later.
AccountChange(a) ==
    /\ a # account
    /\ account' = a
    /\ uiQueue' = Append(uiQueue, "check")
    /\ UNCHANGED <<name, service, conflicts, button, fields, spinner, listener,
                   target, creates>>

\* on_create_room: onCreateRoom validates the name, the service and the
\* account, returning with an error notification when one is missing;
\* otherwise it shows the spinner, disables the fields and starts
\* createRoom, whose listener waits for the outcome.
ClickCreate ==
    /\ button /\ creates < MaxCreates
    /\ creates' = creates + 1
    /\ IF RequiredFields(name, service, account)
          THEN /\ spinner' = TRUE
               /\ fields' = FALSE /\ button' = FALSE
               /\ listener' = "waiting" /\ target' = name
          ELSE UNCHANGED <<spinner, fields, button, listener, target>>
    /\ UNCHANGED <<name, service, account, conflicts, uiQueue>>

(***************************************************************************)
(* The listener goroutine.                                                 *)
(***************************************************************************)

\* err := <-errors and the switch: an existing room is added to the
\* conflict list right here, off the UI thread.
ListenToCreateError(e) ==
    /\ listener = "waiting"
    /\ listener' = e
    /\ conflicts' = IF e = "alreadyExists" THEN conflicts \cup {target} ELSE conflicts
    /\ uiQueue' = Append(uiQueue, e)
    /\ UNCHANGED <<name, service, account, button, fields, spinner, target, creates>>

(***************************************************************************)
(* The UI thread runs the oldest queued closure.                           *)
(***************************************************************************)

\* onCreateRoomCheckIfExistsFails and onCreateRoomAlreadyExists hide the
\* spinner and enableFields (which makes the button sensitive); the latter
\* then makes the button insensitive.  onCreateRoomFailed only notifies.
RunCreateOutcome ==
    /\ uiQueue # <<>> /\ Head(uiQueue) \in Errors
    /\ LET e == Head(uiQueue) IN
       IF e = "failed"
          THEN UNCHANGED <<button, fields, spinner>>
          ELSE /\ spinner' = FALSE /\ fields' = TRUE
               /\ button' = (e = "checkIfExistsFails")
    /\ uiQueue' = Tail(uiQueue)
    /\ UNCHANGED <<name, service, account, conflicts, listener, target, creates>>

\* The closure of updateServicesBasedOnAccount or onNoAccountsConnected:
\* enableCreationIfConditionsAreMet.
RunCheck ==
    /\ uiQueue # <<>> /\ Head(uiQueue) = "check"
    /\ button' = CanCreate(name, service, account, conflicts)
    /\ uiQueue' = Tail(uiQueue)
    /\ UNCHANGED <<name, service, account, conflicts, fields, spinner, listener,
                   target, creates>>

Next ==
    \/ \E n \in Names : TypeName(n)
    \/ \E s \in BOOLEAN : EditService(s)
    \/ \E a \in BOOLEAN : AccountChange(a)
    \/ ClickCreate
    \/ \E e \in Errors : ListenToCreateError(e)
    \/ RunCreateOutcome \/ RunCheck

Spec == Init /\ [][Next]_vars

(***************************************************************************)
(* Properties.                                                             *)
(***************************************************************************)

TypeOK ==
    /\ name \in Names /\ service \in BOOLEAN /\ account \in BOOLEAN
    /\ conflicts \subseteq Names /\ button \in BOOLEAN /\ fields \in BOOLEAN
    /\ listener \in {"none", "waiting"} \cup Errors
    /\ creates \in 0..MaxCreates

\* When the form is idle and usable, the create button is sensitive exactly
\* when the name, service and account are given and the room is not one the
\* server said already exists (the notification of
\* validateIfRoomIsInConflict says "That room already exists").
CreateEnabledIffCreatable ==
    (fields /\ uiQueue = <<>> /\ listener # "waiting")
        => (button <=> (RequiredFields(name, service, account) /\ name \notin conflicts))

====
