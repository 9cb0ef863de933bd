------------------------------ MODULE RoomView ------------------------------
(***************************************************************************)
(* A room window (src/gui/muc_room.go, muc_room_menu.go) with the leave    *)
(* and destroy operations it starts (src/gui/muc_account_room.go) and the  *)
(* asynchronous operation controller that runs them.  The controller,      *)
(* newRoomOpController and doOperation, is not in src/: it is modelled     *)
(* from spec §4.6 (wait for success, error or a cancel request; exactly    *)
(* one outcome).                                                          *)
(*                                                                         *)
(* Threads: the UI thread runs the user's clicks and the closures queued   *)
(* by doInUIThread, in order; each operation runs on goroutines (the one   *)
(* tryLeaveRoom/tryDestroyRoom starts, then ctx.doOperation), whose        *)
(* callbacks run on the goroutine and queue UI work.                       *)
(***************************************************************************)
EXTENDS Naturals, Sequences

CONSTANTS
    MaxOps,          \* bound on operations the user starts
    MaxSelfChanges,  \* bound on changes of the self occupant
    MaxInfoRequests, \* bound on LoadRoomInfo requests (the first and retries)
    AllowCancel      \* whether the operation context is ever cancelled

Kinds == {"leave", "destroy"}

\* addDividerItem names the divider "divider-%d" after len(m.items)+1; right
\* after reset and the destroy item that is always "divider-2".
Divider == "divider-2"

VARIABLES
    alive,       \* the window has not been destroyed
    opened,      \* v.opened
    registered,  \* the account still lists this room view
    spinner,     \* the spinner is shown
    notice,      \* the "room has been destroyed" notification is shown
    menu,        \* the ids of v.menu.items
    self,        \* the self occupant as the room model knows it
    changes,     \* self-occupant changes so far
    uiQueue,     \* closures passed to doInUIThread, not yet run
    ops,         \* ops[o]: operation o, its goroutine and its backend
    infoBar,     \* the loading info bar: "none", "loading", "hidden", "error"
    infoPc,      \* where the goroutine newRoomView starts is in requestRoomInfo
    pending,     \* LoadRoomInfo requests the session has not answered
    requests,    \* LoadRoomInfo requests so far
    warned       \* the room warnings are listed (v.warnings not cleared)

infoVars == <<infoBar, infoPc, pending, requests, warned>>

vars == <<alive, opened, registered, spinner, notice, menu, self, changes,
          uiQueue, ops, infoVars>>

\* Mutant: the divider is added before the destroy item, so it is named
\* after one item fewer.
RefreshRoomMenuDividerFirst(s) ==
    (IF s.owner THEN {"destroy-room", "divider-1"} ELSE {})
        \cup (IF s.joined THEN {"leave-room"} ELSE {})

\* refreshRoomMenu after reset: destroy and a divider for an owner, leave
\* for a joined occupant.
RefreshRoomMenu(s) ==
    (IF s.owner THEN {"destroy-room", Divider} ELSE {})
        \cup (IF s.joined THEN {"leave-room"} ELSE {})

NoSelf == [joined |-> FALSE, owner |-> FALSE]

\* newRoomView: initRoomMenu before the occupant has joined; then show().
Init ==
    /\ alive = TRUE
    /\ opened = TRUE
    /\ registered = TRUE
    /\ spinner = FALSE
    /\ notice = FALSE
    /\ self = NoSelf
    /\ menu = RefreshRoomMenu(NoSelf)
    /\ changes = 0
    /\ uiQueue = <<>>
    /\ ops = <<>>
    /\ infoBar = "none"
    /\ infoPc = "start"
    /\ pending = 0
    /\ requests = 0
    /\ warned = FALSE

(***************************************************************************)
(* The room model (not in src/): the self occupant joins, gains or loses   *)
(* ownership or leaves, and the room publishes an event that the view's   *)
(* "room" subscriber forwards with doInUIThread (initSubscribers).  The    *)
(* subscription outlives the window.                                       *)
(***************************************************************************)
SelfChange(s) ==
    /\ changes < MaxSelfChanges
    /\ s # self
    /\ self' = s
    /\ changes' = changes + 1
    /\ uiQueue' = Append(uiQueue, "event")
    /\ UNCHANGED <<infoVars, alive, opened, registered, spinner, notice, menu, ops>>

(***************************************************************************)
(* The user, on the UI thread.                                             *)
(***************************************************************************)

NewOp(k) == [kind |-> k, pc |-> "spawn", result |-> "none", cancelReq |-> FALSE]

\* The menu's "Leave room": onLeaveRoom -> tryLeaveRoom shows the spinner and
\* starts the goroutine that calls account.leaveRoom.
ClickLeave ==
    /\ alive /\ "leave-room" \in menu
    /\ Len(ops) < MaxOps
    /\ spinner' = TRUE
    /\ ops' = Append(ops, NewOp("leave"))
    /\ UNCHANGED <<infoVars, alive, opened, registered, notice, menu, self, changes, uiQueue>>

\* The menu's "Destroy room", confirmed in the destroy dialog:
\* tryDestroyRoom shows the spinner and runs account.destroyRoom on a
\* goroutine.
ConfirmDestroy ==
    /\ alive /\ "destroy-room" \in menu
    /\ Len(ops) < MaxOps
    /\ spinner' = TRUE
    /\ ops' = Append(ops, NewOp("destroy"))
    /\ UNCHANGED <<infoVars, alive, opened, registered, notice, menu, self, changes, uiQueue>>

\* onDestroyWindow: opened = false, the account forgets the view, and
\* cancelActiveRequests finds v.cancel nil (no code sets it) and returns.
DestroyWindowEffects ==
    /\ alive' = FALSE
    /\ opened' = FALSE
    /\ registered' = FALSE

\* The user closes the window.
CloseWindow ==
    /\ alive
    /\ DestroyWindowEffects
    /\ UNCHANGED <<infoVars, spinner, notice, menu, self, changes, uiQueue, ops>>

(***************************************************************************)
(* Operation o.                                                            *)
(***************************************************************************)

SetPc(o, pc) == ops' = [ops EXCEPT ![o].pc = pc]

\* The goroutine of tryLeaveRoom / tryDestroyRoom calls account.leaveRoom
\* or account.destroyRoom, which builds the controller and its context and
\* starts ctx.doOperation on a new goroutine.
Launch(o) ==
    /\ ops[o].pc = "spawn"
    /\ SetPc(o, "start")
    /\ UNCHANGED <<infoVars, alive, opened, registered, spinner, notice, menu, self,
                   changes, uiQueue>>

\* doOperation calls the start function (session.LeaveRoom or
\* session.DestroyRoom), which hands back the success and error channels.
OpStart(o) ==
    /\ ops[o].pc = "start"
    /\ SetPc(o, "wait")
    /\ UNCHANGED <<infoVars, alive, opened, registered, spinner, notice, menu, self,
                   changes, uiQueue>>

\* The backend delivers one value on one of its channels (spec §6), at
\* most once.
BackendAnswer(o) ==
    /\ ops[o].pc \in {"start", "wait"} /\ ops[o].result = "none"
    /\ \E r \in {"ok", "err"} : ops' = [ops EXCEPT ![o].result = r]
    /\ UNCHANGED <<infoVars, alive, opened, registered, spinner, notice, menu, self,
                   changes, uiQueue>>

\* The context of operation o is cancelled; after the end it changes
\* nothing the controller looks at.
CancelRequest(o) ==
    /\ AllowCancel /\ ~ops[o].cancelReq
    /\ ops' = [ops EXCEPT ![o].cancelReq = TRUE]
    /\ UNCHANGED <<infoVars, alive, opened, registered, spinner, notice, menu, self,
                   changes, uiQueue>>

\* The controller wakes on whichever condition holds: success, error, or
\* the cancel request (then the cancel hook runs and no callback).
OpSelect(o) ==
    /\ ops[o].pc = "wait"
    /\ \/ ops[o].result = "ok" /\ SetPc(o, "success")
       \/ ops[o].result = "err" /\ SetPc(o, "error")
       \/ ops[o].cancelReq /\ SetPc(o, "cancelled")
    /\ UNCHANGED <<infoVars, alive, opened, registered, spinner, notice, menu, self,
                   changes, uiQueue>>

\* Mutant: leave runs only leaveRoomSuccess; the view's own callback, which
\* destroys the window, is not passed on.
SuccessCallbackNoDestroy(o) ==
    /\ ops[o].pc = "success"
    /\ SetPc(o, "succeeded")
    /\ IF ops[o].kind = "leave"
          THEN /\ registered' = FALSE
               /\ UNCHANGED uiQueue
          ELSE /\ uiQueue' = Append(uiQueue, "roomDestroyed")
               /\ UNCHANGED registered
    /\ UNCHANGED <<infoVars, alive, opened, spinner, notice, menu, self, changes>>

\* The success callback, on the operation's goroutine.  Leave:
\* leaveRoomSuccess removes the room view from the account, then the view's
\* callback queues v.window.Destroy.  Destroy: onSuccessFinal queues
\* onRoomDestroyed.
SuccessCallback(o) ==
    /\ ops[o].pc = "success"
    /\ SetPc(o, "succeeded")
    /\ IF ops[o].kind = "leave"
          THEN /\ registered' = FALSE
               /\ uiQueue' = Append(uiQueue, "destroyWindow")
          ELSE /\ uiQueue' = Append(uiQueue, "roomDestroyed")
               /\ UNCHANGED registered
    /\ UNCHANGED <<infoVars, alive, opened, spinner, notice, menu, self, changes>>

\* The error callback, on the operation's goroutine: log, queue
\* spinner.hide.
ErrorCallback(o) ==
    /\ ops[o].pc = "error"
    /\ SetPc(o, "failed")
    /\ uiQueue' = Append(uiQueue, "hideSpinner")
    /\ UNCHANGED <<infoVars, alive, opened, registered, spinner, notice, menu, self, changes>>

(***************************************************************************)
(* Room information.  newRoomView starts requestRoomInfo on a goroutine:   *)
(* it queues loadingInfoBar.start, then calls session.LoadRoomInfo.  The   *)
(* session is not in src/: as spec §6 says of backend calls, each request  *)
(* is answered once, here by a roomConfigReceivedEvent or a                *)
(* roomConfigRequestTimeoutEvent that the view's "room" subscriber queues  *)
(* on the UI thread (initSubscribers).                                     *)
(***************************************************************************)

LoadRoomInfo ==
    /\ pending' = pending + 1
    /\ requests' = requests + 1

\* Mutant: LoadRoomInfo is called before loadingInfoBar.start is queued.
RequestRoomInfoLoadFirst ==
    /\ \/ /\ infoPc = "start"
          /\ LoadRoomInfo /\ infoPc' = "load"
          /\ UNCHANGED uiQueue
       \/ /\ infoPc = "load"
          /\ uiQueue' = Append(uiQueue, "infoStart") /\ infoPc' = "idle"
          /\ UNCHANGED <<pending, requests>>
    /\ UNCHANGED <<alive, opened, registered, spinner, notice, menu, self,
                   changes, ops, infoBar, warned>>

\* The goroutine of requestRoomInfo: doInUIThread(v.loadingInfoBar.start),
\* then v.account.session.LoadRoomInfo.
RequestRoomInfo ==
    /\ \/ /\ infoPc = "start"
          /\ uiQueue' = Append(uiQueue, "infoStart") /\ infoPc' = "load"
          /\ UNCHANGED <<pending, requests>>
       \/ /\ infoPc = "load"
          /\ LoadRoomInfo /\ infoPc' = "idle"
          /\ UNCHANGED uiQueue
    /\ UNCHANGED <<alive, opened, registered, spinner, notice, menu, self,
                   changes, ops, infoBar, warned>>

\* The error bar's retry button, which roomConfigRequestTimeoutEvent gives
\* v.requestRoomInfo: the same two steps, on the UI thread.  Nothing in
\* src/ hides the button when it is clicked; the bar changes when the
\* queued start runs.
RetryRoomInfo ==
    /\ alive /\ infoBar = "error"
    /\ requests < MaxInfoRequests
    /\ uiQueue' = Append(uiQueue, "infoStart")
    /\ LoadRoomInfo
    /\ UNCHANGED <<alive, opened, registered, spinner, notice, menu, self,
                   changes, ops, infoBar, infoPc, warned>>

\* The session answers one outstanding request.
RoomInfoAnswer ==
    /\ pending > 0
    /\ pending' = pending - 1
    /\ \E ev \in {"configReceived", "configTimeout"} : uiQueue' = Append(uiQueue, ev)
    /\ UNCHANGED <<alive, opened, registered, spinner, notice, menu, self,
                   changes, ops, infoBar, infoPc, requests, warned>>

(***************************************************************************)
(* The UI thread runs the oldest queued closure.                           *)
(***************************************************************************)

\* v.window.Destroy: the window emits on_destroy_window once; destroying a
\* destroyed window does nothing.
RunDestroyWindow ==
    /\ uiQueue # <<>> /\ Head(uiQueue) = "destroyWindow"
    /\ IF alive THEN DestroyWindowEffects ELSE UNCHANGED <<alive, opened, registered>>
    /\ uiQueue' = Tail(uiQueue)
    /\ UNCHANGED <<infoVars, spinner, notice, menu, self, changes, ops>>

\* spinner.hide, or onRoomDestroyed's notification.
RunWidgetClosure ==
    /\ uiQueue # <<>> /\ Head(uiQueue) \in {"hideSpinner", "roomDestroyed"}
    /\ IF Head(uiQueue) = "hideSpinner"
          THEN spinner' = FALSE /\ UNCHANGED notice
          ELSE notice' = TRUE /\ UNCHANGED spinner
    /\ uiQueue' = Tail(uiQueue)
    /\ UNCHANGED <<infoVars, alive, opened, registered, menu, self, changes, ops>>

\* Mutant: refreshRoomMenu adds the items without resetting the menu.
RunEventNoReset ==
    /\ uiQueue # <<>> /\ Head(uiQueue) = "event"
    /\ menu' = menu \cup RefreshRoomMenu(self)
    /\ uiQueue' = Tail(uiQueue)
    /\ UNCHANGED <<infoVars, alive, opened, registered, spinner, notice, self, changes, ops>>

\* onEventReceived for an event of no other case: it refreshes the room
\* menu from the current self occupant.
RunEvent ==
    /\ uiQueue # <<>> /\ Head(uiQueue) = "event"
    /\ menu' = RefreshRoomMenu(self)
    /\ uiQueue' = Tail(uiQueue)
    /\ UNCHANGED <<infoVars, alive, opened, registered, spinner, notice, self, changes, ops>>

\* loadingInfoBar.start.
RunInfoStart ==
    /\ uiQueue # <<>> /\ Head(uiQueue) = "infoStart"
    /\ infoBar' = "loading"
    /\ uiQueue' = Tail(uiQueue)
    /\ UNCHANGED <<alive, opened, registered, spinner, notice, menu, self,
                   changes, ops, infoPc, pending, requests, warned>>

\* onEventReceived for roomConfigReceivedEvent: hide the loading bar, clear
\* the warnings and add those showRoomWarnings computes (the encryption one
\* always), add the warnings bar; then refreshRoomMenu.
RunConfigReceived ==
    /\ uiQueue # <<>> /\ Head(uiQueue) = "configReceived"
    /\ infoBar' = "hidden"
    /\ warned' = TRUE
    /\ menu' = RefreshRoomMenu(self)
    /\ uiQueue' = Tail(uiQueue)
    /\ UNCHANGED <<alive, opened, registered, spinner, notice, self, changes,
                   ops, infoPc, pending, requests>>

\* onEventReceived for roomConfigRequestTimeoutEvent: clear the warnings,
\* show the error bar with its retry button; then refreshRoomMenu.
RunConfigTimeout ==
    /\ uiQueue # <<>> /\ Head(uiQueue) = "configTimeout"
    /\ warned' = FALSE
    /\ infoBar' = "error"
    /\ menu' = RefreshRoomMenu(self)
    /\ uiQueue' = Tail(uiQueue)
    /\ UNCHANGED <<alive, opened, registered, spinner, notice, self, changes,
                   ops, infoPc, pending, requests>>

OpIds == DOMAIN ops

\* The window is gone, every goroutine has returned or waits for an answer
\* that may never come, and the UI queue is empty.  While the window is
\* open the user can always close it.
Terminated ==
    /\ ~alive
    /\ uiQueue = <<>>
    /\ \A o \in OpIds : ops[o].pc \in {"succeeded", "failed", "cancelled", "wait"}
    /\ infoPc = "idle" /\ pending = 0

Done == Terminated /\ UNCHANGED vars

OpStep(o) ==
    \/ Launch(o) \/ OpStart(o) \/ OpSelect(o)
    \/ SuccessCallback(o) \/ ErrorCallback(o)

RunUIClosure ==
    \/ RunDestroyWindow \/ RunWidgetClosure \/ RunEvent
    \/ RunInfoStart \/ RunConfigReceived \/ RunConfigTimeout

Selves == [joined : BOOLEAN, owner : BOOLEAN]

Next ==
    \/ ClickLeave \/ ConfirmDestroy \/ CloseWindow
    \/ \E s \in Selves : SelfChange(s)
    \/ \E o \in OpIds : OpStep(o) \/ BackendAnswer(o) \/ CancelRequest(o)
    \/ RequestRoomInfo \/ RetryRoomInfo \/ RoomInfoAnswer
    \/ RunUIClosure
    \/ Done

\* Goroutines and the GTK main loop are scheduled fairly.  The session
\* answers a room information request (with the timeout event if nothing
\* else).  The operations' backend, the room and the user owe nothing.
Fairness ==
    /\ \A o \in 1..MaxOps : WF_vars(o \in OpIds /\ OpStep(o))
    /\ WF_vars(RequestRoomInfo)
    /\ WF_vars(RoomInfoAnswer)
    /\ WF_vars(RunUIClosure)

Spec == Init /\ [][Next]_vars /\ Fairness

(***************************************************************************)
(* Properties.                                                             *)
(***************************************************************************)

Closures == {"destroyWindow", "hideSpinner", "roomDestroyed", "event",
             "infoStart", "configReceived", "configTimeout"}

TypeOK ==
    /\ alive \in BOOLEAN /\ opened \in BOOLEAN /\ registered \in BOOLEAN
    /\ spinner \in BOOLEAN /\ notice \in BOOLEAN
    /\ self \in Selves /\ changes \in 0..MaxSelfChanges
    /\ menu \subseteq {"destroy-room", "leave-room", Divider}
    /\ \A i \in DOMAIN uiQueue : uiQueue[i] \in Closures
    /\ Len(ops) \in 0..MaxOps
    /\ \A o \in OpIds :
          /\ ops[o].kind \in Kinds
          /\ ops[o].pc \in {"spawn", "start", "wait", "success", "error",
                            "succeeded", "failed", "cancelled"}
          /\ ops[o].result \in {"none", "ok", "err"}
    /\ infoBar \in {"none", "loading", "hidden", "error"}
    /\ infoPc \in {"start", "load", "idle"}
    /\ pending \in 0..requests /\ requests \in 0..MaxInfoRequests
    /\ warned \in BOOLEAN

\* Whenever no room event is waiting for the UI thread, the open window's
\* menu offers exactly what refreshRoomMenu computes for the current self
\* occupant: destroy (with its divider) to an owner, leave to a joined one.
MenuReflectsSelf ==
    (alive /\ \A i \in DOMAIN uiQueue : uiQueue[i] # "event")
        => menu = RefreshRoomMenu(self)

\* A leave whose success callback has started ends with the window
\* destroyed, v.opened false and the view gone from the account.
LeaveClosesView ==
    \A o \in 1..MaxOps :
        (o \in OpIds /\ ops[o].kind = "leave" /\ ops[o].pc = "success")
            ~> (~alive /\ ~opened /\ ~registered)

\* The loading bar loadingInfoBar.start shows is always replaced, by the
\* room's warnings or by the timeout error: requestRoomInfo queues the
\* start before it asks the session, so no answer is handled before it.
LoadingEnds == infoBar = "loading" ~> infoBar \in {"hidden", "error"}

\* Once the room information is shown, a timeout never replaces it with
\* the error bar: the retry button stays clickable until the start it
\* queued has run, so two clicks make two LoadRoomInfo requests, and the
\* answer to one may be a timeout handled after the other's information.
InfoNotReplacedByTimeout ==
    [][ infoBar = "hidden" => infoBar' # "error" ]_vars

====
