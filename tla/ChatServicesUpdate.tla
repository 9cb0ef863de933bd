------------------------- MODULE ChatServicesUpdate -------------------------
(***************************************************************************)
(* The chat services list of src/gui/muc_chat_services_component.go, as    *)
(* the create room form drives it.  Each account change runs              *)
(* updateServicesBasedOnAccount on a new goroutine (muc_create_room_form  *)
(* .go line 241), the "switcher".  A switcher cancels the previous update *)
(* by sending on c.previousUpdateChannel, makes a new channel, asks the    *)
(* backend for the account's services and starts updateChatServices, the  *)
(* "updater", which streams them into the list through doInUIThread.      *)
(* c.previousUpdateChannel is a plain field: switchers read it twice       *)
(* (the nil test, then the send), updaters read it on every entry to their *)
(* select, and a finishing updater sets it to nil.  Channels are           *)
(* unbuffered; a send to nil blocks forever.                               *)
(*                                                                         *)
(* Switchers and updaters are numbered by the account change that started  *)
(* them.                                                                   *)
(***************************************************************************)
EXTENDS Naturals, Sequences

CONSTANTS
    Accounts,       \* the connected accounts
    Services,       \* Services[a]: the services GetChatServices streams for a
    Typed,          \* the text a user may type into the service entry
    MaxSwitches     \* bound on account changes

Nil == 0
NoAccount == "none"

ServicesOf(a) == {Services[a][i] : i \in DOMAIN Services[a]}

VARIABLES
    field,      \* c.previousUpdateChannel: Nil or a channel id
    chans,      \* channels made so far
    sw,         \* sw[i]: switcher i
    up,         \* up[i]: updater i, with what its backend has left to send
    uiQueue,    \* closures passed to doInUIThread, not yet run
    list,       \* the items of c.servicesList
    entry,      \* the text of the service entry
    current,    \* the account selected last
    patient     \* this user changes account only once the list has loaded

vars == <<field, chans, sw, up, uiQueue, list, entry, current, patient>>

Switchers == DOMAIN sw

Init ==
    /\ field = Nil
    /\ chans = 0
    /\ sw = <<>>
    /\ up = <<>>
    /\ uiQueue = <<>>
    /\ list = <<>>
    /\ entry = ""
    /\ current = NoAccount
    /\ patient \in BOOLEAN

Closure(k, u, svc) == [k |-> k, u |-> u, svc |-> svc]

\* Nothing is running: every switcher has returned (or is blocked for
\* good), every updater has returned, the UI queue is empty.
Settled ==
    /\ \A i \in Switchers : sw[i].pc \in {"done", "blocked"}
    /\ \A u \in DOMAIN up : up[u].pc \in {"none", "done"}
    /\ uiQueue = <<>>

(***************************************************************************)
(* The user.                                                               *)
(***************************************************************************)

\* The accounts component reports a new account: the form runs
\* updateServicesBasedOnAccount on a new goroutine.
Switch(a) ==
    /\ Len(sw) < MaxSwitches
    /\ patient => Settled /\ \A i \in Switchers : sw[i].pc = "done"
    /\ sw' = Append(sw, [pc |-> "check", acct |-> a, ch |-> Nil])
    /\ up' = Append(up, [pc |-> "none", acct |-> a, rest |-> <<>>,
                         fails |-> FALSE, sel |-> Nil, typed |-> "",
                         hadAny |-> FALSE, how |-> "none"])
    /\ current' = a
    /\ UNCHANGED <<field, chans, uiQueue, list, entry>>

\* The user types a service name.
Type(t) ==
    /\ entry # t
    /\ entry' = t
    /\ UNCHANGED <<field, chans, sw, up, uiQueue, list, current>>

(***************************************************************************)
(* Switcher i: updateServicesBasedOnAccount (lines 30-40).                 *)
(***************************************************************************)

\* if c.previousUpdateChannel != nil
SwitcherCheck(i) ==
    /\ sw[i].pc = "check"
    /\ sw' = [sw EXCEPT ![i].pc = IF field # Nil THEN "send" ELSE "make"]
    /\ UNCHANGED <<field, chans, up, uiQueue, list, entry, current>>

\* c.previousUpdateChannel <- true: the field is read again, then the send
\* blocks until an updater receives.
SwitcherSend(i) ==
    /\ sw[i].pc = "send"
    /\ sw' = [sw EXCEPT ![i].pc = "blocked", ![i].ch = field]
    /\ UNCHANGED <<field, chans, up, uiQueue, list, entry, current>>

\* The send pairs with updater u's select on the same channel, which then
\* queues removeAll, calls endEarly (its backend stops) and returns.
CancelReceived(i, u) ==
    /\ sw[i].pc = "blocked" /\ sw[i].ch # Nil
    /\ up[u].pc = "select" /\ up[u].sel = sw[i].ch
    /\ sw' = [sw EXCEPT ![i].pc = "make"]
    /\ up' = [up EXCEPT ![u].pc = "fin", ![u].how = "cancel", ![u].rest = <<>>]
    /\ uiQueue' = Append(uiQueue, Closure("remove", u, ""))
    /\ UNCHANGED <<field, chans, list, entry, current>>

\* Make the new channel, call GetChatServices (which may fail) and start
\* the updater.
SwitcherMake(i) ==
    /\ sw[i].pc = "make"
    /\ chans' = chans + 1
    /\ field' = chans + 1
    /\ \E fails \in BOOLEAN :
          up' = [up EXCEPT ![i].pc = "start", ![i].fails = fails,
                           ![i].rest = IF fails THEN <<>> ELSE Services[sw[i].acct]]
    /\ sw' = [sw EXCEPT ![i].pc = "done"]
    /\ UNCHANGED <<uiQueue, list, entry, current>>

(***************************************************************************)
(* Updater u: updateChatServices (lines 42-90).                           *)
(***************************************************************************)

\* doInUIThread of the closure that reports the typed service and empties
\* the list; the updater then waits on ts.
UpdaterStart(u) ==
    /\ up[u].pc = "start"
    /\ up' = [up EXCEPT ![u].pc = "wait"]
    /\ uiQueue' = Append(uiQueue, Closure("snapshot", u, ""))
    /\ UNCHANGED <<field, chans, sw, list, entry, current>>

\* Each pass of the for loop evaluates c.previousUpdateChannel anew.
EnterSelect(u) ==
    /\ up[u].pc = "loop"
    /\ up' = [up EXCEPT ![u].pc = "select", ![u].sel = field]
    /\ UNCHANGED <<field, chans, sw, uiQueue, list, entry, current>>

\* Mutant: the error is logged and the loop goes on.
ReceiveErrorContinues(u) ==
    /\ up[u].pc = "select" /\ up[u].fails
    /\ up' = [up EXCEPT ![u].pc = "loop"]
    /\ UNCHANGED <<field, chans, sw, uiQueue, list, entry, current>>

\* case err := <-ec: return.
ReceiveError(u) ==
    /\ up[u].pc = "select" /\ up[u].fails
    /\ up' = [up EXCEPT ![u].pc = "fin", ![u].how = "error"]
    /\ UNCHANGED <<field, chans, sw, uiQueue, list, entry, current>>

\* case cs, ok := <-csc with ok: queue addService.
ReceiveService(u) ==
    /\ up[u].pc = "select" /\ ~up[u].fails /\ up[u].rest # <<>>
    /\ up' = [up EXCEPT ![u].pc = "loop", ![u].hadAny = TRUE,
                        ![u].rest = Tail(up[u].rest)]
    /\ uiQueue' = Append(uiQueue, Closure("add", u, Head(up[u].rest)))
    /\ UNCHANGED <<field, chans, sw, list, entry, current>>

\* Mutant: the stream is taken as closed one service early.
StreamClosedEarly(u) ==
    /\ up[u].pc = "select" /\ ~up[u].fails /\ Len(up[u].rest) <= 1
    /\ up' = [up EXCEPT ![u].pc = "fin", ![u].how = "closed"]
    /\ UNCHANGED <<field, chans, sw, uiQueue, list, entry, current>>

\* csc closed: return.
StreamClosed(u) ==
    /\ up[u].pc = "select" /\ ~up[u].fails /\ up[u].rest = <<>>
    /\ up' = [up EXCEPT ![u].pc = "fin", ![u].how = "closed"]
    /\ UNCHANGED <<field, chans, sw, uiQueue, list, entry, current>>

\* The condition of onUpdateChatServicesFinished for selecting item 0.
SelectsFirst(u) == up[u].hadAny /\ up[u].typed = ""

\* The deferred onUpdateChatServicesFinished: maybe queue setActive(0),
\* then c.previousUpdateChannel = nil.
Finish(u) ==
    /\ up[u].pc = "fin"
    /\ uiQueue' = IF SelectsFirst(u) THEN Append(uiQueue, Closure("select", u, ""))
                                     ELSE uiQueue
    /\ field' = Nil
    /\ up' = [up EXCEPT ![u].pc = "done"]
    /\ UNCHANGED <<chans, sw, list, entry, current>>

(***************************************************************************)
(* The UI thread runs the oldest queued closure.                           *)
(***************************************************************************)

\* Mutant: the snapshot closure does not call removeAll.
SnapshotKeepsList ==
    /\ uiQueue # <<>> /\ Head(uiQueue).k = "snapshot"
    /\ up' = [up EXCEPT ![Head(uiQueue).u].pc = "loop",
                        ![Head(uiQueue).u].typed = entry]
    /\ uiQueue' = Tail(uiQueue)
    /\ UNCHANGED <<field, chans, sw, list, entry, current>>

\* currentService, ts <- t (the updater is waiting on ts), removeAll.
RunSnapshot ==
    /\ uiQueue # <<>> /\ Head(uiQueue).k = "snapshot"
    /\ up' = [up EXCEPT ![Head(uiQueue).u].pc = "loop",
                        ![Head(uiQueue).u].typed = entry]
    /\ list' = <<>>
    /\ uiQueue' = Tail(uiQueue)
    /\ UNCHANGED <<field, chans, sw, entry, current>>

\* Mutant: addService appends the entry's text instead of the service.
AddServiceText ==
    /\ uiQueue # <<>> /\ Head(uiQueue).k \in {"add", "remove", "select"}
    /\ LET cl == Head(uiQueue) IN
       CASE cl.k = "add"    -> list' = Append(list, entry) /\ entry' = entry
         [] cl.k = "remove" -> list' = <<>> /\ entry' = entry
         [] cl.k = "select" -> list' = list
                               /\ entry' = IF list # <<>> THEN list[1] ELSE entry
    /\ uiQueue' = Tail(uiQueue)
    /\ UNCHANGED <<field, chans, sw, up, current>>

\* addService, removeAll, or setActive(0), which shows the first item in
\* the entry.
RunListClosure ==
    /\ uiQueue # <<>> /\ Head(uiQueue).k \in {"add", "remove", "select"}
    /\ LET cl == Head(uiQueue) IN
       CASE cl.k = "add"    -> list' = Append(list, cl.svc) /\ entry' = entry
         [] cl.k = "remove" -> list' = <<>> /\ entry' = entry
         [] cl.k = "select" -> list' = list
                               /\ entry' = IF list # <<>> THEN list[1] ELSE entry
    /\ uiQueue' = Tail(uiQueue)
    /\ UNCHANGED <<field, chans, sw, up, current>>

\* Every goroutine has returned or is blocked for good, and the bound on
\* account changes is used up (or the user can no longer change account).
Terminated ==
    /\ Settled
    /\ Len(sw) = MaxSwitches \/ \E i \in Switchers : sw[i].pc = "blocked"

Done == Terminated /\ UNCHANGED vars

SwitcherStep(i) ==
    \/ SwitcherCheck(i) \/ SwitcherSend(i) \/ SwitcherMake(i)
    \/ \E u \in DOMAIN up : CancelReceived(i, u)

\* One step of updater u; the select takes whichever case is ready.
UpdaterStep(u) ==
    \/ UpdaterStart(u) \/ EnterSelect(u) \/ ReceiveError(u)
    \/ ReceiveService(u) \/ StreamClosed(u) \/ Finish(u)
    \/ \E i \in Switchers : CancelReceived(i, u)

RunUIClosure == RunSnapshot \/ RunListClosure

\* Whether the user waits for the list is fixed for a behaviour.
Next ==
    /\ \/ \E a \in Accounts : Switch(a)
       \/ \E t \in Typed : Type(t)
       \/ \E i \in Switchers : SwitcherStep(i)
       \/ \E u \in DOMAIN up : UpdaterStep(u)
       \/ RunUIClosure
       \/ Done
    /\ UNCHANGED patient

\* Goroutines and the main loop are scheduled fairly; the backend sends
\* what it has when received from.  The user owes nothing.
Fairness ==
    /\ \A i \in 1..MaxSwitches :
          WF_vars(i \in Switchers /\ SwitcherStep(i) /\ UNCHANGED patient)
    /\ \A u \in 1..MaxSwitches :
          WF_vars(u \in DOMAIN up /\ UpdaterStep(u) /\ UNCHANGED patient)
    /\ WF_vars(RunUIClosure /\ UNCHANGED patient)

Spec == Init /\ [][Next]_vars /\ Fairness

(***************************************************************************)
(* Properties.                                                             *)
(***************************************************************************)

TypeOK ==
    /\ chans \in 0..MaxSwitches
    /\ field \in 0..chans
    /\ Len(sw) \in 0..MaxSwitches /\ DOMAIN up = DOMAIN sw
    /\ \A i \in Switchers :
          /\ sw[i].pc \in {"check", "send", "blocked", "make", "done"}
          /\ sw[i].acct \in Accounts /\ sw[i].ch \in 0..chans
    /\ \A u \in DOMAIN up :
          /\ up[u].pc \in {"none", "start", "wait", "loop", "select", "fin", "done"}
          /\ up[u].how \in {"none", "cancel", "error", "closed"}
          /\ up[u].sel \in 0..chans
    /\ \A k \in DOMAIN list : list[k] \in UNION {ServicesOf(a) : a \in Accounts}
    /\ current \in Accounts \cup {NoAccount}
    /\ patient \in BOOLEAN

\* The latest account change and its updater.
Latest == Len(sw)

\* Once everything has settled, the list offers only services of the
\* account selected last: no updater of an earlier account is left adding.
ListFromCurrentAccount ==
    Settled => \A k \in DOMAIN list : list[k] \in ServicesOf(current)

\* For a user who waits for each list to load, the list settles on the
\* current account's services only.
PatientListFromCurrentAccount == patient => ListFromCurrentAccount

\* For a user who waits for each list to load: once everything has settled
\* and the latest update ran to the end of its
\* stream, the list holds exactly that account's services, in order.
ListCompleteWhenLoaded ==
    (patient /\ Settled /\ Latest > 0 /\ up[Latest].how = "closed")
        => list = Services[current]

\* Text the user typed into the service entry stays there: only the user
\* replaces it.  onUpdateChatServicesFinished decides on setActive(0) from
\* the text read when the update started.
TypedTextKept == [][(entry \in Typed) => (entry' \in Typed)]_vars

\* Every updateChatServices goroutine returns: its select always has a
\* ready case (cancel, error, next service or the closed stream).
UpdatersReturn ==
    \A u \in 1..MaxSwitches :
        (u \in DOMAIN up /\ up[u].pc \in {"start", "wait", "loop", "select", "fin"})
            ~> (u \in DOMAIN up /\ up[u].pc = "done")

====
