---------------------- MODULE OccupantAffiliationUpdate ----------------------
(***************************************************************************)
(* The occupant affiliation dialog of src/gui/muc_room_occupant_          *)
(* affiliation.go.  Three kinds of actor share the view `av`:             *)
(*   - the UI thread: the user's clicks (onApply, onCancel, the radio      *)
(*     buttons) and the closures handed to doInUIThread, run in order;     *)
(*   - the goroutine updateOccupantAffiliation, one per Apply;            *)
(*   - the goroutine started by onCancel, which sends on av.cancel.        *)
(* The backend behind session.UpdateOccupantAffiliation is not in src/:   *)
(* it answers each request once, on its success or its error channel,     *)
(* and on success the room records the requested affiliation.             *)
(* av.cancel is an unbuffered channel: a send completes only together     *)
(* with a receive on the same channel.                                    *)
(***************************************************************************)
EXTENDS Naturals, Sequences

CONSTANTS
    Affiliations,         \* the data.Affiliation values in play
    InitialAffiliations,  \* the occupant's affiliation when the dialog opens
    MaxApplies            \* bound on Apply clicks

ASSUME InitialAffiliations \subseteq Affiliations
ASSUME {"admin", "none"} \subseteq Affiliations

\* The nil channel; channels made by make(chan bool) are numbered 1, 2, ...
Nil == 0

VARIABLES
    affiliation,        \* av.occupant.Affiliation, the local copy
    serverAffiliation,  \* what the room records for the occupant
    radio,              \* the active radio button: "admin", "none" or "neither"
    dialogOpen,         \* av.dialog not yet destroyed
    fieldsEnabled,      \* radios and apply button sensitive
    cancel,             \* av.cancel: Nil or a channel id
    channels,           \* channels made so far
    g,                  \* the updateOccupantAffiliation goroutine
    reply,              \* the backend's handling of the latest request
    c,                  \* the goroutine started by onCancel
    uiQueue,            \* closures passed to doInUIThread, not yet run
    cancelRequested,    \* onCancel has run (history)
    applies             \* Apply clicks so far

vars == <<affiliation, serverAffiliation, radio, dialogOpen, fieldsEnabled,
          cancel, channels, g, reply, c, uiQueue, cancelRequested, applies>>

GPcs == {"none", "start", "wait", "done"}
CPcs == {"none", "check", "send", "blocked", "done"}

\* initDefaults: the radio matching the current affiliation is active;
\* for any other affiliation neither radio is.
RadioFor(a) == IF a \in {"admin", "none"} THEN a ELSE "neither"

Init ==
    /\ affiliation \in InitialAffiliations
    /\ serverAffiliation = affiliation
    /\ radio = RadioFor(affiliation)
    /\ dialogOpen = TRUE
    /\ fieldsEnabled = TRUE
    /\ cancel = Nil
    /\ channels = 0
    /\ g = [pc |-> "none", prev |-> affiliation, ch |-> Nil]
    /\ reply = [st |-> "none", req |-> affiliation]
    /\ c = [pc |-> "none", ch |-> Nil]
    /\ uiQueue = <<>>
    /\ cancelRequested = FALSE
    /\ applies = 0

(***************************************************************************)
(* UI thread.                                                              *)
(***************************************************************************)

\* The user activates a radio button of the group.
SelectRadio(r) ==
    /\ dialogOpen /\ fieldsEnabled
    /\ radio' = r
    /\ UNCHANGED <<affiliation, serverAffiliation, dialogOpen, fieldsEnabled,
                   cancel, channels, g, reply, c, uiQueue, cancelRequested,
                   applies>>

\* Mutant: the radio's name taken as the affiliation, with no case for
\* neither radio being active.
ChosenAffiliationRaw == radio

\* The switch of onApply: ChangeAffiliationToAdmin, ChangeAffiliationToNone,
\* or no change when neither radio is active.
ChosenAffiliation ==
    CASE radio = "admin" -> "admin"
      [] radio = "none"  -> "none"
      [] OTHER           -> affiliation

\* onApply: remember the affiliation, change it optimistically, disable
\* the fields and start the goroutine.
Apply ==
    /\ dialogOpen /\ fieldsEnabled
    /\ applies < MaxApplies
    /\ affiliation' = ChosenAffiliation
    /\ fieldsEnabled' = FALSE
    /\ g' = [pc |-> "start", prev |-> affiliation, ch |-> Nil]
    /\ applies' = applies + 1
    /\ UNCHANGED <<serverAffiliation, radio, dialogOpen, cancel, channels,
                   reply, c, uiQueue, cancelRequested>>

\* onCancel: start the sending goroutine, then av.close() destroys the dialog.
Cancel ==
    /\ dialogOpen
    /\ c' = [pc |-> "check", ch |-> Nil]
    /\ dialogOpen' = FALSE
    /\ cancelRequested' = TRUE
    /\ UNCHANGED <<affiliation, serverAffiliation, radio, fieldsEnabled,
                   cancel, channels, g, reply, uiQueue, applies>>

\* Mutant: the error closure only shows the notification and leaves the
\* fields disabled, as listenToCreateError does.
EnabledAfterErrorMissing == fieldsEnabled

\* enableFieldsAndHideSpinner, run by the error closure.
EnabledAfterError == TRUE

\* The main loop runs the oldest closure passed to doInUIThread: av.close,
\* or the error closure that re-enables the fields and shows the error.
RunUIClosure ==
    /\ uiQueue # <<>>
    /\ CASE Head(uiQueue) = "close"  -> dialogOpen' = FALSE
                                        /\ fieldsEnabled' = fieldsEnabled
         [] Head(uiQueue) = "enable" -> fieldsEnabled' = EnabledAfterError
                                        /\ dialogOpen' = dialogOpen
    /\ uiQueue' = Tail(uiQueue)
    /\ UNCHANGED <<affiliation, serverAffiliation, radio, cancel, channels,
                   g, reply, c, cancelRequested, applies>>

(***************************************************************************)
(* The goroutine updateOccupantAffiliation.                                *)
(***************************************************************************)

\* av.cancel = make(chan bool), then the backend call, which reads the
\* occupant's (already changed) affiliation as the request.
StartUpdate ==
    /\ g.pc = "start"
    /\ channels' = channels + 1
    /\ cancel' = channels + 1
    /\ g' = [g EXCEPT !.pc = "wait", !.ch = channels + 1]
    /\ reply' = [st |-> "pending", req |-> affiliation]
    /\ UNCHANGED <<affiliation, serverAffiliation, radio, dialogOpen,
                   fieldsEnabled, c, uiQueue, cancelRequested, applies>>

\* case <-sc: onAffiliationUpdateFinished calls onAffiliationUpdated (which
\* refreshes the roster panel) and queues av.close.
UpdateSucceeded ==
    /\ g.pc = "wait" /\ reply.st = "ok"
    /\ g' = [g EXCEPT !.pc = "done"]
    /\ reply' = [reply EXCEPT !.st = "delivered"]
    /\ uiQueue' = Append(uiQueue, "close")
    /\ UNCHANGED <<affiliation, serverAffiliation, radio, dialogOpen,
                   fieldsEnabled, cancel, channels, c, cancelRequested,
                   applies>>

\* Mutant: the revert writes back the affiliation the occupant has now.
RevertedAffiliationCurrent == affiliation

\* The value onAffiliationUpdateError restores.
RevertedAffiliation == g.prev

\* case err := <-ec: onAffiliationUpdateError restores the previous
\* affiliation on this goroutine and queues the error closure.
UpdateFailed ==
    /\ g.pc = "wait" /\ reply.st = "err"
    /\ affiliation' = RevertedAffiliation
    /\ g' = [g EXCEPT !.pc = "done"]
    /\ reply' = [reply EXCEPT !.st = "delivered"]
    /\ uiQueue' = Append(uiQueue, "enable")
    /\ UNCHANGED <<serverAffiliation, radio, dialogOpen, fieldsEnabled,
                   cancel, channels, c, cancelRequested, applies>>

\* case <-av.cancel: the receive pairs with the canceller's send on the
\* same channel; the canceller then sets av.cancel = nil.  Nothing is
\* reverted (the TODO at line 170).
UpdateCancelled ==
    /\ g.pc = "wait" /\ c.pc = "blocked" /\ c.ch = g.ch
    /\ g' = [g EXCEPT !.pc = "done"]
    /\ c' = [c EXCEPT !.pc = "done"]
    /\ cancel' = Nil
    /\ UNCHANGED <<affiliation, serverAffiliation, radio, dialogOpen,
                   fieldsEnabled, channels, reply, uiQueue, cancelRequested,
                   applies>>

\* The select takes whichever of its cases is ready.
Select == UpdateSucceeded \/ UpdateFailed \/ UpdateCancelled

(***************************************************************************)
(* The goroutine of onCancel: `if av.cancel != nil { av.cancel <- true }`. *)
(* The test and the send read av.cancel separately.                       *)
(***************************************************************************)

CancelCheck ==
    /\ c.pc = "check"
    /\ c' = [c EXCEPT !.pc = IF cancel = Nil THEN "done" ELSE "send"]
    /\ UNCHANGED <<affiliation, serverAffiliation, radio, dialogOpen,
                   fieldsEnabled, cancel, channels, g, reply, uiQueue,
                   cancelRequested, applies>>

\* Evaluate av.cancel and block on the send until a receiver takes it.
CancelSend ==
    /\ c.pc = "send"
    /\ c' = [pc |-> "blocked", ch |-> cancel]
    /\ UNCHANGED <<affiliation, serverAffiliation, radio, dialogOpen,
                   fieldsEnabled, cancel, channels, g, reply, uiQueue,
                   cancelRequested, applies>>

(***************************************************************************)
(* The backend answers the pending request once, whether or not anyone    *)
(* still listens.                                                          *)
(***************************************************************************)

ServerAnswer ==
    /\ reply.st = "pending"
    /\ \/ /\ reply' = [reply EXCEPT !.st = "ok"]
          /\ serverAffiliation' = reply.req
       \/ /\ reply' = [reply EXCEPT !.st = "err"]
          /\ UNCHANGED serverAffiliation
    /\ UNCHANGED <<affiliation, radio, dialogOpen, fieldsEnabled, cancel,
                   channels, g, c, uiQueue, cancelRequested, applies>>

\* The dialog is gone and every goroutine has returned or is blocked for
\* good; the model then stutters.
Terminated ==
    /\ ~dialogOpen
    /\ g.pc \in {"none", "done"}
    /\ c.pc \in {"none", "done", "blocked"}
    /\ reply.st # "pending"
    /\ uiQueue = <<>>

Done == Terminated /\ UNCHANGED vars

Next ==
    \/ \E r \in {"admin", "none"} : SelectRadio(r)
    \/ Apply
    \/ Cancel
    \/ RunUIClosure
    \/ StartUpdate
    \/ Select
    \/ CancelCheck
    \/ CancelSend
    \/ ServerAnswer
    \/ Done

\* Goroutines and the main loop are scheduled fairly and the backend
\* answers (spec section 6); the user is under no obligation to click.
Fairness ==
    /\ WF_vars(StartUpdate)
    /\ WF_vars(Select)
    /\ WF_vars(CancelCheck)
    /\ WF_vars(CancelSend)
    /\ WF_vars(ServerAnswer)
    /\ WF_vars(RunUIClosure)

Spec == Init /\ [][Next]_vars /\ Fairness

(***************************************************************************)
(* Properties.                                                             *)
(***************************************************************************)

TypeOK ==
    /\ affiliation \in Affiliations
    /\ serverAffiliation \in Affiliations
    /\ radio \in {"admin", "none", "neither"}
    /\ dialogOpen \in BOOLEAN /\ fieldsEnabled \in BOOLEAN
    /\ channels \in 0..MaxApplies
    /\ cancel \in 0..channels
    /\ g \in [pc : GPcs, prev : Affiliations, ch : 0..channels]
    /\ reply \in [st : {"none", "pending", "ok", "err", "delivered"},
                  req : Affiliations]
    /\ c \in [pc : CPcs, ch : 0..channels]
    /\ uiQueue \in Seq({"close", "enable"})
    /\ cancelRequested \in BOOLEAN
    /\ applies \in 0..MaxApplies

\* No update is running and the backend has answered the last request.
Quiescent == g.pc \in {"none", "done"} /\ reply.st # "pending"

\* The optimistic change of onApply and the revert of
\* onAffiliationUpdateError keep the occupant's local affiliation equal to
\* the room's once an update is over, as long as nobody cancelled.
ConsistentUnlessCancelled ==
    (Quiescent /\ ~cancelRequested) => affiliation = serverAffiliation

\* Once an update is over and the backend has answered, the local
\* affiliation is the room's, cancelled or not.
LocalMatchesServer == Quiescent => affiliation = serverAffiliation

\* Spec sections 4.6 and 7: after a cancellation request, neither the
\* success nor the error handler of updateOccupantAffiliation runs.
NoCallbackAfterCancel ==
    [][cancelRequested => ~(g.pc = "wait" /\ reply'.st = "delivered")]_vars

\* Every Apply ends with the form usable again or the dialog closed: the
\* spinner does not turn forever.
ApplySettles == (g.pc = "start") ~> (fieldsEnabled \/ ~dialogOpen)

\* The goroutine started by onCancel returns: its send on av.cancel is
\* received.
CancelSenderReturns == (c.pc = "check") ~> (c.pc = "done")

====
