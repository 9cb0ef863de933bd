# TLA+ models of coyim's multi-user-chat (MUC) room engine

This directory holds TLA+ models of the MUC room code in `src/`, the TLC
configurations that check them, and `PROJECT.json`. PROJECT.json lists the
components, the runs, the mutants, the map from each definition to the source
lines it models, the findings and the hazards.

## 1. Inventory

The repository snapshot holds a slice of coyim's GUI (`src/gui/`) and session
(`src/session/`) code. These are its parts, leaf first.

| Component | Source | State it keeps | Operations |
|---|---|---|---|
| Affiliation lattice | `session/muc/data/affiliation.go` | none (five value types) | predicates `IsAdmin`, `IsBanned`, `IsMember`, `IsOwner`, `IsNone`, `IsModerator`, `IsOutcast`; `IsLowerThan`, `IsDifferentFrom`; `AffiliationFromString` |
| Role privilege table | `session/muc/role_privileges.go` | static table role → privileges | `roleCan`, the occupant `Can*` queries, `CanRevokeVoice`, `CanChangeRole`, `CanKickOccupant` |
| Protocol error mapper | `session/muc_errors.go` | none | `publishMUCError`: first matching error element → event type, then publish |
| Room event bus | `gui/muc_room_events.go` | `observers`: event type → slice of `{id, onNotify}`, guarded by a `sync.RWMutex` | `subscribe` (write lock), `unsubscribe` (**read** lock), `publish` (read lock, callbacks run under it); `handleRoomEvent` forwards session events to `publish` through `doInUIThread` |
| Room view | `gui/muc_room.go`, `gui/muc_room_menu.go` | `opened`, `cancel` channel, the room model, subscribers, menu items | `tryLeaveRoom`, `tryDestroyRoom`, `onDestroyWindow` → `cancelActiveRequests`, `requestRoomInfo`, config received/timeout handling, `refreshRoomMenu` |
| Room operations | `gui/muc_account_room.go` (+ controller from spec §4.6) | per operation: running/terminal | `leaveRoom`, `destroyRoom` build a `roomOpController` and run `doOperation` on a goroutine |
| Affiliation update dialog | `gui/muc_room_occupant_affiliation.go` | occupant's affiliation (changed optimistically), `cancel` channel, dialog open/closed, fields enabled | `onApply` → goroutine `updateOccupantAffiliation` that selects on success, error or cancel; `onCancel` → goroutine that sends on `cancel` |
| Roster info panel, kick dialog | `gui/muc_room_roster_info.go`, `gui/muc_room_kick_occupant.go` | shown occupant, self occupant | which buttons are offered (`CanChangeAffiliation`, `CanChangeRole`, `CanKickOccupant`), refresh on `occupantUpdated` |
| Chat services updater | `gui/muc_chat_services_component.go` | `previousUpdateChannel`, services list | `updateServicesBasedOnAccount` cancels the previous update by a send, then starts `updateChatServices`, which selects on cancel, error or the next service |
| Create room form | `gui/muc_create_room_form.go` | conflict list, spinner, field sensitivity, create button | `onCreateRoom`, `listenToCreateError`, `enableCreationIfConditionsAreMet` with its validations |
| Account details | `gui/account_details.go` | `account.Password` in memory and in the saved configuration, the change password dialog's entries and buttons | `changePasswordDialog` with `validatePasswords`, `changePassword` on a goroutine; the account dialog's password entry, `addAccount`, `on_save` with `go saveFunction()` |
| Leaf GUI code | `gui/muc_room_conversation.go`, `gui/muc_room_config_page.go`, `gui/ui_reader.go` | widgets | text layout, page refresh lists, reading UI definitions |

**How the parts interact.** Session events reach a room view on
`v.events`. `handleRoomEvent` wraps each one in `doInUIThread`, so every
`publish` runs on the GTK main loop, the UI thread. Observers' callbacks run
synchronously inside `publish`, under its read lock. User actions start
goroutines that call the session backend (`LeaveRoom`, `DestroyRoom`,
`UpdateOccupantAffiliation`, `GetChatServices`). Each backend call returns one
success channel, one error channel and sometimes an early-end hook. The
goroutine selects on those channels and a `cancel` channel, then marshals the
visible effects back with `doInUIThread`. Some of them it does not marshal:
the affiliation revert, for one, runs on the goroutine itself. The privilege
operators decide which actions the roster panel and the room menu offer.

**What is hard.** Concurrency between the UI thread and goroutines that share
a field without a lock (`av.cancel`, `previousUpdateChannel`,
`roomNameConflictList`). Go's slice sharing, combined with an `RWMutex` used
in read mode for a write. Callbacks that re-enter the bus under its lock.
Cancellation by an unbuffered send that nobody may ever receive. Results
that arrive after a cancel or a timeout. Optimistic state changes that must
be undone on failure.

**What makes each part correct.**
* Bus: publish notifies exactly the observers registered when it began, once
  each and in order. Unsubscribe removes exactly the requested observer. Nothing
  panics or deadlocks. The registry stays in subscription order.
* Room operations (spec §4.6): exactly one terminal outcome per operation. No
  callback after a cancellation. A cancel after the end is a no-op.
* Affiliation dialog: the local affiliation agrees with the server's once
  the operation is over. A cancel never leaves a goroutine blocked. No callback
  touches a closed dialog.
* Chat services: at most one updater fills the list at a time, and only with
  the current account's services. Every update can be cancelled, and no
  canceller blocks forever.
* Create form: the create button is enabled iff the fields are filled and the
  room is not known to exist. Every error outcome makes the form usable again.
* Lattice and privileges: the spec §3 matrix, the asymmetry of `IsLowerThan`
  (spec §8), `IsDifferentFrom` as inequality, monotone role privileges, and
  authority that is strict (an actor never gains authority over an equal).

## 2. Modules

| Module | Models | Source |
|---|---|---|
| `RoomViewSubscribers` (+ `MCRoomViewSubscribers`) | the room event bus, with Go slice sharing and RWMutex semantics | `gui/muc_room_events.go` |
| `OccupantAffiliationUpdate` (+ `MCOccupantAffiliationUpdate`) | the affiliation dialog: `onApply`, the update goroutine, `onCancel`, the server's answer, the UI thread | `gui/muc_room_occupant_affiliation.go` |
| `MucPrivileges` | the affiliation lattice and the role privilege table as operators, over a small roster of occupants | `session/muc/data/affiliation.go`, `session/muc/role_privileges.go` |
| `RosterInfo` (+ `MCRosterInfo`) | extends `MucPrivileges` with the roster info panel and the kick dialog: the shown occupant, its buttons, refreshes queued by roster changes | `gui/muc_room_roster_info.go`, `gui/muc_room_kick_occupant.go` |
| `AccountDetails` (+ `MCAccountDetails`) | the change password dialog, the account dialog (every setting it edits, `addAccount`), the pin button, and the saved configuration | `gui/account_details.go` |
| `ChatServicesUpdate` (+ `MCChatServicesUpdate`) | the switcher goroutines of `updateServicesBasedOnAccount`, the updater goroutines of `updateChatServices`, the services list and entry | `gui/muc_chat_services_component.go`, form line 241 |
| `RoomView` (+ `MCRoomView`) | the room window: menu refresh, room information loading with timeout and retry, leave, destroy, window close, and the operation controller (spec-modelled) | `gui/muc_room.go`, `gui/muc_room_menu.go`, `gui/muc_account_room.go` |
| `CreateRoomForm` (+ `MCCreateRoomForm`) | the create room form: validations, create button, listener of the create outcome | `gui/muc_create_room_form.go` |

Each `MC` module only extends its module and, where a model value set or a
symmetry is needed, defines it; the constants are set in the `.cfg` files.

## 3. Modules and runs

Runs marked *pass* must finish without error. Runs marked *violation* check
one property that TLC finds violated; each is a finding in PROJECT.json.
Every property of a pass run has a mutant (PROJECT.json, `mutants`): a
plausible bug in the mapped code, written as an operator next to it, that
makes the property fail.

### RoomViewSubscribers (src/gui/muc_room_events.go)

State:
* `keyPresent`, `backing` and `length` model `s.observers[ev]`. The map entry
  holds a slice header (`length`) over a backing array (`backing`). Each entry
  is `[id, n]`, where `n` numbers the `subscribe` calls. Every call allocates a
  new `roomViewObserver`, so two entries with the same id are still distinct.
* `readers` and `writer` model the `RWMutex`. A writer first announces itself;
  from then on `RLock` blocks. Then it waits for the readers to leave, as Go's
  `Lock` does.
* `pc`, `cur`, `idx` and `ret` are each thread's position. `ret` is where
  the UI thread resumes after a callback's nested `unsubscribe`.
* `snapLen`, `pos`, `snap` and `got` describe `publish`'s loop. `snapLen` is
  the length of the header it copied. `snap` and `got` are history variables:
  the entries listed when `publish` began, and the ones it notified.
* `subscribed` holds the ids whose `subscribe` returned and that have not
  called `unsubscribe` since (the callers' view). `crashed` records a panic.
* `uiQueue` holds the `doInUIThread` closures of `handleRoomEvent` not yet
  run, each the event type it publishes.

Actions, one per step of the code that another thread can observe:
* `CallSubscribe`, then `LockAnnounce`, then `Subscribe`. The last one is the
  critical section of lines 127-131: create the slice if absent, then append.
* `CallUnsubscribe`, then `UnsubscribeScan` (RLock, lookup and scan), then
  `UnsubscribeRemove`. That step re-reads the header, copies the later elements
  one place down in place, and panics when the stale index is past the end.
* `HandleRoomEvent(k)`: the room calls `handleRoomEvent`; `EventType` is
  its switch, and every case but the default one queues a closure that
  publishes the event under its type (the default only logs).
* `PublishStart`: the UI thread runs the oldest closure: RLock and copy the
  header, or return when the type is another registry's or the key is
  missing. `Notify` is one loop iteration. It reads the *current* backing
  array and may call `unsubscribe` from the callback. `PublishEnd` releases
  the lock.

Callers: the UI thread `ui` publishes, because `handleRoomEvent` always goes
through `doInUIThread`. It may also subscribe and unsubscribe. `Workers` are
goroutines that subscribe and unsubscribe: spec §5 says the registry is
touched from several tasks, and the RWMutex exists for that. Callers never
subscribe an id that is already subscribed, or run two calls for the same id
at once (spec §3: ids are unique per event type). Whether a callback
unsubscribes itself is the constant `CallbacksUnsubscribe`, because the
callbacks' code is not in `src/`. A frozen variable `concurrent`, chosen in
`Init`, says whether the workers call at all in a behaviour, so one run
checks the UI-thread guarantees and the order under concurrency together.

| Run | Config | Expect | What it shows |
|---|---|---|---|
| `bus` | 2 workers + UI, no re-entrant callbacks, 3 observers, 6 calls, 3 room events (left, joined or unsupported) | pass | In the behaviours with every call on the UI thread no subscriber is lost (`UIThreadSubscriberNeverLost`); in all of them, the workers' races below included, removal keeps the registry in subscription order (`RegistryInSubscriptionOrder`). The room events drive `publish` through `handleRoomEvent`'s closures. |
| `bus_callback_unsubscribe` | UI only, re-entrant callbacks | violation | A callback that unsubscribes itself makes `publish` skip the next observer and notify the last one twice (`[o1,o2,o3]` → `o1,o3,o3`). |
| `bus_concurrent_unsubscribe` | 2 workers | violation | Two unsubscribes under the read lock remove an observer that never unsubscribed. |

Two more properties are stated in the module and fail; they have no run of
their own because they share a root cause with the runs above:
* `NoUnsubscribePanic`, under the `bus_concurrent_unsubscribe` bounds: the same two
  concurrent unsubscribes leave one of them with an index past the shrunken
  length, and `s[i+1:]` panics.
* `NoNestedReadLockDeadlock`, with one worker and re-entrant callbacks: a
  callback's `unsubscribe` asks for `RLock` while a worker's `subscribe` waits
  for `Lock`, which waits for `publish`'s read lock. The UI thread deadlocks.

Bounds: three observers are the fewest with which a removal can shift an
element past another that a reader is about to read. Two workers are the
fewest for two concurrent unsubscribes. Six calls let all three subscribe and
then remove one or two. Three room events of the kinds left, joined and an
unsupported one drive `publish` through the left case, another case and
the default one, interleaved with the workers' calls. `Done` lets the model stop once the bounds are used
up, or after a panic, which ends the process. No fairness is assumed: all
properties are safety properties, and that every call returns is checked as
deadlock freedom of the bounded model.

### OccupantAffiliationUpdate (src/gui/muc_room_occupant_affiliation.go)

State: the occupant's `affiliation` (changed optimistically by `onApply`), the
room's `serverAffiliation`, the dialog's radio buttons, whether it is open and
its fields enabled, `av.cancel` (Nil or a channel id), the update goroutine
`g` (its pc and the affiliation it will revert to), the cancel goroutine `c`,
the backend's `reply`, the UI queue, and `cancelRequested`, a history
variable.

Actions: `SelectRadio`, `Apply` (`onApply`: optimistic change, fields off,
goroutine started), `Cancel` (`onCancel`: dialog closed, goroutine started),
`StartUpdate` (the channel is made and the request sent), `Select` with its
three cases (`UpdateSucceeded`, `UpdateFailed` with the revert,
`UpdateCancelled`), `CancelCheck` and `CancelSend` (the cancel goroutine reads
`av.cancel` twice: the nil test, then the send), `ServerAnswer`
(spec-modelled backend), `RunUIClosure` (close the dialog or re-enable it).

Fairness: weak fairness on the goroutines, the backend's answer and the UI
thread; none on the user.

| Run | Expect | What it shows |
|---|---|---|
| `aff_update` (3 affiliations, 2 applies) | pass | Without cancellation the local and server affiliations agree whenever no update runs (`ConsistentUnlessCancelled`); every apply ends with the dialog usable or closed (`ApplySettles`). |
| `aff_cancel_late_callback` | violation | Spec §4.6/§7 say a cancelled operation delivers no callback. Apply, then Cancel: `onCancel` destroys the dialog and leaves the send on `av.cancel` to a goroutine that has not run yet when the backend answers success; the select takes the success case, and `av.close` is queued for the destroyed dialog. A cancel goroutine that reads `av.cancel` before line 161 assigns it (nil) drops the cancel the same way. |

Two more properties fail under the `aff_update` bounds:
* `CancelSenderReturns`: a cancel after the select took success or error
  blocks its goroutine forever on the unbuffered send.
* `LocalMatchesServer`: after a cancel and a server error, the optimistic
  local change is never reverted (the cancel case does not revert), so local
  and server disagree.

### MucPrivileges (src/session/muc/data/affiliation.go, role_privileges.go)

The five affiliation types become strings with one predicate each,
`IsLowerThan` and `IsDifferentFrom` as the code's per-type cases, the
privilege table as one set per role (as the code lists them), the twelve
`Can*` queries as a record from query to privilege (keeping
`CanInviteOtherUsers` → send-private-messages), and `CanRevokeVoice`,
`CanChangeRole`, `CanKickOccupant` over (affiliation, role) records. A small
roster of occupants changes affiliation and role, is banned or joins, so that
the properties range over states the room can be in.

`RosterInfo` composes these with the panel; its run, `roster_info`
below, checks the `MucPrivileges` properties too, over every roster the
panel's steps reach.

| Run | Expect | What it shows |
|---|---|---|
| `roster_info` (3 occupants, symmetry; see RosterInfo) | pass | `IsDifferentFrom` is inequality; `IsLowerThan` is a strict total order on the affiliations of present occupants; role privileges grow with the role; every `Can*` query answers its documented privilege except the one spec §9 names; an actor only gains authority over occupants of lower rank. |

`LowerThanAsymmetric` (spec §8: no two affiliations are lower than each
other, except None/Outcast) fails after one ban: `Outcast.IsLowerThan` is true
for every argument, Outcast included, so an outcast is lower than itself. Spec
§3 calls Outcast lower than everything; the gap is whether that includes
itself.

### ChatServicesUpdate (src/gui/muc_chat_services_component.go)

State: `field` is `c.previousUpdateChannel`; `sw[i]` is the switcher goroutine
of the i-th account change, `up[i]` the updater it starts, with the services
its backend still has to send; the UI queue; the list's items; the entry's
text; the account selected last.

Actions: `Switch` (the form starts a switcher), `Type` (the user edits the
entry), `SwitcherCheck` and `SwitcherSend` (the nil test and the send read the
field twice), `CancelReceived` (the rendezvous with an updater selecting on
the same channel), `SwitcherMake`; `UpdaterStart`, `EnterSelect` (the select
evaluates the field on each pass), `ReceiveError`, `ReceiveService`,
`StreamClosed`, `Finish` (the deferred `onUpdateChatServicesFinished`);
`RunSnapshot` and `RunListClosure` on the UI thread.

Fairness: weak fairness on every goroutine and the UI thread; none on the
user. The backend sends what it has whenever it is received from. A frozen
variable `patient`, chosen in `Init`, splits the behaviours: a patient user
changes account only once every goroutine has settled; an impatient one at
any moment. The list properties are stated for patient behaviours, the
return properties as the code needs them.

| Run | Config | Expect | What it shows |
|---|---|---|---|
| `services` | 2 account changes, patient or at any moment | pass | For a patient user the list ends with exactly the current account's services; in every behaviour every updater returns, cancel sends and their receipt included. |
| `services_eager_list` | 2 changes at any moment | violation | Two switchers both find the field nil, or an older switcher cancels the newer updater: services of the previous account stay in the list. |

Two more properties fail:
* "Every `updateServicesBasedOnAccount` goroutine returns", with changes at
  any moment: the second switcher finds the field set and blocks sending on
  it, while the first updater leaves through the error or closed-stream case
  without receiving; the send never completes. For a patient user every
  switcher finds the field nil, so the property says nothing there and no
  run checks it.
* `TypedTextKept`, with one account change: the updater reads the entry when
  it starts; if the user types while services stream in,
  `onUpdateChatServicesFinished` still calls `setActive(0)` and the typed text
  is replaced by the first service.

### RoomView (src/gui/muc_room.go, muc_room_menu.go, muc_account_room.go)

`RoomView` keeps the window (`alive`, `opened`), whether the account still
lists the view (`registered`), the spinner, the destroyed notification, the
menu's item ids, the self occupant as the room model knows it, the UI queue,
and one record per operation: its goroutine's pc, the backend's answer and a
cancel request. Actions: `SelfChange` (the room model changes the self
occupant and its event reaches the view's "room" subscriber), `ClickLeave`,
`ConfirmDestroy`, `CloseWindow`; per operation `Launch`, `OpStart`,
`BackendAnswer`, `CancelRequest`, `OpSelect`, `SuccessCallback`,
`ErrorCallback`; on the UI thread `RunDestroyWindow`, `RunWidgetClosure`,
`RunEvent`. Room information: `RequestRoomInfo` (the goroutine `newRoomView`
starts: queue `loadingInfoBar.start`, then `session.LoadRoomInfo`),
`RetryRoomInfo` (the error bar's retry button, on the UI thread),
`RoomInfoAnswer` (the session answers a request once, with the
configuration or the timeout event; spec-modelled, the session is not in
`src/`), and on the UI thread `RunInfoStart`, `RunConfigReceived` (hide the
bar, list the warnings, refresh the menu) and `RunConfigTimeout` (clear the
warnings, show the error bar, refresh the menu). The warnings are abstracted
to whether any are listed: `showRoomWarnings` always adds the encryption one.
The controller steps (`OpStart`, `BackendAnswer`,
`CancelRequest`, `OpSelect`) are spec-modelled: `newRoomOpController` and
`doOperation` are not in `src/`. No code in `src/` cancels a leave or destroy
(`v.cancel` is never set), so `AllowCancel` lets the context be cancelled as
the spec allows.

No refinement to an abstract one-shot operation (spec §4.6) is checked:
every step that decides an outcome is the spec-modelled controller, and no
code in `src/` cancels, so it would hold whatever `src/` does.

Fairness: weak fairness on each operation's goroutine, the room information
goroutine and the UI thread, and on the session's answer to a room
information request (the timeout event exists so that one always comes).
The operations' backend, the room and the user owe nothing.

| Run | Config | Expect | What it shows |
|---|---|---|---|
| `room_ops` | 1 operation, 2 self-occupant changes, cancellation on, 3 room information requests | pass | When no room event is pending the menu is what `refreshRoomMenu` gives for the current self occupant; a successful leave destroys the window and unregisters the view; the loading bar always gives way to the warnings or the error bar (`LoadingEnds`, which holds because `requestRoomInfo` queues the start before asking the session). |

Bounds: the controller keeps nothing shared between operations, so one
operation (of either kind) is enough for the leave property; a second one multiplied the states past what a liveness check
finishes in minutes. Two self-occupant changes let the occupant gain and
then lose ownership, which the menu property needs. Three room information
requests allow the first one, a timeout, and two clicks on retry before the
queued start runs.

`InfoNotReplacedByTimeout` (once the information is shown a timeout never
replaces it by the error bar) fails and has no run of its own: two clicks on
retry make two requests, and a timeout handled after the other's
configuration shows the error and clears the warnings. Whether the info
bar's button, whose code is not in `src/`, ignores a second click is
unknown.

### CreateRoomForm (src/gui/muc_create_room_form.go)

State: the name entry, whether the service entry and an account are set, the
conflict list, the create button's and the fields' sensitivity, the spinner,
the listener goroutine and the room it waits for, the UI queue.

| Run | Config | Expect | What it shows |
|---|---|---|---|
| `create_button` | one room name, 2 creates | violation | With name, service and account given for a room not known to exist, the create button stays insensitive: `validateIfRoomIsInConflict` fails exactly when the room is *not* in the conflict list. |

### RosterInfo (src/gui/muc_room_roster_info.go, muc_room_kick_occupant.go)

`RosterInfo` extends `MucPrivileges`: the roster it changes is the panel's
model. State: `occupant` (the `*muc.Occupant` shown, `Nil` before the first
`showOccupantInfo`, `Gone` once that object left the roster and its nickname
joined again as a new object), `shown`, the three buttons and the change-role
button's disabled state, `pending` (refresh closures queued with
`doInUIThread`), the open kick dialogs (each holding the occupant it was
opened for), and `panicked`.

Actions: the roster changes `UpdateOccupantAffiliation`, `UpdateOccupantRole`
and `BanOccupant` each queue a refresh (the methods of lines 118-126);
`OccupantUpdated` queues one only when an occupant is set (line 109);
`RejoinOccupant` is the roster replacing an occupant object (spec 4.3).
`RunRefresh` runs `refresh`: with a nil occupant it dereferences nil and the
program stops (`Exited` stutters); otherwise `validateOccupantPrivileges`
sets every button from the self occupant and the shown one. `ShowOccupantInfo`,
`Hide`, `KickOccupantClicked`, `KickClicked` and `KickCancelClicked` are the
user's. The self occupant is the constant `Self`; `MaxQueued` bounds pending
refreshes.

| Run | Config | Expect | What it shows |
|---|---|---|---|
| `roster_info` | 3 occupants, self `o1`, one queued refresh, symmetry on the others | pass | Whenever the panel is shown and no refresh is pending, each button is offered exactly when the privilege query allows it for the current self occupant and the occupant shown (a re-joined occupant reads as an outcast with no role). Plus the `MucPrivileges` properties. |

Two more properties fail under the same bounds and have no run of their own:
* `NoNilOccupantRefresh`: an affiliation or role change before the panel was
  ever opened queues `refresh` with `r.occupant` nil, which panics in
  `CanChangeAffiliation`. `occupantUpdated` guards against nil; the two
  update methods do not.
* `KickStillAuthorised`: the kick dialog keeps its occupant and sends the kick
  without checking the privileges again; a demotion between opening it and
  clicking OK sends a kick the user may no longer make. The server checks
  authority again.

### AccountDetails (src/gui/account_details.go)

A password is a sequence over `Chars`, at most `MaxLen` long; `Trim` is
`strings.Trim(_, " ")`. An account is a record of the settings the account
dialog edits: password, address, nickname, port (0 when never set), pinning
policy (a string, "" when never set), pinned certificates, proxies. State:
`account` is the account in memory and `disk` the saved configuration; the
change password dialog's phase, entries, validation error and visible
buttons, the request its goroutine sends and the repeated entry at that
moment; the account dialog (`acct`), the values its widgets show (`form`),
whether anything was edited, the pins it listed when it opened (`openPins`)
and its address error; the number of `go saveFunction()` goroutines not yet run (`saves`,
bounded by `MaxSaves`).

Operators translate the conversions: `FindPinningPolicyFor` (a policy string
to its row, "" to the default row 3, anything else to -1), `GetActiveID`,
`Itoa` and `ConvertedPort` (`strconv.Atoi`, 5222 on an error),
`FilterCertificates`, `DefaultPort` (the port 0 to 5222 rewrite
`renderAccountDetails` makes to the account itself), `Render`
(`renderSessionDetails` and `renderAccountDetails`) and `AddAccount`.

Actions: `OpenChangePassword`, `TypeNewPassword`, `TypeRepeatedPassword`,
`ClickChange` (validate, then show the error or start `changePassword`),
`PasswordChanged` (clear the password and save, on the goroutine),
`PasswordChangeFailed`, `CloseChangePassword`; `PinCertificate` (the
connection information dialog's pin button, shown when the server's
certificate is not pinned: add it and save); `OpenAccountDialog`, one action
per widget (`TypeAccountJid`, `TypeAccountPassword`, `TypeNickname`,
`TypePort`, `SelectPinningPolicy`, `AddProxy`, `EditProxy`, `RemoveProxy`,
`RemovePin`), `SaveAccount` (an invalid address shows the error; otherwise
`addAccount`, close, `go saveFunction()`), `CancelAccount`, and `RunSave`
(a save goroutine writes the account as it is when it runs).

| Run | Config | Expect | What it shows |
|---|---|---|---|
| `account_dialog` | letter-only passwords of length 1, one initial account, one save | pass | `ConfigSaved`: once no save is outstanding the file holds the account in memory, whichever of the dialogs wrote it. `SaveUneditedKeepsSettings`: opening the account dialog and saving without an edit changes no setting (port and policy compared after the defaults `renderAccountDetails` and `addAccount` fill in). |
| `password_confirm` | chars `a` and space, length 2 | violation | New password `"a "` repeated as `"a"` passes `validatePasswords`, and `"a "` is sent: the trimmed value is compared, the untrimmed one used. |

The account_dialog bounds are one initial account (port 0 and an empty
policy, the two values the dialog normalises), one address accepted and one
rejected, two pins with the server's among them, one proxy, and at most one
outstanding dialog save, enough for it to race the password goroutine's and
the pin button's writes and saves. Spaces in passwords matter
only to `validatePasswords`, which `password_confirm` checks.

Two properties fail and have no run of their own (the project keeps twelve):

* `EndedDialogClosable` (an ended change can be closed with a button): after
  a failed change neither OK nor Cancel is visible.
* `PinnedCertificateKept` (a pin is only removed by the user removing it in
  the account dialog): the dialog lists the pins of when it opened, so a
  certificate pinned from the connection information dialog while it is
  open is dropped by `filterCertificates` on save. Whether GTK lets both
  dialogs be used at once depends on their modality, set in UI definitions
  that are not in `src/`.

A policy string `findPinningPolicyFor` does not know renders as no row
(-1) and is saved as "", the default; the initial accounts do not include
one.

## 4. Findings

| Run | What the code does | What is expected |
|---|---|---|
| `bus_callback_unsubscribe` | `unsubscribe` from a callback shifts the slice `publish` is iterating | every snapshotted observer notified once, in order |
| `bus_concurrent_unsubscribe` | `unsubscribe` mutates under `RLock`; two at once drop the wrong observer | spec §4.4/§9: mutations under the exclusive lock |
| `aff_cancel_late_callback` | the cancel is sent from a goroutine nothing orders before the backend's answer, so the success case can win | spec §4.6/§7: no callback after a cancel |
| `services_eager_list` | quick account changes leave another account's services | each change cancels the previous update |
| `create_button` | the conflict validation is inverted | the button is enabled for a new room, disabled for a known one |
| `password_confirm` | `validatePasswords` trims the new password, not the repeated one, and the untrimmed one is sent | the password sent is the one typed in both entries |

The properties without a run of their own (above) are further
disagreements with the same code; the hazards in PROJECT.json point to them.

## 5. Not modelled, and why

* GTK widget construction, CSS, text layout, i18n strings and logging
  (`muc_room_conversation.go`, `muc_room_config_page.go`, most of
  `account_details.go`) have no state that a property distinguishes.
* `ui_reader.go` is file I/O with a compiled-in fallback.
* `AffiliationFromString` and the affiliation `Name` methods are string
  conversions; the lattice is modelled on the five values.
* `muc_errors.go` (publishing a protocol error as an event): a stateless
  first-match switch. Its one interesting property (an error no case matches
  is published with an empty event type) would be a violation run of its
  own, and the project keeps twelve runs.
* In `account_details.go`: the connection information labels and the
  fingerprints text, `on_toggle_other_settings` (page visibility), key and
  fingerprint import and export (their dialogs are not in `src/`), the server
  entry (it round-trips like the nickname), and the dialog for a new account
  (a nil session; the callers are not in `src/`).
* `updateSelfOccupant`'s caller, and `onChangeAffiliation` and
  `onChangeRole` of the roster panel, are not in `src/`; the self occupant is
  the constant `Self`.
* Tests and generated GTK mocks.
* The session layer behind `LeaveRoom`, `DestroyRoom`,
  `UpdateOccupantAffiliation`, `GetChatServices` and `v.createRoom` is not in
  `src/`. It is modelled only as "may send one value on one of its channels",
  per spec §6.
* The chat services component and the create form are not composed: the
  services list's "changed" signal re-evaluating the create button during a
  create is listed as a hazard.
