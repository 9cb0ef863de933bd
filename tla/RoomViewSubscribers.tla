------------------------- MODULE RoomViewSubscribers -------------------------
(***************************************************************************)
(* The per-room event bus of the GUI: roomViewSubscribers in              *)
(* src/gui/muc_room_events.go, modelled for one event type.               *)
(*                                                                         *)
(* The registry s.observers[ev] is a Go slice: a header (length) over a   *)
(* backing array shared by every copy of the header.  The model keeps the *)
(* backing array itself ("backing") and the length of the header stored   *)
(* in the map ("length"), because unsubscribe() removes an entry with     *)
(* append(s[:i], s[i+1:]...), which shifts the shared backing array in    *)
(* place, and publish() ranges over a header copy taken earlier.          *)
(* Reallocation on growth is not modelled: append() only reallocates in   *)
(* subscribe(), which holds the write lock, so no reader can hold a       *)
(* header of the old array across it.                                     *)
(*                                                                         *)
(* The sync.RWMutex is modelled with Go's semantics: a writer first       *)
(* announces itself (after which new RLock() calls block), then waits for *)
(* the readers to leave.                                                  *)
(*                                                                         *)
(* Threads: the UI thread, on which handleRoomEvent's doInUIThread        *)
(* closures call publish() and on which the observers' callbacks run, and *)
(* background goroutines (Workers) that subscribe and unsubscribe.  A     *)
(* callback may call unsubscribe() for its own id while publish() holds   *)
(* the read lock, when CallbacksUnsubscribe is TRUE.                      *)
(***************************************************************************)
EXTENDS Naturals, Sequences, SequencesExt, FiniteSets

CONSTANTS
  Observers,            \* observer ids (roomViewObserver.id)
  Workers,              \* background goroutines calling (un)subscribe
  UI,                   \* the UI thread
  None,                 \* no thread / no observer
  CallbacksUnsubscribe, \* may an onNotify callback unsubscribe itself?
  MaxCalls,             \* bound on subscribe + unsubscribe calls
  MaxPublishes,         \* bound on room events handled (each publishes once)
  Kinds                 \* kinds of room event the room hands to handleRoomEvent

ASSUME UI \notin Workers /\ None \notin Observers \cup Workers \cup {UI}
ASSUME CallbacksUnsubscribe \in BOOLEAN
ASSUME MaxCalls \in Nat /\ MaxPublishes \in Nat
ASSUME Kinds \subseteq {"selfJoined", "updated", "joined", "left", "message",
                        "loggingEnabled", "loggingDisabled", "unsupported"}

Threads == Workers \cup {UI}

(* A registry entry: a fresh &roomViewObserver{id, onNotify} per call of  *)
(* subscribe(); n numbers the subscribe() calls so entries stay distinct. *)
Entry == [id : Observers, n : 1..MaxCalls]

PCs == {"idle", "u_rlock", "u_write", "s_lock", "s_wait", "p_loop"}

VARIABLES
  keyPresent,  \* s.observers has an entry for ev
  backing,     \* backing array of s.observers[ev]
  length,      \* len(s.observers[ev])
  readers,     \* read locks held, per thread (the UI thread may nest)
  writer,      \* thread that announced or holds the write lock, or None
  pc,          \* where each thread is
  cur,         \* observer id of the thread's subscribe/unsubscribe call
  idx,         \* index found by unsubscribe()'s scan
  ret,         \* where the UI thread resumes after a nested unsubscribe
  snapLen,     \* len(observers) of the header copied by publish()
  pos,         \* publish()'s range position
  snap,        \* the entries the header copy listed when publish() began
  got,         \* the entries publish() has notified so far
  subscribed,  \* ids whose subscribe() returned and unsubscribe() did not
  serial,      \* number of entries appended so far
  calls,       \* subscribe/unsubscribe calls made
  publishes,   \* room events handled so far
  uiQueue,     \* its doInUIThread closures not yet run: the type to publish
  crashed,     \* a goroutine panicked: the process is gone
  concurrent   \* fixed for a behaviour: the Workers call (un)subscribe

vars == <<keyPresent, backing, length, readers, writer, pc, cur, idx, ret,
          snapLen, pos, snap, got, subscribed, serial, calls, publishes, crashed,
          concurrent, uiQueue>>

roomVars == <<uiQueue>>

Live == SubSeq(backing, 1, length)

NoReaders == \A t \in Threads : readers[t] = 0

InFlight(o) == \E t \in Threads : cur[t] = o

Init ==
  /\ keyPresent = FALSE
  /\ backing = <<>>
  /\ length = 0
  /\ readers = [t \in Threads |-> 0]
  /\ writer = None
  /\ pc = [t \in Threads |-> "idle"]
  /\ cur = [t \in Threads |-> None]
  /\ idx = [t \in Threads |-> 0]
  /\ ret = "idle"
  /\ snapLen = 0
  /\ pos = 0
  /\ snap = <<>>
  /\ got = <<>>
  /\ subscribed = {}
  /\ serial = 0
  /\ calls = 0
  /\ publishes = 0
  /\ crashed = FALSE
  /\ concurrent \in BOOLEAN
  /\ uiQueue = <<>>

-----------------------------------------------------------------------------
(* subscribe(ev, o): s.Lock(); create the slice if absent; append; Unlock. *)

(* A thread calls subscribe for an id that is not subscribed, and is     *)
(* blocked on Lock() until no other writer holds the lock.               *)
CallSubscribe(t, o) ==
  /\ pc[t] = "idle" /\ ~crashed
  /\ calls < MaxCalls
  /\ o \notin subscribed /\ ~InFlight(o)
  /\ t # UI => concurrent
  /\ pc' = [pc EXCEPT ![t] = "s_lock"]
  /\ cur' = [cur EXCEPT ![t] = o]
  /\ calls' = calls + 1
  /\ UNCHANGED <<roomVars, serial, keyPresent, backing, length, readers, writer, idx, ret,
                 snapLen, pos, snap, got, subscribed, publishes, crashed>>

(* Lock(): take the writer mutex and announce the writer. *)
LockAnnounce(t) ==
  /\ pc[t] = "s_lock" /\ ~crashed
  /\ writer = None
  /\ writer' = t
  /\ pc' = [pc EXCEPT ![t] = "s_wait"]
  /\ UNCHANGED <<roomVars, serial, keyPresent, backing, length, readers, cur, idx, ret,
                 snapLen, pos, snap, got, subscribed, calls, publishes, crashed>>

(* Mutant: the element is stored at s[len] without growing the slice.   *)
AppendObserverInPlace(o) == [backing EXCEPT ![length + 1] = [id |-> o, n |-> serial + 1]]

(* append(s.observers[ev], o): written into the backing array when it   *)
(* has room past len, otherwise into a larger copy.                      *)
AppendObserver(o) ==
  LET e == [id |-> o, n |-> serial + 1]
  IN  IF length < Len(backing)
      THEN [backing EXCEPT ![length + 1] = e]
      ELSE Append(backing, e)

(* Lock() returns once the readers have left; the whole critical section *)
(* (lines 127-131) runs under the exclusive lock, then Unlock().          *)
Subscribe(t) ==
  /\ pc[t] = "s_wait" /\ ~crashed
  /\ writer = t /\ NoReaders
  /\ keyPresent' = TRUE
  /\ backing' = AppendObserver(cur[t])
  /\ length' = length + 1
  /\ writer' = None
  /\ subscribed' = subscribed \cup {cur[t]}
  /\ serial' = serial + 1
  /\ pc' = [pc EXCEPT ![t] = "idle"]
  /\ cur' = [cur EXCEPT ![t] = None]
  /\ UNCHANGED <<roomVars, readers, idx, ret, snapLen, pos, snap, got, calls,
                 publishes, crashed>>

-----------------------------------------------------------------------------
(* unsubscribe(ev, id): s.RLock(); scan; remove with append; RUnlock.     *)

CallUnsubscribe(t, o) ==
  /\ pc[t] = "idle" /\ ~crashed
  /\ calls < MaxCalls
  /\ o \in subscribed /\ ~InFlight(o)
  /\ t # UI => concurrent
  /\ pc' = [pc EXCEPT ![t] = "u_rlock"]
  /\ cur' = [cur EXCEPT ![t] = o]
  /\ calls' = calls + 1
  /\ UNCHANGED <<roomVars, serial, keyPresent, backing, length, readers, writer, idx, ret,
                 snapLen, pos, snap, got, subscribed, publishes, crashed>>

(* The unsubscribe call returns to the caller: idle, or back into the    *)
(* publish loop when it was made from a callback.                        *)
Return(t) ==
  pc' = [pc EXCEPT ![t] = IF t = UI THEN ret ELSE "idle"]

(* Mutant: the index is taken one past the match. *)
FirstIndexOfOffByOne(o) == SelectInSeq(Live, LAMBDA e : e.id = o) + 1

FirstIndexOf(o) == SelectInSeq(Live, LAMBDA e : e.id = o)

(* RLock() (blocked while a writer is announced), then the map lookup    *)
(* and the scan for the id.  An unknown event or id: RUnlock and return. *)
UnsubscribeScan(t) ==
  /\ pc[t] = "u_rlock" /\ ~crashed
  /\ writer = None
  /\ IF keyPresent /\ FirstIndexOf(cur[t]) # 0
     THEN /\ readers' = [readers EXCEPT ![t] = @ + 1]
          /\ idx' = [idx EXCEPT ![t] = FirstIndexOf(cur[t])]
          /\ pc' = [pc EXCEPT ![t] = "u_write"]
          /\ UNCHANGED <<roomVars, cur, subscribed, ret>>
     ELSE /\ Return(t)
          /\ cur' = [cur EXCEPT ![t] = None]
          /\ subscribed' = subscribed \ {cur[t]}
          /\ ret' = IF t = UI THEN "idle" ELSE ret
          /\ UNCHANGED <<roomVars, readers, idx>>
  /\ UNCHANGED <<roomVars, serial, keyPresent, backing, length, writer, snapLen, pos, snap,
                 got, calls, publishes, crashed>>

(* s.observers[ev] = append(s.observers[ev][:i], s.observers[ev][i+1:]...)*)
(* re-reads the header: s[i+1:] panics when i+1 > len, otherwise the     *)
(* elements after i are copied one place down in the same backing array  *)
(* and the old last slot keeps its value.  Then the deferred RUnlock.    *)
(* Mutant: removal by moving the last element into the hole. *)
ShiftDownSwapLast(b, i, n) == [b EXCEPT ![i] = b[n]]

ShiftDown(b, i, n) == SubSeq(b, 1, i - 1) \o SubSeq(b, i + 1, n) \o SubSeq(b, n, Len(b))

UnsubscribeRemove(t) ==
  /\ pc[t] = "u_write" /\ ~crashed
  /\ IF idx[t] > length
     THEN /\ crashed' = TRUE
          /\ UNCHANGED <<roomVars, backing, length, readers, pc, cur, idx, ret, subscribed>>
     ELSE /\ backing' = ShiftDown(backing, idx[t], length)
          /\ length' = length - 1
          /\ readers' = [readers EXCEPT ![t] = @ - 1]
          /\ Return(t)
          /\ cur' = [cur EXCEPT ![t] = None]
          /\ idx' = [idx EXCEPT ![t] = 0]
          /\ ret' = IF t = UI THEN "idle" ELSE ret
          /\ subscribed' = subscribed \ {cur[t]}
          /\ UNCHANGED crashed
  /\ UNCHANGED <<roomVars, serial, keyPresent, writer, snapLen, pos, snap, got, calls, publishes>>

-----------------------------------------------------------------------------
(* publish(ev, ei), called on the UI thread by handleRoomEvent.          *)

(* The number of iterations of "range observers": the copied header's len.*)
RangeLen == length

(* handleRoomEvent's switch: the roomViewEventType a room event is        *)
(* published as; "none" for the default case, which only logs.           *)
EventType(k) ==
  CASE k = "selfJoined" -> "occupantSelfJoined"
    [] k = "joined" -> "occupantJoined"
    [] k = "left" -> "occupantLeft"
    [] k = "updated" -> "occupantUpdated"
    [] k = "message" -> "messageReceived"
    [] k = "loggingEnabled" -> "loggingEnabled"
    [] k = "loggingDisabled" -> "loggingDisabled"
    [] OTHER -> "none"

(* The registry modelled is the one for occupantLeft.                    *)
Watched == "occupantLeft"

(* The room calls handleRoomEvent (it subscribed it in newRoomView) from  *)
(* one task; each supported case queues a closure that publishes on the  *)
(* UI thread, with the event's nickname, subject and message.            *)
HandleRoomEvent(k) ==
  /\ publishes < MaxPublishes /\ ~crashed
  /\ publishes' = publishes + 1
  /\ uiQueue' = IF EventType(k) = "none" THEN uiQueue
                ELSE Append(uiQueue, EventType(k))
  /\ UNCHANGED <<serial, keyPresent, backing, length, readers, writer, pc, cur,
                 idx, ret, snapLen, pos, snap, got, subscribed, calls, crashed>>

(* The UI thread runs the oldest closure: publish() takes RLock() and    *)
(* looks the type up.  Another type's registry, or an occupantLeft one   *)
(* nobody created yet, is logged and publish returns, releasing the lock.*)
PublishStart ==
  /\ pc[UI] = "idle" /\ ~crashed
  /\ uiQueue # <<>>
  /\ writer = None
  /\ uiQueue' = Tail(uiQueue)
  /\ IF Head(uiQueue) = Watched /\ keyPresent
     THEN /\ readers' = [readers EXCEPT ![UI] = @ + 1]
          /\ pc' = [pc EXCEPT ![UI] = "p_loop"]
          /\ snapLen' = RangeLen
          /\ pos' = 0
          /\ snap' = Live
          /\ got' = <<>>
     ELSE UNCHANGED <<readers, pc, snapLen, pos, snap, got>>
  /\ UNCHANGED <<serial, keyPresent, backing, length, writer, cur, idx, ret,
                 subscribed, calls, publishes, crashed>>

(* One iteration of "for _, o := range observers": the element is read  *)
(* from the shared backing array now, and its onNotify runs; the        *)
(* callback may call unsubscribe for its own id.                        *)
Notify ==
  /\ pc[UI] = "p_loop" /\ ~crashed
  /\ pos < snapLen
  /\ LET e == backing[pos + 1] IN
       /\ pos' = pos + 1
       /\ got' = Append(got, e)
       /\ \/ UNCHANGED <<roomVars, pc, cur, ret, calls>>
          \/ /\ CallbacksUnsubscribe
             /\ calls < MaxCalls
             /\ e.id \in subscribed /\ ~InFlight(e.id)
             /\ pc' = [pc EXCEPT ![UI] = "u_rlock"]
             /\ cur' = [cur EXCEPT ![UI] = e.id]
             /\ ret' = "p_loop"
             /\ calls' = calls + 1
  /\ UNCHANGED <<roomVars, serial, keyPresent, backing, length, readers, writer, idx, snapLen,
                 snap, subscribed, publishes, crashed>>

(* The loop ends; the deferred RUnlock releases the read lock. *)
PublishEnd ==
  /\ pc[UI] = "p_loop" /\ ~crashed
  /\ pos = snapLen
  /\ readers' = [readers EXCEPT ![UI] = @ - 1]
  /\ pc' = [pc EXCEPT ![UI] = "idle"]
  /\ UNCHANGED <<uiQueue, serial, keyPresent, backing, length, writer, cur, idx, ret, snapLen,
                 pos, snap, got, subscribed, calls, publishes, crashed>>

-----------------------------------------------------------------------------

(* Every call has returned and the bounds are used up, or a panic ended *)
(* the process.                                                         *)
Done ==
  /\ \/ crashed
     \/ /\ \A t \in Threads : pc[t] = "idle"
        /\ calls = MaxCalls /\ publishes = MaxPublishes /\ uiQueue = <<>>
  /\ UNCHANGED vars

Next ==
  /\ UNCHANGED concurrent
  /\ \/ \E t \in Threads, o \in Observers : CallSubscribe(t, o) \/ CallUnsubscribe(t, o)
     \/ \E t \in Threads :
          LockAnnounce(t) \/ Subscribe(t) \/ UnsubscribeScan(t) \/ UnsubscribeRemove(t)
     \/ \E k \in Kinds : HandleRoomEvent(k)
     \/ PublishStart \/ Notify \/ PublishEnd
     \/ Done

Spec == Init /\ [][Next]_vars

-----------------------------------------------------------------------------
(* Properties *)

TypeOK ==
  /\ keyPresent \in BOOLEAN
  /\ backing \in Seq(Entry)
  /\ length \in 0..Len(backing)
  /\ readers \in [Threads -> 0..2]
  /\ writer \in Threads \cup {None}
  /\ pc \in [Threads -> PCs]
  /\ cur \in [Threads -> Observers \cup {None}]
  /\ idx \in [Threads -> Nat]
  /\ ret \in {"idle", "p_loop"}
  /\ snap \in Seq(Entry) /\ got \in Seq(Entry)
  /\ subscribed \subseteq Observers
  /\ calls \in 0..MaxCalls /\ publishes \in 0..MaxPublishes
  /\ crashed \in BOOLEAN /\ concurrent \in BOOLEAN
  /\ uiQueue \in Seq({EventType(k) : k \in Kinds})

(* publish() notifies exactly the observers that were registered when it  *)
(* began, each once and in subscription order (the spec's "snapshot"      *)
(* guarantee): an unsubscribe() that shifts the shared backing array      *)
(* under publish()'s range loop must not make it skip or repeat anyone.   *)
PublishNotifiesSnapshot ==
  [][pc[UI] = "p_loop" /\ pc'[UI] = "idle" => got = snap]_vars

(* The registry lists its entries in the order subscribe() appended them, *)
(* whatever removals ran concurrently: removal keeps the relative order.  *)
RegistryInSubscriptionOrder ==
  \A i, j \in 1..length : i < j => backing[i].n < backing[j].n

(* An observer whose subscribe() returned, and that has not called        *)
(* unsubscribe() since, is still in the registry: another observer's      *)
(* unsubscribe() never removes its entry.                                 *)
SubscriberNeverLost ==
  \A o \in subscribed : ~InFlight(o) => \E i \in 1..length : backing[i].id = o

(* unsubscribe() never panics: the index found by its scan is still       *)
(* within the slice when s[i+1:] is evaluated.                            *)
NoUnsubscribePanic == ~crashed

(* The UI thread never blocks forever in a callback's nested unsubscribe: *)
(* it waits in RLock() behind a writer that announced itself and is       *)
(* itself waiting for the UI thread's outer read lock to be released.     *)
NoNestedReadLockDeadlock ==
  ~ /\ pc[UI] = "u_rlock" /\ readers[UI] > 0
    /\ writer # None /\ pc[writer] = "s_wait"

(* The two guarantees above, for the behaviours in which every call runs  *)
(* on the UI thread, as muc_room_events.go's callers on the UI thread do. *)
UIThreadSubscriberNeverLost == ~concurrent => SubscriberNeverLost

=============================================================================
