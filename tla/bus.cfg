\* The UI thread publishes and (un)subscribes; in the behaviours where
\* concurrent is TRUE two goroutines also subscribe and unsubscribe.
\* Callbacks do not unsubscribe (bus_callback_unsubscribe covers that).
CONSTANTS
  Observers = {o1, o2, o3}
  Workers = {w1, w2}
  UI = ui
  None = none
  CallbacksUnsubscribe = FALSE
  MaxCalls = 6
  MaxPublishes = 3
  Kinds = {"left", "joined", "unsupported"}
SPECIFICATION Spec
INVARIANT TypeOK
INVARIANT RegistryInSubscriptionOrder
INVARIANT UIThreadSubscriberNeverLost
