CONSTANTS
  Observers = {o1, o2, o3}
  Workers = {w1, w2}
  UI = ui
  None = none
  CallbacksUnsubscribe = FALSE
  MaxCalls = 5
  MaxPublishes = 0
  Kinds = {"left", "joined", "unsupported"}
SPECIFICATION Spec
INVARIANT SubscriberNeverLost
