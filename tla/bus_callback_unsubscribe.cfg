CONSTANTS
  Observers = {o1, o2, o3}
  Workers = {}
  UI = ui
  None = none
  CallbacksUnsubscribe = TRUE
  MaxCalls = 5
  MaxPublishes = 2
  Kinds = {"left", "joined", "unsupported"}
SPECIFICATION Spec
PROPERTY PublishNotifiesSnapshot
