SPECIFICATION Spec
CONSTANTS
  e1 = e1
  e2 = e2
  bad = bad
  dashboard = dashboard
  notifier = notifier
  w1 = w1
  w2 = w2
  w3 = w3
  Event = {e1, e2, bad}
  Malformed = {bad}
  Durable = {dashboard, notifier}
  Worker = {w1, w2, w3}
  Serves <- Deployed
  MaxStream = 2
  MaxErrors = 1
CHECK_DEADLOCK FALSE
INVARIANTS SettledIsHandled RepeatNeedsInterruption HandledInOrder
PROPERTIES IndependentProgress
