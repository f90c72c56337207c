SPECIFICATION Spec
CONSTANTS
  b1 = b1
  q1 = q1
  q2 = q2
  Browser = {b1}
  Req = {q1, q2}
  Lifetime = 3
  Idle = 2
  Renewal = 1
  Grace = 1
  Patience = 1
  AttemptTTL = 1
  Horizon = 4
  MaxIssued = 3
  MaxAttempts = 2
SYMMETRY Symmetry
CHECK_DEADLOCK FALSE
INVARIANTS OneCurrent RenewalKeepsDeadline OneSessionPerAttempt CookieIsCurrent SurvivorsWereRotating
PROPERTIES OnlyEndedOrDeadGo
