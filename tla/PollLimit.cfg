SPECIFICATION Spec
CONSTANTS
  c1 = c1
  c2 = c2
  Client = {c1, c2}
  QridOf <- OwnAccounts
  Worker = {w1}
  Transaction <- TwoPayees
  Idx = {i1, i2}
  Slot = {s1}
  PollMax = 1
  PromptTimeout = TRUE
  MaxFaults = 0
  None = None
INVARIANT SinceLastRefresh
CHECK_DEADLOCK FALSE
