SPECIFICATION Spec
CONSTANTS
  c1 = c1
  c2 = c2
  Client = {c1, c2}
  QridOf <- OwnAccounts
  Worker = {w1}
  Transaction <- TwoPayees
  Idx = {i1, i2, i3}
  Slot = {s1, s2}
  PollMax = 2
  PromptTimeout = TRUE
  MaxFaults = 1
  None = None
SYMMETRY Symmetric
INVARIANTS TypeOK OnlyOwn NoGap NotifiedOnce
CHECK_DEADLOCK FALSE
