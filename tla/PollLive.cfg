SPECIFICATION LiveSpec
CONSTANTS
  c1 = c1
  c2 = c2
  Client = {c1}
  QridOf <- OwnAccounts
  Worker = {w1, w2}
  Transaction <- OnePayee
  Idx = {i1, i2}
  Slot = {s1}
  PollMax = 2
  PromptTimeout = FALSE
  MaxFaults = 1
  None = None
PROPERTIES SyncAdvances EventuallyNotified
CHECK_DEADLOCK FALSE
