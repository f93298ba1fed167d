SPECIFICATION LiveSpec
CONSTANTS
  q1 = q1
  q2 = q2
  w1 = w1
  w2 = w2
  alice = alice
  bob = bob
  bank = bank
  magic = magic
  k1 = k1
  k2 = k2
  None = None
  Request = {q1, q2}
  Worker = {w1, w2}
  Account <- MCAccount
  NoAccount = magic
  Opening <- MCOpening
  Entry <- TwoSenders
  Time = {1, 2}
  Round = {k1}
  EarlyExpiry = FALSE
  LostReplies = TRUE
  Deletions = FALSE
  MaxFailures = 1
  MaxCrashes = 1
PROPERTY QueuedIsAnswered
CHECK_DEADLOCK FALSE
