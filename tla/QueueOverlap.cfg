SPECIFICATION Spec
CONSTANTS
  q1 = q1
  q2 = q2
  w1 = w1
  w2 = w2
  alice = alice
  bob = bob
  bank = bank
  magic = magic
  k1 = k1
  k2 = k2
  None = None
  Request = {q1}
  Worker = {w1}
  Account <- MCAccount
  NoAccount = magic
  Opening <- MCOpening
  Entry <- TwoSenders
  Time = {1}
  Round = {k1, k2}
  EarlyExpiry = FALSE
  LostReplies = FALSE
  Deletions = FALSE
  MaxFailures = 0
  MaxCrashes = 0
SYMMETRY Symmetric
INVARIANT PaidAtMostOnce
CHECK_DEADLOCK FALSE
