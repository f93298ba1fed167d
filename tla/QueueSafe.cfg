SPECIFICATION Spec
CONSTANTS
  q1 = q1
  q2 = q2
  w1 = w1
  w2 = w2
  alice = alice
  bob = bob
  bank = bank
  magic = magic
  k1 = k1
  k2 = k2
  None = None
  Request = {q1, q2}
  Worker = {w1, w2}
  Account <- MCAccount
  NoAccount = magic
  Opening <- MCOpening
  Entry <- AnySender
  Time = {1, 2}
  Round = {k1}
  EarlyExpiry = TRUE
  LostReplies = TRUE
  Deletions = TRUE
  MaxFailures = 1
  MaxCrashes = 1
SYMMETRY Symmetric
INVARIANTS TypeOK NoOverdraft SenderExclusion NoFalseRefusal
  OkMeansPaid PaidAtMostOnce NomoneyMeansUnpaid
PROPERTIES SettledIsFinal ImplementsBank
CHECK_DEADLOCK FALSE
