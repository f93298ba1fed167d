SPECIFICATION Spec
CONSTANTS
  a1 = a1
  a2 = a2
  a3 = a3
  Account = {a1, a2, a3}
  Qrid = {"q1", "q2"}
  Password = {"p1", "p2"}
  None = None
  Removed = Removed
  Request <- Requests
  MaxFaults = 1
  Visitor = {"v"}
  Stranger = "s"
  PRESENCE_SINCE = 2
  MaxTime = 3
  MaxChecks = 3
  MaxCards = 1
SYMMETRY Symmetric
INVARIANTS CheckinsKept PresenceIsMeasured
PROPERTY ImplementsAccounts
CHECK_DEADLOCK FALSE
