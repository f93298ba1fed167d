SPECIFICATION Spec
CONSTANTS
  a1 = a1
  a2 = a2
  a3 = a3
  q1 = q1
  q2 = q2
  q3 = q3
  p1 = p1
  p2 = p2
  Account = {a1, a2, a3}
  Qrid = {q1, q2, q3}
  Password = {p1, p2}
  None = None
  Removed = Removed
  Unit = 2
  TrUnit = 4
  TaxPercent = 10
  TaxincQrid = q3
  Magic = Magic
  NoAccount = NoAccount
  NotFinite = NotFinite
  FineText = FineText
  MaxFailures = 1
  Input <- Payable
INVARIANTS TypeOK EntryGuarantee InDubioProCentralBank DebitsCheckedAccount
CHECK_DEADLOCK FALSE
