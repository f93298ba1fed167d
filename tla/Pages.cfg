SPECIFICATION Spec
CONSTANTS
  Row <- Rows
  MaxCalls = 2
  MaxResets = 1
  Person = {"a", "b"}
  Amount = {0, 1, 2}
  MaxSubmits = 2
  a = a
  b = b
  Holder = {a, b}
  MaxLookups = 1
  MaxWork = 5
  Applicant <- People
  NoCard = "none"
  Picname = {"x", "y"}
  MaxAttempts = 3
  Pupil = {"a", "b"}
  NoOne = "nobody"
  PupilQrid = {"q1", "q2", "q3"}
  MaxQueries = 2
  MaxOrders = 2
  AMOUNT_X = 2
  AMOUNT_Y = 1
  CardKind = {"picture", "plain", "broken"}
  MaxCardLists = 2
  MaxListLength = 3
INVARIANTS PagesTypeOK RowPaidAtMostOnce TableIsTrue OneHandler ShownAsTyped
  FormPaidOnce NamedIsMeant PictureOfOwner ActsOnShown ShownIsComplete
SYMMETRY Guests
CHECK_DEADLOCK FALSE
