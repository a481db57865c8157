SPECIFICATION OrderSpec
CONSTANTS
  Orders = {o1, o2}
  Carts = {k1}
  Products = {p1}
  Intents = {i1}
  NoIntent = NoIntent
  Calls = {c1, c2}
  Patches = {q1}
  Notices = {n1}
  Edits = {e1}
  Faulty = {c1, c2, q1, e1}
  NoCart = NoCart
  NoOrder = NoOrder
  NoRow = NoRow
SYMMETRY OrdersSymmetry
INVARIANTS OrderTypeOK IntentNamesOneOrder StatusHasCause CreatorAnswersComplete ShippedIsMailed
PROPERTY OnlyStaleReuseUndoesVerdict
CHECK_DEADLOCK FALSE
