SPECIFICATION OrderSpec
CONSTANTS
  Orders = {o1, o2}
  Carts = {k1}
  Products = {p1}
  Intents = {i1}
  NoIntent = NoIntent
  Calls = {c1}
  Patches = {q1}
  Notices = {n1}
  Edits = {e1}
  Faulty = {}
  NoCart = NoCart
  NoOrder = NoOrder
  NoRow = NoRow
INVARIANT ShippedFromPaid
CHECK_DEADLOCK FALSE
