SPECIFICATION OrderSpec
CONSTANTS
  Orders = {o1, o2}
  Carts = {k1}
  Products = {p1}
  Intents = {i1}
  NoIntent = NoIntent
  Calls = {c1, c2}
  Patches = {q1}
  Notices = {n1}
  Edits = {}
  Faulty = {}
  NoCart = NoCart
  NoOrder = NoOrder
  NoRow = NoRow
INVARIANT ConfirmedStaysPaid
CHECK_DEADLOCK FALSE
