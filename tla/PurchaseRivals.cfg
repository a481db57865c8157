SPECIFICATION PurchaseSpec
CONSTANTS
  x1 = x1
  x2 = x2
  i1 = i1
  i2 = i2
  key = key
  Orders = {o1, o2}
  Carts = {k1}
  Products = {key}
  Intents = {i1, i2}
  NoIntent = NoIntent
  Calls <- MCCalls
  Patches = {x1, x2}
  Notices <- PaidOnce
  Edits = {}
  Faulty = {}
  NoCart = NoCart
  NoOrder = NoOrder
  NoRow = NoRow
  Checkouts = {x1, x2}
  MaxTries = 1
  Events <- PaidEvents
  Deliveries <- PaidOnce
  EventOf <- MCEventOf
  LicenseProducts = {key}
  NoAnswer = NoAnswer
  FaultyDeliveries = {}
  FaultyCheckouts = {x1, x2}
  Declinable = {}
  Refundable = {}
SYMMETRY RivalsSymmetry
INVARIANT StatusIsTrue
PROPERTY ImplementsOrderSystem
CHECK_DEADLOCK FALSE
