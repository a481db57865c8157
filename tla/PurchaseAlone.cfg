SPECIFICATION PurchaseSpec
CONSTANTS
  x1 = x1
  x2 = x2
  i1 = i1
  i2 = i2
  key = key
  Orders = {o1}
  Carts = {k1}
  Products = {key, box}
  Intents = {i1}
  NoIntent = NoIntent
  Calls <- MCCalls
  Patches = {x1}
  Notices <- AllOnce
  Edits = {}
  Faulty <- MCCalls
  NoCart = NoCart
  NoOrder = NoOrder
  NoRow = NoRow
  Checkouts = {x1}
  MaxTries = 1
  Events <- AllEvents
  Deliveries <- AllOnce
  EventOf <- MCEventOf
  LicenseProducts = {key}
  NoAnswer = NoAnswer
  FaultyDeliveries = {}
  FaultyCheckouts = {}
  Declinable = {i1}
  Refundable = {i1}
INVARIANTS PurchaseTypeOK StatusIsTrue PaidIsDelivered
CHECK_DEADLOCK FALSE
