SPECIFICATION FairPurchaseSpec
CONSTANTS
  x1 = x1
  x2 = x2
  i1 = i1
  i2 = i2
  key = key
  Orders = {o1}
  Carts = {k1}
  Products = {key}
  Intents = {i1}
  NoIntent = NoIntent
  Calls <- MCCalls
  Patches = {x1}
  Notices <- PaidOnce
  Edits = {}
  Faulty = {}
  NoCart = NoCart
  NoOrder = NoOrder
  NoRow = NoRow
  Checkouts = {x1}
  MaxTries = 1
  Events <- PaidEvents
  Deliveries <- PaidOnce
  EventOf <- MCEventOf
  LicenseProducts = {key}
  NoAnswer = NoAnswer
  FaultyDeliveries = {}
  FaultyCheckouts = {}
  Declinable = {}
  Refundable = {}
PROPERTY PaymentsAreConfirmed
CHECK_DEADLOCK FALSE
