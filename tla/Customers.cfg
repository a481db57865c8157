SPECIFICATION CustomerSpec
CONSTANTS
  s1 = s1
  s2 = s2
  l1 = l1
  l2 = l2
  SubIds = {1, 2}
  CustomerIds = {1, 2}
  MaxChanges = 4
  SubSlots = {s1, s2}
  SubLoads <- MCSubLoads
  NoRow = NoRow
  NoCustomer = NoCustomer
  TokenIds = {1, 2, 3}
  MaxSessions = 2
  MaxPasswords = 1
  SessSlots = {s1, s2}
  SessLoads <- MCSessLoads
  NoToken = NoToken
  LinkIds = {1, 2, 3}
  MaxFailures = 2
  CredSlots = {s1, s2}
  NoLink = NoLink
  NoAccount = NoAccount
  CredLoads <- MCCredLoads
  CodeIds = {1, 2, 3}
  MaxAttempts = 2
  FactorSlots = {s1, s2}
  NoCode = NoCode
  FactorLoads <- MCFactorLoads
  AdminIds = {1, 2, 3}
  AdminTokIds = {1, 2, 3}
  AdminSlots = {s1, s2}
  NoAdmin = NoAdmin
  NoAdminTok = NoAdminTok
  AdminLoads <- MCAdminLoads
  Lines = {l1, l2}
  Physical = {l1}
  MaxQuantity = 2
  CartSlots = {s1, s2}
  NoLines = NoLines
  NoCopy = NoCopy
  NoProduct = NoProduct
  Off = Off
  CartLoads <- MCCartLoads
  AddressIds = {1, 2, 3}
  MaxAddresses = 2
  AddressSlots = {s1, s2}
  NoAddress = NoAddress
  AddressLoads <- MCAddressLoads
  EventIds = {1, 2}
  NoEvent = NoEvent
  Attempts = {1, 2, 3}
  MaxRequests = 3
  PaidEvents = {1, 2}
  PaidDeliveries = {1, 2, 3}
  PaidEventOf <- MCPaidEventOf
  Units = {1}
  Clicks = {1, 2}
  o1 = o1
  i1 = i1
  d1 = d1
  d2 = d2
  d3 = d3
  d4 = d4
  box = box
  key = key
  Events <- MCEvents
  Deliveries = {d1, d2, d3, d4}
  EventOf <- MCEventOf
  LicenseProducts = {key}
  Orders = {o1}
  Products = {box, key}
  NoAnswer = NoAnswer
  FaultyDeliveries = {d1, d3}
  OrderOf <- MCOrderOf
INVARIANTS
  CustomerTypeOK SubscriptionsConsistent SessionsSafe CredentialsSafe
  FactorSafe AdminsSafe OwnDataConsistent MailsAccounted CallsAnswerTrue
  LicencesConsistent ClaimsAreHeld LicensesOnce ConfirmedIsLicensed
PROPERTIES RowsKept ClaimIsExclusive
CHECK_DEADLOCK FALSE
