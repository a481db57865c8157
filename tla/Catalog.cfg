SPECIFICATION CatalogSpec
CONSTANTS
  s1 = s1
  s2 = s2
  i1 = i1
  i2 = i2
  i3 = i3
  p1 = p1
  p2 = p2
  catA = catA
  catB = catB
  itemA = itemA
  itemB = itemB
  Goods = {g1}
  Carts = {c1, c2}
  MaxStock = 2
  ReservationIds = {1, 2}
  StockSlots = {s1, s2}
  CronSlot = cron
  Workloads <- MCWorkloads
  NoRow = NoRow
  ImageIds = {i1, i2, i3}
  MaxImages = 2
  ImageSlots = {s1, s2}
  ImageLoads <- MCImageLoads
  NoImage = NoImage
  Showcase = {p1, p2}
  FeaturedLimit = 1
  FeatureSlots = {s1, s2}
  FeatureLoads <- MCFeatureLoads
  MaxEvents = 1
  NotCached = NotCached
  Amounts = {0, 1, 2}
  PriceIds = {1, 2, 3}
  Periods = {"month", "year"}
  PriceSlots = {s1, s2}
  PriceLoads <- MCPriceLoads
  NoPrice = NoPrice
  Cats = {catA, catB}
  Items = {itemA, itemB}
  Slugs = {a, b}
  CatSlots = {s1, s2}
  CatLoads <- MCCatLoads
  Nothing = Nothing
  w1 = w1
  w2 = w2
  w3 = w3
  WeekLength = 3
  MonthLength = 4
  QuarterMonths = 2
  YearMonths = 4
  SaleIds = {1, 2}
  Wares = {w1, w2, w3}
  TypeOf <- MCTypeOf
  CategoryOf <- MCCategoryOf
  PriceOf <- MCPriceOf
  SaleLoads <- MCSaleLoads
  FirstPage = {w1, w2}
  MaxShelf = 2
  Threshold = 1
  NoSale = NoSale
  NoList = NoList
  NoReport = NoReport
  NoStock = NoStock
  MetricSlots = {s1, s2}
  MaxFacts = 2
  NoMetric = NoMetric
  NoFigure = NoFigure
  PlanIds = {q1}
  LastMonth = 1
  MrrSlots = {s1}
  NoPlan = NoPlan
  NoMonth = NoMonth
  NotKept = NotKept
INVARIANTS
  CatalogTypeOK OversoldOnlyByFault CachesTrue
  ImagesConsistent FeaturedConsistent 
  FiguresTrue MetricsTrue
PROPERTY DeletedStaysDeleted
CHECK_DEADLOCK FALSE
