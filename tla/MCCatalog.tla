----------------------------- MODULE MCCatalog -----------------------------
(***************************************************************************)
(* Small instances, for TLC, of the parts of catalog-service and of        *)
(* analytics-service, which reports on them.  The parts share no variable, *)
(* so one run checks them side by side: a behaviour moves one of them, and *)
(* the states are the sum of theirs.                                       *)
(***************************************************************************)
EXTENDS Stock, ProductImages, FeaturedProducts, ProductPrices, Categories,
        SalesFigures, MetricCache, RecurringRevenue, TLC

CONSTANTS s1, s2, i1, i2, i3, p1, p2, catA, catB, itemA, itemB, w1, w2, w3

VARIABLE part    \* the part this behaviour moves

catalogVars ==
  <<stockVars, imageVars, featureVars, priceVars, catVars, saleVars,
    metricVars, revenueVars, part>>

(* Reservations come and go with deletions; or a stock written meanwhile;   *)
(* reads and writes of the row and its copy; the sale of what was reserved. *)
MCWorkloads ==
  {[handlers |-> {"reserve", "release", "confirm", "delete"}, slots |-> {s1}],
   [handlers |-> {"reserve", "updateStock"}, slots |-> {s1}],
   [handlers |-> {"find", "update", "delete", "updateStock"},
    slots |-> {s1, s2}],
   [handlers |-> {"confirm", "find", "update"}, slots |-> {s1}],
   [handlers |-> {"confirm", "find"}, slots |-> {s1, s2}]}

MCImageLoads == {[ids |-> {i1, i2, i3}, slots |-> {s1}, reorder |-> TRUE],
                 [ids |-> {i1, i2}, slots |-> {s1, s2}, reorder |-> FALSE]}

(* A request at a time; requests that meet, on two products or on one.      *)
MCFeatureLoads ==
  {[handlers |-> FeatureHandlers, slots |-> {s1}, made |-> {}],
   [handlers |-> {"create", "reconcile"}, slots |-> {s1, s2}, made |-> {}],
   [handlers |-> {"replace", "read", "updateOther"}, slots |-> {s1, s2},
    made |-> {p1}]}

(* One period, with every handler or with requests that stop; two periods   *)
(* with three Prices; a buyer who comes in the middle of updates, or of a   *)
(* deletion.                                                                *)
MCPriceLoads ==
  {[handlers |-> {"create", "update", "rename", "delete", "bulkDelete", "buy"},
    periods |-> {"month"}, amounts |-> {0, 1, 2}, ids |-> 1..2,
    admin |-> s1, buyer |-> s1],
   [handlers |-> {"import", "update", "rename", "buy", "stop"},
    periods |-> {"month"}, amounts |-> {0, 1, 2}, ids |-> 1..2,
    admin |-> s1, buyer |-> s1],
   [handlers |-> {"create", "update", "buy"}, periods |-> {"month", "year"},
    amounts |-> {0, 1}, ids |-> 1..3, admin |-> s1, buyer |-> s1],
   [handlers |-> {"create", "update", "buy"}, periods |-> {"month"},
    amounts |-> {1, 2}, ids |-> 1..2, admin |-> s1, buyer |-> s2],
   [handlers |-> {"create", "update", "delete", "bulkDelete", "buy"},
    periods |-> {"month"}, amounts |-> {1}, ids |-> 1..2,
    admin |-> s1, buyer |-> s2],
   [handlers |-> {"create", "update", "delete", "buy", "stop"},
    periods |-> {"month"}, amounts |-> {1}, ids |-> {1}, admin |-> s1,
    buyer |-> s2]}

(* Categories that get a product; products of one category, with copies     *)
(* under their ids; requests that meet.                                     *)
MCCatLoads ==
  {[handlers |-> {"create", "update", "delete", "find",
                  "createItem", "deleteItem", "findItem"},
    slots |-> {s1}, cats |-> {catA, catB}, items |-> {itemA}],
   [handlers |-> {"create", "createItem", "updateItem", "deleteItem",
                  "bulkDelete", "findItem", "findId"},
    slots |-> {s1}, cats |-> {catA}, items |-> {itemA, itemB}],
   [handlers |-> {"create", "update", "delete", "createItem"},
    slots |-> {s1, s2}, cats |-> {catA}, items |-> {itemA}]}

MCTypeOf == (w1 :> "saas" @@ w2 :> "physical" @@ w3 :> "physical")
MCCategoryOf == (w1 :> "c1" @@ w2 :> "c2" @@ w3 :> "c2")
MCPriceOf == (w1 :> 1 @@ w2 :> 2 @@ w3 :> 4)

(* One order over a year, in every status; two orders on days of a month;   *)
(* two orders with several products, which are deleted; the stock alone.    *)
MCSaleLoads ==
  {[last |-> 17, orders |-> {1}, items |-> {{w1}},
    statuses |-> {"paid", "processing", "shipped", "cancelled", "refunded"},
    deletes |-> FALSE, stock |-> FALSE],
   [last |-> 4, orders |-> {1, 2}, items |-> {{w1}, {w2}},
    statuses |-> {"paid"}, deletes |-> FALSE, stock |-> FALSE],
   [last |-> 0, orders |-> {1, 2}, items |-> {{w1}, {w2, w3}, {w1, w2}},
    statuses |-> {"paid"}, deletes |-> TRUE, stock |-> FALSE],
   [last |-> 0, orders |-> {}, items |-> {}, statuses |-> {},
    deletes |-> TRUE, stock |-> TRUE]}

Parts == {"stock", "images", "featured", "prices", "categories",
          "figures", "metrics", "revenue"}

CatalogInit ==
  /\ part \in Parts
  /\ StockInit /\ ImageInit /\ FeatureInit /\ PriceInit /\ CategoryInit
  /\ SaleInit /\ MetricInit /\ RevenueInit
  /\ part # "stock" => workload = CHOOSE w \in Workloads : TRUE
  /\ part # "stock" => \A id \in ReservationIds : reservation[id] = NoRow
  /\ part # "images" => imageLoad = CHOOSE l \in ImageLoads : TRUE
  /\ part # "featured" => featureLoad = CHOOSE l \in FeatureLoads : TRUE
  /\ part # "prices" => priceLoad = CHOOSE l \in PriceLoads : TRUE
  /\ part # "categories" => catLoad = CHOOSE l \in CatLoads : TRUE
  /\ part # "figures" => saleLoad = CHOOSE l \in SaleLoads : TRUE

CatalogNext ==
  /\ UNCHANGED part
  /\ \/ /\ part = "stock" /\ StockNext
        /\ UNCHANGED <<imageVars, featureVars, priceVars, catVars,
                       saleVars, metricVars, revenueVars>>
     \/ /\ part = "images" /\ ImageNext
        /\ UNCHANGED <<stockVars, featureVars, priceVars, catVars,
                       saleVars, metricVars, revenueVars>>
     \/ /\ part = "featured" /\ FeatureNext
        /\ UNCHANGED <<stockVars, imageVars, priceVars, catVars,
                       saleVars, metricVars, revenueVars>>
     \/ /\ part = "prices" /\ PriceNext
        /\ UNCHANGED <<stockVars, imageVars, featureVars, catVars,
                       saleVars, metricVars, revenueVars>>
     \/ /\ part = "categories" /\ CategoryNext
        /\ UNCHANGED <<stockVars, imageVars, featureVars, priceVars,
                       saleVars, metricVars, revenueVars>>
     \/ /\ part = "figures" /\ SaleNext
        /\ UNCHANGED <<stockVars, imageVars, featureVars, priceVars,
                       catVars, metricVars, revenueVars>>
     \/ /\ part = "metrics" /\ MetricNext
        /\ UNCHANGED <<stockVars, imageVars, featureVars, priceVars,
                       catVars, saleVars, revenueVars>>
     \/ /\ part = "revenue" /\ RevenueNext
        /\ UNCHANGED <<stockVars, imageVars, featureVars, priceVars,
                       catVars, saleVars, metricVars>>

CatalogSpec == CatalogInit /\ [][CatalogNext]_catalogVars

(* The state of the part that moves has its type.                           *)
CatalogTypeOK ==
  CASE part = "stock" -> StockTypeOK
    [] part = "images" -> ImageTypeOK
    [] part = "featured" -> FeatureTypeOK
    [] part = "prices" -> PriceTypeOK
    [] part = "categories" -> CategoryTypeOK
    [] part = "figures" -> SaleTypeOK
    [] part = "metrics" -> MetricTypeOK
    [] part = "revenue" -> RevenueTypeOK

(* What Redis holds agrees with the rows it was filled from once nothing    *)
(* runs: the product, the category pages, the product pages and the list of *)
(* featured products, save for the faults each part names.                  *)
CachesTrue ==
  CacheFollowsRow /\ CategoryPagesTrue /\ ItemPagesTrue /\ CachedListFollows

(* What analytics-service computes of the orders and the stock: the series  *)
(* misses nothing but the running week or month, the reports agree on a     *)
(* period, periods meet, the summary of the stock agrees with its list.     *)
FiguresTrue ==
  part = "figures" => SeriesMisses /\ ReportsAgree /\ PeriodsMeet /\ StockAgrees

(* What analytics-service keeps is no older than what it answered, unless   *)
(* two calls computed it at a time; and what it tells of past months from   *)
(* the rows of today was so, but for what the rows do not tell.             *)
MetricsTrue == NeverOlder /\ HistoryBlamed /\ HistoryNeverMore /\ ChangeBlamed
=============================================================================
