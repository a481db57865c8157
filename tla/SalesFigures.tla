---------------------------- MODULE SalesFigures ----------------------------
(***************************************************************************)
(* What analytics-service computes from the orders and the products the    *)
(* other services answer with: the dashboard, sales by period and bucket,  *)
(* by category and by product type, average carts, the stock summary and   *)
(* the export.  Time is counted in days; a month and a week are constants  *)
(* that do not divide one another.  Prices are whole, without tax, and an  *)
(* order holds a product once.  Creating an order saves the row with its   *)
(* total, then the items one by one, and may stop in between.              *)
(***************************************************************************)
EXTENDS Integers, FiniteSets, FiniteSetsExt

CONSTANTS
  WeekLength, MonthLength,       \* in days
  QuarterMonths, YearMonths,     \* in months
  SaleIds,                       \* the orders
  Wares, TypeOf, CategoryOf, PriceOf,
  FirstPage,                        \* the products on the first page of a hundred
  MaxShelf, Threshold,           \* of the physical products
  NoSale, NoList, NoReport,
  NoStock,                       \* null: a stock that was never entered
  SaleLoads                      \* what a behaviour moves

Types == {"saas", "physical", "license"}
LaterStatuses == {"paid", "processing", "shipped", "cancelled", "refunded"}

ASSUME SalesAssumption ==
  /\ {WeekLength, MonthLength, QuarterMonths, YearMonths} \subseteq Nat \ {0}
  /\ IsFiniteSet(SaleIds) /\ IsFiniteSet(Wares) /\ FirstPage \subseteq Wares
  /\ TypeOf \in [Wares -> Types] /\ PriceOf \in [Wares -> Nat]
  /\ MaxShelf \in Nat /\ Threshold \in Nat /\ NoStock \notin Int
  /\ SaleLoads \subseteq
       [last : Nat, orders : SUBSET SaleIds, items : SUBSET (SUBSET Wares),
        statuses : SUBSET LaterStatuses, deletes : BOOLEAN, stock : BOOLEAN]

VARIABLES
  saleLoad,
  today,
  sale,       \* the orders: their day, their status, the products their total
              \* counts, and the items that are saved
  gone,       \* the products that were deleted
  shelf,      \* the stock of the products
  listed      \* the list of products in the catalog's cache: the stock it shows

saleVars == <<saleLoad, today, sale, gone, shelf, listed>>

SalePeriods == {"today", "week", "month", "quarter", "year"}
Groups == {"day", "week", "month"}

MonthStart(d) == d - (d % MonthLength)
MondayOf(d) == d - (d % WeekLength)

Length(period) ==
  CASE period = "today" -> 1
    [] period = "week" -> WeekLength
    [] period = "month" -> MonthLength
    [] period = "quarter" -> QuarterMonths * MonthLength
    [] period = "year" -> YearMonths * MonthLength

(* The first day of the running period; the period before, which ends where *)
(* this one starts, less a millisecond.                                     *)
FirstDay(period) ==
  IF period = "week" THEN MondayOf(today) ELSE today - (today % Length(period))
(* Mutant: the period before ends when this one starts.                     *)
BeforeUpTo(period) == (FirstDay(period) - Length(period))..FirstDay(period)
Before(period) == (FirstDay(period) - Length(period))..(FirstDay(period) - 1)

During(period) == FirstDay(period)..today

Bucket(d, groupBy) ==
  CASE groupBy = "day" -> d
    [] groupBy = "week" -> MondayOf(d)
    [] groupBy = "month" -> MonthStart(d)

(* The buckets of the series: that of the first day, and of every day one   *)
(* step further, up to now.                                                 *)
StepOf(groupBy) == CASE groupBy = "day" -> 1
                     [] groupBy = "week" -> WeekLength
                     [] groupBy = "month" -> MonthLength
(* Mutant: up to yesterday.                                                 *)
BucketsToYesterday(period, groupBy) ==
  {Bucket(d, groupBy) :
     d \in {e \in During(period) \ {today} : (e - FirstDay(period)) % StepOf(groupBy) = 0}}
Buckets(period, groupBy) ==
  {Bucket(d, groupBy) :
     d \in {e \in During(period) : (e - FirstDay(period)) % StepOf(groupBy) = 0}}

(* What order-service answers: it hides the orders that wait for a payment. *)
(* A service that does not answer counts as one that has nothing.           *)
FetchOrders(answers) ==
  IF "orders" \notin answers THEN {}
  ELSE {o \in SaleIds : sale[o] # NoSale /\ sale[o].status # "pending"}

(* The products of the first page, those deleted no longer among them.      *)
FetchProducts(answers) ==
  IF "products" \in answers THEN FirstPage \ gone ELSE {}

PaidStatuses == {"paid", "shipped"}   \* "completed" and "delivered" as shipped

Made(days, orders) == {o \in orders : sale[o].day \in days}
PaidOf(orders) == {o \in orders : sale[o].status \in PaidStatuses}
InStatus(orders, s) == {o \in orders : sale[o].status = s}
PricesOf(products) == MapThenSumSet(LAMBDA i : PriceOf[i], products)
Total(o) == PricesOf(sale[o].lines)
Revenue(orders) == MapThenSumSet(Total, orders)

(* GET_SALES: an order whose bucket is not in the series is not counted.    *)
Sales(period, groupBy, answers) ==
  LET orders == PaidOf(Made(During(period), FetchOrders(answers)))
      those(b) == {o \in orders : Bucket(sale[o].day, groupBy) = b}
      counted == UNION {those(b) : b \in Buckets(period, groupBy)}
  IN [series |-> [b \in Buckets(period, groupBy) |-> Revenue(those(b))],
      orders |-> counted, revenue |-> Revenue(counted)]

(* The items of the paid orders, with what the list of products says of     *)
(* each.                                                                    *)
Sold(period, answers) ==
  UNION {{<<o, i>> : i \in sale[o].items} :
           o \in PaidOf(Made(During(period), FetchOrders(answers)))}

(* Mutant: an item of a product that is not in the list is left out.        *)
SplitKnown(period, kinds, kindOf, answers) ==
  [k \in kinds |->
     MapThenSumSet(LAMBDA x : PriceOf[x[2]],
       {x \in Sold(period, answers) :
          x[2] \in FetchProducts(answers) /\ kindOf[x[2]] = k})]
Split(period, kinds, kindOf, answers) ==
  [k \in kinds |->
     MapThenSumSet(LAMBDA x : PriceOf[x[2]],
       {x \in Sold(period, answers) :
          k = IF x[2] \in FetchProducts(answers) THEN kindOf[x[2]] ELSE "unknown"})]

Categories == {CategoryOf[p] : p \in Wares} \cup {"unknown"}

SalesByCategory(period, answers) == Split(period, Categories, CategoryOf, answers)

SalesByProductType(period, answers) ==
  Split(period, Types \cup {"unknown"}, TypeOf, answers)

AverageCart(period, answers) ==
  LET orders == PaidOf(Made(During(period), FetchOrders(answers)))
  IN [orders |-> orders, revenue |-> Revenue(orders)]

(* Each order counts once for every type it has an item of; items of        *)
(* unknown products have none.                                              *)
AverageCartByProductType(period, answers) ==
  [t \in Types |->
     LET items == {x \in Sold(period, answers) :
                     x[2] \in FetchProducts(answers) /\ TypeOf[x[2]] = t}
     IN [orders |-> {x[1] : x \in items},
         revenue |-> MapThenSumSet(LAMBDA x : PriceOf[x[2]], items)]]

Dashboard(period, answers) ==
  LET orders == Made(During(period), FetchOrders(answers))
      before == Made(Before(period), FetchOrders(answers))
  IN [total |-> orders, completed |-> PaidOf(orders),
      pending |-> InStatus(orders, "pending") \cup InStatus(orders, "processing"),
      cancelled |-> InStatus(orders, "cancelled"),
      revenue |-> Revenue(PaidOf(orders)),
      before |-> before, revenueBefore |-> Revenue(PaidOf(before))]

(* EXPORT_SALES takes its own days, and fails if the orders do not come.    *)
ExportSales(from, to, answers) ==
  IF "orders" \in answers THEN PaidOf(Made(from..to, FetchOrders(answers)))
  ELSE NoReport

(* GET_STOCK_STATUS: the list of products may come from the cache, the      *)
(* alerts never do.  A product without a stock counts as sold out, and is   *)
(* in no alert.                                                             *)
StockOf(p) == IF listed = NoList THEN shelf[p] ELSE listed[p]
NoneLeft(q) == q = NoStock \/ q <= 0
Physical == {p \in Wares : TypeOf[p] = "physical"}
Alerts(answers) ==
  IF "alerts" \in answers
  THEN {p \in Physical \ gone : shelf[p] # NoStock /\ shelf[p] <= Threshold}
  ELSE {}
(* Mutant: low means low, also where nothing is left.                       *)
StockStatusAlertsFirst(answers) ==
  LET all == {p \in FetchProducts(answers) : TypeOf[p] = "physical"}
      low == all \cap Alerts(answers)
      out == {p \in all \ low : NoneLeft(StockOf(p))}
  IN [total |-> all, out |-> out, low |-> low, inStock |-> all \ (out \cup low)]
StockStatus(answers) ==
  LET all == {p \in FetchProducts(answers) : TypeOf[p] = "physical"}
      out == {p \in all : NoneLeft(StockOf(p))}
      low == (all \ out) \cap Alerts(answers)
  IN [total |-> all, out |-> out, low |-> low, inStock |-> all \ (out \cup low)]
----------------------------------------------------------------------------
Shelf == 0..MaxShelf \cup {NoStock}

SaleInit ==
  /\ saleLoad \in SaleLoads
  /\ today = 0
  /\ sale = [o \in SaleIds |-> NoSale]
  /\ gone = {}
  /\ shelf = [p \in Wares |-> IF p \in Physical THEN MaxShelf ELSE NoStock]
  /\ listed = NoList

NextDay ==
  /\ today < saleLoad.last
  /\ today' = today + 1
  /\ UNCHANGED <<saleLoad, sale, gone, shelf, listed>>

(* CREATE_ORDER saves the row, its total with it.                           *)
MakeSale(o, lines) ==
  /\ o \in saleLoad.orders /\ sale[o] = NoSale
  /\ lines \in saleLoad.items /\ lines \cap gone = {}
  /\ sale' = [sale EXCEPT ![o] =
                [day |-> today, status |-> "pending", lines |-> lines, items |-> {}]]
  /\ UNCHANGED <<saleLoad, today, gone, shelf, listed>>

(* Then each item, if the creation did not stop: the order may be paid for  *)
(* meanwhile.                                                               *)
SaveLine(o, i) ==
  /\ sale[o] # NoSale /\ i \in sale[o].lines \ sale[o].items
  /\ sale' = [sale EXCEPT ![o].items = @ \cup {i}]
  /\ UNCHANGED <<saleLoad, today, gone, shelf, listed>>

(* A payment, its refund, the clean-up, or what an administrator enters.    *)
MoveSale(o, status) ==
  /\ sale[o] # NoSale
  /\ sale' = [sale EXCEPT ![o].status = status]
  /\ UNCHANGED <<saleLoad, today, gone, shelf, listed>>

DropSale(o) ==
  /\ sale[o] # NoSale /\ sale[o].status = "pending"
  /\ sale' = [sale EXCEPT ![o] = NoSale]
  /\ UNCHANGED <<saleLoad, today, gone, shelf, listed>>

(* What changes a product drops the lists of the cache; what sells it does  *)
(* not.  An edit may also take the stock away.                              *)
DeleteWare(p) ==
  /\ saleLoad.deletes /\ p \notin gone
  /\ gone' = gone \cup {p} /\ listed' = NoList
  /\ UNCHANGED <<saleLoad, today, sale, shelf>>

Restock(p, q) ==
  /\ saleLoad.stock /\ p \notin gone
  /\ shelf' = [shelf EXCEPT ![p] = q] /\ listed' = NoList
  /\ UNCHANGED <<saleLoad, today, sale, gone>>

SellOne(p) ==
  /\ saleLoad.stock /\ p \in Physical \ gone /\ ~NoneLeft(shelf[p])
  /\ shelf' = [shelf EXCEPT ![p] = @ - 1]
  /\ UNCHANGED <<saleLoad, today, sale, gone, listed>>

FillList ==
  /\ saleLoad.stock /\ listed = NoList
  /\ listed' = shelf
  /\ UNCHANGED <<saleLoad, today, sale, gone, shelf>>

ListExpires ==
  /\ listed # NoList
  /\ listed' = NoList
  /\ UNCHANGED <<saleLoad, today, sale, gone, shelf>>

SaleNext ==
  \/ NextDay
  \/ \E o \in SaleIds, lines \in (SUBSET Wares) \ {{}} : MakeSale(o, lines)
  \/ \E o \in SaleIds, i \in Wares : SaveLine(o, i)
  \/ \E o \in SaleIds, s \in saleLoad.statuses : MoveSale(o, s)
  \/ \E o \in SaleIds : DropSale(o)
  \/ \E p \in Wares : DeleteWare(p) \/ SellOne(p)
  \/ \E p \in Physical, q \in Shelf : Restock(p, q)
  \/ FillList \/ ListExpires

SaleSpec == SaleInit /\ [][SaleNext]_saleVars
----------------------------------------------------------------------------
Everything == {"orders", "products", "alerts"}

(* The orders, the products and their list have their types.                *)
SaleTypeOK ==
  /\ saleLoad \in SaleLoads /\ today \in 0..saleLoad.last
  /\ \A o \in SaleIds : sale[o] # NoSale =>
       /\ sale[o].day \in 0..today
       /\ sale[o].lines # {} /\ sale[o].lines \subseteq Wares
       /\ sale[o].items \subseteq sale[o].lines
  /\ gone \subseteq Wares
  /\ shelf \in [Wares -> Shelf]
  /\ listed \in [Wares -> Shelf] \cup {NoList}

(* The series misses nothing but the orders of the week or month that runs, *)
(* and only where the steps from the first day of the period pass over it:  *)
(* weeks of a month, a quarter or a year, months of a week.                 *)
SeriesMisses ==
  \A p \in SalePeriods, g \in Groups :
    LET all == AverageCart(p, Everything).orders
        missed == all \ Sales(p, g, Everything).orders
    IN /\ \A o \in missed : Bucket(sale[o].day, g) = Bucket(today, g)
       /\ missed # {} =>
            <<p, g>> \in ({"month", "quarter", "year"} \X {"week"})
                           \cup {<<"week", "month">>}

(* What an order counts of the items it lacks.                              *)
Unlisted(o) == PricesOf(sale[o].lines \ sale[o].items)

(* The reports agree on one period, whichever services answer: the          *)
(* dashboard, the average cart, sales by day, by category and by type and   *)
(* the export count the same orders, and the same revenue, but for what an  *)
(* order counts of items it lacks, which no product and no category gets;   *)
(* only the export tells a service that is silent from a period that sold   *)
(* nothing.  Of the orders that were paid for, those that are prepared are  *)
(* left out.                                                                *)
ReportsAgree ==
  \A p \in SalePeriods, answers \in SUBSET {"orders", "products"} :
    LET dash == Dashboard(p, answers)
        split(f) == MapThenSumSet(LAMBDA k : f[k], DOMAIN f)
        lacking == MapThenSumSet(Unlisted, dash.completed)
    IN /\ AverageCart(p, answers).orders = dash.completed
       /\ Sales(p, "day", answers).orders = dash.completed
       /\ ExportSales(FirstDay(p), today, answers)
            = IF "orders" \in answers THEN dash.completed ELSE NoReport
       /\ "orders" \notin answers => dash.total = {}
       /\ dash.revenue = AverageCart(p, answers).revenue
       /\ dash.revenue = Sales(p, "day", answers).revenue
       /\ dash.revenue = split(SalesByCategory(p, answers)) + lacking
       /\ dash.revenue = split(SalesByProductType(p, answers)) + lacking
       /\ \A t \in Types :
            AverageCartByProductType(p, answers)[t].revenue
              = SalesByProductType(p, answers)[t]
       /\ dash.total = dash.completed \cup dash.pending \cup dash.cancelled
                         \cup InStatus(dash.total, "refunded")

(* An order of this period is not one of the period before, no day is       *)
(* between them, and both are of one length once this one is over.          *)
PeriodsMeet ==
  \A p \in SalePeriods :
    /\ Dashboard(p, Everything).total \cap Dashboard(p, Everything).before = {}
    /\ FirstDay(p) - 1 \in Before(p) /\ FirstDay(p) \in During(p)
    /\ today + 1 - FirstDay(p) <= Cardinality(Before(p))

(* The summary of the stock says what the list below it says of the         *)
(* products it counts, and counts those without a stock as sold out, which  *)
(* the list leaves out; unless a service did not answer or the list of      *)
(* products was kept.                                                       *)
StockAgrees ==
  \A answers \in SUBSET {"products", "alerts"} :
    LET s == StockStatus(answers) IN
    /\ s.total = s.inStock \cup s.low \cup s.out
    /\ answers = {"products", "alerts"} /\ (listed = NoList \/ listed = shelf) =>
         /\ s.out = {p \in Alerts(answers) \cap FirstPage : shelf[p] = 0}
                      \cup {p \in (Physical \cap FirstPage) \ gone : shelf[p] = NoStock}
         /\ s.low = {p \in Alerts(answers) \cap FirstPage : shelf[p] > 0}
=============================================================================
