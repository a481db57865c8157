------------------------------- MODULE Stock -------------------------------
(***************************************************************************)
(* catalog-service's stock: the quantity in each product row, the rows of  *)
(* stock_reservations that carts hold on it, and the copy of the product   *)
(* that findById keeps in Redis.                                           *)
(*                                                                         *)
(* A request of the service runs in a slot of stockCall.  Its record holds *)
(* the label of the next database access and what the earlier ones read:   *)
(* save() later writes that copy back, whatever the row has become.        *)
(***************************************************************************)
EXTENDS Naturals, FiniteSetsExt

CONSTANTS
  Goods,           \* the physical products
  Carts,
  MaxStock,        \* bounds stock_quantity and the quantity of a reservation
  ReservationIds,  \* bounds the reservations that exist at a time
  StockSlots,      \* bounds the requests in flight
  CronSlot,        \* where the clean-up cron runs
  Workloads,       \* the handlers called together in a behaviour, and the
                   \* slots they run in: records [handlers, slots]
  NoRow            \* no such row, or nothing cached

ASSUME MaxStockAssumption == MaxStock \in Nat \ {0}
ASSUME WorkloadAssumption == \A w \in Workloads : w.slots \subseteq StockSlots
ASSUME CronSlotAssumption == CronSlot \notin StockSlots
ASSUME ReservationAssumption == IsFiniteSet(ReservationIds)

VARIABLES
  product,      \* the products table
  reservation,  \* the stock_reservations table
  cached,       \* Redis: product:id:<id>
  stockCall,    \* the requests in flight
  workload,     \* the handlers clients call in this behaviour
  fault         \* history: what went wrong for a product and still may show

stockVars == <<product, reservation, cached, stockCall, workload, fault>>

Quantities == 1..MaxStock
ProductRow == [stock : 0..MaxStock, deleted : BOOLEAN]
ReservationRow ==
  [product : Goods, cart : Carts, quantity : Quantities, fresh : BOOLEAN]

Idle == [op |-> "idle"]
AllSlots == StockSlots \cup {CronSlot}

(* What may leave a product promised beyond its stock, or its cached copy   *)
(* behind its row: two requests at once; a reservation renewed without the  *)
(* check; one confirmed after it expired; a stock written by an admin or    *)
(* from a stale copy; a change that leaves the cached copy alone.           *)
Faults == {"overlap", "renewed", "late", "overwritten", "kept"}

(* No row is a row.                                                         *)
ASSUME StockRowAssumption == NoRow \notin ProductRow \cup ReservationRow

StockTypeOK ==
  /\ product \in [Goods -> ProductRow]
  /\ reservation \in [ReservationIds -> ReservationRow \cup {NoRow}]
  /\ cached \in [Goods -> ProductRow \cup {NoRow}]
  /\ DOMAIN stockCall = AllSlots
  /\ workload \in Workloads
  /\ fault \in [Goods -> SUBSET Faults]

-----------------------------------------------------------------------------
Rows == {id \in ReservationIds : reservation[id] # NoRow}
RowsOf(c) == {id \in Rows : reservation[id].cart = c}

(* getActiveReservedQuantity: the reservations that have not expired.       *)
ActiveReserved(g) ==
  LET ids == {id \in Rows : reservation[id].product = g
                            /\ reservation[id].fresh}
  IN  MapThenSumSet(LAMBDA id : reservation[id].quantity, ids)

(* Calls in flight, and the ids their copies mention: a uuid is not reused. *)
Busy == {s \in AllSlots : stockCall[s] # Idle}
Held(s) == IF "ids" \in DOMAIN stockCall[s] THEN stockCall[s].ids ELSE {}
UnusedIds == (ReservationIds \ Rows) \ UNION {Held(s) : s \in Busy}

-----------------------------------------------------------------------------
(* History.  A request that starts while another one runs marks every      *)
(* product; a mark goes once nothing runs and what it excuses is gone.     *)

(* Quantity of g that live reservations still claim from the stock: a      *)
(* confirmation in flight has already taken the ids in done.               *)
TakenIds == UNION {IF "done" \in DOMAIN stockCall[s] THEN stockCall[s].done
                   ELSE {} : s \in Busy}
Owed(g) ==
  LET ids == {id \in Rows \ TakenIds : reservation[id].product = g
                                       /\ reservation[id].fresh}
  IN  MapThenSumSet(LAMBDA id : reservation[id].quantity, ids)
Oversold(g) == Owed(g) > product[g].stock
Stale(g) == cached[g] # NoRow /\ cached[g] # product[g]

Overlap == IF \E s, t \in Busy : s # t THEN {"overlap"} ELSE {}
Blame(marks) ==
  fault' = [g \in Goods |->
    IF Busy' = {} /\ ~Oversold(g)' /\ ~Stale(g)' THEN {}
    ELSE fault[g] \cup marks[g] \cup Overlap']
NoMarks == [g \in Goods |-> {}]
Mark(g, f) == [NoMarks EXCEPT ![g] = f]

Start(s, record) ==
  /\ stockCall[s] = Idle
  /\ stockCall' = [stockCall EXCEPT ![s] = record]
Continue(s, record) == stockCall' = [stockCall EXCEPT ![s] = record]
Return(s) == stockCall' = [stockCall EXCEPT ![s] = Idle]

At(s, op, pc) == stockCall[s] # Idle /\ stockCall[s].op = op
                                     /\ stockCall[s].pc = pc

-----------------------------------------------------------------------------
(* reserveStock(product, cart, quantity)                                    *)

(* findOne excludes soft-deleted rows; a 404 changes nothing.               *)
ReserveStock(s, g, c, q) ==
  /\ "reserve" \in workload.handlers
  /\ ~product[g].deleted
  /\ Start(s, [op |-> "reserve", pc |-> "find", product |-> g, cart |-> c,
               quantity |-> q, stock |-> product[g].stock])
  /\ UNCHANGED <<product, reservation, cached, workload>>
  /\ Blame(NoMarks)

ReservationsOf(g, c) == {id \in RowsOf(c) : reservation[id].product = g}

(* An existing row is found by cart and product, expired or not.            *)
FindReservation(s) ==
  /\ At(s, "reserve", "find")
  /\ LET k == stockCall[s]
         found == ReservationsOf(k.product, k.cart)
     IN  \/ \E id \in found :
              Continue(s, [op |-> "reserve", pc |-> "renew", ids |-> {id},
                           copy |-> reservation[id], quantity |-> k.quantity])
         \/ found = {} /\ Continue(s, [k EXCEPT !.pc = "sum"])
  /\ UNCHANGED <<product, reservation, cached, workload>>
  /\ Blame(NoMarks)

(* The row takes the new quantity and 15 more minutes; nothing is checked.  *)
(* A row removed in between is inserted again by save().                    *)
RenewReservation(s) ==
  /\ At(s, "reserve", "renew")
  /\ LET k == stockCall[s]
         row == [k.copy EXCEPT !.quantity = k.quantity, !.fresh = TRUE]
     IN  /\ reservation' = [id \in ReservationIds |->
                              IF id \in k.ids THEN row ELSE reservation[id]]
         /\ Return(s)
  /\ UNCHANGED <<product, cached, workload>>
  /\ Blame(Mark(stockCall[s].copy.product, {"renewed"}))

(* Mutant: the quantity asked for is not compared with what is left.        *)
SumReservedUnchecked(s) ==
  /\ At(s, "reserve", "sum")
  /\ Continue(s, [stockCall[s] EXCEPT !.pc = "insert"])
  /\ UNCHANGED <<product, reservation, cached, workload>>
  /\ Blame(NoMarks)

(* available = the stock read before - the sum read now.                    *)
SumReserved(s) ==
  /\ At(s, "reserve", "sum")
  /\ LET k == stockCall[s]
     IN  IF k.stock < ActiveReserved(k.product) + k.quantity
         THEN Return(s)
         ELSE Continue(s, [k EXCEPT !.pc = "insert"])
  /\ UNCHANGED <<product, reservation, cached, workload>>
  /\ Blame(NoMarks)

InsertReservation(s) ==
  /\ At(s, "reserve", "insert")
  /\ UnusedIds # {}
  /\ LET k == stockCall[s]
         id == CHOOSE i \in UnusedIds : TRUE
     IN  reservation' = [reservation EXCEPT ![id] =
           [product |-> k.product, cart |-> k.cart,
            quantity |-> k.quantity, fresh |-> TRUE]]
  /\ Return(s)
  /\ UNCHANGED <<product, cached, workload>>
  /\ Blame(NoMarks)

-----------------------------------------------------------------------------
(* releaseReservation(cart) and the cron's cleanupExpiredReservations: a    *)
(* find, then a remove of the rows it returned.                             *)
ReleaseReservation(s, c) ==
  /\ "release" \in workload.handlers
  /\ RowsOf(c) # {}
  /\ Start(s, [op |-> "release", pc |-> "remove", ids |-> RowsOf(c)])
  /\ UNCHANGED <<product, reservation, cached, workload>>
  /\ Blame(NoMarks)

Expired == {id \in Rows : ~reservation[id].fresh}

CleanupExpired ==
  /\ Expired # {}
  /\ Start(CronSlot, [op |-> "release", pc |-> "remove", ids |-> Expired])
  /\ UNCHANGED <<product, reservation, cached, workload>>
  /\ Blame(NoMarks)

RemoveFound(s) ==
  /\ At(s, "release", "remove")
  /\ reservation' = [id \in ReservationIds |->
       IF id \in stockCall[s].ids THEN NoRow ELSE reservation[id]]
  /\ Return(s)
  /\ UNCHANGED <<product, cached, workload>>
  /\ Blame(NoMarks)

(* 15 minutes pass.                                                         *)
Expire(id) ==
  /\ id \in Rows
  /\ reservation[id].fresh
  /\ reservation' = [reservation EXCEPT ![id].fresh = FALSE]
  /\ UNCHANGED <<product, cached, stockCall, workload>>
  /\ Blame(NoMarks)

-----------------------------------------------------------------------------
(* confirmReservation(cart): the rows are found joined with their product,  *)
(* each with a copy of its own; a soft-deleted product joins as null.       *)
ConfirmReservation(s, c) ==
  /\ "confirm" \in workload.handlers
  /\ RowsOf(c) # {}
  /\ LET ids == RowsOf(c)
     IN  Start(s, [op |-> "confirm", pc |-> "save", ids |-> ids, done |-> {},
                   copy |-> [id \in ids |-> product[reservation[id].product]],
                   of |-> [id \in ids |-> reservation[id].product],
                   quantity |-> [id \in ids |-> reservation[id].quantity]])
  /\ UNCHANGED <<product, reservation, cached, workload>>
  /\ Blame([g \in Goods |->
       IF \E id \in RowsOf(c) \ {i \in Rows : reservation[i].fresh} :
            reservation[id].product = g
       THEN {"late"} ELSE {}])

(* Mutant: Math.max(0, ...) is forgotten.                                   *)
MinusBelowZero(a, b) == IF a >= b THEN a - b ELSE MaxStock + 1

Minus(a, b) == IF a > b THEN a - b ELSE 0

(* One turn of the loop: max(0, the stock of the copy - the quantity).  The *)
(* cached copy of the product is left alone.                                *)
DecrementStock(s) ==
  /\ At(s, "confirm", "save")
  /\ \E id \in stockCall[s].ids \ stockCall[s].done :
       LET k == stockCall[s]
           row == [stock |-> Minus(k.copy[id].stock, k.quantity[id]),
                   deleted |-> FALSE]
       IN  /\ ~k.copy[id].deleted
           /\ product' = [product EXCEPT ![k.of[id]] = row]
           /\ Continue(s, [k EXCEPT !.done = @ \cup {id}])
           /\ UNCHANGED <<reservation, cached, workload>>
           /\ Blame(Mark(k.of[id], {"kept"}))

(* reading stockQuantity of null throws: what was decremented stays so, and *)
(* every reservation stays too.                                             *)
ConfirmThrows(s) ==
  /\ At(s, "confirm", "save")
  /\ \E id \in stockCall[s].ids \ stockCall[s].done :
       stockCall[s].copy[id].deleted
  /\ Return(s)
  /\ UNCHANGED <<product, reservation, cached, workload>>
  /\ Blame([g \in Goods |->
       IF \E id \in stockCall[s].done : stockCall[s].of[id] = g
       THEN {"late"} ELSE {}])

(* The loop is over: the reservations go.                                   *)
RemoveConfirmed(s) ==
  /\ At(s, "confirm", "save")
  /\ stockCall[s].done = stockCall[s].ids
  /\ reservation' = [id \in ReservationIds |->
       IF id \in stockCall[s].ids THEN NoRow ELSE reservation[id]]
  /\ Return(s)
  /\ UNCHANGED <<product, cached, workload>>
  /\ Blame(NoMarks)

-----------------------------------------------------------------------------
(* updateStock(product, quantity): find, save, invalidate.                  *)
UpdateStock(s, g, n) ==
  /\ "updateStock" \in workload.handlers
  /\ ~product[g].deleted
  /\ Start(s, [op |-> "updateStock", pc |-> "save", product |-> g,
               copy |-> [product[g] EXCEPT !.stock = n]])
  /\ UNCHANGED <<product, reservation, cached, workload>>
  /\ Blame(NoMarks)

SaveProduct(s) ==
  /\ \E op \in {"updateStock", "update"} : At(s, op, "save")
  /\ product' = [product EXCEPT ![stockCall[s].product] = stockCall[s].copy]
  /\ Continue(s, [stockCall[s] EXCEPT !.pc = "invalidate"])
  /\ UNCHANGED <<reservation, cached, workload>>
  /\ LET g == stockCall[s].product
     IN  Blame(Mark(g, IF stockCall[s].copy.stock < product[g].stock
                       THEN {"overwritten"} ELSE {}))

(* Mutant: the invalidation forgets the product's own key.                  *)
InvalidateListsOnly(s) ==
  /\ \E op \in {"updateStock", "update", "delete"} : At(s, op, "invalidate")
  /\ IF stockCall[s].op = "update"
     THEN Continue(s, [stockCall[s] EXCEPT !.pc = "read"])
     ELSE Return(s)
  /\ UNCHANGED <<product, reservation, cached, workload>>
  /\ Blame(NoMarks)

(* invalidateProductCache(id, slug); an update then reads the row again.    *)
Invalidate(s) ==
  /\ \E op \in {"updateStock", "update", "delete"} : At(s, op, "invalidate")
  /\ cached' = [cached EXCEPT ![stockCall[s].product] = NoRow]
  /\ IF stockCall[s].op = "update"
     THEN Continue(s, [stockCall[s] EXCEPT !.pc = "read"])
     ELSE Return(s)
  /\ UNCHANGED <<product, reservation, workload>>
  /\ Blame(NoMarks)

-----------------------------------------------------------------------------
(* Mutant: a deleted product is found and cached again.                     *)
FindDeleted(s, g) ==
  /\ "find" \in workload.handlers
  /\ cached[g] = NoRow
  /\ Start(s, [op |-> "find", pc |-> "fill", product |-> g,
               copy |-> [product[g] EXCEPT !.deleted = FALSE]])
  /\ UNCHANGED <<product, reservation, cached, workload>>
  /\ Blame(NoMarks)

(* findById(product): on a hit the copy in Redis is the answer; on a miss   *)
(* the row is read and then put in Redis.                                   *)
FindById(s, g) ==
  /\ "find" \in workload.handlers
  /\ cached[g] = NoRow
  /\ ~product[g].deleted
  /\ Start(s, [op |-> "find", pc |-> "fill", product |-> g,
               copy |-> product[g]])
  /\ UNCHANGED <<product, reservation, cached, workload>>
  /\ Blame(NoMarks)

(* update(product, dto) begins with findById: its copy of the product is    *)
(* the cached one if there is one.  The dto may carry a stock.              *)
UpdateProduct(s, g) ==
  /\ "update" \in workload.handlers
  /\ \/ /\ cached[g] # NoRow
        /\ \E n \in {cached[g].stock} \cup 0..MaxStock :
             Start(s, [op |-> "update", pc |-> "save", product |-> g,
                       copy |-> [cached[g] EXCEPT !.stock = n]])
     \/ /\ cached[g] = NoRow
        /\ ~product[g].deleted
        /\ Start(s, [op |-> "update", pc |-> "fill", product |-> g,
                     copy |-> product[g]])
  /\ UNCHANGED <<product, reservation, cached, workload>>
  /\ Blame(NoMarks)

(* The answer to the update is a findById too.                              *)
ReadAgain(s) ==
  /\ At(s, "update", "read")
  /\ LET g == stockCall[s].product
     IN  IF cached[g] # NoRow \/ product[g].deleted
         THEN Return(s)
         ELSE Continue(s, [op |-> "find", pc |-> "fill", product |-> g,
                           copy |-> product[g]])
  /\ UNCHANGED <<product, reservation, cached, workload>>
  /\ Blame(NoMarks)

FillCache(s) ==
  /\ \E op \in {"find", "update"} : At(s, op, "fill")
  /\ LET k == stockCall[s]
     IN  /\ cached' = [cached EXCEPT ![k.product] = k.copy]
         /\ IF k.op = "update"
            THEN \E n \in {k.copy.stock} \cup 0..MaxStock :
                   Continue(s, [k EXCEPT !.pc = "save", !.copy.stock = n])
            ELSE Return(s)
  /\ UNCHANGED <<product, reservation, workload>>
  /\ Blame(NoMarks)

(* An hour passes, or Redis evicts the key.                                 *)
ExpireCached(g) ==
  /\ cached[g] # NoRow
  /\ cached' = [cached EXCEPT ![g] = NoRow]
  /\ UNCHANGED <<product, reservation, stockCall, workload>>
  /\ Blame(NoMarks)

-----------------------------------------------------------------------------
(* delete(product) and one turn of bulkDelete: find, then soft-delete.  The *)
(* latter invalidates the lists and no product.                             *)
DeleteProduct(s, g) ==
  /\ "delete" \in workload.handlers
  /\ ~product[g].deleted
  /\ \E bulk \in BOOLEAN :
       Start(s, [op |-> "delete", pc |-> "softDelete", product |-> g,
                 bulk |-> bulk])
  /\ UNCHANGED <<product, reservation, cached, workload>>
  /\ Blame(NoMarks)

SoftDelete(s) ==
  /\ At(s, "delete", "softDelete")
  /\ LET k == stockCall[s]
     IN  /\ product' = [product EXCEPT ![k.product].deleted = TRUE]
         /\ IF k.bulk THEN Return(s)
                     ELSE Continue(s, [k EXCEPT !.pc = "invalidate"])
         /\ UNCHANGED <<reservation, cached, workload>>
         /\ Blame(Mark(k.product, IF k.bulk THEN {"kept"} ELSE {}))

-----------------------------------------------------------------------------
(* A behaviour without reserveStock begins with the reservations of earlier *)
(* ones, which the stock covers.                                            *)
StockInit ==
  /\ product = [g \in Goods |-> [stock |-> MaxStock, deleted |-> FALSE]]
  /\ workload \in Workloads
  /\ IF "reserve" \notin workload.handlers /\ "confirm" \in workload.handlers
     THEN reservation \in [ReservationIds ->
            {row \in ReservationRow : row.quantity = 1 /\ row.fresh} \cup {NoRow}]
     ELSE reservation = [id \in ReservationIds |-> NoRow]
  /\ cached = [g \in Goods |-> NoRow]
  /\ stockCall = [s \in AllSlots |-> Idle]
  /\ \A g \in Goods : ~Oversold(g)
  /\ fault = NoMarks

StockStep(s) ==
  \/ FindReservation(s)
  \/ RenewReservation(s)
  \/ SumReserved(s)
  \/ InsertReservation(s)
  \/ RemoveFound(s)
  \/ DecrementStock(s)
  \/ ConfirmThrows(s)
  \/ RemoveConfirmed(s)
  \/ SaveProduct(s)
  \/ Invalidate(s)
  \/ ReadAgain(s)
  \/ FillCache(s)
  \/ SoftDelete(s)

StockRequest(s) ==
  \/ \E g \in Goods, c \in Carts, q \in Quantities : ReserveStock(s, g, c, q)
  \/ \E c \in Carts : ReleaseReservation(s, c)
  \/ \E c \in Carts : ConfirmReservation(s, c)
  \/ \E g \in Goods, n \in 0..MaxStock : UpdateStock(s, g, n)
  \/ \E g \in Goods : FindById(s, g)
  \/ \E g \in Goods : UpdateProduct(s, g)
  \/ \E g \in Goods : DeleteProduct(s, g)

StockNext ==
  \/ \E s \in AllSlots : StockStep(s)
  \/ \E s \in workload.slots : StockRequest(s)
  \/ CleanupExpired
  \/ \E id \in ReservationIds : Expire(id)
  \/ \E g \in Goods : ExpireCached(g)

StockSpec == StockInit /\ [][StockNext]_stockVars

-----------------------------------------------------------------------------
(* The reservations that count never claim more than the stock, unless two  *)
(* requests ran at once, a reservation was renewed without the check, one   *)
(* was confirmed after it had expired, or a lower stock was written over    *)
(* the row.  Reserving, expiring, releasing and confirming one after the    *)
(* other never oversell.                                                    *)
OversoldOnlyByFault ==
  \A g \in Goods :
    Oversold(g) => fault[g] \cap {"overlap", "renewed", "late", "overwritten"} # {}

(* With nothing in flight the cached copy of a product is its row, unless   *)
(* requests overlapped or one that leaves the cache alone changed the row:  *)
(* a confirmation, or a bulk delete.                                        *)
CacheFollowsRow ==
  \A g \in Goods :
    Busy = {} /\ Stale(g) => fault[g] \cap {"overlap", "kept"} # {}

(* A soft-deleted product comes back only through a stale copy: of a        *)
(* request that overlapped the delete, or cached across a bulk delete.      *)
DeletedStaysDeleted ==
  [][\A g \in Goods :
       product[g].deleted /\ ~product'[g].deleted
         => fault[g] \cap {"overlap", "kept"} # {}]_stockVars
=============================================================================
