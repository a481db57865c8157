--------------------------- MODULE ProductPrices ---------------------------
(***************************************************************************)
(* The price of one subscription product in three places: the product row  *)
(* of catalog-service (and its cached copy), the recurring Prices at       *)
(* Stripe, which are immutable, and the subscriptions sold.  The catalog   *)
(* asks payment-service to create, replace and archive what Stripe has;    *)
(* tryStripeSync swallows every failure and 15-second timeout.             *)
(***************************************************************************)
EXTENDS Naturals, Functions

CONSTANTS
  Amounts,      \* prices, 0 for none
  PriceIds,     \* bounds the Stripe Prices ever created, numbered
  Periods,      \* the billing periods: month, year
  PriceSlots,   \* where requests run
  PriceLoads,   \* what one behaviour is made of: its handlers, periods,
                \* amounts and Price ids, the slot of the administrator's
                \* requests (one at a time) and of the buyer: records
                \* [handlers, periods, amounts, ids, admin, buyer]
  NoPrice

ASSUME PriceAssumption ==
  /\ 0 \in Amounts /\ Amounts \subseteq Nat
  /\ PriceIds \subseteq Nat
  /\ \A l \in PriceLoads :
       /\ l.periods \subseteq Periods /\ l.ids \subseteq PriceIds
       /\ l.amounts \subseteq Amounts
       /\ l.admin \in PriceSlots /\ l.buyer \in PriceSlots

VARIABLES
  offer,        \* the product row
  offerCached,  \* Redis: product:id, or NoPrice
  stripePrice,  \* Stripe: the Prices
  onSale,       \* Stripe: the Product of the row is active
  sold,         \* the last subscription created, or NoPrice
  priceCall,    \* the requests in flight
  priceLoad,    \* the periods and slots of this behaviour
  priceFault    \* history: what may have set the three apart

priceVars == <<offer, offerCached, stripePrice, onSale, sold, priceCall,
               priceLoad, priceFault>>

(* A Stripe call that failed or answered too late; a price set to none; the *)
(* top-up of a rename; a product deleted in bulk; a product read while a    *)
(* request that changes it was on its way; a row cached after it changed,   *)
(* and an update that began from a copy that was not the row; a request cut *)
(* short; a product imported from Stripe.                                   *)
PriceFaults == {"failed", "emptied", "refreshed", "kept", "torn", "late",
                "stale", "stopped", "imported"}

OfferRow == [price : [Periods -> Amounts], product : BOOLEAN,
             id : [Periods -> PriceIds \cup {NoPrice}], deleted : BOOLEAN]
StripePrice == [amount : Amounts \ {0}, active : BOOLEAN]
ASSUME NoPriceAssumption == NoPrice \notin PriceIds \cup StripePrice

Sale == [listed : Amounts, charged : Amounts, deleted : BOOLEAN,
         marks : SUBSET PriceFaults]

(* A call at work: on a copy of the row, with the ids it had and the        *)
(* periods whose Price is still to be replaced; at its end; one that looks  *)
(* the product up, to cache and to use what it found (gone: of a row that   *)
(* was deleted); of a buyer.                                                *)
Requests == [pc : {"save", "bootstrap", "refresh", "replace", "saveIds"},
             copy : OfferRow, todo : SUBSET Periods, boot : BOOLEAN,
             rename : BOOLEAN, old : [Periods -> PriceIds \cup {NoPrice}],
             ends : {"drop", "reread"}]
Endings == [pc : {"archive", "drop", "reread"}, reads : BOOLEAN]
Finds == [pc : {"fill", "found"}, copy : OfferRow, gone : BOOLEAN,
          then : {"update", "subscribe", "answer"}]
Purchases == [pc : {"subscribe"}, listed : Amounts, id : PriceIds,
              deleted : BOOLEAN]
NoPriceCall == [pc |-> "idle"]

PriceTypeOK ==
  /\ offer \in OfferRow
  /\ offerCached \in OfferRow \cup {NoPrice}
  /\ stripePrice \in [PriceIds -> StripePrice \cup {NoPrice}]
  /\ onSale \in BOOLEAN
  /\ sold \in Sale \cup {NoPrice}
  /\ priceCall \in [PriceSlots -> Requests \cup Endings \cup Finds
                                  \cup Purchases \cup {NoPriceCall}]
  /\ priceLoad \in PriceLoads
  /\ priceFault \subseteq PriceFaults

-----------------------------------------------------------------------------
PriceBusy == {s \in PriceSlots : priceCall[s] # NoPriceCall}
Changing == \E s \in PriceSlots :
  priceCall[s].pc \in {"save", "bootstrap", "refresh", "replace", "saveIds",
                      "archive", "drop"}
Unpriced == {i \in priceLoad.ids : stripePrice[i] = NoPrice}
Known == {offer.id[d] : d \in Periods} \ {NoPrice}
ActivePrices == {i \in PriceIds : stripePrice[i] # NoPrice /\ stripePrice[i].active}

(* Each price of the row is the active Price its id names; no other Price   *)
(* is active.                                                               *)
PricesAgree ==
  /\ \A d \in priceLoad.periods :
       LET i == offer.id[d]
       IN  IF offer.product /\ offer.price[d] > 0
           THEN i \in ActivePrices /\ stripePrice[i].amount = offer.price[d]
           ELSE i = NoPrice
  /\ ActivePrices \subseteq Known
  /\ onSale = (offer.product /\ ~offer.deleted)
  /\ offerCached \in {offer, NoPrice}

BlamePrice(marks) ==
  priceFault' =
    IF PriceBusy' = {} /\ PricesAgree' THEN {}
    ELSE priceFault \cup marks

BeginPrice(s, record) == /\ priceCall[s] = NoPriceCall
                         /\ priceCall' = [priceCall EXCEPT ![s] = record]
StepPrice(s, record) == priceCall' = [priceCall EXCEPT ![s] = record]
EndPrice(s) == priceCall' = [priceCall EXCEPT ![s] = NoPriceCall]
PriceAt(s, pc) == priceCall[s].pc = pc
KeepPrices == UNCHANGED <<stripePrice, onSale>>

Zero == [d \in Periods |-> 0]
NoIds == [d \in Periods |-> NoPrice]
Priced(row) == {d \in Periods : row.price[d] > 0}
Quotes == {q \in [Periods -> Amounts] :
             \A d \in Periods : IF d \in priceLoad.periods THEN q[d] \in priceLoad.amounts
                                ELSE q[d] = 0}

-----------------------------------------------------------------------------
(* Nothing is left of an earlier product.                                   *)
Unmade == [price |-> Zero, product |-> FALSE, id |-> NoIds, deleted |-> TRUE]
MakeOffer(s, row, k) ==
  /\ offer = Unmade /\ offerCached = NoPrice /\ PriceBusy = {}
  /\ offer' = row
  /\ BeginPrice(s, k)
  /\ sold' = NoPrice
  /\ UNCHANGED <<offerCached, priceLoad>>

(* catalog-service: create(dto) saves the row, bootstraps Stripe when it    *)
(* has a price, and reads the product back; it drops no copy of it.         *)
CreateOffer(s, q) ==
  /\ LET row == [price |-> q, product |-> FALSE, id |-> NoIds, deleted |-> FALSE]
     IN  MakeOffer(s, row,
           IF Priced(row) # {}
           THEN [pc |-> "bootstrap", todo |-> {}, boot |-> TRUE, rename |-> FALSE,
                 old |-> NoIds, ends |-> "reread", copy |-> row]
           ELSE [pc |-> "reread", reads |-> TRUE])
  /\ KeepPrices
  /\ BlamePrice({})

(* Mutant: only a higher price is a change.                                 *)
ChangedUpwards(copy, q) == {d \in Periods : q[d] > copy.price[d]}

(* Mutant: a price set to none is replaced by a Price of 0.                 *)
ChangedAtAll(copy, q) == {d \in Periods : q[d] # copy.price[d]}

(* monthlyChanged, yearlyChanged; a price of 0 replaces nothing.            *)
Changed(copy, q) == {d \in Periods : q[d] # copy.price[d] /\ q[d] > 0}

(* findById: the cached copy if there is one, else the row, which is cached *)
(* in a step of its own.  Without either the call ends.                     *)
FindOffer(s, then) ==
  /\ LET copy == IF offerCached # NoPrice THEN offerCached ELSE offer
     IN  /\ ~copy.deleted
         /\ BeginPrice(s, [pc |-> IF offerCached # NoPrice THEN "found" ELSE "fill",
                           copy |-> copy, gone |-> offer.deleted, then |-> then])
  /\ sold' = NoPrice
  /\ UNCHANGED <<offer, offerCached, priceLoad>> /\ KeepPrices
  /\ BlamePrice(IF Changing THEN {"torn"} ELSE {})

FillOffer(s) ==
  /\ PriceAt(s, "fill")
  /\ LET k == priceCall[s]
     IN  /\ offerCached' = k.copy
         /\ StepPrice(s, IF k.then = "answer" THEN NoPriceCall
                         ELSE [k EXCEPT !.pc = "found"])
         /\ UNCHANGED <<offer, sold, priceLoad>> /\ KeepPrices
         /\ BlamePrice(IF k.copy = offer THEN {} ELSE {"late"})

(* A visitor's look, or a call that refuses what it found.                  *)
AnswerOffer(s) ==
  /\ PriceAt(s, "found")
  /\ EndPrice(s)
  /\ UNCHANGED <<offer, offerCached, sold, priceLoad>> /\ KeepPrices
  /\ BlamePrice({})

(* update(id, dto) of what findById answered.                               *)
UpdateOffer(s, q, rename) ==
  /\ PriceAt(s, "found") /\ priceCall[s].then = "update"
  /\ LET copy == priceCall[s].copy
         boot == ~copy.product /\ \E d \in Periods : q[d] > 0
     IN  /\ StepPrice(s, [pc |-> "save", copy |-> [copy EXCEPT !.price = q],
                          boot |-> boot, rename |-> rename /\ copy.product,
                          todo |-> IF copy.product THEN Changed(copy, q) ELSE {},
                          old |-> copy.id, ends |-> "drop"])
         /\ UNCHANGED <<offer, offerCached, sold, priceLoad>> /\ KeepPrices
         /\ BlamePrice({f \in {"emptied", "stale"} :
              IF f = "emptied" THEN \E d \in Periods : q[d] = 0 /\ copy.price[d] > 0
              ELSE copy # offer})

(* What comes after a call: the bootstrap or the refresh, the Prices that   *)
(* changed, the caches.                                                     *)
NextCall(k) == IF k.todo # {} THEN [k EXCEPT !.pc = "replace"]
                              ELSE [pc |-> k.ends, reads |-> TRUE]

(* save(): every column the copy changed, here the whole row.               *)
SaveOffer(s) ==
  /\ PriceAt(s, "save")
  /\ LET k == priceCall[s]
         rest == IF k.boot THEN [k EXCEPT !.pc = "bootstrap"]
                 ELSE IF k.rename THEN [k EXCEPT !.pc = "refresh"]
                 ELSE NextCall(k)
     IN  /\ offer' = k.copy
         /\ StepPrice(s, rest)
  /\ UNCHANGED <<offerCached, sold, priceLoad>> /\ KeepPrices
  /\ BlamePrice({})

(* The ids of the answer are saved with the rest of the copy.               *)
SaveIds(s) ==
  /\ PriceAt(s, "saveIds")
  /\ offer' = priceCall[s].copy
  /\ StepPrice(s, NextCall(priceCall[s]))
  /\ UNCHANGED <<offerCached, sold, priceLoad>> /\ KeepPrices
  /\ BlamePrice({})

(* A call that failed or came too late is skipped.                          *)
TryStripeSync(s, k, answered, copy) ==
  StepPrice(s, IF answered THEN [k EXCEPT !.copy = copy, !.pc = "saveIds"]
               ELSE NextCall(k))

-----------------------------------------------------------------------------
(* New Prices for the periods in made, at the amounts of the row, with the  *)
(* first numbers that are left.                                             *)
NewIds(made) ==
  {ids \in [made -> Unpriced] :
     /\ IsInjective(ids)
     /\ \A i \in Range(ids), j \in Unpriced \ Range(ids) : i < j}
Created(row, ids) ==
  [j \in PriceIds |->
     IF j \in Range(ids)
     THEN [amount |-> row.price[CHOOSE d \in DOMAIN ids : ids[d] = j],
           active |-> TRUE]
     ELSE stripePrice[j]]

(* payment-service: createProductWithPrices creates the Product, then one   *)
(* Price per period that has one; a failure leaves what was created.        *)
Bootstrap(s) ==
  /\ PriceAt(s, "bootstrap")
  /\ \E made \in SUBSET Priced(priceCall[s].copy), answered \in BOOLEAN :
     \E ids \in NewIds(made) :
       LET k == priceCall[s]
           copy == [k.copy EXCEPT !.product = TRUE,
                      !.id = [d \in Periods |-> IF d \in made THEN ids[d]
                                                ELSE NoPrice]]
       IN  /\ answered => made = Priced(k.copy)
           /\ stripePrice' = Created(k.copy, ids)
           /\ onSale' = (onSale \/ answered)
           /\ TryStripeSync(s, k, answered, copy)
           /\ UNCHANGED <<offer, offerCached, sold, priceLoad>>
           /\ BlamePrice(IF answered THEN {} ELSE {"failed"})

(* syncStripeProduct of a Product that exists: the name, then a new Price   *)
(* for a period that has a price and no id.  update() drops the answer.     *)
Refresh(s) ==
  /\ PriceAt(s, "refresh")
  /\ LET k == priceCall[s]
         missing == {d \in Priced(k.copy) : k.copy.id[d] = NoPrice}
     IN  \E made \in SUBSET missing : \E ids \in NewIds(made) :
           /\ stripePrice' = Created(k.copy, ids)
           /\ StepPrice(s, NextCall(k))
           /\ UNCHANGED <<offer, offerCached, onSale, sold, priceLoad>>
           /\ BlamePrice(IF made = {} THEN {} ELSE {"refreshed"})

Newest == {NoPrice} \cup {i \in Unpriced : \A j \in Unpriced : i <= j}

(* Mutant: the old Price stays active.                                      *)
ReplaceKeepsOld(s, d) ==
  /\ PriceAt(s, "replace")
  /\ d \in priceCall[s].todo
  /\ \E new \in Newest, answered \in BOOLEAN :
       LET k == [priceCall[s] EXCEPT !.todo = @ \ {d}]
       IN  /\ answered => new # NoPrice
           /\ stripePrice' = [j \in PriceIds |->
                IF j = new THEN [amount |-> k.copy.price[d], active |-> TRUE]
                ELSE stripePrice[j]]
           /\ TryStripeSync(s, k, answered, [k.copy EXCEPT !.id[d] = new])
           /\ UNCHANGED <<offer, offerCached, onSale, sold, priceLoad>>
           /\ BlamePrice(IF answered THEN {} ELSE {"failed"})

(* replaceStripePrice: the old Price is archived (a failure is only         *)
(* logged), a new one created.  The periods are done one after the other.   *)
Replace(s, d) ==
  /\ PriceAt(s, "replace")
  /\ d \in priceCall[s].todo
  /\ \E new \in Newest, archived, answered \in BOOLEAN :
       LET k == [priceCall[s] EXCEPT !.todo = @ \ {d}]
           old == k.old[d]
       IN  /\ answered => new # NoPrice
           /\ old = NoPrice => archived
           /\ stripePrice' = [j \in PriceIds |->
                IF j = new THEN [amount |-> k.copy.price[d], active |-> TRUE]
                ELSE IF j = old /\ archived
                THEN [stripePrice[j] EXCEPT !.active = FALSE]
                ELSE stripePrice[j]]
           /\ TryStripeSync(s, k, answered, [k.copy EXCEPT !.id[d] = new])
           /\ UNCHANGED <<offer, offerCached, onSale, sold, priceLoad>>
           /\ BlamePrice(IF answered /\ archived THEN {} ELSE {"failed"})

(* create(dto) with a stripeProductId: Stripe is not asked, the row takes   *)
(* the ids of what is there, whatever it costs.                             *)
ImportOffer(s, q) ==
  /\ \E named \in SUBSET priceLoad.periods, amount \in Amounts \ {0} :
     \E ids \in NewIds(named) :
       /\ MakeOffer(s, [price |-> q, product |-> TRUE, deleted |-> FALSE,
                        id |-> [d \in Periods |-> IF d \in named THEN ids[d]
                                                  ELSE NoPrice]],
                    [pc |-> "reread", reads |-> TRUE])
       /\ stripePrice' = [j \in PriceIds |->
            IF j \in Range(ids) THEN [amount |-> amount, active |-> TRUE]
            ELSE stripePrice[j]]
  /\ onSale' = TRUE
  /\ BlamePrice({"imported"})

(* invalidateProductCache(id, slug), after an update and a deletion.        *)
DropOffer(s) ==
  /\ PriceAt(s, "drop")
  /\ offerCached' = NoPrice
  /\ StepPrice(s, IF priceCall[s].reads THEN [priceCall[s] EXCEPT !.pc = "reread"]
                  ELSE NoPriceCall)
  /\ UNCHANGED <<offer, sold, priceLoad>> /\ KeepPrices
  /\ BlamePrice({})

(* findById of the product for the answer.                                  *)
RereadOffer(s) ==
  /\ PriceAt(s, "reread")
  /\ StepPrice(s, IF offerCached # NoPrice \/ offer.deleted THEN NoPriceCall
                  ELSE [pc |-> "fill", copy |-> offer, gone |-> FALSE,
                        then |-> "answer"])
  /\ UNCHANGED <<offer, offerCached, sold, priceLoad>> /\ KeepPrices
  /\ BlamePrice({})

(* catalog-service or payment-service stops, or a statement fails: the      *)
(* request goes no further.                                                 *)
PriceStops(s) ==
  /\ priceCall[s] # NoPriceCall
  /\ EndPrice(s)
  /\ UNCHANGED <<offer, offerCached, sold, priceLoad>> /\ KeepPrices
  /\ BlamePrice(IF priceCall[s].pc \in {"fill", "found", "subscribe"} THEN {}
                ELSE {"stopped"})

-----------------------------------------------------------------------------
(* Mutant: the deletion ends with the row.                                  *)
DeleteRowOnly(s) ==
  /\ priceCall[s] = NoPriceCall
  /\ ~offer.deleted
  /\ offer' = [offer EXCEPT !.deleted = TRUE]
  /\ sold' = NoPrice
  /\ UNCHANGED <<offerCached, priceCall, priceLoad>> /\ KeepPrices
  /\ BlamePrice({})

(* delete(id): soft-delete, archive the Product, invalidate; bulkDelete     *)
(* only soft-deletes.                                                       *)
DeleteOffer(s) ==
  /\ ~offer.deleted
  /\ offer' = [offer EXCEPT !.deleted = TRUE]
  /\ BeginPrice(s, [pc |-> IF offer.product THEN "archive" ELSE "drop",
                    reads |-> FALSE])
  /\ sold' = NoPrice
  /\ UNCHANGED <<offerCached, priceLoad>> /\ KeepPrices
  /\ BlamePrice({})

BulkDeleteOffer(s) ==
  /\ priceCall[s] = NoPriceCall
  /\ ~offer.deleted
  /\ offer' = [offer EXCEPT !.deleted = TRUE]
  /\ sold' = NoPrice
  /\ UNCHANGED <<offerCached, priceCall, priceLoad>> /\ KeepPrices
  /\ BlamePrice({"kept"})

ArchiveProduct(s) ==
  /\ PriceAt(s, "archive")
  /\ \E done \in BOOLEAN :
       /\ onSale' = (onSale /\ ~done)
       /\ StepPrice(s, [pc |-> "drop", reads |-> FALSE])
       /\ UNCHANGED <<offer, offerCached, stripePrice, sold, priceLoad>>
       /\ BlamePrice(IF done THEN {} ELSE {"failed"})

-----------------------------------------------------------------------------
(* payment-service: createSubscription takes the id of the period from the  *)
(* product that catalog answered, and refuses one without.                  *)
Subscribe(s, d) ==
  /\ PriceAt(s, "found") /\ priceCall[s].then = "subscribe"
  /\ LET k == priceCall[s]
     IN  /\ k.copy.id[d] # NoPrice
         /\ StepPrice(s, [pc |-> "subscribe", listed |-> k.copy.price[d],
                          id |-> k.copy.id[d], deleted |-> k.gone])
  /\ UNCHANGED <<offer, offerCached, sold, priceLoad>> /\ KeepPrices
  /\ BlamePrice({})

(* Stripe takes an active Price of an active Product only; the row of the   *)
(* subscription lists the catalog's price.                                  *)
CreateAtStripe(s) ==
  /\ PriceAt(s, "subscribe")
  /\ LET k == priceCall[s]
     IN  sold' = IF onSale /\ k.id \in ActivePrices
                 THEN [listed |-> k.listed, charged |-> stripePrice[k.id].amount,
                       deleted |-> k.deleted, marks |-> priceFault]
                 ELSE sold
  /\ EndPrice(s)
  /\ UNCHANGED <<offer, offerCached, priceLoad>> /\ KeepPrices
  /\ BlamePrice({})

ExpireOffer ==
  /\ offerCached # NoPrice
  /\ offerCached' = NoPrice
  /\ UNCHANGED <<offer, sold, priceCall, priceLoad>> /\ KeepPrices
  /\ BlamePrice({})

-----------------------------------------------------------------------------
PriceInit ==
  /\ offer = Unmade
  /\ offerCached = NoPrice
  /\ stripePrice = [i \in PriceIds |-> NoPrice]
  /\ onSale = FALSE
  /\ sold = NoPrice
  /\ priceCall = [s \in PriceSlots |-> NoPriceCall]
  /\ priceLoad \in PriceLoads
  /\ priceFault = {}

PriceNext ==
  \/ \E s \in {priceLoad.admin, priceLoad.buyer} :
       \/ SaveOffer(s)
       \/ SaveIds(s)
       \/ Bootstrap(s)
       \/ Refresh(s)
       \/ \E d \in Periods : Replace(s, d)
       \/ FillOffer(s)
       \/ AnswerOffer(s)
       \/ DropOffer(s)
       \/ RereadOffer(s)
       \/ ArchiveProduct(s)
       \/ CreateAtStripe(s)
       \/ "stop" \in priceLoad.handlers /\ PriceStops(s)
  \/ "create" \in priceLoad.handlers
     /\ \E q \in Quotes : CreateOffer(priceLoad.admin, q)
  \/ "import" \in priceLoad.handlers
     /\ \E q \in Quotes : ImportOffer(priceLoad.admin, q)
  \/ "update" \in priceLoad.handlers /\ FindOffer(priceLoad.admin, "update")
  \/ \E q \in Quotes : UpdateOffer(priceLoad.admin, q, FALSE)
  \/ "rename" \in priceLoad.handlers
     /\ \E q \in Quotes : UpdateOffer(priceLoad.admin, q, TRUE)
  \/ "delete" \in priceLoad.handlers /\ DeleteOffer(priceLoad.admin)
  \/ "bulkDelete" \in priceLoad.handlers /\ BulkDeleteOffer(priceLoad.admin)
  \/ "buy" \in priceLoad.handlers /\ FindOffer(priceLoad.buyer, "subscribe")
  \/ \E d \in priceLoad.periods : Subscribe(priceLoad.buyer, d)
  \/ ExpireOffer

PriceSpec == PriceInit /\ [][PriceNext]_priceVars

-----------------------------------------------------------------------------
(* A subscription is charged the price that the catalog listed when it was  *)
(* bought, unless the product was read while a request changed it, a Stripe *)
(* call failed or a request stopped since the prices last agreed, the price *)
(* had been set to none, or the product came from Stripe.                   *)
SoldAsListed ==
  sold # NoPrice /\ sold.listed # sold.charged
    => sold.marks \cap {"failed", "emptied", "torn", "stopped", "imported"} # {}

(* A product that is deleted when a purchase begins is not sold, even if    *)
(* Stripe could not archive its Product, unless the deletion is on its way  *)
(* or stopped, it was deleted in bulk, or a read that was late cached it.   *)
DeletedIsNotSold ==
  sold # NoPrice /\ sold.deleted
    => sold.marks \cap {"torn", "kept", "late", "stopped"} # {}

(* With nothing in flight a Price that is active at Stripe is the one the   *)
(* row names, unless a Stripe call failed, a rename topped up a Price whose *)
(* id nobody keeps, a request stopped, or an update saved a copy that was   *)
(* not the row.                                                             *)
NoStrayPrice ==
  PriceBusy = {} /\ ~(ActivePrices \subseteq Known)
    => priceFault \cap {"failed", "refreshed", "stale", "stopped"} # {}

(* Catalog prices and the Prices at Stripe: what is sold is what is listed, *)
(* a deleted product is not sold, no Price outlives its use, save for the   *)
(* faults named above.                                                      *)
PricesConsistent == SoldAsListed /\ DeletedIsNotSold /\ NoStrayPrice
=============================================================================
