--------------------------- MODULE CatalogProofs ---------------------------
(***************************************************************************)
(* What holds of a product's prices in the catalog and at Stripe, for any  *)
(* number of Prices, periods, amounts and slots; of its images, for any    *)
(* number of them and of requests; and of the featured products, for any   *)
(* number of them, of handlers and of events.  And, with the proofs about  *)
(* the stock, the categories and what analytics-service reports, what      *)
(* holds of all of these at once.                                          *)
(***************************************************************************)
EXTENDS MCCatalog, StockProofs, Integers, FiniteSetTheorems,
        WellFoundedInduction, TLAPS

-----------------------------------------------------------------------------
(* Prices.                                                                  *)

(* A row, or a copy of it: the Prices it names exist, without a Product it  *)
(* names none, and it has none for a period that is not sold.               *)
RowMade(row) ==
  /\ row \in OfferRow
  /\ ~row.product => row.id = NoIds
  /\ \A d \in Periods \ priceLoad.periods : row.price[d] = 0 /\ row.id[d] = NoPrice
  /\ \A d \in Periods : row.id[d] # NoPrice => stripePrice[row.id[d]] # NoPrice

AtWork == {"save", "bootstrap", "refresh", "replace", "saveIds"}
Looking == {"fill", "found"}
AnyCall == Requests \cup Endings \cup Finds \cup Purchases \cup {NoPriceCall}

RequestFits(k) ==
  /\ RowMade(k.copy) /\ ~k.copy.deleted
  /\ \A d \in k.todo : k.copy.price[d] > 0 /\ k.old[d] = k.copy.id[d]
  /\ k.todo # {} => k.copy.product
  /\ k.boot \/ k.pc = "bootstrap" => k.todo = {}
  /\ k.pc = "bootstrap" \/ (k.boot /\ k.pc = "save") => ~k.copy.product
  /\ k.pc \in {"bootstrap", "refresh", "replace"} => offer = k.copy

CallOwns(k) ==
  /\ k.pc \in AtWork => RequestFits(k)
  /\ k.pc \in Looking => RowMade(k.copy) /\ ~k.copy.deleted
  /\ k.pc = "reread" => k.reads
  /\ k.pc \in {"archive", "drop", "reread"} /\ k.reads => ~offer.deleted

(* Only the administrator's slot runs what changes the product.             *)
Buying == {"idle", "subscribe"} \cup Looking
NoneAtWork == \A s \in PriceSlots : priceCall[s].pc \notin AtWork

(* Holds whatever failed.                                                   *)
PriceMade ==
  /\ PriceTypeOK
  /\ RowMade(offer)
  /\ offerCached # NoPrice => RowMade(offerCached) /\ ~offerCached.deleted
  /\ \A s \in PriceSlots : CallOwns(priceCall[s])
  /\ \A s \in PriceSlots \ {priceLoad.admin} : priceCall[s].pc \in Buying

(* A deleted row is cached, and a call knows it, only for a named reason.   *)
CallGone(k) == \/ k.pc \in Looking /\ k.gone
               \/ k.pc = "subscribe" /\ k.deleted
DeletedFits ==
  /\ ~Changing /\ offer.deleted /\ offerCached # NoPrice =>
       priceFault \cap {"kept", "late", "stopped"} # {}
  /\ \A s \in PriceSlots : CallGone(priceCall[s]) =>
       priceFault \cap {"torn", "kept", "late", "stopped"} # {}

(* A Price the row names, save for those still to be replaced, has the      *)
(* amount the row lists.                                                    *)
Quoted(row, d) == row.id[d] # NoPrice =>
  stripePrice[row.id[d]] # NoPrice /\ stripePrice[row.id[d]].amount = row.price[d]
CopyListed(row) == \A d \in Periods : Quoted(row, d)
CallListed(k) == \A d \in Periods \ k.todo : Quoted(k.copy, d)
SaleListed(k) == stripePrice[k.id] # NoPrice /\ stripePrice[k.id].amount = k.listed
CallTold(k) ==
  /\ k.pc \in AtWork => CallListed(k)
  /\ k.pc \in Looking => CopyListed(k.copy)
  /\ k.pc = "subscribe" => SaleListed(k)
ListMarks == {"failed", "emptied", "torn", "stopped", "imported"}
ListedFits ==
  priceFault \cap ListMarks = {} =>
    /\ NoneAtWork => CopyListed(offer)
    /\ offerCached # NoPrice => CopyListed(offerCached)
    /\ \A s \in PriceSlots : CallTold(priceCall[s])

Named(row) == {row.id[d] : d \in Periods}
StrayMarks == {"failed", "refreshed", "stale", "stopped"}
StraysFit ==
  priceFault \cap StrayMarks = {} =>
    /\ NoneAtWork => ActivePrices \subseteq Named(offer)
    /\ \A s \in PriceSlots :
         priceCall[s].pc \in AtWork => ActivePrices \subseteq Named(priceCall[s].copy)

SalesFit == SoldAsListed /\ DeletedIsNotSold

PriceInv == PriceMade /\ DeletedFits /\ ListedFits /\ StraysFit /\ SalesFit

-----------------------------------------------------------------------------
(* What a call is shows in the step it is at.                               *)
LEMMA CallKinds ==
  ASSUME NEW k \in AnyCall
  PROVE  /\ k.pc \in AtWork => k \in Requests
         /\ k.pc \in {"archive", "drop", "reread"} => k \in Endings
         /\ k.pc \in Looking => k \in Finds
         /\ k.pc = "subscribe" => k \in Purchases
         /\ k.pc = "idle" <=> k = NoPriceCall
         /\ k.pc \in AtWork \cup {"archive", "drop", "reread"} \cup Buying
<1>1. ASSUME k \in Requests PROVE k.pc \in AtWork
  BY <1>1 DEF Requests, AtWork
<1>2. ASSUME k \in Endings PROVE k.pc \in {"archive", "drop", "reread"}
  BY <1>2 DEF Endings
<1>3. ASSUME k \in Finds PROVE k.pc \in Looking
  BY <1>3 DEF Finds, Looking
<1>4. ASSUME k \in Purchases PROVE k.pc = "subscribe"
  BY <1>4 DEF Purchases
<1>5. NoPriceCall.pc = "idle"
  BY DEF NoPriceCall
<1> HIDE DEF Requests, Endings, Finds, Purchases, NoPriceCall
<1> QED BY <1>1, <1>2, <1>3, <1>4, <1>5 DEF AnyCall, AtWork, Looking, Buying

LEMMA IdleCall == NoPriceCall \in AnyCall /\ NoPriceCall.pc = "idle"
<1>1. NoPriceCall.pc = "idle"
  BY DEF NoPriceCall
<1> HIDE DEF Requests, Endings, Finds, Purchases, NoPriceCall
<1> QED BY <1>1 DEF AnyCall

LEMMA CallsTyped ==
  ASSUME PriceTypeOK
  PROVE  /\ priceCall \in [PriceSlots -> AnyCall]
         /\ \A s \in PriceSlots : priceCall[s] \in AnyCall
<1> HIDE DEF Requests, Endings, Finds, Purchases, NoPriceCall
<1> QED BY DEF PriceTypeOK, AnyCall

LEMMA LoadMade ==
  ASSUME PriceTypeOK
  PROVE  /\ priceLoad.periods \subseteq Periods /\ priceLoad.ids \subseteq PriceIds
         /\ priceLoad.amounts \subseteq Amounts
         /\ priceLoad.admin \in PriceSlots /\ priceLoad.buyer \in PriceSlots
BY PriceAssumption DEF PriceTypeOK

(* Prices are immutable: whatever happens, one that exists keeps its amount. *)
PricesKept ==
  \A i \in PriceIds : stripePrice[i] # NoPrice =>
    stripePrice'[i] # NoPrice /\ stripePrice'[i].amount = stripePrice[i].amount

LEMMA QuotedKept ==
  ASSUME NEW row \in OfferRow, NEW d \in Periods, PricesKept, Quoted(row, d)
  PROVE  Quoted(row, d)'
<1>1. row.id[d] \in PriceIds \cup {NoPrice}
  BY DEF OfferRow
<1> QED BY <1>1 DEF Quoted, PricesKept

LEMMA RowKept ==
  ASSUME NEW row, PricesKept, priceLoad' = priceLoad, RowMade(row)
  PROVE  RowMade(row)'
<1>1. \A d \in Periods : row.id[d] \in PriceIds \cup {NoPrice}
  BY DEF RowMade, OfferRow
<1> QED BY <1>1 DEF RowMade, PricesKept

LEMMA RowsKept ==
  ASSUME PriceInv, PricesKept, priceLoad' = priceLoad
  PROVE  /\ offer' = offer => RowMade(offer)'
         /\ offerCached' \in {offerCached, NoPrice} /\ offerCached' # NoPrice =>
              RowMade(offerCached)' /\ ~offerCached'.deleted
<1>1. PICK r, c : r = offer /\ c = offerCached
  OBVIOUS
<1>2. RowMade(r) /\ (c # NoPrice => RowMade(c) /\ ~c.deleted)
  BY <1>1 DEF PriceInv, PriceMade
<1>3. RowMade(r)' /\ (c # NoPrice => RowMade(c)')
  BY <1>2, RowKept
<1> QED BY <1>1, <1>2, <1>3

(* What is known of a call stays true in a step that leaves it, and the row *)
(* if it works on it, alone.                                                *)
LEMMA MadeKept ==
  ASSUME NEW k \in AnyCall, PricesKept, priceLoad' = priceLoad,
         offer' = offer \/ k.pc \in Buying, CallOwns(k)
  PROVE  CallOwns(k)'
<1>1. k.pc \in AtWork => RowMade(k.copy)'
  <2>1. PICK row : row = k.copy
    OBVIOUS
  <2> QED BY <2>1, RowKept DEF CallOwns, RequestFits
<1>2. k.pc \in Looking => RowMade(k.copy)'
  <2>1. PICK row : row = k.copy
    OBVIOUS
  <2> QED BY <2>1, RowKept DEF CallOwns
<1>3. CASE k.pc \in Buying
  BY <1>2, <1>3 DEF CallOwns, Buying, Looking, AtWork
<1>4. CASE offer' = offer
  BY <1>1, <1>2, <1>4 DEF CallOwns, RequestFits
<1> QED BY <1>3, <1>4

LEMMA ToldKept ==
  ASSUME NEW k \in AnyCall, PricesKept, CallOwns(k), CallTold(k)
  PROVE  CallTold(k)'
<1>1. k.pc \in AtWork => CallListed(k)'
  <2> SUFFICES ASSUME k.pc \in AtWork PROVE CallListed(k)'
    OBVIOUS
  <2>1. k.copy \in OfferRow
    BY DEF CallOwns, RequestFits, RowMade
  <2> QED BY <2>1, QuotedKept DEF CallTold, CallListed
<1>2. k.pc \in Looking => CopyListed(k.copy)'
  <2> SUFFICES ASSUME k.pc \in Looking PROVE CopyListed(k.copy)'
    OBVIOUS
  <2>1. k.copy \in OfferRow
    BY DEF CallOwns, RowMade
  <2> QED BY <2>1, QuotedKept DEF CallTold, CopyListed
<1>3. k.pc = "subscribe" => SaleListed(k)'
  <2> SUFFICES ASSUME k.pc = "subscribe" PROVE SaleListed(k)'
    OBVIOUS
  <2>1. k.id \in PriceIds
    BY CallKinds DEF Purchases
  <2> QED BY <2>1 DEF CallTold, SaleListed, PricesKept
<1> QED BY <1>1, <1>2, <1>3 DEF CallTold

(* Prices that agree need no excuse.                                        *)
LEMMA Forgotten ==
  ASSUME PriceMade', PriceBusy' = {}, PricesAgree'
  PROVE  DeletedFits' /\ ListedFits' /\ StraysFit'
<1>1. \A s \in PriceSlots : priceCall'[s] = NoPriceCall
  BY DEF PriceBusy
<1>2. NoPriceCall.pc = "idle"
  BY DEF NoPriceCall
<1>3. DeletedFits'
  BY <1>1, <1>2 DEF PriceMade, PricesAgree, DeletedFits, CallGone, Looking
<1>4. CopyListed(offer)'
  <2> SUFFICES ASSUME NEW d \in Periods, offer'.id[d] # NoPrice
               PROVE  /\ stripePrice'[offer'.id[d]] # NoPrice
                      /\ stripePrice'[offer'.id[d]].amount = offer'.price[d]
    BY DEF CopyListed, Quoted
  <2>1. d \in priceLoad'.periods
    BY DEF PriceMade, RowMade
  <2> QED BY <2>1 DEF PricesAgree, ActivePrices
<1>5. ActivePrices' \subseteq Named(offer)'
  BY DEF PricesAgree, Known, Named
<1>6. offerCached' # NoPrice => CopyListed(offerCached)'
  BY <1>4 DEF PricesAgree, CopyListed, Quoted
<1> QED
  BY <1>1, <1>2, <1>3, <1>4, <1>5, <1>6 DEF ListedFits, StraysFit, CallTold, AtWork, Looking

-----------------------------------------------------------------------------
(* A step of one slot, to the call k, with the marks it leaves.             *)
Moved(s, k, marks) ==
  /\ priceCall' = [priceCall EXCEPT ![s] = k] /\ BlamePrice(marks)
  /\ priceLoad' = priceLoad
Marked(marks) == priceFault \cup marks

LEMMA MovedCalls ==
  ASSUME PriceInv, NEW s \in PriceSlots, NEW k \in AnyCall, NEW marks, Moved(s, k, marks)
  PROVE  /\ priceCall' \in [PriceSlots -> AnyCall] /\ priceCall'[s] = k
         /\ \A t \in PriceSlots : t # s => priceCall'[t] = priceCall[t]
         /\ priceFault' = Marked(marks) \/ (PriceBusy' = {} /\ PricesAgree')
         /\ priceFault' \in {{}, Marked(marks)}
<1>1. priceCall \in [PriceSlots -> AnyCall]
  BY CallsTyped DEF PriceInv, PriceMade
<1>2. /\ priceCall' \in [PriceSlots -> AnyCall] /\ priceCall'[s] = k
      /\ \A t \in PriceSlots : t # s => priceCall'[t] = priceCall[t]
  BY <1>1 DEF Moved
<1> QED BY <1>2 DEF Moved, BlamePrice, Marked

(* Whatever such a step does, it owes the invariant for the call it moved,  *)
(* for the row and for the copy.                                            *)
LEMMA OneMoves ==
  ASSUME PriceInv, NEW s \in PriceSlots, NEW k \in AnyCall, NEW marks \in SUBSET PriceFaults,
         Moved(s, k, marks), onSale' \in BOOLEAN, PricesKept,
         stripePrice' \in [PriceIds -> StripePrice \cup {NoPrice}],
         sold' \in Sale \cup {NoPrice}, SalesFit',
         s = priceLoad.admin \/ (k.pc \in Buying /\ offer' = offer /\ ActivePrices' \subseteq ActivePrices),
         RowMade(offer)',
         offerCached' # NoPrice => RowMade(offerCached)' /\ ~offerCached'.deleted,
         CallOwns(k)',
         Marked(marks) \cap ListMarks = {} =>
           /\ s = priceLoad.admin /\ k.pc \notin AtWork => CopyListed(offer)'
           /\ offerCached' # NoPrice => CopyListed(offerCached)'
           /\ CallTold(k)',
         Marked(marks) \cap StrayMarks = {} /\ s = priceLoad.admin =>
           IF k.pc \in AtWork THEN ActivePrices' \subseteq Named(k.copy)
           ELSE ActivePrices' \subseteq Named(offer'),
         ~Changing' /\ offer'.deleted /\ offerCached' # NoPrice =>
           Marked(marks) \cap {"kept", "late", "stopped"} # {},
         CallGone(k) => Marked(marks) \cap {"torn", "kept", "late", "stopped"} # {}
  PROVE  PriceInv'
<1>1. /\ priceCall' \in [PriceSlots -> AnyCall] /\ priceCall'[s] = k
      /\ \A t \in PriceSlots : t # s => priceCall'[t] = priceCall[t]
      /\ priceFault' = Marked(marks) \/ (PriceBusy' = {} /\ PricesAgree')
      /\ priceFault' \in {{}, Marked(marks)}
  BY MovedCalls
<1>2. priceLoad' = priceLoad /\ PriceTypeOK /\ priceLoad.admin \in PriceSlots
  BY LoadMade DEF Moved, PriceInv, PriceMade
<1>3. \A t \in PriceSlots : priceCall[t] \in AnyCall /\ CallOwns(priceCall[t])
  BY CallsTyped DEF PriceInv, PriceMade
<1>4. \A t \in PriceSlots \ {priceLoad.admin} : priceCall[t].pc \in Buying
  BY DEF PriceInv, PriceMade
<1>5. ASSUME NEW t \in PriceSlots, t # s PROVE CallOwns(priceCall[t])'
  <2>1. PICK other : other = priceCall[t]
    OBVIOUS
  <2>2. offer' = offer \/ other.pc \in Buying
    BY <1>4, <1>5, <2>1
  <2>3. CallOwns(other)'
    BY <1>2, <1>3, <2>1, <2>2, MadeKept
  <2> QED BY <1>1, <1>5, <2>1, <2>3
<1>6. PriceMade'
  <2>1. PriceTypeOK'
    <3>1. priceFault' \subseteq PriceFaults /\ priceLoad' \in PriceLoads
      BY <1>1, <1>2 DEF PriceTypeOK, Marked
    <3>2. offer' \in OfferRow /\ offerCached' \in OfferRow \cup {NoPrice}
      BY DEF RowMade
    <3>3. priceCall' \in [PriceSlots -> Requests \cup Endings \cup Finds
                                          \cup Purchases \cup {NoPriceCall}]
      <4> HIDE DEF Requests, Endings, Finds, Purchases, NoPriceCall
      <4> QED BY <1>1 DEF AnyCall
    <3> QED BY <3>1, <3>2, <3>3 DEF PriceTypeOK
  <2>2. \A t \in PriceSlots : CallOwns(priceCall[t])'
    BY <1>1, <1>5
  <2>3. \A t \in PriceSlots \ {priceLoad'.admin} : priceCall'[t].pc \in Buying
    BY <1>1, <1>2, <1>4
  <2> QED BY <2>1, <2>2, <2>3 DEF PriceMade
<1>7. CASE PriceBusy' = {} /\ PricesAgree'
  BY <1>6, <1>7, Forgotten DEF PriceInv
<1>8. CASE priceFault' = Marked(marks)
  <2>1. DeletedFits'
    <3>1. ASSUME NEW t \in PriceSlots, CallGone(priceCall'[t])
          PROVE  priceFault' \cap {"torn", "kept", "late", "stopped"} # {}
      <4>1. CASE t = s
        BY <1>1, <1>8, <3>1, <4>1
      <4>2. CASE t # s
        BY <1>1, <1>8, <3>1, <4>2 DEF PriceInv, DeletedFits, Marked
      <4> QED BY <4>1, <4>2
    <3>2. \A t \in PriceSlots : CallGone(priceCall[t])' <=> CallGone(priceCall'[t])
      BY DEF CallGone
    <3> QED BY <1>8, <3>1, <3>2 DEF DeletedFits
  <2>2. ASSUME Marked(marks) \cap ListMarks = {}
        PROVE  /\ NoneAtWork' => CopyListed(offer)'
               /\ offerCached' # NoPrice => CopyListed(offerCached)'
               /\ \A t \in PriceSlots : CallTold(priceCall[t])'
    <3>1. /\ NoneAtWork => CopyListed(offer)
          /\ \A t \in PriceSlots : CallTold(priceCall[t])
      BY <2>2 DEF PriceInv, ListedFits, Marked
    <3>2. NoneAtWork' => CopyListed(offer)'
      <4>1. CASE s = priceLoad.admin
        BY <1>1, <2>2, <4>1 DEF NoneAtWork
      <4>2. CASE s # priceLoad.admin
        <5>1. NoneAtWork' => NoneAtWork
          BY <1>1, <1>4, <4>2 DEF NoneAtWork, Buying, AtWork, Looking
        <5>2. PICK row : row = offer
          OBVIOUS
        <5>3. row \in OfferRow /\ offer' = row
          BY <1>2, <4>2, <5>2 DEF PriceTypeOK
        <5>4. CopyListed(row) => CopyListed(row)'
          BY <5>3, QuotedKept DEF CopyListed
        <5> QED BY <3>1, <5>1, <5>2, <5>3, <5>4
      <4> QED BY <4>1, <4>2
    <3>3. ASSUME NEW t \in PriceSlots PROVE CallTold(priceCall[t])'
      <4>1. CASE t = s
        BY <1>1, <2>2, <4>1
      <4>2. CASE t # s
        <5>1. PICK other : other = priceCall[t]
          OBVIOUS
        <5>2. CallTold(other)'
          BY <1>3, <3>1, <5>1, ToldKept
        <5> QED BY <1>1, <4>2, <5>1, <5>2
      <4> QED BY <4>1, <4>2
    <3> QED BY <2>2, <3>2, <3>3
  <2>3. ListedFits'
    BY <1>8, <2>2 DEF ListedFits, ListMarks
  <2>4. ASSUME Marked(marks) \cap StrayMarks = {}
        PROVE  /\ NoneAtWork' => ActivePrices' \subseteq Named(offer')
               /\ \A t \in PriceSlots :
                    priceCall'[t].pc \in AtWork =>
                      ActivePrices' \subseteq Named(priceCall'[t].copy)
    <3>1. /\ NoneAtWork => ActivePrices \subseteq Named(offer)
          /\ \A t \in PriceSlots :
               priceCall[t].pc \in AtWork => ActivePrices \subseteq Named(priceCall[t].copy)
      BY <2>4 DEF PriceInv, StraysFit, Marked
    <3>2. CASE s = priceLoad.admin
      <4>1. \A t \in PriceSlots : priceCall'[t].pc \in AtWork => t = s
        BY <1>1, <1>4, <3>2 DEF Buying, AtWork, Looking
      <4> QED BY <1>1, <2>4, <3>2, <4>1 DEF NoneAtWork
    <3>3. CASE s # priceLoad.admin
      <4>1. NoneAtWork' => NoneAtWork
        BY <1>1, <1>4, <3>3 DEF NoneAtWork, Buying, AtWork, Looking
      <4>2. \A t \in PriceSlots : priceCall'[t].pc \in AtWork => priceCall'[t] = priceCall[t]
        BY <1>1, <3>3 DEF Buying, AtWork, Looking
      <4> QED BY <3>1, <3>3, <4>1, <4>2
    <3> QED BY <3>2, <3>3
  <2>5. StraysFit'
    BY <1>8, <2>4 DEF StraysFit, Named, StrayMarks
  <2> QED BY <1>6, <2>1, <2>3, <2>5 DEF PriceInv
<1> QED BY <1>1, <1>7, <1>8

(* What a step leaves of the sale and the Prices.                           *)
LEMMA LeftAlone ==
  ASSUME PriceInv
  PROVE  /\ PriceTypeOK /\ {} \in SUBSET PriceFaults
         /\ sold' = sold \/ sold' = NoPrice => sold' \in Sale \cup {NoPrice} /\ SalesFit'
         /\ stripePrice' = stripePrice =>
              /\ PricesKept /\ ActivePrices' = ActivePrices
              /\ stripePrice' \in [PriceIds -> StripePrice \cup {NoPrice}]
         /\ onSale' = onSale => onSale' \in BOOLEAN
<1>1. PriceTypeOK
  BY DEF PriceInv, PriceMade
<1>2. sold' = sold \/ sold' = NoPrice => sold' \in Sale \cup {NoPrice} /\ SalesFit'
  BY <1>1 DEF PriceInv, SalesFit, SoldAsListed, DeletedIsNotSold, PriceTypeOK
<1> QED BY <1>1, <1>2 DEF PricesKept, ActivePrices, PriceTypeOK

(* While no call of a slot is at work the row is listed and strays are      *)
(* excused.                                                                 *)
LEMMA RestFacts ==
  ASSUME PriceInv, NEW s \in PriceSlots, priceCall[s].pc \notin AtWork,
         s = priceLoad.admin
  PROVE  /\ NoneAtWork
         /\ priceFault \cap ListMarks = {} => CopyListed(offer)
         /\ priceFault \cap StrayMarks = {} => ActivePrices \subseteq Named(offer)
<1>1. NoneAtWork
  BY DEF PriceInv, PriceMade, NoneAtWork, Buying, AtWork, Looking
<1> QED BY <1>1 DEF PriceInv, ListedFits, StraysFit

(* A step that leaves the row and the Prices, of a call that is not at work *)
(* and moves to another that is not, owes what it makes of the copy and of  *)
(* that call.                                                               *)
LEMMA QuietMove ==
  ASSUME PriceInv, NEW s \in PriceSlots, NEW k \in AnyCall, NEW marks \in SUBSET PriceFaults,
         Moved(s, k, marks), priceCall[s].pc \notin AtWork, k.pc \notin AtWork,
         s = priceLoad.admin \/ k.pc \in Buying,
         UNCHANGED <<offer, stripePrice>>, onSale' \in BOOLEAN,
         sold' \in Sale \cup {NoPrice}, SalesFit',
         offerCached' # NoPrice => RowMade(offerCached)' /\ ~offerCached'.deleted,
         CallOwns(k),
         Marked(marks) \cap ListMarks = {} =>
           (offerCached' # NoPrice => CopyListed(offerCached')) /\ CallTold(k),
         ~Changing' /\ offer.deleted /\ offerCached' # NoPrice =>
           Marked(marks) \cap {"kept", "late", "stopped"} # {},
         CallGone(k) => Marked(marks) \cap {"torn", "kept", "late", "stopped"} # {}
  PROVE  PriceInv'
<1>1. PricesKept /\ ActivePrices' = ActivePrices /\ priceLoad' = priceLoad
      /\ stripePrice' \in [PriceIds -> StripePrice \cup {NoPrice}]
  BY LeftAlone DEF Moved
<1>2. RowMade(offer)'
  BY <1>1, RowsKept
<1>3. CallOwns(k)'
  BY <1>1, MadeKept
<1>4. CallTold(k) => CallTold(k)'
  BY <1>1, ToldKept
<1>5. CopyListed(offerCached') => CopyListed(offerCached)'
  BY DEF CopyListed, Quoted
<1>6. Marked(marks) \cap ListMarks = {} /\ s = priceLoad.admin => CopyListed(offer)'
  <2>1. Marked(marks) \cap ListMarks = {} /\ s = priceLoad.admin => CopyListed(offer)
    BY RestFacts DEF Marked
  <2> QED BY <2>1 DEF CopyListed, Quoted
<1>7. Marked(marks) \cap StrayMarks = {} /\ s = priceLoad.admin =>
        ActivePrices' \subseteq Named(offer')
  BY <1>1, RestFacts DEF Marked
<1> QED BY <1>1, <1>2, <1>3, <1>4, <1>5, <1>6, <1>7, OneMoves

(* A copy that stays or goes is as good as it was.                          *)
LEMMA CopyStays ==
  ASSUME PriceInv, UNCHANGED <<offer, stripePrice, priceLoad>>,
         offerCached' \in {offerCached, NoPrice}, NEW marks
  PROVE  /\ offerCached' # NoPrice => RowMade(offerCached)' /\ ~offerCached'.deleted
         /\ Marked(marks) \cap ListMarks = {} /\ offerCached' # NoPrice =>
              CopyListed(offerCached')
         /\ ~Changing /\ offer.deleted /\ offerCached' # NoPrice =>
              Marked(marks) \cap {"kept", "late", "stopped"} # {}
<1>1. PricesKept
  BY LeftAlone
<1>2. offerCached' # NoPrice => RowMade(offerCached)' /\ ~offerCached'.deleted
  BY <1>1, RowsKept
<1> QED BY <1>2 DEF PriceInv, ListedFits, DeletedFits, Marked

LEMMA ChangingMoves ==
  ASSUME PriceInv, NEW s \in PriceSlots, NEW k \in AnyCall, NEW marks, Moved(s, k, marks),
         priceCall[s].pc \in Buying \cup {"reread"}
  PROVE  ~Changing' => ~Changing
<1>1. priceCall'[s] = k /\ \A t \in PriceSlots : t # s => priceCall'[t] = priceCall[t]
  BY MovedCalls
<1> QED BY <1>1 DEF Changing, Buying, Looking

-----------------------------------------------------------------------------
(* Reads, purchases and ends.                                               *)

LEMMA FindOfferKeeps ==
  ASSUME PriceInv, NEW s \in PriceSlots, NEW then \in {"update", "subscribe"},
         FindOffer(s, then)
  PROVE  PriceInv'
<1>1. PICK copy : copy = IF offerCached # NoPrice THEN offerCached ELSE offer
  OBVIOUS
<1>2. PICK k : k = [pc |-> IF offerCached # NoPrice THEN "found" ELSE "fill",
                    copy |-> copy, gone |-> offer.deleted, then |-> then]
  OBVIOUS
<1>3. PICK marks : marks = IF Changing THEN {"torn"} ELSE {}
  OBVIOUS
<1>4. /\ ~copy.deleted /\ priceCall[s] = NoPriceCall /\ Moved(s, k, marks)
      /\ sold' = NoPrice
      /\ UNCHANGED <<offer, offerCached, stripePrice, onSale, priceLoad>>
  BY <1>1, <1>2, <1>3 DEF FindOffer, BeginPrice, KeepPrices, Moved
<1>5. PriceTypeOK /\ RowMade(copy) /\ copy \in OfferRow /\ offer.deleted \in BOOLEAN
  BY <1>1 DEF PriceInv, PriceMade, RowMade, OfferRow
<1>6. /\ k \in Finds /\ k.pc \in Looking /\ k.copy = copy /\ k.gone = offer.deleted
  BY <1>2, <1>5 DEF Finds, Looking
<1>7. k \in AnyCall /\ k.pc \notin AtWork /\ k.pc \in Buying
  <2> HIDE DEF Requests, Endings, Finds, Purchases, NoPriceCall
  <2> QED BY <1>6 DEF AnyCall, Buying, Looking, AtWork
<1>8. priceCall[s].pc \in Buying /\ priceCall[s].pc \notin AtWork
  BY <1>4, IdleCall DEF Buying, AtWork
<1>9. CallOwns(k)
  BY <1>4, <1>5, <1>6 DEF CallOwns, AtWork, Looking
<1>10. marks \in SUBSET PriceFaults
  BY <1>3 DEF PriceFaults
<1>11. Marked(marks) \cap ListMarks = {} => CallTold(k)
  <2> SUFFICES ASSUME Marked(marks) \cap ListMarks = {} PROVE CallTold(k)
    OBVIOUS
  <2>1. ~Changing
    BY <1>3 DEF Marked, ListMarks
  <2>2. NoneAtWork
    BY <2>1 DEF Changing, NoneAtWork, AtWork
  <2>3. CopyListed(copy)
    BY <1>1, <2>2 DEF PriceInv, ListedFits, Marked
  <2> QED BY <1>6, <2>3 DEF CallTold, AtWork, Looking
<1>12. CallGone(k) => Marked(marks) \cap {"torn", "kept", "late", "stopped"} # {}
  <2> SUFFICES ASSUME CallGone(k)
               PROVE  Marked(marks) \cap {"torn", "kept", "late", "stopped"} # {}
    OBVIOUS
  <2>1. offer.deleted /\ offerCached # NoPrice
    BY <1>1, <1>4, <1>6 DEF CallGone, Looking
  <2>2. CASE Changing
    BY <1>3, <2>2 DEF Marked
  <2>3. CASE ~Changing
    BY <2>1, <2>3 DEF PriceInv, DeletedFits, Marked
  <2> QED BY <2>2, <2>3
<1>13. /\ offerCached' # NoPrice => RowMade(offerCached)' /\ ~offerCached'.deleted
       /\ Marked(marks) \cap ListMarks = {} /\ offerCached' # NoPrice =>
            CopyListed(offerCached')
       /\ ~Changing /\ offer.deleted /\ offerCached' # NoPrice =>
            Marked(marks) \cap {"kept", "late", "stopped"} # {}
  BY <1>4, CopyStays
<1>14. ~Changing' => ~Changing
  BY <1>4, <1>7, <1>8, ChangingMoves
<1>15. onSale' \in BOOLEAN /\ sold' \in Sale \cup {NoPrice} /\ SalesFit'
  BY <1>4, LeftAlone
<1> QED
  BY <1>4, <1>7, <1>8, <1>9, <1>10, <1>11, <1>12, <1>13, <1>14, <1>15, QuietMove

(* What a call that looked the product up knows.                            *)
LEMMA LookingFacts ==
  ASSUME PriceInv, NEW s \in PriceSlots, priceCall[s].pc \in Looking
  PROVE  LET k == priceCall[s]
         IN  /\ k \in Finds /\ RowMade(k.copy) /\ ~k.copy.deleted /\ CallOwns(k)
             /\ k.pc \notin AtWork /\ k.pc \in Buying
             /\ k.gone => priceFault \cap {"torn", "kept", "late", "stopped"} # {}
             /\ priceFault \cap ListMarks = {} => CopyListed(k.copy)
<1>1. PICK k : k = priceCall[s]
  OBVIOUS
<1>2. k \in AnyCall /\ CallOwns(k)
  BY <1>1, CallsTyped DEF PriceInv, PriceMade
<1>3. k \in Finds
  BY <1>1, <1>2, CallKinds
<1>4. k.gone => priceFault \cap {"torn", "kept", "late", "stopped"} # {}
  BY <1>1 DEF PriceInv, DeletedFits, CallGone
<1>5. priceFault \cap ListMarks = {} => CopyListed(k.copy)
  BY <1>1 DEF PriceInv, ListedFits, CallTold
<1> QED BY <1>1, <1>2, <1>3, <1>4, <1>5 DEF CallOwns, AtWork, Looking, Buying

LEMMA FillOfferKeeps ==
  ASSUME PriceInv, NEW s \in PriceSlots, FillOffer(s)
  PROVE  PriceInv'
<1>1. PICK r : r = priceCall[s]
  OBVIOUS
<1>2. PICK k : k = IF r.then = "answer" THEN NoPriceCall ELSE [r EXCEPT !.pc = "found"]
  OBVIOUS
<1>3. PICK marks : marks = IF r.copy = offer THEN {} ELSE {"late"}
  OBVIOUS
<1>4. /\ r.pc = "fill" /\ offerCached' = r.copy /\ Moved(s, k, marks)
      /\ UNCHANGED <<offer, stripePrice, onSale, sold, priceLoad>>
  BY <1>1, <1>2, <1>3 DEF FillOffer, PriceAt, StepPrice, KeepPrices, Moved
<1>5. /\ r \in Finds /\ RowMade(r.copy) /\ ~r.copy.deleted /\ CallOwns(r)
      /\ r.pc \notin AtWork /\ r.pc \in Buying
      /\ r.gone => priceFault \cap {"torn", "kept", "late", "stopped"} # {}
      /\ priceFault \cap ListMarks = {} => CopyListed(r.copy)
  BY <1>1, <1>4, LookingFacts DEF Looking
<1>6. \/ k = NoPriceCall
      \/ k \in Finds /\ k.pc = "found" /\ k.copy = r.copy /\ k.gone = r.gone
  BY <1>2, <1>5 DEF Finds
<1>7. k \in AnyCall /\ k.pc \notin AtWork /\ k.pc \in Buying
  <2> HIDE DEF Requests, Endings, Finds, Purchases, NoPriceCall
  <2> QED BY <1>6, IdleCall DEF AnyCall, Buying, Looking, AtWork
<1>8. /\ CallOwns(k) /\ (CopyListed(r.copy) => CallTold(k)) /\ (CallGone(k) => r.gone)
  BY <1>5, <1>6, IdleCall DEF CallOwns, CallTold, CallGone, AtWork, Looking
<1>9. offerCached' # NoPrice => RowMade(offerCached)' /\ ~offerCached'.deleted
  BY <1>4, <1>5 DEF RowMade
<1>10. offer.deleted => "late" \in marks
  BY <1>3, <1>5
<1>11. onSale' \in BOOLEAN /\ sold' \in Sale \cup {NoPrice} /\ SalesFit'
       /\ marks \in SUBSET PriceFaults
  BY <1>3, <1>4, LeftAlone DEF PriceFaults
<1>12. /\ Marked(marks) \cap ListMarks = {} =>
            (offerCached' # NoPrice => CopyListed(offerCached')) /\ CallTold(k)
       /\ offer.deleted => Marked(marks) \cap {"kept", "late", "stopped"} # {}
       /\ CallGone(k) => Marked(marks) \cap {"torn", "kept", "late", "stopped"} # {}
  BY <1>4, <1>5, <1>8, <1>10 DEF Marked
<1> QED BY <1>1, <1>4, <1>5, <1>7, <1>8, <1>9, <1>11, <1>12, QuietMove

(* A call that is neither at work nor changes anything ends.                *)
LEMMA QuietEnds ==
  ASSUME PriceInv, NEW s \in PriceSlots, priceCall[s].pc \in Buying \cup {"reread"},
         Moved(s, NoPriceCall, {}), offerCached' \in {offerCached, NoPrice},
         UNCHANGED <<offer, stripePrice, onSale>>,
         sold' \in Sale \cup {NoPrice}, SalesFit'
  PROVE  PriceInv'
<1>1. NoPriceCall \in AnyCall /\ NoPriceCall.pc = "idle"
  BY IdleCall
<1> HIDE DEF NoPriceCall
<1>2. /\ CallOwns(NoPriceCall) /\ CallTold(NoPriceCall) /\ ~CallGone(NoPriceCall)
      /\ NoPriceCall.pc \notin AtWork /\ NoPriceCall.pc \in Buying
      /\ priceCall[s].pc \notin AtWork
  BY <1>1 DEF CallOwns, CallTold, CallGone, AtWork, Looking, Buying
<1>3. ~Changing' => ~Changing
  BY <1>1, ChangingMoves
<1>4. UNCHANGED priceLoad
  BY DEF Moved
<1>5. /\ offerCached' # NoPrice => RowMade(offerCached)' /\ ~offerCached'.deleted
      /\ Marked({}) \cap ListMarks = {} /\ offerCached' # NoPrice =>
           CopyListed(offerCached')
      /\ ~Changing /\ offer.deleted /\ offerCached' # NoPrice =>
           Marked({}) \cap {"kept", "late", "stopped"} # {}
  BY <1>4, CopyStays
<1>6. onSale' \in BOOLEAN /\ {} \in SUBSET PriceFaults
  BY LeftAlone
<1> QED BY <1>1, <1>2, <1>3, <1>5, <1>6, QuietMove

LEMMA AnswerOfferKeeps ==
  ASSUME PriceInv, NEW s \in PriceSlots, AnswerOffer(s)
  PROVE  PriceInv'
<1>1. /\ priceCall[s].pc = "found" /\ Moved(s, NoPriceCall, {})
      /\ UNCHANGED <<offer, offerCached, stripePrice, onSale, sold>>
  BY DEF AnswerOffer, PriceAt, EndPrice, KeepPrices, Moved
<1>2. sold' \in Sale \cup {NoPrice} /\ SalesFit'
  BY <1>1, LeftAlone
<1> QED BY <1>1, <1>2, QuietEnds DEF Buying, Looking

LEMMA SubscribeKeeps ==
  ASSUME PriceInv, NEW s \in PriceSlots, NEW d \in Periods, Subscribe(s, d)
  PROVE  PriceInv'
<1>1. PICK r : r = priceCall[s]
  OBVIOUS
<1>2. PICK k : k = [pc |-> "subscribe", listed |-> r.copy.price[d],
                    id |-> r.copy.id[d], deleted |-> r.gone]
  OBVIOUS
<1>3. /\ r.pc = "found" /\ r.copy.id[d] # NoPrice /\ Moved(s, k, {})
      /\ UNCHANGED <<offer, offerCached, stripePrice, onSale, sold, priceLoad>>
  BY <1>1, <1>2 DEF Subscribe, PriceAt, StepPrice, KeepPrices, Moved
<1>4. /\ r \in Finds /\ RowMade(r.copy) /\ ~r.copy.deleted /\ CallOwns(r)
      /\ r.pc \notin AtWork /\ r.pc \in Buying
      /\ r.gone => priceFault \cap {"torn", "kept", "late", "stopped"} # {}
      /\ priceFault \cap ListMarks = {} => CopyListed(r.copy)
  BY <1>1, <1>3, LookingFacts DEF Looking
<1>5. /\ k \in Purchases /\ k.pc = "subscribe" /\ k.listed = r.copy.price[d]
      /\ k.id = r.copy.id[d] /\ k.deleted = r.gone
  BY <1>2, <1>3, <1>4 DEF Purchases, Finds, OfferRow
<1>6. k \in AnyCall
  <2> HIDE DEF Requests, Endings, Finds, Purchases, NoPriceCall
  <2> QED BY <1>5 DEF AnyCall
<1>7. /\ CallOwns(k) /\ k.pc \notin AtWork /\ k.pc \in Buying
      /\ CopyListed(r.copy) => CallTold(k)
      /\ CallGone(k) => r.gone
  BY <1>3, <1>5
     DEF CallOwns, CallTold, CallGone, AtWork, Looking, Buying, CopyListed, Quoted, SaleListed
<1>8. ~Changing' => ~Changing
  BY <1>1, <1>3, <1>4, <1>6, ChangingMoves
<1>9. /\ offerCached' # NoPrice => RowMade(offerCached)' /\ ~offerCached'.deleted
      /\ Marked({}) \cap ListMarks = {} /\ offerCached' # NoPrice =>
           CopyListed(offerCached')
      /\ ~Changing /\ offer.deleted /\ offerCached' # NoPrice =>
           Marked({}) \cap {"kept", "late", "stopped"} # {}
  BY <1>3, CopyStays
<1>10. onSale' \in BOOLEAN /\ sold' \in Sale \cup {NoPrice} /\ SalesFit'
       /\ {} \in SUBSET PriceFaults
  BY <1>3, LeftAlone
<1>11. /\ Marked({}) \cap ListMarks = {} => CallTold(k)
       /\ CallGone(k) => Marked({}) \cap {"torn", "kept", "late", "stopped"} # {}
  BY <1>4, <1>7 DEF Marked
<1> QED BY <1>1, <1>3, <1>4, <1>6, <1>7, <1>8, <1>9, <1>10, <1>11, QuietMove

(* The sale keeps the marks the purchase found.                             *)
LEMMA CreateAtStripeKeeps ==
  ASSUME PriceInv, NEW s \in PriceSlots, CreateAtStripe(s)
  PROVE  PriceInv'
<1>1. PICK k : k = priceCall[s]
  OBVIOUS
<1>2. /\ k.pc = "subscribe"
      /\ sold' = IF onSale /\ k.id \in ActivePrices
                 THEN [listed |-> k.listed, charged |-> stripePrice[k.id].amount,
                       deleted |-> k.deleted, marks |-> priceFault]
                 ELSE sold
      /\ Moved(s, NoPriceCall, {})
      /\ UNCHANGED <<offer, offerCached, stripePrice, onSale>>
  BY <1>1 DEF CreateAtStripe, PriceAt, EndPrice, KeepPrices, Moved
<1>3. k \in Purchases /\ PriceTypeOK
  <2>1. k \in AnyCall /\ PriceTypeOK
    BY <1>1, CallsTyped DEF PriceInv, PriceMade
  <2> QED BY <1>2, <2>1, CallKinds
<1>4. sold' \in Sale \cup {NoPrice} /\ SalesFit'
  <2>1. CASE ~(onSale /\ k.id \in ActivePrices)
    BY <1>2, <2>1, LeftAlone
  <2>2. CASE onSale /\ k.id \in ActivePrices
    <3>1. PICK soldNow : soldNow = [listed |-> k.listed, charged |-> stripePrice[k.id].amount,
                                    deleted |-> k.deleted, marks |-> priceFault]
      OBVIOUS
    <3>2. /\ sold' = soldNow /\ soldNow.listed = k.listed /\ soldNow.deleted = k.deleted
          /\ soldNow.charged = stripePrice[k.id].amount /\ soldNow.marks = priceFault
      BY <1>2, <2>2, <3>1
    <3>3. soldNow \in Sale
      <4>1. stripePrice[k.id] \in StripePrice
        BY <1>3, <2>2 DEF PriceTypeOK, ActivePrices
      <4>2. stripePrice[k.id].amount \in Amounts
        BY <4>1 DEF StripePrice
      <4> QED BY <1>3, <3>1, <4>2 DEF Sale, Purchases, PriceTypeOK
    <3>4. k.deleted => priceFault \cap {"torn", "kept", "late", "stopped"} # {}
      BY <1>1, <1>2 DEF PriceInv, DeletedFits, CallGone
    <3>5. priceFault \cap ListMarks = {} => SaleListed(k)
      BY <1>1, <1>2 DEF PriceInv, ListedFits, CallTold
    <3>6. SoldAsListed'
      BY <3>2, <3>5 DEF SoldAsListed, SaleListed, ListMarks
    <3>7. DeletedIsNotSold'
      BY <3>2, <3>4 DEF DeletedIsNotSold
    <3> QED BY <3>2, <3>3, <3>6, <3>7 DEF SalesFit
  <2> QED BY <2>1, <2>2
<1> QED BY <1>1, <1>2, <1>4, QuietEnds DEF Buying, Looking

LEMMA ExpireOfferKeeps ==
  ASSUME PriceInv, ExpireOffer
  PROVE  PriceInv'
<1>1. PICK s, k : s = priceLoad.admin /\ k = priceCall[s]
  OBVIOUS
<1>2. /\ offerCached' = NoPrice /\ BlamePrice({})
      /\ UNCHANGED <<offer, sold, priceCall, priceLoad, stripePrice, onSale>>
  BY DEF ExpireOffer, KeepPrices
<1>3. /\ s \in PriceSlots /\ k \in AnyCall /\ CallOwns(k)
      /\ priceCall \in [PriceSlots -> AnyCall]
  BY <1>1, LoadMade, CallsTyped DEF PriceInv, PriceMade
<1>4. Moved(s, k, {})
  <2>1. priceCall' = [priceCall EXCEPT ![s] = k]
    BY <1>1, <1>2, <1>3
  <2> QED BY <1>2, <2>1 DEF Moved
<1>5. /\ PricesKept /\ onSale' \in BOOLEAN /\ sold' \in Sale \cup {NoPrice} /\ SalesFit'
      /\ {} \in SUBSET PriceFaults /\ ActivePrices' = ActivePrices
      /\ stripePrice' \in [PriceIds -> StripePrice \cup {NoPrice}] /\ RowMade(offer)'
  BY <1>2, LeftAlone, RowsKept
<1>6. CallOwns(k)'
  BY <1>2, <1>3, <1>5, MadeKept
<1>7. Marked({}) \cap ListMarks = {} =>
        /\ k.pc \notin AtWork => CopyListed(offer)'
        /\ CallTold(k)'
  <2> SUFFICES ASSUME Marked({}) \cap ListMarks = {}
               PROVE  (k.pc \notin AtWork => CopyListed(offer)') /\ CallTold(k)'
    OBVIOUS
  <2>1. CallTold(k) /\ (k.pc \notin AtWork => CopyListed(offer))
    BY <1>1, <1>3, RestFacts DEF PriceInv, ListedFits, Marked
  <2>2. CallTold(k)'
    BY <1>3, <1>5, <2>1, ToldKept
  <2> QED BY <1>2, <2>1, <2>2 DEF CopyListed, Quoted
<1>8. Marked({}) \cap StrayMarks = {} =>
        IF k.pc \in AtWork THEN ActivePrices' \subseteq Named(k.copy)
        ELSE ActivePrices' \subseteq Named(offer')
  <2>1. CASE k.pc \in AtWork
    BY <1>1, <1>3, <1>5, <2>1 DEF PriceInv, StraysFit, Marked
  <2>2. CASE k.pc \notin AtWork
    BY <1>1, <1>2, <1>3, <1>5, <2>2, RestFacts DEF Marked
  <2> QED BY <2>1, <2>2
<1>9. CallGone(k) => Marked({}) \cap {"torn", "kept", "late", "stopped"} # {}
  BY <1>1, <1>3 DEF PriceInv, DeletedFits, Marked
<1> QED BY <1>1, <1>2, <1>3, <1>4, <1>5, <1>6, <1>7, <1>8, <1>9, OneMoves

-----------------------------------------------------------------------------
(* The administrator's requests.                                            *)

(* A step of a request that is not over owes the invariant for the request  *)
(* and the row only.                                                        *)
LEMMA RunningStep ==
  ASSUME PriceInv, NEW s \in PriceSlots, s = priceLoad.admin, NEW k \in AnyCall,
         k.pc \in AtWork \cup {"archive", "drop", "reread"},
         NEW marks \in SUBSET PriceFaults, Moved(s, k, marks),
         onSale' \in BOOLEAN, PricesKept,
         stripePrice' \in [PriceIds -> StripePrice \cup {NoPrice}],
         sold' \in {sold, NoPrice}, offerCached' \in {offerCached, NoPrice},
         RowMade(offer)', CallOwns(k)',
         Marked(marks) \cap ListMarks = {} =>
           IF k.pc \in AtWork THEN CallListed(k)' ELSE CopyListed(offer)',
         Marked(marks) \cap StrayMarks = {} =>
           IF k.pc \in AtWork THEN ActivePrices' \subseteq Named(k.copy)
           ELSE ActivePrices' \subseteq Named(offer')
  PROVE  PriceInv'
<1>1. sold' \in Sale \cup {NoPrice} /\ SalesFit'
  BY LeftAlone
<1>2. offerCached' # NoPrice => RowMade(offerCached)' /\ ~offerCached'.deleted
  BY RowsKept DEF Moved
<1>3. /\ ~CallGone(k) /\ k.pc \notin Looking /\ k.pc # "subscribe"
      /\ k.pc \in AtWork \cup {"archive", "drop"} \/ k.pc = "reread"
  BY DEF CallGone, Looking, AtWork
<1>4. ~Changing' => ~offer'.deleted
  <2>1. priceCall'[s] = k
    BY MovedCalls
  <2>2. ~Changing' => k.pc = "reread"
    BY <1>3, <2>1 DEF Changing, AtWork
  <2> QED BY <2>2 DEF CallOwns
<1>5. Marked(marks) \cap ListMarks = {} /\ offerCached' # NoPrice => CopyListed(offerCached)'
  <2> SUFFICES ASSUME Marked(marks) \cap ListMarks = {}, offerCached' # NoPrice
               PROVE  CopyListed(offerCached)'
    OBVIOUS
  <2>1. PICK row : row = offerCached
    OBVIOUS
  <2>2. row \in OfferRow /\ CopyListed(row) /\ offerCached' = row
    BY <2>1 DEF PriceInv, PriceMade, RowMade, ListedFits, Marked
  <2>3. CopyListed(row)'
    BY <2>2, QuotedKept DEF CopyListed
  <2> QED BY <2>2, <2>3
<1>6. Marked(marks) \cap ListMarks = {} => CallTold(k)'
  BY <1>3 DEF CallTold
<1> QED BY <1>1, <1>2, <1>3, <1>4, <1>5, <1>6, OneMoves

(* What a request at work brings along.                                     *)
LEMMA WorkFacts ==
  ASSUME PriceInv, NEW s \in PriceSlots, priceCall[s].pc \in AtWork
  PROVE  /\ s = priceLoad.admin
         /\ priceCall[s] \in Requests /\ RequestFits(priceCall[s])
         /\ priceFault \cap ListMarks = {} => CallListed(priceCall[s])
         /\ priceFault \cap StrayMarks = {} =>
              ActivePrices \subseteq Named(priceCall[s].copy)
<1>1. s = priceLoad.admin
  BY DEF PriceInv, PriceMade, Buying, AtWork, Looking
<1>2. priceCall[s] \in Requests
  BY CallsTyped, CallKinds DEF PriceInv, PriceMade
<1> QED BY <1>1, <1>2 DEF PriceInv, PriceMade, CallOwns, ListedFits, CallTold, StraysFit

(* A request that wrote its copy goes on to the Prices it has to replace or *)
(* to its end: such a step owes what it did to the row and the Prices.      *)
LEMMA GoesOn ==
  ASSUME PriceInv, NEW s \in PriceSlots, s = priceLoad.admin,
         NEW k \in Requests, NEW marks \in SUBSET PriceFaults, Moved(s, NextCall(k), marks),
         offer' = k.copy, RowMade(k.copy), ~k.copy.deleted,
         ~k.boot \/ k.todo = {},
         \A d \in k.todo : k.copy.price[d] > 0 /\ k.old[d] = k.copy.id[d],
         k.todo # {} => k.copy.product,
         UNCHANGED <<offerCached, sold, priceLoad>>, onSale' \in BOOLEAN,
         stripePrice' \in [PriceIds -> StripePrice \cup {NoPrice}], PricesKept,
         Marked(marks) \cap ListMarks = {} => CallListed(k)',
         Marked(marks) \cap StrayMarks = {} => ActivePrices' \subseteq Named(k.copy)
  PROVE  PriceInv'
<1>1. RowMade(k.copy)' /\ RowMade(offer)'
  <2>1. PICK row : row = k.copy
    OBVIOUS
  <2> QED BY <2>1, RowKept
<1>2. PICK k2 : k2 = NextCall(k)
  OBVIOUS
<1>3. /\ k2 \in Requests \cup Endings
      /\ k2.pc \in AtWork \cup {"archive", "drop", "reread"}
      /\ CallOwns(k2)'
      /\ CallListed(k)' =>
           IF k2.pc \in AtWork THEN CallListed(k2)' ELSE CopyListed(offer)'
      /\ ActivePrices' \subseteq Named(k.copy) =>
           IF k2.pc \in AtWork THEN ActivePrices' \subseteq Named(k2.copy)
           ELSE ActivePrices' \subseteq Named(offer')
  <2>1. CASE k.todo # {}
    <3>1. k2 = [k EXCEPT !.pc = "replace"]
      BY <1>2, <2>1 DEF NextCall
    <3>2. /\ k2 \in Requests /\ k2.pc = "replace" /\ k2.copy = k.copy
          /\ k2.todo = k.todo /\ k2.old = k.old /\ k2.boot = k.boot
      BY <3>1 DEF Requests
    <3>3. RequestFits(k2)'
      BY <1>1, <2>1, <3>2 DEF RequestFits
    <3>4. CallOwns(k2)' /\ k2.pc \in AtWork
      BY <3>2, <3>3 DEF CallOwns, AtWork, Looking
    <3>5. CallListed(k)' => CallListed(k2)'
      BY <3>2 DEF CallListed
    <3> QED BY <3>2, <3>4, <3>5
  <2>2. CASE k.todo = {}
    <3>1. k2 = [pc |-> k.ends, reads |-> TRUE] /\ k.ends \in {"drop", "reread"}
      BY <1>2, <2>2 DEF NextCall, Requests
    <3>2. /\ k2 \in Endings /\ k2.pc \in {"drop", "reread"} /\ k2.reads
          /\ k2.pc \notin AtWork /\ k2.pc \notin Looking
      BY <3>1 DEF Endings, AtWork, Looking
    <3>3. CallOwns(k2)'
      BY <3>2 DEF CallOwns
    <3>4. CallListed(k)' => CopyListed(offer)'
      BY <2>2 DEF CallListed, CopyListed
    <3> QED BY <3>2, <3>3, <3>4
  <2> QED BY <2>1, <2>2
<1>4. k2 \in AnyCall
  <2> HIDE DEF Requests, Endings, Finds, Purchases, NoPriceCall
  <2> QED BY <1>3 DEF AnyCall
<1> QED BY <1>1, <1>2, <1>3, <1>4, RunningStep

LEMMA RequestIsCall == Requests \cup Endings \cup Finds \subseteq AnyCall
<1> HIDE DEF Requests, Endings, Finds, Purchases, NoPriceCall
<1> QED BY DEF AnyCall

LEMMA SaveIdsKeeps ==
  ASSUME PriceInv, NEW s \in PriceSlots, SaveIds(s)
  PROVE  PriceInv'
<1>0. PICK k : k = priceCall[s]
  OBVIOUS
<1>1. k.pc = "saveIds" /\ k.pc \in AtWork
  BY <1>0 DEF SaveIds, PriceAt, AtWork
<1>2. /\ s = priceLoad.admin /\ k \in Requests /\ RequestFits(k)
      /\ priceFault \cap ListMarks = {} => CallListed(k)
      /\ priceFault \cap StrayMarks = {} =>
           ActivePrices \subseteq Named(k.copy)
  BY <1>0, <1>1, WorkFacts
<1>3. /\ offer' = k.copy /\ Moved(s, NextCall(k), {})
      /\ UNCHANGED <<offerCached, sold, priceLoad, stripePrice, onSale>>
  BY <1>0 DEF SaveIds, StepPrice, KeepPrices, Moved
<1>4. PricesKept /\ (CallListed(k) => CallListed(k)') /\ ActivePrices' = ActivePrices
  BY <1>3 DEF PricesKept, CallListed, Quoted, ActivePrices
<1>5. /\ Marked({}) \cap ListMarks = {} => CallListed(k)'
      /\ Marked({}) \cap StrayMarks = {} => ActivePrices' \subseteq Named(k.copy)
  BY <1>2, <1>4 DEF Marked
<1>6. /\ stripePrice' \in [PriceIds -> StripePrice \cup {NoPrice}] /\ onSale' \in BOOLEAN
      /\ {} \in SUBSET PriceFaults
  BY <1>3, LeftAlone
<1>7. /\ RowMade(k.copy) /\ ~k.copy.deleted
      /\ ~k.boot \/ k.todo = {}
      /\ \A d \in k.todo : k.copy.price[d] > 0 /\ k.old[d] = k.copy.id[d]
      /\ k.todo # {} => k.copy.product
  BY <1>2 DEF RequestFits
<1> QED BY <1>2, <1>3, <1>4, <1>5, <1>6, <1>7, GoesOn

LEMMA SaveOfferKeeps ==
  ASSUME PriceInv, NEW s \in PriceSlots, SaveOffer(s)
  PROVE  PriceInv'
<1>0. PICK k : k = priceCall[s]
  OBVIOUS
<1>1. k.pc = "save" /\ k.pc \in AtWork
  BY <1>0 DEF SaveOffer, PriceAt, AtWork
<1>2. /\ s = priceLoad.admin /\ k \in Requests /\ RequestFits(k)
      /\ priceFault \cap ListMarks = {} => CallListed(k)
      /\ priceFault \cap StrayMarks = {} =>
           ActivePrices \subseteq Named(k.copy)
  BY <1>0, <1>1, WorkFacts
<1>3. PICK k2 : k2 = IF k.boot THEN [k EXCEPT !.pc = "bootstrap"]
                     ELSE IF k.rename THEN [k EXCEPT !.pc = "refresh"]
                     ELSE NextCall(k)
  OBVIOUS
<1>4. /\ offer' = k.copy /\ Moved(s, k2, {})
      /\ UNCHANGED <<offerCached, sold, priceLoad, stripePrice, onSale>>
  BY <1>0, <1>3 DEF SaveOffer, StepPrice, KeepPrices, Moved
<1>5. PricesKept /\ (CallListed(k) => CallListed(k)') /\ ActivePrices' = ActivePrices
  BY <1>4 DEF PricesKept, CallListed, Quoted, ActivePrices
<1>6. /\ stripePrice' \in [PriceIds -> StripePrice \cup {NoPrice}] /\ onSale' \in BOOLEAN
      /\ {} \in SUBSET PriceFaults
  BY <1>4, LeftAlone
<1>7. /\ RowMade(k.copy) /\ ~k.copy.deleted
      /\ ~k.boot \/ k.todo = {}
      /\ \A d \in k.todo : k.copy.price[d] > 0 /\ k.old[d] = k.copy.id[d]
      /\ k.todo # {} => k.copy.product
  BY <1>2 DEF RequestFits
<1>10. /\ Marked({}) \cap ListMarks = {} => CallListed(k)'
       /\ Marked({}) \cap StrayMarks = {} => ActivePrices' \subseteq Named(k.copy)
  BY <1>2, <1>5 DEF Marked
<1>8. CASE k.boot \/ k.rename
  <2>1. /\ k2 \in Requests /\ k2.pc \in {"bootstrap", "refresh"} /\ k2.copy = k.copy
        /\ k2.todo = k.todo /\ k2.old = k.old /\ k2.boot = k.boot
        /\ k2.pc = "bootstrap" => k.boot
    BY <1>2, <1>3, <1>8 DEF Requests
  <2>2. k2.pc \in AtWork /\ k2 \in AnyCall
    BY <2>1, RequestIsCall DEF AtWork
  <2>3. RowMade(k.copy)' /\ RowMade(offer)'
    BY <1>4, <1>7 DEF RowMade
  <2>4. RequestFits(k2)'
    BY <1>1, <1>2, <1>4, <1>7, <2>1, <2>3 DEF RequestFits
  <2>5. CallListed(k)' => CallListed(k2)'
    BY <2>1 DEF CallListed
  <2>6. CallOwns(k2)'
    BY <2>1, <2>4 DEF CallOwns, AtWork, Looking
  <2> QED
    BY <1>2, <1>4, <1>5, <1>6, <1>10, <2>1, <2>2, <2>3, <2>5, <2>6, RunningStep
<1>9. CASE ~(k.boot \/ k.rename)
  <2>1. Moved(s, NextCall(k), {})
    BY <1>3, <1>4, <1>9
  <2> QED BY <1>2, <1>4, <1>5, <1>6, <1>7, <1>10, <2>1, GoesOn
<1> QED BY <1>8, <1>9

(* New Prices have the amounts of the row they are minted for.                *)
LEMMA CreatedPrices ==
  ASSUME PriceTypeOK, NEW row \in OfferRow, NEW minted \in SUBSET Priced(row),
         NEW ids \in NewIds(minted), stripePrice' = Created(row, ids)
  PROVE  /\ stripePrice' \in [PriceIds -> StripePrice \cup {NoPrice}] /\ PricesKept
         /\ \A d \in minted : /\ ids[d] \in PriceIds /\ stripePrice'[ids[d]] # NoPrice
                            /\ stripePrice'[ids[d]].amount = row.price[d]
         /\ ActivePrices' \subseteq ActivePrices \cup {ids[d] : d \in minted}
<1>1. /\ ids \in [minted -> Unpriced]
      /\ \A d, e \in minted : ids[d] = ids[e] => d = e
  BY DEF NewIds, IsInjective
<1>2. Range(ids) = {ids[d] : d \in minted} /\ DOMAIN ids = minted
  BY <1>1 DEF Range
<1>3. \A i \in Unpriced : i \in PriceIds /\ stripePrice[i] = NoPrice
  BY LoadMade DEF Unpriced
<1>4. \A d \in minted : ids[d] \in PriceIds /\ stripePrice[ids[d]] = NoPrice
  BY <1>1, <1>3
<1>5. \A d \in minted : row.price[d] \in Amounts \ {0}
  BY PriceAssumption DEF Priced, OfferRow
<1>6. ASSUME NEW d \in minted
      PROVE  stripePrice'[ids[d]] = [amount |-> row.price[d], active |-> TRUE]
  <2>1. (CHOOSE e \in DOMAIN ids : ids[e] = ids[d]) = d
    BY <1>1, <1>2
  <2> QED BY <1>2, <1>4, <2>1 DEF Created
<1>7. \A j \in PriceIds : j \notin {ids[d] : d \in minted} => stripePrice'[j] = stripePrice[j]
  BY <1>2 DEF Created
<1>8. \A d \in minted : [amount |-> row.price[d], active |-> TRUE] \in StripePrice
  BY <1>5 DEF StripePrice
<1>9. ASSUME NEW j \in PriceIds
      PROVE  stripePrice'[j] \in StripePrice \cup {NoPrice}
  <2>1. CASE j \in {ids[d] : d \in minted}
    BY <1>6, <1>8, <2>1
  <2>2. CASE j \notin {ids[d] : d \in minted}
    BY <1>7, <2>2 DEF PriceTypeOK
  <2> QED BY <2>1, <2>2
<1>10. DOMAIN stripePrice' = PriceIds
  BY DEF Created
<1>11. stripePrice' \in [PriceIds -> StripePrice \cup {NoPrice}]
  BY <1>9, <1>10 DEF Created
<1>12. PricesKept
  BY <1>4, <1>7 DEF PricesKept
<1>13. \A d \in minted : /\ stripePrice'[ids[d]] # NoPrice
                       /\ stripePrice'[ids[d]].amount = row.price[d]
  <2> TAKE d \in minted
  <2>1. PICK new : new = [amount |-> row.price[d], active |-> TRUE]
    OBVIOUS
  <2>2. new \in StripePrice /\ new # NoPrice
    BY <1>8, <2>1, NoPriceAssumption
  <2>3. new.amount = row.price[d]
    BY <2>1
  <2> QED BY <1>6, <2>1, <2>2, <2>3
<1>14. ActivePrices' \subseteq ActivePrices \cup {ids[d] : d \in minted}
  BY <1>7 DEF ActivePrices
<1> QED BY <1>4, <1>11, <1>12, <1>13, <1>14

LEMMA BootstrapKeeps ==
  ASSUME PriceInv, NEW s \in PriceSlots, Bootstrap(s)
  PROVE  PriceInv'
<1>0. PICK k : k = priceCall[s]
  OBVIOUS
<1>1. k.pc = "bootstrap" /\ k.pc \in AtWork
  BY <1>0 DEF Bootstrap, PriceAt, AtWork
<1>2. /\ s = priceLoad.admin /\ k \in Requests /\ RequestFits(k)
      /\ priceFault \cap ListMarks = {} => CallListed(k)
      /\ priceFault \cap StrayMarks = {} =>
           ActivePrices \subseteq Named(k.copy)
  BY <1>0, <1>1, WorkFacts
<1>3. PICK minted \in SUBSET Priced(k.copy), stripeTold \in BOOLEAN :
      \E ids \in NewIds(minted) :
        LET copy == [k.copy EXCEPT !.product = TRUE,
                       !.id = [d \in Periods |-> IF d \in minted THEN ids[d] ELSE NoPrice]]
        IN  /\ stripeTold => minted = Priced(k.copy)
            /\ stripePrice' = Created(k.copy, ids)
            /\ onSale' = (onSale \/ stripeTold)
            /\ TryStripeSync(s, k, stripeTold, copy)
            /\ UNCHANGED <<offer, offerCached, sold, priceLoad>>
            /\ BlamePrice(IF stripeTold THEN {} ELSE {"failed"})
  BY <1>0 DEF Bootstrap
<1>4. PICK ids \in NewIds(minted) :
        LET copy == [k.copy EXCEPT !.product = TRUE,
                       !.id = [d \in Periods |-> IF d \in minted THEN ids[d] ELSE NoPrice]]
        IN  /\ stripeTold => minted = Priced(k.copy)
            /\ stripePrice' = Created(k.copy, ids)
            /\ onSale' = (onSale \/ stripeTold)
            /\ TryStripeSync(s, k, stripeTold, copy)
            /\ UNCHANGED <<offer, offerCached, sold, priceLoad>>
            /\ BlamePrice(IF stripeTold THEN {} ELSE {"failed"})
  BY <1>3
<1>5. PriceTypeOK
  BY DEF PriceInv, PriceMade
<1>6. /\ k.copy \in OfferRow /\ RowMade(k.copy) /\ ~k.copy.deleted /\ k.todo = {}
      /\ ~k.copy.product /\ k.copy.id = NoIds /\ offer = k.copy
  BY <1>1, <1>2 DEF RequestFits, RowMade
<1>7. /\ stripePrice' \in [PriceIds -> StripePrice \cup {NoPrice}] /\ PricesKept
      /\ \A d \in minted : /\ ids[d] \in PriceIds /\ stripePrice'[ids[d]] # NoPrice
                         /\ stripePrice'[ids[d]].amount = k.copy.price[d]
      /\ ActivePrices' \subseteq ActivePrices \cup {ids[d] : d \in minted}
  BY <1>4, <1>5, <1>6, CreatedPrices
<1>8. onSale' \in BOOLEAN /\ UNCHANGED <<offer, offerCached, sold, priceLoad>>
  BY <1>4, <1>5 DEF PriceTypeOK
<1>9. CASE stripeTold
  <2>1. PICK copy : copy = [k.copy EXCEPT !.product = TRUE,
                       !.id = [d \in Periods |-> IF d \in minted THEN ids[d] ELSE NoPrice]]
    OBVIOUS
  <2>2. PICK k2 : k2 = [k EXCEPT !.copy = copy, !.pc = "saveIds"]
    OBVIOUS
  <2>3. Moved(s, k2, {})
    BY <1>4, <1>9, <2>1, <2>2 DEF TryStripeSync, StepPrice, Moved
  <2>4. /\ copy \in OfferRow /\ copy.product /\ ~copy.deleted
        /\ copy.price = k.copy.price
        /\ copy.id = [d \in Periods |-> IF d \in minted THEN ids[d] ELSE NoPrice]
    BY <1>6, <1>7, <2>1 DEF OfferRow
  <2>5. /\ k2 \in Requests /\ k2.pc = "saveIds" /\ k2.copy = copy
        /\ k2.todo = k.todo /\ k2.boot = k.boot
    BY <1>2, <2>2, <2>4 DEF Requests
  <2>6. k2.pc \in AtWork /\ k2 \in AnyCall /\ {} \in SUBSET PriceFaults
    BY <2>5, RequestIsCall DEF AtWork
  <2>7. RowMade(copy)'
    <3>1. \A d \in Periods \ priceLoad.periods : d \notin minted
      BY <1>6, PriceAssumption DEF Priced, RowMade
    <3> QED BY <1>6, <1>7, <1>8, <2>4, <3>1 DEF RowMade
  <2>8. RequestFits(k2)'
    BY <1>6, <2>4, <2>5, <2>7 DEF RequestFits
  <2>9. CallListed(k2)'
    BY <1>7, <2>4, <2>5 DEF CallListed, Quoted
  <2>10. CallOwns(k2)'
    BY <2>5, <2>8 DEF CallOwns, AtWork, Looking
  <2>11. Marked({}) \cap StrayMarks = {} =>
           ActivePrices' \subseteq Named(k2.copy)
    <3> SUFFICES ASSUME Marked({}) \cap StrayMarks = {}
                 PROVE  ActivePrices' \subseteq Named(copy)
      BY <2>5
    <3>1. ActivePrices \subseteq Named(k.copy)
      BY <1>2 DEF Marked
    <3>2. Named(k.copy) \subseteq {NoPrice}
      BY <1>6 DEF Named, NoIds
    <3>3. ActivePrices = {}
      BY <3>1, <3>2, NoPriceAssumption DEF ActivePrices
    <3>4. {ids[d] : d \in minted} \subseteq Named(copy)
      BY <2>4 DEF Named, Priced
    <3> QED BY <1>7, <3>3, <3>4
  <2>12. RowMade(offer)'
    BY <1>7, <1>8, RowsKept
  <2> QED
    BY <1>2, <1>7, <1>8, <2>3, <2>5, <2>6, <2>9, <2>10, <2>11, <2>12, RunningStep
<1>10. CASE ~stripeTold
  <2>1. Moved(s, NextCall(k), {"failed"})
    BY <1>4, <1>10 DEF TryStripeSync, StepPrice, Moved
  <2>2. /\ Marked({"failed"}) \cap ListMarks # {}
        /\ Marked({"failed"}) \cap StrayMarks # {}
    BY DEF Marked, ListMarks, StrayMarks
  <2>3. {"failed"} \in SUBSET PriceFaults
    BY DEF PriceFaults
  <2> QED BY <1>2, <1>6, <1>7, <1>8, <2>1, <2>2, <2>3, GoesOn
<1> QED BY <1>9, <1>10

LEMMA RefreshKeeps ==
  ASSUME PriceInv, NEW s \in PriceSlots, Refresh(s)
  PROVE  PriceInv'
<1>0. PICK k : k = priceCall[s]
  OBVIOUS
<1>1. k.pc = "refresh" /\ k.pc \in AtWork
  BY <1>0 DEF Refresh, PriceAt, AtWork
<1>2. /\ s = priceLoad.admin /\ k \in Requests /\ RequestFits(k)
      /\ priceFault \cap ListMarks = {} => CallListed(k)
      /\ priceFault \cap StrayMarks = {} =>
           ActivePrices \subseteq Named(k.copy)
  BY <1>0, <1>1, WorkFacts
<1>3. PICK minted \in SUBSET {d \in Priced(k.copy) : k.copy.id[d] = NoPrice} :
        \E ids \in NewIds(minted) :
          /\ stripePrice' = Created(k.copy, ids)
          /\ StepPrice(s, NextCall(k))
          /\ UNCHANGED <<offer, offerCached, onSale, sold, priceLoad>>
          /\ BlamePrice(IF minted = {} THEN {} ELSE {"refreshed"})
  BY <1>0 DEF Refresh
<1>12. PICK ids \in NewIds(minted) :
         /\ stripePrice' = Created(k.copy, ids)
         /\ StepPrice(s, NextCall(k))
         /\ UNCHANGED <<offer, offerCached, onSale, sold, priceLoad>>
         /\ BlamePrice(IF minted = {} THEN {} ELSE {"refreshed"})
  BY <1>3
<1>4. PriceTypeOK /\ minted \in SUBSET Priced(k.copy)
  BY DEF PriceInv, PriceMade
<1>5. /\ k.copy \in OfferRow /\ RowMade(k.copy) /\ ~k.copy.deleted /\ offer = k.copy
      /\ ~k.boot \/ k.todo = {}
      /\ \A d \in k.todo : k.copy.price[d] > 0 /\ k.old[d] = k.copy.id[d]
      /\ k.todo # {} => k.copy.product
  BY <1>1, <1>2 DEF RequestFits, RowMade
<1>6. /\ stripePrice' \in [PriceIds -> StripePrice \cup {NoPrice}] /\ PricesKept
      /\ ActivePrices' \subseteq ActivePrices \cup {ids[d] : d \in minted}
  BY <1>4, <1>5, <1>12, CreatedPrices
<1>7. PICK marks : marks = IF minted = {} THEN {} ELSE {"refreshed"}
  OBVIOUS
<1>8. /\ marks \in SUBSET PriceFaults /\ Moved(s, NextCall(k), marks)
      /\ UNCHANGED <<offer, offerCached, sold, priceLoad>> /\ onSale' \in BOOLEAN
  BY <1>4, <1>7, <1>12 DEF PriceFaults, StepPrice, PriceTypeOK, Moved
<1>10. Marked(marks) \cap ListMarks = {} => CallListed(k)'
  BY <1>2, <1>5, <1>6, QuotedKept DEF CallListed, Marked
<1>11. Marked(marks) \cap StrayMarks = {} =>
         ActivePrices' \subseteq Named(k.copy)
  BY <1>2, <1>6, <1>7 DEF Marked, StrayMarks
<1> QED BY <1>2, <1>5, <1>6, <1>8, <1>10, <1>11, GoesOn

(* The Prices after one was replaced: with the new one, without the old one *)
(* if it could be archived.                                                 *)
Replaced(new, old, archived, amount) ==
  [j \in PriceIds |->
     IF j = new THEN [amount |-> amount, active |-> TRUE]
     ELSE IF j = old /\ archived THEN [stripePrice[j] EXCEPT !.active = FALSE]
     ELSE stripePrice[j]]

LEMMA ReplacedPrices ==
  ASSUME PriceTypeOK, NEW new \in Newest, NEW old \in PriceIds \cup {NoPrice},
         NEW archived \in BOOLEAN, NEW amount \in Amounts \ {0},
         stripePrice' = Replaced(new, old, archived, amount),
         old # NoPrice => stripePrice[old] # NoPrice
  PROVE  /\ stripePrice' \in [PriceIds -> StripePrice \cup {NoPrice}] /\ PricesKept
         /\ new # NoPrice => /\ new \in PriceIds /\ stripePrice'[new] # NoPrice
                             /\ stripePrice'[new].amount = amount
         /\ ActivePrices' \subseteq ActivePrices \cup ({new} \ {NoPrice})
         /\ archived => old \notin ActivePrices' \/ old = new
<1> USE DEF Replaced
<1>1. new # NoPrice => new \in PriceIds /\ stripePrice[new] = NoPrice
  BY LoadMade DEF Newest, Unpriced
<1>2. PICK minted : minted = [amount |-> amount, active |-> TRUE]
  OBVIOUS
<1>3. minted \in StripePrice /\ minted # NoPrice /\ minted.amount = amount
  <2>1. minted \in StripePrice /\ minted.amount = amount
    BY <1>2 DEF StripePrice
  <2> QED BY <2>1, NoPriceAssumption
<1>4. ASSUME NEW j \in PriceIds, stripePrice[j] # NoPrice
      PROVE  LET p == [stripePrice[j] EXCEPT !.active = FALSE]
             IN  /\ p \in StripePrice /\ p # NoPrice /\ ~p.active
                 /\ p.amount = stripePrice[j].amount
  <2>1. stripePrice[j] \in StripePrice
    BY <1>4 DEF PriceTypeOK
  <2>2. PICK p : p = [stripePrice[j] EXCEPT !.active = FALSE]
    OBVIOUS
  <2>3. p \in StripePrice /\ ~p.active /\ p.amount = stripePrice[j].amount
    BY <2>1, <2>2 DEF StripePrice
  <2> QED BY <2>2, <2>3, NoPriceAssumption
<1>5. ASSUME NEW j \in PriceIds
      PROVE  /\ stripePrice'[j] \in StripePrice \cup {NoPrice}
             /\ stripePrice[j] # NoPrice =>
                  stripePrice'[j] # NoPrice /\ stripePrice'[j].amount = stripePrice[j].amount
             /\ j \in ActivePrices' => j \in ActivePrices \/ j = new
             /\ j = old /\ archived /\ j # new => j \notin ActivePrices'
  <2>1. CASE j = new
    <3>1. stripePrice'[j] = minted /\ stripePrice[j] = NoPrice
      BY <1>1, <1>2, <2>1, NoPriceAssumption
    <3> QED BY <1>3, <2>1, <3>1 
  <2>2. CASE j # new /\ j = old /\ archived
    <3>1. stripePrice[j] # NoPrice
      BY <2>2, NoPriceAssumption
    <3>2. stripePrice'[j] = [stripePrice[j] EXCEPT !.active = FALSE]
      BY <2>2
    <3>3. /\ stripePrice'[j] \in StripePrice /\ ~stripePrice'[j].active
          /\ stripePrice'[j] # NoPrice /\ stripePrice'[j].amount = stripePrice[j].amount
      BY <1>4, <3>1, <3>2
    <3> QED BY <2>2, <3>3 DEF ActivePrices
  <2>3. CASE j # new /\ ~(j = old /\ archived)
    <3>1. stripePrice'[j] = stripePrice[j]
      BY <2>3
    <3> QED BY <2>3, <3>1 DEF ActivePrices, PriceTypeOK
  <2> QED BY <2>1, <2>2, <2>3
<1>6. stripePrice' \in [PriceIds -> StripePrice \cup {NoPrice}]
  <2>1. \A j \in PriceIds : stripePrice'[j] \in StripePrice \cup {NoPrice}
    BY <1>5
  <2>2. PICK f : f = stripePrice'
    OBVIOUS
  <2>3. f = [j \in PriceIds |-> f[j]]
    BY <2>2
  <2> QED BY <2>1, <2>2, <2>3
<1>7. PricesKept
  BY <1>5 DEF PricesKept
<1>8. ActivePrices' \subseteq ActivePrices \cup ({new} \ {NoPrice})
  <2>1. \A j \in ActivePrices' : j \in PriceIds /\ j # NoPrice
    BY NoPriceAssumption DEF ActivePrices
  <2> QED BY <1>5, <2>1
<1>9. archived => old \notin ActivePrices' \/ old = new
  <2>1. \A j \in ActivePrices' : j \in PriceIds
    BY DEF ActivePrices
  <2> QED BY <1>5, <2>1
<1>10. new # NoPrice => stripePrice'[new] = minted
  BY <1>1, <1>2
<1> QED BY <1>1, <1>3, <1>6, <1>7, <1>8, <1>9, <1>10

LEMMA ReplaceKeeps ==
  ASSUME PriceInv, NEW s \in PriceSlots, NEW d \in Periods, Replace(s, d)
  PROVE  PriceInv'
<1>0. PICK r : r = priceCall[s]
  OBVIOUS
<1>1. r.pc = "replace" /\ r.pc \in AtWork /\ d \in r.todo
  BY <1>0 DEF Replace, PriceAt, AtWork
<1>2. /\ s = priceLoad.admin /\ r \in Requests /\ RequestFits(r)
      /\ priceFault \cap ListMarks = {} => CallListed(r)
      /\ priceFault \cap StrayMarks = {} =>
           ActivePrices \subseteq Named(r.copy)
  BY <1>0, <1>1, WorkFacts
<1>3. PICK k : k = [r EXCEPT !.todo = @ \ {d}]
  OBVIOUS
<1>4. PICK new \in Newest, archived \in BOOLEAN, stripeTold \in BOOLEAN :
        /\ stripeTold => new # NoPrice
        /\ k.old[d] = NoPrice => archived
        /\ stripePrice' = [j \in PriceIds |->
             IF j = new THEN [amount |-> k.copy.price[d], active |-> TRUE]
             ELSE IF j = k.old[d] /\ archived
             THEN [stripePrice[j] EXCEPT !.active = FALSE]
             ELSE stripePrice[j]]
        /\ TryStripeSync(s, k, stripeTold, [k.copy EXCEPT !.id[d] = new])
        /\ UNCHANGED <<offer, offerCached, onSale, sold, priceLoad>>
        /\ BlamePrice(IF stripeTold /\ archived THEN {} ELSE {"failed"})
  BY <1>0, <1>3 DEF Replace
<1>5. /\ k \in Requests /\ k.copy = r.copy /\ k.old = r.old /\ k.boot = r.boot
      /\ k.todo = r.todo \ {d} /\ k.rename = r.rename
  BY <1>2, <1>3 DEF Requests
<1>6. /\ k.copy \in OfferRow /\ RowMade(k.copy) /\ ~k.copy.deleted /\ k.copy.product
      /\ offer = k.copy /\ k.copy.price[d] > 0 /\ k.old[d] = k.copy.id[d] /\ ~k.boot
      /\ \A e \in k.todo : k.copy.price[e] > 0 /\ k.old[e] = k.copy.id[e]
  BY <1>1, <1>2, <1>5 DEF RequestFits, RowMade
<1>7. /\ k.old[d] \in PriceIds \cup {NoPrice}
      /\ k.old[d] # NoPrice => stripePrice[k.old[d]] # NoPrice
      /\ k.copy.price[d] \in Amounts \ {0}
  <2>1. k.copy.price[d] \in Amounts /\ k.copy.price[d] # 0
    BY <1>6, PriceAssumption DEF OfferRow
  <2>2. k.copy.id[d] \in PriceIds \cup {NoPrice}
    BY <1>6 DEF OfferRow
  <2> QED BY <1>6, <2>1, <2>2 DEF RowMade
<1>8. PriceTypeOK
  BY DEF PriceInv, PriceMade
<1>15. PICK old, amount : old = k.old[d] /\ amount = k.copy.price[d]
  OBVIOUS
<1>9. /\ stripePrice' \in [PriceIds -> StripePrice \cup {NoPrice}] /\ PricesKept
      /\ new # NoPrice => /\ new \in PriceIds /\ stripePrice'[new] # NoPrice
                          /\ stripePrice'[new].amount = amount
      /\ ActivePrices' \subseteq ActivePrices \cup ({new} \ {NoPrice})
      /\ archived => old \notin ActivePrices' \/ old = new
  <2>2. stripePrice' = Replaced(new, old, archived, amount)
    BY <1>4, <1>15 DEF Replaced
  <2>3. /\ old \in PriceIds \cup {NoPrice} /\ amount \in Amounts \ {0}
        /\ old # NoPrice => stripePrice[old] # NoPrice
    BY <1>7, <1>15
  <2> QED BY <1>8, <2>2, <2>3, ReplacedPrices
<1>10. onSale' \in BOOLEAN /\ UNCHANGED <<offer, offerCached, sold, priceLoad>>
  BY <1>4, <1>8 DEF PriceTypeOK
<1>11. PICK marks : marks = IF stripeTold /\ archived THEN {} ELSE {"failed"}
  OBVIOUS
<1>12. marks \in SUBSET PriceFaults /\ BlamePrice(marks)
  BY <1>4, <1>11 DEF PriceFaults
<1>13. CASE stripeTold
  <2>1. PICK copy : copy = [k.copy EXCEPT !.id[d] = new]
    OBVIOUS
  <2>2. PICK k2 : k2 = [k EXCEPT !.copy = copy, !.pc = "saveIds"]
    OBVIOUS
  <2>3. Moved(s, k2, marks) /\ new \in PriceIds /\ new # NoPrice
    BY <1>4, <1>9, <1>12, <1>13, <2>1, <2>2 DEF TryStripeSync, StepPrice, Moved
  <2>4. /\ copy \in OfferRow /\ copy.product /\ ~copy.deleted
        /\ copy.price = k.copy.price
        /\ \A e \in Periods : copy.id[e] = IF e = d THEN new ELSE k.copy.id[e]
    BY <1>6, <2>1, <2>3 DEF OfferRow
  <2>5. /\ k2 \in Requests /\ k2.pc = "saveIds" /\ k2.copy = copy
        /\ k2.todo = k.todo /\ k2.boot = k.boot /\ k2.old = k.old
    BY <1>5, <2>2, <2>4 DEF Requests
  <2>6. k2.pc \in AtWork /\ k2 \in AnyCall
    BY <2>5, RequestIsCall DEF AtWork
  <2>7. RowMade(copy)'
    <3>1. d \in priceLoad.periods
      BY <1>6 DEF RowMade
    <3>2. RowMade(k.copy)'
      <4>1. PICK row : row = k.copy
        OBVIOUS
      <4> QED BY <1>6, <1>9, <1>10, <4>1, RowKept
    <3> QED BY <1>9, <1>10, <2>3, <2>4, <3>1, <3>2 DEF RowMade
  <2>8. RequestFits(k2)'
    <3>1. \A e \in k.todo : e # d /\ e \in Periods
      BY <1>2, <1>5 DEF Requests
    <3> QED BY <1>6, <2>4, <2>5, <2>7, <3>1 DEF RequestFits
  <2>9. CallOwns(k2)'
    BY <2>5, <2>8 DEF CallOwns, AtWork, Looking
  <2>10. Marked(marks) \cap ListMarks = {} => CallListed(k2)'
    <3> SUFFICES ASSUME Marked(marks) \cap ListMarks = {},
                        NEW e \in Periods \ k.todo
                 PROVE  Quoted(copy, e)'
      BY <2>5 DEF CallListed
    <3>1. CASE e = d
      BY <1>9, <1>15, <2>3, <2>4, <3>1 DEF Quoted
    <3>2. CASE e # d
      <4>1. Quoted(k.copy, e)
        BY <1>2, <1>5, <3>2 DEF CallListed, Marked
      <4>2. Quoted(k.copy, e)'
        BY <1>6, <1>9, <4>1, QuotedKept
      <4> QED BY <2>4, <3>2, <4>2 DEF Quoted
    <3> QED BY <3>1, <3>2
  <2>11. Marked(marks) \cap StrayMarks = {} =>
           ActivePrices' \subseteq Named(k2.copy)
    <3> SUFFICES ASSUME Marked(marks) \cap StrayMarks = {},
                        NEW i \in ActivePrices'
                 PROVE  i \in Named(copy)
      BY <2>5
    <3>1. archived
      BY <1>11 DEF Marked, StrayMarks
    <3>2. ActivePrices \subseteq Named(k.copy)
      BY <1>2, <1>5 DEF Marked
    <3>3. CASE i = new
      BY <2>4, <3>3 DEF Named
    <3>4. CASE i # new
      <4>1. i \in Named(k.copy) /\ i # k.old[d]
        BY <1>9, <1>15, <3>1, <3>2, <3>4
      <4> QED BY <1>6, <2>4, <4>1 DEF Named
    <3> QED BY <3>3, <3>4
  <2>12. RowMade(offer)'
    BY <1>9, <1>10, RowsKept
  <2> QED
    BY <1>2, <1>9, <1>10, <1>12, <2>3, <2>5, <2>6, <2>9, <2>10, <2>11, <2>12, RunningStep
<1>14. CASE ~stripeTold
  <2>1. Moved(s, NextCall(k), marks)
    BY <1>4, <1>12, <1>14 DEF TryStripeSync, StepPrice, Moved
  <2>2. Marked(marks) \cap ListMarks # {} /\ Marked(marks) \cap StrayMarks # {}
    BY <1>11, <1>14 DEF Marked, ListMarks, StrayMarks
  <2> QED BY <1>2, <1>5, <1>6, <1>9, <1>10, <1>12, <2>1, <2>2, GoesOn
<1> QED BY <1>13, <1>14

(* A product is made when nothing is on its way and nothing is left of an   *)
(* earlier one.                                                             *)
LEMMA MakeFacts ==
  ASSUME PriceInv, NEW s \in PriceSlots, s = priceLoad.admin, NEW q \in Quotes,
         NEW row, NEW k, MakeOffer(s, row, k)
  PROVE  /\ offer' = row /\ sold' = NoPrice /\ UNCHANGED <<offerCached, priceLoad>>
         /\ priceCall' = [priceCall EXCEPT ![s] = k]
         /\ q \in [Periods -> Amounts]
         /\ \A d \in Periods \ priceLoad.periods : q[d] = 0
         /\ priceFault \cap StrayMarks = {} => ActivePrices = {}
<1>1. /\ offer' = row /\ sold' = NoPrice /\ UNCHANGED <<offerCached, priceLoad>>
      /\ priceCall' = [priceCall EXCEPT ![s] = k]
      /\ priceCall[s] = NoPriceCall /\ offer = Unmade
  BY DEF MakeOffer, BeginPrice
<1>2. q \in [Periods -> Amounts] /\ \A d \in Periods \ priceLoad.periods : q[d] = 0
  BY DEF Quotes
<1>3. priceCall[s].pc \notin AtWork
  BY <1>1, IdleCall DEF AtWork
<1>4. Named(offer) \subseteq {NoPrice}
  BY <1>1 DEF Named, Unmade, NoIds
<1>5. priceFault \cap StrayMarks = {} => ActivePrices = {}
  BY <1>3, <1>4, RestFacts, NoPriceAssumption DEF ActivePrices
<1> QED BY <1>1, <1>2, <1>5

LEMMA CreateOfferKeeps ==
  ASSUME PriceInv, NEW s \in PriceSlots, s = priceLoad.admin, NEW q \in Quotes,
         CreateOffer(s, q)
  PROVE  PriceInv'
<1>1. PICK row : row = [price |-> q, product |-> FALSE, id |-> NoIds, deleted |-> FALSE]
  OBVIOUS
<1>2. PICK k : k = IF Priced(row) # {}
                   THEN [pc |-> "bootstrap", todo |-> {}, boot |-> TRUE, rename |-> FALSE,
                         old |-> NoIds, ends |-> "reread", copy |-> row]
                   ELSE [pc |-> "reread", reads |-> TRUE]
  OBVIOUS
<1>3. MakeOffer(s, row, k) /\ UNCHANGED <<stripePrice, onSale>> /\ BlamePrice({})
  BY <1>1, <1>2 DEF CreateOffer, KeepPrices
<1>4. /\ offer' = row /\ sold' = NoPrice /\ UNCHANGED <<offerCached, priceLoad>>
      /\ priceCall' = [priceCall EXCEPT ![s] = k]
      /\ q \in [Periods -> Amounts]
      /\ \A d \in Periods \ priceLoad.periods : q[d] = 0
      /\ priceFault \cap StrayMarks = {} => ActivePrices = {}
  BY <1>3, MakeFacts
<1>5. /\ row \in OfferRow /\ row.price = q /\ ~row.product /\ row.id = NoIds
      /\ ~row.deleted
  BY <1>1, <1>4 DEF OfferRow, NoIds
<1>6. RowMade(row)' /\ RowMade(offer)'
  BY <1>4, <1>5 DEF RowMade, NoIds
<1>7. CopyListed(row)' /\ CopyListed(offer)'
  BY <1>4, <1>5 DEF CopyListed, Quoted, NoIds
<1>8. /\ k \in Requests \cup Endings
      /\ k.pc \in AtWork \cup {"archive", "drop", "reread"} /\ CallOwns(k)'
      /\ k.pc \in AtWork => k.copy = row
  <2>1. CASE Priced(row) # {}
    <3>1. k = [pc |-> "bootstrap", todo |-> {}, boot |-> TRUE, rename |-> FALSE,
               old |-> NoIds, ends |-> "reread", copy |-> row]
      BY <1>2, <2>1
    <3>2. /\ k.pc = "bootstrap" /\ k.todo = {} /\ k.boot /\ k.copy = row
          /\ k \in Requests
      BY <1>5, <3>1 DEF Requests, NoIds
    <3>3. RequestFits(k)'
      BY <1>4, <1>5, <1>6, <3>2 DEF RequestFits
    <3> QED BY <3>2, <3>3 DEF CallOwns, AtWork, Looking
  <2>2. CASE Priced(row) = {}
    BY <1>2, <1>4, <1>5, <2>2 DEF Endings, AtWork, Looking, CallOwns
  <2> QED BY <2>1, <2>2
<1>9. Moved(s, k, {}) /\ k \in AnyCall
  BY <1>3, <1>4, <1>8, RequestIsCall DEF Moved
<1>10. /\ PricesKept /\ ActivePrices' = ActivePrices /\ onSale' \in BOOLEAN
       /\ {} \in SUBSET PriceFaults
       /\ stripePrice' \in [PriceIds -> StripePrice \cup {NoPrice}]
  BY <1>3, LeftAlone
<1>11. k.pc \in AtWork => CallListed(k)'
  BY <1>7, <1>8 DEF CallListed, CopyListed
<1>12. Marked({}) \cap StrayMarks = {} => ActivePrices' = {}
  BY <1>4, <1>10 DEF Marked
<1> QED BY <1>4, <1>6, <1>7, <1>8, <1>9, <1>10, <1>11, <1>12, RunningStep

LEMMA ImportOfferKeeps ==
  ASSUME PriceInv, NEW s \in PriceSlots, s = priceLoad.admin, NEW q \in Quotes,
         ImportOffer(s, q)
  PROVE  PriceInv'
<1>1. PICK named \in SUBSET priceLoad.periods, amount \in Amounts \ {0} :
        \E ids \in NewIds(named) :
          /\ MakeOffer(s, [price |-> q, product |-> TRUE, deleted |-> FALSE,
                           id |-> [d \in Periods |-> IF d \in named THEN ids[d]
                                                     ELSE NoPrice]],
                       [pc |-> "reread", reads |-> TRUE])
          /\ stripePrice' = [j \in PriceIds |->
               IF j \in Range(ids) THEN [amount |-> amount, active |-> TRUE]
               ELSE stripePrice[j]]
  BY DEF ImportOffer
<1>2. PICK ids \in NewIds(named) :
          /\ MakeOffer(s, [price |-> q, product |-> TRUE, deleted |-> FALSE,
                           id |-> [d \in Periods |-> IF d \in named THEN ids[d]
                                                     ELSE NoPrice]],
                       [pc |-> "reread", reads |-> TRUE])
          /\ stripePrice' = [j \in PriceIds |->
               IF j \in Range(ids) THEN [amount |-> amount, active |-> TRUE]
               ELSE stripePrice[j]]
  BY <1>1
<1>3. PICK row : row = [price |-> q, product |-> TRUE, deleted |-> FALSE,
                        id |-> [d \in Periods |-> IF d \in named THEN ids[d]
                                                  ELSE NoPrice]]
  OBVIOUS
<1>4. PICK k : k = [pc |-> "reread", reads |-> TRUE]
  OBVIOUS
<1>5. MakeOffer(s, row, k) /\ onSale' = TRUE /\ BlamePrice({"imported"})
  BY <1>2, <1>3, <1>4 DEF ImportOffer
<1>6. /\ offer' = row /\ sold' = NoPrice /\ UNCHANGED <<offerCached, priceLoad>>
      /\ priceCall' = [priceCall EXCEPT ![s] = k]
      /\ q \in [Periods -> Amounts]
      /\ \A d \in Periods \ priceLoad.periods : q[d] = 0
      /\ priceFault \cap StrayMarks = {} => ActivePrices = {}
  BY <1>5, MakeFacts
<1>7. PriceTypeOK /\ priceLoad.periods \subseteq Periods /\ named \subseteq Periods
  BY LoadMade DEF PriceInv, PriceMade
(* The Prices at Stripe are those of a product with that amount.            *)
<1>8. PICK theirs : theirs = [price |-> [d \in Periods |-> IF d \in named THEN amount ELSE 0],
                              product |-> TRUE, id |-> NoIds, deleted |-> FALSE]
  OBVIOUS
<1>9. /\ theirs \in OfferRow /\ named \subseteq Priced(theirs)
      /\ \A d \in named : theirs.price[d] = amount
  <2>1. /\ theirs.price = [d \in Periods |-> IF d \in named THEN amount ELSE 0]
        /\ theirs.price \in [Periods -> Amounts]
    BY <1>8, PriceAssumption
  <2>2. theirs \in OfferRow
    BY <1>8, <2>1 DEF OfferRow, NoIds
  <2>3. amount \in Nat /\ amount > 0
    BY PriceAssumption
  <2> QED BY <1>7, <2>1, <2>2, <2>3 DEF Priced
<1>10. stripePrice' = Created(theirs, ids)
  <2>1. /\ ids \in [named -> Unpriced] /\ DOMAIN ids = named
        /\ Range(ids) = {ids[d] : d \in named}
    BY DEF NewIds, Range
  <2>2. ASSUME NEW j \in Range(ids)
        PROVE  theirs.price[CHOOSE d \in DOMAIN ids : ids[d] = j] = amount
    BY <1>9, <2>1
  <2> QED BY <1>2, <2>2 DEF Created
<1>11. /\ stripePrice' \in [PriceIds -> StripePrice \cup {NoPrice}] /\ PricesKept
       /\ \A d \in named : ids[d] \in PriceIds /\ stripePrice'[ids[d]] # NoPrice
       /\ ActivePrices' \subseteq ActivePrices \cup {ids[d] : d \in named}
  BY <1>7, <1>9, <1>10, CreatedPrices
<1>12. /\ row \in OfferRow /\ row.price = q /\ row.product /\ ~row.deleted
       /\ \A d \in Periods : row.id[d] = IF d \in named THEN ids[d] ELSE NoPrice
  BY <1>3, <1>6, <1>11 DEF OfferRow
<1>13. RowMade(offer)'
  BY <1>6, <1>7, <1>11, <1>12 DEF RowMade
<1>14. /\ k \in Endings /\ k.pc = "reread" /\ k.reads /\ k.pc \notin AtWork
       /\ k.pc \notin Looking
  BY <1>4 DEF Endings, AtWork, Looking
<1>15. CallOwns(k)' /\ k \in AnyCall
  BY <1>6, <1>12, <1>14, RequestIsCall DEF CallOwns
<1>16. Moved(s, k, {"imported"}) /\ {"imported"} \in SUBSET PriceFaults
  BY <1>5, <1>6 DEF Moved, PriceFaults
<1>17. Marked({"imported"}) \cap ListMarks # {}
  BY DEF Marked, ListMarks
<1>18. Marked({"imported"}) \cap StrayMarks = {} => ActivePrices' \subseteq Named(offer')
  <2>1. {ids[d] : d \in named} \subseteq Named(row)
    BY <1>7, <1>12 DEF Named
  <2> QED BY <1>6, <1>11, <2>1 DEF Marked
<1> QED BY <1>5, <1>6, <1>11, <1>13, <1>14, <1>15, <1>16, <1>17, <1>18, RunningStep

LEMMA UpdateOfferKeeps ==
  ASSUME PriceInv, NEW s \in PriceSlots, s = priceLoad.admin, NEW q \in Quotes,
         NEW rename \in BOOLEAN, UpdateOffer(s, q, rename)
  PROVE  PriceInv'
<1>0. PICK r : r = priceCall[s]
  OBVIOUS
<1>1. PICK row : row = r.copy
  OBVIOUS
<1>2. PICK copy : copy = [row EXCEPT !.price = q]
  OBVIOUS
<1>3. PICK marks : marks = {f \in {"emptied", "stale"} :
              IF f = "emptied" THEN \E d \in Periods : q[d] = 0 /\ row.price[d] > 0
              ELSE row # offer}
  OBVIOUS
<1>4. PICK boot, todo : /\ boot = (~row.product /\ \E d \in Periods : q[d] > 0)
                        /\ todo = IF row.product THEN Changed(row, q) ELSE {}
  OBVIOUS
<1>5. PICK k : k = [pc |-> "save", copy |-> copy, boot |-> boot,
                    rename |-> rename /\ row.product, todo |-> todo, old |-> row.id,
                    ends |-> "drop"]
  OBVIOUS
<1>6. /\ r.pc = "found" /\ Moved(s, k, marks)
      /\ UNCHANGED <<offer, offerCached, sold, priceLoad, stripePrice, onSale>>
  BY <1>0, <1>1, <1>2, <1>3, <1>4, <1>5 DEF UpdateOffer, PriceAt, StepPrice, KeepPrices, Moved
<1>7. /\ RowMade(row) /\ ~row.deleted /\ row \in OfferRow /\ r.pc \notin AtWork
      /\ priceFault \cap ListMarks = {} => CopyListed(row)
  BY <1>0, <1>1, <1>6, LookingFacts DEF Looking, RowMade
<1>8. /\ q \in [Periods -> Amounts]
      /\ \A d \in Periods \ priceLoad.periods : q[d] = 0
  BY DEF Quotes
<1>9. /\ copy \in OfferRow /\ copy.price = q /\ copy.product = row.product
      /\ copy.id = row.id /\ copy.deleted = row.deleted
  BY <1>2, <1>7, <1>8 DEF OfferRow
<1>10. /\ k.pc = "save" /\ k.copy = copy /\ k.boot = boot /\ k.todo = todo
       /\ k.old = row.id /\ k \in Requests
  <2>1. boot \in BOOLEAN /\ todo \in SUBSET Periods
    BY <1>4 DEF Changed
  <2>2. row.id \in [Periods -> PriceIds \cup {NoPrice}] /\ (rename /\ row.product) \in BOOLEAN
    BY <1>7 DEF OfferRow
  <2> QED BY <1>5, <1>9, <2>1, <2>2 DEF Requests
<1>11. /\ k.pc \in AtWork /\ k \in AnyCall /\ marks \in SUBSET PriceFaults
  BY <1>3, <1>10, RequestIsCall DEF AtWork, PriceFaults
<1>12. /\ PricesKept /\ ActivePrices' = ActivePrices /\ onSale' \in BOOLEAN
       /\ stripePrice' \in [PriceIds -> StripePrice \cup {NoPrice}]
  BY <1>6, LeftAlone
<1>13. RowMade(row)' /\ RowMade(offer)' /\ RowMade(copy)'
  <2>1. RowMade(row)' /\ RowMade(offer)'
    BY <1>6, <1>7, <1>12, RowKept, RowsKept
  <2> QED BY <1>6, <1>8, <1>9, <2>1 DEF RowMade
<1>14. CallOwns(k)'
  <2>1. RequestFits(k)'
    BY <1>4, <1>7, <1>9, <1>10, <1>13 DEF RequestFits, Changed
  <2> QED BY <1>10, <2>1 DEF CallOwns, AtWork, Looking
<1>15. Marked(marks) \cap ListMarks = {} => CallListed(k)'
  <2> SUFFICES ASSUME Marked(marks) \cap ListMarks = {}, NEW d \in Periods \ todo
               PROVE  Quoted(copy, d)'
    BY <1>10 DEF CallListed
  <2>1. Quoted(row, d)
    BY <1>7 DEF CopyListed, Marked
  <2>2. CASE ~row.product
    BY <1>7, <1>9, <2>2 DEF RowMade, NoIds, Quoted
  <2>3. CASE row.product
    <3>1. q[d] \in Nat /\ row.price[d] \in Nat
      BY <1>7, <1>8, PriceAssumption DEF OfferRow
    <3>2. "emptied" \notin marks
      BY DEF Marked, ListMarks
    <3>3. ~(q[d] = 0 /\ row.price[d] > 0)
      BY <1>3, <3>2
    <3>4. q[d] = row.price[d]
      BY <1>4, <2>3, <3>1, <3>3 DEF Changed
    <3> QED BY <1>6, <1>9, <2>1, <3>4 DEF Quoted
  <2> QED BY <2>2, <2>3
<1>16. Marked(marks) \cap StrayMarks = {} => ActivePrices' \subseteq Named(k.copy)
  <2> SUFFICES ASSUME Marked(marks) \cap StrayMarks = {}
               PROVE  ActivePrices' \subseteq Named(k.copy)
    OBVIOUS
  <2>1. "stale" \notin marks
    BY DEF Marked, StrayMarks
  <2>2. row = offer
    BY <1>3, <2>1
  <2>3. ActivePrices \subseteq Named(offer)
    BY <1>0, <1>7, RestFacts DEF Marked
  <2> QED BY <1>9, <1>10, <1>12, <2>2, <2>3 DEF Named
<1> QED BY <1>6, <1>11, <1>12, <1>13, <1>14, <1>15, <1>16, RunningStep

(* The end of a request, which nothing but the deletion flag and the copy   *)
(* of the product is in for.                                                *)
LEMMA EndingStep ==
  ASSUME PriceInv, NEW s \in PriceSlots, s = priceLoad.admin,
         priceCall[s].pc \notin AtWork,
         NEW k \in Endings, NEW marks \in SUBSET PriceFaults, Moved(s, k, marks),
         k.pc = "reread" => k.reads, k.reads => ~offer'.deleted,
         UNCHANGED stripePrice, onSale' \in BOOLEAN,
         sold' \in {sold, NoPrice}, offerCached' \in {offerCached, NoPrice},
         \E b \in BOOLEAN : offer' = [offer EXCEPT !.deleted = b]
  PROVE  PriceInv'
<1>1. /\ k.pc \in {"archive", "drop", "reread"} /\ k.pc \notin AtWork /\ k.pc \notin Looking
      /\ k \in AnyCall
  BY RequestIsCall DEF Endings, AtWork, Looking
<1>2. /\ PricesKept /\ ActivePrices' = ActivePrices
      /\ stripePrice' \in [PriceIds -> StripePrice \cup {NoPrice}]
  BY LeftAlone
<1>3. offer \in OfferRow /\ RowMade(offer) /\ priceLoad' = priceLoad
  BY DEF PriceInv, PriceMade, RowMade, Moved
<1>4. /\ offer' \in OfferRow /\ offer'.price = offer.price /\ offer'.id = offer.id
      /\ offer'.product = offer.product
  BY <1>3 DEF OfferRow
<1>5. RowMade(offer)'
  BY <1>3, <1>4 DEF RowMade
<1>6. CallOwns(k)'
  BY <1>1 DEF CallOwns
<1>7. Marked(marks) \cap ListMarks = {} => CopyListed(offer)'
  <2>1. Marked(marks) \cap ListMarks = {} => CopyListed(offer)
    BY RestFacts DEF Marked
  <2> QED BY <1>4, <2>1 DEF CopyListed, Quoted
<1>8. Marked(marks) \cap StrayMarks = {} => ActivePrices' \subseteq Named(offer')
  <2>1. Named(offer') = Named(offer)
    BY <1>4 DEF Named
  <2> QED BY <1>2, <2>1, RestFacts DEF Marked
<1> QED BY <1>1, <1>2, <1>5, <1>6, <1>7, <1>8, RunningStep

LEMMA SameRow ==
  ASSUME PriceInv, offer' = offer
  PROVE  \E b \in BOOLEAN : offer' = [offer EXCEPT !.deleted = b]
<1>1. offer \in OfferRow
  BY DEF PriceInv, PriceMade, RowMade
<1>2. offer.deleted \in BOOLEAN /\ offer = [offer EXCEPT !.deleted = offer.deleted]
  BY <1>1 DEF OfferRow
<1> QED BY <1>2

LEMMA DeleteOfferKeeps ==
  ASSUME PriceInv, NEW s \in PriceSlots, s = priceLoad.admin, DeleteOffer(s)
  PROVE  PriceInv'
<1>1. PICK k : k = [pc |-> IF offer.product THEN "archive" ELSE "drop", reads |-> FALSE]
  OBVIOUS
<1>2. /\ priceCall[s] = NoPriceCall /\ Moved(s, k, {})
      /\ offer' = [offer EXCEPT !.deleted = TRUE] /\ sold' = NoPrice
      /\ UNCHANGED <<offerCached, stripePrice, onSale>>
  BY <1>1 DEF DeleteOffer, BeginPrice, KeepPrices, Moved
<1>3. k \in Endings /\ ~k.reads /\ k.pc # "reread" /\ priceCall[s].pc \notin AtWork
  BY <1>1, <1>2, IdleCall DEF Endings, AtWork
<1>4. onSale' \in BOOLEAN /\ {} \in SUBSET PriceFaults
  BY <1>2, LeftAlone
<1> QED BY <1>2, <1>3, <1>4, EndingStep

(* A request at its end.                                                    *)
LEMMA EndFacts ==
  ASSUME PriceInv, NEW s \in PriceSlots, priceCall[s].pc \in {"archive", "drop", "reread"}
  PROVE  /\ s = priceLoad.admin /\ priceCall[s] \in Endings /\ CallOwns(priceCall[s])
         /\ priceCall[s].pc \notin AtWork
<1>1. priceCall[s] \in Endings /\ CallOwns(priceCall[s])
  BY CallsTyped, CallKinds DEF PriceInv, PriceMade
<1> QED BY <1>1 DEF PriceInv, PriceMade, Buying, Looking, AtWork

LEMMA ArchiveProductKeeps ==
  ASSUME PriceInv, NEW s \in PriceSlots, ArchiveProduct(s)
  PROVE  PriceInv'
<1>1. PICK done \in BOOLEAN :
        /\ priceCall[s].pc = "archive"
        /\ onSale' = (onSale /\ ~done)
        /\ Moved(s, [pc |-> "drop", reads |-> FALSE], IF done THEN {} ELSE {"failed"})
        /\ UNCHANGED <<offer, offerCached, stripePrice, sold, priceLoad>>
  BY DEF ArchiveProduct, PriceAt, StepPrice, Moved
<1>2. PICK k, marks : /\ k = [pc |-> "drop", reads |-> FALSE]
                      /\ marks = IF done THEN {} ELSE {"failed"}
  OBVIOUS
<1>3. k \in Endings /\ ~k.reads /\ k.pc # "reread" /\ marks \in SUBSET PriceFaults
  BY <1>2 DEF Endings, PriceFaults
<1>4. s = priceLoad.admin /\ priceCall[s].pc \notin AtWork /\ onSale' \in BOOLEAN
  BY <1>1, EndFacts DEF PriceInv, PriceMade, PriceTypeOK
<1> QED BY <1>1, <1>2, <1>3, <1>4, SameRow, EndingStep

LEMMA DropOfferKeeps ==
  ASSUME PriceInv, NEW s \in PriceSlots, DropOffer(s)
  PROVE  PriceInv'
<1>1. PICK r : r = priceCall[s]
  OBVIOUS
<1>2. /\ r.pc = "drop" /\ offerCached' = NoPrice
      /\ Moved(s, IF r.reads THEN [r EXCEPT !.pc = "reread"] ELSE NoPriceCall, {})
      /\ UNCHANGED <<offer, sold, priceLoad, stripePrice, onSale>>
  BY <1>1 DEF DropOffer, PriceAt, StepPrice, KeepPrices, Moved
<1>3. s = priceLoad.admin /\ r \in Endings /\ CallOwns(r) /\ r.pc \notin AtWork
  BY <1>1, <1>2, EndFacts
<1>4. /\ onSale' \in BOOLEAN /\ {} \in SUBSET PriceFaults
      /\ sold' \in Sale \cup {NoPrice} /\ SalesFit'
  BY <1>2, LeftAlone
<1>5. CASE r.reads
  <2>1. PICK k : k = [r EXCEPT !.pc = "reread"]
    OBVIOUS
  <2>2. k \in Endings /\ k.reads /\ ~offer.deleted
    BY <1>2, <1>3, <1>5, <2>1 DEF Endings, CallOwns
  <2> QED BY <1>1, <1>2, <1>3, <1>4, <1>5, <2>1, <2>2, SameRow, EndingStep
<1>6. CASE ~r.reads
  <2>1. NoPriceCall \in AnyCall /\ NoPriceCall.pc = "idle"
    BY IdleCall
  <2> HIDE DEF NoPriceCall
  <2>2. /\ CallOwns(NoPriceCall) /\ CallTold(NoPriceCall) /\ ~CallGone(NoPriceCall)
        /\ NoPriceCall.pc \notin AtWork
    BY <2>1 DEF CallOwns, CallTold, CallGone, AtWork, Looking
  <2> QED BY <1>1, <1>2, <1>3, <1>4, <1>6, <2>1, <2>2, QuietMove
<1> QED BY <1>5, <1>6

LEMMA RereadOfferKeeps ==
  ASSUME PriceInv, NEW s \in PriceSlots, RereadOffer(s)
  PROVE  PriceInv'
<1>1. PICK k : k = IF offerCached # NoPrice \/ offer.deleted THEN NoPriceCall
                   ELSE [pc |-> "fill", copy |-> offer, gone |-> FALSE, then |-> "answer"]
  OBVIOUS
<1>2. /\ priceCall[s].pc = "reread" /\ Moved(s, k, {})
      /\ UNCHANGED <<offer, offerCached, sold, priceLoad, stripePrice, onSale>>
  BY <1>1 DEF RereadOffer, PriceAt, StepPrice, KeepPrices, Moved
<1>3. s = priceLoad.admin /\ priceCall[s].pc \notin AtWork
  BY <1>2, EndFacts
<1>4. /\ onSale' \in BOOLEAN /\ {} \in SUBSET PriceFaults
      /\ sold' \in Sale \cup {NoPrice} /\ SalesFit'
  BY <1>2, LeftAlone
<1>5. CASE k = NoPriceCall
  BY <1>2, <1>4, <1>5, QuietEnds
<1>6. CASE k # NoPriceCall
  <2>1. /\ k = [pc |-> "fill", copy |-> offer, gone |-> FALSE, then |-> "answer"]
        /\ offerCached = NoPrice /\ ~offer.deleted
    BY <1>1, <1>6
  <2>2. RowMade(offer) /\ offer \in OfferRow
    BY DEF PriceInv, PriceMade, RowMade
  <2>3. /\ k \in Finds /\ k.pc = "fill" /\ k.copy = offer /\ ~k.gone
    BY <2>1, <2>2 DEF Finds
  <2>4. k \in AnyCall
    BY <2>3, RequestIsCall
  <2>5. CallOwns(k) /\ k.pc \notin AtWork /\ ~CallGone(k)
    BY <2>1, <2>2, <2>3 DEF CallOwns, CallGone, AtWork, Looking
  <2>6. Marked({}) \cap ListMarks = {} => CallTold(k)
    <3>1. Marked({}) \cap ListMarks = {} => CopyListed(offer)
      BY <1>3, RestFacts DEF Marked
    <3> QED BY <2>3, <3>1 DEF CallTold, AtWork, Looking
  <2> QED BY <1>2, <1>3, <1>4, <2>1, <2>4, <2>5, <2>6, QuietMove
<1> QED BY <1>5, <1>6

-----------------------------------------------------------------------------
(* What cuts the row and its copies apart.                                  *)

LEMMA BulkDeleteOfferKeeps ==
  ASSUME PriceInv, NEW s \in PriceSlots, s = priceLoad.admin, BulkDeleteOffer(s)
  PROVE  PriceInv'
<1>1. /\ priceCall[s] = NoPriceCall /\ offer' = [offer EXCEPT !.deleted = TRUE]
      /\ sold' = NoPrice /\ BlamePrice({"kept"})
      /\ UNCHANGED <<offerCached, priceCall, priceLoad, stripePrice, onSale>>
  BY DEF BulkDeleteOffer, KeepPrices
<1>2. PICK k : k = NoPriceCall
  OBVIOUS
<1>3. k \in AnyCall /\ k.pc = "idle" /\ priceCall[s] = k
  BY <1>1, <1>2, IdleCall
<1>4. Moved(s, k, {"kept"})
  <2>1. priceCall \in [PriceSlots -> AnyCall]
    BY CallsTyped DEF PriceInv, PriceMade
  <2>2. priceCall' = [priceCall EXCEPT ![s] = k]
    BY <1>1, <1>3, <2>1
  <2> QED BY <1>1, <2>2 DEF Moved
<1>5. /\ k.pc \notin AtWork /\ k.pc \in Buying /\ ~CallGone(k) /\ CallOwns(k)' /\ CallTold(k)'
  BY <1>3 DEF AtWork, Looking, Buying, CallGone, CallOwns, CallTold
<1>6. /\ PricesKept /\ ActivePrices' = ActivePrices /\ onSale' \in BOOLEAN
      /\ stripePrice' \in [PriceIds -> StripePrice \cup {NoPrice}]
      /\ sold' \in Sale \cup {NoPrice} /\ SalesFit'
  BY <1>1, LeftAlone
<1>7. offer \in OfferRow /\ RowMade(offer)
  BY DEF PriceInv, PriceMade, RowMade
<1>8. /\ offer' \in OfferRow /\ offer'.price = offer.price /\ offer'.id = offer.id
      /\ offer'.product = offer.product
  BY <1>1, <1>7 DEF OfferRow
<1>9. RowMade(offer)'
  BY <1>1, <1>7, <1>8 DEF RowMade
<1>10. offerCached' # NoPrice => RowMade(offerCached)' /\ ~offerCached'.deleted
  BY <1>1, <1>6, RowsKept
<1>11. Marked({"kept"}) \cap ListMarks = {} =>
         CopyListed(offer)' /\ (offerCached' # NoPrice => CopyListed(offerCached)')
  <2> SUFFICES ASSUME Marked({"kept"}) \cap ListMarks = {}
               PROVE  CopyListed(offer)' /\ (offerCached' # NoPrice => CopyListed(offerCached)')
    OBVIOUS
  <2>1. CopyListed(offer) /\ (offerCached # NoPrice => CopyListed(offerCached))
    BY <1>3, <1>5, RestFacts DEF PriceInv, ListedFits, Marked
  <2> QED BY <1>1, <1>8, <2>1 DEF CopyListed, Quoted
<1>12. Marked({"kept"}) \cap StrayMarks = {} => ActivePrices' \subseteq Named(offer')
  <2>1. Named(offer') = Named(offer)
    BY <1>8 DEF Named
  <2> QED BY <1>3, <1>5, <1>6, <2>1, RestFacts DEF Marked
<1>13. "kept" \in Marked({"kept"}) /\ {"kept"} \in SUBSET PriceFaults
  BY DEF Marked, PriceFaults
<1> QED
  BY <1>3, <1>4, <1>5, <1>6, <1>9, <1>10, <1>11, <1>12, <1>13, OneMoves

LEMMA PriceStopsKeeps ==
  ASSUME PriceInv, NEW s \in PriceSlots, PriceStops(s)
  PROVE  PriceInv'
<1>1. PICK marks : marks = IF priceCall[s].pc \in {"fill", "found", "subscribe"} THEN {}
                           ELSE {"stopped"}
  OBVIOUS
<1>2. /\ Moved(s, NoPriceCall, marks) /\ priceCall[s] # NoPriceCall
      /\ UNCHANGED <<offer, offerCached, sold, priceLoad, stripePrice, onSale>>
  BY <1>1 DEF PriceStops, EndPrice, KeepPrices, Moved
<1>3. /\ PricesKept /\ ActivePrices' = ActivePrices /\ onSale' \in BOOLEAN
      /\ stripePrice' \in [PriceIds -> StripePrice \cup {NoPrice}]
      /\ sold' \in Sale \cup {NoPrice} /\ SalesFit'
  BY <1>2, LeftAlone
<1>4. CASE priceCall[s].pc \in {"fill", "found", "subscribe"}
  BY <1>1, <1>2, <1>3, <1>4, QuietEnds DEF Buying, Looking
<1>5. CASE priceCall[s].pc \notin {"fill", "found", "subscribe"}
  <2>1. NoPriceCall \in AnyCall /\ NoPriceCall.pc = "idle"
    BY IdleCall
  <2>2. priceCall[s] \in AnyCall
    BY CallsTyped DEF PriceInv, PriceMade
  <2>3. s = priceLoad.admin
    BY <1>2, <1>5, <2>2, CallKinds DEF PriceInv, PriceMade, Buying, Looking
  <2> HIDE DEF NoPriceCall
  <2>4. /\ CallOwns(NoPriceCall)' /\ ~CallGone(NoPriceCall)
        /\ NoPriceCall.pc \notin AtWork
    BY <2>1 DEF CallOwns, CallGone, AtWork, Looking
  <2>5. /\ marks \in SUBSET PriceFaults /\ Marked(marks) \cap ListMarks # {}
        /\ Marked(marks) \cap StrayMarks # {}
        /\ Marked(marks) \cap {"kept", "late", "stopped"} # {}
    BY <1>1, <1>5 DEF Marked, ListMarks, StrayMarks, PriceFaults
  <2>6. RowMade(offer)' /\ (offerCached' # NoPrice => RowMade(offerCached)' /\ ~offerCached'.deleted)
    BY <1>2, <1>3, RowsKept
  <2> QED BY <1>2, <1>3, <2>1, <2>3, <2>4, <2>5, <2>6, OneMoves
<1> QED BY <1>4, <1>5

-----------------------------------------------------------------------------
LEMMA PriceInvInit == PriceInit => PriceInv
<1> SUFFICES ASSUME PriceInit PROVE PriceInv
  OBVIOUS
<1>1. \A s \in PriceSlots : priceCall[s] = NoPriceCall
  BY DEF PriceInit
<1>2. NoPriceCall.pc = "idle"
  BY DEF NoPriceCall
<1>3. offer = Unmade /\ offerCached = NoPrice /\ sold = NoPrice
  BY DEF PriceInit
<1>4. Unmade \in OfferRow
  BY PriceAssumption DEF Unmade, OfferRow, Zero, NoIds
<1>5. PriceTypeOK
  <2>1. priceCall \in [PriceSlots -> Requests \cup Endings \cup Finds
                                       \cup Purchases \cup {NoPriceCall}]
    <3> HIDE DEF Requests, Endings, Finds, Purchases, NoPriceCall
    <3> QED BY DEF PriceInit
  <2> QED BY <1>3, <1>4, <2>1 DEF PriceInit, PriceTypeOK
<1>6. RowMade(offer)
  BY <1>3, <1>4 DEF RowMade, Unmade, Zero, NoIds
<1>7. PriceMade
  BY <1>1, <1>2, <1>3, <1>5, <1>6 DEF PriceMade, CallOwns, AtWork, Looking, Buying
<1>8. DeletedFits /\ SalesFit
  BY <1>1, <1>2, <1>3
     DEF DeletedFits, CallGone, Looking, SalesFit, SoldAsListed, DeletedIsNotSold
<1>9. CopyListed(offer)
  BY <1>3 DEF CopyListed, Quoted, Unmade, NoIds
<1>10. ActivePrices = {}
  BY DEF PriceInit, ActivePrices
<1> QED
  BY <1>1, <1>2, <1>3, <1>7, <1>8, <1>9, <1>10
     DEF PriceInv, ListedFits, StraysFit, CallTold, AtWork, Looking

(* Every step of the catalog, of Stripe and of a buyer keeps the invariant. *)
LEMMA PriceInvKept == PriceInv /\ [PriceNext]_priceVars => PriceInv'
<1> SUFFICES ASSUME PriceInv, [PriceNext]_priceVars
             PROVE  PriceInv'
  OBVIOUS
<1>1. /\ priceLoad.admin \in PriceSlots /\ priceLoad.buyer \in PriceSlots
      /\ priceLoad.periods \subseteq Periods
  BY LoadMade DEF PriceInv, PriceMade
<1>2. ASSUME NEW s \in PriceSlots, SaveOffer(s) PROVE PriceInv'
  BY <1>2, SaveOfferKeeps
<1>3. ASSUME NEW s \in PriceSlots, SaveIds(s) PROVE PriceInv'
  BY <1>3, SaveIdsKeeps
<1>4. ASSUME NEW s \in PriceSlots, Bootstrap(s) PROVE PriceInv'
  BY <1>4, BootstrapKeeps
<1>5. ASSUME NEW s \in PriceSlots, Refresh(s) PROVE PriceInv'
  BY <1>5, RefreshKeeps
<1>6. ASSUME NEW s \in PriceSlots, NEW d \in Periods, Replace(s, d) PROVE PriceInv'
  BY <1>6, ReplaceKeeps
<1>7. ASSUME NEW s \in PriceSlots, FillOffer(s) PROVE PriceInv'
  BY <1>7, FillOfferKeeps
<1>8. ASSUME NEW s \in PriceSlots, AnswerOffer(s) PROVE PriceInv'
  BY <1>8, AnswerOfferKeeps
<1>9. ASSUME NEW s \in PriceSlots, DropOffer(s) PROVE PriceInv'
  BY <1>9, DropOfferKeeps
<1>10. ASSUME NEW s \in PriceSlots, RereadOffer(s) PROVE PriceInv'
  BY <1>10, RereadOfferKeeps
<1>11. ASSUME NEW s \in PriceSlots, ArchiveProduct(s) PROVE PriceInv'
  BY <1>11, ArchiveProductKeeps
<1>12. ASSUME NEW s \in PriceSlots, CreateAtStripe(s) PROVE PriceInv'
  BY <1>12, CreateAtStripeKeeps
<1>13. ASSUME NEW s \in PriceSlots, PriceStops(s) PROVE PriceInv'
  BY <1>13, PriceStopsKeeps
<1>14. CASE \E q \in Quotes : CreateOffer(priceLoad.admin, q)
  BY <1>1, <1>14, CreateOfferKeeps
<1>15. CASE \E q \in Quotes : ImportOffer(priceLoad.admin, q)
  BY <1>1, <1>15, ImportOfferKeeps
<1>16. CASE \E q \in Quotes, rename \in BOOLEAN : UpdateOffer(priceLoad.admin, q, rename)
  BY <1>1, <1>16, UpdateOfferKeeps
<1>17. CASE DeleteOffer(priceLoad.admin)
  BY <1>1, <1>17, DeleteOfferKeeps
<1>18. CASE BulkDeleteOffer(priceLoad.admin)
  BY <1>1, <1>18, BulkDeleteOfferKeeps
<1>19. CASE \/ FindOffer(priceLoad.admin, "update")
            \/ FindOffer(priceLoad.buyer, "subscribe")
  BY <1>1, <1>19, FindOfferKeeps
<1>20. CASE \E d \in priceLoad.periods : Subscribe(priceLoad.buyer, d)
  BY <1>1, <1>20, SubscribeKeeps
<1>21. CASE ExpireOffer
  BY <1>21, ExpireOfferKeeps
<1>22. CASE UNCHANGED priceVars
  <2>1. /\ UNCHANGED <<offer, offerCached, stripePrice, onSale, sold, priceCall>>
        /\ UNCHANGED <<priceLoad, priceFault>>
    BY <1>22 DEF priceVars
  <2>2. PriceMade'
    BY <2>1 DEF PriceInv, PriceMade, PriceTypeOK, RowMade, CallOwns, RequestFits
  <2>3. DeletedFits' /\ SalesFit'
    BY <2>1 DEF PriceInv, DeletedFits, CallGone, Changing, SalesFit, SoldAsListed,
       DeletedIsNotSold
  <2>4. ListedFits'
    BY <2>1 DEF PriceInv, ListedFits, NoneAtWork, CopyListed, CallTold, CallListed,
       Quoted, SaleListed
  <2>5. StraysFit'
    BY <2>1 DEF PriceInv, StraysFit, NoneAtWork, Named, ActivePrices
  <2> QED BY <2>2, <2>3, <2>4, <2>5 DEF PriceInv
<1> QED
  BY <1>1, <1>2, <1>3, <1>4, <1>5, <1>6, <1>7, <1>8, <1>9, <1>10, <1>11, <1>12,
     <1>13, <1>14, <1>15, <1>16, <1>17, <1>18, <1>19, <1>20, <1>21, <1>22 DEF PriceNext

(* What is sold is what the catalog lists, a deleted product is not sold    *)
(* and no Price outlives its use, save for the faults that the properties   *)
(* name: for any periods, amounts, Prices and requests of product.service.ts *)
(* and stripe.service.ts.                                                   *)
THEOREM PricesStayConsistent == PriceSpec => []PricesConsistent
<1>1. PriceInv => PricesConsistent
  <2> SUFFICES ASSUME PriceInv PROVE PricesConsistent
    OBVIOUS
  <2>1. ASSUME PriceBusy = {}, priceFault \cap StrayMarks = {}
        PROVE  ActivePrices \subseteq Known
    <3>1. NoneAtWork
      <4>1. NoPriceCall.pc = "idle"
        BY DEF NoPriceCall
      <4> QED BY <2>1, <4>1 DEF PriceBusy, NoneAtWork, AtWork
    <3>2. ActivePrices \subseteq Named(offer)
      BY <2>1, <3>1 DEF PriceInv, StraysFit
    <3> QED BY <3>2, NoPriceAssumption DEF Known, Named, ActivePrices
  <2> QED BY <2>1 DEF PriceInv, SalesFit, PricesConsistent, NoStrayPrice, StrayMarks
<1> QED BY <1>1, PriceInvInit, PriceInvKept, PTL DEF PriceSpec


-----------------------------------------------------------------------------
(* Images.                                                                  *)

(* The list of a reorder names an image once.                               *)
ListMade(k) ==
  /\ k.todo \subseteq 1 .. Len(k.list)
  /\ Len(k.list) <= Cardinality(ImageIds)
  /\ \A m, n \in 1 .. Len(k.list) : k.list[m] = k.list[n] => m = n

ImageMade ==
  /\ ImageTypeOK
  /\ \A s \in ImageSlots : imageCall[s].pc = "reorder" => ListMade(imageCall[s])

(* What a request that runs alone knows of the images.                      *)
InsertFits(k) == k.pc \in {"demote", "insert"} =>
  /\ \A i \in Images : image[i].order # k.order
  /\ k.pc = "insert" /\ k.primary => Primaries = {}
  /\ k.pc = "demote" => k.primary
  /\ k.checked => /\ k.primary \/ Images # {}
                  /\ Cardinality(Images) < MaxImages
RemovalFits(k) == k.pc = "remove" =>
  k.id \in Images /\ k.primary = image[k.id].primary
SearchFits(k) == k.pc = "findNext" => Primaries = {}
RowFits(k) == k.pc \in {"demoteOthers", "promote"} =>
  /\ k.id \in Images /\ k.row = [image[k.id] EXCEPT !.primary = TRUE]
  /\ k.pc = "promote" => Primaries = {}
PlacesFit(k) == k.pc = "reorder" /\ "partial" \notin imageFault =>
  \/ k.todo = 1 .. Len(k.list) /\ OrdersDiffer
  \/ /\ Images = ToSet(k.list)
     /\ \A n \in (1 .. Len(k.list)) \ k.todo : image[k.list[n]].order = n - 1

(* A primary image is gone and the next one not there yet.                  *)
Between(k) == k.pc \in {"findNext", "promote"} \/ (k.pc = "insert" /\ k.primary)

(* What holds of the images beside k, the only request, or none.            *)
AloneKnows(k) ==
  /\ \A i, j \in Primaries : i = j
  /\ InsertFits(k) /\ RemovalFits(k) /\ SearchFits(k) /\ RowFits(k) /\ PlacesFit(k)
  /\ "unchecked" \notin imageFault => Cardinality(Images) <= MaxImages
  /\ imageFault \cap {"unchecked", "stopped"} = {} => OnePrimary \/ Between(k)
  /\ "partial" \notin imageFault /\ k.pc # "reorder" => OrdersDiffer

ImagesCalm ==
  /\ \A s, t \in ImagesBusy : s = t
  /\ ImagesBusy = {} => AloneKnows(NoImageCall)
  /\ \A s \in ImagesBusy : AloneKnows(imageCall[s])

(* What the behaviour may use.                                              *)
ImageLoadFits == imageLoad.ids \subseteq ImageIds /\ imageLoad.slots \subseteq ImageSlots

ImageInv == ImageMade /\ ("overlap" \notin imageFault => ImagesCalm)

-----------------------------------------------------------------------------
LEMMA RequestKinds ==
  ASSUME NEW k \in ImageCalls \cup {NoImageCall}
  PROVE  /\ k.pc \in {"demote", "insert"} => k \in Insertions
         /\ k.pc = "remove" => k \in Removals
         /\ k.pc \in {"demoteOthers", "promote"} => k \in Promotions
         /\ k.pc = "reorder" => k \in Reorders
         /\ k = NoImageCall <=> k.pc = "idle"
<1>1. k \in Insertions \/ k \in Removals \/ k \in Searches \/ k \in Promotions
      \/ k \in Reorders \/ k = NoImageCall
  BY DEF ImageCalls
<1>2. ASSUME k \in Insertions PROVE k.pc \in {"demote", "insert"}
  BY <1>2 DEF Insertions
<1>3. ASSUME k \in Removals PROVE k.pc = "remove"
  BY <1>3 DEF Removals
<1>4. ASSUME k \in Searches PROVE k.pc = "findNext"
  BY <1>4 DEF Searches
<1>5. ASSUME k \in Promotions PROVE k.pc \in {"demoteOthers", "promote"}
  BY <1>5 DEF Promotions
<1>6. ASSUME k \in Reorders PROVE k.pc = "reorder"
  BY <1>6 DEF Reorders
<1>7. NoImageCall.pc = "idle"
  BY DEF NoImageCall
<1> HIDE DEF Insertions, Removals, Searches, Promotions, Reorders, NoImageCall
<1> QED BY <1>1, <1>2, <1>3, <1>4, <1>5, <1>6, <1>7

(* Images that are well formed need no mark when no request runs.           *)
LEMMA FormNeedsNoMark ==
  ASSUME ImagesBusy' = {}, WellFormed'
  PROVE  ImagesCalm'
<1>1. NoImageCall.pc = "idle"
  BY DEF NoImageCall
<1>2. \A i, j \in Primaries' : i = j
  BY DEF WellFormed, OnePrimary, Primaries
<1>3. AloneKnows(NoImageCall)'
  BY <1>1, <1>2 DEF WellFormed, AloneKnows, InsertFits, RemovalFits, SearchFits,
                    RowFits, PlacesFit
<1> QED BY <1>3 DEF ImagesCalm

(* What a request's step does, and what it owes while it is the only one.   *)
ImageMoves(s, k, marks) ==
  /\ imageCall' = [imageCall EXCEPT ![s] = k]
  /\ image' \in [ImageIds -> ImageRow \cup {NoImage}]
  /\ imageLoad' = imageLoad
  /\ BlameImages(marks)
OwesOnlyThat(r, k, marks) ==
  AloneKnows(r) /\ imageFault' = imageFault \cup marks => AloneKnows(k)'

LEMMA ImageStep ==
  ASSUME ImageInv, NEW s \in ImageSlots, NEW r, r = imageCall[s],
         NEW k \in ImageCalls \cup {NoImageCall},
         r # NoImageCall \/ k # NoImageCall,
         k.pc = "reorder" => ListMade(k),
         NEW marks \in SUBSET ImageFaults, ImageMoves(s, k, marks),
         OwesOnlyThat(r, k, marks)
  PROVE  ImageInv'
<1>0. /\ imageCall' = [imageCall EXCEPT ![s] = k] /\ imageLoad' = imageLoad
      /\ image' \in [ImageIds -> ImageRow \cup {NoImage}] /\ BlameImages(marks)
  BY DEF ImageMoves
<1>1. imageCall \in [ImageSlots -> ImageCalls \cup {NoImageCall}]
  BY DEF ImageInv, ImageMade, ImageTypeOK
<1>2. imageCall'[s] = k /\ \A t \in ImageSlots : t # s => imageCall'[t] = imageCall[t]
  BY <1>0, <1>1
<1> HIDE DEF ImageCalls, NoImageCall
<1>3. imageFault' \subseteq ImageFaults
  BY <1>0 DEF BlameImages, ImageInv, ImageMade, ImageTypeOK, ImageFaults
<1>4. ImageMade'
  BY <1>0, <1>1, <1>2, <1>3 DEF ImageInv, ImageMade, ImageTypeOK, ListMade
<1>5. CASE ImagesBusy' = {} /\ WellFormed'
  BY <1>4, <1>5, FormNeedsNoMark DEF ImageInv
<1>6. CASE ~(ImagesBusy' = {} /\ WellFormed')
  <2> SUFFICES ASSUME "overlap" \notin imageFault' PROVE ImagesCalm'
    BY <1>4 DEF ImageInv
  <2>1. /\ imageFault' = imageFault \cup marks /\ "overlap" \notin imageFault
        /\ \A t, u \in ImagesBusy' : t = u
    BY <1>0, <1>6 DEF BlameImages
  <2>2. ImagesCalm
    BY <2>1 DEF ImageInv
  <2>3. \A t \in ImageSlots : t # s => imageCall[t] = NoImageCall
    BY <1>2, <2>1, <2>2 DEF ImagesCalm, ImagesBusy
  <2>4. AloneKnows(r)
    <3>1. CASE r # NoImageCall
      BY <2>2, <3>1 DEF ImagesCalm, ImagesBusy
    <3>2. CASE r = NoImageCall
      BY <2>2, <2>3, <3>2 DEF ImagesCalm, ImagesBusy
    <3> QED BY <3>1, <3>2
  <2>5. AloneKnows(k)'
    BY <2>1, <2>4 DEF OwesOnlyThat
  <2>6. ImagesBusy' = {} => k = NoImageCall
    BY <1>2 DEF ImagesBusy
  <2>7. ASSUME NEW t \in ImagesBusy' PROVE AloneKnows(imageCall[t])'
    <3>1. t = s
      BY <1>2, <2>3, <2>7 DEF ImagesBusy
    <3> QED BY <1>2, <2>5, <3>1
  <2> QED BY <2>1, <2>5, <2>6, <2>7 DEF ImagesCalm
<1> QED BY <1>5, <1>6

-----------------------------------------------------------------------------
(* Every set of natural numbers has a least one.                            *)
LEMMA LessIsWellFounded ==
  \E R : IsWellFoundedOn(R, Nat) /\ \A x, y \in Nat : x < y => <<x, y>> \in R
<1>1. IsWellFoundedOn(OpToRel(<, Nat), Nat)
  BY NatLessThanWellFounded, Zenon
<1>2. \A x, y \in Nat : x < y => <<x, y>> \in OpToRel(<, Nat)
  BY DEF OpToRel
<1> QED BY <1>1, <1>2

LEMMA NatSetHasLeast ==
  ASSUME NEW S, S \subseteq Nat, S # {}
  PROVE  \E m \in S : \A k \in S : m <= k
<1>1. PICK R : IsWellFoundedOn(R, Nat) /\ \A x, y \in Nat : x < y => <<x, y>> \in R
  BY LessIsWellFounded
<1>2. PICK m \in S : \A y \in S : <<y, m>> \notin R
  <2>1. IsWellFoundedOn(R, Nat) /\ S \subseteq Nat /\ S # {}
    BY <1>1
  <2> QED BY ONLY <2>1, WFMin, Zenon
<1>3. ASSUME NEW k \in S
      PROVE  m <= k
  <2>1. ~(k < m)
    BY <1>1, <1>2
  <2>2. k \in Nat /\ m \in Nat
    OBVIOUS
  <2> QED BY <2>1, <2>2
<1> QED BY <1>3

(* The rows.                                                                *)
LEMMA ImagesFinite ==
  /\ IsFiniteSet(Images) /\ Cardinality(Images) \in Nat
  /\ Cardinality(ImageIds) \in Nat
BY ImageAssumption, FS_Subset, FS_CardinalityType DEF Images

LEMMA ImageRows ==
  ASSUME ImageTypeOK, NEW i \in Images
  PROVE  /\ i \in ImageIds /\ image[i] \in ImageRow
         /\ image[i].order \in Nat /\ image[i].primary \in BOOLEAN
<1>1. i \in ImageIds /\ image[i] \in ImageRow
  BY DEF ImageTypeOK, Images
<1> QED BY <1>1, ImagesFinite DEF ImageRow, Orders

(* The place after the last one.                                            *)
LEMMA NextOrderIsLast ==
  ASSUME ImageTypeOK
  PROVE  NextOrder \in Nat /\ \A i \in Images : image[i].order < NextOrder
<1>1. CASE Images = {}
  BY <1>1 DEF NextOrder
<1>2. CASE Images # {}
  <2> DEFINE S == {image[i].order : i \in Images}
             U == {n \in Nat : \A x \in S : x <= n}
  <2>1. S \subseteq Nat /\ S # {}
    BY <1>2, ImageRows
  <2>2. Cardinality(ImageIds) \in U
    BY ImagesFinite, ImageRows DEF ImageRow, Orders
  <2> HIDE DEF S
  <2>3. PICK m \in U : \A n \in U : m <= n
    BY <2>2, NatSetHasLeast
  <2>4. m \in S
    <3> SUFFICES ASSUME m \notin S PROVE FALSE
      OBVIOUS
    <3>1. \A x \in S : x < m
      BY <2>1, <2>3
    <3>2. PICK x \in S : x \in Nat
      BY <2>1
    <3>3. m \in Nat /\ x < m
      BY <3>1
    <3>4. m - 1 \in Nat /\ ~(m <= m - 1)
      BY <3>2, <3>3
    <3>5. \A y \in S : y <= m - 1
      <4> TAKE y \in S
      <4>1. y \in Nat /\ y < m
        BY <2>1, <3>1
      <4> QED BY <3>3, <4>1
    <3>6. m - 1 \in U
      BY <3>4, <3>5
    <3> QED BY <2>3, <3>4, <3>6
  <2>5. Max(S) \in S /\ \A y \in S : Max(S) >= y
    <3>1. \A y \in S : m >= y
      BY <2>1, <2>3
    <3> QED BY <2>4, <3>1 DEF Max
  <2>6. NextOrder = Max(S) + 1
    BY <1>2 DEF NextOrder, S
  <2>7. \A i \in Images : image[i].order \in S
    BY DEF S
  <2>8. PICK x : x = Max(S)
    OBVIOUS
  <2>9. x \in Nat /\ \A y \in S : y \in Nat /\ y <= x
    BY <2>1, <2>5, <2>8
  <2>10. NextOrder = x + 1
    BY <2>6, <2>8
  <2> QED BY <2>7, <2>9, <2>10
<1> QED BY <1>1, <1>2

(* One row is written, another image or the same one.                       *)
LEMMA RowWritten ==
  ASSUME ImageTypeOK, NEW i \in ImageIds, NEW row \in ImageRow,
         image' = [image EXCEPT ![i] = row]
  PROVE  /\ image' \in [ImageIds -> ImageRow \cup {NoImage}]
         /\ Images' = Images \cup {i}
         /\ image'[i] = row /\ \A j \in ImageIds : j # i => image'[j] = image[j]
         /\ Primaries' = (Primaries \ {i}) \cup {j \in {i} : row.primary}
BY NoImageAssumption DEF ImageTypeOK, Images, Primaries

LEMMA RowRemoved ==
  ASSUME ImageTypeOK, NEW i \in ImageIds, image' = [image EXCEPT ![i] = NoImage]
  PROVE  /\ image' \in [ImageIds -> ImageRow \cup {NoImage}]
         /\ Images' = Images \ {i}
         /\ \A j \in ImageIds : j # i => image'[j] = image[j]
         /\ Primaries' = Primaries \ {i}
BY DEF ImageTypeOK, Images, Primaries

LEMMA RowsDemoted ==
  ASSUME ImageTypeOK, image' = NotPrimary
  PROVE  /\ image' \in [ImageIds -> ImageRow \cup {NoImage}]
         /\ Images' = Images /\ Primaries' = {}
         /\ \A i \in Images : /\ image'[i].order = image[i].order
                              /\ [image'[i] EXCEPT !.primary = TRUE]
                                   = [image[i] EXCEPT !.primary = TRUE]
<1>1. \A i \in Images :
        /\ image'[i] = [image[i] EXCEPT !.primary = FALSE] /\ image'[i] \in ImageRow
        /\ ~image'[i].primary /\ image'[i].order = image[i].order
        /\ [image'[i] EXCEPT !.primary = TRUE] = [image[i] EXCEPT !.primary = TRUE]
  <2> TAKE i \in Images
  <2>1. image[i] \in ImageRow /\ i \in ImageIds
    BY ImageRows
  <2>2. image'[i] = [image[i] EXCEPT !.primary = FALSE]
    BY <2>1 DEF NotPrimary
  <2> QED BY <2>1, <2>2 DEF ImageRow
<1>2. \A i \in ImageIds : i \notin Images => image'[i] = NoImage
  BY DEF NotPrimary
<1>3. image' \in [ImageIds -> ImageRow \cup {NoImage}]
  BY <1>1, <1>2 DEF NotPrimary
<1>4. Images' = Images
  BY <1>1, <1>2, NoImageAssumption DEF Images
<1> QED BY <1>1, <1>3, <1>4 DEF Primaries

LEMMA RowsSame ==
  ASSUME image' = image
  PROVE  /\ Images' = Images /\ Primaries' = Primaries
         /\ OnePrimary' = OnePrimary /\ OrdersDiffer' = OrdersDiffer
BY DEF Images, Primaries, OnePrimary, OrdersDiffer

-----------------------------------------------------------------------------
(* The beginnings: nothing is written yet.                                  *)
LEMMA ImageBegins ==
  ASSUME ImageInv, NEW s \in ImageSlots, NEW k \in ImageCalls, StartImage(s, k),
         UNCHANGED <<image, imageLoad>>, BlameImages({}),
         k.pc = "reorder" => ListMade(k) /\ k.todo = 1 .. Len(k.list),
         InsertFits(k) /\ RemovalFits(k) /\ SearchFits(k) /\ RowFits(k)
  PROVE  ImageInv'
<1>1. imageCall[s] = NoImageCall /\ imageCall' = [imageCall EXCEPT ![s] = k]
  BY DEF StartImage
<1>2. k # NoImageCall /\ NoImageCall.pc = "idle"
  <2>1. NoImageCall.pc = "idle"
    BY DEF NoImageCall
  <2>2. k.pc # "idle"
    BY DEF ImageCalls, Insertions, Removals, Searches, Promotions, Reorders
  <2> QED BY <2>1, <2>2
<1>3. image' \in [ImageIds -> ImageRow \cup {NoImage}] /\ {} \in SUBSET ImageFaults
  BY DEF ImageInv, ImageMade, ImageTypeOK
<1>4. ASSUME AloneKnows(NoImageCall), imageFault' = imageFault \cup {}
      PROVE  AloneKnows(k)'
  <2>1. imageFault' = imageFault
    BY <1>4
  <2>2. Images' = Images /\ Primaries' = Primaries /\ OnePrimary' = OnePrimary
        /\ OrdersDiffer' = OrdersDiffer
    BY RowsSame
  <2>3. InsertFits(k)' /\ RemovalFits(k)' /\ SearchFits(k)' /\ RowFits(k)'
    BY <2>2 DEF InsertFits, RemovalFits, SearchFits, RowFits
  <2>4. "partial" \notin imageFault => OrdersDiffer
    BY <1>2, <1>4 DEF AloneKnows
  <2>5. PlacesFit(k)'
    BY <2>1, <2>2, <2>4 DEF PlacesFit
  <2>6. /\ "unchecked" \notin imageFault => Cardinality(Images) <= MaxImages
        /\ imageFault \cap {"unchecked", "stopped"} = {} => OnePrimary
    BY <1>2, <1>4 DEF AloneKnows, Between
  <2>7. \A i, j \in Primaries : i = j
    BY <1>4 DEF AloneKnows
  <2> QED BY <2>1, <2>2, <2>3, <2>4, <2>5, <2>6, <2>7 DEF AloneKnows
<1>5. PICK r : r = imageCall[s]
  OBVIOUS
<1>6. k \in ImageCalls \cup {NoImageCall} /\ (k.pc = "reorder" => ListMade(k))
  OBVIOUS
<1>7. ImageMoves(s, k, {}) /\ OwesOnlyThat(r, k, {})
  BY <1>1, <1>3, <1>4, <1>5 DEF ImageMoves, OwesOnlyThat
<1> QED BY <1>2, <1>3, <1>5, <1>6, <1>7, ImageStep

LEMMA UploadBegins ==
  ASSUME ImageInv, NEW s \in ImageSlots, NEW primary \in BOOLEAN, NEW checked \in BOOLEAN,
         StartImage(s, [pc |-> IF primary /\ Images # {} THEN "demote" ELSE "insert",
                        primary |-> primary, order |-> NextOrder, checked |-> checked]),
         checked => /\ primary \/ Images # {}
                    /\ Cardinality(Images) < MaxImages,
         UNCHANGED <<image, imageLoad>>, BlameImages({})
  PROVE  ImageInv'
<1>1. PICK k : k = [pc |-> IF primary /\ Images # {} THEN "demote" ELSE "insert",
                    primary |-> primary, order |-> NextOrder, checked |-> checked]
  OBVIOUS
<1>2. NextOrder \in Nat /\ \A i \in Images : image[i].order < NextOrder
  BY NextOrderIsLast DEF ImageInv, ImageMade
<1>3. k \in Insertions
  BY <1>1, <1>2 DEF Insertions
<1>4. k.pc \in {"demote", "insert"} /\ k.order = NextOrder /\ k.primary = primary
      /\ k.checked = checked /\ (k.pc = "insert" /\ primary => Images = {})
      /\ (k.pc = "demote" => primary)
  BY <1>1
<1>5. \A i \in Images : image[i].order # k.order
  <2>1. \A i \in Images : image[i].order \in Nat
    BY ImageRows DEF ImageInv, ImageMade
  <2> QED BY <1>2, <1>4, <2>1
<1>6. InsertFits(k)
  BY <1>4, <1>5 DEF InsertFits, Primaries
<1>7. RemovalFits(k) /\ SearchFits(k) /\ RowFits(k) /\ k.pc # "reorder"
  BY <1>4 DEF RemovalFits, SearchFits, RowFits
<1>8. k \in ImageCalls /\ StartImage(s, k)
  BY <1>1, <1>3 DEF ImageCalls
<1> QED BY <1>6, <1>7, <1>8, ImageBegins

LEMMA ConfirmUploadKeeps ==
  ASSUME ImageInv, NEW s \in ImageSlots, ConfirmUpload(s)
  PROVE  ImageInv'
<1>1. PICK asked \in BOOLEAN :
        StartImage(s, [pc |-> IF (asked \/ Images = {}) /\ Images # {} THEN "demote"
                              ELSE "insert",
                       primary |-> asked \/ Images = {}, order |-> NextOrder,
                       checked |-> TRUE])
  BY DEF ConfirmUpload
<1>2. PICK primary \in BOOLEAN : primary = (asked \/ Images = {})
  OBVIOUS
<1>3. StartImage(s, [pc |-> IF primary /\ Images # {} THEN "demote" ELSE "insert",
                     primary |-> primary, order |-> NextOrder, checked |-> TRUE])
  BY <1>1, <1>2
<1>4. /\ primary \/ Images # {}
      /\ Cardinality(Images) < MaxImages
      /\ UNCHANGED <<image, imageLoad>> /\ BlameImages({})
  BY <1>2 DEF ConfirmUpload
<1> QED BY <1>3, <1>4, UploadBegins

LEMMA AddImageKeeps ==
  ASSUME ImageInv, NEW s \in ImageSlots, AddImage(s)
  PROVE  ImageInv'
BY UploadBegins DEF AddImage

LEMMA DeleteImageKeeps ==
  ASSUME ImageInv, NEW s \in ImageSlots, NEW i \in ImageIds, DeleteImage(s, i)
  PROVE  ImageInv'
<1>1. PICK k : k = [pc |-> "remove", id |-> i, primary |-> image[i].primary]
  OBVIOUS
<1>2. i \in Images /\ StartImage(s, k) /\ UNCHANGED <<image, imageLoad>> /\ BlameImages({})
  BY <1>1 DEF DeleteImage
<1>3. k \in Removals /\ k.pc = "remove" /\ k.id = i /\ k.primary = image[i].primary
  BY <1>1, <1>2, ImageRows DEF Removals, ImageInv, ImageMade
<1>4. InsertFits(k) /\ RemovalFits(k) /\ SearchFits(k) /\ RowFits(k)
  BY <1>2, <1>3 DEF InsertFits, RemovalFits, SearchFits, RowFits
<1>5. k \in ImageCalls
  BY <1>3 DEF ImageCalls
<1> QED BY <1>2, <1>3, <1>4, <1>5, ImageBegins

LEMMA SetPrimaryImageKeeps ==
  ASSUME ImageInv, NEW s \in ImageSlots, NEW i \in ImageIds, SetPrimaryImage(s, i)
  PROVE  ImageInv'
<1>1. PICK k : k = [pc |-> "demoteOthers", id |-> i,
                    row |-> [image[i] EXCEPT !.primary = TRUE]]
  OBVIOUS
<1>2. i \in Images /\ StartImage(s, k) /\ UNCHANGED <<image, imageLoad>> /\ BlameImages({})
  BY <1>1 DEF SetPrimaryImage
<1>3. [image[i] EXCEPT !.primary = TRUE] \in ImageRow
  BY <1>2, ImageRows DEF ImageRow, ImageInv, ImageMade
<1>4. k \in Promotions /\ k.pc = "demoteOthers" /\ k.id = i
      /\ k.row = [image[i] EXCEPT !.primary = TRUE]
  BY <1>1, <1>3 DEF Promotions
<1>5. InsertFits(k) /\ RemovalFits(k) /\ SearchFits(k) /\ RowFits(k)
  BY <1>2, <1>4 DEF InsertFits, RemovalFits, SearchFits, RowFits
<1>6. k \in ImageCalls
  BY <1>4 DEF ImageCalls
<1> QED BY <1>2, <1>4, <1>5, <1>6, ImageBegins

LEMMA ReorderImagesKeeps ==
  ASSUME ImageInv, NEW s \in ImageSlots, ReorderImages(s)
  PROVE  ImageInv'
<1>0. PICK ids \in SUBSET Images : \E list \in SetToSeqs(ids) :
        StartImage(s, [pc |-> "reorder", list |-> list, todo |-> DOMAIN list])
  BY DEF ReorderImages
<1>1. PICK list \in SetToSeqs(ids) :
        StartImage(s, [pc |-> "reorder", list |-> list, todo |-> DOMAIN list])
  BY <1>0
<1>2. PICK n : n = Cardinality(ids)
  OBVIOUS
<1>3. IsFiniteSet(ids) /\ n \in Nat /\ n <= Cardinality(ImageIds)
  <2>1. ids \in SUBSET ImageIds
    BY DEF Images
  <2> QED BY <1>2, <2>1, ImageAssumption, FS_Subset, FS_CardinalityType
<1>4. list \in [1 .. n -> ids] /\ \A i, j \in 1 .. n : i # j => list[i] # list[j]
  BY <1>2 DEF SetToSeqs
<1>5. list \in Seq(ImageIds) /\ Len(list) = n /\ DOMAIN list = 1 .. n
  <2>1. list \in [1 .. n -> ImageIds]
    BY <1>4 DEF Images
  <2> QED BY <1>3, <2>1
<1>6. PICK k : k = [pc |-> "reorder", list |-> list, todo |-> DOMAIN list]
  OBVIOUS
<1>7. k \in Reorders /\ k.pc = "reorder" /\ k.list = list /\ k.todo = 1 .. n
  BY <1>3, <1>5, <1>6 DEF Reorders
<1>8. ListMade(k) /\ k.todo = 1 .. Len(k.list)
  BY <1>3, <1>4, <1>5, <1>7 DEF ListMade
<1>9. InsertFits(k) /\ RemovalFits(k) /\ SearchFits(k) /\ RowFits(k)
  BY <1>7 DEF InsertFits, RemovalFits, SearchFits, RowFits
<1>10. k \in ImageCalls
  BY <1>7 DEF ImageCalls
<1>11. StartImage(s, k) /\ UNCHANGED <<image, imageLoad>> /\ BlameImages({})
  BY <1>1, <1>6 DEF ReorderImages
<1> QED BY <1>8, <1>9, <1>10, <1>11, ImageBegins

-----------------------------------------------------------------------------
(* The request a step carries on.                                           *)
LEMMA ImageRequest ==
  ASSUME ImageInv, NEW s \in ImageSlots, NEW r, r = imageCall[s]
  PROVE  /\ r \in ImageCalls \cup {NoImageCall} /\ ImageTypeOK
         /\ r.pc \in {"demote", "insert"} => r \in Insertions
         /\ r.pc = "remove" => r \in Removals
         /\ r.pc \in {"demoteOthers", "promote"} => r \in Promotions
         /\ r.pc = "reorder" => r \in Reorders /\ ListMade(r)
         /\ r.pc # "idle" => r # NoImageCall
<1>1. r \in ImageCalls \cup {NoImageCall} /\ ImageTypeOK
  BY DEF ImageInv, ImageMade, ImageTypeOK
<1>2. r.pc = "reorder" => ListMade(r)
  BY DEF ImageInv, ImageMade
<1> QED BY <1>1, <1>2, RequestKinds

(* Rows that keep their places.                                             *)
LEMMA OrdersKept ==
  ASSUME Images' = Images, \A i \in Images : image'[i].order = image[i].order
  PROVE  OrdersDiffer' = OrdersDiffer
BY DEF OrdersDiffer

LEMMA DemoteAllKeeps ==
  ASSUME ImageInv, NEW s \in ImageSlots, DemoteAll(s)
  PROVE  ImageInv'
<1>1. PICK r : r = imageCall[s]
  OBVIOUS
<1>2. PICK k : k = [r EXCEPT !.pc = "insert"]
  OBVIOUS
<1>3. /\ r.pc = "demote" /\ image' = NotPrimary /\ imageLoad' = imageLoad
      /\ imageCall' = [imageCall EXCEPT ![s] = k] /\ BlameImages({})
  BY <1>1, <1>2 DEF DemoteAll, ImageAt, GoOn
<1>4. r \in Insertions /\ r # NoImageCall /\ ImageTypeOK
  BY <1>1, <1>3, ImageRequest
<1>5. k \in Insertions /\ k.pc = "insert" /\ k.primary = r.primary
      /\ k.order = r.order /\ k.checked = r.checked
  BY <1>2, <1>4 DEF Insertions
<1>6. /\ image' \in [ImageIds -> ImageRow \cup {NoImage}]
      /\ Images' = Images /\ Primaries' = {}
      /\ \A i \in Images : image'[i].order = image[i].order
  BY <1>3, <1>4, RowsDemoted
<1>7. OrdersDiffer' = OrdersDiffer
  BY <1>6, OrdersKept
<1>8. ASSUME AloneKnows(r), imageFault' = imageFault \cup {}
      PROVE  AloneKnows(k)'
  <2>1. imageFault' = imageFault
    BY <1>8
  <2>2. InsertFits(r) /\ r.primary
    BY <1>3, <1>8 DEF AloneKnows, InsertFits
  <2>3. InsertFits(k)'
    BY <1>3, <1>5, <1>6, <2>2 DEF InsertFits
  <2>4. RemovalFits(k)' /\ SearchFits(k)' /\ RowFits(k)' /\ PlacesFit(k)'
    BY <1>5 DEF RemovalFits, SearchFits, RowFits, PlacesFit
  <2>5. Between(k)
    BY <1>5, <2>2 DEF Between
  <2>6. "unchecked" \notin imageFault => Cardinality(Images) <= MaxImages
    BY <1>8 DEF AloneKnows
  <2>7. "partial" \notin imageFault => OrdersDiffer
    BY <1>3, <1>8 DEF AloneKnows
  <2>8. \A i, j \in Primaries' : i = j
    BY <1>6
  <2> QED BY <1>6, <1>7, <2>1, <2>3, <2>4, <2>5, <2>6, <2>7, <2>8 DEF AloneKnows, Between
<1>9. k \in ImageCalls \cup {NoImageCall} /\ {} \in SUBSET ImageFaults /\ k.pc # "reorder"
  BY <1>5 DEF ImageCalls
<1>10. ImageMoves(s, k, {}) /\ OwesOnlyThat(r, k, {})
  BY <1>3, <1>6, <1>8 DEF ImageMoves, OwesOnlyThat
<1> QED BY <1>1, <1>4, <1>9, <1>10, ImageStep

LEMMA DemoteOthersKeeps ==
  ASSUME ImageInv, NEW s \in ImageSlots, DemoteOthers(s)
  PROVE  ImageInv'
<1>1. PICK r : r = imageCall[s]
  OBVIOUS
<1>2. PICK k : k = [r EXCEPT !.pc = "promote"]
  OBVIOUS
<1>3. /\ r.pc = "demoteOthers" /\ image' = NotPrimary /\ imageLoad' = imageLoad
      /\ imageCall' = [imageCall EXCEPT ![s] = k] /\ BlameImages({})
  BY <1>1, <1>2 DEF DemoteOthers, ImageAt, GoOn
<1>4. r \in Promotions /\ r # NoImageCall /\ ImageTypeOK
  BY <1>1, <1>3, ImageRequest
<1>5. k \in Promotions /\ k.pc = "promote" /\ k.id = r.id /\ k.row = r.row
  BY <1>2, <1>4 DEF Promotions
<1>6. /\ image' \in [ImageIds -> ImageRow \cup {NoImage}]
      /\ Images' = Images /\ Primaries' = {}
      /\ \A i \in Images : /\ image'[i].order = image[i].order
                           /\ [image'[i] EXCEPT !.primary = TRUE]
                                = [image[i] EXCEPT !.primary = TRUE]
  BY <1>3, <1>4, RowsDemoted
<1>7. OrdersDiffer' = OrdersDiffer
  BY <1>6, OrdersKept
<1>8. ASSUME AloneKnows(r), imageFault' = imageFault \cup {}
      PROVE  AloneKnows(k)'
  <2>1. imageFault' = imageFault
    BY <1>8
  <2>2. r.id \in Images /\ r.row = [image[r.id] EXCEPT !.primary = TRUE]
    BY <1>3, <1>8 DEF AloneKnows, RowFits
  <2>3. RowFits(k)'
    BY <1>5, <1>6, <2>2 DEF RowFits
  <2>4. InsertFits(k)' /\ RemovalFits(k)' /\ SearchFits(k)' /\ PlacesFit(k)'
    BY <1>5 DEF InsertFits, RemovalFits, SearchFits, PlacesFit
  <2>5. Between(k)
    BY <1>5 DEF Between
  <2>6. "unchecked" \notin imageFault => Cardinality(Images) <= MaxImages
    BY <1>8 DEF AloneKnows
  <2>7. "partial" \notin imageFault => OrdersDiffer
    BY <1>3, <1>8 DEF AloneKnows
  <2>8. \A i, j \in Primaries' : i = j
    BY <1>6
  <2> QED BY <1>6, <1>7, <2>1, <2>3, <2>4, <2>5, <2>6, <2>7, <2>8 DEF AloneKnows, Between
<1>9. k \in ImageCalls \cup {NoImageCall} /\ {} \in SUBSET ImageFaults /\ k.pc # "reorder"
  BY <1>5 DEF ImageCalls
<1>10. ImageMoves(s, k, {}) /\ OwesOnlyThat(r, k, {})
  BY <1>3, <1>6, <1>8 DEF ImageMoves, OwesOnlyThat
<1> QED BY <1>1, <1>4, <1>9, <1>10, ImageStep

LEMMA InsertImageKeeps ==
  ASSUME ImageInv, NEW s \in ImageSlots, ImageLoadFits, InsertImage(s)
  PROVE  ImageInv'
<1>1. PICK r : r = imageCall[s]
  OBVIOUS
<1>2. PICK row : row = [primary |-> r.primary, order |-> r.order]
  OBVIOUS
<1>3. PICK marks : marks = IF r.checked THEN {} ELSE {"unchecked"}
  OBVIOUS
<1>4. PICK i \in imageLoad.ids \ Images :
        /\ r.pc = "insert" /\ r.order \in Orders
        /\ image' = [image EXCEPT ![i] = row]
        /\ imageCall' = [imageCall EXCEPT ![s] = NoImageCall]
        /\ imageLoad' = imageLoad /\ BlameImages(marks)
  BY <1>1, <1>2, <1>3 DEF InsertImage, ImageAt, EndImage
<1>5. r \in Insertions /\ r # NoImageCall /\ ImageTypeOK
  BY <1>1, <1>4, ImageRequest
<1>6. row \in ImageRow /\ row.primary = r.primary /\ row.order = r.order
      /\ r.checked \in BOOLEAN
  BY <1>2, <1>4, <1>5 DEF Insertions, ImageRow
<1>7. i \in ImageIds /\ i \notin Images
  BY <1>4 DEF ImageLoadFits
<1>8. /\ image' \in [ImageIds -> ImageRow \cup {NoImage}]
      /\ Images' = Images \cup {i}
      /\ image'[i] = row /\ \A j \in ImageIds : j # i => image'[j] = image[j]
      /\ Primaries' = (Primaries \ {i}) \cup {j \in {i} : row.primary}
  BY <1>4, <1>5, <1>6, <1>7, RowWritten
<1>9. Primaries' = IF r.primary THEN Primaries \cup {i} ELSE Primaries
  <2>1. i \notin Primaries
    BY <1>7 DEF Primaries
  <2> QED BY <1>6, <1>8, <2>1
<1>10. Cardinality(Images') = Cardinality(Images) + 1
  BY <1>7, <1>8, ImagesFinite, FS_AddElement
<1>11. ASSUME AloneKnows(r), imageFault' = imageFault \cup marks
       PROVE  AloneKnows(NoImageCall)'
  <2>1. /\ \A j \in Images : image[j].order # r.order
        /\ r.primary => Primaries = {}
        /\ r.checked => /\ r.primary \/ Images # {}
                        /\ Cardinality(Images) < MaxImages
    BY <1>4, <1>11 DEF AloneKnows, InsertFits
  <2>2. \A j, l \in Primaries' : j = l
    BY <1>9, <1>11, <2>1 DEF AloneKnows
  <2>0. ASSUME "unchecked" \notin imageFault'
        PROVE  r.checked /\ "unchecked" \notin imageFault
    BY <1>3, <1>11, <2>0
  <2>7. ASSUME "unchecked" \notin imageFault'
        PROVE  Cardinality(Images') <= MaxImages
    <3>1. Cardinality(Images) < MaxImages
      BY <2>0, <2>1, <2>7
    <3> QED BY <1>10, <3>1, ImagesFinite, ImageAssumption
  <2>3. ASSUME imageFault' \cap {"unchecked", "stopped"} = {}
        PROVE  OnePrimary'
    <3>1. r.checked /\ imageFault \cap {"unchecked", "stopped"} = {}
      BY <1>3, <1>11, <2>0, <2>3
    <3>3. CASE r.primary
      BY <1>8, <1>9, <2>1, <3>3 DEF OnePrimary
    <3>4. CASE ~r.primary
      <4>1. OnePrimary /\ Images # {}
        BY <1>4, <1>11, <2>1, <3>1, <3>4 DEF AloneKnows, Between
      <4> QED BY <1>8, <1>9, <3>4, <4>1 DEF OnePrimary
    <3> QED BY <3>3, <3>4
  <2>4. ASSUME "partial" \notin imageFault' PROVE OrdersDiffer'
    <3>1. OrdersDiffer
      BY <1>4, <1>11, <2>4 DEF AloneKnows
    <3>2. \A j \in Images : j # i /\ image'[j].order = image[j].order
      BY <1>7, <1>8 DEF Images
    <3>3. image'[i].order = r.order
      BY <1>6, <1>8
    <3> QED BY <1>8, <2>1, <3>1, <3>2, <3>3 DEF OrdersDiffer
  <2>5. NoImageCall.pc = "idle"
    BY DEF NoImageCall
  <2>6. InsertFits(NoImageCall)' /\ RemovalFits(NoImageCall)' /\ SearchFits(NoImageCall)'
        /\ RowFits(NoImageCall)' /\ PlacesFit(NoImageCall)'
    BY <2>5 DEF InsertFits, RemovalFits, SearchFits, RowFits, PlacesFit
  <2> QED BY <2>2, <2>3, <2>4, <2>6, <2>7 DEF AloneKnows
<1>12. NoImageCall.pc # "reorder" /\ marks \in SUBSET ImageFaults
       /\ NoImageCall \in ImageCalls \cup {NoImageCall}
  BY <1>3 DEF NoImageCall, ImageFaults
<1>13. ImageMoves(s, NoImageCall, marks) /\ OwesOnlyThat(r, NoImageCall, marks)
  BY <1>4, <1>8, <1>11 DEF ImageMoves, OwesOnlyThat
<1> QED BY <1>1, <1>5, <1>12, <1>13, ImageStep

LEMMA RemoveImageKeeps ==
  ASSUME ImageInv, NEW s \in ImageSlots, RemoveImage(s)
  PROVE  ImageInv'
<1>1. PICK r : r = imageCall[s]
  OBVIOUS
<1>2. PICK k : k = IF r.primary THEN [pc |-> "findNext"] ELSE NoImageCall
  OBVIOUS
<1>3. PICK i : i = r.id
  OBVIOUS
<1>4. /\ r.pc = "remove" /\ image' = [image EXCEPT ![i] = NoImage]
      /\ imageLoad' = imageLoad
      /\ imageCall' = [imageCall EXCEPT ![s] = k] /\ BlameImages({})
  BY <1>1, <1>2, <1>3 DEF RemoveImage, ImageAt, GoOn, EndImage
<1>5. r \in Removals /\ r # NoImageCall /\ ImageTypeOK
  BY <1>1, <1>4, ImageRequest
<1>6. i \in ImageIds /\ r.primary \in BOOLEAN
  BY <1>3, <1>5 DEF Removals
<1>7. /\ image' \in [ImageIds -> ImageRow \cup {NoImage}]
      /\ Images' = Images \ {i} /\ Primaries' = Primaries \ {i}
      /\ \A j \in ImageIds : j # i => image'[j] = image[j]
  BY <1>4, <1>5, <1>6, RowRemoved
<1>8. /\ k \in ImageCalls \cup {NoImageCall} /\ k.pc \in {"findNext", "idle"}
      /\ k.pc = "findNext" <=> r.primary
  BY <1>2, <1>6 DEF ImageCalls, Searches, NoImageCall
<1>9. Cardinality(Images') <= Cardinality(Images)
  BY <1>7, ImagesFinite, FS_Subset
<1>10. ASSUME AloneKnows(r), imageFault' = imageFault \cup {}
       PROVE  AloneKnows(k)'
  <2>1. imageFault' = imageFault
    BY <1>10
  <2>2. i \in Images /\ r.primary = image[i].primary
    BY <1>3, <1>4, <1>10 DEF AloneKnows, RemovalFits
  <2>3. \A j, l \in Primaries : j = l
    BY <1>10 DEF AloneKnows
  <2>4. r.primary => Primaries' = {}
    <3>1. r.primary => i \in Primaries
      BY <2>2 DEF Primaries
    <3> QED BY <1>7, <2>3, <3>1
  <2>5. ~r.primary => Primaries' = Primaries
    <3>1. ~r.primary => i \notin Primaries
      BY <2>2 DEF Primaries
    <3> QED BY <1>7, <3>1
  <2>6. InsertFits(k)' /\ RemovalFits(k)' /\ SearchFits(k)' /\ RowFits(k)' /\ PlacesFit(k)'
    BY <1>8, <2>4 DEF InsertFits, RemovalFits, SearchFits, RowFits, PlacesFit
  <2>10. ASSUME "unchecked" \notin imageFault'
         PROVE  Cardinality(Images') <= MaxImages
    <3>1. Cardinality(Images) <= MaxImages
      BY <1>10, <2>1, <2>10 DEF AloneKnows
    <3>2. PICK m, n : m = Cardinality(Images') /\ n = Cardinality(Images)
      OBVIOUS
    <3>3. m \in Nat
      BY <1>7, <3>2, ImagesFinite, FS_Subset, FS_CardinalityType
    <3>4. n \in Nat /\ MaxImages \in Nat /\ m <= n /\ n <= MaxImages
      BY <1>9, <3>1, <3>2, ImagesFinite, ImageAssumption
    <3> QED BY <3>2, <3>3, <3>4
  <2>7. ASSUME imageFault' \cap {"unchecked", "stopped"} = {}
        PROVE  OnePrimary' \/ Between(k)
    <3>1. OnePrimary
      BY <1>4, <1>10, <2>1, <2>7 DEF AloneKnows, Between
    <3>3. CASE r.primary
      BY <1>8, <3>3 DEF Between
    <3>4. CASE ~r.primary
      BY <1>7, <2>5, <3>1, <3>4 DEF OnePrimary, Primaries
    <3> QED BY <3>3, <3>4
  <2>8. ASSUME "partial" \notin imageFault' PROVE OrdersDiffer'
    <3>1. OrdersDiffer
      BY <1>4, <1>10, <2>1, <2>8 DEF AloneKnows
    <3> QED BY <1>7, <3>1 DEF OrdersDiffer, Images
  <2>9. \A j, l \in Primaries' : j = l
    BY <1>7, <2>3
  <2> QED BY <2>6, <2>7, <2>8, <2>9, <2>10 DEF AloneKnows, Between
<1>11. ImageMoves(s, k, {}) /\ OwesOnlyThat(r, k, {})
  BY <1>4, <1>7, <1>10 DEF ImageMoves, OwesOnlyThat
<1>12. k.pc # "reorder" /\ {} \in SUBSET ImageFaults
  BY <1>8
<1> QED BY <1>1, <1>5, <1>8, <1>11, <1>12, ImageStep

LEMMA FindNextKeeps ==
  ASSUME ImageInv, NEW s \in ImageSlots, FindNext(s)
  PROVE  ImageInv'
<1>1. PICK r : r = imageCall[s]
  OBVIOUS
<1>2. PICK k : /\ imageCall' = [imageCall EXCEPT ![s] = k]
               /\ \/ Images = {} /\ k = NoImageCall
                  \/ \E i \in First : k = [pc |-> "promote", id |-> i,
                                           row |-> [image[i] EXCEPT !.primary = TRUE]]
  BY DEF FindNext, GoOn, EndImage
<1>3. /\ r.pc = "findNext" /\ image' = image /\ imageLoad' = imageLoad
      /\ BlameImages({})
  BY <1>1 DEF FindNext, ImageAt
<1>4. r # NoImageCall /\ ImageTypeOK
  BY <1>1, <1>3, ImageRequest
<1>5. /\ k \in ImageCalls \cup {NoImageCall} /\ k.pc \in {"promote", "idle"}
      /\ k.pc = "idle" => Images = {}
      /\ k.pc = "promote" => /\ k.id \in Images
                             /\ k.row = [image[k.id] EXCEPT !.primary = TRUE]
  <2>1. CASE Images = {} /\ k = NoImageCall
    BY <2>1 DEF NoImageCall
  <2>2. CASE \E i \in First : k = [pc |-> "promote", id |-> i,
                                   row |-> [image[i] EXCEPT !.primary = TRUE]]
    <3>1. PICK i \in First : k = [pc |-> "promote", id |-> i,
                                  row |-> [image[i] EXCEPT !.primary = TRUE]]
      BY <2>2
    <3>2. i \in Images /\ i \in ImageIds /\ image[i] \in ImageRow
      BY <1>4, ImageRows DEF First
    <3>3. [image[i] EXCEPT !.primary = TRUE] \in ImageRow
      BY <3>2 DEF ImageRow
    <3>4. k \in Promotions
      BY <3>1, <3>2, <3>3 DEF Promotions
    <3> QED BY <3>1, <3>2, <3>4 DEF ImageCalls
  <2> QED BY <1>2, <2>1, <2>2
<1>6. ASSUME AloneKnows(r), imageFault' = imageFault \cup {}
      PROVE  AloneKnows(k)'
  <2>1. imageFault' = imageFault
    BY <1>6
  <2>2. Images' = Images /\ Primaries' = Primaries /\ OnePrimary' = OnePrimary
        /\ OrdersDiffer' = OrdersDiffer
    BY <1>3, RowsSame
  <2>3. Primaries = {}
    BY <1>3, <1>6 DEF AloneKnows, SearchFits
  <2>4. RowFits(k)'
    BY <1>3, <1>5, <2>2, <2>3 DEF RowFits
  <2>5. InsertFits(k)' /\ RemovalFits(k)' /\ SearchFits(k)' /\ PlacesFit(k)'
    BY <1>5 DEF InsertFits, RemovalFits, SearchFits, PlacesFit
  <2>6. OnePrimary \/ Between(k)
    BY <1>5 DEF OnePrimary, Between
  <2>7. "unchecked" \notin imageFault => Cardinality(Images) <= MaxImages
    BY <1>6 DEF AloneKnows
  <2>8. "partial" \notin imageFault => OrdersDiffer
    BY <1>3, <1>6 DEF AloneKnows
  <2> QED BY <2>1, <2>2, <2>3, <2>4, <2>5, <2>6, <2>7, <2>8 DEF AloneKnows, Between
<1>7. ImageMoves(s, k, {}) /\ OwesOnlyThat(r, k, {})
  <2>1. image' \in [ImageIds -> ImageRow \cup {NoImage}]
    BY <1>3, <1>4 DEF ImageTypeOK
  <2> QED BY <1>2, <1>3, <1>6, <2>1 DEF ImageMoves, OwesOnlyThat
<1>8. k.pc # "reorder" /\ {} \in SUBSET ImageFaults
  BY <1>5
<1> QED BY <1>1, <1>4, <1>5, <1>7, <1>8, ImageStep

LEMMA PromoteImageKeeps ==
  ASSUME ImageInv, NEW s \in ImageSlots, PromoteImage(s)
  PROVE  ImageInv'
<1>1. PICK r : r = imageCall[s]
  OBVIOUS
<1>2. PICK i, row : i = r.id /\ row = r.row
  OBVIOUS
<1>3. /\ r.pc = "promote" /\ image' = [image EXCEPT ![i] = row]
      /\ imageCall' = [imageCall EXCEPT ![s] = NoImageCall]
      /\ imageLoad' = imageLoad /\ BlameImages({})
  BY <1>1, <1>2 DEF PromoteImage, ImageAt, EndImage
<1>4. r \in Promotions /\ r # NoImageCall /\ ImageTypeOK
  BY <1>1, <1>3, ImageRequest
<1>5. i \in ImageIds /\ row \in ImageRow
  BY <1>2, <1>4 DEF Promotions
<1>6. /\ image' \in [ImageIds -> ImageRow \cup {NoImage}]
      /\ Images' = Images \cup {i}
      /\ image'[i] = row /\ \A j \in ImageIds : j # i => image'[j] = image[j]
      /\ Primaries' = (Primaries \ {i}) \cup {j \in {i} : row.primary}
  BY <1>3, <1>4, <1>5, RowWritten
<1>7. ASSUME AloneKnows(r), imageFault' = imageFault \cup {}
      PROVE  AloneKnows(NoImageCall)'
  <2>1. /\ imageFault' = imageFault /\ i \in Images /\ Primaries = {}
        /\ row = [image[i] EXCEPT !.primary = TRUE]
    BY <1>2, <1>3, <1>7 DEF AloneKnows, RowFits
  <2>2. row.primary /\ row.order = image[i].order
    <3>1. image[i] \in ImageRow
      BY <1>4, <2>1, ImageRows
    <3> QED BY <2>1, <3>1 DEF ImageRow
  <2>3. Images' = Images /\ Primaries' = {i}
    BY <1>6, <2>1, <2>2
  <2>4. \A j \in Images : image'[j].order = image[j].order
    BY <1>6, <2>2 DEF Images
  <2>5. OrdersDiffer' = OrdersDiffer
    BY <2>3, <2>4, OrdersKept
  <2>6. OnePrimary'
    BY <2>1, <2>3 DEF OnePrimary
  <2>7. NoImageCall.pc = "idle"
    BY DEF NoImageCall
  <2>8. InsertFits(NoImageCall)' /\ RemovalFits(NoImageCall)' /\ SearchFits(NoImageCall)'
        /\ RowFits(NoImageCall)' /\ PlacesFit(NoImageCall)'
    BY <2>7 DEF InsertFits, RemovalFits, SearchFits, RowFits, PlacesFit
  <2>9. "unchecked" \notin imageFault => Cardinality(Images) <= MaxImages
    BY <1>7 DEF AloneKnows
  <2>10. "partial" \notin imageFault => OrdersDiffer
    BY <1>3, <1>7 DEF AloneKnows
  <2>11. \A j, l \in Primaries' : j = l
    BY <2>3
  <2> QED BY <2>1, <2>3, <2>5, <2>6, <2>8, <2>9, <2>10, <2>11 DEF AloneKnows
<1>8. ImageMoves(s, NoImageCall, {}) /\ OwesOnlyThat(r, NoImageCall, {})
  BY <1>3, <1>6, <1>7 DEF ImageMoves, OwesOnlyThat
<1>9. NoImageCall.pc # "reorder" /\ {} \in SUBSET ImageFaults
       /\ NoImageCall \in ImageCalls \cup {NoImageCall}
  BY DEF NoImageCall
<1> QED BY <1>1, <1>4, <1>8, <1>9, ImageStep

(* The places given so far are the ones asked for.                          *)
LEMMA PlacesGiven ==
  ASSUME NEW r, ListMade(r), NEW n \in r.todo, r.list \in Seq(ImageIds),
         \A m \in (1 .. Len(r.list)) \ r.todo : image[r.list[m]].order = m - 1,
         image'[r.list[n]].order = n - 1,
         \A j \in ImageIds : j # r.list[n] => image'[j] = image[j]
  PROVE  \A m \in (1 .. Len(r.list)) \ (r.todo \ {n}) : image'[r.list[m]].order = m - 1
<1> SUFFICES ASSUME NEW m \in (1 .. Len(r.list)) \ (r.todo \ {n})
             PROVE  image'[r.list[m]].order = m - 1
  OBVIOUS
<1>1. CASE m = n
  BY <1>1
<1>2. CASE m # n
  <2>1. n \in 1 .. Len(r.list) /\ r.list[m] # r.list[n]
    BY <1>2 DEF ListMade
  <2>2. r.list[m] \in ImageIds
    OBVIOUS
  <2> QED BY <1>2, <2>1, <2>2
<1> QED BY <1>1, <1>2

(* When all are given, no two images share one.                             *)
LEMMA PlacesDiffer ==
  ASSUME NEW list \in Seq(ImageIds), Images' = ToSet(list),
         \A m \in 1 .. Len(list) : image'[list[m]].order = m - 1
  PROVE  OrdersDiffer'
<1>1. \A i \in Images' : \E m \in 1 .. Len(list) : i = list[m]
  BY DEF ToSet
<1> SUFFICES ASSUME NEW i \in Images', NEW j \in Images', i # j
             PROVE  image'[i].order # image'[j].order
  BY DEF OrdersDiffer
<1>2. PICK m \in 1 .. Len(list) : i = list[m]
  BY <1>1
<1>3. PICK n \in 1 .. Len(list) : j = list[n]
  BY <1>1
<1>4. m # n /\ image'[i].order = m - 1 /\ image'[j].order = n - 1
  BY <1>2, <1>3
<1> QED BY <1>4

LEMMA UpdateOrderKeeps ==
  ASSUME ImageInv, NEW s \in ImageSlots, UpdateOrder(s)
  PROVE  ImageInv'
<1>1. PICK r : r = imageCall[s]
  OBVIOUS
<1>2. PICK marks : marks = IF Images = ToSet(r.list) THEN {} ELSE {"partial"}
  OBVIOUS
<1>3. PICK n \in r.todo :
        /\ image' = IF r.list[n] \in Images
                    THEN [image EXCEPT ![r.list[n]].order = n - 1] ELSE image
        /\ IF r.todo \ {n} = {} THEN EndImage(s)
           ELSE GoOn(s, [r EXCEPT !.todo = r.todo \ {n}])
        /\ imageLoad' = imageLoad /\ BlameImages(marks)
  BY <1>1, <1>2 DEF UpdateOrder
<1>4. PICK k : k = IF r.todo \ {n} = {} THEN NoImageCall
                   ELSE [r EXCEPT !.todo = r.todo \ {n}]
  OBVIOUS
<1>5. imageCall' = [imageCall EXCEPT ![s] = k] /\ r.pc = "reorder"
  BY <1>1, <1>3, <1>4 DEF UpdateOrder, ImageAt, EndImage, GoOn
<1>6. r \in Reorders /\ ListMade(r) /\ r # NoImageCall /\ ImageTypeOK
  BY <1>1, <1>5, ImageRequest
<1>7. /\ n \in 1 .. Len(r.list) /\ r.list \in Seq(ImageIds) /\ r.list[n] \in ImageIds
      /\ n - 1 \in Orders
  <2>1. n \in 1 .. Len(r.list) /\ r.list \in Seq(ImageIds)
    BY <1>6 DEF ListMade, Reorders
  <2>2. Len(r.list) <= Cardinality(ImageIds) /\ Len(r.list) \in Nat
    BY <1>6, <2>1 DEF ListMade
  <2>3. n - 1 \in Orders
    BY <2>1, <2>2, ImagesFinite DEF Orders
  <2> QED BY <2>1, <2>3
<1>8. PICK i : i = r.list[n]
  OBVIOUS
<1>9. ASSUME i \in Images
      PROVE  image'[i] \in ImageRow /\ image'[i].order = n - 1
             /\ image'[i].primary = image[i].primary
  <2>1. image[i] \in ImageRow /\ image'[i] = [image[i] EXCEPT !.order = n - 1]
    BY <1>3, <1>6, <1>8, <1>9, ImageRows DEF ImageTypeOK
  <2> QED BY <1>7, <2>1 DEF ImageRow
<1>10. \A j \in ImageIds : j # i => image'[j] = image[j]
  BY <1>3, <1>6, <1>8 DEF ImageTypeOK
<1>11. image' \in [ImageIds -> ImageRow \cup {NoImage}]
  <2>1. CASE i \in Images
    <3>1. image' = [image EXCEPT ![i] = image'[i]]
      BY <1>3, <1>6, <1>8, <2>1 DEF ImageTypeOK
    <3> QED BY <1>6, <1>9, <2>1, <3>1 DEF ImageTypeOK
  <2>2. CASE i \notin Images
    BY <1>3, <1>6, <1>8, <2>2 DEF ImageTypeOK
  <2> QED BY <2>1, <2>2
<1>12. Images' = Images /\ Primaries' = Primaries
  <2>1. CASE i \in Images
    <3>1. image'[i] # NoImage
      BY <1>9, <2>1, NoImageAssumption
    <3> QED BY <1>9, <1>10, <2>1, <3>1 DEF Images, Primaries
  <2>2. CASE i \notin Images
    BY <1>3, <1>8, <2>2, RowsSame
  <2> QED BY <2>1, <2>2
<1>13. \/ k = NoImageCall /\ r.todo \ {n} = {}
       \/ k \in Reorders /\ k.pc = "reorder" /\ k.list = r.list /\ k.todo = r.todo \ {n}
  BY <1>4, <1>5, <1>6 DEF Reorders
<1>14. ASSUME AloneKnows(r), imageFault' = imageFault \cup marks
       PROVE  AloneKnows(k)'
  <2>1. \A a, b \in Primaries : a = b
    BY <1>14 DEF AloneKnows
  <2>2. k.pc \in {"idle", "reorder"}
    BY <1>13 DEF NoImageCall
  <2>3. InsertFits(k)' /\ RemovalFits(k)' /\ SearchFits(k)' /\ RowFits(k)'
    BY <2>2 DEF InsertFits, RemovalFits, SearchFits, RowFits
  <2>4. /\ "unchecked" \notin imageFault' => Cardinality(Images') <= MaxImages
        /\ imageFault' \cap {"unchecked", "stopped"} = {} => OnePrimary'
    BY <1>5, <1>12, <1>14 DEF AloneKnows, Between, OnePrimary
  <2>5. ASSUME "partial" \notin imageFault'
        PROVE  PlacesFit(k)' /\ (k.pc # "reorder" => OrdersDiffer')
    <3>1. Images = ToSet(r.list) /\ "partial" \notin imageFault
      BY <1>2, <1>14, <2>5
    <3>2. \A m \in (1 .. Len(r.list)) \ r.todo : image[r.list[m]].order = m - 1
      BY <1>5, <1>14, <3>1 DEF AloneKnows, PlacesFit
    <3>3. i \in Images
      BY <1>7, <1>8, <3>1 DEF ToSet
    <3>4. \A m \in (1 .. Len(r.list)) \ (r.todo \ {n}) : image'[r.list[m]].order = m - 1
      BY <1>6, <1>7, <1>8, <1>9, <1>10, <3>2, <3>3, PlacesGiven
    <3>5. CASE r.todo \ {n} = {}
      <4>1. OrdersDiffer'
        BY <1>7, <1>12, <3>1, <3>4, <3>5, PlacesDiffer
      <4>2. k.pc = "idle"
        BY <1>4, <3>5 DEF NoImageCall
      <4> QED BY <4>1, <4>2 DEF PlacesFit
    <3>6. CASE r.todo \ {n} # {}
      <4>1. k.pc = "reorder" /\ k.list = r.list /\ k.todo = r.todo \ {n}
        BY <1>13, <3>6
      <4> QED BY <1>12, <3>1, <3>4, <4>1 DEF PlacesFit
    <3> QED BY <3>5, <3>6
  <2>6. PlacesFit(k)'
    BY <2>5 DEF PlacesFit
  <2> QED BY <1>12, <2>1, <2>3, <2>4, <2>5, <2>6 DEF AloneKnows
<1>15. ImageMoves(s, k, marks) /\ OwesOnlyThat(r, k, marks)
  BY <1>3, <1>5, <1>11, <1>14 DEF ImageMoves, OwesOnlyThat
<1>16. /\ k \in ImageCalls \cup {NoImageCall} /\ marks \in SUBSET ImageFaults
       /\ k.pc = "reorder" => ListMade(k)
  <2>1. k.pc = "reorder" => k.list = r.list /\ k.todo \subseteq r.todo
    BY <1>13 DEF NoImageCall
  <2>2. k.pc = "reorder" => ListMade(k)
    BY <1>6, <2>1 DEF ListMade
  <2> QED BY <1>2, <1>13, <2>2 DEF ImageCalls, ImageFaults
<1> QED BY <1>1, <1>6, <1>15, <1>16, ImageStep

(* An UPDATE of a reorder that is refused: its order is partial from then.  *)
LEMMA UpdateOrderFailsKeeps ==
  ASSUME ImageInv, NEW s \in ImageSlots, UpdateOrderFails(s)
  PROVE  ImageInv'
<1>1. PICK r : r = imageCall[s]
  OBVIOUS
<1>2. PICK n \in r.todo :
        IF r.todo \ {n} = {} THEN EndImage(s)
        ELSE GoOn(s, [r EXCEPT !.todo = r.todo \ {n}])
  BY <1>1 DEF UpdateOrderFails
<1>3. PICK k : k = IF r.todo \ {n} = {} THEN NoImageCall
                   ELSE [r EXCEPT !.todo = r.todo \ {n}]
  OBVIOUS
<1>4. /\ imageCall' = [imageCall EXCEPT ![s] = k] /\ r.pc = "reorder"
      /\ image' = image /\ imageLoad' = imageLoad /\ BlameImages({"partial"})
  BY <1>1, <1>2, <1>3 DEF UpdateOrderFails, ImageAt, EndImage, GoOn
<1>5. r \in Reorders /\ ListMade(r) /\ r # NoImageCall /\ ImageTypeOK
  BY <1>1, <1>4, ImageRequest
<1>6. \/ k = NoImageCall
      \/ k \in Reorders /\ k.pc = "reorder" /\ k.list = r.list /\ k.todo = r.todo \ {n}
  BY <1>3, <1>4, <1>5 DEF Reorders
<1>7. ASSUME AloneKnows(r), imageFault' = imageFault \cup {"partial"}
      PROVE  AloneKnows(k)'
  <2>1. k.pc \in {"idle", "reorder"}
    BY <1>6 DEF NoImageCall
  <2>2. InsertFits(k)' /\ RemovalFits(k)' /\ SearchFits(k)' /\ RowFits(k)'
    BY <2>1 DEF InsertFits, RemovalFits, SearchFits, RowFits
  <2>3. Images' = Images /\ Primaries' = Primaries /\ OnePrimary' = OnePrimary
    BY <1>4, RowsSame
  <2>4. PlacesFit(k)' /\ "partial" \in imageFault'
    BY <1>7 DEF PlacesFit
  <2> QED BY <1>4, <1>7, <2>2, <2>3, <2>4 DEF AloneKnows, Between
<1>8. ImageMoves(s, k, {"partial"}) /\ OwesOnlyThat(r, k, {"partial"})
  BY <1>4, <1>5, <1>7 DEF ImageMoves, OwesOnlyThat, ImageTypeOK
<1>9. k \in ImageCalls \cup {NoImageCall} /\ {"partial"} \in SUBSET ImageFaults
      /\ (k.pc = "reorder" => ListMade(k))
  <2>1. k.pc = "reorder" => k.list = r.list /\ k.todo \subseteq r.todo
    BY <1>6 DEF NoImageCall
  <2>2. k.pc = "reorder" => ListMade(k)
    BY <1>5, <2>1 DEF ListMade
  <2> QED BY <1>6, <2>2 DEF ImageCalls, ImageFaults
<1> QED BY <1>1, <1>5, <1>8, <1>9, ImageStep

(* A request that stops leaves what it wrote.                               *)
LEMMA ImageStopsKeeps ==
  ASSUME ImageInv, NEW s \in ImageSlots, ImageStops(s)
  PROVE  ImageInv'
<1>1. PICK r : r = imageCall[s]
  OBVIOUS
<1>2. PICK marks : marks = IF r.pc = "reorder" THEN {"partial"} ELSE {"stopped"}
  OBVIOUS
<1>3. /\ r # NoImageCall /\ imageCall' = [imageCall EXCEPT ![s] = NoImageCall]
      /\ image' = image /\ imageLoad' = imageLoad /\ BlameImages(marks)
  BY <1>1, <1>2 DEF ImageStops, ImageAt, EndImage
<1>4. NoImageCall.pc = "idle"
  BY DEF NoImageCall
<1>5. ASSUME AloneKnows(r), imageFault' = imageFault \cup marks
      PROVE  AloneKnows(NoImageCall)'
  <2>1. /\ Images' = Images /\ Primaries' = Primaries /\ OnePrimary' = OnePrimary
        /\ OrdersDiffer' = OrdersDiffer
    BY <1>3, RowsSame
  <2>2. InsertFits(NoImageCall)' /\ RemovalFits(NoImageCall)' /\ SearchFits(NoImageCall)'
        /\ RowFits(NoImageCall)' /\ PlacesFit(NoImageCall)'
    BY <1>4 DEF InsertFits, RemovalFits, SearchFits, RowFits, PlacesFit
  <2>3. "partial" \notin imageFault' => OrdersDiffer
    BY <1>2, <1>5 DEF AloneKnows
  <2>4. imageFault' \cap {"unchecked", "stopped"} = {} => OnePrimary
    BY <1>2, <1>5 DEF AloneKnows, Between
  <2> QED BY <1>5, <2>1, <2>2, <2>3, <2>4 DEF AloneKnows
<1>6. ImageMoves(s, NoImageCall, marks) /\ OwesOnlyThat(r, NoImageCall, marks)
  BY <1>3, <1>5 DEF ImageMoves, OwesOnlyThat, ImageInv, ImageMade, ImageTypeOK
<1>7. marks \in SUBSET ImageFaults /\ NoImageCall.pc # "reorder"
      /\ NoImageCall \in ImageCalls \cup {NoImageCall}
  BY <1>2, <1>4 DEF ImageFaults
<1> QED BY <1>1, <1>3, <1>6, <1>7, ImageStep

-----------------------------------------------------------------------------
LEMMA ImageInvInit == ImageInit => ImageInv /\ ImageLoadFits
<1> SUFFICES ASSUME ImageInit PROVE ImageInv /\ ImageLoadFits
  OBVIOUS
<1>1. NoImageCall.pc = "idle"
  BY DEF NoImageCall
<1>2. Images = {} /\ Primaries = {} /\ ImagesBusy = {}
  BY DEF ImageInit, Images, Primaries, ImagesBusy
<1>3. ImageLoadFits
  BY ImageAssumption DEF ImageInit, ImageLoadFits
<1>4. ImageMade
  BY <1>1 DEF ImageInit, ImageMade, ImageTypeOK
<1>5. Cardinality(Images) <= MaxImages
  <2>1. Cardinality(Images) = 0
    BY <1>2, FS_EmptySet
  <2> QED BY <2>1, ImageAssumption
<1>6. OnePrimary /\ OrdersDiffer
  BY <1>2 DEF OnePrimary, OrdersDiffer
<1>7. AloneKnows(NoImageCall)
  BY <1>1, <1>2, <1>5, <1>6 DEF AloneKnows, InsertFits, RemovalFits, SearchFits, RowFits,
                               PlacesFit
<1>8. ImagesCalm
  BY <1>2, <1>7 DEF ImagesCalm
<1> QED BY <1>3, <1>4, <1>8 DEF ImageInv

LEMMA ImageInvKept ==
  ImageInv /\ ImageLoadFits /\ [ImageNext]_imageVars => ImageInv' /\ ImageLoadFits'
<1> SUFFICES ASSUME ImageInv, ImageLoadFits, [ImageNext]_imageVars
             PROVE  ImageInv' /\ ImageLoadFits'
  OBVIOUS
<1>1. CASE UNCHANGED imageVars
  <2>3. /\ image' = image /\ imageCall' = imageCall /\ imageLoad' = imageLoad
        /\ imageFault' = imageFault
    BY <1>1 DEF imageVars
  <2>4. /\ Images' = Images /\ Primaries' = Primaries /\ OnePrimary' = OnePrimary
        /\ OrdersDiffer' = OrdersDiffer
    BY <2>3, RowsSame
  <2>5. ImageMade'
    BY <2>3 DEF ImageInv, ImageMade, ImageTypeOK, ListMade
  <2>6. ASSUME NEW k, AloneKnows(k) PROVE AloneKnows(k)'
    BY <2>3, <2>4, <2>6
       DEF AloneKnows, InsertFits, RemovalFits, SearchFits, RowFits, PlacesFit, Between
  <2>1. ImageInv'
    BY <2>3, <2>5, <2>6 DEF ImageInv, ImagesCalm, ImagesBusy
  <2> QED BY <1>1, <2>1 DEF imageVars, ImageLoadFits
<1>2. CASE ImageNext
  <2>1. PICK s \in imageLoad.slots :
          \/ ConfirmUpload(s) \/ AddImage(s) \/ DemoteAll(s) \/ InsertImage(s)
          \/ (\E i \in ImageIds : DeleteImage(s, i))
          \/ RemoveImage(s) \/ FindNext(s) \/ PromoteImage(s)
          \/ (\E i \in ImageIds : SetPrimaryImage(s, i))
          \/ DemoteOthers(s) \/ ReorderImages(s) \/ UpdateOrder(s)
          \/ UpdateOrderFails(s) \/ ImageStops(s)
    BY <1>2 DEF ImageNext
  <2>2. s \in ImageSlots
    BY DEF ImageLoadFits
  <2>3. ImageInv'
    BY <2>1, <2>2, ConfirmUploadKeeps, AddImageKeeps, DemoteAllKeeps, InsertImageKeeps,
       DeleteImageKeeps, RemoveImageKeeps, FindNextKeeps, PromoteImageKeeps,
       SetPrimaryImageKeeps, DemoteOthersKeeps, ReorderImagesKeeps, UpdateOrderKeeps,
       UpdateOrderFailsKeeps, ImageStopsKeeps
  <2>4. imageLoad' = imageLoad
    BY <2>1 DEF ConfirmUpload, AddImage, DemoteAll, InsertImage, DeleteImage, RemoveImage,
         FindNext, PromoteImage, SetPrimaryImage, DemoteOthers, ReorderImages, UpdateOrder,
         UpdateOrderFails, ImageStops
  <2> QED BY <2>3, <2>4 DEF ImageLoadFits
<1> QED BY <1>1, <1>2

(* The images of a product, whatever of confirmUpload, addImage,            *)
(* deleteImage, setPrimaryImage and reorderImages of ImageService and       *)
(* ProductService runs at a time, for any number of images and requests:    *)
(* one is primary once nothing runs, never two, no two share a position,    *)
(* and the limit holds, save for overlaps, requests that stop, unchecked    *)
(* images and partial reorders.                                             *)
THEOREM ImagesStayConsistent == ImageSpec => []ImagesConsistent
<1>1. ImageInit => ImageInv /\ ImageLoadFits
  BY ImageInvInit
<1>2. ImageInv /\ ImageLoadFits /\ [ImageNext]_imageVars => (ImageInv /\ ImageLoadFits)'
  BY ImageInvKept
<1>3. ImageInv => ImagesConsistent
  <2> SUFFICES ASSUME ImageInv PROVE ImagesConsistent
    OBVIOUS
  <2>1. "overlap" \in imageFault => ImagesConsistent
    BY DEF ImagesConsistent, OnePrimaryImage, NeverTwoPrimaries, PositionsDiffer,
         ImagesBounded
  <2>2. ASSUME "overlap" \notin imageFault PROVE ImagesConsistent
    <3>1. ImagesCalm
      BY <2>2 DEF ImageInv
    <3>2. PICK k : AloneKnows(k) /\ (ImagesBusy = {} => k = NoImageCall)
      BY <3>1 DEF ImagesCalm
    <3>3. ImagesBusy = {} => k.pc = "idle"
      BY <3>2 DEF NoImageCall
    <3>4. NeverTwoPrimaries
      BY <3>2 DEF AloneKnows, NeverTwoPrimaries
    <3>5. OnePrimaryImage
      <4>1. imageFault \cap {"unchecked", "stopped"} = {} => OnePrimary \/ Between(k)
        BY <3>2 DEF AloneKnows
      <4> QED BY <3>3, <4>1 DEF Between, OnePrimaryImage
    <3>6. PositionsDiffer
      BY <3>2, <3>3 DEF AloneKnows, PositionsDiffer
    <3>7. ImagesBounded
      <4>1. "unchecked" \notin imageFault => Cardinality(Images) <= MaxImages
        BY <3>2 DEF AloneKnows
      <4> QED BY <4>1, ImagesFinite, ImageAssumption DEF ImagesBounded
    <3> QED BY <3>4, <3>5, <3>6, <3>7 DEF ImagesConsistent
  <2> QED BY <2>1, <2>2
<1> QED BY <1>1, <1>2, <1>3, PTL DEF ImageSpec

-----------------------------------------------------------------------------
(* Featured products.                                                       *)

(* Whatever happens: a list about to be saved is within the limit, and what *)
(* is added is not removed.                                                 *)
Apart(e) == e.added \cap e.removed = {}
ChangeMade(k) ==
  /\ k.pc = "saveList" => Cardinality(k.list) <= FeaturedLimit
  /\ k.pc \in {"saveList", "emit", "flagAdded", "flagRemoved"} => Apart(k)
FeatureMade ==
  /\ FeatureTypeOK /\ ListBounded
  /\ \A n \in 1 .. Len(updates) : Apart(updates[n])
  /\ \A s \in FeatureSlots : ChangeMade(featureCall[s])

(* The last event that names a product says what the list says of it.       *)
Names(e, p) == p \in e.added \cup e.removed
LastNames(n, p) == /\ Names(updates[n], p)
                   /\ \A m \in 1 .. Len(updates) : m > n => ~Names(updates[m], p)
Unnamed(p) == \A n \in 1 .. Len(updates) : ~Names(updates[n], p)
LastSays(list) == \A p \in Showcase, n \in 1 .. Len(updates) :
  LastNames(n, p) => (p \in updates[n].added <=> p \in list)

(* The flag of a product no event names is that of the list, but for what   *)
(* the events at work, k, still have to set.                                *)
FlagSays(k, p, list) ==
  IF k.pc \in {"flagAdded", "flagRemoved"} /\ p \in k.removed THEN p \notin list
  ELSE IF k.pc = "flagAdded" /\ p \in k.added THEN p \in list
  ELSE featured[p] = (p \in list)

(* The list as it was told: a saved change is told when it is emitted.      *)
Told(k) == IF k.pc = "emit" THEN (topList \ k.added) \cup k.removed ELSE topList

ChangeFits(k) ==
  /\ k.pc = "saveList" => k.added = k.list \ topList /\ k.removed = topList \ k.list
  /\ k.pc = "emit" => /\ topList = k.list /\ k.added \subseteq k.list
                      /\ k.removed \cap k.list = {}
  /\ k.pc \in {"saveList", "emit"} /\ k.then = "flag" => k.on = (k.product \in k.list)
  /\ k.pc = "flag" => k.on \in {k.product \in topList, featured[k.product]}
  /\ k.pc = "fillCopy" /\ k.next.pc = "flag" =>
       k.next.on \in {k.next.product \in topList, featured[k.next.product]}

CacheFits(k) == /\ k.pc # "emit" => CacheInStep
                /\ k.pc = "fill" => k.list = topList

(* What holds beside k, the only handler, or none.                          *)
FlagsSound == featureFault \cap {"lost", "stale"} = {}
AloneSays(k) ==
  /\ CacheFits(k)
  /\ FlagsSound =>
       /\ ChangeFits(k) /\ LastSays(Told(k))
       /\ \A p \in Showcase : Unnamed(p) => FlagSays(k, p, Told(k))

FeatureCalm ==
  /\ \A s, t \in FeatureBusy : s = t
  /\ FeatureBusy = {} => AloneSays(NoFeatureCall)
  /\ \A s \in FeatureBusy : AloneSays(featureCall[s])

FeatureInv ==
  FeatureMade /\ (featureFault \cap {"overlap", "stopped"} = {} => FeatureCalm)

-----------------------------------------------------------------------------
LEMMA FeatureKinds ==
  ASSUME NEW k \in FeatureCalls \cup {NoFeatureCall}
  PROVE  /\ k.pc = "toggle" => k \in FlagChanges
         /\ k.pc \in {"saveList", "emit"} => k \in ListChanges \cup ToggledLists
         /\ k.pc \in Outcomes => k \in FlagChanges \cup ToggledLists
         /\ k.pc = "fill" => k \in ListReads
         /\ k.pc \in {"flagAdded", "flagRemoved"} => k \in FlagSyncs
         /\ k.pc = "fillCopy" => k \in CopyFills
         /\ k.pc \in Ends => k \in CopyDrops
         /\ k = NoFeatureCall <=> k.pc = "idle"
<1>1. k \in ListChanges \/ k \in FlagChanges \/ k \in ToggledLists \/ k \in ListReads
      \/ k \in FlagSyncs \/ k \in CopyFills \/ k \in CopyDrops \/ k = NoFeatureCall
  BY DEF FeatureCalls
<1>2. ASSUME k \in ListChanges PROVE k.pc \in {"saveList", "emit"}
  BY <1>2 DEF ListChanges
<1>3. ASSUME k \in FlagChanges PROVE k.pc \in {"toggle", "flag", "refused"}
  BY <1>3 DEF FlagChanges, Outcomes
<1>4. ASSUME k \in ToggledLists PROVE k.pc \in {"saveList", "emit", "flag", "refused"}
  BY <1>4 DEF ToggledLists, Outcomes
<1>5. ASSUME k \in ListReads PROVE k.pc = "fill"
  BY <1>5 DEF ListReads
<1>6. ASSUME k \in FlagSyncs PROVE k.pc \in {"flagAdded", "flagRemoved"}
  BY <1>6 DEF FlagSyncs
<1>7. NoFeatureCall.pc = "idle"
  BY DEF NoFeatureCall
<1>8. ASSUME k \in CopyFills PROVE k.pc = "fillCopy"
  BY <1>8 DEF CopyFills
<1>9. ASSUME k \in CopyDrops PROVE k.pc \in {"drop", "reread"}
  BY <1>9 DEF CopyDrops, Ends
<1> HIDE DEF ListChanges, FlagChanges, ToggledLists, ListReads, FlagSyncs, CopyFills,
             CopyDrops, NoFeatureCall
<1> QED BY <1>1, <1>2, <1>3, <1>4, <1>5, <1>6, <1>7, <1>8, <1>9 DEF Outcomes, Ends

(* The handler a step carries on.                                           *)
LEMMA FeatureHandler ==
  ASSUME FeatureInv, NEW s \in FeatureSlots, NEW r, r = featureCall[s]
  PROVE  /\ r \in FeatureCalls \cup {NoFeatureCall} /\ FeatureTypeOK /\ ListBounded
         /\ ChangeMade(r) /\ (r.pc # "idle" => r # NoFeatureCall)
         /\ \A n \in 1 .. Len(updates) : Apart(updates[n])
<1>1. r \in FeatureCalls \cup {NoFeatureCall} /\ FeatureTypeOK /\ ListBounded
      /\ ChangeMade(r)
      /\ \A n \in 1 .. Len(updates) : Apart(updates[n])
  BY DEF FeatureInv, FeatureMade, FeatureTypeOK
<1> QED BY <1>1, FeatureKinds

(* Flags and cache that are in step need no mark.                           *)
LEMMA StepNeedsNoMark ==
  ASSUME FeatureBusy' = {}, updates' = <<>>, InStep', CacheInStep'
  PROVE  FeatureCalm'
<1>1. NoFeatureCall.pc = "idle"
  BY DEF NoFeatureCall
<1>2. Told(NoFeatureCall)' = topList'
  BY <1>1 DEF Told
<1>3. LastSays(Told(NoFeatureCall))'
  BY DEF LastSays
<1>4. \A p \in Showcase : FlagSays(NoFeatureCall, p, Told(NoFeatureCall))'
  BY <1>1, <1>2 DEF FlagSays, InStep
<1>5. CacheFits(NoFeatureCall)' /\ ChangeFits(NoFeatureCall)'
  BY <1>1 DEF CacheFits, ChangeFits
<1>6. AloneSays(NoFeatureCall)'
  BY <1>3, <1>4, <1>5 DEF AloneSays
<1> QED BY <1>6 DEF FeatureCalm

(* What a handler's step does, and what it owes while it is the only one.   *)
CopiesTyped == /\ made' \in SUBSET Showcase
               /\ flagCached' \in [Showcase -> BOOLEAN \cup {NotCached}]
               /\ featureLoad' \in FeatureLoads
FeatureMoves(s, k) ==
  /\ CopiesTyped
  /\ featureCall' = [featureCall EXCEPT ![s] = k]
  /\ topList' \in SUBSET Showcase /\ Cardinality(topList') <= FeaturedLimit
  /\ topCached' \in (SUBSET Showcase) \cup {NotCached}
  /\ featured' \in [Showcase -> BOOLEAN]
  /\ updates' \in Seq(Event) /\ \A n \in 1 .. Len(updates') : Apart(updates'[n])
  /\ BlameFeature({}) \/ BlameFeature({"stale"})
OwesToSay(r, k) ==
  AloneSays(r) /\ featureFault \subseteq featureFault' => AloneSays(k)'

LEMMA CopiesStayTyped ==
  ASSUME FeatureInv, UNCHANGED copyVars
  PROVE  CopiesTyped
BY DEF FeatureInv, FeatureMade, FeatureTypeOK, copyVars, CopiesTyped

LEMMA FeatureStep ==
  ASSUME FeatureInv, NEW s \in FeatureSlots, NEW r, r = featureCall[s],
         NEW k \in FeatureCalls \cup {NoFeatureCall},
         r # NoFeatureCall \/ k # NoFeatureCall,
         ChangeMade(k), FeatureMoves(s, k), OwesToSay(r, k)
  PROVE  FeatureInv'
<1>1. featureCall \in [FeatureSlots -> FeatureCalls \cup {NoFeatureCall}]
  BY DEF FeatureInv, FeatureMade, FeatureTypeOK
<1>2. featureCall'[s] = k
      /\ \A t \in FeatureSlots : t # s => featureCall'[t] = featureCall[t]
  BY <1>1 DEF FeatureMoves
<1> HIDE DEF FeatureCalls, NoFeatureCall
<1>3. featureFault' \subseteq FeatureFaults
  BY DEF FeatureMoves, BlameFeature, FeatureInv, FeatureMade, FeatureTypeOK, FeatureFaults
<1>4. FeatureMade'
  <2>1. FeatureTypeOK' /\ ListBounded' /\ \A n \in 1 .. Len(updates') : Apart(updates'[n])
    BY <1>1, <1>3 DEF FeatureMoves, CopiesTyped, FeatureTypeOK, ListBounded
  <2>2. \A t \in FeatureSlots : ChangeMade(featureCall'[t])
    BY <1>2 DEF FeatureInv, FeatureMade
  <2> QED BY <2>1, <2>2 DEF FeatureMade, ChangeMade, Apart
<1>5. CASE FeatureBusy' = {} /\ updates' = <<>> /\ InStep' /\ CacheInStep'
  BY <1>4, <1>5, StepNeedsNoMark DEF FeatureInv
<1>6. CASE ~(FeatureBusy' = {} /\ updates' = <<>> /\ InStep' /\ CacheInStep')
  <2> SUFFICES ASSUME featureFault' \cap {"overlap", "stopped"} = {} PROVE FeatureCalm'
    BY <1>4 DEF FeatureInv
  <2>1. featureFault \subseteq featureFault' /\ \A t, u \in FeatureBusy' : t = u
    BY <1>6 DEF FeatureMoves, BlameFeature
  <2>2. FeatureCalm
    BY <2>1 DEF FeatureInv
  <2>3. \A t \in FeatureSlots : t # s => featureCall[t] = NoFeatureCall
    BY <1>2, <2>1, <2>2 DEF FeatureCalm, FeatureBusy
  <2>4. AloneSays(r)
    <3>1. CASE r # NoFeatureCall
      BY <2>2, <3>1 DEF FeatureCalm, FeatureBusy
    <3>2. CASE r = NoFeatureCall
      BY <2>2, <2>3, <3>2 DEF FeatureCalm, FeatureBusy
    <3> QED BY <3>1, <3>2
  <2>5. AloneSays(k)'
    BY <2>1, <2>4 DEF OwesToSay
  <2>6. FeatureBusy' = {} => k = NoFeatureCall
    BY <1>2 DEF FeatureBusy
  <2>7. ASSUME NEW t \in FeatureBusy' PROVE AloneSays(featureCall[t])'
    <3>1. t = s
      BY <1>2, <2>3, <2>7 DEF FeatureBusy
    <3> QED BY <1>2, <2>5, <3>1
  <2> QED BY <2>1, <2>5, <2>6, <2>7 DEF FeatureCalm
<1> QED BY <1>5, <1>6

-----------------------------------------------------------------------------
(* Steps that write nothing: what the handler knows follows from what it    *)
(* knew.                                                                    *)
LEMMA FeatureCallOnly ==
  ASSUME FeatureInv, NEW s \in FeatureSlots, NEW r, r = featureCall[s],
         NEW k \in FeatureCalls \cup {NoFeatureCall},
         r # NoFeatureCall \/ k # NoFeatureCall,
         featureCall' = [featureCall EXCEPT ![s] = k],
         UNCHANGED <<topList, topCached, featured, updates>>, CopiesTyped,
         BlameFeature({}), ChangeMade(k), CacheFits(r) => CacheFits(k),
         ChangeFits(r) => ChangeFits(k),
         Told(k) = Told(r),
         \A p \in Showcase : FlagSays(r, p, Told(r)) => FlagSays(k, p, Told(r))
  PROVE  FeatureInv'
<1>1. FeatureMoves(s, k)
  BY DEF FeatureMoves, FeatureInv, FeatureMade, FeatureTypeOK, ListBounded
<1>2. ASSUME AloneSays(r), featureFault \subseteq featureFault'
      PROVE  AloneSays(k)'
  <2>1. AloneSays(k)
    BY <1>2 DEF AloneSays
  <2>2. FlagsSound' => FlagsSound
    BY <1>2 DEF FlagsSound
  <2> QED BY <1>2, <2>1, <2>2 DEF AloneSays, CacheFits, CacheInStep, ChangeFits, Told,
               LastSays, LastNames, Unnamed, FlagSays
<1>3. OwesToSay(r, k)
  BY <1>2 DEF OwesToSay
<1> QED BY <1>1, <1>3, FeatureStep

LEMMA FeatureBegins ==
  ASSUME FeatureInv, NEW s \in FeatureSlots, NEW k \in FeatureCalls, NEW h,
         StartFeature(s, h, k), UNCHANGED <<topList, topCached, featured, updates>>,
         CopiesTyped, BlameFeature({}),
         ChangeMade(k), k.pc # "emit", k.pc = "fill" => k.list = topList, ChangeFits(k),
         \A p \in Showcase : featured[p] = (p \in topList) => FlagSays(k, p, topList)
  PROVE  FeatureInv'
<1>1. PICK r : r = NoFeatureCall
  OBVIOUS
<1>2. r.pc = "idle" /\ r = featureCall[s] /\ featureCall' = [featureCall EXCEPT ![s] = k]
  BY <1>1 DEF NoFeatureCall, StartFeature
<1>3. k # NoFeatureCall
  <2>1. k.pc # "idle"
    BY DEF FeatureCalls, ListChanges, FlagChanges, ToggledLists, ListReads, FlagSyncs,
           CopyFills, CopyDrops, Outcomes, Ends
  <2> QED BY <2>1 DEF NoFeatureCall
<1>4. Told(k) = topList /\ Told(r) = topList
  BY <1>2 DEF Told
<1>5. CacheFits(r) => CacheFits(k)
  BY <1>2 DEF CacheFits
<1>6. \A p \in Showcase : FlagSays(r, p, topList) => FlagSays(k, p, topList)
  BY <1>2 DEF FlagSays
<1>7. k \in FeatureCalls \cup {NoFeatureCall}
  OBVIOUS
<1> HIDE DEF FeatureCalls, NoFeatureCall
<1> QED BY <1>2, <1>3, <1>4, <1>5, <1>6, <1>7, FeatureCallOnly

LEMMA ReplaceListKeeps ==
  ASSUME FeatureInv, NEW s \in FeatureSlots, ReplaceList(s)
  PROVE  FeatureInv'
<1>0. CopiesTyped
  BY CopiesStayTyped DEF ReplaceList
<1>1. PICK l \in Lists :
        StartFeature(s, "replace", [pc |-> "saveList", list |-> l, added |-> l \ topList,
                                    removed |-> topList \ l, then |-> "end"])
  BY DEF ReplaceList
<1>2. PICK k : k = [pc |-> "saveList", list |-> l, added |-> l \ topList,
                    removed |-> topList \ l, then |-> "end"]
  OBVIOUS
<1>3. /\ k.pc = "saveList" /\ k.list = l /\ k.added = l \ topList
      /\ k.removed = topList \ l /\ k.then = "end"
  BY <1>2
<1>4. l \subseteq Showcase /\ Cardinality(l) <= FeaturedLimit /\ topList \subseteq Showcase
  BY DEF Lists, FeatureInv, FeatureMade, FeatureTypeOK
<1>5. k \in FeatureCalls
  <2>1. k \in ListChanges
    BY <1>2, <1>4 DEF ListChanges
  <2> QED BY <2>1 DEF FeatureCalls
<1>6. ChangeMade(k) /\ ChangeFits(k)
  BY <1>3, <1>4 DEF ChangeMade, Apart, ChangeFits
<1>7. \A p \in Showcase : featured[p] = (p \in topList) => FlagSays(k, p, topList)
  BY <1>3 DEF FlagSays
<1>8. StartFeature(s, "replace", k) /\ UNCHANGED <<topList, topCached, featured, updates>>
      /\ BlameFeature({})
  BY <1>1, <1>2 DEF ReplaceList
<1> QED BY <1>0, <1>3, <1>5, <1>6, <1>7, <1>8, FeatureBegins

LEMMA GetTopListKeeps ==
  ASSUME FeatureInv, NEW s \in FeatureSlots, GetTopList(s)
  PROVE  FeatureInv'
<1>0. CopiesTyped
  BY CopiesStayTyped DEF GetTopList
<1>1. PICK k : k = [pc |-> "fill", list |-> topList]
  OBVIOUS
<1>2. StartFeature(s, "read", k) /\ UNCHANGED <<topList, topCached, featured, updates>>
      /\ BlameFeature({})
  BY <1>1 DEF GetTopList
<1>3. k.pc = "fill" /\ k.list = topList
  BY <1>1
<1>4. k \in FeatureCalls
  BY <1>1 DEF FeatureCalls, ListReads, FeatureInv, FeatureMade, FeatureTypeOK
<1>5. ChangeMade(k) /\ ChangeFits(k)
  BY <1>3 DEF ChangeMade, ChangeFits
<1>6. \A p \in Showcase : featured[p] = (p \in topList) => FlagSays(k, p, topList)
  BY <1>3 DEF FlagSays
<1> QED BY <1>0, <1>2, <1>3, <1>4, <1>5, <1>6, FeatureBegins

(* What findById answers with: next, now or once the copy is filled.        *)
LEMMA FoundFits ==
  ASSUME FeatureInv, NEW p \in Showcase, NEW next \in FlagChanges \cup {NoFeatureCall},
         NEW k, k = Found(p, next), next.pc \in {"toggle", "flag", "idle"},
         flagCached[p] = NotCached /\ next.pc = "flag" =>
           next.on \in {next.product \in topList, featured[next.product]}
  PROVE  /\ k \in FeatureCalls \cup {NoFeatureCall}
         /\ k.pc \in {"toggle", "flag", "idle", "fillCopy"}
         /\ next.pc # "idle" => k \in FeatureCalls
         /\ k = next \/ k.pc = "fillCopy"
         /\ k.pc = "fillCopy" => ChangeFits(k)
<1>1. CASE flagCached[p] # NotCached
  <2>1. k = next
    BY <1>1 DEF Found
  <2>2. next.pc # "idle" => next \in FlagChanges
    BY DEF NoFeatureCall
  <2> QED BY <2>1, <2>2 DEF FeatureCalls
<1>2. CASE flagCached[p] = NotCached
  <2>1. k = [pc |-> "fillCopy", product |-> p, was |-> featured[p], next |-> next]
    BY <1>2 DEF Found, Filling
  <2>2. featured[p] \in BOOLEAN
    BY DEF FeatureInv, FeatureMade, FeatureTypeOK
  <2>3. k \in CopyFills /\ k.pc = "fillCopy" /\ k.next = next
    BY <2>1, <2>2 DEF CopyFills
  <2> QED BY <1>2, <2>3 DEF FeatureCalls, ChangeFits
<1> QED BY <1>1, <1>2

LEMMA UpdateFlagKeeps ==
  ASSUME FeatureInv, NEW s \in FeatureSlots, UpdateFlag(s)
  PROVE  FeatureInv'
<1>0. CopiesTyped
  BY CopiesStayTyped DEF UpdateFlag
<1>1. PICK p \in made, on \in BOOLEAN :
        StartFeature(s, "updateFlag",
          Found(p, [pc |-> "toggle", product |-> p, on |-> on, then |-> "flag",
                    after |-> "drop"]))
  BY DEF UpdateFlag
<1>2. PICK n : n = [pc |-> "toggle", product |-> p, on |-> on, then |-> "flag",
                    after |-> "drop"]
  OBVIOUS
<1>3. p \in Showcase
  BY DEF FeatureInv, FeatureMade, FeatureTypeOK
<1>4. n.pc = "toggle" /\ n \in FlagChanges
  BY <1>2, <1>3 DEF FlagChanges, Outcomes, Ends
<1>5. PICK k : k = Found(p, n)
  OBVIOUS
<1>6. /\ k \in FeatureCalls /\ k.pc \in {"toggle", "fillCopy"}
      /\ k.pc = "fillCopy" => ChangeFits(k)
  <2>1. n \in FlagChanges \cup {NoFeatureCall} /\ n.pc \in {"toggle", "flag", "idle"}
        /\ n.pc # "flag" /\ n.pc # "idle"
    BY <1>4
  <2>2. k \in FeatureCalls /\ (k = n \/ k.pc = "fillCopy")
        /\ (k.pc = "fillCopy" => ChangeFits(k))
    BY <1>3, <1>5, <2>1, FoundFits
  <2> QED BY <1>4, <2>2
<1>7. /\ StartFeature(s, "updateFlag", k) /\ BlameFeature({})
      /\ UNCHANGED <<topList, topCached, featured, updates>>
  BY <1>1, <1>2, <1>5 DEF UpdateFlag
<1>8. ChangeMade(k) /\ ChangeFits(k)
  BY <1>6 DEF ChangeMade, ChangeFits
<1>9. \A q \in Showcase : featured[q] = (q \in topList) => FlagSays(k, q, topList)
  BY <1>6 DEF FlagSays
<1>10. k.pc # "emit" /\ (k.pc = "fill" => k.list = topList)
  BY <1>6
<1> QED BY <1>0, <1>6, <1>7, <1>8, <1>9, <1>10, FeatureBegins

LEMMA UpdateOtherKeeps ==
  ASSUME FeatureInv, NEW s \in FeatureSlots, UpdateOther(s)
  PROVE  FeatureInv'
<1>0. CopiesTyped /\ UNCHANGED <<topList, topCached, featured, updates>>
  BY CopiesStayTyped DEF UpdateOther
<1>1. PICK p \in made :
        /\ StartFeature(s, "updateOther",
             Found(p, [pc |-> "flag", product |-> p, on |-> IsFeatured(p),
                       then |-> "flag", after |-> "drop"]))
        /\ BlameFeature(IF IsFeatured(p) = featured[p] THEN {} ELSE {"stale"})
  BY DEF UpdateOther
<1>2. PICK n : n = [pc |-> "flag", product |-> p, on |-> IsFeatured(p),
                    then |-> "flag", after |-> "drop"]
  OBVIOUS
<1>3. /\ p \in Showcase /\ featured[p] \in BOOLEAN /\ IsFeatured(p) \in BOOLEAN
      /\ flagCached[p] = NotCached => IsFeatured(p) = featured[p]
  BY DEF FeatureInv, FeatureMade, FeatureTypeOK, IsFeatured
<1>4. n.pc = "flag" /\ n \in FlagChanges /\ n.on = IsFeatured(p) /\ n.product = p
  BY <1>2, <1>3 DEF FlagChanges, Outcomes, Ends
<1>5. PICK k : k = Found(p, n)
  OBVIOUS
<1>6. /\ k \in FeatureCalls /\ k.pc \in {"flag", "fillCopy"}
      /\ k = n \/ k.pc = "fillCopy"
      /\ k.pc = "fillCopy" => ChangeFits(k)
  <2>1. n \in FlagChanges \cup {NoFeatureCall} /\ n.pc \in {"toggle", "flag", "idle"}
        /\ n.pc # "idle"
    BY <1>4
  <2>2. flagCached[p] = NotCached /\ n.pc = "flag" =>
           n.on \in {n.product \in topList, featured[n.product]}
    BY <1>3, <1>4
  <2>3. k \in FeatureCalls /\ (k = n \/ k.pc = "fillCopy")
        /\ (k.pc = "fillCopy" => ChangeFits(k))
    BY <1>3, <1>5, <2>1, <2>2, FoundFits
  <2> QED BY <1>4, <2>3
<1>7. StartFeature(s, "updateOther", k)
  BY <1>1, <1>2, <1>5
<1>8. /\ ChangeMade(k) /\ k.pc # "emit" /\ (k.pc = "fill" => k.list = topList)
      /\ \A q \in Showcase : featured[q] = (q \in topList) => FlagSays(k, q, topList)
  BY <1>6 DEF ChangeMade, FlagSays
<1>9. CASE IsFeatured(p) = featured[p]
  <2>1. ChangeFits(k)
    BY <1>4, <1>6, <1>9 DEF ChangeFits
  <2>2. BlameFeature({})
    BY <1>1, <1>9
  <2> QED BY <1>0, <1>6, <1>7, <1>8, <2>1, <2>2, FeatureBegins
<1>10. CASE IsFeatured(p) # featured[p]
  <2>1. BlameFeature({"stale"})
    BY <1>1, <1>10
  <2>2. PICK r : r = featureCall[s]
    OBVIOUS
  <2>3. r = NoFeatureCall /\ featureCall' = [featureCall EXCEPT ![s] = k]
    BY <1>7, <2>2 DEF StartFeature
  <2>4. r.pc = "idle" /\ k # NoFeatureCall
    BY <1>6, <2>3 DEF NoFeatureCall
  <2>5. FeatureMoves(s, k)
    BY <1>0, <2>1, <2>3 DEF FeatureMoves, FeatureInv, FeatureMade, FeatureTypeOK,
                            ListBounded
  <2>6. ASSUME AloneSays(r) PROVE AloneSays(k)'
    <3>1. CacheFits(k)'
      BY <1>0, <1>6, <2>4, <2>6 DEF AloneSays, CacheFits, CacheInStep
    <3>2. FeatureBusy' # {}
      <4>1. featureCall'[s] = k
        BY <2>3 DEF FeatureInv, FeatureMade, FeatureTypeOK
      <4> QED BY <2>4, <4>1 DEF FeatureBusy
    <3>3. "stale" \in featureFault'
      BY <2>1, <3>2 DEF BlameFeature
    <3>4. ~FlagsSound'
      BY <3>3 DEF FlagsSound
    <3> QED BY <3>1, <3>4 DEF AloneSays
  <2>7. OwesToSay(r, k)
    BY <2>6 DEF OwesToSay
  <2>8. k \in FeatureCalls \cup {NoFeatureCall}
    BY <1>6
  <2> QED BY <1>8, <2>2, <2>4, <2>5, <2>7, <2>8, FeatureStep
<1> QED BY <1>9, <1>10

LEMMA FindProductKeeps ==
  ASSUME FeatureInv, NEW s \in FeatureSlots, FindProduct(s)
  PROVE  FeatureInv'
<1>0. CopiesTyped
  BY CopiesStayTyped DEF FindProduct
<1>1. PICK p \in made : StartFeature(s, "find", Filling(p, NoFeatureCall))
  BY DEF FindProduct
<1>2. PICK k : k = Filling(p, NoFeatureCall)
  OBVIOUS
<1>3. p \in Showcase /\ featured[p] \in BOOLEAN
  BY DEF FeatureInv, FeatureMade, FeatureTypeOK
<1>4. k.pc = "fillCopy" /\ k.next = NoFeatureCall /\ k \in CopyFills
  BY <1>2, <1>3 DEF Filling, CopyFills
<1>5. k \in FeatureCalls /\ k.next.pc = "idle"
  BY <1>4 DEF FeatureCalls, NoFeatureCall
<1>6. /\ StartFeature(s, "find", k) /\ BlameFeature({})
      /\ UNCHANGED <<topList, topCached, featured, updates>>
  BY <1>1, <1>2 DEF FindProduct
<1>7. ChangeMade(k) /\ ChangeFits(k)
  BY <1>4, <1>5 DEF ChangeMade, ChangeFits
<1>8. \A q \in Showcase : featured[q] = (q \in topList) => FlagSays(k, q, topList)
  BY <1>4 DEF FlagSays
<1>9. k.pc # "emit" /\ (k.pc = "fill" => k.list = topList)
  BY <1>4
<1> QED BY <1>0, <1>5, <1>6, <1>7, <1>8, <1>9, FeatureBegins

LEMMA CreateProductKeeps ==
  ASSUME FeatureInv, NEW s \in FeatureSlots, CreateProduct(s)
  PROVE  FeatureInv'
<1>1. PICK p \in Showcase \ made, asked \in BOOLEAN :
        /\ made' = made \cup {p}
        /\ StartFeature(s, "create",
             IF asked THEN [pc |-> "toggle", product |-> p, on |-> TRUE,
                            then |-> "flag", after |-> "reread"]
             ELSE [pc |-> "reread", product |-> p])
  BY DEF CreateProduct
<1>2. PICK k : k = IF asked THEN [pc |-> "toggle", product |-> p, on |-> TRUE,
                                  then |-> "flag", after |-> "reread"]
                   ELSE [pc |-> "reread", product |-> p]
  OBVIOUS
<1>3. k \in FeatureCalls /\ k.pc \in {"toggle", "reread"}
  <2>1. CASE asked
    BY <1>2, <2>1 DEF FeatureCalls, FlagChanges, Outcomes, Ends
  <2>2. CASE ~asked
    BY <1>2, <2>2 DEF FeatureCalls, CopyDrops, Ends
  <2> QED BY <2>1, <2>2
<1>4. CopiesTyped
  BY <1>1 DEF CreateProduct, CopiesTyped, FeatureInv, FeatureMade, FeatureTypeOK
<1>5. /\ StartFeature(s, "create", k) /\ BlameFeature({})
      /\ UNCHANGED <<topList, topCached, featured, updates>>
  BY <1>1, <1>2 DEF CreateProduct
<1>6. ChangeMade(k) /\ ChangeFits(k)
  BY <1>3 DEF ChangeMade, ChangeFits
<1>7. \A q \in Showcase : featured[q] = (q \in topList) => FlagSays(k, q, topList)
  BY <1>3 DEF FlagSays
<1>8. k.pc # "emit" /\ (k.pc = "fill" => k.list = topList)
  BY <1>3
<1> QED BY <1>3, <1>4, <1>5, <1>6, <1>7, <1>8, FeatureBegins

(* Steps between others that move copies only.                              *)
LEMMA CopyStep ==
  ASSUME FeatureInv, NEW s \in FeatureSlots, NEW r, r = featureCall[s],
         NEW k \in FeatureCalls \cup {NoFeatureCall},
         r.pc \in {"fillCopy", "drop", "reread", "refused"},
         k.pc \in {"fillCopy", "drop", "reread", "refused", "idle", "toggle", "flag"},
         featureCall' = [featureCall EXCEPT ![s] = k],
         UNCHANGED <<topList, topCached, featured, updates>>, CopiesTyped,
         BlameFeature({}), ChangeFits(r) => ChangeFits(k)
  PROVE  FeatureInv'
<1>1. r # NoFeatureCall
  BY FeatureHandler
<1>2. ChangeMade(k) /\ (CacheFits(r) => CacheFits(k)) /\ Told(k) = Told(r)
  BY DEF ChangeMade, CacheFits, Told
<1>3. \A p \in Showcase : FlagSays(r, p, Told(r)) => FlagSays(k, p, Told(r))
  BY DEF FlagSays
<1> HIDE DEF FeatureCalls, NoFeatureCall
<1> QED BY <1>1, <1>2, <1>3, FeatureCallOnly

LEMMA FillCopyKeeps ==
  ASSUME FeatureInv, NEW s \in FeatureSlots, FillCopy(s)
  PROVE  FeatureInv'
<1>1. PICK r : r = featureCall[s]
  OBVIOUS
<1>2. PICK k : k = r.next
  OBVIOUS
<1>3. /\ r.pc = "fillCopy" /\ BlameFeature({})
      /\ flagCached' = [flagCached EXCEPT ![r.product] = r.was]
      /\ featureCall' = [featureCall EXCEPT ![s] = k]
      /\ UNCHANGED <<topList, topCached, made, featured, updates, featureLoad>>
  BY <1>1, <1>2 DEF FillCopy, FeatureAt, Resume
<1>4. r \in CopyFills
  BY <1>1, <1>3, FeatureHandler, FeatureKinds
<1>5. r.was \in BOOLEAN /\ k \in FlagChanges \cup {NoFeatureCall}
  BY <1>2, <1>4 DEF CopyFills
<1>6. k \in FeatureCalls \cup {NoFeatureCall}
      /\ k.pc \in {"refused", "idle", "toggle", "flag"}
  BY <1>5 DEF FeatureCalls, FlagChanges, Outcomes, NoFeatureCall
<1>7. CopiesTyped
  BY <1>3, <1>5 DEF CopiesTyped, FeatureInv, FeatureMade, FeatureTypeOK
<1>8. ChangeFits(r) => ChangeFits(k)
  BY <1>2, <1>3, <1>6 DEF ChangeFits
<1> QED BY <1>1, <1>3, <1>6, <1>7, <1>8, CopyStep

LEMMA DropCopyKeeps ==
  ASSUME FeatureInv, NEW s \in FeatureSlots, DropCopy(s)
  PROVE  FeatureInv'
<1>1. PICK r : r = featureCall[s]
  OBVIOUS
<1>2. PICK k : k = [r EXCEPT !.pc = "reread"]
  OBVIOUS
<1>3. /\ r.pc = "drop" /\ BlameFeature({})
      /\ flagCached' = [flagCached EXCEPT ![r.product] = NotCached]
      /\ featureCall' = [featureCall EXCEPT ![s] = k]
      /\ UNCHANGED <<topList, topCached, made, featured, updates, featureLoad>>
  BY <1>1, <1>2 DEF DropCopy, FeatureAt, Resume
<1>4. r \in CopyDrops
  BY <1>1, <1>3, FeatureHandler, FeatureKinds DEF Ends
<1>5. k \in CopyDrops /\ k.pc = "reread"
  BY <1>2, <1>4 DEF CopyDrops, Ends
<1>6. k \in FeatureCalls \cup {NoFeatureCall}
  BY <1>5 DEF FeatureCalls
<1>7. CopiesTyped
  BY <1>3 DEF CopiesTyped, FeatureInv, FeatureMade, FeatureTypeOK
<1>8. ChangeFits(k)
  BY <1>5 DEF ChangeFits
<1> QED BY <1>1, <1>3, <1>5, <1>6, <1>7, <1>8, CopyStep

LEMMA RereadProductKeeps ==
  ASSUME FeatureInv, NEW s \in FeatureSlots, RereadProduct(s)
  PROVE  FeatureInv'
<1>0. CopiesTyped
  BY CopiesStayTyped DEF RereadProduct
<1>1. PICK r : r = featureCall[s]
  OBVIOUS
<1>2. PICK n : n = NoFeatureCall
  OBVIOUS
<1>3. PICK k : k = Found(r.product, n)
  OBVIOUS
<1>4. /\ r.pc = "reread" /\ BlameFeature({})
      /\ featureCall' = [featureCall EXCEPT ![s] = k]
      /\ UNCHANGED <<topList, topCached, featured, updates>>
  BY <1>1, <1>2, <1>3 DEF RereadProduct, FeatureAt, Resume
<1>5. r \in CopyDrops
  BY <1>1, <1>4, FeatureHandler, FeatureKinds DEF Ends
<1>6. r.product \in Showcase /\ n.pc = "idle"
      /\ n \in FlagChanges \cup {NoFeatureCall}
  BY <1>2, <1>5 DEF CopyDrops, NoFeatureCall
<1>7. /\ k \in FeatureCalls \cup {NoFeatureCall}
      /\ k = n \/ k.pc = "fillCopy"
      /\ k.pc = "fillCopy" => ChangeFits(k)
  <2>1. n.pc \in {"toggle", "flag", "idle"}
        /\ (flagCached[r.product] = NotCached /\ n.pc = "flag" =>
               n.on \in {n.product \in topList, featured[n.product]})
    BY <1>6
  <2> QED BY <1>3, <1>6, <2>1, FoundFits
<1>8. k.pc \in {"fillCopy", "idle"} /\ ChangeFits(k)
  <2>1. CASE k.pc = "fillCopy"
    BY <1>7, <2>1
  <2>2. CASE k = n
    BY <1>6, <2>2 DEF ChangeFits
  <2> QED BY <1>7, <2>1, <2>2
<1> QED BY <1>0, <1>1, <1>4, <1>7, <1>8, CopyStep

LEMMA CopyExpiresKeeps ==
  ASSUME FeatureInv, CopyExpires
  PROVE  FeatureInv'
<1>1. /\ UNCHANGED <<topList, topCached, made, featured, updates, featureCall,
                     featureLoad>>
      /\ BlameFeature({})
      /\ \E p \in Showcase : flagCached' = [flagCached EXCEPT ![p] = NotCached]
  BY DEF CopyExpires
<1>2. FeatureMade'
  <2>1. featureFault' \subseteq FeatureFaults
    BY <1>1 DEF BlameFeature, FeatureInv, FeatureMade, FeatureTypeOK, FeatureFaults
  <2> QED BY <1>1, <2>1 DEF FeatureInv, FeatureMade, FeatureTypeOK, ListBounded,
               ChangeMade, Apart
<1>3. CASE FeatureBusy' = {} /\ updates' = <<>> /\ InStep' /\ CacheInStep'
  BY <1>2, <1>3, StepNeedsNoMark DEF FeatureInv
<1>4. CASE ~(FeatureBusy' = {} /\ updates' = <<>> /\ InStep' /\ CacheInStep')
  <2>1. featureFault \subseteq featureFault'
    BY <1>1, <1>4 DEF BlameFeature
  <2>2. FlagsSound' => FlagsSound
    BY <2>1 DEF FlagsSound
  <2>3. FeatureCalm => FeatureCalm'
    BY <1>1, <2>2 DEF FeatureCalm, FeatureBusy, AloneSays, CacheFits, CacheInStep,
         ChangeFits, Told, LastSays, LastNames, Unnamed, FlagSays
  <2>4. featureFault' \cap {"overlap", "stopped"} = {} =>
          featureFault \cap {"overlap", "stopped"} = {}
    BY <2>1
  <2> QED BY <1>2, <2>3, <2>4 DEF FeatureInv
<1> QED BY <1>3, <1>4

LEMMA FeatureStopsKeeps ==
  ASSUME FeatureInv, NEW s \in FeatureSlots, FeatureStops(s)
  PROVE  FeatureInv'
<1>1. PICK r : r = featureCall[s]
  OBVIOUS
<1>2. PICK k : k = IF r.pc \in {"saveList", "emit"} /\ r.then # "end"
                   THEN [r EXCEPT !.pc = "refused"] ELSE NoFeatureCall
  OBVIOUS
<1>3. /\ featureCall' = [featureCall EXCEPT ![s] = k] /\ BlameFeature({"stopped"})
      /\ UNCHANGED <<topList, topCached, featured, updates>> /\ CopiesTyped
  BY <1>1, <1>2, CopiesStayTyped DEF FeatureStops, Resume
<1>4. k \in FeatureCalls \cup {NoFeatureCall} /\ k.pc \in {"refused", "idle"}
  <2>1. CASE r.pc \in {"saveList", "emit"} /\ r.then # "end"
    <3>1. r \in ListChanges \cup ToggledLists
      BY <1>1, <2>1, FeatureHandler, FeatureKinds
    <3>2. r \in ToggledLists
      BY <2>1, <3>1 DEF ListChanges
    <3>3. k \in ToggledLists /\ k.pc = "refused"
      BY <1>2, <2>1, <3>2 DEF ToggledLists, Outcomes
    <3> QED BY <3>3 DEF FeatureCalls
  <2>2. CASE ~(r.pc \in {"saveList", "emit"} /\ r.then # "end")
    BY <1>2, <2>2 DEF NoFeatureCall
  <2> QED BY <2>1, <2>2
<1>5. ChangeMade(k)
  BY <1>4 DEF ChangeMade
<1>6. FeatureMade'
  <2>1. featureFault' \subseteq FeatureFaults
    BY <1>3 DEF BlameFeature, FeatureInv, FeatureMade, FeatureTypeOK, FeatureFaults
  <2>2. featureCall \in [FeatureSlots -> FeatureCalls \cup {NoFeatureCall}]
    BY DEF FeatureInv, FeatureMade, FeatureTypeOK
  <2>3. featureCall' \in [FeatureSlots -> FeatureCalls \cup {NoFeatureCall}]
        /\ \A t \in FeatureSlots : featureCall'[t] \in {k, featureCall[t]}
    BY <1>3, <1>4, <2>2
  <2> HIDE DEF FeatureCalls, NoFeatureCall
  <2>4. \A t \in FeatureSlots : ChangeMade(featureCall'[t])
    BY <1>5, <2>3 DEF FeatureInv, FeatureMade
  <2> QED BY <1>3, <2>1, <2>3, <2>4 DEF FeatureInv, FeatureMade, FeatureTypeOK,
               CopiesTyped, ListBounded, ChangeMade, Apart
<1>7. CASE FeatureBusy' = {} /\ updates' = <<>> /\ InStep' /\ CacheInStep'
  BY <1>6, <1>7, StepNeedsNoMark DEF FeatureInv
<1>8. CASE ~(FeatureBusy' = {} /\ updates' = <<>> /\ InStep' /\ CacheInStep')
  <2>1. "stopped" \in featureFault'
    BY <1>3, <1>8 DEF BlameFeature
  <2> QED BY <1>6, <2>1 DEF FeatureInv
<1> QED BY <1>7, <1>8

LEMMA ReconcileKeeps ==
  ASSUME FeatureInv, NEW s \in FeatureSlots, Reconcile(s)
  PROVE  FeatureInv'
<1>0. CopiesTyped
  BY CopiesStayTyped DEF Reconcile
<1>1. PICK k : k = [pc |-> "flagAdded", added |-> topList, removed |-> Showcase \ topList]
  OBVIOUS
<1>2. StartFeature(s, "reconcile", k) /\ UNCHANGED <<topList, topCached, featured, updates>>
      /\ BlameFeature({})
  BY <1>1 DEF Reconcile
<1>3. k.pc = "flagAdded" /\ k.added = topList /\ k.removed = Showcase \ topList
  BY <1>1
<1>4. k \in FeatureCalls
  BY <1>1 DEF FeatureCalls, FlagSyncs, FeatureInv, FeatureMade, FeatureTypeOK
<1>5. ChangeMade(k) /\ ChangeFits(k)
  BY <1>3 DEF ChangeMade, Apart, ChangeFits
<1>6. \A p \in Showcase : featured[p] = (p \in topList) => FlagSays(k, p, topList)
  BY <1>3 DEF FlagSays
<1> QED BY <1>0, <1>2, <1>3, <1>4, <1>5, <1>6, FeatureBegins

(* The answer of toggleFeatured: nothing to do, the limit, or a list.       *)
LEMMA ToggleFeaturedKeeps ==
  ASSUME FeatureInv, NEW s \in FeatureSlots, ToggleFeatured(s)
  PROVE  FeatureInv'
<1>0. CopiesTyped
  BY CopiesStayTyped DEF ToggleFeatured
<1>1. PICK r : r = featureCall[s]
  OBVIOUS
<1>2. PICK isIn : isIn = (r.product \in topList)
  OBVIOUS
<1>3. PICK k : /\ featureCall' = [featureCall EXCEPT ![s] = k]
               /\ k = IF r.on = isIn THEN [r EXCEPT !.pc = r.then]
                      ELSE IF r.on /\ Cardinality(topList) >= FeaturedLimit
                      THEN [r EXCEPT !.pc = "refused"]
                      ELSE [pc |-> "saveList", product |-> r.product, on |-> r.on,
                            then |-> r.then, after |-> r.after,
                            list |-> IF r.on THEN topList \cup {r.product}
                                     ELSE topList \ {r.product},
                            added |-> IF r.on THEN {r.product} ELSE {},
                            removed |-> IF r.on THEN {} ELSE {r.product}]
  BY <1>1, <1>2 DEF ToggleFeatured, Resume
<1>4. r.pc = "toggle" /\ BlameFeature({})
      /\ UNCHANGED <<topList, topCached, featured, updates>>
  BY <1>1 DEF ToggleFeatured, FeatureAt
<1>5. r \in FlagChanges /\ r # NoFeatureCall /\ FeatureTypeOK /\ ListBounded
  BY <1>1, <1>4, FeatureHandler, FeatureKinds
<1>6. /\ r.product \in Showcase /\ r.on \in BOOLEAN /\ r.then \in Outcomes
      /\ r.after \in Ends
      /\ topList \subseteq Showcase
  BY <1>5 DEF FlagChanges, FeatureTypeOK
<1>7. /\ k \in FeatureCalls /\ ChangeMade(k) /\ ChangeFits(k)
      /\ k.pc \in {"flag", "refused", "saveList"}
  <2>1. CASE r.on = isIn
    <3>1. k \in FlagChanges /\ k.pc = r.then /\ k.on = r.on /\ k.product = r.product
      BY <1>3, <1>5, <1>6, <2>1 DEF FlagChanges
    <3>2. k.pc \in {"flag", "refused"}
      BY <1>6, <3>1 DEF Outcomes
    <3>3. ChangeFits(k)
      BY <1>2, <2>1, <3>1, <3>2 DEF ChangeFits
    <3> QED BY <3>1, <3>2, <3>3 DEF FeatureCalls, ChangeMade
  <2>2. CASE r.on # isIn /\ r.on /\ Cardinality(topList) >= FeaturedLimit
    <3>1. k = [r EXCEPT !.pc = "refused"]
      BY <1>3, <2>2
    <3>2. k \in FlagChanges /\ k.pc = "refused"
      BY <1>5, <3>1 DEF FlagChanges, Outcomes
    <3> QED BY <3>2 DEF FeatureCalls, ChangeMade, ChangeFits
  <2>3. CASE r.on # isIn /\ r.on /\ ~(Cardinality(topList) >= FeaturedLimit)
    <3>1. k = [pc |-> "saveList", product |-> r.product, on |-> TRUE, then |-> r.then,
               after |-> r.after, list |-> topList \cup {r.product},
               added |-> {r.product}, removed |-> {}]
      BY <1>3, <1>6, <2>3
    <3>2. r.product \notin topList
      BY <1>2, <1>6, <2>3
    <3>3. Cardinality(topList \cup {r.product}) <= FeaturedLimit
      <4>1. IsFiniteSet(topList) /\ Cardinality(topList) \in Nat
        BY <1>6, FeatureAssumption, FS_Subset, FS_CardinalityType
      <4>2. Cardinality(topList \cup {r.product}) = Cardinality(topList) + 1
        BY <3>2, <4>1, FS_AddElement
      <4> QED BY <2>3, <4>1, <4>2, FeatureAssumption
    <3>4. k \in ToggledLists
      BY <1>6, <3>1 DEF ToggledLists
    <3>5. k.pc = "saveList" /\ k.list = topList \cup {r.product} /\ k.added = {r.product}
          /\ k.removed = {} /\ k.on = TRUE /\ k.product = r.product
      BY <3>1
    <3>6. k.added = k.list \ topList /\ k.removed = topList \ k.list
          /\ k.on = (k.product \in k.list)
      BY <3>2, <3>5
    <3>7. ChangeMade(k) /\ ChangeFits(k)
      BY <3>3, <3>5, <3>6 DEF ChangeMade, Apart, ChangeFits
    <3> QED BY <3>4, <3>5, <3>7 DEF FeatureCalls
  <2>4. CASE r.on # isIn /\ ~r.on
    <3>1. k = [pc |-> "saveList", product |-> r.product, on |-> FALSE, then |-> r.then,
               after |-> r.after, list |-> topList \ {r.product},
               added |-> {}, removed |-> {r.product}]
      BY <1>3, <1>6, <2>4
    <3>2. r.product \in topList
      BY <1>2, <1>6, <2>4
    <3>3. Cardinality(topList \ {r.product}) <= FeaturedLimit
      <4>1. IsFiniteSet(topList) /\ Cardinality(topList) \in Nat
        BY <1>6, FeatureAssumption, FS_Subset, FS_CardinalityType
      <4>2. PICK n : n = Cardinality(topList \ {r.product})
        OBVIOUS
      <4>3. n \in Nat /\ n <= Cardinality(topList)
        BY <4>1, <4>2, FS_Subset, FS_CardinalityType
      <4> QED BY <1>5, <4>1, <4>2, <4>3, FeatureAssumption DEF ListBounded
    <3>4. k \in ToggledLists
      BY <1>6, <3>1 DEF ToggledLists
    <3>5. k.pc = "saveList" /\ k.list = topList \ {r.product} /\ k.added = {}
          /\ k.removed = {r.product} /\ k.on = FALSE /\ k.product = r.product
      BY <3>1
    <3>6. k.added = k.list \ topList /\ k.removed = topList \ k.list
          /\ k.on = (k.product \in k.list)
      <4>1. k.added = k.list \ topList
        BY <3>5
      <4>2. k.removed = topList \ k.list
        BY <3>2, <3>5
      <4>3. (k.product \in k.list) = FALSE /\ k.on = FALSE
        BY <3>5
      <4>4. k.on = (k.product \in k.list)
        BY <4>3, Zenon
      <4> QED BY <4>1, <4>2, <4>4
    <3>7. ChangeMade(k) /\ ChangeFits(k)
      BY <3>3, <3>5, <3>6 DEF ChangeMade, Apart, ChangeFits
    <3> QED BY <3>4, <3>5, <3>7 DEF FeatureCalls
  <2> QED BY <2>1, <2>2, <2>3, <2>4
<1>8. Told(k) = Told(r) /\ (CacheFits(r) => CacheFits(k))
  BY <1>4, <1>7 DEF Told, CacheFits
<1>9. \A p \in Showcase : FlagSays(r, p, Told(r)) => FlagSays(k, p, Told(r))
  BY <1>4, <1>7 DEF FlagSays
<1>10. featureCall' = [featureCall EXCEPT ![s] = k]
  BY <1>3
<1>11. k \in FeatureCalls \cup {NoFeatureCall} /\ (ChangeFits(r) => ChangeFits(k))
       /\ ChangeMade(k)
  BY <1>7
<1> QED BY <1>0, <1>1, <1>4, <1>5, <1>8, <1>9, <1>10, <1>11, FeatureCallOnly

LEMMA ToggleRefusedKeeps ==
  ASSUME FeatureInv, NEW s \in FeatureSlots, ToggleRefused(s)
  PROVE  FeatureInv'
<1>0. CopiesTyped
  BY CopiesStayTyped DEF ToggleRefused
<1>1. PICK r : r = featureCall[s]
  OBVIOUS
<1>2. PICK k : k = IF r.after = "drop" THEN NoFeatureCall
                   ELSE [pc |-> "reread", product |-> r.product]
  OBVIOUS
<1>3. /\ r.pc = "refused" /\ BlameFeature({})
      /\ featureCall' = [featureCall EXCEPT ![s] = k]
      /\ UNCHANGED <<topList, topCached, featured, updates>>
  BY <1>1, <1>2 DEF ToggleRefused, FeatureAt, Resume
<1>4. r \in FlagChanges \cup ToggledLists
  BY <1>1, <1>3, FeatureHandler, FeatureKinds DEF Outcomes
<1>5. r.product \in Showcase
  BY <1>4 DEF FlagChanges, ToggledLists
<1>6. k.pc \in {"idle", "reread"} /\ k \in FeatureCalls \cup {NoFeatureCall}
  <2>1. CASE r.after = "drop"
    BY <1>2, <2>1 DEF NoFeatureCall
  <2>2. CASE r.after # "drop"
    BY <1>2, <1>5, <2>2 DEF FeatureCalls, CopyDrops, Ends
  <2> QED BY <2>1, <2>2
<1>7. ChangeFits(k)
  BY <1>6 DEF ChangeFits
<1> QED BY <1>0, <1>1, <1>3, <1>6, <1>7, CopyStep

LEMMA ToggleTimesOutKeeps ==
  ASSUME FeatureInv, NEW s \in FeatureSlots, ToggleTimesOut(s)
  PROVE  FeatureInv'
<1>0. CopiesTyped
  BY CopiesStayTyped DEF ToggleTimesOut
<1>1. PICK r : r = featureCall[s]
  OBVIOUS
<1>2. PICK k : k = [r EXCEPT !.then = "refused"]
  OBVIOUS
<1>3. /\ r.pc \in {"toggle", "saveList", "emit"} /\ r.then = "flag" /\ BlameFeature({})
      /\ featureCall' = [featureCall EXCEPT ![s] = k]
      /\ UNCHANGED <<topList, topCached, featured, updates>>
  BY <1>1, <1>2 DEF ToggleTimesOut, Resume
<1>4. r \in FlagChanges \cup ToggledLists \cup ListChanges /\ ChangeMade(r)
      /\ r # NoFeatureCall
  BY <1>1, <1>3, FeatureHandler, FeatureKinds
<1>5. r \notin ListChanges
  BY <1>3 DEF ListChanges
<1>6. /\ k \in FlagChanges \cup ToggledLists /\ k.pc = r.pc /\ k.then = "refused"
      /\ r.pc \in {"saveList", "emit"} =>
           k.list = r.list /\ k.added = r.added /\ k.removed = r.removed
  <2>1. CASE r \in FlagChanges
    <3>1. k \in FlagChanges /\ k.pc = r.pc /\ k.then = "refused"
      BY <1>2, <2>1 DEF FlagChanges, Outcomes
    <3>2. r.pc \notin {"saveList", "emit"}
      BY <2>1 DEF FlagChanges, Outcomes
    <3> QED BY <3>1, <3>2
  <2>2. CASE r \in ToggledLists
    BY <1>2, <2>2 DEF ToggledLists, Outcomes
  <2> QED BY <1>4, <1>5, <2>1, <2>2
<1>7. ChangeMade(k) /\ Told(k) = Told(r) /\ (CacheFits(r) => CacheFits(k))
      /\ (ChangeFits(r) => ChangeFits(k))
  BY <1>3, <1>4, <1>6 DEF ChangeMade, Apart, Told, CacheFits, ChangeFits
<1>8. \A p \in Showcase : FlagSays(r, p, Told(r)) => FlagSays(k, p, Told(r))
  BY <1>3, <1>6 DEF FlagSays
<1>9. k \in FeatureCalls \cup {NoFeatureCall}
  BY <1>6 DEF FeatureCalls
<1> QED BY <1>0, <1>1, <1>3, <1>4, <1>7, <1>8, <1>9, FeatureCallOnly

-----------------------------------------------------------------------------
LEMMA SaveListKeeps ==
  ASSUME FeatureInv, NEW s \in FeatureSlots, SaveList(s)
  PROVE  FeatureInv'
<1>0. CopiesTyped
  BY CopiesStayTyped DEF SaveList
<1>1. PICK r : r = featureCall[s]
  OBVIOUS
<1>2. PICK k : k = [r EXCEPT !.pc = "emit"]
  OBVIOUS
<1>3. /\ r.pc = "saveList" /\ topList' = r.list /\ BlameFeature({})
      /\ featureCall' = [featureCall EXCEPT ![s] = k]
      /\ UNCHANGED <<topCached, featured, updates>>
  BY <1>1, <1>2 DEF SaveList, FeatureAt, Resume
<1>4. /\ r \in ListChanges \cup ToggledLists /\ ChangeMade(r) /\ r # NoFeatureCall
      /\ FeatureTypeOK /\ \A n \in 1 .. Len(updates) : Apart(updates[n])
  BY <1>1, <1>3, FeatureHandler, FeatureKinds
<1>5. /\ k \in ListChanges \cup ToggledLists /\ k.pc = "emit"
      /\ k.list = r.list /\ k.added = r.added /\ k.removed = r.removed
      /\ k.then = r.then
      /\ r.then = "flag" => k.on = r.on /\ k.product = r.product
  <2>1. CASE r \in ListChanges
    BY <1>2, <2>1 DEF ListChanges
  <2>2. CASE r \in ToggledLists
    BY <1>2, <2>2 DEF ToggledLists
  <2> QED BY <1>4, <2>1, <2>2
<1>6. r.list \subseteq Showcase /\ Cardinality(r.list) <= FeaturedLimit /\ Apart(r)
  BY <1>3, <1>4 DEF ListChanges, ToggledLists, ChangeMade
<1>7. ChangeMade(k)
  BY <1>5, <1>6 DEF ChangeMade, Apart
<1>8. FeatureMoves(s, k)
  BY <1>0, <1>3, <1>4, <1>6 DEF FeatureMoves, FeatureTypeOK
<1>9. ASSUME AloneSays(r), featureFault \subseteq featureFault'
      PROVE  AloneSays(k)'
  <2>1. CacheFits(k)'
    BY <1>5 DEF CacheFits
  <2>2. ASSUME FlagsSound
        PROVE  /\ ChangeFits(k)' /\ LastSays(Told(k))'
               /\ \A p \in Showcase : Unnamed(p)' => FlagSays(k, p, Told(k))'
    <3>1. ChangeFits(r) /\ LastSays(Told(r)) /\ Told(r) = topList
          /\ \A p \in Showcase : Unnamed(p) => FlagSays(r, p, Told(r))
      BY <1>3, <1>9, <2>2 DEF AloneSays, Told
    <3>2. r.added = r.list \ topList /\ r.removed = topList \ r.list
          /\ (r.then = "flag" => r.on = (r.product \in r.list))
      BY <1>3, <3>1 DEF ChangeFits
    <3>3. Told(k)' = topList
      BY <1>3, <1>5, <3>2 DEF Told
    <3>4. ChangeFits(k)'
      BY <1>3, <1>5, <3>2 DEF ChangeFits
    <3>5. PICK list : list = topList
      OBVIOUS
    <3>6. LastSays(list)'
      BY <1>3, <3>1, <3>5 DEF LastSays, LastNames
    <3>7. \A p \in Showcase : Unnamed(p)' => FlagSays(k, p, list)'
      BY <1>3, <1>5, <3>1, <3>5 DEF Unnamed, FlagSays
    <3> QED BY <3>3, <3>4, <3>5, <3>6, <3>7
  <2> QED BY <1>9, <2>1, <2>2 DEF AloneSays, FlagsSound
<1>10. OwesToSay(r, k) /\ k \in FeatureCalls \cup {NoFeatureCall}
  BY <1>5, <1>9 DEF OwesToSay, FeatureCalls
<1> QED BY <1>1, <1>4, <1>7, <1>8, <1>10, FeatureStep

(* An event about the change from the list told to the list now.            *)
LEMMA EventTold ==
  ASSUME NEW old, NEW now, NEW e \in Event, updates \in Seq(Event),
         updates' = Append(updates, e), LastSays(old),
         e.added \subseteq now, e.removed \cap now = {},
         \A p \in Showcase : ~Names(e, p) => (p \in now <=> p \in old)
  PROVE  /\ LastSays(now)'
         /\ \A p \in Showcase : Unnamed(p)' => Unnamed(p) /\ ~Names(e, p)
<1> DEFINE L == Len(updates)
<1>1. /\ L \in Nat /\ Len(updates') = L + 1 /\ updates'[L + 1] = e
      /\ \A n \in 1 .. L : updates'[n] = updates[n]
  OBVIOUS
<1> HIDE DEF L
<1>2. ASSUME NEW p \in Showcase, Unnamed(p)'
      PROVE  Unnamed(p) /\ ~Names(e, p)
  <2>1. \A n \in 1 .. L + 1 : ~Names(updates'[n], p)
    BY <1>1, <1>2 DEF Unnamed
  <2>2. ~Names(updates'[L + 1], p)
    BY <1>1, <2>1
  <2>3. \A n \in 1 .. L : ~Names(updates[n], p)
    BY <1>1, <2>1
  <2> QED BY <1>1, <2>2, <2>3 DEF Unnamed, L
<1>3. ASSUME NEW p \in Showcase, NEW n \in 1 .. L + 1, LastNames(n, p)'
      PROVE  p \in updates'[n].added <=> p \in now
  <2>1. Names(updates'[n], p) /\ \A m \in 1 .. L + 1 : m > n => ~Names(updates'[m], p)
    BY <1>1, <1>3 DEF LastNames, Names
  <2>2. CASE n = L + 1
    BY <1>1, <2>1, <2>2 DEF Names
  <2>3. CASE n # L + 1
    <3>1. n \in 1 .. L
      BY <1>1, <2>3
    <3>2. L + 1 \in 1 .. L + 1 /\ L + 1 > n
      BY <1>1, <3>1
    <3>3. ~Names(e, p)
      BY <1>1, <2>1, <3>2
    <3>4. \A m \in 1 .. L : m > n => ~Names(updates[m], p)
      BY <1>1, <2>1
    <3>5. LastNames(n, p)
      BY <1>1, <2>1, <3>1, <3>4 DEF LastNames, L
    <3>6. p \in updates[n].added <=> p \in old
      BY <3>1, <3>5 DEF LastSays, L
    <3> QED BY <1>1, <3>1, <3>3, <3>6
  <2> QED BY <2>2, <2>3
<1>4. LastSays(now)'
  BY <1>1, <1>3 DEF LastSays
<1> QED BY <1>2, <1>4

LEMMA InvalidateAndEmitKeeps ==
  ASSUME FeatureInv, NEW s \in FeatureSlots, InvalidateAndEmit(s)
  PROVE  FeatureInv'
<1>0. CopiesTyped
  BY CopiesStayTyped DEF InvalidateAndEmit
<1>1. PICK r : r = featureCall[s]
  OBVIOUS
<1>2. PICK k : k = IF r.then = "end" THEN NoFeatureCall ELSE [r EXCEPT !.pc = r.then]
  OBVIOUS
<1>3. PICK e : e = [added |-> r.added, removed |-> r.removed]
  OBVIOUS
<1>4. /\ r.pc = "emit" /\ topCached' = NotCached /\ BlameFeature({})
      /\ featureCall' = [featureCall EXCEPT ![s] = k]
      /\ UNCHANGED <<topList, featured>>
      /\ updates' = IF r.added = {} /\ r.removed = {} THEN updates
                    ELSE Append(updates, e)
  BY <1>1, <1>2, <1>3 DEF InvalidateAndEmit, FeatureAt, EndFeature, Resume, Emit
<1>5. /\ r \in ListChanges \cup ToggledLists /\ ChangeMade(r) /\ r # NoFeatureCall
      /\ FeatureTypeOK /\ ListBounded /\ \A n \in 1 .. Len(updates) : Apart(updates[n])
  BY <1>1, <1>4, FeatureHandler, FeatureKinds
<1>6. /\ e \in Event /\ e.added = r.added /\ e.removed = r.removed /\ Apart(e)
  <2>1. r.added \subseteq Showcase /\ r.removed \subseteq Showcase
    BY <1>5 DEF ListChanges, ToggledLists
  <2>2. e \in Event /\ e.added = r.added /\ e.removed = r.removed
    BY <1>3, <2>1 DEF Event
  <2> QED BY <1>4, <1>5, <2>2 DEF ChangeMade, Apart
<1>7. /\ k \in FeatureCalls \cup {NoFeatureCall} /\ k.pc \in {"idle", "flag", "refused"}
      /\ k.pc = "flag" => r.then = "flag" /\ k.on = r.on /\ k.product = r.product
  <2>1. CASE r.then = "end"
    BY <1>2, <2>1 DEF NoFeatureCall
  <2>2. CASE r.then # "end"
    <3>1. r \in ToggledLists
      BY <1>5, <2>2 DEF ListChanges
    <3>2. k \in ToggledLists /\ k.pc = r.then /\ k.on = r.on /\ k.product = r.product
          /\ r.then \in Outcomes
      BY <1>2, <2>2, <3>1 DEF ToggledLists
    <3> QED BY <3>2 DEF FeatureCalls, Outcomes
  <2> QED BY <2>1, <2>2
<1>8. ChangeMade(k)
  BY <1>7 DEF ChangeMade
<1>9. FeatureMoves(s, k)
  <2>1. updates' \in Seq(Event) /\ \A n \in 1 .. Len(updates') : Apart(updates'[n])
    <3>1. CASE updates' = updates
      BY <1>5, <3>1 DEF FeatureTypeOK
    <3>2. CASE updates' = Append(updates, e)
      BY <1>5, <1>6, <3>2 DEF FeatureTypeOK
    <3> QED BY <1>4, <3>1, <3>2
  <2> QED BY <1>0, <1>4, <1>5, <2>1 DEF FeatureMoves, FeatureTypeOK, ListBounded
<1>10. ASSUME AloneSays(r), featureFault \subseteq featureFault'
       PROVE  AloneSays(k)'
  <2>1. CacheFits(k)'
    BY <1>4, <1>7 DEF CacheFits, CacheInStep
  <2>2. ASSUME FlagsSound
        PROVE  /\ ChangeFits(k)' /\ LastSays(Told(k))'
               /\ \A p \in Showcase : Unnamed(p)' => FlagSays(k, p, Told(k))'
    <3>1. PICK old : old = (topList \ r.added) \cup r.removed
      OBVIOUS
    <3>2. Told(r) = old /\ ChangeFits(r) /\ LastSays(old)
          /\ \A p \in Showcase : Unnamed(p) => FlagSays(r, p, old)
      BY <1>4, <1>10, <2>2, <3>1 DEF AloneSays, Told
    <3>3. /\ topList = r.list /\ r.added \subseteq r.list /\ r.removed \cap r.list = {}
          /\ r.then = "flag" => r.on = (r.product \in r.list)
      BY <1>4, <3>2 DEF ChangeFits
    <3>4. ChangeFits(k)'
      BY <1>4, <1>7, <3>3 DEF ChangeFits
    <3>5. PICK now : now = topList
      OBVIOUS
    <3>6. Told(k)' = now
      BY <1>4, <1>7, <3>5 DEF Told
    <3>7. \A p \in Showcase : ~Names(e, p) => (p \in now <=> p \in old)
      BY <1>6, <3>1, <3>5 DEF Names
    <3>8. LastSays(now)' /\ \A p \in Showcase : Unnamed(p)' => Unnamed(p) /\ ~Names(e, p)
      <4>1. CASE updates' = updates /\ r.added = {} /\ r.removed = {}
        <5>1. old = now
          BY <3>1, <3>5, <4>1
        <5> QED BY <1>6, <3>2, <4>1, <5>1 DEF LastSays, LastNames, Unnamed, Names
      <4>2. CASE updates' = Append(updates, e)
        <5>1. e.added \subseteq now /\ e.removed \cap now = {}
          BY <1>6, <3>3, <3>5
        <5>2. updates \in Seq(Event)
          BY <1>5 DEF FeatureTypeOK
        <5> QED BY <1>6, <3>2, <3>7, <4>2, <5>1, <5>2, EventTold
      <4> QED BY <1>4, <4>1, <4>2
    <3>9. ASSUME NEW p \in Showcase, Unnamed(p)'
          PROVE  FlagSays(k, p, now)'
      <4>1. FlagSays(r, p, old) /\ (p \in now <=> p \in old)
        BY <3>2, <3>7, <3>8, <3>9
      <4>2. featured[p] = (p \in old)
        BY <1>4, <4>1 DEF FlagSays
      <4>3. featured'[p] = (p \in now)
        <5>1. (p \in now) = (p \in old)
          BY <4>1
        <5> QED BY <1>4, <4>2, <5>1
      <4> QED BY <1>7, <4>3 DEF FlagSays
    <3> QED BY <3>4, <3>6, <3>8, <3>9
  <2> QED BY <1>10, <2>1, <2>2 DEF AloneSays, FlagsSound
<1>11. OwesToSay(r, k)
  BY <1>10 DEF OwesToSay
<1> QED BY <1>1, <1>5, <1>7, <1>8, <1>9, <1>11, FeatureStep

(* Handlers that leave the list and the events alone.                       *)
LEMMA ListBeside ==
  ASSUME UNCHANGED <<topList, updates>>, NEW list, LastSays(list)
  PROVE  LastSays(list)' /\ \A p \in Showcase : Unnamed(p)' => Unnamed(p)
BY DEF LastSays, LastNames, Unnamed

LEMMA FillTopListKeeps ==
  ASSUME FeatureInv, NEW s \in FeatureSlots, FillTopList(s)
  PROVE  FeatureInv'
<1>0. CopiesTyped
  BY CopiesStayTyped DEF FillTopList
<1>1. PICK r : r = featureCall[s]
  OBVIOUS
<1>2. PICK k : k = NoFeatureCall
  OBVIOUS
<1>3. /\ r.pc = "fill" /\ topCached' = r.list /\ BlameFeature({})
      /\ featureCall' = [featureCall EXCEPT ![s] = k]
      /\ UNCHANGED <<topList, featured, updates>>
  BY <1>1, <1>2 DEF FillTopList, FeatureAt, EndFeature
<1>4. /\ r \in ListReads /\ r # NoFeatureCall
      /\ FeatureTypeOK /\ ListBounded /\ \A n \in 1 .. Len(updates) : Apart(updates[n])
  BY <1>1, <1>3, FeatureHandler, FeatureKinds
<1>5. k.pc = "idle" /\ k \in FeatureCalls \cup {NoFeatureCall}
  BY <1>2 DEF NoFeatureCall
<1>6. ChangeMade(k)
  BY <1>5 DEF ChangeMade
<1>7. FeatureMoves(s, k)
  <2>1. r.list \in SUBSET Showcase
    BY <1>4 DEF ListReads
  <2> QED BY <1>0, <1>3, <1>4, <2>1 DEF FeatureMoves, FeatureTypeOK, ListBounded
<1>8. ASSUME AloneSays(r), featureFault \subseteq featureFault'
      PROVE  AloneSays(k)'
  <2>1. CacheFits(k)'
    BY <1>3, <1>5, <1>8 DEF AloneSays, CacheFits, CacheInStep
  <2>2. ASSUME FlagsSound
        PROVE  /\ ChangeFits(k)' /\ LastSays(Told(k))'
               /\ \A p \in Showcase : Unnamed(p)' => FlagSays(k, p, Told(k))'
    <3>1. PICK list : list = topList
      OBVIOUS
    <3>2. LastSays(list) /\ \A p \in Showcase : Unnamed(p) => FlagSays(r, p, list)
      BY <1>3, <1>8, <2>2, <3>1 DEF AloneSays, Told
    <3>3. Told(k)' = list /\ ChangeFits(k)'
      BY <1>3, <1>5, <3>1 DEF Told, ChangeFits
    <3>4. LastSays(list)' /\ \A p \in Showcase : Unnamed(p)' => Unnamed(p)
      BY <1>3, <3>2, ListBeside
    <3>5. \A p \in Showcase : FlagSays(r, p, list) => FlagSays(k, p, list)'
      BY <1>3, <1>5 DEF FlagSays
    <3> QED BY <3>2, <3>3, <3>4, <3>5
  <2> QED BY <1>8, <2>1, <2>2 DEF AloneSays, FlagsSound
<1>9. OwesToSay(r, k)
  BY <1>8 DEF OwesToSay
<1> QED BY <1>1, <1>4, <1>5, <1>6, <1>7, <1>9, FeatureStep

-----------------------------------------------------------------------------
(* save() of the flag, which the list or the row already says.              *)
LEMMA SaveFlagKeeps ==
  ASSUME FeatureInv, NEW s \in FeatureSlots, SaveFlag(s)
  PROVE  FeatureInv'
<1>0. CopiesTyped
  BY CopiesStayTyped DEF SaveFlag
<1>1. PICK r : r = featureCall[s]
  OBVIOUS
<1>2. PICK k : k = [pc |-> r.after, product |-> r.product]
  OBVIOUS
<1>3. /\ r.pc = "flag" /\ featured' = [featured EXCEPT ![r.product] = r.on]
      /\ featureCall' = [featureCall EXCEPT ![s] = k] /\ BlameFeature({})
      /\ UNCHANGED <<topList, topCached, updates>>
  BY <1>1, <1>2 DEF SaveFlag, FeatureAt, Resume
<1>4. /\ r \in FlagChanges \cup ToggledLists /\ r # NoFeatureCall
      /\ FeatureTypeOK /\ ListBounded /\ \A n \in 1 .. Len(updates) : Apart(updates[n])
  BY <1>1, <1>3, FeatureHandler, FeatureKinds DEF Outcomes
<1>5. k.pc \in {"drop", "reread"} /\ k \in FeatureCalls \cup {NoFeatureCall}
  <2>1. k.pc \in Ends /\ k \in CopyDrops
    BY <1>2, <1>4 DEF FlagChanges, ToggledLists, CopyDrops
  <2> QED BY <2>1 DEF Ends, FeatureCalls
<1>6. ChangeMade(k) /\ r.product \in Showcase /\ r.on \in BOOLEAN
  BY <1>4, <1>5 DEF ChangeMade, FlagChanges, ToggledLists
<1>7. FeatureMoves(s, k)
  BY <1>0, <1>3, <1>4, <1>6 DEF FeatureMoves, FeatureTypeOK, ListBounded
<1>8. featured'[r.product] = r.on
      /\ \A p \in Showcase : p # r.product => featured'[p] = featured[p]
  BY <1>3, <1>4, <1>6 DEF FeatureTypeOK
<1>9. ASSUME AloneSays(r), featureFault \subseteq featureFault'
      PROVE  AloneSays(k)'
  <2>1. CacheFits(k)'
    BY <1>3, <1>5, <1>9 DEF AloneSays, CacheFits, CacheInStep
  <2>2. ASSUME FlagsSound
        PROVE  /\ ChangeFits(k)' /\ LastSays(Told(k))'
               /\ \A p \in Showcase : Unnamed(p)' => FlagSays(k, p, Told(k))'
    <3>1. PICK list : list = topList
      OBVIOUS
    <3>2. LastSays(list) /\ ChangeFits(r)
          /\ \A p \in Showcase : Unnamed(p) => FlagSays(r, p, list)
      BY <1>3, <1>9, <2>2, <3>1 DEF AloneSays, Told
    <3>3. Told(k)' = list /\ ChangeFits(k)'
      BY <1>3, <1>5, <3>1 DEF Told, ChangeFits
    <3>4. LastSays(list)' /\ \A p \in Showcase : Unnamed(p)' => Unnamed(p)
      BY <1>3, <3>2, ListBeside
    <3>5. ASSUME NEW p \in Showcase, FlagSays(r, p, list)
          PROVE  FlagSays(k, p, list)'
      <4>1. featured[p] = (p \in list)
        BY <1>3, <3>5 DEF FlagSays
      <4>2. r.on = (r.product \in list) \/ r.on = featured[r.product]
        BY <1>3, <3>1, <3>2 DEF ChangeFits
      <4>3. featured'[p] = (p \in list)
        <5>1. CASE p = r.product
          BY <1>8, <4>1, <4>2, <5>1
        <5>2. CASE p # r.product
          BY <1>8, <4>1, <5>2
        <5> QED BY <5>1, <5>2
      <4> QED BY <1>5, <4>3 DEF FlagSays
    <3> QED BY <3>2, <3>3, <3>4, <3>5
  <2> QED BY <1>9, <2>1, <2>2 DEF AloneSays, FlagsSound
<1>10. OwesToSay(r, k)
  BY <1>9 DEF OwesToSay
<1> QED BY <1>1, <1>4, <1>5, <1>6, <1>7, <1>10, FeatureStep

LEMMA FlagAddedKeeps ==
  ASSUME FeatureInv, NEW s \in FeatureSlots, FlagAdded(s)
  PROVE  FeatureInv'
<1>0. CopiesTyped
  BY CopiesStayTyped DEF FlagAdded
<1>1. PICK r : r = featureCall[s]
  OBVIOUS
<1>2. PICK k : k = [r EXCEPT !.pc = "flagRemoved"]
  OBVIOUS
<1>3. /\ r.pc = "flagAdded"
      /\ featured' = [p \in Showcase |-> featured[p] \/ p \in r.added]
      /\ featureCall' = [featureCall EXCEPT ![s] = k] /\ BlameFeature({})
      /\ UNCHANGED <<topList, topCached, updates>>
  BY <1>1, <1>2 DEF FlagAdded, FeatureAt, Resume
<1>4. /\ r \in FlagSyncs /\ r # NoFeatureCall /\ ChangeMade(r)
      /\ FeatureTypeOK /\ ListBounded /\ \A n \in 1 .. Len(updates) : Apart(updates[n])
  BY <1>1, <1>3, FeatureHandler, FeatureKinds
<1>5. k \in FlagSyncs /\ k.pc = "flagRemoved" /\ k.added = r.added /\ k.removed = r.removed
  BY <1>2, <1>4 DEF FlagSyncs
<1>6. ChangeMade(k) /\ k \in FeatureCalls \cup {NoFeatureCall}
  BY <1>3, <1>4, <1>5 DEF ChangeMade, Apart, FeatureCalls
<1>7. featured' \in [Showcase -> BOOLEAN]
  BY <1>3, <1>4 DEF FeatureTypeOK
<1>8. FeatureMoves(s, k)
  BY <1>0, <1>3, <1>4, <1>7 DEF FeatureMoves, FeatureTypeOK, ListBounded
<1>9. ASSUME AloneSays(r), featureFault \subseteq featureFault'
      PROVE  AloneSays(k)'
  <2>1. CacheFits(k)'
    BY <1>3, <1>5, <1>9 DEF AloneSays, CacheFits, CacheInStep
  <2>2. ASSUME FlagsSound
        PROVE  /\ ChangeFits(k)' /\ LastSays(Told(k))'
               /\ \A p \in Showcase : Unnamed(p)' => FlagSays(k, p, Told(k))'
    <3>1. PICK list : list = topList
      OBVIOUS
    <3>2. LastSays(list) /\ \A p \in Showcase : Unnamed(p) => FlagSays(r, p, list)
      BY <1>3, <1>9, <2>2, <3>1 DEF AloneSays, Told
    <3>3. Told(k)' = list /\ ChangeFits(k)'
      BY <1>3, <1>5, <3>1 DEF Told, ChangeFits
    <3>4. LastSays(list)' /\ \A p \in Showcase : Unnamed(p)' => Unnamed(p)
      BY <1>3, <3>2, ListBeside
    <3>5. ASSUME NEW p \in Showcase, FlagSays(r, p, list)
          PROVE  FlagSays(k, p, list)'
      <4>1. CASE p \in r.removed
        BY <1>3, <1>5, <3>5, <4>1 DEF FlagSays
      <4>2. CASE p \notin r.removed /\ p \in r.added
        <5>1. p \in list
          BY <1>3, <3>5, <4>2 DEF FlagSays
        <5>2. featured'[p] = TRUE
          BY <1>3, <4>2
        <5> QED BY <1>5, <4>2, <5>1, <5>2 DEF FlagSays
      <4>3. CASE p \notin r.removed /\ p \notin r.added
        <5>1. featured[p] = (p \in list)
          BY <1>3, <3>5, <4>3 DEF FlagSays
        <5>2. featured'[p] = featured[p]
          BY <1>3, <1>4, <4>3 DEF FeatureTypeOK
        <5> QED BY <1>5, <4>3, <5>1, <5>2 DEF FlagSays
      <4> QED BY <4>1, <4>2, <4>3
    <3> QED BY <3>2, <3>3, <3>4, <3>5
  <2> QED BY <1>9, <2>1, <2>2 DEF AloneSays, FlagsSound
<1>10. OwesToSay(r, k)
  BY <1>9 DEF OwesToSay
<1> QED BY <1>1, <1>4, <1>6, <1>8, <1>10, FeatureStep

LEMMA FlagRemovedKeeps ==
  ASSUME FeatureInv, NEW s \in FeatureSlots, FlagRemoved(s)
  PROVE  FeatureInv'
<1>0. CopiesTyped
  BY CopiesStayTyped DEF FlagRemoved
<1>1. PICK r : r = featureCall[s]
  OBVIOUS
<1>2. PICK k : k = NoFeatureCall
  OBVIOUS
<1>3. /\ r.pc = "flagRemoved"
      /\ featured' = [p \in Showcase |-> featured[p] /\ p \notin r.removed]
      /\ featureCall' = [featureCall EXCEPT ![s] = k] /\ BlameFeature({})
      /\ UNCHANGED <<topList, topCached, updates>>
  BY <1>1, <1>2 DEF FlagRemoved, FeatureAt, EndFeature
<1>4. /\ r \in FlagSyncs /\ r # NoFeatureCall
      /\ FeatureTypeOK /\ ListBounded /\ \A n \in 1 .. Len(updates) : Apart(updates[n])
  BY <1>1, <1>3, FeatureHandler, FeatureKinds
<1>5. k.pc = "idle" /\ k \in FeatureCalls \cup {NoFeatureCall}
  BY <1>2 DEF NoFeatureCall
<1>6. ChangeMade(k)
  BY <1>5 DEF ChangeMade
<1>7. featured' \in [Showcase -> BOOLEAN]
  BY <1>3, <1>4 DEF FeatureTypeOK
<1>8. FeatureMoves(s, k)
  BY <1>0, <1>3, <1>4, <1>7 DEF FeatureMoves, FeatureTypeOK, ListBounded
<1>9. ASSUME AloneSays(r), featureFault \subseteq featureFault'
      PROVE  AloneSays(k)'
  <2>1. CacheFits(k)'
    BY <1>3, <1>5, <1>9 DEF AloneSays, CacheFits, CacheInStep
  <2>2. ASSUME FlagsSound
        PROVE  /\ ChangeFits(k)' /\ LastSays(Told(k))'
               /\ \A p \in Showcase : Unnamed(p)' => FlagSays(k, p, Told(k))'
    <3>1. PICK list : list = topList
      OBVIOUS
    <3>2. LastSays(list) /\ \A p \in Showcase : Unnamed(p) => FlagSays(r, p, list)
      BY <1>3, <1>9, <2>2, <3>1 DEF AloneSays, Told
    <3>3. Told(k)' = list /\ ChangeFits(k)'
      BY <1>3, <1>5, <3>1 DEF Told, ChangeFits
    <3>4. LastSays(list)' /\ \A p \in Showcase : Unnamed(p)' => Unnamed(p)
      BY <1>3, <3>2, ListBeside
    <3>5. ASSUME NEW p \in Showcase, FlagSays(r, p, list)
          PROVE  FlagSays(k, p, list)'
      <4>1. CASE p \in r.removed
        <5>1. p \notin list
          BY <1>3, <3>5, <4>1 DEF FlagSays
        <5>2. featured'[p] = FALSE
          BY <1>3, <4>1
        <5>3. (p \in list) = FALSE
          BY <5>1
        <5>4. featured'[p] = (p \in list)
          BY <5>2, <5>3, Zenon
        <5> QED BY <1>5, <5>4 DEF FlagSays
      <4>2. CASE p \notin r.removed
        <5>1. featured[p] = (p \in list)
          BY <1>3, <3>5, <4>2 DEF FlagSays
        <5>2. featured'[p] = featured[p]
          BY <1>3, <1>4, <4>2 DEF FeatureTypeOK
        <5> QED BY <1>5, <5>1, <5>2 DEF FlagSays
      <4> QED BY <4>1, <4>2
    <3> QED BY <3>2, <3>3, <3>4, <3>5
  <2> QED BY <1>9, <2>1, <2>2 DEF AloneSays, FlagsSound
<1>10. OwesToSay(r, k)
  BY <1>9 DEF OwesToSay
<1> QED BY <1>1, <1>4, <1>5, <1>6, <1>8, <1>10, FeatureStep

-----------------------------------------------------------------------------
(* The oldest event leaves the queue: to be handled, or lost.               *)
LEMMA EventTaken ==
  ASSUME updates \in Seq(Event), updates # <<>>, updates' = Tail(updates),
         NEW e, e = Head(updates), NEW list, LastSays(list),
         \A n \in 1 .. Len(updates) : Apart(updates[n])
  PROVE  /\ e \in Event /\ Apart(e) /\ updates' \in Seq(Event)
         /\ \A n \in 1 .. Len(updates') : Apart(updates'[n])
         /\ LastSays(list)'
         /\ \A p \in Showcase : Unnamed(p)' /\ Names(e, p) => (p \in e.added <=> p \in list)
         /\ \A p \in Showcase : Unnamed(p)' /\ ~Names(e, p) => Unnamed(p)
<1> DEFINE L == Len(updates)
<1>1. /\ L \in Nat /\ L >= 1 /\ Len(updates') = L - 1 /\ e = updates[1] /\ e \in Event
      /\ updates' \in Seq(Event)
      /\ \A n \in 1 .. L - 1 : updates'[n] = updates[n + 1] /\ n + 1 \in 1 .. L
  OBVIOUS
<1>2. \A n \in 1 .. L : Apart(updates[n])
  OBVIOUS
<1>3. LastSays(list) <=> \A p \in Showcase, n \in 1 .. L :
         LastNames(n, p) => (p \in updates[n].added <=> p \in list)
  BY DEF LastSays
<1>4. \A p, n : LastNames(n, p) <=>
        Names(updates[n], p) /\ \A m \in 1 .. L : m > n => ~Names(updates[m], p)
  BY DEF LastNames
<1>5. \A p : Unnamed(p) <=> \A n \in 1 .. L : ~Names(updates[n], p)
  BY DEF Unnamed
<1> HIDE DEF L
<1>6. Apart(e) /\ \A n \in 1 .. Len(updates') : Apart(updates'[n])
  BY <1>1, <1>2
<1>7. \A p : Unnamed(p)' <=> \A n \in 1 .. L - 1 : ~Names(updates[n + 1], p)
  BY <1>1 DEF Unnamed, Names
<1>8. ASSUME NEW p \in Showcase, Unnamed(p)'
      PROVE  \A n \in 1 .. L : n > 1 => ~Names(updates[n], p)
  <2> SUFFICES ASSUME NEW n \in 1 .. L, n > 1 PROVE ~Names(updates[n], p)
    OBVIOUS
  <2>1. n - 1 \in 1 .. L - 1 /\ (n - 1) + 1 = n
    BY <1>1
  <2> QED BY <1>7, <1>8, <2>1
<1>9. ASSUME NEW p \in Showcase, Unnamed(p)', Names(e, p)
      PROVE  p \in e.added <=> p \in list
  <2>1. LastNames(1, p) /\ 1 \in 1 .. L
    BY <1>1, <1>4, <1>8, <1>9
  <2> QED BY <1>1, <1>3, <2>1
<1>10. ASSUME NEW p \in Showcase, Unnamed(p)', ~Names(e, p)
       PROVE  Unnamed(p)
  <2>1. \A n \in 1 .. L : n = 1 \/ n > 1
    BY <1>1
  <2> QED BY <1>1, <1>5, <1>8, <1>10, <2>1
<1>11. ASSUME NEW p \in Showcase, NEW n \in 1 .. L - 1, LastNames(n, p)'
       PROVE  p \in updates'[n].added <=> p \in list
  <2>1. Names(updates[n + 1], p)
        /\ \A m \in 1 .. L - 1 : m > n => ~Names(updates[m + 1], p)
    BY <1>1, <1>11 DEF LastNames, Names
  <2>2. ASSUME NEW m \in 1 .. L, m > n + 1 PROVE ~Names(updates[m], p)
    <3>1. m - 1 \in 1 .. L - 1 /\ (m - 1) + 1 = m /\ m - 1 > n
      BY <1>1, <2>2
    <3> QED BY <2>1, <3>1
  <2>3. LastNames(n + 1, p) /\ n + 1 \in 1 .. L
    BY <1>1, <1>4, <2>1, <2>2
  <2> QED BY <1>1, <1>3, <2>3
<1>12. LastSays(list)'
  BY <1>1, <1>11 DEF LastSays
<1> QED BY <1>1, <1>6, <1>9, <1>10, <1>12

LEMMA ReceiveUpdateKeeps ==
  ASSUME FeatureInv, NEW s \in FeatureSlots, ReceiveUpdate(s)
  PROVE  FeatureInv'
<1>0. CopiesTyped
  BY CopiesStayTyped DEF ReceiveUpdate
<1>1. PICK r : r = featureCall[s]
  OBVIOUS
<1>2. PICK e : e = Head(updates)
  OBVIOUS
<1>3. PICK k : k = [pc |-> "flagAdded", added |-> e.added, removed |-> e.removed]
  OBVIOUS
<1>4. /\ r = NoFeatureCall /\ updates # <<>> /\ updates' = Tail(updates)
      /\ featureCall' = [featureCall EXCEPT ![s] = k] /\ BlameFeature({})
      /\ UNCHANGED <<topList, topCached, featured>>
  BY <1>1, <1>2, <1>3 DEF ReceiveUpdate, Resume
<1>5. /\ FeatureTypeOK /\ ListBounded /\ r.pc = "idle"
      /\ \A n \in 1 .. Len(updates) : Apart(updates[n])
  BY <1>1, <1>4, FeatureHandler DEF NoFeatureCall
<1>6. updates \in Seq(Event)
  BY <1>5 DEF FeatureTypeOK
<1>7. /\ e \in Event /\ Apart(e) /\ updates' \in Seq(Event)
      /\ \A n \in 1 .. Len(updates') : Apart(updates'[n])
  <2>1. e \in Event /\ updates' \in Seq(Event) /\ Len(updates') = Len(updates) - 1
        /\ e = updates[1] /\ Len(updates) \in Nat /\ Len(updates) >= 1
        /\ \A n \in 1 .. Len(updates) - 1 :
             updates'[n] = updates[n + 1] /\ n + 1 \in 1 .. Len(updates)
    BY <1>2, <1>4, <1>6
  <2> QED BY <1>5, <2>1
<1>8. /\ k.pc = "flagAdded" /\ k.added = e.added /\ k.removed = e.removed
      /\ k \in FlagSyncs /\ k # NoFeatureCall
  <2>1. k.pc = "flagAdded" /\ k.added = e.added /\ k.removed = e.removed
    BY <1>3
  <2>2. k \in FlagSyncs
    BY <1>3, <1>7 DEF Event, FlagSyncs
  <2> QED BY <2>1, <2>2 DEF NoFeatureCall
<1>9. ChangeMade(k) /\ k \in FeatureCalls \cup {NoFeatureCall}
  BY <1>7, <1>8 DEF ChangeMade, Apart, FeatureCalls
<1>10. FeatureMoves(s, k)
  BY <1>0, <1>4, <1>5, <1>7 DEF FeatureMoves, FeatureTypeOK, ListBounded
<1>11. ASSUME AloneSays(r), featureFault \subseteq featureFault'
       PROVE  AloneSays(k)'
  <2>1. CacheFits(k)'
    BY <1>4, <1>5, <1>8, <1>11 DEF AloneSays, CacheFits, CacheInStep
  <2>2. ASSUME FlagsSound
        PROVE  /\ ChangeFits(k)' /\ LastSays(Told(k))'
               /\ \A p \in Showcase : Unnamed(p)' => FlagSays(k, p, Told(k))'
    <3>1. PICK list : list = topList
      OBVIOUS
    <3>2. LastSays(list) /\ \A p \in Showcase : Unnamed(p) => FlagSays(r, p, list)
      BY <1>5, <1>11, <2>2, <3>1 DEF AloneSays, Told
    <3>3. Told(k)' = list /\ ChangeFits(k)'
      BY <1>4, <1>8, <3>1 DEF Told, ChangeFits
    <3>4. /\ LastSays(list)'
          /\ \A p \in Showcase : Unnamed(p)' /\ Names(e, p) => (p \in e.added <=> p \in list)
          /\ \A p \in Showcase : Unnamed(p)' /\ ~Names(e, p) => Unnamed(p)
      BY <1>2, <1>4, <1>5, <1>6, <3>2, EventTaken
    <3>5. ASSUME NEW p \in Showcase, Unnamed(p)'
          PROVE  FlagSays(k, p, list)'
      <4>1. CASE Names(e, p)
        <5>1. p \in e.added <=> p \in list
          BY <3>4, <3>5, <4>1
        <5>2. p \in e.removed => p \notin e.added
          BY <1>7 DEF Apart
        <5>3. p \in e.added \/ p \in e.removed
          BY <4>1 DEF Names
        <5> QED BY <1>8, <5>1, <5>2, <5>3 DEF FlagSays
      <4>2. CASE ~Names(e, p)
        <5>1. FlagSays(r, p, list)
          BY <3>2, <3>4, <3>5, <4>2
        <5>2. featured[p] = (p \in list)
          BY <1>5, <5>1 DEF FlagSays
        <5>3. p \notin k.added /\ p \notin k.removed
          BY <1>8, <4>2 DEF Names
        <5> QED BY <1>4, <5>2, <5>3 DEF FlagSays
      <4> QED BY <4>1, <4>2
    <3> QED BY <3>3, <3>4, <3>5
  <2> QED BY <1>11, <2>1, <2>2 DEF AloneSays, FlagsSound
<1>12. OwesToSay(r, k)
  BY <1>11 DEF OwesToSay
<1> QED BY <1>1, <1>8, <1>9, <1>10, <1>12, FeatureStep

LEMMA LoseUpdateKeeps ==
  ASSUME FeatureInv, LoseUpdate
  PROVE  FeatureInv'
<1>1. /\ updates # <<>> /\ updates' = Tail(updates) /\ BlameFeature({"lost"})
      /\ UNCHANGED <<topList, topCached, featured, featureCall>> /\ CopiesTyped
  BY CopiesStayTyped DEF LoseUpdate
<1>2. /\ FeatureTypeOK /\ ListBounded /\ updates \in Seq(Event)
      /\ \A n \in 1 .. Len(updates) : Apart(updates[n])
  BY DEF FeatureInv, FeatureMade, FeatureTypeOK
<1>3. updates' \in Seq(Event) /\ \A n \in 1 .. Len(updates') : Apart(updates'[n])
  <2>1. /\ updates' \in Seq(Event) /\ Len(updates') = Len(updates) - 1
        /\ Len(updates) \in Nat /\ Len(updates) >= 1
        /\ \A n \in 1 .. Len(updates) - 1 :
             updates'[n] = updates[n + 1] /\ n + 1 \in 1 .. Len(updates)
    BY <1>1, <1>2
  <2> QED BY <1>2, <2>1
<1>4. FeatureMade'
  <2>1. featureFault' \subseteq FeatureFaults
    BY <1>1, <1>2 DEF BlameFeature, FeatureTypeOK, FeatureFaults
  <2> QED BY <1>1, <1>2, <1>3, <2>1 DEF FeatureInv, FeatureMade, FeatureTypeOK, CopiesTyped,
               ListBounded, ChangeMade, Apart
<1>5. CASE FeatureBusy' = {} /\ updates' = <<>> /\ InStep' /\ CacheInStep'
  BY <1>4, <1>5, StepNeedsNoMark DEF FeatureInv
<1>6. CASE ~(FeatureBusy' = {} /\ updates' = <<>> /\ InStep' /\ CacheInStep')
  <2> SUFFICES ASSUME featureFault' \cap {"overlap", "stopped"} = {} PROVE FeatureCalm'
    BY <1>4 DEF FeatureInv
  <2>1. ~FlagsSound' /\ featureFault \cap {"overlap", "stopped"} = {}
    BY <1>1, <1>6 DEF BlameFeature, FlagsSound
  <2>2. FeatureCalm
    BY <2>1 DEF FeatureInv
  <2>3. FeatureBusy' = FeatureBusy
    BY <1>1 DEF FeatureBusy
  <2>4. ASSUME NEW k, AloneSays(k) PROVE AloneSays(k)'
    BY <1>1, <2>1, <2>4 DEF AloneSays, CacheFits, CacheInStep
  <2>5. \A t \in FeatureBusy' : AloneSays(featureCall[t])'
    <3> SUFFICES ASSUME NEW t \in FeatureBusy PROVE AloneSays(featureCall[t])'
      BY <2>3
    <3>1. PICK k : k = featureCall[t]
      OBVIOUS
    <3>2. AloneSays(k)'
      BY <2>2, <2>4, <3>1 DEF FeatureCalm
    <3> QED BY <1>1, <3>1, <3>2
  <2>6. FeatureBusy' = {} => AloneSays(NoFeatureCall)'
    BY <2>2, <2>3, <2>4 DEF FeatureCalm
  <2> QED BY <2>2, <2>3, <2>5, <2>6 DEF FeatureCalm
<1> QED BY <1>5, <1>6

LEMMA FeatureInvInit == FeatureInit => FeatureInv
<1> SUFFICES ASSUME FeatureInit PROVE FeatureInv
  OBVIOUS
<1>1. NoFeatureCall.pc = "idle"
  BY DEF NoFeatureCall
<1>2. updates = <<>> /\ Len(updates) = 0 /\ FeatureBusy = {} /\ topList = {}
  BY DEF FeatureInit, FeatureBusy
<1>3. ListBounded
  <2>1. Cardinality(topList) = 0
    BY <1>2, FS_EmptySet
  <2> QED BY <2>1, FeatureAssumption DEF ListBounded
<1>4. FeatureMade
  <2>1. made \subseteq Showcase
    BY FeatureAssumption DEF FeatureInit
  <2> QED BY <1>1, <1>2, <1>3, <2>1 DEF FeatureInit, FeatureMade, FeatureTypeOK,
               ChangeMade
<1>5. \A p \in Showcase : featured[p] = (p \in topList)
  <2> TAKE p \in Showcase
  <2>1. featured[p] = FALSE /\ (p \in topList) = FALSE
    BY <1>2 DEF FeatureInit
  <2> QED BY <2>1, Zenon
<1>6. AloneSays(NoFeatureCall)
  <2>1. Told(NoFeatureCall) = topList
    BY <1>1 DEF Told
  <2>2. LastSays(topList) /\ \A p \in Showcase : FlagSays(NoFeatureCall, p, topList)
    BY <1>1, <1>2, <1>5 DEF LastSays, FlagSays
  <2>3. CacheFits(NoFeatureCall) /\ ChangeFits(NoFeatureCall)
    BY <1>1 DEF CacheFits, CacheInStep, ChangeFits, FeatureInit
  <2> QED BY <2>1, <2>2, <2>3 DEF AloneSays
<1>7. FeatureCalm
  BY <1>2, <1>6 DEF FeatureCalm
<1> QED BY <1>4, <1>7 DEF FeatureInv

LEMMA FeatureInvKept == FeatureInv /\ [FeatureNext]_featureVars => FeatureInv'
<1> SUFFICES ASSUME FeatureInv, [FeatureNext]_featureVars PROVE FeatureInv'
  OBVIOUS
<1>1. CASE UNCHANGED featureVars
  BY <1>1 DEF featureVars, copyVars, FeatureInv, FeatureMade, FeatureTypeOK, ListBounded,
       ChangeMade, Apart, FeatureCalm, FeatureBusy, AloneSays, FlagsSound, CacheFits,
       CacheInStep, ChangeFits, Told,
       LastSays, LastNames, Unnamed, FlagSays
<1>2. CASE FeatureNext
  BY <1>2, ReplaceListKeeps, ToggleFeaturedKeeps, SaveListKeeps, InvalidateAndEmitKeeps,
     GetTopListKeeps, FillTopListKeeps, UpdateFlagKeeps, UpdateOtherKeeps, SaveFlagKeeps,
     ToggleRefusedKeeps, ToggleTimesOutKeeps, ReceiveUpdateKeeps, ReconcileKeeps,
     FlagAddedKeeps, FlagRemovedKeeps, LoseUpdateKeeps,
     FindProductKeeps, FillCopyKeeps, CreateProductKeeps, DropCopyKeeps,
     RereadProductKeeps, CopyExpiresKeeps, FeatureStopsKeeps DEF FeatureNext
<1> QED BY <1>1, <1>2

(* What a request that is alone, or none, leaves behind.                    *)
LEMMA FeatureInvMeans == FeatureInv => FeaturedConsistent /\ CachedListFollows
<1> SUFFICES ASSUME FeatureInv PROVE FeaturedConsistent /\ CachedListFollows
  OBVIOUS
<1>1. ListBounded
  BY DEF FeatureInv, FeatureMade
<1>2. ASSUME FeatureBusy = {}, featureFault \cap {"overlap", "stopped"} = {}
      PROVE  CacheInStep /\ (updates = <<>> /\ FlagsSound => InStep)
  <2>1. NoFeatureCall.pc = "idle"
    BY DEF NoFeatureCall
  <2>2. AloneSays(NoFeatureCall)
    BY <1>2 DEF FeatureInv, FeatureCalm
  <2>3. Told(NoFeatureCall) = topList
    BY <2>1 DEF Told
  <2>4. ASSUME updates = <<>>, FlagsSound PROVE InStep
    <3>1. \A p \in Showcase : FlagSays(NoFeatureCall, p, topList)
      BY <2>2, <2>3, <2>4 DEF AloneSays, Unnamed
    <3> QED BY <2>1, <3>1 DEF FlagSays, InStep
  <2> QED BY <2>1, <2>2, <2>4 DEF AloneSays, CacheFits
<1>3. FlagsFollowList
  <2>1. featureFault = {} => FlagsSound /\ featureFault \cap {"overlap", "stopped"} = {}
    BY DEF FlagsSound
  <2> QED BY <1>2, <2>1 DEF FlagsFollowList
<1>4. CachedListFollows
  BY <1>2 DEF CachedListFollows
<1> QED BY <1>1, <1>3, <1>4 DEF FeaturedConsistent

(* The list of featured products of content-service and the flags of        *)
(* catalog-service (TopProductsService, ProductService), for any number of  *)
(* products, any limit and any number of handlers and of events on their    *)
(* way: the list keeps its limit whatever overlaps, and once all is handled *)
(* the flags say what the list says, unless handlers overlapped or stopped,  *)
(* an event was lost, or an update saved the flag of a stale copy.           *)
THEOREM FlagsStayTrue == FeatureSpec => []FeaturedConsistent
<1>1. FeatureInv => FeaturedConsistent
  BY FeatureInvMeans
<1> QED BY <1>1, FeatureInvInit, FeatureInvKept, PTL DEF FeatureSpec

(* With nothing running the list in Redis is the one in the table, whatever *)
(* of getTopServices, updateTopServices and toggleFeatured ran, unless      *)
(* handlers overlapped or stopped.                                          *)
THEOREM CachedListStaysTrue == FeatureSpec => []CachedListFollows
<1>1. FeatureInv => CachedListFollows
  BY FeatureInvMeans
<1> QED BY <1>1, FeatureInvInit, FeatureInvKept, PTL DEF FeatureSpec

-----------------------------------------------------------------------------
(* The parts of the catalog together: they share no variable, so that each  *)
(* runs by its own specification while one of them moves.                   *)

LEMMA PartsBegin ==
  CatalogInit => /\ part \in Parts
                 /\ StockInit /\ ImageInit /\ FeatureInit /\ PriceInit
                 /\ CategoryInit /\ SaleInit /\ MetricInit /\ RevenueInit
  BY DEF CatalogInit

LEMMA PartsMove ==
  [CatalogNext]_catalogVars =>
    /\ UNCHANGED part
    /\ [StockNext]_stockVars /\ [ImageNext]_imageVars /\ [FeatureNext]_featureVars
    /\ [PriceNext]_priceVars /\ [CategoryNext]_catVars /\ [SaleNext]_saleVars
    /\ [MetricNext]_metricVars /\ [RevenueNext]_revenueVars
  BY DEF CatalogNext, catalogVars

LEMMA PartsRun ==
  CatalogSpec =>
    /\ StockSpec /\ ImageSpec /\ FeatureSpec /\ PriceSpec
    /\ CategorySpec /\ SaleSpec /\ MetricSpec /\ RevenueSpec
  BY PartsBegin, PartsMove, PTL
     DEF CatalogSpec, StockSpec, ImageSpec, FeatureSpec, PriceSpec,
         CategorySpec, SaleSpec, MetricSpec, RevenueSpec

(* The state of the part that moves has its type, whichever part that is.   *)
THEOREM CatalogWellTyped == CatalogSpec => []CatalogTypeOK
<1>1. part \in Parts /\ UNCHANGED part => (part \in Parts)'
  OBVIOUS
<1>2. CatalogSpec => [](part \in Parts)
  BY <1>1, PartsBegin, PartsMove, PTL DEF CatalogSpec
<1>3. ImageSpec => []ImageTypeOK
  <2>1. ImageInit => ImageInv /\ ImageLoadFits
    BY ImageInvInit
  <2>2. ImageInv /\ ImageLoadFits /\ [ImageNext]_imageVars => (ImageInv /\ ImageLoadFits)'
    BY ImageInvKept
  <2>3. ImageInv => ImageTypeOK
    BY DEF ImageInv, ImageMade
  <2> QED BY <2>1, <2>2, <2>3, PTL DEF ImageSpec
<1>4. FeatureSpec => []FeatureTypeOK
  <2>1. FeatureInv => FeatureTypeOK
    BY DEF FeatureInv, FeatureMade
  <2> QED BY <2>1, FeatureInvInit, FeatureInvKept, PTL DEF FeatureSpec
<1>5. PriceSpec => []PriceTypeOK
  <2>1. PriceInv => PriceTypeOK
    BY DEF PriceInv, PriceMade
  <2> QED BY <2>1, PriceInvInit, PriceInvKept, PTL DEF PriceSpec
<1>6. /\ part \in Parts
      /\ /\ StockTypeOK /\ ImageTypeOK /\ FeatureTypeOK /\ PriceTypeOK
         /\ CategoryTypeOK /\ SaleTypeOK /\ MetricTypeOK /\ RevenueTypeOK
      => CatalogTypeOK
  <2> SUFFICES ASSUME part \in Parts,
                      StockTypeOK, ImageTypeOK, FeatureTypeOK, PriceTypeOK,
                      CategoryTypeOK, SaleTypeOK, MetricTypeOK, RevenueTypeOK
               PROVE  CatalogTypeOK
    OBVIOUS
  <2>1. CASE part = "stock"
    BY <2>1 DEF CatalogTypeOK
  <2>2. CASE part = "images"
    BY <2>2 DEF CatalogTypeOK
  <2>3. CASE part = "featured"
    BY <2>3 DEF CatalogTypeOK
  <2>4. CASE part = "prices"
    BY <2>4 DEF CatalogTypeOK
  <2>5. CASE part = "categories"
    BY <2>5 DEF CatalogTypeOK
  <2>6. CASE part = "figures"
    BY <2>6 DEF CatalogTypeOK
  <2>7. CASE part = "metrics"
    BY <2>7 DEF CatalogTypeOK
  <2>8. CASE part = "revenue"
    BY <2>8 DEF CatalogTypeOK
  <2> QED BY <2>1, <2>2, <2>3, <2>4, <2>5, <2>6, <2>7, <2>8 DEF Parts
<1> QED BY <1>2, <1>3, <1>4, <1>5, <1>6, PartsRun, StockWellTyped, CategoriesWellTyped,
           SalesWellTyped, MetricsWellTyped, RevenueWellTyped, PTL

(* What Redis holds once nothing runs agrees with the rows it was filled    *)
(* from: the product, the pages of categories and of products and the list  *)
(* of featured products, save for the faults each part names.               *)
THEOREM CachesStayTrue == CatalogSpec => []CachesTrue
BY PartsRun, CacheStaysTrue, CategoryPagesStayTrue, ItemPagesStayTrue,
   CachedListStaysTrue, PTL DEF CachesTrue

(* The figures of SalesService, DashboardService and StockService agree:    *)
(* with any days, orders, statuses and products, whichever services answer, *)
(* a series leaves out no paid order but those of the running week or month,*)
(* the reports count the same orders and revenue, periods meet, and the     *)
(* summary of the stock agrees with its list.                               *)
THEOREM FiguresStayTrue == CatalogSpec => []FiguresTrue
<1>1. SaleInv => FiguresTrue
  BY FiguresAreTrue DEF FiguresTrue
<1> QED BY <1>1, PartsRun, SaleInvInit, SaleInvKept, PTL DEF SaleSpec

(* What analytics-service keeps is no older than what it answered, and what *)
(* it tells of past months was so, save for what the parts name.            *)
THEOREM MetricsStayTrue == CatalogSpec => []MetricsTrue
BY PartsRun, FiguresGrow, RevenueIsTrue, PTL DEF MetricsTrue
=============================================================================
