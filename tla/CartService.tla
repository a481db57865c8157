---------------------------- MODULE CartService ----------------------------
(***************************************************************************)
(* The cart of one user and of the guest session that may become theirs:   *)
(* rows of order-service, a copy of each in Redis for five minutes, a      *)
(* merge of the second into the first, and two hourly jobs.  Every         *)
(* operation reads, asks the catalog and writes in separate steps.         *)
(***************************************************************************)
EXTENDS Naturals, FiniteSets

CONSTANTS
  Lines,        \* a product with a billing period
  Physical,     \* those with a stock
  MaxQuantity,  \* bounds quantities
  CartSlots,    \* where calls run
  CartLoads,    \* what one behaviour is made of: records
                \* [handlers, owners, lines, most, slots]
  NoLines, NoCopy, Off, NoProduct

ASSUME CartAssumption ==
  /\ Physical \subseteq Lines /\ MaxQuantity \in Nat \ {0} /\ IsFiniteSet(CartSlots)
  /\ \A c \in CartLoads : /\ c.slots \subseteq CartSlots /\ c.owners \subseteq {"user", "guest"}
                          /\ c.lines \subseteq Lines /\ c.most \in 0..MaxQuantity

VARIABLES
  lines,        \* by owner: the quantities in the cart, or NoLines: no cart
  shelf,        \* catalog-service: the stock of a line, MaxQuantity if plenty;
                \* Off for one that is not for sale, NoProduct once deleted
  cartCopy,     \* Redis: cart:user:<id> and cart:session:<id>
  reminder,     \* of the user's cart: whether 24 hours passed since its row
                \* was written, abandonedNotifiedAt, and the mails sent
  cartCall, cartLoad,
  cartFault     \* history: what may have put them out of step

cartVars == <<lines, shelf, cartCopy, reminder, cartCall, cartLoad, cartFault>>

(* Calls that overlapped; a call that ended where it was; a guest cart that *)
(* expired; a quantity cut to a stock of nothing.                           *)
CartFaults == {"overlap", "died", "expired", "soldOut"}

Owners == {"user", "guest"}
Quantities == 0..MaxQuantity
Cart == UNION {[ls -> Quantities] : ls \in SUBSET Lines}

(* None is none of them.                                                    *)
ASSUME NoCartAssumption ==
  /\ NoLines \notin Cart /\ NoCopy \notin Cart
  /\ NoProduct \notin Quantities \cup {Off}

CartsTypeOK ==
  /\ lines \in [Owners -> Cart \cup {NoLines}]
  /\ shelf \in [Lines -> Quantities \cup {Off, NoProduct}]
  /\ cartCopy \in [Owners -> Cart \cup {NoCopy}]
  /\ reminder \in [old : BOOLEAN, notified : BOOLEAN, mails : 0..2]
  /\ DOMAIN cartCall = CartSlots
  /\ cartLoad \in CartLoads
  /\ cartFault \subseteq CartFaults

-----------------------------------------------------------------------------
NoCartCall == [pc |-> "idle"]
CartBusy == {s \in CartSlots : cartCall[s] # NoCartCall}
CartAt(s, pc) == cartCall[s].pc = pc
Takes(h) == h \in cartLoad.handlers

Held(o) == IF lines[o] = NoLines THEN <<>> ELSE lines[o]
Has(o, l) == l \in DOMAIN Held(o)
With(cart, l, q) == [k \in DOMAIN cart \cup {l} |-> IF k = l THEN q ELSE cart[k]]
WithoutLine(cart, ls) == [k \in DOMAIN cart \ ls |-> cart[k]]
StaleCopy(o) == cartCopy[o] # NoCopy /\ cartCopy[o] # Held(o)
Emptied(o) == \E l \in DOMAIN Held(o) : Held(o)[l] = 0

CartsInOrder == /\ \A o \in Owners : ~StaleCopy(o) /\ ~Emptied(o)
                /\ reminder.mails <= 1
                /\ reminder.notified <=> reminder.mails = 1

BlameCart(marks) ==
  cartFault' = IF CartBusy' = {} /\ CartsInOrder' THEN {}
               ELSE cartFault \cup marks
                    \cup IF Cardinality(CartBusy') > 1 THEN {"overlap"} ELSE {}

WhileBusy == IF CartBusy = {} THEN {} ELSE {"overlap"}

BeginCart(s, record) == /\ cartCall[s] = NoCartCall
                        /\ cartCall' = [cartCall EXCEPT ![s] = record]
StepCart(s, record) == cartCall' = [cartCall EXCEPT ![s] = record]
EndCart(s) == cartCall' = [cartCall EXCEPT ![s] = NoCartCall]

(* getProductFromCatalog: null, NoProduct, when the product is deleted or   *)
(* the answer does not come within five seconds.                            *)
CatalogAnswers(l) == {shelf[l]} \cup IF Takes("late") THEN {NoProduct} ELSE {}

Min2(a, b) == IF a <= b THEN a ELSE b
Clamp(l, q, stock) == IF l \in Physical /\ stock \in Quantities THEN Min2(q, stock) ELSE q
Cut(q) == IF q = 0 THEN {"soldOut"} ELSE {}

-----------------------------------------------------------------------------
(* getCart: the cached copy, or the rows, put there for five minutes.       *)
GetCart(s, o) ==
  /\ Takes("get")
  /\ cartCopy[o] = NoCopy
  /\ BeginCart(s, [pc |-> "fill", owner |-> o, read |-> Held(o)])
  /\ UNCHANGED <<lines, shelf, cartCopy, reminder, cartLoad>>
  /\ BlameCart({})

FillCopy(s) ==
  /\ CartAt(s, "fill")
  /\ cartCopy' = [cartCopy EXCEPT ![cartCall[s].owner] = cartCall[s].read]
  /\ EndCart(s)
  /\ UNCHANGED <<lines, shelf, reminder, cartLoad>>
  /\ BlameCart({})

(* Every change ends with invalidateCartCache and getCart.                  *)
Invalidate(s) ==
  /\ CartAt(s, "invalidate")
  /\ cartCopy' = [cartCopy EXCEPT ![cartCall[s].owner] = NoCopy]
  /\ StepCart(s, [pc |-> "get", owner |-> cartCall[s].owner])
  /\ UNCHANGED <<lines, shelf, reminder, cartLoad>>
  /\ BlameCart({})

GetAgain(s) ==
  /\ CartAt(s, "get")
  /\ LET o == cartCall[s].owner
     IN  IF cartCopy[o] # NoCopy THEN EndCart(s)
         ELSE StepCart(s, [pc |-> "fill", owner |-> o, read |-> Held(o)])
  /\ UNCHANGED <<lines, shelf, cartCopy, reminder, cartLoad>>
  /\ BlameCart({})

ExpireCopy(o) ==
  /\ Takes("expire")
  /\ cartCopy[o] # NoCopy
  /\ cartCopy' = [cartCopy EXCEPT ![o] = NoCopy]
  /\ UNCHANGED <<lines, shelf, reminder, cartCall, cartLoad>>
  /\ BlameCart({})

-----------------------------------------------------------------------------
(* addItem: the product; the cart, made when there is none, with the line   *)
(* it may hold; the line.                                                   *)
AddItem(s, o, l, q) ==
  /\ Takes("add")
  /\ shelf[l] \notin {Off, NoProduct}
  /\ BeginCart(s, [pc |-> "find", owner |-> o, line |-> l, quantity |-> q,
                   stock |-> shelf[l]])
  /\ UNCHANGED <<lines, shelf, cartCopy, reminder, cartLoad>>
  /\ BlameCart({})

(* Mutant: a stock of nothing is no reason to refuse.                       *)
RefusedNever(l, q) == FALSE

(* INSUFFICIENT_STOCK.                                                      *)
Refused(l, q) == l \in Physical /\ q < 1

FindItem(s) ==
  /\ CartAt(s, "find")
  /\ LET k == cartCall[s]
         sum == k.quantity + IF Has(k.owner, k.line) THEN Held(k.owner)[k.line] ELSE 0
         q == Min2(Clamp(k.line, sum, k.stock), MaxQuantity)      \* a bound
     IN  /\ lines' = [lines EXCEPT ![k.owner] = Held(k.owner)]
         /\ IF Refused(k.line, q) THEN EndCart(s)
            ELSE StepCart(s, [pc |-> "save", owner |-> k.owner, line |-> k.line,
                              quantity |-> q, there |-> Has(k.owner, k.line)])
         /\ reminder' = IF k.owner = "user" /\ lines["user"] = NoLines
                        THEN [reminder EXCEPT !.old = FALSE] ELSE reminder
  /\ UNCHANGED <<shelf, cartCopy, cartLoad>>
  /\ BlameCart({})

(* save(): a line that was read is written again if it is gone; a new one   *)
(* violates the unique key if another call was first.  A cart that went     *)
(* takes its lines with it.                                                 *)
SaveItem(s) ==
  /\ CartAt(s, "save")
  /\ LET k == cartCall[s]
     IN  IF lines[k.owner] = NoLines \/ (~k.there /\ Has(k.owner, k.line))
         THEN EndCart(s) /\ UNCHANGED lines
         ELSE /\ lines' = [lines EXCEPT ![k.owner] = With(@, k.line, k.quantity)]
              /\ StepCart(s, [pc |-> "invalidate", owner |-> k.owner])
  /\ UNCHANGED <<shelf, cartCopy, reminder, cartLoad>>
  /\ BlameCart({})

(* Mutant: a line that is not there is made.                                *)
UpsertItem(s, o, l, q) ==
  /\ Takes("update")
  /\ lines[o] # NoLines
  /\ BeginCart(s, [pc |-> "clamp", owner |-> o, line |-> l, quantity |-> q])
  /\ UNCHANGED <<lines, shelf, cartCopy, reminder, cartLoad>>
  /\ BlameCart({})

(* updateItem: the line, the product, whose absence is no reason to stop.   *)
UpdateItem(s, o, l, q) ==
  /\ Takes("update")
  /\ Has(o, l)
  /\ BeginCart(s, [pc |-> "clamp", owner |-> o, line |-> l, quantity |-> q])
  /\ UNCHANGED <<lines, shelf, cartCopy, reminder, cartLoad>>
  /\ BlameCart({})

ClampItem(s) ==
  /\ CartAt(s, "clamp")
  /\ LET k == cartCall[s]
     IN  \E stock \in CatalogAnswers(k.line) :
           LET q == Clamp(k.line, k.quantity, stock)
           IN  /\ StepCart(s, [pc |-> "save", owner |-> k.owner, line |-> k.line,
                               quantity |-> q, there |-> TRUE])
               /\ UNCHANGED <<lines, shelf, cartCopy, reminder, cartLoad>>
               /\ BlameCart(Cut(q))

(* Mutant: the cached copy stays.                                           *)
RemoveOnly(s, o, ls) ==
  /\ Takes("remove")
  /\ lines[o] # NoLines
  /\ ls = DOMAIN lines[o] \/ \E l \in ls : ls = {l} /\ Has(o, l)
  /\ cartCall[s] = NoCartCall
  /\ lines' = [lines EXCEPT ![o] = WithoutLine(@, ls)]
  /\ UNCHANGED <<shelf, cartCopy, reminder, cartCall, cartLoad>>
  /\ BlameCart({})

(* removeItem deletes a line, clearCart all: also when an order is paid.    *)
RemoveItems(s, o, ls) ==
  /\ Takes("remove")
  /\ lines[o] # NoLines
  /\ ls = DOMAIN lines[o] \/ \E l \in ls : ls = {l} /\ Has(o, l)
  /\ BeginCart(s, [pc |-> "invalidate", owner |-> o])
  /\ lines' = [lines EXCEPT ![o] = WithoutLine(@, ls)]
  /\ UNCHANGED <<shelf, cartCopy, reminder, cartLoad>>
  /\ BlameCart({})

-----------------------------------------------------------------------------
(* mergeGuestCart: the guest's lines are read, then one after the other     *)
(* merged into the user's cart, which is made when there is none.           *)
MergeGuest(s) ==
  /\ Takes("merge")
  /\ DOMAIN Held("guest") # {}
  /\ BeginCart(s, [pc |-> "merge", owner |-> "user", todo |-> lines["guest"]])
  /\ lines' = [lines EXCEPT !["user"] = Held("user")]
  /\ reminder' = IF lines["user"] = NoLines THEN [reminder EXCEPT !.old = FALSE]
                 ELSE reminder
  /\ UNCHANGED <<shelf, cartCopy, cartLoad>>
  /\ BlameCart({})

(* Mutant: the guest's quantity is merged where the user had none.          *)
MergedLess(l, q) == IF Has("user", l) THEN Held("user")[l] ELSE q

(* Mutant: the quantities add up.                                           *)
MergedSum(l, q) == IF Has("user", l) THEN Held("user")[l] + q ELSE q

Merged(l, q) == IF Has("user", l) /\ Held("user")[l] > q THEN Held("user")[l] ELSE q

MergeLine(s, l) ==
  /\ CartAt(s, "merge")
  /\ LET k == cartCall[s]
     IN  /\ l \in DOMAIN k.todo
         /\ \E stock \in CatalogAnswers(l) :
              LET q == Clamp(l, Merged(l, k.todo[l]), stock)
                  rest == [k EXCEPT !.todo = WithoutLine(@, {l})]
              IN  /\ StepCart(s, IF stock = NoProduct THEN rest
                        ELSE [pc |-> "mergeSave", owner |-> "user", line |-> l,
                              quantity |-> q, there |-> Has("user", l),
                              todo |-> rest.todo])
                  /\ UNCHANGED <<lines, shelf, cartCopy, reminder, cartLoad>>
                  /\ BlameCart(Cut(q))

SaveMerged(s) ==
  /\ CartAt(s, "mergeSave")
  /\ LET k == cartCall[s]
     IN  IF ~k.there /\ Has("user", k.line)
         THEN EndCart(s) /\ UNCHANGED lines
         ELSE /\ lines' = [lines EXCEPT !["user"] = With(@, k.line, k.quantity)]
              /\ StepCart(s, [pc |-> "merge", owner |-> "user", todo |-> k.todo])
  /\ UNCHANGED <<shelf, cartCopy, reminder, cartLoad>>
  /\ BlameCart({})

(* Then the guest's cart goes, and the copy of each.                        *)
DropGuest(s) ==
  /\ CartAt(s, "merge") /\ cartCall[s].todo = <<>>
  /\ lines' = [lines EXCEPT !["guest"] = NoLines]
  /\ StepCart(s, [pc |-> "invalidateUser", owner |-> "user"])
  /\ UNCHANGED <<shelf, cartCopy, reminder, cartLoad>>
  /\ BlameCart({})

InvalidateUser(s) ==
  /\ CartAt(s, "invalidateUser")
  /\ cartCopy' = [cartCopy EXCEPT !["user"] = NoCopy]
  /\ StepCart(s, [pc |-> "invalidateGuest", owner |-> "user"])
  /\ UNCHANGED <<lines, shelf, reminder, cartLoad>>
  /\ BlameCart({})

InvalidateGuest(s) ==
  /\ CartAt(s, "invalidateGuest")
  /\ cartCopy' = [cartCopy EXCEPT !["guest"] = NoCopy]
  /\ StepCart(s, [pc |-> "get", owner |-> "user"])
  /\ UNCHANGED <<lines, shelf, reminder, cartLoad>>
  /\ BlameCart({})

-----------------------------------------------------------------------------
(* The hourly jobs.  A guest's cart goes after seven days, its copy stays.  *)
CleanupGuest ==
  /\ Takes("expire")
  /\ lines["guest"] # NoLines
  /\ lines' = [lines EXCEPT !["guest"] = NoLines]
  /\ UNCHANGED <<shelf, cartCopy, reminder, cartCall, cartLoad>>
  /\ BlameCart({"expired"} \cup WhileBusy)

(* Mutant: a cart that was notified is due again.                           *)
DueAgain == reminder.old

Due == reminder.old /\ ~reminder.notified

FindAbandoned(s) ==
  /\ Takes("remind")
  /\ Due /\ reminder.mails < 2                                 \* a bound
  /\ DOMAIN Held("user") # {}
  /\ BeginCart(s, [pc |-> "remind", owner |-> "user", read |-> lines["user"]])
  /\ UNCHANGED <<lines, shelf, cartCopy, reminder, cartLoad>>
  /\ BlameCart({})

MailReminder(s) ==
  /\ CartAt(s, "remind")
  /\ reminder' = [reminder EXCEPT !.mails = IF @ = 2 THEN 2 ELSE @ + 1]
  /\ StepCart(s, [cartCall[s] EXCEPT !.pc = "notified"])
  /\ UNCHANGED <<lines, shelf, cartCopy, cartLoad>>
  /\ BlameCart({})

(* save() cascades to the lines that were read: they are written again.  A  *)
(* line that came since would lose its cart, which the column forbids: the  *)
(* save fails, with the mail sent.                                          *)
SaveNotified(s) ==
  /\ CartAt(s, "notified")
  /\ LET read == cartCall[s].read
     IN  IF DOMAIN Held("user") \subseteq DOMAIN read
         THEN /\ lines' = [lines EXCEPT !["user"] = read]
              /\ reminder' = [reminder EXCEPT !.notified = TRUE, !.old = FALSE]
         ELSE UNCHANGED <<lines, reminder>>
  /\ EndCart(s)
  /\ UNCHANGED <<shelf, cartCopy, cartLoad>>
  /\ BlameCart({})

-----------------------------------------------------------------------------
(* Outside: a call ends where it is, a day passes, the catalog changes.     *)
CartCallDies(s) ==
  /\ Takes("die")
  /\ s \in CartBusy
  /\ EndCart(s)
  /\ UNCHANGED <<lines, shelf, cartCopy, reminder, cartLoad>>
  /\ BlameCart({"died"})

DayPasses ==
  /\ Takes("remind")
  /\ lines["user"] # NoLines /\ ~reminder.old
  /\ reminder' = [reminder EXCEPT !.old = TRUE]
  /\ UNCHANGED <<lines, shelf, cartCopy, cartCall, cartLoad>>
  /\ BlameCart({})

ChangeStock(l, stock) ==
  /\ Takes("stock")
  /\ l \in Physical \/ stock \in {MaxQuantity, Off, NoProduct}
  /\ shelf[l] \notin {stock, NoProduct}
  /\ shelf' = [shelf EXCEPT ![l] = stock]
  /\ UNCHANGED <<lines, cartCopy, reminder, cartCall, cartLoad>>
  /\ BlameCart({})

CartInit ==
  /\ cartLoad \in CartLoads
  /\ lines = [o \in Owners |-> NoLines]
  /\ shelf = [l \in Lines |-> MaxQuantity]
  /\ cartCopy = [o \in Owners |-> NoCopy]
  /\ reminder = [old |-> FALSE, notified |-> FALSE, mails |-> 0]
  /\ cartCall = [s \in CartSlots |-> NoCartCall]
  /\ cartFault = {}

CartNext ==
  \/ \E s \in cartLoad.slots :
       \/ \E o \in cartLoad.owners :
            \/ GetCart(s, o)
            \/ \E l \in cartLoad.lines, q \in 1..cartLoad.most : AddItem(s, o, l, q)
            \/ \E l \in cartLoad.lines, q \in 1..cartLoad.most : UpdateItem(s, o, l, q)
            \/ \E ls \in SUBSET cartLoad.lines : RemoveItems(s, o, ls)
       \/ FillCopy(s) \/ Invalidate(s) \/ GetAgain(s)
       \/ FindItem(s) \/ SaveItem(s) \/ ClampItem(s)
       \/ MergeGuest(s) \/ SaveMerged(s) \/ DropGuest(s)
       \/ \E l \in cartLoad.lines : MergeLine(s, l)
       \/ InvalidateUser(s) \/ InvalidateGuest(s)
       \/ FindAbandoned(s) \/ MailReminder(s) \/ SaveNotified(s)
       \/ CartCallDies(s)
  \/ \E o \in Owners : ExpireCopy(o)
  \/ CleanupGuest
  \/ DayPasses
  \/ \E l \in cartLoad.lines, stock \in Quantities \cup {Off, NoProduct} :
       ChangeStock(l, stock)

CartSpec == CartInit /\ [][CartNext]_cartVars

-----------------------------------------------------------------------------
(* With no call running, the cached cart is the cart, unless calls          *)
(* overlapped, one ended before it invalidated the copy, or the cart of a   *)
(* guest expired.                                                           *)
CopyFollowsCart ==
  CartBusy = {} /\ (\E o \in Owners : StaleCopy(o))
    => cartFault \cap {"overlap", "died", "expired"} # {}

(* A line has a quantity, unless it was cut to the stock of a product that  *)
(* sold out, by an update or a merge: only addItem refuses that.            *)
NoEmptyLine ==
  (\E o \in Owners : Emptied(o)) => "soldOut" \in cartFault

MaySkip(l) == Takes("late") \/ shelf[l] = NoProduct

(* When a merge deletes the guest's cart, its lines are in the user's, with *)
(* no less than the guest and the stock allowed, unless calls overlapped,   *)
(* the catalog did not answer or the product of the line is deleted.        *)
MergeKeepsLines ==
  [][ (\E s \in CartBusy : DropGuest(s)) =>
        \/ \A l \in DOMAIN Held("guest") :
             \/ MaySkip(l)
             \/ Has("user", l) /\ (l \in Physical \/ Held("user")[l] >= Held("guest")[l])
        \/ "overlap" \in cartFault ]_cartVars

(* A line comes to a cart by an addition or a merge; nothing that was       *)
(* removed or paid for returns, unless another call had read it before.     *)
RemovedStaysRemoved ==
  [][ \/ \A o \in Owners : \A l \in Lines :
           lines'[o] # NoLines /\ l \in DOMAIN lines'[o] /\ ~Has(o, l) =>
             \E s \in CartBusy : /\ cartCall[s].pc \in {"save", "mergeSave"}
                                 /\ ~cartCall[s].there
      \/ "overlap" \in cartFault ]_cartVars

(* A cart is mailed about once, unless the job ended between the mail and   *)
(* the mark or the cart was filled meanwhile.                               *)
RemindedOnce ==
  reminder.mails > 1 => cartFault \cap {"died", "overlap"} # {}

(* Carts and their cached copies through the handlers at a time: a copy     *)
(* follows its cart, no line is empty, an abandoned cart is reminded once.  *)
CartsConsistent == CopyFollowsCart /\ NoEmptyLine /\ RemindedOnce
=============================================================================
