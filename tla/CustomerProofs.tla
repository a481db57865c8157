--------------------------- MODULE CustomerProofs ---------------------------
(***************************************************************************)
(* What order-service and user-service guarantee of what a customer keeps  *)
(* of his own, for any number of lines of a cart, quantities, addresses    *)
(* and calls at a time: the cart with its cached copy, the addresses and   *)
(* their defaults.  And, with the proofs about the other parts, what holds *)
(* of all that surrounds the purchases of a customer at once: the types,   *)
(* and what no step may undo.                                              *)
(***************************************************************************)
EXTENDS MCCustomers, PaymentProofs, AccountProofs, SessionsProofs

-----------------------------------------------------------------------------
(* Carts.                                                                   *)

(* A call in flight, by what it has read.                                   *)
CopyCall == [pc : {"fill"}, owner : Owners, read : Cart]
FindCall == [pc : {"find"}, owner : Owners, line : Lines, quantity : 1..MaxQuantity,
             stock : Quantities]
SaveCall == [pc : {"save"}, owner : Owners, line : Lines, quantity : Quantities,
             there : BOOLEAN]
ClampCall == [pc : {"clamp"}, owner : Owners, line : Lines, quantity : 1..MaxQuantity]
EndingCall == [pc : {"invalidate", "get", "invalidateUser", "invalidateGuest"},
               owner : Owners]
MergeCall == [pc : {"merge"}, owner : {"user"}, todo : Cart]
MergeSaveCall == [pc : {"mergeSave"}, owner : {"user"}, line : Lines,
                  quantity : Quantities, there : BOOLEAN, todo : Cart]
RemindCall == [pc : {"remind", "notified"}, owner : {"user"}, read : Cart]

CartCallMade(k) == \/ k = NoCartCall \/ k \in CopyCall \/ k \in FindCall \/ k \in SaveCall
                   \/ k \in ClampCall \/ k \in EndingCall \/ k \in MergeCall
                   \/ k \in MergeSaveCall \/ k \in RemindCall

(* The user's cart is made before a merge and never deleted.                *)
CartMade ==
  /\ CartsTypeOK
  /\ \A s \in CartSlots : CartCallMade(cartCall[s])
  /\ \A s \in CartSlots : CartAt(s, "merge") \/ CartAt(s, "mergeSave")
                            => lines["user"] # NoLines

(* What a call has read is so until it is over, while calls do not overlap. *)
MergedIn(l) ==
  Has("user", l) /\ (l \in Physical \/ Held("user")[l] >= Held("guest")[l])
MergeFits(k) ==
  /\ \A l \in DOMAIN k.todo :
       l \in DOMAIN Held("guest") /\ k.todo[l] = Held("guest")[l]
  /\ k.pc = "mergeSave" => /\ k.there <=> Has("user", k.line)
                           /\ \/ k.line \in Physical
                              \/ k.line \in DOMAIN Held("guest")
                                   => k.quantity >= Held("guest")[k.line]
  /\ \A l \in DOMAIN Held("guest") :
       \/ l \in DOMAIN k.todo \/ (k.pc = "mergeSave" /\ l = k.line) \/ MergedIn(l)
       \/ MaySkip(l)
CartFits(k) ==
  /\ k.pc = "fill" => k.read = Held(k.owner)
  /\ k.pc = "clamp" => Has(k.owner, k.line)
  /\ k.pc = "save" /\ k.there => Has(k.owner, k.line)
  /\ k.pc \in {"merge", "mergeSave"} => MergeFits(k)
  /\ k.pc \in {"remind", "notified"} => k.read = Held("user")

(* No quantity of nothing is in a cart or on its way into one.              *)
Positive(k) ==
  /\ k.pc \in {"save", "mergeSave"} => k.quantity # 0
  /\ k.pc \in {"merge", "mergeSave"} => \A l \in DOMAIN k.todo : k.todo[l] # 0
  /\ k.pc \in {"remind", "notified"} => \A l \in DOMAIN k.read : k.read[l] # 0
NoneEmpty == /\ \A o \in Owners : ~Emptied(o)
             /\ \A s \in CartBusy : Positive(cartCall[s])

(* The call that will drop the copy of a cart that changed.                 *)
DropsCopy(k, o) == \/ k.pc = "invalidate" /\ k.owner = o
                   \/ o = "user" /\ k.pc \in {"merge", "mergeSave", "invalidateUser"}
                   \/ o = "guest" /\ k.pc \in {"invalidateUser", "invalidateGuest"}
CopiesFollow ==
  \A o \in Owners : StaleCopy(o) => \E s \in CartBusy : DropsCopy(cartCall[s], o)

RemindFits ==
  /\ reminder.mails \in {0, 1}
  /\ reminder.notified => reminder.mails = 1
  /\ reminder.mails = 1 => reminder.notified \/ \E s \in CartBusy : CartAt(s, "notified")
  /\ \A s \in CartBusy : /\ CartAt(s, "remind") => reminder.mails = 0
                         /\ CartAt(s, "notified") => reminder.mails = 1

CartInv ==
  /\ CartMade
  /\ "overlap" \notin cartFault => /\ \A s, t \in CartBusy : s = t
                                   /\ \A s \in CartBusy : CartFits(cartCall[s])
  /\ "soldOut" \notin cartFault => NoneEmpty
  /\ cartFault \cap {"overlap", "died", "expired"} = {} => CopiesFollow
  /\ cartFault \cap {"overlap", "died"} = {} => RemindFits

-----------------------------------------------------------------------------
(* Carts.                                                                   *)
LEMMA CartIs ==
  ASSUME NEW c
  PROVE  c \in Cart <=> /\ c = [l \in DOMAIN c |-> c[l]] /\ DOMAIN c \subseteq Lines
                        /\ \A l \in DOMAIN c : c[l] \in Quantities
<1>1. ASSUME c \in Cart
      PROVE  /\ c = [l \in DOMAIN c |-> c[l]] /\ DOMAIN c \subseteq Lines
             /\ \A l \in DOMAIN c : c[l] \in Quantities
  <2>1. PICK ls \in SUBSET Lines : c \in [ls -> Quantities]
    BY <1>1 DEF Cart
  <2> QED BY <2>1
<1>2. ASSUME c = [l \in DOMAIN c |-> c[l]], DOMAIN c \subseteq Lines,
             \A l \in DOMAIN c : c[l] \in Quantities
      PROVE  c \in Cart
  <2>1. c \in [DOMAIN c -> Quantities]
    BY <1>2
  <2> QED BY <1>2, <2>1 DEF Cart
<1> QED BY <1>1, <1>2

LEMMA EmptyCart == <<>> \in Cart /\ DOMAIN <<>> = {}
<1>1. <<>> \in [{} -> Quantities]
  OBVIOUS
<1> QED BY <1>1 DEF Cart

LEMMA HeldIsCart ==
  ASSUME CartMade, NEW o \in Owners
  PROVE  Held(o) \in Cart
BY EmptyCart DEF CartMade, CartsTypeOK, Held

LEMMA WithIs ==
  ASSUME NEW c \in Cart, NEW l \in Lines, NEW q \in Quantities
  PROVE  /\ With(c, l, q) \in Cart /\ DOMAIN With(c, l, q) = DOMAIN c \cup {l}
         /\ With(c, l, q)[l] = q
         /\ \A k \in DOMAIN c : k # l => With(c, l, q)[k] = c[k]
<1>1. /\ DOMAIN c \subseteq Lines /\ \A k \in DOMAIN c : c[k] \in Quantities
  BY CartIs
<1>2. With(c, l, q) \in [DOMAIN c \cup {l} -> Quantities]
  BY <1>1 DEF With
<1>3. DOMAIN c \cup {l} \in SUBSET Lines
  BY <1>1
<1> QED BY <1>2, <1>3 DEF Cart, With

LEMMA WithoutIs ==
  ASSUME NEW c \in Cart, NEW ls
  PROVE  /\ WithoutLine(c, ls) \in Cart /\ DOMAIN WithoutLine(c, ls) = DOMAIN c \ ls
         /\ \A k \in DOMAIN c \ ls : WithoutLine(c, ls)[k] = c[k]
<1>1. /\ DOMAIN c \subseteq Lines /\ \A k \in DOMAIN c : c[k] \in Quantities
  BY CartIs
<1>2. WithoutLine(c, ls) \in [DOMAIN c \ ls -> Quantities]
  BY <1>1 DEF WithoutLine
<1>3. DOMAIN c \ ls \in SUBSET Lines
  BY <1>1
<1> QED BY <1>2, <1>3 DEF Cart, WithoutLine

LEMMA ClampIs ==
  ASSUME NEW l, NEW q \in Nat, NEW stock
  PROVE  /\ Clamp(l, q, stock) \in 0..q
         /\ l \notin Physical => Clamp(l, q, stock) = q
BY CartAssumption DEF Clamp, Min2, Quantities

LEMMA CartAtIs ==
  ASSUME CartMade, NEW s \in CartSlots
  PROVE  /\ CartAt(s, "fill") => cartCall[s] \in CopyCall
         /\ CartAt(s, "find") => cartCall[s] \in FindCall
         /\ CartAt(s, "save") => cartCall[s] \in SaveCall
         /\ CartAt(s, "clamp") => cartCall[s] \in ClampCall
         /\ \A pc \in {"invalidate", "get", "invalidateUser", "invalidateGuest"} :
              CartAt(s, pc) => cartCall[s] \in EndingCall
         /\ CartAt(s, "merge") => cartCall[s] \in MergeCall /\ lines["user"] # NoLines
         /\ CartAt(s, "mergeSave") => cartCall[s] \in MergeSaveCall /\ lines["user"] # NoLines
         /\ \A pc \in {"remind", "notified"} : CartAt(s, pc) => cartCall[s] \in RemindCall
         /\ \A pc : CartAt(s, pc) /\ pc # "idle" => s \in CartBusy
BY DEF CartMade, CartCallMade, CartAt, CopyCall, FindCall, SaveCall, ClampCall, EndingCall,
       MergeCall, MergeSaveCall, RemindCall, NoCartCall, CartBusy

-----------------------------------------------------------------------------
Marks(m) == \E marks \in SUBSET CartFaults : m \in marks /\ BlameCart(marks)

(* What each step of a call does: to the types; to quantities; and, alone,  *)
(* to what it has read, to the copies and to the reminder.                  *)
CartStepOK(s) ==
  /\ CartMade' /\ \A t \in CartSlots : t # s => cartCall'[t] = cartCall[t]
  /\ s \in CartBusy \/ s \in CartBusy'
  /\ \E marks \in SUBSET CartFaults : BlameCart(marks)
EmptyKept(s) ==
  NoneEmpty => \/ Marks("soldOut")
               \/ /\ \A o \in Owners : ~Emptied(o)'
                  /\ s \in CartBusy' => Positive(cartCall'[s])
LoneCallKept(s) ==
     CartBusy \subseteq {s} /\ (s \in CartBusy => CartFits(cartCall[s])) =>
       /\ s \in CartBusy' => CartFits(cartCall[s])'
       /\ CopiesFollow => CopiesFollow' \/ Marks("died")
       /\ RemindFits => RemindFits' \/ Marks("died")
CartGoes(s) == CartStepOK(s) /\ EmptyKept(s) /\ LoneCallKept(s)

LEMMA CartPut ==
  ASSUME CartMade, NEW s \in CartSlots, NEW r, CartCallMade(r),
         cartCall' = [cartCall EXCEPT ![s] = r], s \in CartBusy \/ r # NoCartCall,
         lines' \in [Owners -> Cart \cup {NoLines}], UNCHANGED <<shelf, cartLoad>>,
         cartCopy' \in [Owners -> Cart \cup {NoCopy}],
         reminder' \in [old : BOOLEAN, notified : BOOLEAN, mails : 0..2],
         NEW marks \in SUBSET CartFaults, BlameCart(marks),
         lines["user"] # NoLines => lines'["user"] # NoLines,
         r.pc \in {"merge", "mergeSave"} => lines'["user"] # NoLines
  PROVE  CartStepOK(s) /\ cartCall'[s] = r
<1>1. /\ DOMAIN cartCall' = CartSlots /\ cartCall'[s] = r
      /\ \A t \in CartSlots : t # s => cartCall'[t] = cartCall[t]
  BY DEF CartMade, CartsTypeOK
<1>2. cartFault' \subseteq CartFaults
  BY DEF BlameCart, CartMade, CartsTypeOK, CartFaults
<1>3. s \in CartBusy \/ s \in CartBusy'
  BY <1>1 DEF CartBusy
<1>4. \A t \in CartSlots : CartCallMade(cartCall'[t])
  BY <1>1 DEF CartMade
<1>5. CartsTypeOK'
  BY <1>1, <1>2 DEF CartMade, CartsTypeOK
<1>6. \A t \in CartSlots : CartAt(t, "merge")' \/ CartAt(t, "mergeSave")'
                             => lines'["user"] # NoLines
  BY <1>1 DEF CartMade, CartAt
<1> QED BY <1>1, <1>3, <1>4, <1>5, <1>6 DEF CartMade, CartStepOK, CartCallMade

(* What a call has read still holds when the carts are what they were.      *)
LEMMA FitsSame ==
  ASSUME cartLoad' = cartLoad, \A o \in Owners : Held(o)' = Held(o), NEW s,
         \A l \in DOMAIN Held("guest") : MaySkip(l) => MaySkip(l)',
         cartCall'[s].pc = "fill" => cartCall'[s].owner \in Owners,
         cartCall'[s].pc \in {"save", "clamp"} => cartCall'[s].owner \in Owners,
         CartFits(cartCall'[s])
  PROVE  CartFits(cartCall[s])'
<1>0. "user" \in Owners /\ "guest" \in Owners
  BY DEF Owners
<1>1. Held("user")' = Held("user") /\ Held("guest")' = Held("guest") /\ cartLoad' = cartLoad
  BY <1>0
<1>2. \A o \in Owners : \A l : Has(o, l)' <=> Has(o, l)
  BY DEF Has
<1>3. \A l : MergedIn(l)' <=> MergedIn(l)
  BY <1>0, <1>1, <1>2 DEF MergedIn
<1>4. MergeFits(cartCall'[s]) => MergeFits(cartCall[s])'
  BY <1>0, <1>1, <1>2, <1>3 DEF MergeFits
<1> QED BY <1>0, <1>1, <1>2, <1>4 DEF CartFits

(* A step of a call that leaves the carts and their copies alone.           *)
LEMMA OnlyCartCall ==
  ASSUME CartMade, NEW s \in CartSlots, NEW r, CartCallMade(r),
         cartCall' = [cartCall EXCEPT ![s] = r], s \in CartBusy \/ r # NoCartCall,
         lines' \in [Owners -> Cart \cup {NoLines}], \A o \in Owners : Held(o)' = Held(o),
         UNCHANGED <<shelf, cartCopy, cartLoad>>,
         reminder' \in [old : BOOLEAN, notified : BOOLEAN, mails : 0..2],
         reminder'.mails = reminder.mails, reminder'.notified = reminder.notified,
         NEW marks \in SUBSET CartFaults, BlameCart(marks),
         lines["user"] # NoLines => lines'["user"] # NoLines,
         r.pc \in {"merge", "mergeSave"} => lines'["user"] # NoLines,
         NoneEmpty /\ r # NoCartCall => "soldOut" \in marks \/ Positive(r),
         (s \in CartBusy => CartFits(cartCall[s])) /\ r # NoCartCall => CartFits(r),
         \/ "died" \in marks
         \/ /\ \A o \in Owners : s \in CartBusy /\ DropsCopy(cartCall[s], o)
                                    => r # NoCartCall /\ DropsCopy(r, o)
            /\ ~CartAt(s, "notified") /\ r.pc # "notified"
            /\ CartBusy \subseteq {s} /\ RemindFits /\ r.pc = "remind"
                 => s \notin CartBusy /\ ~reminder.notified
  PROVE  CartGoes(s)
<1>1. CartStepOK(s) /\ cartCall'[s] = r
  <2>1. cartCopy' \in [Owners -> Cart \cup {NoCopy}]
    BY DEF CartMade, CartsTypeOK
  <2> QED BY <2>1, CartPut
<1>2. s \in CartBusy' <=> r # NoCartCall
  BY <1>1 DEF CartBusy
<1>3. \A o \in Owners : (Emptied(o)' <=> Emptied(o)) /\ (StaleCopy(o)' <=> StaleCopy(o))
  BY DEF Emptied, StaleCopy
<1>4. EmptyKept(s)
  BY <1>1, <1>2, <1>3 DEF EmptyKept, NoneEmpty, Marks
<1>5. ASSUME CartBusy \subseteq {s}, s \in CartBusy => CartFits(cartCall[s])
      PROVE  /\ s \in CartBusy' => CartFits(cartCall[s])'
             /\ CopiesFollow => CopiesFollow' \/ Marks("died")
             /\ RemindFits => RemindFits' \/ Marks("died")
  <2>1. s \in CartBusy' => CartFits(cartCall[s])'
    <3> SUFFICES ASSUME s \in CartBusy' PROVE CartFits(cartCall[s])'
      OBVIOUS
    <3>1. CartFits(cartCall'[s])
      BY <1>1, <1>2, <1>5
    <3>2. cartCall'[s].pc \in {"fill", "save", "clamp"} => cartCall'[s].owner \in Owners
      BY <1>1 DEF CartCallMade, CopyCall, FindCall, SaveCall, ClampCall, EndingCall,
             MergeCall, MergeSaveCall, RemindCall, NoCartCall
    <3>3. \A l : MaySkip(l) => MaySkip(l)'
      BY DEF MaySkip, Takes
    <3> QED BY <3>1, <3>2, <3>3, FitsSame
  <2>2. ASSUME CopiesFollow, "died" \notin marks PROVE CopiesFollow'
    <3>1. ASSUME NEW o \in Owners, StaleCopy(o)
          PROVE  s \in CartBusy' /\ DropsCopy(cartCall'[s], o)
      <4>1. s \in CartBusy /\ DropsCopy(cartCall[s], o)
        BY <1>5, <2>2, <3>1 DEF CopiesFollow
      <4>2. r # NoCartCall /\ DropsCopy(r, o)
        BY <2>2, <4>1
      <4> QED BY <1>1, <1>2, <4>2
    <3> QED BY <1>3, <3>1 DEF CopiesFollow
  <2>3. ASSUME RemindFits, "died" \notin marks PROVE RemindFits'
    <3>1. \A t \in CartBusy' : t = s \/ t \in CartBusy
      BY <1>1 DEF CartBusy, CartStepOK
    <3>2. ~CartAt(s, "notified")' /\ ~CartAt(s, "notified")
      BY <1>1, <2>3 DEF CartAt
    <3>3. reminder.mails = 1 => reminder.notified
      BY <1>5, <2>3, <3>2 DEF RemindFits
    <3>4. CartAt(s, "remind")' => reminder.mails = 0
      <4> SUFFICES ASSUME r.pc = "remind" PROVE reminder.mails = 0
        BY <1>1 DEF CartAt
      <4>1. ~reminder.notified
        BY <1>5, <2>3
      <4> QED BY <2>3, <3>3, <4>1 DEF RemindFits
    <3>5. \A t \in CartBusy' : t = s
      BY <1>5, <3>1
    <3> QED BY <2>3, <3>2, <3>3, <3>4, <3>5 DEF RemindFits
  <2> QED BY <2>1, <2>2, <2>3 DEF Marks
<1> QED BY <1>1, <1>4, <1>5 DEF CartGoes, LoneCallKept

-----------------------------------------------------------------------------
LEMMA SameHeld ==
  ASSUME UNCHANGED lines
  PROVE  /\ \A o : Held(o)' = Held(o)
         /\ CartMade => lines' \in [Owners -> Cart \cup {NoLines}]
BY DEF Held, CartMade, CartsTypeOK

LEMMA SameReminder ==
  ASSUME CartMade, UNCHANGED reminder
  PROVE  /\ reminder' \in [old : BOOLEAN, notified : BOOLEAN, mails : 0..2]
         /\ reminder'.mails = reminder.mails /\ reminder'.notified = reminder.notified
BY DEF CartMade, CartsTypeOK

LEMMA OldOnly ==
  ASSUME CartMade, NEW b \in BOOLEAN,
         reminder' = reminder \/ reminder' = [reminder EXCEPT !.old = b]
  PROVE  /\ reminder' \in [old : BOOLEAN, notified : BOOLEAN, mails : 0..2]
         /\ reminder'.mails = reminder.mails /\ reminder'.notified = reminder.notified
BY DEF CartMade, CartsTypeOK

(* What begins drops no copy.                                               *)
LEMMA IdleDrops == \A s \in CartSlots : cartCall[s] = NoCartCall =>
                     s \notin CartBusy /\ ~CartAt(s, "notified")
BY DEF CartBusy, CartAt, NoCartCall

LEMMA GetCartGoes ==
  ASSUME CartMade, NEW s \in CartSlots, NEW o \in Owners, GetCart(s, o)
  PROVE  CartGoes(s)
<1> DEFINE r == [pc |-> "fill", owner |-> o, read |-> Held(o)]
<1>1. r \in CopyCall /\ r # NoCartCall /\ r.pc = "fill" /\ r.read = Held(r.owner)
  BY HeldIsCart DEF CopyCall, NoCartCall
<1>2. /\ cartCall[s] = NoCartCall /\ cartCall' = [cartCall EXCEPT ![s] = r]
      /\ UNCHANGED <<lines, shelf, cartCopy, reminder, cartLoad>> /\ BlameCart({})
  BY DEF GetCart, BeginCart
<1> HIDE DEF r
<1>3. CartCallMade(r) /\ CartFits(r) /\ Positive(r)
  BY <1>1 DEF CartCallMade, CartFits, Positive
<1> QED BY <1>1, <1>2, <1>3, SameHeld, SameReminder, IdleDrops, OnlyCartCall

LEMMA GetAgainGoes ==
  ASSUME CartMade, NEW s \in CartSlots, GetAgain(s)
  PROVE  CartGoes(s)
<1> DEFINE o == cartCall[s].owner
           r == IF cartCopy[o] # NoCopy THEN NoCartCall
                ELSE [pc |-> "fill", owner |-> o, read |-> Held(o)]
<1>0. CartAt(s, "get") /\ s \in CartBusy /\ o \in Owners
  BY CartAtIs DEF GetAgain, EndingCall
<1>1. CartCallMade(r) /\ r.pc \in {"idle", "fill"} /\ (r.pc = "fill" => r.read = Held(r.owner))
  BY <1>0, HeldIsCart DEF CopyCall, NoCartCall, CartCallMade
<1>2. /\ cartCall' = [cartCall EXCEPT ![s] = r]
      /\ UNCHANGED <<lines, shelf, cartCopy, reminder, cartLoad>> /\ BlameCart({})
  BY DEF GetAgain, StepCart, EndCart
<1> HIDE DEF r
<1>3. CartFits(r) /\ Positive(r)
  BY <1>1 DEF CartFits, Positive
<1>4. \A u \in Owners : ~DropsCopy(cartCall[s], u)
  BY <1>0 DEF DropsCopy, CartAt
<1>5. ~CartAt(s, "notified")
  BY <1>0 DEF CartAt
<1> QED BY <1>0, <1>1, <1>2, <1>3, <1>4, <1>5, SameHeld, SameReminder, OnlyCartCall

LEMMA AddItemGoes ==
  ASSUME CartMade, NEW s \in CartSlots, NEW o \in Owners, NEW l \in Lines,
         NEW q \in 1..MaxQuantity, AddItem(s, o, l, q) \/ UpdateItem(s, o, l, q)
  PROVE  CartGoes(s)
<1>1. CASE AddItem(s, o, l, q)
  <2> DEFINE r == [pc |-> "find", owner |-> o, line |-> l, quantity |-> q,
                   stock |-> shelf[l]]
  <2>1. r \in FindCall /\ r # NoCartCall /\ r.pc = "find"
    <3>1. shelf[l] \in Quantities
      BY <1>1 DEF AddItem, CartMade, CartsTypeOK
    <3> QED BY <3>1 DEF FindCall, NoCartCall
  <2>2. /\ cartCall[s] = NoCartCall /\ cartCall' = [cartCall EXCEPT ![s] = r]
        /\ UNCHANGED <<lines, shelf, cartCopy, reminder, cartLoad>> /\ BlameCart({})
    BY <1>1 DEF AddItem, BeginCart
  <2> HIDE DEF r
  <2>3. CartCallMade(r) /\ CartFits(r) /\ Positive(r)
    BY <2>1 DEF CartCallMade, CartFits, Positive
  <2> QED BY <2>1, <2>2, <2>3, SameHeld, SameReminder, IdleDrops, OnlyCartCall
<1>2. CASE UpdateItem(s, o, l, q)
  <2> DEFINE r == [pc |-> "clamp", owner |-> o, line |-> l, quantity |-> q]
  <2>1. r \in ClampCall /\ r # NoCartCall /\ r.pc = "clamp" /\ Has(r.owner, r.line)
    BY <1>2 DEF ClampCall, NoCartCall, UpdateItem
  <2>2. /\ cartCall[s] = NoCartCall /\ cartCall' = [cartCall EXCEPT ![s] = r]
        /\ UNCHANGED <<lines, shelf, cartCopy, reminder, cartLoad>> /\ BlameCart({})
    BY <1>2 DEF UpdateItem, BeginCart
  <2> HIDE DEF r
  <2>3. CartCallMade(r) /\ CartFits(r) /\ Positive(r)
    BY <2>1 DEF CartCallMade, CartFits, Positive
  <2> QED BY <2>1, <2>2, <2>3, SameHeld, SameReminder, IdleDrops, OnlyCartCall
<1> QED BY <1>1, <1>2

LEMMA FindItemGoes ==
  ASSUME CartMade, NEW s \in CartSlots, FindItem(s)
  PROVE  CartGoes(s)
<1> DEFINE k == cartCall[s]
           sum == k.quantity + IF Has(k.owner, k.line) THEN Held(k.owner)[k.line] ELSE 0
           q == Min2(Clamp(k.line, sum, k.stock), MaxQuantity)
           n == [pc |-> "save", owner |-> k.owner, line |-> k.line, quantity |-> q,
                 there |-> Has(k.owner, k.line)]
           r == IF Refused(k.line, q) THEN NoCartCall ELSE n
<1>0. k \in FindCall /\ s \in CartBusy /\ CartAt(s, "find")
  BY CartAtIs DEF FindItem
<1>1. k.owner \in Owners /\ k.line \in Lines /\ k.quantity \in 1..MaxQuantity
  BY <1>0 DEF FindCall
<1>2. /\ lines' = [lines EXCEPT ![k.owner] = Held(k.owner)]
      /\ cartCall' = [cartCall EXCEPT ![s] = r]
      /\ reminder' = [reminder EXCEPT !.old = FALSE] \/ reminder' = reminder
      /\ UNCHANGED <<shelf, cartCopy, cartLoad>> /\ BlameCart({})
  BY DEF FindItem, StepCart, EndCart
<1>3. sum \in Nat /\ sum >= 1
  <2>1. Has(k.owner, k.line) => Held(k.owner)[k.line] \in 0..MaxQuantity
    BY <1>1, HeldIsCart, CartIs DEF Has, Quantities
  <2> HIDE DEF k
  <2> QED BY <1>1, <2>1, CartAssumption
<1>4. q \in Quantities /\ (~Refused(k.line, q) => q # 0)
  <2> DEFINE c == Clamp(k.line, sum, k.stock)
  <2>1. c \in 0..sum /\ (k.line \notin Physical => c = sum)
    BY <1>3, ClampIs
  <2>2. q = Min2(c, MaxQuantity)
    OBVIOUS
  <2> HIDE DEF k, sum, c, q
  <2> QED BY <1>3, <2>1, <2>2, CartAssumption DEF Min2, Quantities, Refused
<1>5. n \in SaveCall /\ n.pc = "save" /\ n.quantity = q /\ n # NoCartCall
  <2>1. Has(k.owner, k.line) \in BOOLEAN
    BY DEF Has
  <2> HIDE DEF k, q
  <2> QED BY <1>1, <1>4, <2>1 DEF SaveCall, NoCartCall
<1>6. n.owner = k.owner /\ n.line = k.line /\ n.there = Has(k.owner, k.line)
  OBVIOUS
<1> HIDE DEF k, n, q
<1>7. r = NoCartCall \/ (r = n /\ q # 0)
  BY <1>4
<1> HIDE DEF r
<1>8. CartCallMade(r) /\ CartFits(r) /\ Positive(r) /\ r.pc \in {"idle", "save"}
  BY <1>5, <1>6, <1>7 DEF CartCallMade, CartFits, Positive, NoCartCall
<1>9. /\ lines' \in [Owners -> Cart \cup {NoLines}] /\ \A o \in Owners : Held(o)' = Held(o)
      /\ lines["user"] # NoLines => lines'["user"] # NoLines
  <2>1. Held(k.owner) \in Cart
    BY <1>1, HeldIsCart
  <2>2. lines \in [Owners -> Cart \cup {NoLines}]
    BY DEF CartMade, CartsTypeOK
  <2>3. \A o \in Owners : lines'[o] = IF o = k.owner THEN Held(o) ELSE lines[o]
    BY <1>1, <1>2, <2>2
  <2>4. \A o \in Owners : Held(o)' = Held(o)
    BY <2>1, <2>3, NoCartAssumption DEF Held
  <2> QED BY <1>2, <2>1, <2>2, <2>3, <2>4, NoCartAssumption DEF Owners
<1>10. ~CartAt(s, "notified") /\ \A o \in Owners : ~DropsCopy(k, o)
  BY <1>0 DEF CartAt, DropsCopy, k
<1>11. /\ reminder' \in [old : BOOLEAN, notified : BOOLEAN, mails : 0..2]
       /\ reminder'.mails = reminder.mails /\ reminder'.notified = reminder.notified
  BY <1>2, OldOnly
<1> QED BY <1>0, <1>2, <1>8, <1>9, <1>10, <1>11, OnlyCartCall DEF k

LEMMA ClampItemGoes ==
  ASSUME CartMade, NEW s \in CartSlots, ClampItem(s)
  PROVE  CartGoes(s)
<1> DEFINE k == cartCall[s]
<1>0. k \in ClampCall /\ s \in CartBusy /\ CartAt(s, "clamp")
  BY CartAtIs DEF ClampItem
<1>1. k.owner \in Owners /\ k.line \in Lines /\ k.quantity \in Nat /\ k.quantity <= MaxQuantity
  BY <1>0, CartAssumption DEF ClampCall
<1>2. PICK stock \in CatalogAnswers(k.line) :
        /\ StepCart(s, [pc |-> "save", owner |-> k.owner, line |-> k.line,
                        quantity |-> Clamp(k.line, k.quantity, stock), there |-> TRUE])
        /\ UNCHANGED <<lines, shelf, cartCopy, reminder, cartLoad>>
        /\ BlameCart(Cut(Clamp(k.line, k.quantity, stock)))
  BY DEF ClampItem
<1> DEFINE q == Clamp(k.line, k.quantity, stock)
           r == [pc |-> "save", owner |-> k.owner, line |-> k.line, quantity |-> q,
                 there |-> TRUE]
<1>3. q \in Quantities
  <2>1. q \in 0..k.quantity
    BY <1>1, ClampIs
  <2> HIDE DEF q, k
  <2> QED BY <1>1, <2>1, CartAssumption DEF Quantities
<1>4. r \in SaveCall /\ r.pc = "save" /\ r.quantity = q /\ r # NoCartCall
  <2> HIDE DEF q, k
  <2> QED BY <1>1, <1>3 DEF SaveCall, NoCartCall
<1>5. /\ cartCall' = [cartCall EXCEPT ![s] = r] /\ BlameCart(Cut(q))
      /\ r.owner = k.owner /\ r.line = k.line
  BY <1>2 DEF StepCart
<1>6. CartFits(k) => Has(k.owner, k.line)
  BY <1>0 DEF CartFits, CartAt
<1>7. ~CartAt(s, "notified") /\ \A o \in Owners : ~DropsCopy(k, o)
  BY <1>0 DEF CartAt, DropsCopy
<1> HIDE DEF r, q
<1>8. CartCallMade(r) /\ (CartFits(k) => CartFits(r)) /\ ("soldOut" \in Cut(q) \/ Positive(r))
  BY <1>4, <1>5, <1>6 DEF CartCallMade, CartFits, Positive, Cut
<1>9. Cut(q) \in SUBSET CartFaults
  BY DEF Cut, CartFaults
<1> QED BY <1>0, <1>2, <1>4, <1>5, <1>7, <1>8, <1>9, SameHeld, SameReminder, OnlyCartCall

LEMMA CallDiesGoes ==
  ASSUME CartMade, NEW s \in CartSlots, CartCallDies(s)
  PROVE  CartGoes(s)
<1> DEFINE r == NoCartCall
<1>1. /\ s \in CartBusy /\ cartCall' = [cartCall EXCEPT ![s] = r]
      /\ UNCHANGED <<lines, shelf, cartCopy, reminder, cartLoad>> /\ BlameCart({"died"})
  BY DEF CartCallDies, EndCart
<1>2. CartCallMade(r) /\ r.pc = "idle" /\ {"died"} \in SUBSET CartFaults
  BY DEF CartCallMade, NoCartCall, CartFaults
<1> HIDE DEF r
<1>3. r = NoCartCall
  BY DEF r
<1> QED BY <1>1, <1>2, <1>3, SameHeld, SameReminder, OnlyCartCall

LEMMA FindAbandonedGoes ==
  ASSUME CartMade, NEW s \in CartSlots, FindAbandoned(s)
  PROVE  CartGoes(s)
<1> DEFINE r == [pc |-> "remind", owner |-> "user", read |-> lines["user"]]
<1>0. "user" \in Owners
  BY DEF Owners
<1>1. Held("user") = lines["user"] /\ lines["user"] \in Cart /\ ~reminder.notified
  <2>1. lines["user"] # NoLines
    BY EmptyCart DEF FindAbandoned, Held
  <2> QED BY <1>0, <2>1 DEF FindAbandoned, Due, Held, CartMade, CartsTypeOK
<1>2. r \in RemindCall /\ r # NoCartCall /\ r.pc = "remind" /\ r.read = Held("user")
  BY <1>1 DEF RemindCall, NoCartCall
<1>3. /\ cartCall[s] = NoCartCall /\ cartCall' = [cartCall EXCEPT ![s] = r]
      /\ UNCHANGED <<lines, shelf, cartCopy, reminder, cartLoad>> /\ BlameCart({})
  BY DEF FindAbandoned, BeginCart
<1> HIDE DEF r
<1>4. CartCallMade(r) /\ CartFits(r) /\ (NoneEmpty => Positive(r))
  BY <1>0, <1>2 DEF CartCallMade, CartFits, Positive, NoneEmpty, Emptied
<1> QED BY <1>1, <1>2, <1>3, <1>4, SameHeld, SameReminder, IdleDrops, OnlyCartCall

LEMMA MergeGuestGoes ==
  ASSUME CartMade, NEW s \in CartSlots, MergeGuest(s)
  PROVE  CartGoes(s)
<1> DEFINE r == [pc |-> "merge", owner |-> "user", todo |-> lines["guest"]]
<1>0. "user" \in Owners /\ "guest" \in Owners
  BY DEF Owners
<1>1. Held("guest") = lines["guest"] /\ lines["guest"] \in Cart
  <2>1. lines["guest"] # NoLines
    BY EmptyCart DEF MergeGuest, Held
  <2> QED BY <1>0, <2>1 DEF Held, CartMade, CartsTypeOK
<1>2. r \in MergeCall /\ r # NoCartCall /\ r.pc = "merge" /\ r.todo = Held("guest")
  BY <1>1 DEF MergeCall, NoCartCall
<1>3. /\ cartCall[s] = NoCartCall /\ cartCall' = [cartCall EXCEPT ![s] = r]
      /\ lines' = [lines EXCEPT !["user"] = Held("user")]
      /\ reminder' = [reminder EXCEPT !.old = FALSE] \/ reminder' = reminder
      /\ UNCHANGED <<shelf, cartCopy, cartLoad>> /\ BlameCart({})
  BY DEF MergeGuest, BeginCart
<1> HIDE DEF r
<1>4. CartCallMade(r) /\ CartFits(r) /\ (NoneEmpty => Positive(r))
  BY <1>0, <1>2 DEF CartCallMade, CartFits, MergeFits, Positive, NoneEmpty, Emptied
<1>5. /\ lines' \in [Owners -> Cart \cup {NoLines}] /\ \A o \in Owners : Held(o)' = Held(o)
      /\ lines'["user"] # NoLines
  <2>1. Held("user") \in Cart
    BY <1>0, HeldIsCart
  <2>2. lines \in [Owners -> Cart \cup {NoLines}]
    BY DEF CartMade, CartsTypeOK
  <2>3. \A o \in Owners : lines'[o] = IF o = "user" THEN Held("user") ELSE lines[o]
    BY <1>0, <1>3, <2>2
  <2>4. \A o \in Owners : Held(o)' = Held(o)
    BY <2>1, <2>3, NoCartAssumption DEF Held
  <2> QED BY <1>0, <1>3, <2>1, <2>2, <2>3, <2>4, NoCartAssumption
<1>6. /\ reminder' \in [old : BOOLEAN, notified : BOOLEAN, mails : 0..2]
      /\ reminder'.mails = reminder.mails /\ reminder'.notified = reminder.notified
  BY <1>3, OldOnly
<1> QED BY <1>2, <1>3, <1>4, <1>5, <1>6, IdleDrops, OnlyCartCall

LEMMA MergeLineGoes ==
  ASSUME CartMade, NEW s \in CartSlots, NEW l \in Lines, MergeLine(s, l)
  PROVE  CartGoes(s)
<1> DEFINE k == cartCall[s]
           rest == [k EXCEPT !.todo = WithoutLine(@, {l})]
<1>0. /\ k \in MergeCall /\ s \in CartBusy /\ CartAt(s, "merge") /\ lines["user"] # NoLines
      /\ l \in DOMAIN k.todo
  BY CartAtIs DEF MergeLine
<1>1. k.todo \in Cart /\ k.todo[l] \in Quantities
  <2>1. k.todo \in Cart
    BY <1>0 DEF MergeCall
  <2> HIDE DEF k
  <2> QED BY <1>0, <2>1, CartIs
<1>2. PICK stock \in CatalogAnswers(l) :
        /\ StepCart(s, IF stock = NoProduct THEN rest
             ELSE [pc |-> "mergeSave", owner |-> "user", line |-> l,
                   quantity |-> Clamp(l, Merged(l, k.todo[l]), stock),
                   there |-> Has("user", l), todo |-> rest.todo])
        /\ UNCHANGED <<lines, shelf, cartCopy, reminder, cartLoad>>
        /\ BlameCart(Cut(Clamp(l, Merged(l, k.todo[l]), stock)))
  BY DEF MergeLine
<1> DEFINE m == Merged(l, k.todo[l])
           q == Clamp(l, m, stock)
           n == [pc |-> "mergeSave", owner |-> "user", line |-> l, quantity |-> q,
                 there |-> Has("user", l), todo |-> rest.todo]
           r == IF stock = NoProduct THEN rest ELSE n
<1>3. /\ m \in Quantities /\ m >= k.todo[l] /\ (Has("user", l) => m >= Held("user")[l])
  <2>1. Has("user", l) => Held("user")[l] \in Quantities
    BY HeldIsCart, CartIs DEF Has, Owners
  <2> HIDE DEF k
  <2> QED BY <1>1, <2>1, CartAssumption DEF Merged, Quantities
<1>4. q \in Quantities /\ (l \notin Physical => q = m)
  <2>1. m \in Nat /\ m <= MaxQuantity
    BY <1>3, CartAssumption DEF Quantities
  <2>2. q \in 0..m /\ (l \notin Physical => q = m)
    BY <2>1, ClampIs
  <2> HIDE DEF q, m
  <2> QED BY <2>1, <2>2, CartAssumption DEF Quantities
<1>5. /\ rest \in MergeCall /\ rest.pc = "merge" /\ rest.todo = WithoutLine(k.todo, {l})
      /\ WithoutLine(k.todo, {l}) \in Cart
  <2>1. WithoutLine(k.todo, {l}) \in Cart
    BY <1>1, WithoutIs
  <2> HIDE DEF k
  <2> QED BY <1>0, <2>1 DEF MergeCall
<1>6. /\ n.pc = "mergeSave" /\ n.line = l /\ n.quantity = q
      /\ n.todo = rest.todo /\ (n.there <=> Has("user", l)) /\ n.there \in BOOLEAN
      /\ n = [pc |-> "mergeSave", owner |-> "user", line |-> l, quantity |-> q,
              there |-> n.there, todo |-> rest.todo]
  <2>1. Has("user", l) \in BOOLEAN
    BY DEF Has
  <2> HIDE DEF q, rest
  <2> QED BY <2>1
<1>7. cartCall' = [cartCall EXCEPT ![s] = r] /\ BlameCart(Cut(q))
  BY <1>2 DEF StepCart
<1> HIDE DEF n, rest, q, m
<1>8. n \in MergeSaveCall
  BY <1>4, <1>5, <1>6 DEF MergeSaveCall
<1>9. /\ DOMAIN rest.todo = DOMAIN k.todo \ {l}
      /\ \A j \in DOMAIN rest.todo : rest.todo[j] = k.todo[j]
  <2> DEFINE w == WithoutLine(k.todo, {l})
  <2>1. DOMAIN w = DOMAIN k.todo \ {l} /\ \A j \in DOMAIN k.todo \ {l} : w[j] = k.todo[j]
    BY <1>1, WithoutIs
  <2>2. rest.todo = w
    BY <1>5
  <2> HIDE DEF w, k
  <2> QED BY <2>1, <2>2
<1>10. stock = NoProduct => MaySkip(l)
  BY DEF CatalogAnswers, MaySkip
<1>11. MergeFits(k) => CartFits(r)
  <2> SUFFICES ASSUME MergeFits(k) PROVE CartFits(r)
    OBVIOUS
  <2>1. CASE stock = NoProduct
    <3>1. r = rest
      BY <2>1
    <3> HIDE DEF r
    <3>2. k.pc = "merge" /\ MaySkip(l)
      BY <1>0, <1>10, <2>1 DEF CartAt
    <3> HIDE DEF k
    <3>3. \A j \in DOMAIN Held("guest") : j \in DOMAIN k.todo \/ MergedIn(j) \/ MaySkip(j)
      BY <3>2 DEF MergeFits
    <3>4. \A j \in DOMAIN rest.todo :
             j \in DOMAIN Held("guest") /\ rest.todo[j] = Held("guest")[j]
      BY <1>9 DEF MergeFits
    <3>5. \A j \in DOMAIN Held("guest") : j \in DOMAIN rest.todo \/ MergedIn(j) \/ MaySkip(j)
      BY <1>9, <3>2, <3>3
    <3>6. MergeFits(rest)
      BY <1>5, <3>4, <3>5 DEF MergeFits
    <3> QED BY <1>5, <3>1, <3>6 DEF CartFits
  <2>2. CASE stock # NoProduct
    <3>1. r = n
      BY <2>2
    <3> HIDE DEF r
    <3>2. k.pc = "merge"
      BY <1>0 DEF MergeCall
    <3> HIDE DEF k
    <3>3. l \in Physical \/ (l \in DOMAIN Held("guest") => q >= Held("guest")[l])
      BY <1>0, <1>3, <1>4 DEF MergeFits
    <3>4. \A j \in DOMAIN Held("guest") :
             j \in DOMAIN k.todo \/ MergedIn(j) \/ MaySkip(j)
      BY <3>2 DEF MergeFits
    <3>5. MergeFits(n)
      BY <1>6, <1>9, <3>3, <3>4 DEF MergeFits
    <3> QED BY <1>6, <3>1, <3>5 DEF CartFits
  <2> QED BY <2>1, <2>2
<1>12. CartFits(k) => MergeFits(k)
  BY <1>0 DEF CartFits, CartAt
<1>13. r = rest \/ r = n
  OBVIOUS
<1> HIDE DEF r
<1>14. CartCallMade(r) /\ r.pc \in {"merge", "mergeSave"} /\ r # NoCartCall
  BY <1>5, <1>6, <1>8, <1>13 DEF CartCallMade, NoCartCall
<1>15. NoneEmpty => "soldOut" \in Cut(q) \/ Positive(r)
  <2> SUFFICES ASSUME NoneEmpty, q # 0 PROVE Positive(r)
    BY DEF Cut
  <2>1. \A j \in DOMAIN k.todo : k.todo[j] # 0
    BY <1>0 DEF NoneEmpty, Positive, CartAt
  <2>2. \A j \in DOMAIN r.todo : r.todo[j] # 0
    BY <1>6, <1>9, <1>13, <2>1
  <2> QED BY <1>5, <1>6, <1>13, <2>2 DEF Positive
<1>16. Cut(q) \in SUBSET CartFaults
  BY DEF Cut, CartFaults
<1>17. /\ ~CartAt(s, "notified") /\ r.pc # "notified" /\ r.pc # "remind"
       /\ \A o \in Owners : DropsCopy(k, o) => DropsCopy(r, o)
  BY <1>0, <1>14 DEF CartAt, DropsCopy
<1> QED BY <1>0, <1>2, <1>7, <1>11, <1>12, <1>14, <1>15, <1>16, <1>17, SameHeld, SameReminder,
           OnlyCartCall

-----------------------------------------------------------------------------
(* A step that changes no count of mails and neither reads for a reminder   *)
(* nor mails it.                                                            *)
LEMMA RemindSame ==
  ASSUME CartMade, NEW s \in CartSlots, CartStepOK(s), UNCHANGED reminder,
         cartCall[s].pc # "notified", cartCall'[s].pc \notin {"remind", "notified"}
  PROVE  RemindFits => RemindFits'
<1> SUFFICES ASSUME RemindFits PROVE RemindFits'
  OBVIOUS
<1>1. \A t \in CartSlots : t # s => cartCall'[t] = cartCall[t]
  BY DEF CartStepOK
<1>2. \A t \in CartSlots : t # s => (t \in CartBusy' <=> t \in CartBusy)
  BY <1>1 DEF CartBusy
<1>3. (\E t \in CartBusy : CartAt(t, "notified")) => \E t \in CartBusy' : CartAt(t, "notified")'
  BY <1>1, <1>2 DEF CartAt, CartBusy
<1>4. \A t \in CartBusy' : CartAt(t, "remind")' \/ CartAt(t, "notified")' =>
        t # s /\ t \in CartBusy
  BY <1>2 DEF CartAt, CartBusy
<1>5. \A t \in CartSlots : t # s => /\ CartAt(t, "remind")' <=> CartAt(t, "remind")
                                    /\ CartAt(t, "notified")' <=> CartAt(t, "notified")
  BY <1>1 DEF CartAt
<1>6. \A t \in CartBusy' : t \in CartSlots
  BY DEF CartBusy
<1>7. \A t \in CartBusy' : /\ CartAt(t, "remind")' => reminder.mails = 0
                           /\ CartAt(t, "notified")' => reminder.mails = 1
  BY <1>4, <1>5, <1>6 DEF RemindFits
<1>8. reminder.mails = 1 => reminder.notified \/ \E t \in CartBusy' : CartAt(t, "notified")'
  BY <1>3 DEF RemindFits
<1>9. reminder' = reminder
  OBVIOUS
<1> QED BY <1>7, <1>8, <1>9 DEF RemindFits

(* A step that writes one cart, whose copy it will drop.                    *)
LEMMA CallWrites ==
  ASSUME CartMade, NEW s \in CartSlots, NEW r, CartCallMade(r), r # NoCartCall,
         cartCall' = [cartCall EXCEPT ![s] = r], NEW o \in Owners,
         lines' \in [Owners -> Cart \cup {NoLines}],
         \A u \in Owners : u # o => Held(u)' = Held(u),
         UNCHANGED <<shelf, cartCopy, reminder, cartLoad>>, BlameCart({}),
         lines["user"] # NoLines => lines'["user"] # NoLines,
         r.pc \in {"merge", "mergeSave"} => lines'["user"] # NoLines,
         DropsCopy(r, o), \A u \in Owners : s \in CartBusy /\ DropsCopy(cartCall[s], u) => DropsCopy(r, u),
         NoneEmpty => ~Emptied(o)' /\ Positive(r),
         CartBusy \subseteq {s} /\ (s \in CartBusy => CartFits(cartCall[s]))
           => CartFits(cartCall[s])',
         cartCall[s].pc # "notified", r.pc \notin {"remind", "notified"}
  PROVE  CartGoes(s)
<1>1. CartStepOK(s) /\ cartCall'[s] = r
  <2>1. /\ cartCopy' \in [Owners -> Cart \cup {NoCopy}]
        /\ reminder' \in [old : BOOLEAN, notified : BOOLEAN, mails : 0..2]
    BY DEF CartMade, CartsTypeOK
  <2>2. {} \in SUBSET CartFaults
    OBVIOUS
  <2> QED BY <2>1, <2>2, CartPut
<1>2. s \in CartBusy'
  BY <1>1 DEF CartBusy
<1>3. \A u \in Owners : u # o => (Emptied(u)' <=> Emptied(u)) /\ (StaleCopy(u)' <=> StaleCopy(u))
  BY DEF Emptied, StaleCopy
<1>4. EmptyKept(s)
  BY <1>1, <1>3 DEF EmptyKept, NoneEmpty
<1>5. ASSUME CartBusy \subseteq {s}, CopiesFollow PROVE CopiesFollow'
  <2>1. ASSUME NEW u \in Owners, StaleCopy(u)' PROVE DropsCopy(cartCall'[s], u)
    <3>1. CASE u = o
      BY <1>1, <3>1
    <3>2. CASE u # o
      <4>1. StaleCopy(u)
        BY <1>3, <2>1, <3>2
      <4>2. s \in CartBusy /\ DropsCopy(cartCall[s], u)
        BY <1>5, <4>1 DEF CopiesFollow
      <4> QED BY <1>1, <4>2
    <3> QED BY <3>1, <3>2
  <2> QED BY <1>2, <2>1 DEF CopiesFollow
<1>6. RemindFits => RemindFits'
  BY <1>1, RemindSame
<1> QED BY <1>1, <1>4, <1>5, <1>6 DEF CartGoes, LoneCallKept

(* A step that only writes copies.                                          *)
LEMMA CallCopies ==
  ASSUME CartMade, NEW s \in CartSlots, NEW r, CartCallMade(r),
         cartCall' = [cartCall EXCEPT ![s] = r], s \in CartBusy,
         cartCopy' \in [Owners -> Cart \cup {NoCopy}],
         UNCHANGED <<lines, shelf, reminder, cartLoad>>, BlameCart({}),
         \A u \in Owners :
           \/ /\ cartCopy'[u] = cartCopy[u]
              /\ DropsCopy(cartCall[s], u) => r # NoCartCall /\ DropsCopy(r, u)
           \/ cartCopy'[u] = NoCopy
           \/ CartFits(cartCall[s]) => cartCopy'[u] = Held(u),
         cartCall[s].pc # "notified",
         r.pc \in {"idle", "get", "invalidateUser", "invalidateGuest"}
  PROVE  CartGoes(s)
<1>1. CartStepOK(s) /\ cartCall'[s] = r
  <2>1. /\ lines' \in [Owners -> Cart \cup {NoLines}]
        /\ reminder' \in [old : BOOLEAN, notified : BOOLEAN, mails : 0..2]
    BY DEF CartMade, CartsTypeOK
  <2>2. {} \in SUBSET CartFaults
    OBVIOUS
  <2> QED BY <2>1, <2>2, CartPut
<1>2. \A u \in Owners : (Emptied(u)' <=> Emptied(u)) /\ Held(u)' = Held(u)
  BY DEF Emptied, Held
<1>3. s \in CartBusy' <=> r # NoCartCall
  BY <1>1 DEF CartBusy
<1>4. EmptyKept(s)
  BY <1>1, <1>2 DEF EmptyKept, NoneEmpty, Positive
<1>5. CartFits(cartCall[s])'
  BY <1>1 DEF CartFits
<1>6. ASSUME CartBusy \subseteq {s}, CartFits(cartCall[s]), CopiesFollow PROVE CopiesFollow'
  <2>1. ASSUME NEW u \in Owners, StaleCopy(u)' PROVE s \in CartBusy' /\ DropsCopy(cartCall'[s], u)
    <3>1. cartCopy'[u] = cartCopy[u] /\ (DropsCopy(cartCall[s], u) => r # NoCartCall /\ DropsCopy(r, u))
      BY <1>2, <1>6, <2>1 DEF StaleCopy
    <3>2. StaleCopy(u)
      BY <1>2, <2>1, <3>1 DEF StaleCopy
    <3>3. DropsCopy(cartCall[s], u)
      BY <1>6, <3>2 DEF CopiesFollow
    <3> QED BY <1>1, <1>3, <3>1, <3>3
  <2> QED BY <2>1 DEF CopiesFollow
<1>7. RemindFits => RemindFits'
  BY <1>1, RemindSame
<1> QED BY <1>1, <1>4, <1>5, <1>6, <1>7 DEF CartGoes, LoneCallKept

LEMMA CopiesGo ==
  ASSUME CartMade, NEW s \in CartSlots,
         FillCopy(s) \/ Invalidate(s) \/ InvalidateUser(s) \/ InvalidateGuest(s)
  PROVE  CartGoes(s)
<1> DEFINE k == cartCall[s]
<1>0. "user" \in Owners /\ "guest" \in Owners
  BY DEF Owners
<1>1. CASE FillCopy(s)
  <2>1. k \in CopyCall /\ s \in CartBusy /\ k.pc = "fill"
    BY <1>1, CartAtIs DEF FillCopy, CartAt
  <2>2. k.owner \in Owners /\ k.read \in Cart
    BY <2>1 DEF CopyCall
  <2>3. /\ cartCopy' = [cartCopy EXCEPT ![k.owner] = k.read]
        /\ cartCall' = [cartCall EXCEPT ![s] = NoCartCall]
        /\ UNCHANGED <<lines, shelf, reminder, cartLoad>> /\ BlameCart({})
    BY <1>1 DEF FillCopy, EndCart
  <2>4. /\ CartFits(k) => k.read = Held(k.owner)
        /\ \A u \in Owners : ~DropsCopy(k, u)
    BY <2>1 DEF CartFits, DropsCopy
  <2>5. CartCallMade(NoCartCall) /\ NoCartCall.pc = "idle"
    BY DEF CartCallMade, NoCartCall
  <2> HIDE DEF k
  <2>6. /\ cartCopy' \in [Owners -> Cart \cup {NoCopy}]
        /\ \A u \in Owners : cartCopy'[u] = IF u = k.owner THEN k.read ELSE cartCopy[u]
    BY <2>2, <2>3 DEF CartMade, CartsTypeOK
  <2>7. \A u \in Owners : \/ cartCopy'[u] = cartCopy[u] /\ ~DropsCopy(k, u)
                          \/ CartFits(k) => cartCopy'[u] = Held(u)
    BY <2>4, <2>6
  <2> QED BY <2>1, <2>3, <2>5, <2>6, <2>7, CallCopies DEF k
<1>2. CASE Invalidate(s)
  <2> DEFINE r == [pc |-> "get", owner |-> k.owner]
  <2>1. k \in EndingCall /\ s \in CartBusy /\ k.pc = "invalidate"
    BY <1>2, CartAtIs DEF Invalidate, CartAt
  <2>2. k.owner \in Owners /\ r \in EndingCall /\ r.pc = "get"
    BY <2>1 DEF EndingCall
  <2>3. /\ cartCopy' = [cartCopy EXCEPT ![k.owner] = NoCopy]
        /\ cartCall' = [cartCall EXCEPT ![s] = r]
        /\ UNCHANGED <<lines, shelf, reminder, cartLoad>> /\ BlameCart({})
    BY <1>2 DEF Invalidate, StepCart
  <2>4. \A u \in Owners : u # k.owner => ~DropsCopy(k, u)
    BY <2>1 DEF DropsCopy
  <2> HIDE DEF k, r
  <2>5. /\ cartCopy' \in [Owners -> Cart \cup {NoCopy}]
        /\ \A u \in Owners : cartCopy'[u] = IF u = k.owner THEN NoCopy ELSE cartCopy[u]
    BY <2>2, <2>3 DEF CartMade, CartsTypeOK
  <2>6. CartCallMade(r)
    BY <2>2 DEF CartCallMade
  <2>7. \A u \in Owners : \/ cartCopy'[u] = cartCopy[u] /\ ~DropsCopy(k, u)
                          \/ cartCopy'[u] = NoCopy
    BY <2>4, <2>5
  <2> QED BY <2>1, <2>2, <2>3, <2>5, <2>6, <2>7, CallCopies DEF k
<1>3. CASE InvalidateUser(s)
  <2> DEFINE r == [pc |-> "invalidateGuest", owner |-> "user"]
  <2>1. k \in EndingCall /\ s \in CartBusy /\ k.pc = "invalidateUser"
    BY <1>3, CartAtIs DEF InvalidateUser, CartAt
  <2>2. r \in EndingCall /\ r.pc = "invalidateGuest" /\ r # NoCartCall
    BY <1>0 DEF EndingCall, NoCartCall
  <2>3. /\ cartCopy' = [cartCopy EXCEPT !["user"] = NoCopy]
        /\ cartCall' = [cartCall EXCEPT ![s] = r]
        /\ UNCHANGED <<lines, shelf, reminder, cartLoad>> /\ BlameCart({})
    BY <1>3 DEF InvalidateUser, StepCart
  <2> HIDE DEF k, r
  <2>4. /\ cartCopy' \in [Owners -> Cart \cup {NoCopy}]
        /\ \A u \in Owners : cartCopy'[u] = IF u = "user" THEN NoCopy ELSE cartCopy[u]
    BY <1>0, <2>3 DEF CartMade, CartsTypeOK
  <2>5. CartCallMade(r)
    BY <2>2 DEF CartCallMade
  <2>6. \A u \in Owners : u = "user" \/ DropsCopy(r, u)
    BY <2>2 DEF DropsCopy, Owners
  <2>7. \A u \in Owners : \/ cartCopy'[u] = cartCopy[u] /\ DropsCopy(r, u)
                          \/ cartCopy'[u] = NoCopy
    BY <2>4, <2>6
  <2> QED BY <2>1, <2>2, <2>3, <2>4, <2>5, <2>7, CallCopies DEF k
<1>4. CASE InvalidateGuest(s)
  <2> DEFINE r == [pc |-> "get", owner |-> "user"]
  <2>1. k \in EndingCall /\ s \in CartBusy /\ k.pc = "invalidateGuest"
    BY <1>4, CartAtIs DEF InvalidateGuest, CartAt
  <2>2. r \in EndingCall /\ r.pc = "get"
    BY <1>0 DEF EndingCall
  <2>3. /\ cartCopy' = [cartCopy EXCEPT !["guest"] = NoCopy]
        /\ cartCall' = [cartCall EXCEPT ![s] = r]
        /\ UNCHANGED <<lines, shelf, reminder, cartLoad>> /\ BlameCart({})
    BY <1>4 DEF InvalidateGuest, StepCart
  <2>4. \A u \in Owners : u # "guest" => ~DropsCopy(k, u)
    BY <2>1 DEF DropsCopy
  <2> HIDE DEF k, r
  <2>5. /\ cartCopy' \in [Owners -> Cart \cup {NoCopy}]
        /\ \A u \in Owners : cartCopy'[u] = IF u = "guest" THEN NoCopy ELSE cartCopy[u]
    BY <1>0, <2>3 DEF CartMade, CartsTypeOK
  <2>6. CartCallMade(r)
    BY <2>2 DEF CartCallMade
  <2>7. \A u \in Owners : \/ cartCopy'[u] = cartCopy[u] /\ ~DropsCopy(k, u)
                          \/ cartCopy'[u] = NoCopy
    BY <2>4, <2>5
  <2> QED BY <2>1, <2>2, <2>3, <2>5, <2>6, <2>7, CallCopies DEF k
<1> QED BY <1>1, <1>2, <1>3, <1>4

LEMMA PutCart ==
  ASSUME CartMade, NEW o \in Owners, NEW c \in Cart, lines' = [lines EXCEPT ![o] = c]
  PROVE  /\ lines' \in [Owners -> Cart \cup {NoLines}] /\ c # NoLines
         /\ \A u \in Owners : lines'[u] = IF u = o THEN c ELSE lines[u]
         /\ \A u \in Owners : Held(u)' = IF u = o THEN c ELSE Held(u)
<1>1. lines \in [Owners -> Cart \cup {NoLines}] /\ c # NoLines
  BY NoCartAssumption DEF CartMade, CartsTypeOK
<1>2. /\ lines' \in [Owners -> Cart \cup {NoLines}]
      /\ \A u \in Owners : lines'[u] = IF u = o THEN c ELSE lines[u]
  BY <1>1
<1>3. \A u \in Owners : Held(u)' = IF u = o THEN c ELSE Held(u)
  BY <1>1, <1>2 DEF Held
<1> QED BY <1>1, <1>2, <1>3

IsSaveOf(s, o, l, q) ==
  o = cartCall[s].owner /\ l = cartCall[s].line /\ q = cartCall[s].quantity

LEMMA SavePutGoes ==
  ASSUME CartMade, NEW s \in CartSlots, SaveItem(s), NEW CONSTANT o \in Owners,
         NEW CONSTANT l \in Lines, NEW CONSTANT q \in Quantities,
         IsSaveOf(s, o, l, q)
  PROVE  CartGoes(s)
<1> DEFINE k == cartCall[s]
           r == [pc |-> "invalidate", owner |-> k.owner]
<1>1. k \in SaveCall /\ s \in CartBusy /\ k.pc = "save"
  BY CartAtIs DEF SaveItem, CartAt
<1>2. k.owner \in Owners /\ k.line \in Lines /\ k.quantity \in Quantities
  BY <1>1 DEF SaveCall
<1>3. UNCHANGED <<shelf, cartCopy, reminder, cartLoad>> /\ BlameCart({})
  BY DEF SaveItem
<1>4. \A u \in Owners : ~DropsCopy(k, u)
  BY <1>1 DEF DropsCopy
<1>5. {} \in SUBSET CartFaults
  OBVIOUS
<1>6. CASE lines[k.owner] = NoLines \/ (~k.there /\ Has(k.owner, k.line))
  <2>1. cartCall' = [cartCall EXCEPT ![s] = NoCartCall] /\ UNCHANGED lines
    BY <1>6 DEF SaveItem, EndCart
  <2>2. CartCallMade(NoCartCall) /\ NoCartCall.pc = "idle"
    BY DEF CartCallMade, NoCartCall
  <2>3. /\ lines' \in [Owners -> Cart \cup {NoLines}]
        /\ \A u \in Owners : Held(u)' = Held(u)
    BY <2>1, SameHeld
  <2>4. /\ reminder' \in [old : BOOLEAN, notified : BOOLEAN, mails : 0..2]
        /\ reminder'.mails = reminder.mails /\ reminder'.notified = reminder.notified
    BY <1>3, SameReminder
  <2>5. ~CartAt(s, "notified")
    BY <1>1 DEF CartAt
  <2> HIDE DEF k, r
  <2> QED BY <1>1, <1>3, <1>4, <1>5, <2>1, <2>2, <2>3, <2>4, <2>5, OnlyCartCall DEF k
<1>7. CASE ~(lines[k.owner] = NoLines \/ (~k.there /\ Has(k.owner, k.line)))
  <2>1. /\ cartCall' = [cartCall EXCEPT ![s] = r]
        /\ lines' = [lines EXCEPT ![o] = With(@, l, q)]
    BY <1>7 DEF SaveItem, StepCart, IsSaveOf
  <2>2. r \in EndingCall /\ r # NoCartCall /\ r.pc = "invalidate" /\ r.owner = k.owner
    BY <1>2 DEF EndingCall, NoCartCall
  <2>3. /\ lines' \in [Owners -> Cart \cup {NoLines}]
        /\ \A u \in Owners : u # o => Held(u)' = Held(u)
        /\ lines["user"] # NoLines => lines'["user"] # NoLines
        /\ q # 0 /\ ~Emptied(o) => ~Emptied(o)'
    <3> DEFINE old == lines[o]
               c == With(old, l, q)
    <3>1. old = Held(o) /\ old \in Cart /\ lines' = [lines EXCEPT ![o] = c]
      BY <1>7, <2>1 DEF Held, CartMade, CartsTypeOK, IsSaveOf
    <3> HIDE DEF old, k, r
    <3>2. /\ c \in Cart /\ DOMAIN c = DOMAIN old \cup {l} /\ c[l] = q
          /\ \A i \in DOMAIN old : i # l => c[i] = old[i]
      BY <3>1, WithIs
    <3> HIDE DEF c
    <3>3. /\ lines' \in [Owners -> Cart \cup {NoLines}] /\ c # NoLines
          /\ \A u \in Owners : lines'[u] = IF u = o THEN c ELSE lines[u]
          /\ \A u \in Owners : Held(u)' = IF u = o THEN c ELSE Held(u)
      BY <3>1, <3>2, PutCart
    <3>4. lines["user"] # NoLines => lines'["user"] # NoLines
      BY <3>3 DEF Owners
    <3>5. q # 0 /\ ~Emptied(o) => ~Emptied(o)'
      BY <3>1, <3>2, <3>3 DEF Emptied
    <3> QED BY <3>3, <3>4, <3>5
  <2>4. CartCallMade(r) /\ DropsCopy(r, o) /\ Positive(r)
    BY <2>2 DEF CartCallMade, DropsCopy, Positive, IsSaveOf
  <2>5. NoneEmpty => ~Emptied(o)'
    BY <1>1, <1>2, <2>3 DEF NoneEmpty, Positive, IsSaveOf
  <2>6. CartFits(cartCall[s])'
    <3>1. cartCall'[s] = r
      BY <2>1 DEF CartMade, CartsTypeOK
    <3> QED BY <2>2, <3>1 DEF CartFits
  <2> HIDE DEF k, r
  <2> QED BY <1>1, <1>2, <1>3, <1>4, <2>1, <2>2, <2>3, <2>4, <2>5, <2>6, CallWrites DEF k
<1> QED BY <1>6, <1>7

LEMMA SaveItemGoes ==
  ASSUME CartMade, NEW s \in CartSlots, SaveItem(s)
  PROVE  CartGoes(s)
<1>1. cartCall[s] \in SaveCall
  BY CartAtIs DEF SaveItem
<1>2. /\ cartCall[s].owner \in Owners /\ cartCall[s].line \in Lines
      /\ cartCall[s].quantity \in Quantities
  BY <1>1 DEF SaveCall
<1> QED BY <1>2, SavePutGoes DEF IsSaveOf

LEMMA RemoveItemsGoes ==
  ASSUME CartMade, NEW s \in CartSlots, NEW o \in Owners, NEW ls, RemoveItems(s, o, ls)
  PROVE  CartGoes(s)
<1> DEFINE r == [pc |-> "invalidate", owner |-> o]
           c == WithoutLine(lines[o], ls)
<1>1. /\ cartCall[s] = NoCartCall /\ cartCall' = [cartCall EXCEPT ![s] = r]
      /\ lines[o] # NoLines /\ lines' = [lines EXCEPT ![o] = c]
      /\ UNCHANGED <<shelf, cartCopy, reminder, cartLoad>> /\ BlameCart({})
  BY DEF RemoveItems, BeginCart
<1>2. r \in EndingCall /\ r # NoCartCall /\ r.pc = "invalidate" /\ r.owner = o
  BY DEF EndingCall, NoCartCall
<1>3. lines[o] \in Cart /\ lines \in [Owners -> Cart \cup {NoLines}]
  BY <1>1 DEF CartMade, CartsTypeOK
<1>4. /\ c \in Cart /\ DOMAIN c = DOMAIN lines[o] \ ls
      /\ \A l \in DOMAIN lines[o] \ ls : c[l] = lines[o][l]
  BY <1>3, WithoutIs
<1>5. CartCallMade(r) /\ DropsCopy(r, o) /\ Positive(r)
  BY <1>2 DEF CartCallMade, DropsCopy, Positive
<1>6. s \notin CartBusy /\ cartCall[s].pc = "idle"
  BY <1>1 DEF CartBusy, NoCartCall
<1> HIDE DEF c, r
<1>7. /\ lines' \in [Owners -> Cart \cup {NoLines}] /\ lines'[o] = c /\ c # NoLines
      /\ \A u \in Owners : u # o => lines'[u] = lines[u]
  BY <1>1, <1>3, <1>4, NoCartAssumption
<1>8. \A u \in Owners : u # o => Held(u)' = Held(u)
  BY <1>7 DEF Held
<1>9. ~Emptied(o) => ~Emptied(o)'
  BY <1>1, <1>4, <1>7 DEF Emptied, Held
<1>10. CartFits(cartCall[s])'
  <2>1. cartCall'[s] = r
    BY <1>1 DEF CartMade, CartsTypeOK
  <2> QED BY <1>2, <2>1 DEF CartFits
<1>11. lines["user"] # NoLines => lines'["user"] # NoLines
  BY <1>1, <1>7 DEF Owners
<1> QED BY <1>1, <1>2, <1>5, <1>6, <1>7, <1>8, <1>9, <1>10, <1>11, CallWrites DEF NoneEmpty

LEMMA MergedPutGoes ==
  ASSUME CartMade, NEW s \in CartSlots, SaveMerged(s), NEW CONSTANT o \in Owners,
         NEW CONSTANT l \in Lines, NEW CONSTANT q \in Quantities,
         IsSaveOf(s, o, l, q), o = "user"
  PROVE  CartGoes(s)
<1> DEFINE k == cartCall[s]
           r == [pc |-> "merge", owner |-> "user", todo |-> k.todo]
<1>0. "user" \in Owners /\ "guest" \in Owners
  BY DEF Owners
<1>1. /\ k \in MergeSaveCall /\ s \in CartBusy /\ k.pc = "mergeSave" /\ lines["user"] # NoLines
  BY CartAtIs DEF SaveMerged, CartAt
<1>2. k.todo \in Cart /\ k.owner = "user" /\ k.line = l /\ k.quantity = q
  BY <1>1 DEF MergeSaveCall, IsSaveOf
<1>3. UNCHANGED <<shelf, cartCopy, reminder, cartLoad>> /\ BlameCart({})
  BY DEF SaveMerged
<1>4. {} \in SUBSET CartFaults
  OBVIOUS
<1>5. CASE ~k.there /\ Has("user", l)
  <2>1. cartCall' = [cartCall EXCEPT ![s] = NoCartCall] /\ UNCHANGED lines
    BY <1>2, <1>5 DEF SaveMerged, EndCart
  <2>2. CartCallMade(NoCartCall) /\ NoCartCall.pc = "idle"
    BY DEF CartCallMade, NoCartCall
  <2>3. /\ lines' \in [Owners -> Cart \cup {NoLines}]
        /\ cartCopy' \in [Owners -> Cart \cup {NoCopy}]
        /\ reminder' \in [old : BOOLEAN, notified : BOOLEAN, mails : 0..2]
    BY <1>3, <2>1 DEF CartMade, CartsTypeOK
  <2>4. CartStepOK(s) /\ cartCall'[s] = NoCartCall
    <3> HIDE DEF k, r
    <3> QED BY <1>1, <1>3, <1>4, <2>1, <2>2, <2>3, CartPut
  <2>5. s \notin CartBusy' /\ \A u \in Owners : Emptied(u)' <=> Emptied(u)
    BY <2>1, <2>4 DEF CartBusy, Emptied, Held
  <2>6. EmptyKept(s)
    BY <2>5 DEF EmptyKept, NoneEmpty
  <2>7. ~CartFits(k)
    BY <1>1, <1>2, <1>5 DEF CartFits, MergeFits
  <2>8. LoneCallKept(s)
    BY <1>1, <2>7 DEF LoneCallKept
  <2> QED BY <2>4, <2>6, <2>8 DEF CartGoes
<1>6. CASE ~(~k.there /\ Has("user", l))
  <2> DEFINE old == lines[o]
             c == With(old, l, q)
  <2>1. /\ cartCall' = [cartCall EXCEPT ![s] = r] /\ old = Held(o) /\ old \in Cart
        /\ lines' = [lines EXCEPT ![o] = c]
    BY <1>1, <1>2, <1>6 DEF SaveMerged, StepCart, Held, CartMade, CartsTypeOK
  <2>2. r \in MergeCall /\ r # NoCartCall /\ r.pc = "merge" /\ r.owner = "user"
        /\ r.todo = k.todo
    BY <1>2 DEF MergeCall, NoCartCall
  <2>3. cartCall'[s] = r
    BY <2>1 DEF CartMade, CartsTypeOK
  <2> HIDE DEF old, k, r
  <2>4. /\ c \in Cart /\ DOMAIN c = DOMAIN old \cup {l} /\ c[l] = q
        /\ \A i \in DOMAIN old : i # l => c[i] = old[i]
    BY <2>1, WithIs
  <2> HIDE DEF c
  <2>5. /\ lines' \in [Owners -> Cart \cup {NoLines}] /\ c # NoLines
        /\ \A u \in Owners : lines'[u] = IF u = o THEN c ELSE lines[u]
        /\ \A u \in Owners : Held(u)' = IF u = o THEN c ELSE Held(u)
    BY <2>1, <2>4, PutCart
  <2>6. CartCallMade(r) /\ DropsCopy(r, o) /\ (Positive(k) => Positive(r))
    BY <1>1, <2>2 DEF CartCallMade, DropsCopy, Positive
  <2>7. NoneEmpty => ~Emptied(o)' /\ Positive(r)
    <3>1. NoneEmpty => Positive(k)
      BY <1>1 DEF NoneEmpty, k
    <3>2. Positive(k) => q # 0
      BY <1>1, <1>2 DEF Positive
    <3>3. q # 0 /\ ~Emptied(o) => ~Emptied(o)'
      BY <2>1, <2>4, <2>5 DEF Emptied
    <3> QED BY <2>6, <3>1, <3>2, <3>3 DEF NoneEmpty
  <2>8. \A u \in Owners : DropsCopy(k, u) => DropsCopy(r, u)
    BY <1>1, <2>2 DEF DropsCopy
  <2>9. ASSUME CartFits(k) PROVE CartFits(cartCall[s])'
    <3>1. MergeFits(k)
      BY <1>1, <2>9 DEF CartFits
    <3>2. Held("guest")' = Held("guest") /\ Held("user")' = c /\ old = Held("user")
      BY <1>0, <2>1, <2>5
    <3>3. \A i \in DOMAIN r.todo : i \in DOMAIN Held("guest")' /\ r.todo[i] = Held("guest")'[i]
      BY <2>2, <3>1, <3>2 DEF MergeFits
    <3>4. ASSUME NEW i \in DOMAIN Held("guest"), ~MaySkip(i), i \notin DOMAIN r.todo
          PROVE  MergedIn(i)'
      <4>1. CASE i = l
        <5>1. l \in Physical \/ q >= Held("guest")[l]
          BY <1>1, <1>2, <3>1, <3>4, <4>1 DEF MergeFits
        <5> QED BY <2>4, <3>2, <4>1, <5>1 DEF MergedIn, Has
      <4>2. CASE i # l
        <5>1. MergedIn(i)
          BY <1>2, <2>2, <3>1, <3>4, <4>2 DEF MergeFits
        <5> QED BY <2>4, <3>2, <4>2, <5>1 DEF MergedIn, Has
      <4> QED BY <4>1, <4>2
    <3>5. \A i : MaySkip(i)' <=> MaySkip(i)
      BY <1>3 DEF MaySkip, Takes
    <3>6. MergeFits(cartCall[s])'
      BY <2>2, <2>3, <3>2, <3>3, <3>4, <3>5 DEF MergeFits
    <3> QED BY <2>2, <2>3, <3>6 DEF CartFits
  <2>10. lines'["user"] # NoLines
    BY <1>0, <2>5
  <2>11. \A u \in Owners : u # o => Held(u)' = Held(u)
    BY <2>5
  <2> QED BY <1>1, <1>3, <2>1, <2>2, <2>5, <2>6, <2>7, <2>8, <2>9, <2>10, <2>11, CallWrites DEF k
<1> QED BY <1>5, <1>6

LEMMA SaveMergedGoes ==
  ASSUME CartMade, NEW s \in CartSlots, SaveMerged(s)
  PROVE  CartGoes(s)
<1>1. cartCall[s] \in MergeSaveCall
  BY CartAtIs DEF SaveMerged
<1>2. /\ cartCall[s].owner = "user" /\ cartCall[s].line \in Lines
      /\ cartCall[s].quantity \in Quantities
  BY <1>1 DEF MergeSaveCall
<1>3. "user" \in Owners
  BY DEF Owners
<1> QED BY <1>2, <1>3, MergedPutGoes DEF IsSaveOf

LEMMA DropGuestGoes ==
  ASSUME CartMade, NEW s \in CartSlots, DropGuest(s)
  PROVE  CartGoes(s)
<1> DEFINE k == cartCall[s]
           r == [pc |-> "invalidateUser", owner |-> "user"]
<1>0. "user" \in Owners /\ "guest" \in Owners
  BY DEF Owners
<1>1. /\ cartCall' = [cartCall EXCEPT ![s] = r] /\ lines' = [lines EXCEPT !["guest"] = NoLines]
      /\ UNCHANGED <<shelf, cartCopy, reminder, cartLoad>> /\ BlameCart({})
      /\ k.pc = "merge" /\ s \in CartBusy
  BY CartAtIs DEF DropGuest, StepCart, CartAt
<1>2. r \in EndingCall /\ r # NoCartCall /\ r.pc = "invalidateUser"
  BY <1>0 DEF EndingCall, NoCartCall
<1>3. CartCallMade(r) /\ DropsCopy(r, "guest") /\ DropsCopy(r, "user") /\ Positive(r)
  BY <1>2 DEF CartCallMade, DropsCopy, Positive
<1> HIDE DEF r
<1>4. /\ lines' \in [Owners -> Cart \cup {NoLines}] /\ lines'["guest"] = NoLines
      /\ \A u \in Owners : u # "guest" => lines'[u] = lines[u]
  BY <1>0, <1>1 DEF CartMade, CartsTypeOK
<1>5. /\ \A u \in Owners : u # "guest" => Held(u)' = Held(u)
      /\ ~Emptied("guest")'
  <2>1. Held("guest")' = <<>>
    BY <1>4 DEF Held
  <2> QED BY <1>4, <2>1, EmptyCart DEF Held, Emptied
<1>6. CartFits(cartCall[s])'
  <2>1. cartCall'[s] = r
    BY <1>1 DEF CartMade, CartsTypeOK
  <2> QED BY <1>2, <2>1 DEF CartFits
<1>7. \A u \in Owners : DropsCopy(r, u)
  BY <1>3 DEF Owners
<1>8. lines["user"] # NoLines => lines'["user"] # NoLines
  BY <1>0, <1>4
<1> QED BY <1>0, <1>1, <1>2, <1>3, <1>4, <1>5, <1>6, <1>7, <1>8, CallWrites

LEMMA MailReminderGoes ==
  ASSUME CartMade, NEW s \in CartSlots, MailReminder(s)
  PROVE  CartGoes(s)
<1> DEFINE k == cartCall[s]
           r == [k EXCEPT !.pc = "notified"]
<1>1. k \in RemindCall /\ k.pc = "remind" /\ s \in CartBusy
  BY CartAtIs DEF MailReminder, CartAt
<1>2. /\ cartCall' = [cartCall EXCEPT ![s] = r] /\ UNCHANGED <<lines, shelf, cartCopy, cartLoad>>
      /\ BlameCart({}) /\ {} \in SUBSET CartFaults
      /\ reminder' = [reminder EXCEPT !.mails = IF @ = 2 THEN 2 ELSE @ + 1]
  BY DEF MailReminder, StepCart
<1>3. /\ r \in RemindCall /\ r.pc = "notified" /\ r.owner = k.owner /\ r.read = k.read
      /\ r # NoCartCall
  BY <1>1 DEF RemindCall, NoCartCall
<1>4. CartCallMade(r)
  BY <1>3 DEF CartCallMade
<1>5. /\ reminder' \in [old : BOOLEAN, notified : BOOLEAN, mails : 0..2]
      /\ reminder.mails = 0 => reminder'.mails = 1
      /\ reminder'.notified = reminder.notified
      /\ lines' \in [Owners -> Cart \cup {NoLines}]
      /\ cartCopy' \in [Owners -> Cart \cup {NoCopy}]
  BY <1>2 DEF CartMade, CartsTypeOK
<1>6. CartStepOK(s) /\ cartCall'[s] = r
  <2> HIDE DEF k, r
  <2> QED BY <1>1, <1>2, <1>3, <1>4, <1>5, CartPut
<1> HIDE DEF r
<1>7. \A u \in Owners : /\ (Emptied(u)' <=> Emptied(u)) /\ Held(u)' = Held(u)
                        /\ (StaleCopy(u)' <=> StaleCopy(u)) /\ ~DropsCopy(k, u)
  BY <1>1, <1>2 DEF Emptied, Held, StaleCopy, DropsCopy
<1>8. s \in CartBusy' /\ (Positive(k) => Positive(r))
  BY <1>1, <1>3, <1>6 DEF CartBusy, Positive
<1>9. EmptyKept(s)
  BY <1>1, <1>6, <1>7, <1>8 DEF EmptyKept, NoneEmpty
<1>10. ASSUME CartBusy \subseteq {s}, CartFits(k)
       PROVE  /\ CartFits(cartCall[s])'
              /\ CopiesFollow => CopiesFollow'
              /\ RemindFits => RemindFits'
  <2>1. CartFits(cartCall[s])'
    <3>1. k.read = Held("user") /\ Held("user")' = Held("user")
      BY <1>1, <1>7, <1>10 DEF CartFits, Owners
    <3> QED BY <1>3, <1>6, <3>1 DEF CartFits
  <2>2. CopiesFollow => CopiesFollow'
    BY <1>7, <1>10 DEF CopiesFollow
  <2>3. ASSUME RemindFits PROVE RemindFits'
    <3>1. reminder.mails = 0 /\ ~reminder.notified
      BY <1>1, <2>3 DEF RemindFits, CartAt
    <3>2. reminder'.mails = 1 /\ ~reminder'.notified
      BY <1>5, <3>1
    <3>3. \A t \in CartBusy' : t = s
      BY <1>6, <1>10 DEF CartStepOK, CartBusy
    <3>4. CartAt(s, "notified")' /\ ~CartAt(s, "remind")'
      BY <1>3, <1>6 DEF CartAt
    <3> QED BY <1>8, <3>2, <3>3, <3>4 DEF RemindFits
  <2> QED BY <2>1, <2>2, <2>3
<1> QED BY <1>1, <1>6, <1>9, <1>10 DEF CartGoes, LoneCallKept

LEMMA SaveNotifiedGoes ==
  ASSUME CartMade, NEW s \in CartSlots, SaveNotified(s)
  PROVE  CartGoes(s)
<1> DEFINE k == cartCall[s]
           c == IF DOMAIN Held("user") \subseteq DOMAIN k.read THEN k.read ELSE lines["user"]
<1>0. "user" \in Owners
  BY DEF Owners
<1>1. k \in RemindCall /\ k.pc = "notified" /\ s \in CartBusy
  BY CartAtIs DEF SaveNotified, CartAt
<1>2. /\ cartCall' = [cartCall EXCEPT ![s] = NoCartCall] /\ UNCHANGED <<shelf, cartCopy, cartLoad>>
      /\ BlameCart({}) /\ {} \in SUBSET CartFaults
  BY DEF SaveNotified, EndCart
<1>3. k.read \in Cart
  BY <1>1 DEF RemindCall
<1>4. k.read # NoLines
  BY <1>3, NoCartAssumption
<1>5. /\ lines' \in [Owners -> Cart \cup {NoLines}]
      /\ lines["user"] # NoLines => lines'["user"] # NoLines
      /\ \A u \in Owners : lines'[u] = IF u = "user" THEN c ELSE lines[u]
  BY <1>0, <1>3, <1>4 DEF SaveNotified, CartMade, CartsTypeOK
<1>6. /\ reminder' \in [old : BOOLEAN, notified : BOOLEAN, mails : 0..2]
      /\ reminder'.mails = reminder.mails
      /\ DOMAIN Held("user") \subseteq DOMAIN k.read => reminder'.notified
  BY DEF SaveNotified, CartMade, CartsTypeOK
<1>7. cartCopy' \in [Owners -> Cart \cup {NoCopy}]
  BY <1>2 DEF CartMade, CartsTypeOK
<1>8. CartCallMade(NoCartCall) /\ NoCartCall.pc = "idle"
  BY DEF CartCallMade, NoCartCall
<1>9. CartStepOK(s) /\ cartCall'[s] = NoCartCall
  <2> HIDE DEF k, c
  <2> QED BY <1>1, <1>2, <1>5, <1>6, <1>7, <1>8, CartPut
<1>10. s \notin CartBusy'
  BY <1>9 DEF CartBusy
<1>11. EmptyKept(s)
  <2> SUFFICES ASSUME NoneEmpty PROVE \A u \in Owners : ~Emptied(u)'
    BY <1>10 DEF EmptyKept
  <2>1. \A l \in DOMAIN k.read : k.read[l] # 0
    BY <1>1 DEF NoneEmpty, Positive
  <2> HIDE DEF k
  <2>2. \A u \in Owners : \/ lines'[u] = lines[u]
                          \/ lines'[u] = k.read
    BY <1>5
  <2>3. \A u \in Owners : ~Emptied(u)
    BY DEF NoneEmpty
  <2> QED BY <1>4, <2>1, <2>2, <2>3 DEF Emptied, Held
<1>12. ASSUME CartBusy \subseteq {s}, CartFits(k)
       PROVE  (CopiesFollow => CopiesFollow') /\ (RemindFits => RemindFits')
  <2>1. k.read = Held("user")
    BY <1>1, <1>12 DEF CartFits
  <2>2. \A u \in Owners : Held(u)' = Held(u)
    BY <1>4, <1>5, <2>1 DEF Held
  <2>3. \A u \in Owners : (StaleCopy(u)' <=> StaleCopy(u)) /\ ~DropsCopy(k, u)
    BY <1>1, <1>2, <2>2 DEF StaleCopy, DropsCopy
  <2>4. CopiesFollow => CopiesFollow'
    BY <1>12, <2>3 DEF CopiesFollow
  <2>5. ASSUME RemindFits PROVE RemindFits'
    <3>1. reminder.mails = 1
      BY <1>1, <2>5 DEF RemindFits, CartAt
    <3>2. reminder'.mails = 1 /\ reminder'.notified
      BY <1>6, <2>1, <3>1
    <3>3. CartBusy' = {}
      BY <1>9, <1>10, <1>12 DEF CartStepOK, CartBusy
    <3> QED BY <3>2, <3>3 DEF RemindFits
  <2> QED BY <2>4, <2>5
<1> QED BY <1>1, <1>9, <1>10, <1>11, <1>12 DEF CartGoes, LoneCallKept

-----------------------------------------------------------------------------
(* Marks go where no call runs and the carts are in order, which is enough; *)
(* else a step owes what its marks do not excuse.                           *)
CartQuiet == CartBusy = {} /\ CartsInOrder

LEMMA QuietCarts == CartMade /\ CartQuiet => CartInv
<1> SUFFICES ASSUME CartMade, CartQuiet PROVE CartInv
  OBVIOUS
<1>1. CartBusy = {} /\ \A o \in Owners : ~StaleCopy(o) /\ ~Emptied(o)
  BY DEF CartQuiet, CartsInOrder
<1>2. reminder.mails \in {0, 1} /\ (reminder.notified <=> reminder.mails = 1)
  BY DEF CartQuiet, CartsInOrder, CartMade, CartsTypeOK
<1>3. NoneEmpty /\ CopiesFollow /\ RemindFits
  BY <1>1, <1>2 DEF NoneEmpty, CopiesFollow, RemindFits
<1> QED BY <1>1, <1>3 DEF CartInv

LEMMA QuietCartsNext == CartMade' /\ CartQuiet' => CartInv'
<1>1. (CartMade /\ CartQuiet => CartInv)'
  BY QuietCarts, PTL
<1> QED BY <1>1

LEMMA CartBlameFact ==
  ASSUME NEW marks, BlameCart(marks), ~CartQuiet'
  PROVE  /\ cartFault \cup marks \subseteq cartFault'
         /\ "overlap" \notin cartFault' => \A s, t \in CartBusy' : s = t
<1>1. cartFault' = cartFault \cup marks \cup
         (IF Cardinality(CartBusy') > 1 THEN {"overlap"} ELSE {})
  BY DEF BlameCart, CartQuiet
<1>2. ASSUME NEW s \in CartBusy', NEW t \in CartBusy', s # t
      PROVE  Cardinality(CartBusy') > 1
  <2>1. IsFiniteSet(CartBusy')
    BY CartAssumption, FS_Subset DEF CartBusy
  <2>2. Cardinality({s}) = 1 /\ Cardinality({s, t}) = 2
    <3>1. IsFiniteSet({s}) /\ Cardinality({s}) = 1
      BY FS_Singleton
    <3>2. Cardinality({s} \cup {t}) = 2
      BY <1>2, <3>1, FS_AddElement
    <3>3. {s} \cup {t} = {s, t}
      OBVIOUS
    <3> QED BY <3>1, <3>2, <3>3
  <2>3. Cardinality({s, t}) <= Cardinality(CartBusy')
    BY <2>1, FS_Subset
  <2>4. Cardinality(CartBusy') \in Nat
    BY <2>1, FS_CardinalityType
  <2> QED BY <2>2, <2>3, <2>4
<1> QED BY <1>1, <1>2

LEMMA MarksSet ==
  ASSUME NEW m, Marks(m), ~CartQuiet'
  PROVE  m \in cartFault'
<1>1. PICK marks \in SUBSET CartFaults : m \in marks /\ BlameCart(marks)
  BY DEF Marks
<1> QED BY <1>1, CartBlameFact

LEMMA CallKeeps ==
  ASSUME CartInv, NEW s \in CartSlots, CartGoes(s)
  PROVE  CartInv'
<1>1. /\ CartMade' /\ \A t \in CartSlots : t # s => cartCall'[t] = cartCall[t]
      /\ s \in CartBusy \/ s \in CartBusy'
  BY DEF CartGoes, CartStepOK
<1>2. PICK marks \in SUBSET CartFaults : BlameCart(marks)
  BY DEF CartGoes, CartStepOK
<1>3. CASE CartQuiet'
  BY <1>1, <1>3, QuietCartsNext
<1>4. CASE ~CartQuiet'
  <2>1. /\ cartFault \subseteq cartFault'
        /\ "overlap" \notin cartFault' => \A t, u \in CartBusy' : t = u
    BY <1>2, <1>4, CartBlameFact
  <2>2. \A t \in CartSlots : t # s => (t \in CartBusy' <=> t \in CartBusy)
    BY <1>1 DEF CartBusy
  <2>3. CartBusy \subseteq CartSlots /\ CartBusy' \subseteq CartSlots
    BY DEF CartBusy
  <2>4. ASSUME "overlap" \notin cartFault'
        PROVE  /\ CartBusy \subseteq {s} /\ CartBusy' \subseteq {s}
               /\ s \in CartBusy => CartFits(cartCall[s])
    <3>1. /\ \A t, u \in CartBusy : t = u
          /\ \A t \in CartBusy : CartFits(cartCall[t])
      BY <2>1, <2>4 DEF CartInv
    <3>2. \A t \in CartBusy : t = s
      BY <1>1, <2>1, <2>2, <2>3, <2>4, <3>1
    <3>3. \A t \in CartBusy' : t = s
      BY <1>1, <2>1, <2>2, <2>3, <2>4, <3>1
    <3> QED BY <3>1, <3>2, <3>3
  <2>5. ASSUME "overlap" \notin cartFault'
        PROVE  /\ s \in CartBusy' => CartFits(cartCall[s])'
               /\ CopiesFollow => CopiesFollow' \/ "died" \in cartFault'
               /\ RemindFits => RemindFits' \/ "died" \in cartFault'
    <3>1. LoneCallKept(s)
      BY DEF CartGoes
    <3>2. Marks("died") => "died" \in cartFault'
      BY <1>4, MarksSet
    <3> QED BY <2>4, <2>5, <3>1, <3>2 DEF LoneCallKept
  <2>6. "overlap" \notin cartFault' => /\ \A t, u \in CartBusy' : t = u
                                       /\ \A t \in CartBusy' : CartFits(cartCall[t])'
    <3> SUFFICES ASSUME "overlap" \notin cartFault', NEW t \in CartBusy'
                 PROVE  CartFits(cartCall[t])'
      BY <2>1
    <3>1. t = s
      BY <2>4
    <3>2. CartFits(cartCall[s])'
      BY <2>5, <3>1
    <3> QED BY <3>1, <3>2
  <2>7. ASSUME "soldOut" \notin cartFault' PROVE NoneEmpty'
    <3>1. NoneEmpty
      BY <2>1, <2>7 DEF CartInv
    <3>2. ~Marks("soldOut")
      BY <1>4, <2>7, MarksSet
    <3>3. /\ \A o \in Owners : ~Emptied(o)'
          /\ s \in CartBusy' => Positive(cartCall'[s])
      BY <3>1, <3>2 DEF CartGoes, EmptyKept
    <3>4. \A t \in CartBusy' : t # s => Positive(cartCall'[t])
      BY <1>1, <2>2, <2>3, <3>1 DEF NoneEmpty
    <3> QED BY <3>3, <3>4 DEF NoneEmpty, Positive
  <2>8. cartFault' \cap {"overlap", "died", "expired"} = {} => CopiesFollow'
    <3> SUFFICES ASSUME cartFault' \cap {"overlap", "died", "expired"} = {} PROVE CopiesFollow'
      OBVIOUS
    <3>1. CopiesFollow
      BY <2>1 DEF CartInv
    <3> QED BY <2>5, <3>1
  <2>9. cartFault' \cap {"overlap", "died"} = {} => RemindFits'
    <3> SUFFICES ASSUME cartFault' \cap {"overlap", "died"} = {} PROVE RemindFits'
      OBVIOUS
    <3>1. RemindFits
      BY <2>1 DEF CartInv
    <3> QED BY <2>5, <3>1
  <2> QED BY <1>1, <2>6, <2>7, <2>8, <2>9 DEF CartInv
<1> QED BY <1>3, <1>4

(* Steps of no call, which only take away from a cart or a copy.            *)
LEMMA OutsideKeeps ==
  ASSUME CartInv, CartMade', UNCHANGED <<cartCall, cartLoad>>,
         NEW marks \in SUBSET CartFaults, BlameCart(marks),
         reminder'.mails = reminder.mails, reminder'.notified = reminder.notified,
         \A o \in Owners : Emptied(o)' => Emptied(o),
         "expired" \in marks \/ \A o \in Owners : StaleCopy(o)' => StaleCopy(o),
         \A l \in Lines : MaySkip(l) => MaySkip(l)',
         "overlap" \in marks \/ CartBusy = {} \/ \A o \in Owners : Held(o)' = Held(o)
  PROVE  CartInv'
<1>1. CASE CartQuiet'
  BY <1>1, QuietCartsNext
<1>2. CASE ~CartQuiet'
  <2>1. /\ cartFault \cup marks \subseteq cartFault'
        /\ CartBusy' = CartBusy
    BY <1>2, CartBlameFact DEF CartBusy
  <2>2. ASSUME "overlap" \notin cartFault'
        PROVE  /\ \A s, t \in CartBusy' : s = t
               /\ \A s \in CartBusy' : CartFits(cartCall[s])'
    <3>1. /\ \A s, t \in CartBusy' : s = t
          /\ \A s \in CartBusy : CartFits(cartCall[s])
      BY <2>1, <2>2 DEF CartInv
    <3>2. ASSUME NEW s \in CartBusy' PROVE CartFits(cartCall[s])'
      <4>1. s \in CartBusy /\ s \in CartSlots
        BY <2>1, <3>2 DEF CartBusy
      <4>2. \A o \in Owners : Held(o)' = Held(o)
        BY <2>1, <2>2, <4>1
      <4>3. CartFits(cartCall'[s]) /\ cartCall'[s] = cartCall[s]
        BY <3>1, <4>1
      <4>4. cartCall'[s].pc \in {"fill", "save", "clamp"} => cartCall'[s].owner \in Owners
        BY <4>1, <4>3, CartAtIs DEF CartInv, CartAt, CopyCall, SaveCall, ClampCall
      <4>5. \A l \in DOMAIN Held("guest") : MaySkip(l) => MaySkip(l)'
        BY HeldIsCart, CartIs DEF CartInv, Owners
      <4> QED BY <4>2, <4>3, <4>4, <4>5, FitsSame
    <3> QED BY <3>1, <3>2
  <2>3. "soldOut" \notin cartFault' => NoneEmpty'
    <3> SUFFICES ASSUME NoneEmpty PROVE NoneEmpty'
      BY <2>1 DEF CartInv
    <3> QED BY <2>1 DEF NoneEmpty, Positive
  <2>4. cartFault' \cap {"overlap", "died", "expired"} = {} => CopiesFollow'
    <3> SUFFICES ASSUME CopiesFollow, "expired" \notin marks PROVE CopiesFollow'
      BY <2>1 DEF CartInv
    <3> QED BY <2>1 DEF CopiesFollow, DropsCopy
  <2>5. cartFault' \cap {"overlap", "died"} = {} => RemindFits'
    <3> SUFFICES ASSUME RemindFits PROVE RemindFits'
      BY <2>1 DEF CartInv
    <3> QED BY <2>1 DEF RemindFits, CartAt
  <2> QED BY <2>2, <2>3, <2>4, <2>5 DEF CartInv
<1> QED BY <1>1, <1>2

LEMMA ExpireCopyKeeps ==
  ASSUME CartInv, NEW o \in Owners, ExpireCopy(o)
  PROVE  CartInv'
<1>1. /\ cartCopy' = [cartCopy EXCEPT ![o] = NoCopy] /\ BlameCart({})
      /\ UNCHANGED <<lines, shelf, reminder, cartCall, cartLoad>> /\ {} \in SUBSET CartFaults
  BY DEF ExpireCopy
<1>2. CartMade
  BY DEF CartInv
<1>3. /\ cartCopy' \in [Owners -> Cart \cup {NoCopy}]
      /\ \A u \in Owners : cartCopy'[u] \in {cartCopy[u], NoCopy}
  BY <1>1, <1>2 DEF CartMade, CartsTypeOK
<1>4. cartFault' \subseteq CartFaults
  BY <1>1, <1>2 DEF BlameCart, CartMade, CartsTypeOK, CartFaults
<1>5. CartMade'
  BY <1>1, <1>2, <1>3, <1>4 DEF CartMade, CartsTypeOK, CartAt
<1>6. \A u \in Owners : /\ Held(u)' = Held(u) /\ (Emptied(u)' => Emptied(u))
                        /\ (StaleCopy(u)' => StaleCopy(u))
  BY <1>1, <1>3 DEF Held, Emptied, StaleCopy
<1>7. \A i : MaySkip(i) => MaySkip(i)'
  BY <1>1 DEF MaySkip, Takes
<1> QED BY <1>1, <1>5, <1>6, <1>7, OutsideKeeps

LEMMA CleanupGuestKeeps ==
  ASSUME CartInv, CleanupGuest
  PROVE  CartInv'
<1> DEFINE marks == {"expired"} \cup WhileBusy
<1>1. /\ lines' = [lines EXCEPT !["guest"] = NoLines] /\ BlameCart(marks)
      /\ UNCHANGED <<shelf, cartCopy, reminder, cartCall, cartLoad>>
  BY DEF CleanupGuest
<1>2. /\ marks \in SUBSET CartFaults /\ "expired" \in marks
      /\ "overlap" \in marks \/ CartBusy = {}
  BY DEF WhileBusy, CartFaults
<1>3. CartMade
  BY DEF CartInv
<1>4. "user" \in Owners /\ "guest" \in Owners
  BY DEF Owners
<1> HIDE DEF marks
<1>5. /\ lines' \in [Owners -> Cart \cup {NoLines}] /\ lines'["user"] = lines["user"]
      /\ \A u \in Owners : lines'[u] \in {lines[u], NoLines}
  BY <1>1, <1>3, <1>4 DEF CartMade, CartsTypeOK
<1>6. cartFault' \subseteq CartFaults
  BY <1>1, <1>2, <1>3 DEF BlameCart, CartMade, CartsTypeOK, CartFaults
<1>7. CartMade'
  BY <1>1, <1>3, <1>5, <1>6 DEF CartMade, CartsTypeOK, CartAt
<1>8. \A u \in Owners : Emptied(u)' => Emptied(u)
  BY <1>5, EmptyCart DEF Held, Emptied
<1>9. \A i : MaySkip(i) => MaySkip(i)'
  BY <1>1 DEF MaySkip, Takes
<1> QED BY <1>1, <1>2, <1>7, <1>8, <1>9, OutsideKeeps

LEMMA DayPassesKeeps ==
  ASSUME CartInv, DayPasses
  PROVE  CartInv'
<1>1. /\ reminder' = [reminder EXCEPT !.old = TRUE] /\ BlameCart({})
      /\ UNCHANGED <<lines, shelf, cartCopy, cartCall, cartLoad>> /\ {} \in SUBSET CartFaults
  BY DEF DayPasses
<1>2. CartMade
  BY DEF CartInv
<1>3. /\ reminder' \in [old : BOOLEAN, notified : BOOLEAN, mails : 0..2]
      /\ reminder'.mails = reminder.mails /\ reminder'.notified = reminder.notified
  BY <1>1, <1>2, OldOnly
<1>4. cartFault' \subseteq CartFaults
  BY <1>1, <1>2 DEF BlameCart, CartMade, CartsTypeOK, CartFaults
<1>5. CartMade'
  BY <1>1, <1>2, <1>3, <1>4 DEF CartMade, CartsTypeOK, CartAt
<1>6. \A u \in Owners : /\ Held(u)' = Held(u) /\ (Emptied(u)' => Emptied(u))
                        /\ (StaleCopy(u)' => StaleCopy(u))
  BY <1>1 DEF Held, Emptied, StaleCopy
<1>7. \A i : MaySkip(i) => MaySkip(i)'
  BY <1>1 DEF MaySkip, Takes
<1> QED BY <1>1, <1>3, <1>5, <1>6, <1>7, OutsideKeeps

LEMMA ChangeStockKeeps ==
  ASSUME CartInv, NEW l, NEW stock \in Quantities \cup {Off, NoProduct}, ChangeStock(l, stock)
  PROVE  CartInv'
<1>1. /\ shelf' = [shelf EXCEPT ![l] = stock] /\ BlameCart({})
      /\ UNCHANGED <<lines, reminder, cartCopy, cartCall, cartLoad>> /\ {} \in SUBSET CartFaults
  BY DEF ChangeStock
<1>2. CartMade
  BY DEF CartInv
<1>3. shelf' \in [Lines -> Quantities \cup {Off, NoProduct}]
  BY <1>1, <1>2 DEF CartMade, CartsTypeOK
<1>4. cartFault' \subseteq CartFaults
  BY <1>1, <1>2 DEF BlameCart, CartMade, CartsTypeOK, CartFaults
<1>5. CartMade'
  BY <1>1, <1>2, <1>3, <1>4 DEF CartMade, CartsTypeOK, CartAt
<1>6. \A u \in Owners : /\ Held(u)' = Held(u) /\ (Emptied(u)' => Emptied(u))
                        /\ (StaleCopy(u)' => StaleCopy(u))
  BY <1>1 DEF Held, Emptied, StaleCopy
<1>7. \A i \in Lines : MaySkip(i) => MaySkip(i)'
  BY <1>1, <1>2 DEF MaySkip, Takes, ChangeStock, CartMade, CartsTypeOK
<1> QED BY <1>1, <1>5, <1>6, <1>7, OutsideKeeps

-----------------------------------------------------------------------------
CartCallNext(s) ==
      \/ \E o \in cartLoad.owners :
           \/ GetCart(s, o)
           \/ \E l \in cartLoad.lines, q \in 1..cartLoad.most : AddItem(s, o, l, q)
           \/ \E l \in cartLoad.lines, q \in 1..cartLoad.most : UpdateItem(s, o, l, q)
           \/ \E ls \in SUBSET cartLoad.lines : RemoveItems(s, o, ls)
      \/ FillCopy(s) \/ Invalidate(s) \/ GetAgain(s)
      \/ FindItem(s) \/ SaveItem(s) \/ ClampItem(s)
      \/ MergeGuest(s) \/ SaveMerged(s) \/ DropGuest(s)
      \/ \E l \in cartLoad.lines : MergeLine(s, l)
      \/ InvalidateUser(s) \/ InvalidateGuest(s)
      \/ FindAbandoned(s) \/ MailReminder(s) \/ SaveNotified(s)
      \/ CartCallDies(s)

LEMMA CartLoadIs ==
  ASSUME CartMade
  PROVE  /\ cartLoad.slots \subseteq CartSlots /\ cartLoad.owners \subseteq Owners
         /\ cartLoad.lines \subseteq Lines /\ 1..cartLoad.most \subseteq 1..MaxQuantity
<1>1. cartLoad \in CartLoads
  BY DEF CartMade, CartsTypeOK
<1>2. cartLoad.most \in 0..MaxQuantity
  BY <1>1, CartAssumption
<1>3. 1..cartLoad.most \subseteq 1..MaxQuantity
  BY <1>2, CartAssumption
<1> QED BY <1>1, <1>3, CartAssumption DEF Owners

LEMMA CallGoes ==
  ASSUME CartMade, NEW s \in CartSlots, CartCallNext(s)
  PROVE  CartGoes(s)
<1>1. ASSUME NEW o \in cartLoad.owners,
             \/ GetCart(s, o)
             \/ \E l \in cartLoad.lines, q \in 1..cartLoad.most : AddItem(s, o, l, q)
             \/ \E l \in cartLoad.lines, q \in 1..cartLoad.most : UpdateItem(s, o, l, q)
             \/ \E ls \in SUBSET cartLoad.lines : RemoveItems(s, o, ls)
      PROVE  CartGoes(s)
  BY <1>1, CartLoadIs, GetCartGoes, AddItemGoes, RemoveItemsGoes
<1>2. CASE FillCopy(s) \/ Invalidate(s) \/ InvalidateUser(s) \/ InvalidateGuest(s)
  BY <1>2, CopiesGo
<1>3. CASE GetAgain(s) \/ FindItem(s) \/ SaveItem(s) \/ ClampItem(s)
  BY <1>3, GetAgainGoes, FindItemGoes, SaveItemGoes, ClampItemGoes
<1>4. CASE MergeGuest(s) \/ SaveMerged(s) \/ DropGuest(s)
  BY <1>4, MergeGuestGoes, SaveMergedGoes, DropGuestGoes
<1>5. ASSUME NEW l \in cartLoad.lines, MergeLine(s, l) PROVE CartGoes(s)
  BY <1>5, CartLoadIs, MergeLineGoes
<1>6. CASE FindAbandoned(s) \/ MailReminder(s) \/ SaveNotified(s) \/ CartCallDies(s)
  BY <1>6, FindAbandonedGoes, MailReminderGoes, SaveNotifiedGoes, CallDiesGoes
<1> QED BY <1>1, <1>2, <1>3, <1>4, <1>5, <1>6 DEF CartCallNext

LEMMA CartStarts == CartInit => CartInv
<1> SUFFICES ASSUME CartInit PROVE CartInv
  OBVIOUS
<1> USE DEF CartInit
<1>1. CartsTypeOK
  BY CartAssumption DEF CartsTypeOK, Quantities, CartFaults
<1>2. CartMade
  BY <1>1 DEF CartMade, CartCallMade, CartAt, NoCartCall
<1>3. CartBusy = {}
  BY DEF CartBusy
<1>4. \A o \in Owners : ~StaleCopy(o) /\ ~Emptied(o)
  BY EmptyCart DEF StaleCopy, Emptied, Held
<1>5. CartQuiet
  BY <1>3, <1>4 DEF CartQuiet, CartsInOrder
<1> QED BY <1>2, <1>5, QuietCarts

LEMMA CartKeeps == CartInv /\ [CartNext]_cartVars => CartInv'
<1> SUFFICES ASSUME CartInv, [CartNext]_cartVars PROVE CartInv'
  OBVIOUS
<1>0. CartMade
  BY DEF CartInv
<1>1. ASSUME NEW s \in cartLoad.slots, CartCallNext(s) PROVE CartInv'
  BY <1>0, <1>1, CartLoadIs, CallGoes, CallKeeps
<1>2. CASE (\E o \in Owners : ExpireCopy(o)) \/ CleanupGuest \/ DayPasses
  BY <1>2, ExpireCopyKeeps, CleanupGuestKeeps, DayPassesKeeps
<1>3. CASE \E l \in cartLoad.lines, stock \in Quantities \cup {Off, NoProduct} :
             ChangeStock(l, stock)
  BY <1>3, ChangeStockKeeps
<1>4. CASE UNCHANGED cartVars
  BY <1>4 DEF cartVars, CartInv, CartMade, CartsTypeOK, CartAt, CartBusy, CartFits, MergeFits,
              MaySkip, MergedIn, Has, Held, Takes, NoneEmpty, Emptied, Positive, CopiesFollow,
              StaleCopy, DropsCopy, RemindFits
<1> QED BY <1>1, <1>2, <1>3, <1>4 DEF CartNext, CartCallNext

LEMMA CartInvMeans == CartInv => CartsTypeOK /\ CartsConsistent
<1> SUFFICES ASSUME CartInv PROVE CartsTypeOK /\ CartsConsistent
  OBVIOUS
<1>1. CartsTypeOK
  BY DEF CartInv, CartMade
<1>2. CopyFollowsCart
  BY DEF CartInv, CopyFollowsCart, CopiesFollow
<1>3. NoEmptyLine
  BY DEF CartInv, NoEmptyLine, NoneEmpty
<1>4. RemindedOnce
  BY DEF CartInv, RemindedOnce, RemindFits
<1> QED BY <1>1, <1>2, <1>3, <1>4 DEF CartsConsistent

-----------------------------------------------------------------------------
LEMMA DroppedIsMerged ==
  ASSUME CartInv, NEW s \in CartBusy, DropGuest(s), "overlap" \notin cartFault
  PROVE  \A l \in DOMAIN Held("guest") : MaySkip(l) \/ MergedIn(l)
<1>1. cartCall[s].pc = "merge" /\ DOMAIN cartCall[s].todo = {}
  BY EmptyCart DEF DropGuest, CartAt
<1>2. MergeFits(cartCall[s])
  BY <1>1 DEF CartInv, CartFits
<1> QED BY <1>1, <1>2 DEF MergeFits

(* Only a save of a line that was not there makes a cart longer.            *)
NewLine(s) == cartCall[s].pc \in {"save", "mergeSave"} /\ ~cartCall[s].there
Grown == \E o \in Owners : \E l \in Lines :
           lines'[o] # NoLines /\ l \in DOMAIN lines'[o] /\ ~Has(o, l)

LEMMA NotGrown ==
  ASSUME \A o \in Owners : \/ lines'[o] \in {lines[o], Held(o), NoLines}
                           \/ \E ls : lines'[o] = WithoutLine(Held(o), ls)
  PROVE  ~Grown
<1>1. ASSUME NEW o \in Owners, NEW l \in Lines, lines'[o] # NoLines, l \in DOMAIN lines'[o]
      PROVE  Has(o, l)
  <2>1. CASE lines'[o] \in {lines[o], Held(o), NoLines}
    BY <1>1, <2>1 DEF Has, Held
  <2>2. CASE \E ls : lines'[o] = WithoutLine(Held(o), ls)
    BY <1>1, <2>2 DEF Has, WithoutLine
  <2> QED BY <2>1, <2>2
<1> QED BY <1>1 DEF Grown

LEMMA SavedGrows ==
  ASSUME NEW o \in Owners, NEW l, NEW q, NEW c, c = With(Held(o), l, q), Has(o, l),
         lines \in [Owners -> Cart \cup {NoLines}], lines' = [lines EXCEPT ![o] = c]
  PROVE  ~Grown
<1>1. \A k : k \in DOMAIN c => Has(o, k)
  BY DEF With, Has
<1>2. \A u \in Owners : lines'[u] = IF u = o THEN c ELSE lines[u]
  OBVIOUS
<1>3. ASSUME NEW u \in Owners, NEW k \in Lines, lines'[u] # NoLines, k \in DOMAIN lines'[u]
      PROVE  Has(u, k)
  <2>1. CASE u = o
    BY <1>1, <1>2, <1>3, <2>1
  <2>2. CASE u # o
    BY <1>2, <1>3, <2>2 DEF Has, Held
  <2> QED BY <2>1, <2>2
<1> QED BY <1>3 DEF Grown

LEMMA CallGrows ==
  ASSUME CartInv, "overlap" \notin cartFault, NEW s \in CartSlots, CartCallNext(s), Grown
  PROVE  s \in CartBusy /\ NewLine(s)
<1> DEFINE k == cartCall[s]
<1>0. CartMade /\ "user" \in Owners /\ "guest" \in Owners
  BY DEF CartInv, Owners
<1>1. lines \in [Owners -> Cart \cup {NoLines}] /\ (s \in CartBusy => CartFits(k))
  BY DEF CartInv, CartMade, CartsTypeOK
<1>2. CASE UNCHANGED lines
  BY <1>2, NotGrown
<1>3. ASSUME NEW o \in cartLoad.owners, NEW ls, RemoveItems(s, o, ls) PROVE FALSE
  <2>1. lines' = [lines EXCEPT ![o] = WithoutLine(@, ls)] /\ lines[o] # NoLines /\ o \in Owners
    BY <1>0, <1>3, CartLoadIs DEF RemoveItems
  <2>2. lines'[o] = WithoutLine(Held(o), ls) /\ \A u \in Owners : u # o => lines'[u] = lines[u]
    BY <1>1, <2>1 DEF Held
  <2> QED BY <2>2, NotGrown
<1>4. CASE FindItem(s)
  <2>1. k \in FindCall /\ lines' = [lines EXCEPT ![k.owner] = Held(k.owner)]
    BY <1>0, <1>4, CartAtIs DEF FindItem
  <2>2. k.owner \in Owners
    BY <2>1 DEF FindCall
  <2>3. \A u \in Owners : lines'[u] \in {lines[u], Held(u)}
    BY <1>1, <2>1, <2>2
  <2> QED BY <2>3, NotGrown
<1>5. CASE MergeGuest(s)
  <2>1. lines' = [lines EXCEPT !["user"] = Held("user")]
    BY <1>5 DEF MergeGuest
  <2>2. \A u \in Owners : lines'[u] \in {lines[u], Held(u)}
    BY <1>0, <1>1, <2>1
  <2> QED BY <2>2, NotGrown
<1>6. CASE DropGuest(s)
  <2>1. lines' = [lines EXCEPT !["guest"] = NoLines]
    BY <1>6 DEF DropGuest
  <2>2. \A u \in Owners : lines'[u] \in {lines[u], NoLines}
    BY <1>0, <1>1, <2>1
  <2> QED BY <2>2, NotGrown
<1>7. CASE SaveNotified(s)
  <2>1. k.pc = "notified" /\ s \in CartBusy
    BY <1>0, <1>7, CartAtIs DEF SaveNotified, CartAt
  <2>2. k.read = Held("user")
    BY <1>1, <2>1 DEF CartFits
  <2>3. UNCHANGED lines \/ lines' = [lines EXCEPT !["user"] = Held("user")]
    BY <1>7, <2>2 DEF SaveNotified
  <2>4. \A u \in Owners : lines'[u] \in {lines[u], Held(u)}
    BY <1>0, <1>1, <2>3
  <2> QED BY <2>4, NotGrown
<1>8. CASE SaveItem(s)
  <2>1. k \in SaveCall /\ k.pc = "save" /\ s \in CartBusy
    BY <1>0, <1>8, CartAtIs DEF SaveItem, CartAt
  <2>2. k.owner \in Owners /\ (k.there => Has(k.owner, k.line))
    BY <1>1, <2>1 DEF SaveCall, CartFits
  <2>3. ASSUME k.there PROVE FALSE
    <3>1. CASE UNCHANGED lines
      BY <3>1, NotGrown
    <3>2. CASE lines[k.owner] # NoLines
               /\ lines' = [lines EXCEPT ![k.owner] = With(@, k.line, k.quantity)]
      <4> DEFINE c == With(Held(k.owner), k.line, k.quantity)
                 o == k.owner
                 l == k.line
                 q == k.quantity
      <4>1. o \in Owners /\ c = With(Held(o), l, q) /\ Has(o, l) /\ lines' = [lines EXCEPT ![o] = c]
        BY <2>2, <2>3, <3>2 DEF Held
      <4> HIDE DEF o, l, q, c
      <4> QED BY <1>1, <4>1, SavedGrows
    <3> QED BY <1>8, <3>1, <3>2 DEF SaveItem
  <2> QED BY <2>1, <2>3 DEF NewLine
<1>9. CASE SaveMerged(s)
  <2>1. k \in MergeSaveCall /\ k.pc = "mergeSave" /\ s \in CartBusy /\ lines["user"] # NoLines
    BY <1>0, <1>9, CartAtIs DEF SaveMerged, CartAt
  <2>2. k.there => Has("user", k.line)
    BY <1>1, <2>1 DEF MergeSaveCall, CartFits, MergeFits
  <2>3. ASSUME k.there PROVE FALSE
    <3>1. CASE UNCHANGED lines
      BY <3>1, NotGrown
    <3>2. CASE lines' = [lines EXCEPT !["user"] = With(@, k.line, k.quantity)]
      <4> DEFINE c == With(Held("user"), k.line, k.quantity)
                 l == k.line
                 q == k.quantity
      <4>1. c = With(Held("user"), l, q) /\ Has("user", l) /\ lines' = [lines EXCEPT !["user"] = c]
        BY <2>1, <2>2, <2>3, <3>2 DEF Held
      <4> HIDE DEF l, q, c
      <4> QED BY <1>0, <1>1, <4>1, SavedGrows
    <3> QED BY <1>9, <3>1, <3>2 DEF SaveMerged
  <2> QED BY <2>1, <2>3 DEF NewLine
<1>10. \/ UNCHANGED lines \/ FindItem(s) \/ MergeGuest(s) \/ DropGuest(s) \/ SaveNotified(s)
       \/ SaveItem(s) \/ SaveMerged(s)
       \/ \E o \in cartLoad.owners : \E ls : RemoveItems(s, o, ls)
  BY DEF CartCallNext, GetCart, AddItem, UpdateItem, FillCopy, Invalidate, GetAgain, ClampItem,
         MergeLine, InvalidateUser, InvalidateGuest, FindAbandoned, MailReminder, CartCallDies
<1> HIDE DEF k
<1> QED BY <1>2, <1>3, <1>4, <1>5, <1>6, <1>7, <1>8, <1>9, <1>10

LEMMA LinesComeByCalls ==
  ASSUME CartInv, [CartNext]_cartVars, "overlap" \notin cartFault, Grown
  PROVE  \E s \in CartBusy : NewLine(s)
<1>0. CartMade /\ lines \in [Owners -> Cart \cup {NoLines}]
  BY DEF CartInv, CartMade, CartsTypeOK
<1>1. ASSUME NEW s \in cartLoad.slots, CartCallNext(s) PROVE \E t \in CartBusy : NewLine(t)
  BY <1>0, <1>1, CartLoadIs, CallGrows
<1>2. CASE UNCHANGED lines
  BY <1>2, NotGrown
<1>3. CASE CleanupGuest
  <2>1. lines' = [lines EXCEPT !["guest"] = NoLines]
    BY <1>3 DEF CleanupGuest
  <2>2. \A u \in Owners : lines'[u] \in {lines[u], NoLines}
    BY <1>0, <2>1 DEF Owners
  <2> QED BY <2>2, NotGrown
<1>4. (\E s \in cartLoad.slots : CartCallNext(s)) \/ UNCHANGED lines \/ CleanupGuest
  BY DEF CartNext, CartCallNext, ExpireCopy, DayPasses, ChangeStock, cartVars
<1> QED BY <1>1, <1>2, <1>3, <1>4

-----------------------------------------------------------------------------
(* The variables of carts keep their types, whatever calls run at a time,   *)
(* end where they are or are answered late.                                 *)
THEOREM CartsWellTyped == CartSpec => []CartsTypeOK
<1>1. CartSpec => []CartInv
  BY CartStarts, CartKeeps, PTL DEF CartSpec
<1> QED BY <1>1, CartInvMeans, PTL

(* A copy in the cache shows the cart, quantities stay positive and a cart  *)
(* is mailed about once, for any lines and calls, save for the faults that  *)
(* CartsConsistent names.                                                   *)
THEOREM CartsStayConsistent == CartSpec => []CartsConsistent
<1>1. CartSpec => []CartInv
  BY CartStarts, CartKeeps, PTL DEF CartSpec
<1> QED BY <1>1, CartInvMeans, PTL

(* mergeCart drops the cart of the guest only once the user has each line   *)
(* of it, in no smaller quantity where no stock cuts it, unless calls       *)
(* overlapped, catalog answered late or the line's product is deleted.      *)
THEOREM MergesKeepLines == CartSpec => MergeKeepsLines
<1>1. CartSpec => []CartInv
  BY CartStarts, CartKeeps, PTL DEF CartSpec
<1>2. CartInv /\ [CartNext]_cartVars =>
        [ (\E s \in CartBusy : DropGuest(s)) =>
            \/ \A l \in DOMAIN Held("guest") :
                 \/ MaySkip(l)
                 \/ Has("user", l) /\ (l \in Physical \/ Held("user")[l] >= Held("guest")[l])
            \/ "overlap" \in cartFault ]_cartVars
  BY DroppedIsMerged DEF MergedIn
<1> QED BY <1>1, <1>2, PTL DEF CartSpec, MergeKeepsLines

(* A line comes to a cart only by a call that adds or merges it and found   *)
(* none: nothing that was removed returns, unless calls overlapped.         *)
THEOREM RemovedLinesStayRemoved == CartSpec => RemovedStaysRemoved
<1>1. CartSpec => []CartInv
  BY CartStarts, CartKeeps, PTL DEF CartSpec
<1>2. CartInv /\ [CartNext]_cartVars =>
        [ \/ \A o \in Owners : \A l \in Lines :
                 lines'[o] # NoLines /\ l \in DOMAIN lines'[o] /\ ~Has(o, l) =>
                   \E s \in CartBusy : /\ cartCall[s].pc \in {"save", "mergeSave"}
                                       /\ ~cartCall[s].there
          \/ "overlap" \in cartFault ]_cartVars
  BY LinesComeByCalls DEF Grown, NewLine
<1> QED BY <1>1, <1>2, PTL DEF CartSpec, RemovedStaysRemoved

-----------------------------------------------------------------------------
(* Addresses.                                                               *)

(* A transaction on its way: what it will write, and the defaults it still  *)
(* has to clear or has cleared.                                             *)
ClearedRows == UNION {[ks -> SUBSET AddressIds] : ks \in SUBSET DefaultKinds}
WriteCall == [pc : {"clear"}, id : AddressIds, todo : SUBSET DefaultKinds,
              cleared : ClearedRows, write : {w \in Address : w.here}]

AddressMade ==
  /\ AddressTypeOK
  /\ \A s \in AddressSlots : addressCall[s] \in WriteCall \cup {NoAddressCall}

(* While transactions do not overlap: what was counted, read and cleared is *)
(* so until the save.                                                       *)
WriteFits(c) ==
  /\ Exists(c.id) \/ (address[c.id] = NoAddress /\ Cardinality(Stored) < MaxAddresses)
  /\ \A k \in c.write.default :
       \/ k \in c.todo
       \/ k \in DOMAIN c.cleared /\ Default(k) \subseteq c.cleared[k]
       \/ c.id \in Default(k)

OneByKind == \A k \in DefaultKinds : \A a, b \in Default(k) : a = b

AddressInv ==
  /\ AddressMade
  /\ addressFault = {} =>
       /\ \A s, t \in AddressBusy : s = t
       /\ Cardinality(Stored) <= MaxAddresses /\ OneByKind
       /\ \A s \in AddressBusy : WriteFits(addressCall[s])

-----------------------------------------------------------------------------
LEMMA StoredFinite ==
  /\ IsFiniteSet(Stored) /\ Cardinality(Stored) \in Nat
  /\ \A k : IsFiniteSet(Default(k)) /\ Cardinality(Default(k)) \in Nat
<1>1. Stored \subseteq AddressIds /\ \A k : Default(k) \subseteq AddressIds
  BY DEF Stored, Default
<1>2. \A S : S \subseteq AddressIds => IsFiniteSet(S) /\ Cardinality(S) \in Nat
  BY AddressAssumption, FS_Subset, FS_CardinalityType
<1> QED BY <1>1, <1>2

LEMMA AtMostOneRow ==
  ASSUME NEW S, IsFiniteSet(S)
  PROVE  Cardinality(S) <= 1 <=> \A a, b \in S : a = b
<1>1. Cardinality(S) \in Nat
  BY FS_CardinalityType
<1>2. ASSUME NEW a \in S, NEW b \in S, a # b PROVE Cardinality(S) > 1
  <2>1. IsFiniteSet({a}) /\ Cardinality({a}) = 1
    BY FS_Singleton
  <2>2. Cardinality({a} \cup {b}) = 2
    BY <1>2, <2>1, FS_AddElement
  <2>3. {a} \cup {b} \subseteq S
    OBVIOUS
  <2>4. Cardinality({a} \cup {b}) <= Cardinality(S)
    BY <2>3, FS_Subset
  <2> QED BY <1>1, <2>2, <2>4
<1>3. ASSUME \A a, b \in S : a = b PROVE Cardinality(S) <= 1
  <2>1. CASE S = {}
    BY <2>1, FS_EmptySet
  <2>2. CASE S # {}
    <3>1. PICK a : S = {a}
      BY <1>3, <2>2
    <3> QED BY <3>1, FS_Singleton
  <2> QED BY <2>1, <2>2
<1> QED BY <1>1, <1>2, <1>3

LEMMA InOrderMeans ==
  AddressesInOrder <=> Cardinality(Stored) <= MaxAddresses /\ OneByKind
BY StoredFinite, AtMostOneRow DEF AddressesInOrder, OneByKind

LEMMA InOrderNext ==
  AddressesInOrder' <=> (Cardinality(Stored) <= MaxAddresses /\ OneByKind)'
<1>1. (AddressesInOrder <=> Cardinality(Stored) <= MaxAddresses /\ OneByKind)'
  BY InOrderMeans, PTL
<1> QED BY <1>1

(* The marks go when nothing runs and all is in order; else they stay, and  *)
(* two at a time are marked.                                                *)
LEMMA BlameAddressFact ==
  ASSUME AddressMade, NEW marks, BlameAddress(marks)
  PROVE  \/ AddressBusy' = {} /\ AddressesInOrder' /\ addressFault' = {}
         \/ /\ addressFault \cup marks \subseteq addressFault'
            /\ addressFault' = {} => \A s, t \in AddressBusy' : s = t
<1>1. CASE ~(AddressBusy' = {} /\ AddressesInOrder')
  <2>1. addressFault' = addressFault \cup marks \cup
                       IF Cardinality(AddressBusy') > 1 THEN {"overlap"} ELSE {}
    BY <1>1 DEF BlameAddress
  <2>2. IsFiniteSet(AddressBusy') /\ Cardinality(AddressBusy') \in Nat
    BY AddressAssumption, FS_Subset, FS_CardinalityType DEF AddressBusy
  <2>3. Cardinality(AddressBusy') <= 1 => \A s, t \in AddressBusy' : s = t
    BY <2>2, AtMostOneRow
  <2> QED BY <2>1, <2>2, <2>3
<1>2. CASE AddressBusy' = {} /\ AddressesInOrder'
  BY <1>2 DEF BlameAddress
<1> QED BY <1>1, <1>2

LEMMA QuietIsKept ==
  ASSUME AddressMade', AddressBusy' = {}, AddressesInOrder'
  PROVE  AddressInv'
BY InOrderNext DEF AddressInv

-----------------------------------------------------------------------------
(* The calls: a step changes one slot.                                      *)
LEMMA PutWrite ==
  ASSUME AddressMade, NEW s \in AddressSlots, NEW r \in WriteCall \cup {NoAddressCall},
         addressCall' = [addressCall EXCEPT ![s] = r],
         address' \in [AddressIds -> Address \cup {NoAddress}],
         addressLoad' = addressLoad, NEW marks \in SUBSET {"overlap"}, BlameAddress(marks)
  PROVE  /\ AddressMade' /\ addressCall'[s] = r
         /\ \A t \in AddressSlots : t # s => addressCall'[t] = addressCall[t]
<1>1. /\ DOMAIN addressCall' = AddressSlots /\ addressCall'[s] = r
      /\ \A t \in AddressSlots : t # s => addressCall'[t] = addressCall[t]
  BY DEF AddressMade, AddressTypeOK
<1>2. addressFault' \subseteq {"overlap"}
  BY DEF BlameAddress, AddressMade, AddressTypeOK
<1>3. \A t \in AddressSlots : addressCall'[t] \in WriteCall \cup {NoAddressCall}
  BY <1>1 DEF AddressMade
<1> QED BY <1>1, <1>2, <1>3 DEF AddressMade, AddressTypeOK

(* A step of one slot, in a state that is not quiet: nothing else runs.     *)
LEMMA AloneInBusy ==
  ASSUME AddressInv, addressFault = {}, NEW s \in AddressSlots,
         \A t \in AddressSlots : t # s => addressCall'[t] = addressCall[t],
         s \in AddressBusy \/ s \in AddressBusy',
         \A x, y \in AddressBusy' : x = y
  PROVE  AddressBusy \subseteq {s} /\ AddressBusy' \subseteq {s}
<1>1. \A x, y \in AddressBusy : x = y
  BY DEF AddressInv
<1>2. \A t \in AddressSlots : t # s => (t \in AddressBusy <=> t \in AddressBusy')
  BY DEF AddressBusy
<1> QED BY <1>1, <1>2 DEF AddressBusy

LEMMA WritesIs == NoAddressCall \notin WriteCall /\ \A c \in WriteCall : c.pc = "clear"
BY DEF NoAddressCall, WriteCall

(* A request that begins, or clears, or is rolled back: the rows stay.      *)
LEMMA RowsStay ==
  ASSUME AddressInv, NEW s \in AddressSlots, NEW r \in WriteCall \cup {NoAddressCall},
         addressCall' = [addressCall EXCEPT ![s] = r], s \in AddressBusy \/ r # NoAddressCall,
         UNCHANGED <<address, addressLoad>>, BlameAddress({}),
         addressFault = {} /\ AddressBusy \subseteq {s} /\ r # NoAddressCall => WriteFits(r)
  PROVE  AddressInv'
<1>1. /\ AddressMade' /\ addressCall'[s] = r
      /\ \A t \in AddressSlots : t # s => addressCall'[t] = addressCall[t]
  <2>1. AddressMade /\ address' \in [AddressIds -> Address \cup {NoAddress}]
    BY DEF AddressInv, AddressMade, AddressTypeOK
  <2> QED BY <2>1, PutWrite
<1>2. CASE AddressBusy' = {} /\ AddressesInOrder'
  BY <1>1, <1>2, QuietIsKept
<1>3. CASE ~(AddressBusy' = {} /\ AddressesInOrder')
  <2> SUFFICES ASSUME addressFault' = {}
               PROVE  /\ \A x, y \in AddressBusy' : x = y
                      /\ Cardinality(Stored') <= MaxAddresses /\ OneByKind'
                      /\ \A t \in AddressBusy' : WriteFits(addressCall[t])'
    BY <1>1 DEF AddressInv
  <2>1. addressFault = {} /\ \A x, y \in AddressBusy' : x = y
    BY <1>3, BlameAddressFact DEF AddressInv
  <2>2. s \in AddressBusy \/ s \in AddressBusy'
    BY <1>1 DEF AddressBusy
  <2>3. AddressBusy \subseteq {s} /\ AddressBusy' \subseteq {s}
    BY <1>1, <2>1, <2>2, AloneInBusy
  <2>4. Stored' = Stored /\ \A k : Default(k)' = Default(k)
    BY DEF Stored, Default, Exists
  <2>5. Cardinality(Stored') <= MaxAddresses /\ OneByKind'
    BY <2>1, <2>4 DEF AddressInv, OneByKind
  <2>6. ASSUME NEW t \in AddressBusy' PROVE WriteFits(addressCall[t])'
    <3>1. t = s /\ r # NoAddressCall
      BY <1>1, <2>3 DEF AddressBusy
    <3>2. WriteFits(r)
      BY <2>1, <2>3, <3>1
    <3>3. \A a : Exists(a)' <=> Exists(a)
      BY DEF Exists
    <3> QED BY <1>1, <3>1, <3>2, <3>3, <2>4 DEF WriteFits
  <2> QED BY <2>1, <2>5, <2>6
<1> QED BY <1>2, <1>3

LEMMA BeginsKeep ==
  ASSUME AddressInv, NEW s \in AddressSlots, NEW a \in AddressIds,
         \/ \E kinds \in SUBSET DefaultKinds : CreateAddress(s, a, kinds)
         \/ \E on, off \in SUBSET DefaultKinds : UpdateAddress(s, a, on, off)
  PROVE  AddressInv'
<1>0. <<>> \in ClearedRows
  <2>1. <<>> \in [{} -> SUBSET AddressIds]
    OBVIOUS
  <2> QED BY <2>1 DEF ClearedRows
<1>1. ASSUME NEW kinds \in SUBSET DefaultKinds, CreateAddress(s, a, kinds)
      PROVE  AddressInv'
  <2> DEFINE r == [pc |-> "clear", id |-> a, todo |-> kinds, cleared |-> <<>>,
                   write |-> [here |-> TRUE, default |-> kinds]]
  <2>1. r \in WriteCall
    BY <1>0 DEF WriteCall, Address
  <2>2. WriteFits(r)
    <3>1. address[a] = NoAddress /\ Cardinality(Stored) < MaxAddresses
      BY <1>1 DEF CreateAddress, Room
    <3> QED BY <3>1 DEF WriteFits
  <2>3. /\ addressCall' = [addressCall EXCEPT ![s] = r]
        /\ UNCHANGED <<address, addressLoad>> /\ BlameAddress({})
    BY <1>1 DEF CreateAddress, BeginAddress
  <2> HIDE DEF r
  <2> QED BY <2>1, <2>2, <2>3, RowsStay, WritesIs
<1>2. ASSUME NEW on \in SUBSET DefaultKinds, NEW off \in SUBSET DefaultKinds,
             UpdateAddress(s, a, on, off)
      PROVE  AddressInv'
  <2> DEFINE r == [pc |-> "clear", id |-> a, cleared |-> <<>>,
                   todo |-> TakenOver(address[a], on),
                   write |-> [here |-> TRUE,
                              default |-> (address[a].default \cup on) \ off]]
  <2>1. Exists(a) /\ address[a] \in Address
    BY <1>2 DEF UpdateAddress, Found, Exists, AddressInv, AddressMade, AddressTypeOK
  <2>2. address[a].default \subseteq DefaultKinds
    BY <2>1 DEF Address
  <2>3. r \in WriteCall
    BY <1>0, <2>2 DEF WriteCall, Address, TakenOver
  <2>4. WriteFits(r)
    <3>1. ASSUME NEW k \in r.write.default PROVE k \in r.todo \/ a \in Default(k)
      BY <2>1, <3>1 DEF TakenOver, Default, Stored
    <3> QED BY <2>1, <3>1 DEF WriteFits
  <2>5. /\ addressCall' = [addressCall EXCEPT ![s] = r]
        /\ UNCHANGED <<address, addressLoad>> /\ BlameAddress({})
    BY <1>2 DEF UpdateAddress, BeginAddress
  <2> HIDE DEF r
  <2> QED BY <2>3, <2>4, <2>5, RowsStay, WritesIs
<1> QED BY <1>1, <1>2

LEMMA ClearKeeps ==
  ASSUME AddressInv, NEW s \in AddressSlots, NEW k \in DefaultKinds, ClearDefault(s, k)
  PROVE  AddressInv'
<1> DEFINE c == addressCall[s]
           cl == [j \in DOMAIN c.cleared \cup {k} |->
                    IF j = k THEN Default(k) ELSE c.cleared[j]]
           r == [c EXCEPT !.todo = @ \ {k}, !.cleared = cl]
<1>1. c \in WriteCall
  BY DEF ClearDefault, AddressAt, AddressInv, AddressMade, NoAddressCall
<1>2. cl \in ClearedRows
  <2>1. PICK ks \in SUBSET DefaultKinds : c.cleared \in [ks -> SUBSET AddressIds]
    BY <1>1 DEF WriteCall, ClearedRows
  <2>2. Default(k) \subseteq AddressIds
    BY DEF Default, Stored
  <2>3. cl \in [ks \cup {k} -> SUBSET AddressIds] /\ ks \cup {k} \in SUBSET DefaultKinds
    BY <2>1, <2>2
  <2> QED BY <2>3 DEF ClearedRows
<1>3. /\ r \in WriteCall /\ r.id = c.id /\ r.write = c.write /\ r.todo = c.todo \ {k}
      /\ r.cleared = cl
  <2> HIDE DEF cl, c
  <2> QED BY <1>1, <1>2 DEF WriteCall
<1>4. addressCall' = [addressCall EXCEPT ![s] = r] /\ BlameAddress({})
      /\ UNCHANGED <<address, addressLoad>>
  BY <1>1 DEF ClearDefault, WriteCall
<1>5. s \in AddressBusy
  BY <1>1, WritesIs DEF AddressBusy
<1>6. addressFault = {} => WriteFits(r)
  <2> SUFFICES ASSUME addressFault = {} PROVE WriteFits(r)
    OBVIOUS
  <2>1. WriteFits(c)
    BY <1>5 DEF AddressInv
  <2> HIDE DEF c, r
  <2> QED BY <1>3, <2>1 DEF WriteFits
<1> HIDE DEF r
<1> QED BY <1>3, <1>4, <1>5, <1>6, RowsStay

LEMMA RollBackKeeps ==
  ASSUME AddressInv, NEW s \in AddressSlots, RollBack(s)
  PROVE  AddressInv'
BY RowsStay DEF RollBack, EndAddress

-----------------------------------------------------------------------------
(* The save: one row is written, others lose the defaults that were cleared.*)
LEMMA SaveWrites ==
  ASSUME AddressInv, NEW s \in AddressSlots, SaveAddress(s)
  PROVE  LET c == addressCall[s]
         IN  /\ c \in WriteCall /\ c.todo = {} /\ s \in AddressBusy
             /\ AddressMade' /\ addressCall'[s] = NoAddressCall /\ BlameAddress({})
             /\ \A t \in AddressSlots : t # s => addressCall'[t] = addressCall[t]
             /\ address'[c.id] = c.write
             /\ \A a \in AddressIds \ {c.id} :
                  /\ Exists(a)' <=> Exists(a)
                  /\ \A k : a \in Default(k)' =>
                       a \in Default(k) /\ ~(k \in DOMAIN c.cleared /\ a \in c.cleared[k])
<1> DEFINE c == addressCall[s]
           dropped(a) == {k \in DOMAIN c.cleared : a \in c.cleared[k]}
           row(a) == IF a = c.id THEN c.write
                     ELSE IF address[a] = NoAddress THEN NoAddress
                     ELSE [address[a] EXCEPT !.default = @ \ dropped(a)]
<1>1. c \in WriteCall /\ c.todo = {}
  BY DEF SaveAddress, AddressAt, AddressInv, AddressMade, NoAddressCall
<1>2. /\ address' = [a \in AddressIds |-> row(a)] /\ BlameAddress({})
      /\ addressCall' = [addressCall EXCEPT ![s] = NoAddressCall] /\ UNCHANGED addressLoad
  BY DEF SaveAddress, EndAddress
<1>3. s \in AddressBusy
  BY <1>1, WritesIs DEF AddressBusy
<1>4. \A a \in AddressIds : address[a] \in Address \cup {NoAddress}
  BY DEF AddressInv, AddressMade, AddressTypeOK
<1>5. ASSUME NEW a \in AddressIds, a # c.id, address[a] # NoAddress
      PROVE  /\ row(a) \in Address /\ row(a).here = address[a].here
             /\ row(a).default = address[a].default \ dropped(a)
  BY <1>4, <1>5 DEF Address
<1>6. c.write \in Address /\ c.id \in AddressIds
  BY <1>1 DEF WriteCall
<1>7. \A a \in AddressIds : row(a) \in Address \cup {NoAddress}
  <2>1. row(c.id) = c.write
    OBVIOUS
  <2>2. \A a \in AddressIds : address[a] = NoAddress /\ a # c.id => row(a) = NoAddress
    OBVIOUS
  <2> HIDE DEF row
  <2> QED BY <1>5, <1>6, <2>1, <2>2
<1>8. row(c.id) = c.write /\ \A a : a # c.id /\ address[a] = NoAddress => row(a) = NoAddress
  OBVIOUS
<1> HIDE DEF row, c
<1>9. /\ AddressMade' /\ addressCall'[s] = NoAddressCall
      /\ \A t \in AddressSlots : t # s => addressCall'[t] = addressCall[t]
  <2>1. address' \in [AddressIds -> Address \cup {NoAddress}]
    BY <1>2, <1>7
  <2> QED BY <1>2, <2>1, PutWrite DEF AddressInv
<1>10. ASSUME NEW a \in AddressIds \ {c.id}
       PROVE  /\ Exists(a)' <=> Exists(a)
              /\ \A k : a \in Default(k)' => a \in Default(k) /\ k \notin dropped(a)
  <2>1. address'[a] = row(a)
    BY <1>2
  <2>2. CASE address[a] = NoAddress
    BY <1>8, <2>1, <2>2 DEF Exists, Default, Stored
  <2>3. CASE address[a] # NoAddress
    <3>1. row(a) # NoAddress
      BY <1>5, <2>3, NoAddressAssumption
    <3> HIDE DEF dropped
    <3> QED BY <1>5, <2>1, <2>3, <3>1 DEF Exists, Default, Stored
  <2> QED BY <2>2, <2>3
<1> QED BY <1>1, <1>2, <1>3, <1>6, <1>8, <1>9, <1>10 DEF c

LEMMA AddressSaveKeeps ==
  ASSUME AddressInv, NEW s \in AddressSlots, SaveAddress(s)
  PROVE  AddressInv'
<1> DEFINE c == addressCall[s]
<1>1. /\ c \in WriteCall /\ c.todo = {} /\ s \in AddressBusy
      /\ AddressMade' /\ addressCall'[s] = NoAddressCall /\ BlameAddress({})
      /\ \A t \in AddressSlots : t # s => addressCall'[t] = addressCall[t]
      /\ address'[c.id] = c.write
      /\ \A a \in AddressIds \ {c.id} :
           /\ Exists(a)' <=> Exists(a)
           /\ \A k : a \in Default(k)' =>
                a \in Default(k) /\ ~(k \in DOMAIN c.cleared /\ a \in c.cleared[k])
  BY SaveWrites
<1> HIDE DEF c
<1>2. CASE AddressBusy' = {} /\ AddressesInOrder'
  BY <1>1, <1>2, QuietIsKept
<1>3. CASE ~(AddressBusy' = {} /\ AddressesInOrder')
  <2> SUFFICES ASSUME addressFault' = {}
               PROVE  /\ \A x, y \in AddressBusy' : x = y
                      /\ Cardinality(Stored') <= MaxAddresses /\ OneByKind'
                      /\ \A t \in AddressBusy' : WriteFits(addressCall[t])'
    BY <1>1 DEF AddressInv
  <2>1. addressFault = {} /\ \A x, y \in AddressBusy' : x = y
    BY <1>1, <1>3, BlameAddressFact DEF AddressInv
  <2>2. AddressBusy' = {}
    <3>1. AddressBusy \subseteq {s} /\ AddressBusy' \subseteq {s}
      BY <1>1, <2>1, AloneInBusy
    <3> QED BY <1>1, <3>1 DEF AddressBusy
  <2>3. WriteFits(c)
    BY <1>1, <2>1 DEF AddressInv, c
  <2>4. Cardinality(Stored') <= MaxAddresses
    <3>1. c.id \in AddressIds
      BY <1>1 DEF WriteCall
    <3>2. CASE Exists(c.id)
      <4>1. Stored' \subseteq Stored
        BY <1>1, <3>2 DEF Stored
      <4>2. Cardinality(Stored') <= Cardinality(Stored) /\ Cardinality(Stored') \in Nat
        BY <4>1, StoredFinite, FS_Subset, FS_CardinalityType
      <4> QED BY <2>1, <4>2, StoredFinite, AddressAssumption DEF AddressInv
    <3>3. CASE Cardinality(Stored) < MaxAddresses
      <4>1. Stored' \subseteq Stored \cup {c.id}
        BY <1>1 DEF Stored
      <4>2. /\ IsFiniteSet(Stored \cup {c.id})
            /\ Cardinality(Stored \cup {c.id}) <= Cardinality(Stored) + 1
        BY StoredFinite, FS_AddElement
      <4>3. Cardinality(Stored') <= Cardinality(Stored \cup {c.id})
        BY <4>1, <4>2, FS_Subset
      <4>4. /\ Cardinality(Stored') \in Nat /\ Cardinality(Stored \cup {c.id}) \in Nat
        BY <4>1, <4>2, FS_Subset, FS_CardinalityType
      <4> QED BY <3>3, <4>2, <4>3, <4>4, StoredFinite, AddressAssumption
    <3> QED BY <2>3, <3>2, <3>3 DEF WriteFits
  <2>5. OneByKind'
    <3>1. ASSUME NEW k \in DefaultKinds, NEW a \in Default(k)', NEW b \in Default(k)', a # b,
                 b # c.id
          PROVE  FALSE
      <4>1. a \in AddressIds /\ b \in AddressIds
        BY DEF Default, Stored
      <4>2. b \in Default(k) /\ ~(k \in DOMAIN c.cleared /\ b \in c.cleared[k])
        BY <1>1, <3>1, <4>1
      <4>3. \A x, y \in Default(k) : x = y
        BY <2>1 DEF AddressInv, OneByKind
      <4>4. CASE a # c.id
        <5>1. a \in Default(k)
          BY <1>1, <4>1, <4>4
        <5> QED BY <3>1, <4>2, <4>3, <5>1
      <4>5. CASE a = c.id
        <5>1. k \in c.write.default
          BY <1>1, <4>5 DEF Default
        <5>2. k \notin c.todo
          BY <1>1
        <5> QED BY <2>3, <3>1, <4>2, <4>3, <4>5, <5>1, <5>2 DEF WriteFits
      <4> QED BY <4>4, <4>5
    <3>2. ASSUME NEW k \in DefaultKinds, NEW a \in Default(k)', NEW b \in Default(k)'
          PROVE  a = b
      <4>1. CASE b # c.id
        BY <3>1, <4>1
      <4>2. CASE a # c.id
        BY <3>1, <4>2
      <4> QED BY <4>1, <4>2
    <3> QED BY <3>2 DEF OneByKind
  <2> QED BY <2>2, <2>4, <2>5
<1> QED BY <1>2, <1>3

LEMMA DeleteKeeps ==
  ASSUME AddressInv, NEW a \in AddressIds, DeleteAddress(a)
  PROVE  AddressInv'
<1> DEFINE row == [address[a] EXCEPT !.here = FALSE]
<1>1. /\ address' = [address EXCEPT ![a] = row] /\ UNCHANGED <<addressCall, addressLoad>>
      /\ BlameAddress(IF AddressBusy = {} THEN {} ELSE {"overlap"})
      /\ address[a] # NoAddress
  BY DEF DeleteAddress, Exists
<1>2. address[a] \in Address
  BY <1>1 DEF AddressInv, AddressMade, AddressTypeOK
<1>3. row \in Address /\ ~row.here
  BY <1>2 DEF Address
<1> HIDE DEF row
<1>4. AddressMade'
  <2>1. addressFault' \subseteq {"overlap"}
    BY <1>1 DEF BlameAddress, AddressInv, AddressMade, AddressTypeOK
  <2> QED BY <1>1, <1>3, <2>1 DEF AddressInv, AddressMade, AddressTypeOK
<1>5. CASE AddressBusy' = {} /\ AddressesInOrder'
  BY <1>4, <1>5, QuietIsKept
<1>6. CASE ~(AddressBusy' = {} /\ AddressesInOrder')
  <2> SUFFICES ASSUME addressFault' = {}
               PROVE  /\ AddressBusy' = {}
                      /\ Cardinality(Stored') <= MaxAddresses /\ OneByKind'
    BY <1>4 DEF AddressInv
  <2>1. addressFault \cup (IF AddressBusy = {} THEN {} ELSE {"overlap"}) = {}
    <3>1. AddressMade
      BY DEF AddressInv
    <3> QED BY <1>1, <1>6, <3>1, BlameAddressFact
  <2>2. AddressBusy' = {} /\ addressFault = {}
    BY <1>1, <2>1 DEF AddressBusy
  <2>3. Stored' \subseteq Stored /\ \A k : Default(k)' \subseteq Default(k)
    <3>1. \A b \in AddressIds : address'[b] = IF b = a THEN row ELSE address[b]
      BY <1>1 DEF AddressInv, AddressMade, AddressTypeOK
    <3> QED BY <1>3, <3>1 DEF Stored, Default, Exists
  <2>4. Cardinality(Stored') <= Cardinality(Stored) /\ Cardinality(Stored') \in Nat
    BY <2>3, StoredFinite, FS_Subset, FS_CardinalityType
  <2>5. Cardinality(Stored') <= MaxAddresses
    BY <2>2, <2>4, StoredFinite, AddressAssumption DEF AddressInv
  <2>6. OneByKind'
    BY <2>2, <2>3 DEF AddressInv, OneByKind
  <2> QED BY <2>2, <2>5, <2>6
<1> QED BY <1>5, <1>6

LEMMA AddressStep ==
  ASSUME AddressInv, AddressNext
  PROVE  \/ \E a \in AddressIds : DeleteAddress(a)
         \/ \E s \in AddressSlots :
              \/ SaveAddress(s) \/ RollBack(s)
              \/ \E k \in DefaultKinds : ClearDefault(s, k)
              \/ \E a \in AddressIds :
                   \/ \E kinds \in SUBSET DefaultKinds : CreateAddress(s, a, kinds)
                   \/ \E on, off \in SUBSET DefaultKinds : UpdateAddress(s, a, on, off)
<1>1. addressLoad.slots \subseteq AddressSlots /\ addressLoad.kinds \subseteq DefaultKinds
  BY AddressAssumption DEF AddressInv, AddressMade, AddressTypeOK, DefaultKinds
<1> QED BY <1>1 DEF AddressNext

LEMMA AddressKeeps == AddressInv /\ [AddressNext]_addressVars => AddressInv'
<1>1. ASSUME AddressInv, AddressNext PROVE AddressInv'
  BY <1>1, AddressStep, DeleteKeeps, AddressSaveKeeps, RollBackKeeps, ClearKeeps, BeginsKeep
<1>2. ASSUME AddressInv, UNCHANGED addressVars PROVE AddressInv'
  <2>1. /\ address' = address /\ addressCall' = addressCall /\ addressLoad' = addressLoad
        /\ addressFault' = addressFault
    BY <1>2 DEF addressVars
  <2>2. /\ Stored' = Stored /\ \A k : Default(k)' = Default(k)
        /\ \A a : Exists(a)' <=> Exists(a)
        /\ AddressBusy' = AddressBusy
    BY <2>1 DEF Stored, Default, Exists, AddressBusy
  <2>3. \A s : WriteFits(addressCall[s])' <=> WriteFits(addressCall[s])
    BY <2>1, <2>2 DEF WriteFits
  <2>4. AddressMade'
    BY <1>2, <2>1 DEF AddressInv, AddressMade, AddressTypeOK
  <2>5. OneByKind' <=> OneByKind
    BY <2>2 DEF OneByKind
  <2> QED BY <1>2, <2>1, <2>2, <2>3, <2>4, <2>5 DEF AddressInv
<1> QED BY <1>1, <1>2

LEMMA AddressStarts == AddressInit => AddressInv
<1> SUFFICES ASSUME AddressInit PROVE AddressInv
  OBVIOUS
<1>1. Stored = {} /\ AddressBusy = {} /\ \A k : Default(k) = {}
  BY DEF AddressInit, Stored, Exists, AddressBusy, Default
<1>2. Cardinality(Stored) <= MaxAddresses
  BY <1>1, FS_EmptySet, AddressAssumption
<1>3. AddressMade
  BY DEF AddressInit, AddressMade, AddressTypeOK
<1> QED BY <1>1, <1>2, <1>3 DEF AddressInv, OneByKind

(* Rows and transactions keep their shape.                                  *)
THEOREM AddressesWellTyped == AddressSpec => []AddressTypeOK
<1>1. AddressInv => AddressTypeOK
  BY DEF AddressInv, AddressMade
<1> QED BY <1>1, AddressStarts, AddressKeeps, PTL DEF AddressSpec

(* A user has no more addresses than allowed and one default of each kind,  *)
(* unless transactions overlapped.                                          *)
THEOREM AddressesStayConsistent == AddressSpec => []AddressesConsistent
<1>1. AddressInv => AddressesConsistent
  <2> SUFFICES ASSUME AddressInv, addressFault = {}
               PROVE  /\ ~(Cardinality(Stored) > MaxAddresses)
                      /\ \A k \in DefaultKinds : ~(Cardinality(Default(k)) > 1)
    BY DEF AddressesConsistent, AddressesBounded, OneDefault
  <2>1. Cardinality(Stored) <= MaxAddresses /\ OneByKind
    BY DEF AddressInv
  <2>2. \A k \in DefaultKinds : Cardinality(Default(k)) <= 1
    BY <2>1, StoredFinite, AtMostOneRow DEF OneByKind
  <2> QED BY <2>1, <2>2, StoredFinite, AddressAssumption
<1> QED BY <1>1, AddressStarts, AddressKeeps, PTL DEF AddressSpec

(* A deleted address stays deleted, unless transactions overlapped.         *)
LEMMA DeletedStep ==
  AddressInv /\ [AddressNext]_addressVars =>
    [ \/ \A a \in AddressIds : address[a] # NoAddress /\ address'[a].here => address[a].here
      \/ addressFault # {} ]_addressVars
<1> SUFFICES ASSUME AddressInv, AddressNext, addressFault = {},
                    NEW a \in AddressIds, address[a] # NoAddress, address'[a].here
             PROVE  address[a].here
  OBVIOUS
<1>1. ASSUME NEW b \in AddressIds, DeleteAddress(b) PROVE address[a].here
  <2> DEFINE row == [address[b] EXCEPT !.here = FALSE]
  <2>1. address' = [address EXCEPT ![b] = row] /\ address[b] # NoAddress
    BY <1>1 DEF DeleteAddress, Exists
  <2>2. address[b] \in Address
    BY <2>1 DEF AddressInv, AddressMade, AddressTypeOK
  <2>3. ~row.here
    BY <2>2 DEF Address
  <2> HIDE DEF row
  <2> QED BY <2>1, <2>3 DEF AddressInv, AddressMade, AddressTypeOK
<1>2. ASSUME NEW s \in AddressSlots, SaveAddress(s) PROVE address[a].here
  <2> DEFINE c == addressCall[s]
  <2>1. /\ s \in AddressBusy
        /\ \A b \in AddressIds \ {c.id} : Exists(b)' <=> Exists(b)
    BY <1>2, SaveWrites
  <2>2. AddressMade'
    BY <1>2, SaveWrites
  <2>3. WriteFits(c)
    BY <2>1 DEF AddressInv
  <2>4. CASE a = c.id
    BY <2>3, <2>4 DEF WriteFits, Exists
  <2>5. CASE a # c.id
    <3>1. address'[a] # NoAddress
      <4> DEFINE dropped == {k \in DOMAIN c.cleared : a \in c.cleared[k]}
                 row == [address[a] EXCEPT !.default = @ \ dropped]
      <4>1. address'[a] = row
        BY <1>2, <2>5 DEF SaveAddress
      <4>2. address[a] \in Address
        BY DEF AddressInv, AddressMade, AddressTypeOK
      <4>3. row \in Address
        BY <4>2 DEF Address
      <4> QED BY <4>1, <4>3, NoAddressAssumption
    <3> QED BY <2>1, <2>5, <3>1 DEF Exists
  <2> QED BY <2>4, <2>5
<1>3. ASSUME UNCHANGED address PROVE address[a].here
  BY <1>3
<1>4. \/ \E b \in AddressIds : DeleteAddress(b)
      \/ \E s \in AddressSlots : SaveAddress(s)
      \/ UNCHANGED address
  BY AddressStep DEF RollBack, ClearDefault, CreateAddress, UpdateAddress
<1> QED BY <1>1, <1>2, <1>3, <1>4

THEOREM DeletedAddressesStay == AddressSpec => DeletedAddressStays
BY DeletedStep, AddressStarts, AddressKeeps, PTL DEF AddressSpec, DeletedAddressStays

-----------------------------------------------------------------------------
(* All parts.  A behaviour of MCCustomers moves one part by its own steps   *)
(* and leaves the others where they began, so it is a behaviour of each.    *)

LEMMA PartsBegin ==
  CustomerInit => /\ part \in Parts
                  /\ SubInit /\ SessInit /\ CredInit /\ FactorInit /\ AdminInit
                  /\ CartInit /\ AddressInit /\ MailInit /\ CallInit /\ LicInit
                  /\ WebhookInit
  BY DEF CustomerInit

LEMMA PartsMove ==
  [CustomerNext]_customerVars =>
    /\ UNCHANGED part
    /\ [SubNext]_subVars /\ [SessNext]_sessVars /\ [CredNext]_credVars
    /\ [FactorNext]_factorVars /\ [AdminNext]_adminVars /\ [CartNext]_cartVars
    /\ [AddressNext]_addressVars /\ [MailNext]_mailVars /\ [CallNext]_callVars
    /\ [LicNext]_licVars /\ [WebhookNext]_webhookVars
  BY DEF CustomerNext, customerVars

LEMMA PartsRun ==
  CustomerSpec =>
    /\ SubSpec /\ SessSpec /\ CredSpec /\ FactorSpec /\ AdminSpec
    /\ CartSpec /\ AddressSpec /\ MailSpec /\ CallSpec /\ LicSpec
    /\ WebhookSpec
  BY PartsBegin, PartsMove, PTL
     DEF CustomerSpec, SubSpec, SessSpec, CredSpec, FactorSpec, AdminSpec,
         CartSpec, AddressSpec, MailSpec, CallSpec, LicSpec, WebhookSpec

(* Their types, by the invariants of the parts.                             *)
LEMMA MailsTyped == MailInv => MailTypeOK
<1> SUFFICES ASSUME MailInv PROVE MailTypeOK
  OBVIOUS
<1>1. \A i \in DOMAIN queue : queue[i] \in EventIds
  BY ElementOfSeq, LenProperties DEF MailInv, MailTyped
<1>2. \A i \in DOMAIN inbox : inbox[i] \in EventIds
  BY ElementOfSeq, LenProperties DEF MailInv, MailTyped
<1>3. \A e \in EventIds : why[e] \subseteq Reasons
  BY DEF MailInv, MailTyped
<1> QED BY <1>1, <1>2, <1>3 DEF MailInv, MailTyped, MailTypeOK, Stages, Reasons

LEMMA PartsTyped ==
  CustomerSpec =>
    [](/\ SubTypeOK /\ SessTypeOK /\ CredTypeOK /\ FactorTypeOK /\ AdminTypeOK
       /\ CartsTypeOK /\ AddressTypeOK /\ MailTypeOK /\ CallTypeOK /\ LicTypeOK
       /\ WebhookTypeOK)
<1>1. SessSpec => []SessTypeOK
  <2>1. SessInv => SessTypeOK
    BY DEF SessInv
  <2> QED BY <2>1, SessInvInit, SessInvKept, PTL DEF SessSpec
<1>2. CredSpec => []CredTypeOK
  <2>1. CredInv => CredTypeOK
    BY DEF CredInv
  <2> QED BY <2>1, CredInvInit, CredInvKept, PTL DEF CredSpec
<1>3. FactorSpec => []FactorTypeOK
  <2>1. FactorInv => FactorTypeOK
    BY DEF FactorInv
  <2> QED BY <2>1, FactorInvInit, FactorInvKept, PTL DEF FactorSpec
<1>4. AdminSpec => []AdminTypeOK
  <2>1. AdminInv => AdminTypeOK
    BY DEF AdminInv
  <2> QED BY <2>1, AdminInitHolds, AdminNextKeeps, PTL DEF AdminSpec
<1>5. MailSpec => []MailTypeOK
  BY MailsTyped, MailInvInit, MailInvKept, PTL DEF MailSpec
<1>6. CallSpec => []CallTypeOK
  <2>1. CallInv => CallTypeOK
    BY DEF CallInv
  <2> QED BY <2>1, CallInvInit, CallInvKept, PTL DEF CallSpec
<1>7. LicSpec => []LicTypeOK
  <2>1. LicInv => LicTypeOK
    BY DEF LicInv
  <2> QED BY <2>1, LicInvInit, LicInvKept, PTL DEF LicSpec
<1> QED BY <1>1, <1>2, <1>3, <1>4, <1>5, <1>6, <1>7, PartsRun, SubscriptionsTyped,
           CartsWellTyped, AddressesWellTyped, WebhookTypeCorrect, PTL

(* The state of the part that moves has its type, whichever part that is.   *)
THEOREM CustomersWellTyped == CustomerSpec => []CustomerTypeOK
<1>1. part \in Parts /\ UNCHANGED part => (part \in Parts)'
  OBVIOUS
<1>2. CustomerSpec => [](part \in Parts)
  BY <1>1, PartsBegin, PartsMove, PTL DEF CustomerSpec
<1>3. /\ part \in Parts
      /\ /\ SubTypeOK /\ SessTypeOK /\ CredTypeOK /\ FactorTypeOK /\ AdminTypeOK
         /\ CartsTypeOK /\ AddressTypeOK /\ MailTypeOK /\ CallTypeOK /\ LicTypeOK
         /\ WebhookTypeOK
      => CustomerTypeOK
  <2> SUFFICES ASSUME part \in Parts,
                      SubTypeOK, SessTypeOK, CredTypeOK, FactorTypeOK, AdminTypeOK,
                      CartsTypeOK, AddressTypeOK, MailTypeOK, CallTypeOK, LicTypeOK,
                      WebhookTypeOK
               PROVE  CustomerTypeOK
    OBVIOUS
  <2>1. CASE part = "subscriptions"
    BY <2>1 DEF CustomerTypeOK
  <2>2. CASE part = "sessions"
    BY <2>2 DEF CustomerTypeOK
  <2>3. CASE part = "credentials"
    BY <2>3 DEF CustomerTypeOK
  <2>4. CASE part = "factor"
    BY <2>4 DEF CustomerTypeOK
  <2>5. CASE part = "admins"
    BY <2>5 DEF CustomerTypeOK
  <2>6. CASE part = "cart"
    BY <2>6 DEF CustomerTypeOK
  <2>7. CASE part = "addresses"
    BY <2>7 DEF CustomerTypeOK
  <2>8. CASE part = "mails"
    BY <2>8 DEF CustomerTypeOK
  <2>9. CASE part = "calls"
    BY <2>9 DEF CustomerTypeOK
  <2>10. CASE part = "licences"
    BY <2>10 DEF CustomerTypeOK
  <2>11. CASE part = "webhooks"
    BY <2>11 DEF CustomerTypeOK
  <2> QED BY <2>1, <2>2, <2>3, <2>4, <2>5, <2>6, <2>7, <2>8, <2>9, <2>10, <2>11 DEF Parts
<1> QED BY <1>2, <1>3, PartsTyped, PTL

(* The cart with its copy, and the addresses, are consistent together.      *)
THEOREM OwnDataStaysConsistent == CustomerSpec => []OwnDataConsistent
BY PartsRun, CartsStayConsistent, AddressesStayConsistent, PTL DEF OwnDataConsistent

(* No step undoes what RowsKept names: a welcome is mailed once, rows of    *)
(* users and administrators keep what others changed, a merged cart keeps   *)
(* its lines, and what was removed or deleted is not brought back.          *)
THEOREM CustomersKeepRows == CustomerSpec => RowsKept
BY PartsRun, WelcomesGoOnce, UserRowsAreKept, AdminRowsAreKept, AccessIsOfTheRow,
   MergesKeepLines, RemovedLinesStayRemoved, DeletedAddressesStay, PTL DEF RowsKept
=============================================================================
