---------------------------- MODULE StockProofs ----------------------------
(***************************************************************************)
(* What holds of a product's row, its reservations and the copy Redis      *)
(* keeps of it, for any number of products, carts, reservations and        *)
(* requests; and of the pages of categories and products that Redis keeps  *)
(* under their slugs, for any number of them.  And of what                 *)
(* analytics-service reports: the metrics it keeps and the revenue it      *)
(* tells of past months, for any number of events, subscriptions, months   *)
(* and calls, and the figures it computes, for any days, orders, products  *)
(* and prices and any lengths of weeks and months.                         *)
(***************************************************************************)
EXTENDS Stock, Categories, SalesFigures, MetricCache, RecurringRevenue,
        Integers, FiniteSetTheorems, WellFoundedInduction, TLAPS

-----------------------------------------------------------------------------
(* Sums over finite sets.                                                   *)

(* Among subsets of a finite set there is a smallest one.                   *)
LEMMA SmallestSubset ==
  ASSUME NEW S, IsFiniteSet(S), NEW B, B \subseteq SUBSET S, B # {}
  PROVE  \E m \in B : \A s \in B : s \subseteq m => s = m
<1>1. IsWellFoundedOn(StrictSubsetOrdering(S), FiniteSubsetsOf(S))
  BY FS_StrictSubsetOrderingWellFounded
<1>2. B \subseteq FiniteSubsetsOf(S)
  BY FS_FiniteSubsetsOfFinite
<1>3. PICK m \in B : \A s \in B : ~(<<s, m>> \in StrictSubsetOrdering(S))
  BY <1>1, <1>2, WFMin, Zenon
<1>4. ASSUME NEW s \in B, s \subseteq m, s # m
      PROVE  <<s, m>> \in StrictSubsetOrdering(S)
  <2>1. s \in SUBSET S /\ m \in SUBSET S
    OBVIOUS
  <2> QED BY <1>4, <2>1 DEF StrictSubsetOrdering
<1>5. \A s \in B : s \subseteq m => s = m
  BY <1>3, <1>4
<1> QED BY <1>5

(* The sum of q over S; the fold takes away one element at a time.          *)
Choice(s) == CHOOSE x \in s : TRUE
IsSum(q, T, f) ==
  f = [s \in SUBSET T |-> IF s = {} THEN 0 ELSE q[Choice(s)] + f[s \ {Choice(s)}]]
SumOf(q, S) == MapThenSumSet(LAMBDA i : q[i], S)

LEMMA SumIs ==
  ASSUME NEW q, NEW S
  PROVE  SumOf(q, S) = (CHOOSE f : IsSum(q, S, f))[S]
BY DEF SumOf, MapThenSumSet, MapThenFoldSet, IsSum, Choice

LEMMA SumsAgree ==
  ASSUME NEW q, NEW T, NEW U, NEW f, NEW g, IsFiniteSet(T), IsFiniteSet(U),
         IsSum(q, T, f), IsSum(q, U, g)
  PROVE  \A s \in SUBSET (T \cap U) : f[s] = g[s]
<1> DEFINE bad == {s \in SUBSET (T \cap U) : f[s] # g[s]}
<1>1. SUFFICES ASSUME bad # {} PROVE FALSE
  OBVIOUS
<1>2. PICK m \in bad : \A s \in bad : s \subseteq m => s = m
  <2>1. IsFiniteSet(T \cap U) /\ bad \subseteq SUBSET (T \cap U)
    BY FS_Intersection
  <2> HIDE DEF bad
  <2> QED BY <1>1, <2>1, SmallestSubset
<1>6. f[m] = IF m = {} THEN 0 ELSE q[Choice(m)] + f[m \ {Choice(m)}]
  <2> m \in SUBSET T OBVIOUS
  <2> QED BY DEF IsSum
<1>7. g[m] = IF m = {} THEN 0 ELSE q[Choice(m)] + g[m \ {Choice(m)}]
  <2> m \in SUBSET U OBVIOUS
  <2> QED BY DEF IsSum
<1>8. m # {} /\ Choice(m) \in m
  BY <1>6, <1>7 DEF Choice
<1>9. m \ {Choice(m)} \notin bad
  BY <1>2, <1>8
<1>10. f[m \ {Choice(m)}] = g[m \ {Choice(m)}]
  BY <1>9
<1> QED BY <1>6, <1>7, <1>10, <1>8

LEMMA SumExists ==
  ASSUME NEW q, NEW S, IsFiniteSet(S)
  PROVE  \E f : IsSum(q, S, f)
<1> DEFINE bad == {T \in SUBSET S : ~\E f : IsSum(q, T, f)}
<1>1. SUFFICES ASSUME bad # {} PROVE FALSE
  OBVIOUS
<1>2. PICK T \in bad : \A s \in bad : s \subseteq T => s = T
  <2> bad \subseteq SUBSET S
    OBVIOUS
  <2> HIDE DEF bad
  <2> QED BY <1>1, SmallestSubset
<1> DEFINE F(s) == CHOOSE f : IsSum(q, s, f)
<1>3. ASSUME NEW s \in SUBSET T, s # T
      PROVE  IsSum(q, s, F(s)) /\ IsFiniteSet(s)
  <2>1. s \notin bad /\ s \in SUBSET S
    BY <1>2, <1>3
  <2> QED BY <2>1, FS_Subset
<1> DEFINE least(s) == s \ {Choice(s)}
           g == [s \in SUBSET T |-> IF s = {} THEN 0
                   ELSE q[Choice(s)] + F(least(s))[least(s)]]
<1>4. ASSUME NEW s \in SUBSET T, s # {}
      PROVE  /\ least(s) \in SUBSET T /\ least(s) # T /\ least(s) # s
             /\ g[least(s)] = F(least(s))[least(s)]
  <2>1. Choice(s) \in s
    BY <1>4 DEF Choice
  <2>2. least(s) \in SUBSET T /\ least(s) # T /\ least(s) # s
    BY <2>1
  <2> DEFINE u == least(s)
  <2>3. IsSum(q, u, F(u)) /\ IsFiniteSet(u)
    BY <2>2, <1>3
  <2>4. F(u)[u] = IF u = {} THEN 0 ELSE q[Choice(u)] + F(u)[least(u)]
    <3> HIDE DEF F, u
    <3>1. u \in SUBSET u
      OBVIOUS
    <3> QED BY <2>3, <3>1 DEF IsSum
  <2>5. ASSUME u # {} PROVE F(u)[least(u)] = F(least(u))[least(u)]
    <3>1. Choice(u) \in u
      BY <2>5 DEF Choice
    <3>2. least(u) \in SUBSET T /\ least(u) # T
      BY <2>2, <3>1
    <3>3. IsSum(q, least(u), F(least(u))) /\ IsFiniteSet(least(u))
      BY <3>2, <1>3
    <3>4. least(u) \in SUBSET (u \cap least(u))
      OBVIOUS
    <3> HIDE DEF F, u, least
    <3> QED BY <2>3, <3>3, <3>4, SumsAgree
  <2>6. g[u] = IF u = {} THEN 0 ELSE q[Choice(u)] + F(least(u))[least(u)]
    <3> HIDE DEF F, least
    <3> QED BY <2>2
  <2> HIDE DEF F, g, least
  <2> QED BY <2>2, <2>4, <2>5, <2>6
<1>5. IsSum(q, T, g)
  <2> g = [s \in SUBSET T |-> IF s = {} THEN 0 ELSE q[Choice(s)] + g[least(s)]]
    <3> DEFINE h == [s \in SUBSET T |-> IF s = {} THEN 0 ELSE q[Choice(s)] + g[least(s)]]
    <3>1. ASSUME NEW s \in SUBSET T
          PROVE  g[s] = h[s]
      <4>1. g[s] = IF s = {} THEN 0 ELSE q[Choice(s)] + F(least(s))[least(s)]
        <5> HIDE DEF F, least
        <5> QED OBVIOUS
      <4>2. h[s] = IF s = {} THEN 0 ELSE q[Choice(s)] + g[least(s)]
        <5> HIDE DEF g, least
        <5> QED OBVIOUS
      <4> HIDE DEF g, h, F, least
      <4> QED BY <1>4, <4>1, <4>2
    <3>2. g = [s \in SUBSET T |-> g[s]] /\ h = [s \in SUBSET T |-> h[s]]
      OBVIOUS
    <3>3. g = h
      <4> HIDE DEF g, h
      <4> QED BY <3>1, <3>2
    <3> QED BY <3>3
  <2> HIDE DEF F, g
  <2> QED BY DEF IsSum
<1> QED BY <1>5

(* A sum over a finite set satisfies its equation.                          *)
LEMMA SumDef ==
  ASSUME NEW q, NEW S, IsFiniteSet(S)
  PROVE  SumOf(q, S) = IF S = {} THEN 0
                       ELSE q[Choice(S)] + SumOf(q, S \ {Choice(S)})
<1> DEFINE F(s) == CHOOSE f : IsSum(q, s, f)
<1>1. ASSUME NEW s, IsFiniteSet(s) PROVE IsSum(q, s, F(s)) /\ SumOf(q, s) = F(s)[s]
  BY <1>1, SumExists, SumIs
<1> DEFINE u == S \ {Choice(S)}
<1>2. F(S)[S] = IF S = {} THEN 0 ELSE q[Choice(S)] + F(S)[u]
  <2>1. S \in SUBSET S
    OBVIOUS
  <2>2. IsSum(q, S, F(S))
    BY <1>1
  <2> HIDE DEF F
  <2> QED BY <2>1, <2>2 DEF IsSum
<1>3. F(S)[u] = F(u)[u]
  <2>1. IsFiniteSet(u)
    BY FS_RemoveElement
  <2>2. u \in SUBSET (S \cap u)
    OBVIOUS
  <2>3. IsSum(q, S, F(S)) /\ IsSum(q, u, F(u))
    BY <1>1, <2>1
  <2> HIDE DEF F, u
  <2> QED BY <2>1, <2>2, <2>3, SumsAgree
<1>4. SumOf(q, u) = F(u)[u]
  BY <1>1, FS_RemoveElement
<1> HIDE DEF F
<1> QED BY <1>1, <1>2, <1>3, <1>4

(* It is a number if the terms are.                                         *)
LEMMA SumType ==
  ASSUME NEW q, NEW S, IsFiniteSet(S), \A i \in S : q[i] \in Nat
  PROVE  SumOf(q, S) \in Nat
<1> DEFINE bad == {T \in SUBSET S : SumOf(q, T) \notin Nat}
<1>1. SUFFICES ASSUME bad # {} PROVE FALSE
  OBVIOUS
<1>2. PICK T \in bad : \A s \in bad : s \subseteq T => s = T
  <2> bad \subseteq SUBSET S
    OBVIOUS
  <2> HIDE DEF bad
  <2> QED BY <1>1, SmallestSubset
<1>3. IsFiniteSet(T)
  BY FS_Subset
<1>4. T # {} /\ Choice(T) \in T
  <2>1. SumOf(q, T) \notin Nat
    OBVIOUS
  <2>2. T # {}
    <3>1. SumOf(q, T) = IF T = {} THEN 0 ELSE q[Choice(T)] + SumOf(q, T \ {Choice(T)})
      BY <1>3, SumDef
    <3> HIDE DEF bad
    <3> QED BY <2>1, <3>1
  <2> QED BY <2>2 DEF Choice
<1>5. T \ {Choice(T)} \notin bad
  BY <1>2, <1>4
<1> QED BY <1>3, <1>4, <1>5, SumDef

(* Taking out any element takes away its term.                              *)
LEMMA SumWithout ==
  ASSUME NEW q, NEW S, IsFiniteSet(S), \A i \in S : q[i] \in Nat, NEW x \in S
  PROVE  SumOf(q, S) = q[x] + SumOf(q, S \ {x})
<1> DEFINE bad == {T \in SUBSET S : \E y \in T : SumOf(q, T) # q[y] + SumOf(q, T \ {y})}
<1>1. SUFFICES ASSUME bad # {} PROVE FALSE
  OBVIOUS
<1>2. PICK T \in bad : \A s \in bad : s \subseteq T => s = T
  <2> bad \subseteq SUBSET S
    OBVIOUS
  <2> HIDE DEF bad
  <2> QED BY <1>1, SmallestSubset
<1>3. IsFiniteSet(T)
  BY FS_Subset
<1>4. PICK y \in T : SumOf(q, T) # q[y] + SumOf(q, T \ {y})
  OBVIOUS
<1> DEFINE c == Choice(T)
<1>5. c \in T
  BY DEF Choice
<1>6. SumOf(q, T) = q[c] + SumOf(q, T \ {c})
  BY <1>3, SumDef
<1>7. y # c
  BY <1>4, <1>6
<1>8. T \ {c} \notin bad /\ T \ {c} \in SUBSET S
  BY <1>2, <1>5
<1>9. SumOf(q, T \ {c}) = q[y] + SumOf(q, (T \ {c}) \ {y})
  BY <1>7, <1>8
<1>10. SumOf(q, T \ {y}) = q[c] + SumOf(q, (T \ {y}) \ {c})
  <2>1. CASE T \ {y} \in bad
    <3> T \ {y} = T
      BY <1>2, <2>1
    <3> QED OBVIOUS
  <2>2. CASE T \ {y} \notin bad
    <3> T \ {y} \in SUBSET S /\ c \in T \ {y}
      BY <1>5, <1>7
    <3> HIDE DEF c
    <3> QED BY <2>2
  <2> QED BY <2>1, <2>2
<1>11. (T \ {c}) \ {y} = (T \ {y}) \ {c} /\ q[y] \in Nat /\ q[c] \in Nat
  BY <1>5
<1>12. SumOf(q, (T \ {c}) \ {y}) \in Nat
  <2> IsFiniteSet((T \ {c}) \ {y})
    BY <1>3, FS_RemoveElement
  <2> QED BY SumType
<1> HIDE DEF c, bad
<1> QED BY <1>4, <1>6, <1>9, <1>10, <1>11, <1>12

(* It depends on the terms alone.                                           *)
LEMMA SumSame ==
  ASSUME NEW q, NEW r, NEW S, IsFiniteSet(S), \A i \in S : q[i] = r[i]
  PROVE  SumOf(q, S) = SumOf(r, S)
<1> DEFINE bad == {T \in SUBSET S : SumOf(q, T) # SumOf(r, T)}
<1>1. SUFFICES ASSUME bad # {} PROVE FALSE
  OBVIOUS
<1>2. PICK T \in bad : \A s \in bad : s \subseteq T => s = T
  <2> bad \subseteq SUBSET S
    OBVIOUS
  <2> HIDE DEF bad
  <2> QED BY <1>1, SmallestSubset
<1>3. IsFiniteSet(T)
  BY FS_Subset
<1>4. T # {} /\ Choice(T) \in T
  BY <1>3, SumDef DEF Choice
<1>5. T \ {Choice(T)} \notin bad /\ T \ {Choice(T)} \in SUBSET S
  BY <1>2, <1>4
<1>6. q[Choice(T)] = r[Choice(T)]
  BY <1>4
<1> QED BY <1>3, <1>4, <1>5, <1>6, SumDef

(* A part sums up to no more.                                               *)
LEMMA SumPart ==
  ASSUME NEW q, NEW S, IsFiniteSet(S), \A i \in S : q[i] \in Nat, NEW T \in SUBSET S
  PROVE  SumOf(q, T) <= SumOf(q, S)
<1> DEFINE bad == {U \in SUBSET S : T \subseteq U /\ ~(SumOf(q, T) <= SumOf(q, U))}
<1>1. SUFFICES ASSUME bad # {} PROVE FALSE
  OBVIOUS
<1>2. PICK U \in bad : \A s \in bad : s \subseteq U => s = U
  <2> bad \subseteq SUBSET S
    OBVIOUS
  <2> HIDE DEF bad
  <2> QED BY <1>1, SmallestSubset
<1>3. IsFiniteSet(U) /\ IsFiniteSet(T)
  BY FS_Subset
<1>4. T # U
  BY <1>3, SumType
<1>5. PICK y \in U : y \notin T
  BY <1>4
<1>6. U \ {y} \notin bad /\ U \ {y} \in SUBSET S /\ T \subseteq U \ {y}
  BY <1>2, <1>5
<1>7. SumOf(q, T) <= SumOf(q, U \ {y})
  BY <1>6
<1>8. SumOf(q, U) = q[y] + SumOf(q, U \ {y})
  BY <1>3, SumWithout
<1>9. SumOf(q, T) \in Nat /\ SumOf(q, U \ {y}) \in Nat /\ q[y] \in Nat
  <2> IsFiniteSet(U \ {y})
    BY <1>3, FS_RemoveElement
  <2> QED BY <1>3, SumType
<1>10. ~(SumOf(q, T) <= SumOf(q, U))
  OBVIOUS
<1> HIDE DEF bad
<1> QED BY <1>7, <1>8, <1>9, <1>10

-----------------------------------------------------------------------------
(* A product, its reservations and its copy.                                *)

(* The quantities of the reservations S.                                    *)
Claimed(r, S) == MapThenSumSet(LAMBDA id : r[id].quantity, S)

LEMMA ClaimedIs ==
  ASSUME NEW r, NEW S
  PROVE  Claimed(r, S) = SumOf([id \in S |-> r[id].quantity], S)
<1> DEFINE q == [id \in S |-> r[id].quantity]
           a(f) == [s \in SUBSET S |-> IF s = {} THEN 0
                      ELSE r[Choice(s)].quantity + f[s \ {Choice(s)}]]
           b(f) == [s \in SUBSET S |-> IF s = {} THEN 0
                      ELSE q[Choice(s)] + f[s \ {Choice(s)}]]
<1>1. Claimed(r, S) = (CHOOSE f : f = a(f))[S]
  BY DEF Claimed, MapThenSumSet, MapThenFoldSet, Choice
<1>2. SumOf(q, S) = (CHOOSE f : f = b(f))[S]
  BY SumIs DEF IsSum
<1>3. ASSUME NEW f PROVE a(f) = b(f)
  <2>1. ASSUME NEW s \in SUBSET S, s # {}
        PROVE  r[Choice(s)].quantity = q[Choice(s)]
    <3> Choice(s) \in S
      BY <2>1 DEF Choice
    <3> QED OBVIOUS
  <2> HIDE DEF q
  <2> QED BY <2>1
<1>4. (CHOOSE f : f = a(f)) = (CHOOSE f : f = b(f))
  <2> HIDE DEF a, b
  <2> QED BY <1>3
<1> HIDE DEF a, b
<1> QED BY <1>1, <1>2, <1>4

(* What counts against the stock of g.                                      *)
OwedIds(g) == {id \in Rows \ TakenIds : reservation[id].product = g
                                       /\ reservation[id].fresh}
LEMMA OwedIs == ASSUME NEW CONSTANT g PROVE Owed(g) = Claimed(reservation, OwedIds(g))
  BY DEF Owed, Claimed, OwedIds
LEMMA OwedNext == ASSUME NEW CONSTANT g PROVE Owed(g)' = Claimed(reservation', OwedIds(g)')
<1>1. Owed(g) = Claimed(reservation, OwedIds(g))
  BY OwedIs
<1>2. (Owed(g) = Claimed(reservation, OwedIds(g)))'
  BY <1>1, PTL
<1> QED BY <1>2

(* A request in flight, by what it has read.                                *)
ReserveCall ==
  [op : {"reserve"}, pc : {"find", "sum", "insert"}, product : Goods, cart : Carts,
   quantity : Quantities, stock : 0..MaxStock]
RenewCall == [op : {"reserve"}, pc : {"renew"}, ids : SUBSET ReservationIds,
              copy : ReservationRow, quantity : Quantities]
ReleaseCall == [op : {"release"}, pc : {"remove"}, ids : SUBSET ReservationIds]
ConfirmCall ==
  UNION {[op : {"confirm"}, pc : {"save"}, ids : {S}, done : SUBSET S,
          copy : [S -> ProductRow], of : [S -> Goods], quantity : [S -> Quantities]] :
           S \in SUBSET ReservationIds}
RowCall == [op : {"updateStock", "update", "find"},
            pc : {"save", "invalidate", "read", "fill"},
            product : Goods, copy : ProductRow]
DeleteCall == [op : {"delete"}, pc : {"softDelete", "invalidate"}, product : Goods,
               bulk : BOOLEAN]

CallMade(k) == \/ k = Idle \/ k \in ReserveCall \/ k \in RenewCall
               \/ k \in ReleaseCall \/ k \in ConfirmCall
               \/ k \in RowCall \/ k \in DeleteCall

StockMade == StockTypeOK /\ \A s \in AllSlots : CallMade(stockCall[s])

LEMMA BlameTyped ==
  ASSUME StockTypeOK, NEW marks \in [Goods -> SUBSET Faults], Blame(marks)
  PROVE  fault' \in [Goods -> SUBSET Faults]
<1>1. Overlap' \in SUBSET Faults
  BY DEF Overlap, Faults
<1> QED BY <1>1 DEF Blame, StockTypeOK

LEMMA NoMarksTyped ==
  /\ NoMarks \in [Goods -> SUBSET Faults]
  /\ \A g \in Goods, f \in SUBSET Faults : Mark(g, f) \in [Goods -> SUBSET Faults]
BY DEF NoMarks, Mark

(* A slot that takes its step.                                              *)
SlotStep(s) == /\ s \in AllSlots
               /\ stockCall' = [stockCall EXCEPT ![s] = stockCall'[s]]
               /\ s \in Busy \/ stockCall'[s] # Idle

LEMMA PutCall ==
  ASSUME StockMade, NEW s \in AllSlots, NEW r, CallMade(r),
         stockCall' = [stockCall EXCEPT ![s] = r]
  PROVE  /\ DOMAIN stockCall' = AllSlots
         /\ \A t \in AllSlots : CallMade(stockCall'[t])
         /\ stockCall'[s] = r
         /\ s \in Busy \/ r # Idle => SlotStep(s)
<1>1. DOMAIN stockCall = AllSlots
  BY DEF StockMade, StockTypeOK
<1>2. stockCall' = [t \in AllSlots |-> IF t = s THEN r ELSE stockCall[t]]
  BY <1>1
<1>3. stockCall'[s] = r
  BY <1>2
<1>4. \A t \in AllSlots : CallMade(stockCall'[t])
  BY <1>2 DEF StockMade
<1>5. s \in Busy \/ r # Idle => SlotStep(s)
  BY <1>3 DEF SlotStep
<1> QED BY <1>2, <1>3, <1>4, <1>5

(* What a step leaves in order once the tables and the call are.            *)
Blamed == \E marks \in [Goods -> SUBSET Faults] : Blame(marks)

LEMMA MadeNext ==
  ASSUME StockMade, NEW s \in AllSlots, NEW r, CallMade(r),
         stockCall' = [stockCall EXCEPT ![s] = r], s \in Busy \/ r # Idle,
         product' \in [Goods -> ProductRow],
         reservation' \in [ReservationIds -> ReservationRow \cup {NoRow}],
         cached' \in [Goods -> ProductRow \cup {NoRow}],
         workload' = workload, Blamed
  PROVE  StockMade' /\ SlotStep(s) /\ Blamed
<1>1. fault' \in [Goods -> SUBSET Faults]
  BY BlameTyped DEF StockMade, Blamed
<1>2. workload' \in Workloads
  BY DEF StockMade, StockTypeOK
<1>3. /\ DOMAIN stockCall' = AllSlots
      /\ \A t \in AllSlots : CallMade(stockCall'[t])
      /\ SlotStep(s)
  BY PutCall
<1> QED BY <1>1, <1>2, <1>3 DEF StockMade, StockTypeOK, CallMade

LEMMA StartMade ==
  ASSUME StockMade, NEW s \in AllSlots, NEW r, CallMade(r), Start(s, r), r # Idle,
         UNCHANGED <<product, reservation, cached, workload>>, Blamed
  PROVE  StockMade' /\ SlotStep(s) /\ Blamed
BY MadeNext DEF Start, StockMade, StockTypeOK

LEMMA RequestMade ==
  ASSUME StockMade, NEW s \in AllSlots, StockRequest(s)
  PROVE  StockMade' /\ SlotStep(s) /\ Blamed
<1>1. ASSUME NEW g \in Goods, NEW c \in Carts, NEW q \in Quantities,
             ReserveStock(s, g, c, q)
      PROVE  StockMade' /\ SlotStep(s) /\ Blamed
  <2> DEFINE r == [op |-> "reserve", pc |-> "find", product |-> g, cart |-> c,
                   quantity |-> q, stock |-> product[g].stock]
  <2>1. r \in ReserveCall /\ r # Idle
    BY DEF ReserveCall, StockMade, StockTypeOK, ProductRow, Idle
  <2>2. Start(s, r) /\ UNCHANGED <<product, reservation, cached, workload>> /\ Blamed
    BY <1>1, NoMarksTyped DEF ReserveStock, Blamed
  <2> HIDE DEF r
  <2> QED BY <2>1, <2>2, StartMade DEF CallMade
<1>2. ASSUME NEW c \in Carts, ReleaseReservation(s, c)
      PROVE  StockMade' /\ SlotStep(s) /\ Blamed
  <2> DEFINE r == [op |-> "release", pc |-> "remove", ids |-> RowsOf(c)]
  <2>1. r \in ReleaseCall /\ r # Idle
    BY DEF ReleaseCall, RowsOf, Rows, Idle
  <2>2. Start(s, r) /\ UNCHANGED <<product, reservation, cached, workload>> /\ Blamed
    BY <1>2, NoMarksTyped DEF ReleaseReservation, Blamed
  <2> HIDE DEF r
  <2> QED BY <2>1, <2>2, StartMade DEF CallMade
<1>3. ASSUME NEW c \in Carts, ConfirmReservation(s, c)
      PROVE  StockMade' /\ SlotStep(s) /\ Blamed
  <2> DEFINE ids == RowsOf(c)
             copy == [id \in ids |-> product[reservation[id].product]]
             of == [id \in ids |-> reservation[id].product]
             quantity == [id \in ids |-> reservation[id].quantity]
             r == [op |-> "confirm", pc |-> "save", ids |-> ids, done |-> {},
                   copy |-> copy, of |-> of, quantity |-> quantity]
  <2>1. ids \in SUBSET ReservationIds /\ \A id \in ids : reservation[id] \in ReservationRow
    BY DEF RowsOf, Rows, StockMade, StockTypeOK
  <2>2. /\ copy \in [ids -> ProductRow] /\ of \in [ids -> Goods]
        /\ quantity \in [ids -> Quantities]
    BY <2>1 DEF StockMade, StockTypeOK, ReservationRow
  <2>3. r \in ConfirmCall /\ r # Idle
    <3> HIDE DEF ids, copy, of, quantity
    <3> QED BY <2>1, <2>2 DEF ConfirmCall, Idle
  <2>4. Start(s, r) /\ UNCHANGED <<product, reservation, cached, workload>>
    BY <1>3 DEF ConfirmReservation
  <2> DEFINE m == [g \in Goods |->
       IF \E id \in RowsOf(c) \ {i \in Rows : reservation[i].fresh} :
            reservation[id].product = g
       THEN {"late"} ELSE {}]
  <2>5. m \in [Goods -> SUBSET Faults] /\ Blame(m)
    BY <1>3 DEF ConfirmReservation, Faults
  <2> HIDE DEF r, m
  <2> QED BY <2>3, <2>4, <2>5, StartMade DEF CallMade, Blamed
<1>4. ASSUME NEW g \in Goods, NEW n \in 0..MaxStock, UpdateStock(s, g, n)
      PROVE  StockMade' /\ SlotStep(s) /\ Blamed
  <2> DEFINE r == [op |-> "updateStock", pc |-> "save", product |-> g,
                   copy |-> [product[g] EXCEPT !.stock = n]]
  <2>1. r \in RowCall /\ r # Idle
    BY DEF RowCall, StockMade, StockTypeOK, ProductRow, Idle
  <2>2. Start(s, r) /\ UNCHANGED <<product, reservation, cached, workload>> /\ Blamed
    BY <1>4, NoMarksTyped DEF UpdateStock, Blamed
  <2> HIDE DEF r
  <2> QED BY <2>1, <2>2, StartMade DEF CallMade
<1>5. ASSUME NEW g \in Goods, FindById(s, g)
      PROVE  StockMade' /\ SlotStep(s) /\ Blamed
  <2> DEFINE r == [op |-> "find", pc |-> "fill", product |-> g, copy |-> product[g]]
  <2>1. r \in RowCall /\ r # Idle
    BY DEF RowCall, StockMade, StockTypeOK, Idle
  <2>2. Start(s, r) /\ UNCHANGED <<product, reservation, cached, workload>> /\ Blamed
    BY <1>5, NoMarksTyped DEF FindById, Blamed
  <2> HIDE DEF r
  <2> QED BY <2>1, <2>2, StartMade DEF CallMade
<1>6. ASSUME NEW g \in Goods, UpdateProduct(s, g)
      PROVE  StockMade' /\ SlotStep(s) /\ Blamed
  <2>1. UNCHANGED <<product, reservation, cached, workload>> /\ Blamed
    BY <1>6, NoMarksTyped DEF UpdateProduct, Blamed
  <2>2. \E r \in RowCall : Start(s, r)
    <3>1. ASSUME cached[g] # NoRow, NEW n \in {cached[g].stock} \cup 0..MaxStock,
                 Start(s, [op |-> "update", pc |-> "save", product |-> g,
                           copy |-> [cached[g] EXCEPT !.stock = n]])
          PROVE  \E r \in RowCall : Start(s, r)
      <4> DEFINE r == [op |-> "update", pc |-> "save", product |-> g,
                           copy |-> [cached[g] EXCEPT !.stock = n]]
      <4>1. r \in RowCall
        BY <3>1 DEF RowCall, StockMade, StockTypeOK, ProductRow
      <4> QED BY <3>1, <4>1
    <3>2. ASSUME Start(s, [op |-> "update", pc |-> "fill", product |-> g,
                           copy |-> product[g]])
          PROVE  \E r \in RowCall : Start(s, r)
      <4> DEFINE r == [op |-> "update", pc |-> "fill", product |-> g, copy |-> product[g]]
      <4>1. r \in RowCall
        BY DEF RowCall, StockMade, StockTypeOK
      <4> QED BY <3>2, <4>1
    <3> QED BY <1>6, <3>1, <3>2 DEF UpdateProduct
  <2>3. PICK r \in RowCall : Start(s, r)
    BY <2>2
  <2>4. r # Idle
    BY DEF RowCall, Idle
  <2> QED BY <2>1, <2>3, <2>4, StartMade DEF CallMade
<1>7. ASSUME NEW g \in Goods, DeleteProduct(s, g)
      PROVE  StockMade' /\ SlotStep(s) /\ Blamed
  <2>1. PICK bulk \in BOOLEAN :
          Start(s, [op |-> "delete", pc |-> "softDelete", product |-> g, bulk |-> bulk])
    BY <1>7 DEF DeleteProduct
  <2> DEFINE r == [op |-> "delete", pc |-> "softDelete", product |-> g, bulk |-> bulk]
  <2>2. r \in DeleteCall /\ r # Idle
    BY DEF DeleteCall, Idle
  <2>3. UNCHANGED <<product, reservation, cached, workload>> /\ Blamed
    BY <1>7, NoMarksTyped DEF DeleteProduct, Blamed
  <2> HIDE DEF r
  <2> QED BY <2>1, <2>2, <2>3, StartMade DEF CallMade, r
<1> QED BY <1>1, <1>2, <1>3, <1>4, <1>5, <1>6, <1>7 DEF StockRequest

LEMMA CallAt ==
  ASSUME StockMade, NEW s \in AllSlots
  PROVE  /\ \A pc \in {"find", "sum", "insert"} :
              At(s, "reserve", pc) => stockCall[s] \in ReserveCall
         /\ At(s, "reserve", "renew") => stockCall[s] \in RenewCall
         /\ \A pc : At(s, "release", pc) => stockCall[s] \in ReleaseCall
         /\ \A pc : At(s, "confirm", pc) => stockCall[s] \in ConfirmCall
         /\ \A op \in {"updateStock", "update", "find"} :
              \A pc : At(s, op, pc) => stockCall[s] \in RowCall
         /\ \A pc : At(s, "delete", pc) => stockCall[s] \in DeleteCall
<1> DEFINE k == stockCall[s]
<1>1. CallMade(k)
  BY DEF StockMade
<1>2. /\ k \in ReserveCall => k.op = "reserve" /\ k.pc \in {"find", "sum", "insert"}
      /\ k \in RenewCall => k.op = "reserve" /\ k.pc = "renew"
      /\ k \in ReleaseCall => k.op = "release"
      /\ k \in ConfirmCall => k.op = "confirm"
      /\ k \in RowCall => k.op \in {"updateStock", "update", "find"}
      /\ k \in DeleteCall => k.op = "delete"
  <2> HIDE DEF k
  <2> QED BY DEF ReserveCall, RenewCall, ReleaseCall, ConfirmCall, RowCall, DeleteCall
<1> QED BY <1>1, <1>2 DEF CallMade, At

LEMMA ConfirmTyped ==
  ASSUME NEW k \in ConfirmCall
  PROVE  /\ k.ids \in SUBSET ReservationIds /\ k.done \in SUBSET k.ids
         /\ k.copy \in [k.ids -> ProductRow] /\ k.of \in [k.ids -> Goods]
         /\ k.quantity \in [k.ids -> Quantities]
         /\ k.op = "confirm" /\ k.pc = "save"
         /\ \A i \in k.ids : /\ k.copy[i] \in ProductRow /\ k.copy[i].stock \in Nat
                            /\ k.of[i] \in Goods /\ k.quantity[i] \in Nat
<1>1. /\ k.ids \in SUBSET ReservationIds /\ k.done \in SUBSET k.ids
      /\ k.copy \in [k.ids -> ProductRow] /\ k.of \in [k.ids -> Goods]
      /\ k.quantity \in [k.ids -> Quantities]
      /\ k.op = "confirm" /\ k.pc = "save"
  BY DEF ConfirmCall
<1>2. \A i \in k.ids : k.copy[i] \in ProductRow /\ k.of[i] \in Goods /\ k.quantity[i] \in Quantities
  BY <1>1
<1> QED BY <1>1, <1>2, MaxStockAssumption DEF ProductRow, Quantities

(* A call that goes on, or returns.                                         *)
LEMMA StepMadeBy ==
  ASSUME StockMade, NEW s \in AllSlots, s \in Busy, NEW r, CallMade(r), Continue(s, r),
         product' \in [Goods -> ProductRow],
         reservation' \in [ReservationIds -> ReservationRow \cup {NoRow}],
         cached' \in [Goods -> ProductRow \cup {NoRow}],
         workload' = workload, Blamed
  PROVE  StockMade' /\ SlotStep(s) /\ Blamed
BY MadeNext DEF Continue

LEMMA ReturnMade ==
  ASSUME StockMade, NEW s \in AllSlots, s \in Busy, Return(s),
         product' \in [Goods -> ProductRow],
         reservation' \in [ReservationIds -> ReservationRow \cup {NoRow}],
         cached' \in [Goods -> ProductRow \cup {NoRow}],
         workload' = workload, Blamed
  PROVE  StockMade' /\ SlotStep(s) /\ Blamed
BY MadeNext DEF Return, CallMade

LEMMA ReservingMade ==
  ASSUME StockMade, NEW s \in AllSlots,
         FindReservation(s) \/ RenewReservation(s) \/ SumReserved(s) \/ InsertReservation(s)
  PROVE  StockMade' /\ SlotStep(s) /\ Blamed
<1> DEFINE k == stockCall[s]
<1>1. CASE FindReservation(s)
  <2>1. s \in Busy /\ k \in ReserveCall
    BY <1>1, CallAt DEF FindReservation, At, Busy
  <2>2. UNCHANGED <<product, reservation, cached, workload>> /\ Blamed
    BY <1>1, NoMarksTyped DEF FindReservation, Blamed
  <2>3. PICK r : CallMade(r) /\ Continue(s, r)
    <3>1. ASSUME NEW id \in ReservationsOf(k.product, k.cart)
          PROVE  CallMade([op |-> "reserve", pc |-> "renew", ids |-> {id},
                           copy |-> reservation[id], quantity |-> k.quantity])
      <4>1. id \in ReservationIds /\ reservation[id] \in ReservationRow
        BY DEF ReservationsOf, RowsOf, Rows, StockMade, StockTypeOK
      <4>2. k.quantity \in Quantities
        BY <2>1 DEF ReserveCall
      <4> HIDE DEF k
      <4> QED BY <4>1, <4>2 DEF CallMade, RenewCall
    <3>2. CallMade([k EXCEPT !.pc = "sum"])
      <4> HIDE DEF k
      <4> QED BY <2>1 DEF ReserveCall, CallMade
    <3> QED BY <1>1, <3>1, <3>2 DEF FindReservation
  <2> QED BY <2>1, <2>2, <2>3, StepMadeBy DEF StockMade, StockTypeOK
<1>2. CASE RenewReservation(s)
  <2>1. s \in Busy /\ k \in RenewCall
    BY <1>2, CallAt DEF RenewReservation, At, Busy
  <2>2. k.copy \in ReservationRow /\ k.copy.product \in Goods /\ k.quantity \in Quantities
    BY <2>1 DEF RenewCall, ReservationRow
  <2>3. UNCHANGED <<product, cached, workload>> /\ Return(s) /\ Blamed
    BY <1>2, <2>2, NoMarksTyped DEF RenewReservation, Blamed, Faults
  <2> DEFINE row == [k.copy EXCEPT !.quantity = k.quantity, !.fresh = TRUE]
  <2>4. row \in ReservationRow
    <3> HIDE DEF k
    <3> QED BY <2>2 DEF ReservationRow
  <2>5. reservation' = [id \in ReservationIds |->
                              IF id \in k.ids THEN row ELSE reservation[id]]
    BY <1>2 DEF RenewReservation
  <2> HIDE DEF row
  <2>6. reservation' \in [ReservationIds -> ReservationRow \cup {NoRow}]
    BY <2>4, <2>5 DEF StockMade, StockTypeOK
  <2> QED BY <2>1, <2>3, <2>6, ReturnMade DEF StockMade, StockTypeOK
<1>3. CASE SumReserved(s)
  <2>1. s \in Busy /\ k \in ReserveCall
    BY <1>3, CallAt DEF SumReserved, At, Busy
  <2>2. UNCHANGED <<product, reservation, cached, workload>> /\ Blamed
    BY <1>3, NoMarksTyped DEF SumReserved, Blamed
  <2>3. CallMade([k EXCEPT !.pc = "insert"])
    <3> HIDE DEF k
    <3> QED BY <2>1 DEF ReserveCall, CallMade
  <2>4. Return(s) \/ Continue(s, [k EXCEPT !.pc = "insert"])
    BY <1>3 DEF SumReserved
  <2> QED BY <2>1, <2>2, <2>3, <2>4, StepMadeBy, ReturnMade DEF StockMade, StockTypeOK
<1>4. CASE InsertReservation(s)
  <2>1. s \in Busy /\ k \in ReserveCall
    BY <1>4, CallAt DEF InsertReservation, At, Busy
  <2>2. UNCHANGED <<product, cached, workload>> /\ Return(s) /\ Blamed
    BY <1>4, NoMarksTyped DEF InsertReservation, Blamed
  <2> DEFINE id == CHOOSE i \in UnusedIds : TRUE
             row == [product |-> k.product, cart |-> k.cart,
                     quantity |-> k.quantity, fresh |-> TRUE]
  <2>3. row \in ReservationRow
    <3> HIDE DEF k
    <3> QED BY <2>1 DEF ReserveCall, ReservationRow
  <2>4. reservation' = [reservation EXCEPT ![id] = row]
    BY <1>4 DEF InsertReservation
  <2> HIDE DEF row, id
  <2>5. reservation' \in [ReservationIds -> ReservationRow \cup {NoRow}]
    BY <2>3, <2>4 DEF StockMade, StockTypeOK
  <2> QED BY <2>1, <2>2, <2>5, ReturnMade DEF StockMade, StockTypeOK
<1> QED BY <1>1, <1>2, <1>3, <1>4

LEMMA RemovingMade ==
  ASSUME StockMade, NEW s \in AllSlots, RemoveFound(s) \/ RemoveConfirmed(s)
  PROVE  StockMade' /\ SlotStep(s) /\ Blamed
<1>1. s \in Busy
  BY DEF RemoveFound, RemoveConfirmed, At, Busy
<1>2. UNCHANGED <<product, cached, workload>> /\ Return(s) /\ Blamed
  BY NoMarksTyped DEF RemoveFound, RemoveConfirmed, Blamed
<1>3. reservation' = [id \in ReservationIds |->
         IF id \in stockCall[s].ids THEN NoRow ELSE reservation[id]]
  BY DEF RemoveFound, RemoveConfirmed
<1>4. reservation' \in [ReservationIds -> ReservationRow \cup {NoRow}]
  BY <1>3 DEF StockMade, StockTypeOK
<1> QED BY <1>1, <1>2, <1>4, ReturnMade DEF StockMade, StockTypeOK

LEMMA MinusTyped ==
  ASSUME NEW a \in 0..MaxStock, NEW b \in Nat PROVE Minus(a, b) \in 0..MaxStock
BY MaxStockAssumption DEF Minus

LEMMA ConfirmingMade ==
  ASSUME StockMade, NEW s \in AllSlots, DecrementStock(s) \/ ConfirmThrows(s)
  PROVE  StockMade' /\ SlotStep(s) /\ Blamed
<1> DEFINE k == stockCall[s]
<1>1. s \in Busy /\ k \in ConfirmCall
  BY CallAt DEF DecrementStock, ConfirmThrows, At, Busy
<1>2. CASE DecrementStock(s)
  <2> DEFINE row(id) == [stock |-> Minus(k.copy[id].stock, k.quantity[id]),
                         deleted |-> FALSE]
  <2>1. PICK id \in k.ids \ k.done :
          /\ product' = [product EXCEPT ![k.of[id]] = row(id)]
          /\ Continue(s, [k EXCEPT !.done = @ \cup {id}])
          /\ UNCHANGED <<reservation, cached, workload>>
          /\ Blame(Mark(k.of[id], {"kept"}))
    BY <1>2 DEF DecrementStock
  <2> HIDE DEF k
  <2>2. k.copy[id] \in ProductRow /\ k.of[id] \in Goods /\ k.quantity[id] \in Quantities
    BY <1>1, ConfirmTyped
  <2>3. row(id) \in ProductRow
    <3>1. k.copy[id].stock \in 0..MaxStock /\ k.quantity[id] \in Nat
      BY <2>2, MaxStockAssumption DEF ProductRow, Quantities
    <3>2. Minus(k.copy[id].stock, k.quantity[id]) \in 0..MaxStock
      BY <3>1, MinusTyped
    <3> QED BY <3>2 DEF ProductRow
  <2>4. CallMade([k EXCEPT !.done = @ \cup {id}])
    BY <1>1, <2>1 DEF ConfirmCall, CallMade
  <2>5. Blamed
    BY <2>1, <2>2, NoMarksTyped DEF Blamed, Faults
  <2> DEFINE new == row(id)
  <2>6. product' = [product EXCEPT ![k.of[id]] = new] /\ new \in ProductRow
    BY <2>1, <2>3
  <2> HIDE DEF new
  <2>7. product' \in [Goods -> ProductRow]
    BY <2>6 DEF StockMade, StockTypeOK
  <2> QED BY <1>1, <2>1, <2>4, <2>5, <2>7, StepMadeBy DEF StockMade, StockTypeOK
<1>3. CASE ConfirmThrows(s)
  <2> DEFINE m == [g \in Goods |->
       IF \E id \in stockCall[s].done : stockCall[s].of[id] = g
       THEN {"late"} ELSE {}]
  <2>1. m \in [Goods -> SUBSET Faults] /\ Blame(m)
    BY <1>3 DEF ConfirmThrows, Faults
  <2>2. UNCHANGED <<product, reservation, cached, workload>> /\ Return(s)
    BY <1>3 DEF ConfirmThrows
  <2>3. Blamed
    BY <2>1 DEF Blamed
  <2> QED BY <1>1, <2>2, <2>3, ReturnMade DEF StockMade, StockTypeOK
<1> QED BY <1>2, <1>3

LEMMA ChangingMade ==
  ASSUME StockMade, NEW s \in AllSlots,
         SaveProduct(s) \/ Invalidate(s) \/ SoftDelete(s)
  PROVE  StockMade' /\ SlotStep(s) /\ Blamed
<1> DEFINE k == stockCall[s]
<1>1. CASE SaveProduct(s)
  <2>1. s \in Busy /\ k \in RowCall
    BY <1>1, CallAt DEF SaveProduct, At, Busy
  <2>2. k.product \in Goods /\ k.copy \in ProductRow
    BY <2>1 DEF RowCall
  <2>3. /\ product' = [product EXCEPT ![k.product] = k.copy]
        /\ Continue(s, [k EXCEPT !.pc = "invalidate"])
        /\ UNCHANGED <<reservation, cached, workload>>
    BY <1>1 DEF SaveProduct
  <2>4. Blamed
    BY <1>1, <2>2, NoMarksTyped DEF SaveProduct, Blamed, Faults
  <2> HIDE DEF k
  <2>5. CallMade([k EXCEPT !.pc = "invalidate"])
    BY <2>1 DEF RowCall, CallMade
  <2>6. product' \in [Goods -> ProductRow]
    BY <2>2, <2>3 DEF StockMade, StockTypeOK
  <2> QED BY <2>1, <2>3, <2>4, <2>5, <2>6, StepMadeBy DEF StockMade, StockTypeOK
<1>2. CASE Invalidate(s)
  <2>1. s \in Busy /\ (k \in RowCall \/ k \in DeleteCall)
    BY <1>2, CallAt DEF Invalidate, At, Busy
  <2>2. /\ cached' = [cached EXCEPT ![k.product] = NoRow]
        /\ Return(s) \/ (k.op = "update" /\ Continue(s, [k EXCEPT !.pc = "read"]))
        /\ UNCHANGED <<product, reservation, workload>>
    BY <1>2 DEF Invalidate
  <2>3. Blamed
    BY <1>2, NoMarksTyped DEF Invalidate, Blamed
  <2> HIDE DEF k
  <2>4. CallMade([k EXCEPT !.pc = "read"]) \/ k.op # "update"
    BY <2>1 DEF RowCall, DeleteCall, CallMade
  <2>5. cached' \in [Goods -> ProductRow \cup {NoRow}]
    BY <2>2 DEF StockMade, StockTypeOK
  <2> QED BY <2>1, <2>2, <2>3, <2>4, <2>5, StepMadeBy, ReturnMade DEF StockMade, StockTypeOK
<1>3. CASE SoftDelete(s)
  <2>1. s \in Busy /\ k \in DeleteCall
    BY <1>3, CallAt DEF SoftDelete, At, Busy
  <2>2. k.product \in Goods
    BY <2>1 DEF DeleteCall
  <2>3. /\ product' = [product EXCEPT ![k.product].deleted = TRUE]
        /\ Return(s) \/ Continue(s, [k EXCEPT !.pc = "invalidate"])
        /\ UNCHANGED <<reservation, cached, workload>>
    BY <1>3 DEF SoftDelete
  <2>4. Blamed
    BY <1>3, <2>2, NoMarksTyped DEF SoftDelete, Blamed, Faults
  <2> HIDE DEF k
  <2>5. CallMade([k EXCEPT !.pc = "invalidate"])
    BY <2>1 DEF DeleteCall, CallMade
  <2>6. product' \in [Goods -> ProductRow]
    BY <2>2, <2>3 DEF StockMade, StockTypeOK, ProductRow
  <2> QED BY <2>1, <2>3, <2>4, <2>5, <2>6, StepMadeBy, ReturnMade DEF StockMade, StockTypeOK
<1> QED BY <1>1, <1>2, <1>3

LEMMA ReadingMade ==
  ASSUME StockMade, NEW s \in AllSlots, ReadAgain(s) \/ FillCache(s)
  PROVE  StockMade' /\ SlotStep(s) /\ Blamed
<1> DEFINE k == stockCall[s]
<1>1. s \in Busy /\ k \in RowCall
  BY CallAt DEF ReadAgain, FillCache, At, Busy
<1>2. k.product \in Goods /\ k.copy \in ProductRow
  BY <1>1 DEF RowCall
<1>3. CASE ReadAgain(s)
  <2> DEFINE r == [op |-> "find", pc |-> "fill", product |-> k.product,
                   copy |-> product[k.product]]
  <2>1. /\ Return(s) \/ Continue(s, r)
        /\ UNCHANGED <<product, reservation, cached, workload>>
    BY <1>3 DEF ReadAgain
  <2>2. Blamed
    BY <1>3, NoMarksTyped DEF ReadAgain, Blamed
  <2>3. CallMade(r)
    <3> HIDE DEF k
    <3> QED BY <1>2 DEF CallMade, RowCall, StockMade, StockTypeOK
  <2> HIDE DEF r
  <2> QED BY <1>1, <2>1, <2>2, <2>3, StepMadeBy, ReturnMade DEF StockMade, StockTypeOK
<1>4. CASE FillCache(s)
  <2>1. /\ cached' = [cached EXCEPT ![k.product] = k.copy]
        /\ UNCHANGED <<product, reservation, workload>>
        /\ Return(s) \/ (k.op = "update" /\ \E n \in {k.copy.stock} \cup 0..MaxStock :
                   Continue(s, [k EXCEPT !.pc = "save", !.copy.stock = n]))
    BY <1>4 DEF FillCache
  <2>2. Blamed
    BY <1>4, NoMarksTyped DEF FillCache, Blamed
  <2> HIDE DEF k
  <2>3. ASSUME NEW n \in {k.copy.stock} \cup 0..MaxStock
        PROVE  CallMade([k EXCEPT !.pc = "save", !.copy.stock = n])
    <3>1. n \in 0..MaxStock
      BY <1>2 DEF ProductRow
    <3>2. [k.copy EXCEPT !.stock = n] \in ProductRow
      BY <1>2, <3>1 DEF ProductRow
    <3>3. [k EXCEPT !.pc = "save", !.copy.stock = n]
            = [k EXCEPT !.pc = "save", !.copy = [k.copy EXCEPT !.stock = n]]
      BY <1>1 DEF RowCall
    <3> QED BY <1>1, <3>2, <3>3 DEF RowCall, CallMade
  <2>4. cached' \in [Goods -> ProductRow \cup {NoRow}]
    BY <1>2, <2>1 DEF StockMade, StockTypeOK
  <2> QED BY <1>1, <2>1, <2>2, <2>3, <2>4, StepMadeBy, ReturnMade DEF StockMade, StockTypeOK
<1> QED BY <1>3, <1>4

LEMMA StepMade ==
  ASSUME StockMade, NEW s \in AllSlots, StockStep(s)
  PROVE  StockMade' /\ SlotStep(s) /\ Blamed
BY ReservingMade, RemovingMade, ConfirmingMade, ChangingMade, ReadingMade DEF StockStep

(* The clock touches no call.                                               *)
LEMMA ClockMade ==
  ASSUME StockMade,
         (\E id \in ReservationIds : Expire(id)) \/ (\E g \in Goods : ExpireCached(g))
  PROVE  StockMade' /\ UNCHANGED <<stockCall, product>> /\ Blamed
<1>1. UNCHANGED <<stockCall, product, workload>> /\ Blamed
  BY NoMarksTyped DEF Expire, ExpireCached, Blamed
<1>2. fault' \in [Goods -> SUBSET Faults]
  BY <1>1, BlameTyped DEF StockMade, Blamed
<1>3. ASSUME NEW id \in ReservationIds, Expire(id)
      PROVE  cached' = cached /\ reservation' \in [ReservationIds -> ReservationRow \cup {NoRow}]
  <2>1. reservation[id] \in ReservationRow
    BY <1>3 DEF Expire, Rows, StockMade, StockTypeOK
  <2>2. [reservation[id] EXCEPT !.fresh = FALSE] \in ReservationRow
    BY <2>1 DEF ReservationRow
  <2>3. reservation' = [reservation EXCEPT ![id] = [reservation[id] EXCEPT !.fresh = FALSE]]
    BY <1>3 DEF Expire
  <2> QED BY <1>3, <2>2, <2>3 DEF Expire, StockMade, StockTypeOK
<1>4. ASSUME NEW g \in Goods, ExpireCached(g)
      PROVE  reservation' = reservation /\ cached' \in [Goods -> ProductRow \cup {NoRow}]
  BY <1>4 DEF ExpireCached, StockMade, StockTypeOK
<1>5. /\ reservation' \in [ReservationIds -> ReservationRow \cup {NoRow}]
      /\ cached' \in [Goods -> ProductRow \cup {NoRow}]
  BY <1>3, <1>4 DEF StockMade, StockTypeOK
<1> QED BY <1>1, <1>2, <1>5 DEF StockMade, StockTypeOK, CallMade

LEMMA CleanupMade ==
  ASSUME StockMade, CleanupExpired
  PROVE  StockMade' /\ SlotStep(CronSlot) /\ Blamed
<1> DEFINE r == [op |-> "release", pc |-> "remove", ids |-> Expired]
<1>1. r \in ReleaseCall /\ r # Idle
  BY DEF ReleaseCall, Expired, Rows, Idle
<1>2. Start(CronSlot, r) /\ UNCHANGED <<product, reservation, cached, workload>> /\ Blamed
  BY NoMarksTyped DEF CleanupExpired, Blamed
<1>3. CronSlot \in AllSlots
  BY DEF AllSlots
<1> HIDE DEF r
<1> QED BY <1>1, <1>2, <1>3, StartMade DEF CallMade

LEMMA NextMade ==
  ASSUME StockMade, StockNext
  PROVE  /\ StockMade' /\ Blamed
         /\ (\E s \in AllSlots : SlotStep(s)) \/ UNCHANGED <<stockCall, product>>
<1>1. \A s \in workload.slots : s \in AllSlots
  BY WorkloadAssumption DEF StockMade, StockTypeOK, AllSlots
<1>2. CronSlot \in AllSlots
  BY DEF AllSlots
<1> QED BY <1>1, <1>2, StepMade, RequestMade, CleanupMade, ClockMade DEF StockNext

-----------------------------------------------------------------------------
(* What holds of one product.                                               *)
Quiet(g) == Busy = {} /\ ~Oversold(g) /\ ~Stale(g)
Single(g) == "overlap" \notin fault[g] => \A s, t \in Busy : s = t

(* What a confirmation may still take of g: what was fresh when it began.   *)
Bound(k, g) == {id \in Rows : /\ reservation[id].product = g
                              /\ reservation[id].fresh \/ id \in k.ids}
(* What a request has read and counts on: the stock it checked is the row's, *)
(* what it inserts still fits, and a confirmation's copies leave enough for  *)
(* what it has not taken yet.                                               *)
SellCall(s, g) ==
  /\ \A pc \in {"find", "sum", "insert"} :
       At(s, "reserve", pc) /\ stockCall[s].product = g
         => stockCall[s].stock = product[g].stock
  /\ At(s, "reserve", "insert") /\ stockCall[s].product = g
       => Owed(g) + stockCall[s].quantity <= product[g].stock
  /\ At(s, "confirm", "save")
       => \A id \in stockCall[s].ids :
            /\ id \in Rows
            /\ reservation[id].product = stockCall[s].of[id]
            /\ reservation[id].quantity = stockCall[s].quantity[id]
            /\ stockCall[s].of[id] = g
                 => Claimed(reservation, Bound(stockCall[s], g)) <= stockCall[s].copy[id].stock
Sells(g) == Owed(g) <= product[g].stock /\ \A s \in Busy : SellCall(s, g)
SellClean(g) == fault[g] \cap {"overlap", "renewed", "late", "overwritten"} = {}

(* A copy that will be saved or cached agrees with the row, and a request   *)
(* that made the cache stale is about to drop it.                           *)
CacheCall(s, g) ==
  /\ \A op \in {"updateStock", "update"} :
       At(s, op, "save") /\ stockCall[s].product = g
         => stockCall[s].copy.deleted = product[g].deleted
  /\ \A op \in {"find", "update"} :
       At(s, op, "fill") /\ stockCall[s].product = g => stockCall[s].copy = product[g]
  /\ At(s, "confirm", "save")
       => \A id \in stockCall[s].ids : stockCall[s].of[id] = g
            => stockCall[s].copy[id].deleted = product[g].deleted
  /\ Stale(g) => /\ stockCall[s].product = g
                 /\ \E op \in {"updateStock", "update", "delete"} : At(s, op, "invalidate")
Caches(g) == (Stale(g) => Busy # {}) /\ \A s \in Busy : CacheCall(s, g)
CacheClean(g) == fault[g] \cap {"overlap", "kept"} = {}

GoodInv(g) == Single(g) /\ (SellClean(g) => Sells(g)) /\ (CacheClean(g) => Caches(g))

LEMMA OwedTyped ==
  ASSUME StockMade, NEW CONSTANT g \in Goods
  PROVE  Owed(g) \in Nat /\ product[g].stock \in Nat
<1> DEFINE q == [id \in OwedIds(g) |-> reservation[id].quantity]
<1>1. IsFiniteSet(OwedIds(g)) /\ \A id \in OwedIds(g) : reservation[id] \in ReservationRow
  BY ReservationAssumption, FS_Subset DEF OwedIds, Rows, StockMade, StockTypeOK
<1>2. q \in [OwedIds(g) -> Nat]
  BY <1>1, MaxStockAssumption DEF ReservationRow, Quantities
<1>3. Owed(g) = SumOf(q, OwedIds(g))
  BY OwedIs, ClaimedIs
<1>4. SumOf(q, OwedIds(g)) \in Nat
  <2> HIDE DEF q
  <2> QED BY <1>1, <1>2, SumType
<1>5. product[g].stock \in Nat
  BY MaxStockAssumption DEF StockMade, StockTypeOK, ProductRow
<1> QED BY <1>3, <1>4, <1>5

LEMMA OwedTypedNext ==
  ASSUME NEW CONSTANT g \in Goods
  PROVE  StockMade' => Owed(g)' \in Nat
<1>1. StockMade => Owed(g) \in Nat
  BY OwedTyped
<1>2. (StockMade => Owed(g) \in Nat)'
  BY <1>1, PTL
<1> QED BY <1>2

LEMMA QuietIsGood ==
  ASSUME NEW CONSTANT g \in Goods
  PROVE  StockMade /\ Quiet(g) => GoodInv(g)
<1> SUFFICES ASSUME StockMade, Quiet(g) PROVE GoodInv(g)
  OBVIOUS
<1>1. Owed(g) <= product[g].stock
  BY OwedTyped DEF Quiet, Oversold
<1> QED BY <1>1 DEF Quiet, GoodInv, Single, Sells, Caches

LEMMA QuietIsGoodNext ==
  ASSUME NEW CONSTANT g \in Goods
  PROVE  StockMade' /\ Quiet(g)' => GoodInv(g)'
<1>1. StockMade /\ Quiet(g) => GoodInv(g)
  BY QuietIsGood
<1>2. (StockMade /\ Quiet(g) => GoodInv(g))'
  BY <1>1, PTL
<1> QED BY <1>2

LEMMA BlameFact ==
  ASSUME NEW CONSTANT g \in Goods, NEW marks \in [Goods -> SUBSET Faults], Blame(marks),
         ~Quiet(g)'
  PROVE  fault'[g] = fault[g] \cup marks[g] \cup Overlap'
BY DEF Blame, Quiet

LEMMA BlamedFact ==
  ASSUME NEW CONSTANT g \in Goods, Blamed, ~Quiet(g)'
  PROVE  fault[g] \cup Overlap' \subseteq fault'[g]
BY BlameFact DEF Blamed

LEMMA StepAlone ==
  ASSUME StockMade, StockMade', NEW CONSTANT g \in Goods, Single(g),
         NEW CONSTANT s \in AllSlots, SlotStep(s), Blamed, ~Quiet(g)',
         "overlap" \notin fault'[g]
  PROVE  Busy \subseteq {s} /\ Busy' \subseteq {s}
<1>1. "overlap" \notin fault[g] /\ Overlap' = {}
  BY BlamedFact DEF Overlap
<1>2. \A t, u \in Busy' : t = u
  BY <1>1 DEF Overlap
<1>3. \A t, u \in Busy : t = u
  BY <1>1 DEF Single
<1>4. \A t \in AllSlots : t # s => stockCall'[t] = stockCall[t]
  BY DEF SlotStep, StockMade, StockTypeOK
<1>5. \A t \in AllSlots \ {s} : t \in Busy <=> t \in Busy'
  BY <1>4 DEF Busy
<1>6. s \in Busy \/ s \in Busy'
  BY DEF SlotStep, Busy
<1> QED BY <1>2, <1>3, <1>5, <1>6 DEF Busy

(* The reservations a confirmation has already taken off the stock.         *)
Done(k) == IF "done" \in DOMAIN k THEN k.done ELSE {}
LEMMA DoneIs ==
  /\ \A k \in ConfirmCall : Done(k) = k.done
  /\ \A k \in ReserveCall \cup RenewCall \cup ReleaseCall \cup RowCall \cup DeleteCall :
       Done(k) = {}
  /\ Done(Idle) = {}
BY DEF Done, ConfirmCall, ReserveCall, RenewCall, ReleaseCall, RowCall, DeleteCall, Idle

LEMMA TakenIs ==
  ASSUME NEW CONSTANT s \in AllSlots
  PROVE  Busy \subseteq {s} => TakenIds = Done(stockCall[s])
<1>1. CASE s \in Busy
  BY <1>1 DEF TakenIds, Done
<1>2. CASE s \notin Busy
  <2>1. stockCall[s] = Idle
    BY <1>2 DEF Busy
  <2> QED BY <1>2, <2>1, DoneIs DEF TakenIds
<1> QED BY <1>1, <1>2

LEMMA TakenNext ==
  ASSUME NEW CONSTANT s \in AllSlots
  PROVE  Busy' \subseteq {s} => TakenIds' = Done(stockCall'[s])
<1>1. CASE s \in Busy'
  BY <1>1 DEF TakenIds, Done
<1>2. CASE s \notin Busy'
  <2>1. stockCall'[s] = Idle
    BY <1>2 DEF Busy
  <2> QED BY <1>2, <2>1, DoneIs DEF TakenIds
<1> QED BY <1>1, <1>2

LEMMA OwedFalls ==
  ASSUME StockMade, StockMade', NEW CONSTANT g \in Goods,
         OwedIds(g)' \subseteq OwedIds(g),
         \A id \in OwedIds(g)' : reservation'[id].quantity = reservation[id].quantity
  PROVE  Owed(g)' <= Owed(g)
<1> DEFINE q == [id \in OwedIds(g) |-> reservation[id].quantity]
           r == [id \in OwedIds(g)' |-> reservation'[id].quantity]
<1>1. IsFiniteSet(OwedIds(g)) /\ \A id \in OwedIds(g) : reservation[id] \in ReservationRow
  BY ReservationAssumption, FS_Subset DEF OwedIds, Rows, StockMade, StockTypeOK
<1>2. IsFiniteSet(OwedIds(g)')
  BY <1>1, FS_Subset
<1>3. q \in [OwedIds(g) -> Nat]
  BY <1>1, MaxStockAssumption DEF ReservationRow, Quantities
<1>4. Owed(g) = SumOf(q, OwedIds(g)) /\ Owed(g)' = SumOf(r, OwedIds(g)')
  BY OwedIs, OwedNext, ClaimedIs
<1>5. \A id \in OwedIds(g)' : r[id] = q[id]
  OBVIOUS
<1> HIDE DEF q, r
<1>6. SumOf(r, OwedIds(g)') = SumOf(q, OwedIds(g)')
  BY <1>2, <1>5, SumSame
<1>7. SumOf(q, OwedIds(g)') <= SumOf(q, OwedIds(g))
  BY <1>1, <1>3, SumPart
<1> QED BY <1>4, <1>6, <1>7

-----------------------------------------------------------------------------
(* Steps that leave the reservations alone and no stock lower.              *)
Plain(k) == k = Idle \/ k.op \notin {"reserve", "confirm"} \/ k.pc = "renew"
NotConfirm(k) == k = Idle \/ k.op # "confirm"

LEMMA NothingDone ==
  ASSUME NEW k, CallMade(k)
  PROVE  /\ NotConfirm(k) => Done(k) = {}
         /\ Plain(k) => NotConfirm(k)
<1>1. /\ k \in ConfirmCall => k.op = "confirm" /\ k # Idle /\ k.pc = "save"
      /\ k # Idle /\ k.op = "confirm" => k \in ConfirmCall
  BY DEF CallMade, ConfirmCall, ReserveCall, RenewCall, ReleaseCall, RowCall, DeleteCall, Idle
<1> QED BY <1>1, DoneIs DEF CallMade, NotConfirm, Plain

LEMMA OwedSame ==
  ASSUME NEW CONSTANT g \in Goods, UNCHANGED reservation, TakenIds' = TakenIds
  PROVE  Owed(g)' = Owed(g)
<1>1. OwedIds(g)' = OwedIds(g)
  BY DEF OwedIds, Rows
<1> QED BY <1>1, OwedIs, OwedNext

LEMMA PlainSells ==
  ASSUME StockMade, StockMade', NEW CONSTANT g \in Goods, NEW CONSTANT s \in AllSlots,
         Busy \subseteq {s}, Busy' \subseteq {s}, Sells(g), UNCHANGED reservation,
         product[g].stock <= product'[g].stock,
         NotConfirm(stockCall[s]), Plain(stockCall'[s])
  PROVE  Sells(g)'
<1>1. TakenIds = {} /\ TakenIds' = {}
  BY TakenIs, TakenNext, NothingDone DEF StockMade, CallMade
<1>2. Owed(g)' <= product'[g].stock
  <2>1. Owed(g)' = Owed(g)
    BY <1>1, OwedSame
  <2>2. /\ Owed(g) \in Nat /\ product[g].stock \in Nat
        /\ product'[g].stock \in Nat
    BY OwedTyped, MaxStockAssumption DEF StockMade, StockTypeOK, ProductRow
  <2> QED BY <2>1, <2>2 DEF Sells
<1>3. SellCall(s, g)'
  BY DEF Plain, SellCall, At
<1>4. ASSUME NEW t \in Busy' PROVE SellCall(t, g)'
  <2> t = s
    OBVIOUS
  <2> QED BY <1>3
<1> QED BY <1>2, <1>4 DEF Sells

LEMMA PlainActions ==
  ASSUME StockMade, NEW CONSTANT s \in AllSlots,
         \/ \E c \in Carts : ReleaseReservation(s, c)
         \/ \E g \in Goods, n \in 0..MaxStock : UpdateStock(s, g, n)
         \/ \E g \in Goods : FindById(s, g) \/ UpdateProduct(s, g) \/ DeleteProduct(s, g)
         \/ s = CronSlot /\ CleanupExpired
         \/ ReadAgain(s) \/ FillCache(s) \/ Invalidate(s)
  PROVE  /\ NotConfirm(stockCall[s]) /\ Plain(stockCall'[s])
         /\ UNCHANGED <<reservation, product>>
<1> USE DEF NotConfirm, Plain
<1>1. \A r : Continue(s, r) => stockCall'[s] = r
  BY DEF Continue, StockMade, StockTypeOK
<1>2. \A r : Start(s, r) => stockCall[s] = Idle /\ stockCall'[s] = r
  BY DEF Start, StockMade, StockTypeOK
<1>3. Return(s) => stockCall'[s] = Idle
  BY DEF Return, StockMade, StockTypeOK
<1>4. ASSUME NEW c \in Carts, ReleaseReservation(s, c)
      PROVE  /\ NotConfirm(stockCall[s]) /\ Plain(stockCall'[s])
             /\ UNCHANGED <<reservation, product>>
  BY <1>4, <1>2 DEF ReleaseReservation
<1>5. ASSUME NEW g \in Goods, NEW n \in 0..MaxStock, UpdateStock(s, g, n)
      PROVE  /\ NotConfirm(stockCall[s]) /\ Plain(stockCall'[s])
             /\ UNCHANGED <<reservation, product>>
  BY <1>5, <1>2 DEF UpdateStock
<1>6. ASSUME NEW g \in Goods, FindById(s, g)
      PROVE  /\ NotConfirm(stockCall[s]) /\ Plain(stockCall'[s])
             /\ UNCHANGED <<reservation, product>>
  BY <1>6, <1>2 DEF FindById
<1>7. ASSUME NEW g \in Goods, UpdateProduct(s, g)
      PROVE  /\ NotConfirm(stockCall[s]) /\ Plain(stockCall'[s])
             /\ UNCHANGED <<reservation, product>>
  <2>1. UNCHANGED <<reservation, product>>
    BY <1>7 DEF UpdateProduct
  <2>2. PICK r : Start(s, r) /\ r.op = "update"
    <3>1. \/ \E n : Start(s, [op |-> "update", pc |-> "save", product |-> g,
                       copy |-> [cached[g] EXCEPT !.stock = n]])
          \/ Start(s, [op |-> "update", pc |-> "fill", product |-> g,
                     copy |-> product[g]])
      BY <1>7 DEF UpdateProduct
    <3>2. /\ \A n : [op |-> "update", pc |-> "save", product |-> g,
                       copy |-> [cached[g] EXCEPT !.stock = n]].op = "update"
          /\ [op |-> "update", pc |-> "fill", product |-> g,
                     copy |-> product[g]].op = "update"
      OBVIOUS
    <3> QED BY <3>1, <3>2
  <2>3. stockCall[s] = Idle /\ stockCall'[s] = r
    BY <2>2, <1>2
  <2> QED BY <2>1, <2>2, <2>3
<1>8. ASSUME NEW g \in Goods, DeleteProduct(s, g)
      PROVE  /\ NotConfirm(stockCall[s]) /\ Plain(stockCall'[s])
             /\ UNCHANGED <<reservation, product>>
  BY <1>8, <1>2 DEF DeleteProduct
<1>9. ASSUME s = CronSlot, CleanupExpired
      PROVE  /\ NotConfirm(stockCall[s]) /\ Plain(stockCall'[s])
             /\ UNCHANGED <<reservation, product>>
  BY <1>9, <1>2 DEF CleanupExpired
<1>10. ASSUME ReadAgain(s)
      PROVE  /\ NotConfirm(stockCall[s]) /\ Plain(stockCall'[s])
             /\ UNCHANGED <<reservation, product>>
  BY <1>10, <1>1, <1>3 DEF ReadAgain, At
<1>11. ASSUME FillCache(s)
      PROVE  /\ NotConfirm(stockCall[s]) /\ Plain(stockCall'[s])
             /\ UNCHANGED <<reservation, product>>
  <2>1. stockCall[s].op \in {"find", "update"} /\ stockCall[s] \in RowCall
    BY <1>11, CallAt DEF FillCache, At
  <2>2. UNCHANGED <<reservation, product>>
    BY <1>11 DEF FillCache
  <2>3. Return(s) \/ \E n : stockCall[s].op = "update" /\
                      Continue(s, [stockCall[s] EXCEPT !.pc = "save", !.copy.stock = n])
    BY <1>11 DEF FillCache
  <2>4. \A n : [stockCall[s] EXCEPT !.pc = "save", !.copy.stock = n].op = stockCall[s].op
    BY <2>1 DEF RowCall
  <2> QED BY <2>1, <2>2, <2>3, <2>4, <1>1, <1>3
<1>12. ASSUME Invalidate(s)
      PROVE  /\ NotConfirm(stockCall[s]) /\ Plain(stockCall'[s])
             /\ UNCHANGED <<reservation, product>>
  <2>1. /\ stockCall[s].op \in {"updateStock", "update", "delete"}
        /\ stockCall[s] \in RowCall \/ stockCall[s] \in DeleteCall
    BY <1>12, CallAt DEF Invalidate, At
  <2>2. UNCHANGED <<reservation, product>>
    BY <1>12 DEF Invalidate
  <2>3. Return(s) \/ Continue(s, [stockCall[s] EXCEPT !.pc = "read"])
    BY <1>12 DEF Invalidate
  <2>4. [stockCall[s] EXCEPT !.pc = "read"].op = stockCall[s].op
    BY <2>1 DEF RowCall, DeleteCall
  <2> QED BY <2>1, <2>2, <2>3, <2>4, <1>1, <1>3
<1> QED BY <1>4, <1>5, <1>6, <1>7, <1>8, <1>9, <1>10, <1>11, <1>12

LEMMA CallNow ==
  ASSUME StockMade, NEW CONSTANT s \in AllSlots
  PROVE  /\ \A r : Continue(s, r) => stockCall'[s] = r
         /\ \A r : Start(s, r) => stockCall[s] = Idle /\ stockCall'[s] = r
         /\ Return(s) => stockCall'[s] = Idle
BY DEF Continue, Start, Return, StockMade, StockTypeOK

(* A step of a call that reserves, its sum and what it promises unchanged.  *)
LEMMA QuietSells ==
  ASSUME StockMade, StockMade', NEW CONSTANT g \in Goods, NEW CONSTANT s \in AllSlots,
         Busy \subseteq {s}, Busy' \subseteq {s}, Sells(g),
         UNCHANGED <<reservation, product>>,
         Done(stockCall[s]) = {}, Done(stockCall'[s]) = {}, SellCall(s, g)'
  PROVE  Sells(g)'
<1>1. TakenIds = {} /\ TakenIds' = {}
  BY TakenIs, TakenNext
<1>2. Owed(g)' = Owed(g)
  BY <1>1, OwedSame
<1>3. ASSUME NEW t \in Busy' PROVE SellCall(t, g)'
  <2> t = s
    OBVIOUS
  <2> QED OBVIOUS
<1> QED BY <1>2, <1>3 DEF Sells

LEMMA ReserveSells ==
  ASSUME StockMade, StockMade', NEW CONSTANT g \in Goods, NEW CONSTANT s \in AllSlots,
         Busy \subseteq {s}, Busy' \subseteq {s}, Sells(g),
         \/ \E h \in Goods, c \in Carts, q \in Quantities : ReserveStock(s, h, c, q)
         \/ FindReservation(s)
  PROVE  Sells(g)'
<1>1. CASE FindReservation(s)
  <2> DEFINE k == stockCall[s]
  <2>1. At(s, "reserve", "find") /\ k \in ReserveCall /\ s \in Busy
    BY <1>1, CallAt DEF FindReservation, At, Busy
  <2>2. UNCHANGED <<reservation, product>>
    BY <1>1 DEF FindReservation
  <2>3. \/ \E id : stockCall'[s] = [op |-> "reserve", pc |-> "renew", ids |-> {id},
                           copy |-> reservation[id], quantity |-> k.quantity]
        \/ stockCall'[s] = [k EXCEPT !.pc = "sum"]
    BY <1>1, CallNow DEF FindReservation
  <2> DEFINE m == stockCall'[s]
  <2>4. \/ m.pc = "renew" /\ m.op = "reserve"
        \/ m \in ReserveCall /\ m.pc = "sum" /\ m.product = k.product /\ m.stock = k.stock
    <3> HIDE DEF k, m
    <3>1. CASE \E id : m = [op |-> "reserve", pc |-> "renew", ids |-> {id},
                           copy |-> reservation[id], quantity |-> k.quantity]
      BY <3>1
    <3>2. CASE m = [k EXCEPT !.pc = "sum"]
      BY <3>2, <2>1 DEF ReserveCall
    <3> QED BY <2>3, <3>1, <3>2 DEF k, m
  <2>5. CASE m.pc = "renew"
    <3>1. NotConfirm(k) /\ Plain(m)
      BY <2>1, <2>5 DEF NotConfirm, Plain, At
    <3>2. product[g].stock <= product'[g].stock
      BY <2>2, OwedTyped
    <3> QED BY <2>2, <3>1, <3>2, PlainSells
  <2>6. CASE m \in ReserveCall /\ m.pc = "sum" /\ m.product = k.product /\ m.stock = k.stock
    <3>1. Done(k) = {} /\ Done(m) = {}
      BY <2>1, <2>6, DoneIs
    <3>2. k.product = g => k.stock = product[g].stock
      BY <2>1 DEF Sells, SellCall
    <3>3. m.op = "reserve"
      BY <2>6 DEF ReserveCall
    <3>4. SellCall(s, g)'
      BY <2>2, <2>6, <3>2, <3>3 DEF SellCall, At
    <3> QED BY <2>2, <3>1, <3>4, QuietSells
  <2> QED BY <2>4, <2>5, <2>6
<1>2. ASSUME NEW h \in Goods, NEW c \in Carts, NEW q \in Quantities,
             ReserveStock(s, h, c, q)
      PROVE  Sells(g)'
  <2> DEFINE r == [op |-> "reserve", pc |-> "find", product |-> h, cart |-> c,
                   quantity |-> q, stock |-> product[h].stock]
  <2>1. stockCall[s] = Idle /\ stockCall'[s] = r /\ UNCHANGED <<reservation, product>>
    BY <1>2, CallNow DEF ReserveStock
  <2>2. Done(stockCall[s]) = {}
    BY <2>1, DoneIs
  <2>3. Done(r) = {}
    BY DEF Done
  <2>4. r.op = "reserve" /\ r.pc = "find" /\ r.product = h /\ r.stock = product[h].stock
    OBVIOUS
  <2> HIDE DEF r
  <2>5. SellCall(s, g)'
    BY <2>1, <2>4 DEF SellCall, At
  <2> QED BY <2>1, <2>2, <2>3, <2>5, QuietSells
<1> QED BY <1>1, <1>2

LEMMA SumSells ==
  ASSUME StockMade, StockMade', NEW CONSTANT g \in Goods, NEW CONSTANT s \in AllSlots,
         Busy \subseteq {s}, Busy' \subseteq {s}, Sells(g), SumReserved(s)
  PROVE  Sells(g)'
<1> DEFINE k == stockCall[s]
           m == stockCall'[s]
<1>1. At(s, "reserve", "sum") /\ k \in ReserveCall /\ s \in Busy
  BY CallAt DEF SumReserved, At, Busy
<1>2. UNCHANGED <<reservation, product>>
  BY DEF SumReserved
<1>3. \/ m = Idle
      \/ m = [k EXCEPT !.pc = "insert"] /\ ~(k.stock < ActiveReserved(k.product) + k.quantity)
  BY CallNow DEF SumReserved
<1>4. Done(k) = {} /\ TakenIds = {}
  BY <1>1, DoneIs, TakenIs
<1>5. CASE m = Idle
  <2>1. Done(m) = {} /\ SellCall(s, g)'
    BY <1>5, DoneIs DEF SellCall, At
  <2> QED BY <1>2, <1>4, <2>1, QuietSells
<1>6. CASE m = [k EXCEPT !.pc = "insert"] /\ ~(k.stock < ActiveReserved(k.product) + k.quantity)
  <2>1. /\ m \in ReserveCall /\ m.pc = "insert" /\ m.op = "reserve"
        /\ m.product = k.product /\ m.stock = k.stock /\ m.quantity = k.quantity
    <3> HIDE DEF k
    <3> QED BY <1>1, <1>6 DEF ReserveCall
  <2>2. Done(m) = {}
    BY <2>1, DoneIs
  <2>3. TakenIds' = {} /\ Owed(g)' = Owed(g)
    BY <1>2, <1>4, <2>2, TakenNext, OwedSame
  <2>4. k.product = g => k.stock = product[g].stock
    BY <1>1 DEF Sells, SellCall
  <2>5. ActiveReserved(g) = Owed(g)
    <3>1. OwedIds(g) = {id \in Rows : reservation[id].product = g /\ reservation[id].fresh}
      BY <1>4 DEF OwedIds
    <3>2. ActiveReserved(g) = Claimed(reservation,
            {id \in Rows : reservation[id].product = g /\ reservation[id].fresh})
      BY DEF ActiveReserved, Claimed
    <3> QED BY <3>1, <3>2, OwedIs
  <2>6. /\ k.quantity \in Nat /\ k.stock \in Nat /\ Owed(g) \in Nat
    <3> HIDE DEF k
    <3> QED BY <1>1, OwedTyped, MaxStockAssumption DEF ReserveCall, Quantities
  <2>7. k.product = g => Owed(g) + k.quantity <= product[g].stock
    BY <1>6, <2>4, <2>5, <2>6
  <2>8. SellCall(s, g)'
    BY <1>2, <2>1, <2>3, <2>4, <2>7 DEF SellCall, At
  <2> QED BY <1>2, <1>4, <2>2, <2>8, QuietSells
<1> QED BY <1>3, <1>5, <1>6

(* A call that returns, and less is promised than before.                   *)
LEMMA FewerSells ==
  ASSUME StockMade, StockMade', NEW CONSTANT g \in Goods, NEW CONSTANT s \in AllSlots,
         Busy' \subseteq {s}, Sells(g), product'[g].stock = product[g].stock,
         stockCall'[s] = Idle, OwedIds(g)' \subseteq OwedIds(g),
         \A id \in OwedIds(g)' : reservation'[id].quantity = reservation[id].quantity
  PROVE  Sells(g)'
<1>1. Owed(g)' <= Owed(g)
  BY OwedFalls
<1>2. /\ Owed(g) \in Nat /\ product[g].stock \in Nat /\ Owed(g) <= product[g].stock
  BY OwedTyped DEF Sells
<1>3. Owed(g)' \in Nat
  BY OwedTypedNext
<1>4. Owed(g)' <= product'[g].stock
  BY <1>1, <1>2, <1>3
<1>5. Busy' = {}
  BY DEF Busy
<1> QED BY <1>4, <1>5 DEF Sells

LEMMA RenewSells ==
  ASSUME StockMade, StockMade', NEW CONSTANT g \in Goods, NEW CONSTANT s \in AllSlots,
         Busy \subseteq {s}, Busy' \subseteq {s}, Sells(g), RenewReservation(s),
         ~Quiet(g)', SellClean(g)'
  PROVE  Sells(g)'
<1> DEFINE k == stockCall[s]
           row == [k.copy EXCEPT !.quantity = k.quantity, !.fresh = TRUE]
<1>1. At(s, "reserve", "renew") /\ k \in RenewCall
  BY CallAt DEF RenewReservation
<1>2. k.copy \in ReservationRow /\ k.copy.product \in Goods
  BY <1>1 DEF RenewCall, ReservationRow
<1>3. k.copy.product # g
  <2>1. SUFFICES ASSUME k.copy.product = g PROVE FALSE
    OBVIOUS
  <2> DEFINE m == Mark(k.copy.product, {"renewed"})
  <2>2. m \in [Goods -> SUBSET Faults] /\ Blame(m)
    BY <1>2, NoMarksTyped DEF RenewReservation, Faults
  <2>3. "renewed" \in m[g]
    BY <2>1 DEF Mark, NoMarks
  <2>4. "renewed" \in fault'[g]
    <3> HIDE DEF m
    <3> QED BY <2>2, <2>3, BlameFact
  <2> QED BY <2>4 DEF SellClean
<1>4. row.product = k.copy.product
  <2> HIDE DEF k
  <2> QED BY <1>2 DEF ReservationRow
<1>5. reservation' = [id \in ReservationIds |->
                              IF id \in k.ids THEN row ELSE reservation[id]]
  BY DEF RenewReservation
<1> HIDE DEF row
<1>6. TakenIds = {} /\ TakenIds' = {}
  BY <1>1, DoneIs, TakenIs, TakenNext, CallNow DEF RenewReservation
<1>7. \A id \in OwedIds(g)' : id \in OwedIds(g) /\ reservation'[id] = reservation[id]
  BY <1>3, <1>4, <1>5, <1>6 DEF OwedIds, Rows
<1>8. stockCall'[s] = Idle /\ product' = product
  BY CallNow DEF RenewReservation
<1> QED BY <1>7, <1>8, FewerSells

LEMMA RemoveSells ==
  ASSUME StockMade, StockMade', NEW CONSTANT g \in Goods, NEW CONSTANT s \in AllSlots,
         Busy \subseteq {s}, Busy' \subseteq {s}, Sells(g),
         RemoveFound(s) \/ RemoveConfirmed(s)
  PROVE  Sells(g)'
<1> DEFINE k == stockCall[s]
<1>1. stockCall'[s] = Idle /\ product' = product
  BY CallNow DEF RemoveFound, RemoveConfirmed
<1>2. TakenIds' = {} /\ TakenIds = Done(k)
  BY <1>1, DoneIs, TakenIs, TakenNext
<1>3. Done(k) \subseteq k.ids
  <2>1. CASE RemoveFound(s)
    BY <2>1, CallAt, DoneIs DEF RemoveFound
  <2>2. CASE RemoveConfirmed(s)
    BY <2>2, CallAt, DoneIs DEF RemoveConfirmed
  <2> QED BY <2>1, <2>2
<1>4. reservation' = [id \in ReservationIds |->
         IF id \in k.ids THEN NoRow ELSE reservation[id]]
  BY DEF RemoveFound, RemoveConfirmed
<1> HIDE DEF k
<1>5. \A id \in OwedIds(g)' : id \in OwedIds(g) /\ reservation'[id] = reservation[id]
  BY <1>2, <1>3, <1>4 DEF OwedIds, Rows
<1> QED BY <1>1, <1>5, FewerSells

LEMMA InsertSells ==
  ASSUME StockMade, StockMade', NEW CONSTANT g \in Goods, NEW CONSTANT s \in AllSlots,
         Busy \subseteq {s}, Busy' \subseteq {s}, Sells(g), InsertReservation(s)
  PROVE  Sells(g)'
<1> DEFINE k == stockCall[s]
           row == [product |-> k.product, cart |-> k.cart,
                   quantity |-> k.quantity, fresh |-> TRUE]
<1>1. At(s, "reserve", "insert") /\ k \in ReserveCall /\ s \in Busy
  BY CallAt DEF InsertReservation, At, Busy
<1>2. stockCall'[s] = Idle /\ product' = product
  BY CallNow DEF InsertReservation
<1>3. TakenIds = {} /\ TakenIds' = {}
  BY <1>1, <1>2, DoneIs, TakenIs, TakenNext
<1>4. PICK id \in UnusedIds : reservation' = [reservation EXCEPT ![id] = row]
  BY DEF InsertReservation
<1>5. id \in ReservationIds \ Rows
  BY <1>4 DEF UnusedIds
<1>6. row.product = k.product /\ row.quantity = k.quantity /\ row.fresh /\ row \in ReservationRow
  <2> HIDE DEF k
  <2> QED BY <1>1 DEF ReserveCall, ReservationRow
<1>7. k.quantity \in Nat
  <2> HIDE DEF k
  <2> QED BY <1>1, MaxStockAssumption DEF ReserveCall, Quantities
<1> HIDE DEF row
<1>8. CASE k.product # g
  <2>1. \A i \in OwedIds(g)' : i \in OwedIds(g) /\ reservation'[i] = reservation[i]
    BY <1>3, <1>4, <1>6, <1>8 DEF OwedIds, Rows, StockMade, StockTypeOK
  <2> QED BY <1>2, <2>1, FewerSells
<1>9. CASE k.product = g
  <2> DEFINE S == OwedIds(g)
             T == OwedIds(g)'
             r == [i \in T |-> reservation'[i].quantity]
             q == [i \in S |-> reservation[i].quantity]
  <2>1. T = S \cup {id} /\ id \notin S /\ \A i \in S : reservation'[i] = reservation[i]
    <3>1. \A i \in ReservationIds : reservation'[i] = IF i = id THEN row ELSE reservation[i]
      BY <1>4 DEF StockMade, StockTypeOK
    <3>2. row # NoRow
      BY <1>6, StockRowAssumption
    <3>3. Rows' = Rows \cup {id}
      BY <3>1, <3>2, <1>5 DEF Rows
    <3> QED BY <1>3, <1>5, <1>6, <1>9, <3>1, <3>3 DEF OwedIds, Rows
  <2>2. reservation'[id] = row
    BY <1>4, <1>5 DEF StockMade, StockTypeOK
  <2>3. IsFiniteSet(T) /\ \A i \in T : reservation'[i].quantity \in Nat
    <3>1. T \subseteq ReservationIds
      BY <1>5, <2>1 DEF OwedIds, Rows
    <3>2. \A i \in S : reservation[i].quantity \in Nat
      BY MaxStockAssumption DEF OwedIds, Rows, StockMade, StockTypeOK, ReservationRow, Quantities
    <3> QED BY <3>1, <3>2, <2>1, <2>2, <1>6, <1>7, ReservationAssumption, FS_Subset
  <2>4. Owed(g)' = SumOf(r, T) /\ Owed(g) = SumOf(q, S)
    BY OwedIs, OwedNext, ClaimedIs
  <2>5. \A i \in T : r[i] \in Nat
    BY <2>3
  <2>6. r[id] = k.quantity
    BY <2>1, <2>2, <1>6
  <2>7. \A i \in S : r[i] = q[i]
    BY <2>1
  <2> HIDE DEF r, q, S, T
  <2>8. SumOf(r, T) = r[id] + SumOf(r, T \ {id})
    <3> id \in T
      BY <2>1
    <3> QED BY <2>3, <2>5, SumWithout
  <2>9. T \ {id} = S /\ IsFiniteSet(S)
    BY <2>1, <2>3, FS_Subset
  <2>10. SumOf(r, S) = SumOf(q, S)
    BY <2>7, <2>9, SumSame
  <2>11. Owed(g)' = k.quantity + Owed(g)
    BY <2>4, <2>6, <2>8, <2>9, <2>10
  <2>12. Owed(g) + k.quantity <= product[g].stock
    BY <1>1, <1>9 DEF Sells, SellCall
  <2>13. Owed(g)' <= product'[g].stock
    BY <2>11, <2>12, <1>2, <1>7, OwedTyped
  <2>14. Busy' = {}
    BY <1>2 DEF Busy
  <2> QED BY <2>13, <2>14 DEF Sells
<1> QED BY <1>8, <1>9

LEMMA ChangeSells ==
  ASSUME StockMade, StockMade', NEW CONSTANT g \in Goods, NEW CONSTANT s \in AllSlots,
         Busy \subseteq {s}, Busy' \subseteq {s}, Sells(g), ~Quiet(g)', SellClean(g)',
         SaveProduct(s) \/ SoftDelete(s)
  PROVE  Sells(g)'
<1> DEFINE k == stockCall[s]
<1>0. product[g] \in ProductRow /\ product[g].stock \in Nat
  BY OwedTyped DEF StockMade, StockTypeOK
<1>1. CASE SaveProduct(s)
  <2>1. k.op \in {"updateStock", "update"} /\ k \in RowCall
    BY <1>1, CallAt DEF SaveProduct, At
  <2>2. k.product \in Goods /\ k.copy \in ProductRow /\ k.copy.stock \in Nat
    <3> HIDE DEF k
    <3> QED BY <2>1, MaxStockAssumption DEF RowCall, ProductRow
  <2>3. /\ product' = [product EXCEPT ![k.product] = k.copy] /\ reservation' = reservation
        /\ stockCall'[s] = [k EXCEPT !.pc = "invalidate"]
    BY <1>1, CallNow DEF SaveProduct
  <2>4. NotConfirm(k) /\ Plain(stockCall'[s])
    <3>1. [k EXCEPT !.pc = "invalidate"].op = k.op
      <4> HIDE DEF k
      <4> QED BY <2>1 DEF RowCall
    <3> QED BY <3>1, <2>1, <2>3 DEF NotConfirm, Plain
  <2>5. product[g].stock <= product'[g].stock
    <3>1. CASE k.product # g
      BY <3>1, <2>3, <1>0 DEF StockMade, StockTypeOK
    <3>2. CASE k.product = g
      <4>1. SUFFICES ASSUME k.copy.stock < product[g].stock PROVE FALSE
        BY <3>2, <2>2, <2>3, <1>0 DEF StockMade, StockTypeOK
      <4> DEFINE m == Mark(g, {"overwritten"})
      <4>2. Blame(m) /\ m \in [Goods -> SUBSET Faults]
        BY <1>1, <3>2, <4>1, NoMarksTyped DEF SaveProduct, Faults
      <4>3. "overwritten" \in m[g]
        BY DEF Mark, NoMarks
      <4>4. "overwritten" \in fault'[g]
        <5> HIDE DEF m
        <5> QED BY <4>2, <4>3, BlameFact
      <4> QED BY <4>4 DEF SellClean
    <3> QED BY <3>1, <3>2
  <2> QED BY <2>3, <2>4, <2>5, PlainSells
<1>2. CASE SoftDelete(s)
  <2>1. k.op = "delete" /\ k \in DeleteCall
    BY <1>2, CallAt DEF SoftDelete, At
  <2>2. /\ product' = [product EXCEPT ![k.product].deleted = TRUE]
        /\ reservation' = reservation
        /\ stockCall'[s] = Idle \/ stockCall'[s] = [k EXCEPT !.pc = "invalidate"]
    BY <1>2, CallNow DEF SoftDelete
  <2>3. NotConfirm(k) /\ Plain(stockCall'[s])
    <3>1. [k EXCEPT !.pc = "invalidate"].op = k.op
      <4> HIDE DEF k
      <4> QED BY <2>1 DEF DeleteCall
    <3> QED BY <3>1, <2>1, <2>2 DEF NotConfirm, Plain
  <2>4. product[g].stock <= product'[g].stock
    <3>1. product'[g].stock = product[g].stock
      <4> HIDE DEF k
      <4> QED BY <2>2, <1>0 DEF StockMade, StockTypeOK, ProductRow
    <3> QED BY <3>1, <1>0
  <2> QED BY <2>2, <2>3, <2>4, PlainSells
<1> QED BY <1>1, <1>2

LEMMA ClaimFalls ==
  ASSUME NEW r, NEW t, NEW S, IsFiniteSet(S), NEW T \in SUBSET S,
         \A i \in S : r[i].quantity \in Nat,
         \A i \in T : t[i].quantity = r[i].quantity
  PROVE  /\ Claimed(t, T) <= Claimed(r, S)
         /\ Claimed(t, T) \in Nat /\ Claimed(r, S) \in Nat
<1> DEFINE q == [i \in S |-> r[i].quantity]
           p == [i \in T |-> t[i].quantity]
<1>1. IsFiniteSet(T) /\ (\A i \in S : q[i] \in Nat) /\ \A i \in T : p[i] = q[i]
  BY FS_Subset
<1>2. Claimed(r, S) = SumOf(q, S) /\ Claimed(t, T) = SumOf(p, T)
  BY ClaimedIs
<1> HIDE DEF q, p
<1>3. SumOf(p, T) = SumOf(q, T)
  BY <1>1, SumSame
<1>4. SumOf(q, T) <= SumOf(q, S) /\ SumOf(q, S) \in Nat
  BY <1>1, SumPart, SumType
<1>5. SumOf(q, T) \in Nat
  BY <1>1, SumType
<1> QED BY <1>2, <1>3, <1>4, <1>5

LEMMA ClaimLess ==
  ASSUME NEW r, NEW S, IsFiniteSet(S), \A i \in S : r[i].quantity \in Nat, NEW x \in S
  PROVE  Claimed(r, S) = r[x].quantity + Claimed(r, S \ {x})
<1> DEFINE q == [i \in S |-> r[i].quantity]
           p == [i \in S \ {x} |-> r[i].quantity]
<1>1. IsFiniteSet(S \ {x}) /\ (\A i \in S : q[i] \in Nat) /\ \A i \in S \ {x} : p[i] = q[i]
  BY FS_Subset
<1>2. Claimed(r, S) = SumOf(q, S) /\ Claimed(r, S \ {x}) = SumOf(p, S \ {x})
  BY ClaimedIs
<1>3. q[x] = r[x].quantity
  OBVIOUS
<1> HIDE DEF q, p
<1>4. SumOf(p, S \ {x}) = SumOf(q, S \ {x})
  BY <1>1, SumSame
<1>5. SumOf(q, S) = q[x] + SumOf(q, S \ {x})
  BY <1>1, SumWithout
<1> QED BY <1>2, <1>3, <1>4, <1>5

LEMMA RowsFinite ==
  StockMade => IsFiniteSet(Rows) /\ \A i \in Rows : /\ reservation[i] \in ReservationRow
                                                    /\ reservation[i].quantity \in Nat
<1> SUFFICES ASSUME StockMade
             PROVE  IsFiniteSet(Rows) /\ \A i \in Rows : /\ reservation[i] \in ReservationRow
                                                         /\ reservation[i].quantity \in Nat
  OBVIOUS
<1>1. IsFiniteSet(Rows)
  BY ReservationAssumption, FS_Subset DEF Rows
<1>2. \A i \in Rows : reservation[i] \in ReservationRow
  BY DEF Rows, StockMade, StockTypeOK
<1> QED BY <1>1, <1>2, MaxStockAssumption DEF ReservationRow, Quantities

LEMMA ConfirmSells ==
  ASSUME StockMade, StockMade', NEW CONSTANT g \in Goods, NEW CONSTANT s \in AllSlots,
         Busy \subseteq {s}, Busy' \subseteq {s}, Sells(g), ~Quiet(g)', SellClean(g)',
         NEW c \in Carts, ConfirmReservation(s, c)
  PROVE  Sells(g)'
<1> DEFINE ids == RowsOf(c)
           r == [op |-> "confirm", pc |-> "save", ids |-> ids, done |-> {},
                 copy |-> [id \in ids |-> product[reservation[id].product]],
                 of |-> [id \in ids |-> reservation[id].product],
                 quantity |-> [id \in ids |-> reservation[id].quantity]]
           m == [h \in Goods |->
                   IF \E id \in RowsOf(c) \ {i \in Rows : reservation[i].fresh} :
                        reservation[id].product = h
                   THEN {"late"} ELSE {}]
<1>1. /\ stockCall[s] = Idle /\ stockCall'[s] = r
      /\ UNCHANGED <<reservation, product>> /\ Blame(m)
  BY CallNow DEF ConfirmReservation
<1>2. m \in [Goods -> SUBSET Faults]
  BY DEF Faults
<1>3. ids \subseteq Rows
  BY DEF RowsOf
<1>4. \A id \in ids : reservation[id].product = g => reservation[id].fresh
  <2>1. SUFFICES ASSUME NEW id \in ids, reservation[id].product = g, ~reservation[id].fresh
                 PROVE  FALSE
    OBVIOUS
  <2>2. "late" \in m[g]
    BY <2>1
  <2>3. "late" \in fault'[g]
    <3> HIDE DEF m
    <3> QED BY <1>1, <1>2, <2>2, BlameFact
  <2> QED BY <2>3 DEF SellClean
<1>5. /\ r.op = "confirm" /\ r.pc = "save" /\ r.ids = ids /\ Done(r) = {}
      /\ \A id \in ids : /\ r.of[id] = reservation[id].product
                         /\ r.quantity[id] = reservation[id].quantity
                         /\ r.copy[id] = product[reservation[id].product]
  BY DEF Done
<1> HIDE DEF m, r, ids
<1>6. TakenIds = {} /\ TakenIds' = {}
  BY <1>1, <1>5, DoneIs, TakenIs, TakenNext
<1>7. Bound(r, g) = OwedIds(g)
  BY <1>3, <1>4, <1>5, <1>6 DEF Bound, OwedIds
<1>8. Claimed(reservation, Bound(r, g)) <= product[g].stock
  BY <1>7, OwedIs DEF Sells
<1>9. Bound(stockCall[s], g)' = Bound(r, g) /\ Rows' = Rows
  BY <1>1 DEF Bound, Rows
<1>10. SellCall(s, g)'
  BY <1>1, <1>3, <1>5, <1>8, <1>9 DEF SellCall, At
<1>11. Done(stockCall[s]) = {} /\ Done(stockCall'[s]) = {}
  BY <1>1, <1>5, DoneIs
<1> QED BY <1>1, <1>10, <1>11, QuietSells

LEMMA ThrowSells ==
  ASSUME StockMade, StockMade', NEW CONSTANT g \in Goods, NEW CONSTANT s \in AllSlots,
         Busy \subseteq {s}, Busy' \subseteq {s}, Sells(g), ~Quiet(g)', SellClean(g)',
         ConfirmThrows(s)
  PROVE  Sells(g)'
<1> DEFINE k == stockCall[s]
           m == [h \in Goods |-> IF \E id \in stockCall[s].done : stockCall[s].of[id] = h
                                 THEN {"late"} ELSE {}]
<1>1. At(s, "confirm", "save") /\ k \in ConfirmCall /\ s \in Busy
  BY CallAt DEF ConfirmThrows, At, Busy
<1>2. stockCall'[s] = Idle /\ UNCHANGED <<reservation, product>> /\ Blame(m)
  BY CallNow DEF ConfirmThrows
<1>3. m \in [Goods -> SUBSET Faults]
  BY DEF Faults
<1>4. \A id \in k.done : k.of[id] # g
  <2>1. SUFFICES ASSUME NEW id \in k.done, k.of[id] = g PROVE FALSE
    OBVIOUS
  <2>2. "late" \in m[g]
    BY <2>1
  <2>3. "late" \in fault'[g]
    <3> HIDE DEF m
    <3> QED BY <1>2, <1>3, <2>2, BlameFact
  <2> QED BY <2>3 DEF SellClean
<1> HIDE DEF m
<1>5. TakenIds' = {} /\ TakenIds = k.done
  BY <1>1, <1>2, DoneIs, TakenIs, TakenNext
<1>6. \A id \in k.done : reservation[id].product # g
  <2>1. k.done \subseteq k.ids
    BY <1>1, ConfirmTyped
  <2> QED BY <1>1, <1>4, <2>1 DEF Sells, SellCall
<1>7. OwedIds(g)' = OwedIds(g)
  BY <1>2, <1>5, <1>6 DEF OwedIds, Rows
<1> QED BY <1>2, <1>7, FewerSells

LEMMA DecrementSells ==
  ASSUME StockMade, StockMade', NEW CONSTANT g \in Goods, NEW CONSTANT s \in AllSlots,
         Busy \subseteq {s}, Busy' \subseteq {s}, Sells(g), DecrementStock(s)
  PROVE  Sells(g)'
<1> DEFINE k == stockCall[s]
           n == stockCall'[s]
<1>1. At(s, "confirm", "save") /\ k \in ConfirmCall /\ s \in Busy
  BY CallAt DEF DecrementStock, At, Busy
<1>2. PICK e \in k.ids \ k.done :
        /\ product' = [product EXCEPT ![k.of[e]] =
             [stock |-> Minus(k.copy[e].stock, k.quantity[e]), deleted |-> FALSE]]
        /\ n = [k EXCEPT !.done = @ \cup {e}]
        /\ UNCHANGED reservation
  BY CallNow DEF DecrementStock
<1>3. /\ n \in ConfirmCall /\ n.done = k.done \cup {e} /\ n.ids = k.ids /\ n.of = k.of
      /\ n.quantity = k.quantity /\ n.copy = k.copy /\ n.op = "confirm" /\ n.pc = "save"
  <2> HIDE DEF k, n
  <2> QED BY <1>1, <1>2 DEF ConfirmCall
<1>4. TakenIds = k.done /\ TakenIds' = k.done \cup {e}
  BY <1>1, <1>3, DoneIs, TakenIs, TakenNext
<1>5. /\ k.of[e] \in Goods /\ k.quantity[e] \in Nat /\ k.copy[e].stock \in Nat
      /\ k.ids \subseteq ReservationIds
  BY <1>1, <1>2, ConfirmTyped
<1>6. SellCall(s, g)
  BY <1>1 DEF Sells
<1>7. Bound(stockCall[s], g)' = Bound(k, g) /\ Rows' = Rows
  BY <1>2, <1>3 DEF Bound, Rows
<1>8. SellCall(s, g)'
  <2>1. Bound(stockCall[s], g)' = Bound(k, g)
    BY <1>7
  <2> HIDE DEF k, n
  <2>2. At(s, "confirm", "save") => \A id \in k.ids :
            /\ id \in Rows
            /\ reservation[id].product = k.of[id]
            /\ reservation[id].quantity = k.quantity[id]
            /\ k.of[id] = g
                 => Claimed(reservation, Bound(k, g)) <= k.copy[id].stock
    BY <1>6 DEF SellCall, k
  <2> QED BY <1>1, <1>2, <1>3, <1>7, <2>1, <2>2 DEF SellCall, At, n
<1>9. Owed(g)' <= product'[g].stock
  <2>1. CASE k.of[e] # g
    <3>1. OwedIds(g)' \subseteq OwedIds(g)
      BY <1>2, <1>4, <1>7 DEF OwedIds
    <3>2. Owed(g)' <= Owed(g)
      BY <1>2, <3>1, OwedFalls
    <3>3. product'[g] = product[g]
      BY <2>1, <1>2 DEF StockMade, StockTypeOK
    <3> QED BY <3>2, <3>3, OwedTyped, OwedTypedNext DEF Sells
  <2>2. CASE k.of[e] = g
    <3> DEFINE B == Bound(k, g)
    <3>1. B \subseteq Rows /\ IsFiniteSet(B) /\ \A i \in B : reservation[i].quantity \in Nat
      BY RowsFinite, FS_Subset DEF Bound
    <3>2. e \in B /\ reservation[e].quantity = k.quantity[e] /\ Claimed(reservation, B) <= k.copy[e].stock
      BY <1>1, <1>6, <1>2, <2>2 DEF SellCall, Bound
    <3>3. OwedIds(g)' \subseteq B \ {e}
      BY <1>2, <1>4, <1>7 DEF OwedIds, Bound
    <3> HIDE DEF B
    <3>4. Claimed(reservation, B) = k.quantity[e] + Claimed(reservation, B \ {e})
      BY <3>1, <3>2, ClaimLess
    <3>5. /\ Claimed(reservation', OwedIds(g)') <= Claimed(reservation, B \ {e})
          /\ Claimed(reservation', OwedIds(g)') \in Nat /\ Claimed(reservation, B \ {e}) \in Nat
      <4>1. IsFiniteSet(B \ {e}) /\ \A i \in B \ {e} : reservation[i].quantity \in Nat
        BY <3>1, FS_Subset
      <4>2. \A i \in OwedIds(g)' : reservation'[i].quantity = reservation[i].quantity
        BY <1>2
      <4> QED BY <3>3, <4>1, <4>2, ClaimFalls
    <3>6. Owed(g)' = Claimed(reservation', OwedIds(g)')
      BY OwedNext
    <3>7. product'[g].stock = Minus(k.copy[e].stock, k.quantity[e])
      BY <2>2, <1>2, <1>5 DEF StockMade, StockTypeOK
    <3> QED BY <3>2, <3>4, <3>5, <3>6, <3>7, <1>5 DEF Minus
  <2> QED BY <2>1, <2>2
<1>10. ASSUME NEW t \in Busy' PROVE SellCall(t, g)'
  <2> t = s
    OBVIOUS
  <2> QED BY <1>8
<1> QED BY <1>9, <1>10 DEF Sells

LEMMA ExpireSells ==
  ASSUME StockMade, StockMade', NEW CONSTANT g \in Goods, Sells(g),
         NEW e \in ReservationIds, Expire(e)
  PROVE  Sells(g)'
<1>1. /\ reservation' = [reservation EXCEPT ![e].fresh = FALSE]
      /\ UNCHANGED <<product, stockCall>> /\ e \in Rows /\ reservation[e] \in ReservationRow
  BY RowsFinite DEF Expire
<1>2. \A i \in ReservationIds : i # e => reservation'[i] = reservation[i]
  BY <1>1 DEF StockMade, StockTypeOK
<1>3. /\ reservation'[e] \in ReservationRow /\ ~reservation'[e].fresh
      /\ reservation'[e].product = reservation[e].product
      /\ reservation'[e].quantity = reservation[e].quantity
  BY <1>1 DEF StockMade, StockTypeOK, ReservationRow
<1>4. Rows' = Rows
  BY <1>1, <1>2, <1>3, StockRowAssumption DEF Rows
<1>5. \A i \in Rows : /\ reservation'[i].product = reservation[i].product
                      /\ reservation'[i].quantity = reservation[i].quantity
                      /\ reservation'[i].fresh => reservation[i].fresh
  BY <1>2, <1>3 DEF Rows
<1>6. Busy' = Busy /\ TakenIds' = TakenIds
  BY <1>1 DEF Busy, TakenIds
<1>7. OwedIds(g)' \subseteq OwedIds(g) /\ OwedIds(g)' \subseteq Rows
  BY <1>4, <1>5, <1>6 DEF OwedIds
<1>8. Owed(g)' <= Owed(g)
  BY <1>5, <1>7, OwedFalls
<1>9. Owed(g) \in Nat /\ Owed(g)' \in Nat /\ product[g].stock \in Nat
  BY OwedTyped, OwedTypedNext
<1>10. Owed(g)' <= product'[g].stock
  BY <1>1, <1>8, <1>9 DEF Sells
<1>11. ASSUME NEW CONSTANT t \in Busy
       PROVE  SellCall(t, g)'
  <2>1. SellCall(t, g) /\ t \in AllSlots
    BY <1>11 DEF Sells, Busy
  <2> DEFINE k == stockCall[t]
  <2>2. CASE At(t, "reserve", "insert")
    <3>1. k \in ReserveCall /\ k.op = "reserve" /\ k.pc = "insert" /\ k.quantity \in Nat
      BY <2>1, <2>2, CallAt, MaxStockAssumption DEF At, ReserveCall, Quantities
    <3> QED BY <1>1, <1>8, <1>9, <2>1, <2>2, <3>1 DEF SellCall, At
  <2>3. CASE At(t, "confirm", "save")
    <3>1. k \in ConfirmCall
      BY <2>1, <2>3, CallAt
    <3>2. Bound(stockCall[t], g)' \subseteq Bound(k, g) /\ Bound(k, g) \subseteq Rows
      BY <1>1, <1>4, <1>5 DEF Bound
    <3>3. IsFiniteSet(Bound(k, g)) /\ \A i \in Bound(k, g) : reservation[i].quantity \in Nat
      BY <3>2, RowsFinite, FS_Subset
    <3>4. \A i \in Bound(stockCall[t], g)' : reservation'[i].quantity = reservation[i].quantity
      BY <3>2, <1>5
    <3>5. /\ Claimed(reservation', Bound(stockCall[t], g)') <= Claimed(reservation, Bound(k, g))
          /\ Claimed(reservation', Bound(stockCall[t], g)') \in Nat
          /\ Claimed(reservation, Bound(k, g)) \in Nat
      BY <3>2, <3>3, <3>4, ClaimFalls
    <3>6. \A i \in k.ids : k.copy[i].stock \in Nat
      BY <3>1, ConfirmTyped
    <3>7. \A i \in k.ids : /\ i \in Rows
                           /\ reservation[i].product = k.of[i]
                           /\ reservation[i].quantity = k.quantity[i]
                           /\ k.of[i] = g => Claimed(reservation, Bound(k, g)) <= k.copy[i].stock
      BY <2>1, <2>3 DEF SellCall
    <3>8. \A i \in k.ids :
             k.of[i] = g => Claimed(reservation', Bound(stockCall[t], g)') <= k.copy[i].stock
      BY <3>5, <3>6, <3>7
    <3>9. k.op = "confirm"
      BY <2>3 DEF At
    <3> QED BY <1>1, <1>4, <1>5, <3>7, <3>8, <3>9 DEF SellCall, At
  <2> QED BY <1>1, <2>1, <2>2, <2>3 DEF SellCall, At
<1> QED BY <1>6, <1>10, <1>11 DEF Sells

(* Every step keeps the promises of a product no fault has marked.          *)
LEMMA SlotSells ==
  ASSUME StockMade, StockMade', NEW CONSTANT g \in Goods, NEW CONSTANT s \in AllSlots,
         Busy \subseteq {s}, Busy' \subseteq {s}, Sells(g), ~Quiet(g)', SellClean(g)',
         StockStep(s) \/ StockRequest(s) \/ (s = CronSlot /\ CleanupExpired)
  PROVE  Sells(g)'
<1>1. CASE \/ \E c \in Carts : ReleaseReservation(s, c)
           \/ \E h \in Goods, n \in 0..MaxStock : UpdateStock(s, h, n)
           \/ \E h \in Goods : FindById(s, h) \/ UpdateProduct(s, h) \/ DeleteProduct(s, h)
           \/ s = CronSlot /\ CleanupExpired
           \/ ReadAgain(s) \/ FillCache(s) \/ Invalidate(s)
  <2>1. /\ NotConfirm(stockCall[s]) /\ Plain(stockCall'[s])
        /\ UNCHANGED <<reservation, product>>
    BY <1>1, PlainActions
  <2>2. product[g].stock <= product'[g].stock
    BY <2>1, OwedTyped
  <2> QED BY <2>1, <2>2, PlainSells
<1>2. CASE \E h \in Goods, c \in Carts, q \in Quantities : ReserveStock(s, h, c, q)
  BY <1>2, ReserveSells
<1>3. CASE \E c \in Carts : ConfirmReservation(s, c)
  BY <1>3, ConfirmSells
<1>4. CASE FindReservation(s)
  BY <1>4, ReserveSells
<1>5. CASE RenewReservation(s)
  BY <1>5, RenewSells
<1>6. CASE SumReserved(s)
  BY <1>6, SumSells
<1>7. CASE InsertReservation(s)
  BY <1>7, InsertSells
<1>8. CASE RemoveFound(s) \/ RemoveConfirmed(s)
  BY <1>8, RemoveSells
<1>9. CASE DecrementStock(s)
  BY <1>9, DecrementSells
<1>10. CASE ConfirmThrows(s)
  BY <1>10, ThrowSells
<1>11. CASE SaveProduct(s) \/ SoftDelete(s)
  BY <1>11, ChangeSells
<1> QED
  BY <1>1, <1>2, <1>3, <1>4, <1>5, <1>6, <1>7, <1>8, <1>9, <1>10, <1>11 DEF StockStep, StockRequest

LEMMA SellsSame ==
  ASSUME NEW CONSTANT g \in Goods, Sells(g), UNCHANGED <<product, reservation, stockCall>>
  PROVE  Sells(g)'
<1>1. Busy' = Busy /\ TakenIds' = TakenIds /\ Rows' = Rows
  BY DEF Busy, TakenIds, Rows
<1>2. Owed(g)' = Owed(g)
  BY <1>1, OwedSame
<1>3. ASSUME NEW CONSTANT t \in Busy PROVE SellCall(t, g)'
  <2>1. SellCall(t, g)
    BY <1>3 DEF Sells
  <2>2. Bound(stockCall[t], g)' = Bound(stockCall[t], g)
    BY <1>1 DEF Bound
  <2> QED BY <1>1, <1>2, <2>1, <2>2 DEF SellCall, At
<1> QED BY <1>1, <1>2, <1>3 DEF Sells

LEMMA ClockSells ==
  ASSUME StockMade, StockMade', NEW CONSTANT g \in Goods, Sells(g),
         (\E id \in ReservationIds : Expire(id)) \/ (\E h \in Goods : ExpireCached(h))
  PROVE  Sells(g)'
<1>1. ASSUME NEW h \in Goods, ExpireCached(h)
      PROVE  Sells(g)'
  BY <1>1, SellsSame DEF ExpireCached
<1> QED BY <1>1, ExpireSells

-----------------------------------------------------------------------------
(* Steps that change neither the row of g nor its cached copy.              *)
LEMMA StartCaches ==
  ASSUME StockMade, NEW CONSTANT g \in Goods, NEW CONSTANT s \in AllSlots,
         Busy \subseteq {s}, Busy' \subseteq {s}, Caches(g), stockCall[s] = Idle,
         UNCHANGED <<product, cached>>,
         StockRequest(s) \/ (s = CronSlot /\ CleanupExpired)
  PROVE  Caches(g)'
<1>1. Busy = {}
  BY DEF Busy
<1>2. ~Stale(g) /\ ~Stale(g)'
  BY <1>1 DEF Caches, Stale
<1>3. ASSUME CacheCall(s, g)' PROVE Caches(g)'
  <2>1. \A t \in Busy' : t = s
    OBVIOUS
  <2> QED BY <1>2, <1>3, <2>1 DEF Caches
<1> DEFINE k == stockCall'[s]
<1>4. ASSUME k.op \notin {"updateStock", "update", "find", "confirm"}
      PROVE  Caches(g)'
  BY <1>2, <1>3, <1>4 DEF CacheCall, At
<1>5. ASSUME NEW c \in Carts, ReleaseReservation(s, c) PROVE Caches(g)'
  <2>1. k.op = "release"
    BY <1>5, CallNow DEF ReleaseReservation
  <2> QED BY <1>4, <2>1
<1>6. ASSUME NEW h \in Goods, NEW c \in Carts, NEW q \in Quantities, ReserveStock(s, h, c, q)
      PROVE  Caches(g)'
  <2>1. k.op = "reserve"
    BY <1>6, CallNow DEF ReserveStock
  <2> QED BY <1>4, <2>1
<1>7. ASSUME NEW h \in Goods, DeleteProduct(s, h) PROVE Caches(g)'
  <2>1. k.op = "delete"
    BY <1>7, CallNow DEF DeleteProduct
  <2> QED BY <1>4, <2>1
<1>8. ASSUME s = CronSlot, CleanupExpired PROVE Caches(g)'
  <2>1. k.op = "release"
    BY <1>8, CallNow DEF CleanupExpired
  <2> QED BY <1>4, <2>1
<1>9. ASSUME NEW h \in Goods, NEW n \in 0..MaxStock, UpdateStock(s, h, n) PROVE Caches(g)'
  <2> DEFINE row == [product[h] EXCEPT !.stock = n]
  <2>1. k = [op |-> "updateStock", pc |-> "save", product |-> h, copy |-> row]
    BY <1>9, CallNow DEF UpdateStock
  <2>2. row.deleted = product[h].deleted
    BY DEF StockMade, StockTypeOK, ProductRow
  <2> HIDE DEF row
  <2>3. /\ k.op = "updateStock" /\ k.pc = "save" /\ k.product = h
        /\ k.copy.deleted = product[h].deleted
    BY <2>1, <2>2
  <2>4. CacheCall(s, g)'
    <3> HIDE DEF k
    <3> QED BY <1>2, <2>3 DEF CacheCall, At, k
  <2> QED BY <1>3, <2>4
<1>10. ASSUME NEW h \in Goods, FindById(s, h) PROVE Caches(g)'
  <2>1. k = [op |-> "find", pc |-> "fill", product |-> h, copy |-> product[h]]
    BY <1>10, CallNow DEF FindById
  <2>2. CacheCall(s, g)'
    BY <1>2, <2>1 DEF CacheCall, At
  <2> QED BY <1>3, <2>2
<1>11. ASSUME NEW h \in Goods, UpdateProduct(s, h) PROVE Caches(g)'
  <2> DEFINE row(n) == [cached[h] EXCEPT !.stock = n]
             save(n) == [op |-> "update", pc |-> "save", product |-> h, copy |-> row(n)]
             fill == [op |-> "update", pc |-> "fill", product |-> h, copy |-> product[h]]
  <2>1. (cached[h] # NoRow /\ \E n : k = save(n)) \/ k = fill
    <3>1. (cached[h] # NoRow /\ \E n : Start(s, save(n))) \/ Start(s, fill)
      BY <1>11 DEF UpdateProduct
    <3> HIDE DEF save, fill
    <3> QED BY <3>1, CallNow
  <2>2. ASSUME NEW n, cached[h] # NoRow, k = save(n)
        PROVE  CacheCall(s, g)'
    <3>1. cached[h] \in ProductRow
      BY <2>2 DEF StockMade, StockTypeOK
    <3>2. row(n).deleted = cached[h].deleted
      BY <3>1 DEF ProductRow
    <3>3. h = g => cached[h] = product[h]
      BY <1>2, <2>2 DEF Stale
    <3> HIDE DEF row
    <3>4. k.op = "update" /\ k.pc = "save" /\ k.product = h /\ k.copy.deleted = cached[h].deleted
      BY <2>2, <3>2
    <3> HIDE DEF k
    <3> QED BY <1>2, <3>3, <3>4 DEF CacheCall, At, k
  <2>3. ASSUME k = fill
        PROVE  CacheCall(s, g)'
    BY <1>2, <2>3 DEF CacheCall, At
  <2> QED BY <1>3, <2>1, <2>2, <2>3
<1>12. ASSUME NEW c \in Carts, ConfirmReservation(s, c) PROVE Caches(g)'
  <2> DEFINE ids == RowsOf(c)
             copy == [id \in ids |-> product[reservation[id].product]]
             of == [id \in ids |-> reservation[id].product]
             quantity == [id \in ids |-> reservation[id].quantity]
  <2>1. k = [op |-> "confirm", pc |-> "save", ids |-> ids, done |-> {},
             copy |-> copy, of |-> of, quantity |-> quantity]
    BY <1>12, CallNow DEF ConfirmReservation
  <2>2. \A id \in ids : of[id] = g => copy[id] = product[g]
    OBVIOUS
  <2> HIDE DEF ids, copy, of, quantity
  <2>3. CacheCall(s, g)'
    BY <1>2, <2>1, <2>2 DEF CacheCall, At
  <2> QED BY <1>3, <2>3
<1> QED BY <1>5, <1>6, <1>7, <1>8, <1>9, <1>10, <1>11, <1>12 DEF StockRequest

LEMMA RequestLeaves ==
  ASSUME StockMade, NEW CONSTANT s \in AllSlots,
         StockRequest(s) \/ (s = CronSlot /\ CleanupExpired)
  PROVE  stockCall[s] = Idle /\ UNCHANGED <<product, cached>>
<1>1. StockRequest(s) \/ CleanupExpired => UNCHANGED <<product, cached>>
  BY DEF StockRequest, ReserveStock, ReleaseReservation, ConfirmReservation, UpdateStock,
         FindById, UpdateProduct, DeleteProduct, CleanupExpired
<1>2. StockRequest(s) => \E r : Start(s, r)
  BY DEF StockRequest, ReserveStock, ReleaseReservation, ConfirmReservation, UpdateStock,
         FindById, UpdateProduct, DeleteProduct
<1>3. s = CronSlot /\ CleanupExpired => \E r : Start(s, r)
  BY DEF CleanupExpired
<1> QED BY <1>1, <1>2, <1>3, CallNow

(* Steps of a reservation, and of a call that returns: rows and cache stay. *)
LEMMA LeavingCaches ==
  ASSUME StockMade, NEW CONSTANT g \in Goods, NEW CONSTANT s \in AllSlots,
         Busy \subseteq {s}, Busy' \subseteq {s}, Caches(g),
         \/ FindReservation(s) \/ RenewReservation(s) \/ SumReserved(s)
         \/ InsertReservation(s) \/ RemoveFound(s) \/ RemoveConfirmed(s) \/ ConfirmThrows(s)
  PROVE  Caches(g)'
<1> DEFINE k == stockCall[s]
           n == stockCall'[s]
<1>1. UNCHANGED <<product, cached>> /\ s \in Busy
  BY DEF FindReservation, RenewReservation, SumReserved, InsertReservation, RemoveFound,
         RemoveConfirmed, ConfirmThrows, At, Busy
<1>2. k.op \in {"reserve", "release", "confirm"}
  BY DEF FindReservation, RenewReservation, SumReserved, InsertReservation, RemoveFound,
         RemoveConfirmed, ConfirmThrows, At
<1>3. ~Stale(g) /\ ~Stale(g)'
  <2>1. ~Stale(g)
    BY <1>1, <1>2 DEF Caches, CacheCall, At
  <2> QED BY <1>1, <2>1 DEF Stale
<1>4. n = Idle \/ n.op = "reserve"
  <2>1. CASE FindReservation(s)
    <3>1. k \in ReserveCall
      BY <2>1, CallAt DEF FindReservation
    <3>2. [k EXCEPT !.pc = "sum"].op = k.op /\ k.op = "reserve"
      <4> HIDE DEF k
      <4> QED BY <3>1 DEF ReserveCall
    <3> DEFINE renew(id) == [op |-> "reserve", pc |-> "renew", ids |-> {id},
                             copy |-> reservation[id], quantity |-> k.quantity]
    <3>3. (\E id : n = renew(id)) \/ n = [k EXCEPT !.pc = "sum"]
      BY <2>1, CallNow DEF FindReservation
    <3>4. \A id : renew(id).op = "reserve"
      OBVIOUS
    <3> HIDE DEF k, n, renew
    <3> QED BY <3>2, <3>3, <3>4
  <2>2. CASE SumReserved(s)
    <3>1. k \in ReserveCall
      BY <2>2, CallAt DEF SumReserved
    <3>2. [k EXCEPT !.pc = "insert"].op = k.op /\ k.op = "reserve"
      <4> HIDE DEF k
      <4> QED BY <3>1 DEF ReserveCall
    <3> QED BY <2>2, <3>2, CallNow DEF SumReserved
  <2>3. CASE \/ RenewReservation(s) \/ InsertReservation(s)
             \/ RemoveFound(s) \/ RemoveConfirmed(s) \/ ConfirmThrows(s)
    BY <2>3, CallNow DEF RenewReservation, InsertReservation, RemoveFound, RemoveConfirmed,
                         ConfirmThrows
  <2> QED BY <2>1, <2>2, <2>3
<1>5. ASSUME NEW CONSTANT t \in Busy' PROVE CacheCall(t, g)'
  <2>1. t = s /\ n # Idle
    BY <1>5 DEF Busy
  <2> QED BY <1>3, <1>4, <2>1 DEF CacheCall, At
<1> QED BY <1>3, <1>5 DEF Caches

LEMMA CachesBy ==
  ASSUME NEW CONSTANT g \in Goods, NEW CONSTANT s \in AllSlots, Busy' \subseteq {s},
         Stale(g)' => s \in Busy', s \in Busy' => CacheCall(s, g)'
  PROVE  Caches(g)'
<1>1. \A t \in Busy' : t = s
  OBVIOUS
<1> QED BY <1>1 DEF Caches

LEMMA ChangeCaches ==
  ASSUME StockMade, NEW CONSTANT g \in Goods, NEW CONSTANT s \in AllSlots,
         Busy \subseteq {s}, Busy' \subseteq {s}, Caches(g), ~Quiet(g)', CacheClean(g)',
         SaveProduct(s) \/ SoftDelete(s)
  PROVE  Caches(g)'
<1> DEFINE k == stockCall[s]
           n == stockCall'[s]
<1>1. /\ s \in Busy /\ k \in RowCall \cup DeleteCall
      /\ UNCHANGED cached /\ \A h \in Goods : h # k.product => product'[h] = product[h]
  BY CallAt DEF SaveProduct, SoftDelete, At, Busy, StockMade, StockTypeOK
<1>2. n = [k EXCEPT !.pc = "invalidate"] \/ (SoftDelete(s) /\ k.bulk /\ n = Idle)
  BY CallNow DEF SaveProduct, SoftDelete
<1>3. k.op \in {"updateStock", "update", "delete"} /\ k.pc \in {"save", "softDelete"}
  BY DEF SaveProduct, SoftDelete, At
<1>4. k.product # g => ~Stale(g) /\ ~Stale(g)'
  BY <1>1 DEF Caches, CacheCall, Stale
<1>5. CASE n = [k EXCEPT !.pc = "invalidate"]
  <2>1. n.op = k.op /\ n.pc = "invalidate" /\ n.product = k.product /\ n # Idle
    <3> HIDE DEF k, n
    <3> QED BY <1>1, <1>5 DEF RowCall, DeleteCall, Idle
  <2>2. s \in Busy' /\ At(s, k.op, "invalidate")'
    BY <2>1 DEF Busy, At
  <2>3. CacheCall(s, g)'
    BY <1>3, <1>4, <2>1, <2>2 DEF CacheCall, At
  <2> QED BY <2>2, <2>3, CachesBy
<1>6. CASE SoftDelete(s) /\ k.bulk /\ n = Idle
  <2>1. k.product # g
    <3>1. SUFFICES ASSUME k.product = g PROVE FALSE
      OBVIOUS
    <3> DEFINE m == Mark(g, {"kept"})
    <3>2. Blame(m) /\ m \in [Goods -> SUBSET Faults]
      BY <1>6, <3>1, NoMarksTyped DEF SoftDelete, Faults
    <3>3. "kept" \in m[g]
      BY DEF Mark, NoMarks
    <3>4. "kept" \in fault'[g]
      <4> HIDE DEF m
      <4> QED BY <3>2, <3>3, BlameFact
    <3> QED BY <3>4 DEF CacheClean
  <2>2. Busy' = {}
    BY <1>6 DEF Busy
  <2> QED BY <1>4, <2>1, <2>2 DEF Caches
<1> QED BY <1>2, <1>5, <1>6

LEMMA DecrementCaches ==
  ASSUME StockMade, NEW CONSTANT g \in Goods, NEW CONSTANT s \in AllSlots,
         Busy \subseteq {s}, Busy' \subseteq {s}, Caches(g), ~Quiet(g)', CacheClean(g)',
         DecrementStock(s)
  PROVE  Caches(g)'
<1> DEFINE k == stockCall[s]
           n == stockCall'[s]
<1>1. At(s, "confirm", "save") /\ k \in ConfirmCall /\ s \in Busy
  BY CallAt DEF DecrementStock, At, Busy
<1>2. PICK e \in k.ids \ k.done :
        /\ product' = [product EXCEPT ![k.of[e]] =
             [stock |-> Minus(k.copy[e].stock, k.quantity[e]), deleted |-> FALSE]]
        /\ n = [k EXCEPT !.done = @ \cup {e}]
        /\ UNCHANGED cached /\ Blame(Mark(k.of[e], {"kept"}))
  BY CallNow DEF DecrementStock
<1>3. k.of[e] \in Goods
  BY <1>1, <1>2, ConfirmTyped
<1>4. k.of[e] # g
  <2>1. SUFFICES ASSUME k.of[e] = g PROVE FALSE
    OBVIOUS
  <2> DEFINE m == Mark(g, {"kept"})
  <2>2. Blame(m) /\ m \in [Goods -> SUBSET Faults]
    BY <1>2, <2>1, NoMarksTyped DEF Faults
  <2>3. "kept" \in m[g]
    BY DEF Mark, NoMarks
  <2>4. "kept" \in fault'[g]
    <3> HIDE DEF m
    <3> QED BY <2>2, <2>3, BlameFact
  <2> QED BY <2>4 DEF CacheClean
<1>5. product'[g] = product[g]
  BY <1>2, <1>4 DEF StockMade, StockTypeOK
<1>6. /\ n.ids = k.ids /\ n.of = k.of /\ n.copy = k.copy /\ n.op = "confirm" /\ n.pc = "save"
  <2> HIDE DEF k, n
  <2> QED BY <1>1, <1>2 DEF ConfirmCall
<1>7. ~Stale(g) /\ ~Stale(g)'
  BY <1>1, <1>2, <1>5 DEF Caches, CacheCall, At, Stale
<1>8. \A id \in k.ids : k.of[id] = g => k.copy[id].deleted = product[g].deleted
  BY <1>1 DEF Caches, CacheCall
<1>9. CacheCall(s, g)'
  <2> HIDE DEF k, n
  <2> QED BY <1>5, <1>6, <1>7, <1>8 DEF CacheCall, At, n
<1> QED BY <1>7, <1>9, CachesBy

LEMMA InvalidateCaches ==
  ASSUME StockMade, NEW CONSTANT g \in Goods, NEW CONSTANT s \in AllSlots,
         Busy \subseteq {s}, Busy' \subseteq {s}, Caches(g), Invalidate(s)
  PROVE  Caches(g)'
<1> DEFINE k == stockCall[s]
           n == stockCall'[s]
<1>1. /\ s \in Busy /\ k \in RowCall \cup DeleteCall
      /\ UNCHANGED product /\ cached' = [cached EXCEPT ![k.product] = NoRow]
  BY CallAt DEF Invalidate, At, Busy
<1>2. ~Stale(g)'
  <2>1. CASE k.product = g
    BY <1>1, <2>1 DEF Stale, StockMade, StockTypeOK
  <2>2. CASE k.product # g
    BY <1>1, <2>2 DEF Caches, CacheCall, Stale, StockMade, StockTypeOK
  <2> QED BY <2>1, <2>2
<1>3. n = Idle \/ n = [k EXCEPT !.pc = "read"]
  BY CallNow DEF Invalidate
<1>4. n = Idle \/ (n.op = k.op /\ n.pc = "read")
  <2> HIDE DEF k, n
  <2> QED BY <1>1, <1>3 DEF RowCall, DeleteCall
<1>5. s \in Busy' => CacheCall(s, g)'
  BY <1>2, <1>4 DEF CacheCall, At, Busy
<1> QED BY <1>2, <1>5, CachesBy

LEMMA ReadingCaches ==
  ASSUME StockMade, NEW CONSTANT g \in Goods, NEW CONSTANT s \in AllSlots,
         Busy \subseteq {s}, Busy' \subseteq {s}, Caches(g), ReadAgain(s) \/ FillCache(s)
  PROVE  Caches(g)'
<1> DEFINE k == stockCall[s]
           n == stockCall'[s]
<1>1. /\ s \in Busy /\ k \in RowCall /\ k.pc \in {"read", "fill"} /\ UNCHANGED product
  BY CallAt DEF ReadAgain, FillCache, At, Busy
<1>2. ~Stale(g)
  BY <1>1 DEF Caches, CacheCall, At
<1>3. CASE ReadAgain(s)
  <2>1. UNCHANGED cached /\ ~Stale(g)'
    BY <1>1, <1>2, <1>3 DEF ReadAgain, Stale
  <2> DEFINE r == [op |-> "find", pc |-> "fill", product |-> k.product,
                   copy |-> product[k.product]]
  <2>2. n = Idle \/ n = r
    BY <1>3, CallNow DEF ReadAgain
  <2>3. n = Idle \/ (n.op = "find" /\ n.pc = "fill" /\ n.copy = product[n.product])
    <3> HIDE DEF k, n
    <3> QED BY <2>2
  <2>4. s \in Busy' => CacheCall(s, g)'
    BY <1>1, <2>1, <2>3 DEF CacheCall, At, Busy
  <2> QED BY <2>1, <2>4, CachesBy
<1>4. CASE FillCache(s)
  <2>1. cached' = [cached EXCEPT ![k.product] = k.copy]
    BY <1>4 DEF FillCache
  <2>2. k.product = g => k.copy = product[g]
    BY <1>1, <1>4 DEF Caches, CacheCall, FillCache
  <2>3. ~Stale(g)'
    BY <1>1, <1>2, <2>1, <2>2 DEF Stale, StockMade, StockTypeOK
  <2> DEFINE save(m) == [k EXCEPT !.pc = "save", !.copy.stock = m]
  <2>4. n = Idle \/ (k.op = "update" /\ \E m : n = save(m))
    <3>1. Return(s) \/ (k.op = "update" /\ \E m : Continue(s, save(m)))
      BY <1>4 DEF FillCache
    <3> HIDE DEF save
    <3> QED BY <3>1, CallNow
  <2>5. \/ n = Idle
        \/ /\ n.op = "update" /\ n.pc = "save" /\ n.product = k.product
           /\ n.copy.deleted = k.copy.deleted
    <3>1. k.copy \in ProductRow
      <4> HIDE DEF k
      <4> QED BY <1>1 DEF RowCall
    <3>2. ASSUME NEW m, k.op = "update", n = save(m)
          PROVE  /\ n.op = "update" /\ n.pc = "save" /\ n.product = k.product
                 /\ n.copy.deleted = k.copy.deleted
      <4> HIDE DEF k, n
      <4> QED BY <1>1, <3>1, <3>2 DEF RowCall, ProductRow
    <3> HIDE DEF k, n, save
    <3> QED BY <2>4, <3>2
  <2>6. s \in Busy' => CacheCall(s, g)'
    BY <1>1, <2>2, <2>3, <2>5 DEF CacheCall, At, Busy
  <2> QED BY <2>3, <2>6, CachesBy
<1> QED BY <1>3, <1>4

LEMMA SlotCaches ==
  ASSUME StockMade, NEW CONSTANT g \in Goods, NEW CONSTANT s \in AllSlots,
         Busy \subseteq {s}, Busy' \subseteq {s}, Caches(g), ~Quiet(g)', CacheClean(g)',
         StockStep(s) \/ StockRequest(s) \/ (s = CronSlot /\ CleanupExpired)
  PROVE  Caches(g)'
<1>1. CASE StockRequest(s) \/ (s = CronSlot /\ CleanupExpired)
  BY <1>1, RequestLeaves, StartCaches
<1>2. CASE StockStep(s)
  BY <1>2, LeavingCaches, ChangeCaches, DecrementCaches, InvalidateCaches, ReadingCaches
     DEF StockStep
<1> QED BY <1>1, <1>2

LEMMA ClockCaches ==
  ASSUME StockMade, NEW CONSTANT g \in Goods, Caches(g),
         (\E id \in ReservationIds : Expire(id)) \/ (\E h \in Goods : ExpireCached(h))
  PROVE  Caches(g)'
<1>1. /\ UNCHANGED <<product, stockCall>> /\ Busy' = Busy
      /\ cached'[g] \in {cached[g], NoRow}
  BY DEF Expire, ExpireCached, Busy, StockMade, StockTypeOK
<1>2. Stale(g)' => Stale(g)
  BY <1>1 DEF Stale
<1>3. ASSUME NEW CONSTANT t \in Busy PROVE CacheCall(t, g)'
  BY <1>1, <1>2, <1>3 DEF Caches, CacheCall, At
<1> QED BY <1>1, <1>2, <1>3 DEF Caches

-----------------------------------------------------------------------------
LEMMA SingleNext ==
  ASSUME NEW CONSTANT g \in Goods, Blamed, ~Quiet(g)'
  PROVE  Single(g)'
BY BlamedFact DEF Single, Overlap

LEMMA GoodNext ==
  ASSUME StockMade, StockMade', NEW CONSTANT g \in Goods, GoodInv(g), StockNext
  PROVE  GoodInv(g)'
<1>1. CASE Quiet(g)'
  BY <1>1, QuietIsGoodNext
<1>2. CASE ~Quiet(g)'
  <2>1. Blamed
    BY NextMade
  <2>2. fault[g] \subseteq fault'[g]
    BY <1>2, <2>1, BlamedFact
  <2>3. Single(g)'
    BY <1>2, <2>1, SingleNext
  <2>4. ASSUME NEW CONSTANT s \in AllSlots,
               StockStep(s) \/ StockRequest(s) \/ (s = CronSlot /\ CleanupExpired)
        PROVE  GoodInv(g)'
    <3>1. SlotStep(s)
      BY <2>4, StepMade, RequestMade, CleanupMade
    <3>2. ASSUME SellClean(g)' PROVE Sells(g)'
      <4>1. "overlap" \notin fault'[g] /\ SellClean(g)
        BY <3>2, <2>2 DEF SellClean
      <4>2. Busy \subseteq {s} /\ Busy' \subseteq {s} /\ Sells(g)
        BY <1>2, <2>1, <3>1, <4>1, StepAlone DEF GoodInv
      <4> QED BY <1>2, <2>4, <3>2, <4>2, SlotSells
    <3>3. ASSUME CacheClean(g)' PROVE Caches(g)'
      <4>1. "overlap" \notin fault'[g] /\ CacheClean(g)
        BY <3>3, <2>2 DEF CacheClean
      <4>2. Busy \subseteq {s} /\ Busy' \subseteq {s} /\ Caches(g)
        BY <1>2, <2>1, <3>1, <4>1, StepAlone DEF GoodInv
      <4> QED BY <1>2, <2>4, <3>3, <4>2, SlotCaches
    <3> QED BY <2>3, <3>2, <3>3 DEF GoodInv
  <2>5. CASE (\E id \in ReservationIds : Expire(id)) \/ (\E h \in Goods : ExpireCached(h))
    <3>1. SellClean(g)' => Sells(g)'
      BY <2>2, <2>5, ClockSells DEF SellClean, GoodInv
    <3>2. CacheClean(g)' => Caches(g)'
      BY <2>2, <2>5, ClockCaches DEF CacheClean, GoodInv
    <3> QED BY <2>3, <3>1, <3>2 DEF GoodInv
  <2>6. \A s \in workload.slots : s \in AllSlots
    BY WorkloadAssumption DEF StockMade, StockTypeOK, AllSlots
  <2>7. CronSlot \in AllSlots
    BY DEF AllSlots
  <2> QED BY <2>4, <2>5, <2>6, <2>7 DEF StockNext
<1> QED BY <1>1, <1>2

(* The inductive invariant: each product keeps what its marks do not excuse.*)
StockInv == StockMade /\ \A g \in Goods : GoodInv(g)

LEMMA StockStarts ==
  StockInit => StockInv
<1> SUFFICES ASSUME StockInit PROVE StockInv
  OBVIOUS
<1> USE DEF StockInit
<1>1. product \in [Goods -> ProductRow]
  BY MaxStockAssumption DEF ProductRow
<1>2. reservation \in [ReservationIds -> ReservationRow \cup {NoRow}]
  <2> DEFINE first == {row \in ReservationRow : row.quantity = 1 /\ row.fresh} \cup {NoRow}
  <2>1. first \subseteq ReservationRow \cup {NoRow}
    OBVIOUS
  <2>2. reservation \in [ReservationIds -> first] \/ reservation = [id \in ReservationIds |-> NoRow]
    OBVIOUS
  <2> HIDE DEF first
  <2> QED BY <2>1, <2>2
<1>3. DOMAIN stockCall = AllSlots /\ \A s \in AllSlots : stockCall[s] = Idle
  OBVIOUS
<1>4. StockMade
  BY <1>1, <1>2, <1>3, NoMarksTyped DEF StockMade, StockTypeOK, CallMade
<1>5. Busy = {}
  BY <1>3 DEF Busy
<1>6. \A g \in Goods : ~Stale(g)
  BY DEF Stale
<1>7. ASSUME NEW CONSTANT g \in Goods PROVE GoodInv(g)
  BY <1>4, <1>5, <1>6, QuietIsGood DEF Quiet
<1> QED BY <1>4, <1>7 DEF StockInv

LEMMA StockKeeps ==
  StockInv /\ [StockNext]_stockVars => StockInv'
<1> SUFFICES ASSUME StockInv, [StockNext]_stockVars PROVE StockInv'
  OBVIOUS
<1>1. CASE StockNext
  <2>1. StockMade'
    BY <1>1, NextMade DEF StockInv
  <2>2. ASSUME NEW CONSTANT g \in Goods PROVE GoodInv(g)'
    BY <1>1, <2>1, GoodNext DEF StockInv
  <2> QED BY <2>1, <2>2 DEF StockInv
<1>2. CASE UNCHANGED stockVars
  <2>1. StockMade'
    BY <1>2 DEF StockInv, StockMade, StockTypeOK, CallMade, stockVars
  <2>2. ASSUME NEW CONSTANT g \in Goods PROVE GoodInv(g)'
    <3>1. GoodInv(g)
      BY DEF StockInv
    <3>2. Single(g)'
      BY <1>2, <3>1 DEF GoodInv, Single, Busy, stockVars
    <3>3. SellClean(g)' => Sells(g)'
      BY <1>2, <3>1, SellsSame DEF GoodInv, SellClean, stockVars
    <3>4. CacheClean(g)' => Caches(g)'
      <4>1. SUFFICES ASSUME CacheClean(g)' PROVE Caches(g)'
        OBVIOUS
      <4>2. Caches(g) /\ Busy' = Busy /\ (Stale(g)' <=> Stale(g))
        BY <1>2, <3>1, <4>1 DEF GoodInv, CacheClean, stockVars, Busy, Stale
      <4>3. ASSUME NEW CONSTANT t \in Busy PROVE CacheCall(t, g)'
        BY <1>2, <4>2, <4>3 DEF Caches, CacheCall, At, stockVars
      <4> QED BY <4>2, <4>3 DEF Caches
    <3> QED BY <3>2, <3>3, <3>4 DEF GoodInv
  <2> QED BY <2>1, <2>2 DEF StockInv
<1> QED BY <1>1, <1>2

LEMMA StockInvMeans ==
  StockInv => StockTypeOK /\ OversoldOnlyByFault /\ CacheFollowsRow
<1> SUFFICES ASSUME StockInv PROVE StockTypeOK /\ OversoldOnlyByFault /\ CacheFollowsRow
  OBVIOUS
<1>1. ASSUME NEW CONSTANT g \in Goods, SellClean(g) PROVE ~Oversold(g)
  <2>1. Owed(g) <= product[g].stock
    BY <1>1 DEF StockInv, GoodInv, Sells
  <2> QED BY <2>1, OwedTyped DEF Oversold, StockInv
<1>2. OversoldOnlyByFault
  BY <1>1 DEF OversoldOnlyByFault, SellClean
<1>3. CacheFollowsRow
  BY DEF CacheFollowsRow, StockInv, GoodInv, CacheClean, Caches
<1> QED BY <1>2, <1>3 DEF StockInv, StockMade

(* A row's deletion is undone by a save or a decrement alone, of a stale    *)
(* copy.                                                                    *)
LEMMA DeletedKept ==
  StockInv /\ [StockNext]_stockVars =>
    \A g \in Goods : product[g].deleted /\ ~product'[g].deleted
                       => fault[g] \cap {"overlap", "kept"} # {}
<1> SUFFICES ASSUME StockInv, [StockNext]_stockVars, NEW CONSTANT g \in Goods,
                    product[g].deleted, ~product'[g].deleted, CacheClean(g)
             PROVE  FALSE
  BY DEF CacheClean
<1>1. Caches(g) /\ StockMade
  BY DEF StockInv, GoodInv
<1>2. PICK s \in AllSlots : StockStep(s)
  <2>1. \A s : StockRequest(s) => UNCHANGED product
    BY DEF StockRequest, ReserveStock, ReleaseReservation, ConfirmReservation, UpdateStock,
           FindById, UpdateProduct, DeleteProduct
  <2>2. ~UNCHANGED product
    OBVIOUS
  <2> QED BY <2>1, <2>2 DEF StockNext, stockVars, CleanupExpired, Expire, ExpireCached
<1> DEFINE k == stockCall[s]
<1>3. SaveProduct(s) \/ SoftDelete(s) \/ DecrementStock(s)
  BY <1>2 DEF StockStep, FindReservation, RenewReservation, SumReserved, InsertReservation,
              RemoveFound, ConfirmThrows, RemoveConfirmed, Invalidate, ReadAgain, FillCache
<1>4. CASE SaveProduct(s)
  <2>1. s \in Busy /\ \E op \in {"updateStock", "update"} : At(s, op, "save")
    BY <1>4 DEF SaveProduct, At, Busy
  <2>2. k.product = g => k.copy.deleted
    BY <1>1, <2>1 DEF Caches, CacheCall
  <2>3. product' = [product EXCEPT ![k.product] = k.copy]
    BY <1>4 DEF SaveProduct
  <2> QED BY <1>1, <2>2, <2>3 DEF StockMade, StockTypeOK
<1>5. CASE SoftDelete(s)
  <2>1. product' = [product EXCEPT ![k.product].deleted = TRUE]
    BY <1>5 DEF SoftDelete
  <2>2. product[g] \in ProductRow
    BY <1>1 DEF StockMade, StockTypeOK
  <2> QED BY <1>1, <2>1, <2>2 DEF StockMade, StockTypeOK, ProductRow
<1>6. CASE DecrementStock(s)
  <2>1. At(s, "confirm", "save") /\ k \in ConfirmCall /\ s \in Busy
    BY <1>1, <1>6, CallAt DEF DecrementStock, At, Busy
  <2>2. PICK e \in k.ids \ k.done :
          /\ ~k.copy[e].deleted
          /\ product' = [product EXCEPT ![k.of[e]] =
               [stock |-> Minus(k.copy[e].stock, k.quantity[e]), deleted |-> FALSE]]
    BY <1>6 DEF DecrementStock
  <2>3. k.of[e] = g => k.copy[e].deleted = product[g].deleted
    BY <1>1, <2>1 DEF Caches, CacheCall
  <2> QED BY <1>1, <2>2, <2>3 DEF StockMade, StockTypeOK
<1> QED BY <1>3, <1>4, <1>5, <1>6

(* The rows of products and reservations, what Redis keeps and the requests *)
(* in flight keep their shape; no stock leaves its range.                   *)
THEOREM StockWellTyped == StockSpec => []StockTypeOK
<1>1. StockSpec => []StockInv
  BY StockStarts, StockKeeps, PTL DEF StockSpec
<1> QED BY <1>1, StockInvMeans, PTL

(* reserveStock, confirmStock, releaseStock and the expiry, one after the   *)
(* other and in any order, never let the reservations that count claim more *)
(* than the stock: that takes an overlap or one of the faults named.        *)
THEOREM NeverOversoldAlone == StockSpec => []OversoldOnlyByFault
<1>1. StockSpec => []StockInv
  BY StockStarts, StockKeeps, PTL DEF StockSpec
<1> QED BY <1>1, StockInvMeans, PTL

(* With nothing in flight the copy in Redis is the row, unless requests     *)
(* overlapped or one that leaves the cache alone changed the row.           *)
THEOREM CacheStaysTrue == StockSpec => []CacheFollowsRow
<1>1. StockSpec => []StockInv
  BY StockStarts, StockKeeps, PTL DEF StockSpec
<1> QED BY <1>1, StockInvMeans, PTL

(* No save brings a soft-deleted product back, but from a stale copy.       *)
THEOREM DeletionStands == StockSpec => DeletedStaysDeleted
<1>1. StockSpec => []StockInv
  BY StockStarts, StockKeeps, PTL DEF StockSpec
<1>2. StockInv /\ [StockNext]_stockVars =>
        [\A g \in Goods : product[g].deleted /\ ~product'[g].deleted
                            => fault[g] \cap {"overlap", "kept"} # {}]_stockVars
  BY DeletedKept
<1> QED BY <1>1, <1>2, PTL DEF StockSpec, DeletedStaysDeleted

-----------------------------------------------------------------------------
(* Pages.                                                                   *)

(* A request in flight, by what it has read.                                *)
SaveCatCall == [pc : {"saveCat"}, id : Cats, slug : Slugs, old : Slugs]
RemoveCatCall == [pc : {"removeCat"}, id : Cats, slug : Slugs]
DropCall == [pc : {"dropCat"}, slugs : SUBSET Slugs]
FillCatCall == [pc : {"fillCat"}, slug : Slugs, page : CatPage]
LiveRow == {r \in ItemRow : ~r.deleted}
FillIdCall == [pc : {"fillId"}, id : Items, old : LiveRow, new : LiveRow \cup {Nothing}]
CheckCall == [pc : {"checkItem"}, id : Items, old : LiveRow, new : LiveRow]
SaveItemCall == [pc : {"saveItem"}, id : Items, drop : SUBSET Slugs, row : LiveRow]
SoftDeleteCall == [pc : {"softDelete"}, id : Items, slugs : SUBSET Slugs]
DropItemCall == [pc : {"dropItem"}, id : Items, slugs : SUBSET Slugs, reread : BOOLEAN]
RereadCall == [pc : {"reread"}, id : Items]
FillItemCall == [pc : {"fillItem"}, slug : Slugs, id : Items]

CatCallMade(k) == \/ k = NoCatCall \/ k \in SaveCatCall \/ k \in RemoveCatCall
                  \/ k \in DropCall \/ k \in FillCatCall \/ k \in SaveItemCall
                  \/ k \in SoftDeleteCall \/ k \in FillItemCall
                  \/ k \in FillIdCall \/ k \in CheckCall \/ k \in DropItemCall
                  \/ k \in RereadCall

(* The unique index of the slugs of products, deleted ones included.        *)
SlugsUnique ==
  \A i, j \in Items :
    item[i] # Nothing /\ item[j] # Nothing /\ item[i].slug = item[j].slug => i = j
(* A product about to be deleted is a row.                                  *)
DeletesExist ==
  \A s \in CatSlots : CatAt(s, "softDelete") => item[catCall[s].id] # Nothing
(* Copies are made of rows that are not deleted.                            *)
PagesTyped ==
  /\ catCached \in [Slugs -> CatPage \cup {Nothing}]
  /\ itemCached \in [Slugs -> Items \cup {Nothing}]
  /\ idCached \in [Items -> LiveRow \cup {Nothing}]

CategoryMade ==
  /\ CategoryTypeOK /\ SlugsUnique /\ DeletesExist /\ PagesTyped
  /\ \A s \in CatSlots : CatCallMade(catCall[s])

SomeCatBlame == \E marks \in SUBSET CatFaults : BlameCat(marks)
CatStep(s) == /\ s \in CatSlots
              /\ catCall' = [catCall EXCEPT ![s] = catCall'[s]]
              /\ s \in CatBusy \/ catCall'[s] # NoCatCall

LEMMA CatAtIs ==
  ASSUME CategoryMade, NEW s \in CatSlots
  PROVE  /\ CatAt(s, "saveCat") => catCall[s] \in SaveCatCall
         /\ CatAt(s, "removeCat") => catCall[s] \in RemoveCatCall
         /\ CatAt(s, "dropCat") => catCall[s] \in DropCall
         /\ CatAt(s, "fillCat") => catCall[s] \in FillCatCall
         /\ CatAt(s, "saveItem") => catCall[s] \in SaveItemCall
         /\ CatAt(s, "softDelete") => catCall[s] \in SoftDeleteCall
         /\ CatAt(s, "fillItem") => catCall[s] \in FillItemCall
         /\ CatAt(s, "fillId") => catCall[s] \in FillIdCall
         /\ CatAt(s, "checkItem") => catCall[s] \in CheckCall
         /\ CatAt(s, "dropItem") => catCall[s] \in DropItemCall
         /\ CatAt(s, "reread") => catCall[s] \in RereadCall
BY DEF CategoryMade, CatCallMade, CatAt, SaveCatCall, RemoveCatCall, DropCall, FillCatCall,
       SaveItemCall, SoftDeleteCall, FillItemCall, FillIdCall, CheckCall, DropItemCall,
       RereadCall

LEMMA CatNow ==
  ASSUME CategoryMade, NEW s \in CatSlots
  PROVE  /\ \A r : StepCat(s, r) => catCall'[s] = r
         /\ \A h, r : BeginCat(s, h, r) => catCall[s] = NoCatCall /\ catCall'[s] = r
         /\ EndCat(s) => catCall'[s] = NoCatCall
BY DEF StepCat, BeginCat, EndCat, CategoryMade, CategoryTypeOK

(* What a step leaves in order once the tables and the call are.            *)
LEMMA CatMadeBy ==
  ASSUME CategoryMade, NEW s \in CatSlots, NEW r, CatCallMade(r),
         catCall' = [catCall EXCEPT ![s] = r], s \in CatBusy \/ r # NoCatCall,
         category' \in [Cats -> Slugs \cup {Nothing}],
         item' \in [Items -> ItemRow \cup {Nothing}],
         PagesTyped', catLoad' = catLoad, SomeCatBlame, SlugsUnique',
         \A i \in Items : item[i] # Nothing => item'[i] # Nothing,
         r # NoCatCall /\ r.pc = "softDelete" => item[r.id] # Nothing
  PROVE  CategoryMade' /\ CatStep(s) /\ SomeCatBlame
<1>1. /\ DOMAIN catCall' = CatSlots /\ catCall'[s] = r
      /\ \A t \in CatSlots : t # s => catCall'[t] = catCall[t]
  BY DEF CategoryMade, CategoryTypeOK
<1>2. catFault' \subseteq CatFaults
  BY DEF SomeCatBlame, BlameCat, CategoryMade, CategoryTypeOK, CatFaults
<1>3. CatStep(s)
  BY <1>1 DEF CatStep
<1>4. \A t \in CatSlots : CatCallMade(catCall'[t])
  BY <1>1 DEF CategoryMade
<1>5. DeletesExist'
  <2> SUFFICES ASSUME NEW t \in CatSlots, CatAt(t, "softDelete")'
               PROVE  item'[catCall'[t].id] # Nothing
    BY DEF DeletesExist
  <2>1. catCall'[t].id \in Items
    BY <1>4 DEF CatAt, CatCallMade, SaveCatCall, RemoveCatCall, DropCall, FillCatCall,
                SaveItemCall, SoftDeleteCall, FillItemCall, FillIdCall, CheckCall,
                DropItemCall, RereadCall
  <2>2. item[catCall'[t].id] # Nothing
    BY <1>1 DEF CatAt, CategoryMade, DeletesExist
  <2> QED BY <2>1, <2>2
<1>6. catLoad' \in CatLoads
  BY DEF CategoryMade, CategoryTypeOK
<1>7. CategoryTypeOK'
  <2>1. idCached' \in [Items -> ItemRow \cup {Nothing}]
    BY DEF PagesTyped, LiveRow
  <2> QED BY <1>1, <1>2, <1>6, <2>1 DEF CategoryTypeOK, PagesTyped
<1> QED BY <1>3, <1>4, <1>5, <1>7 DEF CategoryMade

LEMMA CatKept ==
  ASSUME CategoryMade, KeepRows
  PROVE  /\ category' \in [Cats -> Slugs \cup {Nothing}]
         /\ item' \in [Items -> ItemRow \cup {Nothing}]
         /\ SlugsUnique'
         /\ \A i \in Items : item[i] # Nothing => item'[i] # Nothing
BY DEF CategoryMade, CategoryTypeOK, KeepRows, SlugsUnique

(* A request that begins reads, and nothing changes yet.                    *)
LEMMA BeginMade ==
  ASSUME CategoryMade, NEW s \in CatSlots, NEW r, NEW h, CatCallMade(r), r # NoCatCall,
         r.pc = "softDelete" => item[r.id] # Nothing,
         BeginCat(s, h, r), UNCHANGED catLoad, KeepRows, KeepPages,
         NEW marks \in SUBSET CatFaults, BlameCat(marks)
  PROVE  CategoryMade' /\ CatStep(s) /\ SomeCatBlame
<1>1. SomeCatBlame
  BY DEF SomeCatBlame
<1>2. PagesTyped'
  BY DEF KeepPages, CategoryMade, PagesTyped
<1>3. catCall' = [catCall EXCEPT ![s] = r]
  BY DEF BeginCat
<1> QED BY <1>1, <1>2, <1>3, CatKept, CatMadeBy

LEMMA RequestsMade ==
  ASSUME CategoryMade, NEW s \in CatSlots,
         \/ \E c \in Cats, g \in Slugs : CreateCategory(s, c, g) \/ UpdateCategory(s, c, g)
         \/ \E c \in Cats : DeleteCategory(s, c)
         \/ \E g \in Slugs : FindCategory(s, g) \/ FindItem(s, g)
         \/ \E i \in Items, g \in Slugs, c \in Cats : CreateItem(s, i, g, c) \/ UpdateItem(s, i, g, c)
         \/ \E i \in Items : DeleteItem(s, i) \/ FindItemById(s, i)
  PROVE  CategoryMade' /\ CatStep(s) /\ SomeCatBlame
<1> USE DEF CatCallMade, NoCatCall
<1>0. {} \in SUBSET CatFaults
  OBVIOUS
<1>1. ASSUME NEW c \in Cats, NEW g \in Slugs, CreateCategory(s, c, g)
      PROVE  CategoryMade' /\ CatStep(s) /\ SomeCatBlame
  <2> DEFINE r == [pc |-> "saveCat", id |-> c, slug |-> g, old |-> g]
  <2>1. r \in SaveCatCall /\ r # NoCatCall /\ r.pc # "softDelete"
    BY DEF SaveCatCall
  <2>2. /\ BeginCat(s, "create", r) /\ UNCHANGED catLoad /\ KeepRows /\ KeepPages /\ BlameCat({})
    BY <1>1 DEF CreateCategory
  <2> HIDE DEF r
  <2> QED BY <2>1, <2>2, <1>0, BeginMade
<1>2. ASSUME NEW c \in Cats, NEW g \in Slugs, UpdateCategory(s, c, g)
      PROVE  CategoryMade' /\ CatStep(s) /\ SomeCatBlame
  <2> DEFINE r == [pc |-> "saveCat", id |-> c, slug |-> g, old |-> category[c]]
  <2>1. r \in SaveCatCall /\ r # NoCatCall /\ r.pc # "softDelete"
    BY <1>2 DEF SaveCatCall, UpdateCategory, CategoryMade, CategoryTypeOK
  <2>2. /\ BeginCat(s, "update", r) /\ UNCHANGED catLoad /\ KeepRows /\ KeepPages /\ BlameCat({})
    BY <1>2 DEF UpdateCategory
  <2> HIDE DEF r
  <2> QED BY <2>1, <2>2, <1>0, BeginMade
<1>3. ASSUME NEW c \in Cats, DeleteCategory(s, c)
      PROVE  CategoryMade' /\ CatStep(s) /\ SomeCatBlame
  <2> DEFINE r == [pc |-> "removeCat", id |-> c, slug |-> category[c]]
  <2>1. r \in RemoveCatCall /\ r # NoCatCall /\ r.pc # "softDelete"
    BY <1>3 DEF RemoveCatCall, DeleteCategory, CategoryMade, CategoryTypeOK
  <2>2. /\ BeginCat(s, "delete", r) /\ UNCHANGED catLoad /\ KeepRows /\ KeepPages /\ BlameCat({})
    BY <1>3 DEF DeleteCategory
  <2> HIDE DEF r
  <2> QED BY <2>1, <2>2, <1>0, BeginMade
<1>4. ASSUME NEW g \in Slugs, FindCategory(s, g)
      PROVE  CategoryMade' /\ CatStep(s) /\ SomeCatBlame
  <2> DEFINE r == [pc |-> "fillCat", slug |-> g, page |-> Page(g)]
  <2>1. Page(g) \in CatPage
    <3>1. (CHOOSE k \in Cats : category[k] = g) \in Cats
      BY <1>4 DEF FindCategory, CatsWith
    <3> QED BY <3>1 DEF Page, CatPage, ItemsOf, Live
  <2>2. r \in FillCatCall /\ r # NoCatCall /\ r.pc # "softDelete"
    BY <2>1 DEF FillCatCall
  <2>3. /\ BeginCat(s, "find", r) /\ UNCHANGED catLoad /\ KeepRows /\ KeepPages /\ BlameCat({})
    BY <1>4 DEF FindCategory
  <2> HIDE DEF r
  <2> QED BY <2>2, <2>3, <1>0, BeginMade
<1>5. ASSUME NEW g \in Slugs, FindItem(s, g)
      PROVE  CategoryMade' /\ CatStep(s) /\ SomeCatBlame
  <2>1. PICK i \in ItemsWith(g) : BeginCat(s, "findItem", [pc |-> "fillItem", slug |-> g, id |-> i])
    BY <1>5 DEF FindItem
  <2> DEFINE r == [pc |-> "fillItem", slug |-> g, id |-> i]
  <2>2. r \in FillItemCall /\ r # NoCatCall /\ r.pc # "softDelete"
    BY DEF FillItemCall, ItemsWith, Live
  <2>3. /\ BeginCat(s, "findItem", r) /\ UNCHANGED catLoad /\ KeepRows /\ KeepPages
        /\ BlameCat({})
    BY <1>5, <2>1 DEF FindItem
  <2> HIDE DEF r
  <2> QED BY <2>2, <2>3, <1>0, BeginMade
<1>6. ASSUME NEW i \in Items, NEW g \in Slugs, NEW c \in Cats, CreateItem(s, i, g, c)
      PROVE  CategoryMade' /\ CatStep(s) /\ SomeCatBlame
  <2> DEFINE row == [slug |-> g, cat |-> c, deleted |-> FALSE]
             r == [pc |-> "saveItem", id |-> i, drop |-> {}, row |-> row]
  <2>1. r \in SaveItemCall /\ r # NoCatCall /\ r.pc # "softDelete"
    BY DEF SaveItemCall, LiveRow, ItemRow
  <2>2. /\ BeginCat(s, "createItem", r) /\ UNCHANGED catLoad /\ KeepRows /\ KeepPages /\ BlameCat({})
    BY <1>6 DEF CreateItem
  <2> HIDE DEF r
  <2> QED BY <2>1, <2>2, <1>0, BeginMade
<1>7. ASSUME NEW i \in Items, NEW g \in Slugs, NEW c \in Cats, UpdateItem(s, i, g, c)
      PROVE  CategoryMade' /\ CatStep(s) /\ SomeCatBlame
  <2> DEFINE row == [slug |-> g, cat |-> c, deleted |-> FALSE]
             fill == [pc |-> "fillId", id |-> i, old |-> item[i], new |-> row]
             check == [pc |-> "checkItem", id |-> i, old |-> idCached[i], new |-> row]
  <2>1. row \in LiveRow
    BY DEF LiveRow, ItemRow
  <2>2. idCached[i] = Nothing => fill \in FillIdCall
    BY <1>7, <2>1 DEF UpdateItem, FillIdCall, Live, LiveRow, CategoryMade, CategoryTypeOK
  <2>3. idCached[i] # Nothing => check \in CheckCall
    BY <2>1 DEF CheckCall, CategoryMade, PagesTyped
  <2>4. /\ fill # NoCatCall /\ fill.pc # "softDelete"
        /\ check # NoCatCall /\ check.pc # "softDelete"
    OBVIOUS
  <2>5. /\ UNCHANGED catLoad /\ KeepRows /\ KeepPages /\ BlameCat({})
        /\ idCached[i] = Nothing => BeginCat(s, "updateItem", fill)
        /\ idCached[i] # Nothing => BeginCat(s, "updateItem", check)
    BY <1>7 DEF UpdateItem
  <2> HIDE DEF row, fill, check
  <2>6. CASE idCached[i] = Nothing
    BY <2>2, <2>4, <2>5, <2>6, <1>0, BeginMade
  <2>7. CASE idCached[i] # Nothing
    BY <2>3, <2>4, <2>5, <2>7, <1>0, BeginMade
  <2> QED BY <2>6, <2>7
<1>8. ASSUME NEW i \in Items, DeleteItem(s, i)
      PROVE  CategoryMade' /\ CatStep(s) /\ SomeCatBlame
  <2>1. item[i] \in ItemRow /\ item[i] # Nothing
    BY <1>8 DEF DeleteItem, Live, CategoryMade, CategoryTypeOK
  <2>2. /\ UNCHANGED catLoad /\ KeepRows /\ KeepPages /\ BlameCat({})
        /\ \E h, slugs : /\ BeginCat(s, h, [pc |-> "softDelete", id |-> i, slugs |-> slugs])
                         /\ slugs \in SUBSET Slugs
    BY <1>8, <2>1 DEF DeleteItem, ItemRow
  <2>3. PICK h, slugs : /\ BeginCat(s, h, [pc |-> "softDelete", id |-> i, slugs |-> slugs])
                        /\ slugs \in SUBSET Slugs
    BY <2>2
  <2> DEFINE r == [pc |-> "softDelete", id |-> i, slugs |-> slugs]
  <2>4. r \in SoftDeleteCall /\ r # NoCatCall /\ r.id = i /\ BeginCat(s, h, r)
    BY <2>3 DEF SoftDeleteCall
  <2> HIDE DEF r
  <2> QED BY <2>1, <2>2, <2>4, <1>0, BeginMade
<1>9. ASSUME NEW i \in Items, FindItemById(s, i)
      PROVE  CategoryMade' /\ CatStep(s) /\ SomeCatBlame
  <2> DEFINE r == [pc |-> "fillId", id |-> i, old |-> item[i], new |-> Nothing]
  <2>1. r \in FillIdCall /\ r # NoCatCall /\ r.pc # "softDelete"
    BY <1>9 DEF FindItemById, FillIdCall, Live, LiveRow, CategoryMade, CategoryTypeOK
  <2>2. /\ BeginCat(s, "findId", r) /\ UNCHANGED catLoad /\ KeepRows /\ KeepPages /\ BlameCat({})
    BY <1>9 DEF FindItemById
  <2> HIDE DEF r
  <2> QED BY <2>1, <2>2, <1>0, BeginMade
<1> QED BY <1>1, <1>2, <1>3, <1>4, <1>5, <1>6, <1>7, <1>8, <1>9

(* A request that goes on, or ends.                                         *)
LEMMA SavesMade ==
  ASSUME CategoryMade, NEW s \in CatSlots, SaveCategory(s) \/ RemoveCategory(s)
  PROVE  CategoryMade' /\ CatStep(s) /\ SomeCatBlame
<1> DEFINE k == catCall[s]
<1>0. SomeCatBlame /\ s \in CatBusy
  BY DEF SaveCategory, RemoveCategory, SomeCatBlame, CatAt, CatBusy
<1>1. UNCHANGED <<item, catLoad>> /\ KeepPages
  BY DEF SaveCategory, RemoveCategory
<1>2. PagesTyped' /\ item' \in [Items -> ItemRow \cup {Nothing}] /\ SlugsUnique'
  BY <1>1 DEF KeepPages, CategoryMade, CategoryTypeOK, SlugsUnique, PagesTyped
<1>3. k \in SaveCatCall \/ k \in RemoveCatCall
  BY CatAtIs DEF SaveCategory, RemoveCategory
<1>4. category' \in [Cats -> Slugs \cup {Nothing}]
  <2>1. k.id \in Cats /\ k.slug \in Slugs
    BY <1>3 DEF SaveCatCall, RemoveCatCall
  <2>2. \/ category' = category \/ category' = [category EXCEPT ![k.id] = k.slug]
        \/ category' = [category EXCEPT ![k.id] = Nothing]
    BY DEF SaveCategory, RemoveCategory
  <2> HIDE DEF k
  <2> QED BY <2>1, <2>2 DEF CategoryMade, CategoryTypeOK
<1>5. PICK r : /\ catCall' = [catCall EXCEPT ![s] = r]
               /\ r = NoCatCall \/ (r \in DropCall /\ r.pc # "softDelete")
  <2>1. CASE SaveCategory(s)
    <3> DEFINE r == [pc |-> "dropCat", slugs |-> {k.old, k.slug}]
    <3>1. r \in DropCall /\ r.pc # "softDelete"
      BY <2>1, CatAtIs DEF SaveCategory, SaveCatCall, DropCall
    <3>2. EndCat(s) \/ StepCat(s, r)
      BY <2>1 DEF SaveCategory
    <3> QED BY <3>1, <3>2 DEF EndCat, StepCat
  <2>2. CASE RemoveCategory(s)
    <3> DEFINE r == [pc |-> "dropCat", slugs |-> {k.slug}]
    <3>1. r \in DropCall /\ r.pc # "softDelete"
      BY <2>2, CatAtIs DEF RemoveCategory, RemoveCatCall, DropCall
    <3>2. EndCat(s) \/ StepCat(s, r)
      BY <2>2 DEF RemoveCategory
    <3> QED BY <3>1, <3>2 DEF EndCat, StepCat
  <2> QED BY <2>1, <2>2
<1>6. CatCallMade(r)
  BY <1>5 DEF CatCallMade
<1> QED BY <1>0, <1>1, <1>2, <1>4, <1>5, <1>6, CatMadeBy

LEMMA PagesMade ==
  ASSUME CategoryMade, NEW s \in CatSlots,
         InvalidateCategories(s) \/ FillCategory(s) \/ FillItem(s) \/ StopCat(s)
  PROVE  CategoryMade' /\ CatStep(s) /\ SomeCatBlame
<1> DEFINE k == catCall[s]
<1>0. SomeCatBlame /\ s \in CatBusy
  <2> {} \in SUBSET CatFaults /\ {"stopped"} \in SUBSET CatFaults
    BY DEF CatFaults
  <2> QED BY DEF InvalidateCategories, FillCategory, FillItem, StopCat, SomeCatBlame, CatAt, CatBusy
<1>1. EndCat(s) /\ KeepRows /\ UNCHANGED catLoad
  BY DEF InvalidateCategories, FillCategory, FillItem, StopCat
<1>2. PagesTyped'
  <2> USE DEF PagesTyped, CategoryMade
  <2>1. CASE InvalidateCategories(s)
    BY <2>1 DEF InvalidateCategories
  <2>2. CASE FillCategory(s)
    <3>1. k \in FillCatCall
      BY <2>2, CatAtIs DEF FillCategory
    <3>2. k.slug \in Slugs /\ k.page \in CatPage
      BY <3>1 DEF FillCatCall
    <3> QED BY <2>2, <3>2 DEF FillCategory
  <2>3. CASE StopCat(s)
    BY <2>3 DEF StopCat, KeepPages
  <2>4. CASE FillItem(s)
    <3>1. k \in FillItemCall
      BY <2>4, CatAtIs DEF FillItem
    <3>2. k.slug \in Slugs /\ k.id \in Items
      BY <3>1 DEF FillItemCall
    <3> QED BY <2>4, <3>2 DEF FillItem
  <2> QED BY <2>1, <2>2, <2>3, <2>4
<1> QED BY <1>0, <1>1, <1>2, CatKept, CatMadeBy DEF EndCat, CatCallMade

(* An update() or a read goes on.                                           *)
LEMMA EditsMade ==
  ASSUME CategoryMade, NEW s \in CatSlots,
         FillId(s) \/ CheckItem(s) \/ InvalidateItem(s) \/ RereadItem(s)
  PROVE  CategoryMade' /\ CatStep(s) /\ SomeCatBlame
<1> DEFINE k == catCall[s]
<1>0. SomeCatBlame /\ s \in CatBusy
  BY DEF FillId, CheckItem, InvalidateItem, RereadItem, SomeCatBlame, CatAt, CatBusy
<1>1. KeepRows /\ UNCHANGED catLoad
  BY DEF FillId, CheckItem, InvalidateItem, RereadItem
<1>2. ASSUME NEW r, CatCallMade(r), EndCat(s) \/ StepCat(s, r), PagesTyped',
             r = NoCatCall \/ r.pc # "softDelete"
      PROVE  CategoryMade' /\ CatStep(s) /\ SomeCatBlame
  <2>1. CatCallMade(NoCatCall)
    BY DEF CatCallMade
  <2>2. CASE EndCat(s)
    BY <1>0, <1>1, <1>2, <2>1, <2>2, CatKept, CatMadeBy DEF EndCat
  <2>3. CASE StepCat(s, r)
    BY <1>0, <1>1, <1>2, <2>3, CatKept, CatMadeBy DEF StepCat
  <2> QED BY <1>2, <2>2, <2>3
<1>3. CASE FillId(s)
  <2>1. k \in FillIdCall
    BY <1>3, CatAtIs DEF FillId
  <2>2. k.id \in Items /\ k.old \in LiveRow
    BY <2>1 DEF FillIdCall
  <2> DEFINE r == [k EXCEPT !.pc = "checkItem"]
  <2>3. k.new = Nothing \/ (r \in CheckCall /\ r.pc # "softDelete")
    BY <2>1 DEF FillIdCall, CheckCall
  <2>4. PagesTyped'
    BY <1>3, <2>2 DEF FillId, PagesTyped, CategoryMade
  <2>5. IF k.new = Nothing THEN EndCat(s) ELSE StepCat(s, r)
    BY <1>3 DEF FillId
  <2> HIDE DEF k, r
  <2>6. CatCallMade(NoCatCall) /\ (r \in CheckCall => CatCallMade(r))
    BY DEF CatCallMade
  <2> QED BY <1>2, <2>3, <2>4, <2>5, <2>6
<1>4. CASE CheckItem(s)
  <2>1. k \in CheckCall
    BY <1>4, CatAtIs DEF CheckItem
  <2> DEFINE r == [pc |-> "saveItem", id |-> k.id, row |-> k.new, drop |-> {k.new.slug}]
  <2>2. r \in SaveItemCall /\ r.pc # "softDelete"
    BY <2>1 DEF CheckCall, SaveItemCall, LiveRow, ItemRow
  <2>3. PagesTyped' /\ (EndCat(s) \/ StepCat(s, r))
    BY <1>4 DEF CheckItem, KeepPages, PagesTyped, CategoryMade
  <2> HIDE DEF k, r
  <2>4. CatCallMade(r)
    BY <2>2 DEF CatCallMade
  <2> QED BY <1>2, <2>2, <2>3, <2>4
<1>5. CASE InvalidateItem(s)
  <2>1. k \in DropItemCall
    BY <1>5, CatAtIs DEF InvalidateItem
  <2> DEFINE r == [pc |-> "reread", id |-> k.id]
  <2>2. r \in RereadCall /\ r.pc # "softDelete"
    BY <2>1 DEF DropItemCall, RereadCall
  <2>3. EndCat(s) \/ StepCat(s, r)
    BY <1>5 DEF InvalidateItem, AfterDrop
  <2>4. PagesTyped'
    BY <1>5 DEF InvalidateItem, PagesTyped, CategoryMade
  <2> HIDE DEF k, r
  <2>5. CatCallMade(r)
    BY <2>2 DEF CatCallMade
  <2> QED BY <1>2, <2>2, <2>3, <2>4, <2>5
<1>6. CASE RereadItem(s)
  <2>1. k \in RereadCall
    BY <1>6, CatAtIs DEF RereadItem
  <2> DEFINE r == [pc |-> "fillId", id |-> k.id, old |-> item[k.id], new |-> Nothing]
  <2>2. k.id \in Live => r \in FillIdCall /\ r.pc # "softDelete"
    BY DEF FillIdCall, Live, LiveRow, CategoryMade, CategoryTypeOK
  <2>3. EndCat(s) \/ (StepCat(s, r) /\ k.id \in Live)
    BY <1>6 DEF RereadItem
  <2>4. PagesTyped'
    BY <1>6 DEF RereadItem, KeepPages, PagesTyped, CategoryMade
  <2> HIDE DEF k, r
  <2>5. CatCallMade(NoCatCall) /\ (r \in FillIdCall => CatCallMade(r))
    BY DEF CatCallMade
  <2> QED BY <1>2, <2>2, <2>3, <2>4, <2>5
<1> QED BY <1>3, <1>4, <1>5, <1>6

LEMMA ItemsMade ==
  ASSUME CategoryMade, NEW s \in CatSlots, SaveItem(s) \/ SoftDeleteItem(s)
  PROVE  CategoryMade' /\ CatStep(s) /\ SomeCatBlame
<1> DEFINE k == catCall[s]
<1>0. SomeCatBlame /\ s \in CatBusy
  <2>1. {"product"} \cup (IF catCall[s].slugs = {} THEN {"bulk"} ELSE {}) \in SUBSET CatFaults
    BY DEF CatFaults
  <2>2. SaveMarks(catCall[s]) \in SUBSET CatFaults
    BY DEF CatFaults, SaveMarks
  <2>3. /\ SaveItem(s) => BlameCat(SaveMarks(catCall[s]))
        /\ SoftDeleteItem(s)
             => BlameCat({"product"} \cup (IF catCall[s].slugs = {} THEN {"bulk"} ELSE {}))
    BY DEF SaveItem, SoftDeleteItem
  <2>4. SomeCatBlame
    BY <2>1, <2>2, <2>3 DEF SomeCatBlame
  <2> QED BY <2>4 DEF SaveItem, SoftDeleteItem, CatAt, CatBusy
<1>1. UNCHANGED <<category, catLoad>> /\ KeepPages
  BY DEF SaveItem, SoftDeleteItem
<1>2. PagesTyped' /\ category' \in [Cats -> Slugs \cup {Nothing}]
  BY <1>1 DEF KeepPages, CategoryMade, CategoryTypeOK, PagesTyped
<1>3. item \in [Items -> ItemRow \cup {Nothing}] /\ SlugsUnique
  BY DEF CategoryMade, CategoryTypeOK
<1>4. CASE SaveItem(s)
  <2>1. k \in SaveItemCall
    BY <1>4, CatAtIs DEF SaveItem
  <2>2. k.id \in Items /\ k.drop \in SUBSET Slugs /\ k.row \in ItemRow
    BY <2>1 DEF SaveItemCall, LiveRow
  <2> DEFINE r == [pc |-> "dropItem", id |-> k.id, slugs |-> k.drop, reread |-> TRUE]
  <2>3. r \in DropItemCall /\ r.pc # "softDelete"
    BY <2>2 DEF DropItemCall
  <2>4. CASE EndCat(s) /\ UNCHANGED item
    BY <1>0, <1>1, <1>2, <1>3, <2>4, CatMadeBy DEF EndCat, CatCallMade, SlugsUnique
  <2>5. CASE /\ SlugHolders(k.row.slug) \subseteq {k.id}
             /\ item' = [item EXCEPT ![k.id] = k.row] /\ StepCat(s, r)
    <3> HIDE DEF k, r
    <3>1. \A i \in Items : item'[i] = IF i = k.id THEN k.row ELSE item[i]
      BY <2>5, <1>3
    <3>2. item' \in [Items -> ItemRow \cup {Nothing}]
      BY <2>2, <2>5, <1>3
    <3>3. \A i \in Items : item[i] # Nothing => item'[i] # Nothing
      BY <2>2, <3>1, NothingAssumption
    <3>4. SlugsUnique'
      <4> SUFFICES ASSUME NEW i \in Items, NEW j \in Items, item'[i] # Nothing,
                          item'[j] # Nothing, item'[i].slug = item'[j].slug
                   PROVE  i = j
        BY DEF SlugsUnique
      <4>1. ASSUME NEW h \in Items, h # k.id, item[h] # Nothing, item[h].slug = k.row.slug
            PROVE  FALSE
        BY <2>5, <4>1 DEF SlugHolders
      <4>2. CASE i = k.id
        BY <3>1, <4>1, <4>2
      <4>3. CASE j = k.id
        BY <3>1, <4>1, <4>3
      <4>4. CASE i # k.id /\ j # k.id
        BY <3>1, <4>4, <1>3 DEF SlugsUnique
      <4> QED BY <4>2, <4>3, <4>4
    <3> QED BY <1>0, <1>1, <1>2, <2>3, <2>5, <3>2, <3>3, <3>4, CatMadeBy DEF StepCat, CatCallMade
  <2> QED BY <1>4, <2>4, <2>5 DEF SaveItem
<1>5. CASE SoftDeleteItem(s)
  <2>1. k \in SoftDeleteCall /\ item[k.id] # Nothing
    BY <1>5, CatAtIs DEF SoftDeleteItem, CategoryMade, DeletesExist
  <2>2. k.id \in Items /\ k.slugs \in SUBSET Slugs /\ item[k.id] \in ItemRow
    BY <2>1, <1>3 DEF SoftDeleteCall
  <2> DEFINE r == [pc |-> "dropItem", id |-> k.id, slugs |-> k.slugs, reread |-> FALSE]
             row == [item[k.id] EXCEPT !.deleted = TRUE]
  <2>3. r \in DropItemCall /\ r.pc # "softDelete"
    BY <2>2 DEF DropItemCall
  <2>4. item' = [item EXCEPT ![k.id] = row] /\ StepCat(s, r)
    BY <1>5 DEF SoftDeleteItem
  <2>5. row \in ItemRow /\ row.slug = item[k.id].slug
    BY <2>2 DEF ItemRow
  <2> HIDE DEF k, r, row
  <2>6. \A i \in Items : item'[i] = IF i = k.id THEN row ELSE item[i]
    BY <2>4, <1>3
  <2>7. item' \in [Items -> ItemRow \cup {Nothing}]
    BY <2>4, <2>5, <1>3
  <2>8. \A i \in Items : item[i] # Nothing => item'[i] # Nothing
    BY <2>5, <2>6, NothingAssumption
  <2>9. SlugsUnique'
    <3> SUFFICES ASSUME NEW i \in Items, NEW j \in Items, item'[i] # Nothing,
                        item'[j] # Nothing, item'[i].slug = item'[j].slug
                 PROVE  i = j
      BY DEF SlugsUnique
    <3>1. /\ item[i] # Nothing /\ item'[i].slug = item[i].slug
          /\ item[j] # Nothing /\ item'[j].slug = item[j].slug
      BY <2>1, <2>5, <2>6
    <3> QED BY <3>1, <1>3 DEF SlugsUnique
  <2> QED BY <1>0, <1>1, <1>2, <2>3, <2>4, <2>7, <2>8, <2>9, CatMadeBy DEF StepCat, CatCallMade
<1> QED BY <1>4, <1>5

(* Requests begin with what they read; then they move.                      *)
CatRequest(s) ==
  \/ \E c \in Cats, g \in Slugs : CreateCategory(s, c, g) \/ UpdateCategory(s, c, g)
  \/ \E c \in Cats : DeleteCategory(s, c)
  \/ \E g \in Slugs : FindCategory(s, g) \/ FindItem(s, g)
  \/ \E i \in Items, g \in Slugs, c \in Cats : CreateItem(s, i, g, c) \/ UpdateItem(s, i, g, c)
  \/ \E i \in Items : DeleteItem(s, i) \/ FindItemById(s, i)
CatMove(s) ==
  \/ SaveCategory(s) \/ RemoveCategory(s)
  \/ InvalidateCategories(s) \/ FillCategory(s) \/ FillItem(s) \/ StopCat(s)
  \/ FillId(s) \/ CheckItem(s) \/ InvalidateItem(s) \/ RereadItem(s)
  \/ SaveItem(s) \/ SoftDeleteItem(s)
CatExpires == (\E g \in Slugs : ExpirePage(g)) \/ (\E i \in Items : ExpireId(i))

LEMMA CatSteps ==
  ASSUME CategoryMade, CategoryNext
  PROVE  \/ \E s \in CatSlots : CatRequest(s) \/ CatMove(s)
         \/ CatExpires
<1>1. /\ \A s \in catLoad.slots : s \in CatSlots
      /\ \A c \in catLoad.cats : c \in Cats
      /\ \A i \in catLoad.items : i \in Items
  BY CatLoadAssumption DEF CategoryMade, CategoryTypeOK
<1> QED BY <1>1 DEF CategoryNext, CatRequest, CatMove, CatExpires

LEMMA CatMadeNext ==
  ASSUME CategoryMade, NEW s \in CatSlots, CatRequest(s) \/ CatMove(s)
  PROVE  CategoryMade' /\ CatStep(s) /\ SomeCatBlame
BY RequestsMade, SavesMade, PagesMade, EditsMade, ItemsMade DEF CatRequest, CatMove

LEMMA ExpireMade ==
  ASSUME CategoryMade, CatExpires
  PROVE  /\ CategoryMade' /\ SomeCatBlame /\ UNCHANGED catCall /\ KeepRows
         /\ \A h \in Slugs : /\ catCached'[h] \in {catCached[h], Nothing}
                             /\ itemCached'[h] \in {itemCached[h], Nothing}
         /\ \A i \in Items : idCached'[i] \in {idCached[i], Nothing}
<1>1. /\ UNCHANGED <<catCall, catLoad>> /\ KeepRows /\ SomeCatBlame
      /\ \A h \in Slugs : /\ catCached'[h] \in {catCached[h], Nothing}
                          /\ itemCached'[h] \in {itemCached[h], Nothing}
      /\ \A i \in Items : idCached'[i] \in {idCached[i], Nothing}
      /\ PagesTyped'
  <2> USE DEF CategoryMade, PagesTyped
  <2>1. ASSUME NEW g \in Slugs, ExpirePage(g)
        PROVE  /\ \A h \in Slugs : /\ catCached'[h] \in {catCached[h], Nothing}
                                   /\ itemCached'[h] \in {itemCached[h], Nothing}
               /\ idCached' = idCached /\ PagesTyped'
               /\ UNCHANGED <<catCall, catLoad>> /\ KeepRows /\ SomeCatBlame
    BY <2>1 DEF ExpirePage, SomeCatBlame
  <2>2. ASSUME NEW i \in Items, ExpireId(i)
        PROVE  /\ \A j \in Items : idCached'[j] \in {idCached[j], Nothing}
               /\ UNCHANGED <<catCached, itemCached>> /\ PagesTyped'
               /\ UNCHANGED <<catCall, catLoad>> /\ KeepRows /\ SomeCatBlame
    BY <2>2 DEF ExpireId, SomeCatBlame
  <2> QED BY <2>1, <2>2 DEF CatExpires
<1>2. catFault' \subseteq CatFaults
  BY <1>1 DEF SomeCatBlame, BlameCat, CategoryMade, CategoryTypeOK, CatFaults
<1>4. /\ category' \in [Cats -> Slugs \cup {Nothing}]
      /\ item' \in [Items -> ItemRow \cup {Nothing}]
      /\ SlugsUnique'
  BY <1>1, CatKept
<1>5. DeletesExist' /\ \A s \in CatSlots : CatCallMade(catCall'[s])
  BY <1>1 DEF CategoryMade, DeletesExist, CatAt, KeepRows
<1>6. idCached' \in [Items -> ItemRow \cup {Nothing}]
  BY <1>1 DEF PagesTyped, LiveRow
<1>7. CategoryTypeOK'
  BY <1>1, <1>2, <1>4, <1>6 DEF CategoryMade, CategoryTypeOK, PagesTyped
<1> QED BY <1>1, <1>4, <1>5, <1>7 DEF CategoryMade

-----------------------------------------------------------------------------
(* The inductive invariant: while no requests overlapped one runs at a      *)
(* time, what it has read is still so, and a page that is not true is about *)
(* to be dropped.                                                           *)
CatSingle == "overlap" \notin catFault => \A s, t \in CatBusy : s = t

PagesFit ==
  /\ (\E g \in Slugs : ~CatPageTrue(g)) => \E s \in CatBusy : CatAt(s, "dropCat")
  /\ \A s \in CatBusy : CatAt(s, "fillCat")
       => CatsWith(catCall[s].slug) # {} /\ catCall[s].page = Page(catCall[s].slug)
(* A call's read of a product is still so.                                  *)
CallFits(k) ==
  /\ k.pc = "fillItem" => k.id \in ItemsWith(k.slug)
  /\ k.pc \in {"fillId", "checkItem"} => k.id \in Live /\ k.old = item[k.id]
  /\ k.pc = "saveItem" => IF k.drop = {} THEN item[k.id] = Nothing
                          ELSE k.id \in Live /\ k.drop = {k.row.slug}
  /\ k.pc = "softDelete" => k.id \in Live /\ k.slugs \in {{}, {item[k.id].slug}}
ItemCallFits(s) == catCall[s] # NoCatCall => CallFits(catCall[s])
(* What a call at work is going to drop.                                    *)
DropsPage(g) == \E s \in CatBusy : CatAt(s, "dropItem") /\ g \in catCall[s].slugs
DropsCopy(i) ==
  \E s \in CatBusy : /\ CatAt(s, "dropItem") /\ catCall[s].id = i
                     /\ catCall[s].slugs # {}
ItemsFit ==
  /\ \A g \in Slugs : ItemPageTrue(g) \/ DropsPage(g)
  /\ \A i \in Items : IdCopyTrue(i) \/ DropsCopy(i)
  /\ \A s \in CatBusy : ItemCallFits(s)

PagesClean == catFault \cap {"overlap", "product", "stopped"} = {}
ItemsClean == catFault \cap {"overlap", "stopped", "renamed", "bulk"} = {}

CategoryInv == /\ CategoryMade /\ CatSingle
               /\ PagesClean => PagesFit
               /\ ItemsClean => ItemsFit

LEMMA CatQuietIsGood ==
  CategoryMade /\ CatQuiet => CategoryInv
BY DEF CatQuiet, CategoryInv, CatSingle, PagesFit, ItemsFit

LEMMA CatQuietNext ==
  CategoryMade' /\ CatQuiet' => CategoryInv'
<1>1. (CategoryMade /\ CatQuiet => CategoryInv)'
  BY CatQuietIsGood, PTL
<1> QED BY <1>1

LEMMA CatBlameFact ==
  ASSUME NEW marks, BlameCat(marks), ~CatQuiet'
  PROVE  /\ catFault \cup marks \subseteq catFault'
         /\ "overlap" \notin catFault' => \A s, t \in CatBusy' : s = t
<1>1. catFault' = catFault \cup marks \cup
         (IF Cardinality(CatBusy') > 1 THEN {"overlap"} ELSE {})
  BY DEF BlameCat, CatQuiet
<1>2. ASSUME NEW s \in CatBusy', NEW t \in CatBusy', s # t
      PROVE  Cardinality(CatBusy') > 1
  <2>1. IsFiniteSet(CatBusy')
    BY CatSlotAssumption, FS_Subset DEF CatBusy
  <2>2. Cardinality({s}) = 1 /\ Cardinality({s, t}) = 2
    <3>1. IsFiniteSet({s}) /\ Cardinality({s}) = 1
      BY FS_Singleton
    <3>2. Cardinality({s} \cup {t}) = 2
      BY <1>2, <3>1, FS_AddElement
    <3>3. {s} \cup {t} = {s, t}
      OBVIOUS
    <3> QED BY <3>1, <3>2, <3>3
  <2>3. Cardinality({s, t}) <= Cardinality(CatBusy')
    BY <2>1, FS_Subset
  <2>4. Cardinality(CatBusy') \in Nat
    BY <2>1, FS_CardinalityType
  <2> QED BY <2>2, <2>3, <2>4
<1> QED BY <1>1, <1>2

LEMMA CatStepAlone ==
  ASSUME CategoryMade, CatSingle, NEW s \in CatSlots, CatStep(s), SomeCatBlame, ~CatQuiet',
         "overlap" \notin catFault'
  PROVE  CatBusy \subseteq {s} /\ CatBusy' \subseteq {s}
<1>1. /\ catFault \subseteq catFault' /\ \A t, u \in CatBusy' : t = u
  BY CatBlameFact DEF SomeCatBlame
<1>2. \A t, u \in CatBusy : t = u
  BY <1>1 DEF CatSingle
<1>3. \A t \in CatSlots : t # s => catCall'[t] = catCall[t]
  BY DEF CatStep, CategoryMade, CategoryTypeOK
<1>4. \A t \in CatSlots \ {s} : t \in CatBusy <=> t \in CatBusy'
  BY <1>3 DEF CatBusy
<1>5. s \in CatBusy \/ s \in CatBusy'
  BY DEF CatStep, CatBusy
<1> QED BY <1>1, <1>2, <1>4, <1>5 DEF CatBusy

-----------------------------------------------------------------------------
LEMMA RequestKeeps ==
  ASSUME CategoryMade, NEW s \in CatSlots, CatRequest(s)
  PROVE  KeepRows /\ KeepPages /\ s \notin CatBusy
<1>1. PICK h, r : BeginCat(s, h, r)
  BY DEF CatRequest, CreateCategory, UpdateCategory, DeleteCategory, FindCategory, FindItem,
         CreateItem, UpdateItem, DeleteItem, FindItemById
<1>2. KeepRows /\ KeepPages
  BY DEF CatRequest, CreateCategory, UpdateCategory, DeleteCategory, FindCategory, FindItem,
         CreateItem, UpdateItem, DeleteItem, FindItemById
<1> QED BY <1>1, <1>2 DEF BeginCat, CatBusy

(* What a request has read when its first access is over.                   *)
CatRead(k) ==
  /\ k.pc = "fillCat" => CatsWith(k.slug) # {} /\ k.page = Page(k.slug)
  /\ (\A i \in Items : IdCopyTrue(i)) => CallFits(k)

LEMMA RequestReads ==
  ASSUME CategoryMade, NEW s \in CatSlots, CatRequest(s)
  PROVE  \E k : k = catCall'[s] /\ CatRead(k)
<1> USE DEF CatRead, CallFits
<1>1. ASSUME NEW c \in Cats, NEW g \in Slugs, CreateCategory(s, c, g)
      PROVE  \E k : k = catCall'[s] /\ CatRead(k)
  BY <1>1, CatNow DEF CreateCategory
<1>2. ASSUME NEW c \in Cats, NEW g \in Slugs, UpdateCategory(s, c, g)
      PROVE  \E k : k = catCall'[s] /\ CatRead(k)
  BY <1>2, CatNow DEF UpdateCategory
<1>3. ASSUME NEW c \in Cats, DeleteCategory(s, c)
      PROVE  \E k : k = catCall'[s] /\ CatRead(k)
  BY <1>3, CatNow DEF DeleteCategory
<1>4. ASSUME NEW g \in Slugs, FindCategory(s, g)
      PROVE  \E k : k = catCall'[s] /\ CatRead(k)
  BY <1>4, CatNow DEF FindCategory
<1>5. ASSUME NEW g \in Slugs, FindItem(s, g)
      PROVE  \E k : k = catCall'[s] /\ CatRead(k)
  <2>1. PICK i \in ItemsWith(g) : catCall'[s] = [pc |-> "fillItem", slug |-> g, id |-> i]
    BY <1>5, CatNow DEF FindItem
  <2> QED BY <2>1
<1>6. ASSUME NEW i \in Items, NEW g \in Slugs, NEW c \in Cats, CreateItem(s, i, g, c)
      PROVE  \E k : k = catCall'[s] /\ CatRead(k)
  BY <1>6, CatNow DEF CreateItem
<1>7. ASSUME NEW i \in Items, NEW g \in Slugs, NEW c \in Cats, UpdateItem(s, i, g, c)
      PROVE  \E k : k = catCall'[s] /\ CatRead(k)
  <2> DEFINE row == [slug |-> g, cat |-> c, deleted |-> FALSE]
             fill == [pc |-> "fillId", id |-> i, old |-> item[i], new |-> row]
             check == [pc |-> "checkItem", id |-> i, old |-> idCached[i], new |-> row]
  <2>1. /\ idCached[i] = Nothing => catCall'[s] = fill /\ i \in Live
        /\ idCached[i] # Nothing => catCall'[s] = check
    BY <1>7, CatNow DEF UpdateItem
  <2>2. /\ fill.pc = "fillId" /\ fill.id = i /\ fill.old = item[i]
        /\ check.pc = "checkItem" /\ check.id = i /\ check.old = idCached[i]
    OBVIOUS
  <2>3. idCached[i] # Nothing /\ IdCopyTrue(i) => i \in Live /\ idCached[i] = item[i]
    BY DEF IdCopyTrue, Live, CategoryMade, PagesTyped, LiveRow
  <2> HIDE DEF row, fill, check
  <2>4. CASE idCached[i] = Nothing
    BY <2>1, <2>2, <2>4
  <2>5. CASE idCached[i] # Nothing
    BY <2>1, <2>2, <2>3, <2>5
  <2> QED BY <2>4, <2>5
<1>8. ASSUME NEW i \in Items, DeleteItem(s, i)
      PROVE  \E k : k = catCall'[s] /\ CatRead(k)
  <2>1. /\ i \in Live
        /\ \E slugs : /\ catCall'[s] = [pc |-> "softDelete", id |-> i, slugs |-> slugs]
                      /\ slugs \in {{}, {item[i].slug}}
    BY <1>8, CatNow DEF DeleteItem
  <2>2. PICK slugs : /\ catCall'[s] = [pc |-> "softDelete", id |-> i, slugs |-> slugs]
                     /\ slugs \in {{}, {item[i].slug}}
    BY <2>1
  <2> QED BY <2>1, <2>2
<1>9. ASSUME NEW i \in Items, FindItemById(s, i)
      PROVE  \E k : k = catCall'[s] /\ CatRead(k)
  BY <1>9, CatNow DEF FindItemById
<1> QED BY <1>1, <1>2, <1>3, <1>4, <1>5, <1>6, <1>7, <1>8, <1>9 DEF CatRequest

LEMMA PagesSame ==
  ASSUME KeepRows, KeepPages
  PROVE  /\ \A g \in Slugs : (CatPageTrue(g)' <=> CatPageTrue(g))
                              /\ (ItemPageTrue(g)' <=> ItemPageTrue(g))
         /\ \A i \in Items : IdCopyTrue(i)' <=> IdCopyTrue(i)
         /\ \A g : /\ CatsWith(g)' = CatsWith(g) /\ Page(g)' = Page(g)
                   /\ ItemsWith(g)' = ItemsWith(g)
<1> USE DEF KeepRows, KeepPages
<1>1. Live' = Live
  BY DEF Live
<1>2. \A g : CatsWith(g)' = CatsWith(g) /\ Page(g)' = Page(g) /\ ItemsWith(g)' = ItemsWith(g)
  BY <1>1 DEF CatsWith, Page, ItemsOf, ItemsWith
<1> QED BY <1>2 DEF CatPageTrue, ItemPageTrue, IdCopyTrue

LEMMA CallFitsKept ==
  ASSUME KeepRows
  PROVE  \A k : CallFits(k)' <=> CallFits(k)
<1>1. item' = item /\ Live' = Live /\ \A g : ItemsWith(g)' = ItemsWith(g)
  BY DEF KeepRows, Live, ItemsWith
<1> QED BY <1>1 DEF CallFits

LEMMA RequestPages ==
  ASSUME CategoryMade, NEW s \in CatSlots, CatBusy \subseteq {s}, CatBusy' \subseteq {s},
         PagesFit, CatRequest(s)
  PROVE  PagesFit'
<1>1. KeepRows /\ KeepPages /\ CatBusy = {}
  BY RequestKeeps
<1>2. \A g \in Slugs : CatPageTrue(g)'
  BY <1>1, PagesSame DEF PagesFit
<1> DEFINE k == catCall'[s]
<1>3. k.pc # "fillCat" \/ (CatsWith(k.slug) # {} /\ k.page = Page(k.slug))
  BY RequestReads DEF CatRead
<1>4. ASSUME NEW t \in CatBusy', CatAt(t, "fillCat")'
      PROVE  CatsWith(catCall[t].slug)' # {} /\ catCall'[t].page = Page(catCall[t].slug)'
  <2>1. t = s
    OBVIOUS
  <2>2. CatsWith(k.slug) # {} /\ k.page = Page(k.slug)
    BY <1>3, <1>4, <2>1 DEF CatAt
  <2>3. CatsWith(catCall[s].slug)' = CatsWith(k.slug) /\ Page(catCall[s].slug)' = Page(k.slug)
    BY <1>1 DEF KeepRows, CatsWith, Page, ItemsOf, Live
  <2> QED BY <2>1, <2>2, <2>3
<1> QED BY <1>2, <1>4 DEF PagesFit

LEMMA MovePages ==
  ASSUME CategoryMade, NEW s \in CatSlots, CatBusy \subseteq {s}, CatBusy' \subseteq {s},
         PagesFit, PagesClean', ~CatQuiet', CatMove(s)
  PROVE  PagesFit'
<1> DEFINE k == catCall[s]
           n == catCall'[s]
<1>1. ASSUME n = NoCatCall \/ n.pc # "fillCat",
             \A g \in Slugs : CatPageTrue(g)'
      PROVE  PagesFit'
  BY <1>1 DEF PagesFit, CatAt, CatBusy
<1>2. ~CatAt(s, "dropCat") => \A g \in Slugs : CatPageTrue(g)
  BY DEF PagesFit
<1>3. ASSUME SaveCategory(s) \/ RemoveCategory(s)
      PROVE  PagesFit'
  <2>1. CASE n # NoCatCall /\ n.pc = "dropCat"
    BY <2>1 DEF PagesFit, CatAt, CatBusy
  <2>2. CASE EndCat(s) /\ UNCHANGED category
    <3>1. KeepRows /\ KeepPages /\ ~CatAt(s, "dropCat") /\ n = NoCatCall
      BY <1>3, <2>2, CatNow DEF SaveCategory, RemoveCategory, KeepRows, CatAt
    <3> QED BY <1>1, <1>2, <3>1, PagesSame
  <2>3. (n # NoCatCall /\ n.pc = "dropCat") \/ (EndCat(s) /\ UNCHANGED category)
    <3>1. ASSUME NEW x, StepCat(s, [pc |-> "dropCat", slugs |-> x])
          PROVE  n # NoCatCall /\ n.pc = "dropCat"
      BY <3>1, CatNow DEF NoCatCall
    <3> QED BY <1>3, <3>1 DEF SaveCategory, RemoveCategory
  <2> QED BY <2>1, <2>2, <2>3
<1>4. ASSUME InvalidateCategories(s) PROVE PagesFit'
  <2>1. n = NoCatCall /\ \A g \in Slugs : catCached'[g] = Nothing
    BY <1>4, CatNow DEF InvalidateCategories
  <2> QED BY <1>1, <2>1 DEF CatPageTrue
<1>5. ASSUME FillCategory(s) PROVE PagesFit'
  <2>1. /\ CatAt(s, "fillCat") /\ s \in CatBusy /\ k.slug \in Slugs
        /\ n = NoCatCall /\ KeepRows /\ catCached' = [catCached EXCEPT ![k.slug] = k.page]
    BY <1>5, CatNow, CatAtIs DEF FillCategory, CatAt, CatBusy, FillCatCall
  <2>2. CatsWith(k.slug) # {} /\ k.page = Page(k.slug)
    BY <2>1 DEF PagesFit
  <2>3. \A g \in Slugs : CatPageTrue(g)
    BY <1>2, <2>1 DEF CatAt
  <2>4. \A g : CatsWith(g)' = CatsWith(g) /\ Page(g)' = Page(g)
    BY <2>1 DEF KeepRows, CatsWith, Page, ItemsOf, Live
  <2>5. \A g \in Slugs : catCached'[g] = IF g = k.slug THEN k.page ELSE catCached[g]
    BY <2>1 DEF CategoryMade, CategoryTypeOK
  <2>6. \A g \in Slugs : CatPageTrue(g)'
    <3> HIDE DEF k
    <3> QED BY <2>2, <2>3, <2>4, <2>5 DEF CatPageTrue
  <2> QED BY <1>1, <2>1, <2>6
<1>6. ASSUME \/ FillItem(s) \/ FillId(s) \/ CheckItem(s)
             \/ InvalidateItem(s) \/ RereadItem(s)
      PROVE  PagesFit'
  <2>0. n = NoCatCall \/ n.pc # "fillCat"
    <3>1. EndCat(s) => n = NoCatCall
      BY CatNow
    <3>2. ASSUME NEW r, StepCat(s, r), r.pc # "fillCat" PROVE n.pc # "fillCat"
      BY <3>2, CatNow
    <3>3. EndCat(s) \/ \E r : StepCat(s, r) /\ r.pc # "fillCat"
      <4>1. CASE FillId(s)
        <5>1. k \in FillIdCall
          BY <4>1, CatAtIs DEF FillId
        <5>2. [k EXCEPT !.pc = "checkItem"].pc # "fillCat"
          BY <5>1 DEF FillIdCall
        <5> HIDE DEF k
        <5> QED BY <4>1, <5>2 DEF FillId, k
      <4>2. CASE FillItem(s) \/ CheckItem(s)
        BY <4>2 DEF FillItem, CheckItem
      <4>3. CASE InvalidateItem(s) \/ RereadItem(s)
        BY <4>3 DEF InvalidateItem, AfterDrop, RereadItem
      <4> QED BY <1>6, <4>1, <4>2, <4>3
    <3> QED BY <3>1, <3>2, <3>3
  <2>1. KeepRows /\ UNCHANGED catCached /\ ~CatAt(s, "dropCat")
    BY <1>6 DEF InvalidateItem, FillItem, FillId, CheckItem, RereadItem, KeepPages, CatAt
  <2>2. \A g : CatsWith(g)' = CatsWith(g) /\ Page(g)' = Page(g)
    BY <2>1 DEF KeepRows, CatsWith, Page, ItemsOf, Live
  <2>3. \A g \in Slugs : CatPageTrue(g)'
    BY <1>2, <2>1, <2>2 DEF CatPageTrue
  <2> QED BY <1>1, <2>0, <2>3
<1>7. ASSUME SaveItem(s) \/ SoftDeleteItem(s) PROVE PagesFit'
  <2>1. \E marks : "product" \in marks /\ BlameCat(marks)
    BY <1>7 DEF SaveItem, SoftDeleteItem, SaveMarks
  <2>2. "product" \in catFault'
    BY <2>1, CatBlameFact
  <2> QED BY <2>2 DEF PagesClean
<1>8. ASSUME StopCat(s) PROVE PagesFit'
  <2>1. "stopped" \in catFault'
    BY <1>8, CatBlameFact DEF StopCat
  <2> QED BY <2>1 DEF PagesClean
<1> QED BY <1>3, <1>4, <1>5, <1>6, <1>7, <1>8 DEF CatMove

-----------------------------------------------------------------------------
LEMMA RequestItems ==
  ASSUME CategoryMade, NEW s \in CatSlots, CatBusy \subseteq {s}, CatBusy' \subseteq {s},
         ItemsFit, CatRequest(s)
  PROVE  ItemsFit'
<1>1. KeepRows /\ KeepPages /\ CatBusy = {}
  BY RequestKeeps
<1>2. /\ \A g \in Slugs : ItemPageTrue(g) /\ ItemPageTrue(g)'
      /\ \A i \in Items : IdCopyTrue(i) /\ IdCopyTrue(i)'
  BY <1>1, PagesSame DEF ItemsFit, DropsPage, DropsCopy
<1>3. PICK k : k = catCall'[s] /\ CatRead(k)
  BY RequestReads
<1>4. CallFits(k)'
  BY <1>1, <1>2, <1>3, CallFitsKept DEF CatRead
<1>5. ItemCallFits(s)'
  BY <1>3, <1>4 DEF ItemCallFits, CallFits
<1>6. \A t \in CatBusy' : t = s
  OBVIOUS
<1> QED BY <1>2, <1>5, <1>6 DEF ItemsFit

(* One call moves: what it needs to leave behind.                           *)
LEMMA MovedFit ==
  ASSUME NEW s \in CatSlots, CatBusy' \subseteq {s}, NEW n, n = catCall'[s],
         n = NoCatCall \/ CallFits(n)',
         \A g \in Slugs : ItemPageTrue(g)'
               \/ (n # NoCatCall /\ n.pc = "dropItem" /\ g \in n.slugs),
         \A i \in Items : IdCopyTrue(i)'
               \/ (n # NoCatCall /\ n.pc = "dropItem" /\ n.id = i /\ n.slugs # {})
  PROVE  ItemsFit'
<1>1. ItemCallFits(s)'
  BY DEF ItemCallFits, CallFits
<1>2. \A t \in CatBusy' : t = s
  OBVIOUS
<1>3. n # NoCatCall => s \in CatBusy'
  BY DEF CatBusy
<1>4. \A g \in Slugs : ItemPageTrue(g)' \/ DropsPage(g)'
  BY <1>3 DEF DropsPage, CatAt
<1>5. \A i \in Items : IdCopyTrue(i)' \/ DropsCopy(i)'
  BY <1>3 DEF DropsCopy, CatAt
<1> QED BY <1>1, <1>2, <1>4, <1>5 DEF ItemsFit

LEMMA MoveItems ==
  ASSUME CategoryMade, NEW s \in CatSlots, CatBusy \subseteq {s}, CatBusy' \subseteq {s},
         ItemsFit, ItemsClean', ~CatQuiet', CatMove(s)
  PROVE  ItemsFit'
<1> DEFINE k == catCall[s]
<1>0. s \in CatBusy /\ k # NoCatCall /\ CallFits(k)
  <2>1. s \in CatBusy
    BY DEF CatMove, SaveCategory, RemoveCategory, InvalidateCategories, FillCategory, FillItem,
           StopCat, FillId, CheckItem, InvalidateItem, RereadItem, SaveItem, SoftDeleteItem,
           CatAt, CatBusy
  <2> QED BY <2>1 DEF CatBusy, ItemsFit, ItemCallFits
<1>1. /\ \A g \in Slugs : ItemPageTrue(g) \/ (k.pc = "dropItem" /\ g \in k.slugs)
      /\ \A i \in Items : IdCopyTrue(i) \/ (k.pc = "dropItem" /\ k.id = i /\ k.slugs # {})
  BY DEF ItemsFit, DropsPage, DropsCopy, CatAt
<1>2. PICK n : n = catCall'[s]
  OBVIOUS
<1>3. (EndCat(s) => n = NoCatCall) /\ \A r : StepCat(s, r) => n = r
  BY <1>2, CatNow
<1>4. ASSUME SaveCategory(s) \/ RemoveCategory(s) \/ InvalidateCategories(s) \/ FillCategory(s)
      PROVE  ItemsFit'
  <2>1. UNCHANGED <<item, itemCached, idCached>> /\ k.pc # "dropItem"
    BY <1>4 DEF SaveCategory, RemoveCategory, InvalidateCategories, FillCategory, KeepRows,
                KeepPages, CatAt
  <2>2. /\ \A g \in Slugs : ItemPageTrue(g)'
        /\ \A i \in Items : IdCopyTrue(i)'
    BY <1>1, <2>1 DEF ItemPageTrue, ItemsWith, Live, IdCopyTrue
  <2>3. n = NoCatCall \/ \E x : n = [pc |-> "dropCat", slugs |-> x]
    BY <1>3, <1>4 DEF SaveCategory, RemoveCategory, InvalidateCategories, FillCategory
  <2>4. n = NoCatCall \/ CallFits(n)'
    BY <2>3 DEF CallFits
  <2> QED BY <1>2, <2>2, <2>4, MovedFit
<1>5. ASSUME StopCat(s) PROVE ItemsFit'
  <2>1. "stopped" \in catFault'
    BY <1>5, CatBlameFact DEF StopCat
  <2> QED BY <2>1 DEF ItemsClean
<1>6. ASSUME InvalidateItem(s) PROVE ItemsFit'
  <2>1. /\ KeepRows
        /\ \A g \in Slugs : itemCached'[g] = IF g \in k.slugs THEN Nothing ELSE itemCached[g]
        /\ \A i \in Items : idCached'[i] = IF i = k.id /\ k.slugs # {} THEN Nothing
                                           ELSE idCached[i]
    BY <1>6 DEF InvalidateItem
  <2>2. /\ \A g \in Slugs : ItemPageTrue(g)'
        /\ \A i \in Items : IdCopyTrue(i)'
    BY <1>1, <2>1 DEF ItemPageTrue, ItemsWith, Live, KeepRows, IdCopyTrue
  <2>3. n = NoCatCall \/ \E x : n = [pc |-> "reread", id |-> x]
    BY <1>3, <1>6 DEF InvalidateItem, AfterDrop
  <2>4. n = NoCatCall \/ CallFits(n)'
    BY <2>3 DEF CallFits
  <2> QED BY <1>2, <2>2, <2>4, MovedFit
<1>7. ASSUME RereadItem(s) \/ CheckItem(s) PROVE ItemsFit'
  <2>1. KeepRows /\ KeepPages /\ k.pc \in {"reread", "checkItem"}
    BY <1>7 DEF RereadItem, CheckItem, CatAt
  <2>2. /\ \A g \in Slugs : ItemPageTrue(g)'
        /\ \A i \in Items : IdCopyTrue(i)'
    BY <1>1, <2>1, PagesSame
  <2>3. n = NoCatCall \/ CallFits(n)
    <3>1. CASE RereadItem(s)
      <4>1. \/ n = NoCatCall
            \/ /\ k.id \in Live
               /\ n = [pc |-> "fillId", id |-> k.id, old |-> item[k.id], new |-> Nothing]
        BY <1>3, <3>1 DEF RereadItem
      <4> QED BY <4>1 DEF CallFits
    <3>2. CASE CheckItem(s)
      <4>1. k.pc = "checkItem" /\ k.id \in Live
        BY <1>0, <3>2 DEF CheckItem, CatAt, CallFits
      <4>2. \/ n = NoCatCall
            \/ n = [pc |-> "saveItem", id |-> k.id, row |-> k.new, drop |-> {k.new.slug}]
        BY <1>3, <3>2 DEF CheckItem
      <4> QED BY <4>1, <4>2 DEF CallFits
    <3> QED BY <1>7, <3>1, <3>2
  <2>4. n = NoCatCall \/ CallFits(n)'
    BY <2>1, <2>3, CallFitsKept
  <2> QED BY <1>2, <2>2, <2>4, MovedFit
<1>8. ASSUME FillId(s) PROVE ItemsFit'
  <2>1. /\ KeepRows /\ itemCached' = itemCached /\ k \in FillIdCall /\ k.pc = "fillId"
        /\ idCached' = [idCached EXCEPT ![k.id] = k.old]
    BY <1>8, CatAtIs DEF FillId, CatAt
  <2>2. k.id \in Live /\ k.old = item[k.id]
    BY <1>0, <2>1 DEF CallFits
  <2>3. \A i \in Items : idCached'[i] = IF i = k.id THEN k.old ELSE idCached[i]
    BY <2>1 DEF CategoryMade, CategoryTypeOK
  <2>4. \A g \in Slugs : ItemPageTrue(g)'
    BY <1>1, <2>1 DEF ItemPageTrue, ItemsWith, Live, KeepRows
  <2>5. \A i \in Items : IdCopyTrue(i)'
    BY <1>1, <2>1, <2>2, <2>3 DEF IdCopyTrue, KeepRows
  <2>6. n = NoCatCall \/ n = [k EXCEPT !.pc = "checkItem"]
    BY <1>3, <1>8 DEF FillId
  <2>7. n = NoCatCall \/ (n.pc = "checkItem" /\ n.id = k.id /\ n.old = k.old)
    BY <2>1, <2>6 DEF FillIdCall
  <2>8. n = NoCatCall \/ CallFits(n)
    BY <2>2, <2>7 DEF CallFits
  <2>9. n = NoCatCall \/ CallFits(n)'
    BY <2>1, <2>8, CallFitsKept
  <2> QED BY <1>2, <2>4, <2>5, <2>9, MovedFit
<1>9. ASSUME FillItem(s) PROVE ItemsFit'
  <2>1. /\ k.pc = "fillItem" /\ n = NoCatCall /\ KeepRows /\ idCached' = idCached
        /\ itemCached' = [itemCached EXCEPT ![k.slug] = k.id]
    BY <1>3, <1>9 DEF FillItem, CatAt
  <2>2. k.id \in ItemsWith(k.slug)
    BY <1>0, <2>1 DEF CallFits
  <2>3. ItemsWith(k.slug) = {k.id}
    BY <2>2 DEF ItemsWith, Live, CategoryMade, SlugsUnique
  <2>4. \A g \in Slugs : itemCached'[g] = IF g = k.slug THEN k.id ELSE itemCached[g]
    BY <2>1 DEF CategoryMade, CategoryTypeOK
  <2>5. \A g : ItemsWith(g)' = ItemsWith(g)
    BY <2>1 DEF KeepRows, ItemsWith, Live
  <2>6. \A g \in Slugs : ItemPageTrue(g)
    BY <1>1, <2>1
  <2>7. \A g \in Slugs : ItemPageTrue(g)'
    <3> HIDE DEF k
    <3> QED BY <2>3, <2>4, <2>5, <2>6 DEF ItemPageTrue
  <2>8. \A i \in Items : IdCopyTrue(i)'
    BY <1>1, <2>1 DEF IdCopyTrue, KeepRows
  <2> QED BY <1>2, <2>1, <2>7, <2>8, MovedFit
<1>10. ASSUME SaveItem(s) PROVE ItemsFit'
  <2>1. /\ k.pc = "saveItem" /\ k \in SaveItemCall /\ KeepPages
        /\ BlameCat(SaveMarks(k))
    BY <1>10, CatAtIs DEF SaveItem, CatAt
  <2>2. /\ \A g \in Slugs : ItemPageTrue(g)
        /\ \A i \in Items : IdCopyTrue(i)
    BY <1>1, <2>1
  <2>3. /\ k.drop = {} => item[k.id] = Nothing
        /\ k.drop # {} => k.id \in Live /\ k.drop = {k.row.slug}
    BY <1>0, <2>1 DEF CallFits
  <2>4. item[k.id] # Nothing => item[k.id].slug = k.row.slug
    <3>1. "renamed" \notin SaveMarks(k)
      BY <2>1, CatBlameFact DEF ItemsClean
    <3> QED BY <3>1 DEF SaveMarks
  <2>5. CASE EndCat(s) /\ UNCHANGED item
    <3>1. \A g \in Slugs : ItemPageTrue(g)'
      BY <2>1, <2>2, <2>5 DEF KeepPages, ItemPageTrue, ItemsWith, Live
    <3>2. \A i \in Items : IdCopyTrue(i)'
      BY <2>1, <2>2, <2>5 DEF KeepPages, IdCopyTrue
    <3> QED BY <1>2, <1>3, <2>5, <3>1, <3>2, MovedFit
  <2>6. CASE /\ SlugHolders(k.row.slug) \subseteq {k.id}
             /\ item' = [item EXCEPT ![k.id] = k.row]
             /\ StepCat(s, [pc |-> "dropItem", id |-> k.id, slugs |-> k.drop, reread |-> TRUE])
    <3>1. /\ n = [pc |-> "dropItem", id |-> k.id, slugs |-> k.drop, reread |-> TRUE]
          /\ n # NoCatCall /\ n.pc = "dropItem" /\ n.id = k.id /\ n.slugs = k.drop
      <4>1. n = [pc |-> "dropItem", id |-> k.id, slugs |-> k.drop, reread |-> TRUE]
        BY <2>6, <1>3
      <4> QED BY <4>1 DEF NoCatCall
    <3>2. k.id \in Items /\ k.row \in ItemRow /\ ~k.row.deleted
      BY <2>1 DEF SaveItemCall, LiveRow
    <3>3. \A i \in Items : item'[i] = IF i = k.id THEN k.row ELSE item[i]
      BY <2>6 DEF CategoryMade, CategoryTypeOK
    <3> HIDE DEF k
    <3>4. ASSUME NEW g \in Slugs PROVE ItemPageTrue(g)' \/ g \in n.slugs
      <4>1. CASE g = k.row.slug /\ item[k.id] = Nothing
        <5>1. ItemsWith(g) = {}
          BY <2>6, <4>1 DEF ItemsWith, Live, SlugHolders
        <5>2. itemCached'[g] = Nothing
          BY <5>1, <2>1, <2>2 DEF ItemPageTrue, KeepPages
        <5> QED BY <5>2 DEF ItemPageTrue
      <4>2. CASE g = k.row.slug /\ item[k.id] # Nothing
        BY <2>3, <3>1, <4>2
      <4>3. CASE g # k.row.slug
        <5>1. k.id \notin ItemsWith(g)
          BY <2>4, <4>3 DEF ItemsWith, Live
        <5>2. k.id \notin ItemsWith(g)'
          BY <3>3, <4>3 DEF ItemsWith, Live
        <5>3. ItemsWith(g)' = ItemsWith(g)
          BY <5>1, <5>2, <3>3 DEF ItemsWith, Live
        <5> QED BY <5>3, <2>1, <2>2 DEF ItemPageTrue, KeepPages
      <4> QED BY <4>1, <4>2, <4>3
    <3>5. ASSUME NEW i \in Items PROVE IdCopyTrue(i)' \/ (n.id = i /\ n.slugs # {})
      <4>1. CASE i = k.id /\ k.drop = {}
        <5>1. idCached[i] = Nothing
          BY <2>2, <2>3, <4>1 DEF IdCopyTrue
        <5> QED BY <5>1, <2>1 DEF IdCopyTrue, KeepPages
      <4>2. CASE i = k.id /\ k.drop # {}
        BY <3>1, <4>2
      <4>3. CASE i # k.id
        BY <2>1, <2>2, <3>3, <4>3 DEF IdCopyTrue, KeepPages
      <4> QED BY <4>1, <4>2, <4>3
    <3>6. CallFits(n)'
      BY <3>1 DEF CallFits
    <3> QED BY <1>2, <3>1, <3>4, <3>5, <3>6, MovedFit
  <2> QED BY <1>10, <2>5, <2>6 DEF SaveItem
<1>11. ASSUME SoftDeleteItem(s) PROVE ItemsFit'
  <2>1. /\ k.pc = "softDelete" /\ k \in SoftDeleteCall /\ KeepPages
        /\ n = [pc |-> "dropItem", id |-> k.id, slugs |-> k.slugs, reread |-> FALSE]
        /\ item' = [item EXCEPT ![k.id].deleted = TRUE]
        /\ BlameCat({"product"} \cup (IF k.slugs = {} THEN {"bulk"} ELSE {}))
    BY <1>11, <1>3, CatAtIs DEF SoftDeleteItem, CatAt
  <2>2. n # NoCatCall /\ n.pc = "dropItem" /\ n.slugs = k.slugs /\ n.id = k.id
    BY <2>1 DEF NoCatCall
  <2>3. k.id \in Live /\ k.slugs \in {{}, {item[k.id].slug}}
    BY <1>0, <2>1 DEF CallFits
  <2>4. k.slugs # {}
    <3>1. "bulk" \notin {"product"} \cup (IF k.slugs = {} THEN {"bulk"} ELSE {})
      BY <2>1, CatBlameFact DEF ItemsClean
    <3> QED BY <3>1
  <2>5. k.id \in Items /\ item[k.id] \in ItemRow /\ k.slugs = {item[k.id].slug}
    BY <2>3, <2>4 DEF Live, CategoryMade, CategoryTypeOK
  <2> DEFINE row == [item[k.id] EXCEPT !.deleted = TRUE]
  <2>6. row.slug = item[k.id].slug
    BY <2>5 DEF ItemRow
  <2>7. \A i \in Items : item'[i] = IF i = k.id THEN row ELSE item[i]
    BY <2>1 DEF CategoryMade, CategoryTypeOK
  <2>8. /\ \A g \in Slugs : ItemPageTrue(g)
        /\ \A i \in Items : IdCopyTrue(i)
    BY <1>1, <2>1
  <2> HIDE DEF k, row
  <2>9. ASSUME NEW g \in Slugs, g \notin k.slugs PROVE ItemPageTrue(g)'
    <3>1. k.id \notin ItemsWith(g)
      BY <2>5, <2>9 DEF ItemsWith
    <3>2. k.id \notin ItemsWith(g)'
      BY <2>5, <2>6, <2>7, <2>9 DEF ItemsWith
    <3>3. ItemsWith(g)' = ItemsWith(g)
      BY <3>1, <3>2, <2>7 DEF ItemsWith, Live
    <3> QED BY <3>3, <2>1, <2>8 DEF ItemPageTrue, KeepPages
  <2>10. \A i \in Items : i # k.id => IdCopyTrue(i)'
    BY <2>1, <2>7, <2>8 DEF IdCopyTrue, KeepPages
  <2>11. CallFits(n)'
    BY <2>2 DEF CallFits
  <2> QED BY <1>2, <2>2, <2>4, <2>9, <2>10, <2>11, MovedFit
<1> QED BY <1>4, <1>5, <1>6, <1>7, <1>8, <1>9, <1>10, <1>11 DEF CatMove

-----------------------------------------------------------------------------
LEMMA ExpireFits ==
  ASSUME CategoryMade, CatExpires
  PROVE  /\ PagesFit => PagesFit'
         /\ ItemsFit => ItemsFit'
<1>1. /\ KeepRows /\ UNCHANGED catCall
      /\ \A h \in Slugs : /\ catCached'[h] \in {catCached[h], Nothing}
                          /\ itemCached'[h] \in {itemCached[h], Nothing}
      /\ \A i \in Items : idCached'[i] \in {idCached[i], Nothing}
  BY ExpireMade
<1>2. /\ \A h : CatsWith(h)' = CatsWith(h) /\ Page(h)' = Page(h)
      /\ \A h : ItemsWith(h)' = ItemsWith(h)
  BY <1>1 DEF KeepRows, CatsWith, Page, ItemsOf, Live, ItemsWith
<1>3. /\ \A h \in Slugs : CatPageTrue(h) => CatPageTrue(h)'
      /\ \A h \in Slugs : ItemPageTrue(h) => ItemPageTrue(h)'
  BY <1>1, <1>2 DEF CatPageTrue, ItemPageTrue
<1>7. \A i \in Items : IdCopyTrue(i) => IdCopyTrue(i)'
  BY <1>1 DEF IdCopyTrue, KeepRows
<1>4. /\ CatBusy' = CatBusy /\ \A s, pc : CatAt(s, pc)' <=> CatAt(s, pc)
      /\ item' = item
  BY <1>1 DEF CatBusy, CatAt, KeepRows
<1>5. PagesFit => PagesFit'
  <2> SUFFICES ASSUME PagesFit PROVE PagesFit'
    OBVIOUS
  <2>1. (\E h \in Slugs : ~CatPageTrue(h)') => \E s \in CatBusy' : CatAt(s, "dropCat")'
    BY <1>3, <1>4 DEF PagesFit
  <2>2. ASSUME NEW s \in CatBusy', CatAt(s, "fillCat")'
        PROVE  CatsWith(catCall[s].slug)' # {} /\ catCall'[s].page = Page(catCall[s].slug)'
    <3>1. CatsWith(catCall[s].slug) # {} /\ catCall[s].page = Page(catCall[s].slug)
      BY <1>4, <2>2 DEF PagesFit
    <3>2. /\ CatsWith(catCall[s].slug)' = CatsWith(catCall[s].slug)
          /\ Page(catCall[s].slug)' = Page(catCall[s].slug)
      BY <1>1 DEF KeepRows, CatsWith, Page, ItemsOf, Live
    <3> QED BY <1>1, <3>1, <3>2
  <2> QED BY <2>1, <2>2 DEF PagesFit
<1>6. ItemsFit => ItemsFit'
  <2> SUFFICES ASSUME ItemsFit PROVE ItemsFit'
    OBVIOUS
  <2>1. \A h \in Slugs : ItemPageTrue(h)' \/ DropsPage(h)'
    BY <1>1, <1>3, <1>4 DEF ItemsFit, DropsPage
  <2>2. \A i \in Items : IdCopyTrue(i)' \/ DropsCopy(i)'
    BY <1>1, <1>7, <1>4 DEF ItemsFit, DropsCopy
  <2>3. ASSUME NEW s \in CatBusy'
        PROVE  ItemCallFits(s)'
    <3>1. ItemCallFits(s)
      BY <1>4, <2>3 DEF ItemsFit
    <3>2. PICK k : k = catCall[s]
      OBVIOUS
    <3>3. CallFits(k)' <=> CallFits(k)
      BY <1>1, CallFitsKept
    <3>4. catCall'[s] = k
      BY <1>1, <3>2
    <3>5. k # NoCatCall => CallFits(k)
      BY <3>1, <3>2 DEF ItemCallFits
    <3>6. k # NoCatCall => CallFits(k)'
      BY <3>3, <3>5
    <3> QED BY <3>4, <3>6 DEF ItemCallFits, CallFits
  <2> QED BY <2>1, <2>2, <2>3 DEF ItemsFit
<1> QED BY <1>5, <1>6

LEMMA CategoryKeeps ==
  CategoryInv /\ [CategoryNext]_catVars => CategoryInv'
<1> SUFFICES ASSUME CategoryInv, [CategoryNext]_catVars PROVE CategoryInv'
  OBVIOUS
<1>0. CategoryMade /\ CatSingle
  BY DEF CategoryInv
<1>1. CASE UNCHANGED catVars
  <2>1. /\ category' = category /\ item' = item /\ catCached' = catCached
        /\ itemCached' = itemCached /\ idCached' = idCached /\ catCall' = catCall
        /\ catLoad' = catLoad /\ catFault' = catFault
    BY <1>1 DEF catVars
  <2>2. CategoryMade'
    BY <1>0, <2>1 DEF CategoryMade, CategoryTypeOK, SlugsUnique, DeletesExist, PagesTyped,
                      CatCallMade, CatAt
  <2>3. /\ CatBusy' = CatBusy /\ \A s, pc : CatAt(s, pc)' <=> CatAt(s, pc)
    BY <2>1 DEF CatBusy, CatAt
  <2>4. CatSingle' /\ (PagesClean' => PagesClean) /\ (ItemsClean' => ItemsClean)
    BY <1>0, <2>1, <2>3 DEF CatSingle, PagesClean, ItemsClean
  <2>5. \A g \in Slugs : (CatPageTrue(g)' <=> CatPageTrue(g)) /\ (ItemPageTrue(g)' <=> ItemPageTrue(g))
    BY <2>1, PagesSame DEF KeepRows, KeepPages
  <2>6. ASSUME NEW s
        PROVE  /\ CatsWith(catCall[s].slug)' = CatsWith(catCall[s].slug)
               /\ Page(catCall[s].slug)' = Page(catCall[s].slug)
               /\ ItemCallFits(s)' <=> ItemCallFits(s)
    BY <2>1 DEF CatsWith, Page, ItemsOf, Live, ItemCallFits, CallFits, ItemsWith
  <2>9. /\ \A i \in Items : IdCopyTrue(i)' <=> IdCopyTrue(i)
        /\ \A g : DropsPage(g)' <=> DropsPage(g)
        /\ \A i : DropsCopy(i)' <=> DropsCopy(i)
    BY <2>1 DEF IdCopyTrue, DropsPage, DropsCopy, CatBusy, CatAt
  <2>7. PagesFit => PagesFit'
    BY <2>1, <2>3, <2>5, <2>6 DEF PagesFit
  <2>8. ItemsFit => ItemsFit'
    BY <2>3, <2>5, <2>6, <2>9 DEF ItemsFit
  <2> QED BY <2>2, <2>4, <2>7, <2>8 DEF CategoryInv
<1>2. CASE CategoryNext
  <2>1. CategoryMade' /\ SomeCatBlame
    BY <1>0, <1>2, CatSteps, CatMadeNext, ExpireMade
  <2>2. CASE CatQuiet'
    BY <2>1, <2>2, CatQuietNext
  <2>3. CASE ~CatQuiet'
    <3>1. catFault \subseteq catFault' /\ CatSingle'
      BY <2>1, <2>3, CatBlameFact DEF SomeCatBlame, CatSingle
    <3>2. (PagesClean' => PagesClean) /\ (ItemsClean' => ItemsClean)
      BY <3>1 DEF PagesClean, ItemsClean
    <3>3. ASSUME CatExpires
          PROVE  CategoryInv'
      BY <1>0, <2>1, <3>1, <3>2, <3>3, ExpireFits DEF CategoryInv
    <3>4. ASSUME NEW s \in CatSlots, CatRequest(s) \/ CatMove(s)
          PROVE  CategoryInv'
      <4>1. CatStep(s)
        BY <1>0, <3>4, CatMadeNext
      <4>2. ASSUME "overlap" \notin catFault'
            PROVE  CatBusy \subseteq {s} /\ CatBusy' \subseteq {s}
        BY <1>0, <2>1, <2>3, <4>1, <4>2, CatStepAlone
      <4>3. ASSUME PagesClean' PROVE PagesFit'
        <5>1. CatBusy \subseteq {s} /\ CatBusy' \subseteq {s}
          BY <4>2, <4>3 DEF PagesClean
        <5>2. PagesFit
          BY <3>2, <4>3 DEF CategoryInv
        <5> QED BY <1>0, <2>3, <3>4, <4>3, <5>1, <5>2, RequestPages, MovePages
      <4>4. ASSUME ItemsClean' PROVE ItemsFit'
        <5>1. CatBusy \subseteq {s} /\ CatBusy' \subseteq {s}
          BY <4>2, <4>4 DEF ItemsClean
        <5>2. ItemsFit
          BY <3>2, <4>4 DEF CategoryInv
        <5> QED BY <1>0, <2>3, <3>4, <4>4, <5>1, <5>2, RequestItems, MoveItems
      <4> QED BY <2>1, <3>1, <4>3, <4>4 DEF CategoryInv
    <3> QED BY <1>0, <1>2, <3>3, <3>4, CatSteps
  <2> QED BY <2>2, <2>3
<1> QED BY <1>1, <1>2

LEMMA CategoryStarts == CategoryInit => CategoryInv
<1> SUFFICES ASSUME CategoryInit PROVE CategoryInv
  OBVIOUS
<1>1. CategoryMade
  BY NothingAssumption DEF CategoryInit, CategoryMade, CategoryTypeOK, SlugsUnique,
     DeletesExist, PagesTyped, CatCallMade, CatAt, NoCatCall
<1>2. CatQuiet
  BY DEF CategoryInit, CatQuiet, CatBusy, CatPageTrue, ItemPageTrue, IdCopyTrue
<1> QED BY <1>1, <1>2, CatQuietIsGood

(* Rows, pages and requests in flight keep their shape.                     *)
THEOREM CategoriesWellTyped == CategorySpec => []CategoryTypeOK
<1>1. CategoryInv => CategoryTypeOK
  BY DEF CategoryInv, CategoryMade
<1> QED BY <1>1, CategoryStarts, CategoryKeeps, PTL DEF CategorySpec

(* With nothing in flight the page of a category shows the category of this *)
(* slug and its products, unless requests overlapped, one stopped or a      *)
(* product changed.                                                         *)
THEOREM CategoryPagesStayTrue == CategorySpec => []CategoryPagesTrue
<1>1. CategoryInv => CategoryPagesTrue
  BY DEF CategoryInv, CategoryPagesTrue, PagesClean, PagesFit
<1> QED BY <1>1, CategoryStarts, CategoryKeeps, PTL DEF CategorySpec

(* With nothing in flight the page under a product's slug shows the product *)
(* that has it, unless requests overlapped, one stopped, or a product was   *)
(* renamed or deleted in bulk.                                              *)
THEOREM ItemPagesStayTrue == CategorySpec => []ItemPagesTrue
<1>1. CategoryInv => ItemPagesTrue
  BY DEF CategoryInv, ItemPagesTrue, ItemsClean, ItemsFit, DropsPage
<1> QED BY <1>1, CategoryStarts, CategoryKeeps, PTL DEF CategorySpec

-----------------------------------------------------------------------------
(* The metrics that are kept.                                               *)

(* What may be told to who asked when the figure n had been answered.       *)
AnswerFits(figure, n, marks) ==
  \/ figure # NoFigure /\ figure >= n
  \/ figure = NoFigure /\ "silent" \in marks
  \/ marks \cap {"overlap", "failed"} # {}

MetricRow == [figure : Figures, expired : BOOLEAN, marks : Marks]
MetricCall == [pc : {"idle", "fetch", "find", "save"}, figure : Figures,
               found : MetricRow \cup {NoMetric}, atLeast : 0..MaxFacts, marks : Marks]

MetricMade ==
  /\ fact \in 0..MaxFacts /\ shown \in 0..fact
  /\ metric \in MetricRow \cup {NoMetric}
  /\ mCall \in [MetricSlots -> MetricCall]
  /\ answered \in [figure : Figures, atLeast : 0..MaxFacts, marks : Marks]

(* A call that computes alone: only the row answers meanwhile, whose figure *)
(* was answered before, so that nothing newer was since it was asked.       *)
ComputesAlone(s) ==
  /\ Computing = {s} /\ mCall[s].atLeast = shown
(* A call that found no row, and will be refused the insert of its own.     *)
InsertRefused(s) ==
  mCall[s].pc = "save" /\ mCall[s].found = NoMetric /\ metric # NoMetric
MetricInv ==
  /\ MetricMade
  /\ metric # NoMetric => metric.figure \in 0..shown \cup {NoFigure}
  /\ \A s \in MetricSlots : mCall[s].figure \in 0..fact \cup {NoFigure}
  /\ \A s \in Computing :
       /\ mCall[s].pc # "fetch" =>
            AnswerFits(mCall[s].figure, mCall[s].atLeast, mCall[s].marks)
       /\ "overlap" \notin mCall[s].marks => ComputesAlone(s)
  /\ \A s \in MetricSlots : mCall[s].atLeast <= fact
  /\ \A s \in MetricSlots : InsertRefused(s) => "overlap" \in metric.marks
  /\ MetricHit => AnswerFits(metric.figure, shown, metric.marks)
  /\ NeverOlder

LEMMA MetricMeans == MetricInv => MetricTypeOK /\ NeverOlder
  BY MetricAssumption DEF MetricInv, MetricMade, MetricTypeOK, MetricRow, MetricCall

LEMMA MetricStarts == MetricInit => MetricInv
<1> SUFFICES ASSUME MetricInit PROVE MetricInv
  OBVIOUS
<1>1. IdleMetric \in MetricCall
  BY MetricAssumption DEF IdleMetric, MetricCall, Figures, Marks
<1>2. MetricMade
  BY <1>1, MetricAssumption DEF MetricInit, MetricMade, Figures, Marks
<1>3. Computing = {} /\ ~MetricHit /\ \A s \in MetricSlots : ~InsertRefused(s)
  BY DEF MetricInit, Computing, MetricHit, IdleMetric, InsertRefused
<1>4. NeverOlder
  BY DEF MetricInit, NeverOlder
<1>5. metric = NoMetric /\ \A s \in MetricSlots : mCall[s] = IdleMetric
  BY DEF MetricInit
<1> QED BY <1>2, <1>3, <1>4, <1>5, MetricAssumption DEF MetricInv, MetricInit, IdleMetric

(* Telling the figure of the row or of a call.                              *)
LEMMA Telling ==
  ASSUME MetricInv, NEW figure \in 0..fact \cup {NoFigure},
         NEW n \in 0..fact, NEW marks \in Marks,
         AnswerFits(figure, n, marks), Tell(figure, n, marks)
  PROVE  /\ shown' \in 0..fact /\ shown' >= shown
         /\ answered' \in [figure : Figures, atLeast : 0..MaxFacts, marks : Marks]
         /\ NeverOlder'
         /\ figure # NoFigure /\ figure <= shown => shown' = shown
         /\ figure \in 0..shown' \cup {NoFigure}
<1>1. fact \in 0..MaxFacts /\ shown \in 0..fact
  BY DEF MetricInv, MetricMade
<1>2. answered' = [figure |-> figure, atLeast |-> n, marks |-> marks]
  BY DEF Tell
<1>3. shown' = IF figure # NoFigure /\ figure > shown THEN figure ELSE shown
  BY DEF Tell
<1>4. figure \in Figures /\ n \in 0..MaxFacts
  BY <1>1, MetricAssumption DEF Figures
<1>5. NeverOlder'
  BY <1>2 DEF NeverOlder, AnswerFits
<1> QED BY <1>1, <1>2, <1>3, <1>4, <1>5, MetricAssumption

(* A call moves on, and nothing is told.                                    *)
LEMMA MovesOn ==
  ASSUME MetricInv, NEW s \in Computing, NEW record \in MetricCall,
         mCall' = [mCall EXCEPT ![s] = record],
         record.pc # "idle", record.atLeast = mCall[s].atLeast,
         record.figure \in 0..fact \cup {NoFigure},
         mCall[s].marks \cap {"overlap"} = record.marks \cap {"overlap"},
         record.pc # "fetch" =>
           AnswerFits(record.figure, record.atLeast, record.marks),
         record.pc = "save" => record.found = metric,
         UNCHANGED <<fact, metric, shown, answered>>
  PROVE  MetricInv'
<1>1. mCall'[s] = record /\ \A t \in MetricSlots \ {s} : mCall'[t] = mCall[t]
  BY DEF MetricInv, MetricMade, Computing
<1>2. Computing' = Computing
  BY <1>1 DEF Computing
<1>3. MetricMade' /\ MetricHit' = MetricHit /\ NeverOlder'
  BY DEF MetricInv, MetricMade, MetricHit, NeverOlder
<1>4. ASSUME NEW t \in Computing
      PROVE  /\ mCall'[t].pc # "fetch" =>
                   AnswerFits(mCall'[t].figure, mCall'[t].atLeast, mCall'[t].marks)
             /\ "overlap" \notin mCall'[t].marks => ComputesAlone(t)'
  <2>1. CASE t = s
    BY <1>1, <1>2, <1>3, <2>1 DEF MetricInv, ComputesAlone
  <2>2. CASE t # s
    <3>1. mCall'[t] = mCall[t]
      BY <1>1, <2>2 DEF Computing
    <3> QED BY <1>2, <1>3, <3>1 DEF MetricInv, ComputesAlone
  <2> QED BY <2>1, <2>2
<1>5. \A t \in MetricSlots : /\ mCall'[t].atLeast <= fact'
                              /\ mCall'[t].figure \in 0..fact' \cup {NoFigure}
  BY <1>1 DEF MetricInv
<1>6. MetricHit' => AnswerFits(metric.figure, shown, metric.marks)'
  BY <1>2, <1>3 DEF MetricInv, AnswerFits
<1>7. metric' # NoMetric => metric'.figure \in 0..shown' \cup {NoFigure}
  BY DEF MetricInv
<1>8. \A t \in MetricSlots : InsertRefused(t)' => "overlap" \in metric'.marks
  BY <1>1 DEF MetricInv, InsertRefused
<1> QED BY <1>2, <1>3, <1>4, <1>5, <1>6, <1>7, <1>8 DEF MetricInv

(* A call ends, whatever the row is then.                                   *)
LEMMA CallEnds ==
  ASSUME MetricInv, NEW s \in Computing, mCall' = [mCall EXCEPT ![s] = IdleMetric],
         UNCHANGED fact, metric' \in MetricRow \cup {NoMetric},
         metric' # NoMetric => metric'.figure \in 0..shown' \cup {NoFigure},
         shown' \in 0..fact,
         answered' \in [figure : Figures, atLeast : 0..MaxFacts, marks : Marks],
         NeverOlder',
         MetricHit' => AnswerFits(metric.figure, shown, metric.marks)',
         metric' # metric /\ Computing \ {s} # {} =>
           \/ "overlap" \in metric'.marks
           \/ metric # NoMetric /\ metric.marks \subseteq metric'.marks
  PROVE  MetricInv'
<1>1. mCall'[s] = IdleMetric /\ \A t \in MetricSlots \ {s} : mCall'[t] = mCall[t]
  BY DEF MetricInv, MetricMade, Computing
<1>2. Computing' = Computing \ {s}
  BY <1>1 DEF Computing, IdleMetric
<1>3. IdleMetric \in MetricCall
  BY MetricAssumption DEF IdleMetric, MetricCall, Figures, Marks
<1>4. MetricMade'
  BY <1>3 DEF MetricInv, MetricMade
<1>5. ASSUME NEW t \in Computing'
      PROVE  /\ mCall'[t] = mCall[t] /\ t \in Computing
             /\ "overlap" \in mCall[t].marks
  <2>1. /\ mCall'[t] = mCall[t] /\ t \in Computing /\ t # s
    BY <1>1, <1>2, <1>5 DEF Computing
  <2> QED BY <2>1 DEF MetricInv, ComputesAlone
<1>6. \A t \in MetricSlots : /\ mCall'[t].atLeast <= fact'
                              /\ mCall'[t].figure \in 0..fact' \cup {NoFigure}
  <2>1. IdleMetric.atLeast = 0 /\ IdleMetric.figure = NoFigure /\ fact \in Nat
    BY DEF IdleMetric, MetricInv, MetricMade
  <2> QED BY <1>1, <2>1 DEF MetricInv
<1>7. \A t \in Computing' : mCall'[t].pc # "fetch" =>
        AnswerFits(mCall'[t].figure, mCall'[t].atLeast, mCall'[t].marks)
  BY <1>5 DEF MetricInv
<1>8. ASSUME NEW t \in MetricSlots, InsertRefused(t)'
      PROVE  "overlap" \in metric'.marks
  <2>1. /\ t # s /\ t \in Computing \ {s} /\ mCall'[t] = mCall[t]
    BY <1>1, <1>8 DEF InsertRefused, IdleMetric, Computing
  <2>2. CASE metric' = metric
    BY <1>8, <2>1, <2>2 DEF InsertRefused, MetricInv
  <2>3. CASE metric' # metric
    BY <1>8, <2>1, <2>3 DEF InsertRefused, MetricInv
  <2> QED BY <2>2, <2>3
<1> QED BY <1>2, <1>4, <1>5, <1>6, <1>7, <1>8 DEF MetricInv

LEMMA SaveMetricKeeps ==
  ASSUME MetricInv, NEW s \in MetricSlots, SaveMetric(s) \/ SaveFails(s)
  PROVE  MetricInv'
<1>1. /\ s \in Computing /\ UNCHANGED fact
      /\ mCall' = [mCall EXCEPT ![s] = IdleMetric]
      /\ Tell(mCall[s].figure, mCall[s].atLeast, mCall[s].marks)
  BY DEF SaveMetric, SaveFails, Computing
<1>2. /\ mCall[s].figure \in 0..fact \cup {NoFigure}
      /\ mCall[s].atLeast \in 0..fact /\ mCall[s].marks \in Marks
      /\ mCall[s].figure \in Figures
      /\ AnswerFits(mCall[s].figure, mCall[s].atLeast, mCall[s].marks)
  <2>1. mCall[s] \in MetricCall /\ mCall[s].pc # "fetch" /\ mCall[s].atLeast <= fact
    BY <1>1 DEF MetricInv, MetricMade, SaveMetric, SaveFails
  <2> QED BY <1>1, <2>1 DEF MetricInv, MetricMade, MetricCall
<1>3. /\ shown' \in 0..fact /\ shown' >= shown
      /\ answered' \in [figure : Figures, atLeast : 0..MaxFacts, marks : Marks]
      /\ NeverOlder'
      /\ mCall[s].figure # NoFigure /\ mCall[s].figure <= shown => shown' = shown
      /\ mCall[s].figure \in 0..shown' \cup {NoFigure}
  BY <1>1, <1>2, Telling
<1>4. shown' = IF mCall[s].figure # NoFigure /\ mCall[s].figure > shown
               THEN mCall[s].figure ELSE shown
  BY <1>1 DEF Tell
<1>0. metric # NoMetric => metric.figure \in 0..shown' \cup {NoFigure}
  <2>1. 0..shown \subseteq 0..shown'
    BY <1>3 DEF MetricInv, MetricMade
  <2> QED BY <2>1 DEF MetricInv
<1>5. ASSUME metric' = metric, MetricHit => "overlap" \in metric.marks PROVE MetricInv'
  <2>1. MetricHit' => AnswerFits(metric.figure, shown, metric.marks)'
    BY <1>5 DEF MetricHit, AnswerFits
  <2> QED BY <1>0, <1>1, <1>3, <1>5, <2>1, CallEnds DEF MetricInv, MetricMade
<1>8. CASE SaveFails(s)
  <2>1. CASE MetricHit
    <3> DEFINE row == [metric EXCEPT !.marks = @ \cup {"failed"}]
    <3>1. metric' = row /\ metric \in MetricRow
      BY <1>8, <2>1 DEF SaveFails, MetricHit, MetricInv, MetricMade
    <3>2. /\ row \in MetricRow /\ row.figure = metric.figure
          /\ row.marks = metric.marks \cup {"failed"}
      BY <3>1 DEF MetricRow, Marks
    <3> HIDE DEF row
    <3>3. AnswerFits(metric.figure, shown, metric.marks)'
      BY <3>1, <3>2 DEF AnswerFits
    <3>4. metric' \in MetricRow \cup {NoMetric} /\ metric'.figure \in 0..shown' \cup {NoFigure}
          /\ metric.marks \subseteq metric'.marks /\ metric # NoMetric
      BY <1>0, <2>1, <3>1, <3>2 DEF MetricHit
    <3> QED BY <1>1, <1>3, <3>3, <3>4, CallEnds
  <2>2. CASE ~MetricHit
    BY <1>5, <1>8, <2>2 DEF SaveFails
  <2> QED BY <2>1, <2>2
<1>6. ASSUME metric' = [figure |-> mCall[s].figure, expired |-> FALSE, marks |-> mCall[s].marks]
      PROVE  MetricInv'
  <2>1. metric'.figure = mCall[s].figure /\ metric'.marks = mCall[s].marks
    BY <1>6
  <2>2. metric' \in MetricRow
    BY <1>2, <1>6 DEF MetricRow
  <2>3. AnswerFits(metric.figure, shown, metric.marks)'
    <3>1. CASE "overlap" \in mCall[s].marks
      BY <2>1, <3>1 DEF AnswerFits
    <3>2. CASE "overlap" \notin mCall[s].marks
      <4>1. mCall[s].atLeast = shown
        BY <1>1, <3>2 DEF MetricInv, ComputesAlone
      <4> QED BY <1>2, <1>4, <2>1, <3>2, <4>1, MetricAssumption DEF AnswerFits
    <3> QED BY <3>1, <3>2
  <2>4. Computing \ {s} # {} => "overlap" \in metric'.marks
    BY <1>1, <2>1 DEF MetricInv, ComputesAlone
  <2> QED BY <1>1, <1>3, <2>1, <2>2, <2>3, <2>4, CallEnds
<1>7. CASE SaveMetric(s)
  <2>1. CASE InsertRefused(s)
    BY <1>5, <1>7, <2>1 DEF SaveMetric, SavedMetric, InsertRefused, MetricInv
  <2>2. CASE ~InsertRefused(s)
    BY <1>6, <1>7, <2>2 DEF SaveMetric, SavedMetric, InsertRefused
  <2> QED BY <2>1, <2>2
<1> QED BY <1>7, <1>8

LEMMA AskMissKeeps ==
  ASSUME MetricInv, NEW s \in MetricSlots, AskMiss(s)
  PROVE  MetricInv'
<1>1. /\ mCall[s].pc = "idle"
      /\ UNCHANGED <<fact, metric, shown, answered>>
      /\ mCall' = [c \in MetricSlots |->
           IF c = s THEN NewMetric
           ELSE IF c \in Computing THEN [mCall[c] EXCEPT !.marks = @ \cup {"overlap"}]
           ELSE mCall[c]]
  BY DEF AskMiss
<1>2. /\ NewMetric.pc = "fetch" /\ NewMetric.atLeast = shown /\ NewMetric.figure = NoFigure
      /\ NewMetric.marks = Late /\ NewMetric \in MetricCall
  <2>1. shown \in 0..MaxFacts
    BY MetricAssumption DEF MetricInv, MetricMade
  <2>2. Late \in Marks
    BY DEF Late, Marks
  <2> QED BY <2>1, <2>2 DEF NewMetric, MetricCall, Figures
<1>3. mCall'[s] = NewMetric
  BY <1>1
<1>4. ASSUME NEW t \in MetricSlots, t # s
      PROVE  /\ mCall'[t] \in MetricCall
             /\ mCall'[t].pc = mCall[t].pc /\ mCall'[t].figure = mCall[t].figure
             /\ mCall'[t].atLeast = mCall[t].atLeast
             /\ mCall'[t].marks = mCall[t].marks \cup IF t \in Computing THEN {"overlap"} ELSE {}
  <2> DEFINE marked == [mCall[t] EXCEPT !.marks = @ \cup {"overlap"}]
  <2>1. mCall[t] \in MetricCall
    BY DEF MetricInv, MetricMade
  <2>2. /\ marked \in MetricCall
        /\ marked.pc = mCall[t].pc /\ marked.figure = mCall[t].figure
        /\ marked.atLeast = mCall[t].atLeast /\ marked.marks = mCall[t].marks \cup {"overlap"}
    BY <2>1 DEF MetricCall, Marks
  <2>3. mCall'[t] = IF t \in Computing THEN marked ELSE mCall[t]
    BY <1>1, <1>4
  <2> HIDE DEF marked
  <2> QED BY <2>1, <2>2, <2>3
<1>5. Computing' = Computing \cup {s} /\ s \notin Computing
  BY <1>1, <1>2, <1>3, <1>4 DEF Computing
<1>6. MetricMade' /\ MetricHit' = MetricHit /\ NeverOlder'
  <2>1. \A t \in MetricSlots : mCall'[t] \in MetricCall
    BY <1>2, <1>3, <1>4
  <2>2. mCall' \in [MetricSlots -> MetricCall]
    BY <1>1, <2>1
  <2> QED BY <1>1, <2>2 DEF MetricInv, MetricMade, MetricHit, NeverOlder
<1>7. ASSUME NEW t \in Computing'
      PROVE  /\ mCall'[t].pc # "fetch" =>
                  AnswerFits(mCall'[t].figure, mCall'[t].atLeast, mCall'[t].marks)
             /\ "overlap" \notin mCall'[t].marks => ComputesAlone(t)'
  <2>1. CASE t = s
    BY <1>1, <1>2, <1>3, <1>5, <1>6, <2>1 DEF ComputesAlone, Late
  <2>2. CASE t # s
    <3>1. t \in Computing /\ t \in MetricSlots
      BY <1>5, <2>2 DEF Computing
    <3> QED BY <1>4, <2>2, <3>1 DEF MetricInv, AnswerFits
  <2> QED BY <2>1, <2>2
<1>8. \A t \in MetricSlots : /\ mCall'[t].atLeast <= fact'
                              /\ mCall'[t].figure \in 0..fact' \cup {NoFigure}
  BY <1>1, <1>2, <1>3, <1>4 DEF MetricInv, MetricMade
<1>9. /\ metric' # NoMetric => metric'.figure \in 0..shown' \cup {NoFigure}
      /\ MetricHit' => AnswerFits(metric.figure, shown, metric.marks)'
  BY <1>1, <1>6 DEF MetricInv, AnswerFits
<1>10. ASSUME NEW t \in MetricSlots, InsertRefused(t)'
       PROVE  "overlap" \in metric'.marks
  <2>1. t # s
    BY <1>2, <1>3, <1>10 DEF InsertRefused
  <2>2. mCall'[t].found = mCall[t].found
    BY <1>1, <2>1
  <2> QED BY <1>1, <1>4, <1>10, <2>1, <2>2 DEF InsertRefused, MetricInv
<1> QED BY <1>6, <1>7, <1>8, <1>9, <1>10 DEF MetricInv

LEMMA ComputingKeeps ==
  ASSUME MetricInv, NEW s \in MetricSlots, FetchData(s) \/ FetchFails(s) \/ FindRow(s)
  PROVE  MetricInv'
<1>1. /\ s \in Computing /\ UNCHANGED <<fact, metric, shown, answered>>
      /\ mCall[s] \in MetricCall /\ fact \in 0..MaxFacts /\ metric \in MetricRow \cup {NoMetric}
      /\ mCall[s].atLeast <= fact /\ mCall[s].figure \in 0..fact \cup {NoFigure}
  BY DEF MetricInv, MetricMade, FetchData, FetchFails, FindRow, Computing
<1>2. CASE FetchData(s)
  <2> DEFINE record == [mCall[s] EXCEPT !.pc = "find", !.figure = fact]
  <2>1. mCall' = [mCall EXCEPT ![s] = record]
    BY <1>2 DEF FetchData
  <2>2. /\ record \in MetricCall /\ record.pc = "find" /\ record.figure = fact
        /\ record.atLeast = mCall[s].atLeast /\ record.marks = mCall[s].marks
    BY <1>1 DEF MetricCall, Figures
  <2>0. record.figure \in 0..fact \cup {NoFigure}
    BY <1>1, <2>2, MetricAssumption
  <2>3. AnswerFits(record.figure, record.atLeast, record.marks)
    BY <1>1, <2>2, MetricAssumption DEF AnswerFits, MetricInv
  <2> HIDE DEF record
  <2> QED BY <1>1, <2>0, <2>1, <2>2, <2>3, MovesOn
<1>3. CASE FetchFails(s)
  <2> DEFINE record == [mCall[s] EXCEPT !.pc = "find", !.figure = NoFigure,
                          !.marks = @ \cup {"silent"}]
  <2>1. mCall' = [mCall EXCEPT ![s] = record]
    BY <1>3 DEF FetchFails
  <2>2. /\ record \in MetricCall /\ record.pc = "find" /\ record.figure = NoFigure
        /\ record.atLeast = mCall[s].atLeast /\ record.marks = mCall[s].marks \cup {"silent"}
    BY <1>1 DEF MetricCall, Figures, Marks
  <2>3. AnswerFits(record.figure, record.atLeast, record.marks)
    BY <2>2 DEF AnswerFits
  <2>4. mCall[s].marks \cap {"overlap"} = record.marks \cap {"overlap"}
    BY <2>2
  <2> HIDE DEF record
  <2> QED BY <1>1, <2>1, <2>2, <2>3, <2>4, MovesOn
<1>4. CASE FindRow(s)
  <2> DEFINE record == [mCall[s] EXCEPT !.pc = "save", !.found = metric]
  <2>1. mCall' = [mCall EXCEPT ![s] = record]
    BY <1>4 DEF FindRow
  <2>2. /\ record \in MetricCall /\ record.pc = "save" /\ record.found = metric /\ record.figure = mCall[s].figure
        /\ record.atLeast = mCall[s].atLeast /\ record.marks = mCall[s].marks
    BY <1>1 DEF MetricCall
  <2>3. AnswerFits(record.figure, record.atLeast, record.marks)
    BY <1>1, <1>4, <2>2 DEF MetricInv, FindRow
  <2> HIDE DEF record
  <2> QED BY <1>1, <2>1, <2>2, <2>3, MovesOn
<1> QED BY <1>2, <1>3, <1>4

LEMMA AskHitKeeps ==
  ASSUME MetricInv, AskHit
  PROVE  MetricInv'
<1>1. /\ MetricHit /\ metric # NoMetric /\ UNCHANGED <<fact, metric, mCall>>
      /\ Tell(metric.figure, shown, metric.marks)
  BY DEF AskHit, MetricHit
<1>2. /\ metric.figure \in 0..shown \cup {NoFigure} /\ shown \in 0..fact
      /\ metric.figure \in 0..fact \cup {NoFigure}
      /\ metric.marks \in Marks /\ AnswerFits(metric.figure, shown, metric.marks)
  BY <1>1 DEF MetricInv, MetricMade, MetricRow
<1>3. /\ shown' \in 0..fact
      /\ answered' \in [figure : Figures, atLeast : 0..MaxFacts, marks : Marks]
      /\ NeverOlder'
  BY <1>1, <1>2, Telling
<1>4. shown' = IF metric.figure # NoFigure /\ metric.figure > shown
               THEN metric.figure ELSE shown
  BY <1>1 DEF Tell
<1>5. shown' = shown
  BY <1>2, <1>4, MetricAssumption
<1>6. MetricMade' /\ Computing' = Computing /\ MetricHit' = MetricHit
  BY <1>1, <1>3 DEF MetricInv, MetricMade, Computing, MetricHit
<1> QED BY <1>1, <1>3, <1>5, <1>6
        DEF MetricInv, ComputesAlone, AnswerFits, InsertRefused

LEMMA MetricKept == MetricInv /\ [MetricNext]_metricVars => MetricInv'
<1> SUFFICES ASSUME MetricInv, [MetricNext]_metricVars PROVE MetricInv'
  OBVIOUS
<1>1. CASE DataChanges
  <2>1. /\ fact' = fact + 1 /\ fact' \in 0..MaxFacts /\ fact \in Nat /\ shown \in 0..fact
        /\ UNCHANGED <<metric, mCall, shown, answered>>
    BY <1>1, MetricAssumption DEF DataChanges, MetricInv, MetricMade
  <2>2. Computing' = Computing /\ MetricHit' = MetricHit /\ NeverOlder'
    BY <2>1 DEF Computing, MetricHit, NeverOlder, MetricInv
  <2>3. 0..fact \subseteq 0..fact'
    BY <2>1
  <2>4. \A t \in MetricSlots : mCall[t].atLeast <= fact'
    <3> SUFFICES ASSUME NEW t \in MetricSlots PROVE mCall[t].atLeast <= fact'
      OBVIOUS
    <3>1. mCall[t] \in MetricCall /\ mCall[t].atLeast <= fact
      BY DEF MetricInv, MetricMade
    <3>2. mCall[t].atLeast \in Int
      BY <3>1, MetricAssumption DEF MetricCall
    <3> QED BY <2>1, <3>1, <3>2
  <2>5. MetricMade'
    BY <2>1 DEF MetricInv, MetricMade
  <2> QED BY <2>1, <2>2, <2>3, <2>4, <2>5
          DEF MetricInv, ComputesAlone, AnswerFits, InsertRefused
<1>2. CASE AskHit
  BY <1>2, AskHitKeeps
<1>3. CASE MetricExpires
  <2> DEFINE row == [metric EXCEPT !.expired = TRUE]
  <2>1. /\ metric' = row /\ metric # NoMetric /\ metric \in MetricRow
        /\ UNCHANGED <<fact, mCall, shown, answered>>
    BY <1>3 DEF MetricExpires, MetricHit, MetricInv, MetricMade
  <2>2. row \in MetricRow /\ row.expired /\ row.figure = metric.figure
        /\ row.marks = metric.marks
    BY <2>1 DEF MetricRow
  <2> HIDE DEF row
  <2>3. ~MetricHit' /\ Computing' = Computing /\ NeverOlder' /\ MetricMade'
    BY <2>1, <2>2 DEF MetricHit, Computing, NeverOlder, MetricInv, MetricMade
  <2> QED BY <2>1, <2>2, <2>3 DEF MetricInv, ComputesAlone, InsertRefused
<1>4. ASSUME NEW s \in MetricSlots, MetricDies(s) PROVE MetricInv'
  <2>1. s \in Computing
    BY <1>4 DEF MetricDies, Computing
  <2>2. MetricHit' = MetricHit /\ NeverOlder' = NeverOlder
    BY <1>4 DEF MetricDies, MetricHit, NeverOlder
  <2>3. MetricHit => AnswerFits(metric.figure, shown, metric.marks)
    BY DEF MetricInv
  <2>4. UNCHANGED <<fact, metric, shown, answered>> /\ mCall' = [mCall EXCEPT ![s] = IdleMetric]
    BY <1>4 DEF MetricDies
  <2>5. MetricHit' => AnswerFits(metric.figure, shown, metric.marks)'
    BY <2>2, <2>3, <2>4
  <2> QED BY <2>1, <2>2, <2>4, <2>5, CallEnds DEF MetricInv, MetricMade
<1>5. CASE UNCHANGED metricVars
  <2>1. UNCHANGED <<fact, metric, mCall, shown, answered>>
    BY <1>5 DEF metricVars
  <2> QED BY <2>1 DEF MetricInv, MetricMade, ComputesAlone, Computing, MetricHit, NeverOlder,
                      AnswerFits, InsertRefused
<1> QED BY <1>1, <1>2, <1>3, <1>4, <1>5, SaveMetricKeeps, AskMissKeeps, ComputingKeeps
        DEF MetricNext

(* Metrics have their types, whatever calls overlap, fail or stop.          *)
THEOREM MetricsWellTyped == MetricSpec => []MetricTypeOK
BY MetricStarts, MetricKept, MetricMeans, PTL DEF MetricSpec

(* Who asks after a figure was answered is not answered an older one or     *)
(* none, unless a service was silent, two calls computed it at a time or    *)
(* the newer figure could not be saved beside a valid row.                  *)
THEOREM FiguresGrow == MetricSpec => []NeverOlder
BY MetricStarts, MetricKept, MetricMeans, PTL DEF MetricSpec

-----------------------------------------------------------------------------
(* The recurring revenue of past months.                                    *)

OddReasons == {"undated", "asked", "unpaid"}

(* What a call of getMrr holds.                                             *)
FetchedCalls ==
  [pc : {"fetched"}, at : Months, marks : SUBSET {"silent"},
   told : [Months -> SUBSET PlanIds]]
HistoryCalls ==
  [pc : {"month", "keep"}, at : Months, marks : SUBSET {"silent"},
   told : [Months -> SUBSET PlanIds], asOf : Months, next : Nat,
   history : [Months -> Entry \cup {NotKept}]]
MrrCalls == {NoMrrCall} \cup FetchedCalls \cup HistoryCalls
Answers == [asOf : Months, history : [Months -> Entry \cup {NotKept}]]

RevenueMade ==
  /\ month \in Months
  /\ plan \in [PlanIds -> PlanRow \cup {NoPlan}]
  /\ \A p \in PlanIds : plan[p] # NoPlan =>
       /\ plan[p].made <= month /\ plan[p].updatedAt <= month
       /\ plan[p].cancelledAt # NoMonth => plan[p].cancelledAt <= month
  /\ truth \in [Months -> SUBSET PlanIds]
  /\ kept \in [Months -> Entry \cup {NotKept}]
  /\ odd \in [PlanIds -> SUBSET OddReasons]
  /\ mrrCall \in [MrrSlots -> MrrCalls]

(* In which past months a subscription that nothing befell was active, as   *)
(* its row tells it.                                                        *)
Tells(p, r) ==
  /\ r = NoPlan => \A m \in Past : p \notin truth[m]
  /\ r # NoPlan =>
       /\ r.status # "past_due"
       /\ r.status = "incomplete" => \A m \in Past : p \notin truth[m]
       /\ r.status = "active" => \A m \in Past : p \in truth[m] <=> r.made <= m
       /\ r.status = "cancelled" =>
            /\ r.cancelledAt # NoMonth
            /\ \A m \in Past : p \in truth[m] <=> r.made <= m /\ m < r.cancelledAt
RowTells(p) == Tells(p, plan[p])

(* In which at least, if it was paid for as long as it was open.            *)
TellsPaid(p, r) ==
  r # NoPlan =>
    /\ r.status # "past_due"
    /\ r.status = "incomplete" => r.cancelledAt = NoMonth
    /\ r.status = "active" => \A m \in Past : r.made <= m => p \in truth[m]
    /\ r.status = "cancelled" /\ r.cancelledAt # NoMonth =>
         \A m \in Past : r.made <= m /\ m < r.cancelledAt => p \in truth[m]
RowTellsPaid(p) == TellsPaid(p, plan[p])

(* What may be told of a past month: of are those that count.               *)
Good(of, marks, m) ==
  /\ \A p \in PlanIds : (p \in of) # (p \in truth[m]) => odd[p] # {} \/ marks # {}
  /\ \A p \in of \ truth[m] : "unpaid" \in odd[p] \/ "early" \in marks
EntryFits(m, e) == e = NotKept \/ (m < month /\ e \in Entry /\ Good(e.of, e.marks, m))

(* The months that had ended when the rows were fetched, and those told of. *)
FetchFits(k) ==
  /\ k.at <= month
  /\ \A m \in Months : m < k.at => Good(k.told[m], k.marks, m)
HistoryFits(h) ==
  /\ h.asOf <= month
  /\ \A m \in Months : m < h.asOf => EntryFits(m, h.history[m])
CallIsFit(k) ==
  /\ k \in FetchedCalls => FetchFits(k)
  /\ k \in HistoryCalls => FetchFits(k) /\ HistoryFits(k) /\ (k.pc = "keep" => k.next < k.asOf)
CurrentFits(h) == h = NotKept \/ (h \in Answers /\ HistoryFits(h))

MrrInv ==
  /\ \A m \in Months : \A e : kept[m] = e => EntryFits(m, e)
  /\ \A h : current = h => CurrentFits(h)
  /\ \A s \in MrrSlots : \A k : mrrCall[s] = k => CallIsFit(k)

RevenueInv ==
  /\ RevenueMade
  /\ \A p \in PlanIds : odd[p] = {} => RowTells(p)
  /\ \A p \in PlanIds : "unpaid" \notin odd[p] => RowTellsPaid(p)
  /\ MrrInv

LEMMA MonthsAre == Months \subseteq Nat /\ NoMonth \notin Months
  BY RevenueAssumption DEF Months

(* What is computed of a past month now.                                    *)
LEMMA CountedTells ==
  ASSUME RevenueInv, NEW m \in Past, NEW p \in PlanIds
  PROVE  /\ (p \in Counted(m, TRUE)) # (p \in truth[m]) => odd[p] # {}
         /\ p \in Counted(m, TRUE) \ truth[m] => "unpaid" \in odd[p]
<1> DEFINE r == plan[p]
<1>1. r \in PlanRow \cup {NoPlan}
  BY DEF RevenueInv, RevenueMade
<1>2. p \in Counted(m, TRUE) <=>
        /\ r # NoPlan /\ r.made <= m
        /\ r.status = "active" \/ (r.cancelledAt # NoMonth /\ r.cancelledAt > m)
  BY DEF Counted
<1>3. r # NoPlan => /\ r.status \in {"incomplete", "active", "past_due", "cancelled"}
                    /\ r.made \in Nat /\ r.cancelledAt \in Nat \cup {NoMonth}
  BY <1>1, MonthsAre DEF PlanRow
<1>4. m \in Nat
  BY MonthsAre DEF Past
<1>5. odd[p] = {} => RowTells(p) /\ RowTellsPaid(p)
  BY DEF RevenueInv
<1>6. "unpaid" \notin odd[p] => RowTellsPaid(p)
  BY DEF RevenueInv
<1>7. ASSUME "unpaid" \notin odd[p], p \in Counted(m, TRUE)
      PROVE  p \in truth[m]
  BY <1>2, <1>3, <1>4, <1>6, <1>7 DEF RowTellsPaid, TellsPaid, InPlan
<1>8. ASSUME odd[p] = {}, p \in truth[m]
      PROVE  p \in Counted(m, TRUE)
  BY <1>2, <1>3, <1>4, <1>5, <1>8 DEF RowTells, Tells, InPlan
<1> DEFINE c == Counted(m, TRUE)
<1>9. p \in c \ truth[m] => "unpaid" \in odd[p]
  BY <1>7
<1>10. p \in truth[m] \ c => odd[p] # {}
  BY <1>8
<1> HIDE DEF c
<1>11. (p \in c) # (p \in truth[m]) => odd[p] # {}
  BY <1>9, <1>10
<1> QED BY <1>9, <1>11 DEF c

(* What is told of a past month is what was told when it was computed.      *)
LEMMA ToldFits ==
  ASSUME RevenueInv, NEW m \in Past, NEW e \in ToldOf(m)
  PROVE  e \in Entry /\ Good(e.of, e.marks, m)
<1>1. m \in Months
  BY DEF Past
<1>2. CASE e = kept[m]
  <2>1. e # NotKept
    BY DEF ToldOf
  <2>2. EntryFits(m, e)
    BY <1>1, <1>2 DEF RevenueInv, MrrInv
  <2> QED BY <2>1, <2>2 DEF EntryFits
<1>3. ASSUME NEW h \in Histories \ {NotKept}, m < h.asOf, e = h.history[m]
      PROVE  e \in Entry /\ Good(e.of, e.marks, m)
  <2>1. e # NotKept
    BY <1>3 DEF ToldOf
  <2>2. CASE h = current
    <3>1. CurrentFits(h)
      BY <2>2 DEF RevenueInv, MrrInv
    <3>2. EntryFits(m, e)
      BY <1>1, <1>3, <3>1 DEF CurrentFits, HistoryFits
    <3> QED BY <2>1, <3>2 DEF EntryFits
  <2>3. ASSUME NEW s \in MrrSlots, h = mrrCall[s], h.pc \in {"month", "keep"}
        PROVE  e \in Entry /\ Good(e.of, e.marks, m)
    <3>1. CallIsFit(h) /\ h \in MrrCalls
      BY <2>3 DEF RevenueInv, MrrInv, RevenueMade
    <3>2. h \in HistoryCalls
      BY <2>3, <3>1 DEF MrrCalls, FetchedCalls, NoMrrCall
    <3>3. EntryFits(m, e)
      BY <1>1, <1>3, <3>1, <3>2 DEF CallIsFit, HistoryFits
    <3> QED BY <2>1, <3>3 DEF EntryFits
  <2> QED BY <2>2, <2>3 DEF Histories, MrrAt
<1> QED BY <1>2, <1>3 DEF ToldOf

LEMMA RevenueMeans == RevenueInv => /\ RevenueTypeOK /\ HistoryBlamed /\ HistoryNeverMore
                                    /\ ChangeBlamed
<1> SUFFICES ASSUME RevenueInv
             PROVE  RevenueTypeOK /\ ChangeBlamed /\ HistoryBlamed /\ HistoryNeverMore
  OBVIOUS
<1>1. RevenueTypeOK
  <2>1. ASSUME NEW p \in PlanIds, plan[p] # NoPlan
        PROVE  /\ plan[p].made \in 0..month
               /\ plan[p].status \in {"incomplete", "active", "past_due", "cancelled"}
               /\ plan[p].cancelledAt \in 0..month \cup {NoMonth}
               /\ plan[p].updatedAt \in 0..month
    BY <2>1, MonthsAre DEF RevenueInv, RevenueMade, PlanRow, Months
  <2>2. \A p \in PlanIds : odd[p] \subseteq OddReasons
    BY DEF RevenueInv, RevenueMade
  <2> QED BY <2>1, <2>2 DEF RevenueInv, RevenueMade, RevenueTypeOK, OddReasons
<1>2. ChangeBlamed
  <2> SUFFICES ASSUME month > 0, NEW p \in PlanIds, odd[p] = {}
               PROVE  /\ (p \in ActiveBefore) # (p \in truth[month - 1]) =>
                           InPlan(p, "incomplete")
                      /\ p \in truth[month - 1] \ Active => p \in Churned
    BY DEF ChangeBlamed
  <2>1. month - 1 \in Past /\ month \in Nat
    BY RevenueAssumption DEF RevenueInv, RevenueMade, Months, Past
  <2> DEFINE r == plan[p]
  <2>2. r # NoPlan => /\ r.made \in 0..month /\ r.updatedAt \in 0..month
                      /\ r.status \in {"incomplete", "active", "past_due", "cancelled"}
                      /\ r.cancelledAt \in 0..month \cup {NoMonth}
    BY <1>1 DEF RevenueTypeOK
  <2>3. RowTells(p)
    BY DEF RevenueInv
  <2>4. CASE r = NoPlan
    BY <2>1, <2>3, <2>4 DEF RowTells, Tells, ActiveBefore
  <2>5. CASE InPlan(p, "incomplete")
    BY <2>1, <2>3, <2>5 DEF RowTells, Tells, InPlan
  <2>6. CASE InPlan(p, "active")
    <3>1. r.made <= month - 1 <=> r.made < month
      BY <2>1, <2>2, <2>6 DEF InPlan
    <3>2. p \in truth[month - 1] <=> r.made < month
      BY <2>1, <2>3, <2>6, <3>1 DEF RowTells, Tells, InPlan
    <3>3. EndOf(p) = month \/ r.status = "active"
      BY <2>6 DEF InPlan
    <3> QED BY <2>6, <3>2 DEF ActiveBefore, Active, InPlan
  <2>7. CASE InPlan(p, "cancelled")
    <3>1. r.cancelledAt \in 0..month /\ EndOf(p) = r.cancelledAt /\ r.made \in 0..month
      BY <2>2, <2>3, <2>7 DEF RowTells, Tells, InPlan, EndOf
    <3>2. p \in truth[month - 1] <=> r.made <= month - 1 /\ month - 1 < r.cancelledAt
      BY <2>1, <2>3, <2>7 DEF RowTells, Tells, InPlan
    <3>3. p \in truth[month - 1] <=> r.made < month /\ r.cancelledAt = month
      BY <2>1, <3>1, <3>2
    <3>4. p \in ActiveBefore <=> r.made < month /\ r.cancelledAt = month
      BY <2>7, <3>1 DEF ActiveBefore, InPlan
    <3>5. p \in truth[month - 1] => p \in Churned
      BY <2>7, <3>1, <3>3 DEF Churned
    <3> QED BY <3>3, <3>4, <3>5
  <2> QED BY <2>2, <2>3, <2>4, <2>5, <2>6, <2>7 DEF RowTells, Tells, InPlan
<1>3. HistoryBlamed
  BY ToldFits DEF HistoryBlamed, Good
<1>4. HistoryNeverMore
  BY ToldFits DEF HistoryNeverMore, Good
<1> QED BY <1>1, <1>2, <1>3, <1>4

LEMMA RevenueStarts == RevenueInit => RevenueInv
<1> SUFFICES ASSUME RevenueInit PROVE RevenueInv
  OBVIOUS
<1>1. Past = {} /\ month = 0 /\ 0 \in Months
  BY RevenueAssumption DEF RevenueInit, Past, Months
<1>2. RevenueMade
  BY <1>1 DEF RevenueInit, RevenueMade, MrrCalls
<1>3. \A p \in PlanIds : plan[p] = NoPlan
  BY DEF RevenueInit
<1>4. \A p \in PlanIds : RowTells(p) /\ RowTellsPaid(p)
  BY <1>1, <1>3 DEF RowTells, Tells, RowTellsPaid, TellsPaid
<1>5. MrrInv
  <2>1. NoMrrCall \notin FetchedCalls /\ NoMrrCall \notin HistoryCalls
    BY DEF NoMrrCall, FetchedCalls, HistoryCalls
  <2>2. \A s \in MrrSlots : mrrCall[s] = NoMrrCall
    BY DEF RevenueInit
  <2>3. CallIsFit(NoMrrCall)
    BY <2>1 DEF CallIsFit
  <2>4. current = NotKept /\ \A m \in Months : kept[m] = NotKept
    BY DEF RevenueInit
  <2> QED BY <2>2, <2>3, <2>4 DEF MrrInv, EntryFits, CurrentFits
<1> QED BY <1>2, <1>4, <1>5 DEF RevenueInv

(* What is told of a month stays good: what was active when it ended is     *)
(* known, and what befell a subscription is not forgotten.                  *)
LEMMA GoodStays ==
  ASSUME RevenueInv, month' \in Months, month <= month',
         \A m \in Past : truth'[m] = truth[m],
         \A p \in PlanIds : odd[p] \subseteq odd'[p]
  PROVE  /\ \A m \in Months : \A e : EntryFits(m, e) => EntryFits(m, e)'
         /\ \A h : CurrentFits(h) => CurrentFits(h)'
         /\ \A k \in MrrCalls : CallIsFit(k) => CallIsFit(k)'
<1>1. month \in Months /\ month \in Nat /\ month' \in Nat /\ Months \subseteq Nat
  BY MonthsAre DEF RevenueInv, RevenueMade
<1>2. ASSUME NEW m \in Past, NEW of \in SUBSET PlanIds, NEW marks, Good(of, marks, m)
      PROVE  Good(of, marks, m)'
  BY <1>2 DEF Good
<1>3. ASSUME NEW m \in Months, NEW e, EntryFits(m, e)
      PROVE  EntryFits(m, e)'
  <2>1. CASE e = NotKept
    BY <2>1 DEF EntryFits
  <2>2. CASE e # NotKept
    <3>1. m \in Past /\ e \in Entry /\ Good(e.of, e.marks, m) /\ m < month
      BY <1>3, <2>2 DEF EntryFits, Past
    <3>2. e.of \in SUBSET PlanIds
      BY <3>1 DEF Entry
    <3>3. Good(e.of, e.marks, m)'
      BY <1>2, <3>1, <3>2
    <3>4. m < month'
      BY <1>1, <3>1
    <3> QED BY <3>1, <3>3, <3>4 DEF EntryFits
  <2> QED BY <2>1, <2>2
<1>4. ASSUME NEW h \in Answers \cup HistoryCalls, HistoryFits(h)
      PROVE  HistoryFits(h)'
  <2>1. h.asOf \in Nat
    BY <1>1 DEF Answers, HistoryCalls
  <2>2. h.asOf <= month'
    BY <1>1, <1>4, <2>1 DEF HistoryFits
  <2> QED BY <1>3, <1>4, <2>2 DEF HistoryFits
<1>5. ASSUME NEW k \in FetchedCalls \cup HistoryCalls, FetchFits(k)
      PROVE  FetchFits(k)'
  <2>1. k.at \in Nat /\ k.told \in [Months -> SUBSET PlanIds]
    BY <1>1 DEF FetchedCalls, HistoryCalls
  <2>2. k.at <= month /\ k.at <= month'
    BY <1>1, <1>5, <2>1 DEF FetchFits
  <2>3. ASSUME NEW m \in Months, m < k.at
        PROVE  Good(k.told[m], k.marks, m)'
    <3> DEFINE at == k.at
    <3>4. m \in Nat /\ at \in Nat /\ m < at /\ at <= month
      BY <1>1, <2>1, <2>2, <2>3
    <3>5. m < month
      <4> HIDE DEF at
      <4> QED BY <1>1, <3>4
    <3>1. m \in Past
      BY <3>5 DEF Past
    <3>2. k.told[m] \in SUBSET PlanIds
      BY <2>1
    <3>3. Good(k.told[m], k.marks, m)
      BY <1>5, <2>3 DEF FetchFits
    <3> QED BY <1>2, <3>1, <3>2, <3>3
  <2> QED BY <2>2, <2>3 DEF FetchFits
<1>6. ASSUME NEW h, CurrentFits(h)
      PROVE  CurrentFits(h)'
  <2>1. h = NotKept \/ (h \in Answers /\ HistoryFits(h))
    BY <1>6 DEF CurrentFits
  <2>2. h = NotKept \/ (h \in Answers /\ HistoryFits(h)')
    BY <1>4, <2>1
  <2> QED BY <2>2 DEF CurrentFits
<1>7. ASSUME NEW k \in MrrCalls, CallIsFit(k)
      PROVE  CallIsFit(k)'
  <2>1. k \in FetchedCalls => FetchFits(k)'
    BY <1>5, <1>7 DEF CallIsFit
  <2>2. k \in HistoryCalls => FetchFits(k)' /\ HistoryFits(k)' /\ (k.pc = "keep" => k.next < k.asOf)
    BY <1>4, <1>5, <1>7 DEF CallIsFit
  <2> QED BY <2>1, <2>2 DEF CallIsFit
<1> QED BY <1>3, <1>6, <1>7

(* A step that leaves what is kept and the calls alone.                     *)
LEMMA MrrStays ==
  ASSUME RevenueInv, month' \in Months, month <= month',
         \A m \in Past : truth'[m] = truth[m],
         \A p \in PlanIds : odd[p] \subseteq odd'[p],
         UNCHANGED mrrVars
  PROVE  MrrInv'
<1>1. kept' = kept /\ current' = current /\ mrrCall' = mrrCall
  BY DEF mrrVars
<1>2. \A m \in Months : \A e : kept'[m] = e => EntryFits(m, e)'
  BY <1>1, GoodStays DEF RevenueInv, MrrInv
<1>3. \A h : current' = h => CurrentFits(h)'
  BY <1>1, GoodStays DEF RevenueInv, MrrInv
<1>4. \A s \in MrrSlots : \A k : mrrCall'[s] = k => CallIsFit(k)'
  <2> SUFFICES ASSUME NEW s \in MrrSlots, NEW k, mrrCall[s] = k PROVE CallIsFit(k)'
    BY <1>1
  <2>1. k \in MrrCalls /\ CallIsFit(k)
    BY DEF RevenueInv, MrrInv, RevenueMade
  <2> QED BY <2>1, GoodStays
<1> QED BY <1>2, <1>3, <1>4 DEF MrrInv

(* A step that changes a row, and may note why.                             *)
LEMMA RowStep ==
  ASSUME RevenueInv, NEW p \in PlanIds, NEW row \in PlanRow \cup {NoPlan},
         plan' = [plan EXCEPT ![p] = row],
         row # NoPlan => /\ row.made <= month /\ row.updatedAt <= month
                         /\ row.cancelledAt # NoMonth => row.cancelledAt <= month,
         UNCHANGED odd \/ \E what \in OddReasons : Note(p, what),
         UNCHANGED <<month, truth, mrrVars>>,
         odd'[p] = {} => Tells(p, row),
         "unpaid" \notin odd'[p] => TellsPaid(p, row)
  PROVE  RevenueInv'
<1>1. plan'[p] = row /\ \A q \in PlanIds \ {p} : plan'[q] = plan[q]
  BY DEF RevenueInv, RevenueMade
<1>2. /\ odd' \in [PlanIds -> SUBSET OddReasons]
      /\ odd[p] \subseteq odd'[p]
      /\ \A q \in PlanIds : q # p => odd'[q] = odd[q]
  <2>1. CASE UNCHANGED odd
    BY <2>1 DEF RevenueInv, RevenueMade
  <2>2. ASSUME NEW what \in OddReasons, Note(p, what)
        PROVE  /\ odd' \in [PlanIds -> SUBSET OddReasons]
               /\ odd[p] \subseteq odd'[p]
               /\ \A q \in PlanIds : q # p => odd'[q] = odd[q]
    BY <2>2 DEF RevenueInv, RevenueMade, Note
  <2> QED BY <2>1, <2>2
<1>3. RevenueMade'
  <2>1. plan' \in [PlanIds -> PlanRow \cup {NoPlan}]
    BY DEF RevenueInv, RevenueMade
  <2> QED BY <1>1, <1>2, <2>1 DEF RevenueInv, RevenueMade, mrrVars
<1>4. Past' = Past
  BY DEF Past
<1>5. ASSUME NEW q \in PlanIds, q # p
      PROVE  /\ odd'[q] = {} => RowTells(q)'
             /\ "unpaid" \notin odd'[q] => RowTellsPaid(q)'
  <2>1. plan'[q] = plan[q] /\ odd'[q] = odd[q]
    BY <1>1, <1>2, <1>5
  <2> QED BY <1>4, <2>1 DEF RevenueInv, RowTells, Tells, RowTellsPaid, TellsPaid
<1>8. /\ odd'[p] = {} => RowTells(p)'
      /\ "unpaid" \notin odd'[p] => RowTellsPaid(p)'
  BY <1>1, <1>4 DEF RowTells, Tells, RowTellsPaid, TellsPaid
<1>6. MrrInv'
  <2>1. month \in Months /\ month <= month' /\ \A m \in Past : truth'[m] = truth[m]
    BY MonthsAre DEF RevenueInv, RevenueMade
  <2>2. \A q \in PlanIds : odd[q] \subseteq odd'[q]
    BY <1>2
  <2> QED BY <2>1, <2>2, MrrStays
<1> QED BY <1>3, <1>5, <1>6, <1>8 DEF RevenueInv

(* A save of a row: its status and the month it was cancelled in.           *)
LEMMA SavedStep ==
  ASSUME RevenueInv, NEW p \in PlanIds, plan[p] # NoPlan,
         NEW status \in {"incomplete", "active", "past_due", "cancelled"},
         NEW end \in Months \cup {NoMonth}, end # NoMonth => end <= month,
         NEW new, Saved(p, new), new \in PlanRow,
         new.made = plan[p].made, new.status = status, new.cancelledAt = end,
         UNCHANGED odd \/ \E what \in OddReasons : Note(p, what),
         UNCHANGED <<month, truth, mrrVars>>,
         odd'[p] = {} => Tells(p, new),
         "unpaid" \notin odd'[p] => TellsPaid(p, new)
  PROVE  RevenueInv'
<1> DEFINE row == [new EXCEPT !.updatedAt = month]
<1>1. plan' = [plan EXCEPT ![p] = row]
  BY DEF Saved
<1>2. /\ row \in PlanRow /\ row.made = plan[p].made /\ row.status = status
      /\ row.cancelledAt = end /\ row.updatedAt = month
  BY DEF PlanRow, RevenueInv, RevenueMade
<1>3. row # NoPlan /\ new # NoPlan
  BY <1>2, NoPlanAssumption
<1> HIDE DEF row
<1>4. row.made <= month /\ row.updatedAt <= month
  <2>1. plan[p].made <= month /\ month \in Nat
    BY MonthsAre DEF RevenueInv, RevenueMade
  <2> QED BY <1>2, <2>1
<1>5. odd'[p] = {} => Tells(p, row)
  BY <1>2, <1>3 DEF Tells
<1>6. "unpaid" \notin odd'[p] => TellsPaid(p, row)
  BY <1>2, <1>3 DEF TellsPaid
<1> QED BY <1>1, <1>2, <1>4, <1>5, <1>6, RowStep

(* What the row of a subscription is now.                                   *)
LEMMA RowsAre ==
  ASSUME RevenueInv, NEW p \in PlanIds, plan[p] # NoPlan
  PROVE  /\ plan[p] \in PlanRow /\ month \in Months
         /\ plan[p].made \in Nat /\ month \in Nat
         /\ plan[p].made <= month
         /\ plan[p].cancelledAt # NoMonth =>
              plan[p].cancelledAt \in Nat /\ plan[p].cancelledAt <= month
         /\ plan[p].status \in {"incomplete", "active", "past_due", "cancelled"}
         /\ plan[p].cancelledAt \in Months \cup {NoMonth}
         /\ odd[p] = {} => Tells(p, plan[p]) /\ TellsPaid(p, plan[p])
         /\ "unpaid" \notin odd[p] => TellsPaid(p, plan[p])
         /\ \A m \in Past : m \in Nat /\ m < month
<1>1. plan[p] \in PlanRow /\ month \in Months /\ plan[p].made <= month
  BY DEF RevenueInv, RevenueMade
<1>2. /\ odd[p] = {} => Tells(p, plan[p])
      /\ "unpaid" \notin odd[p] => TellsPaid(p, plan[p])
  BY DEF RevenueInv, RowTells, RowTellsPaid
<1>3. plan[p].cancelledAt # NoMonth => plan[p].cancelledAt <= month
  BY DEF RevenueInv, RevenueMade
<1>4. odd[p] = {} => "unpaid" \notin odd[p]
  OBVIOUS
<1> QED BY <1>1, <1>2, <1>3, <1>4, MonthsAre DEF PlanRow, Past

(* What a note leaves.                                                      *)
LEMMA Noted ==
  ASSUME RevenueInv, NEW p \in PlanIds, NEW what \in OddReasons, Note(p, what)
  PROVE  what \in odd'[p] /\ odd[p] \subseteq odd'[p]
BY DEF Note, RevenueInv, RevenueMade

LEMMA RowStepsKeep ==
  ASSUME RevenueInv, NEW p \in PlanIds,
         \/ NewPlan(p) \/ Abandon(p) \/ Paid(p) \/ FallDue(p)
         \/ AskToEnd(p) \/ Reactivate(p) \/ CancelNow(p) \/ End(p)
  PROVE  RevenueInv'
<1> USE DEF InPlan
<1>1. CASE NewPlan(p)
  <2> DEFINE row == [made |-> month, status |-> "incomplete",
                     cancelledAt |-> NoMonth, updatedAt |-> month]
  <2>1. /\ plan[p] = NoPlan /\ plan' = [plan EXCEPT ![p] = row]
        /\ UNCHANGED <<month, truth, mrrVars, odd>>
    BY <1>1 DEF NewPlan
  <2>2. row \in PlanRow /\ row.made = month /\ row.status = "incomplete"
        /\ row.cancelledAt = NoMonth /\ row.updatedAt = month /\ month \in Nat
    BY MonthsAre DEF RevenueInv, RevenueMade, PlanRow
  <2> HIDE DEF row
  <2>3. odd[p] = {} => Tells(p, row)
    BY <2>1, <2>2 DEF RevenueInv, RowTells, Tells
  <2>4. TellsPaid(p, row)
    BY <2>2 DEF TellsPaid
  <2>5. row # NoPlan => /\ row.made <= month /\ row.updatedAt <= month
                        /\ row.cancelledAt # NoMonth => row.cancelledAt <= month
    BY <2>2
  <2>6. odd'[p] = {} => Tells(p, row)
    BY <2>1, <2>3
  <2>7. UNCHANGED odd /\ UNCHANGED <<month, truth, mrrVars>>
    BY <2>1
  <2> QED BY <2>1, <2>2, <2>4, <2>5, <2>6, <2>7, RowStep
<1>2. CASE Abandon(p)
  <2>1. /\ plan[p] # NoPlan /\ plan[p].status = "incomplete"
        /\ plan' = [plan EXCEPT ![p] = NoPlan]
        /\ UNCHANGED <<month, truth, mrrVars, odd>>
    BY <1>2 DEF Abandon
  <2>2. odd[p] = {} => Tells(p, NoPlan)
    BY <2>1 DEF RevenueInv, RowTells, Tells
  <2>3. TellsPaid(p, NoPlan)
    BY DEF TellsPaid
  <2> QED BY <2>1, <2>2, <2>3, RowStep
<1> DEFINE r == plan[p]
<1>3. CASE Paid(p)
  <2> DEFINE new == [plan[p] EXCEPT !.status = "active"]
  <2>1. /\ r # NoPlan /\ r.status \in {"incomplete", "past_due"} /\ Saved(p, new)
        /\ IF r.made = month THEN UNCHANGED odd ELSE Note(p, "unpaid")
        /\ UNCHANGED <<month, truth, mrrVars>>
    BY <1>3 DEF Paid
  <2>2. /\ new \in PlanRow /\ new.made = r.made /\ new.status = "active"
        /\ new.cancelledAt = r.cancelledAt
    BY <2>1, RowsAre DEF PlanRow
  <2> HIDE DEF new
  <2>3. ASSUME "unpaid" \notin odd'[p]
        PROVE  r.made = month /\ UNCHANGED odd /\ r.status = "incomplete"
    <3>1. r.made = month /\ UNCHANGED odd
      BY <2>1, <2>3, Noted DEF OddReasons
    <3> QED BY <2>1, <2>3, <3>1, RowsAre DEF TellsPaid
  <2>4. odd'[p] = {} => Tells(p, new)
    BY <2>1, <2>2, <2>3, RowsAre, NoPlanAssumption DEF Tells
  <2>5. "unpaid" \notin odd'[p] => TellsPaid(p, new)
    BY <2>1, <2>2, <2>3, RowsAre DEF TellsPaid
  <2>6. UNCHANGED odd \/ \E what \in OddReasons : Note(p, what)
    BY <2>1 DEF OddReasons
  <2> QED BY <2>1, <2>2, <2>4, <2>5, <2>6, RowsAre, SavedStep
<1>4. CASE FallDue(p)
  <2> DEFINE new == [plan[p] EXCEPT !.status = "past_due"]
  <2>1. /\ r # NoPlan /\ Saved(p, new) /\ Note(p, "unpaid")
        /\ UNCHANGED <<month, truth, mrrVars>>
    BY <1>4 DEF FallDue
  <2>2. /\ new \in PlanRow /\ new.made = r.made /\ new.status = "past_due"
        /\ new.cancelledAt = r.cancelledAt
    BY <2>1, RowsAre DEF PlanRow
  <2> HIDE DEF new
  <2>3. "unpaid" \in odd'[p] /\ \E what \in OddReasons : Note(p, what)
    BY <2>1, Noted DEF OddReasons
  <2> QED BY <2>1, <2>2, <2>3, RowsAre, SavedStep
<1>5. CASE AskToEnd(p)
  <2> DEFINE new == [plan[p] EXCEPT !.cancelledAt = month]
  <2>1. /\ r # NoPlan /\ r.status # "cancelled" /\ Saved(p, new) /\ NoteIfUnpaid(p)
        /\ UNCHANGED <<month, truth, mrrVars>>
    BY <1>5 DEF AskToEnd, Open
  <2>2. /\ new \in PlanRow /\ new.made = r.made /\ new.status = r.status
        /\ new.cancelledAt = month
    BY <2>1, RowsAre DEF PlanRow
  <2> HIDE DEF new
  <2>3. ASSUME "unpaid" \notin odd'[p]
        PROVE  r.status = "active" /\ UNCHANGED odd
    <3>1. r.status # "incomplete" /\ UNCHANGED odd
      BY <2>1, <2>3, Noted DEF OddReasons, NoteIfUnpaid
    <3> QED BY <2>1, <2>3, <3>1, RowsAre DEF TellsPaid
  <2>4. odd'[p] = {} => Tells(p, new)
    BY <2>1, <2>2, <2>3, RowsAre, NoPlanAssumption DEF Tells
  <2>5. "unpaid" \notin odd'[p] => TellsPaid(p, new)
    BY <2>1, <2>2, <2>3, RowsAre DEF TellsPaid
  <2>6. UNCHANGED odd \/ \E what \in OddReasons : Note(p, what)
    BY <2>1 DEF OddReasons, NoteIfUnpaid
  <2> QED BY <2>1, <2>2, <2>4, <2>5, <2>6, RowsAre, SavedStep
<1>6. CASE Reactivate(p)
  <2> DEFINE new == [plan[p] EXCEPT !.cancelledAt = NoMonth]
  <2>1. /\ r # NoPlan /\ r.status # "cancelled" /\ Saved(p, new)
        /\ UNCHANGED <<month, truth, mrrVars, odd>>
    BY <1>6 DEF Reactivate, Open
  <2>2. /\ new \in PlanRow /\ new.made = r.made /\ new.status = r.status
        /\ new.cancelledAt = NoMonth
    BY <2>1, RowsAre DEF PlanRow
  <2> HIDE DEF new
  <2>3. odd[p] = {} => Tells(p, new)
    BY <2>1, <2>2, RowsAre, NoPlanAssumption DEF Tells
  <2>4. "unpaid" \notin odd[p] => TellsPaid(p, new)
    BY <2>1, <2>2, RowsAre DEF TellsPaid
  <2> QED BY <2>1, <2>2, <2>3, <2>4, RowsAre, SavedStep
<1>7. CASE CancelNow(p)
  <2> DEFINE new == [plan[p] EXCEPT !.status = "cancelled", !.cancelledAt = month]
  <2>1. /\ r # NoPlan /\ r.status # "cancelled" /\ Saved(p, new) /\ NoteIfUnpaid(p)
        /\ UNCHANGED <<month, truth, mrrVars>>
    BY <1>7 DEF CancelNow, Open
  <2>2. /\ new \in PlanRow /\ new.made = r.made /\ new.status = "cancelled"
        /\ new.cancelledAt = month
    BY <2>1, RowsAre DEF PlanRow
  <2> HIDE DEF new
  <2>3. ASSUME "unpaid" \notin odd'[p]
        PROVE  r.status = "active" /\ UNCHANGED odd
    <3>1. r.status # "incomplete" /\ UNCHANGED odd
      BY <2>1, <2>3, Noted DEF OddReasons, NoteIfUnpaid
    <3> QED BY <2>1, <2>3, <3>1, RowsAre DEF TellsPaid
  <2>4. odd'[p] = {} => Tells(p, new)
    BY <2>1, <2>2, <2>3, RowsAre, MonthsAre, NoPlanAssumption DEF Tells
  <2>5. "unpaid" \notin odd'[p] => TellsPaid(p, new)
    BY <2>1, <2>2, <2>3, RowsAre DEF TellsPaid
  <2>6. UNCHANGED odd \/ \E what \in OddReasons : Note(p, what)
    BY <2>1 DEF OddReasons, NoteIfUnpaid
  <2> QED BY <2>1, <2>2, <2>4, <2>5, <2>6, RowsAre, SavedStep
<1>8. CASE End(p)
  <2> DEFINE new == [plan[p] EXCEPT !.status = "cancelled"]
  <2>1. /\ r # NoPlan /\ r.status # "incomplete" /\ Saved(p, new)
        /\ IF r.cancelledAt = month \/ r.status = "cancelled" THEN UNCHANGED odd
           ELSE Note(p, IF r.cancelledAt = NoMonth THEN "undated" ELSE "asked")
        /\ UNCHANGED <<month, truth, mrrVars>>
    BY <1>8 DEF End, Open
  <2>2. /\ new \in PlanRow /\ new.made = r.made /\ new.status = "cancelled"
        /\ new.cancelledAt = r.cancelledAt
    BY <2>1, RowsAre DEF PlanRow
  <2> HIDE DEF new
  <2>6. UNCHANGED odd \/ \E what \in OddReasons : Note(p, what)
    BY <2>1 DEF OddReasons
  <2>3. odd[p] \subseteq odd'[p]
    BY <2>6, Noted
  <2>4. odd'[p] = {} => Tells(p, new)
    <3> SUFFICES ASSUME odd'[p] = {} PROVE Tells(p, new)
      OBVIOUS
    <3>1. /\ odd[p] = {} /\ UNCHANGED odd
          /\ r.cancelledAt = month \/ r.status = "cancelled"
      BY <2>1, <2>3, Noted DEF OddReasons
    <3> QED BY <2>1, <2>2, <3>1, RowsAre, MonthsAre, NoPlanAssumption DEF Tells
  <2>5. "unpaid" \notin odd'[p] => TellsPaid(p, new)
    <3> SUFFICES ASSUME "unpaid" \notin odd'[p] PROVE TellsPaid(p, new)
      OBVIOUS
    <3>1. TellsPaid(p, r)
      BY <2>1, <2>3, RowsAre
    <3> QED BY <2>1, <2>2, <3>1, RowsAre DEF TellsPaid
  <2> QED BY <2>1, <2>2, <2>4, <2>5, <2>6, RowsAre, SavedStep
<1> QED BY <1>1, <1>2, <1>3, <1>4, <1>5, <1>6, <1>7, <1>8

LEMMA MonthEndsKeeps ==
  ASSUME RevenueInv, MonthEnds
  PROVE  RevenueInv'
<1>1. /\ month \in Nat /\ month' = month + 1 /\ month' \in Months /\ month \in Months
      /\ truth' = [truth EXCEPT ![month] = Active]
      /\ UNCHANGED <<plan, mrrVars, odd>>
  BY RevenueAssumption DEF MonthEnds, RevenueInv, RevenueMade, Months
<1>2. Past' = Past \cup {month} /\ month \notin Past
  <2>1. \A m \in Months : m \in Nat /\ (m < month + 1 <=> m < month \/ m = month)
    BY <1>1, MonthsAre
  <2>2. Past' = {m \in Months : m < month + 1}
    BY <1>1 DEF Past
  <2>3. \A m : m \in Past' <=> m \in Past \cup {month}
    BY <1>1, <2>1, <2>2 DEF Past
  <2>4. Past' = Past \cup {month}
    BY <2>3
  <2>5. month \notin Past
    BY <1>1 DEF Past
  <2> QED BY <2>4, <2>5
<1>3. /\ truth'[month] = Active
      /\ \A m \in Past : truth'[m] = truth[m] /\ m < month /\ m \in Nat
  BY <1>1, MonthsAre DEF RevenueInv, RevenueMade, Past
<1>4. RevenueMade'
  <2>1. Active \subseteq PlanIds
    BY DEF Active
  <2>2. truth' \in [Months -> SUBSET PlanIds]
    BY <1>1, <2>1 DEF RevenueInv, RevenueMade
  <2>3. \A p \in PlanIds : plan'[p] # NoPlan =>
           /\ plan'[p].made <= month' /\ plan'[p].updatedAt <= month'
           /\ plan'[p].cancelledAt # NoMonth => plan'[p].cancelledAt <= month'
    <3> SUFFICES ASSUME NEW p \in PlanIds, plan[p] # NoPlan
                 PROVE  /\ plan[p].made <= month' /\ plan[p].updatedAt <= month'
                        /\ plan[p].cancelledAt # NoMonth => plan[p].cancelledAt <= month'
      BY <1>1
    <3>1. plan[p] \in PlanRow /\ plan[p].updatedAt <= month
      BY DEF RevenueInv, RevenueMade
    <3>2. plan[p].updatedAt \in Nat
      BY <3>1, MonthsAre DEF PlanRow
    <3> QED BY <1>1, <3>1, <3>2, RowsAre
  <2> QED BY <1>1, <2>2, <2>3 DEF RevenueInv, RevenueMade, mrrVars
<1>5. ASSUME NEW p \in PlanIds
      PROVE  /\ RowTells(p) => RowTells(p)'
             /\ RowTellsPaid(p) => RowTellsPaid(p)'
  <2>1. CASE plan[p] = NoPlan
    BY <1>1, <1>2, <1>3, <2>1 DEF RowTells, Tells, RowTellsPaid, TellsPaid, Active, InPlan
  <2>2. CASE plan[p] # NoPlan
    <3>1. p \in truth'[month] <=> plan[p].status = "active"
      BY <1>3, <2>2 DEF Active, InPlan
    <3>2. /\ plan[p].made \in Nat /\ plan[p].made <= month
          /\ plan[p].cancelledAt # NoMonth =>
                plan[p].cancelledAt \in Nat /\ plan[p].cancelledAt <= month
      BY <2>2, RowsAre
    <3>3. RowTells(p) => RowTells(p)'
      BY <1>1, <1>2, <1>3, <2>2, <3>1, <3>2 DEF RowTells, Tells
    <3>4. RowTellsPaid(p) => RowTellsPaid(p)'
      BY <1>1, <1>2, <1>3, <2>2, <3>1, <3>2 DEF RowTellsPaid, TellsPaid
    <3> QED BY <3>3, <3>4
  <2> QED BY <2>1, <2>2
<1>6. MrrInv'
  BY <1>1, <1>3, MrrStays
<1> QED BY <1>1, <1>4, <1>5, <1>6 DEF RevenueInv

(* A step of what is kept and of a call of getMrr.                          *)
LEMMA MrrMoves ==
  ASSUME RevenueInv, UNCHANGED <<month, plan, truth, odd>>,
         \A m \in Months : kept'[m] = kept[m] \/ EntryFits(m, kept'[m]),
         kept' \in [Months -> Entry \cup {NotKept}],
         current' = current \/ CurrentFits(current'),
         mrrCall' \in [MrrSlots -> MrrCalls],
         \A s \in MrrSlots : mrrCall'[s] = mrrCall[s] \/ CallIsFit(mrrCall'[s])
  PROVE  RevenueInv'
<1>1. RevenueMade' /\ Past' = Past
  BY DEF RevenueInv, RevenueMade, Past
<1>2. \A p \in PlanIds : RowTells(p)' = RowTells(p) /\ RowTellsPaid(p)' = RowTellsPaid(p)
  BY <1>1 DEF RowTells, Tells, RowTellsPaid, TellsPaid
<1>3. /\ month' \in Months /\ month <= month' /\ \A m \in Past : truth'[m] = truth[m]
      /\ \A p \in PlanIds : odd[p] \subseteq odd'[p]
  BY MonthsAre DEF RevenueInv, RevenueMade
<1>4. /\ \A m \in Months : \A e : EntryFits(m, e) => EntryFits(m, e)'
      /\ \A h : CurrentFits(h) => CurrentFits(h)'
      /\ \A k \in MrrCalls : CallIsFit(k) => CallIsFit(k)'
  BY <1>3, GoodStays
<1>5. ASSUME NEW m \in Months, NEW e, kept'[m] = e
      PROVE  EntryFits(m, e)'
  <2>1. EntryFits(m, e)
    BY <1>5 DEF RevenueInv, MrrInv
  <2> QED BY <1>4, <2>1
<1>6. ASSUME NEW h, current' = h
      PROVE  CurrentFits(h)'
  <2>1. CurrentFits(h)
    BY <1>6 DEF RevenueInv, MrrInv
  <2> QED BY <1>4, <2>1
<1>7. ASSUME NEW s \in MrrSlots, NEW k, mrrCall'[s] = k
      PROVE  CallIsFit(k)'
  <2>1. CallIsFit(k) /\ k \in MrrCalls
    BY <1>7 DEF RevenueInv, MrrInv
  <2> QED BY <1>4, <2>1
<1>8. MrrInv'
  BY <1>5, <1>6, <1>7 DEF MrrInv
<1> QED BY <1>1, <1>2, <1>8 DEF RevenueInv

(* A step of one call.                                                      *)
LEMMA OneMrrMoves ==
  ASSUME RevenueInv, UNCHANGED <<month, plan, truth, odd>>, NEW s \in MrrSlots,
         NEW k \in MrrCalls, CallIsFit(k), mrrCall' = [mrrCall EXCEPT ![s] = k],
         \A m \in Months : kept'[m] = kept[m] \/ EntryFits(m, kept'[m]),
         kept' \in [Months -> Entry \cup {NotKept}],
         current' = current \/ CurrentFits(current')
  PROVE  RevenueInv'
<1>1. mrrCall \in [MrrSlots -> MrrCalls]
  BY DEF RevenueInv, RevenueMade
<1>2. mrrCall' \in [MrrSlots -> MrrCalls]
  BY <1>1
<1>3. \A t \in MrrSlots : mrrCall'[t] = mrrCall[t] \/ CallIsFit(mrrCall'[t])
  BY <1>1
<1> QED BY <1>2, <1>3, MrrMoves

LEMMA NoCallFits == NoMrrCall \in MrrCalls /\ CallIsFit(NoMrrCall)
BY DEF MrrCalls, NoMrrCall, FetchedCalls, HistoryCalls, CallIsFit

(* What is computed of a month and may be told.                             *)
LEMMA ComputedFits ==
  ASSUME RevenueInv, NEW k \in HistoryCalls, CallIsFit(k), k.next <= k.asOf
  PROVE  /\ Computed(k) \in Entry /\ k.next \in Months
         /\ k.next < k.asOf => EntryFits(k.next, Computed(k))
<1>1. /\ k.at \in Months /\ k.marks \subseteq {"silent"} /\ k.told \in [Months -> SUBSET PlanIds]
      /\ k.asOf \in Months /\ k.next \in Nat /\ month \in Months
      /\ k.at \in Nat /\ k.asOf \in Nat /\ month \in Nat
  BY MonthsAre DEF HistoryCalls, RevenueInv, RevenueMade
<1>2. k.next \in Months
  BY <1>1, RevenueAssumption DEF Months
<1>3. FetchFits(k) /\ HistoryFits(k)
  BY DEF CallIsFit
<1>4. /\ MarksOf(k) \subseteq {"silent", "early"} /\ k.marks \subseteq MarksOf(k)
      /\ k.at <= k.next /\ k.next < k.asOf => "early" \in MarksOf(k)
  BY <1>1 DEF MarksOf
<1>5. Computed(k) \in Entry
  BY <1>1, <1>2, <1>4 DEF Computed, Entry
<1>6. Computed(k).of = k.told[k.next] /\ Computed(k).marks = MarksOf(k)
  BY DEF Computed
<1>7. ASSUME k.next < k.asOf
      PROVE  EntryFits(k.next, Computed(k))
  <2>1. k.next < month
    BY <1>1, <1>3, <1>7, MonthsAre DEF HistoryFits
  <2>2. Good(k.told[k.next], MarksOf(k), k.next)
    <3>1. CASE k.next < k.at
      <4>1. Good(k.told[k.next], k.marks, k.next)
        BY <1>2, <1>3, <3>1 DEF FetchFits
      <4> QED BY <1>4, <4>1 DEF Good
    <3>2. CASE k.at <= k.next
      <4>1. "early" \in MarksOf(k)
        BY <1>4, <1>7, <3>2
      <4> QED BY <4>1 DEF Good
    <3> QED BY <1>1, <3>1, <3>2, MonthsAre
  <2> QED BY <1>5, <1>6, <2>1, <2>2 DEF EntryFits
<1> QED BY <1>2, <1>5, <1>7

(* A month more in the answer that a call puts together.                    *)
LEMMA PushFits ==
  ASSUME RevenueInv, NEW k \in HistoryCalls, CallIsFit(k), NEW e \in Entry,
         k.next \in Months, k.next < k.asOf => EntryFits(k.next, e)
  PROVE  Push(k, e) \in MrrCalls /\ CallIsFit(Push(k, e))
<1> DEFINE new == Push(k, e)
<1> DEFINE longer == [k.history EXCEPT ![k.next] = e]
<1>0. longer \in [Months -> Entry \cup {NotKept}] /\ k.next + 1 \in Nat
  BY MonthsAre DEF HistoryCalls
<1>9. new = [k EXCEPT !.pc = "month", !.history = longer, !.next = k.next + 1]
  BY DEF Push
<1> HIDE DEF longer, new
<1>1. /\ new \in HistoryCalls /\ new.pc = "month" /\ new.at = k.at /\ new.told = k.told
      /\ new.marks = k.marks /\ new.asOf = k.asOf
      /\ new.history = longer
  BY <1>0, <1>9 DEF HistoryCalls
<1>2. \A m \in Months : new.history[m] = IF m = k.next THEN e ELSE k.history[m]
  BY <1>1 DEF HistoryCalls, longer
<1>3. FetchFits(k) /\ HistoryFits(k)
  BY DEF CallIsFit
<1>4. new \notin FetchedCalls /\ new \in MrrCalls
  BY <1>1 DEF FetchedCalls, MrrCalls
<1>5. FetchFits(new)
  BY <1>1, <1>3 DEF FetchFits
<1>6. HistoryFits(new)
  BY <1>1, <1>2, <1>3 DEF HistoryFits
<1>7. CallIsFit(new)
  BY <1>1, <1>4, <1>5, <1>6 DEF CallIsFit
<1> QED BY <1>4, <1>7 DEF new

(* The call of a slot that works on its answer.                             *)
LEMMA AtHistory ==
  ASSUME RevenueInv, NEW s \in MrrSlots, MrrAt(s, "month") \/ MrrAt(s, "keep")
  PROVE  mrrCall[s] \in HistoryCalls /\ CallIsFit(mrrCall[s])
<1>1. mrrCall[s] \in MrrCalls /\ CallIsFit(mrrCall[s])
  BY DEF RevenueInv, RevenueMade, MrrInv
<1> QED BY <1>1 DEF MrrAt, MrrCalls, NoMrrCall, FetchedCalls

LEMMA FetchKeeps ==
  ASSUME RevenueInv, NEW s \in MrrSlots, NEW replies \in BOOLEAN, FetchSubscriptions(s, replies)
  PROVE  RevenueInv'
<1> DEFINE none == IF replies THEN {} ELSE {"silent"}
           k == [pc |-> "fetched", at |-> month, marks |-> none,
                 told |-> [m \in Months |-> Counted(m, replies)]]
<1>1. /\ mrrCall' = [mrrCall EXCEPT ![s] = k]
      /\ UNCHANGED <<month, plan, truth, kept, current, odd>>
  BY DEF FetchSubscriptions
<1>2. none \subseteq {"silent"} /\ (replies => none = {}) /\ (~replies => "silent" \in none)
  OBVIOUS
<1> HIDE DEF none
<1>3. \A m \in Months : Counted(m, replies) \subseteq PlanIds
  BY DEF Counted
<1>4. k \in FetchedCalls
  BY <1>2, <1>3 DEF FetchedCalls, RevenueInv, RevenueMade
<1>5. ASSUME NEW m \in Months, m < month
      PROVE  Good(Counted(m, replies), none, m)
  <2>1. m \in Past
    BY <1>5 DEF Past
  <2>2. CASE replies
    <3>1. \A p \in PlanIds : /\ ((p \in Counted(m, replies)) # (p \in truth[m]) => odd[p] # {})
                              /\ (p \in Counted(m, replies) \ truth[m] => "unpaid" \in odd[p])
      <4>1. replies = TRUE
        BY <2>2
      <4> QED BY <2>1, <4>1, CountedTells
    <3> QED BY <1>3, <3>1 DEF Good
  <2>3. CASE ~replies
    <3>1. Counted(m, replies) = {}
      BY <2>3 DEF Counted
    <3> QED BY <1>2, <2>3, <3>1 DEF Good
  <2> QED BY <2>2, <2>3
<1>6. FetchFits(k)
  BY <1>5, MonthsAre DEF FetchFits, RevenueInv, RevenueMade
<1>7. k \notin HistoryCalls /\ k \in MrrCalls
  BY <1>4 DEF HistoryCalls, MrrCalls
<1> HIDE DEF k
<1>8. CallIsFit(k)
  BY <1>6, <1>7 DEF CallIsFit
<1>9. kept' \in [Months -> Entry \cup {NotKept}]
  BY <1>1 DEF RevenueInv, RevenueMade
<1> QED BY <1>1, <1>7, <1>8, <1>9, OneMrrMoves

LEMMA StartKeeps ==
  ASSUME RevenueInv, NEW s \in MrrSlots, StartHistory(s)
  PROVE  RevenueInv'
<1>1. PICK k : k = mrrCall[s]
  OBVIOUS
<1> DEFINE none == [m \in Months |-> NotKept]
           new == [pc |-> "month", at |-> k.at, marks |-> k.marks, told |-> k.told,
                   asOf |-> month, next |-> 0, history |-> none]
<1>2. /\ k.pc = "fetched" /\ mrrCall' = [mrrCall EXCEPT ![s] = new]
      /\ UNCHANGED <<month, plan, truth, kept, current, odd>>
  BY <1>1 DEF StartHistory
<1>3. k \in MrrCalls /\ CallIsFit(k) /\ month \in Months
      /\ kept \in [Months -> Entry \cup {NotKept}]
  BY <1>1 DEF RevenueInv, RevenueMade, MrrInv
<1>4. k \in FetchedCalls
  BY <1>2, <1>3 DEF MrrCalls, NoMrrCall, HistoryCalls
<1>5. FetchFits(k)
  BY <1>3, <1>4 DEF CallIsFit
<1>6. none \in [Months -> Entry \cup {NotKept}] /\ \A m \in Months : none[m] = NotKept
  OBVIOUS
<1> HIDE DEF none
<1>7. /\ new \in HistoryCalls /\ new.pc = "month" /\ new.at = k.at /\ new.told = k.told
      /\ new.marks = k.marks /\ new.asOf = month /\ new.history = none
  BY <1>3, <1>4, <1>6 DEF HistoryCalls, FetchedCalls
<1> HIDE DEF new
<1>8. new \notin FetchedCalls /\ new \in MrrCalls
  BY <1>7 DEF FetchedCalls, MrrCalls
<1>9. FetchFits(new)
  BY <1>5, <1>7 DEF FetchFits
<1>10. HistoryFits(new)
  <2>1. \A m \in Months : EntryFits(m, new.history[m])
    BY <1>6, <1>7 DEF EntryFits
  <2>2. new.asOf <= month
    BY <1>3, <1>7, MonthsAre
  <2> QED BY <2>1, <2>2 DEF HistoryFits
<1>11. CallIsFit(new)
  BY <1>7, <1>8, <1>9, <1>10 DEF CallIsFit
<1> QED BY <1>2, <1>3, <1>8, <1>11, OneMrrMoves

LEMMA MonthStepsKeep ==
  ASSUME RevenueInv, NEW s \in MrrSlots, NEW stored \in BOOLEAN,
         MonthFromRow(s) \/ ComputeMonth(s) \/ KeepMonth(s, stored) \/ SaveMrr(s, stored) \/ MrrDies(s)
  PROVE  RevenueInv'
<1>1. PICK k : k = mrrCall[s]
  OBVIOUS
<1>2. /\ kept \in [Months -> Entry \cup {NotKept}] /\ Months \subseteq Nat /\ month \in Months
      /\ \A m \in Months : EntryFits(m, kept[m])
  BY MonthsAre DEF RevenueInv, RevenueMade, MrrInv
<1>3. CASE MonthFromRow(s)
  <2>1. /\ k.next < k.asOf /\ kept[k.next] # NotKept
        /\ mrrCall' = [mrrCall EXCEPT ![s] = Push(k, kept[k.next])]
        /\ UNCHANGED <<month, plan, truth, kept, current, odd>>
    BY <1>1, <1>3 DEF MonthFromRow, MrrStep
  <2>2. k \in HistoryCalls /\ CallIsFit(k)
    BY <1>1, <1>3, AtHistory DEF MonthFromRow
  <2>3. k.next \in Months
    BY <2>1, <2>2, RevenueAssumption DEF HistoryCalls, Months
  <2>4. kept[k.next] \in Entry /\ EntryFits(k.next, kept[k.next])
    BY <1>2, <2>1, <2>3
  <2>5. PICK e : e = kept[k.next]
    OBVIOUS
  <2>6. Push(k, e) \in MrrCalls /\ CallIsFit(Push(k, e))
    BY <2>2, <2>3, <2>4, <2>5, PushFits
  <2> QED BY <1>2, <2>1, <2>5, <2>6, OneMrrMoves
<1>4. CASE ComputeMonth(s)
  <2>1. /\ k.next <= k.asOf
        /\ mrrCall' = [mrrCall EXCEPT ![s] =
             IF k.next \in MonthsToKeep(k.asOf) THEN [k EXCEPT !.pc = "keep"]
             ELSE Push(k, Computed(k))]
        /\ UNCHANGED <<month, plan, truth, kept, current, odd>>
    BY <1>1, <1>4 DEF ComputeMonth, MrrStep
  <2>2. k \in HistoryCalls /\ CallIsFit(k)
    BY <1>1, <1>4, AtHistory DEF ComputeMonth
  <2>3. /\ Computed(k) \in Entry /\ k.next \in Months
        /\ k.next < k.asOf => EntryFits(k.next, Computed(k))
    BY <2>1, <2>2, ComputedFits
  <2>4. CASE k.next \in MonthsToKeep(k.asOf)
    <3> DEFINE new == [k EXCEPT !.pc = "keep"]
    <3>1. /\ new \in HistoryCalls /\ new.pc = "keep" /\ new.at = k.at /\ new.told = k.told
          /\ new.marks = k.marks /\ new.asOf = k.asOf /\ new.history = k.history
          /\ new.next = k.next
      BY <2>2 DEF HistoryCalls
    <3>2. new.next < new.asOf
      BY <2>4, <3>1 DEF MonthsToKeep
    <3>3. mrrCall' = [mrrCall EXCEPT ![s] = new]
      BY <2>1, <2>4
    <3> HIDE DEF new
    <3>4. new \notin FetchedCalls /\ new \in MrrCalls
      BY <3>1 DEF FetchedCalls, MrrCalls
    <3>5. FetchFits(new) /\ HistoryFits(new)
      BY <2>2, <3>1 DEF CallIsFit, FetchFits, HistoryFits
    <3>6. CallIsFit(new)
      BY <3>1, <3>2, <3>4, <3>5 DEF CallIsFit
    <3> QED BY <1>2, <2>1, <3>3, <3>4, <3>6, OneMrrMoves
  <2>5. CASE k.next \notin MonthsToKeep(k.asOf)
    <3>1. mrrCall' = [mrrCall EXCEPT ![s] = Push(k, Computed(k))]
      BY <2>1, <2>5
    <3>2. Push(k, Computed(k)) \in MrrCalls /\ CallIsFit(Push(k, Computed(k)))
      BY <2>2, <2>3, PushFits
    <3> QED BY <1>2, <2>1, <3>1, <3>2, OneMrrMoves
  <2> QED BY <2>4, <2>5
<1>5. CASE KeepMonth(s, stored)
  <2>1. /\ kept' = [kept EXCEPT ![k.next] = IF stored THEN Computed(k) ELSE @]
        /\ mrrCall' = [mrrCall EXCEPT ![s] = Push(k, Computed(k))]
        /\ UNCHANGED <<month, plan, truth, current, odd>>
    BY <1>1, <1>5 DEF KeepMonth, MrrStep
  <2>2. k \in HistoryCalls /\ CallIsFit(k) /\ k.pc = "keep"
    BY <1>1, <1>5, AtHistory DEF KeepMonth, MrrAt
  <2>9. k.next \in Nat /\ k.asOf \in Nat
    BY <2>2, MonthsAre DEF HistoryCalls
  <2>3. k.next < k.asOf /\ k.next <= k.asOf
    BY <2>2, <2>9 DEF CallIsFit
  <2>4. /\ Computed(k) \in Entry /\ k.next \in Months
        /\ EntryFits(k.next, Computed(k))
    BY <2>2, <2>3, ComputedFits
  <2>5. PICK e : e = Computed(k)
    OBVIOUS
  <2>6. /\ kept' \in [Months -> Entry \cup {NotKept}]
        /\ \A m \in Months : kept'[m] = kept[m] \/ (m = k.next /\ kept'[m] = e)
    BY <1>2, <2>1, <2>4, <2>5
  <2>7. \A m \in Months : kept'[m] = kept[m] \/ EntryFits(m, kept'[m])
    BY <2>4, <2>5, <2>6
  <2>8. Push(k, Computed(k)) \in MrrCalls /\ CallIsFit(Push(k, Computed(k)))
    BY <2>2, <2>4, PushFits
  <2> QED BY <2>1, <2>6, <2>7, <2>8, OneMrrMoves
<1>6. CASE SaveMrr(s, stored)
  <2> DEFINE new == [asOf |-> k.asOf, history |-> k.history]
  <2>1. /\ current' = IF stored THEN new ELSE current
        /\ mrrCall' = [mrrCall EXCEPT ![s] = NoMrrCall]
        /\ UNCHANGED <<month, plan, truth, kept, odd>>
    BY <1>1, <1>6 DEF SaveMrr, MrrStep
  <2>2. k \in HistoryCalls /\ CallIsFit(k)
    BY <1>1, <1>6, AtHistory DEF SaveMrr
  <2>3. new \in Answers /\ new.asOf = k.asOf /\ new.history = k.history
    BY <2>2 DEF HistoryCalls, Answers
  <2> HIDE DEF new
  <2>4. HistoryFits(new)
    BY <2>2, <2>3 DEF CallIsFit, HistoryFits
  <2>5. CurrentFits(new)
    BY <2>3, <2>4 DEF CurrentFits
  <2>6. current' = current \/ CurrentFits(current')
    BY <2>1, <2>5
  <2> QED BY <1>2, <2>1, <2>6, NoCallFits, OneMrrMoves
<1>7. CASE MrrDies(s)
  <2>1. /\ mrrCall' = [mrrCall EXCEPT ![s] = NoMrrCall]
        /\ UNCHANGED <<month, plan, truth, kept, current, odd>>
    BY <1>7 DEF MrrDies, MrrStep
  <2> QED BY <1>2, <2>1, NoCallFits, OneMrrMoves
<1> QED BY <1>3, <1>4, <1>5, <1>6, <1>7

LEMMA RevenueKept == RevenueInv /\ [RevenueNext]_revenueVars => RevenueInv'
<1> SUFFICES ASSUME RevenueInv, [RevenueNext]_revenueVars PROVE RevenueInv'
  OBVIOUS
<1>1. ASSUME NEW m \in Months, KeptExpires(m) PROVE RevenueInv'
  <2>1. /\ kept' = [kept EXCEPT ![m] = NotKept]
        /\ UNCHANGED <<month, plan, truth, current, mrrCall, odd>>
    BY <1>1 DEF KeptExpires
  <2>2. /\ kept' \in [Months -> Entry \cup {NotKept}]
        /\ \A n \in Months : kept'[n] = kept[n] \/ kept'[n] = NotKept
    BY <2>1 DEF RevenueInv, RevenueMade
  <2>3. \A n \in Months : kept'[n] = kept[n] \/ EntryFits(n, kept'[n])
    BY <2>2 DEF EntryFits
  <2>4. mrrCall' \in [MrrSlots -> MrrCalls]
    BY <2>1 DEF RevenueInv, RevenueMade
  <2> QED BY <2>1, <2>2, <2>3, <2>4, MrrMoves
<1>2. CASE CurrentExpires
  <2>1. current' = NotKept /\ UNCHANGED <<month, plan, truth, kept, mrrCall, odd>>
    BY <1>2 DEF CurrentExpires
  <2>2. CurrentFits(current')
    BY <2>1 DEF CurrentFits
  <2>3. mrrCall' \in [MrrSlots -> MrrCalls] /\ kept' \in [Months -> Entry \cup {NotKept}]
    BY <2>1 DEF RevenueInv, RevenueMade
  <2> QED BY <2>1, <2>2, <2>3, MrrMoves
<1>3. CASE UNCHANGED revenueVars
  <2>1. /\ UNCHANGED <<month, plan, truth, odd>>
        /\ UNCHANGED <<kept, current, mrrCall>>
    BY <1>3 DEF revenueVars, mrrVars
  <2>2. mrrCall' \in [MrrSlots -> MrrCalls] /\ kept' \in [Months -> Entry \cup {NotKept}]
    BY <2>1 DEF RevenueInv, RevenueMade
  <2> QED BY <2>1, <2>2, MrrMoves
<1>4. ASSUME NEW s \in MrrSlots,
             \/ \E replies \in BOOLEAN : FetchSubscriptions(s, replies)
             \/ StartHistory(s) \/ MonthFromRow(s) \/ ComputeMonth(s)
             \/ \E stored \in BOOLEAN : KeepMonth(s, stored) \/ SaveMrr(s, stored)
             \/ MrrDies(s)
      PROVE  RevenueInv'
  BY <1>4, FetchKeeps, StartKeeps, MonthStepsKeep
<1> QED BY <1>1, <1>2, <1>3, <1>4, MonthEndsKeeps, RowStepsKeep DEF RevenueNext

(* Rows, months and what is kept of them have their types.                  *)
THEOREM RevenueWellTyped == RevenueSpec => []RevenueTypeOK
BY RevenueStarts, RevenueKept, RevenueMeans, PTL DEF RevenueSpec

(* What is told of a past month counts what was active when it ended, and   *)
(* the dashboard compares with what was active then and counts as churned   *)
(* what no longer is: save for what the rows do not tell, and for a month   *)
(* that ended under the computation.                                        *)
THEOREM RevenueIsTrue == RevenueSpec => [](HistoryBlamed /\ HistoryNeverMore /\ ChangeBlamed)
BY RevenueStarts, RevenueKept, RevenueMeans, PTL DEF RevenueSpec

-----------------------------------------------------------------------------
(* Days, weeks and months.                                                  *)

(* A day is in the bucket that starts at a multiple of its length.          *)
LEMMA Remainder ==
  ASSUME NEW x \in Nat, NEW L \in Nat \ {0}, NEW q \in Nat, NEW r \in 0..(L - 1),
         x = L * q + r
  PROVE  x % L = r
BY SMT

LEMMA Rounded ==
  ASSUME NEW x \in Nat, NEW L \in Nat \ {0}, NEW q \in Nat, L * q <= x, x < L * q + L
  PROVE  x - (x % L) = L * q
<1> DEFINE m == L * q
           r == x - m
<1>1. m \in Nat
  OBVIOUS
<1>2. r \in 0..(L - 1) /\ x = m + r
  <2> HIDE DEF m
  <2> QED BY <1>1 DEF m
<1>3. x % L = r
  <2> HIDE DEF r
  <2> QED BY <1>2, Remainder
<1> HIDE DEF m
<1> QED BY <1>1, <1>3 DEF m

LEMMA Rounds ==
  ASSUME NEW x \in Nat, NEW L \in Nat \ {0}
  PROVE  \E q \in Nat : x - (x % L) = L * q /\ L * q <= x /\ x < L * q + L
<1>1. x % L \in 0..(L - 1) /\ x \div L \in Nat /\ x = L * (x \div L) + (x % L)
  BY SMT
<1> DEFINE q == x \div L
           m == L * q
           r == x % L
<1>2. q \in Nat /\ m \in Nat /\ r \in 0..(L - 1) /\ x = m + r
  <2>1. q \in Nat
    BY <1>1
  <2>2. m \in Nat
    <3> HIDE DEF q
    <3> QED BY <2>1
  <2> QED BY <1>1, <2>1, <2>2
<1>3. x - r = m /\ m <= x /\ x < m + L
  <2> HIDE DEF q, m, r
  <2> QED BY <1>2
<1> HIDE DEF q
<1> QED BY <1>2, <1>3

LEMMA ByOne == ASSUME NEW x \in Nat PROVE x % 1 = 0
  BY SMT

-----------------------------------------------------------------------------
(* The orders and the products analytics-service computes from.             *)

Statuses == {"pending"} \cup LaterStatuses

SaleRow(d) == [day : 0..d, status : Statuses, lines : SUBSET Wares, items : SUBSET Wares]

SaleInv ==
  /\ SaleTypeOK
  /\ sale = [o \in SaleIds |-> sale[o]]
  /\ \A o \in SaleIds : sale[o] # NoSale =>
       sale[o] \in SaleRow(today)

LEMMA LoadFits ==
  ASSUME saleLoad \in SaleLoads
  PROVE  saleLoad \in [last : Nat, orders : SUBSET SaleIds, items : SUBSET (SUBSET Wares),
                       statuses : SUBSET LaterStatuses, deletes : BOOLEAN, stock : BOOLEAN]
BY SalesAssumption

LEMMA SaleInvInit == SaleInit => SaleInv
<1> SUFFICES ASSUME SaleInit PROVE SaleInv
  OBVIOUS
<1>1. saleLoad.last \in Nat
  BY LoadFits DEF SaleInit
<1>2. shelf \in [Wares -> Shelf]
  BY SalesAssumption DEF SaleInit, Shelf
<1> QED BY <1>1, <1>2, SalesAssumption DEF SaleInit, SaleInv, SaleTypeOK

(* What moves an order keeps the rest.                                      *)
LEMMA SaleMoves ==
  ASSUME SaleInv, UNCHANGED <<saleLoad, today, gone, shelf, listed>>,
         NEW o \in SaleIds, NEW row, sale' = [sale EXCEPT ![o] = row],
         row # NoSale => /\ row \in SaleRow(today)
                         /\ row.lines # {} /\ row.items \subseteq row.lines
  PROVE  SaleInv'
<1>1. \A x \in SaleIds : sale'[x] = IF x = o THEN row ELSE sale[x]
  BY DEF SaleInv
<1>2. sale' = [x \in SaleIds |-> sale'[x]]
  BY DEF SaleInv
<1>3. ASSUME NEW x \in SaleIds, sale'[x] # NoSale
      PROVE  /\ sale'[x] \in SaleRow(today)
             /\ sale'[x].lines # {} /\ sale'[x].items \subseteq sale'[x].lines
  <2>1. CASE x = o
    BY <1>1, <1>3, <2>1
  <2>2. CASE x # o
    <3>1. sale'[x] = sale[x]
      BY <1>1, <2>2
    <3> QED BY <1>3, <3>1 DEF SaleInv, SaleTypeOK
  <2> QED BY <2>1, <2>2
<1>4. \A x \in SaleIds : sale'[x] # NoSale =>
        /\ sale'[x].day \in 0..today /\ sale'[x].lines # {} /\ sale'[x].lines \subseteq Wares
        /\ sale'[x].items \subseteq sale'[x].lines
  BY <1>3 DEF SaleRow
<1> QED BY <1>2, <1>3, <1>4 DEF SaleInv, SaleTypeOK

LEMMA SaleInvKept == SaleInv /\ [SaleNext]_saleVars => SaleInv'
<1> SUFFICES ASSUME SaleInv, [SaleNext]_saleVars PROVE SaleInv'
  OBVIOUS
<1>0. /\ saleLoad \in SaleLoads /\ saleLoad.last \in Nat
      /\ saleLoad.statuses \subseteq LaterStatuses /\ today \in Nat
  BY LoadFits DEF SaleInv, SaleTypeOK
<1>1. CASE NextDay
  <2>1. today' = today + 1 /\ today < saleLoad.last
    BY <1>1 DEF NextDay
  <2>2. 0..today \subseteq 0..today' /\ today' \in 0..saleLoad.last
    BY <1>0, <2>1
  <2>3. \A o \in SaleIds : sale[o] # NoSale =>
          /\ sale[o] \in SaleRow(today')
          /\ sale[o].day \in 0..today'
    BY <2>2 DEF SaleInv, SaleTypeOK, SaleRow
  <2> QED BY <1>1, <2>2, <2>3 DEF NextDay, SaleInv, SaleTypeOK
<1>2. ASSUME NEW o \in SaleIds, NEW lines \in (SUBSET Wares) \ {{}}, MakeSale(o, lines)
      PROVE  SaleInv'
  <2> DEFINE row == [day |-> today, status |-> "pending", lines |-> lines, items |-> {}]
  <2>1. row \in SaleRow(today) /\ row.lines # {} /\ row.items \subseteq row.lines
    BY <1>0 DEF Statuses, SaleRow
  <2>2. sale' = [sale EXCEPT ![o] = row] /\ UNCHANGED <<saleLoad, today, gone, shelf, listed>>
    BY <1>2 DEF MakeSale
  <2> HIDE DEF row
  <2> QED BY <2>1, <2>2, SaleMoves
<1>9. ASSUME NEW o \in SaleIds, NEW i \in Wares, SaveLine(o, i)
      PROVE  SaleInv'
  <2> DEFINE row == [sale[o] EXCEPT !.items = @ \cup {i}]
  <2>1. /\ sale[o] \in SaleRow(today) /\ i \in sale[o].lines
        /\ sale[o].lines # {} /\ sale[o].items \subseteq sale[o].lines
    BY <1>9 DEF SaveLine, SaleInv, SaleTypeOK
  <2>2. /\ row \in SaleRow(today) /\ row.lines = sale[o].lines
        /\ row.items = sale[o].items \cup {i}
    BY <2>1 DEF SaleRow
  <2>3. sale' = [sale EXCEPT ![o] = row] /\ UNCHANGED <<saleLoad, today, gone, shelf, listed>>
    BY <1>9 DEF SaveLine
  <2> HIDE DEF row
  <2> QED BY <2>1, <2>2, <2>3, SaleMoves
<1>3. ASSUME NEW o \in SaleIds, NEW s \in saleLoad.statuses, MoveSale(o, s)
      PROVE  SaleInv'
  <2> DEFINE row == [sale[o] EXCEPT !.status = s]
  <2>1. /\ sale[o] \in SaleRow(today) /\ s \in Statuses
        /\ sale[o].lines # {} /\ sale[o].items \subseteq sale[o].lines
    BY <1>0, <1>3 DEF MoveSale, SaleInv, SaleTypeOK, Statuses
  <2>2. /\ row \in SaleRow(today) /\ row.lines = sale[o].lines
        /\ row.items = sale[o].items
    BY <2>1 DEF SaleRow
  <2>3. sale' = [sale EXCEPT ![o] = row] /\ UNCHANGED <<saleLoad, today, gone, shelf, listed>>
    BY <1>3 DEF MoveSale
  <2> HIDE DEF row
  <2> QED BY <2>1, <2>2, <2>3, SaleMoves
<1>4. ASSUME NEW o \in SaleIds, DropSale(o)
      PROVE  SaleInv'
  BY <1>4, SaleMoves DEF DropSale
<1>5. ASSUME NEW p \in Wares, DeleteWare(p) \/ SellOne(p)
      PROVE  SaleInv'
  <2>1. CASE DeleteWare(p)
    BY <2>1 DEF DeleteWare, SaleInv, SaleTypeOK
  <2>2. CASE SellOne(p)
    <3>1. shelf[p] \in Shelf /\ shelf[p] # NoStock /\ ~(shelf[p] <= 0)
      BY <2>2 DEF SellOne, NoneLeft, SaleInv, SaleTypeOK
    <3>2. shelf[p] - 1 \in Shelf
      BY <3>1, SalesAssumption DEF Shelf
    <3>3. shelf' \in [Wares -> Shelf]
      BY <2>2, <3>2 DEF SellOne, SaleInv, SaleTypeOK
    <3> QED BY <2>2, <3>3 DEF SellOne, SaleInv, SaleTypeOK
  <2> QED BY <1>5, <2>1, <2>2
<1>6. ASSUME NEW p \in Physical, NEW q \in Shelf, Restock(p, q)
      PROVE  SaleInv'
  BY <1>6 DEF Restock, Physical, SaleInv, SaleTypeOK
<1>7. CASE FillList \/ ListExpires
  BY <1>7 DEF FillList, ListExpires, SaleInv, SaleTypeOK
<1>8. CASE UNCHANGED saleVars
  BY <1>8 DEF saleVars, SaleInv, SaleTypeOK
<1> QED BY <1>1, <1>2, <1>3, <1>4, <1>5, <1>6, <1>7, <1>8, <1>9 DEF SaleNext

(* The orders and the products have their types.                            *)
THEOREM SalesWellTyped == SaleSpec => []SaleTypeOK
<1>1. SaleInv => SaleTypeOK
  BY DEF SaleInv
<1> QED BY <1>1, SaleInvInit, SaleInvKept, PTL DEF SaleSpec

(* Every period starts at a multiple of its length, every bucket at one of  *)
(* its own.                                                                 *)
LEMMA PeriodFacts ==
  ASSUME SaleInv, NEW p \in SalePeriods
  PROVE  /\ today \in Nat /\ Length(p) \in Nat \ {0}
         /\ FirstDay(p) = today - (today % Length(p))
         /\ FirstDay(p) \in 0..today /\ today < FirstDay(p) + Length(p)
<1>1. today \in Nat
  BY LoadFits DEF SaleInv, SaleTypeOK
<1>2. Length(p) \in Nat \ {0}
  <2>0. /\ WeekLength \in Nat \ {0} /\ MonthLength \in Nat \ {0}
        /\ QuarterMonths \in Nat \ {0} /\ YearMonths \in Nat \ {0}
    BY SalesAssumption
  <2>1. QuarterMonths * MonthLength \in Nat \ {0} /\ YearMonths * MonthLength \in Nat \ {0}
    BY <2>0
  <2> QED BY <2>0, <2>1 DEF SalePeriods, Length
<1>3. FirstDay(p) = today - (today % Length(p))
  <2>1. CASE p = "week"
    BY <2>1 DEF FirstDay, MondayOf, Length
  <2> QED BY <2>1 DEF FirstDay
<1>4. PICK q \in Nat : /\ today - (today % Length(p)) = Length(p) * q
                       /\ Length(p) * q <= today /\ today < Length(p) * q + Length(p)
  BY <1>1, <1>2, Rounds
<1> DEFINE m == Length(p) * q
<1>5. m \in Nat
  BY <1>2
<1>6. FirstDay(p) = m /\ m <= today /\ today < m + Length(p)
  BY <1>3, <1>4
<1> HIDE DEF m
<1> QED BY <1>1, <1>2, <1>3, <1>5, <1>6

LEMMA BucketFacts ==
  ASSUME NEW d \in Nat, NEW g \in Groups
  PROVE  StepOf(g) \in Nat \ {0} /\ Bucket(d, g) = d - (d % StepOf(g))
<1>1. CASE g = "day"
  BY <1>1, ByOne DEF StepOf, Bucket
<1>2. CASE g = "week"
  BY <1>2, SalesAssumption DEF StepOf, Bucket, MondayOf
<1>3. CASE g = "month"
  BY <1>3, SalesAssumption DEF StepOf, Bucket, MonthStart
<1> QED BY <1>1, <1>2, <1>3 DEF Groups

(* The periods that the steps of a series may pass over.                    *)
Passing == ({"month", "quarter", "year"} \X {"week"}) \cup {<<"week", "month">>}

(* A period whose start is the start of a bucket, or that is one day.       *)
LEMMA MeetsBuckets ==
  ASSUME SaleInv, NEW p \in SalePeriods, NEW g \in Groups, <<p, g>> \notin Passing
  PROVE  FirstDay(p) = today \/ \E f \in Nat : FirstDay(p) = StepOf(g) * f
<1>0. /\ today \in Nat /\ Length(p) \in Nat \ {0} /\ FirstDay(p) \in Nat
      /\ FirstDay(p) = today - (today % Length(p))
  BY PeriodFacts
<1>1. PICK q \in Nat : today - (today % Length(p)) = Length(p) * q
  BY <1>0, Rounds
<1>2. CASE g = "day"
  <2>1. FirstDay(p) = 1 * FirstDay(p)
    BY <1>0
  <2> QED BY <1>0, <1>2, <2>1 DEF StepOf
<1>3. CASE p = "today"
  <2>1. Length(p) = 1
    BY <1>3 DEF Length
  <2> QED BY <1>0, <2>1, ByOne
<1>4. CASE p = "week" /\ g = "week"
  BY <1>0, <1>1, <1>4 DEF Length, StepOf
<1>5. CASE p = "month" /\ g = "month"
  BY <1>0, <1>1, <1>5 DEF Length, StepOf
<1>6. ASSUME NEW k \in Nat, Length(p) = k * MonthLength, g = "month"
      PROVE  \E f \in Nat : FirstDay(p) = StepOf(g) * f
  <2>1. MonthLength \in Nat
    BY SalesAssumption
  <2>2. (k * MonthLength) * q = MonthLength * (k * q) /\ k * q \in Nat
    BY <2>1
  <2>3. StepOf(g) = MonthLength
    BY <1>6 DEF StepOf
  <2> QED BY <1>0, <1>1, <1>6, <2>2, <2>3
<1>7. CASE p = "quarter" /\ g = "month"
  <2>1. Length(p) = QuarterMonths * MonthLength /\ QuarterMonths \in Nat
    BY <1>7, SalesAssumption DEF Length
  <2> QED BY <1>6, <1>7, <2>1
<1>8. CASE p = "year" /\ g = "month"
  <2>1. Length(p) = YearMonths * MonthLength /\ YearMonths \in Nat
    BY <1>8, SalesAssumption DEF Length
  <2> QED BY <1>6, <1>8, <2>1
<1> QED BY <1>2, <1>3, <1>4, <1>5, <1>7, <1>8 DEF SalePeriods, Groups, Passing

(* A day whose bucket is not in the series is in the bucket of today.       *)
LEMMA BucketMissed ==
  ASSUME SaleInv, NEW p \in SalePeriods, NEW g \in Groups, NEW d \in During(p),
         Bucket(d, g) \notin Buckets(p, g)
  PROVE  Bucket(d, g) = Bucket(today, g) /\ <<p, g>> \in Passing
<1> DEFINE F == FirstDay(p)
           L == StepOf(g)
<1>0. /\ today \in Nat /\ F \in 0..today /\ F \in Nat /\ d \in F..today /\ d \in Nat
      /\ d - F \in Nat /\ L \in Nat \ {0}
  <2>1. today \in Nat /\ F \in 0..today
    BY PeriodFacts
  <2>2. d \in F..today /\ d \in Nat /\ d - F \in Nat
    BY <2>1 DEF During
  <2> QED BY <2>1, <2>2, BucketFacts
<1>1. PICK q \in Nat : L * q <= d - F /\ d - F < L * q + L
  <2> HIDE DEF F, L
  <2> QED BY <1>0, Rounds
<1> DEFINE n == L * q
           e == F + n
<1>2. n \in Nat /\ e \in Nat /\ F <= e /\ e <= d /\ d < e + L
  <2>1. n \in Nat
    BY <1>0
  <2>2. n <= d - F /\ d - F < n + L
    BY <1>1
  <2> HIDE DEF n, F, L
  <2> QED BY <1>0, <2>1, <2>2
<1>3. ASSUME NEW k \in Nat, F + L * k \in F..today
      PROVE  Bucket(F + L * k, g) \in Buckets(p, g)
  <2> DEFINE c == L * k
             x == F + c
  <2>1. (x - F) % L = 0
    <3>1. c \in Nat /\ x - F = c /\ 0 \in 0..(L - 1)
      <4>1. c \in Nat
        BY <1>0
      <4> HIDE DEF F, L, c
      <4> QED BY <1>0, <4>1
    <3>2. c % L = 0
      <4>1. c = L * k + 0
        BY <3>1
      <4> HIDE DEF c, F, L
      <4> QED BY <1>0, <3>1, <4>1, Remainder
    <3> QED BY <3>1, <3>2
  <2>2. x \in During(p)
    BY <1>3 DEF During
  <2> HIDE DEF x
  <2> QED BY <2>1, <2>2 DEF Buckets, x
<1>4. PICK j \in Nat : e - (e % L) = L * j /\ L * j <= e /\ e < L * j + L
  <2> HIDE DEF e, L
  <2> QED BY <1>0, <1>2, Rounds
<1> DEFINE b == L * j
<1>5. b \in Nat /\ b <= e /\ e < b + L /\ L * (j + 1) = b + L /\ j + 1 \in Nat
  <2> HIDE DEF e
  <2> QED BY <1>0, <1>4
<1>6. \A x \in Nat : b <= x /\ x < b + L => Bucket(x, g) = b
  <2> SUFFICES ASSUME NEW x \in Nat, b <= x, x < b + L PROVE Bucket(x, g) = b
    OBVIOUS
  <2>1. x - (x % L) = b
    <3> HIDE DEF L
    <3> QED BY <1>0, Rounded
  <2> QED BY <2>1, BucketFacts
<1>7. \A x \in Nat : b + L <= x /\ x < b + L + L => Bucket(x, g) = b + L
  <2> SUFFICES ASSUME NEW x \in Nat, b + L <= x, x < b + L + L PROVE Bucket(x, g) = b + L
    OBVIOUS
  <2>1. x - (x % L) = L * (j + 1)
    <3>1. L * (j + 1) <= x /\ x < L * (j + 1) + L
      BY <1>5
    <3>2. j + 1 \in Nat /\ L \in Nat \ {0}
      BY <1>0, <1>5
    <3> DEFINE k == j + 1
    <3>3. k \in Nat /\ L * k <= x /\ x < L * k + L
      BY <3>1, <3>2
    <3> HIDE DEF L, k
    <3>4. x - (x % L) = L * k
      BY <3>2, <3>3, Rounded
    <3> QED BY <3>4 DEF k
  <2> QED BY <1>5, <2>1, BucketFacts
<1>8. Bucket(e, g) = b /\ b \in Buckets(p, g)
  <2>1. e \in F..today
    <3> HIDE DEF n, F
    <3> QED BY <1>0, <1>2
  <2>2. Bucket(e, g) \in Buckets(p, g)
    BY <1>3, <2>1
  <2> HIDE DEF e, b, L
  <2> QED BY <1>2, <1>5, <1>6, <2>2
<1>9. b + L <= d
  <2> HIDE DEF e, b, L
  <2> QED BY <1>0, <1>2, <1>5, <1>6, <1>8
<1>10. Bucket(d, g) = b + L
  <2> HIDE DEF e, b, L
  <2> QED BY <1>0, <1>2, <1>5, <1>7, <1>9
<1>11. today < e + L
  <2> SUFFICES ASSUME e + L <= today PROVE FALSE
    <3> HIDE DEF e, L
    <3> QED BY <1>0, <1>2
  <2>1. F + L * (q + 1) = e + L /\ q + 1 \in Nat
    BY <1>0
  <2>2. e + L \in F..today
    <3> HIDE DEF n, F, L
    <3> QED BY <1>0, <1>2
  <2>3. Bucket(e + L, g) \in Buckets(p, g)
    BY <1>3, <2>1, <2>2
  <2>4. Bucket(e + L, g) = b + L
    <3> HIDE DEF e, b, L
    <3> QED BY <1>0, <1>2, <1>5, <1>7
  <2> QED BY <1>10, <2>3, <2>4
<1>12. Bucket(today, g) = b + L
  <2> HIDE DEF e, b, L, F
  <2> QED BY <1>0, <1>2, <1>5, <1>7, <1>9, <1>11
<1>13. <<p, g>> \in Passing
  <2> SUFFICES ASSUME <<p, g>> \notin Passing PROVE FALSE
    OBVIOUS
  <2>1. CASE F = today
    <3> HIDE DEF e, b, L, F
    <3> QED BY <1>0, <1>2, <1>5, <1>8, <1>9, <2>1
  <2>2. CASE \E f \in Nat : F = L * f
    <3>1. PICK f \in Nat : F = L * f
      BY <2>2
    <3>2. e = L * (f + q) /\ f + q \in Nat
      <4>1. L * f + L * q = L * (f + q)
        BY <1>0
      <4> QED BY <3>1, <4>1
    <3>3. e - (e % L) = e
      <4>1. L * (f + q) <= e /\ e < L * (f + q) + L
        <5> HIDE DEF e, L
        <5> QED BY <1>0, <1>2, <3>2
      <4> HIDE DEF e, L
      <4> QED BY <1>0, <1>2, <3>2, <4>1, Rounded
    <3>4. e = b
      BY <1>4, <3>3
    <3> HIDE DEF e, b, L
    <3> QED BY <1>0, <1>2, <1>5, <1>9, <3>4
  <2> QED BY <2>1, <2>2, MeetsBuckets
<1> QED BY <1>10, <1>12, <1>13

-----------------------------------------------------------------------------
(* What is summed in parts.                                                 *)

(* Two sets that have nothing in common.                                    *)
LEMMA SumBeside ==
  ASSUME NEW q, NEW S, NEW T, IsFiniteSet(S), IsFiniteSet(T), S \cap T = {},
         \A i \in S \cup T : q[i] \in Nat
  PROVE  SumOf(q, S \cup T) = SumOf(q, S) + SumOf(q, T)
<1> DEFINE bad == {U \in SUBSET T : SumOf(q, S \cup U) # SumOf(q, S) + SumOf(q, U)}
<1>1. SUFFICES ASSUME bad # {} PROVE FALSE
  OBVIOUS
<1>2. PICK U \in bad : \A s \in bad : s \subseteq U => s = U
  <2> bad \subseteq SUBSET T
    OBVIOUS
  <2> HIDE DEF bad
  <2> QED BY <1>1, SmallestSubset
<1>3. IsFiniteSet(U) /\ IsFiniteSet(S \cup U)
  BY FS_Subset, FS_Union
<1>4. SumOf(q, S) \in Nat
  BY SumType
<1>5. SumOf(q, S \cup U) # SumOf(q, S) + SumOf(q, U)
  OBVIOUS
<1>6. U # {}
  <2> SUFFICES ASSUME U = {} PROVE FALSE
    OBVIOUS
  <2>1. S \cup U = S /\ SumOf(q, U) = 0
    BY <1>3, SumDef
  <2> HIDE DEF bad
  <2> QED BY <1>4, <1>5, <2>1
<1>7. PICK y \in U : TRUE
  BY <1>6
<1>8. U \ {y} \notin bad /\ U \ {y} \in SUBSET T
  BY <1>2
<1>9. SumOf(q, S \cup (U \ {y})) = SumOf(q, S) + SumOf(q, U \ {y})
  BY <1>8
<1>10. S \cup (U \ {y}) = (S \cup U) \ {y} /\ y \in S \cup U
  OBVIOUS
<1>11. q[y] \in Nat /\ (\A i \in U : q[i] \in Nat) /\ (\A i \in S \cup U : q[i] \in Nat)
  OBVIOUS
<1>12. SumOf(q, U) = q[y] + SumOf(q, U \ {y})
  BY <1>3, <1>11, SumWithout
<1>13. SumOf(q, S \cup U) = q[y] + SumOf(q, (S \cup U) \ {y})
  BY <1>3, <1>10, <1>11, SumWithout
<1>14. SumOf(q, U \ {y}) \in Nat
  BY <1>3, <1>11, FS_RemoveElement, SumType
<1> HIDE DEF bad
<1> QED BY <1>4, <1>5, <1>9, <1>10, <1>11, <1>12, <1>13, <1>14

(* The sums of the parts sum up to the whole: c[i] is the part that i is in.*)
PartOf(S, c, k) == {i \in S : c[i] = k}

LEMMA SumParts ==
  ASSUME NEW q, NEW S, IsFiniteSet(S), \A i \in S : q[i] \in Nat,
         NEW K, IsFiniteSet(K), NEW c, \A i \in S : c[i] \in K,
         NEW r, \A k \in K : r[k] = SumOf(q, PartOf(S, c, k))
  PROVE  SumOf(r, K) = SumOf(q, S)
<1> DEFINE Of(T) == {i \in S : c[i] \in T}
           bad == {T \in SUBSET K : SumOf(r, T) # SumOf(q, Of(T))}
<1>1. ASSUME NEW T \in SUBSET K PROVE IsFiniteSet(T) /\ IsFiniteSet(Of(T)) /\ Of(T) \subseteq S
  <2> Of(T) \subseteq S
    OBVIOUS
  <2> QED BY FS_Subset
<1>2. \A k \in K : r[k] \in Nat
  <2> SUFFICES ASSUME NEW k \in K PROVE r[k] \in Nat
    OBVIOUS
  <2>1. PartOf(S, c, k) \subseteq S
    BY DEF PartOf
  <2>2. IsFiniteSet(PartOf(S, c, k))
    BY <2>1, FS_Subset
  <2>3. SumOf(q, PartOf(S, c, k)) \in Nat
    BY <2>1, <2>2, SumType
  <2> QED BY <2>3
<1>3. bad = {}
  <2> SUFFICES ASSUME bad # {} PROVE FALSE
    OBVIOUS
  <2>1. PICK T \in bad : \A s \in bad : s \subseteq T => s = T
    <3> bad \subseteq SUBSET K
      OBVIOUS
    <3> HIDE DEF bad
    <3> QED BY SmallestSubset
  <2>2. T \in SUBSET K /\ SumOf(r, T) # SumOf(q, Of(T))
    OBVIOUS
  <2>3. T # {}
    <3> SUFFICES ASSUME T = {} PROVE FALSE
      OBVIOUS
    <3>1. Of(T) = {}
      OBVIOUS
    <3>2. IsFiniteSet({})
      BY FS_EmptySet
    <3>3. SumOf(r, {}) = 0 /\ SumOf(q, {}) = 0
      BY <3>2, SumDef
    <3> HIDE DEF bad, Of
    <3> QED BY <2>2, <3>1, <3>3
  <2>4. PICK k \in T : TRUE
    BY <2>3
  <2> DEFINE rest == T \ {k}
             one == PartOf(S, c, k)
  <2>5. rest \in SUBSET K /\ SumOf(r, rest) = SumOf(q, Of(rest))
    <3>1. rest \in SUBSET K /\ rest \notin bad
      BY <2>1
    <3> HIDE DEF rest, Of
    <3> QED BY <3>1
  <2>6. SumOf(r, T) = r[k] + SumOf(r, rest)
    BY <1>1, <1>2, SumWithout
  <2>7. Of(T) = one \cup Of(rest) /\ one \cap Of(rest) = {} /\ one \subseteq S
    BY DEF PartOf
  <2>8. IsFiniteSet(one) /\ IsFiniteSet(Of(rest)) /\ Of(rest) \subseteq S
    <3> HIDE DEF one, Of, rest
    <3> QED BY <1>1, <2>5, <2>7, FS_Subset
  <2>9. SumOf(q, Of(T)) = SumOf(q, one) + SumOf(q, Of(rest))
    <3> \A i \in one \cup Of(rest) : q[i] \in Nat
      BY <2>7, <2>8
    <3> HIDE DEF one, Of, rest
    <3> QED BY <2>7, <2>8, SumBeside
  <2>10. r[k] = SumOf(q, one)
    OBVIOUS
  <2> HIDE DEF one, Of, rest
  <2> QED BY <2>2, <2>5, <2>6, <2>9, <2>10
<1>4. Of(K) = S
  OBVIOUS
<1>5. SumOf(r, K) = SumOf(q, Of(K))
  <2> K \in SUBSET K /\ K \notin bad
    BY <1>3
  <2> HIDE DEF Of
  <2> QED OBVIOUS
<1> HIDE DEF Of
<1> QED BY <1>4, <1>5

(* A sum over the pairs of o with the members of S.                         *)
PairsWith(o, S) == {<<o, i>> : i \in S}

LEMMA SumPaired ==
  ASSUME NEW u, NEW S, IsFiniteSet(S), \A i \in S : u[i] \in Nat,
         NEW o, NEW q, \A i \in S : q[<<o, i>>] = u[i]
  PROVE  SumOf(q, PairsWith(o, S)) = SumOf(u, S)
<1> DEFINE Pairs(T) == {<<o, i>> : i \in T}
           bad == {T \in SUBSET S : SumOf(q, Pairs(T)) # SumOf(u, T)}
<1>1. ASSUME NEW T \in SUBSET S PROVE IsFiniteSet(T) /\ IsFiniteSet(Pairs(T))
  <2>1. IsFiniteSet(T) /\ IsFiniteSet({o})
    BY FS_Subset, FS_Singleton
  <2>2. IsFiniteSet({o} \X T)
    BY <2>1, FS_Product
  <2>3. Pairs(T) = {o} \X T
    OBVIOUS
  <2> HIDE DEF Pairs
  <2> QED BY <2>1, <2>2, <2>3
<1>2. bad = {}
  <2> SUFFICES ASSUME bad # {} PROVE FALSE
    OBVIOUS
  <2>1. PICK T \in bad : \A s \in bad : s \subseteq T => s = T
    <3> bad \subseteq SUBSET S
      OBVIOUS
    <3> HIDE DEF bad
    <3> QED BY SmallestSubset
  <2>2. T \in SUBSET S /\ SumOf(q, Pairs(T)) # SumOf(u, T)
    OBVIOUS
  <2>3. T # {}
    <3> SUFFICES ASSUME T = {} PROVE FALSE
      OBVIOUS
    <3>1. Pairs(T) = {}
      OBVIOUS
    <3>2. IsFiniteSet({})
      BY FS_EmptySet
    <3>3. SumOf(u, {}) = 0 /\ SumOf(q, {}) = 0
      BY <3>2, SumDef
    <3> HIDE DEF bad, Pairs
    <3> QED BY <2>2, <3>1, <3>3
  <2>4. PICK k \in T : TRUE
    BY <2>3
  <2> DEFINE rest == T \ {k}
  <2>5. rest \in SUBSET S /\ SumOf(q, Pairs(rest)) = SumOf(u, rest)
    <3>1. rest \in SUBSET S /\ rest \notin bad
      BY <2>1
    <3> HIDE DEF rest, Pairs
    <3> QED BY <3>1
  <2>6. SumOf(u, T) = u[k] + SumOf(u, rest)
    <3>1. T \in SUBSET S /\ \A i \in T : u[i] \in Nat
      OBVIOUS
    <3> HIDE DEF bad, Pairs
    <3>2. IsFiniteSet(T)
      BY <1>1, <3>1
    <3> QED BY <3>1, <3>2, SumWithout
  <2>7. Pairs(T) \ {<<o, k>>} = Pairs(rest) /\ <<o, k>> \in Pairs(T)
    <3>1. \A i : <<o, i>> = <<o, k>> <=> i = k
      OBVIOUS
    <3>2. ASSUME NEW x \in Pairs(T), x # <<o, k>> PROVE x \in Pairs(rest)
      <4>1. PICK i \in T : x = <<o, i>>
        OBVIOUS
      <4>2. i \in rest
        BY <3>2, <4>1
      <4> QED BY <4>1, <4>2
    <3>4. ASSUME NEW x \in Pairs(rest) PROVE x \in Pairs(T) /\ x # <<o, k>>
      <4>1. PICK i \in rest : x = <<o, i>>
        OBVIOUS
      <4> QED BY <3>1, <4>1
    <3>3. <<o, k>> \in Pairs(T)
      OBVIOUS
    <3> HIDE DEF Pairs
    <3> QED BY <3>2, <3>3, <3>4
  <2>8. \A x \in Pairs(T) : q[x] \in Nat
    OBVIOUS
  <2>9. SumOf(q, Pairs(T)) = q[<<o, k>>] + SumOf(q, Pairs(rest))
    <3>1. IsFiniteSet(Pairs(T))
      BY <1>1, <2>2
    <3> HIDE DEF Pairs, rest
    <3>2. SumOf(q, Pairs(T)) = q[<<o, k>>] + SumOf(q, Pairs(T) \ {<<o, k>>})
      BY <2>7, <2>8, <3>1, SumWithout
    <3> QED BY <2>7, <3>2
  <2>10. q[<<o, k>>] = u[k]
    OBVIOUS
  <2> HIDE DEF Pairs, rest
  <2> QED BY <2>2, <2>5, <2>6, <2>9, <2>10
<1>3. SumOf(q, Pairs(S)) = SumOf(u, S)
  <2> S \in SUBSET S /\ S \notin bad
    BY <1>2
  <2> HIDE DEF Pairs
  <2> QED OBVIOUS
<1> QED BY <1>3 DEF PairsWith

(* A sum of sums.                                                           *)
LEMMA SumTwo ==
  ASSUME NEW S, IsFiniteSet(S), NEW h, NEW f, NEW g,
         \A i \in S : f[i] \in Nat /\ g[i] \in Nat /\ h[i] = f[i] + g[i]
  PROVE  SumOf(h, S) = SumOf(f, S) + SumOf(g, S)
<1> DEFINE bad == {T \in SUBSET S : SumOf(h, T) # SumOf(f, T) + SumOf(g, T)}
<1>1. SUFFICES ASSUME bad # {} PROVE FALSE
  OBVIOUS
<1>2. PICK T \in bad : \A s \in bad : s \subseteq T => s = T
  <2> bad \subseteq SUBSET S
    OBVIOUS
  <2> HIDE DEF bad
  <2> QED BY <1>1, SmallestSubset
<1>3. T \in SUBSET S /\ SumOf(h, T) # SumOf(f, T) + SumOf(g, T)
  OBVIOUS
<1>4. IsFiniteSet(T) /\ \A i \in T : f[i] \in Nat /\ g[i] \in Nat /\ h[i] \in Nat
  BY <1>3, FS_Subset
<1>5. T # {}
  <2> SUFFICES ASSUME T = {} PROVE FALSE
    OBVIOUS
  <2>1. SumOf(h, T) = 0 /\ SumOf(f, T) = 0 /\ SumOf(g, T) = 0
    BY <1>4, SumDef
  <2> HIDE DEF bad
  <2> QED BY <1>3, <2>1
<1>6. PICK y \in T : TRUE
  BY <1>5
<1> DEFINE rest == T \ {y}
<1>7. SumOf(h, rest) = SumOf(f, rest) + SumOf(g, rest)
  <2>1. rest \in SUBSET S /\ rest \notin bad
    BY <1>2
  <2> HIDE DEF rest
  <2> QED BY <2>1
<1>8. /\ SumOf(h, T) = h[y] + SumOf(h, rest) /\ SumOf(f, T) = f[y] + SumOf(f, rest)
      /\ SumOf(g, T) = g[y] + SumOf(g, rest)
  <2> HIDE DEF bad
  <2> QED BY <1>4, SumWithout
<1>9. SumOf(f, rest) \in Nat /\ SumOf(g, rest) \in Nat
  BY <1>4, FS_RemoveElement, SumType
<1>10. f[y] \in Nat /\ g[y] \in Nat /\ h[y] = f[y] + g[y]
  BY <1>3
<1> HIDE DEF bad, rest
<1> QED BY <1>3, <1>7, <1>8, <1>9, <1>10

(* The price of what some orders count, and of what they lack.              *)
LEMMA RevenueIs ==
  ASSUME NEW S
  PROVE  Revenue(S) = SumOf([o \in S |-> Total(o)], S)
<1> DEFINE q == [o \in S |-> Total(o)]
           a(f) == [s \in SUBSET S |-> IF s = {} THEN 0
                      ELSE Total(Choice(s)) + f[s \ {Choice(s)}]]
           b(f) == [s \in SUBSET S |-> IF s = {} THEN 0
                      ELSE q[Choice(s)] + f[s \ {Choice(s)}]]
<1>1. Revenue(S) = (CHOOSE f : f = a(f))[S]
  BY DEF Revenue, MapThenSumSet, MapThenFoldSet, Choice
<1>2. SumOf(q, S) = (CHOOSE f : f = b(f))[S]
  BY SumIs DEF IsSum
<1>3. ASSUME NEW f PROVE a(f) = b(f)
  <2>1. ASSUME NEW s \in SUBSET S, s # {}
        PROVE  Total(Choice(s)) = q[Choice(s)]
    <3> Choice(s) \in S
      BY <2>1 DEF Choice
    <3> QED OBVIOUS
  <2> HIDE DEF q
  <2> QED BY <2>1
<1>4. (CHOOSE f : f = a(f)) = (CHOOSE f : f = b(f))
  <2> HIDE DEF a, b
  <2> QED BY <1>3
<1> HIDE DEF a, b
<1> QED BY <1>1, <1>2, <1>4

LEMMA LackingIs ==
  ASSUME NEW S
  PROVE  MapThenSumSet(Unlisted, S) = SumOf([o \in S |-> Unlisted(o)], S)
<1> DEFINE q == [o \in S |-> Unlisted(o)]
           a(f) == [s \in SUBSET S |-> IF s = {} THEN 0
                      ELSE Unlisted(Choice(s)) + f[s \ {Choice(s)}]]
           b(f) == [s \in SUBSET S |-> IF s = {} THEN 0
                      ELSE q[Choice(s)] + f[s \ {Choice(s)}]]
<1>1. MapThenSumSet(Unlisted, S) = (CHOOSE f : f = a(f))[S]
  BY DEF Revenue, MapThenSumSet, MapThenFoldSet, Choice
<1>2. SumOf(q, S) = (CHOOSE f : f = b(f))[S]
  BY SumIs DEF IsSum
<1>3. ASSUME NEW f PROVE a(f) = b(f)
  <2>1. ASSUME NEW s \in SUBSET S, s # {}
        PROVE  Unlisted(Choice(s)) = q[Choice(s)]
    <3> Choice(s) \in S
      BY <2>1 DEF Choice
    <3> QED OBVIOUS
  <2> HIDE DEF q
  <2> QED BY <2>1
<1>4. (CHOOSE f : f = a(f)) = (CHOOSE f : f = b(f))
  <2> HIDE DEF a, b
  <2> QED BY <1>3
<1> HIDE DEF a, b
<1> QED BY <1>1, <1>2, <1>4

PairSum(X) == MapThenSumSet(LAMBDA x : PriceOf[x[2]], X)

LEMMA PairSumIs ==
  ASSUME NEW X, NEW q, \A x \in X : q[x] = PriceOf[x[2]]
  PROVE  PairSum(X) = SumOf(q, X)
<1> DEFINE a(f) == [s \in SUBSET X |-> IF s = {} THEN 0
                      ELSE PriceOf[Choice(s)[2]] + f[s \ {Choice(s)}]]
           b(f) == [s \in SUBSET X |-> IF s = {} THEN 0
                      ELSE q[Choice(s)] + f[s \ {Choice(s)}]]
<1>1. PairSum(X) = (CHOOSE f : f = a(f))[X]
  BY DEF PairSum, MapThenSumSet, MapThenFoldSet, Choice
<1>2. SumOf(q, X) = (CHOOSE f : f = b(f))[X]
  BY SumIs DEF IsSum
<1>3. ASSUME NEW f PROVE a(f) = b(f)
  <2>1. ASSUME NEW s \in SUBSET X, s # {}
        PROVE  PriceOf[Choice(s)[2]] = q[Choice(s)]
    <3> Choice(s) \in X
      BY <2>1 DEF Choice
    <3> QED OBVIOUS
  <2> QED BY <2>1
<1>4. (CHOOSE f : f = a(f)) = (CHOOSE f : f = b(f))
  <2> HIDE DEF a, b
  <2> QED BY <1>3
<1> HIDE DEF a, b
<1> QED BY <1>1, <1>2, <1>4

(* The pairs of an order with its items.                                    *)
PairsOf(orders) == UNION {PairsWith(o, sale[o].items) : o \in orders}

(* However their items are split, the parts sum up to the revenue, less     *)
(* what they lack.                                                          *)
LEMMA RevenueInParts ==
  ASSUME SaleInv, NEW orders \in SUBSET {o \in SaleIds : sale[o] # NoSale},
         NEW kinds, IsFiniteSet(kinds), NEW c, \A x \in PairsOf(orders) : c[x] \in kinds,
         NEW r, \A k \in kinds : r[k] = PairSum(PartOf(PairsOf(orders), c, k))
  PROVE  Revenue(orders) = SumOf(r, kinds) + MapThenSumSet(Unlisted, orders)
<1> DEFINE pairs == PairsOf(orders)
           q == [x \in pairs |-> PriceOf[x[2]]]
           one == [x \in pairs |-> x[1]]
           total == [o \in orders |-> SumOf(PriceOf, sale[o].items)]
           all == [o \in orders |-> Total(o)]
           less == [o \in orders |-> Unlisted(o)]
<1>1. \A o \in orders : /\ o \in SaleIds /\ sale[o].items \subseteq Wares
                        /\ sale[o].lines \subseteq Wares
                        /\ sale[o].items \subseteq sale[o].lines
  BY DEF SaleInv, SaleTypeOK
<1>2. IsFiniteSet(orders) /\ orders \subseteq SaleIds
  BY <1>1, SalesAssumption, FS_Subset
<1>3. \A x \in pairs : x[1] \in orders /\ x[2] \in sale[x[1]].items /\ x = <<x[1], x[2]>>
  BY DEF PairsOf, PairsWith
<1>4. IsFiniteSet(pairs)
  <2>1. IsFiniteSet(SaleIds \X Wares)
    BY SalesAssumption, FS_Product
  <2>2. ASSUME NEW x \in pairs PROVE x \in SaleIds \X Wares
    <3>1. x[1] \in SaleIds /\ x[2] \in Wares /\ x = <<x[1], x[2]>>
      BY <1>1, <1>3
    <3> HIDE DEF pairs
    <3> QED BY <3>1
  <2> HIDE DEF pairs
  <2> QED BY <2>1, <2>2, FS_Subset
<1>5. \A x \in pairs : q[x] = PriceOf[x[2]] /\ q[x] \in Nat /\ one[x] = x[1] /\ one[x] \in orders
  <2> SUFFICES ASSUME NEW x \in pairs
               PROVE  /\ q[x] = PriceOf[x[2]] /\ q[x] \in Nat
                      /\ one[x] = x[1] /\ one[x] \in orders
    OBVIOUS
  <2>1. x[1] \in orders /\ x[2] \in Wares
    BY <1>1, <1>3
  <2> HIDE DEF pairs
  <2> QED BY <2>1, SalesAssumption
<1>6. ASSUME NEW o \in orders
      PROVE  total[o] = SumOf(q, PartOf(pairs, one, o))
  <2> DEFINE mine == PairsWith(o, sale[o].items)
  <2>1. PartOf(pairs, one, o) = mine
    <3>1. ASSUME NEW x \in pairs, one[x] = o PROVE x \in mine
      BY <1>3, <1>5, <3>1 DEF PairsWith
    <3>2. ASSUME NEW x \in mine PROVE x \in pairs /\ one[x] = o
      <4>1. PICK i \in sale[o].items : x = <<o, i>>
        BY DEF PairsWith
      <4>2. x \in pairs
        BY <4>1 DEF PairsOf, PairsWith
      <4> HIDE DEF pairs
      <4> QED BY <4>1, <4>2
    <3> HIDE DEF pairs, mine, one
    <3> QED BY <3>1, <3>2 DEF PartOf
  <2>2. total[o] = SumOf(PriceOf, sale[o].items)
    OBVIOUS
  <2>3. /\ IsFiniteSet(sale[o].items)
        /\ \A i \in sale[o].items : PriceOf[i] \in Nat
    BY <1>1, SalesAssumption, FS_Subset
  <2>4. \A i \in sale[o].items : q[<<o, i>>] = PriceOf[i]
    <3> SUFFICES ASSUME NEW i \in sale[o].items PROVE q[<<o, i>>] = PriceOf[i]
      OBVIOUS
    <3>1. <<o, i>> \in pairs
      BY DEF PairsOf, PairsWith
    <3> HIDE DEF pairs
    <3> QED BY <3>1
  <2>5. SumOf(q, mine) = SumOf(PriceOf, sale[o].items)
    <3> HIDE DEF q
    <3> QED BY <2>3, <2>4, SumPaired
  <2> HIDE DEF q, one, pairs, mine, total
  <2> QED BY <2>1, <2>2, <2>5
<1>7. SumOf(total, orders) = SumOf(q, pairs)
  <2> HIDE DEF total, q, pairs, one
  <2> QED BY <1>2, <1>4, <1>5, <1>6, SumParts
<1>8. \A k \in kinds : r[k] = SumOf(q, PartOf(pairs, c, k))
  <2> SUFFICES ASSUME NEW k \in kinds PROVE r[k] = SumOf(q, PartOf(pairs, c, k))
    OBVIOUS
  <2> DEFINE those == PartOf(pairs, c, k)
  <2>1. r[k] = PairSum(those)
    OBVIOUS
  <2>2. \A x \in those : q[x] = PriceOf[x[2]]
    BY DEF PartOf
  <2> HIDE DEF those, q
  <2>3. PairSum(those) = SumOf(q, those)
    BY <2>2, PairSumIs
  <2> QED BY <2>1, <2>3 DEF those
<1>9. SumOf(r, kinds) = SumOf(q, pairs)
  <2>1. \A x \in pairs : c[x] \in kinds
    OBVIOUS
  <2> HIDE DEF q, pairs
  <2> QED BY <1>4, <1>5, <1>8, <2>1, SumParts
<1>10. Revenue(orders) = SumOf(all, orders) /\ MapThenSumSet(Unlisted, orders) = SumOf(less, orders)
  BY RevenueIs, LackingIs
<1>11. ASSUME NEW o \in orders
       PROVE  total[o] \in Nat /\ less[o] \in Nat /\ all[o] = total[o] + less[o]
  <2> DEFINE S == sale[o].items
             T == sale[o].lines \ sale[o].items
  <2>1. S \cup T = sale[o].lines /\ S \cap T = {} /\ S \subseteq Wares /\ T \subseteq Wares
    BY <1>1
  <2>2. /\ IsFiniteSet(S) /\ IsFiniteSet(T)
        /\ \A i \in S \cup T : PriceOf[i] \in Nat
    BY <2>1, SalesAssumption, FS_Subset
  <2>3. /\ total[o] = SumOf(PriceOf, S) /\ less[o] = SumOf(PriceOf, T)
        /\ all[o] = SumOf(PriceOf, sale[o].lines)
    BY DEF Total, Unlisted, PricesOf, SumOf
  <2> HIDE DEF S, T, total, less, all
  <2>4. SumOf(PriceOf, S \cup T) = SumOf(PriceOf, S) + SumOf(PriceOf, T)
    BY <2>1, <2>2, SumBeside
  <2>5. SumOf(PriceOf, S) \in Nat /\ SumOf(PriceOf, T) \in Nat
    BY <2>2, SumType
  <2> QED BY <2>1, <2>3, <2>4, <2>5
<1>12. SumOf(all, orders) = SumOf(total, orders) + SumOf(less, orders)
  <2> HIDE DEF all, total, less
  <2> QED BY <1>2, <1>11, SumTwo
<1> QED BY <1>7, <1>9, <1>10, <1>12

-----------------------------------------------------------------------------
(* The reports.                                                             *)

PaidIn(p, answers) == PaidOf(Made(During(p), FetchOrders(answers)))

LEMMA PaidFacts ==
  ASSUME SaleInv, NEW p \in SalePeriods, NEW answers
  PROVE  /\ PaidIn(p, answers) \in SUBSET {o \in SaleIds : sale[o] # NoSale}
         /\ \A o \in PaidIn(p, answers) : sale[o].day \in During(p)
BY DEF PaidIn, PaidOf, Made, FetchOrders

LEMMA SoldIs ==
  ASSUME NEW p, NEW answers
  PROVE  Sold(p, answers) = PairsOf(PaidIn(p, answers))
BY DEF Sold, PairsOf, PairsWith, PaidIn

(* The split of what was sold sums up to the revenue of the period, less    *)
(* what its orders lack.                                                    *)
LEMMA SplitSums ==
  ASSUME SaleInv, NEW p \in SalePeriods, NEW answers, NEW kindOf,
         NEW kinds, IsFiniteSet(kinds), "unknown" \in kinds,
         \A i \in Wares : kindOf[i] \in kinds
  PROVE  Revenue(PaidIn(p, answers))
           = SumOf(Split(p, kinds, kindOf, answers), kinds)
               + MapThenSumSet(Unlisted, PaidIn(p, answers))
<1> DEFINE orders == PaidIn(p, answers)
           kind(x) == IF x[2] \in FetchProducts(answers) THEN kindOf[x[2]] ELSE "unknown"
           c == [x \in PairsOf(orders) |-> kind(x)]
           r == Split(p, kinds, kindOf, answers)
<1>1. orders \in SUBSET {o \in SaleIds : sale[o] # NoSale}
  BY PaidFacts
<1>2. \A x \in PairsOf(orders) : x[2] \in Wares
  <2>1. \A o \in orders : sale[o].items \subseteq Wares
    BY <1>1 DEF SaleInv, SaleTypeOK
  <2> HIDE DEF orders
  <2> QED BY <2>1 DEF PairsOf, PairsWith
<1>3. \A x \in PairsOf(orders) : c[x] = kind(x) /\ c[x] \in kinds
  <2> HIDE DEF orders
  <2> QED BY <1>2
<1>4. ASSUME NEW k \in kinds PROVE r[k] = PairSum(PartOf(PairsOf(orders), c, k))
  <2> DEFINE those == {x \in Sold(p, answers) : k = kind(x)}
  <2>1. r[k] = PairSum(those)
    BY DEF Split, PairSum
  <2>2. Sold(p, answers) = PairsOf(orders)
    BY SoldIs
  <2>3. those = PartOf(PairsOf(orders), c, k)
    <3>1. \A x : x \in those <=> x \in PartOf(PairsOf(orders), c, k)
      <4> HIDE DEF orders, c, kind
      <4> QED BY <1>3, <2>2 DEF PartOf
    <3> HIDE DEF those, c, orders
    <3> QED BY <3>1
  <2> HIDE DEF those, c, orders, r
  <2> QED BY <2>1, <2>3
<1> HIDE DEF c, orders, r, kind
<1>5. Revenue(orders) = SumOf(r, kinds) + MapThenSumSet(Unlisted, orders)
  BY <1>1, <1>3, <1>4, RevenueInParts
<1> QED BY <1>5 DEF orders, r

LEMMA CategoriesFinite == IsFiniteSet(Categories) /\ IsFiniteSet(Types \cup {"unknown"})
<1> DEFINE f == [i \in Wares |-> CategoryOf[i]]
           T == {CategoryOf[i] : i \in Wares}
<1>1. IsFiniteSet(Wares)
  BY SalesAssumption
<1>2. f \in Surjection(Wares, T)
  BY DEF Surjection
<1>3. IsFiniteSet(T)
  <2> HIDE DEF f, T
  <2> QED BY <1>1, <1>2, FS_Surjection
<1>4. IsFiniteSet({"unknown"}) /\ IsFiniteSet({"saas"}) /\ IsFiniteSet({"physical"})
      /\ IsFiniteSet({"license"})
  BY FS_Singleton
<1>5. IsFiniteSet(Categories)
  BY <1>3, <1>4, FS_Union DEF Categories
<1>6. Types = ({"saas"} \cup {"physical"}) \cup {"license"}
  BY DEF Types
<1>7. IsFiniteSet({"saas"} \cup {"physical"})
  BY <1>4, FS_Union
<1>8. IsFiniteSet(Types)
  BY <1>4, <1>6, <1>7, FS_Union
<1> QED BY <1>4, <1>5, <1>8, FS_Union

(* The series misses nothing but the running week or month.                 *)
LEMMA SeriesAreWhole == SaleInv => SeriesMisses
<1> SUFFICES ASSUME SaleInv, NEW p \in SalePeriods, NEW g \in Groups,
                    NEW o \in AverageCart(p, Everything).orders
                                \ Sales(p, g, Everything).orders
             PROVE  Bucket(sale[o].day, g) = Bucket(today, g) /\ <<p, g>> \in Passing
  BY DEF SeriesMisses, Passing
<1>1. AverageCart(p, Everything).orders = PaidIn(p, Everything)
  BY DEF AverageCart, PaidIn
<1>2. Sales(p, g, Everything).orders
        = UNION {{x \in PaidIn(p, Everything) : Bucket(sale[x].day, g) = b} :
                   b \in Buckets(p, g)}
  BY DEF Sales, PaidIn
<1>3. o \in PaidIn(p, Everything) /\ sale[o].day \in During(p)
  BY <1>1, PaidFacts
<1>4. Bucket(sale[o].day, g) \notin Buckets(p, g)
  <2> SUFFICES ASSUME Bucket(sale[o].day, g) \in Buckets(p, g) PROVE FALSE
    OBVIOUS
  <2> DEFINE b == Bucket(sale[o].day, g)
  <2>1. o \in {x \in PaidIn(p, Everything) : Bucket(sale[x].day, g) = b} /\ b \in Buckets(p, g)
    BY <1>3
  <2> HIDE DEF b
  <2>2. o \in Sales(p, g, Everything).orders
    BY <1>2, <2>1
  <2> QED BY <2>2
<1> QED BY <1>3, <1>4, BucketMissed

(* A series by day misses nothing.                                          *)
LEMMA DaysAreWhole ==
  ASSUME SaleInv, NEW p \in SalePeriods, NEW answers
  PROVE  Sales(p, "day", answers).orders = PaidIn(p, answers)
<1>1. Sales(p, "day", answers).orders
        = UNION {{x \in PaidIn(p, answers) : Bucket(sale[x].day, "day") = b} :
                   b \in Buckets(p, "day")}
  BY DEF Sales, PaidIn
<1>2. ASSUME NEW o \in PaidIn(p, answers) PROVE o \in Sales(p, "day", answers).orders
  <2> DEFINE b == Bucket(sale[o].day, "day")
  <2>1. sale[o].day \in During(p) /\ "day" \in Groups /\ <<p, "day">> \notin Passing
    BY PaidFacts DEF Groups, Passing
  <2>2. b \in Buckets(p, "day")
    BY <2>1, BucketMissed
  <2>3. o \in {x \in PaidIn(p, answers) : Bucket(sale[x].day, "day") = b}
    OBVIOUS
  <2> HIDE DEF b
  <2> QED BY <1>1, <2>2, <2>3
<1>3. ASSUME NEW o \in Sales(p, "day", answers).orders PROVE o \in PaidIn(p, answers)
  BY <1>1
<1> QED BY <1>2, <1>3

(* The reports count the same orders and the same revenue.                  *)
LEMMA ReportsAreOne == SaleInv => ReportsAgree
<1> SUFFICES ASSUME SaleInv PROVE ReportsAgree
  OBVIOUS
<1> SUFFICES ASSUME NEW p \in SalePeriods, NEW answers \in SUBSET {"orders", "products"}
             PROVE  LET dash == Dashboard(p, answers)
                        split(f) == MapThenSumSet(LAMBDA k : f[k], DOMAIN f)
                        lacking == MapThenSumSet(Unlisted, dash.completed)
                    IN /\ AverageCart(p, answers).orders = dash.completed
                       /\ Sales(p, "day", answers).orders = dash.completed
                       /\ ExportSales(FirstDay(p), today, answers)
                            = IF "orders" \in answers THEN dash.completed ELSE NoReport
                       /\ "orders" \notin answers => dash.total = {}
                       /\ dash.revenue = AverageCart(p, answers).revenue
                       /\ dash.revenue = Sales(p, "day", answers).revenue
                       /\ dash.revenue = split(SalesByCategory(p, answers)) + lacking
                       /\ dash.revenue = split(SalesByProductType(p, answers)) + lacking
                       /\ \A t \in Types :
                            AverageCartByProductType(p, answers)[t].revenue
                              = SalesByProductType(p, answers)[t]
                       /\ dash.total = dash.completed \cup dash.pending \cup dash.cancelled
                                         \cup InStatus(dash.total, "refunded")
  BY DEF ReportsAgree
<1> DEFINE dash == Dashboard(p, answers)
<1>1. dash.completed = PaidIn(p, answers) /\ dash.revenue = Revenue(PaidIn(p, answers))
  BY DEF Dashboard, PaidIn
<1>2. /\ AverageCart(p, answers).orders = PaidIn(p, answers)
      /\ AverageCart(p, answers).revenue = Revenue(PaidIn(p, answers))
  BY DEF AverageCart, PaidIn
<1>3. /\ Sales(p, "day", answers).orders = PaidIn(p, answers)
      /\ Sales(p, "day", answers).revenue = Revenue(PaidIn(p, answers))
  <2>1. Sales(p, "day", answers).revenue = Revenue(Sales(p, "day", answers).orders)
    BY DEF Sales
  <2> QED BY <2>1, DaysAreWhole
<1>4. /\ ExportSales(FirstDay(p), today, answers)
           = IF "orders" \in answers THEN PaidIn(p, answers) ELSE NoReport
      /\ "orders" \notin answers => dash.total = {}
  BY DEF ExportSales, PaidIn, During, Dashboard, FetchOrders, Made
<1>5. Revenue(PaidIn(p, answers))
        = MapThenSumSet(LAMBDA k : SalesByCategory(p, answers)[k],
                        DOMAIN SalesByCategory(p, answers))
            + MapThenSumSet(Unlisted, PaidIn(p, answers))
  <2> DEFINE f == Split(p, Categories, CategoryOf, answers)
  <2>1. SalesByCategory(p, answers) = f /\ DOMAIN f = Categories
    BY DEF SalesByCategory, Split
  <2>2. "unknown" \in Categories /\ \A i \in Wares : CategoryOf[i] \in Categories
    BY DEF Categories
  <2>3. Revenue(PaidIn(p, answers))
          = SumOf(f, Categories) + MapThenSumSet(Unlisted, PaidIn(p, answers))
    BY <2>2, CategoriesFinite, SplitSums
  <2>4. SumOf(f, DOMAIN f) = MapThenSumSet(LAMBDA k : f[k], DOMAIN f)
    BY DEF SumOf
  <2> HIDE DEF f
  <2> QED BY <2>1, <2>3, <2>4
<1>6. Revenue(PaidIn(p, answers))
        = MapThenSumSet(LAMBDA k : SalesByProductType(p, answers)[k],
                        DOMAIN SalesByProductType(p, answers))
            + MapThenSumSet(Unlisted, PaidIn(p, answers))
  <2> DEFINE kinds == Types \cup {"unknown"}
             f == Split(p, kinds, TypeOf, answers)
  <2>1. SalesByProductType(p, answers) = f /\ DOMAIN f = kinds
    BY DEF SalesByProductType, Split
  <2>2. "unknown" \in kinds /\ \A i \in Wares : TypeOf[i] \in kinds
    BY SalesAssumption
  <2>3. Revenue(PaidIn(p, answers))
          = SumOf(f, kinds) + MapThenSumSet(Unlisted, PaidIn(p, answers))
    BY <2>2, CategoriesFinite, SplitSums
  <2>4. SumOf(f, DOMAIN f) = MapThenSumSet(LAMBDA k : f[k], DOMAIN f)
    BY DEF SumOf
  <2> HIDE DEF f
  <2> QED BY <2>1, <2>3, <2>4
<1>7. ASSUME NEW t \in Types
      PROVE  AverageCartByProductType(p, answers)[t].revenue
               = SalesByProductType(p, answers)[t]
  <2> DEFINE U == {x \in Sold(p, answers) :
                     x[2] \in FetchProducts(answers) /\ TypeOf[x[2]] = t}
             V == {x \in Sold(p, answers) :
                     t = IF x[2] \in FetchProducts(answers) THEN TypeOf[x[2]] ELSE "unknown"}
  <2>1. t # "unknown"
    BY DEF Types
  <2>2. U = V
    BY <2>1
  <2>3. AverageCartByProductType(p, answers)[t].revenue = PairSum(U)
    BY DEF AverageCartByProductType, PairSum
  <2>4. SalesByProductType(p, answers)[t] = PairSum(V)
    BY DEF SalesByProductType, Split, PairSum
  <2> QED BY <2>2, <2>3, <2>4
<1>8. dash.total = dash.completed \cup dash.pending \cup dash.cancelled
                     \cup InStatus(dash.total, "refunded")
  <2> DEFINE all == Made(During(p), FetchOrders(answers))
  <2>1. /\ dash.total = all /\ dash.completed = PaidOf(all)
        /\ dash.pending = InStatus(all, "pending") \cup InStatus(all, "processing")
        /\ dash.cancelled = InStatus(all, "cancelled")
    BY DEF Dashboard
  <2>2. \A o \in all : sale[o].status \in Statuses
    BY DEF Made, FetchOrders, SaleInv, SaleTypeOK, SaleRow
  <2> HIDE DEF all, dash
  <2>3. all = PaidOf(all) \cup (InStatus(all, "pending") \cup InStatus(all, "processing"))
                \cup InStatus(all, "cancelled") \cup InStatus(all, "refunded")
    BY <2>2 DEF PaidOf, PaidStatuses, InStatus, Statuses, LaterStatuses
  <2> QED BY <2>1, <2>3
<1> HIDE DEF dash
<1> QED BY <1>1, <1>2, <1>3, <1>4, <1>5, <1>6, <1>7, <1>8 DEF dash

(* The period before ends the day before this one starts.                   *)
LEMMA PeriodsDoMeet == SaleInv => PeriodsMeet
<1> SUFFICES ASSUME SaleInv, NEW p \in SalePeriods
             PROVE  /\ Dashboard(p, Everything).total \cap Dashboard(p, Everything).before = {}
                    /\ FirstDay(p) - 1 \in Before(p) /\ FirstDay(p) \in During(p)
                    /\ today + 1 - FirstDay(p) <= Cardinality(Before(p))
  BY DEF PeriodsMeet
<1> DEFINE F == FirstDay(p)
           n == Length(p)
<1>1. today \in Nat /\ n \in Nat \ {0} /\ F \in 0..today /\ F \in Nat /\ today < F + n
  BY PeriodFacts
<1>2. Before(p) = (F - n)..(F - 1) /\ During(p) = F..today
  BY DEF Before, During
<1>3. F - 1 \in Before(p) /\ F \in During(p) /\ During(p) \cap Before(p) = {}
  <2> HIDE DEF F, n
  <2> QED BY <1>1, <1>2
<1>4. Cardinality(Before(p)) = n
  <2> HIDE DEF F, n
  <2>1. F - n \in Int /\ F - 1 \in Int /\ ~(F - n > F - 1) /\ (F - 1) - (F - n) + 1 = n
    BY <1>1
  <2> QED BY <1>2, <2>1, FS_Interval
<1>5. today + 1 - F <= n
  <2> HIDE DEF F, n
  <2> QED BY <1>1
<1>6. Dashboard(p, Everything).total \cap Dashboard(p, Everything).before = {}
  BY <1>3 DEF Dashboard, Made
<1> QED BY <1>3, <1>4, <1>5, <1>6

(* The summary of the stock says what its list says.                        *)
LEMMA StockDoesAgree == SaleInv => StockAgrees
<1> SUFFICES ASSUME SaleInv, NEW answers \in SUBSET {"products", "alerts"}
             PROVE  LET s == StockStatus(answers) IN
                    /\ s.total = s.inStock \cup s.low \cup s.out
                    /\ answers = {"products", "alerts"} /\ (listed = NoList \/ listed = shelf) =>
                         /\ s.out = {i \in Alerts(answers) \cap FirstPage : shelf[i] = 0}
                              \cup {i \in (Physical \cap FirstPage) \ gone : shelf[i] = NoStock}
                         /\ s.low = {i \in Alerts(answers) \cap FirstPage : shelf[i] > 0}
  BY DEF StockAgrees
<1> DEFINE all == {i \in FetchProducts(answers) : TypeOf[i] = "physical"}
           out == {i \in all : NoneLeft(StockOf(i))}
           low == (all \ out) \cap Alerts(answers)
<1>1. StockStatus(answers)
        = [total |-> all, out |-> out, low |-> low, inStock |-> all \ (out \cup low)]
  BY DEF StockStatus
<1>2. all = (all \ (out \cup low)) \cup low \cup out
  OBVIOUS
<1>3. ASSUME answers = {"products", "alerts"}, listed = NoList \/ listed = shelf
      PROVE  /\ out = {i \in Alerts(answers) \cap FirstPage : shelf[i] = 0}
                       \cup {i \in (Physical \cap FirstPage) \ gone : shelf[i] = NoStock}
             /\ low = {i \in Alerts(answers) \cap FirstPage : shelf[i] > 0}
  <2>1. FetchProducts(answers) = FirstPage \ gone /\ FirstPage \subseteq Wares
    BY <1>3, SalesAssumption DEF FetchProducts
  <2>2. Alerts(answers) = {i \in Physical \ gone : shelf[i] # NoStock /\ shelf[i] <= Threshold}
    BY <1>3 DEF Alerts
  <2>3. \A i : StockOf(i) = shelf[i]
    BY <1>3 DEF StockOf
  <2>4. \A i \in Wares : shelf[i] = NoStock \/ shelf[i] \in Nat
    BY SalesAssumption DEF SaleInv, SaleTypeOK, Shelf
  <2>5. Threshold \in Nat
    BY SalesAssumption
  <2>6. \A i : i \in all <=> i \in FirstPage /\ i \notin gone /\ i \in Wares
                             /\ TypeOf[i] = "physical"
    BY <2>1
  <2>7. \A i : i \in Alerts(answers) <=> /\ i \in Wares /\ TypeOf[i] = "physical"
                                        /\ i \notin gone /\ shelf[i] # NoStock
                                        /\ shelf[i] <= Threshold
    BY <2>2 DEF Physical
  <2>10. \A i : i \in (Physical \cap FirstPage) \ gone <=> i \in all
    BY <2>6 DEF Physical
  <2>8. \A i : i \in out <=> \/ i \in Alerts(answers) \cap FirstPage /\ shelf[i] = 0
                             \/ i \in all /\ shelf[i] = NoStock
    <3>1. \A i : i \in out <=> i \in all /\ NoneLeft(shelf[i])
      BY <2>3
    <3> HIDE DEF all, out
    <3>2. \A i \in all : i \in FirstPage /\ i \in Wares /\ (i \in Alerts(answers) <=>
                             shelf[i] # NoStock /\ shelf[i] <= Threshold)
      BY <2>6, <2>7
    <3>3. \A i \in all : NoneLeft(shelf[i]) <=>
            \/ i \in Alerts(answers) /\ shelf[i] = 0
            \/ shelf[i] = NoStock
      <4> SUFFICES ASSUME NEW i \in all
                   PROVE  NoneLeft(shelf[i]) <=> \/ i \in Alerts(answers) /\ shelf[i] = 0
                                                \/ shelf[i] = NoStock
        OBVIOUS
      <4>1. CASE shelf[i] = NoStock
        BY <4>1 DEF NoneLeft
      <4>2. CASE shelf[i] \in Nat
        <5>1. shelf[i] # NoStock
          BY <4>2, SalesAssumption
        <5>2. shelf[i] <= 0 <=> shelf[i] = 0
          BY <4>2
        <5>3. shelf[i] = 0 => shelf[i] <= Threshold
          BY <2>5
        <5> QED BY <3>2, <5>1, <5>2, <5>3 DEF NoneLeft
      <4> QED BY <2>4, <3>2, <4>1, <4>2
    <3> QED BY <2>6, <2>7, <3>1, <3>2, <3>3
  <2>9. \A i : i \in low <=> i \in Alerts(answers) \cap FirstPage /\ shelf[i] > 0
    <3>1. \A i : i \in low <=> i \in all /\ i \notin out /\ i \in Alerts(answers)
      OBVIOUS
    <3> HIDE DEF all, out, low
    <3>2. ASSUME NEW i \in all, i \in Alerts(answers)
          PROVE  i \notin out <=> shelf[i] > 0
      <4>1. shelf[i] \in Nat /\ shelf[i] # NoStock /\ i \in FirstPage
        BY <2>4, <2>6, <2>7, <3>2
      <4>2. shelf[i] > 0 <=> shelf[i] # 0
        BY <4>1
      <4> QED BY <2>8, <3>2, <4>1, <4>2
    <3>3. \A i : i \in Alerts(answers) \cap FirstPage => i \in all
      BY <2>6, <2>7
    <3>4. \A i \in all : i \in FirstPage
      BY <2>6
    <3> QED BY <3>1, <3>2, <3>3, <3>4
  <2> HIDE DEF all, out, low
  <2> QED BY <2>8, <2>9, <2>10
<1> HIDE DEF all, out, low
<1> QED BY <1>1, <1>2, <1>3

(* What analytics-service computes of the orders and of the stock is true.  *)
LEMMA FiguresAreTrue == SaleInv => SeriesMisses /\ ReportsAgree /\ PeriodsMeet /\ StockAgrees
  BY SeriesAreWhole, ReportsAreOne, PeriodsDoMeet, StockDoesAgree
=============================================================================
