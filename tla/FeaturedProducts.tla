-------------------------- MODULE FeaturedProducts --------------------------
(***************************************************************************)
(* The featured products, kept twice: content-service has the list of one  *)
(* product type in top_product_configs (and in Redis), catalog-service a   *)
(* flag isFeatured in each product row, and in the copy of the product in  *)
(* Redis from which the next update starts.  A change made in the catalog  *)
(* asks content-service by RPC; content-service tells the catalog of every *)
(* change of the list by an event.                                         *)
(***************************************************************************)
EXTENDS Naturals, FiniteSets, Sequences

CONSTANTS
  Showcase,        \* products of one type
  FeaturedLimit,   \* FEATURED_LIMIT, also the ArrayMaxSize of the dto
  FeatureSlots,    \* bounds the handlers that run at a time
  FeatureLoads,    \* which handlers run, in which slots, on which products
  MaxEvents,       \* bounds the events in the queue
  NotCached

FeatureHandlers ==
  {"replace", "read", "find", "create", "updateFlag", "updateOther", "reconcile"}

ASSUME FeatureAssumption ==
  /\ IsFiniteSet(Showcase) /\ FeaturedLimit \in Nat
  /\ FeatureLoads \subseteq [handlers : SUBSET FeatureHandlers,
                              slots : SUBSET FeatureSlots, made : SUBSET Showcase]

VARIABLES
  topList,         \* productIds of the type's row
  topCached,       \* Redis: the list, or NotCached
  made,            \* products: the rows
  featured,        \* their is_featured
  flagCached,      \* Redis: isFeatured of the copies product:<id>, or NotCached
  updates,         \* TOP_PRODUCTS_UPDATED events on their way, oldest first
  featureCall,     \* the handlers that run
  featureLoad,
  featureFault     \* history: what may leave the two apart

featureVars ==
  <<topList, topCached, made, featured, flagCached, updates, featureCall,
    featureLoad, featureFault>>
copyVars == <<made, flagCached, featureLoad>>

Lists == {l \in SUBSET Showcase : Cardinality(l) <= FeaturedLimit}
Event == [added : SUBSET Showcase, removed : SUBSET Showcase]

(* A handler that changes the list, one that sets a flag and asks for the   *)
(* list to follow, before and after the list was read, one that reads the   *)
(* list, and one that makes the flags follow; and one that reads a product  *)
(* that has no copy, to answer, or to go on with what comes next.           *)
Outcomes == {"flag", "refused"}
Ends == {"drop", "reread"}
ListChanges == [pc : {"saveList", "emit"}, list : SUBSET Showcase,
                added : SUBSET Showcase, removed : SUBSET Showcase,
                then : {"end"}]
FlagChanges == [pc : {"toggle"} \cup Outcomes, product : Showcase,
                on : BOOLEAN, then : Outcomes, after : Ends]
ToggledLists == [pc : {"saveList", "emit"} \cup Outcomes, product : Showcase,
                 on : BOOLEAN, then : Outcomes, after : Ends,
                 list : SUBSET Showcase, added : SUBSET Showcase,
                 removed : SUBSET Showcase]
ListReads == [pc : {"fill"}, list : SUBSET Showcase]
FlagSyncs == [pc : {"flagAdded", "flagRemoved"}, added : SUBSET Showcase,
              removed : SUBSET Showcase]
NoFeatureCall == [pc |-> "idle"]
CopyFills == [pc : {"fillCopy"}, product : Showcase, was : BOOLEAN,
              next : FlagChanges \cup {NoFeatureCall}]
CopyDrops == [pc : Ends, product : Showcase]
FeatureCalls ==
  ListChanges \cup FlagChanges \cup ToggledLists \cup ListReads \cup FlagSyncs
    \cup CopyFills \cup CopyDrops

(* Two handlers at once; an event that was lost; a handler that stopped; an *)
(* update of something else that took the flag from a copy that is not the  *)
(* row's, since what content-service tells changes rows and leaves copies.  *)
FeatureFaults == {"overlap", "lost", "stopped", "stale"}

FeatureTypeOK ==
  /\ topList \subseteq Showcase
  /\ topCached \in (SUBSET Showcase) \cup {NotCached}
  /\ made \subseteq Showcase
  /\ featured \in [Showcase -> BOOLEAN]
  /\ flagCached \in [Showcase -> BOOLEAN \cup {NotCached}]
  /\ updates \in Seq(Event)
  /\ featureCall \in [FeatureSlots -> FeatureCalls \cup {NoFeatureCall}]
  /\ featureLoad \in FeatureLoads
  /\ featureFault \subseteq FeatureFaults

-----------------------------------------------------------------------------
FeatureBusy == {s \in FeatureSlots : featureCall[s] # NoFeatureCall}
InStep == \A p \in Showcase : featured[p] = (p \in topList)
CacheInStep == topCached \in {topList, NotCached}

BlameFeature(marks) ==
  featureFault' =
    IF FeatureBusy' = {} /\ updates' = <<>> /\ InStep' /\ CacheInStep' THEN {}
    ELSE featureFault \cup marks \cup
         (IF \E s, t \in FeatureBusy' : s # t THEN {"overlap"} ELSE {})

StartFeature(s, handler, record) ==
  /\ s \in featureLoad.slots /\ handler \in featureLoad.handlers
  /\ featureCall[s] = NoFeatureCall
  /\ Len(updates) < MaxEvents
  /\ featureCall' = [featureCall EXCEPT ![s] = record]
Resume(s, record) == featureCall' = [featureCall EXCEPT ![s] = record]
EndFeature(s) == featureCall' = [featureCall EXCEPT ![s] = NoFeatureCall]
FeatureAt(s, pc) == featureCall[s].pc = pc

-----------------------------------------------------------------------------
(* content-service: a change of the list in three steps, find, save and     *)
(* emit.  then is what the caller does with the answer: "end" when an admin *)
(* page asked, "flag" when the catalog did.                                 *)

(* updateTopServices / Products / Licenses: persistConfig.                  *)
ReplaceList(s) ==
  /\ \E l \in Lists :
       /\ l \subseteq made
       /\ StartFeature(s, "replace",
            [pc |-> "saveList", list |-> l, added |-> l \ topList,
             removed |-> topList \ l, then |-> "end"])
  /\ UNCHANGED <<topList, topCached, featured, updates, copyVars>>
  /\ BlameFeature({})

(* Mutant: the limit is compared with > .                                   *)
ToggleOverLimit(s) ==
  /\ FeatureAt(s, "toggle")
  /\ LET k == featureCall[s]
         isIn == k.product \in topList
     IN  IF k.on = isIn
         THEN Resume(s, [k EXCEPT !.pc = k.then])
         ELSE IF k.on /\ Cardinality(topList) > FeaturedLimit
         THEN Resume(s, [k EXCEPT !.pc = "refused"])
         ELSE Resume(s, [pc |-> "saveList", product |-> k.product, on |-> k.on,
                        then |-> k.then, after |-> k.after,
                        list |-> IF k.on THEN topList \cup {k.product}
                                 ELSE topList \ {k.product},
                        added |-> IF k.on THEN {k.product} ELSE {},
                        removed |-> IF k.on THEN {} ELSE {k.product}])
  /\ UNCHANGED <<topList, topCached, featured, updates, copyVars>>
  /\ BlameFeature({})

(* toggleFeatured(product, featured): nothing to do, the limit, or the list *)
(* read with the product added or removed.                                  *)
ToggleFeatured(s) ==
  /\ FeatureAt(s, "toggle")
  /\ LET k == featureCall[s]
         isIn == k.product \in topList
     IN  IF k.on = isIn
         THEN Resume(s, [k EXCEPT !.pc = k.then])
         ELSE IF k.on /\ Cardinality(topList) >= FeaturedLimit
         THEN Resume(s, [k EXCEPT !.pc = "refused"])
         ELSE Resume(s, [pc |-> "saveList", product |-> k.product, on |-> k.on,
                        then |-> k.then, after |-> k.after,
                        list |-> IF k.on THEN topList \cup {k.product}
                                 ELSE topList \ {k.product},
                        added |-> IF k.on THEN {k.product} ELSE {},
                        removed |-> IF k.on THEN {} ELSE {k.product}])
  /\ UNCHANGED <<topList, topCached, featured, updates, copyVars>>
  /\ BlameFeature({})

SaveList(s) ==
  /\ FeatureAt(s, "saveList")
  /\ topList' = featureCall[s].list
  /\ Resume(s, [featureCall[s] EXCEPT !.pc = "emit"])
  /\ UNCHANGED <<topCached, featured, updates, copyVars>>
  /\ BlameFeature({})

(* emitTopProductsUpdated: no event when the list did not change.           *)
Emit(added, removed) ==
  IF added = {} /\ removed = {} THEN updates
  ELSE Append(updates, [added |-> added, removed |-> removed])

(* Mutant: the cached list is not invalidated.                              *)
EmitOnly(s) ==
  /\ FeatureAt(s, "emit")
  /\ LET k == featureCall[s]
     IN  /\ updates' = Emit(k.added, k.removed)
         /\ IF k.then = "end" THEN EndFeature(s)
            ELSE Resume(s, [k EXCEPT !.pc = k.then])
  /\ UNCHANGED <<topList, topCached, featured, copyVars>>
  /\ BlameFeature({})

(* Mutant: the products that left the list are not in the event.            *)
EmitAddedOnly(s) ==
  /\ FeatureAt(s, "emit")
  /\ topCached' = NotCached
  /\ LET k == featureCall[s]
     IN  /\ updates' = Emit(k.added, {})
         /\ IF k.then = "end" THEN EndFeature(s)
            ELSE Resume(s, [k EXCEPT !.pc = k.then])
  /\ UNCHANGED <<topList, featured, copyVars>>
  /\ BlameFeature({})

(* invalidateTopProductsCache, then the event.                              *)
InvalidateAndEmit(s) ==
  /\ FeatureAt(s, "emit")
  /\ topCached' = NotCached
  /\ LET k == featureCall[s]
     IN  /\ updates' = Emit(k.added, k.removed)
         /\ IF k.then = "end" THEN EndFeature(s)
            ELSE Resume(s, [k EXCEPT !.pc = k.then])
  /\ UNCHANGED <<topList, featured, copyVars>>
  /\ BlameFeature({})

(* getTopServices / Products / Licenses: getOrSet on a miss.                *)
GetTopList(s) ==
  /\ topCached = NotCached
  /\ StartFeature(s, "read", [pc |-> "fill", list |-> topList])
  /\ UNCHANGED <<topList, topCached, featured, updates, copyVars>>
  /\ BlameFeature({})

(* Mutant: the list is cached inside the answer.                            *)
FillAnswer(s) ==
  /\ FeatureAt(s, "fill")
  /\ topCached' = {featureCall[s].list}
  /\ EndFeature(s)
  /\ UNCHANGED <<topList, featured, updates, copyVars>>
  /\ BlameFeature({})

FillTopList(s) ==
  /\ FeatureAt(s, "fill")
  /\ topCached' = featureCall[s].list
  /\ EndFeature(s)
  /\ UNCHANGED <<topList, featured, updates, copyVars>>
  /\ BlameFeature({})

-----------------------------------------------------------------------------
(* catalog-service.  findById: the copy, or the row, which is then copied;  *)
(* an update goes on with what it finds.                                    *)
Filling(p, next) ==
  [pc |-> "fillCopy", product |-> p, was |-> featured[p], next |-> next]
Found(p, next) ==
  IF flagCached[p] # NotCached THEN next ELSE Filling(p, next)
IsFeatured(p) ==
  IF flagCached[p] # NotCached THEN flagCached[p] ELSE featured[p]

FindProduct(s) ==
  /\ \E p \in made :
       /\ flagCached[p] = NotCached
       /\ StartFeature(s, "find", Filling(p, NoFeatureCall))
  /\ UNCHANGED <<topList, topCached, featured, updates, copyVars>>
  /\ BlameFeature({})

FillCopy(s) ==
  /\ FeatureAt(s, "fillCopy")
  /\ LET k == featureCall[s]
     IN  /\ flagCached' = [flagCached EXCEPT ![k.product] = k.was]
         /\ Resume(s, k.next)
  /\ UNCHANGED <<topList, topCached, made, featured, updates, featureLoad>>
  /\ BlameFeature({})

(* create(dto): the row, which is not featured; when the dto says that it   *)
(* is, the list is asked, and a refusal is only logged.                     *)
CreateProduct(s) ==
  /\ \E p \in Showcase \ made, asked \in BOOLEAN :
       /\ made' = made \cup {p}
       /\ StartFeature(s, "create",
            IF asked THEN [pc |-> "toggle", product |-> p, on |-> TRUE,
                           then |-> "flag", after |-> "reread"]
            ELSE [pc |-> "reread", product |-> p])
  /\ UNCHANGED <<topList, topCached, featured, flagCached, updates, featureLoad>>
  /\ BlameFeature({})

(* update(product, dto) with isFeatured in the dto, or without.             *)
UpdateFlag(s) ==
  /\ \E p \in made, on \in BOOLEAN :
       StartFeature(s, "updateFlag",
         Found(p, [pc |-> "toggle", product |-> p, on |-> on,
                   then |-> "flag", after |-> "drop"]))
  /\ UNCHANGED <<topList, topCached, featured, updates, copyVars>>
  /\ BlameFeature({})

UpdateOther(s) ==
  /\ UNCHANGED <<topList, topCached, featured, updates, copyVars>>
  /\ \E p \in made :
       /\ StartFeature(s, "updateOther",
            Found(p, [pc |-> "flag", product |-> p, on |-> IsFeatured(p),
                      then |-> "flag", after |-> "drop"]))
       /\ BlameFeature(IF IsFeatured(p) = featured[p] THEN {} ELSE {"stale"})

(* save() of the product with the flag set, or as it was found.             *)
SaveFlag(s) ==
  /\ FeatureAt(s, "flag")
  /\ LET k == featureCall[s]
     IN  /\ featured' = [featured EXCEPT ![k.product] = k.on]
         /\ Resume(s, [pc |-> k.after, product |-> k.product])
  /\ UNCHANGED <<topList, topCached, updates, copyVars>>
  /\ BlameFeature({})

(* The end of an update: invalidateProductCache(id, slug).                  *)
DropCopy(s) ==
  /\ FeatureAt(s, "drop")
  /\ flagCached' = [flagCached EXCEPT ![featureCall[s].product] = NotCached]
  /\ Resume(s, [featureCall[s] EXCEPT !.pc = "reread"])
  /\ UNCHANGED <<topList, topCached, made, featured, updates, featureLoad>>
  /\ BlameFeature({})

(* And of a creation, whose invalidateProductCache() drops no copy.         *)
RereadProduct(s) ==
  /\ FeatureAt(s, "reread")
  /\ Resume(s, Found(featureCall[s].product, NoFeatureCall))
  /\ UNCHANGED <<topList, topCached, featured, updates, copyVars>>
  /\ BlameFeature({})

CopyExpires ==
  /\ \E p \in Showcase : /\ flagCached[p] # NotCached
                         /\ flagCached' = [flagCached EXCEPT ![p] = NotCached]
  /\ UNCHANGED <<topList, topCached, made, featured, updates, featureCall,
                 featureLoad>>
  /\ BlameFeature({})

(* FEATURED_LIMIT_REACHED: the update fails, nothing is saved; a creation   *)
(* goes on.                                                                 *)
ToggleRefused(s) ==
  /\ FeatureAt(s, "refused")
  /\ LET k == featureCall[s]
     IN  Resume(s, IF k.after = "drop" THEN NoFeatureCall
                   ELSE [pc |-> "reread", product |-> k.product])
  /\ UNCHANGED <<topList, topCached, featured, updates, copyVars>>
  /\ BlameFeature({})

(* The RPC's 5 seconds pass: the update fails while content-service goes on.*)
ToggleTimesOut(s) ==
  /\ featureCall[s].pc \in {"toggle", "saveList", "emit"}
  /\ featureCall[s].then = "flag"
  /\ Resume(s, [featureCall[s] EXCEPT !.then = "refused"])
  /\ UNCHANGED <<topList, topCached, featured, updates, copyVars>>
  /\ BlameFeature({})

-----------------------------------------------------------------------------
(* catalog-service: handleTopProductsUpdated, two UPDATEs; and the full     *)
(* reconciliation at start-up: a snapshot by RPC, then two UPDATEs.         *)
ReceiveUpdate(s) ==
  /\ updates # <<>>
  /\ s \in featureLoad.slots /\ featureCall[s] = NoFeatureCall
  /\ Resume(s, [pc |-> "flagAdded", added |-> Head(updates).added,
               removed |-> Head(updates).removed])
  /\ updates' = Tail(updates)
  /\ UNCHANGED <<topList, topCached, featured, copyVars>>
  /\ BlameFeature({})

(* emit is not confirmed, and a handler that fails is not run again.        *)
LoseUpdate ==
  /\ updates # <<>>
  /\ updates' = Tail(updates)
  /\ UNCHANGED <<topList, topCached, featured, featureCall, copyVars>>
  /\ BlameFeature({"lost"})

Reconcile(s) ==
  /\ StartFeature(s, "reconcile", [pc |-> "flagAdded", added |-> topList,
                                   removed |-> Showcase \ topList])
  /\ UNCHANGED <<topList, topCached, featured, updates, copyVars>>
  /\ BlameFeature({})

FlagAdded(s) ==
  /\ FeatureAt(s, "flagAdded")
  /\ featured' = [p \in Showcase |->
                    featured[p] \/ p \in featureCall[s].added]
  /\ Resume(s, [featureCall[s] EXCEPT !.pc = "flagRemoved"])
  /\ UNCHANGED <<topList, topCached, updates, copyVars>>
  /\ BlameFeature({})

FlagRemoved(s) ==
  /\ FeatureAt(s, "flagRemoved")
  /\ featured' = [p \in Showcase |->
                    featured[p] /\ p \notin featureCall[s].removed]
  /\ EndFeature(s)
  /\ UNCHANGED <<topList, topCached, updates, copyVars>>
  /\ BlameFeature({})

(* A service stops.  Who asked content-service gets no answer; an event     *)
(* that was being handled is not delivered again.                           *)
FeatureStops(s) ==
  /\ featureCall[s] # NoFeatureCall
  /\ LET k == featureCall[s]
     IN  Resume(s, IF k.pc \in {"saveList", "emit"} /\ k.then # "end"
                   THEN [k EXCEPT !.pc = "refused"] ELSE NoFeatureCall)
  /\ UNCHANGED <<topList, topCached, featured, updates, copyVars>>
  /\ BlameFeature({"stopped"})

-----------------------------------------------------------------------------
FeatureInit ==
  /\ featureLoad \in FeatureLoads
  /\ made = featureLoad.made
  /\ flagCached = [p \in Showcase |-> NotCached]
  /\ topList = {}
  /\ topCached = NotCached
  /\ featured = [p \in Showcase |-> FALSE]
  /\ updates = <<>>
  /\ featureCall = [s \in FeatureSlots |-> NoFeatureCall]
  /\ featureFault = {}

FeatureNext ==
  \/ \E s \in FeatureSlots :
       \/ ReplaceList(s)
       \/ ToggleFeatured(s)
       \/ SaveList(s)
       \/ InvalidateAndEmit(s)
       \/ GetTopList(s)
       \/ FillTopList(s)
       \/ FindProduct(s)
       \/ FillCopy(s)
       \/ CreateProduct(s)
       \/ UpdateFlag(s)
       \/ UpdateOther(s)
       \/ SaveFlag(s)
       \/ DropCopy(s)
       \/ RereadProduct(s)
       \/ ToggleRefused(s)
       \/ ToggleTimesOut(s)
       \/ ReceiveUpdate(s)
       \/ Reconcile(s)
       \/ FlagAdded(s)
       \/ FlagRemoved(s)
       \/ FeatureStops(s)
  \/ LoseUpdate
  \/ CopyExpires

FeatureSpec == FeatureInit /\ [][FeatureNext]_featureVars

-----------------------------------------------------------------------------
(* The list never grows past the limit, not even when two additions read    *)
(* the same list: each saves the list it read with one product more.        *)
ListBounded == Cardinality(topList) <= FeaturedLimit

(* With nothing running and no event on its way the flags of the products   *)
(* say what the list says, unless handlers overlapped, an event was lost, a *)
(* service stopped, or an update of something else saved the flag of a      *)
(* stale copy: a refused or timed-out RPC leaves no difference.             *)
FlagsFollowList ==
  FeatureBusy = {} /\ updates = <<>> /\ ~InStep => featureFault # {}

(* With nothing running the cached list is the list, unless handlers        *)
(* overlapped or content-service stopped.                                   *)
CachedListFollows ==
  FeatureBusy = {} /\ ~CacheInStep =>
    featureFault \cap {"overlap", "stopped"} # {}

(* The list content-service keeps and the flags catalog-service keeps: the  *)
(* list never outgrows its limit, and flags say what the list says once     *)
(* the events between them are handled, save for the faults named above.    *)
FeaturedConsistent == ListBounded /\ FlagsFollowList
=============================================================================
