----------------------------- MODULE Categories -----------------------------
(***************************************************************************)
(* The categories of catalog-service, the slugs of categories and products *)
(* and what Redis serves under a slug: category:<slug>, with the products  *)
(* of the category in it, and product:<slug>.  A slug is looked up in a    *)
(* statement of its own before the row is saved; the unique index has the  *)
(* last word.  An update() of a product works on the copy under            *)
(* product:<id> if there is one, and saves what this copy says.            *)
(***************************************************************************)
EXTENDS Naturals, FiniteSets

CONSTANTS
  Cats,         \* bounds the categories
  Items,        \* bounds the products
  Slugs,        \* slugs; categories and products have separate ones
  CatSlots,     \* bounds the requests in flight
  CatLoads,     \* what runs together in a behaviour, and on what:
                \* [handlers, slots, cats, items]
  Nothing

ASSUME CatSlotAssumption == IsFiniteSet(CatSlots)
ASSUME CatLoadAssumption ==
  \A l \in CatLoads :
    l.slots \subseteq CatSlots /\ l.cats \subseteq Cats /\ l.items \subseteq Items

VARIABLES
  category,     \* categories: the slug of each, or Nothing
  item,         \* products: [slug, cat, deleted], or Nothing
  catCached,    \* Redis category:<slug>: [id, items], or Nothing
  itemCached,   \* Redis product:<slug>: the product it shows, or Nothing
  idCached,     \* Redis product:<id>: a copy of the row, or Nothing
  catCall,      \* the requests in flight
  catLoad,      \* the handlers, slots, categories and products of this one
  catFault      \* history: what may have left a cache behind

catVars == <<category, item, catCached, itemCached, idCached, catCall, catLoad,
             catFault>>

ItemRow == [slug : Slugs, cat : Cats, deleted : BOOLEAN]
CatPage == [id : Cats, items : SUBSET Items]
NoCatCall == [op |-> "idle"]

(* No row is a row.                                                         *)
ASSUME NothingAssumption == Nothing \notin ItemRow

(* Two requests at once; a product that changed, which no category's key    *)
(* follows; a product with a new slug; a product deleted in bulk; a call    *)
(* that stopped on its way.                                                 *)
CatFaults == {"overlap", "product", "renamed", "bulk", "stopped"}

CategoryTypeOK ==
  /\ category \in [Cats -> Slugs \cup {Nothing}]
  /\ item \in [Items -> ItemRow \cup {Nothing}]
  /\ catCached \in [Slugs -> CatPage \cup {Nothing}]
  /\ itemCached \in [Slugs -> Items \cup {Nothing}]
  /\ idCached \in [Items -> ItemRow \cup {Nothing}]
  /\ DOMAIN catCall = CatSlots
  /\ catLoad \in CatLoads
  /\ catFault \subseteq CatFaults

-----------------------------------------------------------------------------
CatBusy == {s \in CatSlots : catCall[s] # NoCatCall}
Live == {i \in Items : item[i] # Nothing /\ ~item[i].deleted}

(* find({slug}): soft-deleted products are not found, but keep their slug.  *)
CatsWith(slug) == {c \in Cats : category[c] = slug}
ItemsWith(slug) == {i \in Live : item[i].slug = slug}
SlugHolders(slug) == {i \in Items : item[i] # Nothing /\ item[i].slug = slug}

ItemsOf(c) == {i \in Live : item[i].cat = c}
Page(slug) == LET c == CHOOSE k \in Cats : category[k] = slug
              IN  [id |-> c, items |-> ItemsOf(c)]

CatPageTrue(slug) ==
  catCached[slug] # Nothing =>
    CatsWith(slug) # {} /\ catCached[slug] = Page(slug)
ItemPageTrue(slug) ==
  itemCached[slug] # Nothing => ItemsWith(slug) = {itemCached[slug]}
IdCopyTrue(i) == idCached[i] # Nothing => idCached[i] = item[i]

(* Nothing runs, and whatever Redis holds is so.                            *)
CatQuiet ==
  /\ CatBusy = {}
  /\ \A g \in Slugs : CatPageTrue(g) /\ ItemPageTrue(g)
  /\ \A i \in Items : IdCopyTrue(i)

BlameCat(marks) ==
  catFault' =
    IF CatQuiet' THEN {}
    ELSE catFault \cup marks \cup
         (IF Cardinality(CatBusy') > 1 THEN {"overlap"} ELSE {})

BeginCat(s, handler, record) ==
  /\ handler \in catLoad.handlers
  /\ catCall[s] = NoCatCall
  /\ catCall' = [catCall EXCEPT ![s] = record]
StepCat(s, record) == catCall' = [catCall EXCEPT ![s] = record]
EndCat(s) == catCall' = [catCall EXCEPT ![s] = NoCatCall]
CatAt(s, pc) == catCall[s] # NoCatCall /\ catCall[s].pc = pc
KeepRows == UNCHANGED <<category, item>>
KeepPages == UNCHANGED <<catCached, itemCached, idCached>>

(* A call dies where it is: the process stops, or a statement fails.        *)
StopCat(s) ==
  /\ s \in CatBusy
  /\ EndCat(s)
  /\ UNCHANGED catLoad /\ KeepRows /\ KeepPages
  /\ BlameCat({"stopped"})

-----------------------------------------------------------------------------
(* create(dto): 409 when the slug is found.  update(id, dto) reads the row  *)
(* itself, never the cache.                                                 *)
CreateCategory(s, c, slug) ==
  /\ category[c] = Nothing
  /\ CatsWith(slug) = {}
  /\ BeginCat(s, "create", [pc |-> "saveCat", id |-> c, slug |-> slug,
                            old |-> slug])
  /\ UNCHANGED catLoad /\ KeepRows /\ KeepPages
  /\ BlameCat({})

UpdateCategory(s, c, slug) ==
  /\ category[c] # Nothing
  /\ CatsWith(slug) \subseteq {c}
  /\ BeginCat(s, "update", [pc |-> "saveCat", id |-> c, slug |-> slug,
                            old |-> category[c]])
  /\ UNCHANGED catLoad /\ KeepRows /\ KeepPages
  /\ BlameCat({})

(* save(): the unique index refuses a slug that was taken in between.       *)
SaveCategory(s) ==
  /\ CatAt(s, "saveCat")
  /\ LET k == catCall[s]
     IN  IF CatsWith(k.slug) \subseteq {k.id}
         THEN /\ category' = [category EXCEPT ![k.id] = k.slug]
              /\ StepCat(s, [pc |-> "dropCat", slugs |-> {k.old, k.slug}])
         ELSE EndCat(s) /\ UNCHANGED category
  /\ UNCHANGED <<item, catLoad>> /\ KeepPages
  /\ BlameCat({})

(* delete(id): refused while the category has products that are not deleted.*)
DeleteCategory(s, c) ==
  /\ category[c] # Nothing
  /\ ItemsOf(c) = {}
  /\ BeginCat(s, "delete", [pc |-> "removeCat", id |-> c, slug |-> category[c]])
  /\ UNCHANGED catLoad /\ KeepRows /\ KeepPages
  /\ BlameCat({})

(* remove(): the foreign key counts soft-deleted products too.              *)
RemoveCategory(s) ==
  /\ CatAt(s, "removeCat")
  /\ LET k == catCall[s]
     IN  IF \E i \in Items : item[i] # Nothing /\ item[i].cat = k.id
         THEN EndCat(s) /\ UNCHANGED category
         ELSE /\ category' = [category EXCEPT ![k.id] = Nothing]
              /\ StepCat(s, [pc |-> "dropCat", slugs |-> {k.slug}])
  /\ UNCHANGED <<item, catLoad>> /\ KeepPages
  /\ BlameCat({})

(* Mutant: the lists are invalidated and no page.                            *)
DropNoCategory(s) ==
  /\ CatAt(s, "dropCat")
  /\ EndCat(s)
  /\ UNCHANGED catLoad /\ KeepRows /\ KeepPages
  /\ BlameCat({})

(* invalidateCategoryCache: in the end every key category:* goes.           *)
InvalidateCategories(s) ==
  /\ CatAt(s, "dropCat")
  /\ catCached' = [g \in Slugs |-> Nothing]
  /\ EndCat(s)
  /\ UNCHANGED <<itemCached, idCached, catLoad>> /\ KeepRows
  /\ BlameCat({})

(* findBySlug(slug): on a miss the row with its products, then the key.     *)
FindCategory(s, slug) ==
  /\ catCached[slug] = Nothing
  /\ CatsWith(slug) # {}
  /\ BeginCat(s, "find", [pc |-> "fillCat", slug |-> slug, page |-> Page(slug)])
  /\ UNCHANGED catLoad /\ KeepRows /\ KeepPages
  /\ BlameCat({})

FillCategory(s) ==
  /\ CatAt(s, "fillCat")
  /\ catCached' = [catCached EXCEPT ![catCall[s].slug] = catCall[s].page]
  /\ EndCat(s)
  /\ UNCHANGED <<itemCached, idCached, catLoad>> /\ KeepRows
  /\ BlameCat({})

-----------------------------------------------------------------------------
(* Products: create(dto) looks up the slug and the category of the dto.     *)
CreateItem(s, i, slug, c) ==
  /\ item[i] = Nothing
  /\ ItemsWith(slug) = {}
  /\ category[c] # Nothing
  /\ BeginCat(s, "createItem", [pc |-> "saveItem", id |-> i, drop |-> {},
                row |-> [slug |-> slug, cat |-> c, deleted |-> FALSE]])
  /\ UNCHANGED catLoad /\ KeepRows /\ KeepPages
  /\ BlameCat({})

(* update(id, dto): findById answers the copy, or reads the row and keeps a *)
(* copy of it.  The dto gives the slug and the category.                    *)
UpdateItem(s, i, slug, c) ==
  /\ idCached[i] # Nothing \/ i \in Live
  /\ BeginCat(s, "updateItem",
       [pc |-> IF idCached[i] = Nothing THEN "fillId" ELSE "checkItem", id |-> i,
        old |-> IF idCached[i] = Nothing THEN item[i] ELSE idCached[i],
        new |-> [slug |-> slug, cat |-> c, deleted |-> FALSE]])
  /\ UNCHANGED catLoad /\ KeepRows /\ KeepPages
  /\ BlameCat({})

(* findById(id) on a miss.                                                  *)
FindItemById(s, i) ==
  /\ idCached[i] = Nothing
  /\ i \in Live
  /\ BeginCat(s, "findId", [pc |-> "fillId", id |-> i, old |-> item[i],
                            new |-> Nothing])
  /\ UNCHANGED catLoad /\ KeepRows /\ KeepPages
  /\ BlameCat({})

(* A reader is done; an update() goes on.                                   *)
FillId(s) ==
  /\ CatAt(s, "fillId")
  /\ LET k == catCall[s]
     IN  /\ idCached' = [idCached EXCEPT ![k.id] = k.old]
         /\ IF k.new = Nothing THEN EndCat(s)
            ELSE StepCat(s, [k EXCEPT !.pc = "checkItem"])
  /\ UNCHANGED <<catCached, itemCached, catLoad>> /\ KeepRows
  /\ BlameCat({})

(* The slug and the category are looked up if the copy has others: 409, 404.*)
CheckItem(s) ==
  /\ CatAt(s, "checkItem")
  /\ LET k == catCall[s]
     IN  IF /\ k.new.slug # k.old.slug => ItemsWith(k.new.slug) = {}
            /\ k.new.cat # k.old.cat => category[k.new.cat] # Nothing
         THEN StepCat(s, [pc |-> "saveItem", id |-> k.id, row |-> k.new,
                          drop |-> {k.new.slug}])
         ELSE EndCat(s)
  /\ UNCHANGED catLoad /\ KeepRows /\ KeepPages
  /\ BlameCat({})

SaveMarks(k) ==
  {"product"} \cup (IF item[k.id] # Nothing /\ item[k.id].slug # k.row.slug
                   THEN {"renamed"} ELSE {})

(* save(): the unique index holds for soft-deleted products too, the        *)
(* foreign key wants the category.                                          *)
SaveItem(s) ==
  /\ CatAt(s, "saveItem")
  /\ LET k == catCall[s]
     IN  IF SlugHolders(k.row.slug) \subseteq {k.id} /\ category[k.row.cat] # Nothing
         THEN /\ item' = [item EXCEPT ![k.id] = k.row]
              /\ StepCat(s, [pc |-> "dropItem", id |-> k.id, slugs |-> k.drop,
                             reread |-> TRUE])
         ELSE EndCat(s) /\ UNCHANGED item
  /\ UNCHANGED <<category, catLoad>> /\ KeepPages
  /\ BlameCat(SaveMarks(catCall[s]))

(* delete(id), and one id of bulkDelete(ids), whose end drops lists only.   *)
DeleteItem(s, i) ==
  /\ i \in Live
  /\ \/ BeginCat(s, "deleteItem", [pc |-> "softDelete", id |-> i,
                                   slugs |-> {item[i].slug}])
     \/ BeginCat(s, "bulkDelete", [pc |-> "softDelete", id |-> i, slugs |-> {}])
  /\ UNCHANGED catLoad /\ KeepRows /\ KeepPages
  /\ BlameCat({})

SoftDeleteItem(s) ==
  /\ CatAt(s, "softDelete")
  /\ LET k == catCall[s]
     IN  /\ item' = [item EXCEPT ![k.id].deleted = TRUE]
         /\ StepCat(s, [pc |-> "dropItem", id |-> k.id, slugs |-> k.slugs,
                        reread |-> FALSE])
  /\ UNCHANGED <<category, catLoad>> /\ KeepPages
  /\ BlameCat({"product"} \cup (IF catCall[s].slugs = {} THEN {"bulk"} ELSE {}))

(* What invalidateProductCache leads to: create() and update() read again.  *)
AfterDrop(s) ==
  IF catCall[s].reread THEN StepCat(s, [pc |-> "reread", id |-> catCall[s].id])
  ELSE EndCat(s)

(* Mutant: the product's pages stay.                                        *)
DropItemLists(s) ==
  /\ CatAt(s, "dropItem")
  /\ AfterDrop(s)
  /\ UNCHANGED catLoad /\ KeepRows /\ KeepPages
  /\ BlameCat({})

(* invalidateProductCache(id, slug), or without either: the lists alone.    *)
(* Object.assign has put the new slug into the product, so that update()    *)
(* leaves the key of the old slug.                                          *)
InvalidateItem(s) ==
  /\ CatAt(s, "dropItem")
  /\ LET k == catCall[s]
     IN  /\ itemCached' = [g \in Slugs |-> IF g \in k.slugs THEN Nothing
                                           ELSE itemCached[g]]
         /\ idCached' = [i \in Items |-> IF i = k.id /\ k.slugs # {} THEN Nothing
                                         ELSE idCached[i]]
  /\ AfterDrop(s)
  /\ UNCHANGED <<catCached, catLoad>> /\ KeepRows
  /\ BlameCat({})

(* findById(id), whose answer is what create() and update() return.         *)
RereadItem(s) ==
  /\ CatAt(s, "reread")
  /\ LET i == catCall[s].id
     IN  IF idCached[i] = Nothing /\ i \in Live
         THEN StepCat(s, [pc |-> "fillId", id |-> i, old |-> item[i], new |-> Nothing])
         ELSE EndCat(s)
  /\ UNCHANGED catLoad /\ KeepRows /\ KeepPages
  /\ BlameCat({})

FindItem(s, slug) ==
  /\ itemCached[slug] = Nothing
  /\ \E i \in ItemsWith(slug) :
       BeginCat(s, "findItem", [pc |-> "fillItem", slug |-> slug, id |-> i])
  /\ UNCHANGED catLoad /\ KeepRows /\ KeepPages
  /\ BlameCat({})

(* Mutant: the page of the product goes under a category's key.             *)
FillWrongKey(s) ==
  /\ CatAt(s, "fillItem")
  /\ catCached' = [catCached EXCEPT ![catCall[s].slug] = catCall[s].id]
  /\ EndCat(s)
  /\ UNCHANGED <<itemCached, idCached, catLoad>> /\ KeepRows
  /\ BlameCat({})

FillItem(s) ==
  /\ CatAt(s, "fillItem")
  /\ itemCached' = [itemCached EXCEPT ![catCall[s].slug] = catCall[s].id]
  /\ EndCat(s)
  /\ UNCHANGED <<catCached, idCached, catLoad>> /\ KeepRows
  /\ BlameCat({})

(* An hour passes, or Redis evicts a key.                                   *)
ExpirePage(slug) ==
  /\ \/ catCached' = [catCached EXCEPT ![slug] = Nothing] /\ UNCHANGED itemCached
     \/ itemCached' = [itemCached EXCEPT ![slug] = Nothing] /\ UNCHANGED catCached
  /\ UNCHANGED <<idCached, catCall, catLoad>> /\ KeepRows
  /\ BlameCat({})

ExpireId(i) ==
  /\ idCached' = [idCached EXCEPT ![i] = Nothing]
  /\ UNCHANGED <<catCached, itemCached, catCall, catLoad>> /\ KeepRows
  /\ BlameCat({})

-----------------------------------------------------------------------------
CategoryInit ==
  /\ category = [c \in Cats |-> Nothing]
  /\ item = [i \in Items |-> Nothing]
  /\ catCached = [g \in Slugs |-> Nothing]
  /\ itemCached = [g \in Slugs |-> Nothing]
  /\ idCached = [i \in Items |-> Nothing]
  /\ catCall = [s \in CatSlots |-> NoCatCall]
  /\ catLoad \in CatLoads
  /\ catFault = {}

CategoryNext ==
  \/ \E s \in catLoad.slots :
       \/ \E c \in catLoad.cats, g \in Slugs : CreateCategory(s, c, g)
       \/ \E c \in catLoad.cats, g \in Slugs : UpdateCategory(s, c, g)
       \/ SaveCategory(s)
       \/ \E c \in catLoad.cats : DeleteCategory(s, c)
       \/ RemoveCategory(s)
       \/ InvalidateCategories(s)
       \/ \E g \in Slugs : FindCategory(s, g)
       \/ FillCategory(s)
       \/ \E i \in catLoad.items, g \in Slugs, c \in catLoad.cats :
            CreateItem(s, i, g, c)
       \/ \E i \in catLoad.items, g \in Slugs, c \in catLoad.cats :
            UpdateItem(s, i, g, c)
       \/ SaveItem(s)
       \/ \E i \in catLoad.items : DeleteItem(s, i)
       \/ SoftDeleteItem(s)
       \/ InvalidateItem(s)
       \/ \E g \in Slugs : FindItem(s, g)
       \/ FillItem(s)
       \/ \E i \in catLoad.items : FindItemById(s, i)
       \/ FillId(s)
       \/ CheckItem(s)
       \/ RereadItem(s)
       \/ StopCat(s)
  \/ \E g \in Slugs : ExpirePage(g)
  \/ \E i \in catLoad.items : ExpireId(i)

CategorySpec == CategoryInit /\ [][CategoryNext]_catVars

-----------------------------------------------------------------------------
(* With nothing in flight the page of a category shows the category that    *)
(* has this slug and its products, unless requests overlapped, one stopped  *)
(* on its way, or a product changed since: no product handler drops a       *)
(* category's key.                                                          *)
CategoryPagesTrue ==
  CatBusy = {} /\ (\E g \in Slugs : ~CatPageTrue(g))
    => catFault \cap {"overlap", "product", "stopped"} # {}

(* With nothing in flight the page under a product's slug shows the product *)
(* that has this slug, unless requests overlapped, one stopped on its way,  *)
(* a product was renamed, update() dropping the key of the new slug alone,  *)
(* or deleted in bulk, which drops no product's key.  An update() that      *)
(* works on a copy is no cause of its own: the copy is the row, but for     *)
(* these.                                                                   *)
ItemPagesTrue ==
  CatBusy = {} /\ (\E g \in Slugs : ~ItemPageTrue(g))
    => catFault \cap {"overlap", "stopped", "renamed", "bulk"} # {}
=============================================================================
