--------------------------- MODULE ProductImages ---------------------------
(***************************************************************************)
(* The images of one product of catalog-service: which is the primary one  *)
(* and in which order they show.  ImageService serves uploads and          *)
(* deletions, ProductService the images given by URL, the choice of the    *)
(* primary one and the order.  Every handler reads the rows, then writes   *)
(* them in statements of its own, and may stop or be refused one of them.  *)
(***************************************************************************)
EXTENDS Naturals, FiniteSetsExt, SequencesExt

CONSTANTS
  ImageIds,     \* bounds the images that exist at a time
  MaxImages,    \* MAX_IMAGES_PER_PRODUCT
  ImageSlots,   \* bounds the requests in flight
  ImageLoads,   \* the ids and slots one behaviour uses, and whether it
                \* reorders: records [ids, slots, reorder]
  NoImage

ASSUME ImageAssumption ==
  /\ MaxImages \in Nat \ {0}
  /\ IsFiniteSet(ImageIds)
  /\ \A l \in ImageLoads : l.ids \subseteq ImageIds /\ l.slots \subseteq ImageSlots

VARIABLES
  image,        \* the product_images of the product
  imageCall,    \* the requests in flight
  imageLoad,    \* the ids and slots of this behaviour
  imageFault    \* history: what may have spoilt the rows

imageVars == <<image, imageCall, imageLoad, imageFault>>

Orders == 0..Cardinality(ImageIds)
ImageRow == [primary : BOOLEAN, order : Orders]
ASSUME NoImageAssumption == NoImage \notin ImageRow

(* A request that inserts an image, removes one, looks for one to promote,  *)
(* saves one it made primary, or gives the images of a list their places.   *)
Insertions == [pc : {"demote", "insert"}, primary : BOOLEAN, order : Nat,
               checked : BOOLEAN]
Removals == [pc : {"remove"}, id : ImageIds, primary : BOOLEAN]
Searches == [pc : {"findNext"}]
Promotions == [pc : {"demoteOthers", "promote"}, id : ImageIds, row : ImageRow]
Reorders == [pc : {"reorder"}, list : Seq(ImageIds), todo : SUBSET Nat]
ImageCalls == Insertions \cup Removals \cup Searches \cup Promotions \cup Reorders
NoImageCall == [pc |-> "idle"]

(* Two requests at once; an image inserted without the checks of an upload; *)
(* an order given to some of the images only; a request that stopped.       *)
ImageFaults == {"overlap", "unchecked", "partial", "stopped"}

ImageTypeOK ==
  /\ image \in [ImageIds -> ImageRow \cup {NoImage}]
  /\ imageCall \in [ImageSlots -> ImageCalls \cup {NoImageCall}]
  /\ imageLoad \in ImageLoads
  /\ imageFault \subseteq ImageFaults

-----------------------------------------------------------------------------
Images == {i \in ImageIds : image[i] # NoImage}
Primaries == {i \in Images : image[i].primary}
ImagesBusy == {s \in ImageSlots : imageCall[s] # NoImageCall}

(* findOne ... order by displayOrder                                        *)
First == {i \in Images : \A j \in Images : image[i].order <= image[j].order}

(* max(displayOrder, -1) + 1 over the rows read                             *)
NextOrder == IF Images = {} THEN 0 ELSE Max({image[i].order : i \in Images}) + 1

OrdersDiffer == \A i, j \in Images : i # j => image[i].order # image[j].order
OnePrimary == Images # {} => \E i \in Images : Primaries = {i}
WellFormed == OnePrimary /\ OrdersDiffer /\ Cardinality(Images) <= MaxImages

BlameImages(marks) ==
  imageFault' =
    IF ImagesBusy' = {} /\ WellFormed' THEN {}
    ELSE imageFault \cup marks \cup
         (IF \E s, t \in ImagesBusy' : s # t THEN {"overlap"} ELSE {})

StartImage(s, record) == /\ imageCall[s] = NoImageCall
                         /\ imageCall' = [imageCall EXCEPT ![s] = record]
GoOn(s, record) == imageCall' = [imageCall EXCEPT ![s] = record]
EndImage(s) == imageCall' = [imageCall EXCEPT ![s] = NoImageCall]
ImageAt(s, pc) == imageCall[s].pc = pc

NotPrimary == [i \in ImageIds |->
                 IF i \in Images THEN [image[i] EXCEPT !.primary = FALSE]
                 ELSE NoImage]

-----------------------------------------------------------------------------
(* Mutant: the limit is compared with <= .                                  *)
ConfirmUploadOverLimit(s) ==
  /\ Cardinality(Images) <= MaxImages
  /\ \E asked \in BOOLEAN :
       LET primary == asked \/ Images = {}
       IN  StartImage(s, [pc |-> IF primary /\ Images # {} THEN "demote"
                                 ELSE "insert",
                          primary |-> primary, order |-> NextOrder,
                          checked |-> TRUE])
  /\ UNCHANGED <<image, imageLoad>>
  /\ BlameImages({})

(* confirmUpload(dto): the images are found and counted; the first one is   *)
(* always primary.                                                          *)
ConfirmUpload(s) ==
  /\ Cardinality(Images) < MaxImages
  /\ \E asked \in BOOLEAN :
       LET primary == asked \/ Images = {}
       IN  StartImage(s, [pc |-> IF primary /\ Images # {} THEN "demote"
                                 ELSE "insert",
                          primary |-> primary, order |-> NextOrder,
                          checked |-> TRUE])
  /\ UNCHANGED <<image, imageLoad>>
  /\ BlameImages({})

(* addImage(product, url, isPrimary): not counted, and isPrimary = false    *)
(* holds for the first image too.                                           *)
AddImage(s) ==
  /\ \E asked \in BOOLEAN :
       StartImage(s, [pc |-> IF asked /\ Images # {} THEN "demote" ELSE "insert",
                      primary |-> asked, order |-> NextOrder,
                      checked |-> FALSE])
  /\ UNCHANGED <<image, imageLoad>>
  /\ BlameImages({})

(* Mutant: the images are not demoted before a new primary one is added.    *)
DemoteNone(s) ==
  /\ ImageAt(s, "demote")
  /\ GoOn(s, [imageCall[s] EXCEPT !.pc = "insert"])
  /\ UNCHANGED <<image, imageLoad>>
  /\ BlameImages({})

(* update({productId}, {isPrimary: false})                                  *)
DemoteAll(s) ==
  /\ ImageAt(s, "demote")
  /\ image' = NotPrimary
  /\ GoOn(s, [imageCall[s] EXCEPT !.pc = "insert"])
  /\ UNCHANGED imageLoad
  /\ BlameImages({})

(* Mutant: the new image is given no position.                              *)
InsertUnordered(s) ==
  /\ ImageAt(s, "insert")
  /\ \E i \in imageLoad.ids \ Images :
       image' = [image EXCEPT ![i] = [primary |-> imageCall[s].primary]]
  /\ EndImage(s)
  /\ UNCHANGED imageLoad
  /\ BlameImages({})

InsertImage(s) ==
  /\ ImageAt(s, "insert")
  /\ imageCall[s].order \in Orders
  /\ LET k == imageCall[s]
         row == [primary |-> k.primary, order |-> k.order]
     IN  \E i \in imageLoad.ids \ Images :
           /\ \A t \in ImagesBusy : imageCall[t] \in Removals \cup Promotions
                                      => imageCall[t].id # i
           /\ image' = [image EXCEPT ![i] = row]
           /\ EndImage(s)
           /\ UNCHANGED imageLoad
           /\ BlameImages(IF k.checked THEN {} ELSE {"unchecked"})

-----------------------------------------------------------------------------
(* deleteImage(product, image): find, remove, and promote another one.      *)
DeleteImage(s, i) ==
  /\ i \in Images
  /\ StartImage(s, [pc |-> "remove", id |-> i, primary |-> image[i].primary])
  /\ UNCHANGED <<image, imageLoad>>
  /\ BlameImages({})

(* Mutant: nothing takes the place of a primary image that goes.            *)
RemoveOnly(s) ==
  /\ ImageAt(s, "remove")
  /\ image' = [image EXCEPT ![imageCall[s].id] = NoImage]
  /\ EndImage(s)
  /\ UNCHANGED imageLoad
  /\ BlameImages({})

(* The object in the bucket is deleted first; its failure is only logged.   *)
RemoveImage(s) ==
  /\ ImageAt(s, "remove")
  /\ image' = [image EXCEPT ![imageCall[s].id] = NoImage]
  /\ IF imageCall[s].primary
     THEN GoOn(s, [pc |-> "findNext"])
     ELSE EndImage(s)
  /\ UNCHANGED imageLoad
  /\ BlameImages({})

FindNext(s) ==
  /\ ImageAt(s, "findNext")
  /\ \/ Images = {} /\ EndImage(s)
     \/ \E i \in First :
          GoOn(s, [pc |-> "promote", id |-> i,
                   row |-> [image[i] EXCEPT !.primary = TRUE]])
  /\ UNCHANGED <<image, imageLoad>>
  /\ BlameImages({})

(* save() of the copy with isPrimary set.                                   *)
PromoteImage(s) ==
  /\ ImageAt(s, "promote")
  /\ image' = [image EXCEPT ![imageCall[s].id] = imageCall[s].row]
  /\ EndImage(s)
  /\ UNCHANGED imageLoad
  /\ BlameImages({})

-----------------------------------------------------------------------------
(* setPrimaryImage(product, image): find, demote all, save the copy.        *)
SetPrimaryImage(s, i) ==
  /\ i \in Images
  /\ StartImage(s, [pc |-> "demoteOthers", id |-> i,
                    row |-> [image[i] EXCEPT !.primary = TRUE]])
  /\ UNCHANGED <<image, imageLoad>>
  /\ BlameImages({})

DemoteOthers(s) ==
  /\ ImageAt(s, "demoteOthers")
  /\ image' = NotPrimary
  /\ GoOn(s, [imageCall[s] EXCEPT !.pc = "promote"])
  /\ UNCHANGED imageLoad
  /\ BlameImages({})

-----------------------------------------------------------------------------
(* reorderImages(product, ids): one UPDATE per id, all started together.    *)
ReorderImages(s) ==
  /\ imageLoad.reorder
  /\ \E ids \in SUBSET Images \ {{}} :
       \E list \in SetToSeqs(ids) :
         StartImage(s, [pc |-> "reorder", list |-> list, todo |-> DOMAIN list])
  /\ UNCHANGED <<image, imageLoad>>
  /\ BlameImages({})

(* Mutant: positions start at 1 and the first image keeps its order.        *)
UpdateOrderFromOne(s) ==
  /\ ImageAt(s, "reorder")
  /\ \E n \in imageCall[s].todo :
       LET k == imageCall[s]
           i == k.list[n]
           left == k.todo \ {n}
       IN  /\ image' = IF i \in Images /\ n > 1
                       THEN [image EXCEPT ![i].order = n - 2] ELSE image
           /\ IF left = {} THEN EndImage(s) ELSE GoOn(s, [k EXCEPT !.todo = left])
           /\ UNCHANGED imageLoad
           /\ BlameImages(IF Images = ToSet(k.list) THEN {} ELSE {"partial"})

(* update({id}, {displayOrder: index}); an image that is gone is not found. *)
UpdateOrder(s) ==
  /\ ImageAt(s, "reorder")
  /\ \E n \in imageCall[s].todo :
       LET k == imageCall[s]
           i == k.list[n]
           left == k.todo \ {n}
       IN  /\ image' = IF i \in Images
                       THEN [image EXCEPT ![i].order = n - 1] ELSE image
           /\ IF left = {} THEN EndImage(s) ELSE GoOn(s, [k EXCEPT !.todo = left])
           /\ UNCHANGED imageLoad
           /\ BlameImages(IF Images = ToSet(k.list) THEN {} ELSE {"partial"})

(* One of them is refused, and the others go on.                            *)
UpdateOrderFails(s) ==
  /\ ImageAt(s, "reorder")
  /\ \E n \in imageCall[s].todo :
       LET k == imageCall[s]
           left == k.todo \ {n}
       IN  IF left = {} THEN EndImage(s) ELSE GoOn(s, [k EXCEPT !.todo = left])
  /\ UNCHANGED <<image, imageLoad>>
  /\ BlameImages({"partial"})

(* The next statement of a request is refused, or its process stops: what   *)
(* it wrote stays written.                                                  *)
ImageStops(s) ==
  /\ imageCall[s] # NoImageCall
  /\ EndImage(s)
  /\ UNCHANGED <<image, imageLoad>>
  /\ BlameImages(IF ImageAt(s, "reorder") THEN {"partial"} ELSE {"stopped"})

-----------------------------------------------------------------------------
ImageInit ==
  /\ image = [i \in ImageIds |-> NoImage]
  /\ imageCall = [s \in ImageSlots |-> NoImageCall]
  /\ imageLoad \in ImageLoads
  /\ imageFault = {}

ImageNext ==
  \E s \in imageLoad.slots :
    \/ ConfirmUpload(s)
    \/ AddImage(s)
    \/ DemoteAll(s)
    \/ InsertImage(s)
    \/ \E i \in ImageIds : DeleteImage(s, i)
    \/ RemoveImage(s)
    \/ FindNext(s)
    \/ PromoteImage(s)
    \/ \E i \in ImageIds : SetPrimaryImage(s, i)
    \/ DemoteOthers(s)
    \/ ReorderImages(s)
    \/ UpdateOrder(s)
    \/ UpdateOrderFails(s)
    \/ ImageStops(s)

ImageSpec == ImageInit /\ [][ImageNext]_imageVars

-----------------------------------------------------------------------------
(* With nothing in flight a product that has images has exactly one primary *)
(* image, unless requests overlapped, one stopped (as after it demoted the  *)
(* images, or before it promoted one), or addImage put in a first image     *)
(* that is not primary.  Deleting the primary image promotes another one.   *)
OnePrimaryImage ==
  ImagesBusy = {} /\ ~OnePrimary =>
    imageFault \cap {"overlap", "unchecked", "stopped"} # {}

(* Not even between two statements of a request, or where it stops, are     *)
(* there two primary images, if requests do not overlap.                    *)
NeverTwoPrimaries ==
  (\E i, j \in Primaries : i # j) => "overlap" \in imageFault

(* With nothing in flight no two images share a position, unless requests   *)
(* overlapped or a reorder reached some of the images only.                 *)
PositionsDiffer ==
  ImagesBusy = {} /\ ~OrdersDiffer => imageFault \cap {"overlap", "partial"} # {}

(* An upload never brings a product over MAX_IMAGES_PER_PRODUCT, unless     *)
(* requests overlapped or addImage, which does not count, came before.      *)
ImagesBounded ==
  Cardinality(Images) > MaxImages => imageFault \cap {"overlap", "unchecked"} # {}

(* The images of a product, whatever of confirmUpload, addImage,            *)
(* deleteImage, setPrimaryImage and reorderImages runs at a time: one is    *)
(* primary, never two, no two share a position, and the limit holds, save   *)
(* for the faults each part names.                                          *)
ImagesConsistent ==
  OnePrimaryImage /\ NeverTwoPrimaries /\ PositionsDiffer /\ ImagesBounded
=============================================================================
