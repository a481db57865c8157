----------------------------- MODULE Addresses -----------------------------
(***************************************************************************)
(* The addresses of one user in user-service.  Each operation is a         *)
(* transaction at READ COMMITTED: every statement sees what was committed  *)
(* when it began, and nothing keeps two of them from reading the same.     *)
(***************************************************************************)
EXTENDS Naturals, FiniteSets

CONSTANTS
  AddressIds,   \* bounds the addresses ever created
  MaxAddresses, \* MAX_ADDRESSES_PER_USER
  AddressSlots, \* where transactions run
  AddressLoads, \* what one behaviour is made of: [handlers, kinds, slots]
  NoAddress

ASSUME AddressAssumption ==
  /\ MaxAddresses \in Nat /\ IsFiniteSet(AddressIds) /\ IsFiniteSet(AddressSlots)
  /\ \A l \in AddressLoads : l.slots \subseteq AddressSlots /\ l.kinds \subseteq {"shipping", "billing"}

VARIABLES
  address,      \* user-service: user_addresses, deleted ones remembered
  addressCall, addressLoad,
  addressFault  \* history: whether two transactions overlapped

addressVars == <<address, addressCall, addressLoad, addressFault>>

(* isDefaultShipping and isDefaultBilling.                                  *)
DefaultKinds == {"shipping", "billing"}
Address == [here : BOOLEAN, default : SUBSET DefaultKinds]

(* No row is a row.                                                         *)
ASSUME NoAddressAssumption == NoAddress \notin Address

AddressTypeOK ==
  /\ address \in [AddressIds -> Address \cup {NoAddress}]
  /\ DOMAIN addressCall = AddressSlots
  /\ addressLoad \in AddressLoads
  /\ addressFault \subseteq {"overlap"}

-----------------------------------------------------------------------------
NoAddressCall == [pc |-> "idle"]
AddressBusy == {s \in AddressSlots : addressCall[s] # NoAddressCall}
AddressAt(s, pc) == addressCall[s].pc = pc
Requested(h) == h \in addressLoad.handlers

Exists(a) == address[a] # NoAddress /\ address[a].here
Stored == {a \in AddressIds : Exists(a)}
Default(k) == {a \in Stored : k \in address[a].default}

AddressesInOrder == /\ Cardinality(Stored) <= MaxAddresses
                    /\ \A k \in DefaultKinds : Cardinality(Default(k)) <= 1

BlameAddress(marks) ==
  addressFault' = IF AddressBusy' = {} /\ AddressesInOrder' THEN {}
                  ELSE addressFault \cup marks \cup
                       IF Cardinality(AddressBusy') > 1 THEN {"overlap"} ELSE {}

BeginAddress(s, record) == /\ addressCall[s] = NoAddressCall
                           /\ addressCall' = [addressCall EXCEPT ![s] = record]
EndAddress(s) == addressCall' = [addressCall EXCEPT ![s] = NoAddressCall]

-----------------------------------------------------------------------------
(* Mutant: the limit may be passed by one.                                  *)
RoomAtLimit == Cardinality(Stored) <= MaxAddresses

Room == Cardinality(Stored) < MaxAddresses

(* create: the count, then the defaults it takes over are cleared.          *)
CreateAddress(s, a, kinds) ==
  /\ Requested("create")
  /\ address[a] = NoAddress
  /\ \A t \in AddressBusy : addressCall[t].id # a
  /\ Room
  /\ BeginAddress(s, [pc |-> "clear", id |-> a, todo |-> kinds, cleared |-> <<>>,
                      write |-> [here |-> TRUE, default |-> kinds]])
  /\ UNCHANGED <<address, addressLoad>>
  /\ BlameAddress({})

(* Mutant: a default is taken over without clearing the other.              *)
TakenOverNone(copy, on) == {}

(* update clears the defaults that are new to the address.                  *)
TakenOver(copy, on) == on \ copy.default

(* Mutant: an address that was deleted is updated like any other.           *)
FoundEver(a) == address[a] # NoAddress

Found(a) == Exists(a)

UpdateAddress(s, a, on, off) ==
  /\ Requested("update")
  /\ Found(a)
  /\ on \cap off = {}
  /\ BeginAddress(s, [pc |-> "clear", id |-> a, cleared |-> <<>>,
                      todo |-> TakenOver(address[a], on),
                      write |-> [here |-> TRUE,
                                 default |-> (address[a].default \cup on) \ off]])
  /\ UNCHANGED <<address, addressLoad>>
  /\ BlameAddress({})

(* UPDATE ... SET is_default = false WHERE is_default: the rows it finds,   *)
(* shipping before billing; others see it at the commit.                    *)
ClearDefault(s, k) ==
  /\ AddressAt(s, "clear")
  /\ LET c == addressCall[s]
     IN  /\ k \in c.todo
         /\ k = "billing" => "shipping" \notin c.todo
         /\ addressCall' = [addressCall EXCEPT
              ![s].todo = @ \ {k},
              ![s].cleared = [j \in DOMAIN @ \cup {k} |-> IF j = k THEN Default(k) ELSE @[j]]]
  /\ UNCHANGED <<address, addressLoad>>
  /\ BlameAddress({})

(* The address is saved, again if it was deleted, and all is committed.     *)
SaveAddress(s) ==
  /\ AddressAt(s, "clear") /\ addressCall[s].todo = {}
  /\ LET c == addressCall[s]
         dropped(a) == {k \in DOMAIN c.cleared : a \in c.cleared[k]}
     IN  address' = [a \in AddressIds |->
           IF a = c.id THEN c.write
           ELSE IF address[a] = NoAddress THEN NoAddress
           ELSE [address[a] EXCEPT !.default = @ \ dropped(a)]]
  /\ EndAddress(s)
  /\ UNCHANGED addressLoad
  /\ BlameAddress({})

(* Mutant: the flags of a deleted address are gone too early.               *)
DeleteFlags(a) ==
  /\ Requested("delete")
  /\ Exists(a)
  /\ address' = [address EXCEPT ![a] = [here |-> FALSE]]
  /\ UNCHANGED <<addressCall, addressLoad, addressFault>>

DeleteAddress(a) ==
  /\ Requested("delete")
  /\ Exists(a)
  /\ address' = [address EXCEPT ![a].here = FALSE]
  /\ UNCHANGED <<addressCall, addressLoad>>
  /\ BlameAddress(IF AddressBusy = {} THEN {} ELSE {"overlap"})

(* A deadlock victim, a failed statement or a stop: nothing was committed.  *)
RollBack(s) ==
  /\ s \in AddressBusy
  /\ EndAddress(s)
  /\ UNCHANGED <<address, addressLoad>>
  /\ BlameAddress({})

AddressInit ==
  /\ addressLoad \in AddressLoads
  /\ address = [a \in AddressIds |-> NoAddress]
  /\ addressCall = [s \in AddressSlots |-> NoAddressCall]
  /\ addressFault = {}

AddressNext ==
  \/ \E s \in addressLoad.slots :
       \/ \E a \in AddressIds, kinds \in SUBSET addressLoad.kinds : CreateAddress(s, a, kinds)
       \/ \E a \in AddressIds, on, off \in SUBSET addressLoad.kinds : UpdateAddress(s, a, on, off)
       \/ \E k \in DefaultKinds : ClearDefault(s, k)
       \/ SaveAddress(s)
       \/ RollBack(s)
  \/ \E a \in AddressIds : DeleteAddress(a)

AddressSpec == AddressInit /\ [][AddressNext]_addressVars

-----------------------------------------------------------------------------
(* A user has at most MAX_ADDRESSES_PER_USER addresses, unless two were     *)
(* created at a time: the count locks nothing.                              *)
AddressesBounded == Cardinality(Stored) > MaxAddresses => addressFault # {}

(* One address is the default of a kind, unless two transactions made       *)
(* another the default at a time, or a save restored what one had cleared.  *)
OneDefault ==
  (\E k \in DefaultKinds : Cardinality(Default(k)) > 1) => addressFault # {}

(* A deleted address stays deleted, unless an update had read it before:    *)
(* its save inserts the row again.                                          *)
DeletedAddressStays ==
  [][ \/ \A a \in AddressIds : address[a] # NoAddress /\ address'[a].here => address[a].here
      \/ addressFault # {} ]_addressVars

(* Addresses through requests at a time: the limit holds, and a kind of     *)
(* default is set on one address only.                                      *)
AddressesConsistent == AddressesBounded /\ OneDefault
=============================================================================
