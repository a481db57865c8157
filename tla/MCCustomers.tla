---------------------------- MODULE MCCustomers ----------------------------
(***************************************************************************)
(* Small instances of what surrounds the purchases of a customer, for TLC: *)
(* subscriptions, licences, the webhooks, sessions, credentials, the cart,  *)
(* the addresses, the administrators, the mails and the gateway's calls.    *)
(* As in MCCatalog they share no variable, and a behaviour moves one of     *)
(* them.                                                                    *)
(***************************************************************************)
EXTENDS Subscriptions, Sessions, Credentials, TwoFactor,
        AdminAccess, CartService, Addresses, Notifications, GatewayCalls, Licences,
        WebhookSystem, TLC

CONSTANTS s1, s2, l1, l2, o1, i1, d1, d2, d3, d4, box, key

VARIABLE part    \* the part this behaviour moves

customerVars ==
  <<subVars, sessVars, credVars, factorVars,
    adminVars, cartVars, addressVars, mailVars, callVars, licVars,
    webhookVars, part>>

(* A first payment in two deliveries at a time, and the sweep; a whole life *)
(* with stops; changes by its owner during deliveries; renewals; two        *)
(* subscriptions of a user who has no customer at Stripe yet.               *)
MCSubLoads ==
  {[handlers |-> {"create", "events", "sweep"},
    stripe |-> {"pay", "decline", "expire"}, subs |-> {1}, changes |-> 3,
    slots |-> {s1, s2}, customer |-> 1],
   [handlers |-> {"create", "cancel", "reactivate", "terms", "events", "die"},
    stripe |-> {"pay", "end"}, subs |-> {1}, changes |-> 4, slots |-> {s1},
    customer |-> 1],
   [handlers |-> {"create", "cancel", "reactivate", "events"},
    stripe |-> {"pay"}, subs |-> {1}, changes |-> 3, slots |-> {s1, s2},
    customer |-> 1],
   [handlers |-> {"create", "events", "sweep"}, stripe |-> {"pay", "renew"},
    subs |-> {1}, changes |-> 4, slots |-> {s1}, customer |-> 1],
   [handlers |-> {"create", "die"}, stripe |-> {"pay"}, subs |-> {1, 2},
    changes |-> 2, slots |-> {s1, s2}, customer |-> NoCustomer]}

(* Refreshes against a reset, against a logout, and against logins past the *)
(* cap; the clock; all changes of the row, with lost events; and each of    *)
(* them against the others.                                                 *)
MCSessLoads ==
  {[handlers |-> {"login", "refresh", "reset"}, verified |-> TRUE,
    tokens |-> 1..2, slots |-> {s1, s2}],
   [handlers |-> {"login", "refresh", "logout"}, verified |-> TRUE,
    tokens |-> 1..2, slots |-> {s1, s2}],
   [handlers |-> {"login", "refresh"}, verified |-> TRUE,
    tokens |-> 1..3, slots |-> {s1, s2}],
   [handlers |-> {"login", "reset"}, verified |-> TRUE,
    tokens |-> 1..3, slots |-> {s1, s2}],
   [handlers |-> {"login", "refresh", "logout", "cleanup", "die"}, verified |-> TRUE,
    tokens |-> 1..3, slots |-> {s1}],
   [handlers |-> {"login", "refresh", "profile", "password", "delete",
                  "status", "die"},
    verified |-> TRUE, tokens |-> 1..2, slots |-> {s1}],
   [handlers |-> {"login", "profile", "password", "delete", "verify"},
    verified |-> FALSE, tokens |-> 1..1, slots |-> {s1, s2}],
   [handlers |-> {"profile", "password", "delete", "status", "verify"},
    verified |-> FALSE, tokens |-> {}, slots |-> {s1, s2}]}

(* Registration with late answers, or stops; resets; both at a time; logins. *)
MCCredLoads ==
  {[handlers |-> {"register", "verify", "follow", "late"}, known |-> FALSE,
    links |-> 1..2, slots |-> {s1, s2}],
   [handlers |-> {"register", "verify", "follow", "die", "cleanup"},
    known |-> FALSE, links |-> 1..3, slots |-> {s1}],
   [handlers |-> {"reset", "follow", "late", "cleanup"}, known |-> TRUE,
    links |-> 1..2, slots |-> {s1, s2}],
   [handlers |-> {"reset", "verify", "register", "follow"}, known |-> FALSE,
    links |-> 1..3, slots |-> {s1, s2}],
   [handlers |-> {"login", "die"}, known |-> TRUE, links |-> {},
    slots |-> {s1, s2}]}

(* Guesses and codes at a time, or one after the other with stops.          *)
MCFactorLoads ==
  {[handlers |-> {"ask", "guess"}, codes |-> 1..2, slots |-> {s1, s2}],
   [handlers |-> {"ask", "guess", "die"}, codes |-> 1..3, slots |-> {s1}]}

(* Two who remove each other or sign in meanwhile; one alone; sessions; one *)
(* who is changed.                                                          *)
MCAdminLoads ==
  {[handlers |-> {"login", "manage"}, first |-> <<"super", "super">>,
    changes |-> {"deactivate", "delete"}, tokens |-> 1..2, slots |-> {s1, s2}],
   [handlers |-> {"login", "manage", "create"}, first |-> <<"super">>,
    changes |-> {"rename", "demote", "promote"}, tokens |-> 1..2,
    slots |-> {s1}],
   [handlers |-> {"login", "refresh", "logout"}, first |-> <<"super">>,
    changes |-> {}, tokens |-> 1..3, slots |-> {s1, s2}],
   [handlers |-> {"login", "refresh", "manage"},
    first |-> <<"super", "plain">>,
    changes |-> {"rename", "deactivate", "activate", "delete"},
    tokens |-> 1..3, slots |-> {s1}]}

(* Changes of a line at a time; a stock that changes; two lines merged; a   *)
(* guest who goes on during the merge; reminders, with stops, or with       *)
(* changes meanwhile.                                                       *)
MCCartLoads ==
  {[handlers |-> {"get", "add", "remove", "update"}, owners |-> {"user"},
    lines |-> {l1}, most |-> 2, slots |-> {s1, s2}],
   [handlers |-> {"get", "add", "update", "merge", "late", "stock"},
    owners |-> {"user", "guest"}, lines |-> {l1}, most |-> 2, slots |-> {s1}],
   [handlers |-> {"add", "merge", "remove"}, owners |-> {"user", "guest"},
    lines |-> {l1, l2}, most |-> 2, slots |-> {s1}],
   [handlers |-> {"get", "add", "merge", "expire"}, owners |-> {"guest"},
    lines |-> {l2}, most |-> 2, slots |-> {s1, s2}],
   [handlers |-> {"get", "add", "remove", "remind", "die"},
    owners |-> {"user"}, lines |-> {l1}, most |-> 1, slots |-> {s1}],
   [handlers |-> {"add", "remove", "remind"}, owners |-> {"user"},
    lines |-> {l1, l2}, most |-> 1, slots |-> {s1, s2}]}

(* One kind of default, with deletions and at a time; both kinds.           *)
MCAddressLoads ==
  {[handlers |-> {"create", "update", "delete"}, kinds |-> {"shipping"},
    slots |-> {s1, s2}],
   [handlers |-> {"create", "update"}, kinds |-> {"shipping", "billing"},
    slots |-> {s1}]}

(* Three deliveries of two payments of the order, the first one repeated.   *)
MCPaidEventOf == [d \in {1, 2, 3} |-> IF d = 3 THEN 2 ELSE 1]

(* One intent, paid and then refunded, and an event nobody handles; the     *)
(* payment is delivered twice.                                              *)
MCPaid     == [type |-> "succeeded", intent |-> i1]
MCRefunded == [type |-> "refunded", intent |-> i1]
MCOther    == [type |-> "other", intent |-> i1]
MCEvents   == {MCPaid, MCRefunded, MCOther}
MCEventOf  == (d1 :> MCPaid) @@ (d2 :> MCPaid) @@ (d3 :> MCRefunded) @@ (d4 :> MCOther)
MCOrderOf  == [e \in MCEvents |-> o1]

Parts == {"subscriptions", "sessions", "credentials", "factor",
          "admins", "cart", "addresses", "mails", "calls", "licences",
          "webhooks"}

CustomerInit ==
  /\ part \in Parts
  /\ SubInit
  /\ part # "subscriptions" => subLoad = CHOOSE l \in SubLoads : TRUE
  /\ SessInit
  /\ part # "sessions" => sessLoad = CHOOSE l \in SessLoads : TRUE
  /\ CredInit
  /\ part # "credentials" => credLoad = CHOOSE l \in CredLoads : TRUE
  /\ FactorInit
  /\ part # "factor" => factorLoad = CHOOSE l \in FactorLoads : TRUE
  /\ AdminInit
  /\ part # "admins" => adminLoad = CHOOSE l \in AdminLoads : TRUE
  /\ CartInit
  /\ part # "cart" => cartLoad = CHOOSE l \in CartLoads : TRUE
  /\ AddressInit
  /\ part # "addresses" => addressLoad = CHOOSE l \in AddressLoads : TRUE
  /\ MailInit
  /\ CallInit
  /\ part # "calls" => call = CHOOSE c \in AllCalls : TRUE
  /\ part # "calls" => valid
  /\ LicInit
  /\ WebhookInit

CustomerNext ==
  /\ UNCHANGED part
  /\ \/ /\ part = "subscriptions" /\ SubNext
        /\ UNCHANGED <<sessVars, credVars, factorVars, adminVars,
                       cartVars, addressVars, mailVars, callVars, licVars,
                       webhookVars>>
     \/ /\ part = "sessions" /\ SessNext
        /\ UNCHANGED <<subVars, credVars, factorVars, adminVars,
                       cartVars, addressVars, mailVars, callVars, licVars,
                       webhookVars>>
     \/ /\ part = "credentials" /\ CredNext
        /\ UNCHANGED <<subVars, sessVars, factorVars, adminVars,
                       cartVars, addressVars, mailVars, callVars, licVars,
                       webhookVars>>
     \/ /\ part = "factor" /\ FactorNext
        /\ UNCHANGED <<subVars, sessVars, credVars, adminVars,
                       cartVars, addressVars, mailVars, callVars, licVars,
                       webhookVars>>
     \/ /\ part = "admins" /\ AdminNext
        /\ UNCHANGED <<subVars, sessVars, credVars, factorVars,
                       cartVars, addressVars, mailVars, callVars, licVars,
                       webhookVars>>
     \/ /\ part = "cart" /\ CartNext
        /\ UNCHANGED <<subVars, sessVars, credVars, factorVars,
                       adminVars, addressVars, mailVars, callVars, licVars,
                       webhookVars>>
     \/ /\ part = "addresses" /\ AddressNext
        /\ UNCHANGED <<subVars, sessVars, credVars, factorVars,
                       adminVars, cartVars, mailVars, callVars, licVars,
                       webhookVars>>
     \/ /\ part = "mails" /\ MailNext
        /\ UNCHANGED <<subVars, sessVars, credVars, factorVars,
                       adminVars, cartVars, addressVars, callVars, licVars,
                       webhookVars>>
     \/ /\ part = "calls" /\ CallNext
        /\ UNCHANGED <<subVars, sessVars, credVars, factorVars,
                       adminVars, cartVars, addressVars, mailVars, licVars,
                       webhookVars>>
     \/ /\ part = "licences" /\ LicNext
        /\ UNCHANGED <<subVars, sessVars, credVars, factorVars,
                       adminVars, cartVars, addressVars, mailVars, callVars,
                       webhookVars>>
     \/ /\ part = "webhooks" /\ WebhookNext
        /\ UNCHANGED <<subVars, sessVars, credVars, factorVars,
                       adminVars, cartVars, addressVars, mailVars, callVars,
                       licVars>>

CustomerSpec == CustomerInit /\ [][CustomerNext]_customerVars

(* The state of the part that moves has its type.                           *)
CustomerTypeOK ==
  CASE part = "subscriptions" -> SubTypeOK
    [] part = "sessions" -> SessTypeOK
    [] part = "credentials" -> CredTypeOK
    [] part = "factor" -> FactorTypeOK
    [] part = "admins" -> AdminTypeOK
    [] part = "cart" -> CartsTypeOK
    [] part = "addresses" -> AddressTypeOK
    [] part = "mails" -> MailTypeOK
    [] part = "calls" -> CallTypeOK
    [] part = "licences" -> LicTypeOK
    [] part = "webhooks" -> WebhookTypeOK

(* What customers keep of their own: the cart with its copy, the addresses. *)
OwnDataConsistent == CartsConsistent /\ AddressesConsistent

(* What a step may never undo: a welcome is mailed once, a save that writes *)
(* back the row it read keeps what others changed, an administrator who is  *)
(* deactivated gets no new access, a merged cart keeps its lines, and what  *)
(* was removed is not brought back, save for the faults each part names.    *)
RowsKept ==
  /\ WelcomedOnce /\ UserRowKept /\ AdminRowKept /\ AccessFollowsRow
  /\ MergeKeepsLines /\ RemovedStaysRemoved /\ DeletedAddressStays
=============================================================================
