---------------------------- MODULE Credentials ----------------------------
(***************************************************************************)
(* What one e-mail address can do before it has a session: register, ask   *)
(* for a link, follow it, and try passwords.  auth-service keeps the       *)
(* tokens of the links and the counter of failed logins; the account is a  *)
(* row of user-service, reached by calls that are timed out and retried.   *)
(***************************************************************************)
EXTENDS Naturals

CONSTANTS
  LinkIds,      \* bounds the tokens ever mailed, numbered
  MaxFailures,  \* LOGIN_LOCKOUT_MAX_ATTEMPTS
  CredSlots,    \* where calls run
  CredLoads,    \* what one behaviour is made of: records
                \* [handlers, known, links, slots]
  NoLink, NoAccount

VARIABLES
  account,      \* user-service: the row of the address
  link,         \* auth-service: the tokens, of both tables
  lastMail,     \* the token of the last mail of a kind
  failures,     \* Redis: login:fail:<address>
  misses,       \* history: wrong passwords in the window
  credCall,     \* the calls in flight
  credLoad,     \* the handlers of this behaviour
  credFault     \* history: what may have put them out of step

credVars == <<account, link, lastMail, failures, misses, credCall, credLoad,
              credFault>>

(* Calls that overlapped; an answer of user-service that came after its     *)
(* timeouts; a call that ended where it was.                                *)
CredFaults == {"overlap", "late", "died"}

Kinds == {"verify", "reset"}

(* A row of email_verification_tokens or password_reset_tokens; works       *)
(* counts how often it took effect.                                         *)
Link == [kind : Kinds, st : {"open", "used", "deleted"}, expired : BOOLEAN,
         mailed : BOOLEAN, works : 0..2]

Account == [verified : BOOLEAN]

ASSUME CredentialAssumption ==
  /\ LinkIds \subseteq Nat /\ MaxFailures \in Nat \ {0}
  /\ NoLink \notin LinkIds \cup Link /\ NoAccount \notin Account
  /\ \A l \in CredLoads : l.links \subseteq LinkIds /\ l.slots \subseteq CredSlots

(* A call: what it does next, the link it works on, and what it read.       *)
CredCalls ==
  [pc : {"idle", "compare"}]
    \cup [pc : {"create"}, left : 0..2]
    \cup [pc : {"delete", "insert"}, kind : Kinds]
    \cup [pc : {"mail"}, kind : Kinds, id : LinkIds]
    \cup [pc : {"apply", "use"}, id : LinkIds]
    \cup [pc : {"count"}, seen : 0..MaxFailures]

CredTypeOK ==
  /\ account \in Account \cup {NoAccount}
  /\ link \in [LinkIds -> Link \cup {NoLink}]
  /\ lastMail \in [Kinds -> LinkIds \cup {NoLink}]
  /\ failures \in 0..(MaxFailures + 1)
  /\ misses \in 0..(MaxFailures + 1)
  /\ credCall \in [CredSlots -> CredCalls]
  /\ credLoad \in CredLoads
  /\ credFault \subseteq CredFaults

-----------------------------------------------------------------------------
NoCredCall == [pc |-> "idle"]
CredBusy == {s \in CredSlots : credCall[s] # NoCredCall}
CredQuiet == CredBusy = {}
Asks(h) == h \in credLoad.handlers
CredAt(s, pc) == credCall[s].pc = pc
Spare == {i \in credLoad.links : link[i] = NoLink}

Open(k) == {i \in LinkIds : link[i] # NoLink /\ link[i].kind = k /\ link[i].st = "open"}

(* A mail whose link was taken away before it expired or was followed.      *)
Dead(i) == link[i].st = "deleted" /\ ~link[i].expired /\ link[i].works = 0

Unreached == account # NoAccount /\ ~account.verified /\ lastMail["verify"] = NoLink

CredInOrder ==
  /\ \A k \in Kinds : \A i, j \in Open(k) : i = j
  /\ \A k \in Kinds : lastMail[k] # NoLink => ~Dead(lastMail[k])
  /\ \A i \in LinkIds : link[i] # NoLink =>
       /\ link[i].works <= 1
       /\ link[i].st = "open" => link[i].works = 0
  /\ ~Unreached
  /\ failures = misses

BlameCred(marks) ==
  credFault' = IF CredQuiet' /\ CredInOrder' THEN {}
               ELSE credFault \cup marks
                    \cup IF \E s, t \in CredBusy' : s # t THEN {"overlap"} ELSE {}

BetweenCalls == IF CredQuiet THEN {} ELSE {"overlap"}

BeginCred(s, record) == /\ credCall[s] = NoCredCall
                        /\ credCall' = [credCall EXCEPT ![s] = record]
StepCred(s, record) == credCall' = [credCall EXCEPT ![s] = record]
EndCred(s) == credCall' = [credCall EXCEPT ![s] = NoCredCall]

-----------------------------------------------------------------------------
(* register: user-service inserts the address once and answers 409 when it  *)
(* is there.                                                                *)
Register(s) ==
  /\ Asks("register")
  /\ BeginCred(s, [pc |-> "create", left |-> 2])
  /\ UNCHANGED <<account, link, lastMail, failures, misses, credLoad>>
  /\ BlameCred({})

CreateAccount(s) ==
  /\ CredAt(s, "create")
  /\ IF account # NoAccount THEN EndCred(s) /\ UNCHANGED account
     ELSE /\ account' = [verified |-> FALSE]
          /\ StepCred(s, [pc |-> "insert", kind |-> "verify"])
  /\ UNCHANGED <<link, lastMail, failures, misses, credLoad>>
  /\ BlameCred({})

(* callUserService: after five seconds the call is made again, twice; what  *)
(* the first one did stays.                                                 *)
CreateTimesOut(s) ==
  /\ Asks("late")
  /\ CredAt(s, "create")
  /\ account' = IF account = NoAccount THEN [verified |-> FALSE] ELSE account
  /\ IF credCall[s].left = 0 THEN EndCred(s)
     ELSE StepCred(s, [credCall[s] EXCEPT !.left = @ - 1])
  /\ UNCHANGED <<link, lastMail, failures, misses, credLoad>>
  /\ BlameCred({"late"})

(* resendVerification of an account that is not verified, forgotPassword of *)
(* any.                                                                     *)
AskForLink(s, k) ==
  /\ Asks(k)
  /\ account # NoAccount
  /\ k = "verify" => ~account.verified
  /\ BeginCred(s, [pc |-> "delete", kind |-> k])
  /\ UNCHANGED <<account, link, lastMail, failures, misses, credLoad>>
  /\ BlameCred({})

Without(ids) == [i \in LinkIds |-> IF i \in ids THEN [link[i] EXCEPT !.st = "deleted"]
                                   ELSE link[i]]

(* Mutant: the tokens that were mailed before stay.                         *)
DeleteNone(s) ==
  /\ CredAt(s, "delete")
  /\ StepCred(s, [credCall[s] EXCEPT !.pc = "insert"])
  /\ UNCHANGED <<account, link, lastMail, failures, misses, credLoad>>
  /\ BlameCred({})

DeleteOpen(s) ==
  /\ CredAt(s, "delete")
  /\ link' = Without(Open(credCall[s].kind))
  /\ StepCred(s, [credCall[s] EXCEPT !.pc = "insert"])
  /\ UNCHANGED <<account, lastMail, failures, misses, credLoad>>
  /\ BlameCred({})

InsertLink(s) ==
  /\ CredAt(s, "insert")
  /\ \E i \in Spare :
       /\ \A j \in Spare : i <= j
       /\ link' = [link EXCEPT ![i] = [kind |-> credCall[s].kind, st |-> "open",
                                       expired |-> FALSE, mailed |-> FALSE,
                                       works |-> 0]]
       /\ StepCred(s, [pc |-> "mail", kind |-> credCall[s].kind, id |-> i])
  /\ UNCHANGED <<account, lastMail, failures, misses, credLoad>>
  /\ BlameCred({})

(* Mutant: a link is mailed once.                                           *)
MailFirst(s) ==
  /\ CredAt(s, "mail")
  /\ lastMail' = IF lastMail[credCall[s].kind] # NoLink THEN lastMail
                 ELSE [lastMail EXCEPT ![credCall[s].kind] = credCall[s].id]
  /\ link' = [link EXCEPT ![credCall[s].id].mailed = TRUE]
  /\ EndCred(s)
  /\ UNCHANGED <<account, failures, misses, credLoad>>
  /\ BlameCred({})

(* Mutant: only a reset is mailed.                                          *)
MailReset(s) ==
  /\ CredAt(s, "mail")
  /\ lastMail' = IF credCall[s].kind = "verify" THEN lastMail
                 ELSE [lastMail EXCEPT ![credCall[s].kind] = credCall[s].id]
  /\ link' = [link EXCEPT ![credCall[s].id].mailed = TRUE]
  /\ EndCred(s)
  /\ UNCHANGED <<account, failures, misses, credLoad>>
  /\ BlameCred({})

MailLink(s) ==
  /\ CredAt(s, "mail")
  /\ lastMail' = [lastMail EXCEPT ![credCall[s].kind] = credCall[s].id]
  /\ link' = [link EXCEPT ![credCall[s].id].mailed = TRUE]
  /\ EndCred(s)
  /\ UNCHANGED <<account, failures, misses, credLoad>>
  /\ BlameCred({})

-----------------------------------------------------------------------------
(* verifyEmail and resetPassword look the token up; the account exists.     *)
FollowLink(s, i) ==
  /\ Asks("follow")
  /\ link[i] # NoLink /\ link[i].mailed
  /\ link[i].st = "open" /\ ~link[i].expired
  /\ BeginCred(s, [pc |-> "apply", id |-> i])
  /\ UNCHANGED <<account, link, lastMail, failures, misses, credLoad>>
  /\ BlameCred({})

(* MARK_VERIFIED or UPDATE_PASSWORD_HASH, each one UPDATE.                  *)
Applied(i) ==
  /\ link' = [link EXCEPT ![i].works = IF @ = 2 THEN 2 ELSE @ + 1]
  /\ account' = [account EXCEPT !.verified = @ \/ link[i].kind = "verify"]

ApplyLink(s) ==
  /\ CredAt(s, "apply")
  /\ Applied(credCall[s].id)
  /\ StepCred(s, [credCall[s] EXCEPT !.pc = "use"])
  /\ UNCHANGED <<lastMail, failures, misses, credLoad>>
  /\ BlameCred({})

(* The third answer was late as well: a 503, and the token stays open.      *)
ApplyTimesOut(s) ==
  /\ Asks("late")
  /\ CredAt(s, "apply")
  /\ Applied(credCall[s].id)
  /\ EndCred(s)
  /\ UNCHANGED <<lastMail, failures, misses, credLoad>>
  /\ BlameCred({"late"})

(* Mutant: the token of a reset stays as it was.                            *)
UseVerification(s) ==
  /\ CredAt(s, "use")
  /\ link' = [link EXCEPT ![credCall[s].id].st = IF link[credCall[s].id].kind = "verify"
                                                 THEN "used" ELSE @]
  /\ EndCred(s)
  /\ UNCHANGED <<account, lastMail, failures, misses, credLoad>>
  /\ BlameCred({})

(* The copy is saved with verifiedAt or usedAt, also over a deletion.       *)
UseLink(s) ==
  /\ CredAt(s, "use")
  /\ link' = [link EXCEPT ![credCall[s].id].st = "used"]
  /\ EndCred(s)
  /\ UNCHANGED <<account, lastMail, failures, misses, credLoad>>
  /\ BlameCred({})

-----------------------------------------------------------------------------
(* validateUser with a wrong password or an unknown address: the counter is *)
(* checked, the password compared, the counter read and set.                *)
TryPassword(s) ==
  /\ Asks("login")
  /\ failures < MaxFailures
  /\ BeginCred(s, [pc |-> "compare"])
  /\ UNCHANGED <<account, link, lastMail, failures, misses, credLoad>>
  /\ BlameCred({})

Miss(s) ==
  /\ CredAt(s, "compare")
  /\ misses <= MaxFailures /\ failures <= MaxFailures      \* a bound
  /\ misses' = misses + 1
  /\ StepCred(s, [pc |-> "count", seen |-> failures])
  /\ UNCHANGED <<account, link, lastMail, failures, credLoad>>
  /\ BlameCred({})

(* Mutant: a miss counts twice.                                             *)
CountTwice(s) ==
  /\ CredAt(s, "count")
  /\ failures' = credCall[s].seen + 2
  /\ EndCred(s)
  /\ UNCHANGED <<account, link, lastMail, misses, credLoad>>
  /\ BlameCred({})

CountMiss(s) ==
  /\ CredAt(s, "count")
  /\ failures' = credCall[s].seen + 1
  /\ EndCred(s)
  /\ UNCHANGED <<account, link, lastMail, misses, credLoad>>
  /\ BlameCred({})

(* Mutant: a login leaves the counter.                                      *)
HitUncleared(s) ==
  /\ CredAt(s, "compare")
  /\ account # NoAccount /\ account.verified
  /\ misses' = 0
  /\ EndCred(s)
  /\ UNCHANGED <<account, link, lastMail, failures, credLoad>>
  /\ BlameCred({})

(* The right password of a verified account clears the counter.             *)
Hit(s) ==
  /\ CredAt(s, "compare")
  /\ account # NoAccount /\ account.verified
  /\ failures' = 0 /\ misses' = 0
  /\ EndCred(s)
  /\ UNCHANGED <<account, link, lastMail, credLoad>>
  /\ BlameCred({})

(* Fifteen minutes after the last miss the key is gone.                     *)
WindowEnds ==
  /\ failures > 0
  /\ failures' = 0 /\ misses' = 0
  /\ UNCHANGED <<account, link, lastMail, credCall, credLoad>>
  /\ BlameCred(BetweenCalls)

-----------------------------------------------------------------------------
(* A call ends where it is: its service stopped or a database failed.       *)
CallDies(s) ==
  /\ Asks("die")
  /\ s \in CredBusy
  /\ EndCred(s)
  /\ UNCHANGED <<account, link, lastMail, failures, misses, credLoad>>
  /\ BlameCred({"died"})

ExpireLink(i) ==
  /\ Asks("cleanup")
  /\ link[i] # NoLink /\ ~link[i].expired
  /\ link' = [link EXCEPT ![i].expired = TRUE]
  /\ UNCHANGED <<account, lastMail, failures, misses, credCall, credLoad>>
  /\ BlameCred({})

(* The hourly cleanup.                                                      *)
DeleteExpired ==
  /\ \E k \in Kinds : \E i \in Open(k) : link[i].expired
  /\ link' = Without({i \in Open("verify") \cup Open("reset") : link[i].expired})
  /\ UNCHANGED <<account, lastMail, failures, misses, credCall, credLoad>>
  /\ BlameCred(BetweenCalls)

CredInit ==
  /\ credLoad \in CredLoads
  /\ account = IF credLoad.known THEN [verified |-> TRUE] ELSE NoAccount
  /\ link = [i \in LinkIds |-> NoLink]
  /\ lastMail = [k \in Kinds |-> NoLink]
  /\ failures = 0 /\ misses = 0
  /\ credCall = [s \in CredSlots |-> NoCredCall]
  /\ credFault = {}

CredNext ==
  \/ \E s \in credLoad.slots :
       \/ Register(s) \/ CreateAccount(s) \/ CreateTimesOut(s)
       \/ \E k \in Kinds : AskForLink(s, k)
       \/ DeleteOpen(s) \/ InsertLink(s) \/ MailLink(s)
       \/ \E i \in LinkIds : FollowLink(s, i)
       \/ ApplyLink(s) \/ ApplyTimesOut(s) \/ UseLink(s)
       \/ TryPassword(s) \/ Miss(s) \/ CountMiss(s) \/ Hit(s)
       \/ CallDies(s)
  \/ \E i \in LinkIds : ExpireLink(i)
  \/ DeleteExpired
  \/ WindowEnds

CredSpec == CredInit /\ [][CredNext]_credVars

-----------------------------------------------------------------------------
(* A mailed link takes effect once, unless it was followed twice at a time, *)
(* or the step that marks it never ran.                                     *)
LinkWorksOnce ==
  (\E i \in LinkIds : link[i] # NoLink /\ link[i].works > 1) => credFault # {}

(* One link of a kind is open, unless two were asked for at a time.         *)
OneOpenLink ==
  (\E k \in Kinds : \E i, j \in Open(k) : i # j) => "overlap" \in credFault

(* With no call running, the link in the last mail works until it expires,  *)
(* unless two were asked for at a time or the new mail was never sent.      *)
LastMailWorks ==
  CredQuiet /\ (\E k \in Kinds : lastMail[k] # NoLink /\ Dead(lastMail[k]))
    => credFault \cap {"overlap", "died"} # {}

(* An account that is not verified was sent a link, unless the answer that  *)
(* created it was late (the retry gets a 409) or registration ended early.  *)
RegisteredIsMailed ==
  CredQuiet /\ Unreached => credFault \cap {"late", "died"} # {}

(* With no call running, the counter is the number of wrong passwords since *)
(* the last login or the last fifteen quiet minutes; in particular it stops *)
(* them at MAX, unless two logins overlapped or one ended before counting.  *)
CounterIsTrue ==
  CredQuiet /\ failures # misses => credFault \cap {"overlap", "died"} # {}

(* Mailed links and the lockout counter through lost, late and concurrent   *)
(* requests: a link works once, one is open per purpose, the last mail      *)
(* works, who registers is mailed, and failures are counted.                *)
CredentialsSafe ==
  /\ LinkWorksOnce /\ OneOpenLink /\ LastMailWorks
  /\ RegisteredIsMailed /\ CounterIsTrue
=============================================================================
