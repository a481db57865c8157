----------------------------- MODULE TwoFactor -----------------------------
(***************************************************************************)
(* The second factor of one administrator: codes are mailed at the login   *)
(* and on request, and guessed.  The newest row that is not used is the    *)
(* code in force; MAX_2FA_ATTEMPTS wrong guesses use it up.                *)
(***************************************************************************)
EXTENDS Naturals

CONSTANTS
  CodeIds,      \* bounds the codes, numbered in the order they are made
  MaxAttempts,  \* MAX_2FA_ATTEMPTS
  FactorSlots,  \* where calls run
  FactorLoads,  \* what one behaviour is made of: [handlers, codes, slots]
  NoCode

VARIABLES
  code,         \* auth-service: admin_2fa_codes
  lastCode,     \* the code of the last mail
  factorCall, factorLoad,
  factorFault   \* history: what may have put them out of step

factorVars == <<code, lastCode, factorCall, factorLoad, factorFault>>

FactorFaults == {"overlap", "died"}

(* wrong and right count the guesses that were answered.                    *)
Code == [st : {"open", "used", "deleted"}, expired : BOOLEAN,
         attempts : 0..MaxAttempts, wrong : 0..(MaxAttempts + 1), right : 0..2]

ASSUME FactorAssumption ==
  /\ CodeIds \subseteq Nat /\ MaxAttempts \in Nat \ {0}
  /\ NoCode \notin CodeIds \cup Code
  /\ \A l \in FactorLoads : l.codes \subseteq CodeIds /\ l.slots \subseteq FactorSlots

(* A call: what it does next, the code it works on, and what it read of it. *)
FactorCalls ==
  [pc : {"idle", "invalidate", "insert"}]
    \cup [pc : {"mail"}, id : CodeIds]
    \cup [pc : {"save"}, id : CodeIds, right : BOOLEAN, copy : 0..(MaxAttempts - 1)]

FactorTypeOK ==
  /\ code \in [CodeIds -> Code \cup {NoCode}]
  /\ lastCode \in CodeIds \cup {NoCode}
  /\ factorCall \in [FactorSlots -> FactorCalls]
  /\ factorLoad \in FactorLoads
  /\ factorFault \subseteq FactorFaults

-----------------------------------------------------------------------------
NoFactorCall == [pc |-> "idle"]
FactorBusy == {s \in FactorSlots : factorCall[s] # NoFactorCall}
FactorAt(s, pc) == factorCall[s].pc = pc
Can(h) == h \in factorLoad.handlers
OpenCodes == {i \in CodeIds : code[i] # NoCode /\ code[i].st = "open"}
Lost(i) == code[i].st = "deleted" /\ ~code[i].expired /\ code[i].right = 0
           /\ code[i].wrong < MaxAttempts

FactorInOrder ==
  /\ \A i, j \in OpenCodes : i = j
  /\ lastCode # NoCode => ~Lost(lastCode)
  /\ \A i \in CodeIds : code[i] # NoCode =>
       /\ code[i].right <= 1
       /\ code[i].wrong <= MaxAttempts
       /\ code[i].st = "open" => code[i].wrong = code[i].attempts /\ code[i].right = 0

BlameFactor(marks) ==
  factorFault' = IF FactorBusy' = {} /\ FactorInOrder' THEN {}
                 ELSE factorFault \cup marks
                      \cup IF \E s, t \in FactorBusy' : s # t THEN {"overlap"}
                           ELSE {}

BeginFactor(s, record) == /\ factorCall[s] = NoFactorCall
                          /\ factorCall' = [factorCall EXCEPT ![s] = record]
StepFactor(s, record) == factorCall' = [factorCall EXCEPT ![s] = record]
EndFactor(s) == factorCall' = [factorCall EXCEPT ![s] = NoFactorCall]

-----------------------------------------------------------------------------
(* adminLogin with the right password, or resend2FA: createCode, then mail. *)
AskForCode(s) ==
  /\ Can("ask")
  /\ BeginFactor(s, [pc |-> "invalidate"])
  /\ UNCHANGED <<code, lastCode, factorLoad>>
  /\ BlameFactor({})

(* Mutant: the codes that expired are deleted, the others stay.             *)
InvalidateExpired(s) ==
  /\ FactorAt(s, "invalidate")
  /\ code' = [i \in CodeIds |-> IF i \in OpenCodes /\ code[i].expired
                                THEN [code[i] EXCEPT !.st = "deleted"] ELSE code[i]]
  /\ StepFactor(s, [pc |-> "insert"])
  /\ UNCHANGED <<lastCode, factorLoad>>
  /\ BlameFactor({})

InvalidatePrevious(s) ==
  /\ FactorAt(s, "invalidate")
  /\ code' = [i \in CodeIds |-> IF i \in OpenCodes
                                THEN [code[i] EXCEPT !.st = "deleted"] ELSE code[i]]
  /\ StepFactor(s, [pc |-> "insert"])
  /\ UNCHANGED <<lastCode, factorLoad>>
  /\ BlameFactor({})

InsertCode(s) ==
  /\ FactorAt(s, "insert")
  /\ \E i \in factorLoad.codes :
       /\ code[i] = NoCode /\ \A j \in factorLoad.codes : j < i => code[j] # NoCode
       /\ code' = [code EXCEPT ![i] = [st |-> "open", expired |-> FALSE,
                                       attempts |-> 0, wrong |-> 0, right |-> 0]]
       /\ StepFactor(s, [pc |-> "mail", id |-> i])
  /\ UNCHANGED <<lastCode, factorLoad>>
  /\ BlameFactor({})

(* Mutant: a second mail is not sent.                                       *)
MailOnce(s) ==
  /\ FactorAt(s, "mail")
  /\ lastCode' = IF lastCode = NoCode THEN factorCall[s].id ELSE lastCode
  /\ EndFactor(s)
  /\ UNCHANGED <<code, factorLoad>>
  /\ BlameFactor({})

MailCode(s) ==
  /\ FactorAt(s, "mail")
  /\ lastCode' = factorCall[s].id
  /\ EndFactor(s)
  /\ UNCHANGED <<code, factorLoad>>
  /\ BlameFactor({})

(* validateCode reads the newest open code; an expired one fails here.      *)
Guess(s, isRight) ==
  /\ Can("guess")
  /\ \E i \in OpenCodes :
       /\ \A j \in OpenCodes : j <= i
       /\ ~code[i].expired
       /\ code[i].wrong <= MaxAttempts /\ code[i].right < 2     \* a bound
       /\ BeginFactor(s, [pc |-> "save", id |-> i, right |-> isRight,
                          copy |-> code[i].attempts])
  /\ UNCHANGED <<code, lastCode, factorLoad>>
  /\ BlameFactor({})

(* Mutant: the attempts are counted and compared with nothing.              *)
Endless(n) == "open"

(* Mutant: the last attempt is one too many.                                *)
UsedUpLate(n) == IF n > MaxAttempts THEN "used" ELSE "open"

UsedUp(n) == IF n >= MaxAttempts THEN "used" ELSE "open"

(* Mutant: a right guess leaves the row.                                    *)
AnsweredOpen(row, isRight, n) ==
  IF isRight THEN [row EXCEPT !.right = IF @ = 2 THEN 2 ELSE @ + 1]
  ELSE [row EXCEPT !.st = UsedUp(n + 1), !.attempts = n + 1,
                   !.wrong = IF @ > MaxAttempts THEN @ ELSE @ + 1]

(* The row that was read is saved, also over a newer count or a deletion:   *)
(* used after the right guess, one more attempt after a wrong one.          *)
Answered(row, isRight, n) ==
  [st |-> IF isRight THEN "used" ELSE UsedUp(n + 1),
   expired |-> row.expired,
   attempts |-> IF isRight THEN n ELSE n + 1,
   wrong |-> IF isRight \/ row.wrong > MaxAttempts THEN row.wrong ELSE row.wrong + 1,
   right |-> IF isRight /\ row.right < 2 THEN row.right + 1 ELSE row.right]

SaveCode(s) ==
  /\ FactorAt(s, "save")
  /\ LET k == factorCall[s]
     IN  code' = [code EXCEPT ![k.id] = Answered(@, k.right, k.copy)]
  /\ EndFactor(s)
  /\ UNCHANGED <<lastCode, factorLoad>>
  /\ BlameFactor({})

(* A call ends where it is: its service stopped or its database failed.     *)
FactorDies(s) ==
  /\ Can("die")
  /\ s \in FactorBusy
  /\ EndFactor(s)
  /\ UNCHANGED <<code, lastCode, factorLoad>>
  /\ BlameFactor({"died"})

-----------------------------------------------------------------------------
(* Codes live five minutes; the cleanup runs every five.                    *)
ExpireCode(i) ==
  /\ code[i] # NoCode /\ ~code[i].expired
  /\ \A j \in CodeIds : j < i => code[j].expired
  /\ code' = [code EXCEPT ![i].expired = TRUE]
  /\ UNCHANGED <<lastCode, factorCall, factorLoad>>
  /\ BlameFactor({})

CleanupExpiredCodes ==
  /\ \E i \in OpenCodes : code[i].expired
  /\ code' = [i \in CodeIds |-> IF i \in OpenCodes /\ code[i].expired
                                THEN [code[i] EXCEPT !.st = "deleted"] ELSE code[i]]
  /\ UNCHANGED <<lastCode, factorCall, factorLoad>>
  /\ BlameFactor(IF FactorBusy = {} THEN {} ELSE {"overlap"})

FactorInit ==
  /\ factorLoad \in FactorLoads
  /\ code = [i \in CodeIds |-> NoCode]
  /\ lastCode = NoCode
  /\ factorCall = [s \in FactorSlots |-> NoFactorCall]
  /\ factorFault = {}

FactorNext ==
  \/ \E s \in factorLoad.slots :
       \/ AskForCode(s) \/ InvalidatePrevious(s) \/ InsertCode(s) \/ MailCode(s)
       \/ \E isRight \in BOOLEAN : Guess(s, isRight)
       \/ SaveCode(s)
       \/ FactorDies(s)
  \/ \E i \in CodeIds : ExpireCode(i)
  \/ CleanupExpiredCodes

FactorSpec == FactorInit /\ [][FactorNext]_factorVars

-----------------------------------------------------------------------------
(* A code takes at most MAX_2FA_ATTEMPTS wrong guesses, unless guesses      *)
(* overlapped each other or a new code.                                     *)
GuessesBounded ==
  (\E i \in CodeIds : code[i] # NoCode /\ code[i].wrong > MaxAttempts)
    => "overlap" \in factorFault

(* A code opens one session, with the same exception.                       *)
CodeWorksOnce ==
  (\E i \in CodeIds : code[i] # NoCode /\ code[i].right > 1)
    => "overlap" \in factorFault

(* One code is open, with the same exception.                               *)
OneOpenCode ==
  (\E i, j \in OpenCodes : i # j) => "overlap" \in factorFault

(* With no call running, the code of the last mail works until it expires,  *)
(* was right once or wrong too often, unless calls overlapped or the new    *)
(* code was never mailed.                                                   *)
LastCodeWorks ==
  FactorBusy = {} /\ lastCode # NoCode /\ Lost(lastCode)
    => factorFault \cap {"overlap", "died"} # {}

(* The second factor through guesses and codes at a time: guesses are       *)
(* bounded, a code works once, one is open, and the last one mailed works.  *)
FactorSafe ==
  GuessesBounded /\ CodeWorksOnce /\ OneOpenCode /\ LastCodeWorks
=============================================================================
