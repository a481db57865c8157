--------------------------- MODULE AccountProofs ---------------------------
(***************************************************************************)
(* What holds of the second factor, of mailed links and of the lockout     *)
(* counter for any number of codes, links, failures, attempts and calls;   *)
(* what a client may conclude from the gateway's answer, whatever becomes  *)
(* of the requests of the call; and which of the mails an event asks for   *)
(* are sent, for any number of attempts, of events and any prefetch.       *)
(***************************************************************************)
EXTENDS TwoFactor, Credentials, GatewayCalls, Notifications, Integers,
        SequenceTheorems, TLAPS

-----------------------------------------------------------------------------
(* The second factor.                                                       *)
(* The inductive invariant: while no calls overlapped, one runs at a time,  *)
(* what it holds is still so in the table, and the table is in order.       *)

Calm == "overlap" \notin factorFault

Solo == \A s, t \in FactorBusy : s = t

CallFits(s) ==
  /\ FactorAt(s, "insert") => OpenCodes = {}
  /\ FactorAt(s, "mail") => factorCall[s].id \in OpenCodes
  /\ FactorAt(s, "save") => /\ factorCall[s].id \in OpenCodes
                            /\ code[factorCall[s].id].attempts = factorCall[s].copy

CallsFit == \A s \in FactorSlots : CallFits(s)

CodeFits(i) ==
  code[i] # NoCode =>
    /\ code[i].right <= 1
    /\ code[i].wrong <= MaxAttempts
    /\ code[i].st = "open" => code[i].wrong = code[i].attempts /\ code[i].right = 0

CodesFit == /\ \A i, j \in OpenCodes : i = j
            /\ \A i \in CodeIds : CodeFits(i)

(* The code of the last mail is lost only while another is on its way.      *)
OnItsWay == \E s \in FactorSlots : FactorAt(s, "insert") \/ FactorAt(s, "mail")
LastFits == lastCode # NoCode /\ Lost(lastCode) => OnItsWay

CalmInv ==
  Calm => Solo /\ CallsFit /\ CodesFit /\ ("died" \notin factorFault => LastFits)

(* An open code has an attempt left, overlap or not.                        *)
OpenBelow == \A i \in OpenCodes : code[i].attempts < MaxAttempts

(* A call works on a code that was made.                                    *)
Made ==
  \A s \in FactorSlots :
    FactorAt(s, "mail") \/ FactorAt(s, "save") => code[factorCall[s].id] # NoCode

FactorInv == FactorTypeOK /\ OpenBelow /\ Made /\ CalmInv

(* What a step has to show: the conditions of CalmInv, if it is not blamed. *)
Fits == CallsFit /\ CodesFit

-----------------------------------------------------------------------------
(* The marks are taken away when no call runs and all is in order; else the *)
(* step owes the conditions only if it did not overlap.                     *)
LEMMA Blamed ==
  ASSUME FactorTypeOK', NEW marks, BlameFactor(marks),
         /\ Calm /\ "overlap" \notin marks /\ Solo' =>
              Fits' /\ ("died" \notin factorFault \cup marks => LastFits')
  PROVE  CalmInv'
<1>1. CASE FactorBusy' = {} /\ FactorInOrder'
  <2>1. Solo' /\ CallsFit'
    <3>1. \A s \in FactorSlots : factorCall'[s] = [pc |-> "idle"]
      BY <1>1 DEF FactorBusy, NoFactorCall
    <3> QED BY <1>1, <3>1 DEF Solo, CallsFit, CallFits, FactorAt
  <2>2. CodesFit' /\ LastFits'
    BY <1>1 DEF FactorInOrder, CodesFit, CodeFits, LastFits
  <2> QED BY <2>1, <2>2 DEF CalmInv
<1>2. CASE ~(FactorBusy' = {} /\ FactorInOrder')
  <2>1. /\ factorFault \cup marks \subseteq factorFault'
        /\ (\E s, t \in FactorBusy' : s # t) => "overlap" \in factorFault'
    BY <1>2 DEF BlameFactor
  <2>2. Calm' => Calm /\ "overlap" \notin marks /\ Solo'
    BY <2>1 DEF Calm, Solo
  <2> QED BY <2>1, <2>2 DEF CalmInv, Fits
<1> QED BY <1>1, <1>2

(* Types of what is read and written.                                       *)
LEMMA CallRecords ==
  ASSUME FactorTypeOK, NEW s \in FactorSlots
  PROVE  /\ FactorAt(s, "mail") => factorCall[s].id \in CodeIds
         /\ FactorAt(s, "save") => /\ factorCall[s].id \in CodeIds
                                   /\ factorCall[s].right \in BOOLEAN
                                   /\ factorCall[s].copy \in 0..(MaxAttempts - 1)
         /\ FactorAt(s, "invalidate") \/ FactorAt(s, "insert") \/ FactorAt(s, "mail")
              \/ FactorAt(s, "save") => s \in FactorBusy
  BY DEF FactorTypeOK, FactorCalls, FactorAt, FactorBusy, NoFactorCall

LEMMA Rows ==
  ASSUME FactorTypeOK, NEW i \in CodeIds, code[i] # NoCode
  PROVE  code[i] \in Code
  BY DEF FactorTypeOK

LEMMA AnsweredRow ==
  ASSUME NEW row \in Code, NEW right \in BOOLEAN, NEW n \in 0..(MaxAttempts - 1)
  PROVE  /\ Answered(row, right, n) \in Code
         /\ Answered(row, right, n).expired = row.expired
         /\ Answered(row, right, n).st \in {"open", "used"}
         /\ Answered(row, right, n).st = "open" =>
              /\ ~right /\ n + 1 < MaxAttempts
              /\ Answered(row, right, n).attempts = n + 1
         /\ right => /\ Answered(row, right, n).wrong = row.wrong
                     /\ row.right = 0 => Answered(row, right, n).right = 1
         /\ ~right => /\ Answered(row, right, n).right = row.right
                      /\ row.wrong = n => Answered(row, right, n).wrong = n + 1
<1>0. MaxAttempts \in Nat \ {0}
  BY FactorAssumption
<1>1. CASE right
  BY <1>0, <1>1 DEF Answered, Code
<1>2. CASE ~right
  <2>1. UsedUp(n + 1) \in {"open", "used"} /\ (UsedUp(n + 1) = "open" => n + 1 < MaxAttempts)
    BY <1>0 DEF UsedUp
  <2> QED BY <1>0, <1>2, <2>1 DEF Answered, Code
<1> QED BY <1>1, <1>2

-----------------------------------------------------------------------------
(* The slots beside the one that moves are idle if calls did not overlap.   *)
LEMMA OthersFit ==
  ASSUME NEW s \in FactorSlots, CallFits(s)',
         \A t \in FactorSlots : t # s => factorCall'[t] = NoFactorCall
  PROVE  CallsFit'
  BY DEF CallsFit, CallFits, FactorAt, NoFactorCall

LEMMA OthersIdle ==
  ASSUME NEW s \in FactorSlots,
         \A t \in FactorSlots : t # s => factorCall'[t] = factorCall[t],
         (Solo /\ s \in FactorBusy) \/ (Solo' /\ s \in FactorBusy')
  PROVE  \A t \in FactorSlots : t # s => factorCall'[t] = NoFactorCall
  BY DEF Solo, FactorBusy

(* Asking for a code, from the first step to the mail.                      *)
LEMMA AskKeeps ==
  ASSUME FactorInv, NEW s \in FactorSlots, AskForCode(s)
  PROVE  FactorInv'
<1> USE DEF FactorInv
<1>1. /\ UNCHANGED <<code, lastCode, factorLoad>> /\ BlameFactor({})
      /\ factorCall[s] = NoFactorCall /\ factorCall'[s] = [pc |-> "invalidate"]
      /\ \A t \in FactorSlots : t # s => factorCall'[t] = factorCall[t]
      /\ factorCall' \in [FactorSlots -> FactorCalls]
  BY DEF AskForCode, BeginFactor, FactorTypeOK, FactorCalls
<1>2. FactorTypeOK'
  BY <1>1 DEF FactorTypeOK, BlameFactor, FactorFaults
<1>3. OpenBelow' /\ Made'
  BY <1>1 DEF OpenBelow, OpenCodes, Made, FactorAt
<1>4. ASSUME Calm, Solo'
      PROVE  Fits' /\ ("died" \notin factorFault => LastFits')
  <2>1. CallFits(s)'
    BY <1>1 DEF CallFits, FactorAt
  <2>2. CallsFit'
    BY <1>1, <1>4, <2>1, OthersFit, OthersIdle DEF FactorBusy, NoFactorCall
  <2>3. CodesFit'
    BY <1>1, <1>4 DEF CalmInv, CodesFit, CodeFits, OpenCodes
  <2>4. "died" \notin factorFault => LastFits'
    BY <1>1, <1>4 DEF CalmInv, LastFits, Lost, OnItsWay, FactorAt, NoFactorCall
  <2> QED BY <2>2, <2>3, <2>4 DEF Fits
<1>5. CalmInv'
  BY <1>1, <1>2, <1>4, Blamed
<1> QED BY <1>2, <1>3, <1>5

LEMMA InvalidateKeeps ==
  ASSUME FactorInv, NEW s \in FactorSlots, InvalidatePrevious(s)
  PROVE  FactorInv'
<1> USE DEF FactorInv
<1>1. /\ UNCHANGED <<lastCode, factorLoad>> /\ BlameFactor({})
      /\ s \in FactorBusy /\ factorCall'[s] = [pc |-> "insert"]
      /\ \A t \in FactorSlots : t # s => factorCall'[t] = factorCall[t]
      /\ factorCall' \in [FactorSlots -> FactorCalls]
  BY CallRecords DEF InvalidatePrevious, StepFactor, FactorTypeOK, FactorCalls
<1>2. ASSUME NEW i \in CodeIds
      PROVE  /\ code[i] = NoCode => code'[i] = NoCode
             /\ code[i] # NoCode =>
                  /\ code'[i] \in Code /\ code'[i] # NoCode /\ code'[i].st # "open"
                  /\ code'[i].right = code[i].right /\ code'[i].wrong = code[i].wrong
  <2>1. code'[i] = IF i \in OpenCodes THEN [code[i] EXCEPT !.st = "deleted"] ELSE code[i]
    BY DEF InvalidatePrevious
  <2>2. CASE i \in OpenCodes
    <3>1. code[i] \in Code
      BY <2>2, Rows DEF OpenCodes
    <3>2. code'[i] \in Code /\ code'[i].st = "deleted"
          /\ code'[i].right = code[i].right /\ code'[i].wrong = code[i].wrong
      BY <2>1, <2>2, <3>1 DEF Code
    <3> QED BY <2>2, <3>2, FactorAssumption DEF OpenCodes
  <2>3. CASE i \notin OpenCodes
    BY <2>1, <2>3, Rows DEF OpenCodes
  <2> QED BY <2>2, <2>3
<1>3. FactorTypeOK'
  <2>1. code' \in [CodeIds -> Code \cup {NoCode}]
    BY <1>2 DEF InvalidatePrevious
  <2> QED BY <1>1, <2>1 DEF FactorTypeOK, BlameFactor, FactorFaults
<1>4. OpenCodes' = {}
  BY <1>2 DEF OpenCodes
<1>5. OpenBelow' /\ Made'
  <2>1. Made'
    BY <1>1, <1>2, CallRecords DEF Made, FactorAt
  <2> QED BY <1>4, <2>1 DEF OpenBelow
<1>6. ASSUME Calm, Solo'
      PROVE  Fits' /\ LastFits'
  <2>1. CallFits(s)'
    BY <1>1, <1>4 DEF CallFits, FactorAt
  <2>2. CallsFit'
    BY <1>1, <1>6, <2>1, OthersFit, OthersIdle DEF CalmInv
  <2>3. CodesFit'
    BY <1>2, <1>4, <1>6 DEF CalmInv, CodesFit, CodeFits
  <2>4. LastFits'
    BY <1>1 DEF LastFits, OnItsWay, FactorAt
  <2> QED BY <2>2, <2>3, <2>4 DEF Fits
<1>7. CalmInv'
  BY <1>1, <1>3, <1>6, Blamed
<1> QED BY <1>3, <1>5, <1>7

LEMMA InsertKeeps ==
  ASSUME FactorInv, NEW s \in FactorSlots, InsertCode(s)
  PROVE  FactorInv'
<1> USE DEF FactorInv
<1> DEFINE row == [st |-> "open", expired |-> FALSE, attempts |-> 0, wrong |-> 0,
                   right |-> 0]
<1>0. PICK i \in factorLoad.codes :
        /\ code[i] = NoCode /\ code' = [code EXCEPT ![i] = row]
        /\ StepFactor(s, [pc |-> "mail", id |-> i])
  BY DEF InsertCode
<1>1. /\ i \in CodeIds /\ row \in Code /\ row # NoCode
      /\ UNCHANGED <<lastCode, factorLoad>> /\ BlameFactor({})
      /\ FactorAt(s, "insert") /\ s \in FactorBusy
      /\ factorCall'[s] = [pc |-> "mail", id |-> i]
      /\ \A t \in FactorSlots : t # s => factorCall'[t] = factorCall[t]
      /\ factorCall' \in [FactorSlots -> FactorCalls]
  <2>1. i \in CodeIds
    BY FactorAssumption DEF FactorTypeOK
  <2>2. row \in Code
    BY FactorAssumption DEF Code
  <2>3. row # NoCode
    BY <2>2, FactorAssumption
  <2> QED BY <1>0, <2>1, <2>2, <2>3, CallRecords
          DEF InsertCode, StepFactor, FactorTypeOK, FactorCalls
<1>2. /\ code'[i] = row /\ code' \in [CodeIds -> Code \cup {NoCode}]
      /\ \A j \in CodeIds : j # i => code'[j] = code[j]
  BY <1>0, <1>1 DEF FactorTypeOK
<1> HIDE DEF row
<1>3. FactorTypeOK'
  BY <1>1, <1>2 DEF FactorTypeOK, BlameFactor, FactorFaults
<1>4. OpenCodes' = OpenCodes \cup {i}
  BY <1>1, <1>2 DEF OpenCodes, row
<1>5. OpenBelow' /\ Made'
  <2>1. OpenBelow'
    BY <1>0, <1>2, <1>4, FactorAssumption DEF OpenBelow, OpenCodes, row
  <2>2. Made'
    BY <1>1, <1>2, CallRecords DEF Made, FactorAt
  <2> QED BY <2>1, <2>2
<1>6. ASSUME Calm, Solo'
      PROVE  Fits' /\ LastFits'
  <2>1. OpenCodes = {}
    BY <1>1, <1>6 DEF CalmInv, CallsFit, CallFits
  <2>2. CallFits(s)'
    BY <1>1, <1>4 DEF CallFits, FactorAt
  <2>3. CallsFit'
    BY <1>1, <1>6, <2>2, OthersFit, OthersIdle DEF CalmInv
  <2>4. CodesFit'
    <3>1. CodeFits(i)'
      BY <1>2, FactorAssumption DEF CodeFits, row
    <3>2. \A j \in CodeIds : j # i => CodeFits(j)'
      BY <1>2, <1>6 DEF CalmInv, CodesFit, CodeFits
    <3> QED BY <1>4, <2>1, <3>1, <3>2 DEF CodesFit
  <2>5. LastFits'
    BY <1>1 DEF LastFits, OnItsWay, FactorAt
  <2> QED BY <2>3, <2>4, <2>5 DEF Fits
<1>7. CalmInv'
  BY <1>1, <1>3, <1>6, Blamed
<1> QED BY <1>3, <1>5, <1>7

LEMMA MailKeeps ==
  ASSUME FactorInv, NEW s \in FactorSlots, MailCode(s)
  PROVE  FactorInv'
<1> USE DEF FactorInv
<1>1. /\ UNCHANGED <<code, factorLoad>> /\ BlameFactor({})
      /\ FactorAt(s, "mail") /\ s \in FactorBusy
      /\ lastCode' = factorCall[s].id /\ lastCode' \in CodeIds
      /\ factorCall'[s] = NoFactorCall
      /\ \A t \in FactorSlots : t # s => factorCall'[t] = factorCall[t]
      /\ factorCall' \in [FactorSlots -> FactorCalls]
  BY CallRecords DEF MailCode, EndFactor, FactorTypeOK, FactorCalls, NoFactorCall
<1>2. FactorTypeOK'
  BY <1>1 DEF FactorTypeOK, BlameFactor, FactorFaults
<1>3. OpenBelow' /\ Made'
  BY <1>1 DEF OpenBelow, OpenCodes, Made, FactorAt, NoFactorCall
<1>4. ASSUME Calm, Solo'
      PROVE  Fits' /\ LastFits'
  <2>1. CallFits(s)'
    BY <1>1 DEF CallFits, FactorAt, NoFactorCall
  <2>2. CallsFit'
    BY <1>1, <1>4, <2>1, OthersFit, OthersIdle DEF CalmInv
  <2>3. CodesFit'
    BY <1>1, <1>4 DEF CalmInv, CodesFit, CodeFits, OpenCodes
  <2>4. lastCode' \in OpenCodes
    BY <1>1, <1>4 DEF CalmInv, CallsFit, CallFits
  <2>5. LastFits'
    BY <1>1, <2>4 DEF LastFits, Lost, OpenCodes
  <2> QED BY <2>2, <2>3, <2>5 DEF Fits
<1>5. CalmInv'
  BY <1>1, <1>2, <1>4, Blamed
<1> QED BY <1>2, <1>3, <1>5

(* A guess reads an open code; its answer is saved over the same row.       *)
LEMMA GuessKeeps ==
  ASSUME FactorInv, NEW s \in FactorSlots, NEW isRight \in BOOLEAN, Guess(s, isRight)
  PROVE  FactorInv'
<1> USE DEF FactorInv
<1>0. PICK i \in OpenCodes :
        BeginFactor(s, [pc |-> "save", id |-> i, right |-> isRight,
                        copy |-> code[i].attempts])
  BY DEF Guess
<1>1. /\ i \in CodeIds /\ code[i] # NoCode
      /\ UNCHANGED <<code, lastCode, factorLoad>> /\ BlameFactor({})
      /\ factorCall[s] = NoFactorCall
      /\ factorCall'[s] = [pc |-> "save", id |-> i, right |-> isRight,
                           copy |-> code[i].attempts]
      /\ \A t \in FactorSlots : t # s => factorCall'[t] = factorCall[t]
      /\ factorCall' \in [FactorSlots -> FactorCalls]
  <2>1. i \in CodeIds /\ code[i] # NoCode
    BY DEF OpenCodes
  <2>2. code[i].attempts \in 0..(MaxAttempts - 1)
    BY <2>1, Rows, FactorAssumption DEF Code, OpenBelow
  <2>3. [pc |-> "save", id |-> i, right |-> isRight, copy |-> code[i].attempts]
          \in FactorCalls
    BY <2>1, <2>2 DEF FactorCalls
  <2> QED BY <1>0, <2>1, <2>3 DEF Guess, BeginFactor, FactorTypeOK
<1>2. FactorTypeOK'
  BY <1>1 DEF FactorTypeOK, BlameFactor, FactorFaults
<1>3. OpenBelow' /\ Made'
  BY <1>1 DEF OpenBelow, OpenCodes, Made, FactorAt
<1>4. ASSUME Calm, Solo'
      PROVE  Fits' /\ ("died" \notin factorFault => LastFits')
  <2>1. CallFits(s)'
    BY <1>0, <1>1 DEF CallFits, FactorAt, OpenCodes
  <2>2. CallsFit'
    BY <1>1, <1>4, <2>1, OthersFit, OthersIdle DEF FactorBusy, NoFactorCall
  <2>3. CodesFit'
    BY <1>1, <1>4 DEF CalmInv, CodesFit, CodeFits, OpenCodes
  <2>4. "died" \notin factorFault => LastFits'
    BY <1>1, <1>4 DEF CalmInv, LastFits, Lost, OnItsWay, FactorAt, NoFactorCall
  <2> QED BY <2>2, <2>3, <2>4 DEF Fits
<1>5. CalmInv'
  BY <1>1, <1>2, <1>4, Blamed
<1> QED BY <1>2, <1>3, <1>5

LEMMA SaveCodeKeeps ==
  ASSUME FactorInv, NEW s \in FactorSlots, SaveCode(s)
  PROVE  FactorInv'
<1> USE DEF FactorInv
<1>a. PICK i \in CodeIds, right \in BOOLEAN, n \in 0..(MaxAttempts - 1) :
        i = factorCall[s].id /\ right = factorCall[s].right /\ n = factorCall[s].copy
  BY CallRecords DEF SaveCode
<1> DEFINE row == Answered(code[i], right, n)
<1>1. /\ i \in CodeIds /\ code[i] # NoCode /\ code[i] \in Code
      /\ right \in BOOLEAN /\ n \in 0..(MaxAttempts - 1)
      /\ UNCHANGED <<lastCode, factorLoad>> /\ BlameFactor({})
      /\ FactorAt(s, "save") /\ s \in FactorBusy
      /\ factorCall'[s] = NoFactorCall
      /\ \A t \in FactorSlots : t # s => factorCall'[t] = factorCall[t]
      /\ factorCall' \in [FactorSlots -> FactorCalls]
  BY <1>a, CallRecords, Rows
     DEF SaveCode, EndFactor, FactorTypeOK, FactorCalls, NoFactorCall, Made
<1>2. row \in Code /\ row # NoCode
  BY <1>1, AnsweredRow, FactorAssumption
<1>3. /\ code'[i] = row /\ code' \in [CodeIds -> Code \cup {NoCode}]
      /\ \A j \in CodeIds : j # i => code'[j] = code[j]
  BY <1>a, <1>1, <1>2 DEF SaveCode, FactorTypeOK
<1>4. /\ row.st \in {"open", "used"}
      /\ row.st = "open" => ~right /\ n + 1 < MaxAttempts /\ row.attempts = n + 1
      /\ right => row.wrong = code[i].wrong /\ (code[i].right = 0 => row.right = 1)
      /\ ~right => row.right = code[i].right /\ (code[i].wrong = n => row.wrong = n + 1)
  BY <1>1, AnsweredRow
<1> HIDE DEF row
<1>5. FactorTypeOK'
  BY <1>1, <1>3 DEF FactorTypeOK, BlameFactor, FactorFaults
<1>6. OpenBelow' /\ Made'
  <2>1. OpenBelow'
    BY <1>3, <1>4, FactorAssumption DEF OpenBelow, OpenCodes
  <2>2. Made'
    BY <1>1, <1>2, <1>3, CallRecords DEF Made, FactorAt, NoFactorCall
  <2> QED BY <2>1, <2>2
<1>7. ASSUME Calm, Solo'
      PROVE  Fits' /\ ("died" \notin factorFault => LastFits')
  <2>1. i \in OpenCodes /\ code[i].attempts = n /\ CodeFits(i)
    BY <1>a, <1>1, <1>7 DEF CalmInv, CallsFit, CallFits, CodesFit
  <2>2. code[i].wrong = n /\ code[i].right = 0
    BY <2>1 DEF OpenCodes, CodeFits
  <2>3. CallsFit'
    <3>1. CallFits(s)'
      BY <1>1 DEF CallFits, FactorAt, NoFactorCall
    <3> QED BY <1>1, <1>7, <3>1, OthersFit, OthersIdle DEF CalmInv
  <2>4. CodesFit'
    <3>1. CodeFits(i)'
      BY <1>1, <1>3, <1>4, <2>2, FactorAssumption DEF CodeFits
    <3>2. \A j \in CodeIds : j # i => CodeFits(j)'
      BY <1>3, <1>7 DEF CalmInv, CodesFit, CodeFits
    <3>3. OpenCodes' \subseteq OpenCodes
      BY <1>3, <2>1 DEF OpenCodes
    <3> QED BY <1>7, <3>1, <3>2, <3>3 DEF CalmInv, CodesFit
  <2>5. "died" \notin factorFault => LastFits'
    <3>1. ~OnItsWay
      BY <1>1, <1>7 DEF CalmInv, Solo, FactorBusy, OnItsWay, FactorAt, NoFactorCall
    <3>2. lastCode # NoCode => lastCode \in CodeIds
      BY DEF FactorTypeOK
    <3> QED BY <1>1, <1>3, <1>4, <1>7, <3>1, <3>2 DEF CalmInv, LastFits, Lost
  <2> QED BY <2>3, <2>4, <2>5 DEF Fits
<1>8. CalmInv'
  BY <1>1, <1>5, <1>7, Blamed
<1> QED BY <1>5, <1>6, <1>8

(* A call that stops leaves the table as it is and the blame behind.        *)
LEMMA DieKeeps ==
  ASSUME FactorInv, NEW s \in FactorSlots, FactorDies(s)
  PROVE  FactorInv'
<1> USE DEF FactorInv
<1>1. /\ UNCHANGED <<code, lastCode, factorLoad>> /\ BlameFactor({"died"})
      /\ s \in FactorBusy /\ factorCall'[s] = NoFactorCall
      /\ \A t \in FactorSlots : t # s => factorCall'[t] = factorCall[t]
      /\ factorCall' \in [FactorSlots -> FactorCalls]
  BY DEF FactorDies, EndFactor, FactorTypeOK, FactorCalls, NoFactorCall
<1>2. FactorTypeOK'
  BY <1>1 DEF FactorTypeOK, BlameFactor, FactorFaults
<1>3. OpenBelow' /\ Made'
  BY <1>1 DEF OpenBelow, OpenCodes, Made, FactorAt, NoFactorCall
<1>4. ASSUME Calm, Solo'
      PROVE  Fits'
  <2>1. CallFits(s)'
    BY <1>1 DEF CallFits, FactorAt, NoFactorCall
  <2>2. CallsFit'
    BY <1>1, <1>4, <2>1, OthersFit, OthersIdle DEF CalmInv
  <2>3. CodesFit'
    BY <1>1, <1>4 DEF CalmInv, CodesFit, CodeFits, OpenCodes
  <2> QED BY <2>2, <2>3 DEF Fits
<1>5. CalmInv'
  BY <1>1, <1>2, <1>4, Blamed
<1> QED BY <1>2, <1>3, <1>5

(* The clock: only the expiry of a row changes.                             *)
LEMMA ExpireKeeps ==
  ASSUME FactorInv, NEW i \in CodeIds, ExpireCode(i)
  PROVE  FactorInv'
<1> USE DEF FactorInv
<1>1. /\ UNCHANGED <<lastCode, factorCall, factorLoad>> /\ BlameFactor({})
      /\ code[i] # NoCode /\ code[i] \in Code
  BY Rows DEF ExpireCode
<1>2. ASSUME NEW j \in CodeIds
      PROVE  /\ code[j] = NoCode <=> code'[j] = NoCode
             /\ code[j] # NoCode =>
                  /\ code'[j] \in Code /\ code'[j].st = code[j].st
                  /\ code'[j].attempts = code[j].attempts
                  /\ code'[j].wrong = code[j].wrong /\ code'[j].right = code[j].right
                  /\ ~code'[j].expired => ~code[j].expired
  <2>1. CASE j = i
    <3>1. code'[i] = [code[i] EXCEPT !.expired = TRUE]
      BY DEF ExpireCode, FactorTypeOK
    <3> QED BY <1>1, <2>1, <3>1, FactorAssumption DEF Code
  <2>2. CASE j # i
    BY <2>2, Rows DEF ExpireCode, FactorTypeOK
  <2> QED BY <2>1, <2>2
<1>3. FactorTypeOK'
  <2>1. code' \in [CodeIds -> Code \cup {NoCode}]
    BY <1>2 DEF ExpireCode, FactorTypeOK
  <2> QED BY <1>1, <2>1 DEF FactorTypeOK, BlameFactor, FactorFaults
<1>4. OpenCodes' = OpenCodes
  BY <1>2 DEF OpenCodes
<1>5. OpenBelow' /\ Made'
  BY <1>1, <1>2, <1>4, CallRecords DEF OpenBelow, OpenCodes, Made, FactorAt
<1>6. ASSUME Calm, Solo'
      PROVE  Fits' /\ ("died" \notin factorFault => LastFits')
  <2>1. CallsFit'
    BY <1>1, <1>2, <1>4, <1>6, CallRecords
       DEF CalmInv, CallsFit, CallFits, FactorAt, OpenCodes
  <2>2. CodesFit'
    BY <1>2, <1>4, <1>6 DEF CalmInv, CodesFit, CodeFits
  <2>3. lastCode # NoCode /\ Lost(lastCode)' => Lost(lastCode)
    <3>1. CASE code[lastCode] = NoCode
      BY <1>1, <1>2, <3>1 DEF Lost, FactorTypeOK
    <3>2. CASE code[lastCode] # NoCode
      BY <1>1, <1>2, <3>2 DEF Lost, FactorTypeOK
    <3> QED BY <3>1, <3>2
  <2>4. OnItsWay => OnItsWay'
    BY <1>1 DEF OnItsWay, FactorAt
  <2>5. "died" \notin factorFault => LastFits'
    BY <1>1, <1>6, <2>3, <2>4 DEF CalmInv, LastFits
  <2> QED BY <2>1, <2>2, <2>5 DEF Fits
<1>7. CalmInv'
  BY <1>1, <1>3, <1>6, Blamed
<1> QED BY <1>3, <1>5, <1>7

(* The cleanup deletes expired codes; beside a call it counts as overlap.   *)
LEMMA CleanupKeeps ==
  ASSUME FactorInv, CleanupExpiredCodes
  PROVE  FactorInv'
<1> USE DEF FactorInv
<1> DEFINE marks == IF FactorBusy = {} THEN {} ELSE {"overlap"}
<1>1. UNCHANGED <<lastCode, factorCall, factorLoad>> /\ BlameFactor(marks)
  BY DEF CleanupExpiredCodes
<1>2. ASSUME NEW j \in CodeIds
      PROVE  /\ code[j] = NoCode => code'[j] = NoCode
             /\ code[j] # NoCode =>
                  /\ code'[j] \in Code /\ code'[j] # NoCode
                  /\ code'[j].st = "open" => code'[j] = code[j]
                  /\ code'[j].wrong = code[j].wrong /\ code'[j].right = code[j].right
                  /\ code'[j].expired = code[j].expired
                  /\ code'[j] = code[j] \/ code'[j].expired
  <2>1. code'[j] = IF j \in OpenCodes /\ code[j].expired
                   THEN [code[j] EXCEPT !.st = "deleted"] ELSE code[j]
    BY DEF CleanupExpiredCodes
  <2>2. CASE j \in OpenCodes /\ code[j].expired
    <3>1. code[j] \in Code
      BY <2>2, Rows DEF OpenCodes
    <3> QED BY <2>1, <2>2, <3>1, FactorAssumption DEF Code, OpenCodes
  <2>3. CASE ~(j \in OpenCodes /\ code[j].expired)
    BY <2>1, <2>3, Rows
  <2> QED BY <2>2, <2>3
<1>3. FactorTypeOK'
  <2>1. code' \in [CodeIds -> Code \cup {NoCode}]
    BY <1>2 DEF CleanupExpiredCodes
  <2> QED BY <1>1, <2>1 DEF FactorTypeOK, BlameFactor, FactorFaults
<1>4. OpenCodes' \subseteq OpenCodes
  BY <1>2 DEF OpenCodes
<1>5. OpenBelow' /\ Made'
  <2>1. OpenBelow'
    BY <1>2, <1>4 DEF OpenBelow, OpenCodes
  <2>2. Made'
    BY <1>1, <1>2, CallRecords DEF Made, FactorAt
  <2> QED BY <2>1, <2>2
<1>6. ASSUME Calm, "overlap" \notin marks
      PROVE  Fits' /\ ("died" \notin factorFault \cup marks => LastFits')
  <2>1. \A s \in FactorSlots : factorCall'[s] = [pc |-> "idle"]
    BY <1>1, <1>6 DEF FactorBusy, NoFactorCall
  <2>2. CallsFit'
    BY <2>1 DEF CallsFit, CallFits, FactorAt
  <2>3. CodesFit'
    BY <1>2, <1>4, <1>6 DEF CalmInv, CodesFit, CodeFits
  <2>4. ~OnItsWay
    BY <1>1, <2>1 DEF OnItsWay, FactorAt
  <2>5. lastCode # NoCode /\ Lost(lastCode)' => Lost(lastCode)
    <3>1. CASE code[lastCode] = NoCode
      BY <1>1, <1>2, <3>1 DEF Lost, FactorTypeOK
    <3>2. CASE code[lastCode] # NoCode
      BY <1>1, <1>2, <3>2 DEF Lost, FactorTypeOK
    <3> QED BY <3>1, <3>2
  <2>6. "died" \notin factorFault => LastFits'
    BY <1>1, <1>6, <2>4, <2>5 DEF CalmInv, LastFits
  <2> QED BY <2>2, <2>3, <2>6 DEF Fits
<1>7. CalmInv'
  <2> HIDE DEF marks
  <2> QED BY <1>1, <1>3, <1>6, Blamed
<1> QED BY <1>3, <1>5, <1>7

-----------------------------------------------------------------------------
LEMMA FactorInvInit == FactorInit => FactorInv
<1> SUFFICES ASSUME FactorInit PROVE FactorInv
  OBVIOUS
<1>1. FactorTypeOK
  BY DEF FactorInit, FactorTypeOK, FactorCalls, NoFactorCall, FactorFaults
<1>2. OpenCodes = {} /\ \A s \in FactorSlots : factorCall[s] = [pc |-> "idle"]
  BY DEF FactorInit, OpenCodes, NoFactorCall
<1>3. OpenBelow /\ Made
  BY <1>2 DEF OpenBelow, Made, FactorAt
<1>4. CalmInv
  BY <1>2 DEF FactorInit, CalmInv, Solo, FactorBusy, NoFactorCall, CallsFit, CallFits,
              FactorAt, CodesFit, CodeFits, LastFits
<1> QED BY <1>1, <1>3, <1>4 DEF FactorInv

LEMMA FactorInvKept == FactorInv /\ [FactorNext]_factorVars => FactorInv'
<1> SUFFICES ASSUME FactorInv, [FactorNext]_factorVars PROVE FactorInv'
  OBVIOUS
<1>1. factorLoad.slots \subseteq FactorSlots
  BY FactorAssumption DEF FactorInv, FactorTypeOK
<1>2. ASSUME NEW s \in factorLoad.slots,
             \/ AskForCode(s) \/ InvalidatePrevious(s) \/ InsertCode(s) \/ MailCode(s)
             \/ \E isRight \in BOOLEAN : Guess(s, isRight)
             \/ SaveCode(s) \/ FactorDies(s)
      PROVE  FactorInv'
  BY <1>1, <1>2, AskKeeps, InvalidateKeeps, InsertKeeps, MailKeeps, GuessKeeps,
     SaveCodeKeeps, DieKeeps
<1>3. ASSUME NEW i \in CodeIds, ExpireCode(i) PROVE FactorInv'
  BY <1>3, ExpireKeeps
<1>4. CASE CleanupExpiredCodes
  BY <1>4, CleanupKeeps
<1>5. CASE UNCHANGED factorVars
  BY <1>5 DEF factorVars, FactorInv, FactorTypeOK, OpenBelow, OpenCodes, Made, FactorAt,
              CalmInv, Calm, Solo, FactorBusy, CallsFit, CallFits, CodesFit, CodeFits,
              LastFits, Lost, OnItsWay
<1> QED BY <1>2, <1>3, <1>4, <1>5 DEF FactorNext

(* In order while calm is what FactorSafe says.                             *)
LEMMA FactorInvSafe == FactorInv => FactorSafe
<1> SUFFICES ASSUME FactorInv PROVE FactorSafe
  OBVIOUS
<1> USE DEF FactorInv
<1>1. Calm => CodesFit
  BY DEF CalmInv
<1>2. ASSUME Calm, NEW i \in CodeIds, code[i] # NoCode
      PROVE  ~(code[i].wrong > MaxAttempts) /\ ~(code[i].right > 1)
  <2>1. code[i].wrong <= MaxAttempts /\ code[i].right <= 1
    BY <1>1, <1>2 DEF CodesFit, CodeFits
  <2>2. code[i].wrong \in Nat /\ code[i].right \in Nat /\ MaxAttempts \in Nat
    BY <1>2, Rows, FactorAssumption DEF Code
  <2> QED BY <2>1, <2>2
<1>3. GuessesBounded /\ CodeWorksOnce
  BY <1>2 DEF GuessesBounded, CodeWorksOnce, Calm
<1>4. OneOpenCode
  BY <1>1 DEF OneOpenCode, CodesFit, Calm
<1>5. LastCodeWorks
  <2> SUFFICES ASSUME FactorBusy = {}, lastCode # NoCode, Lost(lastCode),
                      Calm, "died" \notin factorFault
               PROVE  FALSE
    BY DEF LastCodeWorks, Calm
  <2>1. OnItsWay
    BY DEF CalmInv, LastFits
  <2> QED BY <2>1, CallRecords DEF OnItsWay
<1> QED BY <1>3, <1>4, <1>5 DEF FactorSafe

(* The second factor is safe for every MAX_2FA_ATTEMPTS and any number of   *)
(* codes and calls: what goes wrong does so after calls overlapped, or, for *)
(* a code that was never mailed, after one stopped.                         *)
THEOREM FactorStaysSafe == FactorSpec => []FactorSafe
  BY FactorInvInit, FactorInvKept, FactorInvSafe, PTL DEF FactorSpec

-----------------------------------------------------------------------------
(* Mailed links and the lockout counter.                                    *)
CredCalm == "overlap" \notin credFault
OneCredCall == \A s, t \in CredBusy : s = t

(* A link of kind k is on its way to the mail.                              *)
Mailing(k) ==
  \E s \in CredSlots : (CredAt(s, "insert") \/ CredAt(s, "mail")) /\ credCall[s].kind = k

(* Whatever overlaps: links and calls about them are of an account that is  *)
(* there, a call works on a link that was made, a mail is of its kind.      *)
CredMade ==
  /\ \A i \in LinkIds : link[i] # NoLink => account # NoAccount
  /\ \A s \in CredSlots : CredAt(s, "delete") \/ CredAt(s, "insert") => account # NoAccount
  /\ \A s \in CredSlots : CredAt(s, "mail") =>
       link[credCall[s].id] # NoLink /\ link[credCall[s].id].kind = credCall[s].kind
  /\ \A s \in CredSlots : CredAt(s, "apply") \/ CredAt(s, "use") =>
       link[credCall[s].id] # NoLink
  /\ \A k \in Kinds : lastMail[k] # NoLink =>
       link[lastMail[k]] # NoLink /\ link[lastMail[k]].kind = k

(* Whatever overlaps: an account nobody wrote to has a link on its way.     *)
Reached ==
  "late" \notin credFault /\ "died" \notin credFault /\ Unreached => Mailing("verify")

(* While calls do not overlap: a call that inserts has deleted what was     *)
(* open, the link it mails is open, and one of a kind is.                   *)
LinkCallFits(s) ==
  /\ CredAt(s, "insert") => Open(credCall[s].kind) = {}
  /\ CredAt(s, "mail") => credCall[s].id \in Open(credCall[s].kind)
LinkCallsFit == \A s \in CredSlots : LinkCallFits(s)
OneOpen == \A k \in Kinds : \A i, j \in Open(k) : i = j

(* Nor did one stop: the link of the last mail is dead only while the next  *)
(* is on its way, and a miss is uncounted only while its call counts it.    *)
LastMailFits ==
  \A k \in Kinds : lastMail[k] # NoLink /\ Dead(lastMail[k]) => Mailing(k)
Counting == \E s \in CredSlots : CredAt(s, "count")
CountFits ==
  /\ ~Counting => failures = misses
  /\ \A s \in CredSlots : CredAt(s, "count") =>
       credCall[s].seen = failures /\ misses = failures + 1

(* And no answer was late: an open link took no effect, but for the one     *)
(* whose call is about to mark it.                                          *)
Marking(i) == \E s \in CredSlots : CredAt(s, "use") /\ credCall[s].id = i
WorksFit ==
  /\ \A i \in LinkIds : link[i] # NoLink =>
       link[i].works <= 1 /\ (link[i].st = "open" => link[i].works = 0 \/ Marking(i))
  /\ \A s \in CredSlots : CredAt(s, "apply") =>
       link[credCall[s].id].st = "open" /\ link[credCall[s].id].works = 0

CredCalmInv ==
  CredCalm =>
    /\ OneCredCall /\ LinkCallsFit /\ OneOpen
    /\ "died" \notin credFault => LastMailFits /\ CountFits
    /\ credFault = {} => WorksFit

CredInv == CredTypeOK /\ CredMade /\ Reached /\ CredCalmInv

-----------------------------------------------------------------------------
(* The marks are taken away when no call runs and all is in order; else a   *)
(* step owes what its own marks do not excuse.                              *)
LEMMA CredBlamed ==
  ASSUME CredTypeOK', NEW marks, BlameCred(marks),
         /\ "late" \notin credFault \cup marks /\ "died" \notin credFault \cup marks
            /\ Unreached' => Mailing("verify")',
         CredCalm /\ "overlap" \notin marks /\ OneCredCall' =>
           /\ LinkCallsFit' /\ OneOpen'
           /\ "died" \notin credFault \cup marks => LastMailFits' /\ CountFits'
           /\ credFault = {} /\ marks = {} => WorksFit'
  PROVE  Reached' /\ CredCalmInv'
<1>1. CASE CredQuiet' /\ CredInOrder'
  <2>1. \A s \in CredSlots : credCall'[s] = [pc |-> "idle"]
    BY <1>1 DEF CredQuiet, CredBusy, NoCredCall
  <2>2. OneCredCall' /\ LinkCallsFit'
    BY <1>1, <2>1 DEF CredQuiet, OneCredCall, LinkCallsFit, LinkCallFits, CredAt
  <2>3. OneOpen' /\ LastMailFits'
    BY <1>1 DEF CredInOrder, OneOpen, LastMailFits
  <2>4. CountFits'
    BY <1>1, <2>1 DEF CredInOrder, CountFits, CredAt
  <2>5. WorksFit'
    BY <1>1, <2>1 DEF CredInOrder, WorksFit, CredAt
  <2>6. Reached'
    BY <1>1 DEF CredInOrder, Reached
  <2> QED BY <2>2, <2>3, <2>4, <2>5, <2>6 DEF CredCalmInv
<1>2. CASE ~(CredQuiet' /\ CredInOrder')
  <2>1. credFault' = credFault \cup marks
                       \cup IF \E s, t \in CredBusy' : s # t THEN {"overlap"} ELSE {}
    BY <1>2 DEF BlameCred
  <2>2. CredCalm' => CredCalm /\ "overlap" \notin marks /\ OneCredCall'
    BY <2>1 DEF CredCalm, OneCredCall
  <2>3. credFault \cup marks \subseteq credFault'
    BY <2>1
  <2>4. CredCalmInv'
    BY <2>2, <2>3 DEF CredCalmInv
  <2>5. Reached'
    BY <2>3 DEF Reached
  <2> QED BY <2>4, <2>5
<1> QED BY <1>1, <1>2

(* Types of what is read and written.                                       *)
LEMMA CredRecords ==
  ASSUME CredTypeOK, NEW s \in CredSlots
  PROVE  /\ credCall[s] \in CredCalls
         /\ CredAt(s, "create") => credCall[s].left \in 0..2
         /\ CredAt(s, "delete") \/ CredAt(s, "insert") \/ CredAt(s, "mail") =>
              credCall[s].kind \in Kinds
         /\ CredAt(s, "mail") \/ CredAt(s, "apply") \/ CredAt(s, "use") =>
              credCall[s].id \in LinkIds
         /\ CredAt(s, "count") => credCall[s].seen \in 0..MaxFailures
         /\ ~CredAt(s, "idle") => s \in CredBusy
         /\ credCall[s] = NoCredCall => CredAt(s, "idle")
  BY DEF CredTypeOK, CredCalls, CredAt, CredBusy, NoCredCall

LEMMA LinkRows ==
  ASSUME CredTypeOK, NEW i \in LinkIds, link[i] # NoLink
  PROVE  link[i] \in Link
  BY DEF CredTypeOK

LEMMA OthersRest ==
  ASSUME NEW s \in CredSlots,
         \A t \in CredSlots : t # s => credCall'[t] = credCall[t],
         (OneCredCall /\ s \in CredBusy) \/ (OneCredCall' /\ s \in CredBusy')
  PROVE  \A t \in CredSlots : t # s =>
           credCall[t] = [pc |-> "idle"] /\ credCall'[t] = [pc |-> "idle"]
  BY DEF OneCredCall, CredBusy, NoCredCall

-----------------------------------------------------------------------------
(* Most steps change no link: one call goes on, with what it read.          *)
LEMMA CallOnly ==
  ASSUME CredInv, NEW s \in CredSlots, NEW r \in CredCalls, NEW marks \in SUBSET CredFaults,
         credCall' = [credCall EXCEPT ![s] = r], BlameCred(marks),
         UNCHANGED <<link, lastMail, credLoad>>,
         credCall[s] # NoCredCall \/ r # NoCredCall,
         account' \in Account \/ account' = account,
         failures' \in 0..(MaxFailures + 1), misses' \in 0..(MaxFailures + 1),
         account # NoAccount => account' # NoAccount,
         r.pc \in {"delete", "insert"} => account' # NoAccount,
         r.pc \notin {"mail", "use"},
         r.pc = "apply" => link[r.id] # NoLink /\ link[r.id].st = "open",
         CredMade /\ r.pc = "insert" => Open(r.kind) = {},
         "died" \in marks \/ ~(CredAt(s, "insert") \/ CredAt(s, "mail")),
         marks = {} => ~CredAt(s, "use"),
         "died" \notin marks /\ CountFits
           /\ (\A t \in CredSlots : t # s => ~CredAt(t, "count")) =>
             /\ r.pc = "count" => r.seen = failures' /\ misses' = failures' + 1
             /\ r.pc # "count" => failures' = misses',
         "late" \notin marks /\ "died" \notin marks /\ Unreached' =>
           Unreached \/ (r.pc = "insert" /\ r.kind = "verify")
  PROVE  CredInv'
<1> USE DEF CredInv
<1>1. /\ credCall' \in [CredSlots -> CredCalls] /\ credCall'[s] = r
      /\ \A t \in CredSlots : t # s => credCall'[t] = credCall[t]
      /\ CredAt(s, r.pc)'
  BY DEF CredTypeOK, CredAt
<1>2. CredTypeOK'
  BY <1>1 DEF CredTypeOK, BlameCred, CredFaults
<1>3. CredMade'
  <2>1. \A i \in LinkIds : link'[i] # NoLink => account' # NoAccount
    BY DEF CredMade
  <2>2. \A t \in CredSlots : CredAt(t, "delete")' \/ CredAt(t, "insert")' => account' # NoAccount
    BY <1>1 DEF CredMade, CredAt
  <2>3. \A t \in CredSlots : CredAt(t, "mail")' =>
          link'[credCall'[t].id] # NoLink /\ link'[credCall'[t].id].kind = credCall'[t].kind
    BY <1>1 DEF CredMade, CredAt
  <2>4. \A t \in CredSlots : CredAt(t, "apply")' \/ CredAt(t, "use")' =>
          link'[credCall'[t].id] # NoLink
    BY <1>1 DEF CredMade, CredAt
  <2>5. \A k \in Kinds : lastMail'[k] # NoLink =>
          link'[lastMail'[k]] # NoLink /\ link'[lastMail'[k]].kind = k
    BY DEF CredMade
  <2> QED BY <2>1, <2>2, <2>3, <2>4, <2>5 DEF CredMade
<1>4. ASSUME "late" \notin credFault \cup marks, "died" \notin credFault \cup marks, Unreached'
      PROVE  Mailing("verify")'
  <2>1. CASE Unreached
    <3>1. PICK t \in CredSlots : (CredAt(t, "insert") \/ CredAt(t, "mail"))
                                   /\ credCall[t].kind = "verify"
      BY <1>4, <2>1 DEF Reached, Mailing
    <3>2. t # s
      BY <1>4, <3>1
    <3> QED BY <1>1, <3>1, <3>2 DEF Mailing, CredAt
  <2>2. CASE r.pc = "insert" /\ r.kind = "verify"
    BY <1>1, <2>2 DEF Mailing, CredAt
  <2> QED BY <1>4, <2>1, <2>2
<1>5. ASSUME CredCalm, "overlap" \notin marks, OneCredCall'
      PROVE  /\ LinkCallsFit' /\ OneOpen'
             /\ "died" \notin credFault \cup marks => LastMailFits' /\ CountFits'
             /\ credFault = {} /\ marks = {} => WorksFit'
  <2>1. \A t \in CredSlots : t # s =>
          credCall[t] = [pc |-> "idle"] /\ credCall'[t] = [pc |-> "idle"]
    BY <1>1, <1>5, OthersRest DEF CredCalmInv, CredBusy
  <2>2. LinkCallsFit'
    <3>1. LinkCallFits(s)'
      BY <1>1 DEF LinkCallFits, CredAt, Open
    <3> QED BY <2>1, <3>1 DEF LinkCallsFit, LinkCallFits, CredAt
  <2>3. OneOpen'
    BY <1>5 DEF CredCalmInv, OneOpen, Open
  <2>4. ASSUME "died" \notin credFault \cup marks
        PROVE  LastMailFits' /\ CountFits'
    <3>1. LastMailFits /\ CountFits
      BY <1>5, <2>4 DEF CredCalmInv
    <3>2. \A k \in Kinds : ~Mailing(k)
      BY <2>1, <2>4 DEF Mailing, CredAt
    <3>3. LastMailFits'
      BY <3>1, <3>2 DEF LastMailFits, Dead
    <3>4. \A t \in CredSlots : t # s => ~CredAt(t, "count") /\ ~CredAt(t, "count")'
      BY <2>1 DEF CredAt
    <3>5. /\ r.pc = "count" => r.seen = failures' /\ misses' = failures' + 1
          /\ r.pc # "count" => failures' = misses'
      BY <2>4, <3>1, <3>4
    <3>6. CountFits'
      BY <1>1, <3>4, <3>5 DEF CountFits, Counting, CredAt
    <3> QED BY <3>3, <3>6
  <2>5. ASSUME credFault = {}, marks = {}
        PROVE  WorksFit'
    <3>1. WorksFit
      BY <1>5, <2>5 DEF CredCalmInv
    <3>2. \A i \in LinkIds : ~Marking(i)
      BY <2>1, <2>5 DEF Marking, CredAt
    <3>3. \A i \in LinkIds : link[i] # NoLink =>
            link[i].works <= 1 /\ (link[i].st = "open" => link[i].works = 0)
      BY <3>1, <3>2 DEF WorksFit
    <3>4. r.pc = "apply" => r.id \in LinkIds
      BY DEF CredCalls
    <3>5. \A t \in CredSlots : CredAt(t, "apply")' =>
            link'[credCall'[t].id].st = "open" /\ link'[credCall'[t].id].works = 0
      BY <1>1, <2>1, <3>3, <3>4 DEF CredAt
    <3> QED BY <3>3, <3>5 DEF WorksFit
  <2> QED BY <2>2, <2>3, <2>4, <2>5
<1>6. Reached' /\ CredCalmInv'
  BY <1>2, <1>4, <1>5, CredBlamed
<1> QED BY <1>2, <1>3, <1>6

(* The steps it is about.                                                   *)
LEMMA RegisterKeeps ==
  ASSUME CredInv, NEW s \in CredSlots, Register(s) \/ CreateAccount(s) \/ CreateTimesOut(s)
  PROVE  CredInv'
<1> USE DEF CredInv
<1>0. /\ NoCredCall \in CredCalls /\ {} \in SUBSET CredFaults
      /\ {"late"} \in SUBSET CredFaults
      /\ [verified |-> FALSE] \in Account /\ [verified |-> FALSE] # NoAccount
      /\ failures \in 0..(MaxFailures + 1) /\ misses \in 0..(MaxFailures + 1)
      /\ account \in Account \cup {NoAccount}
  <2>1. [verified |-> FALSE] \in Account
    BY DEF Account
  <2>2. NoCredCall \in CredCalls
    BY DEF NoCredCall, CredCalls
  <2> QED BY <2>1, <2>2, CredentialAssumption DEF CredTypeOK, CredFaults
<1>c. ~CredAt(s, "count") /\ CountFits
        /\ (\A t \in CredSlots : t # s => ~CredAt(t, "count")) => failures = misses
  BY DEF CountFits, Counting
<1>1. CASE Register(s)
  <2> DEFINE r == [pc |-> "create", left |-> 2]
  <2>1. /\ r \in CredCalls /\ r # NoCredCall /\ credCall[s] = NoCredCall
        /\ credCall' = [credCall EXCEPT ![s] = r] /\ BlameCred({})
        /\ UNCHANGED <<account, link, lastMail, failures, misses, credLoad>>
        /\ r.pc = "create"
    BY <1>1 DEF Register, BeginCred, CredCalls, NoCredCall
  <2>2. Unreached' => Unreached
    BY <2>1, CredRecords DEF Unreached
  <2>3. ~CredAt(s, "insert") /\ ~CredAt(s, "mail") /\ ~CredAt(s, "use") /\ ~CredAt(s, "count")
    BY <2>1 DEF CredAt, NoCredCall
  <2> HIDE DEF r
  <2> QED BY <1>0, <1>c, <2>1, <2>2, <2>3, CallOnly
<1>2. CASE CreateAccount(s)
  <2>1. /\ CredAt(s, "create") /\ credCall[s] # NoCredCall /\ BlameCred({})
        /\ UNCHANGED <<link, lastMail, failures, misses, credLoad>>
    BY <1>2 DEF CreateAccount, CredAt, NoCredCall
  <2>3. ~CredAt(s, "insert") /\ ~CredAt(s, "mail") /\ ~CredAt(s, "use") /\ ~CredAt(s, "count")
    BY <2>1 DEF CredAt
  <2>4. CASE account # NoAccount
    <3>1. account' = account /\ credCall' = [credCall EXCEPT ![s] = NoCredCall]
          /\ NoCredCall.pc = "idle" /\ (Unreached' => Unreached)
      BY <1>2, <2>4 DEF CreateAccount, EndCred, NoCredCall, Unreached
    <3> QED BY <1>0, <1>c, <2>1, <2>3, <3>1, CallOnly
  <2>5. CASE account = NoAccount
    <3> DEFINE r == [pc |-> "insert", kind |-> "verify"]
    <3>1. /\ r \in CredCalls /\ r.pc = "insert" /\ r.kind = "verify"
          /\ account' = [verified |-> FALSE] /\ credCall' = [credCall EXCEPT ![s] = r]
      BY <1>2, <2>5 DEF CreateAccount, StepCred, CredCalls, Kinds
    <3> HIDE DEF r
    <3>2. CredMade => Open("verify") = {}
      BY <2>5 DEF CredMade, Open
    <3> QED BY <1>0, <1>c, <2>1, <2>3, <3>1, <3>2, CallOnly
  <2> QED BY <2>4, <2>5
<1>3. CASE CreateTimesOut(s)
  <2> DEFINE r == IF credCall[s].left = 0 THEN NoCredCall
                  ELSE [credCall[s] EXCEPT !.left = @ - 1]
  <2>1. /\ CredAt(s, "create") /\ credCall[s] # NoCredCall /\ BlameCred({"late"})
        /\ UNCHANGED <<link, lastMail, failures, misses, credLoad>>
        /\ account' = IF account = NoAccount THEN [verified |-> FALSE] ELSE account
        /\ credCall' = [credCall EXCEPT ![s] = r]
    BY <1>3 DEF CreateTimesOut, CredAt, NoCredCall, EndCred, StepCred
  <2>2. r \in CredCalls /\ r.pc \in {"idle", "create"}
    <3>1. credCall[s] \in CredCalls /\ credCall[s].pc = "create"
      BY <2>1 DEF CredTypeOK, CredAt
    <3>2. credCall[s] \in [pc : {"create"}, left : 0..2]
      BY <3>1 DEF CredCalls
    <3>3. credCall[s].left # 0 => [credCall[s] EXCEPT !.left = @ - 1] \in [pc : {"create"}, left : 0..2]
      BY <3>2
    <3>4. credCall[s].left # 0 => [credCall[s] EXCEPT !.left = @ - 1].pc = "create"
      BY <3>2
    <3> QED BY <3>3, <3>4 DEF CredCalls, NoCredCall
  <2>3. ~CredAt(s, "insert") /\ ~CredAt(s, "mail") /\ ~CredAt(s, "use") /\ ~CredAt(s, "count")
    BY <2>1 DEF CredAt
  <2>4. account' \in Account /\ account' # NoAccount
    BY <1>0, <2>1
  <2> HIDE DEF r
  <2> QED BY <1>0, <1>c, <2>1, <2>2, <2>3, <2>4, CallOnly
<1> QED BY <1>1, <1>2, <1>3

LEMMA AskKeepsLinks ==
  ASSUME CredInv, NEW s \in CredSlots,
         \/ \E k \in Kinds : AskForLink(s, k)
         \/ \E i \in LinkIds : FollowLink(s, i)
         \/ TryPassword(s)
  PROVE  CredInv'
<1> USE DEF CredInv
<1>1. PICK r \in CredCalls :
        /\ credCall' = [credCall EXCEPT ![s] = r]
        /\ r.pc \in {"delete", "apply", "compare"}
        /\ r.pc = "delete" => account # NoAccount
        /\ r.pc = "apply" => link[r.id] # NoLink /\ link[r.id].st = "open"
  <2>1. ASSUME NEW k \in Kinds, AskForLink(s, k)
        PROVE  /\ [pc |-> "delete", kind |-> k] \in CredCalls /\ account # NoAccount
               /\ credCall' = [credCall EXCEPT ![s] = [pc |-> "delete", kind |-> k]]
    BY <2>1 DEF AskForLink, BeginCred, CredCalls
  <2>2. ASSUME NEW i \in LinkIds, FollowLink(s, i)
        PROVE  /\ [pc |-> "apply", id |-> i] \in CredCalls
               /\ link[i] # NoLink /\ link[i].st = "open"
               /\ credCall' = [credCall EXCEPT ![s] = [pc |-> "apply", id |-> i]]
    BY <2>2 DEF FollowLink, BeginCred, CredCalls
  <2>3. ASSUME TryPassword(s)
        PROVE  /\ [pc |-> "compare"] \in CredCalls
               /\ credCall' = [credCall EXCEPT ![s] = [pc |-> "compare"]]
    BY <2>3 DEF TryPassword, BeginCred, CredCalls
  <2> QED BY <2>1, <2>2, <2>3
<1>2. /\ UNCHANGED <<account, link, lastMail, failures, misses, credLoad>>
      /\ credCall[s] = NoCredCall /\ BlameCred({})
  BY DEF AskForLink, FollowLink, TryPassword, BeginCred
<1>3. /\ failures \in 0..(MaxFailures + 1) /\ misses \in 0..(MaxFailures + 1)
      /\ {} \in SUBSET CredFaults /\ r # NoCredCall
  BY <1>1 DEF CredTypeOK, NoCredCall
<1>4. ~CredAt(s, "insert") /\ ~CredAt(s, "mail") /\ ~CredAt(s, "use") /\ ~CredAt(s, "count")
  BY <1>2 DEF CredAt, NoCredCall
<1>5. CountFits /\ (\A t \in CredSlots : t # s => ~CredAt(t, "count")) => failures = misses
  BY <1>4 DEF CountFits, Counting
<1>6. Unreached' => Unreached
  BY <1>2 DEF Unreached
<1> QED BY <1>1, <1>2, <1>3, <1>4, <1>5, <1>6, CallOnly

(* A wrong password, its count, and the right one.                          *)
LEMMA PasswordKeeps ==
  ASSUME CredInv, NEW s \in CredSlots, Miss(s) \/ CountMiss(s) \/ Hit(s)
  PROVE  CredInv'
<1> USE DEF CredInv
<1>0. /\ failures \in 0..(MaxFailures + 1) /\ misses \in 0..(MaxFailures + 1)
      /\ 0 \in 0..(MaxFailures + 1) /\ MaxFailures \in Nat
      /\ {} \in SUBSET CredFaults /\ NoCredCall \in CredCalls /\ NoCredCall.pc = "idle"
  BY CredentialAssumption DEF CredTypeOK, NoCredCall, CredCalls
<1>1. /\ UNCHANGED <<account, link, lastMail, credLoad>> /\ BlameCred({})
      /\ CredAt(s, "compare") \/ CredAt(s, "count")
      /\ Unreached' => Unreached
  BY DEF Miss, CountMiss, Hit, Unreached
<1>2. /\ ~CredAt(s, "insert") /\ ~CredAt(s, "mail") /\ ~CredAt(s, "use")
      /\ credCall[s] # NoCredCall
  BY <1>1 DEF CredAt, NoCredCall
<1>3. CASE Miss(s)
  <2> DEFINE r == [pc |-> "count", seen |-> failures]
  <2>1. /\ failures <= MaxFailures /\ misses <= MaxFailures
        /\ misses' = misses + 1 /\ failures' = failures
        /\ credCall' = [credCall EXCEPT ![s] = r] /\ CredAt(s, "compare")
    BY <1>3 DEF Miss, StepCred
  <2>2. r \in CredCalls /\ r.pc = "count" /\ r.seen = failures
    BY <1>0, <2>1 DEF CredCalls
  <2>3. CountFits /\ (\A t \in CredSlots : t # s => ~CredAt(t, "count")) => failures = misses
    BY <2>1 DEF CountFits, Counting, CredAt
  <2>4. misses' \in 0..(MaxFailures + 1)
    BY <1>0, <2>1
  <2> HIDE DEF r
  <2> QED BY <1>0, <1>1, <1>2, <2>1, <2>2, <2>3, <2>4, CallOnly
<1>4. CASE CountMiss(s)
  <2>1. /\ failures' = credCall[s].seen + 1 /\ misses' = misses /\ CredAt(s, "count")
        /\ credCall' = [credCall EXCEPT ![s] = NoCredCall]
    BY <1>4 DEF CountMiss, EndCred
  <2>2. failures' \in 0..(MaxFailures + 1)
    BY <1>0, <2>1, CredRecords
  <2>3. CountFits => failures' = misses'
    BY <2>1 DEF CountFits
  <2> QED BY <1>0, <1>1, <1>2, <2>1, <2>2, <2>3, CallOnly
<1>5. CASE Hit(s)
  <2>1. /\ failures' = 0 /\ misses' = 0
        /\ credCall' = [credCall EXCEPT ![s] = NoCredCall]
    BY <1>5 DEF Hit, EndCred
  <2> QED BY <1>0, <1>1, <1>2, <2>1, CallOnly
<1> QED BY <1>3, <1>4, <1>5

LEMMA CallDiesKeeps ==
  ASSUME CredInv, NEW s \in CredSlots, CallDies(s)
  PROVE  CredInv'
<1> USE DEF CredInv
<1>1. /\ UNCHANGED <<account, link, lastMail, failures, misses, credLoad>>
      /\ BlameCred({"died"}) /\ credCall[s] # NoCredCall
      /\ credCall' = [credCall EXCEPT ![s] = NoCredCall]
  BY DEF CallDies, EndCred, CredBusy
<1>2. /\ failures \in 0..(MaxFailures + 1) /\ misses \in 0..(MaxFailures + 1)
      /\ {"died"} \in SUBSET CredFaults
      /\ NoCredCall \in CredCalls /\ NoCredCall.pc = "idle"
  BY DEF CredTypeOK, CredFaults, NoCredCall, CredCalls
<1> QED BY <1>1, <1>2, CallOnly

-----------------------------------------------------------------------------
(* The steps that change links: none goes, and none changes its kind.       *)
LinksStay ==
  /\ link' \in [LinkIds -> Link \cup {NoLink}]
  /\ \A i \in LinkIds : link[i] # NoLink =>
       link'[i] # NoLink /\ link'[i].kind = link[i].kind

LEMMA LinksMade ==
  ASSUME CredInv, NEW s \in CredSlots, NEW r \in CredCalls,
         credCall' = [credCall EXCEPT ![s] = r], LinksStay,
         account # NoAccount, account' # NoAccount,
         r.pc = "mail" => link'[r.id] # NoLink /\ link'[r.id].kind = r.kind,
         r.pc = "use" => link[r.id] # NoLink,
         r.pc # "apply",
         \A k \in Kinds : lastMail'[k] = lastMail[k] \/
           (lastMail'[k] \in LinkIds /\ link'[lastMail'[k]] # NoLink
              /\ link'[lastMail'[k]].kind = k)
  PROVE  /\ CredMade'
         /\ credCall' \in [CredSlots -> CredCalls] /\ credCall'[s] = r
         /\ \A t \in CredSlots : t # s => credCall'[t] = credCall[t]
<1> USE DEF CredInv
<1>1. /\ credCall' \in [CredSlots -> CredCalls] /\ credCall'[s] = r
      /\ \A t \in CredSlots : t # s => credCall'[t] = credCall[t]
  BY DEF CredTypeOK
<1>2. \A t \in CredSlots : CredAt(t, "mail")' =>
        link'[credCall'[t].id] # NoLink /\ link'[credCall'[t].id].kind = credCall'[t].kind
  BY <1>1, CredRecords DEF CredMade, CredAt, LinksStay
<1>3. \A t \in CredSlots : CredAt(t, "apply")' \/ CredAt(t, "use")' =>
        link'[credCall'[t].id] # NoLink
  <2>1. r.pc = "use" => r.id \in LinkIds
    BY DEF CredCalls
  <2> QED BY <1>1, <2>1, CredRecords DEF CredMade, CredAt, LinksStay
<1>4. \A k \in Kinds : lastMail'[k] # NoLink =>
        link'[lastMail'[k]] # NoLink /\ link'[lastMail'[k]].kind = k
  BY DEF CredMade, CredTypeOK, LinksStay
<1> QED BY <1>1, <1>2, <1>3, <1>4 DEF CredMade

LEMMA OthersLinkFit ==
  ASSUME NEW s \in CredSlots, LinkCallFits(s)',
         \A t \in CredSlots : t # s => credCall'[t] = [pc |-> "idle"]
  PROVE  LinkCallsFit'
  BY DEF LinkCallsFit, LinkCallFits, CredAt

(* No miss is being counted by a call that works on a link.                 *)
LEMMA CountStays ==
  ASSUME CountFits, UNCHANGED <<failures, misses>>,
         \A t \in CredSlots : ~CredAt(t, "count") /\ ~CredAt(t, "count")'
  PROVE  CountFits'
  BY DEF CountFits, Counting

LEMMA DeleteOpenKeeps ==
  ASSUME CredInv, NEW s \in CredSlots, DeleteOpen(s)
  PROVE  CredInv'
<1> USE DEF CredInv
<1>0. PICK k \in Kinds : k = credCall[s].kind
  BY CredRecords DEF DeleteOpen
<1> DEFINE r == [credCall[s] EXCEPT !.pc = "insert"]
<1>1. /\ CredAt(s, "delete") /\ s \in CredBusy /\ account # NoAccount
      /\ UNCHANGED <<account, lastMail, failures, misses, credLoad>> /\ BlameCred({})
      /\ credCall' = [credCall EXCEPT ![s] = r] /\ link' = Without(Open(k))
  BY <1>0, CredRecords DEF DeleteOpen, StepCred, CredMade, CredAt
<1>2. r \in CredCalls /\ r.pc = "insert" /\ r.kind = k
  BY <1>0, <1>1, CredRecords DEF CredCalls, CredAt
<1> HIDE DEF r
<1>3. ASSUME NEW i \in LinkIds
      PROVE  /\ link[i] = NoLink => link'[i] = NoLink
             /\ i \notin Open(k) => link'[i] = link[i]
             /\ link[i] # NoLink =>
                  /\ link'[i] \in Link /\ link'[i] # NoLink
                  /\ link'[i].kind = link[i].kind /\ link'[i].works = link[i].works
             /\ i \in Open(k) => link'[i].st = "deleted" /\ link'[i].kind = k
  <2>1. link'[i] = IF i \in Open(k) THEN [link[i] EXCEPT !.st = "deleted"] ELSE link[i]
    BY <1>1 DEF Without
  <2>2. CASE i \in Open(k)
    <3>1. link[i] \in Link /\ link[i] # NoLink /\ link[i].kind = k
      BY <2>2, LinkRows DEF Open
    <3> QED BY <2>1, <2>2, <3>1, CredentialAssumption DEF Link
  <2>3. CASE i \notin Open(k)
    BY <2>1, <2>3, LinkRows
  <2> QED BY <2>2, <2>3
<1>4. LinksStay
  BY <1>1, <1>3 DEF LinksStay, Without
<1>5. /\ CredMade' /\ credCall' \in [CredSlots -> CredCalls] /\ credCall'[s] = r
      /\ \A t \in CredSlots : t # s => credCall'[t] = credCall[t]
  BY <1>1, <1>2, <1>4, LinksMade
<1>6. CredTypeOK'
  BY <1>1, <1>4, <1>5 DEF CredTypeOK, BlameCred, CredFaults, LinksStay
<1>7. ASSUME "late" \notin credFault, "died" \notin credFault, Unreached'
      PROVE  Mailing("verify")'
  <2>1. Mailing("verify")
    BY <1>1, <1>7 DEF Unreached, Reached
  <2> QED BY <1>1, <1>5, <2>1 DEF Mailing, CredAt
<1>8. Open(k)' = {} /\ \A h \in Kinds : h # k => Open(h)' = Open(h)
  BY <1>3 DEF Open
<1>9. ASSUME CredCalm, OneCredCall'
      PROVE  /\ LinkCallsFit' /\ OneOpen'
             /\ "died" \notin credFault => LastMailFits' /\ CountFits'
             /\ credFault = {} => WorksFit'
  <2>1. \A t \in CredSlots : t # s =>
          credCall[t] = [pc |-> "idle"] /\ credCall'[t] = [pc |-> "idle"]
    BY <1>1, <1>5, <1>9, OthersRest DEF CredCalmInv
  <2>2. \A t \in CredSlots : credCall[t].pc \in {"idle", "delete"}
                               /\ credCall'[t].pc \in {"idle", "insert"}
    BY <1>1, <1>2, <1>5, <2>1 DEF CredAt
  <2>3. LinkCallsFit'
    <3>1. LinkCallFits(s)'
      BY <1>2, <1>5, <1>8 DEF LinkCallFits, CredAt
    <3> QED BY <2>1, <3>1, OthersLinkFit
  <2>4. OneOpen'
    BY <1>8, <1>9 DEF CredCalmInv, OneOpen
  <2>5. ASSUME "died" \notin credFault
        PROVE  LastMailFits' /\ CountFits'
    <3>1. LastMailFits /\ CountFits
      BY <1>9, <2>5 DEF CredCalmInv
    <3>2. \A h \in Kinds : ~Mailing(h)
      BY <2>2 DEF Mailing, CredAt
    <3>3. Mailing(k)'
      BY <1>2, <1>5 DEF Mailing, CredAt
    <3>4. ASSUME NEW h \in Kinds, h # k, lastMail[h] # NoLink
          PROVE  link'[lastMail[h]] = link[lastMail[h]]
      BY <1>3, <3>4 DEF CredMade, CredTypeOK, Open
    <3>5. LastMailFits'
      BY <1>1, <3>1, <3>2, <3>3, <3>4 DEF LastMailFits, Dead
    <3>6. CountFits'
      BY <1>1, <2>2, <3>1, CountStays DEF CredAt
    <3> QED BY <3>5, <3>6
  <2>6. ASSUME credFault = {}
        PROVE  WorksFit'
    <3>1. WorksFit
      BY <1>9, <2>6 DEF CredCalmInv
    <3>2. \A i \in LinkIds : ~Marking(i)
      BY <2>2 DEF Marking, CredAt
    <3> QED BY <1>3, <2>2, <3>1, <3>2 DEF WorksFit, CredAt
  <2> QED BY <2>3, <2>4, <2>5, <2>6
<1>10. Reached' /\ CredCalmInv'
  BY <1>1, <1>6, <1>7, <1>9, CredBlamed
<1> QED BY <1>5, <1>6, <1>10

LEMMA InsertLinkKeeps ==
  ASSUME CredInv, NEW s \in CredSlots, InsertLink(s)
  PROVE  CredInv'
<1> USE DEF CredInv
<1>0. PICK k \in Kinds : k = credCall[s].kind
  BY CredRecords DEF InsertLink
<1> DEFINE row == [kind |-> k, st |-> "open", expired |-> FALSE, mailed |-> FALSE,
                   works |-> 0]
<1>a. PICK i \in LinkIds :
        /\ link[i] = NoLink /\ link' = [link EXCEPT ![i] = row]
        /\ StepCred(s, [pc |-> "mail", kind |-> k, id |-> i])
  BY <1>0, CredentialAssumption DEF InsertLink, Spare, CredTypeOK
<1> DEFINE r == [pc |-> "mail", kind |-> k, id |-> i]
<1>1. /\ CredAt(s, "insert") /\ s \in CredBusy /\ account # NoAccount
      /\ UNCHANGED <<account, lastMail, failures, misses, credLoad>> /\ BlameCred({})
      /\ credCall' = [credCall EXCEPT ![s] = r]
  BY <1>a, CredRecords DEF InsertLink, StepCred, CredMade, CredAt
<1>2. /\ r \in CredCalls /\ r.pc = "mail" /\ r.kind = k /\ r.id = i
      /\ row \in Link /\ row # NoLink /\ row.kind = k /\ row.st = "open" /\ row.works = 0
  <2>1. row \in Link
    BY DEF Link
  <2> QED BY <2>1, CredentialAssumption DEF CredCalls
<1>3. /\ link'[i] = row /\ link' \in [LinkIds -> Link \cup {NoLink}]
      /\ \A j \in LinkIds : j # i => link'[j] = link[j]
  BY <1>a, <1>2 DEF CredTypeOK
<1> HIDE DEF r, row
<1>4. LinksStay
  BY <1>a, <1>3 DEF LinksStay
<1>5. /\ CredMade' /\ credCall' \in [CredSlots -> CredCalls] /\ credCall'[s] = r
      /\ \A t \in CredSlots : t # s => credCall'[t] = credCall[t]
  BY <1>1, <1>2, <1>3, <1>4, LinksMade
<1>6. CredTypeOK'
  BY <1>1, <1>3, <1>5 DEF CredTypeOK, BlameCred, CredFaults
<1>7. ASSUME "late" \notin credFault, "died" \notin credFault, Unreached'
      PROVE  Mailing("verify")'
  <2>1. Mailing("verify")
    BY <1>1, <1>7 DEF Unreached, Reached
  <2> QED BY <1>0, <1>2, <1>5, <2>1 DEF Mailing, CredAt
<1>8. Open(k)' = Open(k) \cup {i} /\ \A h \in Kinds : h # k => Open(h)' = Open(h)
  BY <1>a, <1>2, <1>3 DEF Open
<1>9. ASSUME CredCalm, OneCredCall'
      PROVE  /\ LinkCallsFit' /\ OneOpen'
             /\ "died" \notin credFault => LastMailFits' /\ CountFits'
             /\ credFault = {} => WorksFit'
  <2>1. \A t \in CredSlots : t # s =>
          credCall[t] = [pc |-> "idle"] /\ credCall'[t] = [pc |-> "idle"]
    BY <1>1, <1>5, <1>9, OthersRest DEF CredCalmInv
  <2>2. \A t \in CredSlots : credCall[t].pc \in {"idle", "insert"}
                               /\ credCall'[t].pc \in {"idle", "mail"}
    BY <1>1, <1>2, <1>5, <2>1 DEF CredAt
  <2>3. LinkCallsFit'
    <3>1. LinkCallFits(s)'
      BY <1>2, <1>5, <1>8 DEF LinkCallFits, CredAt
    <3> QED BY <2>1, <3>1, OthersLinkFit
  <2>4. OneOpen'
    <3>1. Open(k) = {}
      BY <1>0, <1>1, <1>9 DEF CredCalmInv, LinkCallsFit, LinkCallFits
    <3> QED BY <1>8, <1>9, <3>1 DEF CredCalmInv, OneOpen
  <2>5. ASSUME "died" \notin credFault
        PROVE  LastMailFits' /\ CountFits'
    <3>1. LastMailFits /\ CountFits
      BY <1>9, <2>5 DEF CredCalmInv
    <3>2. \A h \in Kinds : Mailing(h) => Mailing(h)'
      BY <1>0, <1>2, <1>5 DEF Mailing, CredAt
    <3>4. ASSUME NEW h \in Kinds, lastMail[h] # NoLink
          PROVE  link'[lastMail[h]] = link[lastMail[h]]
      BY <1>a, <1>3, <3>4 DEF CredMade, CredTypeOK
    <3>5. LastMailFits'
      BY <1>1, <3>1, <3>2, <3>4 DEF LastMailFits, Dead
    <3>6. CountFits'
      BY <1>1, <2>2, <3>1, CountStays DEF CredAt
    <3> QED BY <3>5, <3>6
  <2>6. ASSUME credFault = {}
        PROVE  WorksFit'
    <3>1. WorksFit
      BY <1>9, <2>6 DEF CredCalmInv
    <3>2. \A j \in LinkIds : ~Marking(j)
      BY <2>2 DEF Marking, CredAt
    <3> QED BY <1>2, <1>3, <2>2, <3>1, <3>2 DEF WorksFit, CredAt
  <2> QED BY <2>3, <2>4, <2>5, <2>6
<1>10. Reached' /\ CredCalmInv'
  BY <1>1, <1>6, <1>7, <1>9, CredBlamed
<1> QED BY <1>5, <1>6, <1>10

LEMMA MailLinkKeeps ==
  ASSUME CredInv, NEW s \in CredSlots, MailLink(s)
  PROVE  CredInv'
<1> USE DEF CredInv
<1>0. PICK k \in Kinds, i \in LinkIds : k = credCall[s].kind /\ i = credCall[s].id
  BY CredRecords DEF MailLink
<1>1. /\ CredAt(s, "mail") /\ s \in CredBusy
      /\ UNCHANGED <<account, failures, misses, credLoad>> /\ BlameCred({})
      /\ credCall' = [credCall EXCEPT ![s] = NoCredCall]
      /\ lastMail' = [lastMail EXCEPT ![k] = i]
      /\ link' = [link EXCEPT ![i].mailed = TRUE]
      /\ link[i] # NoLink /\ link[i].kind = k /\ account # NoAccount
  BY <1>0, CredRecords DEF MailLink, EndCred, CredMade, CredAt
<1>2. NoCredCall \in CredCalls /\ NoCredCall.pc = "idle"
  BY DEF NoCredCall, CredCalls
<1>3. /\ link'[i] \in Link /\ link'[i] # NoLink /\ link'[i].kind = k
      /\ link'[i].st = link[i].st /\ link'[i].works = link[i].works
      /\ \A j \in LinkIds : j # i => link'[j] = link[j]
      /\ link' \in [LinkIds -> Link \cup {NoLink}]
  <2>1. link[i] \in Link
    BY <1>1, LinkRows
  <2>2. [link[i] EXCEPT !.mailed = TRUE] \in Link
    BY <2>1 DEF Link
  <2>3. link'[i] = [link[i] EXCEPT !.mailed = TRUE]
    BY <1>1 DEF CredTypeOK
  <2>4. \A j \in LinkIds : j # i => link'[j] = link[j]
    BY <1>1 DEF CredTypeOK
  <2>5. link' \in [LinkIds -> Link \cup {NoLink}]
    BY <1>1, <2>2 DEF CredTypeOK
  <2> QED BY <1>1, <2>1, <2>2, <2>3, <2>4, <2>5, CredentialAssumption DEF Link
<1>4. LinksStay
  BY <1>1, <1>3 DEF LinksStay
<1>m. /\ lastMail' \in [Kinds -> LinkIds \cup {NoLink}] /\ lastMail'[k] = i
      /\ \A h \in Kinds : h # k => lastMail'[h] = lastMail[h]
  BY <1>1 DEF CredTypeOK
<1>5. /\ CredMade' /\ credCall' \in [CredSlots -> CredCalls] /\ credCall'[s] = NoCredCall
      /\ \A t \in CredSlots : t # s => credCall'[t] = credCall[t]
  BY <1>1, <1>2, <1>3, <1>4, <1>m, LinksMade
<1>6. CredTypeOK'
  BY <1>1, <1>3, <1>m, <1>5 DEF CredTypeOK, BlameCred, CredFaults
<1>7. ASSUME "late" \notin credFault, "died" \notin credFault, Unreached'
      PROVE  Mailing("verify")'
  <2>1. k # "verify"
    BY <1>7, <1>m, CredentialAssumption DEF Unreached, Kinds
  <2>2. Mailing("verify")
    BY <1>1, <1>7, <1>m, <2>1 DEF Unreached, Reached, Kinds
  <2> QED BY <1>0, <1>5, <2>1, <2>2 DEF Mailing, CredAt
<1>8. \A h \in Kinds : Open(h)' = Open(h)
  BY <1>1, <1>3 DEF Open
<1>9. ASSUME CredCalm, OneCredCall'
      PROVE  /\ LinkCallsFit' /\ OneOpen'
             /\ "died" \notin credFault => LastMailFits' /\ CountFits'
             /\ credFault = {} => WorksFit'
  <2>1. \A t \in CredSlots : t # s =>
          credCall[t] = [pc |-> "idle"] /\ credCall'[t] = [pc |-> "idle"]
    BY <1>1, <1>5, <1>9, OthersRest DEF CredCalmInv
  <2>2. \A t \in CredSlots : credCall[t].pc \in {"idle", "mail"}
                               /\ credCall'[t].pc = "idle"
    BY <1>1, <1>2, <1>5, <2>1 DEF CredAt
  <2>3. LinkCallsFit'
    BY <2>2 DEF LinkCallsFit, LinkCallFits, CredAt
  <2>4. OneOpen'
    BY <1>8, <1>9 DEF CredCalmInv, OneOpen
  <2>5. ASSUME "died" \notin credFault
        PROVE  LastMailFits' /\ CountFits'
    <3>1. LastMailFits /\ CountFits
      BY <1>9, <2>5 DEF CredCalmInv
    <3>2. \A h \in Kinds : h # k => ~Mailing(h)
      BY <1>0, <2>1 DEF Mailing, CredAt
    <3>3. ~Dead(lastMail[k])'
      <4>1. i \in Open(k)
        BY <1>0, <1>1, <1>9 DEF CredCalmInv, LinkCallsFit, LinkCallFits
      <4> QED BY <1>3, <1>m, <4>1 DEF Dead, Open
    <3>4. ASSUME NEW h \in Kinds, h # k, lastMail[h] # NoLink
          PROVE  link'[lastMail[h]] = link[lastMail[h]]
      BY <1>1, <1>3, <3>4 DEF CredMade, CredTypeOK
    <3>5. LastMailFits'
      BY <1>m, <3>1, <3>2, <3>3, <3>4 DEF LastMailFits, Dead
    <3>6. CountFits'
      BY <1>1, <2>2, <3>1, CountStays DEF CredAt
    <3> QED BY <3>5, <3>6
  <2>6. ASSUME credFault = {}
        PROVE  WorksFit'
    <3>1. WorksFit
      BY <1>9, <2>6 DEF CredCalmInv
    <3>2. \A j \in LinkIds : ~Marking(j)
      BY <2>2 DEF Marking, CredAt
    <3> QED BY <1>1, <1>3, <2>2, <3>1, <3>2 DEF WorksFit, CredAt
  <2> QED BY <2>3, <2>4, <2>5, <2>6
<1>10. Reached' /\ CredCalmInv'
  BY <1>1, <1>6, <1>7, <1>9, CredBlamed
<1> QED BY <1>5, <1>6, <1>10

(* The effect of a link: it works once more, and may verify the account.    *)
LEMMA AppliedRow ==
  ASSUME CredInv, NEW i \in LinkIds, link[i] # NoLink, Applied(i)
  PROVE  /\ link'[i] \in Link /\ link'[i] # NoLink /\ link'[i].kind = link[i].kind
         /\ link'[i].st = link[i].st /\ link'[i].works # 0
         /\ link[i].works = 0 => link'[i].works = 1
         /\ \A j \in LinkIds : j # i => link'[j] = link[j]
         /\ LinksStay
         /\ account # NoAccount /\ account' \in Account /\ account' # NoAccount
         /\ Unreached' /\ UNCHANGED lastMail => Unreached
         /\ \A h \in Kinds : Open(h)' = Open(h)
<1> USE DEF CredInv
<1>1. link[i] \in Link
  BY LinkRows
<1>2. link'[i] = [link[i] EXCEPT !.works = IF @ = 2 THEN 2 ELSE @ + 1]
      /\ \A j \in LinkIds : j # i => link'[j] = link[j]
  BY DEF Applied, CredTypeOK
<1>3. /\ link'[i] \in Link /\ link'[i].kind = link[i].kind
      /\ link'[i].st = link[i].st /\ link'[i].works # 0
      /\ link[i].works = 0 => link'[i].works = 1
  BY <1>1, <1>2 DEF Link
<1>4. link'[i] # NoLink
  BY <1>3, CredentialAssumption
<1>5. LinksStay
  <2>1. link' \in [LinkIds -> Link \cup {NoLink}]
    BY <1>2, <1>3 DEF Applied, CredTypeOK
  <2> QED BY <1>2, <1>3, <1>4, <2>1 DEF LinksStay
<1>6. account # NoAccount /\ account \in Account
  BY DEF CredMade, CredTypeOK
<1>7. account' \in Account /\ (account.verified => account'.verified)
  BY <1>6 DEF Applied, Account
<1>8. account' # NoAccount
  BY <1>7, CredentialAssumption
<1>9. Unreached' /\ UNCHANGED lastMail => Unreached
  BY <1>6, <1>7 DEF Unreached
<1>10. \A h \in Kinds : Open(h)' = Open(h)
  <2>1. \A h \in Kinds : \A j \in LinkIds : j \in Open(h)' <=> j \in Open(h)
    BY <1>2, <1>3, <1>4 DEF Open
  <2>2. \A h \in Kinds : Open(h) \subseteq LinkIds /\ Open(h)' \subseteq LinkIds
    BY DEF Open
  <2> QED BY <2>1, <2>2
<1> QED BY <1>2, <1>3, <1>4, <1>5, <1>6, <1>7, <1>8, <1>9, <1>10

LEMMA ApplyKeeps ==
  ASSUME CredInv, NEW s \in CredSlots, ApplyLink(s) \/ ApplyTimesOut(s)
  PROVE  CredInv'
<1> USE DEF CredInv
<1>0. PICK i \in LinkIds : i = credCall[s].id
  BY CredRecords DEF ApplyLink, ApplyTimesOut
<1>a. PICK r \in CredCalls, marks \in SUBSET CredFaults :
        /\ credCall' = [credCall EXCEPT ![s] = r] /\ BlameCred(marks)
        /\ \/ r.pc = "use" /\ r.id = i /\ marks = {}
           \/ r.pc = "idle" /\ marks = {"late"}
  <2>1. CASE ApplyLink(s)
    <3>1. [credCall[s] EXCEPT !.pc = "use"] \in CredCalls
          /\ [credCall[s] EXCEPT !.pc = "use"].pc = "use"
          /\ [credCall[s] EXCEPT !.pc = "use"].id = i
      BY <1>0, <2>1, CredRecords DEF ApplyLink, CredCalls, CredAt
    <3>2. {} \in SUBSET CredFaults
      OBVIOUS
    <3>3. /\ credCall' = [credCall EXCEPT ![s] = [credCall[s] EXCEPT !.pc = "use"]]
          /\ BlameCred({})
      BY <2>1 DEF ApplyLink, StepCred
    <3> QED BY <3>1, <3>2, <3>3
  <2>2. CASE ApplyTimesOut(s)
    <3>1. {"late"} \in SUBSET CredFaults /\ NoCredCall \in CredCalls /\ NoCredCall.pc = "idle"
      BY DEF CredFaults, NoCredCall, CredCalls
    <3> QED BY <2>2, <3>1 DEF ApplyTimesOut, EndCred
  <2> QED BY <2>1, <2>2
<1>1. /\ CredAt(s, "apply") /\ s \in CredBusy /\ link[i] # NoLink /\ Applied(i)
      /\ UNCHANGED <<lastMail, failures, misses, credLoad>>
  BY <1>0, CredRecords DEF ApplyLink, ApplyTimesOut, CredMade, CredAt
<1>3. /\ link'[i] \in Link /\ link'[i] # NoLink /\ link'[i].kind = link[i].kind
      /\ link'[i].st = link[i].st /\ link'[i].works # 0
      /\ link[i].works = 0 => link'[i].works = 1
      /\ \A j \in LinkIds : j # i => link'[j] = link[j]
      /\ LinksStay
      /\ account # NoAccount /\ account' \in Account /\ account' # NoAccount
      /\ Unreached' => Unreached
      /\ \A h \in Kinds : Open(h)' = Open(h)
  BY <1>1, AppliedRow
<1>5. /\ CredMade' /\ credCall' \in [CredSlots -> CredCalls] /\ credCall'[s] = r
      /\ \A t \in CredSlots : t # s => credCall'[t] = credCall[t]
  BY <1>a, <1>1, <1>3, LinksMade
<1>6. CredTypeOK'
  BY <1>a, <1>1, <1>3, <1>5 DEF CredTypeOK, BlameCred, CredFaults, LinksStay
<1>7. ASSUME "late" \notin credFault, "died" \notin credFault, Unreached'
      PROVE  Mailing("verify")'
  <2>1. Mailing("verify")
    BY <1>3, <1>7 DEF Reached
  <2> QED BY <1>1, <1>5, <2>1 DEF Mailing, CredAt
<1>9. ASSUME CredCalm, OneCredCall'
      PROVE  /\ LinkCallsFit' /\ OneOpen'
             /\ "died" \notin credFault => LastMailFits' /\ CountFits'
             /\ credFault = {} /\ marks = {} => WorksFit'
  <2>1. \A t \in CredSlots : t # s =>
          credCall[t] = [pc |-> "idle"] /\ credCall'[t] = [pc |-> "idle"]
    BY <1>1, <1>5, <1>9, OthersRest DEF CredCalmInv
  <2>2. \A t \in CredSlots : credCall[t].pc \in {"idle", "apply"}
                               /\ credCall'[t].pc \in {"idle", "use"}
    BY <1>a, <1>1, <1>5, <2>1 DEF CredAt
  <2>3. LinkCallsFit'
    BY <2>2 DEF LinkCallsFit, LinkCallFits, CredAt
  <2>4. OneOpen'
    BY <1>3, <1>9 DEF CredCalmInv, OneOpen
  <2>5. ASSUME "died" \notin credFault
        PROVE  LastMailFits' /\ CountFits'
    <3>1. LastMailFits /\ CountFits
      BY <1>9, <2>5 DEF CredCalmInv
    <3>2. \A h \in Kinds : ~Mailing(h)
      BY <2>2 DEF Mailing, CredAt
    <3>3. ASSUME NEW h \in Kinds, lastMail[h] # NoLink, Dead(lastMail[h])'
          PROVE  Dead(lastMail[h])
      <4>1. lastMail[h] \in LinkIds /\ lastMail'[h] = lastMail[h]
        BY <1>1, <3>3 DEF CredTypeOK
      <4>2. lastMail[h] # i
        BY <1>3, <3>3, <4>1 DEF Dead
      <4> QED BY <1>3, <3>3, <4>1, <4>2 DEF Dead
    <3>5. LastMailFits'
      BY <1>1, <3>1, <3>2, <3>3 DEF LastMailFits
    <3>6. CountFits'
      BY <1>1, <2>2, <3>1, CountStays DEF CredAt
    <3> QED BY <3>5, <3>6
  <2>6. ASSUME credFault = {}, marks = {}
        PROVE  WorksFit'
    <3>1. WorksFit
      BY <1>9, <2>6 DEF CredCalmInv
    <3>2. \A j \in LinkIds : ~Marking(j)
      BY <2>2 DEF Marking, CredAt
    <3>3. Marking(i)' /\ link[i].works = 0
      BY <1>0, <1>a, <1>1, <1>5, <2>6, <3>1 DEF Marking, CredAt, WorksFit
    <3> QED BY <1>1, <1>3, <2>2, <3>1, <3>2, <3>3 DEF WorksFit, CredAt
  <2> QED BY <2>3, <2>4, <2>5, <2>6
<1>10. Reached' /\ CredCalmInv'
  BY <1>a, <1>6, <1>7, <1>9, CredBlamed
<1> QED BY <1>5, <1>6, <1>10

(* The token that took effect is marked: no open link has.                  *)
LEMMA UseLinkKeeps ==
  ASSUME CredInv, NEW s \in CredSlots, UseLink(s)
  PROVE  CredInv'
<1> USE DEF CredInv
<1>0. PICK i \in LinkIds : i = credCall[s].id
  BY CredRecords DEF UseLink
<1>1. /\ CredAt(s, "use") /\ s \in CredBusy /\ link[i] # NoLink /\ account # NoAccount
      /\ UNCHANGED <<account, lastMail, failures, misses, credLoad>> /\ BlameCred({})
      /\ credCall' = [credCall EXCEPT ![s] = NoCredCall]
      /\ link' = [link EXCEPT ![i].st = "used"]
  BY <1>0, CredRecords DEF UseLink, EndCred, CredMade, CredAt
<1>2. NoCredCall \in CredCalls /\ NoCredCall.pc = "idle"
  BY DEF NoCredCall, CredCalls
<1>3. /\ link'[i] \in Link /\ link'[i] # NoLink /\ link'[i].kind = link[i].kind
      /\ link'[i].st = "used" /\ link'[i].works = link[i].works
      /\ \A j \in LinkIds : j # i => link'[j] = link[j]
      /\ link' \in [LinkIds -> Link \cup {NoLink}]
  <2>1. link[i] \in Link
    BY <1>1, LinkRows
  <2>2. link'[i] = [link[i] EXCEPT !.st = "used"]
        /\ \A j \in LinkIds : j # i => link'[j] = link[j]
    BY <1>1 DEF CredTypeOK
  <2>3. /\ link'[i] \in Link /\ link'[i].kind = link[i].kind
        /\ link'[i].st = "used" /\ link'[i].works = link[i].works
    BY <2>1, <2>2 DEF Link
  <2>4. link' \in [LinkIds -> Link \cup {NoLink}]
    BY <1>1, <2>2, <2>3 DEF CredTypeOK
  <2> QED BY <2>2, <2>3, <2>4, CredentialAssumption
<1>4. LinksStay
  BY <1>1, <1>3 DEF LinksStay
<1>5. /\ CredMade' /\ credCall' \in [CredSlots -> CredCalls] /\ credCall'[s] = NoCredCall
      /\ \A t \in CredSlots : t # s => credCall'[t] = credCall[t]
  BY <1>1, <1>2, <1>4, LinksMade
<1>6. CredTypeOK'
  BY <1>1, <1>3, <1>5 DEF CredTypeOK, BlameCred, CredFaults
<1>7. ASSUME "late" \notin credFault, "died" \notin credFault, Unreached'
      PROVE  Mailing("verify")'
  <2>1. Mailing("verify")
    BY <1>1, <1>7 DEF Unreached, Reached
  <2> QED BY <1>1, <1>5, <2>1 DEF Mailing, CredAt
<1>8. \A h \in Kinds : Open(h)' \subseteq Open(h)
  BY <1>3 DEF Open
<1>9. ASSUME CredCalm, OneCredCall'
      PROVE  /\ LinkCallsFit' /\ OneOpen'
             /\ "died" \notin credFault => LastMailFits' /\ CountFits'
             /\ credFault = {} => WorksFit'
  <2>1. \A t \in CredSlots : t # s =>
          credCall[t] = [pc |-> "idle"] /\ credCall'[t] = [pc |-> "idle"]
    BY <1>1, <1>5, <1>9, OthersRest DEF CredCalmInv
  <2>2. \A t \in CredSlots : credCall[t].pc \in {"idle", "use"} /\ credCall'[t].pc = "idle"
    BY <1>1, <1>2, <1>5, <2>1 DEF CredAt
  <2>3. LinkCallsFit'
    BY <2>2 DEF LinkCallsFit, LinkCallFits, CredAt
  <2>4. OneOpen'
    BY <1>8, <1>9 DEF CredCalmInv, OneOpen
  <2>5. ASSUME "died" \notin credFault
        PROVE  LastMailFits' /\ CountFits'
    <3>1. LastMailFits /\ CountFits
      BY <1>9, <2>5 DEF CredCalmInv
    <3>2. \A h \in Kinds : ~Mailing(h)
      BY <2>2 DEF Mailing, CredAt
    <3>3. ASSUME NEW h \in Kinds, lastMail[h] # NoLink, Dead(lastMail[h])'
          PROVE  Dead(lastMail[h])
      <4>1. lastMail[h] \in LinkIds /\ lastMail'[h] = lastMail[h]
        BY <1>1, <3>3 DEF CredTypeOK
      <4>2. lastMail[h] # i
        BY <1>3, <3>3, <4>1 DEF Dead
      <4> QED BY <1>3, <3>3, <4>1, <4>2 DEF Dead
    <3>5. LastMailFits'
      BY <1>1, <3>1, <3>2, <3>3 DEF LastMailFits
    <3>6. CountFits'
      BY <1>1, <2>2, <3>1, CountStays DEF CredAt
    <3> QED BY <3>5, <3>6
  <2>6. ASSUME credFault = {}
        PROVE  WorksFit'
    <3>1. WorksFit
      BY <1>9, <2>6 DEF CredCalmInv
    <3>2. \A j \in LinkIds : j # i => ~Marking(j)
      BY <1>0, <2>1 DEF Marking, CredAt
    <3> QED BY <1>1, <1>3, <2>2, <3>1, <3>2 DEF WorksFit, CredAt
  <2> QED BY <2>3, <2>4, <2>5, <2>6
<1>10. Reached' /\ CredCalmInv'
  BY <1>1, <1>6, <1>7, <1>9, CredBlamed
<1> QED BY <1>5, <1>6, <1>10

-----------------------------------------------------------------------------
(* What happens beside the calls; the cleanup and the end of the window     *)
(* count as overlap if a call runs.                                         *)
LEMMA BesideCalls ==
  ASSUME CredInv, UNCHANGED <<account, lastMail, credCall>>,
         LinksStay, \A i \in LinkIds : link[i] = NoLink => link'[i] = NoLink
  PROVE  /\ CredMade'
         /\ Unreached' /\ "late" \notin credFault /\ "died" \notin credFault
              => Mailing("verify")'
         /\ OneCredCall' => OneCredCall
<1> USE DEF CredInv
<1>1. \A s \in CredSlots : CredAt(s, "mail") =>
        link'[credCall[s].id] # NoLink /\ link'[credCall[s].id].kind = credCall[s].kind
  BY CredRecords DEF CredMade, LinksStay
<1>2. \A s \in CredSlots : CredAt(s, "apply") \/ CredAt(s, "use") =>
        link'[credCall[s].id] # NoLink
  BY CredRecords DEF CredMade, LinksStay
<1>3. \A k \in Kinds : lastMail[k] # NoLink =>
        link'[lastMail[k]] # NoLink /\ link'[lastMail[k]].kind = k
  BY DEF CredMade, LinksStay, CredTypeOK
<1>4. CredMade'
  BY <1>1, <1>2, <1>3 DEF CredMade, CredAt
<1>5. OneCredCall' => OneCredCall
  BY DEF OneCredCall, CredBusy
<1> QED BY <1>4, <1>5 DEF Unreached, Reached, Mailing, CredAt

(* The clock: only the expiry of a link changes.                            *)
LEMMA ExpireLinkKeeps ==
  ASSUME CredInv, NEW i \in LinkIds, ExpireLink(i)
  PROVE  CredInv'
<1> USE DEF CredInv
<1>1. /\ UNCHANGED <<account, lastMail, failures, misses, credCall, credLoad>>
      /\ BlameCred({}) /\ link[i] # NoLink /\ link[i] \in Link
      /\ link' = [link EXCEPT ![i].expired = TRUE]
  BY LinkRows DEF ExpireLink
<1>2. /\ link'[i] \in Link /\ link'[i].kind = link[i].kind /\ link'[i].expired
      /\ link'[i].st = link[i].st /\ link'[i].works = link[i].works
      /\ \A j \in LinkIds : j # i => link'[j] = link[j]
  <2>1. /\ link'[i] = [link[i] EXCEPT !.expired = TRUE]
        /\ \A j \in LinkIds : j # i => link'[j] = link[j]
    BY <1>1 DEF CredTypeOK
  <2>2. /\ [link[i] EXCEPT !.expired = TRUE] \in Link
        /\ \A x \in Link : /\ [x EXCEPT !.expired = TRUE].kind = x.kind
                           /\ [x EXCEPT !.expired = TRUE].expired
                           /\ [x EXCEPT !.expired = TRUE].st = x.st
                           /\ [x EXCEPT !.expired = TRUE].works = x.works
    BY <1>1 DEF Link
  <2> QED BY <1>1, <2>1, <2>2
<1>3. link'[i] # NoLink
  BY <1>2, CredentialAssumption
<1>4. LinksStay
  <2>1. link' \in [LinkIds -> Link \cup {NoLink}]
    BY <1>1, <1>2 DEF CredTypeOK
  <2> QED BY <1>1, <1>2, <1>3, <2>1 DEF LinksStay
<1>5. /\ CredMade'
      /\ Unreached' /\ "late" \notin credFault /\ "died" \notin credFault
           => Mailing("verify")'
      /\ OneCredCall' => OneCredCall
  BY <1>1, <1>2, <1>4, BesideCalls
<1>6. CredTypeOK'
  BY <1>1, <1>4 DEF CredTypeOK, BlameCred, CredFaults, LinksStay
<1>8. \A h \in Kinds : Open(h)' = Open(h)
  <2>1. \A h \in Kinds : \A j \in LinkIds : j \in Open(h)' <=> j \in Open(h)
    BY <1>1, <1>2, <1>3 DEF Open
  <2>2. \A h \in Kinds : Open(h) \subseteq LinkIds /\ Open(h)' \subseteq LinkIds
    BY DEF Open
  <2> QED BY <2>1, <2>2
<1>9. ASSUME CredCalm, OneCredCall'
      PROVE  /\ LinkCallsFit' /\ OneOpen'
             /\ "died" \notin credFault => LastMailFits' /\ CountFits'
             /\ credFault = {} => WorksFit'
  <2>3. LinkCallsFit'
    BY <1>1, <1>8, <1>9, CredRecords DEF CredCalmInv, LinkCallsFit, LinkCallFits, CredAt
  <2>4. OneOpen'
    BY <1>8, <1>9 DEF CredCalmInv, OneOpen
  <2>5. ASSUME "died" \notin credFault
        PROVE  LastMailFits' /\ CountFits'
    <3>1. LastMailFits /\ CountFits
      BY <1>9, <2>5 DEF CredCalmInv
    <3>3. ASSUME NEW h \in Kinds, lastMail[h] # NoLink, Dead(lastMail[h])'
          PROVE  Dead(lastMail[h])
      <4>1. lastMail[h] \in LinkIds /\ lastMail'[h] = lastMail[h]
        BY <1>1, <3>3 DEF CredTypeOK
      <4>2. lastMail[h] # i
        BY <1>2, <3>3, <4>1 DEF Dead
      <4> QED BY <1>2, <3>3, <4>1, <4>2 DEF Dead
    <3>5. LastMailFits'
      BY <1>1, <3>1, <3>3 DEF LastMailFits, Mailing, CredAt
    <3>6. CountFits'
      BY <1>1, <3>1 DEF CountFits, Counting, CredAt
    <3> QED BY <3>5, <3>6
  <2>6. ASSUME credFault = {}
        PROVE  WorksFit'
    <3>1. WorksFit
      BY <1>9, <2>6 DEF CredCalmInv
    <3>2. \A j \in LinkIds : Marking(j)' <=> Marking(j)
      BY <1>1 DEF Marking, CredAt
    <3>3. \A j \in LinkIds : link'[j].st = link[j].st /\ link'[j].works = link[j].works
      BY <1>2
    <3>4. \A j \in LinkIds : link'[j] # NoLink => link[j] # NoLink
      BY <1>1, <1>2
    <3> QED BY <1>1, <3>1, <3>2, <3>3, <3>4, CredRecords DEF WorksFit, CredAt
  <2> QED BY <2>3, <2>4, <2>5, <2>6
<1>10. Reached' /\ CredCalmInv'
  BY <1>1, <1>5, <1>6, <1>9, CredBlamed
<1> QED BY <1>5, <1>6, <1>10

LEMMA DeleteExpiredKeeps ==
  ASSUME CredInv, DeleteExpired
  PROVE  CredInv'
<1> USE DEF CredInv
<1> DEFINE gone == {i \in Open("verify") \cup Open("reset") : link[i].expired}
           marks == BetweenCalls
<1>1. /\ UNCHANGED <<account, lastMail, failures, misses, credCall, credLoad>>
      /\ BlameCred(marks) /\ link' = Without(gone)
  BY DEF DeleteExpired
<1>m. marks \subseteq CredFaults /\ ("overlap" \notin marks => CredQuiet /\ marks = {})
  BY DEF BetweenCalls, CredFaults
<1>2. ASSUME NEW i \in LinkIds
      PROVE  /\ link[i] = NoLink => link'[i] = NoLink
             /\ link[i] # NoLink =>
                  /\ link'[i] \in Link /\ link'[i] # NoLink
                  /\ link'[i].kind = link[i].kind /\ link'[i].works = link[i].works
                  /\ link'[i].st = "open" => link[i].st = "open"
             /\ link'[i] = link[i] \/ link'[i].expired
  <2>1. link'[i] = IF i \in gone THEN [link[i] EXCEPT !.st = "deleted"] ELSE link[i]
    BY <1>1 DEF Without
  <2>2. CASE i \in gone
    <3>1. link[i] \in Link /\ link[i] # NoLink /\ link[i].expired
      BY <2>2, LinkRows DEF Open
    <3>2. /\ link'[i] \in Link /\ link'[i].kind = link[i].kind /\ link'[i].expired
          /\ link'[i].works = link[i].works /\ link'[i].st = "deleted"
      BY <2>1, <2>2, <3>1 DEF Link
    <3> QED BY <3>1, <3>2, CredentialAssumption
  <2>3. CASE i \notin gone
    BY <2>1, <2>3, LinkRows
  <2> QED BY <2>2, <2>3
<1> HIDE DEF gone, marks
<1>4. LinksStay
  BY <1>1, <1>2 DEF LinksStay, Without
<1>5. /\ CredMade'
      /\ Unreached' /\ "late" \notin credFault /\ "died" \notin credFault
           => Mailing("verify")'
      /\ OneCredCall' => OneCredCall
  BY <1>1, <1>2, <1>4, BesideCalls
<1>6. CredTypeOK'
  BY <1>1, <1>m, <1>4 DEF CredTypeOK, BlameCred, CredFaults, LinksStay
<1>8. \A h \in Kinds : Open(h)' \subseteq Open(h)
  BY <1>2 DEF Open
<1>9. ASSUME CredCalm, "overlap" \notin marks
      PROVE  /\ LinkCallsFit' /\ OneOpen'
             /\ "died" \notin credFault => LastMailFits' /\ CountFits'
             /\ credFault = {} => WorksFit'
  <2>1. \A s \in CredSlots : credCall[s].pc = "idle" /\ credCall'[s].pc = "idle"
    BY <1>1, <1>m, <1>9 DEF CredQuiet, CredBusy, NoCredCall
  <2>3. LinkCallsFit'
    BY <2>1 DEF LinkCallsFit, LinkCallFits, CredAt
  <2>4. OneOpen'
    BY <1>8, <1>9 DEF CredCalmInv, OneOpen
  <2>5. ASSUME "died" \notin credFault
        PROVE  LastMailFits' /\ CountFits'
    <3>1. LastMailFits /\ CountFits
      BY <1>9, <2>5 DEF CredCalmInv
    <3>2. \A h \in Kinds : ~Mailing(h)
      BY <2>1 DEF Mailing, CredAt
    <3>3. ASSUME NEW h \in Kinds, lastMail[h] # NoLink, Dead(lastMail[h])'
          PROVE  Dead(lastMail[h])
      <4>1. lastMail[h] \in LinkIds /\ lastMail'[h] = lastMail[h]
        BY <1>1, <3>3 DEF CredTypeOK
      <4>2. link'[lastMail[h]] = link[lastMail[h]]
        BY <1>2, <3>3, <4>1 DEF Dead
      <4> QED BY <3>3, <4>1, <4>2 DEF Dead
    <3>5. LastMailFits'
      BY <1>1, <3>1, <3>2, <3>3 DEF LastMailFits
    <3>6. CountFits'
      BY <1>1, <3>1 DEF CountFits, Counting, CredAt
    <3> QED BY <3>5, <3>6
  <2>6. ASSUME credFault = {}
        PROVE  WorksFit'
    <3>1. WorksFit
      BY <1>9, <2>6 DEF CredCalmInv
    <3>2. \A j \in LinkIds : ~Marking(j)
      BY <2>1 DEF Marking, CredAt
    <3> QED BY <1>2, <2>1, <3>1, <3>2 DEF WorksFit, CredAt
  <2> QED BY <2>3, <2>4, <2>5, <2>6
<1>10. Reached' /\ CredCalmInv'
  BY <1>1, <1>5, <1>6, <1>9, CredBlamed
<1> QED BY <1>5, <1>6, <1>10

LEMMA WindowEndsKeeps ==
  ASSUME CredInv, WindowEnds
  PROVE  CredInv'
<1> USE DEF CredInv
<1> DEFINE marks == BetweenCalls
<1>1. /\ UNCHANGED <<account, link, lastMail, credCall, credLoad>>
      /\ BlameCred(marks) /\ failures' = 0 /\ misses' = 0
  BY DEF WindowEnds
<1>m. marks \subseteq CredFaults /\ ("overlap" \notin marks => CredQuiet /\ marks = {})
  BY DEF BetweenCalls, CredFaults
<1> HIDE DEF marks
<1>4. LinksStay
  BY <1>1 DEF LinksStay, CredTypeOK
<1>5. /\ CredMade'
      /\ Unreached' /\ "late" \notin credFault /\ "died" \notin credFault
           => Mailing("verify")'
      /\ OneCredCall' => OneCredCall
  BY <1>1, <1>4, BesideCalls
<1>6. CredTypeOK'
  <2>1. 0 \in 0..(MaxFailures + 1)
    BY CredentialAssumption
  <2> QED BY <1>1, <1>m, <2>1 DEF CredTypeOK, BlameCred, CredFaults
<1>9. ASSUME CredCalm, "overlap" \notin marks
      PROVE  /\ LinkCallsFit' /\ OneOpen'
             /\ "died" \notin credFault => LastMailFits' /\ CountFits'
             /\ credFault = {} => WorksFit'
  <2>1. \A s \in CredSlots : credCall'[s].pc = "idle"
    BY <1>1, <1>m, <1>9 DEF CredQuiet, CredBusy, NoCredCall
  <2>2. LinkCallsFit' /\ CountFits'
    BY <1>1, <2>1 DEF LinkCallsFit, LinkCallFits, CountFits, CredAt
  <2>3. OneOpen'
    BY <1>1, <1>9 DEF CredCalmInv, OneOpen, Open
  <2>4. "died" \notin credFault => LastMailFits'
    BY <1>1, <1>9 DEF CredCalmInv, LastMailFits, Dead, Mailing, CredAt
  <2>5. credFault = {} => WorksFit'
    BY <1>1, <1>9 DEF CredCalmInv, WorksFit, Marking, CredAt
  <2> QED BY <2>2, <2>3, <2>4, <2>5
<1>10. Reached' /\ CredCalmInv'
  BY <1>1, <1>5, <1>6, <1>9, CredBlamed
<1> QED BY <1>5, <1>6, <1>10

-----------------------------------------------------------------------------
LEMMA CredInvInit == CredInit => CredInv
<1> SUFFICES ASSUME CredInit PROVE CredInv
  OBVIOUS
<1>1. \A s \in CredSlots : credCall[s] = [pc |-> "idle"]
  BY DEF CredInit, NoCredCall
<1>2. account \in {[verified |-> TRUE], NoAccount} /\ [verified |-> TRUE] \in Account
  BY DEF CredInit, Account
<1>3. CredTypeOK
  <2>1. credCall \in [CredSlots -> CredCalls]
    BY DEF CredInit, NoCredCall, CredCalls
  <2>2. failures \in 0..(MaxFailures + 1) /\ misses \in 0..(MaxFailures + 1)
    BY CredentialAssumption DEF CredInit
  <2> QED BY <1>2, <2>1, <2>2 DEF CredInit, CredTypeOK, CredFaults
<1>4. ~Unreached
  BY <1>2 DEF Unreached
<1>5. \A k \in Kinds : Open(k) = {}
  BY DEF CredInit, Open
<1>6. CredMade
  BY <1>1 DEF CredInit, CredMade, CredAt
<1>7. CredCalmInv
  BY <1>1, <1>5 DEF CredInit, CredCalmInv, OneCredCall, CredBusy, NoCredCall, LinkCallsFit,
         LinkCallFits, OneOpen, LastMailFits, CountFits, WorksFit, CredAt
<1> QED BY <1>3, <1>4, <1>6, <1>7 DEF CredInv, Reached

LEMMA CredInvKept == CredInv /\ [CredNext]_credVars => CredInv'
<1> SUFFICES ASSUME CredInv, [CredNext]_credVars PROVE CredInv'
  OBVIOUS
<1>1. credLoad.slots \subseteq CredSlots
  BY CredentialAssumption DEF CredInv, CredTypeOK
<1>2. ASSUME NEW s \in credLoad.slots,
             \/ Register(s) \/ CreateAccount(s) \/ CreateTimesOut(s)
             \/ \E k \in Kinds : AskForLink(s, k)
             \/ DeleteOpen(s) \/ InsertLink(s) \/ MailLink(s)
             \/ \E i \in LinkIds : FollowLink(s, i)
             \/ ApplyLink(s) \/ ApplyTimesOut(s) \/ UseLink(s)
             \/ TryPassword(s) \/ Miss(s) \/ CountMiss(s) \/ Hit(s)
             \/ CallDies(s)
      PROVE  CredInv'
  BY <1>1, <1>2, RegisterKeeps, AskKeepsLinks, PasswordKeeps, DeleteOpenKeeps,
     InsertLinkKeeps, MailLinkKeeps, ApplyKeeps, UseLinkKeeps, CallDiesKeeps
<1>3. ASSUME NEW i \in LinkIds, ExpireLink(i) PROVE CredInv'
  BY <1>3, ExpireLinkKeeps
<1>4. CASE DeleteExpired
  BY <1>4, DeleteExpiredKeeps
<1>5. CASE WindowEnds
  BY <1>5, WindowEndsKeeps
<1>6. CASE UNCHANGED credVars
  BY <1>6 DEF credVars, CredInv, CredTypeOK, CredMade, Reached, CredCalmInv, CredCalm,
              OneCredCall, CredBusy, LinkCallsFit, LinkCallFits, OneOpen, Open, LastMailFits,
              Dead, Mailing, CountFits, Counting, WorksFit, Marking, Unreached, CredAt
<1> QED BY <1>2, <1>3, <1>4, <1>5, <1>6 DEF CredNext

(* In order while nothing excuses it is what CredentialsSafe says.          *)
LEMMA CredInvSafe == CredInv => CredentialsSafe
<1> SUFFICES ASSUME CredInv PROVE CredentialsSafe
  OBVIOUS
<1> USE DEF CredInv
<1>1. LinkWorksOnce
  <2> SUFFICES ASSUME credFault = {}, NEW i \in LinkIds, link[i] # NoLink, link[i].works > 1
               PROVE  FALSE
    BY DEF LinkWorksOnce
  <2>1. link[i].works <= 1 /\ link[i].works \in 0..2
    BY LinkRows DEF CredCalmInv, CredCalm, WorksFit, Link
  <2> QED BY <2>1
<1>2. OneOpenLink
  BY DEF OneOpenLink, CredCalmInv, CredCalm, OneOpen
<1>3. CredQuiet => \A s \in CredSlots : CredAt(s, "idle") /\ ~CredAt(s, "insert")
                      /\ ~CredAt(s, "mail") /\ ~CredAt(s, "count")
  BY DEF CredQuiet, CredBusy, CredAt, NoCredCall
<1>4. LastMailWorks
  BY <1>3 DEF LastMailWorks, CredCalmInv, CredCalm, LastMailFits, Mailing
<1>5. RegisteredIsMailed
  BY <1>3 DEF RegisteredIsMailed, Reached, Mailing
<1>6. CounterIsTrue
  BY <1>3 DEF CounterIsTrue, CredCalmInv, CredCalm, CountFits, Counting
<1> QED BY <1>1, <1>2, <1>4, <1>5, <1>6 DEF CredentialsSafe

(* Links and counter are safe for any number of links, failures and calls:  *)
(* what goes wrong does so after calls overlapped, stopped, or were         *)
(* answered late, and only where the property allows it.                    *)
THEOREM CredentialsStaySafe == CredSpec => []CredentialsSafe
  BY CredInvInit, CredInvKept, CredInvSafe, PTL DEF CredSpec

-----------------------------------------------------------------------------
(* Calls of the gateway.                                                    *)

(* Which calls are retried.  Risky names those that may be sent again       *)
(* although executing them twice is not the same as executing them once.    *)
Effects == {"read", "same", "again", "once", "unless"}

Safe(c) ==
  /\ c.effect \in Effects /\ c.retries \in 0..2
  /\ c.retries > 0 => c.effect \in {"read", "same"}

Risky(c) ==
  /\ c.effect = "again" => c.name = "subscribe"
  /\ c.effect = "unless" => c.name = "order status"
  /\ c.effect = "once" =>
       c.name \in {"create admin", "delete admin", "cancel subscription", "cancel now"}

CallOK(c) ==
  /\ c.effect \in Effects /\ c.retries \in 0..2
  /\ c.retries > 0 => Risky(c)

LEMMA CallFields ==
  ASSUME NEW effect, NEW retries, NEW names, NEW c \in Calls(effect, retries, names)
  PROVE  c.effect = effect /\ c.retries = retries /\ c.name \in names
  BY DEF Calls

LEMMA ReadsAreSafe ==
  ASSUME NEW names, NEW c \in Reads(names)
  PROVE  Safe(c)
<1>1. c \in Calls("read", 2, names)
  BY DEF Reads
<1>2. c.effect = "read" /\ c.retries = 2
  BY <1>1, CallFields
<1> QED BY <1>2 DEF Safe, Effects

LEMMA WritesAreSafe ==
  ASSUME NEW effect \in Effects, NEW names, NEW c \in Write(effect, names)
  PROVE  Safe(c)
<1>1. c \in Calls(effect, 0, names)
  BY DEF Write
<1>2. c.effect = effect /\ c.retries = 0
  BY <1>1, CallFields
<1> QED BY <1>2 DEF Safe, Effects

(* A controller that retries once: safe if reading or repeating.            *)
LEMMA SingleRetryIsSafe ==
  ASSUME NEW effect \in {"read", "same"}, NEW names, NEW c \in Calls(effect, 1, names)
  PROVE  Safe(c)
<1>1. c.effect = effect /\ c.retries = 1
  BY CallFields
<1> QED BY <1>1 DEF Safe, Effects

LEMMA SingleRetryFields ==
  ASSUME NEW effect \in Effects, NEW names, NEW c \in Calls(effect, 1, names)
  PROVE  c.effect \in Effects /\ c.retries \in 0..2
<1>1. c.effect = effect /\ c.retries = 1
  BY CallFields
<1> QED BY <1>1

LEMMA SafeIsOK ==
  ASSUME NEW c, Safe(c) PROVE CallOK(c)
  BY DEF Safe, CallOK, Risky

LEMMA SharedCallsAreSafe ==
  ASSUME NEW c \in CategoryCalls \cup ProductCalls \cup ImageCalls \cup StockCalls
                     \cup PageCalls \cup ContentCalls \cup CartCalls \cup ProfileCalls
                     \cup AnalyticsCalls \cup AuthCalls \cup OrderCalls
                     \cup LicenseCalls \cup AddressCalls
                     \cup UserAdminCalls
  PROVE  Safe(c)
<1> DEFINE SafeSet(S) == \A x \in S : Safe(x)
<1>1. ASSUME NEW names PROVE SafeSet(Reads(names))
  BY ReadsAreSafe
<1>2. ASSUME NEW effect \in Effects, NEW names PROVE SafeSet(Write(effect, names))
  BY WritesAreSafe
<1>3. ASSUME NEW effect \in {"read", "same"}, NEW names
      PROVE  SafeSet(Calls(effect, 1, names))
  BY SingleRetryIsSafe
<1>4. "read" \in Effects /\ "same" \in Effects /\ "again" \in Effects /\ "once" \in Effects
  BY DEF Effects
<1> HIDE DEF SafeSet
<1>5. ASSUME NEW S, NEW T, SafeSet(S), SafeSet(T) PROVE SafeSet(S \cup T)
  BY <1>5 DEF SafeSet
<1>6. SafeSet(CategoryCalls) /\ SafeSet(ProductCalls)
  BY <1>1, <1>2, <1>4, <1>5 DEF CategoryCalls, ProductCalls
<1>7. SafeSet(ImageCalls) /\ SafeSet(StockCalls)
  BY <1>1, <1>2, <1>4, <1>5 DEF ImageCalls, StockCalls
<1>8. SafeSet(PageCalls) /\ SafeSet(ContentCalls)
  BY <1>1, <1>2, <1>4, <1>5 DEF PageCalls, ContentCalls
<1>9. SafeSet(CartCalls) /\ SafeSet(ProfileCalls)
  BY <1>1, <1>2, <1>4, <1>5 DEF CartCalls, ProfileCalls
<1>10. SafeSet(AnalyticsCalls) /\ SafeSet(AuthCalls)
  BY <1>1, <1>2, <1>4, <1>5 DEF AnalyticsCalls, AuthCalls
<1>11. SafeSet(OrderCalls) /\ SafeSet(LicenseCalls)
  BY <1>1, <1>2, <1>3, <1>4, <1>5 DEF OrderCalls, LicenseCalls
<1>12. SafeSet(AddressCalls) /\ SafeSet(UserAdminCalls)
  BY <1>1, <1>2, <1>4, <1>5 DEF AddressCalls, UserAdminCalls
<1> QED BY <1>6, <1>7, <1>8, <1>9, <1>10, <1>11, <1>12 DEF SafeSet

(* Every call of the gateway: of those it sends again, only the six that    *)
(* Risky names do not tolerate it.                                          *)
LEMMA RetriedCalls ==
  ASSUME NEW c \in AllCalls
  PROVE  CallOK(c)
<1>1. CASE c \in AdminCalls
  <2>1. CASE c \in Calls("once", 1, {"create admin", "delete admin"})
    <3>1. c.effect = "once" /\ c.retries = 1 /\ c.name \in {"create admin", "delete admin"}
      BY <2>1, CallFields
    <3>2. c.effect \in Effects /\ c.retries \in 0..2
      BY <2>1, SingleRetryFields DEF Effects
    <3>3. Risky(c)
      BY <3>1 DEF Risky
    <3> QED BY <3>2, <3>3 DEF CallOK
  <2>2. CASE c \in Reads({"admins", "admin"})
    BY <2>2, ReadsAreSafe, SafeIsOK
  <2>3. CASE c \in Calls("same", 1, {"update admin"})
    BY <2>3, SingleRetryIsSafe, SafeIsOK
  <2> QED BY <1>1, <2>1, <2>2, <2>3 DEF AdminCalls
<1>2. CASE c \in SubscriptionCalls
  <2>1. CASE c \in Calls("again", 1, {"subscribe"})
    <3>1. c.effect = "again" /\ c.retries = 1 /\ c.name \in {"subscribe"}
      BY <2>1, CallFields
    <3>2. c.effect \in Effects /\ c.retries \in 0..2
      BY <2>1, SingleRetryFields DEF Effects
    <3>3. Risky(c)
      BY <3>1 DEF Risky
    <3> QED BY <3>2, <3>3 DEF CallOK
  <2>2. CASE c \in Reads({"my subscriptions", "my subscription"})
    BY <2>2, ReadsAreSafe, SafeIsOK
  <2>4. CASE c \in Calls("once", 1, {"cancel now"})
    <3>1. c.effect = "once" /\ c.retries = 1 /\ c.name \in {"cancel now"}
      BY <2>4, CallFields
    <3>2. c.effect \in Effects /\ c.retries \in 0..2
      BY <2>4, SingleRetryFields DEF Effects
    <3>3. Risky(c)
      BY <3>1 DEF Risky
    <3> QED BY <3>2, <3>3 DEF CallOK
  <2>3. CASE c \in Calls("same", 1, {"cancel at period end"})
    BY <2>3, SingleRetryIsSafe, SafeIsOK
  <2> QED BY <1>2, <2>1, <2>2, <2>3, <2>4 DEF SubscriptionCalls
<1>3. CASE c \in SubscriptionAdminCalls
  <2>1. CASE c \in Calls("once", 1, {"cancel subscription"})
    <3>1. c.effect = "once" /\ c.retries = 1 /\ c.name \in {"cancel subscription"}
      BY <2>1, CallFields
    <3>2. c.effect \in Effects /\ c.retries \in 0..2
      BY <2>1, SingleRetryFields DEF Effects
    <3>3. Risky(c)
      BY <3>1 DEF Risky
    <3> QED BY <3>2, <3>3 DEF CallOK
  <2>2. CASE c \in Reads({"all subscriptions", "any subscription"})
    BY <2>2, ReadsAreSafe, SafeIsOK
  <2>3. CASE c \in Calls("same", 1, {"reactivate subscription", "subscription terms"})
    BY <2>3, SingleRetryIsSafe, SafeIsOK
  <2> QED BY <1>3, <2>1, <2>2, <2>3 DEF SubscriptionAdminCalls
<1>4. CASE c \in OrderAdminCalls
  <2>1. CASE c \in Calls("unless", 1, {"order status"})
    <3>1. c.effect = "unless" /\ c.retries = 1 /\ c.name \in {"order status"}
      BY <2>1, CallFields
    <3>2. c.effect \in Effects /\ c.retries \in 0..2
      BY <2>1, SingleRetryFields DEF Effects
    <3>3. Risky(c)
      BY <3>1 DEF Risky
    <3> QED BY <3>2, <3>3 DEF CallOK
  <2>2. CASE c \in Reads({"all orders", "any order"})
    BY <2>2, ReadsAreSafe, SafeIsOK
  <2> QED BY <1>4, <2>1, <2>2 DEF OrderAdminCalls
<1>5. CASE c \notin AdminCalls \cup SubscriptionCalls \cup SubscriptionAdminCalls
                      \cup OrderAdminCalls
  BY <1>5, SharedCallsAreSafe, SafeIsOK DEF AllCalls
<1> QED BY <1>1, <1>2, <1>3, <1>4, <1>5

-----------------------------------------------------------------------------
(* The inductive invariant.                                                 *)

(* Later requests are not sent yet; the one waited for fits the retries.    *)
RequestsInOrder ==
  /\ \A a \in Attempts : a > attempt => request[a] = "none"
  /\ attempt <= call.retries + 1
  /\ attempt = 1 /\ request[1] \in {"sent", "running"} => changes = 0
  /\ attempt = 1 => changes <= 1

(* While nothing timed out or broke, the first request is the only one      *)
(* unless the service refuses the call altogether.                          *)
FirstStands ==
  valid /\ timedOut = {} /\ broken = {} =>
    /\ attempt = 1 /\ request[1] \in {"sent", "running", "done", "lost"}
    /\ reply # "refused"

(* Waiting on after a timeout is waiting for another request.               *)
LaterAfterTimeout == timedOut # {} /\ reply # "unavailable" => attempt > 1

(* While nothing timed out one request is at work, and it knows of those    *)
(* before.                                                                  *)
OneAtATime ==
  timedOut = {} =>
    /\ \A a \in Attempts : a # attempt => request[a] \notin {"sent", "running"}
    /\ call.effect = "unless" =>
         /\ changes <= 1
         /\ request[attempt] = "running" /\ changes > 0 => attempt \in informed

(* What was done, and what can have been refused.                           *)
EffectsTold ==
  /\ ~valid => changes = 0
  /\ call.effect = "read" => changes = 0
  /\ call.effect \in {"same", "once"} => changes <= 1
  /\ \A a \in Attempts : request[a] = "running" => valid
  /\ \A a \in informed : changes > 0
  /\ \A a \in Attempts : request[a] = "done" =>
       valid /\ (call.effect # "read" => changes > 0)
  /\ valid /\ broken = {} /\ (\/ \E a \in Attempts : request[a] = "refused"
                             \/ reply = "refused") => call.effect = "once"

CallInv ==
  CallTypeOK /\ RequestsInOrder /\ FirstStands /\ LaterAfterTimeout /\ OneAtATime
    /\ EffectsTold /\ OkIsDone

LEMMA AttemptsAre == /\ MaxRequests \in Nat /\ MaxRequests > 2
                     /\ Attempts = 1..MaxRequests /\ 1 \in Attempts
  BY CallAssumption

LEMMA RetriesFit == \A c \in AllCalls : c.retries < MaxRequests
  BY RetriedCalls, AttemptsAre DEF CallOK

LEMMA CallInvInit == CallInit => CallInv
<1> SUFFICES ASSUME CallInit PROVE CallInv
  OBVIOUS
<1>1. CallTypeOK
  BY AttemptsAre, RetriesFit DEF CallInit, CallTypeOK
<1>2. RequestsInOrder
  BY AttemptsAre, RetriedCalls DEF CallInit, RequestsInOrder, CallOK
<1>3. FirstStands /\ LaterAfterTimeout /\ OkIsDone /\ OneAtATime
  BY AttemptsAre DEF CallInit, FirstStands, LaterAfterTimeout, OkIsDone, OneAtATime
<1>4. EffectsTold
  BY DEF CallInit, EffectsTold
<1> QED BY <1>1, <1>2, <1>3, <1>4 DEF CallInv

(* Only the request's own outcome moves.                                    *)
LEMMA Moves1 ==
  ASSUME CallInv, NEW a \in Attempts, NEW outcome, Becomes(a, outcome),
         outcome \in {"running", "done", "refused", "lost"}
  PROVE  /\ request' \in [Attempts -> {"none", "sent", "running", "done", "refused", "lost"}]
         /\ request'[a] = outcome
         /\ \A b \in Attempts : b # a => request'[b] = request[b]
BY DEF CallInv, CallTypeOK, Becomes

(* A request is taken, or refused where it was done or is not valid.        *)
LEMMA BeginKeeps ==
  ASSUME CallInv, NEW a \in Attempts, Begin(a)
  PROVE  CallInv'
<1> USE AttemptsAre DEF CallInv, CallTypeOK, AsAsked
<1> DEFINE outcome == IF valid /\ ~(call.effect = "once" /\ changes > 0)
                      THEN "running" ELSE "refused"
<1>0. Becomes(a, outcome) /\ outcome \in {"running", "refused"}
  BY DEF Begin
<1>1. /\ request' \in [Attempts -> {"none", "sent", "running", "done", "refused", "lost"}]
      /\ request'[a] = outcome
      /\ \A b \in Attempts : b # a => request'[b] = request[b]
  BY <1>0, Moves1
<1>2. /\ request[a] = "sent" /\ UNCHANGED <<changes, broken>>
      /\ informed' = IF changes > 0 THEN informed \cup {a} ELSE informed
      /\ UNCHANGED <<call, valid, attempt, timedOut, reply>>
  BY DEF Begin
<1>3. a <= attempt /\ (attempt = 1 => a = 1)
  BY <1>2 DEF RequestsInOrder
<1>4. /\ outcome = "running" => valid
      /\ outcome = "refused" => ~valid \/ (call.effect = "once" /\ changes > 0)
  OBVIOUS
<1> HIDE DEF outcome
<1>5. CallTypeOK' /\ LaterAfterTimeout' /\ OkIsDone'
  BY <1>1, <1>2 DEF LaterAfterTimeout, OkIsDone
<1>6. RequestsInOrder'
  BY <1>1, <1>2, <1>3 DEF RequestsInOrder
<1>7. FirstStands'
  BY <1>0, <1>1, <1>2, <1>3, <1>4 DEF FirstStands, RequestsInOrder
<1>8. OneAtATime'
  <2>1. timedOut = {} => a = attempt
    BY <1>2 DEF OneAtATime
  <2> QED BY <1>0, <1>1, <1>2, <2>1 DEF OneAtATime
<1>9. EffectsTold'
  BY <1>0, <1>1, <1>2, <1>4 DEF EffectsTold
<1> QED BY <1>5, <1>6, <1>7, <1>8, <1>9

(* What executing a request does to the number of effects.                  *)
LEMMA EffectsGrow ==
  ASSUME CallInv, NEW a \in Attempts, request[a] = "running", Effective(a),
         changes' = changes + 1
  PROVE  /\ changes' \in Nat /\ changes' > 0 /\ call.effect # "read"
         /\ attempt = 1 => changes' <= 1
         /\ call.effect \in {"same", "once"} => changes' <= 1
         /\ timedOut = {} /\ call.effect = "unless" => changes' <= 1
<1> USE AttemptsAre DEF CallInv, CallTypeOK
<1>1. attempt = 1 => a = 1 /\ changes = 0
  BY DEF RequestsInOrder
<1>2. timedOut = {} /\ call.effect = "unless" => changes = 0
  <2>1. timedOut = {} => a = attempt
    BY DEF OneAtATime
  <2> QED BY <2>1 DEF OneAtATime, Effective
<1> QED BY <1>1, <1>2 DEF Effective

(* A request that ends, whether it did something or not.                    *)
LEMMA RequestEnds ==
  ASSUME CallInv, NEW a \in Attempts, request[a] = "running",
         NEW outcome \in {"done", "refused"}, Becomes(a, outcome),
         \/ changes' = changes
         \/ Effective(a) /\ changes' = changes + 1,
         (outcome = "done" /\ changes' = changes) => ~Effective(a),
         broken \subseteq broken', broken' \subseteq broken \cup {a},
         outcome = "refused" => (a \in broken' \/ (call.effect = "once" /\ changes > 0)),
         UNCHANGED informed, AsAsked
  PROVE  CallInv'
<1> USE AttemptsAre DEF CallInv, CallTypeOK, AsAsked
<1>0. call.effect \in Effects
  BY RetriedCalls DEF CallOK
<1>1. /\ request' \in [Attempts -> {"none", "sent", "running", "done", "refused", "lost"}]
      /\ request'[a] = outcome
      /\ \A b \in Attempts : b # a => request'[b] = request[b]
  BY Moves1
<1>2. a <= attempt /\ valid
  BY DEF RequestsInOrder, EffectsTold
<1>3. /\ changes' \in Nat /\ changes' >= changes
      /\ attempt = 1 => changes' <= 1
      /\ call.effect = "read" => changes' = 0
      /\ call.effect \in {"same", "once"} => changes' <= 1
      /\ timedOut = {} /\ call.effect = "unless" => changes' <= 1
  BY EffectsGrow DEF RequestsInOrder, EffectsTold, OneAtATime
<1>4. outcome = "done" /\ call.effect # "read" => changes' > 0
  <2>1. CASE changes' = changes
    BY <1>0, <1>3, <2>1 DEF Effective, EffectsTold, Effects
  <2>2. CASE Effective(a) /\ changes' = changes + 1
    BY <2>2
  <2> QED BY <2>1, <2>2
<1>5. CallTypeOK' /\ LaterAfterTimeout' /\ OkIsDone'
  BY <1>1, <1>3 DEF LaterAfterTimeout, OkIsDone
<1>6. RequestsInOrder'
  BY <1>1, <1>2, <1>3 DEF RequestsInOrder
<1>7. FirstStands'
  <2> SUFFICES ASSUME valid, timedOut = {}, broken' = {}
               PROVE  attempt = 1 /\ request'[1] \in {"sent", "running", "done", "lost"}
                        /\ reply # "refused"
    BY DEF FirstStands
  <2>1. attempt = 1 /\ reply # "refused"
    BY DEF FirstStands
  <2>2. a = 1 /\ changes = 0
    BY <1>2, <2>1 DEF RequestsInOrder
  <2> QED BY <1>1, <2>1, <2>2
<1>8. OneAtATime'
  BY <1>1, <1>3 DEF OneAtATime
<1>9. EffectsTold'
  <2>1. \A b \in Attempts : request'[b] = "done" =>
          valid /\ (call.effect # "read" => changes' > 0)
    BY <1>1, <1>2, <1>3, <1>4 DEF EffectsTold
  <2>2. broken' = {} /\ (\/ \E b \in Attempts : request'[b] = "refused"
                         \/ reply = "refused") => call.effect = "once"
    BY <1>1, <1>2 DEF EffectsTold
  <2>3. (\A b \in Attempts : request'[b] = "running" => valid) /\ \A b \in informed : changes' > 0
    BY <1>2, <1>3 DEF EffectsTold
  <2> QED BY <1>2, <1>3, <2>1, <2>2, <2>3 DEF EffectsTold
<1> QED BY <1>5, <1>6, <1>7, <1>8, <1>9

LEMMA FinishKeeps ==
  ASSUME CallInv, NEW a \in Attempts, Finish(a)
  PROVE  CallInv'
<1>1. /\ request[a] = "running" /\ AsAsked /\ UNCHANGED <<informed, broken>>
      /\ changes' = IF Effective(a) THEN changes + 1 ELSE changes
  BY DEF Finish
<1>2. changes \in Nat
  BY DEF CallInv, CallTypeOK
<1>3. CASE Becomes(a, "done")
  BY <1>1, <1>2, <1>3, RequestEnds
<1>4. CASE call.effect = "once" /\ changes > 0 /\ Becomes(a, "refused")
  BY <1>1, <1>2, <1>4, RequestEnds
<1> QED BY <1>3, <1>4 DEF Finish

LEMMA BreakKeeps ==
  ASSUME CallInv, NEW a \in Attempts, Break(a)
  PROVE  CallInv'
BY RequestEnds DEF Break

LEMMA LoseKeeps ==
  ASSUME CallInv, NEW a \in Attempts, Lose(a)
  PROVE  CallInv'
<1> USE AttemptsAre DEF CallInv, CallTypeOK, AsAsked
<1>1. /\ request' \in [Attempts -> {"none", "sent", "running", "done", "refused", "lost"}]
      /\ request'[a] = "lost"
      /\ \A b \in Attempts : b # a => request'[b] = request[b]
  BY Moves1 DEF Lose
<1>2. /\ request[a] # "none"
      /\ UNCHANGED <<call, valid, attempt, timedOut, changes, informed, broken, reply>>
  BY DEF Lose
<1>3. CallTypeOK' /\ LaterAfterTimeout' /\ OkIsDone' /\ RequestsInOrder'
  BY <1>1, <1>2 DEF LaterAfterTimeout, OkIsDone, RequestsInOrder
<1>4. FirstStands' /\ OneAtATime'
  BY <1>1, <1>2 DEF FirstStands, OneAtATime
<1>5. EffectsTold'
  BY <1>1, <1>2 DEF EffectsTold
<1> QED BY <1>2, <1>3, <1>4, <1>5

(* A refusal or a timeout: the next request is sent, or the client is told. *)
LEMMA NextRequest ==
  ASSUME CallInv, NEW answer \in {"refused", "unavailable"}, RetryOr(answer),
         UNCHANGED <<call, valid, changes, informed, broken>>, reply = "waiting",
         timedOut \subseteq timedOut', timedOut' \subseteq timedOut \cup {attempt},
         timedOut' = {} /\ broken = {} => ~valid,
         timedOut' = {} => request[attempt] = "refused",
         answer = "refused" /\ valid /\ broken = {} => call.effect = "once",
         timedOut' # timedOut => answer = "unavailable"
  PROVE  CallInv'
<1> USE AttemptsAre DEF CallInv, CallTypeOK
<1>0. call.retries \in 0..2
  BY RetriedCalls DEF CallOK
<1>1. CASE attempt <= call.retries
  <2>1. /\ attempt' = attempt + 1 /\ attempt + 1 \in Attempts /\ reply' = reply
        /\ request' = [request EXCEPT ![attempt + 1] = "sent"]
    BY <1>0, <1>1 DEF RetryOr
  <2>2. CallTypeOK'
    BY <2>1
  <2>3. RequestsInOrder'
    BY <1>0, <1>1, <2>1 DEF RequestsInOrder
  <2>4. FirstStands' /\ LaterAfterTimeout' /\ OkIsDone'
    BY <2>1 DEF FirstStands, LaterAfterTimeout, OkIsDone
  <2>5. EffectsTold'
    BY <2>1 DEF EffectsTold
  <2>6. OneAtATime'
    <3> SUFFICES ASSUME timedOut' = {} PROVE OneAtATime'
      BY DEF OneAtATime
    <3>1. timedOut = {} /\ request[attempt] = "refused"
      OBVIOUS
    <3> QED BY <2>1, <3>1 DEF OneAtATime
  <2> QED BY <2>2, <2>3, <2>4, <2>5, <2>6
<1>2. CASE ~(attempt <= call.retries)
  <2>1. reply' = answer /\ UNCHANGED <<request, attempt>>
    BY <1>2 DEF RetryOr
  <2>2. CallTypeOK' /\ OkIsDone'
    BY <2>1 DEF OkIsDone
  <2>3. RequestsInOrder' /\ OneAtATime'
    BY <2>1 DEF RequestsInOrder, OneAtATime
  <2>4. FirstStands' /\ LaterAfterTimeout'
    BY <2>1 DEF FirstStands, LaterAfterTimeout
  <2>5. EffectsTold'
    BY <2>1 DEF EffectsTold
  <2> QED BY <2>2, <2>3, <2>4, <2>5
<1> QED BY <1>1, <1>2

LEMMA CallInvKept == CallInv /\ [CallNext]_callVars => CallInv'
<1> SUFFICES ASSUME CallInv, [CallNext]_callVars PROVE CallInv'
  OBVIOUS
<1>1. CASE \E a \in Attempts : Begin(a) \/ Finish(a) \/ Break(a) \/ Lose(a)
  BY <1>1, BeginKeeps, FinishKeeps, BreakKeeps, LoseKeeps
<1>2. CASE TakesAnswer
  <2>1. /\ UNCHANGED <<call, valid, request, attempt, timedOut, changes, informed, broken>>
        /\ reply' = "ok"
    BY <1>2 DEF TakesAnswer
  <2>2. OkIsDone'
    BY <1>2, <2>1 DEF TakesAnswer, OkIsDone, CallInv, EffectsTold, CallTypeOK
  <2>3. reply = "waiting"
    BY <1>2 DEF TakesAnswer
  <2> QED BY <2>1, <2>2, <2>3 DEF CallInv, CallTypeOK, RequestsInOrder, FirstStands,
                                  LaterAfterTimeout, OneAtATime, EffectsTold
<1>3. CASE TakesRefusal
  <2>1. /\ reply = "waiting" /\ request[attempt] = "refused" /\ RetryOr("refused")
        /\ UNCHANGED <<call, valid, timedOut, changes, informed, broken>>
    BY <1>3 DEF TakesRefusal
  <2>2. timedOut = {} /\ broken = {} => ~valid
    BY <2>1 DEF CallInv, FirstStands
  <2>3. valid /\ broken = {} => call.effect = "once"
    BY <2>1 DEF CallInv, EffectsTold, CallTypeOK
  <2> QED BY <2>1, <2>2, <2>3, NextRequest
<1>4. CASE TimesOut
  <2>1. /\ reply = "waiting" /\ timedOut' = timedOut \cup {attempt}
        /\ RetryOr("unavailable") /\ UNCHANGED <<call, valid, changes, informed, broken>>
    BY <1>4 DEF TimesOut
  <2> QED BY <2>1, NextRequest
<1>5. CASE UNCHANGED callVars
  BY <1>5 DEF callVars, CallInv, CallTypeOK, RequestsInOrder, FirstStands,
              LaterAfterTimeout, OneAtATime, EffectsTold, OkIsDone
<1> QED BY <1>1, <1>2, <1>3, <1>4, <1>5 DEF CallNext

-----------------------------------------------------------------------------
(* A call told to be refused although it did something broke on its way, or *)
(* timed out first, so it was sent again: one of those that RetriedCalls    *)
(* names.  The same for a call that did more than once what it asks.        *)
LEMMA CallInvAnswers == CallInv => CallsAnswerTrue
<1> SUFFICES ASSUME CallInv PROVE CallsAnswerTrue
  OBVIOUS
<1> USE AttemptsAre DEF CallInv, CallTypeOK
<1>0. /\ call.effect \in Effects /\ call.retries \in 0..2
      /\ call.retries > 0 => Risky(call)
  BY RetriedCalls DEF CallOK
<1>1. attempt > 1 => Risky(call)
  BY <1>0 DEF RequestsInOrder
<1>2. RefusedIsUndone
  <2> SUFFICES ASSUME reply = "refused", changes > 0, broken = {}
               PROVE  /\ call.name \in {"create admin", "delete admin",
                                        "cancel subscription", "cancel now"}
                      /\ timedOut # {}
    BY DEF RefusedIsUndone
  <2>1. valid /\ call.effect = "once"
    BY DEF EffectsTold
  <2>2. timedOut # {}
    BY <2>1 DEF FirstStands
  <2>3. attempt > 1
    BY <2>2 DEF LaterAfterTimeout
  <2> QED BY <1>1, <2>1, <2>2, <2>3 DEF Risky
<1>3. DoneOnce
  <2> SUFFICES ASSUME changes > 1
               PROVE  /\ call.name \in {"subscribe", "order status"}
                      /\ (timedOut # {} \/ (call.name = "subscribe" /\ broken # {}))
    BY DEF DoneOnce
  <2>1. valid /\ call.effect \in {"again", "unless"}
    BY <1>0 DEF EffectsTold, Effects
  <2>2. attempt > 1
    BY DEF RequestsInOrder
  <2>3. call.effect = "unless" => timedOut # {}
    BY DEF OneAtATime
  <2>4. call.effect = "again" => timedOut # {} \/ broken # {}
    BY <2>1, <2>2 DEF FirstStands
  <2> QED BY <1>1, <2>1, <2>2, <2>3, <2>4 DEF Risky
<1> QED BY <1>2, <1>3 DEF CallsAnswerTrue

(* Whatever is lost or late, an answer of the gateway tells what was done,  *)
(* but for the calls that CallsAnswerTrue names.                            *)
THEOREM AnswersTell == CallSpec => []CallsAnswerTrue
  BY CallInvInit, CallInvKept, CallInvAnswers, PTL DEF CallSpec

-----------------------------------------------------------------------------
(* Mails.                                                                   *)

(* What the tables of routes, handlers and templates say.                   *)

(* Every handler finds its template.                                        *)
LEMMA TemplatesExist == ASSUME NEW p PROVE RenderedOn(p, SentMails) \subseteq Templates
<1>1. \A m \in SentMails : m.template \in Templates
  BY DEF SentMails, Templates, Mail, AccountMails, AdminMails, AccountNotices,
         PaymentMails, SubscriptionMails, LicenceMails, RefundMails, OrderMails,
         StockMails, ContactMails
<1> QED
  BY <1>1 DEF RenderedOn

(* A pattern with a mail is rendered.                                       *)
LEMMA RenderedIfMailed ==
  ASSUME NEW p, NEW m \in SentMails, m.on = p PROVE RenderedOn(p, SentMails) # {}
BY DEF RenderedOn

Mailed == {m.on : m \in SentMails}

LEMMA MailedPatterns ==
  Mailed = {"auth.user.registered", "auth.password.reset.requested",
            "auth.admin.2fa_code_requested", "auth.user.verified",
            "auth.password.changed", "auth.password.reset.completed",
            "payment.payment.confirmed", "payment.payment.failed",
            "payment.subscription.created", "payment.subscription.renewed",
            "payment.subscription.past_due", "payment.subscription.cancelled",
            "payment.licenses.issued", "payment.payment.refunded",
            "order.order.shipped", "order.checkout.expired",
            "catalog.stock.low", "content.contact.message.received"}
BY DEF Mailed, SentMails, Mail, AccountMails, AdminMails, AccountNotices,
       PaymentMails, SubscriptionMails, LicenceMails, RefundMails, OrderMails,
       StockMails, ContactMails

LEMMA RoutesAre ==
  ASSUME NEW r \in Routes
  PROVE  \/ r.to = "notification"
              /\ r.what \in Mailed \cup {"auth.user.login", "auth.admin.login"}
                              \cup {c.what : c \in CatalogEvents}
         \/ r \in Heard
         \/ r \in To("analytics", {c.what : c \in CatalogEvents})
         \/ r \in To("catalog", {"catalog.stock.confirmed", "catalog.stock.released"})
<1>1. CASE r \in AuthEvents
  BY <1>1, MailedPatterns DEF AuthEvents, To
<1>2. CASE r \in UserEvents
  BY <1>2 DEF UserEvents, To, Heard
<1>3. CASE r \in CatalogEvents
  BY <1>3 DEF CatalogEvents, To
<1>4. CASE r \in OrderEvents
  BY <1>4, MailedPatterns DEF OrderEvents, To
<1>5. CASE r \in PaymentEvents
  BY <1>5, MailedPatterns DEF PaymentEvents, To, Heard
<1>6. CASE r \in ContentEvents
  BY <1>6, MailedPatterns DEF ContentEvents, To, Heard
<1>7. CASE r \in WebhookEvents
  BY <1>7 DEF WebhookEvents, To, Heard
<1> QED
  BY <1>1, <1>2, <1>3, <1>4, <1>5, <1>6, <1>7 DEF Routes

-----------------------------------------------------------------------------
(* The queue: taking out one message keeps the order of the others.         *)
LEMMA TakeOut ==
  ASSUME NEW S, NEW q \in Seq(S), NEW i \in 1 .. Len(q), NEW t,
         t = Seqs!RemoveAt(q, i)
  PROVE  /\ t \in Seq(S) /\ Len(t) = Len(q) - 1
         /\ \A j \in 1 .. Len(t) : t[j] = IF j < i THEN q[j] ELSE q[j + 1]
<1> DEFINE a == SubSeq(q, 1, i - 1)
           b == SubSeq(q, i + 1, Len(q))
<1>1. Len(q) \in Nat /\ i \in Nat /\ i <= Len(q) /\ 1 <= i
  BY LenProperties
<1>2. \A k \in 1 .. Len(q) : q[k] \in S
  BY ElementOfSeq
<1>3. /\ a \in Seq(S) /\ Len(a) = i - 1
      /\ \A j \in 1 .. i - 1 : a[j] = q[j]
  <2>1. \A k \in 1 .. i - 1 : q[k] \in S
    BY <1>1, <1>2
  <2>2. /\ a \in Seq(S)
        /\ Len(a) = IF 1 <= i - 1 THEN i - 1 - 1 + 1 ELSE 0
        /\ \A j \in 1 .. i - 1 - 1 + 1 : a[j] = q[1 + j - 1]
    BY <1>1, <2>1, SubSeqProperties
  <2> HIDE DEF a
  <2> QED BY <1>1, <2>2
<1>4. /\ b \in Seq(S) /\ Len(b) = Len(q) - i
      /\ \A j \in 1 .. Len(q) - i : b[j] = q[i + j]
  <2>1. \A k \in i + 1 .. Len(q) : q[k] \in S
    BY <1>1, <1>2
  <2>2. /\ b \in Seq(S)
        /\ Len(b) = IF i + 1 <= Len(q) THEN Len(q) - (i + 1) + 1 ELSE 0
        /\ \A j \in 1 .. Len(q) - (i + 1) + 1 : b[j] = q[i + 1 + j - 1]
    BY <1>1, <2>1, SubSeqProperties
  <2> HIDE DEF b
  <2> QED BY <1>1, <2>2
<1>5. /\ t \in Seq(S) /\ Len(t) = Len(a) + Len(b)
      /\ \A j \in 1 .. Len(a) + Len(b) :
           t[j] = IF j <= Len(a) THEN a[j] ELSE b[j - Len(a)]
  BY <1>3, <1>4, ConcatProperties DEF Seqs!RemoveAt
<1> HIDE DEF a, b
<1>6. Len(t) = Len(q) - 1
  BY <1>1, <1>3, <1>4, <1>5
<1>7. ASSUME NEW j \in 1 .. Len(t)
      PROVE  t[j] = IF j < i THEN q[j] ELSE q[j + 1]
  <2>1. CASE j < i
    BY <1>1, <1>3, <1>5, <1>6, <2>1
  <2>2. CASE ~(j < i)
    <3>1. ~(j <= Len(a)) /\ j - Len(a) \in 1 .. Len(q) - i /\ i + (j - Len(a)) = j + 1
      BY <1>1, <1>3, <1>4, <1>5, <1>6, <2>2
    <3>2. t[j] = b[j - Len(a)]
      BY <1>5, <1>6, <3>1
    <3> QED BY <1>4, <2>2, <3>1, <3>2
  <2> QED BY <2>1, <2>2
<1> QED BY <1>5, <1>6, <1>7

Increasing(q) == \A j, k \in 1 .. Len(q) : j < k => q[j] < q[k]
Holds(q, e) == \E j \in 1 .. Len(q) : q[j] = e

(* Who is left in a queue of distinct messages.                             *)
LEMMA LeftInQueue ==
  ASSUME NEW q \in Seq(EventIds), NEW i \in 1 .. Len(q), NEW t,
         t = Seqs!RemoveAt(q, i), Increasing(q)
  PROVE  /\ t \in Seq(EventIds) /\ Increasing(t)
         /\ \A e : Holds(t, e) <=> e # q[i] /\ Holds(q, e)
<1> USE DEF Increasing, Holds
<1>1. /\ t \in Seq(EventIds) /\ Len(t) = Len(q) - 1
      /\ \A j \in 1 .. Len(t) : t[j] = IF j < i THEN q[j] ELSE q[j + 1]
  BY TakeOut
<1>2. Len(q) \in Nat /\ i \in Nat /\ i <= Len(q) /\ 1 <= i
  BY LenProperties
<1>3. \A j \in 1 .. Len(q) : q[j] \in Nat
  BY ElementOfSeq, NotificationAssumption
<1>4. ASSUME NEW j \in 1 .. Len(t), NEW k \in 1 .. Len(t), j < k
      PROVE  t[j] < t[k]
  <2>1. /\ t[j] = IF j < i THEN q[j] ELSE q[j + 1]
        /\ t[k] = IF k < i THEN q[k] ELSE q[k + 1]
    BY <1>1
  <2>2. j \in 1 .. Len(q) /\ j + 1 \in 1 .. Len(q) /\ k \in 1 .. Len(q) /\ k + 1 \in 1 .. Len(q)
        /\ j + 1 < k + 1 /\ j < k + 1
    BY <1>1, <1>2, <1>4
  <2>3. CASE k < i
    BY <1>2, <1>4, <2>1, <2>2, <2>3
  <2>4. CASE ~(k < i) /\ j < i
    BY <1>2, <1>4, <2>1, <2>2, <2>4
  <2>5. CASE ~(k < i) /\ ~(j < i)
    BY <1>2, <1>4, <2>1, <2>2, <2>5
  <2> QED BY <2>3, <2>4, <2>5
<1>5. ASSUME NEW j \in 1 .. Len(t)
      PROVE  t[j] # q[i] /\ \E k \in 1 .. Len(q) : q[k] = t[j]
  <2>1. CASE j < i
    <3>1. t[j] = q[j] /\ j \in 1 .. Len(q)
      BY <1>1, <1>2, <2>1
    <3>2. q[j] < q[i] /\ q[j] \in Nat /\ q[i] \in Nat
      BY <1>2, <1>3, <2>1, <3>1
    <3> QED BY <3>1, <3>2
  <2>2. CASE ~(j < i)
    <3>1. t[j] = q[j + 1] /\ j + 1 \in 1 .. Len(q) /\ i < j + 1
      BY <1>1, <1>2, <2>2
    <3>2. q[i] < q[j + 1] /\ q[j + 1] \in Nat /\ q[i] \in Nat
      BY <1>2, <1>3, <2>2, <3>1
    <3> QED BY <3>1, <3>2
  <2> QED BY <2>1, <2>2
<1>6. ASSUME NEW k \in 1 .. Len(q), q[k] # q[i]
      PROVE  \E j \in 1 .. Len(t) : t[j] = q[k]
  <2>1. CASE k < i
    <3>1. k \in 1 .. Len(t)
      BY <1>1, <1>2, <2>1
    <3> QED BY <1>1, <2>1, <3>1
  <2>2. CASE i < k
    <3>1. k - 1 \in 1 .. Len(t) /\ ~(k - 1 < i) /\ (k - 1) + 1 = k
      BY <1>1, <1>2, <2>2
    <3>2. t[k - 1] = q[(k - 1) + 1]
      BY <1>1, <3>1
    <3> QED BY <3>1, <3>2
  <2>3. k # i
    BY <1>6
  <2> QED BY <1>2, <2>1, <2>2, <2>3
<1>7. ASSUME NEW e
      PROVE  (\E j \in 1 .. Len(t) : t[j] = e)
                <=> e # q[i] /\ \E j \in 1 .. Len(q) : q[j] = e
  <2>1. ASSUME NEW j \in 1 .. Len(t), t[j] = e
        PROVE  e # q[i] /\ \E k \in 1 .. Len(q) : q[k] = e
    BY <1>5, <2>1
  <2>2. ASSUME e # q[i], NEW k \in 1 .. Len(q), q[k] = e
        PROVE  \E j \in 1 .. Len(t) : t[j] = e
    BY <1>6, <2>2
  <2> QED BY <2>1, <2>2
<1> QED BY <1>1, <1>4, <1>7

-----------------------------------------------------------------------------
(* The invariant.                                                           *)
Reasons == {"broker", "unheard", "template", "alerted", "overlap", "smtp", "stop"}
Stages == {"unsent", "queued", "handling", "heard", "mailed", "dropped"}

MailTyped ==
  /\ event \in [EventIds -> Routes \cup {NoEvent}]
  /\ stage \in [EventIds -> Stages]
  /\ queue \in Seq(EventIds) /\ inbox \in Seq(EventIds)
  /\ alerted \in BOOLEAN
  /\ why \in [EventIds -> SUBSET Reasons]

(* Events are emitted in the order of their numbers.                        *)
EmittedInOrder ==
  \A e \in EventIds : stage[e] # "unsent" =>
    /\ event[e] \in Routes
    /\ \A d \in EventIds : d < e => stage[d] # "unsent"

(* The queue holds what waits, the older event before the newer one, and    *)
(* nothing has happened yet to what waits.                                  *)
QueueFits ==
  /\ Increasing(queue)
  /\ \A e \in EventIds : stage[e] = "queued" <=> Holds(queue, e)
  /\ \A e \in EventIds : stage[e] \in {"unsent", "queued"} => why[e] = {}

TakenMail(e) == stage[e] \in {"handling", "mailed"}
Overlapped(e, f) == "overlap" \in why[e] \cap why[f]

(* What notification-service took came before what waits for it; two        *)
(* messages in hand, or one that a newer one overtook, are marked.          *)
TakenInOrder ==
  /\ \A e \in EventIds : TakenMail(e) => event[e].to = "notification"
  /\ \A e, f \in EventIds :
       /\ stage[e] = "queued" /\ event[e].to = "notification" /\ TakenMail(f)
       => f < e
  /\ \A e, f \in EventIds :
       MailHandling(e) /\ MailHandling(f) /\ e # f => Overlapped(e, f)
  /\ \A e, f \in EventIds :
       MailHandling(e) /\ stage[f] = "mailed" /\ e < f => Overlapped(e, f)

(* The inbox holds what was mailed, an older mail last only if marked.      *)
InboxFits ==
  /\ \A i \in 1 .. Len(inbox) : stage[inbox[i]] = "mailed"
  /\ \A i, j \in 1 .. Len(inbox) :
       i < j /\ inbox[i] > inbox[j] => Overlapped(inbox[i], inbox[j])

MailInv ==
  /\ MailTyped /\ EmittedInOrder /\ QueueFits /\ TakenInOrder /\ InboxFits
  /\ LostIsBlamed

LEMMA MailInvInit == MailInit => MailInv
<1> SUFFICES ASSUME MailInit PROVE MailInv
  OBVIOUS
<1>1. <<>> \in Seq(EventIds) /\ Len(<<>>) = 0
  BY EmptySeq
<1>2. MailTyped
  BY <1>1 DEF MailInit, MailTyped, Stages
<1>3. EmittedInOrder /\ QueueFits /\ TakenInOrder /\ InboxFits /\ LostIsBlamed
  BY <1>1 DEF MailInit, EmittedInOrder, QueueFits, TakenInOrder, InboxFits,
              LostIsBlamed, TakenMail, MailHandling, Increasing, Holds
<1> QED BY <1>2, <1>3 DEF MailInv

-----------------------------------------------------------------------------
(* Emitting.                                                                *)

(* What was emitted before has a smaller number.                            *)
LEMMA EmittedBefore ==
  ASSUME MailInv, NEW e \in EventIds, NEW r, EmitNext(e, r),
         NEW f \in EventIds, stage[f] # "unsent"
  PROVE  f < e /\ ~(e < f)
<1>1. e \in Nat /\ f \in Nat
  BY NotificationAssumption
<1>2. stage[e] = "unsent"
  BY DEF EmitNext
<1>3. ~(e < f)
  BY <1>2 DEF MailInv, EmittedInOrder
<1> QED BY <1>1, <1>2, <1>3

LEMMA EmitEventKeeps ==
  ASSUME MailInv, NEW e \in EventIds, NEW r \in Routes, EmitEvent(e, r)
  PROVE  MailInv'
<1> USE DEF MailInv
<1>1. /\ stage[e] = "unsent" /\ why[e] = {}
      /\ \A d \in EventIds : d < e => stage[d] # "unsent"
  BY DEF EmitEvent, EmitNext, QueueFits
<1>2. \A f \in EventIds : stage[f] # "unsent" => f < e
  BY EmittedBefore DEF EmitEvent
<1>3. /\ event' = [event EXCEPT ![e] = r]
      /\ stage' = [stage EXCEPT ![e] = "queued"]
      /\ queue' = Append(queue, e)
      /\ inbox' = inbox /\ alerted' = alerted /\ why' = why
  BY DEF EmitEvent, EmitNext
<1>4. /\ queue' \in Seq(EventIds) /\ Len(queue') = Len(queue) + 1
      /\ \A i \in 1 .. Len(queue) : queue'[i] = queue[i]
      /\ queue'[Len(queue) + 1] = e
  BY <1>3, AppendProperties DEF MailTyped
<1>5. Len(queue) \in Nat /\ \A i \in 1 .. Len(queue) : queue[i] \in EventIds
  BY LenProperties, ElementOfSeq DEF MailTyped
<1>6. /\ \A f \in EventIds : stage'[f] = IF f = e THEN "queued" ELSE stage[f]
      /\ \A f \in EventIds : event'[f] = IF f = e THEN r ELSE event[f]
  BY <1>3 DEF MailTyped
<1>7. MailTyped'
  BY <1>3, <1>4 DEF MailTyped, Stages
<1>8. EmittedInOrder'
  BY <1>1, <1>6 DEF EmittedInOrder
<1>9. QueueFits'
  <2> USE DEF Increasing, Holds
  <2>1. ASSUME NEW i \in 1 .. Len(queue'), NEW j \in 1 .. Len(queue'), i < j
        PROVE  queue'[i] < queue'[j]
    <3>1. i \in 1 .. Len(queue)
      BY <1>4, <1>5, <2>1
    <3>2. CASE j \in 1 .. Len(queue)
      BY <1>4, <2>1, <3>1, <3>2 DEF QueueFits
    <3>3. CASE j = Len(queue) + 1
      <4>1. stage[queue[i]] = "queued" /\ queue[i] \in EventIds
        BY <1>5, <3>1 DEF QueueFits
      <4> QED BY <1>2, <1>4, <3>1, <3>3, <4>1
    <3> QED BY <1>4, <1>5, <3>2, <3>3
  <2>2. ASSUME NEW f \in EventIds
        PROVE  stage'[f] = "queued" <=> \E i \in 1 .. Len(queue') : queue'[i] = f
    <3>1. CASE f = e
      <4>1. Len(queue) + 1 \in 1 .. Len(queue')
        BY <1>4, <1>5
      <4> QED BY <1>4, <1>6, <3>1, <4>1
    <3>2. CASE f # e
      <4>1. stage[f] = "queued" <=> \E i \in 1 .. Len(queue) : queue[i] = f
        BY DEF QueueFits
      <4>2. ASSUME NEW i \in 1 .. Len(queue'), queue'[i] = f
            PROVE  i \in 1 .. Len(queue) /\ queue[i] = f
        BY <1>4, <1>5, <3>2, <4>2
      <4>3. \A i \in 1 .. Len(queue) : i \in 1 .. Len(queue')
        BY <1>4, <1>5
      <4> QED BY <1>4, <1>6, <3>2, <4>1, <4>2, <4>3
    <3> QED BY <3>1, <3>2
  <2>3. \A f \in EventIds : stage'[f] \in {"unsent", "queued"} => why'[f] = {}
    BY <1>1, <1>3, <1>6 DEF QueueFits
  <2> QED BY <2>1, <2>2, <2>3 DEF QueueFits
<1>10. TakenInOrder'
  BY <1>1, <1>2, <1>3, <1>6 DEF TakenInOrder, TakenMail, MailHandling, Overlapped
<1>11. InboxFits'
  <2>1. \A i \in 1 .. Len(inbox) : inbox[i] \in EventIds
    BY ElementOfSeq DEF MailTyped
  <2> QED BY <1>1, <1>3, <1>6, <2>1 DEF InboxFits, Overlapped
<1>12. LostIsBlamed'
  BY <1>1, <1>3, <1>6 DEF LostIsBlamed
<1> QED BY <1>7, <1>8, <1>9, <1>10, <1>11, <1>12

LEMMA EmitFailsKeeps ==
  ASSUME MailInv, NEW e \in EventIds, NEW r \in Routes, EmitFails(e, r)
  PROVE  MailInv'
<1> USE DEF MailInv
<1>1. /\ stage[e] = "unsent" /\ why[e] = {}
      /\ \A d \in EventIds : d < e => stage[d] # "unsent"
  BY DEF EmitFails, EmitNext, QueueFits
<1>2. /\ event' = [event EXCEPT ![e] = r]
      /\ stage' = [stage EXCEPT ![e] = "dropped"]
      /\ why' = [why EXCEPT ![e] = @ \cup {"broker"}]
      /\ queue' = queue /\ inbox' = inbox /\ alerted' = alerted
  BY DEF EmitFails, EmitNext, Drop
<1>3. /\ \A f \in EventIds : stage'[f] = IF f = e THEN "dropped" ELSE stage[f]
      /\ \A f \in EventIds : event'[f] = IF f = e THEN r ELSE event[f]
      /\ \A f \in EventIds : why'[f] = IF f = e THEN {"broker"} ELSE why[f]
  BY <1>1, <1>2 DEF MailTyped
<1>4. MailTyped'
  BY <1>2 DEF MailTyped, Stages, Reasons
<1>5. EmittedInOrder'
  BY <1>1, <1>3 DEF EmittedInOrder
<1>6. QueueFits'
  BY <1>1, <1>2, <1>3 DEF QueueFits
<1>7. TakenInOrder'
  BY <1>1, <1>3 DEF TakenInOrder, TakenMail, MailHandling, Overlapped
<1>8. InboxFits'
  <2>1. \A i \in 1 .. Len(inbox) : inbox[i] \in EventIds
    BY ElementOfSeq DEF MailTyped
  <2> QED BY <1>1, <1>2, <1>3, <2>1 DEF InboxFits, Overlapped
<1>9. LostIsBlamed'
  BY <1>3 DEF LostIsBlamed
<1> QED BY <1>4, <1>5, <1>6, <1>7, <1>8, <1>9

-----------------------------------------------------------------------------
(* Handing over.                                                            *)

(* A message nothing listens to is one of those that nobody should miss.    *)
LEMMA UnheardRoutes ==
  ASSUME NEW r \in Routes,
         IF r.to = "notification" THEN RenderedOn(r.what, SentMails) = {} ELSE r \notin Heard
  PROVE  Unheard(r)
<1>1. CASE r.to = "notification"
  <2>1. r.what \notin Mailed
    BY <1>1, RenderedIfMailed DEF Mailed
  <2>2. r.what # "catalog.stock.low"
    BY <2>1, MailedPatterns
  <2>3. CASE r.what \in {"auth.user.login", "auth.admin.login"}
    BY <2>3 DEF Unheard
  <2>4. CASE r.what \in {c.what : c \in CatalogEvents}
    <3>1. r = [to |-> "notification", what |-> r.what]
      BY <1>1 DEF Routes, AuthEvents, UserEvents, CatalogEvents, OrderEvents,
                  PaymentEvents, ContentEvents, WebhookEvents, To
    <3> QED BY <2>2, <2>4, <3>1 DEF Unheard, To
  <2>5. r \notin Heard /\ r \notin To("analytics", {c.what : c \in CatalogEvents})
        /\ r \notin To("catalog", {"catalog.stock.confirmed", "catalog.stock.released"})
    BY <1>1 DEF Heard, To
  <2> QED BY <1>1, <2>1, <2>3, <2>4, <2>5, RoutesAre
<1>2. CASE r.to # "notification"
  BY <1>2, RoutesAre DEF Unheard
<1> QED BY <1>1, <1>2

LEMMA DeliverMailKeeps ==
  ASSUME MailInv, NEW i \in 1 .. Len(queue), Deliver(i)
  PROVE  MailInv'
<1> USE DEF MailInv
<1> DEFINE e == queue[i]
<1>1. Len(queue) \in Nat /\ \A j \in 1 .. Len(queue) : queue[j] \in EventIds
  BY LenProperties, ElementOfSeq DEF MailTyped
<1>2. e \in EventIds /\ stage[e] = "queued" /\ why[e] = {} /\ event[e] \in Routes
  BY <1>1 DEF QueueFits, EmittedInOrder, Holds
<1>3. queue' = Seqs!RemoveAt(queue, i) /\ event' = event /\ inbox' = inbox
      /\ alerted' = alerted
  BY DEF Deliver
<1>4. /\ queue' \in Seq(EventIds) /\ Increasing(queue')
      /\ \A f : Holds(queue', f) <=> f # e /\ Holds(queue, f)
  <2>1. queue \in Seq(EventIds) /\ Increasing(queue)
    BY DEF MailTyped, QueueFits
  <2> QED BY <1>3, <2>1, LeftInQueue
<1>5. ASSUME NEW f \in EventIds, stage[f] = "queued", f # e, event[f].to = event[e].to
      PROVE  e < f
  <2>1. PICK k \in 1 .. Len(queue) : queue[k] = f
    BY <1>5 DEF QueueFits, Holds
  <2>2. ~(k < i)
    <3>1. \A j \in 1 .. (i - 1) : event[queue[j]].to # event[e].to
      BY DEF Deliver
    <3> QED BY <1>1, <1>5, <2>1, <3>1
  <2>3. k # i
    BY <1>5, <2>1
  <2> QED BY <1>1, <2>1, <2>2, <2>3 DEF QueueFits, Increasing
<1>6. /\ MailTyped' <=> stage' \in [EventIds -> Stages] /\ why' \in [EventIds -> SUBSET Reasons]
  BY <1>3, <1>4 DEF MailTyped
<1>7. \A j \in 1 .. Len(inbox) : inbox[j] \in EventIds /\ inbox[j] # e
  BY <1>2, ElementOfSeq DEF MailTyped, InboxFits
<1> HIDE DEF e
<1>11. ASSUME stage'[e] \notin {"unsent", "queued"},
              \A f \in EventIds : f # e => stage'[f] = stage[f],
              \A f \in EventIds :
                stage'[f] \in {"unsent", "queued"} => why'[f] = why[f]
       PROVE  QueueFits'
  <2>1. ASSUME NEW f \in EventIds
        PROVE  stage'[f] = "queued" <=> Holds(queue', f)
    BY <1>4, <1>11 DEF QueueFits
  <2>2. \A f \in EventIds : stage'[f] \in {"unsent", "queued"} => why'[f] = {}
    BY <1>11 DEF QueueFits
  <2> QED BY <1>4, <2>1, <2>2 DEF QueueFits
<1>8. CASE /\ stage' = [stage EXCEPT ![e] = "heard"] /\ why' = why
  <2>1. \A f \in EventIds : stage'[f] = IF f = e THEN "heard" ELSE stage[f]
    BY <1>8 DEF MailTyped
  <2>2. MailTyped'
    BY <1>2, <1>6, <1>8 DEF MailTyped, Stages
  <2>3. EmittedInOrder'
    BY <1>2, <1>3, <2>1 DEF EmittedInOrder
  <2>4. QueueFits'
    BY <1>2, <1>8, <1>11, <2>1
  <2>5. TakenInOrder'
    BY <1>3, <1>8, <2>1 DEF TakenInOrder, TakenMail, MailHandling, Overlapped
  <2>6. InboxFits'
    BY <1>3, <1>7, <1>8, <2>1 DEF InboxFits, Overlapped
  <2>7. LostIsBlamed'
    BY <1>3, <1>8, <2>1 DEF LostIsBlamed
  <2> QED BY <2>2, <2>3, <2>4, <2>5, <2>6, <2>7
<1>9. CASE /\ IF event[e].to = "notification" THEN RenderedOn(event[e].what, SentMails) = {}
              ELSE event[e] \notin Heard
           /\ Drop(e, "unheard")
  <2>1. /\ \A f \in EventIds : stage'[f] = IF f = e THEN "dropped" ELSE stage[f]
        /\ \A f \in EventIds : why'[f] = IF f = e THEN {"unheard"} ELSE why[f]
    BY <1>2, <1>9 DEF MailTyped, Drop
  <2>2. MailTyped'
    BY <1>2, <1>6, <1>9 DEF MailTyped, Stages, Reasons, Drop
  <2>3. EmittedInOrder'
    BY <1>2, <1>3, <2>1 DEF EmittedInOrder
  <2>4. QueueFits'
    BY <1>2, <1>11, <2>1
  <2>5. TakenInOrder'
    BY <1>3, <2>1 DEF TakenInOrder, TakenMail, MailHandling, Overlapped
  <2>6. InboxFits'
    BY <1>3, <1>7, <2>1 DEF InboxFits, Overlapped
  <2>7. LostIsBlamed'
    <3>1. Unheard(event[e])
      BY <1>2, <1>9, UnheardRoutes
    <3> QED BY <1>3, <2>1, <3>1 DEF LostIsBlamed
  <2> QED BY <2>2, <2>3, <2>4, <2>5, <2>6, <2>7
<1>10. CASE /\ event[e].to = "notification"
            /\ stage' = [stage EXCEPT ![e] = "handling"]
            /\ LET others == {d \in EventIds : MailHandling(d)} IN
               why' = [d \in EventIds |->
                         IF others # {} /\ d \in others \cup {e}
                         THEN why[d] \cup {"overlap"} ELSE why[d]]
  <2>1. /\ \A f \in EventIds : stage'[f] = IF f = e THEN "handling" ELSE stage[f]
        /\ \A f \in EventIds : why[f] \subseteq why'[f]
        /\ \A f \in EventIds : ~MailHandling(f) /\ f # e => why'[f] = why[f]
        /\ \A f \in EventIds :
             MailHandling(f) => "overlap" \in why'[f] /\ "overlap" \in why'[e]
    BY <1>2, <1>10 DEF MailTyped
  <2>2. MailTyped'
    BY <1>2, <1>6, <1>10 DEF MailTyped, Stages, Reasons
  <2>3. EmittedInOrder'
    BY <1>2, <1>3, <2>1 DEF EmittedInOrder
  <2>4. QueueFits'
    BY <1>2, <1>11, <2>1 DEF MailHandling
  <2>5. TakenInOrder'
    <3>1. \A f \in EventIds : TakenMail(f)' => event'[f].to = "notification"
      BY <1>3, <1>10, <2>1 DEF TakenInOrder, TakenMail
    <3>2. ASSUME NEW f \in EventIds, NEW g \in EventIds, stage'[f] = "queued",
                 event'[f].to = "notification", TakenMail(g)'
          PROVE  g < f
      <4>1. CASE g = e
        BY <1>3, <1>5, <1>10, <2>1, <3>2, <4>1
      <4>2. CASE g # e
        BY <1>3, <2>1, <3>2, <4>2 DEF TakenInOrder, TakenMail
      <4> QED BY <4>1, <4>2
    <3>3. ASSUME NEW f \in EventIds, NEW g \in EventIds, MailHandling(f)',
                 MailHandling(g)', f # g
          PROVE  Overlapped(f, g)'
      BY <2>1, <3>3 DEF TakenInOrder, MailHandling, Overlapped
    <3>4. ASSUME NEW f \in EventIds, NEW g \in EventIds, MailHandling(f)',
                 stage'[g] = "mailed", f < g
          PROVE  Overlapped(f, g)'
      <4>1. CASE f = e
        <5>1. g < e /\ e \in Nat /\ g \in Nat
          BY <1>2, <1>10, <2>1, <3>4, NotificationAssumption DEF TakenInOrder, TakenMail
        <5> QED BY <3>4, <4>1, <5>1
      <4>2. CASE f # e
        BY <2>1, <3>4, <4>2 DEF TakenInOrder, MailHandling, Overlapped
      <4> QED BY <4>1, <4>2
    <3> QED BY <3>1, <3>2, <3>3, <3>4 DEF TakenInOrder
  <2>6. InboxFits'
    BY <1>3, <1>7, <2>1 DEF InboxFits, Overlapped
  <2>7. LostIsBlamed'
    BY <1>3, <2>1 DEF LostIsBlamed, MailHandling
  <2> QED BY <2>2, <2>3, <2>4, <2>5, <2>6, <2>7
<1> QED
  BY <1>8, <1>9, <1>10, TemplatesExist DEF Deliver, CacheBound, e

-----------------------------------------------------------------------------
(* Mailing, failing and stopping.                                           *)

LEMMA SendEmailKeeps ==
  ASSUME MailInv, NEW e \in EventIds, SendEmail(e)
  PROVE  MailInv'
<1> USE DEF MailInv
<1>1. /\ MailHandling(e) /\ event' = event /\ queue' = queue /\ why' = why
      /\ inbox' = Append(inbox, e) /\ stage' = [stage EXCEPT ![e] = "mailed"]
      /\ alerted' \in BOOLEAN
  BY DEF SendEmail
<1>2. \A f \in EventIds : stage'[f] = IF f = e THEN "mailed" ELSE stage[f]
  BY <1>1 DEF MailTyped
<1>3. /\ inbox' \in Seq(EventIds) /\ Len(inbox') = Len(inbox) + 1
      /\ \A i \in 1 .. Len(inbox) : inbox'[i] = inbox[i]
      /\ inbox'[Len(inbox) + 1] = e
  BY <1>1, AppendProperties DEF MailTyped
<1>4. Len(inbox) \in Nat /\ \A i \in 1 .. Len(inbox) : inbox[i] \in EventIds
  BY LenProperties, ElementOfSeq DEF MailTyped
<1>5. MailTyped'
  BY <1>1, <1>3 DEF MailTyped, Stages
<1>6. EmittedInOrder'
  BY <1>1, <1>2 DEF EmittedInOrder, MailHandling
<1>7. QueueFits'
  BY <1>1, <1>2 DEF QueueFits, MailHandling
<1>8. TakenInOrder'
  <2>1. \A f \in EventIds : TakenMail(f)' => TakenMail(f) /\ event'[f].to = "notification"
    BY <1>1, <1>2 DEF TakenInOrder, TakenMail, MailHandling
  <2>2. \A f, g \in EventIds :
          stage'[f] = "queued" /\ event'[f].to = "notification" /\ TakenMail(g)' => g < f
    BY <1>1, <1>2, <2>1 DEF TakenInOrder
  <2>3. \A f, g \in EventIds :
          MailHandling(f)' /\ MailHandling(g)' /\ f # g => Overlapped(f, g)'
    BY <1>1, <1>2 DEF TakenInOrder, MailHandling, Overlapped
  <2>4. ASSUME NEW f \in EventIds, NEW g \in EventIds, MailHandling(f)',
               stage'[g] = "mailed", f < g
        PROVE  Overlapped(f, g)'
    <3>1. f # e /\ MailHandling(f)
      BY <1>2, <2>4 DEF MailHandling
    <3>2. CASE g = e
      BY <1>1, <3>1, <3>2 DEF TakenInOrder, Overlapped
    <3>3. CASE g # e
      BY <1>1, <1>2, <2>4, <3>1, <3>3 DEF TakenInOrder, Overlapped
    <3> QED BY <3>2, <3>3
  <2> QED BY <2>1, <2>2, <2>3, <2>4 DEF TakenInOrder
<1>9. InboxFits'
  <2>1. \A i \in 1 .. Len(inbox') : stage'[inbox'[i]] = "mailed"
    BY <1>2, <1>3, <1>4 DEF InboxFits
  <2>2. ASSUME NEW i \in 1 .. Len(inbox'), NEW j \in 1 .. Len(inbox'),
               i < j, inbox'[i] > inbox'[j]
        PROVE  Overlapped(inbox[i], inbox'[j]) /\ i \in 1 .. Len(inbox)
    <3>1. i \in 1 .. Len(inbox) /\ inbox'[i] = inbox[i]
      BY <1>3, <1>4, <2>2
    <3>2. CASE j \in 1 .. Len(inbox)
      BY <1>3, <2>2, <3>1, <3>2 DEF InboxFits
    <3>3. CASE j = Len(inbox) + 1
      <4>1. inbox[i] \in EventIds /\ stage[inbox[i]] = "mailed" /\ inbox[i] > e
        BY <1>3, <1>4, <2>2, <3>1, <3>3 DEF InboxFits
      <4>2. e < inbox[i]
        BY <4>1, NotificationAssumption
      <4>3. Overlapped(e, inbox[i])
        BY <1>1, <4>1, <4>2 DEF TakenInOrder
      <4> QED BY <1>3, <3>1, <3>3, <4>3 DEF Overlapped
    <3> QED BY <1>3, <1>4, <3>1, <3>2, <3>3
  <2> QED BY <1>1, <1>3, <2>1, <2>2 DEF InboxFits, Overlapped
<1>10. LostIsBlamed'
  BY <1>1, <1>2 DEF LostIsBlamed
<1> QED BY <1>5, <1>6, <1>7, <1>8, <1>9, <1>10

(* Some messages of one stage are lost, each with a reason.                 *)
LostMail(from, reason) ==
  /\ stage' \in [EventIds -> Stages] /\ why' \in [EventIds -> SUBSET Reasons]
  /\ \A f \in EventIds :
       \/ stage'[f] = stage[f] /\ why'[f] = why[f]
       \/ /\ stage[f] = from /\ stage'[f] = "dropped"
          /\ why'[f] = why[f] \cup {reason}
  /\ UNCHANGED <<event, inbox, alerted>>

LEMMA LostKeeps ==
  ASSUME MailInv, NEW from \in {"handling", "queued"},
         NEW reason \in {"broker", "smtp", "stop"}, LostMail(from, reason),
         queue' \in Seq(EventIds), QueueFits'
  PROVE  MailInv'
<1> USE DEF MailInv
<1>1. /\ event' = event /\ inbox' = inbox /\ alerted' = alerted
      /\ \A f \in EventIds : why[f] \subseteq why'[f]
      /\ \A f \in EventIds : stage'[f] # "dropped" => stage'[f] = stage[f]
      /\ \A f \in EventIds : stage[f] = "mailed" => stage'[f] = "mailed"
      /\ \A f \in EventIds : stage'[f] = "dropped" =>
           \/ stage[f] = "dropped" /\ why'[f] = why[f]
           \/ reason \in why'[f]
  BY DEF LostMail
<1>2. MailTyped'
  BY DEF LostMail, MailTyped
<1>3. EmittedInOrder'
  BY DEF EmittedInOrder, LostMail
<1>4. TakenInOrder'
  BY <1>1 DEF TakenInOrder, TakenMail, MailHandling, Overlapped
<1>5. InboxFits'
  <2>1. \A i \in 1 .. Len(inbox) : inbox[i] \in EventIds
    BY ElementOfSeq DEF MailTyped
  <2> QED BY <1>1, <2>1 DEF InboxFits, Overlapped
<1>6. LostIsBlamed'
  BY <1>1 DEF LostIsBlamed
<1> QED BY <1>2, <1>3, <1>4, <1>5, <1>6

LEMMA SendFailsKeeps ==
  ASSUME MailInv, NEW e \in EventIds, SendFails(e)
  PROVE  MailInv'
<1>1. queue' = queue /\ stage[e] = "handling"
  BY DEF SendFails, MailHandling
<1>2. LostMail("handling", "smtp")
  BY <1>1 DEF SendFails, Drop, LostMail, MailInv, MailTyped, Stages, Reasons
<1>3. QueueFits'
  BY <1>1, <1>2 DEF LostMail, MailInv, QueueFits
<1> QED BY <1>1, <1>2, <1>3, LostKeeps DEF MailInv, MailTyped

LEMMA MailerDiesKeeps ==
  ASSUME MailInv, MailerDies
  PROVE  MailInv'
<1>1. queue' = queue
  BY DEF MailerDies
<1>2. LostMail("handling", "stop")
  BY DEF MailerDies, MailHandling, LostMail, MailInv, MailTyped, Stages, Reasons
<1>3. QueueFits'
  BY <1>1, <1>2 DEF LostMail, MailInv, QueueFits
<1> QED BY <1>1, <1>2, <1>3, LostKeeps DEF MailInv, MailTyped

LEMMA BrokerRestartsKeeps ==
  ASSUME MailInv, BrokerRestarts
  PROVE  MailInv'
<1>1. queue' = <<>> /\ queue' \in Seq(EventIds) /\ Len(queue') = 0
  BY EmptySeq DEF BrokerRestarts
<1>2. LostMail("queued", "broker")
  BY DEF BrokerRestarts, LostMail, MailInv, MailTyped, Stages, Reasons
<1>3. QueueFits'
  <2>1. \A f \in EventIds :
          /\ stage'[f] # "queued"
          /\ stage'[f] = "unsent" => stage[f] = "unsent" /\ why'[f] = why[f]
    BY DEF BrokerRestarts, MailInv, MailTyped
  <2> QED BY <1>1, <2>1 DEF MailInv, QueueFits, Increasing, Holds
<1> QED BY <1>1, <1>2, <1>3, LostKeeps

LEMMA MailInvKept == MailInv /\ [MailNext]_mailVars => MailInv'
<1> SUFFICES ASSUME MailInv, [MailNext]_mailVars PROVE MailInv'
  OBVIOUS
<1>1. CASE UNCHANGED mailVars
  BY <1>1 DEF mailVars, MailInv, MailTyped, EmittedInOrder, QueueFits, TakenInOrder,
              InboxFits, LostIsBlamed, TakenMail, MailHandling, Overlapped
<1>2. CASE MailNext
  <2>1. DOMAIN queue = 1 .. Len(queue)
    BY LenProperties DEF MailInv, MailTyped
  <2> QED
    BY <1>2, <2>1, EmitEventKeeps, EmitFailsKeeps, DeliverMailKeeps, SendEmailKeeps,
       SendFailsKeeps, MailerDiesKeeps, BrokerRestartsKeeps DEF MailNext
<1> QED BY <1>1, <1>2

(* Every mail that an event asks for is sent, or a mail server, a broker or *)
(* a stop is to blame; the newest of two mails comes last, whoever reads    *)
(* them, unless they were handled at a time.                                *)
THEOREM MailsAreAccounted == MailSpec => []MailsAccounted
<1>1. MailInv => MailsAccounted
  <2> SUFFICES ASSUME MailInv PROVE MailsAccounted
    OBVIOUS
  <2>1. DOMAIN inbox = 1 .. Len(inbox)
    BY LenProperties DEF MailInv, MailTyped
  <2>2. NewestMailLast
    BY <2>1 DEF MailInv, InboxFits, NewestMailLast, Overlapped
  <2> QED BY <2>2 DEF MailInv, MailsAccounted
<1> QED BY <1>1, MailInvInit, MailInvKept, PTL DEF MailSpec
=============================================================================
