--------------------------- MODULE SessionsProofs ---------------------------
(***************************************************************************)
(* What holds of the refresh tokens and the row of a user, and of the      *)
(* administrators, for any number of tokens, passwords, administrators and *)
(* calls and any cap on sessions.                                          *)
(***************************************************************************)
EXTENDS Sessions, AdminAccess, FiniteSetTheorems, WellFoundedInduction, TLAPS

-----------------------------------------------------------------------------
(* Users.                                                                   *)

SessCalm == "overlap" \notin sessFault
OneSessCall == \A s, t \in SessBusy : s = t
TokenMade(i) == token[i] # NoToken
Opens(s) == SessAt(s, "list") \/ SessAt(s, "trim") \/ SessAt(s, "insert")
Renews(s) == SessAt(s, "user") \/ SessAt(s, "rotate")

(* Whatever overlaps: tokens are made in order, logins, logouts and calls   *)
(* are about tokens that were made.                                         *)
SessMade ==
  /\ \A i \in TokenIds : TokenMade(i) => i \in sessLoad.tokens /\ TokenMade(token[i].login)
  /\ \A l \in loggedOut : TokenMade(l)
  /\ \A s \in SessSlots : Renews(s) => TokenMade(sessCall[s].id)
  /\ \A s \in SessSlots : Opens(s) /\ sessCall[s].login # NoToken => TokenMade(sessCall[s].login)
  /\ \A s \in SessSlots : SessAt(s, "saveUser") /\ sessCall[s].edit.op = "password" =>
       sessCall[s].copy.pw < MaxPasswords
  /\ \A i \in TokenIds, j \in sessLoad.tokens : TokenMade(i) /\ j < i => TokenMade(j)
  /\ IsFiniteSet(LiveTokens)

(* While calls do not overlap, a call's copy of the row is current, and     *)
(* there is room for the token it is about to insert.                       *)
CallHolds(s) ==
  /\ SessAt(s, "saveUser") => sessCall[s].copy = userRow
  /\ SessAt(s, "trim") => Cardinality(LiveTokens \ sessCall[s].todo) < MaxSessions
  /\ SessAt(s, "insert") => Cardinality(LiveTokens) < MaxSessions
CallsHold == \A s \in SessSlots : CallHolds(s)
Bounded == Cardinality(LiveTokens) <= MaxSessions

(* Nor was a token refreshed in its grace period: the token a call renews   *)
(* is live until it is revoked, and then its login has none.                *)
CallRenews(s) ==
  /\ Renews(s) => Is(sessCall[s].id, "live") /\ ~sessCall[s].grace
  /\ Opens(s) /\ sessCall[s].login # NoToken =>
       OfLogin(sessCall[s].login) = {} /\ sessCall[s].login \notin loggedOut
CallsRenew == \A s \in SessSlots : CallRenews(s)
LoginsFit == \A i \in LiveTokens : Newest(i) /\ token[i].login \notin loggedOut

(* And nothing was lost: what is live, or about to be, is from now, or what *)
(* ends it is on its way.                                                   *)
EndingPending ==
        revocations # {} \/ \E s \in SessSlots : SessAt(s, "revoke") \/ SessAt(s, "emit")
LiveFollow == \A i \in LiveTokens : FromNow(i)
CallFollows(s) == Opens(s) => userRow.active /\ sessCall[s].pw = userRow.pw
FollowFits == EndingPending \/ (LiveFollow /\ \A s \in SessSlots : CallFollows(s))

SessCalmInv ==
  SessCalm =>
    /\ OneSessCall /\ CallsHold /\ Bounded
    /\ "grace" \notin sessFault => CallsRenew /\ LoginsFit
    /\ sessFault = {} => FollowFits

SessInv == SessTypeOK /\ SessMade /\ SessCalmInv

-----------------------------------------------------------------------------
(* As for the other parts: a step owes what its marks do not excuse.        *)
LEMMA SessBlamed ==
  ASSUME SessTypeOK', NEW marks, BlameSess(marks),
         SessCalm /\ "overlap" \notin marks /\ OneSessCall' =>
           /\ CallsHold' /\ Bounded'
           /\ "grace" \notin sessFault \cup marks => CallsRenew' /\ LoginsFit'
           /\ sessFault = {} /\ marks = {} => FollowFits'
  PROVE  SessCalmInv'
<1>1. CASE SessQuiet' /\ SessionsInOrder'
  <2>1. \A s \in SessSlots : sessCall'[s] = [pc |-> "idle"]
    BY <1>1 DEF SessQuiet, SessBusy, NoSessCall
  <2>2. OneSessCall' /\ CallsHold' /\ CallsRenew'
    BY <1>1, <2>1 DEF SessQuiet, OneSessCall, CallsHold, CallHolds, CallsRenew, CallRenews,
                      Opens, Renews, SessAt
  <2>3. Bounded' /\ LoginsFit'
    BY <1>1 DEF SessionsInOrder, Bounded, LoginsFit
  <2>4. FollowFits'
    BY <1>1, <2>1 DEF SessionsInOrder, FollowFits, LiveFollow, CallFollows, Opens, SessAt
  <2> QED BY <2>2, <2>3, <2>4 DEF SessCalmInv
<1>2. CASE ~(SessQuiet' /\ SessionsInOrder')
  <2>1. sessFault' = sessFault \cup marks
                       \cup IF \E s, t \in SessBusy' : s # t THEN {"overlap"} ELSE {}
    BY <1>2 DEF BlameSess
  <2>2. SessCalm' => SessCalm /\ "overlap" \notin marks /\ OneSessCall'
    BY <2>1 DEF SessCalm, OneSessCall
  <2>3. sessFault \cup marks \subseteq sessFault'
    BY <2>1
  <2> QED BY <2>2, <2>3 DEF SessCalmInv
<1> QED BY <1>1, <1>2

(* What a call holds.                                                       *)
LEMMA SessRecords ==
  ASSUME SessTypeOK, NEW s \in SessSlots
  PROVE  /\ sessCall[s] \in SessCalls
         /\ Renews(s) => sessCall[s].id \in TokenIds /\ sessCall[s].grace \in BOOLEAN
         /\ Opens(s) => /\ sessCall[s].login \in TokenIds \cup {NoToken}
                        /\ sessCall[s].pw \in 0..MaxPasswords
                        /\ sessCall[s].todo \subseteq TokenIds
         /\ SessAt(s, "saveUser") => sessCall[s].edit \in Edits /\ sessCall[s].copy \in User
         /\ SessAt(s, "emit") => /\ sessCall[s].news \subseteq {"password", "deleted"}
                                 /\ sessCall[s].news # {}
         /\ ~SessAt(s, "idle") => s \in SessBusy
         /\ sessCall[s] = NoSessCall => SessAt(s, "idle")
<1>1. sessCall[s] \in SessCalls
  BY DEF SessTypeOK
<1>2. Renews(s) => sessCall[s].id \in TokenIds /\ sessCall[s].grace \in BOOLEAN
  BY <1>1 DEF SessCalls, Renews, SessAt
<1>3. Opens(s) => /\ sessCall[s].login \in TokenIds \cup {NoToken}
                  /\ sessCall[s].pw \in 0..MaxPasswords
                  /\ sessCall[s].todo \subseteq TokenIds
  BY <1>1 DEF SessCalls, Opens, SessAt
<1>4. SessAt(s, "saveUser") => sessCall[s].edit \in Edits /\ sessCall[s].copy \in User
  BY <1>1 DEF SessCalls, SessAt
<1>5. SessAt(s, "emit") => sessCall[s].news \subseteq {"password", "deleted"} /\ sessCall[s].news # {}
  BY <1>1 DEF SessCalls, SessAt
<1>6. (~SessAt(s, "idle") => s \in SessBusy) /\ (sessCall[s] = NoSessCall => SessAt(s, "idle"))
  BY DEF SessBusy, NoSessCall, SessAt
<1> QED BY <1>1, <1>2, <1>3, <1>4, <1>5, <1>6

LEMMA TokenRows ==
  ASSUME SessTypeOK, NEW i \in TokenIds, TokenMade(i)
  PROVE  token[i] \in RefreshToken
  BY DEF SessTypeOK, TokenMade

LEMMA OtherCallsRest ==
  ASSUME NEW s \in SessSlots,
         \A t \in SessSlots : t # s => sessCall'[t] = sessCall[t],
         (OneSessCall /\ s \in SessBusy) \/ (OneSessCall' /\ s \in SessBusy')
  PROVE  \A t \in SessSlots : t # s =>
           sessCall[t] = [pc |-> "idle"] /\ sessCall'[t] = [pc |-> "idle"]
  BY DEF OneSessCall, SessBusy, NoSessCall

-----------------------------------------------------------------------------
(* All steps but InsertToken make no token and revive none.                 *)
TokensStay ==
  /\ token' \in [TokenIds -> RefreshToken \cup {NoToken}]
  /\ \A i \in TokenIds : TokenMade(i)' <=> TokenMade(i)
  /\ \A i \in TokenIds : TokenMade(i) =>
       /\ token'[i].login = token[i].login /\ token'[i].pw = token[i].pw
       /\ Is(i, "live")' => Is(i, "live")

LEMMA TokensStayUnchanged ==
  ASSUME SessTypeOK, token' = token
  PROVE  TokensStay
  BY DEF SessTypeOK, TokensStay, TokenMade, Is

LEMMA RevokedStay ==
  ASSUME SessTypeOK, NEW ids, token' = Revoked(ids)
  PROVE  TokensStay /\ LiveTokens' = LiveTokens \ ids
<1>1. ASSUME NEW i \in TokenIds, TokenMade(i)
      PROVE  /\ token'[i] \in RefreshToken /\ TokenMade(i)'
             /\ token'[i].login = token[i].login /\ token'[i].pw = token[i].pw
             /\ Is(i, "live")' <=> Is(i, "live") /\ i \notin ids
  <2>1. token[i] \in RefreshToken
    BY <1>1, TokenRows
  <2>2. token'[i] = IF i \in ids /\ Is(i, "live") THEN [token[i] EXCEPT !.st = "grace"]
                    ELSE token[i]
    BY DEF Revoked
  <2>3. [token[i] EXCEPT !.st = "grace"] \in RefreshToken
    BY <2>1 DEF RefreshToken
  <2>4. token'[i] \in RefreshToken
    BY <2>1, <2>2, <2>3
  <2>5. TokenMade(i)'
    BY <2>4, SessionAssumption DEF TokenMade
  <2>6. CASE i \in ids /\ Is(i, "live")
    <3>1. token'[i] = [token[i] EXCEPT !.st = "grace"]
      BY <2>2, <2>6
    <3>2. token'[i].st = "grace" /\ token'[i].login = token[i].login /\ token'[i].pw = token[i].pw
      BY <2>1, <3>1 DEF RefreshToken
    <3> QED BY <2>4, <2>5, <2>6, <3>2 DEF Is
  <2>7. CASE ~(i \in ids /\ Is(i, "live"))
    BY <2>2, <2>4, <2>5, <2>7 DEF Is
  <2> QED BY <2>6, <2>7
<1>2. ASSUME NEW i \in TokenIds, ~TokenMade(i)
      PROVE  token'[i] = NoToken
  BY <1>2 DEF TokenMade, Revoked, Is
<1>3. TokensStay
  <2>1. token' \in [TokenIds -> RefreshToken \cup {NoToken}]
    BY <1>1, <1>2 DEF Revoked
  <2> QED BY <1>1, <1>2, <2>1 DEF TokensStay, TokenMade
<1>4. \A i \in TokenIds : i \in LiveTokens' <=> i \in LiveTokens \ ids
  BY <1>1, <1>2 DEF LiveTokens, Is, TokenMade
<1>5. LiveTokens' \subseteq TokenIds /\ LiveTokens \subseteq TokenIds
  BY DEF LiveTokens
<1> QED BY <1>3, <1>4, <1>5

(* One token changes its state or its expiry.                               *)
LEMMA OneTokenStays ==
  ASSUME SessTypeOK, NEW i \in TokenIds, TokenMade(i), NEW u \in RefreshToken,
         token' = [token EXCEPT ![i] = u],
         u.login = token[i].login, u.pw = token[i].pw,
         u.st = "live" => token[i].st = "live"
  PROVE  /\ TokensStay
         /\ token[i].st = u.st => LiveTokens' = LiveTokens
         /\ token[i].st # "live" => LiveTokens' = LiveTokens
         /\ u.st # "live" => LiveTokens' = LiveTokens \ {i}
<1>1. token'[i] = u /\ \A j \in TokenIds : j # i => token'[j] = token[j]
  BY DEF SessTypeOK
<1>2. u # NoToken
  BY SessionAssumption
<1>3. TokensStay
  <2>1. token' \in [TokenIds -> RefreshToken \cup {NoToken}]
    BY DEF SessTypeOK
  <2> QED BY <1>1, <1>2, <2>1 DEF TokensStay, TokenMade, Is
<1>4. \A j \in TokenIds : j \in LiveTokens' <=> (j # i /\ j \in LiveTokens) \/ (j = i /\ u.st = "live")
  BY <1>1, <1>2 DEF LiveTokens, Is
<1>5. i \in LiveTokens <=> token[i].st = "live"
  BY DEF LiveTokens, Is, TokenMade
<1>6. LiveTokens' \subseteq TokenIds /\ LiveTokens \subseteq TokenIds
  BY DEF LiveTokens
<1> QED BY <1>3, <1>4, <1>5, <1>6
(* A set of numbers that is not empty has a least one.                      *)
LEMMA LessIsWellFounded ==
  \E R : IsWellFoundedOn(R, Nat) /\ \A x, y \in Nat : x < y => <<x, y>> \in R
<1>1. IsWellFoundedOn(OpToRel(<, Nat), Nat)
  BY NatLessThanWellFounded, Zenon
<1>2. \A x, y \in Nat : x < y => <<x, y>> \in OpToRel(<, Nat)
  BY DEF OpToRel
<1> QED BY <1>1, <1>2

LEMMA NatSetHasLeast ==
  ASSUME NEW S, S \subseteq Nat, S # {}
  PROVE  \E m \in S : \A k \in S : m <= k
<1>1. PICK R : IsWellFoundedOn(R, Nat) /\ \A x, y \in Nat : x < y => <<x, y>> \in R
  BY LessIsWellFounded
<1>2. PICK m \in S : \A y \in S : <<y, m>> \notin R
  <2>1. IsWellFoundedOn(R, Nat) /\ S \subseteq Nat /\ S # {}
    BY <1>1
  <2> QED BY ONLY <2>1, WFMin, Zenon
<1>3. ASSUME NEW k \in S
      PROVE  m <= k
  <2>1. ~(k < m)
    BY <1>1, <1>2
  <2>2. k \in Nat /\ m \in Nat
    OBVIOUS
  <2> QED BY <2>1, <2>2
<1> QED BY <1>3

(* Room for the new token: as many of the oldest go as it takes.            *)
LEMMA ExcessLeavesRoom ==
  ASSUME NEW ids \in SUBSET TokenIds, IsFiniteSet(ids), Cardinality(ids) <= MaxSessions
  PROVE  /\ Excess(ids) \subseteq ids
         /\ Excess(ids) = {} => Cardinality(ids) < MaxSessions
         /\ Cardinality(ids \ Excess(ids)) < MaxSessions
<1>1. Cardinality(ids) \in Nat /\ MaxSessions \in Nat \ {0} /\ ids \subseteq Nat
  BY FS_CardinalityType, SessionAssumption
<1>2. CASE Cardinality(ids) < MaxSessions
  <2>1. Excess(ids) = {}
    BY <1>1, <1>2 DEF Excess
  <2> QED BY <1>1, <1>2, <2>1
<1>3. CASE Cardinality(ids) = MaxSessions
  <2>1. Excess(ids) = Oldest(ids, 1)
    BY <1>1, <1>3 DEF Excess
  <2>2. ids # {}
    BY <1>1, <1>3, FS_EmptySet
  <2>3. PICK m \in ids : \A k \in ids : m <= k
    BY <1>1, <2>2, NatSetHasLeast
  <2>4. ASSUME NEW i \in ids
        PROVE  i \in Oldest(ids, 1) <=> i = m
    <3> DEFINE below == {j \in ids : j < i}
    <3>1. IsFiniteSet(below) /\ Cardinality(below) \in Nat
      BY FS_Subset, FS_CardinalityType
    <3>2. Cardinality(below) < 1 <=> below = {}
      BY <3>1, FS_EmptySet
    <3>3. below = {} <=> i = m
      <4>1. \A j \in ids : j \in Nat
        BY <1>1
      <4>2. ASSUME i = m, NEW j \in below
            PROVE  FALSE
        BY <2>3, <4>1, <4>2
      <4>3. i # m => m \in below
        BY <2>3, <4>1
      <4> QED BY <4>2, <4>3
    <3> QED BY <3>2, <3>3 DEF Oldest
  <2>5. Oldest(ids, 1) = {m}
    BY <2>4 DEF Oldest
  <2>6. Cardinality(ids \ {m}) = Cardinality(ids) - 1
    BY FS_RemoveElement
  <2> QED BY <1>1, <1>3, <2>1, <2>5, <2>6
<1> QED BY <1>1, <1>2, <1>3

LEMMA FewerLive ==
  ASSUME SessMade, TokensStay
  PROVE  /\ LiveTokens' \subseteq LiveTokens
         /\ IsFiniteSet(LiveTokens')
         /\ \A todo : Cardinality(LiveTokens' \ todo) <= Cardinality(LiveTokens \ todo)
         /\ Cardinality(LiveTokens') <= Cardinality(LiveTokens)
         /\ Cardinality(LiveTokens) \in Nat /\ Cardinality(LiveTokens') \in Nat
         /\ \A todo : Cardinality(LiveTokens' \ todo) \in Nat
                        /\ Cardinality(LiveTokens \ todo) \in Nat
<1>1. LiveTokens' \subseteq LiveTokens
  BY DEF LiveTokens, TokensStay, Is, TokenMade
<1>2. IsFiniteSet(LiveTokens)
  BY DEF SessMade
<1>3. IsFiniteSet(LiveTokens') /\ Cardinality(LiveTokens') <= Cardinality(LiveTokens)
  BY <1>1, <1>2, FS_Subset
<1>4. ASSUME NEW todo
      PROVE  /\ Cardinality(LiveTokens' \ todo) <= Cardinality(LiveTokens \ todo)
             /\ Cardinality(LiveTokens' \ todo) \in Nat
             /\ Cardinality(LiveTokens \ todo) \in Nat
  <2>1. IsFiniteSet(LiveTokens \ todo) /\ IsFiniteSet(LiveTokens' \ todo)
    BY <1>2, <1>3, FS_Difference
  <2>2. LiveTokens' \ todo \in SUBSET (LiveTokens \ todo)
    BY <1>1
  <2> QED BY <2>1, <2>2, FS_Subset, FS_CardinalityType
<1> QED BY <1>1, <1>2, <1>3, <1>4, FS_CardinalityType

-----------------------------------------------------------------------------
OtherCallsIdle(s) == \A t \in SessSlots : t # s => sessCall[t].pc = "idle"

(* What a step that makes no token must show of its call.                   *)
LEMMA CallStep ==
  ASSUME SessInv, NEW s \in SessSlots, NEW r \in SessCalls, NEW marks \in SUBSET SessFaults,
         sessCall' = [sessCall EXCEPT ![s] = r], BlameSess(marks), TokensStay,
         UNCHANGED <<loggedOut, sessLoad>>,
         sessCall[s] # NoSessCall \/ r # NoSessCall,
         userRow' \in User, revocations' \subseteq {"password", "deleted"},
         r.pc \in {"user", "rotate"} => TokenMade(r.id),
         r.pc \in {"list", "trim", "insert"} /\ r.login # NoToken => TokenMade(r.login),
         r.pc = "saveUser" /\ r.edit.op = "password" => r.copy.pw < MaxPasswords,
         CallHolds(s) /\ Bounded => CallHolds(s)',
         "grace" \notin sessFault \cup marks /\ CallRenews(s) /\ LoginsFit => CallRenews(s)',
         marks = {} /\ CallHolds(s) /\ CallRenews(s) /\ LoginsFit /\ FollowFits
           /\ OtherCallsIdle(s) => EndingPending' \/ (LiveFollow' /\ CallFollows(s)')
  PROVE  SessInv'
<1> USE DEF SessInv
<1>1. /\ sessCall' \in [SessSlots -> SessCalls] /\ sessCall'[s] = r
      /\ \A t \in SessSlots : t # s => sessCall'[t] = sessCall[t]
      /\ SessAt(s, r.pc)'
  BY DEF SessTypeOK, SessAt
<1>2. SessTypeOK'
  BY <1>1 DEF SessTypeOK, BlameSess, SessFaults, TokensStay
<1>3. SessMade'
  <2>1. \A i \in TokenIds : TokenMade(i)' => i \in sessLoad'.tokens /\ TokenMade(token[i].login)'
    BY TokenRows DEF SessMade, TokensStay, RefreshToken
  <2>2. \A l \in loggedOut' : TokenMade(l)'
    BY DEF SessMade, TokensStay, SessTypeOK
  <2>3. \A t \in SessSlots : Renews(t)' => TokenMade(sessCall[t].id)'
    <3>1. Renews(s)' => r.id \in TokenIds
      BY <1>1, <1>2, SessRecords DEF Renews, SessAt, SessCalls
    <3> QED BY <1>1, <3>1, SessRecords DEF SessMade, TokensStay, Renews, SessAt
  <2>4. \A t \in SessSlots : Opens(t)' /\ sessCall'[t].login # NoToken => TokenMade(sessCall[t].login)'
    <3>1. Opens(s)' => r.login \in TokenIds \cup {NoToken}
      BY <1>1, <1>2, SessRecords DEF Opens, SessAt, SessCalls
    <3> QED BY <1>1, <3>1, SessRecords DEF SessMade, TokensStay, Opens, SessAt
  <2>5. \A t \in SessSlots : SessAt(t, "saveUser")' /\ sessCall'[t].edit.op = "password" =>
          sessCall'[t].copy.pw < MaxPasswords
    BY <1>1 DEF SessMade, SessAt
  <2>6. \A i \in TokenIds, j \in sessLoad'.tokens : TokenMade(i)' /\ j < i => TokenMade(j)'
    BY SessionAssumption DEF SessMade, TokensStay, SessTypeOK
  <2>7. IsFiniteSet(LiveTokens')
    BY FewerLive
  <2> QED BY <2>1, <2>2, <2>3, <2>4, <2>5, <2>6, <2>7 DEF SessMade, TokensStay
<1>4. ASSUME SessCalm, "overlap" \notin marks, OneSessCall'
      PROVE  /\ CallsHold' /\ Bounded'
             /\ "grace" \notin sessFault \cup marks => CallsRenew' /\ LoginsFit'
             /\ sessFault = {} /\ marks = {} => FollowFits'
  <2>1. \A t \in SessSlots : t # s =>
          sessCall[t] = [pc |-> "idle"] /\ sessCall'[t] = [pc |-> "idle"]
    BY <1>1, <1>4, OtherCallsRest DEF SessCalmInv, SessBusy
  <2>2. CallHolds(s) /\ Bounded
    BY <1>4 DEF SessCalmInv, CallsHold
  <2>3. CallsHold'
    <3>1. CallHolds(s)'
      BY <2>2
    <3>2. \A t \in SessSlots : t # s => CallHolds(t)'
      BY <2>1 DEF CallHolds, SessAt
    <3> QED BY <3>1, <3>2 DEF CallsHold
  <2>4. Bounded'
    BY <2>2, FewerLive, SessionAssumption DEF Bounded
  <2>5. ASSUME "grace" \notin sessFault \cup marks
        PROVE  CallsRenew' /\ LoginsFit'
    <3>1. CallRenews(s) /\ LoginsFit
      BY <1>4, <2>5 DEF SessCalmInv, CallsRenew
    <3>2. CallsRenew'
      BY <2>1, <2>5, <3>1 DEF CallsRenew, CallRenews, Renews, Opens, SessAt
    <3>3. LoginsFit'
      BY <3>1, FewerLive DEF LoginsFit, Newest, TokensStay, TokenMade, LiveTokens, Is
    <3> QED BY <3>2, <3>3
  <2>6. ASSUME sessFault = {}, marks = {}
        PROVE  FollowFits'
    <3>1. CallRenews(s) /\ LoginsFit /\ FollowFits
      BY <1>4, <2>6 DEF SessCalmInv, CallsRenew
    <3>2. OtherCallsIdle(s) /\ \A t \in SessSlots : t # s => CallFollows(t)'
      BY <2>1 DEF OtherCallsIdle, CallFollows, Opens, SessAt
    <3>3. EndingPending' \/ (LiveFollow' /\ CallFollows(s)')
      BY <2>2, <2>6, <3>1, <3>2
    <3> QED BY <3>2, <3>3 DEF FollowFits
  <2> QED BY <2>3, <2>4, <2>5, <2>6
<1>5. SessCalmInv'
  BY <1>2, <1>4, SessBlamed
<1> QED BY <1>2, <1>3, <1>5


(* What was current or on its way to be ended is still so.                  *)
LEMMA FollowStays ==
  ASSUME SessTypeOK, TokensStay, NEW s \in SessSlots, NEW r,
         sessCall' = [sessCall EXCEPT ![s] = r], UNCHANGED <<userRow, revocations>>,
         ~SessAt(s, "revoke") /\ ~SessAt(s, "emit")
  PROVE  (EndingPending => EndingPending') /\ (LiveFollow => LiveFollow')
<1>1. \A t \in SessSlots : t # s => sessCall'[t] = sessCall[t]
  BY DEF SessTypeOK
<1>2. EndingPending => EndingPending'
  BY <1>1 DEF EndingPending, SessAt
<1>3. LiveFollow => LiveFollow'
  BY DEF LiveFollow, FromNow, TokensStay, LiveTokens, Is, TokenMade
<1> QED BY <1>2, <1>3

LEMMA SessTypes ==
  ASSUME SessInv
  PROVE  /\ userRow \in User /\ revocations \subseteq {"password", "deleted"}
         /\ SessTypeOK /\ SessMade
         /\ NoSessCall \in SessCalls /\ NoSessCall.pc = "idle"
         /\ {} \in SUBSET SessFaults
  BY DEF SessInv, SessTypeOK, SessCalls, NoSessCall

-----------------------------------------------------------------------------
(* The calls, one after the other.                                          *)
LEMMA LoginKeeps ==
  ASSUME SessInv, NEW s \in SessSlots, Login(s)
  PROVE  SessInv'
<1> DEFINE r == [pc |-> "list", login |-> NoToken, pw |-> userRow.pw, todo |-> {}]
<1>1. /\ userRow.active /\ sessCall[s] = NoSessCall /\ BlameSess({})
      /\ sessCall' = [sessCall EXCEPT ![s] = r]
      /\ UNCHANGED <<userRow, token, loggedOut, revocations, sessLoad>>
  BY DEF Login, BeginSess
<1>2. sessCall'[s] = r
  BY <1>1, SessTypes DEF SessTypeOK
<1>3. r \in SessCalls /\ r # NoSessCall
  BY SessTypes DEF SessCalls, NoSessCall, User
<1>4. r.pc = "list" /\ r.login = NoToken /\ r.pw = userRow.pw
  OBVIOUS
<1> HIDE DEF r
<1>5. CallHolds(s)' /\ CallRenews(s)' /\ CallFollows(s)'
  BY <1>1, <1>2, <1>4 DEF CallHolds, CallRenews, CallFollows, Renews, Opens, SessAt
<1>6. TokensStay
  BY <1>1, SessTypes, TokensStayUnchanged
<1>7. (EndingPending => EndingPending') /\ (LiveFollow => LiveFollow')
  BY <1>1, <1>6, SessTypes, SessRecords, FollowStays DEF SessAt
<1> QED BY <1>1, <1>3, <1>4, <1>5, <1>6, <1>7, SessTypes, CallStep DEF FollowFits

LEMMA RefreshKeeps ==
  ASSUME SessInv, NEW s \in SessSlots, NEW i \in TokenIds, Refresh(s, i)
  PROVE  SessInv'
<1> DEFINE r == [pc |-> "user", id |-> i, grace |-> token[i].st # "live"]
           marks == IF token[i].st = "grace" THEN {"grace"} ELSE {}
<1>1. /\ Refreshable(i) /\ sessCall[s] = NoSessCall /\ BlameSess(marks)
      /\ sessCall' = [sessCall EXCEPT ![s] = r]
      /\ UNCHANGED <<userRow, token, loggedOut, revocations, sessLoad>>
  BY DEF Refresh, BeginSess
<1>2. sessCall'[s] = r
  BY <1>1, SessTypes DEF SessTypeOK
<1>3. r \in SessCalls /\ r # NoSessCall /\ marks \in SUBSET SessFaults
  BY DEF SessCalls, NoSessCall, SessFaults
<1>4. r.pc = "user" /\ r.id = i /\ (r.grace <=> token[i].st # "live")
  OBVIOUS
<1>5. TokenMade(i) /\ ("grace" \notin marks => Is(i, "live"))
  BY <1>1 DEF Refreshable, Is, TokenMade
<1> HIDE DEF r, marks
<1>6. CallHolds(s)' /\ ("grace" \notin marks => CallRenews(s)') /\ CallFollows(s)'
  BY <1>1, <1>2, <1>4, <1>5 DEF CallHolds, CallRenews, CallFollows, Renews, Opens, SessAt, Is
<1>7. TokensStay
  BY <1>1, SessTypes, TokensStayUnchanged
<1>8. (EndingPending => EndingPending') /\ (LiveFollow => LiveFollow')
  BY <1>1, <1>7, SessTypes, SessRecords, FollowStays DEF SessAt
<1> QED BY <1>1, <1>3, <1>4, <1>5, <1>6, <1>7, <1>8, SessTypes, CallStep DEF FollowFits

LEMMA CheckUserKeeps ==
  ASSUME SessInv, NEW s \in SessSlots, CheckUser(s)
  PROVE  SessInv'
<1> DEFINE k == sessCall[s]
           r == IF ~userRow.active THEN NoSessCall
                ELSE IF k.grace THEN [pc |-> "list", login |-> token[k.id].login,
                                      pw |-> token[k.id].pw, todo |-> {}]
                ELSE [k EXCEPT !.pc = "rotate"]
<1>1. /\ SessAt(s, "user") /\ BlameSess({})
      /\ sessCall' = [sessCall EXCEPT ![s] = r]
      /\ UNCHANGED <<userRow, token, loggedOut, revocations, sessLoad>>
  BY DEF CheckUser, EndSess, StepSess
<1>2. sessCall'[s] = r
  BY <1>1, SessTypes DEF SessTypeOK
<1>3. /\ Renews(s) /\ k.id \in TokenIds /\ k.grace \in BOOLEAN /\ TokenMade(k.id)
      /\ token[k.id] \in RefreshToken /\ TokenMade(token[k.id].login)
  <2>1. Renews(s) /\ k.id \in TokenIds /\ k.grace \in BOOLEAN
    BY <1>1, SessTypes, SessRecords DEF Renews
  <2> QED BY <2>1, SessTypes, TokenRows DEF SessMade
<1>4. k \in [pc : {"user", "rotate"}, id : TokenIds, grace : BOOLEAN] /\ k # NoSessCall
  BY <1>1, SessTypes DEF SessTypeOK, SessCalls, SessAt, NoSessCall
<1>5. TokensStay
  BY <1>1, SessTypes, TokensStayUnchanged
<1>6. (EndingPending => EndingPending') /\ (LiveFollow => LiveFollow')
  BY <1>1, <1>5, SessTypes, FollowStays DEF SessAt
<1>7. CASE r = NoSessCall
  <2> HIDE DEF r, k
  <2>1. CallHolds(s)' /\ CallRenews(s)' /\ CallFollows(s)'
    BY <1>2, <1>7, SessTypes DEF CallHolds, CallRenews, CallFollows, Renews, Opens, SessAt
  <2>2. sessCall[s] # NoSessCall
    BY <1>4 DEF k
  <2> QED BY <1>1, <1>5, <1>6, <1>7, <2>1, <2>2, SessTypes, CallStep DEF FollowFits
<1>8. CASE r # NoSessCall /\ k.grace
  <2>1. /\ r = [pc |-> "list", login |-> token[k.id].login, pw |-> token[k.id].pw, todo |-> {}]
        /\ r.pc = "list" /\ r.login = token[k.id].login
    BY <1>8
  <2>2. r \in SessCalls
    BY <1>3, <2>1 DEF SessCalls, RefreshToken
  <2> HIDE DEF r
  <2>3. CallHolds(s)' /\ ~CallRenews(s) /\ TokenMade(r.login)
    BY <1>2, <1>3, <1>8, <2>1 DEF CallHolds, CallRenews, SessAt
  <2> QED BY <1>1, <1>5, <1>8, <2>1, <2>2, <2>3, SessTypes, CallStep
<1>9. CASE r # NoSessCall /\ ~k.grace
  <2>1. /\ r \in [pc : {"user", "rotate"}, id : TokenIds, grace : BOOLEAN]
        /\ r.pc = "rotate" /\ r.id = k.id /\ r.grace = k.grace
    BY <1>4, <1>9
  <2>2. r \in SessCalls
    BY <2>1 DEF SessCalls
  <2> HIDE DEF r
  <2>3. CallHolds(s)' /\ CallFollows(s)' /\ TokenMade(r.id)
    BY <1>2, <1>3, <2>1 DEF CallHolds, CallFollows, Opens, SessAt
  <2>4. CallRenews(s) => CallRenews(s)'
    BY <1>1, <1>2, <1>3, <2>1 DEF CallRenews, Renews, Opens, SessAt, Is
  <2> QED BY <1>1, <1>5, <1>6, <1>9, <2>1, <2>2, <2>3, <2>4, SessTypes, CallStep DEF FollowFits
<1> QED BY <1>7, <1>8, <1>9

LEMMA RotateKeeps ==
  ASSUME SessInv, NEW s \in SessSlots, Rotate(s)
  PROVE  SessInv'
<1> DEFINE i == sessCall[s].id
           r == [pc |-> "list", login |-> token[i].login, pw |-> token[i].pw, todo |-> {}]
           u == [token[i] EXCEPT !.st = "grace"]
<1>1. /\ SessAt(s, "rotate") /\ BlameSess({})
      /\ sessCall' = [sessCall EXCEPT ![s] = r]
      /\ token' = [token EXCEPT ![i].st = "grace"]
      /\ UNCHANGED <<userRow, loggedOut, revocations, sessLoad>>
  BY DEF Rotate, StepSess
<1>2. sessCall'[s] = r
  BY <1>1, SessTypes DEF SessTypeOK
<1>3. Renews(s) /\ i \in TokenIds /\ TokenMade(i) /\ token[i] \in RefreshToken /\ TokenMade(token[i].login)
  <2>1. Renews(s) /\ i \in TokenIds
    BY <1>1, SessTypes, SessRecords DEF Renews
  <2> QED BY <2>1, SessTypes, TokenRows DEF SessMade
<1>4. /\ u \in RefreshToken /\ token' = [token EXCEPT ![i] = u] /\ u.st = "grace"
      /\ u.login = token[i].login /\ u.pw = token[i].pw
  <2>1. token' = [token EXCEPT ![i] = u]
    BY <1>1, <1>3, SessTypes DEF SessTypeOK
  <2> QED BY <1>3, <2>1 DEF RefreshToken
<1>5. r \in SessCalls /\ r.pc = "list" /\ r.login = token[i].login /\ r.pw = token[i].pw
      /\ r # NoSessCall
  BY <1>3 DEF SessCalls, RefreshToken, NoSessCall
<1> HIDE DEF r, u
<1>6. TokensStay /\ LiveTokens' = LiveTokens \ {i}
  BY <1>3, <1>4, SessTypes, OneTokenStays
<1>7. CallHolds(s)' /\ TokenMade(r.login)
  BY <1>2, <1>3, <1>5 DEF CallHolds, SessAt
<1>8. ASSUME CallRenews(s), LoginsFit
      PROVE  CallRenews(s)'
  <2>1. i \in LiveTokens /\ Newest(i) /\ token[i].login \notin loggedOut
    BY <1>3, <1>8 DEF CallRenews, LoginsFit, LiveTokens
  <2>2. ASSUME NEW j \in LiveTokens, token[j].login = token[i].login
        PROVE  j = i
    <3>1. j \in TokenIds /\ TokenMade(j) /\ Newest(j)
      BY <1>8 DEF LoginsFit, LiveTokens, Is, TokenMade
    <3>2. j <= i /\ i <= j
      BY <1>3, <2>1, <2>2, <3>1 DEF Newest, TokenMade
    <3> QED BY <1>3, <3>1, <3>2, SessionAssumption
  <2>3. ASSUME NEW j \in LiveTokens'
        PROVE  token'[j].login # r.login
    <3>1. j \in LiveTokens /\ j # i /\ j \in TokenIds /\ TokenMade(j)
      BY <1>6 DEF LiveTokens, Is, TokenMade
    <3> QED BY <1>5, <1>6, <2>2, <3>1 DEF TokensStay
  <2>4. ~Renews(s)' /\ sessCall'[s].login = r.login
    BY <1>2, <1>5 DEF Renews, SessAt
  <2>5. OfLogin(sessCall[s].login)' = {}
    BY <2>3, <2>4 DEF OfLogin
  <2> QED BY <1>1, <1>5, <2>1, <2>4, <2>5 DEF CallRenews
<1>9. ASSUME CallRenews(s), LiveFollow
      PROVE  CallFollows(s)'
  <2>1. i \in LiveTokens
    BY <1>3, <1>9 DEF CallRenews, LiveTokens
  <2> QED BY <1>1, <1>2, <1>5, <1>9, <2>1 DEF LiveFollow, FromNow, CallFollows
<1>10. (EndingPending => EndingPending') /\ (LiveFollow => LiveFollow')
  BY <1>1, <1>6, SessTypes, FollowStays DEF SessAt
<1>11. sessCall[s] # NoSessCall
  BY <1>1 DEF SessAt, NoSessCall
<1> QED BY <1>1, <1>5, <1>6, <1>7, <1>8, <1>9, <1>10, <1>11, SessTypes, CallStep DEF FollowFits

LEMMA ListSessionsKeeps ==
  ASSUME SessInv, NEW s \in SessSlots, ListSessions(s)
  PROVE  SessInv'
<1> DEFINE k == sessCall[s]
           r == [k EXCEPT !.todo = Excess(LiveTokens),
                          !.pc = IF Excess(LiveTokens) = {} THEN "insert" ELSE "trim"]
<1>1. /\ SessAt(s, "list") /\ BlameSess({})
      /\ sessCall' = [sessCall EXCEPT ![s] = r]
      /\ UNCHANGED <<userRow, token, loggedOut, revocations, sessLoad>>
  BY DEF ListSessions, StepSess
<1>2. sessCall'[s] = r
  BY <1>1, SessTypes DEF SessTypeOK
<1>3. /\ k \in [pc : {"list", "trim", "insert"}, login : TokenIds \cup {NoToken},
                pw : 0..MaxPasswords, todo : SUBSET TokenIds]
      /\ Opens(s) /\ ~Renews(s) /\ k # NoSessCall
  BY <1>1, SessTypes DEF SessTypeOK, SessCalls, SessAt, Opens, Renews, NoSessCall
<1>4. LiveTokens \in SUBSET TokenIds /\ Excess(LiveTokens) \in SUBSET TokenIds
  BY DEF LiveTokens, Excess, Oldest
<1>5. /\ r.pc = (IF Excess(LiveTokens) = {} THEN "insert" ELSE "trim")
      /\ r.login = k.login /\ r.pw = k.pw /\ r.todo = Excess(LiveTokens)
      /\ r \in SessCalls /\ r # NoSessCall
  <2>1. r \in [pc : {"list", "trim", "insert"}, login : TokenIds \cup {NoToken},
               pw : 0..MaxPasswords, todo : SUBSET TokenIds]
    BY <1>3, <1>4
  <2> QED BY <1>3, <2>1 DEF SessCalls, NoSessCall
<1>6. TokensStay
  BY <1>1, SessTypes, TokensStayUnchanged
<1>7. LiveTokens' = LiveTokens /\ OfLogin(k.login)' = OfLogin(k.login)
  BY <1>1 DEF LiveTokens, OfLogin, Is
<1> HIDE DEF r
<1>8. Bounded => CallHolds(s)'
  <2>1. SUFFICES ASSUME Bounded PROVE CallHolds(s)'
    OBVIOUS
  <2>2. /\ Excess(LiveTokens) = {} => Cardinality(LiveTokens) < MaxSessions
        /\ Cardinality(LiveTokens \ Excess(LiveTokens)) < MaxSessions
    BY <1>4, <2>1, SessTypes, ExcessLeavesRoom DEF Bounded, SessMade
  <2> QED BY <1>2, <1>5, <1>7, <2>2 DEF CallHolds, SessAt
<1>9. CallRenews(s) => CallRenews(s)'
  <2>1. sessCall'[s].login = k.login /\ ~Renews(s)'
    BY <1>2, <1>5 DEF Renews, SessAt
  <2>2. OfLogin(sessCall[s].login)' = OfLogin(k.login)
    BY <1>1, <2>1 DEF OfLogin, LiveTokens, Is
  <2> QED BY <1>1, <1>3, <2>1, <2>2 DEF CallRenews
<1>10. CallFollows(s) => CallFollows(s)'
  BY <1>1, <1>2, <1>3, <1>5 DEF CallFollows
<1>11. (EndingPending => EndingPending') /\ (LiveFollow => LiveFollow')
  BY <1>1, <1>6, SessTypes, FollowStays DEF SessAt
<1>12. r.login # NoToken => TokenMade(r.login)
  BY <1>3, <1>5, SessTypes DEF SessMade
<1>13. r.pc \notin {"user", "rotate", "saveUser"}
  BY <1>5
<1> QED BY <1>1, <1>3, <1>5, <1>6, <1>8, <1>9, <1>10, <1>11, <1>12, <1>13, SessTypes,
           CallStep DEF FollowFits

LEMMA TrimSessionsKeeps ==
  ASSUME SessInv, NEW s \in SessSlots, TrimSessions(s)
  PROVE  SessInv'
<1> DEFINE k == sessCall[s]
           r == [k EXCEPT !.pc = "insert"]
<1>1. /\ SessAt(s, "trim") /\ BlameSess({}) /\ token' = Revoked(k.todo)
      /\ sessCall' = [sessCall EXCEPT ![s] = r]
      /\ UNCHANGED <<userRow, loggedOut, revocations, sessLoad>>
  BY DEF TrimSessions, StepSess
<1>2. sessCall'[s] = r
  BY <1>1, SessTypes DEF SessTypeOK
<1>3. /\ k \in [pc : {"list", "trim", "insert"}, login : TokenIds \cup {NoToken},
                pw : 0..MaxPasswords, todo : SUBSET TokenIds]
      /\ Opens(s) /\ ~Renews(s) /\ k # NoSessCall
  BY <1>1, SessTypes DEF SessTypeOK, SessCalls, SessAt, Opens, Renews, NoSessCall
<1>5. /\ r.pc = "insert" /\ r.login = k.login /\ r.pw = k.pw
      /\ r \in SessCalls /\ r # NoSessCall
  <2>1. r \in [pc : {"list", "trim", "insert"}, login : TokenIds \cup {NoToken},
               pw : 0..MaxPasswords, todo : SUBSET TokenIds]
    BY <1>3
  <2> QED BY <1>3, <2>1 DEF SessCalls, NoSessCall
<1>6. TokensStay /\ LiveTokens' = LiveTokens \ k.todo
  BY <1>1, SessTypes, RevokedStay
<1> HIDE DEF r
<1>8. CallHolds(s) => CallHolds(s)'
  BY <1>1, <1>2, <1>5, <1>6 DEF CallHolds, SessAt
<1>9. CallRenews(s) => CallRenews(s)'
  <2>1. sessCall'[s].login = k.login /\ ~Renews(s)'
    BY <1>2, <1>5 DEF Renews, SessAt
  <2>2. OfLogin(sessCall[s].login)' \subseteq OfLogin(k.login)
    BY <1>6, <2>1 DEF OfLogin, LiveTokens, TokensStay, Is, TokenMade
  <2> QED BY <1>1, <1>3, <2>1, <2>2 DEF CallRenews
<1>10. CallFollows(s) => CallFollows(s)'
  BY <1>1, <1>2, <1>3, <1>5 DEF CallFollows
<1>11. (EndingPending => EndingPending') /\ (LiveFollow => LiveFollow')
  BY <1>1, <1>6, SessTypes, FollowStays DEF SessAt
<1>12. r.login # NoToken => TokenMade(r.login)
  BY <1>3, <1>5, SessTypes DEF SessMade
<1> QED BY <1>1, <1>3, <1>5, <1>6, <1>8, <1>9, <1>10, <1>11, <1>12, SessTypes,
           CallStep DEF FollowFits

(* The calls that write the row, and those that only announce or revoke.    *)
LEMMA RestingCall ==
  ASSUME NEW s, sessCall'[s].pc \in {"idle", "revoke", "emit"}
  PROVE  CallHolds(s)' /\ CallRenews(s)' /\ CallFollows(s)'
  BY DEF CallHolds, CallRenews, CallFollows, Renews, Opens, SessAt

LEMMA ResetPasswordKeeps ==
  ASSUME SessInv, NEW s \in SessSlots, ResetPassword(s)
  PROVE  SessInv'
<1> DEFINE r == [pc |-> "revoke"]
<1>1. /\ userRow.pw < MaxPasswords /\ userRow' = [userRow EXCEPT !.pw = @ + 1]
      /\ sessCall[s] = NoSessCall /\ BlameSess({})
      /\ sessCall' = [sessCall EXCEPT ![s] = r]
      /\ UNCHANGED <<token, loggedOut, revocations, sessLoad>>
  BY DEF ResetPassword, BeginSess
<1>2. sessCall'[s] = r /\ r.pc = "revoke" /\ r # NoSessCall /\ r \in SessCalls
  BY <1>1, SessTypes DEF SessTypeOK, NoSessCall, SessCalls
<1>3. userRow' \in User
  BY <1>1, SessTypes, SessionAssumption DEF User
<1> HIDE DEF r
<1>4. TokensStay
  BY <1>1, SessTypes, TokensStayUnchanged
<1>5. EndingPending'
  BY <1>2 DEF EndingPending, SessAt
<1>6. CallHolds(s)' /\ CallRenews(s)'
  BY <1>2, RestingCall
<1> QED BY <1>1, <1>2, <1>3, <1>4, <1>5, <1>6, SessTypes, CallStep

LEMMA RevokeAllKeeps ==
  ASSUME SessInv, NEW s \in SessSlots, RevokeAll(s)
  PROVE  SessInv'
<1>1. /\ SessAt(s, "revoke") /\ BlameSess({}) /\ token' = Revoked(TokenIds)
      /\ sessCall' = [sessCall EXCEPT ![s] = NoSessCall]
      /\ UNCHANGED <<userRow, loggedOut, revocations, sessLoad>>
  BY DEF RevokeAll, EndSess
<1>2. sessCall'[s] = NoSessCall /\ sessCall[s] # NoSessCall
  BY <1>1, SessTypes DEF SessTypeOK, SessAt, NoSessCall
<1>3. TokensStay /\ LiveTokens' = {}
  BY <1>1, SessTypes, RevokedStay DEF LiveTokens
<1>4. LiveFollow' /\ CallHolds(s)' /\ CallRenews(s)' /\ CallFollows(s)'
  BY <1>2, <1>3, SessTypes, RestingCall DEF LiveFollow
<1> QED BY <1>1, <1>2, <1>3, <1>4, SessTypes, CallStep

LEMMA ReadUserRowKeeps ==
  ASSUME SessInv, NEW s \in SessSlots, NEW e \in Edits, ReadUserRow(s, e)
  PROVE  SessInv'
<1> DEFINE r == [pc |-> "saveUser", edit |-> e, copy |-> userRow]
<1>1. /\ e.op = "password" => userRow.pw < MaxPasswords
      /\ sessCall[s] = NoSessCall /\ BlameSess({})
      /\ sessCall' = [sessCall EXCEPT ![s] = r]
      /\ UNCHANGED <<userRow, token, loggedOut, revocations, sessLoad>>
  BY DEF ReadUserRow, BeginSess
<1>2. sessCall'[s] = r
  BY <1>1, SessTypes DEF SessTypeOK
<1>3. r \in SessCalls /\ r # NoSessCall /\ r.pc = "saveUser" /\ r.edit = e /\ r.copy = userRow
  BY SessTypes DEF SessCalls, NoSessCall
<1> HIDE DEF r
<1>4. TokensStay
  BY <1>1, SessTypes, TokensStayUnchanged
<1>5. CallHolds(s)' /\ CallRenews(s)' /\ CallFollows(s)'
  BY <1>1, <1>2, <1>3 DEF CallHolds, CallRenews, CallFollows, Renews, Opens, SessAt
<1>6. (EndingPending => EndingPending') /\ (LiveFollow => LiveFollow')
  BY <1>1, <1>4, SessTypes, SessRecords, FollowStays DEF SessAt
<1> QED BY <1>1, <1>3, <1>4, <1>5, <1>6, SessTypes, CallStep DEF FollowFits

(* What is saved of a copy that is current changes nothing but what was     *)
(* asked for; what ends sessions is announced.                              *)
LEMMA SavedUserTypes ==
  ASSUME userRow \in User, NEW e \in Edits, NEW copy \in User,
         e.op = "password" => copy.pw < MaxPasswords
  PROVE  /\ SavedUser(e, copy) \in User
         /\ News(e, copy) \subseteq {"password", "deleted"}
         /\ copy = userRow /\ News(e, copy) = {} =>
              /\ SavedUser(e, copy).pw = userRow.pw
              /\ userRow.active => SavedUser(e, copy).active
         /\ copy = userRow =>
              /\ userRow.verified => SavedUser(e, copy).verified
              /\ SavedUser(e, copy).pw >= userRow.pw
              /\ SavedUser(e, copy).active => userRow.active \/ e.op = "status"
<1> DEFINE v == SavedUser(e, copy)
<1>1. CASE e.op = "profile"
  <2>1. v = [copy EXCEPT !.pw = userRow.pw] /\ News(e, copy) = {}
    BY <1>1 DEF SavedUser, News
  <2>2. v \in User /\ v.active = copy.active /\ v.verified = copy.verified /\ v.pw = userRow.pw
    BY <2>1 DEF User
  <2> HIDE DEF v
  <2> QED BY <2>1, <2>2 DEF v, User
<1>2. CASE e.op = "password"
  <2>1. v = [copy EXCEPT !.pw = @ + 1] /\ News(e, copy) = {"password"}
    BY <1>2 DEF SavedUser, News
  <2>2. copy.pw + 1 \in 0..MaxPasswords /\ copy.pw + 1 >= copy.pw
    BY <1>2, SessionAssumption DEF User
  <2>3. v \in User /\ v.active = copy.active /\ v.verified = copy.verified /\ v.pw = copy.pw + 1
    BY <2>1, <2>2 DEF User
  <2> HIDE DEF v
  <2> QED BY <2>1, <2>2, <2>3 DEF v
<1>3. CASE e.op = "delete"
  <2>1. v = [copy EXCEPT !.active = FALSE] /\ News(e, copy) = {"deleted"}
    BY <1>3 DEF SavedUser, News
  <2>2. v \in User /\ v.active = FALSE /\ v.verified = copy.verified /\ v.pw = copy.pw
    BY <2>1 DEF User
  <2> HIDE DEF v
  <2> QED BY <2>1, <2>2 DEF v, User
<1>4. CASE e.op = "status"
  <2>1. e.on \in BOOLEAN
    BY <1>4 DEF Edits
  <2>2. v = [copy EXCEPT !.active = e.on, !.pw = userRow.pw]
    BY <1>4 DEF SavedUser
  <2>3. v \in User /\ v.active = e.on /\ v.verified = copy.verified /\ v.pw = userRow.pw
    BY <2>1, <2>2 DEF User
  <2>4. News(e, copy) = IF copy.active /\ ~e.on THEN {"deleted"} ELSE {}
    BY <1>4 DEF News
  <2>5. copy = userRow /\ News(e, copy) = {} => (userRow.active => v.active)
    BY <2>3, <2>4
  <2>6. v.pw >= userRow.pw
    BY <2>3 DEF User
  <2> HIDE DEF v
  <2> QED BY <1>4, <2>3, <2>4, <2>5, <2>6 DEF v
<1> QED BY <1>1, <1>2, <1>3, <1>4 DEF Edits

LEMMA SaveUserRowKeeps ==
  ASSUME SessInv, NEW s \in SessSlots, SaveUserRow(s)
  PROVE  SessInv'
<1> DEFINE k == sessCall[s]
           r == IF News(k.edit, k.copy) = {} THEN NoSessCall
                ELSE [pc |-> "emit", news |-> News(k.edit, k.copy)]
<1>1. /\ SessAt(s, "saveUser") /\ userRow' = SavedUser(k.edit, k.copy) /\ BlameSess({})
      /\ sessCall' = [sessCall EXCEPT ![s] = r]
      /\ UNCHANGED <<token, loggedOut, revocations, sessLoad>>
  BY DEF SaveUserRow, EndSess, StepSess
<1>2. sessCall'[s] = r /\ sessCall[s] # NoSessCall
  BY <1>1, SessTypes DEF SessTypeOK, SessAt, NoSessCall
<1>3. k.edit \in Edits /\ k.copy \in User /\ (k.edit.op = "password" => k.copy.pw < MaxPasswords)
  BY <1>1, SessTypes, SessRecords DEF SessMade
<1>4. userRow' \in User /\ News(k.edit, k.copy) \subseteq {"password", "deleted"}
  BY <1>1, <1>3, SessTypes, SavedUserTypes
<1>5. r \in SessCalls /\ r.pc \in {"idle", "emit"} /\ (r.pc = "idle" => News(k.edit, k.copy) = {})
  BY <1>4 DEF SessCalls, NoSessCall
<1> HIDE DEF r
<1>6. TokensStay
  BY <1>1, SessTypes, TokensStayUnchanged
<1>7. CallHolds(s)' /\ CallRenews(s)' /\ CallFollows(s)'
  BY <1>2, <1>5, RestingCall
<1>8. ASSUME CallHolds(s), FollowFits, OtherCallsIdle(s)
      PROVE  EndingPending' \/ LiveFollow'
  <2>1. CASE r.pc = "emit"
    BY <1>2, <2>1 DEF EndingPending, SessAt
  <2>2. CASE r.pc = "idle" /\ EndingPending
    <3>1. revocations # {}
      BY <1>1, <1>8, <2>2 DEF EndingPending, OtherCallsIdle, SessAt
    <3> QED BY <1>1, <3>1 DEF EndingPending
  <2>3. CASE r.pc = "idle" /\ ~EndingPending
    <3>1. k.copy = userRow
      BY <1>1, <1>8 DEF CallHolds
    <3>2. userRow'.pw = userRow.pw /\ (userRow.active => userRow'.active)
      BY <1>1, <1>3, <1>5, <2>3, <3>1, SessTypes, SavedUserTypes
    <3> QED BY <1>1, <1>8, <2>3, <3>2 DEF FollowFits, LiveFollow, FromNow, LiveTokens, Is
  <2> QED BY <1>5, <2>1, <2>2, <2>3
<1>9. r.pc \notin {"user", "rotate", "list", "trim", "insert", "saveUser"}
  BY <1>5
<1> QED BY <1>1, <1>2, <1>4, <1>5, <1>6, <1>7, <1>8, <1>9, SessTypes, CallStep

LEMMA EmitNewsKeeps ==
  ASSUME SessInv, NEW s \in SessSlots, EmitNews(s)
  PROVE  SessInv'
<1>1. /\ SessAt(s, "emit") /\ BlameSess({})
      /\ revocations' = revocations \cup sessCall[s].news
      /\ sessCall' = [sessCall EXCEPT ![s] = NoSessCall]
      /\ UNCHANGED <<userRow, token, loggedOut, sessLoad>>
  BY DEF EmitNews, EndSess
<1>2. sessCall'[s] = NoSessCall /\ sessCall[s] # NoSessCall
  BY <1>1, SessTypes DEF SessTypeOK, SessAt, NoSessCall
<1>3. revocations' \subseteq {"password", "deleted"} /\ EndingPending'
  BY <1>1, SessTypes, SessRecords DEF EndingPending
<1>4. TokensStay
  BY <1>1, SessTypes, TokensStayUnchanged
<1>5. CallHolds(s)' /\ CallRenews(s)'
  BY <1>2, SessTypes, RestingCall
<1> QED BY <1>1, <1>2, <1>3, <1>4, <1>5, SessTypes, CallStep

LEMMA EndEarlyKeeps ==
  ASSUME SessInv, NEW s \in SessSlots, EndEarly(s)
  PROVE  SessInv'
<1> DEFINE marks == IF sessCall[s].pc \in {"revoke", "emit"} THEN {"lost"} ELSE {}
<1>1. /\ sessCall[s] # NoSessCall /\ BlameSess(marks)
      /\ sessCall' = [sessCall EXCEPT ![s] = NoSessCall]
      /\ UNCHANGED <<userRow, token, loggedOut, revocations, sessLoad>>
  BY DEF EndEarly, EndSess
<1>2. sessCall'[s] = NoSessCall /\ marks \in SUBSET SessFaults
  BY <1>1, SessTypes DEF SessTypeOK, SessFaults
<1>3. marks = {} => ~SessAt(s, "revoke") /\ ~SessAt(s, "emit")
  BY DEF SessAt
<1> HIDE DEF marks
<1>4. TokensStay
  BY <1>1, SessTypes, TokensStayUnchanged
<1>5. CallHolds(s)' /\ CallRenews(s)' /\ CallFollows(s)'
  BY <1>2, SessTypes, RestingCall
<1>6. marks = {} => (EndingPending => EndingPending') /\ (LiveFollow => LiveFollow')
  BY <1>1, <1>3, <1>4, SessTypes, FollowStays
<1> QED BY <1>1, <1>2, <1>4, <1>5, <1>6, SessTypes, CallStep DEF FollowFits

-----------------------------------------------------------------------------
(* What happens beside the calls: it counts as overlap if one runs, or it   *)
(* leaves alone what calls rely on.                                         *)
LEMMA BesideStep ==
  ASSUME SessInv, NEW marks \in SUBSET SessFaults, BlameSess(marks), TokensStay,
         UNCHANGED <<sessCall, sessLoad>>,
         userRow' \in User, revocations' \subseteq {"password", "deleted"},
         loggedOut' \subseteq TokenIds, \A l \in loggedOut' : TokenMade(l),
         \/ "overlap" \notin marks => SessBusy = {}
         \/ UNCHANGED <<loggedOut, userRow>> /\ LiveTokens' = LiveTokens,
         "grace" \notin sessFault \cup marks /\ LoginsFit =>
           \A i \in LiveTokens' : token[i].login \notin loggedOut',
         marks = {} /\ FollowFits =>
           \/ EndingPending'
           \/ LiveFollow' /\ UNCHANGED userRow /\ ~EndingPending
           \/ LiveFollow' /\ SessBusy = {}
  PROVE  SessInv'
<1>0. SessTypeOK /\ SessMade /\ SessCalmInv
  BY DEF SessInv
<1>1. SessTypeOK'
  BY <1>0 DEF SessTypeOK, BlameSess, SessFaults, TokensStay
<1>2. SessMade'
  <2>1. \A i \in TokenIds : TokenMade(i)' => i \in sessLoad'.tokens /\ TokenMade(token[i].login)'
    BY <1>0, TokenRows DEF SessMade, TokensStay, RefreshToken
  <2>2. \A l \in loggedOut' : TokenMade(l)'
    BY DEF TokensStay
  <2>3. \A t \in SessSlots : Renews(t)' => TokenMade(sessCall[t].id)'
    BY <1>0, SessRecords DEF SessMade, TokensStay, Renews, SessAt
  <2>4. \A t \in SessSlots : Opens(t)' /\ sessCall'[t].login # NoToken => TokenMade(sessCall[t].login)'
    BY <1>0, SessRecords DEF SessMade, TokensStay, Opens, SessAt
  <2>5. \A t \in SessSlots : SessAt(t, "saveUser")' /\ sessCall'[t].edit.op = "password" =>
          sessCall'[t].copy.pw < MaxPasswords
    BY <1>0 DEF SessMade, SessAt
  <2>6. \A i \in TokenIds, j \in sessLoad'.tokens : TokenMade(i)' /\ j < i => TokenMade(j)'
    BY <1>0, SessionAssumption DEF SessMade, TokensStay, SessTypeOK
  <2>7. IsFiniteSet(LiveTokens')
    BY <1>0, FewerLive
  <2> QED BY <2>1, <2>2, <2>3, <2>4, <2>5, <2>6, <2>7 DEF SessMade
<1>3. ASSUME SessCalm, "overlap" \notin marks, OneSessCall'
      PROVE  /\ CallsHold' /\ Bounded'
             /\ "grace" \notin sessFault \cup marks => CallsRenew' /\ LoginsFit'
             /\ sessFault = {} /\ marks = {} => FollowFits'
  <2>1. CallsHold /\ Bounded
    BY <1>0, <1>3 DEF SessCalmInv
  <2>2. SessBusy = {} => \A t \in SessSlots : sessCall[t].pc = "idle" /\ sessCall'[t].pc = "idle"
    BY DEF SessBusy, NoSessCall
  <2>3. CallsHold'
    <3>1. CASE SessBusy = {}
      BY <2>2, <3>1 DEF CallsHold, CallHolds, SessAt
    <3>2. CASE UNCHANGED userRow /\ LiveTokens' = LiveTokens
      BY <2>1, <3>2 DEF CallsHold, CallHolds, SessAt
    <3> QED BY <1>3, <3>1, <3>2
  <2>4. Bounded'
    BY <1>0, <2>1, FewerLive, SessionAssumption DEF Bounded
  <2>5. ASSUME "grace" \notin sessFault \cup marks
        PROVE  CallsRenew' /\ LoginsFit'
    <3>1. CallsRenew /\ LoginsFit
      BY <1>0, <1>3, <2>5 DEF SessCalmInv
    <3>2. CallsRenew'
      <4>1. CASE SessBusy = {}
        BY <2>2, <4>1 DEF CallsRenew, CallRenews, Renews, Opens, SessAt
      <4>2. CASE UNCHANGED loggedOut /\ LiveTokens' = LiveTokens
        <5> SUFFICES ASSUME NEW t \in SessSlots PROVE CallRenews(t)'
          BY DEF CallsRenew
        <5>1. Renews(t) => sessCall[t].id \in LiveTokens
          BY <1>0, <3>1, SessRecords DEF CallsRenew, CallRenews, LiveTokens
        <5>2. \A i \in LiveTokens' : Is(i, "live")' /\ token'[i].login = token[i].login
          BY <4>2 DEF LiveTokens, TokensStay, Is, TokenMade
        <5>3. OfLogin(sessCall[t].login)' = OfLogin(sessCall[t].login)
          BY <4>2, <5>2 DEF OfLogin
        <5> QED BY <3>1, <4>2, <5>1, <5>2, <5>3 DEF CallsRenew, CallRenews, Renews, Opens, SessAt
      <4> QED BY <1>3, <4>1, <4>2
    <3>3. \A i \in LiveTokens' : Newest(i)'
      BY <3>1, <1>0, FewerLive DEF LoginsFit, Newest, TokensStay, TokenMade, LiveTokens, Is
    <3>4. \A i \in LiveTokens' : token'[i].login = token[i].login
      BY DEF TokensStay, LiveTokens, Is, TokenMade
    <3> QED BY <2>5, <3>1, <3>2, <3>3, <3>4 DEF LoginsFit
  <2>6. ASSUME sessFault = {}, marks = {}
        PROVE  FollowFits'
    <3>1. FollowFits
      BY <1>0, <1>3, <2>6 DEF SessCalmInv
    <3>2. CASE EndingPending'
      BY <3>2 DEF FollowFits
    <3>3. CASE LiveFollow' /\ UNCHANGED userRow /\ ~EndingPending
      BY <3>1, <3>3 DEF FollowFits, CallFollows, Opens, SessAt
    <3>4. CASE LiveFollow' /\ SessBusy = {}
      BY <2>2, <3>4 DEF FollowFits, CallFollows, Opens, SessAt
    <3> QED BY <2>6, <3>1, <3>2, <3>3, <3>4
  <2> QED BY <2>3, <2>4, <2>5, <2>6
<1>4. SessCalmInv'
  BY <1>1, <1>3, SessBlamed
<1> QED BY <1>1, <1>2, <1>4 DEF SessInv

LEMMA MeanwhileMarks ==
  /\ Meanwhile \in SUBSET SessFaults
  /\ "overlap" \notin Meanwhile => SessBusy = {}
  BY DEF Meanwhile, SessFaults

(* While calls and row rest, what was pending still is, what was current is.*)
LEMMA FollowBeside ==
  ASSUME TokensStay, UNCHANGED <<sessCall, userRow, revocations>>
  PROVE  FollowFits => EndingPending' \/ (LiveFollow' /\ ~EndingPending)
<1>1. EndingPending' <=> EndingPending
  BY DEF EndingPending, SessAt
<1>2. LiveFollow => LiveFollow'
  BY DEF LiveFollow, FromNow, TokensStay, LiveTokens, Is, TokenMade
<1> QED BY <1>1, <1>2 DEF FollowFits

LEMMA LogoutKeeps ==
  ASSUME SessInv, NEW i \in TokenIds, Logout(i)
  PROVE  SessInv'
<1>1. /\ TokenMade(i) /\ BlameSess(Meanwhile) /\ token' = Revoked({i})
      /\ loggedOut' = loggedOut \cup {token[i].login}
      /\ UNCHANGED <<userRow, revocations, sessCall, sessLoad>>
  BY DEF Logout, TokenMade
<1>2. token[i].login \in TokenIds /\ TokenMade(token[i].login)
  BY <1>1, SessTypes, TokenRows DEF SessMade, RefreshToken
<1>3. TokensStay /\ LiveTokens' = LiveTokens \ {i}
  BY <1>1, SessTypes, RevokedStay
<1>4. loggedOut' \subseteq TokenIds /\ \A l \in loggedOut' : TokenMade(l)
  BY <1>1, <1>2, SessTypes DEF SessTypeOK, SessMade
<1>5. ASSUME LoginsFit, NEW j \in LiveTokens'
      PROVE  token[j].login \notin loggedOut'
  <2>1. j \in LiveTokens /\ j # i /\ Newest(j) /\ token[j].login \notin loggedOut
    BY <1>3, <1>5 DEF LoginsFit
  <2>2. token[j].login = token[i].login => i <= j /\ j <= i
    BY <1>1, <2>1 DEF Newest, TokenMade, Logout, OfLogin
  <2>3. j \in TokenIds
    BY <2>1 DEF LiveTokens
  <2> QED BY <1>1, <2>1, <2>2, <2>3, SessionAssumption
<1>6. FollowFits => EndingPending' \/ (LiveFollow' /\ ~EndingPending)
  BY <1>1, <1>3, FollowBeside
<1> QED BY <1>1, <1>3, <1>4, <1>5, <1>6, SessTypes, MeanwhileMarks, BesideStep

LEMMA ReceiveRevocationKeeps ==
  ASSUME SessInv, NEW x \in {"password", "deleted"}, ReceiveRevocation(x)
  PROVE  SessInv'
<1>1. /\ BlameSess(Meanwhile) /\ token' = Revoked(TokenIds)
      /\ revocations' = revocations \ {x}
      /\ UNCHANGED <<userRow, loggedOut, sessCall, sessLoad>>
  BY DEF ReceiveRevocation
<1>2. TokensStay /\ LiveTokens' = {}
  BY <1>1, SessTypes, RevokedStay DEF LiveTokens
<1>3. LiveFollow' /\ revocations' \subseteq {"password", "deleted"}
  BY <1>1, <1>2, SessTypes DEF LiveFollow
<1>4. loggedOut' \subseteq TokenIds /\ \A l \in loggedOut' : TokenMade(l)
  BY <1>1, SessTypes DEF SessTypeOK, SessMade
<1>5. Meanwhile = {} => SessBusy = {}
  BY DEF Meanwhile
<1> QED BY <1>1, <1>2, <1>3, <1>4, <1>5, SessTypes, MeanwhileMarks, BesideStep

LEMMA LoseRevocationKeeps ==
  ASSUME SessInv, NEW x \in {"password", "deleted"}, LoseRevocation(x)
  PROVE  SessInv'
<1>1. /\ BlameSess({"lost"}) /\ revocations' = revocations \ {x}
      /\ UNCHANGED <<userRow, token, loggedOut, sessCall, sessLoad>>
  BY DEF LoseRevocation
<1>2. TokensStay /\ LiveTokens' = LiveTokens
  BY <1>1, SessTypes, TokensStayUnchanged DEF LiveTokens, Is
<1>3. revocations' \subseteq {"password", "deleted"} /\ {"lost"} \in SUBSET SessFaults
  BY <1>1, SessTypes DEF SessFaults
<1>4. loggedOut' \subseteq TokenIds /\ \A l \in loggedOut' : TokenMade(l)
  BY <1>1, SessTypes DEF SessTypeOK, SessMade
<1>5. LoginsFit => \A i \in LiveTokens' : token[i].login \notin loggedOut'
  BY <1>1, <1>2 DEF LoginsFit
<1> QED BY <1>1, <1>2, <1>3, <1>4, <1>5, SessTypes, BesideStep

LEMMA MarkVerifiedKeeps ==
  ASSUME SessInv, MarkVerified
  PROVE  SessInv'
<1>1. /\ BlameSess(Meanwhile) /\ userRow' = [userRow EXCEPT !.verified = TRUE]
      /\ UNCHANGED <<token, loggedOut, revocations, sessCall, sessLoad>>
  BY DEF MarkVerified
<1>2. TokensStay /\ LiveTokens' = LiveTokens
  BY <1>1, SessTypes, TokensStayUnchanged DEF LiveTokens, Is
<1>3. userRow' \in User /\ userRow'.active = userRow.active /\ userRow'.pw = userRow.pw
  BY <1>1, SessTypes DEF User
<1>4. loggedOut' \subseteq TokenIds /\ \A l \in loggedOut' : TokenMade(l)
  BY <1>1, SessTypes DEF SessTypeOK, SessMade
<1>5. LoginsFit => \A i \in LiveTokens' : token[i].login \notin loggedOut'
  BY <1>1, <1>2 DEF LoginsFit
<1>6. (EndingPending => EndingPending') /\ (LiveFollow => LiveFollow')
  BY <1>1, <1>2, <1>3 DEF EndingPending, LiveFollow, FromNow, SessAt
<1>7. Meanwhile = {} => SessBusy = {}
  BY DEF Meanwhile
<1> QED BY <1>1, <1>2, <1>3, <1>4, <1>5, <1>6, <1>7, SessTypes, MeanwhileMarks, BesideStep
           DEF FollowFits

(* The clock and the cleanup.                                               *)
LEMMA ClockKeeps ==
  ASSUME SessInv, NEW i \in TokenIds, EndGrace(i) \/ ExpireToken(i)
  PROVE  SessInv'
<1>1. /\ TokenMade(i) /\ BlameSess({})
      /\ UNCHANGED <<userRow, loggedOut, revocations, sessCall, sessLoad>>
  BY DEF EndGrace, ExpireToken, Is, TokenMade
<1>2. token[i] \in RefreshToken
  BY <1>1, SessTypes, TokenRows
<1>3. TokensStay /\ LiveTokens' = LiveTokens
  <2>1. CASE EndGrace(i)
    <3> DEFINE u == [token[i] EXCEPT !.st = "revoked"]
    <3>1. token' = [token EXCEPT ![i] = u] /\ token[i].st # "live"
      BY <2>1, SessTypes DEF EndGrace, SessTypeOK, Is
    <3>2. u \in RefreshToken /\ u.login = token[i].login /\ u.pw = token[i].pw /\ u.st = "revoked"
      BY <1>2 DEF RefreshToken
    <3> HIDE DEF u
    <3> QED BY <1>1, <3>1, <3>2, SessTypes, OneTokenStays
  <2>2. CASE ExpireToken(i)
    <3> DEFINE u == [token[i] EXCEPT !.expired = TRUE]
    <3>1. token' = [token EXCEPT ![i] = u]
      BY <2>2, SessTypes DEF ExpireToken, SessTypeOK
    <3>2. u \in RefreshToken /\ u.login = token[i].login /\ u.pw = token[i].pw /\ u.st = token[i].st
      BY <1>2 DEF RefreshToken
    <3> HIDE DEF u
    <3> QED BY <1>1, <3>1, <3>2, SessTypes, OneTokenStays
  <2> QED BY <2>1, <2>2
<1>4. loggedOut' \subseteq TokenIds /\ \A l \in loggedOut' : TokenMade(l)
  BY <1>1, SessTypes DEF SessTypeOK, SessMade
<1>5. LoginsFit => \A j \in LiveTokens' : token[j].login \notin loggedOut'
  BY <1>1, <1>3 DEF LoginsFit
<1>6. FollowFits => EndingPending' \/ (LiveFollow' /\ ~EndingPending)
  BY <1>1, <1>3, FollowBeside
<1> QED BY <1>1, <1>3, <1>4, <1>5, <1>6, SessTypes, BesideStep

LEMMA SessCleanupKeeps ==
  ASSUME SessInv, Cleanup
  PROVE  SessInv'
<1>1. /\ BlameSess(Meanwhile)
      /\ token' = [i \in TokenIds |-> IF TokenMade(i) /\ token[i].expired
                                      THEN [token[i] EXCEPT !.st = "deleted"] ELSE token[i]]
      /\ UNCHANGED <<userRow, loggedOut, revocations, sessCall, sessLoad>>
  BY DEF Cleanup, TokenMade
<1>2. ASSUME NEW i \in TokenIds, TokenMade(i)
      PROVE  /\ token'[i] \in RefreshToken /\ TokenMade(i)'
             /\ token'[i].login = token[i].login /\ token'[i].pw = token[i].pw
             /\ Is(i, "live")' => Is(i, "live")
  <2>1. token[i] \in RefreshToken
    BY <1>2, SessTypes, TokenRows
  <2>2. CASE token[i].expired
    <3>1. token'[i] = [token[i] EXCEPT !.st = "deleted"]
      BY <1>1, <1>2, <2>2
    <3>2. /\ token'[i] \in RefreshToken /\ token'[i].st = "deleted"
          /\ token'[i].login = token[i].login /\ token'[i].pw = token[i].pw
      BY <2>1, <3>1 DEF RefreshToken
    <3> QED BY <3>2, SessionAssumption DEF TokenMade, Is
  <2>3. CASE ~token[i].expired
    BY <1>1, <1>2, <2>1, <2>3 DEF TokenMade, Is
  <2> QED BY <2>2, <2>3
<1>3. \A i \in TokenIds : ~TokenMade(i) => token'[i] = NoToken
  BY <1>1 DEF TokenMade
<1>4. TokensStay
  <2>1. token' \in [TokenIds -> RefreshToken \cup {NoToken}]
    <3>1. \A i \in TokenIds : token'[i] \in RefreshToken \cup {NoToken}
      BY <1>2, <1>3
    <3> QED BY <1>1, <3>1
  <2> QED BY <1>2, <1>3, <2>1 DEF TokensStay, TokenMade
<1>5. loggedOut' \subseteq TokenIds /\ \A l \in loggedOut' : TokenMade(l)
  BY <1>1, SessTypes DEF SessTypeOK, SessMade
<1>6. LoginsFit => \A j \in LiveTokens' : token[j].login \notin loggedOut'
  BY <1>1, <1>4, SessTypes, FewerLive DEF LoginsFit
<1>7. FollowFits => EndingPending' \/ (LiveFollow' /\ ~EndingPending)
  BY <1>1, <1>4, FollowBeside
<1> QED BY <1>1, <1>4, <1>5, <1>6, <1>7, SessTypes, MeanwhileMarks, BesideStep

-----------------------------------------------------------------------------
(* The one step that makes a token, newer than all before.                  *)
LEMMA InsertTokenKeeps ==
  ASSUME SessInv, NEW s \in SessSlots, InsertToken(s)
  PROVE  SessInv'
<1> DEFINE k == sessCall[s]
<1>1. /\ SessAt(s, "insert") /\ BlameSess({})
      /\ sessCall' = [sessCall EXCEPT ![s] = NoSessCall]
      /\ UNCHANGED <<userRow, loggedOut, revocations, sessLoad>>
  BY DEF InsertToken, EndSess
<1>2. PICK i \in Unused :
        /\ \A j \in Unused : i <= j
        /\ token' = [token EXCEPT ![i] =
             [st |-> "live", expired |-> FALSE, pw |-> k.pw,
              login |-> IF k.login = NoToken THEN i ELSE k.login]]
  BY DEF InsertToken
<1> DEFINE u == [st |-> "live", expired |-> FALSE, pw |-> k.pw,
                 login |-> IF k.login = NoToken THEN i ELSE k.login]
<1>0. SessTypeOK /\ SessMade /\ SessCalmInv
  BY DEF SessInv
<1>3. i \in TokenIds /\ i \in sessLoad.tokens /\ ~TokenMade(i) /\ sessLoad.tokens \subseteq TokenIds
  BY <1>0, SessionAssumption DEF Unused, TokenMade, SessTypeOK
<1>4. Opens(s) /\ k.login \in TokenIds \cup {NoToken} /\ k.pw \in 0..MaxPasswords
  BY <1>0, <1>1, SessRecords DEF Opens
<1>5. k.login # NoToken => TokenMade(k.login)
  BY <1>0, <1>4 DEF SessMade
<1>6. /\ u \in RefreshToken /\ u # NoToken /\ u.st = "live" /\ u.pw = k.pw
      /\ u.login = IF k.login = NoToken THEN i ELSE k.login
  <2>1. u \in RefreshToken
    BY <1>3, <1>4 DEF RefreshToken
  <2> QED BY <2>1, SessionAssumption
<1>7. /\ token' \in [TokenIds -> RefreshToken \cup {NoToken}] /\ token'[i] = u
      /\ \A j \in TokenIds : j # i => token'[j] = token[j]
  <2>1. token' = [token EXCEPT ![i] = u]
    BY <1>2
  <2> HIDE DEF u
  <2> QED BY <1>0, <1>3, <1>6, <2>1 DEF SessTypeOK
<1> HIDE DEF u
<1>8. TokenMade(i)' /\ \A j \in TokenIds : (TokenMade(j)' <=> TokenMade(j) \/ j = i)
  BY <1>6, <1>7 DEF TokenMade
<1>9. \A j \in TokenIds : TokenMade(j) => j < i
  <2>1. SUFFICES ASSUME NEW j \in TokenIds, TokenMade(j), ~(j < i) PROVE FALSE
    OBVIOUS
  <2>2. i \in Nat /\ j \in Nat /\ j # i
    BY <1>3, <2>1, SessionAssumption
  <2>3. i < j
    BY <2>1, <2>2
  <2> QED BY <1>0, <1>3, <2>1, <2>3 DEF SessMade
<1>10. LiveTokens' = LiveTokens \cup {i} /\ i \notin LiveTokens /\ LiveTokens \subseteq TokenIds
  <2>1. \A j \in TokenIds : j \in LiveTokens' <=> j \in LiveTokens \/ j = i
    BY <1>6, <1>7 DEF LiveTokens, Is
  <2>2. LiveTokens \subseteq TokenIds /\ LiveTokens' \subseteq TokenIds /\ i \notin LiveTokens
    BY <1>3 DEF LiveTokens, Is, TokenMade
  <2> QED BY <1>3, <2>1, <2>2
<1>11. /\ IsFiniteSet(LiveTokens')
       /\ Cardinality(LiveTokens') = Cardinality(LiveTokens) + 1
       /\ Cardinality(LiveTokens) \in Nat
  BY <1>0, <1>10, FS_AddElement, FS_CardinalityType DEF SessMade
<1>12. /\ sessCall' \in [SessSlots -> SessCalls] /\ sessCall'[s] = NoSessCall
       /\ \A t \in SessSlots : t # s => sessCall'[t] = sessCall[t]
  BY <1>0, <1>1, SessTypes DEF SessTypeOK
<1>13. SessTypeOK'
  BY <1>0, <1>1, <1>7, <1>12 DEF SessTypeOK, BlameSess, SessFaults
<1>14. SessMade'
  <2>1. ASSUME NEW j \in TokenIds, TokenMade(j)'
        PROVE  j \in sessLoad'.tokens /\ TokenMade(token[j].login)'
    <3>1. CASE j = i
      <4>1. token'[j].login = IF k.login = NoToken THEN i ELSE k.login
        BY <1>6, <1>7, <3>1
      <4>2. token'[token'[j].login] # NoToken
        BY <1>3, <1>4, <1>5, <1>8, <4>1 DEF TokenMade
      <4> QED BY <1>1, <1>3, <3>1, <4>2 DEF TokenMade
    <3>2. CASE j # i
      <4>1. TokenMade(j) /\ token'[j] = token[j] /\ token[j].login \in TokenIds
        BY <1>0, <1>7, <1>8, <2>1, <3>2, TokenRows DEF RefreshToken
      <4>2. j \in sessLoad.tokens /\ TokenMade(token[j].login)
        BY <1>0, <4>1 DEF SessMade
      <4>3. TokenMade(token[j].login)'
        BY <1>7, <1>8, <4>1, <4>2 DEF TokenMade
      <4> QED BY <1>1, <4>2, <4>3
    <3> QED BY <3>1, <3>2
  <2>2. \A l \in loggedOut' : TokenMade(l)'
    BY <1>0, <1>1, <1>8 DEF SessMade, SessTypeOK
  <2>3. ASSUME NEW t \in SessSlots, t # s
        PROVE  /\ Renews(t)' => TokenMade(sessCall[t].id)'
               /\ Opens(t)' /\ sessCall'[t].login # NoToken => TokenMade(sessCall[t].login)'
               /\ SessAt(t, "saveUser")' /\ sessCall'[t].edit.op = "password" =>
                    sessCall'[t].copy.pw < MaxPasswords
    <3>1. sessCall'[t] = sessCall[t]
      BY <1>12, <2>3
    <3>2. Renews(t) => sessCall[t].id \in TokenIds /\ TokenMade(sessCall[t].id)
      BY <1>0, SessRecords DEF SessMade
    <3>3. Opens(t) /\ sessCall[t].login # NoToken =>
            sessCall[t].login \in TokenIds /\ TokenMade(sessCall[t].login)
      BY <1>0, SessRecords DEF SessMade
    <3>4. SessAt(t, "saveUser") /\ sessCall[t].edit.op = "password" =>
            sessCall[t].copy.pw < MaxPasswords
      BY <1>0 DEF SessMade
    <3>5. \A l \in TokenIds : TokenMade(l) => TokenMade(l)'
      BY <1>8
    <3> QED BY <3>1, <3>2, <3>3, <3>4, <3>5 DEF Renews, Opens, SessAt, TokenMade
  <2>4. ~Renews(s)' /\ ~Opens(s)' /\ ~SessAt(s, "saveUser")'
    BY <1>12 DEF Renews, Opens, SessAt, NoSessCall
  <2>5. ASSUME NEW j \in TokenIds, NEW h \in sessLoad'.tokens, TokenMade(j)', h < j
        PROVE  TokenMade(h)'
    <3>1. h \in TokenIds /\ h \in sessLoad.tokens
      BY <1>1, <1>3
    <3>2. CASE j = i
      <4>1. h \notin Unused
        BY <1>2, <1>3, <2>5, <3>1, <3>2, SessionAssumption
      <4> QED BY <1>8, <3>1, <4>1 DEF Unused, TokenMade
    <3>3. CASE j # i
      BY <1>0, <1>8, <2>5, <3>1, <3>3 DEF SessMade
    <3> QED BY <3>2, <3>3
  <2> QED BY <1>11, <2>1, <2>2, <2>3, <2>4, <2>5 DEF SessMade
<1>15. ASSUME SessCalm, OneSessCall'
       PROVE  /\ CallsHold' /\ Bounded'
              /\ "grace" \notin sessFault => CallsRenew' /\ LoginsFit'
              /\ sessFault = {} => FollowFits'
  <2>1. s \in SessBusy
    BY <1>0, <1>1, SessRecords DEF SessAt
  <2>2. \A t \in SessSlots : sessCall'[t] = [pc |-> "idle"]
    BY <1>0, <1>12, <1>15, <2>1, OtherCallsRest DEF SessCalmInv, NoSessCall
  <2>3. CallsHold' /\ CallsRenew' /\ \A t \in SessSlots : CallFollows(t)'
    BY <2>2 DEF CallsHold, CallHolds, CallsRenew, CallRenews, CallFollows, Renews, Opens, SessAt
  <2>4. CallHolds(s)
    BY <1>0, <1>15 DEF SessCalmInv, CallsHold
  <2>5. Bounded'
    BY <1>1, <1>11, <2>4, SessionAssumption DEF CallHolds, Bounded
  <2>6. ASSUME "grace" \notin sessFault
        PROVE  LoginsFit'
    <3>1. LoginsFit /\ CallRenews(s)
      BY <1>0, <1>15, <2>6 DEF SessCalmInv, CallsRenew
    <3>2. u.login \notin loggedOut
      <4>1. i \notin loggedOut
        BY <1>0, <1>3 DEF SessMade
      <4> QED BY <1>4, <1>6, <3>1, <4>1 DEF CallRenews
    <3>3. ASSUME NEW j \in LiveTokens
          PROVE  token[j].login # u.login
      <4>1. j \in TokenIds /\ TokenMade(j)
        BY <1>10 DEF LiveTokens, Is, TokenMade
      <4>2. TokenMade(token[j].login)
        BY <1>0, <4>1 DEF SessMade
      <4>3. CASE k.login = NoToken
        BY <1>3, <1>6, <4>2, <4>3
      <4>4. CASE k.login # NoToken
        BY <1>4, <1>6, <3>1, <4>4 DEF CallRenews, OfLogin
      <4> QED BY <4>3, <4>4
    <3>4. Newest(i)'
      <4>1. \A j \in TokenIds : TokenMade(j)' => j <= i
        BY <1>3, <1>8, <1>9, SessionAssumption
      <4> QED BY <4>1 DEF Newest, TokenMade
    <3>5. ASSUME NEW j \in LiveTokens
          PROVE  Newest(j)' /\ token'[j].login \notin loggedOut'
      <4>1. Newest(j) /\ token[j].login \notin loggedOut /\ token'[j] = token[j]
        BY <1>3, <1>7, <1>10, <3>1, <3>5 DEF LoginsFit
      <4>2. \A h \in TokenIds : token'[h] # NoToken /\ token'[h].login = token[j].login => h <= j
        BY <1>7, <3>3, <4>1 DEF Newest
      <4> QED BY <1>1, <4>1, <4>2 DEF Newest
    <3> QED BY <1>1, <1>7, <1>10, <3>2, <3>4, <3>5 DEF LoginsFit
  <2>7. ASSUME sessFault = {}
        PROVE  FollowFits'
    <3>1. FollowFits
      BY <1>0, <1>15, <2>7 DEF SessCalmInv
    <3>2. CASE EndingPending
      <4>1. revocations # {}
        <5>1. \A t \in SessSlots : ~SessAt(t, "revoke") /\ ~SessAt(t, "emit")
          BY <1>1, <1>12, <2>2 DEF SessAt
        <5> QED BY <3>2, <5>1 DEF EndingPending
      <4> QED BY <1>1, <4>1 DEF FollowFits, EndingPending
    <3>3. CASE ~EndingPending
      <4>1. LiveFollow /\ userRow.active /\ k.pw = userRow.pw
        BY <1>4, <3>1, <3>3 DEF FollowFits, CallFollows
      <4>2. ASSUME NEW j \in LiveTokens'
            PROVE  FromNow(j)'
        <5>1. token'[j].pw = userRow.pw
          BY <1>3, <1>6, <1>7, <1>10, <4>1 DEF LiveFollow, FromNow
        <5> QED BY <1>1, <4>1, <5>1 DEF FromNow
      <4> QED BY <2>3, <4>2 DEF FollowFits, LiveFollow
    <3> QED BY <3>2, <3>3
  <2> QED BY <2>3, <2>5, <2>6, <2>7
<1>16. SessCalmInv'
  BY <1>1, <1>13, <1>15, SessBlamed
<1> QED BY <1>13, <1>14, <1>16 DEF SessInv

-----------------------------------------------------------------------------
LEMMA SessInvInit == SessInit => SessInv
<1> SUFFICES ASSUME SessInit PROVE SessInv
  OBVIOUS
<1>1. \A s \in SessSlots : sessCall[s] = [pc |-> "idle"]
  BY DEF SessInit, NoSessCall
<1>2. LiveTokens = {} /\ \A i \in TokenIds : ~TokenMade(i)
  BY DEF SessInit, LiveTokens, Is, TokenMade
<1>3. SessTypeOK
  <2>1. sessCall \in [SessSlots -> SessCalls]
    BY DEF SessInit, NoSessCall, SessCalls
  <2>2. userRow \in User
    BY SessionAssumption DEF SessInit, User
  <2> QED BY <2>1, <2>2 DEF SessInit, SessTypeOK
<1>4. IsFiniteSet(LiveTokens) /\ Cardinality(LiveTokens) = 0
  BY <1>2, FS_EmptySet
<1>5. SessMade
  BY <1>1, <1>2, <1>4 DEF SessMade, SessInit, Renews, Opens, SessAt
<1>6. Bounded /\ LoginsFit /\ LiveFollow
  BY <1>2, <1>4, SessionAssumption DEF Bounded, LoginsFit, LiveFollow
<1>7. OneSessCall /\ CallsHold /\ CallsRenew /\ \A s \in SessSlots : CallFollows(s)
  BY <1>1 DEF OneSessCall, SessBusy, NoSessCall, CallsHold, CallHolds, CallsRenew, CallRenews,
              CallFollows, Renews, Opens, SessAt
<1> QED BY <1>3, <1>5, <1>6, <1>7 DEF SessInv, SessCalmInv, FollowFits

LEMMA SessInvKept == SessInv /\ [SessNext]_sessVars => SessInv'
<1> SUFFICES ASSUME SessInv, [SessNext]_sessVars PROVE SessInv'
  OBVIOUS
<1>1. sessLoad.slots \subseteq SessSlots
  BY SessTypes, SessionAssumption DEF SessTypeOK
<1>2. ASSUME NEW s \in sessLoad.slots,
             \/ Login(s) \/ \E i \in TokenIds : Refresh(s, i)
             \/ CheckUser(s) \/ Rotate(s) \/ ListSessions(s) \/ TrimSessions(s)
             \/ InsertToken(s) \/ ResetPassword(s) \/ RevokeAll(s)
             \/ \E e \in Edits : ReadUserRow(s, e)
             \/ SaveUserRow(s) \/ EmitNews(s) \/ EndEarly(s)
      PROVE  SessInv'
  BY <1>1, <1>2, LoginKeeps, RefreshKeeps, CheckUserKeeps, RotateKeeps, ListSessionsKeeps,
     TrimSessionsKeeps, InsertTokenKeeps, ResetPasswordKeeps, RevokeAllKeeps,
     ReadUserRowKeeps, SaveUserRowKeeps, EmitNewsKeeps, EndEarlyKeeps
<1>3. ASSUME NEW i \in TokenIds, Logout(i) \/ EndGrace(i) \/ ExpireToken(i)
      PROVE  SessInv'
  BY <1>3, LogoutKeeps, ClockKeeps
<1>4. ASSUME NEW x \in {"password", "deleted"}, ReceiveRevocation(x) \/ LoseRevocation(x)
      PROVE  SessInv'
  BY <1>4, ReceiveRevocationKeeps, LoseRevocationKeeps
<1>5. CASE MarkVerified \/ Cleanup
  BY <1>5, MarkVerifiedKeeps, SessCleanupKeeps
<1>6. CASE UNCHANGED sessVars
  <2>1. UNCHANGED <<userRow, token, loggedOut, revocations, sessCall, sessLoad, sessFault>>
    BY <1>6 DEF sessVars
  <2>2. SessTypeOK'
    BY <2>1, SessTypes DEF SessTypeOK
  <2>3. SessMade'
    BY <2>1, SessTypes DEF SessMade, TokenMade, Renews, Opens, SessAt, LiveTokens, Is
  <2>4. SessCalmInv'
    BY <2>1 DEF SessInv, SessCalmInv, SessCalm, OneSessCall, SessBusy, CallsHold, CallHolds,
       Bounded, CallsRenew, CallRenews, LoginsFit, FollowFits, EndingPending, LiveFollow,
       CallFollows, FromNow, LiveTokens, OfLogin, Newest, Renews, Opens, SessAt, Is
  <2> QED BY <2>2, <2>3, <2>4 DEF SessInv
<1> QED BY <1>2, <1>3, <1>4, <1>5, <1>6 DEF SessNext

LEMMA SessInvSafe == SessInv => SessionsSafe
<1> SUFFICES ASSUME SessInv PROVE SessionsSafe
  OBVIOUS
<1>1. SessTypeOK /\ SessMade /\ SessCalmInv
  BY DEF SessInv
<1>2. SessQuiet => ~EndingPending
  BY DEF SessQuiet, EndingPending, SessBusy, NoSessCall, SessAt
<1>3. sessFault \cap {"overlap", "grace", "lost"} = {} => sessFault = {}
  BY <1>1 DEF SessTypeOK, SessFaults
<1>4. SessionsFollowPassword
  BY <1>1, <1>2, <1>3 DEF SessionsFollowPassword, SessCalmInv, SessCalm, FollowFits, LiveFollow
<1>5. OneTokenPerLogin
  <2> SUFFICES ASSUME sessFault \cap {"overlap", "grace"} = {}, NEW l \in TokenIds,
                      NEW i \in OfLogin(l), NEW j \in OfLogin(l)
               PROVE  i = j
    BY DEF OneTokenPerLogin
  <2>1. LoginsFit
    BY <1>1 DEF SessCalmInv, SessCalm
  <2>2. /\ i \in TokenIds /\ token[i] # NoToken /\ token[i].login = l /\ Newest(i)
        /\ j \in TokenIds /\ token[j] # NoToken /\ token[j].login = l /\ Newest(j)
    BY <2>1 DEF OfLogin, LoginsFit, LiveTokens, Is
  <2>3. i <= j /\ j <= i
    BY <2>2 DEF Newest
  <2> QED BY <2>2, <2>3, SessionAssumption
<1>6. LoggedOutStaysOut
  BY <1>1 DEF LoggedOutStaysOut, SessCalmInv, SessCalm, LoginsFit, OfLogin
<1>7. SessionsBounded
  <2>1. Cardinality(LiveTokens) \in Nat /\ MaxSessions \in Nat
    BY <1>1, FS_CardinalityType, SessionAssumption DEF SessMade
  <2> QED BY <1>1, <2>1 DEF SessionsBounded, SessCalmInv, SessCalm, Bounded
<1> QED BY <1>4, <1>5, <1>6, <1>7 DEF SessionsSafe

(* Sessions are safe for any number of tokens, calls, passwords and any cap *)
(* on sessions: what goes wrong does so after calls overlapped, a token was *)
(* refreshed in its grace period or a revocation was lost, and only where   *)
(* the property allows it.                                                  *)
THEOREM SessionsStaySafe == SessSpec => []SessionsSafe
  BY SessInvInit, SessInvKept, SessInvSafe, PTL DEF SessSpec

(* Nor does a step take back what was written to the row: verification,     *)
(* password, or a deactivation by another than an administrator.            *)
THEOREM UserRowsAreKept == SessSpec => UserRowKept
<1> DEFINE Kept ==
      \/ /\ userRow.verified => userRow'.verified
         /\ userRow'.pw >= userRow.pw
         /\ userRow'.active => userRow.active
              \/ \E s \in SessBusy : SessAt(s, "saveUser") /\ sessCall[s].edit.op = "status"
      \/ "overlap" \in sessFault
<1>1. SessInv /\ [SessNext]_sessVars => [Kept]_sessVars
  <2> SUFFICES ASSUME SessInv, SessNext, "overlap" \notin sessFault PROVE Kept
    OBVIOUS
  <2>1. userRow \in User /\ userRow.pw \in Nat /\ sessLoad.slots \subseteq SessSlots
    BY SessTypes, SessionAssumption DEF User, SessTypeOK
  <2>2. CASE UNCHANGED userRow
    BY <2>1, <2>2
  <2>3. ASSUME NEW s \in SessSlots, SaveUserRow(s)
        PROVE  Kept
    <3> DEFINE k == sessCall[s]
    <3>1. SessAt(s, "saveUser") /\ userRow' = SavedUser(k.edit, k.copy)
      BY <2>3 DEF SaveUserRow
    <3>2. /\ k.edit \in Edits /\ k.copy \in User /\ s \in SessBusy
          /\ k.edit.op = "password" => k.copy.pw < MaxPasswords
      BY <3>1, SessTypes, SessRecords DEF SessMade, SessAt
    <3>3. k.copy = userRow
      BY <3>1 DEF SessInv, SessCalmInv, SessCalm, CallsHold, CallHolds
    <3> QED BY <2>1, <3>1, <3>2, <3>3, SavedUserTypes
  <2>4. ASSUME NEW s \in SessSlots, ResetPassword(s)
        PROVE  Kept
    <3>1. userRow' = [userRow EXCEPT !.pw = @ + 1]
      BY <2>4 DEF ResetPassword
    <3>2. userRow'.pw = userRow.pw + 1 /\ userRow'.active = userRow.active
          /\ userRow'.verified = userRow.verified
      BY <2>1, <3>1 DEF User
    <3> QED BY <2>1, <3>2
  <2>5. CASE MarkVerified
    <3>1. userRow' = [userRow EXCEPT !.verified = TRUE]
      BY <2>5 DEF MarkVerified
    <3>2. userRow'.pw = userRow.pw /\ userRow'.active = userRow.active /\ userRow'.verified
      BY <2>1, <3>1 DEF User
    <3> QED BY <2>1, <3>2
  <2>6. \/ UNCHANGED userRow
        \/ \E s \in sessLoad.slots : SaveUserRow(s) \/ ResetPassword(s)
        \/ MarkVerified
    BY DEF SessNext, Login, Refresh, CheckUser, Rotate, ListSessions, TrimSessions,
           InsertToken, RevokeAll, ReadUserRow, EmitNews, EndEarly, Logout, EndGrace,
           ExpireToken, ReceiveRevocation, LoseRevocation, Cleanup
  <2> QED BY <2>1, <2>2, <2>3, <2>4, <2>5, <2>6
<1> QED BY <1>1, SessInvInit, SessInvKept, PTL DEF SessSpec, UserRowKept

-----------------------------------------------------------------------------
(* Administrators.                                                          *)

(* The inductive invariant: while no calls overlapped, one runs at a time,  *)
(* its copy is the row, and a rotation has the only live token of its login *)
(* until it gave that up.  While nobody gave up the role and no outdated    *)
(* token was used, a change that takes a super administrator away leaves    *)
(* another.                                                                 *)

AdminCalm == "overlap" \notin adminFault
Warranted == adminFault \cap {"overlap", "demoted", "stale"} = {}
OneAdminCall == \A s, t \in AdminBusy : s = t
OneLive == \A l \in AdminTokIds : \A i, j \in LiveOf(l) : i = j

Session(k) == k.pc \in {"save", "rotate", "token"}
Taking(k) == k.pc = "change" /\ k.change \in {"deactivate", "demote", "delete"}

AdminCallFits(k) ==
       /\ Session(k) \/ k.pc = "change" => /\ adminRow[k.admin] # NoAdmin
                                           /\ k.copy = adminRow[k.admin]
       /\ Session(k) => ActiveAdmin(k.admin)
       /\ k.pc = "rotate" => LiveOf(k.login) \subseteq {k.id}
       /\ k.pc = "token" /\ k.login # NoAdminTok => LiveOf(k.login) = {}
CallLeaves(k) == Taking(k) => SuperAdmins \ {k.admin} # {}

AdminCalmInv == AdminCalm => /\ OneAdminCall /\ OneLive
                             /\ \A s \in AdminSlots : AdminCallFits(adminCall[s])
SuperInv == Warranted => /\ SuperAdmins # {}
                         /\ \A s \in AdminSlots : CallLeaves(adminCall[s])

(* What a call is made of; logins and rotated tokens are tokens that exist. *)
AdminCallRecords ==
        [pc : {"idle"}]
          \cup [pc : {"save"}, admin : AdminIds, copy : Admin, login : {NoAdminTok}]
          \cup [pc : {"token"}, admin : AdminIds, copy : Admin, login : {NoAdminTok}]
          \cup [pc : {"rotate", "token"}, admin : AdminIds, copy : Admin,
                id : AdminTokIds, login : AdminTokIds]
          \cup [pc : {"change"}, admin : AdminIds, copy : Admin, change : Changes]
AdminCallsOK == adminCall \in [AdminSlots -> AdminCallRecords]

AdminTokMade ==
  /\ \A i \in AdminTokIds :
       adminTok[i] # NoAdminTok => adminTok[adminTok[i].login] # NoAdminTok
  /\ \A s \in AdminSlots :
       /\ AdminAt(s, "rotate") => adminTok[adminCall[s].id] # NoAdminTok
       /\ AdminAt(s, "rotate") \/ AdminAt(s, "token") =>
            adminCall[s].login = NoAdminTok \/ adminTok[adminCall[s].login] # NoAdminTok

AdminInv == AdminTypeOK /\ AdminCallsOK /\ AdminTokMade /\ AdminCalmInv /\ SuperInv

-----------------------------------------------------------------------------
(* The marks are taken away when no call runs and all is in order; else the *)
(* step owes the conditions only if it was neither blamed nor overlapped.   *)
LEMMA AdminBlamed ==
  ASSUME adminFault \subseteq AdminFaults, DOMAIN adminCall' = AdminSlots,
         NEW marks, marks \subseteq AdminFaults, BlameAdmin(marks),
         AdminCalm /\ "overlap" \notin marks /\ OneAdminCall' =>
                OneLive' /\ \A s \in AdminSlots : AdminCallFits(adminCall[s])',
         Warranted /\ marks = {} /\ OneAdminCall' =>
           SuperAdmins' # {} /\ \A s \in AdminSlots : CallLeaves(adminCall[s])'
  PROVE  AdminCalmInv' /\ SuperInv' /\ adminFault' \subseteq AdminFaults
<1>1. CASE AdminBusy' = {} /\ AdminsInOrder'
  <2>1. \A s \in AdminSlots : adminCall'[s] = [pc |-> "idle"]
    BY <1>1 DEF AdminBusy, NoAdminCall
  <2>2. \A s \in AdminSlots : AdminCallFits(adminCall[s])' /\ CallLeaves(adminCall[s])'
    BY <2>1 DEF AdminCallFits, CallLeaves, Session, Taking
  <2>3. SuperAdmins' # {} /\ OneLive' /\ OneAdminCall'
    BY <1>1 DEF AdminsInOrder, OneLive, OneAdminCall
  <2>4. adminFault' = {}
    BY <1>1 DEF BlameAdmin
  <2> QED BY <2>2, <2>3, <2>4 DEF AdminCalmInv, SuperInv
<1>2. CASE ~(AdminBusy' = {} /\ AdminsInOrder')
  <2>1. /\ adminFault \cup marks \subseteq adminFault'
        /\ (\E s, t \in AdminBusy' : s # t) => "overlap" \in adminFault'
        /\ adminFault' \subseteq AdminFaults
    BY <1>2 DEF BlameAdmin, AdminFaults
  <2>2. AdminCalm' => AdminCalm /\ "overlap" \notin marks /\ OneAdminCall'
    BY <2>1 DEF AdminCalm, OneAdminCall
  <2>3. Warranted' => AdminCalm' /\ Warranted /\ marks = {}
    BY <2>1 DEF AdminCalm, Warranted, AdminFaults
  <2> QED BY <2>1, <2>2, <2>3 DEF AdminCalmInv, SuperInv
<1> QED BY <1>1, <1>2

(* What each kind of call holds.                                            *)
LEMMA AdminCallKinds ==
  ASSUME AdminInv, NEW s \in AdminSlots, adminCall[s].pc # "idle"
  PROVE  /\ adminCall[s].admin \in AdminIds /\ adminCall[s].copy \in Admin
         /\ adminCall[s].pc \in {"save", "rotate", "token", "change"}
         /\ adminCall[s].pc = "save" =>
              adminCall[s] \in [pc : {"save"}, admin : AdminIds, copy : Admin,
                                login : {NoAdminTok}]
         /\ adminCall[s].pc = "rotate" =>
              adminCall[s] \in [pc : {"rotate"}, admin : AdminIds, copy : Admin,
                                id : AdminTokIds, login : AdminTokIds]
         /\ adminCall[s].pc = "token" =>
              adminCall[s].login \in AdminTokIds \cup {NoAdminTok}
         /\ adminCall[s].pc = "change" => adminCall[s].change \in Changes
         /\ s \in AdminBusy
  BY DEF AdminInv, AdminCallsOK, AdminCallRecords, AdminBusy, NoAdminCall

(* The slots beside the one that moves are idle if calls did not overlap.   *)
LEMMA OtherAdminsFit ==
  ASSUME NEW s \in AdminSlots,
         \A t \in AdminSlots : t # s => adminCall'[t] = adminCall[t],
         (OneAdminCall /\ s \in AdminBusy) \/ (OneAdminCall' /\ s \in AdminBusy')
  PROVE  /\ AdminCallFits(adminCall[s])' => \A t \in AdminSlots : AdminCallFits(adminCall[t])'
         /\ CallLeaves(adminCall[s])' => \A t \in AdminSlots : CallLeaves(adminCall[t])'
<1>1. \A t \in AdminSlots : t # s => adminCall'[t] = [pc |-> "idle"]
  BY DEF OneAdminCall, AdminBusy, NoAdminCall
<1>2. \A t \in AdminSlots : t # s => AdminCallFits(adminCall[t])' /\ CallLeaves(adminCall[t])'
  BY <1>1 DEF AdminCallFits, CallLeaves, Session, Taking
<1> QED BY <1>2

(* Tokens that were there change their state and nothing else.              *)
LEMMA Closed ==
  ASSUME AdminInv, NEW ids, ids \subseteq AdminTokIds,
         \A i \in ids : adminTok[i] # NoAdminTok,
         NEW st \in {"revoked", "expired", "gone"}, adminTok' = AdminToks(ids, st)
  PROVE  /\ adminTok' \in [AdminTokIds -> AdminToken \cup {NoAdminTok}]
         /\ \A i \in AdminTokIds : /\ adminTok'[i] = NoAdminTok <=> adminTok[i] = NoAdminTok
                                   /\ adminTok[i] # NoAdminTok =>
                                        adminTok'[i].login = adminTok[i].login
         /\ \A l : LiveOf(l)' = LiveOf(l) \ ids
<1>1. \A i \in AdminTokIds :
        adminTok'[i] = IF i \in ids THEN [adminTok[i] EXCEPT !.st = st] ELSE adminTok[i]
  BY DEF AdminToks
<1>2. \A i \in AdminTokIds : adminTok[i] # NoAdminTok => adminTok[i] \in AdminToken
  BY DEF AdminInv, AdminTypeOK
<1>3. \A i \in ids : /\ [adminTok[i] EXCEPT !.st = st] \in AdminToken
                     /\ [adminTok[i] EXCEPT !.st = st].login = adminTok[i].login
                     /\ [adminTok[i] EXCEPT !.st = st].st = st
  BY <1>2 DEF AdminToken
<1>4. \A i \in AdminTokIds : /\ adminTok'[i] = NoAdminTok <=> adminTok[i] = NoAdminTok
                             /\ adminTok[i] # NoAdminTok =>
                                  adminTok'[i].login = adminTok[i].login
  BY <1>1, <1>3, AdminNulls
<1>5. adminTok' \in [AdminTokIds -> AdminToken \cup {NoAdminTok}]
  BY <1>1, <1>2, <1>3 DEF AdminToks
<1>6. ASSUME NEW l
      PROVE  LiveOf(l)' = LiveOf(l) \ ids
  BY <1>1, <1>3, <1>4 DEF LiveOf
<1> QED BY <1>4, <1>5, <1>6

(* AdminTokMade goes with the tokens that are there and the calls.                  *)
LEMMA MadeKept ==
  ASSUME AdminInv,
         \A i \in AdminTokIds : /\ adminTok'[i] = NoAdminTok <=> adminTok[i] = NoAdminTok
                                /\ adminTok[i] # NoAdminTok =>
                                     adminTok'[i].login = adminTok[i].login,
         adminTok' \in [AdminTokIds -> AdminToken \cup {NoAdminTok}],
         \A s \in AdminSlots :
           \/ adminCall'[s] = adminCall[s]
           \/ adminCall'[s].pc \notin {"rotate", "token"}
           \/ /\ adminCall'[s].pc = "rotate" =>
                   /\ adminCall'[s].id \in AdminTokIds
                   /\ adminTok[adminCall'[s].id] # NoAdminTok
              /\ \/ adminCall'[s].login = NoAdminTok
                 \/ /\ adminCall'[s].login \in AdminTokIds
                    /\ adminTok[adminCall'[s].login] # NoAdminTok
  PROVE  AdminTokMade'
<1>1. \A i \in AdminTokIds : adminTok[i] # NoAdminTok => adminTok[i].login \in AdminTokIds
  BY DEF AdminInv, AdminTypeOK, AdminToken
<1>2. \A i \in AdminTokIds :
        adminTok'[i] # NoAdminTok => adminTok'[adminTok'[i].login] # NoAdminTok
  BY <1>1 DEF AdminInv, AdminTokMade
<1>3. \A s \in AdminSlots :
        /\ AdminAt(s, "rotate") => adminCall[s].id \in AdminTokIds
        /\ AdminAt(s, "rotate") \/ AdminAt(s, "token") =>
             adminCall[s].login \in AdminTokIds \cup {NoAdminTok}
  BY DEF AdminInv, AdminCallsOK, AdminCallRecords, AdminAt
<1>4. \A s \in AdminSlots :
        /\ AdminAt(s, "rotate")' => adminTok'[adminCall'[s].id] # NoAdminTok
        /\ (AdminAt(s, "rotate") \/ AdminAt(s, "token"))' =>
             adminCall'[s].login = NoAdminTok \/ adminTok'[adminCall'[s].login] # NoAdminTok
  BY <1>3 DEF AdminInv, AdminTokMade, AdminAt
<1> QED BY <1>2, <1>4 DEF AdminTokMade, AdminAt

-----------------------------------------------------------------------------
(* A step of a call, whatever it does to rows and tokens.                   *)
LEMMA AdminStepKeeps ==
  ASSUME AdminInv, NEW s \in AdminSlots, NEW record \in AdminCallRecords,
         adminCall' = [adminCall EXCEPT ![s] = record],
         s \in AdminBusy \/ record.pc # "idle",
         UNCHANGED adminLoad,
         adminRow' \in [AdminIds -> Admin \cup {NoAdmin}],
         access' \in [AdminIds -> Roles \cup {"none"}],
         adminTok' \in [AdminTokIds -> AdminToken \cup {NoAdminTok}],
         AdminTokMade',
         AdminCalm /\ OneAdminCall' => OneLive' /\ AdminCallFits(record)',
         NEW marks, marks \subseteq AdminFaults, "overlap" \notin marks, BlameAdmin(marks),
         Warranted /\ marks = {} =>
           SuperAdmins' # {} /\ (Taking(record) => SuperAdmins' \ {record.admin} # {})
  PROVE  AdminInv'
<1>1. /\ \A t \in AdminSlots : adminCall'[t] = IF t = s THEN record ELSE adminCall[t]
      /\ adminCall' \in [AdminSlots -> AdminCallRecords] /\ DOMAIN adminCall' = AdminSlots
  BY DEF AdminInv, AdminCallsOK
<1>2. record.pc # "idle" => s \in AdminBusy'
  BY <1>1 DEF AdminBusy, NoAdminCall
<1>3. Warranted => AdminCalm
  BY DEF Warranted, AdminCalm
<1>4. ASSUME AdminCalm, OneAdminCall'
      PROVE  OneLive' /\ \A t \in AdminSlots : AdminCallFits(adminCall[t])'
  <2>1. AdminCallFits(adminCall[s])'
    BY <1>1, <1>4
  <2> QED BY <1>1, <1>2, <1>4, <2>1, OtherAdminsFit DEF AdminInv, AdminCalmInv
<1>5. ASSUME Warranted, marks = {}, OneAdminCall'
      PROVE  SuperAdmins' # {} /\ \A t \in AdminSlots : CallLeaves(adminCall[t])'
  <2>1. CallLeaves(adminCall[s])'
    BY <1>1, <1>5 DEF CallLeaves, Taking
  <2> QED BY <1>1, <1>2, <1>3, <1>5, <2>1, OtherAdminsFit DEF AdminInv, AdminCalmInv
<1>6. AdminCalmInv' /\ SuperInv' /\ adminFault' \subseteq AdminFaults
  BY <1>1, <1>4, <1>5, AdminBlamed DEF AdminInv, AdminTypeOK
<1> QED BY <1>1, <1>6 DEF AdminInv, AdminTypeOK, AdminCallsOK

(* The same, with rows and tokens as they are.                              *)
LEMMA StepOnlyKeeps ==
  ASSUME AdminInv, NEW s \in AdminSlots, NEW record \in AdminCallRecords,
         adminCall' = [adminCall EXCEPT ![s] = record],
         s \in AdminBusy \/ record.pc # "idle",
         UNCHANGED <<adminRow, adminTok, access, adminLoad>>,
         record.pc \in {"rotate", "token"} =>
           /\ record.pc = "rotate" => adminTok[record.id] # NoAdminTok
           /\ record.login = NoAdminTok \/ adminTok[record.login] # NoAdminTok,
         AdminCalm => AdminCallFits(record),
         NEW marks, marks \subseteq AdminFaults, "overlap" \notin marks, BlameAdmin(marks),
         Warranted /\ marks = {} => (Taking(record) => SuperAdmins \ {record.admin} # {})
  PROVE  AdminInv'
<1>1. \A l : LiveOf(l)' = LiveOf(l)
  BY DEF LiveOf
<1>2. \A a : ActiveAdmin(a)' = ActiveAdmin(a)
  BY DEF ActiveAdmin
<1>3. AdminCalm => OneLive'
  BY <1>1 DEF AdminInv, AdminCalmInv, OneLive
<1>4. AdminCalm => AdminCallFits(record)'
  BY <1>1, <1>2 DEF AdminCallFits, Session
<1>5. record.pc = "rotate" => record.id \in AdminTokIds /\ record.login \in AdminTokIds
  BY DEF AdminCallRecords
<1>6. record.pc = "token" => record.login \in AdminTokIds \cup {NoAdminTok}
  BY DEF AdminCallRecords
<1>7. /\ adminTok' \in [AdminTokIds -> AdminToken \cup {NoAdminTok}]
      /\ access' \in [AdminIds -> Roles \cup {"none"}]
      /\ \A t \in AdminSlots : adminCall'[t] = IF t = s THEN record ELSE adminCall[t]
  BY DEF AdminInv, AdminTypeOK, AdminCallsOK
<1>8. AdminTokMade'
  BY <1>5, <1>6, <1>7, MadeKept
<1>9. SuperAdmins' = SuperAdmins /\ (Warranted => SuperAdmins # {})
  BY DEF SuperAdmins, ActiveAdmin, AdminInv, SuperInv
<1>10. adminRow' \in [AdminIds -> Admin \cup {NoAdmin}]
  BY DEF AdminInv, AdminTypeOK
<1> QED BY <1>3, <1>4, <1>7, <1>8, <1>9, <1>10, AdminStepKeeps

(* Idle calls.                                                              *)
LEMMA IdleAdminCall ==
  /\ NoAdminCall \in AdminCallRecords /\ NoAdminCall.pc = "idle"
  /\ ~Taking(NoAdminCall) /\ AdminCallFits(NoAdminCall) /\ AdminCallFits(NoAdminCall)'
  BY DEF NoAdminCall, AdminCallRecords, AdminCallFits, Taking, Session

-----------------------------------------------------------------------------
(* Signing in.                                                              *)
LEMMA SignInKeeps ==
  ASSUME AdminInv, NEW s \in AdminSlots, NEW a \in AdminIds, SignIn(s, a)
  PROVE  AdminInv'
<1> DEFINE record == [pc |-> "save", admin |-> a, copy |-> adminRow[a],
                      login |-> NoAdminTok]
<1>1. adminRow[a] \in Admin /\ ActiveAdmin(a) /\ adminRow[a] # NoAdmin
  BY DEF SignIn, ActiveAdmin, AdminInv, AdminTypeOK
<1>2. record \in AdminCallRecords
  BY <1>1 DEF AdminCallRecords
<1>3. AdminCallFits(record) /\ ~Taking(record)
  BY <1>1 DEF AdminCallFits, Session, Taking
<1>4. /\ adminCall' = [adminCall EXCEPT ![s] = record] /\ BlameAdmin({})
      /\ UNCHANGED <<adminRow, adminTok, access, adminLoad>> /\ record.pc = "save"
  BY DEF SignIn, BeginAdmin
<1> HIDE DEF record
<1> QED BY <1>2, <1>3, <1>4, StepOnlyKeeps

LEMMA RefreshAdminKeeps ==
  ASSUME AdminInv, NEW s \in AdminSlots, NEW i \in AdminTokIds, RefreshAdmin(s, i)
  PROVE  AdminInv'
<1> DEFINE a == adminTok[i].admin
           record == [pc |-> "rotate", admin |-> a, copy |-> adminRow[a], id |-> i,
                      login |-> adminTok[i].login]
<1>1. /\ adminTok[i] \in AdminToken /\ adminTok[i] # NoAdminTok
      /\ adminTok[i].st = "live" /\ ActiveAdmin(a)
  BY DEF RefreshAdmin, AdminRefreshable, AdminInv, AdminTypeOK
<1>2. a \in AdminIds /\ adminTok[i].login \in AdminTokIds
  BY <1>1 DEF AdminToken
<1>3. adminRow[a] \in Admin /\ adminRow[a] # NoAdmin
  BY <1>1, <1>2 DEF ActiveAdmin, AdminInv, AdminTypeOK
<1>4. adminTok[adminTok[i].login] # NoAdminTok
  BY <1>1 DEF AdminInv, AdminTokMade
<1>5. record \in AdminCallRecords
  BY <1>2, <1>3 DEF AdminCallRecords
<1>6. AdminCalm => LiveOf(adminTok[i].login) \subseteq {i}
  BY <1>1, <1>2 DEF AdminInv, AdminCalmInv, OneLive, LiveOf
<1>7. (AdminCalm => AdminCallFits(record)) /\ ~Taking(record)
  BY <1>1, <1>3, <1>6 DEF AdminCallFits, Session, Taking
<1>8. /\ adminCall' = [adminCall EXCEPT ![s] = record] /\ BlameAdmin({})
      /\ UNCHANGED <<adminRow, adminTok, access, adminLoad>>
  BY DEF RefreshAdmin, BeginAdmin
<1>9. record.pc = "rotate" /\ record.id = i /\ record.login = adminTok[i].login
  OBVIOUS
<1> HIDE DEF record, a
<1> QED BY <1>1, <1>4, <1>5, <1>7, <1>8, <1>9, StepOnlyKeeps

LEMMA SaveLoginKeeps ==
  ASSUME AdminInv, NEW s \in AdminSlots, SaveLogin(s)
  PROVE  AdminInv'
<1> DEFINE k == adminCall[s]
<1>0. PICK record : record = [k EXCEPT !.pc = "token"]
  OBVIOUS
<1>1. /\ k.pc = "save" /\ k.admin \in AdminIds /\ k.copy \in Admin /\ s \in AdminBusy
      /\ k \in [pc : {"save"}, admin : AdminIds, copy : Admin, login : {NoAdminTok}]
  BY AdminCallKinds DEF SaveLogin, AdminAt
<1>2. BlameAdmin({}) /\ UNCHANGED <<adminTok, access, adminLoad>>
  BY DEF SaveLogin
<1>3. CASE adminRow[k.admin] = NoAdmin
  <2>1. adminCall' = [adminCall EXCEPT ![s] = NoAdminCall] /\ UNCHANGED adminRow
    BY <1>3 DEF SaveLogin, EndAdmin
  <2> QED BY <1>1, <1>2, <2>1, IdleAdminCall, StepOnlyKeeps
<1>4. CASE adminRow[k.admin] # NoAdmin
  <2>1. /\ adminRow' = [adminRow EXCEPT ![k.admin] = k.copy]
        /\ adminCall' = [adminCall EXCEPT ![s] = record]
    BY <1>0, <1>4 DEF SaveLogin, StepAdmin
  <2>2. record \in [pc : {"token"}, admin : AdminIds, copy : Admin, login : {NoAdminTok}]
        /\ record.admin = k.admin /\ record.copy = k.copy
    BY <1>0, <1>1
  <2>3. record \in AdminCallRecords /\ ~Taking(record)
    BY <2>2 DEF AdminCallRecords, Taking
  <2>4. /\ adminRow' \in [AdminIds -> Admin \cup {NoAdmin}]
        /\ adminTok' \in [AdminTokIds -> AdminToken \cup {NoAdminTok}]
        /\ access' \in [AdminIds -> Roles \cup {"none"}]
    BY <1>1, <1>2, <2>1 DEF AdminInv, AdminTypeOK
  <2>5. AdminTokMade'
    <3>1. \A t \in AdminSlots : adminCall'[t] = IF t = s THEN record ELSE adminCall[t]
      BY <2>1 DEF AdminInv, AdminCallsOK
    <3> QED BY <1>2, <2>2, <2>4, <3>1, MadeKept
  <2>6. AdminCalm => /\ AdminCallFits(k) /\ adminRow' = adminRow
    <3>1. AdminCalm => AdminCallFits(k)
      BY DEF AdminInv, AdminCalmInv
    <3>2. AdminCallFits(k) => k.copy = adminRow[k.admin]
      BY <1>1 DEF AdminCallFits, Session
    <3> QED BY <2>1, <3>1, <3>2 DEF AdminInv, AdminTypeOK
  <2>7. AdminCalm => OneLive' /\ AdminCallFits(record)'
    <3>1. AdminCalm => UNCHANGED <<adminRow, adminTok>>
      BY <1>2, <2>6
    <3>2. AdminCalm => OneLive'
      BY <3>1 DEF AdminInv, AdminCalmInv, OneLive, LiveOf
    <3>3. AdminCalm => ActiveAdmin(k.admin) /\ adminRow[k.admin] = k.copy
      BY <1>1, <2>6 DEF AdminCallFits, Session
    <3>4. AdminCalm => AdminCallFits(record)'
      BY <1>4, <2>2, <3>1, <3>3 DEF AdminCallFits, Session, ActiveAdmin
    <3> QED BY <3>2, <3>4
  <2>8. Warranted => SuperAdmins' # {}
    <3>1. Warranted => adminRow' = adminRow
      BY <2>6 DEF Warranted, AdminCalm
    <3> QED BY <3>1 DEF AdminInv, SuperInv, SuperAdmins, ActiveAdmin
  <2> QED BY <1>1, <1>2, <2>1, <2>3, <2>4, <2>5, <2>7, <2>8, AdminStepKeeps
<1> QED BY <1>3, <1>4

(* Rotating a token.                                                        *)
LEMMA RotateAdminKeeps ==
  ASSUME AdminInv, NEW s \in AdminSlots, RotateAdmin(s)
  PROVE  AdminInv'
<1> DEFINE k == adminCall[s]
<1>0. PICK record : record = [k EXCEPT !.pc = "token"]
  OBVIOUS
<1>1. /\ k.pc = "rotate" /\ s \in AdminBusy
      /\ k \in [pc : {"rotate"}, admin : AdminIds, copy : Admin,
                id : AdminTokIds, login : AdminTokIds]
  BY AdminCallKinds DEF RotateAdmin, AdminAt
<1>2. BlameAdmin({}) /\ UNCHANGED <<adminRow, access, adminLoad>>
  BY DEF RotateAdmin
<1>3. CASE adminTok[k.id].st = "gone"
  <2>1. adminCall' = [adminCall EXCEPT ![s] = NoAdminCall] /\ UNCHANGED adminTok
    BY <1>3 DEF RotateAdmin, EndAdmin
  <2> QED BY <1>1, <1>2, <2>1, IdleAdminCall, StepOnlyKeeps
<1>4. CASE adminTok[k.id].st # "gone"
  <2>1. /\ adminTok' = AdminToks({k.id}, "revoked")
        /\ adminCall' = [adminCall EXCEPT ![s] = record]
    BY <1>0, <1>4 DEF RotateAdmin, StepAdmin
  <2>2. /\ record \in [pc : {"token"}, admin : AdminIds, copy : Admin,
                       id : AdminTokIds, login : AdminTokIds]
        /\ record.admin = k.admin /\ record.copy = k.copy /\ record.login = k.login
    BY <1>0, <1>1
  <2>3. record \in AdminCallRecords /\ ~Taking(record)
    BY <2>2 DEF AdminCallRecords, Taking
  <2>4. adminTok[k.id] # NoAdminTok /\ adminTok[k.login] # NoAdminTok
    <3>1. k.login # NoAdminTok
      BY <1>1, AdminAssumption
    <3> QED BY <1>1, <3>1 DEF AdminInv, AdminTokMade, AdminAt
  <2>5. /\ adminTok' \in [AdminTokIds -> AdminToken \cup {NoAdminTok}]
        /\ \A i \in AdminTokIds : /\ adminTok'[i] = NoAdminTok <=> adminTok[i] = NoAdminTok
                                  /\ adminTok[i] # NoAdminTok =>
                                       adminTok'[i].login = adminTok[i].login
        /\ \A l : LiveOf(l)' = LiveOf(l) \ {k.id}
    BY <1>1, <2>1, <2>4, Closed
  <2>6. AdminTokMade'
    <3>1. \A t \in AdminSlots : adminCall'[t] = IF t = s THEN record ELSE adminCall[t]
      BY <2>1 DEF AdminInv, AdminCallsOK
    <3> QED BY <1>1, <2>2, <2>4, <2>5, <3>1, MadeKept
  <2>7. AdminCalm => OneLive' /\ AdminCallFits(record)'
    <3>1. AdminCalm => AdminCallFits(k) /\ OneLive
      BY DEF AdminInv, AdminCalmInv
    <3>2. AdminCalm => OneLive'
      BY <2>5, <3>1 DEF OneLive
    <3>3. AdminCalm => /\ LiveOf(k.login) \subseteq {k.id} /\ ActiveAdmin(k.admin)
                       /\ adminRow[k.admin] # NoAdmin /\ k.copy = adminRow[k.admin]
      BY <1>1, <3>1 DEF AdminCallFits, Session
    <3>4. AdminCalm => LiveOf(record.login)' = {}
      BY <2>2, <2>5, <3>3
    <3>5. AdminCalm => AdminCallFits(record)'
      BY <1>2, <2>2, <3>3, <3>4 DEF AdminCallFits, Session, ActiveAdmin
    <3> QED BY <3>2, <3>5
  <2>8. Warranted => SuperAdmins' # {}
    BY <1>2 DEF AdminInv, SuperInv, SuperAdmins, ActiveAdmin
  <2>9. /\ access' \in [AdminIds -> Roles \cup {"none"}]
        /\ adminRow' \in [AdminIds -> Admin \cup {NoAdmin}]
    BY <1>2 DEF AdminInv, AdminTypeOK
  <2> QED BY <1>1, <1>2, <2>1, <2>3, <2>5, <2>6, <2>7, <2>8, <2>9, AdminStepKeeps
<1> QED BY <1>3, <1>4

(* Issuing tokens: a new token is the only live one of its login.           *)
LEMMA NewToken ==
  ASSUME AdminInv, NEW s \in AdminSlots, AdminAt(s, "token"),
         NEW i \in AdminTokIds, adminTok[i] = NoAdminTok, NEW l \in AdminTokIds,
         l = IF adminCall[s].login = NoAdminTok THEN i ELSE adminCall[s].login,
         adminTok' = [adminTok EXCEPT ![i] =
           [admin |-> adminCall[s].admin, st |-> "live", login |-> l]],
         adminCall' = [adminCall EXCEPT ![s] = NoAdminCall]
  PROVE  /\ adminTok' \in [AdminTokIds -> AdminToken \cup {NoAdminTok}]
         /\ AdminTokMade'
         /\ AdminCalm => OneLive'
<1> DEFINE new == [admin |-> adminCall[s].admin, st |-> "live", login |-> l]
<1>1. new \in AdminToken /\ new # NoAdminTok /\ new.login = l
  BY AdminCallKinds, AdminNulls DEF AdminAt, AdminToken
<1>2. /\ adminTok' \in [AdminTokIds -> AdminToken \cup {NoAdminTok}]
      /\ \A j \in AdminTokIds : adminTok'[j] = IF j = i THEN new ELSE adminTok[j]
  BY <1>1 DEF AdminInv, AdminTypeOK
<1> HIDE DEF new
<1>3. \A j \in AdminTokIds : adminTok[j] # NoAdminTok => adminTok'[j] # NoAdminTok
  BY <1>1, <1>2
<1>4. adminTok'[l] # NoAdminTok
  <2>1. CASE adminCall[s].login = NoAdminTok
    BY <1>1, <1>2, <2>1
  <2>2. CASE adminCall[s].login # NoAdminTok
    BY <1>3, <2>2 DEF AdminInv, AdminTokMade
  <2> QED BY <2>1, <2>2
<1>5. \A j \in AdminTokIds : adminTok[j] # NoAdminTok =>
         adminTok[j].login \in AdminTokIds /\ adminTok[adminTok[j].login] # NoAdminTok
  BY DEF AdminInv, AdminTypeOK, AdminToken, AdminTokMade
<1>6. \A j \in AdminTokIds : adminTok'[j] # NoAdminTok => adminTok'[adminTok'[j].login] # NoAdminTok
  BY <1>1, <1>2, <1>3, <1>4, <1>5
<1>7. AdminTokMade'
  <2>1. \A t \in AdminSlots : adminCall'[t] = IF t = s THEN [pc |-> "idle"] ELSE adminCall[t]
    BY DEF AdminInv, AdminCallsOK, NoAdminCall
  <2>2. \A t \in AdminSlots :
          /\ AdminAt(t, "rotate") => adminCall[t].id \in AdminTokIds
          /\ AdminAt(t, "rotate") \/ AdminAt(t, "token") =>
               adminCall[t].login \in AdminTokIds \cup {NoAdminTok}
    BY DEF AdminInv, AdminCallsOK, AdminCallRecords, AdminAt
  <2>3. \A t \in AdminSlots :
          /\ AdminAt(t, "rotate")' => adminTok'[adminCall'[t].id] # NoAdminTok
          /\ (AdminAt(t, "rotate") \/ AdminAt(t, "token"))' =>
               adminCall'[t].login = NoAdminTok \/ adminTok'[adminCall'[t].login] # NoAdminTok
    BY <1>3, <2>1, <2>2 DEF AdminInv, AdminTokMade, AdminAt
  <2> QED BY <1>6, <2>3 DEF AdminTokMade, AdminAt
<1>8. AdminCalm => LiveOf(l) = {}
  <2>1. CASE adminCall[s].login = NoAdminTok
    BY <1>5, <2>1 DEF LiveOf
  <2>2. CASE adminCall[s].login # NoAdminTok
    <3>1. AdminCalm => AdminCallFits(adminCall[s])
      BY DEF AdminInv, AdminCalmInv
    <3> QED BY <2>2, <3>1 DEF AdminCallFits, AdminAt
  <2> QED BY <2>1, <2>2
<1>9. \A m \in AdminTokIds : LiveOf(m)' \subseteq LiveOf(m) \cup (IF m = l THEN {i} ELSE {})
  BY <1>1, <1>2 DEF LiveOf
<1>10. AdminCalm => OneLive'
  <2> SUFFICES ASSUME AdminCalm, NEW m \in AdminTokIds, NEW a \in LiveOf(m)', NEW b \in LiveOf(m)'
               PROVE  a = b
    BY DEF OneLive
  <2>1. \A c, d \in LiveOf(m) : c = d
    BY DEF AdminInv, AdminCalmInv, OneLive
  <2> QED BY <1>8, <1>9, <2>1
<1> QED BY <1>2, <1>7, <1>10

LEMMA IssueTokensKeeps ==
  ASSUME AdminInv, NEW s \in AdminSlots, IssueTokens(s)
  PROVE  AdminInv'
<1> DEFINE k == adminCall[s]
<1>1. /\ k.pc = "token" /\ s \in AdminBusy /\ k.admin \in AdminIds /\ k.copy \in Admin
      /\ k.login \in AdminTokIds \cup {NoAdminTok}
  BY AdminCallKinds DEF IssueTokens, AdminAt
<1>2. /\ BlameAdmin({}) /\ UNCHANGED <<adminRow, adminLoad>>
      /\ adminCall' = [adminCall EXCEPT ![s] = NoAdminCall]
  BY DEF IssueTokens, EndAdmin
<1>3. CASE adminRow[k.admin] = NoAdmin
  <2>1. UNCHANGED <<adminTok, access>>
    BY <1>3 DEF IssueTokens
  <2> QED BY <1>1, <1>2, <2>1, IdleAdminCall, StepOnlyKeeps
<1>4. CASE adminRow[k.admin] # NoAdmin
  <2>1. PICK i \in adminLoad.tokens :
          /\ adminTok[i] = NoAdminTok
          /\ adminTok' = [adminTok EXCEPT ![i] =
               [admin |-> k.admin, st |-> "live",
                login |-> IF k.login = NoAdminTok THEN i ELSE k.login]]
          /\ access' = [access EXCEPT ![k.admin] = k.copy.role]
    BY <1>4 DEF IssueTokens
  <2>2. i \in AdminTokIds
    BY AdminAssumption DEF AdminInv, AdminTypeOK
  <2>3. PICK l \in AdminTokIds : l = IF k.login = NoAdminTok THEN i ELSE k.login
    BY <1>1, <2>2
  <2>4. /\ adminTok' \in [AdminTokIds -> AdminToken \cup {NoAdminTok}]
        /\ AdminTokMade' /\ (AdminCalm => OneLive')
    BY <1>1, <1>2, <2>1, <2>2, <2>3, NewToken DEF AdminAt
  <2>5. access' \in [AdminIds -> Roles \cup {"none"}]
    BY <1>1, <2>1 DEF AdminInv, AdminTypeOK, Admin
  <2>6. adminRow' \in [AdminIds -> Admin \cup {NoAdmin}]
    BY <1>2 DEF AdminInv, AdminTypeOK
  <2>7. Warranted => SuperAdmins' # {}
    BY <1>2 DEF AdminInv, SuperInv, SuperAdmins, ActiveAdmin
  <2> QED BY <1>1, <1>2, <2>4, <2>5, <2>6, <2>7, IdleAdminCall, AdminStepKeeps
<1> QED BY <1>3, <1>4

-----------------------------------------------------------------------------
(* Changes of a row.                                                        *)
LEMMA ChangeAdminKeeps ==
  ASSUME AdminInv, NEW s \in AdminSlots, NEW by \in AdminIds, NEW a \in AdminIds,
         NEW change \in Changes, ChangeAdmin(s, by, a, change)
  PROVE  AdminInv'
<1> DEFINE record == [pc |-> "change", admin |-> a, copy |-> adminRow[a],
                      change |-> change]
           marks == Unwarranted(by) \cup
                    IF by = a /\ change = "demote" THEN {"demoted"} ELSE {}
<1>1. adminRow[a] \in Admin /\ adminRow[a] # NoAdmin
  BY DEF ChangeAdmin, AdminInv, AdminTypeOK
<1>2. record \in AdminCallRecords /\ AdminCallFits(record) /\ record.pc = "change"
      /\ record.admin = a /\ record.change = change
  BY <1>1 DEF AdminCallRecords, AdminCallFits, Session
<1>3. /\ adminCall' = [adminCall EXCEPT ![s] = record] /\ BlameAdmin(marks)
      /\ UNCHANGED <<adminRow, adminTok, access, adminLoad>>
  BY DEF ChangeAdmin, BeginAdmin
<1>4. marks \subseteq AdminFaults /\ "overlap" \notin marks
  BY DEF Unwarranted, AdminFaults
<1>5. marks = {} /\ Taking(record) => by \in SuperAdmins \ {a}
  <2>1. marks = {} => by \in SuperAdmins
    BY DEF Unwarranted
  <2>2. marks = {} /\ Taking(record) => by # a
    BY <1>2 DEF ChangeAdmin, Forbidden, Taking
  <2> QED BY <2>1, <2>2
<1> HIDE DEF record, marks
<1> QED BY <1>2, <1>3, <1>4, <1>5, StepOnlyKeeps

(* A change keeps or takes what a row was.                                  *)
LEMMA ChangedRow ==
  ASSUME NEW copy \in Admin, NEW change \in Changes
  PROVE  /\ Changed(copy, change) \in Admin
         /\ Changed(copy, change).active => copy.active \/ change = "activate"
         /\ Changed(copy, change).role = "super" => copy.role = "super" \/ change = "promote"
         /\ change \notin {"deactivate", "demote"} =>
              /\ copy.active => Changed(copy, change).active
              /\ copy.role = "super" => Changed(copy, change).role = "super"
  BY DEF Changed, Admin, Roles, Changes

LEMMA SaveAdminKeeps ==
  ASSUME AdminInv, NEW s \in AdminSlots, SaveAdmin(s)
  PROVE  AdminInv'
<1> DEFINE k == adminCall[s]
           row == IF adminRow[k.admin] = NoAdmin THEN NoAdmin ELSE Changed(k.copy, k.change)
<1>1. /\ k.pc = "change" /\ k.change # "delete" /\ k.change \in Changes
      /\ k.admin \in AdminIds /\ k.copy \in Admin /\ s \in AdminBusy
  BY AdminCallKinds DEF SaveAdmin, AdminAt
<1>2. /\ adminCall' = [adminCall EXCEPT ![s] = NoAdminCall] /\ BlameAdmin({})
      /\ adminRow' = [adminRow EXCEPT ![k.admin] = row]
      /\ UNCHANGED <<adminTok, access, adminLoad>>
  BY DEF SaveAdmin, EndAdmin
<1>3. row \in Admin \cup {NoAdmin}
  BY <1>1, ChangedRow
<1>4. /\ adminRow' \in [AdminIds -> Admin \cup {NoAdmin}]
      /\ adminTok' \in [AdminTokIds -> AdminToken \cup {NoAdminTok}]
      /\ access' \in [AdminIds -> Roles \cup {"none"}]
      /\ \A a \in AdminIds : adminRow'[a] = IF a = k.admin THEN row ELSE adminRow[a]
  BY <1>1, <1>2, <1>3 DEF AdminInv, AdminTypeOK
<1>5. AdminTokMade'
  <2>1. \A t \in AdminSlots : adminCall'[t] = IF t = s THEN [pc |-> "idle"] ELSE adminCall[t]
    BY <1>2 DEF AdminInv, AdminCallsOK, NoAdminCall
  <2> QED BY <1>2, <1>4, <2>1, MadeKept
<1>6. AdminCalm => OneLive'
  BY <1>2 DEF AdminInv, AdminCalmInv, OneLive, LiveOf
<1>7. Warranted => SuperAdmins' # {}
  <2> SUFFICES ASSUME Warranted PROVE SuperAdmins' # {}
    OBVIOUS
  <2>1. AdminCallFits(k) /\ CallLeaves(k)
    BY DEF AdminInv, AdminCalmInv, SuperInv, Warranted, AdminCalm
  <2>2. PICK b \in SuperAdmins : Taking(k) => b # k.admin
    BY <2>1 DEF CallLeaves, AdminInv, SuperInv
  <2>3. CASE b # k.admin
    BY <1>4, <2>2, <2>3 DEF SuperAdmins, ActiveAdmin
  <2>4. CASE b = k.admin
    <3>1. k.change \notin {"deactivate", "demote"}
      BY <1>1, <2>2, <2>4 DEF Taking
    <3>2. /\ k.copy = adminRow[b] /\ adminRow[b] # NoAdmin
          /\ adminRow[b].active /\ adminRow[b].role = "super"
      BY <1>1, <2>1, <2>2, <2>4 DEF AdminCallFits, SuperAdmins, ActiveAdmin
    <3>3. row = Changed(k.copy, k.change) /\ row \in Admin /\ row.active /\ row.role = "super"
      BY <1>1, <2>4, <3>1, <3>2, ChangedRow
    <3>4. adminRow'[b] = row /\ row # NoAdmin
      BY <1>4, <2>2, <2>4, <3>3, AdminNulls DEF SuperAdmins
    <3>5. b \in SuperAdmins'
      BY <2>2, <3>3, <3>4 DEF SuperAdmins, ActiveAdmin
    <3> QED BY <3>5
  <2> QED BY <2>3, <2>4
<1> QED BY <1>1, <1>2, <1>4, <1>5, <1>6, <1>7, IdleAdminCall, AdminStepKeeps

LEMMA RemoveAdminKeeps ==
  ASSUME AdminInv, NEW s \in AdminSlots, RemoveAdmin(s)
  PROVE  AdminInv'
<1> DEFINE a == adminCall[s].admin
           ids == {i \in AdminTokIds : adminTok[i] # NoAdminTok /\ adminTok[i].admin = a}
<1>1. /\ adminCall[s].pc = "change" /\ adminCall[s].change = "delete"
      /\ a \in AdminIds /\ s \in AdminBusy
  BY AdminCallKinds DEF RemoveAdmin, AdminAt
<1>2. /\ adminCall' = [adminCall EXCEPT ![s] = NoAdminCall] /\ BlameAdmin({})
      /\ adminRow' = [adminRow EXCEPT ![a] = NoAdmin] /\ adminTok' = AdminToks(ids, "gone")
      /\ UNCHANGED <<access, adminLoad>>
  BY DEF RemoveAdmin, EndAdmin
<1>3. ids \subseteq AdminTokIds /\ \A i \in ids : adminTok[i] # NoAdminTok
  OBVIOUS
<1> HIDE DEF ids
<1>4. /\ adminTok' \in [AdminTokIds -> AdminToken \cup {NoAdminTok}]
      /\ \A i \in AdminTokIds : /\ adminTok'[i] = NoAdminTok <=> adminTok[i] = NoAdminTok
                                /\ adminTok[i] # NoAdminTok =>
                                     adminTok'[i].login = adminTok[i].login
      /\ \A l : LiveOf(l)' = LiveOf(l) \ ids
  BY <1>2, <1>3, Closed
<1>5. /\ adminRow' \in [AdminIds -> Admin \cup {NoAdmin}]
      /\ access' \in [AdminIds -> Roles \cup {"none"}]
      /\ \A b \in AdminIds : b # a => adminRow'[b] = adminRow[b]
  BY <1>1, <1>2 DEF AdminInv, AdminTypeOK
<1>6. AdminTokMade'
  <2>1. \A t \in AdminSlots : adminCall'[t] = IF t = s THEN [pc |-> "idle"] ELSE adminCall[t]
    BY <1>2 DEF AdminInv, AdminCallsOK, NoAdminCall
  <2> QED BY <1>4, <2>1, MadeKept
<1>7. AdminCalm => OneLive'
  BY <1>4 DEF AdminInv, AdminCalmInv, OneLive
<1>8. Warranted => SuperAdmins' # {}
  <2>1. Warranted => \E b \in SuperAdmins : b # a
    BY <1>1 DEF AdminInv, SuperInv, CallLeaves, Taking
  <2> QED BY <1>5, <2>1 DEF SuperAdmins, ActiveAdmin
<1> QED BY <1>1, <1>2, <1>4, <1>5, <1>6, <1>7, <1>8, IdleAdminCall, AdminStepKeeps

-----------------------------------------------------------------------------
(* Steps of no call.                                                        *)
LEMMA FreeKeeps ==
  ASSUME AdminInv, UNCHANGED <<adminCall, adminLoad>>,
         adminRow' \in [AdminIds -> Admin \cup {NoAdmin}],
         access' \in [AdminIds -> Roles \cup {"none"}],
         adminTok' \in [AdminTokIds -> AdminToken \cup {NoAdminTok}],
         \A i \in AdminTokIds : /\ adminTok'[i] = NoAdminTok <=> adminTok[i] = NoAdminTok
                                /\ adminTok[i] # NoAdminTok =>
                                     adminTok'[i].login = adminTok[i].login,
         \A l : LiveOf(l)' \subseteq LiveOf(l),
         \A a \in AdminIds : adminRow[a] # NoAdmin => adminRow'[a] = adminRow[a],
         NEW marks, marks \subseteq AdminFaults, BlameAdmin(marks)
  PROVE  AdminInv'
<1>1. AdminTokMade'
  BY MadeKept
<1>2. SuperAdmins \subseteq SuperAdmins'
  BY DEF SuperAdmins, ActiveAdmin
<1>3. AdminCalm => OneLive' /\ \A s \in AdminSlots : AdminCallFits(adminCall[s])'
  <2> SUFFICES ASSUME AdminCalm
               PROVE  OneLive' /\ \A s \in AdminSlots : AdminCallFits(adminCall[s])'
    OBVIOUS
  <2>1. OneLive'
    BY DEF AdminInv, AdminCalmInv, OneLive
  <2>2. ASSUME NEW s \in AdminSlots, adminCall[s].pc = "idle"
        PROVE  AdminCallFits(adminCall[s])'
    BY <2>2 DEF AdminCallFits, Session
  <2>3. ASSUME NEW s \in AdminSlots, adminCall[s].pc # "idle"
        PROVE  AdminCallFits(adminCall[s])'
    <3>1. AdminCallFits(adminCall[s]) /\ adminCall[s].admin \in AdminIds
      BY <2>3, AdminCallKinds DEF AdminInv, AdminCalmInv
    <3>2. adminRow[adminCall[s].admin] # NoAdmin =>
            adminRow'[adminCall[s].admin] = adminRow[adminCall[s].admin]
      BY <3>1
    <3> QED BY <3>1, <3>2 DEF AdminCallFits, Session, ActiveAdmin
  <2> QED BY <2>1, <2>2, <2>3
<1>4. Warranted => SuperAdmins' # {} /\ \A s \in AdminSlots : CallLeaves(adminCall[s])'
  BY <1>2 DEF AdminInv, SuperInv, CallLeaves, Taking
<1>5. AdminCalmInv' /\ SuperInv' /\ adminFault' \subseteq AdminFaults
  BY <1>3, <1>4, AdminBlamed DEF AdminInv, AdminTypeOK
<1> QED BY <1>1, <1>5 DEF AdminInv, AdminTypeOK, AdminCallsOK

LEMMA SameTokens ==
  ASSUME AdminInv, UNCHANGED adminTok
  PROVE  /\ adminTok' \in [AdminTokIds -> AdminToken \cup {NoAdminTok}]
         /\ \A i \in AdminTokIds : /\ adminTok'[i] = NoAdminTok <=> adminTok[i] = NoAdminTok
                                   /\ adminTok[i] # NoAdminTok =>
                                        adminTok'[i].login = adminTok[i].login
         /\ \A l : LiveOf(l)' \subseteq LiveOf(l)
  BY DEF AdminInv, AdminTypeOK, LiveOf

LEMMA SameRows ==
  ASSUME AdminInv, UNCHANGED adminRow
  PROVE  /\ adminRow' \in [AdminIds -> Admin \cup {NoAdmin}]
         /\ \A a \in AdminIds : adminRow[a] # NoAdmin => adminRow'[a] = adminRow[a]
  BY DEF AdminInv, AdminTypeOK

LEMMA AdminLogoutKeeps ==
  ASSUME AdminInv, NEW a \in AdminIds, NEW ids \in SUBSET AdminTokIds, LogoutAdmin(a, ids)
  PROVE  AdminInv'
<1> DEFINE marks == IF AdminBusy = {} THEN {} ELSE {"overlap"}
<1>1. /\ adminTok' = AdminToks(ids, "revoked") /\ \A i \in ids : adminTok[i] # NoAdminTok
      /\ access' = [access EXCEPT ![a] = "none"]
      /\ UNCHANGED <<adminRow, adminCall, adminLoad>>
      /\ marks \subseteq AdminFaults /\ BlameAdmin(marks)
  BY DEF LogoutAdmin, AdminFaults
<1>2. /\ adminTok' \in [AdminTokIds -> AdminToken \cup {NoAdminTok}]
      /\ \A i \in AdminTokIds : /\ adminTok'[i] = NoAdminTok <=> adminTok[i] = NoAdminTok
                                /\ adminTok[i] # NoAdminTok =>
                                     adminTok'[i].login = adminTok[i].login
      /\ \A l : LiveOf(l)' \subseteq LiveOf(l)
  BY <1>1, Closed
<1>3. access' \in [AdminIds -> Roles \cup {"none"}]
  BY <1>1 DEF AdminInv, AdminTypeOK
<1> HIDE DEF marks
<1> QED BY <1>1, <1>2, <1>3, SameRows, FreeKeeps

LEMMA AdminExpireKeeps ==
  ASSUME AdminInv,
         \/ \E a \in AdminIds : ExpireAccess(a)
         \/ \E i \in AdminTokIds : ExpireAdminTok(i)
  PROVE  AdminInv'
<1>0. {} \subseteq AdminFaults
  OBVIOUS
<1>1. ASSUME NEW a \in AdminIds, ExpireAccess(a)
      PROVE  AdminInv'
  <2>1. /\ access' \in [AdminIds -> Roles \cup {"none"}]
        /\ UNCHANGED <<adminRow, adminTok, adminCall, adminLoad>> /\ BlameAdmin({})
    BY <1>1 DEF ExpireAccess, AdminInv, AdminTypeOK
  <2> QED BY <1>0, <2>1, SameTokens, SameRows, FreeKeeps
<1>2. ASSUME NEW i \in AdminTokIds, ExpireAdminTok(i)
      PROVE  AdminInv'
  <2>1. /\ adminTok' = AdminToks({i}, "expired") /\ adminTok[i] # NoAdminTok
        /\ UNCHANGED <<adminRow, access, adminCall, adminLoad>> /\ BlameAdmin({})
    BY <1>2 DEF ExpireAdminTok
  <2>2. /\ adminTok' \in [AdminTokIds -> AdminToken \cup {NoAdminTok}]
        /\ \A j \in AdminTokIds : /\ adminTok'[j] = NoAdminTok <=> adminTok[j] = NoAdminTok
                                  /\ adminTok[j] # NoAdminTok =>
                                       adminTok'[j].login = adminTok[j].login
        /\ \A l : LiveOf(l)' \subseteq LiveOf(l)
    BY <2>1, Closed
  <2>3. access' \in [AdminIds -> Roles \cup {"none"}]
    BY <2>1 DEF AdminInv, AdminTypeOK
  <2> QED BY <1>0, <2>1, <2>2, <2>3, SameRows, FreeKeeps
<1> QED BY <1>1, <1>2

LEMMA CreateAdminKeeps ==
  ASSUME AdminInv, NEW by \in AdminIds, NEW a \in AdminIds, NEW role \in Roles,
         CreateAdmin(by, a, role)
  PROVE  AdminInv'
<1> DEFINE marks == Unwarranted(by)
<1>1. /\ adminRow[a] = NoAdmin
      /\ adminRow' = [adminRow EXCEPT ![a] = [active |-> TRUE, role |-> role]]
      /\ UNCHANGED <<adminTok, access, adminCall, adminLoad>>
      /\ marks \subseteq AdminFaults /\ BlameAdmin(marks)
  BY DEF CreateAdmin, Unwarranted, AdminFaults
<1>2. [active |-> TRUE, role |-> role] \in Admin
  BY DEF Admin
<1>3. /\ adminRow' \in [AdminIds -> Admin \cup {NoAdmin}]
      /\ access' \in [AdminIds -> Roles \cup {"none"}]
      /\ \A b \in AdminIds : adminRow[b] # NoAdmin => adminRow'[b] = adminRow[b]
  BY <1>1, <1>2 DEF AdminInv, AdminTypeOK
<1> HIDE DEF marks
<1> QED BY <1>1, <1>3, SameTokens, FreeKeeps

-----------------------------------------------------------------------------
LEMMA AdminInitHolds ==
  ASSUME AdminInit
  PROVE  AdminInv
<1>1. /\ DOMAIN adminLoad.first \subseteq AdminIds
      /\ \A a \in DOMAIN adminLoad.first : adminLoad.first[a] \in {"super", "plain"}
      /\ \E a \in DOMAIN adminLoad.first : adminLoad.first[a] = "super"
  BY AdminAssumption DEF AdminInit
<1>2. \A a \in AdminIds : a \in DOMAIN adminLoad.first =>
        [active |-> TRUE, role |-> adminLoad.first[a]] \in Admin
  BY <1>1 DEF Admin, Roles
<1>3. AdminTypeOK
  BY <1>2 DEF AdminInit, AdminTypeOK
<1>4. AdminCallsOK
  BY IdleAdminCall DEF AdminInit, AdminCallsOK
<1>5. \A s \in AdminSlots : adminCall[s] = NoAdminCall
  BY DEF AdminInit
<1>6. AdminTokMade
  BY <1>5 DEF AdminInit, AdminTokMade, AdminAt, NoAdminCall
<1>7. AdminCalmInv
  <2>1. OneAdminCall /\ \A s \in AdminSlots : AdminCallFits(adminCall[s])
    BY <1>5, IdleAdminCall DEF OneAdminCall, AdminBusy
  <2>2. OneLive
    BY DEF AdminInit, OneLive, LiveOf
  <2> QED BY <2>1, <2>2 DEF AdminCalmInv
<1>8. SuperInv
  <2>1. PICK a \in DOMAIN adminLoad.first : adminLoad.first[a] = "super"
    BY <1>1
  <2>2. adminRow[a] = [active |-> TRUE, role |-> "super"] /\ a \in AdminIds
    BY <1>1, <2>1 DEF AdminInit
  <2>3. adminRow[a] # NoAdmin
    <3>1. [active |-> TRUE, role |-> "super"] \in Admin
      BY DEF Admin, Roles
    <3> QED BY <2>2, <3>1, AdminNulls
  <2>4. a \in SuperAdmins
    BY <2>2, <2>3 DEF SuperAdmins, ActiveAdmin
  <2>5. \A s \in AdminSlots : ~Taking(adminCall[s])
    BY <1>5, IdleAdminCall
  <2> QED BY <2>4, <2>5 DEF SuperInv, CallLeaves
<1> QED BY <1>3, <1>4, <1>6, <1>7, <1>8 DEF AdminInv

LEMMA AdminNextKeeps ==
  ASSUME AdminInv, [AdminNext]_adminVars
  PROVE  AdminInv'
<1>0. adminLoad.slots \subseteq AdminSlots
  BY AdminAssumption DEF AdminInv, AdminTypeOK
<1>1. CASE UNCHANGED adminVars
  <2>1. UNCHANGED <<adminRow, adminTok, access, adminCall, adminLoad, adminFault>>
    BY <1>1 DEF adminVars
  <2>2. AdminTypeOK' /\ AdminCallsOK' /\ AdminTokMade'
    BY <2>1 DEF AdminInv, AdminTypeOK, AdminCallsOK, AdminTokMade, AdminAt
  <2>3. \A l : LiveOf(l)' = LiveOf(l)
    BY <2>1 DEF LiveOf
  <2>4. \A s : AdminCallFits(adminCall[s])' <=> AdminCallFits(adminCall[s])
    BY <2>1, <2>3 DEF AdminCallFits, Session, ActiveAdmin
  <2>5. SuperAdmins' = SuperAdmins /\ AdminBusy' = AdminBusy
    BY <2>1 DEF SuperAdmins, ActiveAdmin, AdminBusy
  <2>6. AdminCalmInv'
    BY <2>1, <2>3, <2>4, <2>5 DEF AdminInv, AdminCalmInv, AdminCalm, OneAdminCall, OneLive
  <2>7. SuperInv'
    BY <2>1, <2>5 DEF AdminInv, SuperInv, Warranted, CallLeaves, Taking
  <2> QED BY <2>2, <2>6, <2>7 DEF AdminInv
<1>2. ASSUME NEW s \in adminLoad.slots,
             \/ \E a \in AdminIds : SignIn(s, a)
             \/ SaveLogin(s)
             \/ \E i \in AdminTokIds : RefreshAdmin(s, i)
             \/ RotateAdmin(s)
             \/ IssueTokens(s)
             \/ \E by, a \in AdminIds, change \in Changes : ChangeAdmin(s, by, a, change)
             \/ SaveAdmin(s)
             \/ RemoveAdmin(s)
      PROVE  AdminInv'
  BY <1>0, <1>2, SignInKeeps, SaveLoginKeeps, RefreshAdminKeeps, RotateAdminKeeps,
     IssueTokensKeeps, ChangeAdminKeeps, SaveAdminKeeps, RemoveAdminKeeps
<1>3. ASSUME NEW a \in AdminIds,
             ExpireAccess(a) \/ \E ids \in SUBSET AdminTokIds : LogoutAdmin(a, ids)
      PROVE  AdminInv'
  BY <1>3, AdminExpireKeeps, AdminLogoutKeeps
<1>4. ASSUME NEW i \in AdminTokIds, ExpireAdminTok(i)
      PROVE  AdminInv'
  BY <1>4, AdminExpireKeeps
<1>5. ASSUME NEW by \in AdminIds, NEW a \in AdminIds, NEW role \in Roles,
             CreateAdmin(by, a, role)
      PROVE  AdminInv'
  BY <1>5, CreateAdminKeeps
<1> QED BY <1>1, <1>2, <1>3, <1>4, <1>5 DEF AdminNext

-----------------------------------------------------------------------------
(* For any number of administrators, tokens and calls of auth-service: one  *)
(* super administrator stays unless calls overlapped, the last one gave up  *)
(* the role or an outdated access token was used, and a login has one live  *)
(* refresh token unless calls overlapped.                                   *)
THEOREM AdministratorsStaySafe == AdminSpec => []AdminsSafe
<1>1. AdminInv => AdminsSafe
  <2>1. AdminInv => SomeSuperAdmin
    BY DEF AdminInv, SuperInv, Warranted, SomeSuperAdmin
  <2>2. AdminInv => AdminTokenOnce
    BY DEF AdminInv, AdminCalmInv, AdminCalm, OneLive, AdminTokenOnce
  <2> QED BY <2>1, <2>2 DEF AdminsSafe
<1> QED BY <1>1, AdminInitHolds, AdminNextKeeps, PTL DEF AdminSpec

(* The step invariants below hold of a step from a state of the invariant.  *)
LEMMA RowsChangeByRequest ==
  ASSUME AdminInv, AdminNext, AdminCalm,
         NEW a \in AdminIds, adminRow[a] # NoAdmin, adminRow'[a] # NoAdmin
  PROVE  /\ adminRow'[a].active => adminRow[a].active \/
              \E s \in AdminBusy : AdminAt(s, "change") /\ adminCall[s].change = "activate"
         /\ adminRow'[a].role = "super" => adminRow[a].role = "super" \/
              \E s \in AdminBusy : AdminAt(s, "change") /\ adminCall[s].change = "promote"
<1>0. adminLoad.slots \subseteq AdminSlots
  BY AdminAssumption DEF AdminInv, AdminTypeOK
<1>1. CASE \E s \in adminLoad.slots : SaveLogin(s)
  <2>1. PICK s \in AdminSlots : SaveLogin(s)
    BY <1>0, <1>1
  <2>2. /\ adminCall[s].pc = "save" /\ AdminCallFits(adminCall[s])
        /\ adminCall[s].admin \in AdminIds
    BY <2>1, AdminCallKinds DEF SaveLogin, AdminAt, AdminInv, AdminCalmInv
  <2>3. adminCall[s].copy = adminRow[adminCall[s].admin]
    BY <2>2 DEF AdminCallFits, Session
  <2>4. adminRow' = adminRow
    BY <2>1, <2>2, <2>3 DEF SaveLogin, AdminInv, AdminTypeOK
  <2> QED BY <2>4
<1>2. CASE \E s \in adminLoad.slots : SaveAdmin(s)
  <2>1. PICK s \in AdminSlots : SaveAdmin(s)
    BY <1>0, <1>2
  <2>2. /\ AdminAt(s, "change") /\ adminCall[s].change \in Changes
        /\ adminCall[s].admin \in AdminIds /\ adminCall[s].copy \in Admin
        /\ s \in AdminBusy /\ AdminCallFits(adminCall[s])
    BY <2>1, AdminCallKinds DEF SaveAdmin, AdminAt, AdminInv, AdminCalmInv
  <2>3. adminCall[s].copy = adminRow[adminCall[s].admin]
    BY <2>2 DEF AdminCallFits, AdminAt
  <2>4. CASE a # adminCall[s].admin
    <3>1. adminRow'[a] = adminRow[a]
      BY <2>1, <2>4 DEF SaveAdmin, AdminInv, AdminTypeOK
    <3> QED BY <3>1
  <2>5. CASE a = adminCall[s].admin
    <3>1. adminRow'[a] = Changed(adminRow[a], adminCall[s].change)
      BY <2>1, <2>2, <2>3, <2>5 DEF SaveAdmin, AdminInv, AdminTypeOK
    <3>2. adminRow[a] \in Admin
      BY <2>2, <2>3, <2>5
    <3> QED BY <2>2, <3>1, <3>2, ChangedRow
  <2> QED BY <2>4, <2>5
<1>3. CASE \E s \in adminLoad.slots : RemoveAdmin(s)
  BY <1>3 DEF RemoveAdmin, AdminInv, AdminTypeOK
<1>4. CASE \E by, b \in AdminIds, role \in Roles : CreateAdmin(by, b, role)
  BY <1>4 DEF CreateAdmin, AdminInv, AdminTypeOK
<1>5. CASE UNCHANGED adminRow
  BY <1>5
<1> QED BY <1>1, <1>2, <1>3, <1>4, <1>5
        DEF AdminNext, SignIn, RefreshAdmin, RotateAdmin, IssueTokens, ChangeAdmin,
            ExpireAccess, LogoutAdmin, ExpireAdminTok

(* Of any number of administrators: while calls do not overlap, only an     *)
(* activation makes one active again and only a promotion makes one super.  *)
THEOREM AdminRowsAreKept == AdminSpec => AdminRowKept
<1> DEFINE Kept ==
        \/ \A a \in AdminIds : adminRow[a] # NoAdmin /\ adminRow'[a] # NoAdmin =>
             /\ adminRow'[a].active => adminRow[a].active \/
                  \E s \in AdminBusy : AdminAt(s, "change") /\ adminCall[s].change = "activate"
             /\ adminRow'[a].role = "super" => adminRow[a].role = "super" \/
                  \E s \in AdminBusy : AdminAt(s, "change") /\ adminCall[s].change = "promote"
        \/ "overlap" \in adminFault
<1>1. AdminInv /\ [AdminNext]_adminVars => [Kept]_adminVars
  BY RowsChangeByRequest DEF AdminCalm
<1> QED BY <1>1, AdminInitHolds, AdminNextKeeps, PTL DEF AdminSpec, AdminRowKept

(* An access token is issued from the copy of the row.                      *)
LEMMA AccessFromRow ==
  ASSUME AdminInv, AdminNext, AdminCalm,
         NEW a \in AdminIds, access'[a] \notin {"none", access[a]}
  PROVE  ActiveAdmin(a) /\ adminRow[a].role = access'[a]
<1>0. adminLoad.slots \subseteq AdminSlots
  BY AdminAssumption DEF AdminInv, AdminTypeOK
<1>1. CASE \E s \in adminLoad.slots : IssueTokens(s)
  <2>1. PICK s \in AdminSlots : IssueTokens(s)
    BY <1>0, <1>1
  <2>2. /\ adminCall[s].pc = "token" /\ AdminCallFits(adminCall[s])
    BY <2>1 DEF IssueTokens, AdminAt, AdminInv, AdminCalmInv
  <2>3. /\ adminCall[s].copy = adminRow[adminCall[s].admin]
        /\ ActiveAdmin(adminCall[s].admin)
    BY <2>2 DEF AdminCallFits, Session
  <2>4. access' = [access EXCEPT ![adminCall[s].admin] = adminCall[s].copy.role]
    BY <2>1 DEF IssueTokens
  <2>5. a = adminCall[s].admin /\ access'[a] = adminCall[s].copy.role
    BY <2>4 DEF AdminInv, AdminTypeOK
  <2> QED BY <2>3, <2>5
<1>2. CASE \E b \in AdminIds : ExpireAccess(b)
  BY <1>2 DEF ExpireAccess, AdminInv, AdminTypeOK
<1>3. CASE \E b \in AdminIds, ids \in SUBSET AdminTokIds : LogoutAdmin(b, ids)
  BY <1>3 DEF LogoutAdmin, AdminInv, AdminTypeOK
<1>4. CASE UNCHANGED access
  BY <1>4
<1> QED BY <1>1, <1>2, <1>3, <1>4
        DEF AdminNext, SignIn, SaveLogin, RefreshAdmin, RotateAdmin, ChangeAdmin,
            SaveAdmin, RemoveAdmin, ExpireAdminTok, CreateAdmin

(* Of any number of administrators: while calls do not overlap, an access   *)
(* token is issued to an active administrator, with the role of the row.    *)
THEOREM AccessIsOfTheRow == AdminSpec => AccessFollowsRow
<1> DEFINE Follows ==
        \/ \A a \in AdminIds : access'[a] \notin {"none", access[a]} =>
             ActiveAdmin(a) /\ adminRow[a].role = access'[a]
        \/ "overlap" \in adminFault
<1>1. AdminInv /\ [AdminNext]_adminVars => [Follows]_adminVars
  BY AccessFromRow DEF AdminCalm
<1> QED BY <1>1, AdminInitHolds, AdminNextKeeps, PTL DEF AdminSpec, AccessFollowsRow
=============================================================================
