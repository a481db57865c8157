------------------------------ MODULE Sessions ------------------------------
(***************************************************************************)
(* The sessions of one user: the row in user-service, with its password,   *)
(* and the refresh tokens of auth-service, of which a refresh revokes one  *)
(* and inserts another.  A new password or a deactivation revokes them all *)
(* by an event or at the end of a reset.                                   *)
(***************************************************************************)
EXTENDS Naturals, FiniteSets

CONSTANTS
  TokenIds,     \* bounds the refresh tokens ever created, numbered
  MaxSessions,  \* MAX_ACTIVE_SESSIONS
  MaxPasswords, \* bounds the passwords, numbered
  SessSlots,    \* where calls run
  SessLoads,    \* what one behaviour is made of: records
                \* [handlers, verified, tokens, slots]
  NoToken

VARIABLES
  userRow,      \* user-service: the row of the user
  token,        \* auth-service: the refresh tokens
  loggedOut,    \* the logins that were logged out
  revocations,  \* USER.PASSWORD_CHANGED and USER.DELETED on their way
  sessCall,     \* the calls in flight
  sessLoad,     \* the handlers of this behaviour
  sessFault     \* history: what may have kept a session alive

sessVars == <<userRow, token, loggedOut, revocations, sessCall, sessLoad,
              sessFault>>

(* Calls that overlapped; a token refreshed within 30 seconds after it was  *)
(* revoked; a revocation that was lost.                                     *)
SessFaults == {"overlap", "grace", "lost"}

User == [active : BOOLEAN, verified : BOOLEAN, pw : 0..MaxPasswords]

(* A token is live until it is revoked, and may be refreshed in the grace   *)
(* period after; login is the first token of its login, pw the password     *)
(* that was given there.                                                    *)
RefreshToken == [st : {"live", "grace", "revoked", "deleted"}, expired : BOOLEAN,
                 login : TokenIds, pw : 0..MaxPasswords]

ASSUME SessionAssumption ==
  /\ TokenIds \subseteq Nat /\ MaxSessions \in Nat \ {0} /\ MaxPasswords \in Nat
  /\ NoToken \notin TokenIds \cup RefreshToken
  /\ \A l \in SessLoads : l.tokens \subseteq TokenIds /\ l.slots \subseteq SessSlots
                         /\ l.verified \in BOOLEAN

(* user-service: updateProfile and updateLanguage, updatePassword and       *)
(* deleteAccount read the row of an active user, with its password for the  *)
(* last two; adminUpdateStatus reads any row.                               *)
Edits ==
  {[op |-> o, on |-> TRUE] : o \in {"profile", "password"}} \cup
  {[op |-> "delete", on |-> FALSE]} \cup
  {[op |-> "status", on |-> b] : b \in BOOLEAN}

(* A call: what it does next, and what it read or was given.                *)
SessCalls ==
  [pc : {"idle", "revoke"}]
    \cup [pc : {"user", "rotate"}, id : TokenIds, grace : BOOLEAN]
    \cup [pc : {"list", "trim", "insert"}, login : TokenIds \cup {NoToken},
          pw : 0..MaxPasswords, todo : SUBSET TokenIds]
    \cup [pc : {"saveUser"}, edit : Edits, copy : User]
    \cup [pc : {"emit"}, news : (SUBSET {"password", "deleted"}) \ {{}}]

SessTypeOK ==
  /\ userRow \in User
  /\ token \in [TokenIds -> RefreshToken \cup {NoToken}]
  /\ loggedOut \subseteq TokenIds
  /\ revocations \subseteq {"password", "deleted"}
  /\ sessCall \in [SessSlots -> SessCalls]
  /\ sessLoad \in SessLoads
  /\ sessFault \subseteq SessFaults

-----------------------------------------------------------------------------
NoSessCall == [pc |-> "idle"]
SessBusy == {s \in SessSlots : sessCall[s] # NoSessCall}
SessQuiet == SessBusy = {} /\ revocations = {}
Is(i, st) == token[i] # NoToken /\ token[i].st = st
LiveTokens == {i \in TokenIds : Is(i, "live")}
Unused == {i \in sessLoad.tokens : token[i] = NoToken}

OfLogin(l) == {i \in LiveTokens : token[i].login = l}
FromNow(i) == userRow.active /\ token[i].pw = userRow.pw

(* A live token that a newer one of its login replaced is out of order even *)
(* if it is the only one: the client has the newer one to log out with.     *)
Newest(i) ==
  \A j \in TokenIds : token[j] # NoToken /\ token[j].login = token[i].login => j <= i

SessionsInOrder ==
  /\ \A i \in LiveTokens : FromNow(i) /\ token[i].login \notin loggedOut /\ Newest(i)
  /\ Cardinality(LiveTokens) <= MaxSessions

BlameSess(marks) ==
  sessFault' = IF SessQuiet' /\ SessionsInOrder' THEN {}
               ELSE sessFault \cup marks
                    \cup IF \E s, t \in SessBusy' : s # t THEN {"overlap"} ELSE {}

(* For what happens in one step while calls may be running.                 *)
Meanwhile == IF SessBusy = {} THEN {} ELSE {"overlap"}

BeginSess(s, record) == /\ sessCall[s] = NoSessCall
                        /\ sessCall' = [sessCall EXCEPT ![s] = record]
StepSess(s, record) == sessCall' = [sessCall EXCEPT ![s] = record]
EndSess(s) == sessCall' = [sessCall EXCEPT ![s] = NoSessCall]
SessAt(s, pc) == sessCall[s].pc = pc
Offers(h) == h \in sessLoad.handlers

Revoked(ids) ==
  [i \in TokenIds |-> IF i \in ids /\ Is(i, "live")
                      THEN [token[i] EXCEPT !.st = "grace"] ELSE token[i]]

-----------------------------------------------------------------------------
(* auth-service: validateUser, once FIND_BY_EMAIL_FOR_LOGIN answered and    *)
(* the password was right.                                                  *)
Login(s) ==
  /\ Offers("login")
  /\ userRow.active /\ userRow.verified
  /\ BeginSess(s, [pc |-> "list", login |-> NoToken, pw |-> userRow.pw,
                   todo |-> {}])
  /\ UNCHANGED <<userRow, token, loggedOut, revocations, sessLoad>>
  /\ BlameSess({})

(* Mutant: any token that is still there is refreshed.                      *)
RefreshableEver(i) == token[i] # NoToken /\ token[i].st # "deleted"

(* A live token that did not expire, or one revoked in the last 30 seconds. *)
Refreshable(i) ==
  (Is(i, "live") /\ ~token[i].expired) \/ Is(i, "grace")

Refresh(s, i) ==
  /\ Offers("refresh")
  /\ Refreshable(i)
  /\ BeginSess(s, [pc |-> "user", id |-> i, grace |-> token[i].st # "live"])
  /\ UNCHANGED <<userRow, token, loggedOut, revocations, sessLoad>>
  /\ BlameSess(IF token[i].st = "grace" THEN {"grace"} ELSE {})

(* USER.GET_BY_ID: an inactive user gets a 403.                             *)
CheckUser(s) ==
  /\ SessAt(s, "user")
  /\ LET k == sessCall[s]
     IN  IF ~userRow.active THEN EndSess(s)
         ELSE StepSess(s, IF k.grace
                          THEN [pc |-> "list", login |-> token[k.id].login,
                                pw |-> token[k.id].pw, todo |-> {}]
                          ELSE [k EXCEPT !.pc = "rotate"])
  /\ UNCHANGED <<userRow, token, loggedOut, revocations, sessLoad>>
  /\ BlameSess({})

(* Mutant: the old token stays.                                             *)
RotateNothing(s) ==
  /\ SessAt(s, "rotate")
  /\ LET i == sessCall[s].id
     IN  StepSess(s, [pc |-> "list", login |-> token[i].login,
                      pw |-> token[i].pw, todo |-> {}])
  /\ UNCHANGED <<userRow, token, loggedOut, revocations, sessLoad>>
  /\ BlameSess({})

(* The copy of the token is saved with revokedAt, whatever became of it.    *)
Rotate(s) ==
  /\ SessAt(s, "rotate")
  /\ LET i == sessCall[s].id
     IN  /\ token' = [token EXCEPT ![i].st = "grace"]
         /\ StepSess(s, [pc |-> "list", login |-> token[i].login,
                         pw |-> token[i].pw, todo |-> {}])
  /\ UNCHANGED <<userRow, loggedOut, revocations, sessLoad>>
  /\ BlameSess({})

(* createRefreshToken: the oldest beyond the limit, counting the new one.   *)
Oldest(ids, n) == {i \in ids : Cardinality({j \in ids : j < i}) < n}

(* Mutant: the new token is not counted.                                    *)
ExcessBut(ids) ==
  IF Cardinality(ids) > MaxSessions
  THEN Oldest(ids, Cardinality(ids) - MaxSessions) ELSE {}

Excess(ids) ==
  IF Cardinality(ids) >= MaxSessions
  THEN Oldest(ids, Cardinality(ids) - MaxSessions + 1) ELSE {}

ListSessions(s) ==
  /\ SessAt(s, "list")
  /\ StepSess(s, [sessCall[s] EXCEPT
       !.todo = Excess(LiveTokens),
       !.pc = IF Excess(LiveTokens) = {} THEN "insert" ELSE "trim"])
  /\ UNCHANGED <<userRow, token, loggedOut, revocations, sessLoad>>
  /\ BlameSess({})

TrimSessions(s) ==
  /\ SessAt(s, "trim")
  /\ token' = Revoked(sessCall[s].todo)
  /\ StepSess(s, [sessCall[s] EXCEPT !.pc = "insert"])
  /\ UNCHANGED <<userRow, loggedOut, revocations, sessLoad>>
  /\ BlameSess({})

InsertToken(s) ==
  /\ SessAt(s, "insert")
  /\ \E i \in Unused :
       /\ \A j \in Unused : i <= j
       /\ LET k == sessCall[s]
          IN  token' = [token EXCEPT ![i] =
                [st |-> "live", expired |-> FALSE, pw |-> k.pw,
                 login |-> IF k.login = NoToken THEN i ELSE k.login]]
  /\ EndSess(s)
  /\ UNCHANGED <<userRow, loggedOut, revocations, sessLoad>>
  /\ BlameSess({})

(* logout: the token of the cookie, if it is live.                          *)
Logout(i) ==
  /\ Offers("logout")
  /\ token[i] # NoToken
  /\ loggedOut' = loggedOut \cup {token[i].login}
  /\ token' = Revoked({i})
  /\ \A j \in OfLogin(token[i].login) : j <= i    \* a client has its last one
  /\ UNCHANGED <<userRow, revocations, sessCall, sessLoad>>
  /\ BlameSess(Meanwhile)

(* resetPassword, after the token of the mail was found: the new hash goes  *)
(* to user-service, then every session ends here.                           *)
ResetPassword(s) ==
  /\ Offers("reset")
  /\ userRow.pw < MaxPasswords
  /\ userRow' = [userRow EXCEPT !.pw = @ + 1]
  /\ BeginSess(s, [pc |-> "revoke"])
  /\ UNCHANGED <<token, loggedOut, revocations, sessLoad>>
  /\ BlameSess({})

RevokeAll(s) ==
  /\ SessAt(s, "revoke")
  /\ token' = Revoked(TokenIds)
  /\ EndSess(s)
  /\ UNCHANGED <<userRow, loggedOut, revocations, sessLoad>>
  /\ BlameSess({})

(* The events of user-service revoke every session too; errors are logged.  *)
ReceiveRevocation(r) ==
  /\ r \in revocations
  /\ revocations' = revocations \ {r}
  /\ token' = Revoked(TokenIds)
  /\ UNCHANGED <<userRow, loggedOut, sessCall, sessLoad>>
  /\ BlameSess(Meanwhile)

LoseRevocation(r) ==
  /\ Offers("die")
  /\ r \in revocations
  /\ revocations' = revocations \ {r}
  /\ UNCHANGED <<userRow, token, loggedOut, sessCall, sessLoad>>
  /\ BlameSess({"lost"})

-----------------------------------------------------------------------------
(* user-service: the changes of the row.                                    *)
ReadUserRow(s, e) ==
  /\ Offers(e.op)
  /\ userRow.active \/ e.op = "status"
  /\ e.op = "password" => userRow.pw < MaxPasswords
  /\ BeginSess(s, [pc |-> "saveUser", edit |-> e, copy |-> userRow])
  /\ UNCHANGED <<userRow, token, loggedOut, revocations, sessLoad>>
  /\ BlameSess({})

(* Mutant: an administrator's deactivation is not announced.                *)
NewsOfOwner(e, copy) ==
  CASE e.op = "password" -> {"password"}
    [] e.op = "delete" -> {"deleted"}
    [] OTHER -> {}

(* Mutant: the event is named after the operation.                          *)
NewsByName(e, copy) == IF e.op = "profile" THEN {} ELSE {e.op}

(* PASSWORD_CHANGED; DELETED for a deletion and for a deactivation of a     *)
(* user who was active.                                                     *)
News(e, copy) ==
  CASE e.op = "password" -> {"password"}
    [] e.op = "delete" \/ (e.op = "status" /\ copy.active /\ ~e.on) -> {"deleted"}
    [] OTHER -> {}

(* Mutant: a profile is saved with the flags of a fresh account.            *)
SavedAsNew(e, copy) ==
  CASE e.op = "profile" -> [copy EXCEPT !.verified = FALSE, !.pw = userRow.pw]
    [] e.op = "password" -> [copy EXCEPT !.pw = @ + 1]
    [] e.op = "delete" -> [copy EXCEPT !.active = FALSE]
    [] e.op = "status" -> [copy EXCEPT !.active = e.on, !.pw = userRow.pw]

(* save() writes what the copy holds: the flags it read, and the password   *)
(* where it was selected.                                                   *)
SavedUser(e, copy) ==
  CASE e.op = "profile" -> [copy EXCEPT !.pw = userRow.pw]
    [] e.op = "password" -> [copy EXCEPT !.pw = @ + 1]
    [] e.op = "delete" -> [copy EXCEPT !.active = FALSE]
    [] e.op = "status" -> [copy EXCEPT !.active = e.on, !.pw = userRow.pw]

SaveUserRow(s) ==
  /\ SessAt(s, "saveUser")
  /\ LET k == sessCall[s]
     IN  /\ userRow' = SavedUser(k.edit, k.copy)
         /\ IF News(k.edit, k.copy) = {} THEN EndSess(s)
            ELSE StepSess(s, [pc |-> "emit", news |-> News(k.edit, k.copy)])
  /\ UNCHANGED <<token, loggedOut, revocations, sessLoad>>
  /\ BlameSess({})

EmitNews(s) ==
  /\ SessAt(s, "emit")
  /\ revocations' = revocations \cup sessCall[s].news
  /\ EndSess(s)
  /\ UNCHANGED <<userRow, token, loggedOut, sessLoad>>
  /\ BlameSess({})

(* MARK_VERIFIED is one UPDATE.                                             *)
MarkVerified ==
  /\ Offers("verify")
  /\ ~userRow.verified
  /\ userRow' = [userRow EXCEPT !.verified = TRUE]
  /\ UNCHANGED <<token, loggedOut, revocations, sessCall, sessLoad>>
  /\ BlameSess(Meanwhile)

(* A call ends where it is: its service stopped or a database failed.       *)
EndEarly(s) ==
  /\ Offers("die")
  /\ sessCall[s] # NoSessCall
  /\ EndSess(s)
  /\ UNCHANGED <<userRow, token, loggedOut, revocations, sessLoad>>
  /\ BlameSess(IF sessCall[s].pc \in {"revoke", "emit"} THEN {"lost"} ELSE {})

-----------------------------------------------------------------------------
(* The clock: 30 seconds, or the life of a token, which older tokens end    *)
(* first; the hourly cleanup.                                               *)
EndGrace(i) ==
  /\ Is(i, "grace")
  /\ token' = [token EXCEPT ![i].st = "revoked"]
  /\ UNCHANGED <<userRow, loggedOut, revocations, sessCall, sessLoad>>
  /\ BlameSess({})

ExpireToken(i) ==
  /\ Offers("cleanup")
  /\ token[i] # NoToken /\ ~token[i].expired
  /\ \A j \in TokenIds : j < i => token[j].expired
  /\ token' = [token EXCEPT ![i].expired = TRUE]
  /\ UNCHANGED <<userRow, loggedOut, revocations, sessCall, sessLoad>>
  /\ BlameSess({})

Cleanup ==
  /\ Offers("cleanup")
  /\ \E i \in TokenIds : token[i] # NoToken /\ token[i].expired /\ token[i].st # "deleted"
  /\ token' = [i \in TokenIds |-> IF token[i] # NoToken /\ token[i].expired
                                  THEN [token[i] EXCEPT !.st = "deleted"]
                                  ELSE token[i]]
  /\ UNCHANGED <<userRow, loggedOut, revocations, sessCall, sessLoad>>
  /\ BlameSess(Meanwhile)

-----------------------------------------------------------------------------
SessInit ==
  /\ sessLoad \in SessLoads
  /\ userRow = [active |-> TRUE, verified |-> sessLoad.verified, pw |-> 0]
  /\ token = [i \in TokenIds |-> NoToken]
  /\ loggedOut = {}
  /\ revocations = {}
  /\ sessCall = [s \in SessSlots |-> NoSessCall]
  /\ sessFault = {}

SessNext ==
  \/ \E s \in sessLoad.slots :
       \/ Login(s)
       \/ \E i \in TokenIds : Refresh(s, i)
       \/ CheckUser(s)
       \/ Rotate(s)
       \/ ListSessions(s)
       \/ TrimSessions(s)
       \/ InsertToken(s)
       \/ ResetPassword(s)
       \/ RevokeAll(s)
       \/ \E e \in Edits : ReadUserRow(s, e)
       \/ SaveUserRow(s)
       \/ EmitNews(s)
       \/ EndEarly(s)
  \/ \E i \in TokenIds : Logout(i) \/ EndGrace(i) \/ ExpireToken(i)
  \/ \E r \in {"password", "deleted"} : ReceiveRevocation(r) \/ LoseRevocation(r)
  \/ MarkVerified
  \/ Cleanup

SessSpec == SessInit /\ [][SessNext]_sessVars

-----------------------------------------------------------------------------
(* With nothing on its way, a session was opened with the password in force *)
(* by a user who is active, unless calls overlapped, a token was refreshed  *)
(* in its grace period, or a revocation was lost.                           *)
SessionsFollowPassword ==
  SessQuiet /\ (\E i \in LiveTokens : ~FromNow(i))
    => sessFault \cap {"overlap", "grace", "lost"} # {}

(* A login has one live token, unless a token was refreshed twice: at the   *)
(* same time, or again in its grace period.                                 *)
OneTokenPerLogin ==
  (\E l \in TokenIds : \E i, j \in OfLogin(l) : i # j)
    => sessFault \cap {"overlap", "grace"} # {}

(* A login that was logged out has no live token, with the same exceptions. *)
LoggedOutStaysOut ==
  SessQuiet /\ (\E l \in loggedOut : OfLogin(l) # {})
    => sessFault \cap {"overlap", "grace"} # {}

(* A user has at most MAX_ACTIVE_SESSIONS live tokens, unless two were made *)
(* at the same time.                                                        *)
SessionsBounded ==
  Cardinality(LiveTokens) > MaxSessions => "overlap" \in sessFault

(* What was written to the row stays: a verified user is not unverified, a  *)
(* password does not come back, and only an administrator makes a user      *)
(* active again, unless another call read the row before.                   *)
UserRowKept ==
  [][ \/ /\ userRow.verified => userRow'.verified
         /\ userRow'.pw >= userRow.pw
         /\ userRow'.active => userRow.active
              \/ \E s \in SessBusy : SessAt(s, "saveUser") /\ sessCall[s].edit.op = "status"
      \/ "overlap" \in sessFault ]_sessVars

(* Refresh tokens through logins, rotations, logouts and password changes   *)
(* at a time: none outlives the password it came from, a login holds one,   *)
(* a logged-out one stays out, and a user holds no more than the cap.       *)
SessionsSafe ==
  /\ SessionsFollowPassword /\ OneTokenPerLogin
  /\ LoggedOutStaysOut /\ SessionsBounded
=============================================================================
