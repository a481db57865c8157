---------------------------- MODULE AdminAccess ----------------------------
(***************************************************************************)
(* The administrators: their rows and refresh tokens in auth-service, and  *)
(* the access tokens they hold, on whose role the gateway decides.  A row  *)
(* is read, changed and saved while others do the same.                    *)
(***************************************************************************)
EXTENDS Naturals

CONSTANTS
  AdminIds,     \* bounds the administrators ever created
  AdminTokIds,  \* bounds the refresh tokens, numbered
  AdminSlots,   \* where calls run
  AdminLoads,   \* what one behaviour is made of: records
                \* [handlers, first, changes, tokens, slots], first
                \* giving the rows
  NoAdmin, NoAdminTok

ASSUME AdminAssumption ==
  /\ AdminTokIds \subseteq Nat
  /\ NoAdminTok \notin AdminTokIds
  /\ \A l \in AdminLoads :
       /\ l.tokens \subseteq AdminTokIds /\ l.slots \subseteq AdminSlots
       /\ DOMAIN l.first \subseteq AdminIds
       /\ \A a \in DOMAIN l.first : l.first[a] \in {"super", "plain"}
       /\ \E a \in DOMAIN l.first : l.first[a] = "super"

VARIABLES
  adminRow,     \* auth-service: admins
  adminTok,     \* auth-service: their rows of refresh_tokens
  access,       \* the access token an administrator holds: its role
  adminCall, adminLoad,
  adminFault    \* history: what may have gone against the rules

adminVars == <<adminRow, adminTok, access, adminCall, adminLoad, adminFault>>

(* Calls that overlapped; a super administrator who gave up the role; a     *)
(* change asked for with an access token that the row no longer warrants.   *)
AdminFaults == {"overlap", "demoted", "stale"}

Roles == {"super", "plain"}
Admin == [active : BOOLEAN, role : Roles]
AdminToken == [admin : AdminIds, st : {"live", "revoked", "expired", "gone"},
               login : AdminTokIds]
ASSUME AdminNulls == NoAdmin \notin Admin /\ NoAdminTok \notin AdminToken

AdminTypeOK ==
  /\ adminRow \in [AdminIds -> Admin \cup {NoAdmin}]
  /\ adminTok \in [AdminTokIds -> AdminToken \cup {NoAdminTok}]
  /\ access \in [AdminIds -> Roles \cup {"none"}]
  /\ DOMAIN adminCall = AdminSlots
  /\ adminLoad \in AdminLoads
  /\ adminFault \subseteq AdminFaults

-----------------------------------------------------------------------------
NoAdminCall == [pc |-> "idle"]
AdminBusy == {s \in AdminSlots : adminCall[s] # NoAdminCall}
AdminAt(s, pc) == adminCall[s].pc = pc
Serves(h) == h \in adminLoad.handlers

ActiveAdmin(a) == adminRow[a] # NoAdmin /\ adminRow[a].active
SuperAdmins == {a \in AdminIds : ActiveAdmin(a) /\ adminRow[a].role = "super"}
LiveOf(l) == {i \in AdminTokIds :
                adminTok[i] # NoAdminTok /\ adminTok[i].st = "live" /\ adminTok[i].login = l}

AdminsInOrder ==
  /\ SuperAdmins # {}
  /\ \A l \in AdminTokIds : \A i, j \in LiveOf(l) : i = j

BlameAdmin(marks) ==
  adminFault' = IF AdminBusy' = {} /\ AdminsInOrder' THEN {}
                ELSE adminFault \cup marks
                     \cup IF \E s, t \in AdminBusy' : s # t THEN {"overlap"} ELSE {}

BeginAdmin(s, record) == /\ adminCall[s] = NoAdminCall
                         /\ adminCall' = [adminCall EXCEPT ![s] = record]
StepAdmin(s, record) == adminCall' = [adminCall EXCEPT ![s] = record]
EndAdmin(s) == adminCall' = [adminCall EXCEPT ![s] = NoAdminCall]

AdminToks(ids, st) ==
  [i \in AdminTokIds |-> IF i \in ids THEN [adminTok[i] EXCEPT !.st = st] ELSE adminTok[i]]

-----------------------------------------------------------------------------
(* verify2FA: the row is read, the code validated, the row saved with its   *)
(* lastLoginAt.  The copy has no password, so a row that was removed is not *)
(* inserted again: the call fails.                                          *)
SignIn(s, a) ==
  /\ Serves("login")
  /\ ActiveAdmin(a)
  /\ BeginAdmin(s, [pc |-> "save", admin |-> a, copy |-> adminRow[a], login |-> NoAdminTok])
  /\ UNCHANGED <<adminRow, adminTok, access, adminLoad>>
  /\ BlameAdmin({})

SaveLogin(s) ==
  /\ AdminAt(s, "save")
  /\ LET k == adminCall[s]
     IN  IF adminRow[k.admin] = NoAdmin THEN EndAdmin(s) /\ UNCHANGED adminRow
         ELSE /\ adminRow' = [adminRow EXCEPT ![k.admin] = k.copy]
              /\ StepAdmin(s, [k EXCEPT !.pc = "token"])
  /\ UNCHANGED <<adminTok, access, adminLoad>>
  /\ BlameAdmin({})

(* Mutant: a refresh does not look at isActive.                             *)
RefreshableUnchecked(i) ==
  adminTok[i] # NoAdminTok /\ adminTok[i].st = "live" /\ adminRow[adminTok[i].admin] # NoAdmin

AdminRefreshable(i) ==
  adminTok[i] # NoAdminTok /\ adminTok[i].st = "live" /\ ActiveAdmin(adminTok[i].admin)

(* refreshToken: the token is read with its administrator.                  *)
RefreshAdmin(s, i) ==
  /\ Serves("refresh")
  /\ AdminRefreshable(i)
  /\ LET a == adminTok[i].admin
     IN  BeginAdmin(s, [pc |-> "rotate", admin |-> a, copy |-> adminRow[a], id |-> i,
                        login |-> adminTok[i].login])
  /\ UNCHANGED <<adminRow, adminTok, access, adminLoad>>
  /\ BlameAdmin({})

(* Mutant: the old token stays live.                                        *)
RotateKeeping(s) ==
  /\ AdminAt(s, "rotate")
  /\ LET k == adminCall[s]
     IN  IF adminTok[k.id].st = "gone" THEN EndAdmin(s)
         ELSE StepAdmin(s, [k EXCEPT !.pc = "token"])
  /\ UNCHANGED <<adminRow, adminTok, access, adminLoad>>
  /\ BlameAdmin({})

(* A token that went with its administrator cannot be saved again.          *)
RotateAdmin(s) ==
  /\ AdminAt(s, "rotate")
  /\ LET k == adminCall[s]
     IN  IF adminTok[k.id].st = "gone" THEN EndAdmin(s) /\ UNCHANGED adminTok
         ELSE /\ adminTok' = AdminToks({k.id}, "revoked")
              /\ StepAdmin(s, [k EXCEPT !.pc = "token"])
  /\ UNCHANGED <<adminRow, access, adminLoad>>
  /\ BlameAdmin({})

(* createRefreshToken, and the access token with the role of the copy.      *)
IssueTokens(s) ==
  /\ AdminAt(s, "token")
  /\ LET k == adminCall[s]
     IN  IF adminRow[k.admin] = NoAdmin THEN UNCHANGED <<adminTok, access>>
         ELSE \E i \in adminLoad.tokens :
           /\ adminTok[i] = NoAdminTok
           /\ \A j \in adminLoad.tokens : j < i => adminTok[j] # NoAdminTok
           /\ adminTok' = [adminTok EXCEPT ![i] =
                [admin |-> k.admin, st |-> "live",
                 login |-> IF k.login = NoAdminTok THEN i ELSE k.login]]
           /\ access' = [access EXCEPT ![k.admin] = k.copy.role]
  /\ EndAdmin(s)
  /\ UNCHANGED <<adminRow, adminLoad>>
  /\ BlameAdmin({})

(* logout revokes one token, or all of the administrator; the client drops  *)
(* the access token.                                                        *)
LogoutAdmin(a, ids) ==
  /\ Serves("logout")
  /\ access[a] # "none"
  /\ \A i \in ids : adminTok[i] # NoAdminTok /\ adminTok[i].admin = a
                    /\ adminTok[i].st = "live"
  /\ adminTok' = AdminToks(ids, "revoked")
  /\ access' = [access EXCEPT ![a] = "none"]
  /\ UNCHANGED <<adminRow, adminCall, adminLoad>>
  /\ BlameAdmin(IF AdminBusy = {} THEN {} ELSE {"overlap"})

(* The life of an access token or a refresh token.                          *)
ExpireAccess(a) ==
  /\ access[a] # "none"
  /\ access' = [access EXCEPT ![a] = "none"]
  /\ UNCHANGED <<adminRow, adminTok, adminCall, adminLoad>>
  /\ BlameAdmin({})

ExpireAdminTok(i) ==
  /\ Serves("refresh")
  /\ adminTok[i] # NoAdminTok /\ adminTok[i].st = "live"
  /\ adminTok' = AdminToks({i}, "expired")
  /\ UNCHANGED <<adminRow, access, adminCall, adminLoad>>
  /\ BlameAdmin({})

-----------------------------------------------------------------------------
(* The gateway's SuperAdminGuard asks the access token, not the row.        *)
Guarded(by) == Serves("manage") /\ access[by] = "super"
Unwarranted(by) == IF by \in SuperAdmins THEN {} ELSE {"stale"}

CreateAdmin(by, a, role) ==
  /\ Serves("create") /\ Guarded(by)
  /\ a \notin DOMAIN adminLoad.first /\ adminRow[a] = NoAdmin
  /\ adminRow' = [adminRow EXCEPT ![a] = [active |-> TRUE, role |-> role]]
  /\ UNCHANGED <<adminTok, access, adminCall, adminLoad>>
  /\ BlameAdmin(Unwarranted(by))

(* Mutant: administrators may deactivate and delete themselves.             *)
ForbiddenNever(by, a, change) == FALSE

(* CANNOT_DEACTIVATE_SELF and CANNOT_DELETE_SELF.                           *)
Forbidden(by, a, change) == by = a /\ change \in {"deactivate", "delete"}

Changes == {"rename", "deactivate", "activate", "demote", "promote", "delete"}

ChangeAdmin(s, by, a, change) ==
  /\ Guarded(by)
  /\ change \in adminLoad.changes
  /\ ~Forbidden(by, a, change)
  /\ adminRow[a] # NoAdmin
  /\ BeginAdmin(s, [pc |-> "change", admin |-> a, copy |-> adminRow[a], change |-> change])
  /\ UNCHANGED <<adminRow, adminTok, access, adminLoad>>
  /\ BlameAdmin(Unwarranted(by) \cup
                IF by = a /\ change = "demote" THEN {"demoted"} ELSE {})

(* Mutant: an update that does not say makes the row active.                *)
ChangedActive(copy, change) ==
  [active |-> change # "deactivate",
   role |-> CASE change = "demote" -> "plain" [] change = "promote" -> "super"
              [] OTHER -> copy.role]

(* Mutant: the change is saved for the role.                                *)
ChangedVerbatim(copy, change) == [copy EXCEPT !.role = change]

Changed(copy, change) ==
  [active |-> CASE change = "deactivate" -> FALSE [] change = "activate" -> TRUE
                [] OTHER -> copy.active,
   role |-> CASE change = "demote" -> "plain" [] change = "promote" -> "super"
              [] OTHER -> copy.role]

(* updateAdmin saves the copy; a removed row has no password to insert.     *)
SaveAdmin(s) ==
  /\ AdminAt(s, "change") /\ adminCall[s].change # "delete"
  /\ LET k == adminCall[s]
     IN  adminRow' = [adminRow EXCEPT ![k.admin] =
           IF @ = NoAdmin THEN NoAdmin ELSE Changed(k.copy, k.change)]
  /\ EndAdmin(s)
  /\ UNCHANGED <<adminTok, access, adminLoad>>
  /\ BlameAdmin({})

(* deleteAdmin removes the row; its tokens go with it.                      *)
RemoveAdmin(s) ==
  /\ AdminAt(s, "change") /\ adminCall[s].change = "delete"
  /\ LET a == adminCall[s].admin
     IN  /\ adminRow' = [adminRow EXCEPT ![a] = NoAdmin]
         /\ adminTok' = AdminToks({i \in AdminTokIds :
                adminTok[i] # NoAdminTok /\ adminTok[i].admin = a}, "gone")
  /\ EndAdmin(s)
  /\ UNCHANGED <<access, adminLoad>>
  /\ BlameAdmin({})

AdminInit ==
  /\ adminLoad \in AdminLoads
  /\ adminRow = [a \in AdminIds |-> IF a \in DOMAIN adminLoad.first
                   THEN [active |-> TRUE, role |-> adminLoad.first[a]] ELSE NoAdmin]
  /\ adminTok = [i \in AdminTokIds |-> NoAdminTok]
  /\ access = [a \in AdminIds |-> "none"]
  /\ adminCall = [s \in AdminSlots |-> NoAdminCall]
  /\ adminFault = {}

AdminNext ==
  \/ \E s \in adminLoad.slots :
       \/ \E a \in AdminIds : SignIn(s, a)
       \/ SaveLogin(s)
       \/ \E i \in AdminTokIds : RefreshAdmin(s, i)
       \/ RotateAdmin(s)
       \/ IssueTokens(s)
       \/ \E by, a \in AdminIds, change \in Changes : ChangeAdmin(s, by, a, change)
       \/ SaveAdmin(s)
       \/ RemoveAdmin(s)
  \/ \E a \in AdminIds : ExpireAccess(a)
       \/ \E ids \in SUBSET AdminTokIds : LogoutAdmin(a, ids)
  \/ \E i \in AdminTokIds : ExpireAdminTok(i)
  \/ \E by, a \in AdminIds, role \in Roles : CreateAdmin(by, a, role)

AdminSpec == AdminInit /\ [][AdminNext]_adminVars

-----------------------------------------------------------------------------
(* Some active administrator can manage the others, unless the last one     *)
(* gave up the role, was removed with an outdated access token, or two      *)
(* removed each other at a time.                                            *)
SomeSuperAdmin ==
  SuperAdmins = {} => adminFault \cap {"overlap", "demoted", "stale"} # {}

(* Only an activation makes an administrator active again and only a        *)
(* promotion a super administrator, unless another call read the row first. *)
AdminRowKept ==
  [][ \/ \A a \in AdminIds : adminRow[a] # NoAdmin /\ adminRow'[a] # NoAdmin =>
           /\ adminRow'[a].active => adminRow[a].active \/
                \E s \in AdminBusy : AdminAt(s, "change") /\ adminCall[s].change = "activate"
           /\ adminRow'[a].role = "super" => adminRow[a].role = "super" \/
                \E s \in AdminBusy : AdminAt(s, "change") /\ adminCall[s].change = "promote"
      \/ "overlap" \in adminFault ]_adminVars

(* An access token is issued to an active administrator, with the role of   *)
(* the row, unless the row was changed while the call ran.                  *)
AccessFollowsRow ==
  [][ \/ \A a \in AdminIds : access'[a] \notin {"none", access[a]} =>
           ActiveAdmin(a) /\ adminRow[a].role = access'[a]
      \/ "overlap" \in adminFault ]_adminVars

(* A login has one live token, unless it was refreshed twice at a time.     *)
AdminTokenOnce ==
  (\E l \in AdminTokIds : \E i, j \in LiveOf(l) : i # j) => "overlap" \in adminFault

(* Administrators who change each other while they sign in and refresh:     *)
(* one super administrator stays, and a token is rotated once.              *)
AdminsSafe == SomeSuperAdmin /\ AdminTokenOnce
=============================================================================
