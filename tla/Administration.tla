--------------------------- MODULE Administration ---------------------------
(***************************************************************************)
(* Who administrates: the first registration becomes administrator, and    *)
(* the policy of libroo-admin-auth-plugin.ts stands before the auth        *)
(* library's own set-role, ban and update-user; account-deletion deletes   *)
(* accounts.  The policy reads and decides, the library writes later.      *)
(*                                                                         *)
(* banExpires is a column of seconds.  isActiveBan compares it with the    *)
(* clock; the SQL compares it with milliseconds.                           *)
(***************************************************************************)
EXTENDS Actors

CONSTANTS
    User,
    FirstAdmin, SecondAdmin,   \* the administrators of an established deployment
    MaxAdminOps, MaxAdminClock

VARIABLES
    users,        \* user: role and ban of each account, or None
    adminOp,      \* what each request is doing and has read
    unprotected,  \* the library wrote although an account had changed since the policy looked, or
                  \* wrote a ban with an expiry, which the policy counts as none
    unassigned,   \* a registration crashed between the account and its role
    adminClock,   \* seconds, at most MaxAdminClock
    adminOps      \* requests begun, at most MaxAdminOps

adminVars == <<users, adminOp, unprotected, unassigned, adminClock, adminOps>>

\* user: the columns the policy is about
AccountRow == [role : {"admin", "user"}, banned : BOOLEAN, banExpires : Nat \cup {None}, born : Nat]

ASSUME AccountAssumption == None \notin AccountRow
ASSUME AdminAssumption == MaxAdminOps \in Nat /\ MaxAdminClock \in Nat

NoRequest == [at |-> "idle"]
RequestAt(c, step) == adminOp[c].at = step

Accounts == {u \in User : users[u] # None}
Account(role, born) == [role |-> role, banned |-> FALSE, banExpires |-> None, born |-> born]

isEffectiveAdmin(row) == row.role = "admin"
isActiveBan(row) == row.banned /\ (row.banExpires = None \/ row.banExpires > adminClock)
inactiveBanPredicate(row) == ~row.banned \/ (row.banExpires # None /\ row.banExpires <= 1000 * adminClock)

\* the accounts that the SQL of the policy and of the deletion counts
CountedAdmins == {u \in Accounts : isEffectiveAdmin(users[u]) /\ inactiveBanPredicate(users[u])}
ActiveAdmins == {u \in Accounts : isEffectiveAdmin(users[u]) /\ ~isActiveBan(users[u])}
PolicyApplies(u) == u \in ActiveAdmins

BeginRequest(c, r) ==
    /\ adminOp[c] = NoRequest
    /\ Room(adminOps, MaxAdminOps)
    /\ adminOps' = adminOps + 1
    /\ adminOp' = [adminOp EXCEPT ![c] = r]
Continue(c, step) ==
    adminOp' = [adminOp EXCEPT ![c].at = step, ![c].seen = IF @ = "no" THEN "yes" ELSE @]
EndRequest(c) == adminOp' = [adminOp EXCEPT ![c] = NoRequest]

\* an account changes: what the policies of the other requests have seen is stale
Disturbed(op, c) == [d \in Call |->
    IF d # c /\ op[d] # NoRequest /\ op[d].seen = "yes" THEN [op[d] EXCEPT !.seen = "stale"] ELSE op[d]]
EndChanging(c) == adminOp' = Disturbed([adminOp EXCEPT ![c] = NoRequest], c)

-----------------------------------------------------------------------------
(* Registration: the account, then its role                                *)

\* an id is not used again while a request bears it
NewAccounts == {u \in User \ Accounts : \A d \in Call : adminOp[d] # NoRequest => adminOp[d].user # u}

Register(c) == \E u \in NewAccounts :
    /\ BeginRequest(c, [at |-> "assign", user |-> u, seen |-> "no"])
    /\ users' = [users EXCEPT ![u] = Account("user", adminOps')]
    /\ UNCHANGED <<unprotected, unassigned, adminClock>>

Oldest(u) == \A v \in Accounts : users[u].born <= users[v].born

assignFirstAdminRole(c) ==
    /\ RequestAt(c, "assign")
    /\ LET u == adminOp[c].user IN
       users' = IF u \in Accounts /\ Oldest(u) /\ ~\E v \in Accounts : isEffectiveAdmin(users[v])
                THEN [users EXCEPT ![u].role = "admin"] ELSE users
    /\ EndChanging(c)
    /\ UNCHANGED <<unprotected, unassigned, adminClock, adminOps>>

RegistrationCrash(c) ==
    /\ RequestAt(c, "assign")
    /\ EndRequest(c)
    /\ unassigned' = TRUE
    /\ UNCHANGED <<users, unprotected, adminClock, adminOps>>

-----------------------------------------------------------------------------
(* set-role, ban-user and update-user, begun by an active administrator    *)

ChangeUser(c) == \E actor \in ActiveAdmins, u \in Accounts, role \in {None, "admin", "user"}, ban \in {None, TRUE} :
    /\ role # None \/ ban # None
    /\ \E until \in {None, adminClock + 1} :
         /\ until # None => ban = TRUE /\ role = None
         /\ BeginRequest(c, [at |-> IF role = "user" THEN "role" ELSE IF ban = TRUE THEN "ban" ELSE "write",
                             actor |-> actor, user |-> u, role |-> role, ban |-> ban, until |-> until,
                             seen |-> "no"])
    /\ UNCHANGED <<users, unprotected, unassigned, adminClock>>

AfterRole(c) == IF adminOp[c].ban = TRUE THEN "ban" ELSE "write"

\* enforceSetRolePolicy reads the account, and counts the administrators in a second query
enforceSetRolePolicy(c) ==
    /\ RequestAt(c, "role")
    /\ LET u == adminOp[c].user IN
       IF ~PolicyApplies(u) THEN Continue(c, AfterRole(c))
       ELSE IF adminOp[c].actor = u THEN EndRequest(c)
       ELSE Continue(c, "count")
    /\ UNCHANGED <<users, unprotected, unassigned, adminClock, adminOps>>

countAdmins(c) ==
    /\ RequestAt(c, "count")
    /\ IF Cardinality(CountedAdmins) <= 1 THEN EndRequest(c) ELSE Continue(c, AfterRole(c))
    /\ UNCHANGED <<users, unprotected, unassigned, adminClock, adminOps>>

\* enforceBanUserPolicy reads the account; one conditional statement reserves the ban
enforceBanUserPolicy(c) ==
    /\ RequestAt(c, "ban")
    /\ LET u == adminOp[c].user IN
       IF ~PolicyApplies(u) THEN Continue(c, "write")
       ELSE IF adminOp[c].actor = u THEN EndRequest(c)
       ELSE Continue(c, "reserve")
    /\ UNCHANGED <<users, unprotected, unassigned, adminClock, adminOps>>

BanReserved_Unguarded(u) == u \in CountedAdmins
BanReserved(u) == u \in CountedAdmins /\ CountedAdmins \ {u} # {}

reserveAdminBan(c) ==
    /\ RequestAt(c, "reserve")
    /\ LET u == adminOp[c].user IN
       IF BanReserved(u)
       THEN /\ users' = [users EXCEPT ![u].banned = TRUE]
            /\ adminOp' = Disturbed([adminOp EXCEPT ![c].at = "write"], c)
       ELSE EndRequest(c) /\ UNCHANGED users
    /\ UNCHANGED <<unprotected, unassigned, adminClock, adminOps>>

\* the library's own endpoint
WriteUser(c) ==
    /\ RequestAt(c, "write")
    /\ LET r == adminOp[c]
           checked == r.role = "user" \/ r.ban = TRUE
       IN /\ users' = IF users[r.user] = None THEN users
                      ELSE [users EXCEPT ![r.user].role = IF r.role = None THEN @ ELSE r.role,
                                         ![r.user].banned = IF r.ban = None THEN @ ELSE TRUE,
                                         ![r.user].banExpires = IF r.ban = None THEN @ ELSE r.until]
          /\ unprotected' = (unprotected \/ (checked /\ r.seen = "stale") \/ (r.ban = TRUE /\ r.until # None))
    /\ EndChanging(c)
    /\ UNCHANGED <<unassigned, adminClock, adminOps>>

unbanUser == \E u \in Accounts :
    /\ ActiveAdmins # {}
    /\ users[u].banned
    /\ users' = [users EXCEPT ![u].banned = FALSE, ![u].banExpires = None]
    /\ adminOp' = Disturbed(adminOp, None)
    /\ UNCHANGED <<unprotected, unassigned, adminClock, adminOps>>

-----------------------------------------------------------------------------
(* deleteAccountData: a look at the other administrators, and a batch      *)
(* whose every statement looks again                                       *)

deleteOwnAccount(c) == \E u \in Accounts :
    /\ ~isActiveBan(users[u])
    /\ ~\E d \in Call : RequestAt(d, "assign") /\ adminOp[d].user = u
    /\ BeginRequest(c, [at |-> "others", user |-> u, seen |-> "no"])
    /\ UNCHANGED <<users, unprotected, unassigned, adminClock>>

CheckOtherAdmins(c) ==
    /\ RequestAt(c, "others")
    /\ LET u == adminOp[c].user IN
       IF PolicyApplies(u) /\ CountedAdmins \ {u} = {} THEN EndRequest(c)
       ELSE adminOp' = [adminOp EXCEPT ![c].at = "batch"]
    /\ UNCHANGED <<users, unprotected, unassigned, adminClock, adminOps>>

accountDeletionAllowed(u) == u \notin CountedAdmins \/ CountedAdmins \ {u} # {}

deleteAccountData(c) ==
    /\ RequestAt(c, "batch")
    /\ LET u == adminOp[c].user IN
       users' = IF accountDeletionAllowed(u) THEN [users EXCEPT ![u] = None] ELSE users
    /\ EndChanging(c)
    /\ UNCHANGED <<unprotected, unassigned, adminClock, adminOps>>

AdminTick ==
    /\ Room(adminClock, MaxAdminClock)
    /\ adminClock' = adminClock + 1
    /\ UNCHANGED <<users, adminOp, unprotected, unassigned, adminOps>>

-----------------------------------------------------------------------------

\* a new deployment, and one with two administrators
AdministrationInit ==
    /\ users \in {[u \in User |-> None],
                  [u \in User |-> CASE u = FirstAdmin -> Account("admin", 0)
                                    [] u = SecondAdmin -> Account("admin", 0)
                                    [] OTHER -> None]}
    /\ adminOp = [c \in Call |-> NoRequest]
    /\ unprotected = FALSE
    /\ unassigned = FALSE
    /\ adminClock = 1
    /\ adminOps = 0

AdministrationNext ==
    \/ \E c \in Call :
         \/ Register(c) \/ assignFirstAdminRole(c) \/ RegistrationCrash(c)
         \/ ChangeUser(c) \/ enforceSetRolePolicy(c) \/ countAdmins(c)
         \/ enforceBanUserPolicy(c) \/ reserveAdminBan(c) \/ WriteUser(c)
         \/ deleteOwnAccount(c) \/ CheckOtherAdmins(c) \/ deleteAccountData(c)
    \/ unbanUser
    \/ AdminTick

AdministrationSpec == AdministrationInit /\ [][AdministrationNext]_adminVars

-----------------------------------------------------------------------------

AdministrationTypeOK ==
    /\ \A u \in Accounts :
         /\ users[u] \in AccountRow
         /\ users[u].banExpires \in {None} \cup 1..(MaxAdminClock + 1)
    /\ \A c \in Call : adminOp[c] # NoRequest => adminOp[c].user \in User

NoRegistration == \A c \in Call : ~RequestAt(c, "assign")

(* However first registrations, bans and deletions interleave, an active   *)
(* administrator remains, once no registration is under way: unless a      *)
(* registration crashed, the library wrote on accounts that had changed    *)
(* since the policy looked, or wrote a ban with an expiry.                 *)
AnAdminRemains ==
    Accounts # {} /\ NoRegistration /\ ~unassigned /\ ~unprotected => ActiveAdmins # {}

(* "Cannot delete the last remaining active admin account", "Cannot remove *)
(* admin rights from the last remaining admin", "Cannot ban the last       *)
(* remaining unbanned admin": no step takes the last active administrator. *)
LastAdminStays == [][ActiveAdmins # {} => ActiveAdmins' # {}]_adminVars
=============================================================================
