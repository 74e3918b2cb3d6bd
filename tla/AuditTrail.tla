----------------------------- MODULE AuditTrail -----------------------------
(***************************************************************************)
(* What is recorded of changes to accounts: the hooks of two plugins       *)
(* stand before and after the endpoints of the auth library, one writes    *)
(* the audit log, the other sends a mail about a changed sign-in. The log  *)
(* is cleaned up by age and shown page by page. Requests run at the same   *)
(* time, and one may end the session of another.                           *)
(***************************************************************************)
EXTENDS Actors

CONSTANTS
    Person,
    Administrator,  \* the ones who are at first
    AuditPageSize,
    MaxAuditOps

VARIABLES
    persons,     \* [role, banned, totp, session]: accounts, and whether each has its session
    hooked,      \* requests to the library under way
    log,         \* admin_audit_log, latest first
    mails,       \* security notifications sent: [path, to, about]
    unlogged,    \* changes whose entry is not written yet, by the request; lost ones are not in it
    auditPage,   \* [page, category]: the address of the audit page
    auditRequest,
    auditShown,  \* [entries, total, fresh]: fresh while the log has not changed since it was read
    auditOps     \* at most MaxAuditOps

auditServer == <<persons, hooked, log, mails, unlogged>>
auditClient == <<auditPage, auditRequest, auditShown>>
auditVars == <<auditServer, auditClient, auditOps>>

AuditAddress == [page : Nat, category : {None, "admin", "auth"}]

ASSUME AuditAssumption ==
    /\ Administrator # {} /\ Administrator \subseteq Person
    /\ AuditPageSize \in Nat \ {0}
    /\ None \notin AuditAddress

AdminPath == {"set-role", "ban-user", "unban-user", "update-user", "set-user-password"}
\* those of passkeys and backup codes are like change-password
SessionPath == {"change-password", "change-email", "revoke-sessions", "two-factor/disable", "verify-totp"}
\* without a session: the account is known from the body, the token or the answer
PublicPath == {"sign-in", "sign-up", "verify-backup-code", "request-password-reset", "reset-password", "verify-email"}

isAuditedAdminMutationPath(path) == path \in AdminPath \ {"set-user-password"}
isAuditedAuthPath(path) == path \in SessionPath \cup PublicPath
isSecurityNotificationPath(path) ==
    path \in {"change-password", "set-user-password", "two-factor/disable", "verify-totp"}

AuditStep == Room(auditOps, MaxAuditOps) /\ auditOps' = auditOps + 1

Status(p) == [role |-> persons[p].role, banned |-> persons[p].banned, totp |-> persons[p].totp]

-----------------------------------------------------------------------------
(* Requests and the hooks before                                           *)

StatusRecord == [role : {"admin", "user"}, banned : BOOLEAN, totp : BOOLEAN]
PersonRecord == [role : {"admin", "user"}, banned : BOOLEAN, totp : BOOLEAN, session : BOOLEAN]

\* admin_audit_log, its entries as AuditEntry makes them
AuditAction == {"user.role_changed", "user.banned", "user.unbanned"} \cup SessionPath \cup PublicPath
AuditRecord == [
    category : {"admin", "auth"}, action : AuditAction, actor : Person \cup {None}, target : Person \cup {None},
    previous : StatusRecord \cup {None}, next : PersonRecord \cup {None}, by : Person \cup {None},
    was : StatusRecord \cup {None}, path : AdminPath \cup SessionPath \cup PublicPath, crossed : BOOLEAN]

\* what the hooks hand on from before the endpoint to after it
HookedRecord == [
    path : AdminPath \cup SessionPath \cup PublicPath, by : Person \cup {None}, target : Person,
    step : {"sent", "policy", "library", "after", "persist"},
    session : Person \cup {None}, actor : Person \cup {None}, mailTo : Person \cup {None},
    previous : StatusRecord \cup {None}, was : StatusRecord \cup {None}, result : PersonRecord \cup {None},
    ok : BOOLEAN, crossed : BOOLEAN, entries : Seq(AuditRecord)]

ASSUME HookedAssumption == None \notin Person \cup StatusRecord /\ None \notin HookedRecord

Hooked(path, by, target) ==
    [path |-> path, by |-> by, target |-> target, step |-> "sent", session |-> None, actor |-> None, mailTo |-> None,
     previous |-> None, was |-> None, result |-> None, ok |-> FALSE, crossed |-> FALSE, entries |-> <<>>]

sendRequest(c) ==
    /\ hooked[c] = None
    /\ AuditStep
    /\ \E path \in AdminPath \cup SessionPath \cup PublicPath, target \in Person :
         \E by \in IF path \in AdminPath THEN Administrator ELSE IF path \in SessionPath THEN {target} ELSE {None} :
           /\ by # None => persons[by].session
           /\ hooked' = [hooked EXCEPT ![c] = Hooked(path, by, target)]
    /\ UNCHANGED <<persons, log, mails, unlogged, auditClient>>

AtStep(c, step) == hooked[c] # None /\ hooked[c].step = step

\* who has the session of the request
SessionUser(c) == IF hooked[c].by = None THEN None ELSE IF persons[hooked[c].by].session THEN hooked[c].by ELSE None

\* a bug: the account is not taken down before the session may be gone
ActorBefore_Missing(c) == IF isAuditedAdminMutationPath(hooked[c].path) THEN SessionUser(c) ELSE None

\* a link for a new address is looked up by the address the account has
ActorBefore(c) ==
    IF hooked[c].path = "verify-email" THEN hooked[c].target
    ELSE IF isAuditedAdminMutationPath(hooked[c].path) \/ isAuditedAuthPath(hooked[c].path) THEN SessionUser(c)
    ELSE None

\* the hooks before, in the order of the plugins; the policy is last
HooksBefore(c) ==
    /\ AtStep(c, "sent")
    /\ LET r == hooked[c] IN
       hooked' = [hooked EXCEPT
         ![c].session = SessionUser(c),
         ![c].actor = ActorBefore(c),
         ![c].previous = Status(r.target),
         ![c].mailTo = IF ~isSecurityNotificationPath(r.path) THEN None
                       ELSE IF r.path = "set-user-password" THEN r.target ELSE SessionUser(c),
         ![c].step = IF r.path \in {"ban-user", "update-user"} THEN "policy" ELSE "library"]
    /\ UNCHANGED <<persons, log, mails, unlogged, auditClient, auditOps>>

ActiveAdmin(p) == persons[p].role = "admin" /\ ~persons[p].banned

\* another request has changed the account after the hooks before
Crossed(d, target) ==
    IF hooked[d] = None THEN None
    ELSE [hooked[d] EXCEPT !.crossed = @ \/ (hooked[d].target = target /\ hooked[d].step # "sent")]

\* the ban of another administrator is written by the policy; what refuses a request ends it, and no hook follows
ReserveBan(c) ==
    /\ AtStep(c, "policy")
    /\ LET target == hooked[c].target IN
       IF ~ActiveAdmin(target)
       THEN hooked' = [hooked EXCEPT ![c].step = "library"] /\ UNCHANGED persons
       ELSE IF hooked[c].by # target /\ \E p \in Person \ {target} : ActiveAdmin(p)
       THEN /\ hooked' = [d \in Call |-> IF d = c THEN [hooked[d] EXCEPT !.step = "library", !.was = Status(target)]
                                         ELSE Crossed(d, target)]
            /\ persons' = [persons EXCEPT ![target].banned = TRUE]
       ELSE hooked' = [hooked EXCEPT ![c] = None] /\ UNCHANGED persons
    /\ UNCHANGED <<log, mails, unlogged, auditClient, auditOps>>

-----------------------------------------------------------------------------
(* The library                                                             *)

\* the session is read once
Allowed(c) ==
    LET r == hooked[c] IN
    /\ r.by # None => r.session # None
    /\ r.path \in AdminPath => persons[r.by].role = "admin"

\* a role is exchanged, update-user bans and gives the role; a ban and a revocation end sessions
Result(r, p) ==
    CASE r.path = "set-role" -> [p EXCEPT !.role = IF @ = "admin" THEN "user" ELSE "admin"]
      [] r.path = "ban-user" -> [p EXCEPT !.banned = TRUE, !.session = FALSE]
      [] r.path = "unban-user" -> [p EXCEPT !.banned = FALSE]
      [] r.path = "update-user" -> [p EXCEPT !.banned = TRUE, !.role = "user"]
      [] r.path = "revoke-sessions" -> [p EXCEPT !.session = FALSE]
      [] r.path = "verify-totp" -> [p EXCEPT !.totp = TRUE]
      [] r.path = "two-factor/disable" -> [p EXCEPT !.totp = FALSE]
      [] r.path \in {"sign-up", "verify-backup-code"} -> [p EXCEPT !.session = TRUE]
      [] OTHER -> p

\* what is to be recorded: sign-ins only if they failed
Recorded(r, ok) ==
    \/ isAuditedAdminMutationPath(r.path) /\ ok
    \/ isAuditedAuthPath(r.path) /\ (ok <=> r.path # "sign-in")

Endpoint(c) ==
    /\ AtStep(c, "library")
    /\ \E ok \in {FALSE, Allowed(c)} :
         LET r == hooked[c]
             changes == ok /\ Result(r, persons[r.target]) # persons[r.target]
         IN  /\ persons' = IF ok THEN [persons EXCEPT ![r.target] = Result(r, @)] ELSE persons
             /\ hooked' = [d \in Call |->
                  IF d = c THEN [r EXCEPT !.ok = ok, !.step = "after", !.result = persons'[r.target],
                                          !.was = IF @ = None THEN Status(r.target) ELSE @]
                  ELSE IF changes THEN Crossed(d, r.target) ELSE hooked[d]]
             /\ unlogged' = IF Recorded(r, ok) THEN unlogged \cup {c} ELSE unlogged
    /\ UNCHANGED <<log, mails, auditClient, auditOps>>

-----------------------------------------------------------------------------
(* The hooks after                                                         *)

\* by, was, now and crossed are what happened, the others what is written
AuditEntry(r, action, actor, target) ==
    [category |-> IF r.path \in AdminPath THEN "admin" ELSE "auth", action |-> action, actor |-> actor, target |-> target,
     previous |-> r.previous, next |-> r.result, by |-> r.by, was |-> r.was, path |-> r.path, crossed |-> r.crossed]

\* one entry for each of the changes of update-user
AdminEntries(c) ==
    LET r == hooked[c]
        entry(action) == AuditEntry(r, action, r.actor, r.target)
    IN  IF ~r.ok \/ r.actor = None THEN <<>>
        ELSE CASE r.path = "set-role" -> <<entry("user.role_changed")>>
               [] r.path = "ban-user" -> <<entry("user.banned")>>
               [] r.path = "unban-user" -> <<entry("user.unbanned")>>
               [] r.path = "update-user" -> <<entry("user.role_changed"), entry("user.banned")>>
               [] OTHER -> <<>>

\* the account taken down before, or that of the session there is now
ActorAfter(c) == IF hooked[c].actor # None THEN hooked[c].actor ELSE SessionUser(c)

\* verify-totp also completes a sign-in, which is no change
SessionEntries(c) ==
    LET r == hooked[c] IN
    IF r.path = "verify-totp" /\ (r.actor = None \/ r.previous.totp) THEN <<>>
    ELSE <<AuditEntry(r, r.path, ActorAfter(c), ActorAfter(c))>>

\* of a sign-in that failed, and of anything else that succeeded
AuthEntries(c) ==
    LET r == hooked[c] IN
    IF r.ok = (r.path = "sign-in") THEN <<>>
    ELSE CASE r.path \in {"sign-in", "request-password-reset"} -> <<AuditEntry(r, r.path, None, r.target)>>
           [] r.path \in {"sign-up", "verify-backup-code"} -> <<AuditEntry(r, r.path, r.target, r.target)>>
           [] r.path = "reset-password" -> <<AuditEntry(r, r.path, None, None)>>
           [] OTHER -> SessionEntries(c)

buildEntries(c) ==
    /\ AtStep(c, "after")
    /\ LET entries == IF isAuditedAuthPath(hooked[c].path) THEN AuthEntries(c) ELSE AdminEntries(c) IN
       /\ hooked' = [hooked EXCEPT ![c].entries = entries, ![c].step = "persist"]
       /\ unlogged' = IF entries = <<>> /\ hooked[c].path = "verify-totp" THEN unlogged \ {c} ELSE unlogged
    /\ UNCHANGED <<persons, log, mails, auditClient, auditOps>>

\* the change stays when its entry cannot be written
persistAuditEntry(c) ==
    /\ AtStep(c, "persist") /\ hooked[c].entries # <<>>
    /\ hooked' = [hooked EXCEPT ![c].entries = Tail(@)]
    /\ unlogged' = unlogged \ {c}
    /\ \/ log' = <<Head(hooked[c].entries)>> \o log /\ auditShown' = [auditShown EXCEPT !.fresh = FALSE]
       \/ UNCHANGED <<log, auditShown>>
    /\ UNCHANGED <<persons, mails, auditPage, auditRequest, auditOps>>

\* a mail that cannot be sent is given up
notifySecurityChange(c) ==
    /\ AtStep(c, "persist") /\ hooked[c].entries = <<>>
    /\ LET r == hooked[c]
           notified == r.ok /\ r.mailTo # None /\ (r.path = "verify-totp" => ~r.previous.totp)
       IN  mails' \in {mails} \cup (IF notified THEN {mails \cup {[path |-> r.path, to |-> r.mailTo, about |-> r.target]}} ELSE {})
    /\ hooked' = [hooked EXCEPT ![c] = None]
    /\ UNCHANGED <<persons, log, unlogged, auditClient, auditOps>>

-----------------------------------------------------------------------------
(* The log                                                                 *)

\* the entries of a category that are old enough go: the last ones, the log being ordered by time
WithoutExpired(category, kept) ==
    InOrder(log, {i \in DOMAIN log : i <= kept \/ log[i].category # category})

deleteOlderThan == \E category \in {"admin", "auth"}, kept \in 0 .. Len(log) :
    /\ AuditStep
    /\ log' = WithoutExpired(category, kept)
    /\ log' # log
    /\ auditShown' = [auditShown EXCEPT !.fresh = FALSE]
    /\ UNCHANGED <<persons, hooked, mails, unlogged, auditPage, auditRequest>>

Matching(category) == IF category = None THEN log ELSE InOrder(log, {i \in DOMAIN log : log[i].category = category})
AuditPages(total) == IF total = 0 THEN 1 ELSE (total + AuditPageSize - 1) \div AuditPageSize
PageAt(entries, n) == SubSeq(entries, (n - 1) * AuditPageSize + 1, IF n * AuditPageSize < Len(entries) THEN n * AuditPageSize ELSE Len(entries))

\* the address changes, and what it asks for is fetched
Visit(page, category) ==
    /\ auditPage' = [page |-> page, category |-> category]
    /\ auditRequest' = [page |-> page, category |-> category]

showAuditPage == \E category \in {None, "admin", "auth"}, page \in 1 .. AuditPages(auditShown.total) :
    /\ AuditStep
    /\ category # auditPage.category => page = 1
    /\ [page |-> page, category |-> category] # auditPage
    /\ Visit(page, category)
    /\ UNCHANGED <<auditServer, auditShown>>

\* a page that is not there any more is replaced by the last one
AnswerShown(answer) ==
    /\ auditShown' = answer
    /\ IF auditPage.page > AuditPages(answer.total) THEN Visit(AuditPages(answer.total), auditPage.category)
       ELSE auditRequest' = None /\ UNCHANGED auditPage

listAuditEntries ==
    /\ auditRequest # None
    /\ LET found == Matching(auditRequest.category) IN
       AnswerShown([entries |-> PageAt(found, auditRequest.page), total |-> Len(found), fresh |-> TRUE])
    /\ UNCHANGED <<auditServer, auditOps>>

\* emptyAuditPage
AuditFetchFails ==
    /\ auditRequest # None
    /\ AnswerShown([entries |-> <<>>, total |-> 0, fresh |-> FALSE])
    /\ UNCHANGED <<auditServer, auditOps>>

-----------------------------------------------------------------------------
Earlier(path, action) ==
    LET p == CHOOSE q \in Administrator : TRUE
    IN  AuditEntry([Hooked(path, p, p) EXCEPT !.previous = Status(p), !.was = Status(p), !.result = persons[p]], action, p, p)

\* two earlier entries are there, and the last page is shown
AuditInit ==
    /\ persons = [p \in Person |-> [role |-> IF p \in Administrator THEN "admin" ELSE "user", banned |-> FALSE, totp |-> FALSE, session |-> TRUE]]
    /\ hooked = [c \in Call |-> None]
    /\ log = <<Earlier("change-password", "change-password"), Earlier("set-role", "user.role_changed")>>
    /\ mails = {} /\ unlogged = {}
    /\ auditPage = [page |-> AuditPages(Len(log)), category |-> None]
    /\ auditRequest = None
    /\ auditShown = [entries |-> PageAt(log, auditPage.page), total |-> Len(log), fresh |-> TRUE]
    /\ auditOps = 0

AuditNext ==
    \/ \E c \in Call :
         \/ sendRequest(c) \/ HooksBefore(c) \/ ReserveBan(c) \/ Endpoint(c)
         \/ buildEntries(c) \/ persistAuditEntry(c) \/ notifySecurityChange(c)
    \/ deleteOlderThan
    \/ showAuditPage \/ listAuditEntries \/ AuditFetchFails

AuditSpec == AuditInit /\ [][AuditNext]_auditVars

-----------------------------------------------------------------------------
AuditTypeOK ==
    /\ \A p \in Person : persons[p].role \in {"admin", "user"}
    /\ \A c \in Call : hooked[c] # None => hooked[c].target \in Person
    /\ auditPage.page \in Nat \ {0}
    /\ auditShown.total \in Nat

\* the entry of a request that someone signed in sent names them, even if the request ended their session
NamesTheActor(e) == e.by # None => e.actor = e.by

\* unless another request changed the account meanwhile, an entry tells what it was and what it became
TellsTheChange(e) ==
    ~e.crossed =>
        /\ e.previous = e.was
        /\ e.action = "user.banned" => e.next.banned
        /\ e.action = "verify-totp" => ~e.was.totp /\ e.next.totp

\* What the log says of a change happened, whoever else was active between the hooks before and after
\* (libroo-admin-audit-plugin.ts:56), a finished request has its entry unless that could not be written, a mail about a
\* changed sign-in goes to the one whose sign-in changed, and the page shown is one of the log.
AuditTellsWhatHappened ==
    /\ \A i \in DOMAIN log : NamesTheActor(log[i]) /\ TellsTheChange(log[i])
    /\ \A c \in unlogged : hooked[c] # None
    /\ \A m \in mails : m.to = m.about
    /\ auditRequest = None => auditPage.page <= AuditPages(auditShown.total)
    /\ auditRequest = None /\ auditShown.fresh => auditShown.entries = PageAt(Matching(auditPage.category), auditPage.page)
=============================================================================
