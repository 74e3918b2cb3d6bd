----------------------------- MODULE AdminPages -----------------------------
(***************************************************************************)
(* The administrator's list of accounts and list of invites.  Each is read *)
(* page by page, the address naming the page; the buttons of a row change  *)
(* an account or an invite, and others change them meanwhile.  An answer   *)
(* about an account is written into the rows that are shown; an answer     *)
(* about an invite loads the list again.  A request is one step at the     *)
(* server, and so are the two queries behind a list.                       *)
(***************************************************************************)
EXTENDS Actors

CONSTANTS
    RosterEntry,     \* bound: accounts or invites there will ever be
    OwnEntry,        \* the administrator's own account
    RosterPageSize,
    MaxRosterOps     \* bound: what the administrator and the others do

\* there is someone else in the list
ASSUME RosterAssumption ==
    /\ OwnEntry \in RosterEntry /\ RosterEntry # {OwnEntry} /\ IsFiniteSet(RosterEntry)
    /\ RosterPageSize \in Nat \ {0}

VARIABLES
    rosterKind,  \* "users" or "invites": the page that is open
    roster,      \* the table's ids, newest first
    standing,    \* role and status of each entry
    rosterPage,  \* the page in the address
    heading,     \* the page of the navigation under way
    rosterLoad,  \* the newest load, which replaces an older one
    rosterShown, \* the list as it is shown
    rosterTasks, \* requests of the row buttons and of the invite form
    inviteLink,  \* createdInviteUrl
    untold,      \* history: <<entry, field>> the page has not been told of
    behind,      \* history: entries came or went since the list was read
    rosterOps    \* history: steps that have been taken

rosterVars == <<rosterKind, roster, standing, rosterPage, heading, rosterLoad,
                rosterShown, rosterTasks, inviteLink, untold, behind, rosterOps>>
rosterTable == <<roster, standing, untold, behind>>
rosterView == <<rosterPage, heading, rosterLoad, rosterShown>>

NoEntry == [role |-> "user", status |-> "none"]
FreshStatus == IF rosterKind = "users" THEN "active" ELSE "pending"
NoLoad == [phase |-> "none", page |-> 1, rows |-> <<>>, total |-> 0, missed |-> {}, moved |-> FALSE]
\* what useAsyncData does when the page in the address changes, and on refresh
LoadOf(page) == [NoLoad EXCEPT !.phase = "asked", !.page = page]

RosterInit ==
    /\ rosterKind \in {"users", "invites"}
    /\ LET other == CHOOSE i \in RosterEntry : i # OwnEntry IN
        /\ roster \in {<<OwnEntry, other>>} \union (IF rosterKind = "users" THEN {<<other, OwnEntry>>} ELSE {})
        /\ standing = [i \in RosterEntry |->
               CASE i = OwnEntry -> [role |-> IF rosterKind = "users" THEN "admin" ELSE "user",
                                     status |-> FreshStatus]
                 [] i = other -> [role |-> "user", status |-> FreshStatus]
                 [] OTHER -> NoEntry]
    /\ rosterPage \in 1 .. Cardinality(RosterEntry)
    /\ heading = None
    /\ rosterLoad = LoadOf(rosterPage)
    /\ rosterShown = [page |-> rosterPage, rows |-> <<>>, total |-> 0]
    /\ rosterTasks = {} /\ inviteLink = None /\ untold = {} /\ behind = TRUE /\ rosterOps = 0

RosterStep == Room(rosterOps, MaxRosterOps) /\ rosterOps' = rosterOps + 1 /\ UNCHANGED rosterKind
RosterAnswer == UNCHANGED <<rosterKind, rosterOps>>

(****************************** the tables *********************************)

\* fields change that the list on screen, and one already read, may not show
EntryChange(i, entry, told) ==
    LET changed == {<<i, f>> : f \in {g \in DOMAIN entry : entry[g] # standing[i][g]}}
    IN /\ standing' = [standing EXCEPT ![i] = entry]
       /\ untold' = IF told THEN untold \ changed ELSE untold \union changed
       /\ rosterLoad' = [rosterLoad EXCEPT !.missed =
              IF rosterLoad.phase = "read" THEN @ \union changed ELSE @]
       /\ UNCHANGED <<roster, behind>>

\* entries come and go
Move(ids, i, entry) ==
    /\ roster' = ids
    /\ standing' = [standing EXCEPT ![i] = entry]
    /\ behind' = TRUE
    /\ rosterLoad' = [rosterLoad EXCEPT !.moved = rosterLoad.phase = "read"]
    /\ UNCHANGED untold

Pages(total) == IF total = 0 THEN 1 ELSE (total + RosterPageSize - 1) \div RosterPageSize
OnPage(ids, page) ==
    SubSeq(ids, (page - 1) * RosterPageSize + 1,
           IF page * RosterPageSize < Len(ids) THEN page * RosterPageSize ELSE Len(ids))
RowsOn(page) == LET ids == OnPage(roster, page)
                IN [k \in DOMAIN ids |-> [id |-> ids[k], role |-> standing[ids[k]].role,
                                          status |-> standing[ids[k]].status]]

(******************************* the list **********************************)

\* the pagination under the list, or the browser's own buttons
turnPage ==
    /\ RosterStep
    /\ \E page \in 1 .. Cardinality(RosterEntry) : page # rosterPage /\ heading' = page
    /\ UNCHANGED <<rosterTable, rosterPage, rosterLoad, rosterShown, rosterTasks, inviteLink>>

pageIsTurned ==
    /\ heading # None
    /\ rosterPage' = heading /\ heading' = None
    /\ rosterLoad' = IF heading = rosterPage THEN rosterLoad ELSE LoadOf(heading)
    /\ RosterAnswer
    /\ UNCHANGED <<rosterTable, rosterShown, rosterTasks, inviteLink>>

rosterIsRead ==
    /\ rosterLoad.phase = "asked"
    /\ rosterLoad' = [rosterLoad EXCEPT !.phase = "read", !.rows = RowsOn(rosterLoad.page),
                                        !.total = Len(roster)]
    /\ RosterAnswer
    /\ UNCHANGED <<rosterTable, rosterPage, heading, rosterShown, rosterTasks, inviteLink>>

\* mutant: the address keeps a page that is not there
Redirected_Never(total) == heading

\* watch(isInvalidPage): a page beyond the last one is replaced by the last one
Redirected(total) == IF rosterPage > Pages(total) THEN Pages(total) ELSE heading

\* what an ended load leaves; whoever waited for a refresh goes on
Loaded(list) ==
    /\ rosterShown' = list
    /\ rosterLoad' = NoLoad
    /\ heading' = Redirected(list.total)
    /\ rosterTasks' = {t \in rosterTasks : t.phase # "refreshing"}
    /\ RosterAnswer
    /\ UNCHANGED <<roster, standing, rosterPage, inviteLink>>

\* an answer still on its way may say less than the list
Field(t) == <<t.id, IF t.op = "role" THEN "role" ELSE "status">>
UntoldYet == {p \in untold : \E t \in rosterTasks : t.phase = "done" /\ Field(t) = p}

rosterIsShown ==
    /\ rosterLoad.phase = "read"
    /\ Loaded([page |-> rosterLoad.page, rows |-> rosterLoad.rows, total |-> rosterLoad.total])
    /\ untold' = rosterLoad.missed \union UntoldYet /\ behind' = rosterLoad.moved

\* a load that fails leaves the empty page and does not throw
rosterFails ==
    /\ rosterLoad.phase # "none"
    /\ Loaded([page |-> rosterPage, rows |-> <<>>, total |-> 0])
    /\ untold' = UntoldYet /\ behind' = TRUE

ShownRows == {rosterShown.rows[k] : k \in DOMAIN rosterShown.rows}

(*************************** accounts and invites **************************)

Asked(op, i, value) == [op |-> op, id |-> i, value |-> value, phase |-> "asked"]
Ask(t) == /\ RosterStep
          /\ rosterTasks' = rosterTasks \union {t}
          /\ UNCHANGED <<rosterTable, rosterView>>

\* roleUpdatingUserIds and canDemote
askRole ==
    /\ rosterKind = "users"
    /\ \E row \in ShownRows :
        /\ ~\E t \in rosterTasks : t.op = "role" /\ t.id = row.id
        /\ row.role = "admin" => row.id # OwnEntry
        /\ Ask(Asked("role", row.id, IF row.role = "admin" THEN "user" ELSE "admin"))
    /\ UNCHANGED inviteLink

\* statusUpdatingUserIds and canBan
askStatus ==
    /\ rosterKind = "users"
    /\ \E row \in ShownRows :
        /\ ~\E t \in rosterTasks : t.op = "status" /\ t.id = row.id
        /\ row.status = "active" => row.id # OwnEntry
        /\ Ask(Asked("status", row.id, IF row.status = "banned" THEN "active" ELSE "banned"))
    /\ UNCHANGED inviteLink

\* isCreatingInvite
askInvite ==
    /\ rosterKind = "invites"
    /\ ~\E t \in rosterTasks : t.op = "create"
    /\ inviteLink' = None
    /\ Ask(Asked("create", None, None))

\* revokingInviteId and canRevokeInvite
askRevoke ==
    /\ rosterKind = "invites"
    /\ ~\E t \in rosterTasks : t.op = "revoke"
    /\ \E row \in ShownRows : row.status = "pending" /\ Ask(Asked("revoke", row.id, "revoked"))
    /\ UNCHANGED inviteLink

Turned(t, phase) == rosterTasks' = (rosterTasks \ {t}) \union {[t EXCEPT !.phase = phase]}

\* setRole, banUser, unbanUser and revoke; an expired invite is a pending row
entryChanges == \E t \in rosterTasks :
    /\ t.phase = "asked" /\ t.op # "create"
    /\ IF t.op = "revoke" THEN standing[t.id].status \in {"pending", "expired"}
                          ELSE t.id \in ToSet(roster)
    /\ EntryChange(t.id, IF t.op = "role" THEN [standing[t.id] EXCEPT !.role = t.value]
                                     ELSE [standing[t.id] EXCEPT !.status = t.value],
              t.op # "revoke")
    /\ Turned(t, "done")
    /\ RosterAnswer /\ UNCHANGED <<rosterPage, heading, rosterShown, inviteLink>>

\* createInvite: the row stays when its email cannot be sent
inviteIsCreated == \E t \in rosterTasks, i \in RosterEntry, sent \in BOOLEAN :
    /\ t.phase = "asked" /\ t.op = "create" /\ standing[i] = NoEntry
    /\ Move(<<i>> \o roster, i, [role |-> "user", status |-> "pending"])
    /\ rosterTasks' = (rosterTasks \ {t}) \union {[t EXCEPT !.phase = IF sent THEN "done" ELSE "refused", !.id = i]}
    /\ RosterAnswer /\ UNCHANGED <<rosterPage, heading, rosterShown, inviteLink>>

taskIsRefused == \E t \in rosterTasks :
    /\ t.phase = "asked"
    /\ Turned(t, "refused")
    /\ RosterAnswer /\ UNCHANGED <<rosterTable, rosterView, inviteLink>>

\* mutant: the answer is not shown
Patched_Nothing(t) == rosterShown

\* the answer is written into the rows, whichever page they are of
Patched(t) == [rosterShown EXCEPT !.rows = [k \in DOMAIN @ |->
    IF @[k].id # t.id THEN @[k]
    ELSE IF t.op = "role" THEN [@[k] EXCEPT !.role = t.value] ELSE [@[k] EXCEPT !.status = t.value]]]

accountAnswered == \E t \in rosterTasks :
    /\ t.phase = "done" /\ t.op \in {"role", "status"}
    /\ rosterShown' = Patched(t)
    /\ rosterTasks' = rosterTasks \ {t}
    /\ RosterAnswer
    /\ UNCHANGED <<rosterTable, rosterPage, heading, rosterLoad, inviteLink>>

\* a new invite leads to the first page; the page of the address is loaded again
inviteAnswered == \E t \in rosterTasks :
    /\ t.phase = "done" /\ t.op \in {"create", "revoke"}
    /\ inviteLink' = IF t.op = "create" THEN t.id ELSE inviteLink
    /\ heading' = IF t.op = "create" /\ rosterPage # 1 THEN 1 ELSE heading
    /\ rosterLoad' = LoadOf(rosterPage)
    /\ Turned(t, "refreshing")
    /\ RosterAnswer /\ UNCHANGED <<rosterTable, rosterPage, rosterShown>>

\* a refusal, or an answer that never came: nothing is loaded again
taskFails == \E t \in rosterTasks :
    /\ t.phase \in {"refused", "done"}
    /\ untold' = IF t.phase = "done" /\ t.op # "create"
                   THEN untold \union {Field(t)}
                   ELSE untold
    /\ rosterTasks' = rosterTasks \ {t}
    /\ RosterAnswer /\ UNCHANGED <<roster, standing, behind, rosterView, inviteLink>>

\* another administrator, a signup, the clock
changedElsewhere ==
    /\ RosterStep
    /\ \E i \in ToSet(roster) :
        \/ /\ rosterKind = "users"
           /\ \/ EntryChange(i, [standing[i] EXCEPT !.role = IF @ = "admin" THEN "user" ELSE "admin"], FALSE)
              \/ EntryChange(i, [standing[i] EXCEPT !.status = IF @ = "banned" THEN "active" ELSE "banned"], FALSE)
        \/ /\ rosterKind = "invites" /\ standing[i].status = "pending"
           /\ \E s \in {"accepted", "expired"} :
                EntryChange(i, [standing[i] EXCEPT !.status = s], FALSE)
    /\ UNCHANGED <<rosterPage, heading, rosterShown, rosterTasks, inviteLink>>

entriesMove ==
    /\ RosterStep
    /\ \/ \E i \in RosterEntry : /\ standing[i] = NoEntry
                           /\ Move(<<i>> \o roster, i, [NoEntry EXCEPT !.status = FreshStatus])
       \/ \E n \in DOMAIN roster :
            /\ rosterKind = "users" /\ roster[n] # OwnEntry
            /\ Move(RemoveAt(roster, n), roster[n], [NoEntry EXCEPT !.status = "gone"])
    /\ UNCHANGED <<rosterPage, heading, rosterShown, rosterTasks, inviteLink>>

RosterNext ==
    \/ turnPage \/ pageIsTurned \/ rosterIsRead \/ rosterIsShown \/ rosterFails
    \/ askRole \/ askStatus \/ askInvite \/ askRevoke
    \/ entryChanges \/ inviteIsCreated \/ taskIsRefused
    \/ accountAnswered \/ inviteAnswered \/ taskFails
    \/ changedElsewhere \/ entriesMove

RosterSpec == RosterInit /\ [][RosterNext]_rosterVars

(****************************** properties *********************************)

EntryStatus == {"active", "banned", "pending", "accepted", "expired", "revoked"}
RosterRow == [id : RosterEntry, role : {"admin", "user"}, status : EntryStatus]
AdminPagesTypeOK ==
    /\ rosterPage \in 1 .. Cardinality(RosterEntry) /\ heading \in (1 .. Cardinality(RosterEntry)) \union {None}
    /\ Cardinality(ToSet(roster)) = Len(roster)
    /\ ShownRows \subseteq RosterRow /\ Len(rosterShown.rows) <= RosterPageSize
    /\ \A t \in rosterTasks : t.phase \in {"asked", "done", "refused", "refreshing"}
    /\ untold \subseteq RosterEntry \X {"role", "status"}
    /\ inviteLink \in RosterEntry \union {None} /\ rosterOps \in 0 .. MaxRosterOps

\* Once nothing is on its way, the administrator sees the page the address names, that page
\* exists, and its rows say what is stored: apart from changes made elsewhere and answers that
\* were lost, a change made here is shown whatever load or navigation it crossed.
AdminListSettles ==
    rosterTasks = {} /\ rosterLoad = NoLoad /\ heading = None =>
        /\ rosterShown.page = rosterPage /\ rosterPage <= Pages(rosterShown.total)
        /\ ~behind => /\ rosterShown.total = Len(roster)
                      /\ [k \in DOMAIN rosterShown.rows |-> rosterShown.rows[k].id] = OnPage(roster, rosterPage)
        /\ \A row \in ShownRows, f \in {"role", "status"} :
             <<row.id, f>> \notin untold /\ standing[row.id].status # "gone" => row[f] = standing[row.id][f]
=============================================================================
