---------------------------- MODULE ComponentsMC ----------------------------
(***************************************************************************)
(* The components that share no state, side by side for one run: a         *)
(* behaviour is a behaviour of one of them, chosen at the start, while the *)
(* others stay in their initial state.                                     *)
(***************************************************************************)
EXTENDS
    Locations, SignupInvites, Administration, PersonalCopy, Tags, Catalogue,
    CoverStorage, IsbnScanner, LibraryTransfer, LibraryPage, AccountSettings,
    AuditTrail, Backup, LoanPages, AdminPages

VARIABLES
    part,   \* the component this behaviour is about
    underWay   \* whether it has taken a step

vars == <<part, underWay,
          locationVars, inviteVars, adminVars, copyVars, tagVars,
          catalogueVars, coverVars, scannerVars, transferVars, libraryPageVars,
          accountVars, auditVars, backupVars, loanVars, rosterVars>>

\* what has several initial values has them in its own part only
Init ==
    /\ part \in {"locations", "invites", "administration", "copy", "tags",
                 "catalogue", "covers", "scanner", "transfer", "page",
                 "account", "audit", "backup", "loans", "adminpages"}
    /\ LocationsInit
    /\ InvitesInit
    /\ AdministrationInit
    /\ CopyInit
    /\ TagsInit
    /\ CatalogueInit
    /\ CoverInit
    /\ ScannerInit
    /\ TransferInit
    /\ PageInit
    /\ AccountInit
    /\ AuditInit
    /\ BackupInit
    /\ LoanPagesInit
    /\ RosterInit
    /\ underWay = FALSE
    /\ part # "administration" => users[FirstAdmin] = None
    /\ part # "copy" => copy = AddedCopy /\ bookPages = None
    /\ part # "transfer" => sharedBooks = {} /\ Cardinality(fresh) = 2
    /\ myBooks = SetToSeq(Listing)
    /\ part # "account" => pendingShown = None
    /\ part # "adminpages" => rosterKind = "users" /\ rosterPage = 1 /\ roster[1] = OwnEntry
    /\ part # "loans" => ownerPage = "book"
    /\ part # "tags" => copyTags = {} /\ bookTags = {}

Next ==
    \/ /\ part = "locations" /\ LocationsNext /\ underWay' = TRUE
       /\ UNCHANGED <<part,
                     inviteVars, adminVars, copyVars, tagVars, catalogueVars,
                     coverVars, scannerVars, transferVars, libraryPageVars,
                     accountVars, auditVars, backupVars, loanVars, rosterVars>>
    \/ /\ part = "invites" /\ InvitesNext /\ underWay' = TRUE
       /\ UNCHANGED <<part,
                     locationVars, adminVars, copyVars, tagVars, catalogueVars,
                     coverVars, scannerVars, transferVars, libraryPageVars,
                     accountVars, auditVars, backupVars, loanVars, rosterVars>>
    \/ /\ part = "administration" /\ AdministrationNext /\ underWay' = TRUE
       /\ UNCHANGED <<part,
                     locationVars, inviteVars, copyVars, tagVars,
                     catalogueVars, coverVars, scannerVars, transferVars,
                     libraryPageVars, accountVars, auditVars, backupVars,
                     loanVars, rosterVars>>
    \/ /\ part = "copy" /\ CopyNext /\ underWay' = TRUE
       /\ UNCHANGED <<part,
                     locationVars, inviteVars, adminVars, tagVars,
                     catalogueVars, coverVars, scannerVars, transferVars,
                     libraryPageVars, accountVars, auditVars, backupVars,
                     loanVars, rosterVars>>
    \/ /\ part = "tags" /\ TagsNext /\ underWay' = TRUE
       /\ UNCHANGED <<part,
                     locationVars, inviteVars, adminVars, copyVars,
                     catalogueVars, coverVars, scannerVars, transferVars,
                     libraryPageVars, accountVars, auditVars, backupVars,
                     loanVars, rosterVars>>
    \/ /\ part = "catalogue" /\ CatalogueNext /\ underWay' = TRUE
       /\ UNCHANGED <<part,
                     locationVars, inviteVars, adminVars, copyVars, tagVars,
                     coverVars, scannerVars, transferVars, libraryPageVars,
                     accountVars, auditVars, backupVars, loanVars, rosterVars>>
    \/ /\ part = "covers" /\ CoverNext /\ underWay' = TRUE
       /\ UNCHANGED <<part,
                     locationVars, inviteVars, adminVars, copyVars, tagVars,
                     catalogueVars, scannerVars, transferVars, libraryPageVars,
                     accountVars, auditVars, backupVars, loanVars, rosterVars>>
    \/ /\ part = "scanner" /\ ScannerNext /\ underWay' = TRUE
       /\ UNCHANGED <<part,
                     locationVars, inviteVars, adminVars, copyVars, tagVars,
                     catalogueVars, coverVars, transferVars, libraryPageVars,
                     accountVars, auditVars, backupVars, loanVars, rosterVars>>
    \/ /\ part = "transfer" /\ TransferNext /\ underWay' = TRUE
       /\ UNCHANGED <<part,
                     locationVars, inviteVars, adminVars, copyVars, tagVars,
                     catalogueVars, coverVars, scannerVars, libraryPageVars,
                     accountVars, auditVars, backupVars, loanVars, rosterVars>>
    \/ /\ part = "page" /\ PageNext /\ underWay' = TRUE
       /\ UNCHANGED <<part,
                     locationVars, inviteVars, adminVars, copyVars, tagVars,
                     catalogueVars, coverVars, scannerVars, transferVars,
                     accountVars, auditVars, backupVars, loanVars, rosterVars>>
    \/ /\ part = "account" /\ AccountNext /\ underWay' = TRUE
       /\ UNCHANGED <<part,
                     locationVars, inviteVars, adminVars, copyVars, tagVars,
                     catalogueVars, coverVars, scannerVars, transferVars,
                     libraryPageVars, auditVars, backupVars, loanVars,
                     rosterVars>>
    \/ /\ part = "audit" /\ AuditNext /\ underWay' = TRUE
       /\ UNCHANGED <<part,
                     locationVars, inviteVars, adminVars, copyVars, tagVars,
                     catalogueVars, coverVars, scannerVars, transferVars,
                     libraryPageVars, accountVars, backupVars, loanVars,
                     rosterVars>>
    \/ /\ part = "backup" /\ BackupNext /\ underWay' = TRUE
       /\ UNCHANGED <<part,
                     locationVars, inviteVars, adminVars, copyVars, tagVars,
                     catalogueVars, coverVars, scannerVars, transferVars,
                     libraryPageVars, accountVars, auditVars, loanVars,
                     rosterVars>>
    \/ /\ part = "loans" /\ LoanPagesNext /\ underWay' = TRUE
       /\ UNCHANGED <<part,
                     locationVars, inviteVars, adminVars, copyVars, tagVars,
                     catalogueVars, coverVars, scannerVars, transferVars,
                     libraryPageVars, accountVars, auditVars, backupVars,
                     rosterVars>>
    \/ /\ part = "adminpages" /\ RosterNext /\ underWay' = TRUE
       /\ UNCHANGED <<part,
                     locationVars, inviteVars, adminVars, copyVars, tagVars,
                     catalogueVars, coverVars, scannerVars, transferVars,
                     libraryPageVars, accountVars, auditVars, backupVars,
                     loanVars>>

\* what tells states apart: the other components are as they were at first
PartView ==
    IF ~underWay THEN vars
    ELSE CASE part = "locations" -> <<part, locationVars>>
           [] part = "invites" -> <<part, inviteVars>>
           [] part = "administration" -> <<part, adminVars>>
           [] part = "copy" -> <<part, copyVars>>
           [] part = "tags" -> <<part, tagVars>>
           [] part = "catalogue" -> <<part, catalogueVars>>
           [] part = "covers" -> <<part, coverVars>>
           [] part = "scanner" -> <<part, scannerVars>>
           [] part = "transfer" -> <<part, transferVars>>
           [] part = "page" -> <<part, libraryPageVars>>
           [] part = "account" -> <<part, accountVars>>
           [] part = "audit" -> <<part, auditVars>>
           [] part = "backup" -> <<part, backupVars>>
           [] part = "loans" -> <<part, loanVars>>
           [] part = "adminpages" -> <<part, rosterVars>>

Spec == Init /\ [][Next]_vars

\* every component's state stays well formed
ComponentsTypeOK ==
    /\ part = "locations" => LocationsTypeOK
    /\ part = "invites" => InvitesTypeOK
    /\ part = "administration" => AdministrationTypeOK
    /\ part = "copy" => CopyTypeOK
    /\ part = "tags" => TagsTypeOK
    /\ part = "catalogue" => CatalogueTypeOK
    /\ part = "covers" => CoverTypeOK
    /\ part = "scanner" => ScannerTypeOK
    /\ part = "transfer" => TransferTypeOK
    /\ part = "page" => PageTypeOK
    /\ part = "account" => AccountTypeOK
    /\ part = "audit" => AuditTypeOK
    /\ part = "backup" => BackupTypeOK
    /\ part = "loans" => LoanPagesTypeOK
    /\ part = "adminpages" => AdminPagesTypeOK
=============================================================================
