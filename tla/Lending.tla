------------------------------ MODULE Lending ------------------------------
(***************************************************************************)
(* Loans of the copies in one user's library.  The owner's requests create  *)
(* a loan, send or resend its invitation, remove a copy or change its state *)
(* in several steps; returning, cancelling, deleting and accepting a loan   *)
(* are one guarded statement each.                                          *)
(*                                                                         *)
(* A loan's id and the token of its invitation are both random, so a token  *)
(* is presented by naming its loan.  Times, names, the snapshot of the book *)
(* and the location of a copy are left out.                                 *)
(***************************************************************************)
CONSTANTS
    Copy,      \* user_books rows of the owner
    Loan,      \* bound: ids of loans
    Borrower,  \* users other than the owner
    Owner,
    Request,   \* requests of the owner that may run at the same time
    None       \* SQL NULL

ASSUME NullAssumption == None \notin Borrower \cup Loan \cup Copy \cup {Owner}
ASSUME OwnerAssumption == Owner \notin Borrower

VARIABLES
    copy,          \* user_books: removed or not, and the library state
    loan,          \* loans
    deleted,       \* users whose account has been deleted
    emailEnabled,  \* getEmailCapabilities().inviteEmailEnabled
    pc, work       \* next step and memory of each request

vars == <<copy, loan, deleted, emailEnabled, pc, work>>

LibraryStates == {"owned", "wishlisted", "previously_owned"}
Places == {"home", "offered", "unnamed"}
ASSUME PlaceAssumption == Borrower \cap Places = {}

NoLoan == [status |-> "none", copy |-> None, borrower |-> None, accepted |-> FALSE,
           token |-> FALSE, email |-> FALSE, delivery |-> None]
NoWork == [copy |-> None, state |-> None, loan |-> None, delivery |-> None]

Init ==
    /\ copy = [c \in Copy |-> [state |-> "owned", removed |-> FALSE]]
    /\ loan = [l \in Loan |-> NoLoan]
    /\ deleted = {}
    /\ emailEnabled \in BOOLEAN
    /\ pc = [r \in Request |-> "idle"]
    /\ work = [r \in Request |-> NoWork]

-----------------------------------------------------------------------------
Goto(r, step) == pc' = [pc EXCEPT ![r] = step]
Remember(r, memory) == work' = [work EXCEPT ![r] = memory]
Stop(r) == Goto(r, "idle") /\ Remember(r, NoWork)

ActiveIn(table, c) == {l \in Loan : table[l].status = "active" /\ table[l].copy = c}
ActiveOn(c) == ActiveIn(loan, c)
Present(c) == ~copy[c].removed

(**************************** creating a loan ******************************)

\* snapshotForBook: only a copy that is there and owned can be lent.
Snapshot(r) ==
    /\ pc[r] = "idle"
    /\ \E c \in Copy : /\ Present(c) /\ copy[c].state = "owned"
                       /\ Remember(r, [NoWork EXCEPT !.copy = c])
    /\ Goto(r, "check")
    /\ UNCHANGED <<copy, loan, deleted, emailEnabled>>

\* createLoan.checkActive
CheckActive(r) ==
    /\ pc[r] = "check"
    /\ IF ActiveOn(work[r].copy) # {} THEN Stop(r) ELSE Goto(r, "insert") /\ work' = work
    /\ UNCHANGED <<copy, loan, deleted, emailEnabled>>

\* The new loan, with or without an e-mail address to invite.
NewLoan(c, email) ==
    [NoLoan EXCEPT !.status = "active", !.copy = c, !.token = TRUE, !.email = email,
                   !.delivery = IF email THEN "pending" ELSE None]
Created(r, l, email) ==
    /\ loan[l].status = "none"
    /\ loan' = [loan EXCEPT ![l] = NewLoan(work[r].copy, email)]
    /\ IF email /\ emailEnabled
       THEN Goto(r, "send") /\ Remember(r, [NoWork EXCEPT !.loan = l])
       ELSE Stop(r)

\* Mutation of InsertLoan: the table has no index of active loans.
InsertLoan_NoIndex(r) ==
    /\ pc[r] = "insert"
    /\ \E l \in Loan, email \in BOOLEAN : Created(r, l, email)
    /\ UNCHANGED <<copy, deleted, emailEnabled>>

\* createLoan.insert, which the unique index of active loans may refuse
InsertLoan(r) ==
    /\ pc[r] = "insert"
    /\ IF ActiveOn(work[r].copy) # {} THEN Stop(r) /\ loan' = loan
       ELSE \E l \in Loan, email \in BOOLEAN : Created(r, l, email)
    /\ UNCHANGED <<copy, deleted, emailEnabled>>

(**************************** the invitation *******************************)

\* resendLoanInvite: the token presented must be the stored one.
ReadInvite(r) ==
    /\ pc[r] = "idle"
    /\ \E l \in Loan :
        /\ loan[l].status = "active" /\ loan[l].token /\ loan[l].email
        /\ IF emailEnabled
           THEN Goto(r, "send") /\ Remember(r, [NoWork EXCEPT !.loan = l])
           ELSE /\ Goto(r, "record")
                /\ Remember(r, [NoWork EXCEPT !.loan = l, !.delivery = "pending"])
    /\ UNCHANGED <<copy, loan, deleted, emailEnabled>>

SendEmail(r) ==
    /\ pc[r] = "send"
    /\ \E d \in {"sent", "failed"} : Remember(r, [work[r] EXCEPT !.delivery = d])
    /\ Goto(r, "record")
    /\ UNCHANGED <<copy, loan, deleted, emailEnabled>>

\* Mutation of RecordDelivery: the service's word "unavailable" is stored.
RecordDelivery_Unavailable(r) ==
    LET l == work[r].loan IN
    /\ pc[r] = "record"
    /\ loan' = IF loan[l].status = "active" THEN [loan EXCEPT ![l] = [@ EXCEPT !.delivery = "unavailable"]]
               ELSE loan
    /\ Stop(r)
    /\ UNCHANGED <<copy, deleted, emailEnabled>>

\* Mutation of RecordDelivery: the loan need not be active any more.
RecordDelivery_AnyStatus(r) ==
    LET l == work[r].loan IN
    /\ pc[r] = "record"
    /\ loan' = [loan EXCEPT ![l] = [@ EXCEPT !.delivery = work[r].delivery]]
    /\ Stop(r)
    /\ UNCHANGED <<copy, deleted, emailEnabled>>

\* updateInviteEmailDelivery, whose failure is only logged
RecordDelivery(r) ==
    LET l == work[r].loan IN
    /\ pc[r] = "record"
    /\ \/ loan' = loan
       \/ /\ loan[l].status = "active"
          /\ loan' = [loan EXCEPT ![l] = [@ EXCEPT !.delivery = work[r].delivery]]
    /\ Stop(r)
    /\ UNCHANGED <<copy, deleted, emailEnabled>>

(**************************** the loan's end *******************************)

Closed(row, status) == [row EXCEPT !.status = status, !.token = FALSE]

\* Mutation of returnLoan: the accept token is not cleared.
returnLoan_KeepsToken(l) ==
    /\ loan[l].status = "active"
    /\ loan' = [loan EXCEPT ![l].status = "returned"]
    /\ UNCHANGED <<copy, deleted, emailEnabled, pc, work>>

returnLoan(l) ==
    /\ loan[l].status = "active"
    /\ loan' = [loan EXCEPT ![l] = Closed(loan[l], "returned")]
    /\ UNCHANGED <<copy, deleted, emailEnabled, pc, work>>

\* Mutation of cancelLoan: an accepted loan may be cancelled.
cancelLoan_Accepted(l) ==
    /\ loan[l].status = "active"
    /\ loan' = [loan EXCEPT ![l] = Closed(loan[l], "canceled")]
    /\ UNCHANGED <<copy, deleted, emailEnabled, pc, work>>

cancelLoan(l) ==
    /\ loan[l].status = "active" /\ ~loan[l].accepted
    /\ loan' = [loan EXCEPT ![l] = Closed(loan[l], "canceled")]
    /\ UNCHANGED <<copy, deleted, emailEnabled, pc, work>>

deleteLoan(l) ==
    /\ loan[l].status \in {"returned", "canceled"}
    /\ loan' = [loan EXCEPT ![l] = [NoLoan EXCEPT !.status = "deleted"]]
    /\ UNCHANGED <<copy, deleted, emailEnabled, pc, work>>

(**************************** the borrower *********************************)

\* The WHERE clause of acceptInviteByHash
Acceptable(l, u) ==
    /\ loan[l].token /\ loan[l].status = "active"
    /\ loan[l].borrower = None /\ ~loan[l].accepted
    /\ u # Owner
    /\ Present(loan[l].copy)

Accepted(row, u) == [row EXCEPT !.borrower = u, !.accepted = TRUE, !.token = FALSE]

\* Mutation of acceptInviteByHash: the token stays valid.
acceptInviteByHash_KeepsToken(l, u) ==
    /\ u \notin deleted
    /\ Acceptable(l, u)
    /\ loan' = [loan EXCEPT ![l] = [Accepted(loan[l], u) EXCEPT !.token = TRUE]]
    /\ UNCHANGED <<copy, deleted, emailEnabled, pc, work>>

\* A signed-in user opens the link.
acceptInviteByHash(l, u) ==
    /\ u \notin deleted
    /\ Acceptable(l, u)
    /\ loan' = [loan EXCEPT ![l] = Accepted(loan[l], u)]
    /\ UNCHANGED <<copy, deleted, emailEnabled, pc, work>>

Anonymous(row) == [row EXCEPT !.borrower = None, !.accepted = FALSE]

\* deleteAccountData of a borrower: the loans stay, without the borrower.
deleteAccountData(u) ==
    /\ u \notin deleted
    /\ deleted' = deleted \cup {u}
    /\ loan' = [l \in Loan |-> IF loan[l].borrower = u THEN Anonymous(loan[l]) ELSE loan[l]]
    /\ UNCHANGED <<copy, emailEnabled, pc, work>>

(**************************** the copy *************************************)

\* removeFromLibrary: looks for an active loan unless the owner has confirmed.
CheckRemoval(r) ==
    /\ pc[r] = "idle"
    /\ \E c \in Copy, confirmActiveLoan \in BOOLEAN :
        /\ Present(c)
        /\ confirmActiveLoan \/ ActiveOn(c) = {}
        /\ Remember(r, [NoWork EXCEPT !.copy = c])
    /\ Goto(r, "remove")
    /\ UNCHANGED <<copy, loan, deleted, emailEnabled>>

Remove(r) ==
    /\ pc[r] = "remove"
    /\ copy' = [copy EXCEPT ![work[r].copy].removed = TRUE]
    /\ Stop(r)
    /\ UNCHANGED <<loan, deleted, emailEnabled>>

\* updateLibraryState, and importRecords for a copy that exists: a copy that
\* is lent stays owned.
CheckState(r) ==
    /\ pc[r] = "idle"
    /\ \E c \in Copy, s \in LibraryStates :
        /\ Present(c)
        /\ s = "owned" \/ ActiveOn(c) = {}
        /\ Remember(r, [NoWork EXCEPT !.copy = c, !.state = s])
    /\ Goto(r, "state")
    /\ UNCHANGED <<copy, loan, deleted, emailEnabled>>

SetState(r) ==
    LET c == work[r].copy IN
    /\ pc[r] = "state"
    /\ copy' = IF Present(c) THEN [copy EXCEPT ![c].state = work[r].state] ELSE copy
    /\ Stop(r)
    /\ UNCHANGED <<loan, deleted, emailEnabled>>

-----------------------------------------------------------------------------
RequestStep(r) ==
    \/ Snapshot(r) \/ CheckActive(r) \/ InsertLoan(r)
    \/ ReadInvite(r) \/ SendEmail(r) \/ RecordDelivery(r)
    \/ CheckRemoval(r) \/ Remove(r) \/ CheckState(r) \/ SetState(r)

Next ==
    \/ \E r \in Request : RequestStep(r)
    \/ \E l \in Loan : returnLoan(l) \/ cancelLoan(l) \/ deleteLoan(l)
    \/ \E l \in Loan, u \in Borrower \cup {Owner} : acceptInviteByHash(l, u)
    \/ \E u \in Borrower : deleteAccountData(u)

Spec == Init /\ [][Next]_vars

-----------------------------------------------------------------------------
(****************************** properties *********************************)

LoanRow == [status : {"none", "active", "returned", "canceled", "deleted"},
            copy : Copy \cup {None}, borrower : Borrower \cup {None},
            accepted : BOOLEAN, token : BOOLEAN, email : BOOLEAN,
            delivery : {None, "pending", "sent", "failed"}]
Memory == [copy : Copy \cup {None}, state : LibraryStates \cup {None},
           loan : Loan \cup {None}, delivery : {None, "pending", "sent", "failed"}]
Steps == {"idle", "check", "insert", "send", "record", "remove", "state"}

\* The variables keep their types.
TypeOK ==
    /\ copy \in [Copy -> [state : LibraryStates, removed : BOOLEAN]]
    /\ loan \in [Loan -> LoanRow]
    /\ deleted \in SUBSET Borrower
    /\ emailEnabled \in BOOLEAN
    /\ pc \in [Request -> Steps]
    /\ work \in [Request -> Memory]

\* A copy is never lent twice at a time, although createLoan looks for an
\* active loan first and inserts later.
OneActiveLoan ==
    \A k, l \in Loan :
        loan[k].status = "active" /\ loan[l].status = "active" /\ loan[k].copy = loan[l].copy
            => k = l

\* A token that would still be found belongs to a loan that waits for its
\* borrower: accepting, returning and cancelling all use it up, and deleting
\* the borrower's account does not revive it.
TokensAreSingleUse ==
    \A l \in Loan : loan[l].token =>
        loan[l].status = "active" /\ loan[l].borrower = None /\ ~loan[l].accepted

\* A loan that has been accepted is not cancelled, whichever of both comes
\* first: its borrower keeps it in the history.
CanceledWasNotAccepted ==
    \A l \in Loan : loan[l].status = "canceled" =>
        ~loan[l].accepted /\ loan[l].borrower = None

\* A closed loan is history: a delivery report that comes late does not touch
\* it, only its deletion does, or that of its borrower's account.
ClosedStays ==
    [][\A l \in Loan :
        loan[l].status \in {"returned", "canceled"} =>
            \/ loan'[l] = loan[l]
            \/ loan'[l].status = "deleted"
            \/ loan[l].borrower \in deleted' \ deleted]_vars

\* Where a copy is, for the abstract specification.
Place(row) == IF row.borrower # None THEN row.borrower
              ELSE IF row.token THEN "offered" ELSE "unnamed"
HolderIn(table, c) ==
    IF ActiveIn(table, c) = {} THEN "home"
    ELSE Place(table[CHOOSE l \in Loan : l \in ActiveIn(table, c)])

holder == [c \in Copy |-> HolderIn(loan, c)]

H == INSTANCE Holding WITH holder <- holder

\* Lending keeps what Holding promises: a copy goes from home to an offer to
\* one borrower and back, and is never passed on or offered again on the way.
ImplementsHolding == H!Spec

\* "This book has an active loan, so it cannot be marked previously owned until
\* the loan is returned" (app/pages/library/[id].vue:585).
LentCopyIsOwned ==
    \A l \in Loan : loan[l].status = "active" => copy[loan[l].copy].state = "owned"
=============================================================================
