------------------------------ MODULE LoanPages ------------------------------
(***************************************************************************)
(* The pages that show loans, over a server on which a request is one      *)
(* step (Lending has the steps of a request).  The owner has one of two    *)
(* pages open: the list of loans, with notes that appear before they are   *)
(* saved, or a book with the dialog that lends it; a borrower may accept.  *)
(* A book's page reads the book again in the step in which its answer      *)
(* arrives.                                                                *)
(***************************************************************************)
EXTENDS Actors

CONSTANTS
    Loaned,        \* bound: ids of loans
    Text,          \* notes, and names typed into the dialog
    MaxLoanOps     \* bound: what the owner and the borrowers ask for

ASSUME LoanedAssumption == None \notin Loaned

VARIABLES
    lent,      \* the loans table
    ownerPage, \* the owner's page: the list or a book
    list,      \* the list of loans as it is shown
    reload,    \* the list that has been asked for
    noteSaves, \* notes on their way
    latest,    \* loanNoteRequestIds: the number of the newest note of each loan
    action,    \* returning, cancelling and deleting, one loan each
    lendDialog, \* the lending dialog
    lookups,   \* suggestions on their way, current or not
    lending,   \* the loan on its way
    resending, \* the loan whose invitation is sent again
    unseen,    \* history: loans the list is excused from showing
    failed,    \* history: a note failed, and others of its loan have been on their way since
    straddled, \* history: the dialog was opened during a resend
    loanOps    \* history: steps that have been taken

ownerVars == <<list, reload, noteSaves, latest, action, unseen, failed>>
bookVars == <<lendDialog, lookups, lending, resending, straddled>>
loanVars == <<lent, ownerPage, list, reload, noteSaves, latest, action, unseen,
              failed, lendDialog, lookups, lending, resending, straddled, loanOps>>

NoRow == [status |-> "none", note |-> None, accepted |-> FALSE]
NoSave == [phase |-> "idle", loan |-> None, id |-> 0, note |-> None, previous |-> None,
           fresh |-> FALSE, outrun |-> FALSE]
NoAction == [phase |-> "idle", loan |-> None]
NoReload == [phase |-> "none", rows |-> [l \in Loaned |-> NoRow], missed |-> {}]
Ends == {"returned", "canceled", "deleted"}
BlankDialog == [open |-> FALSE, name |-> None, typed |-> None, suggested |-> None,
                link |-> None, delivery |-> None, deliveryOf |-> None, shown |-> None]

LoanPagesInit ==
    /\ ownerPage \in {"list", "book"}
    /\ lent \in [Loaned -> IF ownerPage = "list" THEN {[NoRow EXCEPT !.status = "active"],
                                                  [NoRow EXCEPT !.status = "returned"]}
                           ELSE {NoRow}]
    /\ list = lent
    /\ reload = NoReload
    /\ noteSaves = [r \in Call |-> NoSave]
    /\ latest = [l \in Loaned |-> 0]
    /\ action = [e \in Ends |-> NoAction]
    /\ lendDialog = BlankDialog /\ lookups = {} /\ lending = NoAction /\ resending = NoAction
    /\ unseen = {} /\ failed = {} /\ straddled = FALSE /\ loanOps = 0

LoanStep == Room(loanOps, MaxLoanOps) /\ loanOps' = loanOps + 1

(***************************** the server **********************************)

\* updateLoanNote
Noted(l, n) == [lent EXCEPT ![l].note = n]
\* what deleteLoan leaves
EndedRow(l, e) == IF e = "deleted" THEN [NoRow EXCEPT !.status = "deleted"]
                  ELSE [lent[l] EXCEPT !.status = e]
\* the conditions of returnLoan, cancelLoan and deleteLoan
Endable(l, e) == CASE e = "returned" -> lent[l].status = "active"
                   [] e = "canceled" -> lent[l].status = "active" /\ ~lent[l].accepted
                   [] e = "deleted" -> lent[l].status \in {"returned", "canceled"}
\* listOwnerLoans
ListedLoans == [l \in Loaned |-> IF lent[l].status = "deleted" THEN NoRow ELSE lent[l]]
\* getInvitePreviewByHash: the invitation of a loan that still waits
canAccept(l) == lent[l].status = "active" /\ ~lent[l].accepted
\* getActiveLoanForBook
ActiveHere == {l \in Loaned : lent[l].status = "active"}

\* What changes the loan without the list being told.
Missed(S) == IF reload.phase = "read" THEN [reload EXCEPT !.missed = @ \cup S] ELSE reload
Unseen(S) == unseen' = unseen \cup S /\ reload' = Missed(S)

(************************** the list of loans ******************************)

\* The section is not there while the list is being loaded.
Visible == ownerPage = "list" /\ reload.phase = "none"

\* saveNote and the first half of saveLoanNote: the note is shown at once.
saveLoanNote(r, l, n) ==
    /\ Visible /\ list[l].status = "active" /\ LoanStep
    /\ noteSaves[r].phase = "idle"
    /\ latest' = [latest EXCEPT ![l] = @ + 1]
    /\ noteSaves' = [noteSaves EXCEPT ![r] = [phase |-> "sent", loan |-> l, id |-> latest'[l],
                                      note |-> n, previous |-> list[l].note, fresh |-> TRUE,
                                      outrun |-> FALSE]]
    /\ list' = [list EXCEPT ![l].note = n]
    /\ UNCHANGED <<lent, ownerPage, reload, action, unseen, failed, bookVars>>

\* The request reaches the server, or does not.  A note that is written after
\* a newer one of its loan is the one that stays.
noteIsSaved(r) ==
    LET l == noteSaves[r].loan
        behind == {q \in Call : noteSaves[q].loan = l /\ noteSaves[q].id < noteSaves[r].id}
    IN
    /\ noteSaves[r].phase = "sent"
    /\ lent[l].status = "active"
    /\ lent' = Noted(l, noteSaves[r].note)
    /\ noteSaves' = [q \in Call |-> IF q = r THEN [noteSaves[r] EXCEPT !.phase = "saved"]
                              ELSE [noteSaves[q] EXCEPT !.outrun = @ \/ q \in behind]]
    /\ unseen' = IF noteSaves[r].outrun THEN unseen \cup {l} ELSE unseen
    /\ reload' = Missed({l})
    /\ UNCHANGED <<ownerPage, list, latest, action, failed, bookVars, loanOps>>

noteIsRefused(r) ==
    /\ noteSaves[r].phase = "sent"
    /\ noteSaves' = [noteSaves EXCEPT ![r].phase = "refused"]
    /\ UNCHANGED <<lent, ownerPage, list, reload, latest, action, unseen, failed, bookVars, loanOps>>

Alone(r) == \A q \in Call \ {r} : noteSaves[q].loan # noteSaves[r].loan

noteAnswered(r) ==
    /\ noteSaves[r].phase = "saved"
    /\ noteSaves' = [noteSaves EXCEPT ![r] = NoSave]
    /\ failed' = IF Alone(r) THEN failed \ {noteSaves[r].loan} ELSE failed
    /\ UNCHANGED <<lent, ownerPage, list, reload, latest, action, unseen, bookVars, loanOps>>

\* Mutation of restoredNote: whichever note fails brings the one before back.
restoredNote_Always(r) ==
    LET s == noteSaves[r] IN
    IF s.fresh THEN [list EXCEPT ![s.loan].note = s.previous] ELSE list

\* Only the newest note of a loan brings the one before back, and only in the
\* row it was shown in: a list loaded since has other rows.
restoredNote(r) ==
    LET s == noteSaves[r] IN
    IF latest[s.loan] = s.id /\ s.fresh THEN [list EXCEPT ![s.loan].note = s.previous] ELSE list

\* The request has failed, or its answer has been lost.
noteFails(r) ==
    LET l == noteSaves[r].loan IN
    /\ noteSaves[r].phase \in {"saved", "refused"}
    /\ list' = restoredNote(r)
    /\ noteSaves' = [noteSaves EXCEPT ![r] = NoSave]
    /\ failed' = IF Alone(r) THEN failed \ {l} ELSE failed \cup {l}
    /\ unseen' = IF noteSaves[r].phase = "saved" \/ l \in failed THEN unseen \cup {l} ELSE unseen
    /\ UNCHANGED <<lent, ownerPage, reload, latest, action, bookVars, loanOps>>

\* The buttons of a row, and the dialog that asks before a closed loan is
\* deleted: it is gone when the list is loaded again, so its loan is listed.
Offered(l, e) ==
    CASE e = "returned" -> list[l].status = "active"
      [] e = "canceled" -> list[l].status = "active" /\ ~list[l].accepted
      [] e = "deleted" -> list[l].status \in {"returned", "canceled"}
Busy(e) == IF e = "deleted" THEN {e} ELSE {"returned", "canceled"}

runLoanAction(l, e) ==
    /\ Visible /\ Offered(l, e) /\ LoanStep
    /\ \A b \in Busy(e) : action[b].loan = None
    /\ action' = [action EXCEPT ![e] = [phase |-> "sent", loan |-> l]]
    /\ UNCHANGED <<lent, ownerPage, list, reload, noteSaves, latest, unseen, failed, bookVars>>

loanEnds(e) ==
    LET l == action[e].loan IN
    /\ action[e].phase = "sent"
    /\ IF Endable(l, e)
       THEN /\ lent' = [lent EXCEPT ![l] = EndedRow(l, e)]
            /\ action' = [action EXCEPT ![e].phase = "done"]
            /\ Unseen({l})
       ELSE /\ action' = [action EXCEPT ![e].phase = "failed"]
            /\ UNCHANGED <<lent, unseen, reload>>
    /\ UNCHANGED <<ownerPage, list, noteSaves, latest, failed, bookVars, loanOps>>

\* refreshOwnerLoans takes the place of a list that is still awaited.  While it
\* is pending the section is gone, with the note or dialog that was open.
actionAnswered(e) ==
    /\ action[e].phase = "done"
    /\ action' = [action EXCEPT ![e].phase = "refresh"]
    /\ reload' = [NoReload EXCEPT !.phase = "asked"]
    /\ UNCHANGED <<lent, ownerPage, list, noteSaves, latest, unseen, failed, bookVars, loanOps>>

\* The answer is an error, or does not arrive.
actionFails(e) ==
    /\ action[e].phase \in {"done", "failed"}
    /\ action' = [action EXCEPT ![e] = NoAction]
    /\ UNCHANGED <<lent, ownerPage, list, reload, noteSaves, latest, unseen, failed, bookVars, loanOps>>

listIsRead ==
    /\ reload.phase = "asked"
    /\ reload' = [phase |-> "read", rows |-> ListedLoans, missed |-> {}]
    /\ UNCHANGED <<lent, ownerPage, list, noteSaves, latest, action, unseen, failed, bookVars, loanOps>>

Unsaved == {noteSaves[r].loan : r \in {r \in Call : noteSaves[r].phase = "sent"}}
Reloaded(rows) ==
    /\ list' = rows
    /\ noteSaves' = [r \in Call |-> [noteSaves[r] EXCEPT !.fresh = FALSE]]
    /\ action' = [e \in Ends |-> IF action[e].phase = "refresh" THEN NoAction ELSE action[e]]
    /\ reload' = NoReload

listIsShown ==
    /\ reload.phase = "read"
    /\ Reloaded(reload.rows)
    /\ unseen' = reload.missed \cup Unsaved
    /\ UNCHANGED <<lent, ownerPage, latest, failed, bookVars, loanOps>>

\* useFetch shows its default, no loans, and refresh does not throw.
listFails ==
    /\ reload.phase \in {"asked", "read"}
    /\ Reloaded([l \in Loaned |-> NoRow])
    /\ unseen' = Loaned
    /\ UNCHANGED <<lent, ownerPage, latest, failed, bookVars, loanOps>>

\* The owner ends a loan in another window.
endedElsewhere(l) ==
    /\ LoanStep /\ Endable(l, "returned")
    /\ lent' = [lent EXCEPT ![l] = EndedRow(l, "returned")]
    /\ Unseen({l})
    /\ UNCHANGED <<ownerPage, list, noteSaves, latest, action, failed, bookVars>>

ListStep ==
    \/ \E l \in Loaned : endedElsewhere(l)
    \/ \E r \in Call, l \in Loaned, n \in Text \cup {None} : saveLoanNote(r, l, n)
    \/ \E r \in Call : noteIsSaved(r) \/ noteIsRefused(r) \/ noteAnswered(r) \/ noteFails(r)
    \/ \E l \in Loaned, e \in Ends : runLoanAction(l, e)
    \/ \E e \in Ends : loanEnds(e) \/ actionAnswered(e) \/ actionFails(e)
    \/ listIsRead \/ listIsShown \/ listFails

(*************************** the lending dialog ****************************)

\* resetBorrowerSuggestions: no answer on its way counts any more.
Stale == {[k EXCEPT !.current = FALSE] : k \in lookups}
Shown == IF ActiveHere = {} THEN None ELSE CHOOSE l \in ActiveHere : TRUE

openLending ==
    /\ LoanStep /\ ownerPage = "book" /\ lendDialog.shown = None /\ ~lendDialog.open
    /\ lendDialog' = [BlankDialog EXCEPT !.open = TRUE]
    /\ lookups' = Stale
    /\ straddled' = (resending.loan # None)
    /\ UNCHANGED <<lent, ownerPage, ownerVars, lending, resending>>

closeLending ==
    /\ lendDialog.open
    /\ lendDialog' = [lendDialog EXCEPT !.open = FALSE]
    /\ UNCHANGED <<lent, ownerPage, ownerVars, lookups, lending, resending, straddled, loanOps>>

\* The watcher of borrowerDisplayName: None is a name that is too short.
typeName(n) ==
    /\ lendDialog.open /\ lendDialog.link = None /\ n # lendDialog.name
    /\ lendDialog' = [lendDialog EXCEPT !.name = n, !.typed = n, !.suggested = None]
    /\ lookups' = Stale
    /\ UNCHANGED <<lent, ownerPage, ownerVars, lending, resending, straddled, loanOps>>

\* The timer asks, in the dialog or after it has been closed.
lookUp ==
    /\ lendDialog.typed # None
    /\ lendDialog' = [lendDialog EXCEPT !.typed = None]
    /\ lookups' = lookups \cup {[query |-> lendDialog.typed, current |-> TRUE]}
    /\ UNCHANGED <<lent, ownerPage, ownerVars, lending, resending, straddled, loanOps>>

\* Mutation of suggestionsArrive: the number of the request is not compared.
suggestionsArrive_Any(k) ==
    /\ lookups' = lookups \ {k}
    /\ \E found \in {None, k.query} : lendDialog' = [lendDialog EXCEPT !.suggested = found]
    /\ UNCHANGED <<lent, ownerPage, ownerVars, lending, resending, straddled, loanOps>>

\* Borrowers that fit, none, or an error.
suggestionsArrive(k) ==
    /\ lookups' = lookups \ {k}
    /\ IF k.current
       THEN \E found \in {None, k.query} : lendDialog' = [lendDialog EXCEPT !.suggested = found]
       ELSE lendDialog' = lendDialog
    /\ UNCHANGED <<lent, ownerPage, ownerVars, lending, resending, straddled, loanOps>>

\* The name is replaced without being looked up.
selectBorrowerSuggestion(n) ==
    /\ lendDialog.open /\ lendDialog.suggested # None /\ lendDialog.link = None
    /\ lendDialog' = [lendDialog EXCEPT !.name = n, !.typed = None, !.suggested = None]
    /\ lookups' = Stale
    /\ UNCHANGED <<lent, ownerPage, ownerVars, lending, resending, straddled, loanOps>>

lendBook ==
    /\ lendDialog.open /\ lendDialog.name # None /\ lendDialog.link = None /\ lending.phase = "idle"
    /\ lending' = [NoAction EXCEPT !.phase = "sent"]
    /\ UNCHANGED <<lent, ownerPage, ownerVars, lendDialog, lookups, resending, straddled, loanOps>>

\* createLoan refuses a copy that is lent.
loanIsCreated ==
    /\ lending.phase = "sent"
    /\ IF ActiveHere # {}
       THEN lending' = [lending EXCEPT !.phase = "failed"] /\ lent' = lent
       ELSE \E l \in Loaned : /\ lent[l].status = "none"
                              /\ lent' = [lent EXCEPT ![l].status = "active"]
                              /\ lending' = [phase |-> "done", loan |-> l]
    /\ UNCHANGED <<ownerPage, ownerVars, lendDialog, lookups, resending, straddled, loanOps>>

\* The answer arrives in the dialog, whether or not it has been opened again.
loanAnswered ==
    /\ lending.phase = "done"
    /\ \E d \in {None, "sent", "failed"} :
        lendDialog' = [lendDialog EXCEPT !.link = lending.loan, !.delivery = d,
                                 !.deliveryOf = lending.loan, !.shown = Shown]
    /\ lending' = NoAction
    /\ UNCHANGED <<lent, ownerPage, ownerVars, lookups, resending, straddled, loanOps>>

lendingFails ==
    /\ lending.phase \in {"done", "failed"}
    /\ lending' = NoAction
    /\ UNCHANGED <<lent, ownerPage, ownerVars, lendDialog, lookups, resending, straddled, loanOps>>

resendEmail ==
    /\ lendDialog.open /\ lendDialog.link # None /\ lendDialog.delivery = "failed"
    /\ resending.phase = "idle"
    /\ resending' = [phase |-> "sent", loan |-> lendDialog.link]
    /\ UNCHANGED <<lent, ownerPage, ownerVars, lendDialog, lookups, lending, straddled, loanOps>>

\* resendLoanInvite: the invitation must still be open, and is sent or not.
inviteIsResent ==
    /\ resending.phase = "sent"
    /\ IF canAccept(resending.loan)
       THEN \E p \in {"done", "failed"} : resending' = [resending EXCEPT !.phase = p]
       ELSE resending' = NoAction
    /\ UNCHANGED <<lent, ownerPage, ownerVars, lendDialog, lookups, lending, straddled, loanOps>>

\* The answer arrives in the dialog, or is lost.
resendAnswered ==
    /\ resending.phase \in {"done", "failed"}
    /\ lendDialog' \in {lendDialog,
                   [lendDialog EXCEPT !.delivery = IF resending.phase = "done" THEN "sent" ELSE "failed",
                                  !.deliveryOf = resending.loan]}
    /\ resending' = NoAction
    /\ UNCHANGED <<lent, ownerPage, ownerVars, lookups, lending, straddled, loanOps>>

\* returnActiveLoan of the book's page; the book is read again.
returnActiveLoan ==
    /\ LoanStep /\ ownerPage = "book" /\ ~lendDialog.open /\ lendDialog.shown # None
    /\ Endable(lendDialog.shown, "returned")
    /\ lent' = [lent EXCEPT ![lendDialog.shown] = EndedRow(lendDialog.shown, "returned")]
    /\ lendDialog' = [lendDialog EXCEPT !.shown = None]
    /\ UNCHANGED <<ownerPage, ownerVars, lookups, lending, resending, straddled>>

\* persistLoanNote of the book's page
saveNoteOfBook(n) ==
    /\ LoanStep /\ ownerPage = "book" /\ ~lendDialog.open /\ lendDialog.shown # None
    /\ lent[lendDialog.shown].status = "active"
    /\ lent' = Noted(lendDialog.shown, n)
    /\ UNCHANGED <<ownerPage, ownerVars, bookVars>>

BookStep ==
    \/ openLending \/ closeLending \/ lookUp
    \/ \E n \in Text \cup {None} : typeName(n) \/ saveNoteOfBook(n)
    \/ \E n \in Text : selectBorrowerSuggestion(n)
    \/ \E k \in lookups : suggestionsArrive(k)
    \/ lendBook \/ loanIsCreated \/ loanAnswered \/ lendingFails
    \/ resendEmail \/ inviteIsResent \/ resendAnswered \/ returnActiveLoan

(***************************** the borrower ********************************)

\* The page of the invitation shows its button as long as it can be accepted;
\* the server looks again.
acceptBook(l) ==
    /\ LoanStep /\ canAccept(l)
    /\ lent' = [lent EXCEPT ![l].accepted = TRUE]
    /\ Unseen({l})
    /\ UNCHANGED <<ownerPage, list, noteSaves, latest, action, failed, bookVars>>

LoanPagesNext == ListStep \/ BookStep \/ \E l \in Loaned : acceptBook(l)

LoanPagesSpec == LoanPagesInit /\ [][LoanPagesNext]_loanVars

-----------------------------------------------------------------------------
(****************************** properties *********************************)

LoanRows == [status : {"none", "active"} \cup Ends, note : Text \cup {None}, accepted : BOOLEAN]
SomeLoan == Loaned \cup {None}
SaveRecord == [phase : {"idle", "sent", "saved", "refused"}, loan : SomeLoan, id : Nat,
               note : Text \cup {None}, previous : Text \cup {None}, fresh : BOOLEAN, outrun : BOOLEAN]

\* The variables keep their types.
LoanPagesTypeOK ==
    /\ lent \in [Loaned -> LoanRows] /\ list \in [Loaned -> LoanRows]
    /\ ownerPage \in {"list", "book"}
    /\ reload.phase \in {"none", "asked", "read"} /\ reload.missed \subseteq Loaned
    /\ {lendDialog.link, lendDialog.shown, lendDialog.deliveryOf} \subseteq SomeLoan
    /\ noteSaves \in [Call -> SaveRecord]
    /\ latest \in [Loaned -> Nat]
    /\ action \in [Ends -> [phase : {"idle", "sent", "done", "failed", "refresh"}, loan : SomeLoan]]
    /\ lookups \subseteq [query : Text, current : BOOLEAN]
    /\ unseen \subseteq Loaned /\ failed \subseteq Loaned
    /\ straddled \in BOOLEAN /\ loanOps \in 0..MaxLoanOps

\* Nothing is on its way that the list would still show.
ListSettled ==
    /\ reload.phase = "none"
    /\ \A r \in Call : noteSaves[r].phase = "idle"
    /\ \A e \in Ends : action[e].phase = "idle"

\* Once everything has been answered, the list shows the state and the note of
\* each loan as they are stored, although notes are shown before they are
\* saved, several may be on their way and any may fail.  Excused are the loans
\* of which the page cannot know (changed elsewhere, an answer lost, a list
\* that was read before a note was written) and two notes written in the other
\* order or failing together.
ListShowsTheLoans ==
    ownerPage = "list" /\ ListSettled => \A l \in Loaned \ unseen : list[l] = ListedLoans[l]

\* Suggestions belong to the name in the field, whichever answer is late, and
\* the delivery shown beside a link is that of the link's loan, unless the
\* dialog was opened again while an earlier invitation was being resent.
DialogIsCurrent ==
    /\ lendDialog.suggested # None => lendDialog.suggested = lendDialog.name
    /\ lendDialog.link # None /\ lendDialog.delivery # None
            => lendDialog.deliveryOf = lendDialog.link \/ straddled

\* What the owner's pages show of loans is what it stands for.
LoanPagesTellTheTruth == ListShowsTheLoans /\ DialogIsCurrent
=============================================================================
