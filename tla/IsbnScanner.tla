----------------------------- MODULE IsbnScanner -----------------------------
(***************************************************************************)
(* The page that adds books by ISBN: the list of scanned or pasted books,  *)
(* the tab for a single ISBN and the lookup store they share, with the     *)
(* requests that are under way. Leaving a list starts a new session of     *)
(* both stores; what the old one has under way still answers.              *)
(***************************************************************************)
EXTENDS Actors

CONSTANTS Isbn, MaxAttempts, MaxScannerOps

ScannedRow == [status : {"loading", "found", "not_found", "already_owned", "error"}, selected : BOOLEAN]
CallKind == {"one", "tab", "bulk", "enrich", "timer", "add", "tabAdd"}
ScannerCall ==
    [kind : CallKind, todo : SUBSET Isbn, current : BOOLEAN, latest : BOOLEAN, listed : BOOLEAN, attempt : Nat,
     added : SUBSET Isbn, failed : SUBSET Isbn, owned : SUBSET Isbn]

ASSUME ScannerAssumption ==
    /\ None \notin ScannedRow \cup ScannerCall \cup Isbn
    /\ IsFiniteSet(Isbn) /\ IsFiniteSet(Call)
    /\ MaxAttempts \in Nat

VARIABLES
    scannedBooks,       \* what is listed of an ISBN: None, or its status and selection
    scannerCalls,       \* what the stores wait for
    pendingLookups, pendingAdds, pendingEnrichments,
    bulkProgress,       \* isBulkLookingUp and the counters of the progress bar
    openTab,            \* "isbn", or "list" for the camera and the bulk tab
    lookupResult,       \* the ISBN tab's: None or an ISBN
    formIsbn,           \* the ISBN submitted last in that tab
    library,            \* the ISBNs the user has, on the server
    miscounted,         \* an earlier session lowered a counter of this one
    overlapped,         \* two bulk lookups of this session share the progress bar
    scannerOps          \* calls begun, at most MaxScannerOps

pendingVars == <<pendingLookups, pendingAdds, pendingEnrichments>>
pageVars == <<openTab, lookupResult, formIsbn, library>>
flawVars == <<miscounted, overlapped>>
scannerVars == <<scannedBooks, scannerCalls, pendingVars, bulkProgress, pageVars, flawVars, scannerOps>>

\* current: resetVersion is still that of the call; latest: it is the active lookup
\* request; listed: the book it was made for has not been removed
CallsOf(kinds) == {c \in Call : scannerCalls[c] # None /\ scannerCalls[c].current /\ scannerCalls[c].kind \in kinds}
Listed == {i \in Isbn : scannedBooks[i] # None}
NoProgress == [active |-> FALSE, total |-> 0, started |-> 0, completed |-> 0]
NextOf(call) == CHOOSE i \in call.todo : TRUE
Less(n) == IF n = 0 THEN 0 ELSE n - 1
Book(status, selected) == [status |-> status, selected |-> selected]

-----------------------------------------------------------------------------
(* Calls                                                                   *)

\* calls is what becomes of the others
BeginCall(c, calls, kind, isbns) ==
    /\ scannerCalls[c] = None
    /\ Room(scannerOps, MaxScannerOps)
    /\ scannerOps' = scannerOps + 1
    /\ scannerCalls' = [calls EXCEPT ![c] =
         [kind |-> kind, todo |-> isbns, current |-> TRUE, latest |-> TRUE, listed |-> kind # "tabAdd",
          attempt |-> 0, added |-> {}, failed |-> {}, owned |-> {}]]

\* the lookups that were active before are not any more
Superseded(calls) == [d \in Call |-> IF calls[d] = None THEN None ELSE [calls[d] EXCEPT !.latest = FALSE]]
\* calls for the object that left the list
Unlisted(calls, isbns) == [d \in Call |->
    IF calls[d] # None /\ calls[d].kind = "one" /\ calls[d].todo \subseteq isbns
    THEN [calls[d] EXCEPT !.listed = FALSE] ELSE calls[d]]
OfOldSession(calls) == [d \in Call |->
    IF calls[d] = None THEN None ELSE [calls[d] EXCEPT !.current = FALSE, !.latest = FALSE, !.listed = FALSE]]

EndCall(c) == scannerCalls' = [scannerCalls EXCEPT ![c] = None]

\* isActiveRequest
isActiveRequest(call) == call.current /\ call.latest

\* the finally blocks of lookups and of adds do not look at the session
lookupIsbnFinally(c) ==
    /\ pendingLookups' = Less(pendingLookups)
    /\ miscounted' = (miscounted \/ ~scannerCalls[c].current)
    /\ UNCHANGED <<pendingAdds, overlapped>>
addFinally(c) ==
    /\ pendingAdds' = Less(pendingAdds)
    /\ miscounted' = (miscounted \/ ~scannerCalls[c].current)
    /\ UNCHANGED <<pendingLookups, pendingEnrichments, overlapped>>
bulkFinally_AnySession(c) ==
    /\ pendingLookups' = Less(pendingLookups)
    /\ bulkProgress' = [bulkProgress EXCEPT !.active = FALSE]
bulkFinally(c) ==
    IF scannerCalls[c].current
    THEN /\ pendingLookups' = Less(pendingLookups)
         /\ bulkProgress' = [bulkProgress EXCEPT !.active = FALSE]
    ELSE UNCHANGED <<pendingLookups, bulkProgress>>

-----------------------------------------------------------------------------
(* One book at a time                                                      *)

lookupScannedBook(c, i, calls) ==
    /\ scannedBooks' = [scannedBooks EXCEPT ![i] = Book("loading", TRUE)]
    /\ BeginCall(c, Superseded(calls), "one", {i})
    /\ pendingLookups' = pendingLookups + 1
    /\ UNCHANGED <<pendingAdds, pendingEnrichments, bulkProgress, pageVars, flawVars>>

addIsbn(c, i) ==
    /\ openTab = "list"
    /\ i \notin Listed
    /\ lookupScannedBook(c, i, scannerCalls)

\* the page offers it for errors
retryIsbn(c, i) ==
    /\ openTab = "list"
    /\ i \in Listed /\ scannedBooks[i].status = "error"
    /\ lookupScannedBook(c, i, scannerCalls)

\* onIsbnDetected, unless continuous: clearAll, then addIsbn
scanOnce(c, i) ==
    /\ openTab = "list"
    /\ scannedBooks' = [j \in Isbn |-> IF j = i THEN Book("loading", TRUE) ELSE None]
    /\ BeginCall(c, Superseded(OfOldSession(scannerCalls)), "one", {i})
    /\ pendingLookups' = 1 /\ pendingAdds' = 0 /\ pendingEnrichments' = 0
    /\ bulkProgress' = NoProgress
    /\ miscounted' = FALSE /\ overlapped' = FALSE
    /\ UNCHANGED pageVars

\* what a result that was found makes of the book
FoundBook(i) == IF i \in library THEN Book("already_owned", FALSE) ELSE Book("found", TRUE)
Failed == Book("error", FALSE)
Results(i) == {FoundBook(i), Book("not_found", FALSE)}

\* the details of a book that was found may still have to be fetched: enrichResult, in the
\* call's place
lookupReturns(c, active) ==
    \/ EndCall(c) /\ UNCHANGED pendingEnrichments
    \/ /\ active
       /\ scannerCalls' = [scannerCalls EXCEPT ![c].kind = "enrich"]
       /\ pendingEnrichments' = pendingEnrichments + 1

\* lookupIsbn answers lookupScannedBook: as a failure when another lookup has begun
LookupAnswers(c) ==
    /\ scannerCalls[c] # None /\ scannerCalls[c].kind = "one"
    /\ LET call == scannerCalls[c]
           i == NextOf(call)
       IN \E answer \in Results(i) \cup {Failed} :
          LET shown == IF isActiveRequest(call) THEN answer ELSE Failed IN
          /\ scannedBooks' = IF call.current /\ call.listed
               THEN [scannedBooks EXCEPT ![i] =
                       IF shown.status = "found" THEN [@ EXCEPT !.status = "found"] ELSE shown]
               ELSE scannedBooks
          /\ lookupReturns(c, isActiveRequest(call) /\ answer = FoundBook(i))
    /\ lookupIsbnFinally(c)
    /\ UNCHANGED <<bulkProgress, pageVars, scannerOps>>

enrichResult(c) ==
    /\ scannerCalls[c] # None /\ scannerCalls[c].kind = "enrich"
    /\ pendingEnrichments' = IF scannerCalls[c].current THEN Less(pendingEnrichments) ELSE pendingEnrichments
    /\ \/ EndCall(c)
       \/ /\ isActiveRequest(scannerCalls[c]) /\ scannerCalls[c].attempt < MaxAttempts
          /\ scannerCalls' = [scannerCalls EXCEPT ![c].kind = "timer", ![c].attempt = @ + 1]
    /\ UNCHANGED <<scannedBooks, pendingLookups, pendingAdds, bulkProgress, pageVars, flawVars, scannerOps>>

\* setTimeout: another attempt, if the lookup is still the active one
enrichAgain(c) ==
    /\ scannerCalls[c] # None /\ scannerCalls[c].kind = "timer"
    /\ IF isActiveRequest(scannerCalls[c])
       THEN /\ scannerCalls' = [scannerCalls EXCEPT ![c].kind = "enrich"]
            /\ pendingEnrichments' = pendingEnrichments + 1
       ELSE EndCall(c) /\ UNCHANGED pendingEnrichments
    /\ UNCHANGED <<scannedBooks, pendingLookups, pendingAdds, bulkProgress, pageVars, flawVars, scannerOps>>

-----------------------------------------------------------------------------
(* Pasted lists: one batch after the other                                 *)

\* the form is there while nothing is listed
addMultipleIsbns(c) == \E isbns \in (SUBSET Isbn) \ {{}} :
    /\ openTab = "list" /\ Listed = {}
    /\ scannedBooks' = [i \in Isbn |-> IF i \in isbns THEN Book("loading", TRUE) ELSE None]
    /\ BeginCall(c, scannerCalls, "bulk", isbns)
    /\ pendingLookups' = pendingLookups + 1
    /\ bulkProgress' = [active |-> TRUE, total |-> Cardinality(isbns), started |-> 1, completed |-> 0]
    /\ overlapped' = (overlapped \/ CallsOf({"bulk"}) # {})
    /\ UNCHANGED <<pendingAdds, pendingEnrichments, pageVars, miscounted>>

\* an answer, or a failure, settles whatever is listed of the batch's ISBNs
bulkLookupIsbns(c) ==
    /\ scannerCalls[c] # None /\ scannerCalls[c].kind = "bulk" /\ scannerCalls[c].current
    /\ LET i == NextOf(scannerCalls[c]) IN \E answer \in Results(i) \cup {Failed} :
         /\ scannedBooks' = IF i \in Listed THEN [scannedBooks EXCEPT ![i] = answer] ELSE scannedBooks
         /\ IF scannerCalls[c].todo = {i}
            THEN /\ EndCall(c)
                 /\ pendingLookups' = Less(pendingLookups)
                 /\ bulkProgress' = [bulkProgress EXCEPT !.completed = @ + 1, !.active = FALSE]
            ELSE /\ scannerCalls' = [scannerCalls EXCEPT ![c].todo = @ \ {i}]
                 /\ bulkProgress' = [bulkProgress EXCEPT !.completed = @ + 1, !.started = @ + 1]
                 /\ UNCHANGED pendingLookups
    /\ UNCHANGED <<pendingAdds, pendingEnrichments, pageVars, flawVars, scannerOps>>

\* the request that reset aborted
bulkAborted(c) ==
    /\ scannerCalls[c] # None /\ scannerCalls[c].kind = "bulk" /\ ~scannerCalls[c].current
    /\ EndCall(c)
    /\ bulkFinally(c)
    /\ UNCHANGED <<scannedBooks, pendingAdds, pendingEnrichments, pageVars, flawVars, scannerOps>>

-----------------------------------------------------------------------------
(* The list, and adding what is selected                                   *)

\* getBulkScanReviewAction: not while a lookup or an add is pending
CanAdd == pendingAdds = 0 /\ \A i \in Listed : scannedBooks[i].status # "loading"

addSelectedToLibrary(c) ==
    LET selected == {i \in Listed : scannedBooks[i] = Book("found", TRUE)} IN
    /\ CanAdd /\ selected # {}
    /\ BeginCall(c, scannerCalls, "add", selected)
    /\ pendingAdds' = pendingAdds + 1
    /\ UNCHANGED <<scannedBooks, pendingLookups, pendingEnrichments, bulkProgress, pageVars, flawVars>>

\* the server adds a batch; what it answered, or that nothing was heard, is kept for the end
addIsbnsToLibrary(c) ==
    /\ scannerCalls[c] # None /\ scannerCalls[c].kind \in {"add", "tabAdd"} /\ scannerCalls[c].todo # {}
    /\ LET call == scannerCalls[c]
           i == NextOf(call)
           rest == IF call.current THEN call.todo \ {i} ELSE {}
       IN \/ /\ i \notin library
             /\ library' = library \cup {i}
             /\ \/ scannerCalls' = [scannerCalls EXCEPT ![c].todo = rest, ![c].added = @ \cup {i}]
                \/ scannerCalls' = [scannerCalls EXCEPT ![c].todo = rest, ![c].failed = @ \cup {i}]
          \/ /\ i \in library
             /\ scannerCalls' = [scannerCalls EXCEPT ![c].todo = rest, ![c].owned = @ \cup {i}]
             /\ UNCHANGED library
          \/ /\ scannerCalls' = [scannerCalls EXCEPT ![c].todo = rest, ![c].failed = @ \cup {i}]
             /\ UNCHANGED library
    /\ UNCHANGED <<scannedBooks, pendingVars, bulkProgress, openTab, lookupResult, formIsbn, flawVars, scannerOps>>

\* the rest of addSelectedToLibrary, or of the tab's addLookedUpBook
AddReturns(c) ==
    /\ scannerCalls[c] # None /\ scannerCalls[c].kind \in {"add", "tabAdd"} /\ scannerCalls[c].todo = {}
    /\ LET call == scannerCalls[c] IN
       /\ scannedBooks' = [i \in Isbn |->
            IF ~call.current \/ ~call.listed \/ scannedBooks[i] = None THEN scannedBooks[i]
            ELSE IF i \in call.added THEN None
            ELSE IF i \in call.owned THEN Book("already_owned", FALSE)
            ELSE IF i \in call.failed THEN Book("found", TRUE)
            ELSE scannedBooks[i]]
       /\ scannerCalls' = [Unlisted(scannerCalls, IF call.current /\ call.listed THEN call.added ELSE {}) EXCEPT ![c] = None]
    /\ addFinally(c)
    /\ UNCHANGED <<bulkProgress, pageVars, scannerOps>>

removeIsbn(i) ==
    /\ i \in Listed
    /\ scannedBooks' = [scannedBooks EXCEPT ![i] = None]
    /\ scannerCalls' = Unlisted(scannerCalls, {i})
    /\ UNCHANGED <<pendingVars, bulkProgress, pageVars, flawVars, scannerOps>>

\* toggleSelection, selectAll and deselectAll
Select(isbns, selected) ==
    /\ scannedBooks' = [i \in Isbn |->
         IF i \in isbns /\ scannedBooks[i] # None /\ (scannedBooks[i].status = "found" \/ ~selected)
         THEN [scannedBooks[i] EXCEPT !.selected = selected] ELSE scannedBooks[i]]
    /\ scannedBooks' # scannedBooks
    /\ UNCHANGED <<scannerCalls, pendingVars, bulkProgress, pageVars, flawVars, scannerOps>>
toggleSelection(i) == i \in Listed /\ scannedBooks[i].status = "found" /\ Select({i}, ~scannedBooks[i].selected)

\* clearAll and the lookup store's reset, also when the list's tab is left
clearAll(tab) ==
    /\ openTab = "list"
    /\ openTab' = tab
    /\ scannedBooks' = [i \in Isbn |-> None]
    /\ scannerCalls' = OfOldSession(scannerCalls)
    /\ pendingLookups' = 0 /\ pendingAdds' = 0 /\ pendingEnrichments' = 0
    /\ bulkProgress' = NoProgress
    /\ miscounted' = FALSE /\ overlapped' = FALSE
    /\ UNCHANGED <<lookupResult, formIsbn, library, scannerOps>>

-----------------------------------------------------------------------------
(* The tab for one ISBN; leaving it does not reset the lookup store        *)

lookupISBN(c, i) ==
    /\ openTab = "isbn" /\ lookupResult = None
    /\ BeginCall(c, Superseded(scannerCalls), "tab", {i})
    /\ formIsbn' = i
    /\ pendingLookups' = pendingLookups + 1
    /\ UNCHANGED <<scannedBooks, pendingAdds, pendingEnrichments, bulkProgress, openTab, lookupResult, library, flawVars>>

TabAnswers(c) ==
    /\ scannerCalls[c] # None /\ scannerCalls[c].kind = "tab"
    /\ \E found \in BOOLEAN :
         LET active == isActiveRequest(scannerCalls[c])
             i == NextOf(scannerCalls[c])
         IN /\ lookupResult' = IF active /\ found /\ scannerCalls[c].listed THEN i ELSE lookupResult
            /\ lookupReturns(c, active /\ found)
    /\ lookupIsbnFinally(c)
    /\ UNCHANGED <<scannedBooks, bulkProgress, openTab, formIsbn, library, scannerOps>>

addLookedUpBook(c) ==
    /\ lookupResult # None /\ lookupResult \notin library
    /\ pendingAdds = 0
    /\ BeginCall(c, scannerCalls, "tabAdd", {lookupResult})
    /\ pendingAdds' = pendingAdds + 1
    /\ UNCHANGED <<scannedBooks, pendingLookups, pendingEnrichments, bulkProgress, pageVars, flawVars>>

\* reset, by "Search Again" or when the tab is left
resetTab(tab) ==
    /\ openTab = "isbn"
    /\ lookupResult # None \/ tab = "list"
    /\ lookupResult' = None /\ formIsbn' = None
    /\ openTab' = tab
    /\ scannerCalls' = [d \in Call |->
         IF tab = "list" /\ scannerCalls[d] # None /\ scannerCalls[d].kind = "tab"
         THEN [scannerCalls[d] EXCEPT !.listed = FALSE] ELSE scannerCalls[d]]
    /\ UNCHANGED <<scannedBooks, pendingVars, bulkProgress, library, flawVars, scannerOps>>

-----------------------------------------------------------------------------

ScannerInit ==
    /\ scannedBooks = [i \in Isbn |-> None]
    /\ scannerCalls = [c \in Call |-> None]
    /\ pendingLookups = 0 /\ pendingAdds = 0 /\ pendingEnrichments = 0
    /\ bulkProgress = NoProgress
    /\ openTab = "isbn" /\ lookupResult = None /\ formIsbn = None
    /\ library = {}
    /\ miscounted = FALSE /\ overlapped = FALSE
    /\ scannerOps = 0

ScannerNext ==
    \/ \E c \in Call :
         \/ \E i \in Isbn : addIsbn(c, i) \/ retryIsbn(c, i) \/ scanOnce(c, i) \/ lookupISBN(c, i)
         \/ addMultipleIsbns(c) \/ bulkLookupIsbns(c) \/ bulkAborted(c)
         \/ LookupAnswers(c) \/ TabAnswers(c) \/ enrichResult(c) \/ enrichAgain(c)
         \/ addSelectedToLibrary(c) \/ addLookedUpBook(c) \/ addIsbnsToLibrary(c) \/ AddReturns(c)
    \/ \E i \in Isbn : removeIsbn(i) \/ toggleSelection(i)
    \/ \E selected \in BOOLEAN : Select(Isbn, selected)
    \/ \E tab \in {"isbn", "list"} : clearAll(tab) \/ resetTab(tab)

ScannerSpec == ScannerInit /\ [][ScannerNext]_scannerVars

-----------------------------------------------------------------------------

ScannerTypeOK ==
    /\ scannedBooks \in [Isbn -> ScannedRow \cup {None}]
    /\ scannerCalls \in [Call -> ScannerCall \cup {None}]
    /\ pendingLookups \in Nat /\ pendingAdds \in Nat /\ pendingEnrichments \in Nat
    /\ bulkProgress \in [active : BOOLEAN, total : Nat, started : Nat, completed : Nat]
    /\ openTab \in {"isbn", "list"}
    /\ lookupResult \in Isbn \cup {None} /\ formIsbn \in Isbn \cup {None}
    /\ library \subseteq Isbn
    /\ miscounted \in BOOLEAN /\ overlapped \in BOOLEAN

(* The page knows what it waits for. Every book shown as being looked up   *)
(* has a lookup of this session under way that will settle it. The         *)
(* counters behind the spinners and the disabled buttons are those of the  *)
(* calls under way, and the progress bar is that of its bulk lookup: unless*)
(* a lookup or an add of an earlier session was counted, or the user       *)
(* removed every book of a bulk lookup and began another.                  *)
PendingIsPending ==
    /\ \A i \in Listed : scannedBooks[i].status = "loading" =>
         \E c \in CallsOf({"one", "bulk"}) :
            i \in scannerCalls[c].todo /\ (scannerCalls[c].kind = "one" => scannerCalls[c].listed)
    /\ miscounted
       \/ /\ pendingLookups = Cardinality(CallsOf({"one", "bulk", "tab"}))
          /\ pendingAdds = Cardinality(CallsOf({"add", "tabAdd"}))
    /\ pendingEnrichments = Cardinality(CallsOf({"enrich"}))
    /\ \/ overlapped
       \/ /\ bulkProgress.active <=> CallsOf({"bulk"}) # {}
          /\ bulkProgress.completed <= bulkProgress.started
          /\ bulkProgress.started <= bulkProgress.total
    /\ lookupResult \in {None, formIsbn}
=============================================================================
