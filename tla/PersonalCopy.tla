---------------------------- MODULE PersonalCopy ----------------------------
(***************************************************************************)
(* One copy of a book in its owner's library: what updateRating,           *)
(* updateReadingProgress, updateLocation and updateLibraryState of         *)
(* book.repository.ts write while they interleave, and the detail page     *)
(* that shows the copy, rates it before the server answers and refetches   *)
(* it ([id].vue, useBookDetailActions.ts).                                 *)
(***************************************************************************)
EXTENDS Actors

CONSTANTS
    PageCount,      \* the number of pages, once the book's metadata has it
    PageNumber,     \* pages a reader may enter
    ReadPercent,    \* percentages a reader may enter
    MaxCopyOps

VARIABLES
    copy,       \* the row of user_books
    bookPages,  \* books.number_of_pages: None or PageCount
    saves,      \* the page's requests by kind, or None: at most one of a kind
    shownCopy,  \* the row as the page shows it
    refetch,    \* the refetch under way: None, or the answer it will bring
    unsure,     \* an answer was lost, or a refetch crossed a rating
    copyOps     \* requests begun, at most MaxCopyOps

copyVars == <<copy, bookPages, saves, shownCopy, refetch, unsure, copyOps>>

SaveKind == {"rating", "reading", "state", "location"}
Stars == {1, 2}

\* the row of user_books, and the requests that write it
Library == {"owned", "wishlisted", "previously_owned"}
Place == {None, "shelf"}
ReadingRow ==
    [status : {"unread", "reading", "read"}, page : PageNumber \cup {PageCount, None},
     percent : (0..100) \cup {None}, started : BOOLEAN, finished : BOOLEAN]
CopyRow ==
    [state : Library, location : Place, lastKnown : Place, rating : Stars \cup {None},
     reading : ReadingRow, entered : BOOLEAN]
SaveRequest(kind) ==
    [at : {"check", "current", "write"},
     value : CASE kind = "rating" -> Stars \cup {None}
               [] kind = "reading" -> ReadingRow
               [] kind = "location" -> Place
               [] kind = "state" -> Library,
     previous : IF kind = "rating" THEN Stars \cup {None} ELSE Place]
Refetch == [seen : CopyRow \cup {None}]

ASSUME CopyAssumption ==
    /\ \A kind \in SaveKind : None \notin SaveRequest(kind)
    /\ None \notin CopyRow \cup Refetch
    /\ PageCount \in Nat \ {0} /\ PageNumber \subseteq Nat /\ ReadPercent \subseteq 0..100
    /\ MaxCopyOps \in Nat

NotRead == [status |-> "unread", page |-> None, percent |-> None, started |-> FALSE, finished |-> FALSE]

-----------------------------------------------------------------------------
(* reading-progress.ts: page and percent are both numbers or None, a date  *)
(* is there or not                                                         *)

percentOf(page, total) == Min({100, (200 * page + total) \div (2 * total)})

\* what the reader entered settles the percentage, else the page does
settledPercent(total, input) ==
    IF input.percent # None \/ input.page = None \/ total = None THEN input.percent
    ELSE percentOf(input.page, total)

ReadsToEnd(total, input, percent) ==
    \/ percent = 100
    \/ input.page # None /\ total # None /\ input.page >= total
    \/ /\ input.status = "read"
       /\ input.percent = None \/ input.percent >= 100
       /\ input.page = None \/ total = None

normalizeReadingProgress_KeepsFinished(total, input) ==
    LET percent == settledPercent(total, input)
        moving == (input.page # None /\ input.page > 0) \/ (percent # None /\ percent > 0)
    IN IF ReadsToEnd(total, input, percent)
       THEN [status |-> "read", page |-> IF total = None THEN input.page ELSE total, percent |-> 100,
             started |-> TRUE, finished |-> TRUE]
       ELSE IF input.status # "unread" \/ moving
       THEN [status |-> "reading", page |-> input.page, percent |-> percent,
             started |-> TRUE, finished |-> input.finished]
       ELSE NotRead
normalizeReadingProgress(total, input) ==
    LET percent == settledPercent(total, input)
        moving == (input.page # None /\ input.page > 0) \/ (percent # None /\ percent > 0)
    IN IF ReadsToEnd(total, input, percent)
       THEN [status |-> "read", page |-> IF total = None THEN input.page ELSE total, percent |-> 100,
             started |-> TRUE, finished |-> TRUE]
       ELSE IF input.status # "unread" \/ moving
       THEN [status |-> "reading", page |-> input.page, percent |-> percent,
             started |-> TRUE, finished |-> FALSE]
       ELSE NotRead

\* the dialog sends a page or a percentage
ProgressInput ==
    [status : {"unread", "reading", "read"}, page : PageNumber, percent : {None},
     started : BOOLEAN, finished : BOOLEAN]
    \cup
    [status : {"unread", "reading", "read"}, page : {None}, percent : ReadPercent \cup {None},
     started : BOOLEAN, finished : BOOLEAN]

-----------------------------------------------------------------------------
(* The page                                                                *)

SendSave(kind, request) ==
    /\ saves[kind] = None
    /\ Room(copyOps, MaxCopyOps)
    /\ copyOps' = copyOps + 1
    /\ saves' = [saves EXCEPT ![kind] = request]
    /\ UNCHANGED <<copy, bookPages, refetch, unsure>>

StepSave(kind, request) ==
    /\ saves' = [saves EXCEPT ![kind] = request]
    /\ UNCHANGED <<copy, bookPages, shownCopy, refetch, unsure, copyOps>>

\* a new refetch cancels the one before it
refetchCopy == refetch' = [seen |-> None]

RefetchRead ==
    /\ refetch # None
    /\ refetch.seen = None
    /\ refetch' = [seen |-> copy]
    /\ UNCHANGED <<copy, bookPages, saves, shownCopy, unsure, copyOps>>

RefetchShow ==
    /\ refetch # None
    /\ refetch.seen # None
    /\ shownCopy' = refetch.seen
    /\ unsure' = (saves["rating"] # None \/ refetch.seen.rating # copy.rating)
    /\ refetch' = None
    /\ UNCHANGED <<copy, bookPages, saves, copyOps>>

\* while the book is being enriched the page refetches by a timer
scheduleEnrichmentPoll ==
    /\ bookPages = None
    /\ refetch = None
    /\ Room(copyOps, MaxCopyOps)
    /\ copyOps' = copyOps + 1
    /\ refetchCopy
    /\ UNCHANGED <<copy, bookPages, saves, shownCopy, unsure>>

\* applyOpenLibraryEnrichment fills in the number of pages
FillPages ==
    /\ bookPages = None
    /\ bookPages' = PageCount
    /\ UNCHANGED <<copy, saves, shownCopy, refetch, unsure, copyOps>>

saveRating == \E r \in Stars \cup {None} :
    /\ shownCopy.state = "owned"
    /\ SendSave("rating", [at |-> "check", value |-> r, previous |-> shownCopy.rating])
    /\ shownCopy' = [shownCopy EXCEPT !.rating = r]

saveReadingProgress == \E input \in ProgressInput :
    /\ shownCopy.state = "owned"
    /\ input.page # None => bookPages # None     \* the dialog asks for a page when it knows their number
    /\ SendSave("reading", [at |-> "check", value |-> normalizeReadingProgress(bookPages, input), previous |-> None])
    /\ UNCHANGED shownCopy

saveLocation == \E l \in {None, "shelf"} :
    /\ shownCopy.state = "owned"
    /\ SendSave("location", [at |-> "check", value |-> l, previous |-> None])
    /\ UNCHANGED shownCopy

updateBookLibraryState == \E s \in {"owned", "wishlisted", "previously_owned"} \ {shownCopy.state} :
    /\ SendSave("state", [at |-> "current", value |-> s, previous |-> None])
    /\ UNCHANGED shownCopy

\* the answer arrives; an error puts back the rating the page remembered
SaveDone(kind) ==
    /\ saves' = [saves EXCEPT ![kind] = None]
    /\ IF kind = "rating" THEN UNCHANGED refetch ELSE refetchCopy

SaveRefused_NewKept(kind) == UNCHANGED shownCopy
SaveRefused(kind) ==
    shownCopy' = IF kind = "rating" THEN [shownCopy EXCEPT !.rating = saves["rating"].previous] ELSE shownCopy

-----------------------------------------------------------------------------
(* The server                                                              *)

CopyWritable_AnyState == TRUE
CopyWritable == copy.state = "owned"

\* rating, reading and location: the copy must be owned when it is looked at ...
getOwnedPhysicalUserBookRef(kind) ==
    /\ saves[kind] # None
    /\ saves[kind].at = "check"
    /\ IF copy.state = "owned"
       THEN StepSave(kind, [saves[kind] EXCEPT !.at = "write"])
       ELSE /\ SaveRefused(kind)
            /\ saves' = [saves EXCEPT ![kind] = None]
            /\ UNCHANGED <<copy, bookPages, refetch, unsure, copyOps>>

\* ... and when it is written
WriteCopy(kind, row) ==
    /\ saves[kind] # None
    /\ saves[kind].at = "write"
    /\ IF CopyWritable
       THEN /\ copy' = row
            /\ \/ /\ SaveDone(kind)
                  /\ shownCopy' = IF kind = "location" THEN [shownCopy EXCEPT !.location = saves[kind].value] ELSE shownCopy
                  /\ UNCHANGED unsure
               \/ /\ SaveRefused(kind)          \* the answer is lost
                  /\ saves' = [saves EXCEPT ![kind] = None]
                  /\ unsure' = TRUE
                  /\ UNCHANGED refetch
       ELSE /\ SaveRefused(kind)
            /\ saves' = [saves EXCEPT ![kind] = None]
            /\ UNCHANGED <<copy, refetch, unsure>>
    /\ UNCHANGED <<bookPages, copyOps>>

updateRating == WriteCopy("rating", [copy EXCEPT !.rating = saves["rating"].value])
updateReadingProgress ==
    WriteCopy("reading", [copy EXCEPT !.reading = saves["reading"].value, !.entered = FALSE])
updateCopyLocation == WriteCopy("location", [copy EXCEPT !.location = saves["location"].value])

\* updateLibraryState reads where the copy is ...
LoadLibraryState ==
    /\ saves["state"] # None
    /\ saves["state"].at = "current"
    /\ StepSave("state", [saves["state"] EXCEPT !.at = "write", !.previous = copy.location])

\* ... and writes the state, whatever it is by then
updateLibraryState ==
    /\ saves["state"] # None
    /\ saves["state"].at = "write"
    /\ LET s == saves["state"].value IN
       copy' = CASE s = "wishlisted" ->
                      [copy EXCEPT !.state = s, !.location = None, !.lastKnown = None, !.rating = None,
                                   !.reading = NotRead, !.entered = FALSE]
                 [] s = "previously_owned" ->
                      [copy EXCEPT !.state = s, !.location = None, !.lastKnown = saves["state"].previous]
                 [] s = "owned" -> [copy EXCEPT !.state = s, !.lastKnown = None]
    /\ \/ SaveDone("state") /\ UNCHANGED unsure
       \/ /\ saves' = [saves EXCEPT !["state"] = None]     \* the answer is lost
          /\ unsure' = TRUE
          /\ UNCHANGED refetch
    /\ UNCHANGED <<bookPages, shownCopy, copyOps>>

-----------------------------------------------------------------------------

\* a copy added by ISBN, or with the reading progress of a form that no one normalizes
AddedCopy == [state |-> "owned", location |-> None, lastKnown |-> None, rating |-> None,
              reading |-> NotRead, entered |-> FALSE]
ManualCopies ==
    {[AddedCopy EXCEPT !.reading = [NotRead EXCEPT !.status = "read"], !.entered = TRUE],
     [AddedCopy EXCEPT !.state = "wishlisted"]}

CopyInit ==
    /\ copy \in {AddedCopy} \cup ManualCopies
    /\ bookPages \in {None, PageCount}
    /\ saves = [k \in SaveKind |-> None]
    /\ shownCopy = copy
    /\ refetch = None
    /\ unsure = FALSE
    /\ copyOps = 0

CopyNext ==
    \/ RefetchRead \/ RefetchShow \/ scheduleEnrichmentPoll \/ FillPages
    \/ saveRating \/ saveReadingProgress \/ saveLocation \/ updateBookLibraryState
    \/ \E kind \in SaveKind \ {"state"} : getOwnedPhysicalUserBookRef(kind)
    \/ updateRating \/ updateReadingProgress \/ updateCopyLocation
    \/ LoadLibraryState \/ updateLibraryState

CopySpec == CopyInit /\ [][CopyNext]_copyVars

-----------------------------------------------------------------------------

CopyTypeOK ==
    /\ copy \in CopyRow /\ shownCopy \in CopyRow
    /\ \A kind \in SaveKind : saves[kind] \in SaveRequest(kind) \cup {None}
    /\ refetch \in Refetch \cup {None}

(* A wishlisted copy has no location, rating or progress and a copy that   *)
(* is no longer owned has no location, although ratings, progress and      *)
(* locations that saw it owned are still being written.                    *)
OnlyOwnedCopiesAreUsed ==
    /\ copy.state = "wishlisted" =>
         copy.location = None /\ copy.rating = None /\ copy.reading = NotRead
    /\ copy.state = "previously_owned" => copy.location = None

(* Once saved, status, page, percentage and dates agree: a book is read    *)
(* with 100 per cent and an end, being read with a start and no end,       *)
(* unread with nothing, whichever field the reader changed.                *)
ReadingHangsTogether == ~copy.entered =>
    LET r == copy.reading IN
    CASE r.status = "read" -> r.percent = 100 /\ r.started /\ r.finished
      [] r.status = "reading" -> r.percent # 100 /\ r.started /\ ~r.finished
      [] r.status = "unread" -> r = NotRead

(* What a copy records fits its state and hangs together.                  *)
CopyHangsTogether == OnlyOwnedCopiesAreUsed /\ ReadingHangsTogether

(* At rest the page shows the rating that is stored, unless an answer was  *)
(* lost or a refetch crossed a rating on its way: the page does not        *)
(* refetch after a rating, and rolls an error back by itself.              *)
PageShowsTheRating ==
    (\A k \in SaveKind : saves[k] = None) /\ refetch = None /\ ~unsure /\ shownCopy.state = "owned" =>
        shownCopy.rating = copy.rating
=============================================================================
