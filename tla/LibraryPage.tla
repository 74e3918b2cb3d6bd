----------------------------- MODULE LibraryPage -----------------------------
(***************************************************************************)
(* The library page and its store: which pages of which filter are shown,  *)
(* what is kept of other filters, and the requests that refresh it. The    *)
(* page has one request at a time: a newer one replaces it, and whoever    *)
(* waited for the old one goes on when the newer one is answered. A        *)
(* request that fails is not an error for its caller. The page is left     *)
(* only while it waits for nothing but its timers.                         *)
(***************************************************************************)
EXTENDS Actors

CONSTANTS
    Listing,         \* ids of user_books rows
    Wishlist,       \* those on the wishlist; the others are owned
    Found,          \* those the search, tag, loan, reading and location filters keep
    PageSize,
    MaxResults,     \* MAX_DASHBOARD_RESULT_CACHE_ENTRIES
    MaxPageOps

VARIABLES
    myBooks,          \* the user's active copies on the server, latest first
    preference,     \* defaultLibraryStateFilter, on the server
    routeFilter,    \* the filter in the browser's address: None when it has none
    mounted,
    filter,
    page, allBooks, pagination,
    activeKey,      \* activeResultCacheKey
    resultCache, resultOrder,
    syncTarget,     \* 0, or the pages to load again when the page is mounted
    adding,         \* 0, or the pages loaded when books were sent to be added
    filterTimer, preferenceTimer,
    tasks,          \* loadMore and syncLoadedPages under way
    request,        \* what useFetch waits for
    unsettled,      \* the last load failed, was crossed by another or by a removal, or a filter was not applied
    pageOps         \* at most MaxPageOps

storeVars == <<filter, page, allBooks, pagination, activeKey, resultCache, resultOrder, syncTarget, adding>>
serverVars == <<myBooks, preference>>
timerVars == <<filterTimer, preferenceTimer>>
libraryPageVars == <<serverVars, routeFilter, mounted, storeVars, timerVars, tasks, request, unsettled, pageOps>>

\* all: books of every state, else owned ones; narrow: any other filter is set
Filter == [all : BOOLEAN, narrow : BOOLEAN]
Default == [all |-> FALSE, narrow |-> FALSE]

Pagination == [total : Nat, hasMore : BOOLEAN]
LibraryRequest == [page : Nat, filter : Filter, step : {"count", "items", "back"}, total : Nat, books : Seq(Listing)]
PageTask ==
    [op : {"sync"}, next : Nat, target : Nat, mounting : BOOLEAN, waits : BOOLEAN]
    \cup [op : {"more"}, mounting : {FALSE}, waits : BOOLEAN] \cup [op : {"load"}, waits : BOOLEAN]
KeptResults == [books : Seq(Listing), pagination : Pagination, loadedPage : Nat]

ASSUME PageAssumption ==
    /\ None \notin Filter \cup Pagination \cup LibraryRequest \cup PageTask \cup KeptResults
    /\ IsFiniteSet(Listing)
    /\ PageSize \in Nat \ {0} /\ MaxResults \in Nat \ {0} /\ MaxPageOps \in Nat

Keeps(f, b) == (f.all \/ b \notin Wishlist) /\ (f.narrow => b \in Found)
matches(f) == InOrder(myBooks, {i \in DOMAIN myBooks : Keeps(f, myBooks[i])})
PagesOf(n) == (n + PageSize - 1) \div PageSize
InfoOf(total, n) == [total |-> total, hasMore |-> n < PagesOf(total)]
pageOf(seq, n) == SubSeq(seq, (n - 1) * PageSize + 1, IF n * PageSize < Len(seq) THEN n * PageSize ELSE Len(seq))

Syncs == {t \in Call : tasks[t] # None /\ tasks[t].op = "sync"}
Mores == {t \in Call : tasks[t] # None /\ tasks[t].op = "more"}

getLoadedPages == IF allBooks = <<>> THEN 1 ELSE PagesOf(Len(allBooks))

-----------------------------------------------------------------------------
(* The store                                                               *)

Without(seq, unwanted) == InOrder(seq, {i \in DOMAIN seq : seq[i] \notin unwanted})
Moved(order, key) == Append(Without(order, {key}), key)

\* the cache and its order, the oldest entry dropped when there are too many
Cached(key, books, info, loadedPage) ==
    IF info = None THEN [of |-> resultCache, order |-> resultOrder]
    ELSE LET order == Moved(resultOrder, key)
             kept == IF Len(order) > MaxResults THEN Tail(order) ELSE order
         IN  [order |-> kept,
              of |-> [k \in Filter |->
                        IF k \notin ToSet(kept) THEN None
                        ELSE IF k = key THEN [books |-> books, pagination |-> info, loadedPage |-> loadedPage]
                        ELSE resultCache[k]]]

cacheResults(key, books, info, loadedPage) ==
    LET cached == Cached(key, books, info, loadedPage) IN resultCache' = cached.of /\ resultOrder' = cached.order

\* what is shown is cached under the active key, then the results of key are restored, if there are any
SwitchResults(key) ==
    LET cached == Cached(activeKey, allBooks, pagination, page)
        entry == cached.of[key]
    IN  /\ resultCache' = cached.of
        /\ IF entry = None THEN resultOrder' = cached.order /\ UNCHANGED <<allBooks, pagination>>
           ELSE /\ resultOrder' = Moved(cached.order, key)
                /\ allBooks' = entry.books /\ pagination' = entry.pagination

\* with its total, one more than before
showAddedBook(b) ==
    IF ~filter.all /\ b \in Wishlist THEN UNCHANGED <<allBooks, pagination>>
    ELSE /\ allBooks' = <<b>> \o allBooks
         /\ pagination' = IF pagination = None THEN None
                          ELSE InfoOf(pagination.total + 1, page)

-----------------------------------------------------------------------------
(* Requests                                                                *)

Request(n, f) == [page |-> n, filter |-> f, step |-> "count", total |-> 0, books |-> <<>>]

getLibraryCount ==
    /\ request # None /\ request.step = "count"
    /\ request' = [request EXCEPT !.step = "items", !.total = Len(matches(request.filter))]
    /\ UNCHANGED <<serverVars, routeFilter, mounted, storeVars, timerVars, tasks, unsettled, pageOps>>

getLibraryItems ==
    /\ request # None /\ request.step = "items"
    /\ request' = [request EXCEPT !.step = "back", !.books = pageOf(matches(request.filter), request.page)]
    /\ UNCHANGED <<serverVars, routeFilter, mounted, storeVars, timerVars, tasks, unsettled, pageOps>>

\* a bug: every answer is added to what is shown
BooksWith_Added(n, items) == allBooks \o Without(items, ToSet(allBooks))

\* watch(data): the first page replaces what is shown, a later one is added to it
BooksWith(n, items) ==
    IF n = 1 THEN items ELSE allBooks \o Without(items, ToSet(allBooks))

\* whoever waits goes on afterwards, in any order
Answered == [t \in Call |-> IF tasks[t] = None THEN None ELSE [tasks[t] EXCEPT !.waits = FALSE]]

refreshReturns ==
    /\ request # None /\ request.step = "back"
    /\ request' = None
    /\ LET info == InfoOf(request.total, request.page)
           books == BooksWith(page, request.books)
       IN  /\ pagination' = info
           /\ allBooks' = books
           /\ cacheResults(activeKey, books, info, page)
    /\ tasks' = Answered
    /\ UNCHANGED <<serverVars, routeFilter, mounted, filter, page, activeKey, syncTarget, adding, timerVars, unsettled, pageOps>>

refreshFails ==
    /\ request # None
    /\ request' = None
    /\ tasks' = Answered
    /\ unsettled' = TRUE
    /\ UNCHANGED <<serverVars, routeFilter, mounted, storeVars, timerVars, pageOps>>

-----------------------------------------------------------------------------
(* Tasks                                                                   *)

Sync(next, target, mounting) == [op |-> "sync", next |-> next, target |-> target, mounting |-> mounting, waits |-> TRUE]

\* syncLoadedPages up to its first request
StartSync(t, f, target, mounting) ==
    /\ tasks' = [tasks EXCEPT ![t] = Sync(2, target, mounting)]
    /\ request' = Request(1, f)
    /\ unsettled' = \E u \in Syncs : tasks[u].target > 1 \/ target > 1
    /\ page' = 1

HasMore == IF pagination = None THEN FALSE ELSE pagination.hasMore
HasNext(t) == tasks[t].next <= tasks[t].target /\ HasMore

syncLoadedPages(t) ==
    /\ t \in Syncs /\ ~tasks[t].waits
    /\ HasNext(t)
    /\ page' = tasks[t].next
    /\ request' = Request(page', filter)
    /\ tasks' = [tasks EXCEPT ![t] = Sync(@.next + 1, @.target, @.mounting)]
    /\ UNCHANGED <<serverVars, routeFilter, mounted, filter, allBooks, pagination, activeKey, resultCache, resultOrder,
                   syncTarget, adding, timerVars, unsettled, pageOps>>

\* loadMore or syncLoadedPages returns; a sync made on mounting is no longer needed
TaskEnds(t) ==
    /\ t \in Syncs \cup Mores /\ ~tasks[t].waits
    /\ t \in Syncs => ~HasNext(t)
    /\ tasks' = [tasks EXCEPT ![t] = None]
    /\ syncTarget' = IF tasks[t].mounting THEN 0 ELSE syncTarget
    /\ UNCHANGED <<serverVars, routeFilter, mounted, filter, page, allBooks, pagination, activeKey, resultCache, resultOrder,
                   adding, timerVars, request, unsettled, pageOps>>

PageUserDoes == Room(pageOps, MaxPageOps) /\ pageOps' = pageOps + 1

\* one that crosses a sync may put a page behind what is not before it
loadMore(t) ==
    /\ mounted /\ tasks[t] = None
    /\ HasMore /\ Mores = {}
    /\ PageUserDoes
    /\ page' = page + 1
    /\ request' = Request(page', filter)
    /\ tasks' = [tasks EXCEPT ![t] = [op |-> "more", mounting |-> FALSE, waits |-> TRUE]]
    /\ unsettled' = (unsettled \/ Syncs # {})
    /\ UNCHANGED <<serverVars, routeFilter, mounted, filter, allBooks, pagination, activeKey, resultCache, resultOrder,
                   syncTarget, adding, timerVars>>

-----------------------------------------------------------------------------
(* Filters                                                                 *)

\* a filter control is used: known results are shown at once, all are loaded after 250 ms;
\* a choice of library states is saved after 500 ms
setFilter ==
    /\ mounted
    /\ PageUserDoes
    /\ \E f \in Filter \ {filter} :
         /\ filter' = f
         /\ IF f.all # filter.all THEN f.narrow = filter.narrow /\ preferenceTimer' = f.all
            ELSE UNCHANGED preferenceTimer
         /\ IF f = activeKey THEN UNCHANGED <<page, allBooks, pagination, activeKey, resultCache, resultOrder>>
            ELSE /\ SwitchResults(f)
                 /\ LET entry == Cached(activeKey, allBooks, pagination, page).of[f] IN
                    IF entry = None THEN UNCHANGED <<page, activeKey>> ELSE page' = entry.loadedPage /\ activeKey' = f
    /\ filterTimer' = TRUE
    /\ UNCHANGED <<serverVars, routeFilter, mounted, syncTarget, adding, tasks, request, unsettled>>

\* with filter' as the filter
applyFilters(t) ==
    /\ tasks[t] = None
    /\ SwitchResults(filter')
    /\ LET entry == Cached(activeKey, allBooks, pagination, page).of[filter'] IN
       StartSync(t, filter', IF entry = None THEN 1 ELSE entry.loadedPage, FALSE)
    /\ activeKey' = filter'
    /\ routeFilter' = filter'
    /\ filterTimer' = FALSE
    /\ UNCHANGED <<serverVars, mounted, syncTarget, adding, preferenceTimer>>

FilterTimerFires(t) ==
    /\ filterTimer
    /\ UNCHANGED <<filter, pageOps>>
    /\ applyFilters(t)

\* every filter but the library states
clearFilters(t) ==
    /\ mounted
    /\ PageUserDoes
    /\ filter' = [filter EXCEPT !.narrow = FALSE]
    /\ applyFilters(t)

updatePreferences ==
    /\ preferenceTimer # None
    /\ preferenceTimer' = None
    /\ preference' \in {preferenceTimer, preference}
    /\ UNCHANGED <<myBooks, routeFilter, mounted, storeVars, filterTimer, tasks, request, unsettled, pageOps>>

\* after the enrichment state of the books shown has been updated, they are cached
EnrichmentPoll ==
    /\ mounted
    /\ cacheResults(activeKey, allBooks, pagination, page)
    /\ UNCHANGED <<serverVars, routeFilter, mounted, filter, page, allBooks, pagination, activeKey, syncTarget, adding,
                   timerVars, tasks, request, unsettled, pageOps>>

-----------------------------------------------------------------------------
(* Other pages                                                             *)

NothingAwaited == request = None /\ \A t \in Call : tasks[t] = None

\* to another page, whose address has no filter; a filter that was not applied stays in the store
leave ==
    /\ mounted /\ NothingAwaited
    /\ PageUserDoes
    /\ mounted' = FALSE
    /\ filterTimer' = FALSE /\ preferenceTimer' = None
    /\ unsettled' = (unsettled \/ filterTimer)
    /\ UNCHANGED <<serverVars, routeFilter, storeVars, tasks, request>>

\* signing out and in again
resetAll ==
    /\ ~mounted /\ NothingAwaited
    /\ PageUserDoes
    /\ page' = 1 /\ allBooks' = <<>> /\ pagination' = None
    /\ resultCache' = [k \in Filter |-> None] /\ resultOrder' = <<>>
    /\ filter' = Default
    /\ syncTarget' = 0
    /\ routeFilter' = None
    /\ UNCHANGED <<serverVars, mounted, activeKey, adding, timerVars, tasks, request, unsettled>>

\* back, to the address with the filter, or by a link, to one without: the library states not given are the preferred ones
RouteState(route) ==
    [all |-> IF route # None /\ ~route.all THEN FALSE ELSE preference, narrow |-> route # None /\ route.narrow]

\* results of this filter are shown as they are, others loaded before the page is shown
mount(t) ==
    /\ ~mounted /\ NothingAwaited
    /\ \E route \in {None, routeFilter} :
         LET f == RouteState(route)
             known == f = filter /\ allBooks # <<>> /\ pagination # None
         IN  /\ routeFilter' = route
             /\ filter' = f /\ activeKey' = f
             /\ IF f = filter THEN UNCHANGED <<allBooks, pagination>> ELSE allBooks' = <<>> /\ pagination' = None
             /\ IF ~known
                THEN /\ page' = 1
                     /\ request' = Request(1, f)
                     /\ tasks' = [tasks EXCEPT ![t] = [op |-> "load", waits |-> TRUE]]
                     /\ unsettled' = FALSE
                     /\ UNCHANGED mounted
                ELSE /\ mounted' = TRUE
                     /\ IF syncTarget = 0 THEN UNCHANGED <<page, request, tasks, unsettled>> ELSE StartSync(t, filter', syncTarget, TRUE)
    /\ UNCHANGED <<serverVars, resultCache, resultOrder, syncTarget, adding, timerVars, pageOps>>

MountEnds(t) ==
    /\ tasks[t] # None /\ tasks[t].op = "load" /\ ~tasks[t].waits
    /\ mounted' = TRUE
    /\ IF syncTarget = 0 THEN tasks' = [tasks EXCEPT ![t] = None] /\ UNCHANGED <<page, request, unsettled>>
       ELSE StartSync(t, filter, syncTarget, TRUE)
    /\ UNCHANGED <<serverVars, routeFilter, filter, allBooks, pagination, activeKey, resultCache, resultOrder, syncTarget, adding,
                   timerVars, pageOps>>

\* the user's other pages and devices
ShelfChanges(books) ==
    /\ myBooks' = books
    /\ PageUserDoes
    /\ UNCHANGED <<preference, routeFilter, mounted, filter, page, activeKey, resultCache, resultOrder, timerVars, tasks, request>>

NotListed == Listing \ ToSet(myBooks)

addManually == \E b \in NotListed :
    /\ ~mounted /\ NothingAwaited
    /\ ShelfChanges(<<b>> \o myBooks)
    /\ showAddedBook(b)
    /\ syncTarget' = getLoadedPages
    /\ UNCHANGED <<adding, unsettled>>

removeBook == \E b \in ToSet(myBooks) :
    /\ ShelfChanges(Without(myBooks, {b}))
    /\ unsettled' = TRUE
    /\ UNCHANGED <<allBooks, pagination, syncTarget, adding>>

sendIsbns == \E b \in NotListed :
    /\ ~mounted /\ adding = 0
    /\ ShelfChanges(<<b>> \o myBooks)
    /\ adding' = getLoadedPages
    /\ UNCHANGED <<allBooks, pagination, syncTarget, unsettled>>

\* the answer may come when the library page is shown again
sendIsbnsReturns ==
    /\ adding # 0
    /\ adding' = 0
    /\ syncTarget' = adding
    /\ UNCHANGED <<serverVars, routeFilter, mounted, filter, page, allBooks, pagination, activeKey, resultCache, resultOrder,
                   timerVars, tasks, request, unsettled, pageOps>>

-----------------------------------------------------------------------------
\* the page shows what was loaded first
PageInit ==
    /\ myBooks \in SetToSeqs(Listing)
    /\ preference = FALSE /\ routeFilter = None
    /\ mounted = TRUE
    /\ filter = Default /\ page = 1 /\ activeKey = Default
    /\ allBooks = pageOf(matches(Default), 1)
    /\ pagination = InfoOf(Len(matches(Default)), 1)
    /\ resultCache = [k \in Filter |-> IF k = Default THEN [books |-> allBooks, pagination |-> pagination, loadedPage |-> 1] ELSE None]
    /\ resultOrder = <<Default>>
    /\ syncTarget = 0 /\ adding = 0
    /\ filterTimer = FALSE /\ preferenceTimer = None
    /\ tasks = [t \in Call |-> None] /\ request = None
    /\ unsettled = FALSE
    /\ pageOps = 0

PageNext ==
    \/ getLibraryCount \/ getLibraryItems \/ refreshReturns \/ refreshFails
    \/ \E t \in Call :
         \/ syncLoadedPages(t) \/ TaskEnds(t) \/ loadMore(t)
         \/ FilterTimerFires(t) \/ clearFilters(t)
         \/ mount(t) \/ MountEnds(t)
    \/ setFilter \/ updatePreferences \/ EnrichmentPoll
    \/ leave \/ resetAll
    \/ addManually \/ removeBook \/ sendIsbns \/ sendIsbnsReturns

PageSpec == PageInit /\ [][PageNext]_libraryPageVars

-----------------------------------------------------------------------------
PageTypeOK ==
    /\ ToSet(myBooks) \subseteq Listing
    /\ filter \in Filter /\ activeKey \in Filter
    /\ page \in Nat \ {0}
    /\ pagination = None \/ pagination.total \in Nat
    /\ \A k \in Filter : resultCache[k] # None <=> k \in ToSet(resultOrder)
    /\ Len(resultOrder) <= MaxResults

\* When nothing is under way, and the last load was not disturbed, the page shows the first pages of what the chosen
\* filter finds on the server, each book once and in order, with the right total: the watcher of data (index.vue:171)
\* and the result cache hold the answers of several filters, tasks and pages apart.
SettledShowsTheLibrary ==
    mounted /\ NothingAwaited /\ ~filterTimer /\ ~unsettled /\ syncTarget = 0 /\ adding = 0 =>
        LET found == matches(filter) IN
        /\ activeKey = filter
        /\ allBooks = SubSeq(found, 1, IF page * PageSize < Len(found) THEN page * PageSize ELSE Len(found))
        /\ pagination = InfoOf(Len(found), page)
=============================================================================
