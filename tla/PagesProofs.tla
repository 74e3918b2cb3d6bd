----------------------------- MODULE PagesProofs -----------------------------
(* That the pages which add books by ISBN know what they wait for, that the *)
(* settings of an account show what it is, and that the administrator's     *)
(* lists and the pages of the loans show what is stored: for any ISBNs,     *)
(* addresses, entries, loans and notes, and any number of calls at once.    *)
EXTENDS IsbnScanner, AccountSettings, AdminPages, LoanPages, FiniteSetTheorems, SequenceTheorems, TLAPS

-----------------------------------------------------------------------------
(******************************* the scanner *******************************)

InSession(callsNow, kinds) == {c \in Call : callsNow[c] # None /\ callsNow[c].current /\ callsNow[c].kind \in kinds}
LookupKinds == {"one", "bulk", "tab"}
AddKinds == {"add", "tabAdd"}

\* what a call is for
CallFits(call, rows) ==
    /\ call.kind \in {"one", "tab"} => \E i \in Isbn : call.todo = {i}
    /\ call.kind = "bulk" => call.todo # {}
    /\ call.kind = "one" /\ call.current /\ call.listed => \A i \in call.todo : rows[i] # None

\* a call that settles the book
Covers(call, i) ==
    /\ call # None /\ call.current /\ call.kind \in {"one", "bulk"} /\ i \in call.todo
    /\ call.kind = "one" => call.listed
Loading(row) == row # None /\ row.status = "loading"
LoadingCovered(rows, callsNow) == \A i \in Isbn : Loading(rows[i]) => \E c \in Call : Covers(callsNow[c], i)

\* the counters
CountsFit(callsNow, looks, adds, details, flawed) ==
    /\ flawed \/ /\ looks = Cardinality(InSession(callsNow, LookupKinds))
                 /\ adds = Cardinality(InSession(callsNow, AddKinds))
    /\ details = Cardinality(InSession(callsNow, {"enrich"}))

\* the progress bar is that of the one bulk lookup
BarFits(callsNow, bar, flawed) ==
    flawed \/ /\ bar.active <=> InSession(callsNow, {"bulk"}) # {}
              /\ bar.completed <= bar.started /\ bar.started <= bar.total
              /\ \A c \in InSession(callsNow, {"bulk"}) :
                   /\ InSession(callsNow, {"bulk"}) = {c}
                   /\ bar.started + Cardinality(callsNow[c].todo) = bar.total + 1
                   /\ bar.completed + 1 = bar.started

\* at most one lookup of the tab can still be shown, and it is the form's
TabOpen(call) == call # None /\ call.kind = "tab" /\ call.current /\ call.latest /\ call.listed
TabFits(callsNow, result, form) ==
    /\ result \in {None, form}
    /\ \A c \in Call : TabOpen(callsNow[c]) => callsNow[c].todo = {form} /\ result = None
    /\ \A c, d \in Call : TabOpen(callsNow[c]) /\ TabOpen(callsNow[d]) => c = d

ScannerInv ==
    /\ ScannerTypeOK
    /\ \A c \in Call : scannerCalls[c] # None => CallFits(scannerCalls[c], scannedBooks)
    /\ LoadingCovered(scannedBooks, scannerCalls)
    /\ CountsFit(scannerCalls, pendingLookups, pendingAdds, pendingEnrichments, miscounted)
    /\ BarFits(scannerCalls, bulkProgress, overlapped)
    /\ TabFits(scannerCalls, lookupResult, formIsbn)

\* What a step of the call c leaves of the others: they are no longer the
\* newest, or their book has left the list.
OthersGoOn(c, callsNow) ==
    /\ callsNow \in [Call -> ScannerCall \cup {None}]
    /\ \A d \in Call \ {c} :
         /\ (callsNow[d] = None) = (scannerCalls[d] = None)
         /\ scannerCalls[d] # None =>
              /\ callsNow[d].kind = scannerCalls[d].kind /\ callsNow[d].todo = scannerCalls[d].todo
              /\ callsNow[d].current = scannerCalls[d].current
              /\ callsNow[d].latest => scannerCalls[d].latest
              /\ callsNow[d].listed => scannerCalls[d].listed

LEMMA ScannerNulls == None \notin ScannedRow /\ None \notin ScannerCall /\ None \notin Isbn
BY ScannerAssumption

LEMMA Recount ==
    ASSUME NEW c, NEW S \in SUBSET Call, NEW T \in SUBSET Call, S \ {c} = T \ {c}
    PROVE  /\ Cardinality(S) \in Nat /\ Cardinality(T) \in Nat
           /\ c \in S <=> c \in T => Cardinality(T) = Cardinality(S)
           /\ c \notin S /\ c \in T => Cardinality(T) = Cardinality(S) + 1
           /\ c \in S /\ c \notin T => Cardinality(S) >= 1 /\ Cardinality(T) = Cardinality(S) - 1
<1>1. IsFiniteSet(S) /\ IsFiniteSet(T)
  BY ScannerAssumption, FS_Subset
<1>2. CASE c \in S <=> c \in T
  <2>1. S = T
    BY <1>2
  <2> QED
    BY <1>1, <1>2, <2>1, FS_CardinalityType
<1>3. CASE c \notin S /\ c \in T
  <2>1. T = S \cup {c}
    BY <1>3
  <2> QED
    BY <1>1, <1>3, <2>1, FS_AddElement, FS_CardinalityType
<1>4. CASE c \in S /\ c \notin T
  <2>1. S = T \cup {c}
    BY <1>4
  <2> QED
    BY <1>1, <1>4, <2>1, FS_AddElement, FS_CardinalityType
<1> QED
  BY <1>2, <1>3, <1>4

LEMMA SessionMoves ==
    ASSUME NEW c, NEW callsNow, OthersGoOn(c, callsNow), NEW K
    PROVE  /\ InSession(scannerCalls, K) \in SUBSET Call /\ InSession(callsNow, K) \in SUBSET Call
           /\ InSession(scannerCalls, K) \ {c} = InSession(callsNow, K) \ {c}
BY DEF OthersGoOn, InSession

\* Whether the call c counts as one of the kinds K.
LEMMA Counted ==
    ASSUME NEW c, NEW callsNow, OthersGoOn(c, callsNow), NEW K,
           NEW S, S = InSession(scannerCalls, K), NEW T, T = InSession(callsNow, K)
    PROVE  /\ Cardinality(S) \in Nat /\ Cardinality(T) \in Nat
           /\ (c \in S <=> c \in T) => Cardinality(T) = Cardinality(S)
           /\ c \notin S /\ c \in T => Cardinality(T) = Cardinality(S) + 1
           /\ c \in S /\ c \notin T => Cardinality(S) >= 1 /\ Cardinality(T) = Cardinality(S) - 1
BY SessionMoves, Recount

\* The others still fit, with rows that keep the books their lookups are listed for.
LEMMA OthersFit ==
    ASSUME ScannerInv, NEW c, NEW callsNow, OthersGoOn(c, callsNow), NEW rows,
           \A d \in Call \ {c}, i \in Isbn :
              callsNow[d] # None /\ callsNow[d].kind = "one" /\ callsNow[d].listed /\ i \in callsNow[d].todo
                /\ scannedBooks[i] # None => rows[i] # None
    PROVE  \A d \in Call \ {c} : callsNow[d] # None => CallFits(callsNow[d], rows)
<1> SUFFICES ASSUME NEW d \in Call \ {c}, callsNow[d] # None
             PROVE  CallFits(callsNow[d], rows)
  OBVIOUS
<1>1. scannerCalls[d] # None /\ CallFits(scannerCalls[d], scannedBooks) /\ callsNow[d] \in ScannerCall
  BY DEF ScannerInv, OthersGoOn
<1>2. callsNow[d].todo \subseteq Isbn
  BY <1>1 DEF ScannerCall
<1> QED
  BY <1>1, <1>2 DEF CallFits, OthersGoOn

LEMMA TabKept ==
    ASSUME NEW c, NEW callsNow, OthersGoOn(c, callsNow), c \in Call => ~TabOpen(callsNow[c]),
           NEW result, NEW form, TabFits(scannerCalls, result, form)
    PROVE  TabFits(callsNow, result, form)
BY DEF TabFits, TabOpen, OthersGoOn

LEMMA BarKept ==
    ASSUME NEW c, NEW callsNow, OthersGoOn(c, callsNow),
           c \notin InSession(scannerCalls, {"bulk"}), c \notin InSession(callsNow, {"bulk"}),
           NEW bar, NEW flawed, BarFits(scannerCalls, bar, flawed)
    PROVE  BarFits(callsNow, bar, flawed)
<1>1. InSession(callsNow, {"bulk"}) = InSession(scannerCalls, {"bulk"})
  BY SessionMoves
<1>2. \A d \in InSession(callsNow, {"bulk"}) : callsNow[d].todo = scannerCalls[d].todo
  BY DEF InSession, OthersGoOn
<1> QED
  BY <1>1, <1>2 DEF BarFits
\* A counter follows whether its call is there.
Shift(n, m, was, is) ==
    CASE was /\ ~is -> m = Less(n) [] is /\ ~was -> m = n + 1 [] OTHER -> m = n

LEMMA Counting ==
    ASSUME ScannerInv, NEW c, OthersGoOn(c, scannerCalls'),
           miscounted' \/ /\ ~miscounted
                          /\ Shift(pendingLookups, pendingLookups',
                                   c \in InSession(scannerCalls, LookupKinds), c \in InSession(scannerCalls', LookupKinds))
                          /\ Shift(pendingAdds, pendingAdds',
                                   c \in InSession(scannerCalls, AddKinds), c \in InSession(scannerCalls', AddKinds)),
           Shift(pendingEnrichments, pendingEnrichments',
                 c \in InSession(scannerCalls, {"enrich"}), c \in InSession(scannerCalls', {"enrich"}))
    PROVE  CountsFit(scannerCalls', pendingLookups', pendingAdds', pendingEnrichments', miscounted')
<1>1. ASSUME NEW K, NEW n, NEW m, n = Cardinality(InSession(scannerCalls, K)),
             Shift(n, m, c \in InSession(scannerCalls, K), c \in InSession(scannerCalls', K))
      PROVE  m = Cardinality(InSession(scannerCalls', K))
  <2> DEFINE S == InSession(scannerCalls, K)
             T == InSession(scannerCalls', K)
  <2>1. /\ Cardinality(S) \in Nat /\ Cardinality(T) \in Nat
        /\ (c \in S <=> c \in T) => Cardinality(T) = Cardinality(S)
        /\ c \notin S /\ c \in T => Cardinality(T) = Cardinality(S) + 1
        /\ c \in S /\ c \notin T => Cardinality(S) >= 1 /\ Cardinality(T) = Cardinality(S) - 1
    BY Counted
  <2>2. n = Cardinality(S) /\ Shift(n, m, c \in S, c \in T)
    BY <1>1
  <2> HIDE DEF S, T
  <2>3. m = Cardinality(T)
    BY <2>1, <2>2 DEF Shift, Less
  <2> QED
    BY <2>3 DEF T
<1>2. CountsFit(scannerCalls, pendingLookups, pendingAdds, pendingEnrichments, miscounted)
  BY DEF ScannerInv
<1>3. pendingEnrichments' = Cardinality(InSession(scannerCalls', {"enrich"}))
  BY <1>1, <1>2 DEF CountsFit
<1>4. CASE miscounted'
  BY <1>3, <1>4 DEF CountsFit
<1>5. CASE ~miscounted'
  <2>1. /\ pendingLookups' = Cardinality(InSession(scannerCalls', LookupKinds))
        /\ pendingAdds' = Cardinality(InSession(scannerCalls', AddKinds))
    BY <1>1, <1>2, <1>5 DEF CountsFit
  <2> QED
    BY <1>3, <2>1 DEF CountsFit
<1> QED
  BY <1>4, <1>5

\* Books stay listed for the lookups of the others, and what is shown as being
\* looked up has a lookup.
ListedKept(c) ==
    \A d \in Call \ {c}, i \in Isbn :
        scannerCalls'[d] # None /\ scannerCalls'[d].kind = "one" /\ scannerCalls'[d].listed
            /\ i \in scannerCalls'[d].todo /\ scannedBooks[i] # None => scannedBooks'[i] # None
LoadingKept(c) ==
    \A i \in Isbn : Loading(scannedBooks'[i]) =>
        \/ c \in Call /\ Covers(scannerCalls'[c], i)
        \/ /\ Loading(scannedBooks[i])
           /\ c \in Call => ~Covers(scannerCalls[c], i)
           /\ \A d \in Call \ {c} : Covers(scannerCalls[d], i) => Covers(scannerCalls'[d], i)

\* What is to be shown of a step of the call c.
LEMMA ScannerStep ==
    ASSUME ScannerInv, NEW c, OthersGoOn(c, scannerCalls'), ScannerTypeOK',
           c \in Call /\ scannerCalls'[c] # None => CallFits(scannerCalls'[c], scannedBooks'),
           ListedKept(c), LoadingKept(c),
           CountsFit(scannerCalls', pendingLookups', pendingAdds', pendingEnrichments', miscounted'),
           BarFits(scannerCalls', bulkProgress', overlapped'),
           TabFits(scannerCalls', lookupResult', formIsbn')
    PROVE  ScannerInv'
<1>1. \A d \in Call : scannerCalls'[d] # None => CallFits(scannerCalls'[d], scannedBooks')
  <2>1. \A d \in Call \ {c} : scannerCalls'[d] # None => CallFits(scannerCalls'[d], scannedBooks')
    BY OthersFit DEF ListedKept
  <2> QED
    BY <2>1
<1>2. LoadingCovered(scannedBooks', scannerCalls')
  BY DEF LoadingCovered, LoadingKept, ScannerInv
<1> QED
  BY <1>1, <1>2 DEF ScannerInv

LEMMA RowTypes ==
    /\ Book("loading", TRUE) \in ScannedRow /\ Loading(Book("loading", TRUE))
    /\ \A i \in Isbn : \A row \in Results(i) \cup {Failed} : row \in ScannedRow /\ ~Loading(row)
    /\ ~Loading(None)
    /\ \A t \in {"already_owned", "found"}, b \in BOOLEAN : Book(t, b) \in ScannedRow /\ ~Loading(Book(t, b))
    /\ \A row \in ScannedRow : row # None
<1>1. \A t \in {"loading", "found", "not_found", "already_owned", "error"}, b \in BOOLEAN :
        Book(t, b) \in ScannedRow /\ Book(t, b) # None /\ Book(t, b).status = t
  BY ScannerNulls DEF Book, ScannedRow
<1>2. \A row \in ScannedRow : row # None
  BY ScannerNulls
<1>3. ASSUME NEW i \in Isbn, NEW row \in Results(i) \cup {Failed}
      PROVE  row \in ScannedRow /\ ~Loading(row)
  BY <1>1 DEF Results, FoundBook, Failed, Loading
<1> QED
  BY <1>1, <1>2, <1>3 DEF Loading

-----------------------------------------------------------------------------
\* Calls begin.
NewCall(kind, isbns) ==
    [kind |-> kind, todo |-> isbns, current |-> TRUE, latest |-> TRUE, listed |-> kind # "tabAdd",
     attempt |-> 0, added |-> {}, failed |-> {}, owned |-> {}]

LEMMA NewCallMeans ==
    ASSUME NEW kind \in CallKind, NEW isbns \in SUBSET Isbn
    PROVE  /\ NewCall(kind, isbns) \in ScannerCall /\ NewCall(kind, isbns) # None
           /\ NewCall(kind, isbns).kind = kind /\ NewCall(kind, isbns).todo = isbns
           /\ NewCall(kind, isbns).current /\ NewCall(kind, isbns).latest
           /\ kind # "tabAdd" => NewCall(kind, isbns).listed
<1>1. NewCall(kind, isbns) \in ScannerCall
  BY DEF NewCall, ScannerCall
<1> QED
  BY <1>1, ScannerNulls DEF NewCall

LEMMA Beginning ==
    ASSUME ScannerInv, NEW c \in Call, NEW callsNow \in {scannerCalls, Superseded(scannerCalls)},
           NEW kind \in CallKind, NEW isbns \in SUBSET Isbn, BeginCall(c, callsNow, kind, isbns)
    PROVE  /\ scannerCalls[c] = None /\ OthersGoOn(c, scannerCalls')
           /\ scannerCalls'[c] # None /\ scannerCalls'[c].kind = kind /\ scannerCalls'[c].todo = isbns
           /\ scannerCalls'[c].current /\ scannerCalls'[c].latest
           /\ kind # "tabAdd" => scannerCalls'[c].listed
           /\ \A d \in Call \ {c} : scannerCalls'[d] = callsNow[d]
           /\ \A d \in Call \ {c}, i \in Isbn : Covers(scannerCalls[d], i) <=> Covers(scannerCalls'[d], i)
           /\ \A K : c \notin InSession(scannerCalls, K) /\ (c \in InSession(scannerCalls', K) <=> kind \in K)
<1>1. scannerCalls \in [Call -> ScannerCall \cup {None}]
  BY DEF ScannerInv, ScannerTypeOK
<1>2. /\ callsNow \in [Call -> ScannerCall \cup {None}]
      /\ \A d \in Call : /\ (callsNow[d] = None) = (scannerCalls[d] = None)
                         /\ scannerCalls[d] # None =>
                              /\ callsNow[d].kind = scannerCalls[d].kind /\ callsNow[d].todo = scannerCalls[d].todo
                              /\ callsNow[d].current = scannerCalls[d].current
                              /\ callsNow[d].latest => scannerCalls[d].latest
                              /\ callsNow[d].listed = scannerCalls[d].listed
  <2>1. CASE callsNow = scannerCalls
    BY <1>1, <2>1
  <2>2. CASE callsNow = Superseded(scannerCalls)
    <3> DEFINE m(d) == [scannerCalls[d] EXCEPT !.latest = FALSE]
    <3>1. ASSUME NEW d \in Call, scannerCalls[d] # None
          PROVE  /\ m(d) \in ScannerCall /\ m(d).kind = scannerCalls[d].kind /\ m(d).todo = scannerCalls[d].todo
                 /\ m(d).current = scannerCalls[d].current /\ ~m(d).latest /\ m(d).listed = scannerCalls[d].listed
      BY <1>1, <3>1 DEF ScannerCall
    <3>2. callsNow = [d \in Call |-> IF scannerCalls[d] = None THEN None ELSE m(d)]
      BY <2>2 DEF Superseded
    <3> HIDE DEF m
    <3> QED
      BY <3>1, <3>2, ScannerNulls
  <2> QED
    BY <2>1, <2>2
<1>3. scannerCalls' = [callsNow EXCEPT ![c] = NewCall(kind, isbns)] /\ scannerCalls[c] = None
  BY DEF BeginCall, NewCall
<1>4. /\ scannerCalls'[c] = NewCall(kind, isbns)
      /\ \A d \in Call \ {c} : scannerCalls'[d] = callsNow[d]
      /\ scannerCalls' \in [Call -> ScannerCall \cup {None}]
  BY <1>2, <1>3, NewCallMeans
<1>5. OthersGoOn(c, scannerCalls')
  BY <1>2, <1>4 DEF OthersGoOn
<1>6. \A d \in Call \ {c}, i \in Isbn : Covers(scannerCalls[d], i) <=> Covers(scannerCalls'[d], i)
  BY <1>2, <1>4 DEF Covers
<1>7. \A K : c \notin InSession(scannerCalls, K) /\ (c \in InSession(scannerCalls', K) <=> kind \in K)
  BY <1>3, <1>4, NewCallMeans DEF InSession
<1>8. /\ scannerCalls'[c] # None /\ scannerCalls'[c].kind = kind /\ scannerCalls'[c].todo = isbns
      /\ scannerCalls'[c].current /\ scannerCalls'[c].latest
      /\ kind # "tabAdd" => scannerCalls'[c].listed
  <2> DEFINE m == NewCall(kind, isbns)
  <2>1. /\ m # None /\ m.kind = kind /\ m.todo = isbns /\ m.current /\ m.latest
        /\ kind # "tabAdd" => m.listed
    BY NewCallMeans
  <2>2. scannerCalls'[c] = m
    BY <1>4
  <2> HIDE DEF m
  <2> QED
    BY <2>1, <2>2
<1> QED
  BY <1>3, <1>4, <1>5, <1>6, <1>7, <1>8
\* scannedBooks changes, or nothing but the calls and counters.
LEMMA lookupScannedBookKeeps ==
    ASSUME ScannerInv, NEW c \in Call, NEW i \in Isbn,
           i \notin Listed \/ ~Loading(scannedBooks[i]), lookupScannedBook(c, i, scannerCalls)
    PROVE  ScannerInv'
<1>1. BeginCall(c, Superseded(scannerCalls), "one", {i})
  BY DEF lookupScannedBook
<1>2. /\ scannerCalls[c] = None /\ OthersGoOn(c, scannerCalls')
      /\ scannerCalls'[c] # None /\ scannerCalls'[c].kind = "one" /\ scannerCalls'[c].todo = {i}
      /\ scannerCalls'[c].current /\ scannerCalls'[c].listed
      /\ \A d \in Call \ {c}, j \in Isbn : Covers(scannerCalls[d], j) <=> Covers(scannerCalls'[d], j)
      /\ \A K : c \notin InSession(scannerCalls, K) /\ (c \in InSession(scannerCalls', K) <=> "one" \in K)
  BY <1>1, Beginning DEF CallKind
<1>4. scannedBooks' = [scannedBooks EXCEPT ![i] = Book("loading", TRUE)]
  BY DEF lookupScannedBook
<1>5. scannedBooks' \in [Isbn -> ScannedRow \cup {None}] /\ scannedBooks'[i] = Book("loading", TRUE)
      /\ \A j \in Isbn \ {i} : scannedBooks'[j] = scannedBooks[j]
  BY <1>4, RowTypes DEF ScannerInv, ScannerTypeOK
<1>6. /\ pendingLookups' = pendingLookups + 1
      /\ UNCHANGED <<pendingAdds, pendingEnrichments, bulkProgress, pageVars, flawVars>>
  BY DEF lookupScannedBook
<1>7. ScannerTypeOK'
  BY <1>2, <1>5, <1>6 DEF OthersGoOn, ScannerInv, ScannerTypeOK, pageVars, flawVars
<1>8. CallFits(scannerCalls'[c], scannedBooks')
  BY <1>2, <1>5, RowTypes DEF CallFits
<1>9. Covers(scannerCalls'[c], i)
  BY <1>2 DEF Covers
<1>10. ListedKept(c) /\ LoadingKept(c)
  <2>1. \A j \in Isbn : ~Covers(scannerCalls[c], j)
    BY <1>2 DEF Covers
  <2> QED
    BY <1>2, <1>5, <1>9, <2>1, RowTypes DEF ListedKept, LoadingKept
<1>11. CountsFit(scannerCalls', pendingLookups', pendingAdds', pendingEnrichments', miscounted')
  BY <1>2, <1>6, Counting DEF Shift, LookupKinds, AddKinds, flawVars
<1>12. BarFits(scannerCalls', bulkProgress', overlapped')
  <2>1. BarFits(scannerCalls', bulkProgress, overlapped)
    BY <1>2, BarKept DEF ScannerInv
  <2> QED
    BY <1>6, <2>1 DEF flawVars
<1>13. TabFits(scannerCalls', lookupResult', formIsbn')
  <2>1. TabFits(scannerCalls', lookupResult, formIsbn)
    BY <1>2, TabKept DEF ScannerInv, TabOpen
  <2> QED
    BY <1>6, <2>1 DEF pageVars
<1> QED
  BY <1>2, <1>7, <1>8, <1>10, <1>11, <1>12, <1>13, ScannerStep
\* Calls that begin beside what is listed.
LEMMA SameRows ==
    ASSUME ScannerInv, NEW c, OthersGoOn(c, scannerCalls'), scannedBooks' = scannedBooks,
           c \in Call => \A i \in Isbn : ~Covers(scannerCalls[c], i) \/ Covers(scannerCalls'[c], i),
           \A d \in Call \ {c}, i \in Isbn : Covers(scannerCalls[d], i) => Covers(scannerCalls'[d], i)
    PROVE  ListedKept(c) /\ LoadingKept(c)
BY DEF ListedKept, LoadingKept

LEMMA lookupISBNKeeps ==
    ASSUME ScannerInv, NEW c \in Call, NEW i \in Isbn, lookupISBN(c, i)
    PROVE  ScannerInv'
<1>1. BeginCall(c, Superseded(scannerCalls), "tab", {i})
  BY DEF lookupISBN
<1>2. /\ scannerCalls[c] = None /\ OthersGoOn(c, scannerCalls')
      /\ scannerCalls'[c] # None /\ scannerCalls'[c].kind = "tab" /\ scannerCalls'[c].todo = {i}
      /\ scannerCalls'[c].current /\ scannerCalls'[c].listed
      /\ \A d \in Call \ {c} : scannerCalls'[d] = Superseded(scannerCalls)[d]
      /\ \A d \in Call \ {c}, j \in Isbn : Covers(scannerCalls[d], j) <=> Covers(scannerCalls'[d], j)
      /\ \A K : c \notin InSession(scannerCalls, K) /\ (c \in InSession(scannerCalls', K) <=> "tab" \in K)
  BY <1>1, Beginning DEF CallKind
<1>3. /\ pendingLookups' = pendingLookups + 1 /\ formIsbn' = i /\ lookupResult = None
      /\ UNCHANGED <<scannedBooks, pendingAdds, pendingEnrichments, bulkProgress, openTab, lookupResult, library, flawVars>>
  BY DEF lookupISBN
<1>4. ScannerTypeOK'
  BY <1>2, <1>3 DEF OthersGoOn, ScannerInv, ScannerTypeOK, flawVars
<1>5. CallFits(scannerCalls'[c], scannedBooks')
  BY <1>2 DEF CallFits
<1>6. ListedKept(c) /\ LoadingKept(c)
  <2>1. \A j \in Isbn : ~Covers(scannerCalls[c], j)
    BY <1>2 DEF Covers
  <2> QED
    BY <1>2, <1>3, <2>1, SameRows
<1>7. CountsFit(scannerCalls', pendingLookups', pendingAdds', pendingEnrichments', miscounted')
  BY <1>2, <1>3, Counting DEF Shift, LookupKinds, AddKinds, flawVars
<1>8. BarFits(scannerCalls', bulkProgress', overlapped')
  <2>1. BarFits(scannerCalls', bulkProgress, overlapped)
    BY <1>2, BarKept DEF ScannerInv
  <2> QED
    BY <1>3, <2>1 DEF flawVars
<1>9. TabFits(scannerCalls', lookupResult', formIsbn')
  <2>1. \A d \in Call \ {c} : ~TabOpen(scannerCalls'[d])
    <3> SUFFICES ASSUME NEW d \in Call \ {c}, scannerCalls[d] # None
                 PROVE  ~[scannerCalls[d] EXCEPT !.latest = FALSE].latest
      BY <1>2 DEF TabOpen, Superseded
    <3> QED
      BY DEF ScannerInv, ScannerTypeOK, ScannerCall
  <2> QED
    BY <1>2, <1>3, <2>1 DEF TabFits
<1> QED
  BY <1>2, <1>4, <1>5, <1>6, <1>7, <1>8, <1>9, ScannerStep

LEMMA AddingKeeps ==
    ASSUME ScannerInv, NEW c \in Call, addSelectedToLibrary(c) \/ addLookedUpBook(c)
    PROVE  ScannerInv'
<1>1. PICK kind \in {"add", "tabAdd"}, isbns \in SUBSET Isbn : BeginCall(c, scannerCalls, kind, isbns)
  <2>1. CASE addSelectedToLibrary(c)
    BY <2>1, Zenon DEF addSelectedToLibrary, Listed
  <2>2. CASE addLookedUpBook(c)
    <3>1. {lookupResult} \in SUBSET Isbn
      BY <2>2 DEF addLookedUpBook, ScannerInv, ScannerTypeOK
    <3> QED
      BY <2>2, <3>1 DEF addLookedUpBook
  <2> QED
    BY <2>1, <2>2
<1>2. /\ scannerCalls[c] = None /\ OthersGoOn(c, scannerCalls')
      /\ scannerCalls'[c] # None /\ scannerCalls'[c].kind = kind
      /\ \A d \in Call \ {c}, j \in Isbn : Covers(scannerCalls[d], j) <=> Covers(scannerCalls'[d], j)
      /\ \A K : c \notin InSession(scannerCalls, K) /\ (c \in InSession(scannerCalls', K) <=> kind \in K)
  BY <1>1, Beginning DEF CallKind
<1>3. /\ pendingAdds' = pendingAdds + 1
      /\ UNCHANGED <<scannedBooks, pendingLookups, pendingEnrichments, bulkProgress, pageVars, flawVars>>
  BY DEF addSelectedToLibrary, addLookedUpBook
<1>4. ScannerTypeOK'
  BY <1>2, <1>3 DEF OthersGoOn, ScannerInv, ScannerTypeOK, pageVars, flawVars
<1>5. CallFits(scannerCalls'[c], scannedBooks')
  BY <1>2 DEF CallFits
<1>6. ListedKept(c) /\ LoadingKept(c)
  <2>1. \A j \in Isbn : ~Covers(scannerCalls[c], j)
    BY <1>2 DEF Covers
  <2> QED
    BY <1>2, <1>3, <2>1, SameRows
<1>7. CountsFit(scannerCalls', pendingLookups', pendingAdds', pendingEnrichments', miscounted')
  <2>1. kind \notin LookupKinds /\ kind \in AddKinds /\ kind \notin {"enrich"}
    BY DEF LookupKinds, AddKinds
  <2> QED
    BY <1>2, <1>3, <2>1, Counting DEF Shift, flawVars
<1>8. BarFits(scannerCalls', bulkProgress', overlapped')
  <2>1. BarFits(scannerCalls', bulkProgress, overlapped)
    BY <1>2, BarKept DEF ScannerInv
  <2> QED
    BY <1>3, <2>1 DEF flawVars
<1>9. TabFits(scannerCalls', lookupResult', formIsbn')
  <2>1. TabFits(scannerCalls', lookupResult, formIsbn)
    BY <1>2, TabKept DEF ScannerInv, TabOpen
  <2> QED
    BY <1>3, <2>1 DEF pageVars
<1> QED
  BY <1>2, <1>4, <1>5, <1>6, <1>7, <1>8, <1>9, ScannerStep

LEMMA addMultipleIsbnsKeeps ==
    ASSUME ScannerInv, NEW c \in Call, addMultipleIsbns(c)
    PROVE  ScannerInv'
<1>1. PICK isbns \in (SUBSET Isbn) \ {{}} :
        /\ Listed = {}
        /\ scannedBooks' = [i \in Isbn |-> IF i \in isbns THEN Book("loading", TRUE) ELSE None]
        /\ BeginCall(c, scannerCalls, "bulk", isbns)
        /\ pendingLookups' = pendingLookups + 1
        /\ bulkProgress' = [active |-> TRUE, total |-> Cardinality(isbns), started |-> 1, completed |-> 0]
        /\ overlapped' = (overlapped \/ CallsOf({"bulk"}) # {})
        /\ UNCHANGED <<pendingAdds, pendingEnrichments, pageVars, miscounted>>
  BY Zenon DEF addMultipleIsbns
<1>2. /\ scannerCalls[c] = None /\ OthersGoOn(c, scannerCalls')
      /\ scannerCalls'[c] # None /\ scannerCalls'[c].kind = "bulk" /\ scannerCalls'[c].todo = isbns
      /\ scannerCalls'[c].current
      /\ \A d \in Call \ {c}, j \in Isbn : Covers(scannerCalls[d], j) <=> Covers(scannerCalls'[d], j)
      /\ \A K : c \notin InSession(scannerCalls, K) /\ (c \in InSession(scannerCalls', K) <=> "bulk" \in K)
  BY <1>1, Beginning DEF CallKind
<1>3. Cardinality(isbns) \in Nat /\ Cardinality(isbns) >= 1 /\ isbns # {}
  <2>1. IsFiniteSet(isbns)
    BY ScannerAssumption, FS_Subset
  <2> QED
    BY <2>1, FS_EmptySet, FS_CardinalityType
<1>4. ScannerTypeOK'
  <2>1. scannedBooks' \in [Isbn -> ScannedRow \cup {None}]
    BY <1>1, RowTypes
  <2>2. bulkProgress' \in [active : BOOLEAN, total : Nat, started : Nat, completed : Nat]
    BY <1>1, <1>3
  <2>3. overlapped' \in BOOLEAN
    BY <1>1 DEF ScannerInv, ScannerTypeOK
  <2>4. /\ scannerCalls' \in [Call -> ScannerCall \cup {None}] /\ pendingLookups' \in Nat
        /\ UNCHANGED <<pendingAdds, pendingEnrichments, openTab, lookupResult, formIsbn, library, miscounted>>
    BY <1>1, <1>2 DEF OthersGoOn, ScannerInv, ScannerTypeOK, pageVars
  <2> QED
    BY <2>1, <2>2, <2>3, <2>4 DEF ScannerInv, ScannerTypeOK
<1>5. CallFits(scannerCalls'[c], scannedBooks')
  BY <1>2, <1>3 DEF CallFits
<1>6. ListedKept(c) /\ LoadingKept(c)
  <2>1. \A j \in isbns : Covers(scannerCalls'[c], j)
    BY <1>2 DEF Covers
  <2>2. \A j \in Isbn : scannedBooks[j] = None
    BY <1>1 DEF Listed
  <2> QED
    BY <1>1, <2>1, <2>2, RowTypes DEF ListedKept, LoadingKept
<1>7. CountsFit(scannerCalls', pendingLookups', pendingAdds', pendingEnrichments', miscounted')
  BY <1>1, <1>2, Counting DEF Shift, LookupKinds, AddKinds
<1>8. BarFits(scannerCalls', bulkProgress', overlapped')
  <2> SUFFICES ASSUME ~overlapped' PROVE BarFits(scannerCalls', bulkProgress', overlapped')
    BY DEF BarFits
  <2>1. InSession(scannerCalls, {"bulk"}) = {}
    BY <1>1 DEF CallsOf, InSession
  <2>2. InSession(scannerCalls', {"bulk"}) = {c}
    BY <1>2, <2>1, SessionMoves
  <2> QED
    BY <1>1, <1>2, <1>3, <2>2 DEF BarFits
<1>9. TabFits(scannerCalls', lookupResult', formIsbn')
  <2>1. TabFits(scannerCalls', lookupResult, formIsbn)
    BY <1>2, TabKept DEF ScannerInv, TabOpen
  <2> QED
    BY <1>1, <2>1 DEF pageVars
<1> QED
  BY <1>2, <1>4, <1>5, <1>6, <1>7, <1>8, <1>9, ScannerStep
-----------------------------------------------------------------------------
\* A call goes on as m, or ends.
LEMMA GoingOn ==
    ASSUME ScannerInv, NEW c \in Call, NEW m \in ScannerCall \cup {None},
           scannerCalls' = [scannerCalls EXCEPT ![c] = m]
    PROVE  /\ OthersGoOn(c, scannerCalls') /\ scannerCalls'[c] = m
           /\ \A d \in Call \ {c} : scannerCalls'[d] = scannerCalls[d]
<1>1. scannerCalls \in [Call -> ScannerCall \cup {None}]
  BY DEF ScannerInv, ScannerTypeOK
<1>2. /\ scannerCalls' \in [Call -> ScannerCall \cup {None}] /\ scannerCalls'[c] = m
      /\ \A d \in Call \ {c} : scannerCalls'[d] = scannerCalls[d]
  BY <1>1
<1> QED
  BY <1>2 DEF OthersGoOn

\* A lookup has returned, and perhaps begins to fetch the details.
LEMMA Returning ==
    ASSUME ScannerInv, NEW c \in Call, scannerCalls[c] # None, scannerCalls[c].kind # "enrich",
           NEW active, active => isActiveRequest(scannerCalls[c]), lookupReturns(c, active)
    PROVE  /\ OthersGoOn(c, scannerCalls')
           /\ \A d \in Call \ {c} : scannerCalls'[d] = scannerCalls[d]
           /\ scannerCalls'[c] # None => scannerCalls'[c].kind = "enrich"
           /\ pendingEnrichments' \in Nat
           /\ Shift(pendingEnrichments, pendingEnrichments',
                    c \in InSession(scannerCalls, {"enrich"}), c \in InSession(scannerCalls', {"enrich"}))
<1>1. scannerCalls[c] \in ScannerCall /\ pendingEnrichments \in Nat
  BY DEF ScannerInv, ScannerTypeOK
<1>2. c \notin InSession(scannerCalls, {"enrich"})
  BY DEF InSession
<1>3. CASE EndCall(c) /\ UNCHANGED pendingEnrichments
  <2>1. scannerCalls' = [scannerCalls EXCEPT ![c] = None]
    BY <1>3 DEF EndCall
  <2>2. /\ OthersGoOn(c, scannerCalls') /\ scannerCalls'[c] = None
        /\ \A d \in Call \ {c} : scannerCalls'[d] = scannerCalls[d]
    BY <2>1, GoingOn
  <2>3. c \notin InSession(scannerCalls', {"enrich"})
    BY <2>2 DEF InSession
  <2> QED
    BY <1>1, <1>2, <1>3, <2>2, <2>3 DEF Shift
<1>4. CASE /\ active /\ pendingEnrichments' = pendingEnrichments + 1
           /\ scannerCalls' = [scannerCalls EXCEPT ![c].kind = "enrich"]
  <2> DEFINE m == [scannerCalls[c] EXCEPT !.kind = "enrich"]
  <2>1. m \in ScannerCall /\ m.kind = "enrich" /\ m.current
    BY <1>1, <1>4 DEF ScannerCall, CallKind, isActiveRequest
  <2>2. scannerCalls' = [scannerCalls EXCEPT ![c] = m]
    BY <1>4
  <2> HIDE DEF m
  <2>3. m # None
    BY <2>1, ScannerNulls
  <2>4. /\ OthersGoOn(c, scannerCalls') /\ scannerCalls'[c] = m
        /\ \A d \in Call \ {c} : scannerCalls'[d] = scannerCalls[d]
    BY <2>1, <2>2, GoingOn
  <2>5. c \in InSession(scannerCalls', {"enrich"})
    BY <2>1, <2>3, <2>4 DEF InSession
  <2> QED
    BY <1>1, <1>2, <1>4, <2>1, <2>4, <2>5 DEF Shift
<1> QED
  BY <1>3, <1>4, Zenon DEF lookupReturns

\* The finally block of a lookup.
LEMMA LookupDone ==
    ASSUME ScannerInv, NEW c \in Call, scannerCalls[c] # None, scannerCalls[c].kind \in {"one", "tab"},
           OthersGoOn(c, scannerCalls'), scannerCalls'[c] # None => scannerCalls'[c].kind = "enrich",
           pendingEnrichments' \in Nat,
           Shift(pendingEnrichments, pendingEnrichments',
                 c \in InSession(scannerCalls, {"enrich"}), c \in InSession(scannerCalls', {"enrich"})),
           lookupIsbnFinally(c), bulkProgress' = bulkProgress
    PROVE  /\ pendingLookups' \in Nat /\ pendingAdds' \in Nat /\ miscounted' \in BOOLEAN /\ overlapped' \in BOOLEAN
           /\ CountsFit(scannerCalls', pendingLookups', pendingAdds', pendingEnrichments', miscounted')
           /\ BarFits(scannerCalls', bulkProgress', overlapped')
<1>1. /\ pendingLookups' = Less(pendingLookups)
      /\ miscounted' = (miscounted \/ ~scannerCalls[c].current)
      /\ pendingAdds' = pendingAdds /\ overlapped' = overlapped
  BY DEF lookupIsbnFinally
<1>2. /\ scannerCalls[c].current \in BOOLEAN /\ miscounted \in BOOLEAN /\ overlapped \in BOOLEAN
      /\ pendingLookups \in Nat /\ pendingAdds \in Nat
  BY DEF ScannerInv, ScannerTypeOK, ScannerCall
<1>3. /\ c \notin InSession(scannerCalls, AddKinds) /\ c \notin InSession(scannerCalls', AddKinds)
      /\ c \notin InSession(scannerCalls, {"bulk"}) /\ c \notin InSession(scannerCalls', {"bulk"})
      /\ c \notin InSession(scannerCalls', LookupKinds)
      /\ scannerCalls[c].current => c \in InSession(scannerCalls, LookupKinds)
  BY DEF InSession, AddKinds, LookupKinds
<1>4. miscounted' \/ /\ ~miscounted
                     /\ Shift(pendingLookups, pendingLookups',
                              c \in InSession(scannerCalls, LookupKinds), c \in InSession(scannerCalls', LookupKinds))
                     /\ Shift(pendingAdds, pendingAdds',
                              c \in InSession(scannerCalls, AddKinds), c \in InSession(scannerCalls', AddKinds))
  BY <1>1, <1>2, <1>3 DEF Shift
<1>5. CountsFit(scannerCalls', pendingLookups', pendingAdds', pendingEnrichments', miscounted')
  BY <1>4, Counting
<1>6. BarFits(scannerCalls', bulkProgress', overlapped')
  <2>1. BarFits(scannerCalls', bulkProgress, overlapped)
    BY <1>3, BarKept DEF ScannerInv
  <2> QED
    BY <1>1, <2>1
<1> QED
  BY <1>1, <1>2, <1>5, <1>6 DEF Less

LEMMA NextOfOne ==
    ASSUME ScannerInv, NEW c \in Call, scannerCalls[c] # None, scannerCalls[c].kind \in {"one", "tab"}
    PROVE  NextOf(scannerCalls[c]) \in Isbn /\ scannerCalls[c].todo = {NextOf(scannerCalls[c])}
BY DEF ScannerInv, CallFits, NextOf

LEMMA LookupAnswersKeeps ==
    ASSUME ScannerInv, NEW c \in Call, LookupAnswers(c)
    PROVE  ScannerInv'
<1> DEFINE i == NextOf(scannerCalls[c])
           seen == scannerCalls[c].current /\ scannerCalls[c].listed
<1>1. /\ scannerCalls[c] # None /\ scannerCalls[c].kind = "one" /\ lookupIsbnFinally(c)
      /\ UNCHANGED <<bulkProgress, pageVars, scannerOps>>
  BY DEF LookupAnswers
<1>2. PICK answer \in Results(i) \cup {Failed} :
        LET shown == IF isActiveRequest(scannerCalls[c]) THEN answer ELSE Failed IN
        /\ scannedBooks' = IF seen
               THEN [scannedBooks EXCEPT ![i] =
                       IF shown.status = "found" THEN [@ EXCEPT !.status = "found"] ELSE shown]
               ELSE scannedBooks
        /\ lookupReturns(c, isActiveRequest(scannerCalls[c]) /\ answer = FoundBook(i))
  BY Zenon DEF LookupAnswers
<1>3. i \in Isbn /\ scannerCalls[c].todo = {i}
  BY <1>1, NextOfOne
<1>4. /\ OthersGoOn(c, scannerCalls')
      /\ \A d \in Call \ {c} : scannerCalls'[d] = scannerCalls[d]
      /\ scannerCalls'[c] # None => scannerCalls'[c].kind = "enrich"
      /\ pendingEnrichments' \in Nat
      /\ Shift(pendingEnrichments, pendingEnrichments',
               c \in InSession(scannerCalls, {"enrich"}), c \in InSession(scannerCalls', {"enrich"}))
  BY <1>1, <1>2, Returning
<1>5. /\ pendingLookups' \in Nat /\ pendingAdds' \in Nat /\ miscounted' \in BOOLEAN /\ overlapped' \in BOOLEAN
      /\ CountsFit(scannerCalls', pendingLookups', pendingAdds', pendingEnrichments', miscounted')
      /\ BarFits(scannerCalls', bulkProgress', overlapped')
  BY <1>1, <1>4, LookupDone
<1>6. seen => scannedBooks[i] \in ScannedRow
  BY <1>1, <1>3 DEF ScannerInv, ScannerTypeOK, CallFits
<1>7. /\ scannedBooks' \in [Isbn -> ScannedRow \cup {None}]
      /\ \A j \in Isbn \ {i} : scannedBooks'[j] = scannedBooks[j]
      /\ seen => scannedBooks'[i] \in ScannedRow /\ ~Loading(scannedBooks'[i])
      /\ ~seen => scannedBooks' = scannedBooks
  <2>1. scannedBooks \in [Isbn -> ScannedRow \cup {None}]
    BY DEF ScannerInv, ScannerTypeOK
  <2>2. CASE ~seen
    BY <1>2, <2>1, <2>2
  <2>3. CASE seen
    <3>1. PICK shown \in Results(i) \cup {Failed} :
            scannedBooks' = [scannedBooks EXCEPT ![i] =
              IF shown.status = "found" THEN [scannedBooks[i] EXCEPT !.status = "found"] ELSE shown]
      BY <1>2, <2>3
    <3> DEFINE row == IF shown.status = "found" THEN [scannedBooks[i] EXCEPT !.status = "found"] ELSE shown
    <3>2. shown \in ScannedRow /\ ~Loading(shown)
      BY <1>3, RowTypes
    <3>3. [scannedBooks[i] EXCEPT !.status = "found"] \in ScannedRow
          /\ ~Loading([scannedBooks[i] EXCEPT !.status = "found"])
      BY <1>6, <2>3 DEF ScannedRow, Loading
    <3>4. row \in ScannedRow /\ ~Loading(row)
      BY <3>2, <3>3
    <3>5. scannedBooks' = [scannedBooks EXCEPT ![i] = row]
      BY <3>1
    <3> HIDE DEF row
    <3> QED
      BY <1>3, <2>1, <2>3, <3>4, <3>5
  <2> QED
    BY <2>2, <2>3
<1> HIDE DEF i
<1>8. ScannerTypeOK'
  BY <1>1, <1>4, <1>5, <1>7 DEF OthersGoOn, ScannerInv, ScannerTypeOK, pageVars
<1>9. scannerCalls'[c] # None => CallFits(scannerCalls'[c], scannedBooks')
  BY <1>4 DEF CallFits
<1>10. ListedKept(c)
  BY <1>7, ScannerNulls DEF ListedKept
<1>11. LoadingKept(c)
  <2> SUFFICES ASSUME NEW j \in Isbn, Loading(scannedBooks'[j])
               PROVE  /\ Loading(scannedBooks[j]) /\ ~Covers(scannerCalls[c], j)
                      /\ \A d \in Call \ {c} : Covers(scannerCalls[d], j) => Covers(scannerCalls'[d], j)
    BY DEF LoadingKept
  <2>1. Loading(scannedBooks[j]) /\ ~(seen /\ j = i)
    BY <1>7
  <2>2. ~Covers(scannerCalls[c], j)
    BY <1>1, <1>3, <2>1 DEF Covers
  <2> QED
    BY <1>4, <2>1, <2>2
<1>12. TabFits(scannerCalls', lookupResult', formIsbn')
  <2>1. TabFits(scannerCalls', lookupResult, formIsbn)
    BY <1>4, TabKept DEF ScannerInv, TabOpen
  <2> QED
    BY <1>1, <2>1 DEF pageVars
<1> QED
  BY <1>4, <1>5, <1>8, <1>9, <1>10, <1>11, <1>12, ScannerStep

LEMMA TabAnswersKeeps ==
    ASSUME ScannerInv, NEW c \in Call, TabAnswers(c)
    PROVE  ScannerInv'
<1> DEFINE i == NextOf(scannerCalls[c])
           active == isActiveRequest(scannerCalls[c])
<1>1. /\ scannerCalls[c] # None /\ scannerCalls[c].kind = "tab" /\ lookupIsbnFinally(c)
      /\ UNCHANGED <<scannedBooks, bulkProgress, openTab, formIsbn, library, scannerOps>>
  BY DEF TabAnswers
<1>2. PICK found \in BOOLEAN :
        /\ lookupResult' = IF active /\ found /\ scannerCalls[c].listed THEN i ELSE lookupResult
        /\ lookupReturns(c, active /\ found)
  BY Zenon DEF TabAnswers
<1>3. i \in Isbn /\ scannerCalls[c].todo = {i}
  BY <1>1, NextOfOne
<1>4. /\ OthersGoOn(c, scannerCalls')
      /\ \A d \in Call \ {c} : scannerCalls'[d] = scannerCalls[d]
      /\ scannerCalls'[c] # None => scannerCalls'[c].kind = "enrich"
      /\ pendingEnrichments' \in Nat
      /\ Shift(pendingEnrichments, pendingEnrichments',
               c \in InSession(scannerCalls, {"enrich"}), c \in InSession(scannerCalls', {"enrich"}))
  BY <1>1, <1>2, Returning
<1>5. /\ pendingLookups' \in Nat /\ pendingAdds' \in Nat /\ miscounted' \in BOOLEAN /\ overlapped' \in BOOLEAN
      /\ CountsFit(scannerCalls', pendingLookups', pendingAdds', pendingEnrichments', miscounted')
      /\ BarFits(scannerCalls', bulkProgress', overlapped')
  BY <1>1, <1>4, LookupDone
<1>6. lookupResult' = lookupResult \/ (TabOpen(scannerCalls[c]) /\ lookupResult' = i)
  BY <1>1, <1>2 DEF TabOpen, isActiveRequest
<1> HIDE DEF i
<1>7. ScannerTypeOK'
  BY <1>1, <1>3, <1>4, <1>5, <1>6 DEF OthersGoOn, ScannerInv, ScannerTypeOK
<1>8. scannerCalls'[c] # None => CallFits(scannerCalls'[c], scannedBooks')
  BY <1>4 DEF CallFits
<1>9. ListedKept(c) /\ LoadingKept(c)
  <2>1. \A j \in Isbn : ~Covers(scannerCalls[c], j)
    BY <1>1 DEF Covers
  <2> QED
    BY <1>1, <1>4, <2>1, SameRows
<1>10. TabFits(scannerCalls', lookupResult', formIsbn')
  <2>1. TabFits(scannerCalls, lookupResult, formIsbn)
    BY DEF ScannerInv
  <2>2. ~TabOpen(scannerCalls'[c])
    BY <1>4 DEF TabOpen
  <2>3. CASE lookupResult' = lookupResult
    BY <1>1, <1>4, <2>1, <2>2, <2>3, TabKept
  <2>4. CASE TabOpen(scannerCalls[c]) /\ lookupResult' = i
    BY <1>1, <1>3, <1>4, <2>1, <2>2, <2>4 DEF TabFits
  <2> QED
    BY <1>6, <2>3, <2>4
<1> QED
  BY <1>4, <1>5, <1>7, <1>8, <1>9, <1>10, ScannerStep

\* The details of a book are fetched, or will be tried again.
LEMMA FetchingKeeps ==
    ASSUME ScannerInv, NEW c \in Call, scannerCalls[c] # None, scannerCalls[c].kind \in {"enrich", "timer"},
           NEW m \in ScannerCall \cup {None}, scannerCalls' = [scannerCalls EXCEPT ![c] = m],
           m # None => m.kind \in {"enrich", "timer"},
           pendingEnrichments' \in Nat,
           Shift(pendingEnrichments, pendingEnrichments',
                 scannerCalls[c].kind = "enrich" /\ scannerCalls[c].current, m # None /\ m.kind = "enrich" /\ m.current),
           UNCHANGED <<scannedBooks, pendingLookups, pendingAdds, bulkProgress, pageVars, flawVars>>
    PROVE  ScannerInv'
<1>1. /\ OthersGoOn(c, scannerCalls') /\ scannerCalls'[c] = m
      /\ \A d \in Call \ {c} : scannerCalls'[d] = scannerCalls[d]
  BY GoingOn
<1>2. ScannerTypeOK'
  BY <1>1 DEF OthersGoOn, ScannerInv, ScannerTypeOK, pageVars, flawVars
<1>3. scannerCalls'[c] # None => CallFits(scannerCalls'[c], scannedBooks')
  BY <1>1 DEF CallFits
<1>4. ListedKept(c) /\ LoadingKept(c)
  <2>1. \A j \in Isbn : ~Covers(scannerCalls[c], j)
    BY DEF Covers
  <2> QED
    BY <1>1, <2>1, SameRows
<1>5. CountsFit(scannerCalls', pendingLookups', pendingAdds', pendingEnrichments', miscounted')
  <2>1. \A K : "enrich" \notin K /\ "timer" \notin K =>
          c \notin InSession(scannerCalls, K) /\ c \notin InSession(scannerCalls', K)
    BY <1>1 DEF InSession
  <2>2. /\ c \notin InSession(scannerCalls, LookupKinds) /\ c \notin InSession(scannerCalls', LookupKinds)
        /\ c \notin InSession(scannerCalls, AddKinds) /\ c \notin InSession(scannerCalls', AddKinds)
    BY <2>1 DEF LookupKinds, AddKinds
  <2>3. /\ c \in InSession(scannerCalls, {"enrich"}) <=> scannerCalls[c].kind = "enrich" /\ scannerCalls[c].current
        /\ c \in InSession(scannerCalls', {"enrich"}) <=> m # None /\ m.kind = "enrich" /\ m.current
    BY <1>1 DEF InSession
  <2>4. Shift(pendingEnrichments, pendingEnrichments',
              c \in InSession(scannerCalls, {"enrich"}), c \in InSession(scannerCalls', {"enrich"}))
    BY <2>3 DEF Shift
  <2>5. miscounted' \/ /\ ~miscounted
                       /\ Shift(pendingLookups, pendingLookups',
                                c \in InSession(scannerCalls, LookupKinds), c \in InSession(scannerCalls', LookupKinds))
                       /\ Shift(pendingAdds, pendingAdds',
                                c \in InSession(scannerCalls, AddKinds), c \in InSession(scannerCalls', AddKinds))
    BY <2>2 DEF Shift, flawVars
  <2> QED
    BY <1>1, <2>4, <2>5, Counting
<1>6. BarFits(scannerCalls', bulkProgress', overlapped')
  <2>1. c \notin InSession(scannerCalls, {"bulk"}) /\ c \notin InSession(scannerCalls', {"bulk"})
    BY <1>1 DEF InSession
  <2>2. BarFits(scannerCalls', bulkProgress, overlapped)
    BY <1>1, <2>1, BarKept DEF ScannerInv
  <2> QED
    BY <2>2 DEF flawVars
<1>7. TabFits(scannerCalls', lookupResult', formIsbn')
  <2>1. TabFits(scannerCalls', lookupResult, formIsbn)
    BY <1>1, TabKept DEF ScannerInv, TabOpen
  <2> QED
    BY <2>1 DEF pageVars
<1> QED
  BY <1>1, <1>2, <1>3, <1>4, <1>5, <1>6, <1>7, ScannerStep

LEMMA enrichResultKeeps ==
    ASSUME ScannerInv, NEW c \in Call, enrichResult(c)
    PROVE  ScannerInv'
<1>1. /\ scannerCalls[c] # None /\ scannerCalls[c].kind = "enrich"
      /\ pendingEnrichments' = IF scannerCalls[c].current THEN Less(pendingEnrichments) ELSE pendingEnrichments
      /\ UNCHANGED <<scannedBooks, pendingLookups, pendingAdds, bulkProgress, pageVars, flawVars>>
  BY DEF enrichResult
<1>2. scannerCalls[c] \in ScannerCall /\ pendingEnrichments \in Nat
  BY <1>1 DEF ScannerInv, ScannerTypeOK
<1>3. PICK m \in ScannerCall \cup {None} :
        scannerCalls' = [scannerCalls EXCEPT ![c] = m] /\ (m # None => m.kind = "timer")
  <2>1. CASE EndCall(c)
    BY <2>1 DEF EndCall
  <2>2. CASE scannerCalls' = [scannerCalls EXCEPT ![c].kind = "timer", ![c].attempt = @ + 1]
    <3> DEFINE n == scannerCalls[c].attempt + 1
               m == [scannerCalls[c] EXCEPT !.kind = "timer", !.attempt = n]
    <3>1. m \in ScannerCall /\ m.kind = "timer"
      <4>1. n \in Nat
        BY <1>2 DEF ScannerCall
      <4> HIDE DEF n
      <4> QED
        BY <1>2, <4>1 DEF ScannerCall, CallKind
    <3>2. scannerCalls' = [scannerCalls EXCEPT ![c] = m]
      BY <2>2 DEF ScannerInv, ScannerTypeOK
    <3> HIDE DEF m
    <3> QED
      BY <3>1, <3>2
  <2> QED
    BY <2>1, <2>2 DEF enrichResult
<1>4. /\ pendingEnrichments' \in Nat
      /\ Shift(pendingEnrichments, pendingEnrichments',
               scannerCalls[c].kind = "enrich" /\ scannerCalls[c].current, m # None /\ m.kind = "enrich" /\ m.current)
  BY <1>1, <1>2, <1>3 DEF Shift, Less, ScannerCall
<1> QED
  BY <1>1, <1>3, <1>4, FetchingKeeps

LEMMA enrichAgainKeeps ==
    ASSUME ScannerInv, NEW c \in Call, enrichAgain(c)
    PROVE  ScannerInv'
<1>1. /\ scannerCalls[c] # None /\ scannerCalls[c].kind = "timer"
      /\ UNCHANGED <<scannedBooks, pendingLookups, pendingAdds, bulkProgress, pageVars, flawVars>>
  BY DEF enrichAgain
<1>2. scannerCalls[c] \in ScannerCall /\ pendingEnrichments \in Nat
  BY <1>1 DEF ScannerInv, ScannerTypeOK
<1>3. CASE isActiveRequest(scannerCalls[c])
  <2> DEFINE m == [scannerCalls[c] EXCEPT !.kind = "enrich"]
  <2>1. m \in ScannerCall /\ m.kind = "enrich" /\ m.current
    BY <1>2, <1>3 DEF ScannerCall, CallKind, isActiveRequest
  <2>2. scannerCalls' = [scannerCalls EXCEPT ![c] = m] /\ pendingEnrichments' = pendingEnrichments + 1
    BY <1>3 DEF enrichAgain, ScannerInv, ScannerTypeOK
  <2> HIDE DEF m
  <2>3. m # None
    BY <2>1, ScannerNulls
  <2>4. /\ pendingEnrichments' \in Nat
        /\ Shift(pendingEnrichments, pendingEnrichments',
                 scannerCalls[c].kind = "enrich" /\ scannerCalls[c].current, m # None /\ m.kind = "enrich" /\ m.current)
    BY <1>1, <1>2, <2>1, <2>2, <2>3 DEF Shift
  <2> QED
    BY <1>1, <2>1, <2>2, <2>4, FetchingKeeps
<1>4. CASE ~isActiveRequest(scannerCalls[c])
  <2>1. scannerCalls' = [scannerCalls EXCEPT ![c] = None] /\ pendingEnrichments' = pendingEnrichments
    BY <1>4 DEF enrichAgain, EndCall
  <2>2. Shift(pendingEnrichments, pendingEnrichments',
              scannerCalls[c].kind = "enrich" /\ scannerCalls[c].current, FALSE)
    BY <1>1, <2>1 DEF Shift
  <2> QED
    BY <1>1, <1>2, <2>1, <2>2, FetchingKeeps
<1> QED
  BY <1>3, <1>4

-----------------------------------------------------------------------------
\* A bulk lookup goes on with the rest of its list, or ends.
LEMMA bulkLookupIsbnsKeeps ==
    ASSUME ScannerInv, NEW c \in Call, bulkLookupIsbns(c)
    PROVE  ScannerInv'
<1> DEFINE i == NextOf(scannerCalls[c])
           todo == scannerCalls[c].todo
           bar == bulkProgress
<1>1. /\ scannerCalls[c] # None /\ scannerCalls[c].kind = "bulk" /\ scannerCalls[c].current
      /\ UNCHANGED <<pendingAdds, pendingEnrichments, pageVars, flawVars, scannerOps>>
  BY DEF bulkLookupIsbns
<1>2. PICK answer \in Results(i) \cup {Failed} :
        /\ scannedBooks' = IF i \in Listed THEN [scannedBooks EXCEPT ![i] = answer] ELSE scannedBooks
        /\ IF todo = {i}
           THEN /\ EndCall(c)
                /\ pendingLookups' = Less(pendingLookups)
                /\ bulkProgress' = [bulkProgress EXCEPT !.completed = @ + 1, !.active = FALSE]
           ELSE /\ scannerCalls' = [scannerCalls EXCEPT ![c].todo = @ \ {i}]
                /\ bulkProgress' = [bulkProgress EXCEPT !.completed = @ + 1, !.started = @ + 1]
                /\ UNCHANGED pendingLookups
  BY Zenon DEF bulkLookupIsbns
<1>3. i \in todo /\ todo \in SUBSET Isbn /\ scannerCalls[c] \in ScannerCall
  BY <1>1 DEF ScannerInv, ScannerTypeOK, CallFits, NextOf, ScannerCall
<1>4. /\ bar \in [active : BOOLEAN, total : Nat, started : Nat, completed : Nat] /\ pendingLookups \in Nat
      /\ scannedBooks \in [Isbn -> ScannedRow \cup {None}] /\ scannerCalls \in [Call -> ScannerCall \cup {None}]
  BY DEF ScannerInv, ScannerTypeOK
<1>5. /\ scannedBooks' \in [Isbn -> ScannedRow \cup {None}] /\ ~Loading(scannedBooks'[i])
      /\ \A j \in Isbn \ {i} : scannedBooks'[j] = scannedBooks[j]
      /\ scannedBooks[i] # None => scannedBooks'[i] # None
  <2>1. answer \in ScannedRow /\ ~Loading(answer) /\ answer # None
    BY <1>3, RowTypes
  <2> QED
    BY <1>2, <1>3, <1>4, <2>1, RowTypes DEF Listed
<1> DEFINE m == [scannerCalls[c] EXCEPT !.todo = @ \ {i}]
<1>6. m \in ScannerCall /\ m # None /\ m.kind = "bulk" /\ m.current /\ m.todo = todo \ {i}
  <2>1. m \in ScannerCall /\ m.kind = "bulk" /\ m.current /\ m.todo = todo \ {i}
    BY <1>1, <1>3 DEF ScannerCall
  <2> QED
    BY <2>1, ScannerNulls
<1>7. PICK call \in {m, None} :
        /\ OthersGoOn(c, scannerCalls') /\ scannerCalls'[c] = call
        /\ \A d \in Call \ {c} : scannerCalls'[d] = scannerCalls[d]
        /\ call = None <=> todo = {i}
  <2>1. CASE todo = {i}
    <3>1. scannerCalls' = [scannerCalls EXCEPT ![c] = None]
      BY <1>2, <2>1 DEF EndCall
    <3> QED
      BY <2>1, <3>1, GoingOn
  <2>2. CASE todo # {i}
    <3>1. scannerCalls' = [scannerCalls EXCEPT ![c] = m]
      BY <1>2, <2>2
    <3> HIDE DEF m
    <3> QED
      BY <1>6, <2>2, <3>1, GoingOn
  <2> QED
    BY <2>1, <2>2
<1> HIDE DEF m
<1>8. /\ c \in InSession(scannerCalls, LookupKinds) /\ c \in InSession(scannerCalls, {"bulk"})
      /\ \A K : "bulk" \notin K => c \notin InSession(scannerCalls, K) /\ c \notin InSession(scannerCalls', K)
      /\ todo = {i} => \A K : c \notin InSession(scannerCalls', K)
      /\ todo # {i} => c \in InSession(scannerCalls', LookupKinds) /\ c \in InSession(scannerCalls', {"bulk"})
  BY <1>1, <1>6, <1>7 DEF InSession, LookupKinds
<1>9. /\ bulkProgress' \in [active : BOOLEAN, total : Nat, started : Nat, completed : Nat]
      /\ bar'.total = bar.total /\ bar'.completed = bar.completed + 1
      /\ todo = {i} => ~bar'.active /\ bar'.started = bar.started
      /\ todo # {i} => bar'.active = bar.active /\ bar'.started = bar.started + 1
  <2> DEFINE k == bar.completed + 1
             n == bar.started + 1
  <2>1. k \in Nat /\ n \in Nat
    BY <1>4
  <2>2. todo = {i} => bulkProgress' = [bulkProgress EXCEPT !.completed = k, !.active = FALSE]
    BY <1>2
  <2>3. todo # {i} => bulkProgress' = [bulkProgress EXCEPT !.completed = k, !.started = n]
    BY <1>2
  <2> HIDE DEF k, n
  <2>4. /\ bulkProgress' \in [active : BOOLEAN, total : Nat, started : Nat, completed : Nat]
        /\ bar'.total = bar.total /\ bar'.completed = k
        /\ todo = {i} => ~bar'.active /\ bar'.started = bar.started
        /\ todo # {i} => bar'.active = bar.active /\ bar'.started = n
    BY <1>4, <2>1, <2>2, <2>3
  <2> QED
    BY <2>4 DEF k, n
<1> HIDE DEF i, todo
<1>10. ScannerTypeOK'
  <2>1. pendingLookups' \in Nat
    BY <1>2, <1>4 DEF Less
  <2> QED
    BY <1>1, <1>5, <1>7, <1>9, <2>1 DEF OthersGoOn, ScannerInv, ScannerTypeOK, pageVars, flawVars
<1>11. scannerCalls'[c] # None => CallFits(scannerCalls'[c], scannedBooks')
  <2>1. todo # {i} => todo \ {i} # {}
    BY <1>3
  <2> QED
    BY <1>6, <1>7, <2>1 DEF CallFits
<1>12. ListedKept(c)
  BY <1>3, <1>5 DEF ListedKept
<1>13. LoadingKept(c)
  <2> SUFFICES ASSUME NEW j \in Isbn, Loading(scannedBooks'[j])
               PROVE  \/ Covers(scannerCalls'[c], j)
                      \/ /\ Loading(scannedBooks[j]) /\ ~Covers(scannerCalls[c], j)
                         /\ \A d \in Call \ {c} : Covers(scannerCalls[d], j) => Covers(scannerCalls'[d], j)
    BY DEF LoadingKept
  <2>1. Loading(scannedBooks[j]) /\ j # i
    BY <1>5
  <2>2. CASE j \in todo
    <3>1. todo # {i}
      BY <2>1, <2>2
    <3> QED
      BY <1>6, <1>7, <2>1, <2>2, <3>1 DEF Covers
  <2>3. CASE j \notin todo
    BY <1>7, <2>1, <2>3 DEF Covers, todo
  <2> QED
    BY <2>2, <2>3
<1>14. CountsFit(scannerCalls', pendingLookups', pendingAdds', pendingEnrichments', miscounted')
  <2>1. Shift(pendingLookups, pendingLookups',
              c \in InSession(scannerCalls, LookupKinds), c \in InSession(scannerCalls', LookupKinds))
    BY <1>2, <1>8 DEF Shift
  <2>2. /\ c \notin InSession(scannerCalls, AddKinds) /\ c \notin InSession(scannerCalls', AddKinds)
        /\ c \notin InSession(scannerCalls, {"enrich"}) /\ c \notin InSession(scannerCalls', {"enrich"})
    BY <1>8 DEF AddKinds
  <2>3. /\ Shift(pendingAdds, pendingAdds',
                 c \in InSession(scannerCalls, AddKinds), c \in InSession(scannerCalls', AddKinds))
        /\ Shift(pendingEnrichments, pendingEnrichments',
                 c \in InSession(scannerCalls, {"enrich"}), c \in InSession(scannerCalls', {"enrich"}))
    BY <1>1, <2>2 DEF Shift
  <2>4. miscounted' = miscounted /\ miscounted \in BOOLEAN
    BY <1>1 DEF flawVars, ScannerInv, ScannerTypeOK
  <2> QED
    BY <1>7, <2>1, <2>3, <2>4, Counting
<1>15. BarFits(scannerCalls', bulkProgress', overlapped')
  <2> SUFFICES ASSUME ~overlapped' PROVE BarFits(scannerCalls', bulkProgress', overlapped')
    BY DEF BarFits
  <2>1. /\ bar.active <=> InSession(scannerCalls, {"bulk"}) # {}
        /\ InSession(scannerCalls, {"bulk"}) = {c}
        /\ bar.started + Cardinality(todo) = bar.total + 1
        /\ bar.completed + 1 = bar.started
    BY <1>1, <1>8 DEF ScannerInv, BarFits, flawVars, todo
  <2>2. InSession(scannerCalls', {"bulk"}) \ {c} = {}
    BY <1>7, <2>1, SessionMoves
  <2>3. /\ IsFiniteSet(todo) /\ Cardinality(todo) \in Nat
        /\ IsFiniteSet(todo \ {i}) /\ Cardinality(todo \ {i}) \in Nat
        /\ Cardinality(todo \ {i}) = Cardinality(todo) - 1
        /\ todo # {i} => Cardinality(todo \ {i}) >= 1
        /\ todo = {i} => Cardinality(todo) = 1
    <3>1. IsFiniteSet(todo) /\ IsFiniteSet(todo \ {i})
      BY <1>3, ScannerAssumption, FS_Subset
    <3>2. /\ Cardinality(todo) \in Nat /\ Cardinality(todo \ {i}) \in Nat
          /\ Cardinality(todo \ {i}) = Cardinality(todo) - 1
          /\ Cardinality(todo \ {i}) = 0 <=> todo \ {i} = {}
      BY <1>3, <3>1, FS_RemoveElement, FS_CardinalityType, FS_EmptySet
    <3> QED
      BY <1>3, <3>1, <3>2
  <2>4. CASE todo = {i}
    <3>1. InSession(scannerCalls', {"bulk"}) = {}
      BY <1>8, <2>2, <2>4
    <3> QED
      BY <1>4, <1>9, <2>1, <2>3, <2>4, <3>1 DEF BarFits
  <2>5. CASE todo # {i}
    <3>1. InSession(scannerCalls', {"bulk"}) = {c} /\ scannerCalls'[c].todo = todo \ {i}
      BY <1>6, <1>7, <1>8, <2>2, <2>5
    <3>2. /\ bar'.active /\ bar'.completed <= bar'.started /\ bar'.started <= bar'.total
          /\ bar'.started + Cardinality(todo \ {i}) = bar'.total + 1
          /\ bar'.completed + 1 = bar'.started
      <4>1. bar.total \in Nat /\ bar.started \in Nat /\ bar.completed \in Nat
        BY <1>4
      <4> QED
        BY <1>9, <2>1, <2>3, <2>5, <4>1
    <3> QED
      BY <3>1, <3>2 DEF BarFits
  <2> QED
    BY <2>4, <2>5
<1>16. TabFits(scannerCalls', lookupResult', formIsbn')
  <2>1. TabFits(scannerCalls', lookupResult, formIsbn)
    BY <1>6, <1>7, TabKept DEF ScannerInv, TabOpen
  <2> QED
    BY <1>1, <2>1 DEF pageVars
<1> QED
  BY <1>7, <1>10, <1>11, <1>12, <1>13, <1>14, <1>15, <1>16, ScannerStep

LEMMA bulkAbortedKeeps ==
    ASSUME ScannerInv, NEW c \in Call, bulkAborted(c)
    PROVE  ScannerInv'
<1>1. /\ scannerCalls[c] # None /\ scannerCalls[c].kind = "bulk" /\ ~scannerCalls[c].current
      /\ scannerCalls' = [scannerCalls EXCEPT ![c] = None]
      /\ UNCHANGED <<scannedBooks, pendingVars, bulkProgress, pageVars, flawVars, scannerOps>>
  BY DEF bulkAborted, EndCall, bulkFinally, pendingVars
<1>2. /\ OthersGoOn(c, scannerCalls') /\ scannerCalls'[c] = None
      /\ \A d \in Call \ {c} : scannerCalls'[d] = scannerCalls[d]
  BY <1>1, GoingOn
<1>3. \A K : c \notin InSession(scannerCalls, K) /\ c \notin InSession(scannerCalls', K)
  BY <1>1, <1>2 DEF InSession
<1>4. ScannerTypeOK'
  BY <1>1, <1>2 DEF OthersGoOn, ScannerInv, ScannerTypeOK, pendingVars, pageVars, flawVars
<1>5. ListedKept(c) /\ LoadingKept(c)
  <2>1. \A j \in Isbn : ~Covers(scannerCalls[c], j)
    BY <1>1 DEF Covers
  <2> QED
    BY <1>1, <1>2, <2>1, SameRows
<1>6. CountsFit(scannerCalls', pendingLookups', pendingAdds', pendingEnrichments', miscounted')
  <2>1. miscounted' = miscounted /\ miscounted \in BOOLEAN /\ UNCHANGED <<pendingLookups, pendingAdds, pendingEnrichments>>
    BY <1>1 DEF flawVars, pendingVars, ScannerInv, ScannerTypeOK
  <2> QED
    BY <1>2, <1>3, <2>1, Counting DEF Shift
<1>7. BarFits(scannerCalls', bulkProgress', overlapped')
  <2>1. BarFits(scannerCalls', bulkProgress, overlapped)
    BY <1>2, <1>3, BarKept DEF ScannerInv
  <2> QED
    BY <1>1, <2>1 DEF flawVars
<1>8. TabFits(scannerCalls', lookupResult', formIsbn')
  <2>1. TabFits(scannerCalls', lookupResult, formIsbn)
    BY <1>2, TabKept DEF ScannerInv, TabOpen
  <2> QED
    BY <1>1, <2>1 DEF pageVars
<1> QED
  BY <1>2, <1>4, <1>5, <1>6, <1>7, <1>8, ScannerStep

-----------------------------------------------------------------------------
\* A book is added, and a call to add books ends.
LEMMA addIsbnsToLibraryKeeps ==
    ASSUME ScannerInv, NEW c \in Call, addIsbnsToLibrary(c)
    PROVE  ScannerInv'
<1> DEFINE i == NextOf(scannerCalls[c])
           rest == IF scannerCalls[c].current THEN scannerCalls[c].todo \ {i} ELSE {}
<1>1. /\ scannerCalls[c] # None /\ scannerCalls[c].kind \in {"add", "tabAdd"} /\ scannerCalls[c].todo # {}
      /\ UNCHANGED <<scannedBooks, pendingVars, bulkProgress, openTab, lookupResult, formIsbn, flawVars, scannerOps>>
  BY DEF addIsbnsToLibrary
<1>2. scannerCalls[c] \in ScannerCall /\ i \in Isbn /\ rest \in SUBSET Isbn
  BY <1>1 DEF ScannerInv, ScannerTypeOK, ScannerCall, NextOf
<1>3. /\ library' \in {library, library \cup {i}}
      /\ \/ scannerCalls' = [scannerCalls EXCEPT ![c].todo = rest, ![c].added = @ \cup {i}]
         \/ scannerCalls' = [scannerCalls EXCEPT ![c].todo = rest, ![c].failed = @ \cup {i}]
         \/ scannerCalls' = [scannerCalls EXCEPT ![c].todo = rest, ![c].owned = @ \cup {i}]
  BY DEF addIsbnsToLibrary
<1> HIDE DEF i, rest
<1>4. PICK m \in ScannerCall :
        /\ m.kind = scannerCalls[c].kind /\ m.current = scannerCalls[c].current
        /\ scannerCalls' = [scannerCalls EXCEPT ![c] = m]
  <2> DEFINE a == [scannerCalls[c] EXCEPT !.todo = rest, !.added = @ \cup {i}]
             f == [scannerCalls[c] EXCEPT !.todo = rest, !.failed = @ \cup {i}]
             o == [scannerCalls[c] EXCEPT !.todo = rest, !.owned = @ \cup {i}]
  <2>1. a \in ScannerCall /\ a.kind = scannerCalls[c].kind /\ a.current = scannerCalls[c].current
    BY <1>2 DEF ScannerCall
  <2>2. f \in ScannerCall /\ f.kind = scannerCalls[c].kind /\ f.current = scannerCalls[c].current
    BY <1>2 DEF ScannerCall
  <2>3. o \in ScannerCall /\ o.kind = scannerCalls[c].kind /\ o.current = scannerCalls[c].current
    BY <1>2 DEF ScannerCall
  <2>4. \/ scannerCalls' = [scannerCalls EXCEPT ![c] = a]
        \/ scannerCalls' = [scannerCalls EXCEPT ![c] = f]
        \/ scannerCalls' = [scannerCalls EXCEPT ![c] = o]
    BY <1>3 DEF ScannerInv, ScannerTypeOK
  <2> HIDE DEF a, f, o
  <2> QED
    BY <2>1, <2>2, <2>3, <2>4
<1>5. /\ OthersGoOn(c, scannerCalls') /\ scannerCalls'[c] = m /\ m # None
      /\ \A d \in Call \ {c} : scannerCalls'[d] = scannerCalls[d]
  BY <1>4, GoingOn, ScannerNulls
<1>6. \A K : c \in InSession(scannerCalls, K) <=> c \in InSession(scannerCalls', K)
  BY <1>1, <1>4, <1>5 DEF InSession
<1>7. ScannerTypeOK'
  BY <1>1, <1>2, <1>3, <1>5 DEF OthersGoOn, ScannerInv, ScannerTypeOK, pendingVars, flawVars
<1>8. CallFits(scannerCalls'[c], scannedBooks')
  BY <1>1, <1>4, <1>5 DEF CallFits
<1>9. ListedKept(c) /\ LoadingKept(c)
  <2>1. \A j \in Isbn : ~Covers(scannerCalls[c], j)
    BY <1>1 DEF Covers
  <2> QED
    BY <1>1, <1>5, <2>1, SameRows
<1>10. CountsFit(scannerCalls', pendingLookups', pendingAdds', pendingEnrichments', miscounted')
  <2>1. miscounted' = miscounted /\ miscounted \in BOOLEAN /\ UNCHANGED <<pendingLookups, pendingAdds, pendingEnrichments>>
    BY <1>1 DEF flawVars, pendingVars, ScannerInv, ScannerTypeOK
  <2> QED
    BY <1>5, <1>6, <2>1, Counting DEF Shift
<1>11. BarFits(scannerCalls', bulkProgress', overlapped')
  <2>1. c \notin InSession(scannerCalls, {"bulk"})
    BY <1>1 DEF InSession
  <2>2. BarFits(scannerCalls', bulkProgress, overlapped)
    BY <1>5, <1>6, <2>1, BarKept DEF ScannerInv
  <2> QED
    BY <1>1, <2>2 DEF flawVars
<1>12. TabFits(scannerCalls', lookupResult', formIsbn')
  <2>1. TabFits(scannerCalls', lookupResult, formIsbn)
    BY <1>1, <1>4, <1>5, TabKept DEF ScannerInv, TabOpen
  <2> QED
    BY <1>1, <2>1
<1> QED
  BY <1>5, <1>7, <1>8, <1>9, <1>10, <1>11, <1>12, ScannerStep

\* What becomes of the lookups whose book leaves the list.
LEMMA UnlistedMeans ==
    ASSUME ScannerInv, NEW isbns, NEW callsNow, callsNow = Unlisted(scannerCalls, isbns)
    PROVE  /\ callsNow \in [Call -> ScannerCall \cup {None}]
           /\ \A d \in Call :
                /\ (callsNow[d] = None) = (scannerCalls[d] = None)
                /\ scannerCalls[d] # None =>
                     /\ callsNow[d].kind = scannerCalls[d].kind /\ callsNow[d].todo = scannerCalls[d].todo
                     /\ callsNow[d].current = scannerCalls[d].current /\ callsNow[d].latest = scannerCalls[d].latest
                     /\ callsNow[d].listed => scannerCalls[d].listed
                     /\ callsNow[d].kind = "one" /\ callsNow[d].todo \subseteq isbns => ~callsNow[d].listed
                     /\ ~(callsNow[d].kind = "one" /\ callsNow[d].todo \subseteq isbns) => callsNow[d] = scannerCalls[d]
<1>1. scannerCalls \in [Call -> ScannerCall \cup {None}]
  BY DEF ScannerInv, ScannerTypeOK
<1> DEFINE m(d) == [scannerCalls[d] EXCEPT !.listed = FALSE]
<1>2. ASSUME NEW d \in Call, scannerCalls[d] # None
      PROVE  /\ m(d) \in ScannerCall /\ m(d).kind = scannerCalls[d].kind /\ m(d).todo = scannerCalls[d].todo
             /\ m(d).current = scannerCalls[d].current /\ m(d).latest = scannerCalls[d].latest /\ ~m(d).listed
  BY <1>1, <1>2 DEF ScannerCall
<1>3. callsNow = [d \in Call |-> IF scannerCalls[d] # None /\ scannerCalls[d].kind = "one" /\ scannerCalls[d].todo \subseteq isbns
                               THEN m(d) ELSE scannerCalls[d]]
  BY DEF Unlisted
<1> HIDE DEF m
<1>4. ASSUME NEW d \in Call
      PROVE  /\ callsNow[d] \in ScannerCall \cup {None}
             /\ (callsNow[d] = None) = (scannerCalls[d] = None)
             /\ scannerCalls[d] # None =>
                     /\ callsNow[d].kind = scannerCalls[d].kind /\ callsNow[d].todo = scannerCalls[d].todo
                     /\ callsNow[d].current = scannerCalls[d].current /\ callsNow[d].latest = scannerCalls[d].latest
                     /\ callsNow[d].listed => scannerCalls[d].listed
                     /\ callsNow[d].kind = "one" /\ callsNow[d].todo \subseteq isbns => ~callsNow[d].listed
                     /\ ~(callsNow[d].kind = "one" /\ callsNow[d].todo \subseteq isbns) => callsNow[d] = scannerCalls[d]
  BY <1>1, <1>2, <1>3, ScannerNulls
<1> QED
  BY <1>3, <1>4

LEMMA AddReturnsKeeps ==
    ASSUME ScannerInv, NEW c \in Call, AddReturns(c)
    PROVE  ScannerInv'
<1> DEFINE call == scannerCalls[c]
           gone == IF call.current /\ call.listed THEN call.added ELSE {}
           callsNow == Unlisted(scannerCalls, gone)
<1>1. /\ call # None /\ call.kind \in {"add", "tabAdd"} /\ addFinally(c)
      /\ scannerCalls' = [callsNow EXCEPT ![c] = None]
      /\ UNCHANGED <<bulkProgress, pageVars, scannerOps>>
  BY DEF AddReturns
<1>2. scannedBooks' = [i \in Isbn |->
            IF ~call.current \/ ~call.listed \/ scannedBooks[i] = None THEN scannedBooks[i]
            ELSE IF i \in call.added THEN None
            ELSE IF i \in call.owned THEN Book("already_owned", FALSE)
            ELSE IF i \in call.failed THEN Book("found", TRUE)
            ELSE scannedBooks[i]]
  BY DEF AddReturns
<1>3. /\ call \in ScannerCall /\ call.current \in BOOLEAN /\ scannedBooks \in [Isbn -> ScannedRow \cup {None}]
      /\ pendingAdds \in Nat /\ miscounted \in BOOLEAN
  BY <1>1 DEF ScannerInv, ScannerTypeOK, ScannerCall
<1>4. ASSUME NEW i \in Isbn
      PROVE  /\ scannedBooks'[i] \in ScannedRow \cup {None}
             /\ Loading(scannedBooks'[i]) => scannedBooks'[i] = scannedBooks[i]
             /\ scannedBooks[i] # None /\ scannedBooks'[i] = None => i \in gone
             /\ Loading(scannedBooks'[i]) => i \notin gone
  <2>1. \/ scannedBooks'[i] = scannedBooks[i] /\ (i \in gone => scannedBooks[i] = None)
        \/ scannedBooks'[i] = None /\ i \in gone
        \/ scannedBooks'[i] \in {Book("already_owned", FALSE), Book("found", TRUE)}
    BY <1>2
  <2> HIDE DEF gone
  <2> QED
    BY <1>3, <2>1, RowTypes
<1>5. scannedBooks' \in [Isbn -> ScannedRow \cup {None}]
  BY <1>2, <1>4
<1> HIDE DEF gone
<1>6. /\ callsNow \in [Call -> ScannerCall \cup {None}]
      /\ \A d \in Call :
                /\ (callsNow[d] = None) = (scannerCalls[d] = None)
                /\ scannerCalls[d] # None =>
                     /\ callsNow[d].kind = scannerCalls[d].kind /\ callsNow[d].todo = scannerCalls[d].todo
                     /\ callsNow[d].current = scannerCalls[d].current /\ callsNow[d].latest = scannerCalls[d].latest
                     /\ callsNow[d].listed => scannerCalls[d].listed
                     /\ callsNow[d].kind = "one" /\ callsNow[d].todo \subseteq gone => ~callsNow[d].listed
                     /\ ~(callsNow[d].kind = "one" /\ callsNow[d].todo \subseteq gone) => callsNow[d] = scannerCalls[d]
  BY UnlistedMeans
<1> HIDE DEF callsNow
<1>7. /\ scannerCalls'[c] = None /\ \A d \in Call \ {c} : scannerCalls'[d] = callsNow[d]
      /\ scannerCalls' \in [Call -> ScannerCall \cup {None}]
  BY <1>1, <1>6
<1>8. OthersGoOn(c, scannerCalls')
  BY <1>6, <1>7 DEF OthersGoOn
<1>9. \A d \in Call, i \in Isbn : scannerCalls[d] # None /\ scannerCalls[d].kind = "one" /\ i \in scannerCalls[d].todo
        => scannerCalls[d].todo = {i}
  BY DEF ScannerInv, CallFits
<1>10. ListedKept(c)
  <2> SUFFICES ASSUME NEW d \in Call \ {c}, NEW i \in Isbn,
                      scannerCalls'[d] # None /\ scannerCalls'[d].kind = "one" /\ scannerCalls'[d].listed,
                      i \in scannerCalls'[d].todo, scannedBooks[i] # None, i \in gone
               PROVE  FALSE
    BY <1>4 DEF ListedKept
  <2> QED
    BY <1>6, <1>7, <1>9
<1>11. LoadingKept(c)
  <2> SUFFICES ASSUME NEW i \in Isbn, Loading(scannedBooks'[i])
               PROVE  /\ Loading(scannedBooks[i]) /\ ~Covers(scannerCalls[c], i)
                      /\ \A d \in Call \ {c} : Covers(scannerCalls[d], i) => Covers(scannerCalls'[d], i)
    BY DEF LoadingKept
  <2>1. Loading(scannedBooks[i]) /\ i \notin gone
    BY <1>4
  <2>2. ~Covers(scannerCalls[c], i)
    BY <1>1 DEF Covers
  <2>3. ASSUME NEW d \in Call \ {c}, Covers(scannerCalls[d], i) PROVE Covers(scannerCalls'[d], i)
    <3>1. scannerCalls[d] # None /\ i \in scannerCalls[d].todo
      BY <2>3 DEF Covers
    <3>2. scannerCalls'[d] = scannerCalls[d]
      BY <1>6, <1>7, <2>1, <3>1
    <3> QED
      BY <2>3, <3>2
  <2> QED
    BY <2>1, <2>2, <2>3
<1>12. /\ c \notin InSession(scannerCalls, LookupKinds) /\ c \notin InSession(scannerCalls, {"bulk"})
       /\ c \notin InSession(scannerCalls, {"enrich"})
       /\ \A K : c \notin InSession(scannerCalls', K)
       /\ call.current => c \in InSession(scannerCalls, AddKinds)
  BY <1>1, <1>7 DEF InSession, LookupKinds, AddKinds
<1>13. /\ pendingAdds' = Less(pendingAdds) /\ miscounted' = (miscounted \/ ~call.current)
       /\ UNCHANGED <<pendingLookups, pendingEnrichments, overlapped>>
  BY <1>1 DEF addFinally
<1> HIDE DEF call
<1>14. CountsFit(scannerCalls', pendingLookups', pendingAdds', pendingEnrichments', miscounted')
  <2>1. /\ Shift(pendingLookups, pendingLookups',
                 c \in InSession(scannerCalls, LookupKinds), c \in InSession(scannerCalls', LookupKinds))
        /\ Shift(pendingEnrichments, pendingEnrichments',
                 c \in InSession(scannerCalls, {"enrich"}), c \in InSession(scannerCalls', {"enrich"}))
    BY <1>12, <1>13 DEF Shift
  <2>2. call.current => Shift(pendingAdds, pendingAdds',
                 c \in InSession(scannerCalls, AddKinds), c \in InSession(scannerCalls', AddKinds))
    BY <1>12, <1>13 DEF Shift
  <2> QED
    BY <1>3, <1>8, <1>13, <2>1, <2>2, Counting
<1>15. BarFits(scannerCalls', bulkProgress', overlapped')
  <2>1. BarFits(scannerCalls', bulkProgress, overlapped)
    BY <1>8, <1>12, BarKept DEF ScannerInv
  <2> QED
    BY <1>1, <1>13, <2>1
<1>16. TabFits(scannerCalls', lookupResult', formIsbn')
  <2>1. TabFits(scannerCalls', lookupResult, formIsbn)
    BY <1>7, <1>8, TabKept DEF ScannerInv, TabOpen
  <2> QED
    BY <1>1, <2>1 DEF pageVars
<1>17. ScannerTypeOK'
  <2>1. pendingAdds' \in Nat /\ miscounted' \in BOOLEAN
    BY <1>3, <1>13 DEF Less
  <2> QED
    BY <1>1, <1>5, <1>7, <1>13, <2>1 DEF ScannerInv, ScannerTypeOK, pageVars
<1> QED
  BY <1>7, <1>8, <1>10, <1>11, <1>14, <1>15, <1>16, <1>17, ScannerStep

-----------------------------------------------------------------------------
\* Steps of the user beside the calls.
LEMMA BesideCalls ==
    ASSUME ScannerInv, OthersGoOn(None, scannerCalls'), ScannerTypeOK',
           UNCHANGED <<pendingVars, bulkProgress, flawVars>>,
           ListedKept(None), LoadingKept(None), TabFits(scannerCalls', lookupResult', formIsbn')
    PROVE  ScannerInv'
<1>1. None \notin Call
  BY NoneAssumption
<1>2. \A K : None \notin InSession(scannerCalls, K) /\ None \notin InSession(scannerCalls', K)
  BY <1>1 DEF InSession
<1>3. CountsFit(scannerCalls', pendingLookups', pendingAdds', pendingEnrichments', miscounted')
  <2>1. miscounted' = miscounted /\ miscounted \in BOOLEAN /\ UNCHANGED <<pendingLookups, pendingAdds, pendingEnrichments>>
    BY DEF flawVars, pendingVars, ScannerInv, ScannerTypeOK
  <2> QED
    BY <1>2, <2>1, Counting DEF Shift
<1>4. BarFits(scannerCalls', bulkProgress', overlapped')
  <2>1. BarFits(scannerCalls', bulkProgress, overlapped)
    BY <1>2, BarKept DEF ScannerInv
  <2> QED
    BY <2>1 DEF flawVars
<1> QED
  BY <1>1, <1>3, <1>4, ScannerStep

LEMMA removeIsbnKeeps ==
    ASSUME ScannerInv, NEW i \in Isbn, removeIsbn(i)
    PROVE  ScannerInv'
<1>1. /\ scannedBooks' = [scannedBooks EXCEPT ![i] = None]
      /\ scannerCalls' = Unlisted(scannerCalls, {i})
      /\ UNCHANGED <<pendingVars, bulkProgress, pageVars, flawVars>>
  BY DEF removeIsbn
<1>2. /\ scannedBooks' \in [Isbn -> ScannedRow \cup {None}] /\ scannedBooks'[i] = None
      /\ \A j \in Isbn \ {i} : scannedBooks'[j] = scannedBooks[j]
  BY <1>1 DEF ScannerInv, ScannerTypeOK
<1>3. /\ scannerCalls' \in [Call -> ScannerCall \cup {None}]
      /\ \A d \in Call :
                /\ (scannerCalls'[d] = None) = (scannerCalls[d] = None)
                /\ scannerCalls[d] # None =>
                     /\ scannerCalls'[d].kind = scannerCalls[d].kind /\ scannerCalls'[d].todo = scannerCalls[d].todo
                     /\ scannerCalls'[d].current = scannerCalls[d].current
                     /\ scannerCalls'[d].latest = scannerCalls[d].latest
                     /\ scannerCalls'[d].listed => scannerCalls[d].listed
                     /\ scannerCalls'[d].kind = "one" /\ scannerCalls'[d].todo \subseteq {i} => ~scannerCalls'[d].listed
                     /\ ~(scannerCalls'[d].kind = "one" /\ scannerCalls'[d].todo \subseteq {i})
                          => scannerCalls'[d] = scannerCalls[d]
  BY <1>1, UnlistedMeans
<1>4. OthersGoOn(None, scannerCalls')
  BY <1>3 DEF OthersGoOn
<1>5. ScannerTypeOK'
  BY <1>1, <1>2, <1>3 DEF ScannerInv, ScannerTypeOK, pendingVars, pageVars, flawVars
<1>6. \A d \in Call : scannerCalls[d] # None /\ scannerCalls[d].kind = "one" => \E j \in Isbn : scannerCalls[d].todo = {j}
  BY DEF ScannerInv, CallFits
<1>7. ListedKept(None)
  <2> SUFFICES ASSUME NEW d \in Call, scannerCalls'[d] # None /\ scannerCalls'[d].kind = "one" /\ scannerCalls'[d].listed,
                      i \in scannerCalls'[d].todo
               PROVE  FALSE
    BY <1>2 DEF ListedKept
  <2> QED
    BY <1>3, <1>6
<1>8. LoadingKept(None)
  <2> SUFFICES ASSUME NEW j \in Isbn, Loading(scannedBooks'[j])
               PROVE  /\ Loading(scannedBooks[j])
                      /\ \A d \in Call : Covers(scannerCalls[d], j) => Covers(scannerCalls'[d], j)
    BY NoneAssumption DEF LoadingKept
  <2>1. j # i /\ Loading(scannedBooks[j])
    BY <1>2, RowTypes
  <2>2. ASSUME NEW d \in Call, Covers(scannerCalls[d], j) PROVE Covers(scannerCalls'[d], j)
    <3>1. scannerCalls[d] # None /\ j \in scannerCalls[d].todo
      BY <2>2 DEF Covers
    <3>2. scannerCalls'[d] = scannerCalls[d]
      BY <1>3, <2>1, <3>1
    <3> QED
      BY <2>2, <3>2
  <2> QED
    BY <2>1, <2>2
<1>9. TabFits(scannerCalls', lookupResult', formIsbn')
  <2>1. TabFits(scannerCalls', lookupResult, formIsbn)
    BY <1>4, NoneAssumption, TabKept DEF ScannerInv
  <2> QED
    BY <1>1, <2>1 DEF pageVars
<1> QED
  BY <1>1, <1>4, <1>5, <1>7, <1>8, <1>9, BesideCalls

LEMMA SelectKeeps ==
    ASSUME ScannerInv, NEW isbns, NEW selected \in BOOLEAN, Select(isbns, selected)
    PROVE  ScannerInv'
<1>1. /\ scannedBooks' = [i \in Isbn |->
         IF i \in isbns /\ scannedBooks[i] # None /\ (scannedBooks[i].status = "found" \/ ~selected)
         THEN [scannedBooks[i] EXCEPT !.selected = selected] ELSE scannedBooks[i]]
      /\ UNCHANGED <<scannerCalls, pendingVars, bulkProgress, pageVars, flawVars>>
  BY DEF Select
<1>2. ASSUME NEW i \in Isbn
      PROVE  /\ scannedBooks'[i] \in ScannedRow \cup {None} /\ (scannedBooks'[i] = None <=> scannedBooks[i] = None)
             /\ Loading(scannedBooks'[i]) => Loading(scannedBooks[i])
  <2>1. scannedBooks[i] \in ScannedRow \cup {None}
    BY DEF ScannerInv, ScannerTypeOK
  <2> DEFINE row == [scannedBooks[i] EXCEPT !.selected = selected]
  <2>2. scannedBooks[i] # None => row \in ScannedRow /\ row.status = scannedBooks[i].status
    BY <2>1 DEF ScannedRow
  <2>3. scannedBooks'[i] = scannedBooks[i] \/ (scannedBooks[i] # None /\ scannedBooks'[i] = row)
    BY <1>1
  <2> HIDE DEF row
  <2> QED
    BY <2>1, <2>2, <2>3, ScannerNulls DEF Loading
<1>3. ScannerTypeOK'
  <2>1. scannedBooks' \in [Isbn -> ScannedRow \cup {None}]
    BY <1>1, <1>2
  <2> QED
    BY <1>1, <2>1 DEF ScannerInv, ScannerTypeOK, pendingVars, pageVars, flawVars
<1>4. OthersGoOn(None, scannerCalls')
  BY <1>1 DEF OthersGoOn, ScannerInv, ScannerTypeOK
<1>5. ListedKept(None) /\ LoadingKept(None)
  BY <1>1, <1>2, NoneAssumption DEF ListedKept, LoadingKept
<1>6. TabFits(scannerCalls', lookupResult', formIsbn')
  BY <1>1 DEF ScannerInv, pageVars
<1> QED
  BY <1>1, <1>3, <1>4, <1>5, <1>6, BesideCalls

LEMMA toggleSelectionKeeps ==
    ASSUME ScannerInv, NEW i \in Isbn, toggleSelection(i)
    PROVE  ScannerInv'
<1>1. Select({i}, ~scannedBooks[i].selected)
  BY DEF toggleSelection
<1>2. (~scannedBooks[i].selected) \in BOOLEAN
  OBVIOUS
<1> QED
  BY <1>1, <1>2, SelectKeeps

LEMMA resetTabKeeps ==
    ASSUME ScannerInv, NEW tab \in {"isbn", "list"}, resetTab(tab)
    PROVE  ScannerInv'
<1> DEFINE m(d) == [scannerCalls[d] EXCEPT !.listed = FALSE]
<1>1. /\ lookupResult # None \/ tab = "list"
      /\ lookupResult' = None /\ formIsbn' = None /\ openTab' = tab
      /\ scannerCalls' = [d \in Call |-> IF tab = "list" /\ scannerCalls[d] # None /\ scannerCalls[d].kind = "tab"
                                         THEN m(d) ELSE scannerCalls[d]]
      /\ UNCHANGED <<scannedBooks, pendingVars, bulkProgress, library, flawVars>>
  BY DEF resetTab
<1>2. ASSUME NEW d \in Call, scannerCalls[d] # None
      PROVE  /\ m(d) \in ScannerCall /\ m(d).kind = scannerCalls[d].kind /\ m(d).todo = scannerCalls[d].todo
             /\ m(d).current = scannerCalls[d].current /\ m(d).latest = scannerCalls[d].latest /\ ~m(d).listed
  BY <1>2 DEF ScannerCall, ScannerInv, ScannerTypeOK
<1> HIDE DEF m
<1>3. ASSUME NEW d \in Call
      PROVE  /\ scannerCalls'[d] \in ScannerCall \cup {None}
             /\ (scannerCalls'[d] = None) = (scannerCalls[d] = None)
             /\ scannerCalls[d] # None =>
                  /\ scannerCalls'[d].kind = scannerCalls[d].kind /\ scannerCalls'[d].todo = scannerCalls[d].todo
                  /\ scannerCalls'[d].current = scannerCalls[d].current
                  /\ scannerCalls'[d].latest = scannerCalls[d].latest
                  /\ scannerCalls'[d].listed => scannerCalls[d].listed
                  /\ scannerCalls[d].kind # "tab" => scannerCalls'[d] = scannerCalls[d]
                  /\ scannerCalls[d].kind = "tab" /\ tab = "list" => ~scannerCalls'[d].listed
                  /\ tab # "list" => scannerCalls'[d] = scannerCalls[d]
  BY <1>1, <1>2, ScannerNulls DEF ScannerInv, ScannerTypeOK
<1>4. OthersGoOn(None, scannerCalls')
  <2>1. scannerCalls' \in [Call -> ScannerCall \cup {None}]
    BY <1>1, <1>3
  <2> QED
    BY <1>3, <2>1 DEF OthersGoOn
<1>5. ScannerTypeOK'
  BY <1>1, <1>4 DEF OthersGoOn, ScannerInv, ScannerTypeOK, pendingVars, flawVars
<1>6. ListedKept(None) /\ LoadingKept(None)
  <2>1. ASSUME NEW d \in Call, NEW i \in Isbn, Covers(scannerCalls[d], i) PROVE Covers(scannerCalls'[d], i)
    <3>1. scannerCalls[d] # None /\ scannerCalls[d].kind # "tab"
      BY <2>1 DEF Covers
    <3> QED
      BY <1>3, <2>1, <3>1
  <2> QED
    BY <1>1, <1>4, <2>1, NoneAssumption, SameRows
<1>7. TabFits(scannerCalls', lookupResult', formIsbn')
  <2>1. \A d \in Call : ~TabOpen(scannerCalls'[d])
    <3>1. CASE tab = "list"
      BY <1>3, <3>1 DEF TabOpen
    <3>2. CASE tab # "list"
      BY <1>1, <1>3, <3>2 DEF TabFits, ScannerInv
    <3> QED
      BY <3>1, <3>2
  <2> QED
    BY <1>1, <2>1 DEF TabFits
<1> QED
  BY <1>1, <1>4, <1>5, <1>6, <1>7, BesideCalls

-----------------------------------------------------------------------------
\* A new session: the calls of the old one count no more.
Outdated(callsNow, but) ==
    \A d \in Call \ {but} :
        /\ callsNow[d] \in ScannerCall \cup {None}
        /\ callsNow[d] # None => /\ scannerCalls[d] # None
                              /\ callsNow[d].kind = scannerCalls[d].kind /\ callsNow[d].todo = scannerCalls[d].todo
                              /\ ~callsNow[d].current /\ ~callsNow[d].latest /\ ~callsNow[d].listed

LEMMA NewSession ==
    ASSUME ScannerInv
    PROVE  Outdated(OfOldSession(scannerCalls), None) /\ Outdated(Superseded(OfOldSession(scannerCalls)), None)
<1> DEFINE m(d) == [scannerCalls[d] EXCEPT !.current = FALSE, !.latest = FALSE, !.listed = FALSE]
           n(d) == [m(d) EXCEPT !.latest = FALSE]
           old == OfOldSession(scannerCalls)
<1>1. ASSUME NEW d \in Call, scannerCalls[d] # None
      PROVE  /\ m(d) \in ScannerCall /\ m(d).kind = scannerCalls[d].kind /\ m(d).todo = scannerCalls[d].todo
             /\ ~m(d).current /\ ~m(d).latest /\ ~m(d).listed
  BY <1>1 DEF ScannerCall, ScannerInv, ScannerTypeOK
<1>2. old = [d \in Call |-> IF scannerCalls[d] = None THEN None ELSE m(d)]
  BY DEF OfOldSession
<1> HIDE DEF m
<1>3. ASSUME NEW d \in Call, scannerCalls[d] # None
      PROVE  /\ n(d) \in ScannerCall /\ n(d).kind = m(d).kind /\ n(d).todo = m(d).todo
             /\ n(d).current = m(d).current /\ ~n(d).latest /\ n(d).listed = m(d).listed
  BY <1>1, <1>3 DEF ScannerCall
<1>4. Superseded(old) = [d \in Call |-> IF old[d] = None THEN None ELSE [old[d] EXCEPT !.latest = FALSE]]
  BY DEF Superseded
<1> HIDE DEF old
<1>5. ASSUME NEW d \in Call PROVE Superseded(old)[d] = IF scannerCalls[d] = None THEN None ELSE n(d)
  BY <1>1, <1>2, <1>4, ScannerNulls
<1> HIDE DEF n
<1>6. Outdated(old, None)
  BY <1>1, <1>2, NoneAssumption DEF Outdated
<1>7. Outdated(Superseded(old), None)
  BY <1>1, <1>3, <1>5, NoneAssumption DEF Outdated
<1> QED
  BY <1>6, <1>7 DEF old

\* Nothing counts in the new session but the call it begins with, if any.
LEMMA SessionOf ==
    ASSUME NEW callsNow, NEW but, Outdated(callsNow, but), NEW K
    PROVE  InSession(callsNow, K) = IF but \in Call /\ callsNow[but] # None /\ callsNow[but].current /\ callsNow[but].kind \in K
                                 THEN {but} ELSE {}
BY DEF InSession, Outdated

LEMMA clearAllKeeps ==
    ASSUME ScannerInv, NEW tab \in {"isbn", "list"}, clearAll(tab)
    PROVE  ScannerInv'
<1>1. /\ openTab' = tab
      /\ scannedBooks' = [i \in Isbn |-> None]
      /\ scannerCalls' = OfOldSession(scannerCalls)
      /\ pendingLookups' = 0 /\ pendingAdds' = 0 /\ pendingEnrichments' = 0
      /\ bulkProgress' = NoProgress
      /\ miscounted' = FALSE /\ overlapped' = FALSE
      /\ UNCHANGED <<lookupResult, formIsbn, library, scannerOps>>
  BY DEF clearAll
<1>2. Outdated(scannerCalls', None) /\ None \notin Call
  BY <1>1, NewSession, NoneAssumption
<1>3. \A K : InSession(scannerCalls', K) = {}
  BY <1>2, SessionOf
<1>4. ScannerTypeOK'
  <2>1. scannerCalls' \in [Call -> ScannerCall \cup {None}]
    BY <1>1, <1>2 DEF Outdated, OfOldSession
  <2>2. NoProgress \in [active : BOOLEAN, total : Nat, started : Nat, completed : Nat]
    BY DEF NoProgress
  <2> QED
    BY <1>1, <2>1, <2>2 DEF ScannerInv, ScannerTypeOK
<1>5. \A d \in Call : scannerCalls'[d] # None => CallFits(scannerCalls'[d], scannedBooks')
  BY <1>2 DEF Outdated, CallFits, ScannerInv
<1>6. LoadingCovered(scannedBooks', scannerCalls')
  BY <1>1, RowTypes DEF LoadingCovered
<1>7. CountsFit(scannerCalls', pendingLookups', pendingAdds', pendingEnrichments', miscounted')
  BY <1>1, <1>3, FS_EmptySet DEF CountsFit
<1>8. BarFits(scannerCalls', bulkProgress', overlapped')
  BY <1>1, <1>3 DEF BarFits, NoProgress
<1>9. TabFits(scannerCalls', lookupResult', formIsbn')
  BY <1>1, <1>2 DEF Outdated, TabFits, TabOpen, ScannerInv
<1> QED
  BY <1>4, <1>5, <1>6, <1>7, <1>8, <1>9 DEF ScannerInv

LEMMA scanOnceKeeps ==
    ASSUME ScannerInv, NEW c \in Call, NEW i \in Isbn, scanOnce(c, i)
    PROVE  ScannerInv'
<1> DEFINE old == Superseded(OfOldSession(scannerCalls))
<1>1. /\ scannedBooks' = [j \in Isbn |-> IF j = i THEN Book("loading", TRUE) ELSE None]
      /\ BeginCall(c, old, "one", {i})
      /\ pendingLookups' = 1 /\ pendingAdds' = 0 /\ pendingEnrichments' = 0
      /\ bulkProgress' = NoProgress
      /\ miscounted' = FALSE /\ overlapped' = FALSE
      /\ UNCHANGED pageVars
  BY DEF scanOnce
<1>2. scannerCalls' = [old EXCEPT ![c] = NewCall("one", {i})]
  BY <1>1 DEF BeginCall, NewCall
<1>3. Outdated(old, None) /\ DOMAIN old = Call /\ old = [d \in Call |-> old[d]]
  BY NewSession DEF Superseded
<1>4. /\ scannerCalls'[c] = NewCall("one", {i}) /\ \A d \in Call \ {c} : scannerCalls'[d] = old[d]
      /\ scannerCalls' = [d \in Call |-> scannerCalls'[d]]
  <2> HIDE DEF old
  <2> QED
    BY <1>2, <1>3
<1>5. Outdated(scannerCalls', c)
  BY <1>3, <1>4, NoneAssumption DEF Outdated
<1>6. /\ scannerCalls'[c] \in ScannerCall /\ scannerCalls'[c] # None
      /\ scannerCalls'[c].kind = "one" /\ scannerCalls'[c].todo = {i}
      /\ scannerCalls'[c].current /\ scannerCalls'[c].listed
  <2> DEFINE m == NewCall("one", {i})
  <2>1. m \in ScannerCall /\ m # None /\ m.kind = "one" /\ m.todo = {i} /\ m.current /\ m.listed
    BY NewCallMeans DEF CallKind
  <2> HIDE DEF m
  <2> QED
    BY <1>4, <2>1 DEF m
<1>7. \A K : InSession(scannerCalls', K) = IF "one" \in K THEN {c} ELSE {}
  BY <1>5, <1>6, SessionOf
<1> HIDE DEF old
<1>8. ScannerTypeOK'
  <2>1. scannerCalls' \in [Call -> ScannerCall \cup {None}]
    BY <1>4, <1>5, <1>6 DEF Outdated
  <2>2. scannedBooks' \in [Isbn -> ScannedRow \cup {None}]
    BY <1>1, RowTypes
  <2>3. NoProgress \in [active : BOOLEAN, total : Nat, started : Nat, completed : Nat]
    BY DEF NoProgress
  <2> QED
    BY <1>1, <2>1, <2>2, <2>3 DEF ScannerInv, ScannerTypeOK, pageVars
<1>9. \A d \in Call : scannerCalls'[d] # None => CallFits(scannerCalls'[d], scannedBooks')
  <2>1. CallFits(scannerCalls'[c], scannedBooks')
    BY <1>1, <1>6, RowTypes DEF CallFits
  <2>2. ASSUME NEW d \in Call \ {c}, scannerCalls'[d] # None PROVE CallFits(scannerCalls'[d], scannedBooks')
    BY <1>5, <2>2 DEF Outdated, CallFits, ScannerInv
  <2> QED
    BY <2>1, <2>2
<1>10. LoadingCovered(scannedBooks', scannerCalls')
  <2>1. Covers(scannerCalls'[c], i)
    BY <1>6 DEF Covers
  <2> QED
    BY <1>1, <2>1, RowTypes DEF LoadingCovered
<1>11. CountsFit(scannerCalls', pendingLookups', pendingAdds', pendingEnrichments', miscounted')
  <2>1. /\ InSession(scannerCalls', LookupKinds) = {c} /\ InSession(scannerCalls', AddKinds) = {}
        /\ InSession(scannerCalls', {"enrich"}) = {}
    BY <1>7 DEF LookupKinds, AddKinds
  <2> QED
    BY <1>1, <2>1, FS_EmptySet, FS_Singleton DEF CountsFit
<1>12. BarFits(scannerCalls', bulkProgress', overlapped')
  <2>1. InSession(scannerCalls', {"bulk"}) = {}
    BY <1>7
  <2> QED
    BY <1>1, <2>1 DEF BarFits, NoProgress
<1>13. TabFits(scannerCalls', lookupResult', formIsbn')
  <2>1. \A d \in Call : ~TabOpen(scannerCalls'[d])
    BY <1>5, <1>6 DEF Outdated, TabOpen
  <2> QED
    BY <1>1, <2>1 DEF TabFits, ScannerInv, pageVars
<1> QED
  BY <1>8, <1>9, <1>10, <1>11, <1>12, <1>13 DEF ScannerInv

-----------------------------------------------------------------------------
LEMMA ScannerStarts ==
    ASSUME ScannerInit
    PROVE  ScannerInv
<1>1. \A c \in Call : scannerCalls[c] = None
  BY DEF ScannerInit
<1>2. \A K : InSession(scannerCalls, K) = {}
  BY <1>1 DEF InSession
<1>3. ScannerTypeOK
  BY DEF ScannerInit, ScannerTypeOK, NoProgress
<1>4. LoadingCovered(scannedBooks, scannerCalls)
  BY RowTypes DEF ScannerInit, LoadingCovered
<1>5. CountsFit(scannerCalls, pendingLookups, pendingAdds, pendingEnrichments, miscounted)
  BY <1>2, FS_EmptySet DEF ScannerInit, CountsFit
<1>6. BarFits(scannerCalls, bulkProgress, overlapped)
  BY <1>2 DEF ScannerInit, BarFits, NoProgress
<1>7. TabFits(scannerCalls, lookupResult, formIsbn)
  BY <1>1 DEF ScannerInit, TabFits, TabOpen
<1> QED
  BY <1>1, <1>3, <1>4, <1>5, <1>6, <1>7 DEF ScannerInv

LEMMA ScannerKeeps ==
    ASSUME ScannerInv, [ScannerNext]_scannerVars
    PROVE  ScannerInv'
<1>1. ASSUME NEW c \in Call, NEW i \in Isbn, addIsbn(c, i) \/ retryIsbn(c, i)
      PROVE  ScannerInv'
  <2>1. lookupScannedBook(c, i, scannerCalls) /\ (i \notin Listed \/ ~Loading(scannedBooks[i]))
    BY <1>1 DEF addIsbn, retryIsbn, Loading
  <2> QED
    BY <2>1, lookupScannedBookKeeps
<1>2. CASE UNCHANGED scannerVars
  BY <1>2 DEF scannerVars, pendingVars, pageVars, flawVars, ScannerInv, ScannerTypeOK, CallFits, LoadingCovered,
     Covers, CountsFit, BarFits, TabFits, TabOpen, InSession
<1>3. CASE ScannerNext
  <2>1. ASSUME NEW c \in Call, NEW i \in Isbn,
               addIsbn(c, i) \/ retryIsbn(c, i) \/ scanOnce(c, i) \/ lookupISBN(c, i)
        PROVE  ScannerInv'
    BY <1>1, <2>1, scanOnceKeeps, lookupISBNKeeps
  <2>2. ASSUME NEW c \in Call,
               \/ addMultipleIsbns(c) \/ bulkLookupIsbns(c) \/ bulkAborted(c)
               \/ LookupAnswers(c) \/ TabAnswers(c) \/ enrichResult(c) \/ enrichAgain(c)
               \/ addSelectedToLibrary(c) \/ addLookedUpBook(c) \/ addIsbnsToLibrary(c) \/ AddReturns(c)
        PROVE  ScannerInv'
    BY <2>2, addMultipleIsbnsKeeps, bulkLookupIsbnsKeeps, bulkAbortedKeeps, LookupAnswersKeeps, TabAnswersKeeps,
       enrichResultKeeps, enrichAgainKeeps, AddingKeeps, addIsbnsToLibraryKeeps, AddReturnsKeeps
  <2>3. ASSUME NEW i \in Isbn, removeIsbn(i) \/ toggleSelection(i)
        PROVE  ScannerInv'
    BY <2>3, removeIsbnKeeps, toggleSelectionKeeps
  <2>4. ASSUME NEW selected \in BOOLEAN, Select(Isbn, selected)
        PROVE  ScannerInv'
    BY <2>4, SelectKeeps
  <2>5. ASSUME NEW tab \in {"isbn", "list"}, clearAll(tab) \/ resetTab(tab)
        PROVE  ScannerInv'
    BY <2>5, clearAllKeeps, resetTabKeeps
  <2> QED
    BY <1>3, <2>1, <2>2, <2>3, <2>4, <2>5, Zenon DEF ScannerNext
<1> QED
  BY <1>2, <1>3

LEMMA ScannerIsSound ==
    ASSUME ScannerInv
    PROVE  PendingIsPending
<1>1. \A K : CallsOf(K) = InSession(scannerCalls, K)
  BY DEF CallsOf, InSession
<1>2. \A i \in Listed : scannedBooks[i].status = "loading" =>
         \E c \in CallsOf({"one", "bulk"}) :
            i \in scannerCalls[c].todo /\ (scannerCalls[c].kind = "one" => scannerCalls[c].listed)
  <2> SUFFICES ASSUME NEW i \in Listed, scannedBooks[i].status = "loading"
               PROVE  \E c \in InSession(scannerCalls, {"one", "bulk"}) :
                         i \in scannerCalls[c].todo /\ (scannerCalls[c].kind = "one" => scannerCalls[c].listed)
    BY <1>1
  <2>1. i \in Isbn /\ Loading(scannedBooks[i])
    BY DEF Listed, Loading
  <2>2. PICK c \in Call : Covers(scannerCalls[c], i)
    BY <2>1 DEF ScannerInv, LoadingCovered
  <2> QED
    BY <2>2 DEF Covers, InSession
<1>3. \/ miscounted
      \/ /\ pendingLookups = Cardinality(CallsOf({"one", "bulk", "tab"}))
         /\ pendingAdds = Cardinality(CallsOf({"add", "tabAdd"}))
  BY <1>1 DEF ScannerInv, CountsFit, LookupKinds, AddKinds
<1>4. pendingEnrichments = Cardinality(CallsOf({"enrich"}))
  BY <1>1 DEF ScannerInv, CountsFit
<1>5. \/ overlapped
      \/ /\ bulkProgress.active <=> CallsOf({"bulk"}) # {}
         /\ bulkProgress.completed <= bulkProgress.started
         /\ bulkProgress.started <= bulkProgress.total
  BY <1>1 DEF ScannerInv, BarFits
<1>6. lookupResult \in {None, formIsbn}
  BY DEF ScannerInv, TabFits
<1> QED
  BY <1>2, <1>3, <1>4, <1>5, <1>6 DEF PendingIsPending

(* Every spinner of the page that adds books by ISBN stands for a request   *)
(* that will settle it, and the counters and the progress bar are those of  *)
(* the calls under way, for any ISBNs, any number of calls at once and any  *)
(* order of their answers; but for what earlier sessions miscount and two   *)
(* bulk lookups at once (lookupScannedBook and bulkLookupIsbns).            *)
THEOREM PendingStaysPending == ScannerSpec => []PendingIsPending
<1>1. ScannerInit => ScannerInv
  BY ScannerStarts
<1>2. ScannerInv /\ [ScannerNext]_scannerVars => ScannerInv'
  BY ScannerKeeps
<1>3. ScannerInv => PendingIsPending
  BY ScannerIsSound
<1> QED
  BY <1>1, <1>2, <1>3, PTL DEF ScannerSpec

-----------------------------------------------------------------------------
(***************************** the settings page ***************************)

\* what a call under way is about
CallSound(call) ==
    /\ call.op = "email" => call.to \in Address
    /\ call.step = "mail" => call.op \in {"email", "resend"} /\ call.to \in Address
    /\ call.op = "list" /\ call.step = "done" => call.to \in 0 .. 1
CallsSound(under) ==
    /\ under \in [Call -> PageCall \cup {None}]
    /\ \A t \in Call : under[t] # None => CallSound(under[t])

\* the status that is shown, or that has been answered, is the account's
StatusKnown ==
    ~staleStatus => IF statusRequest = None THEN pendingShown = LivePending
                    ELSE statusRequest.step = "back" => statusRequest.pending = LivePending

SettingsInv == AccountTypeOK /\ CallsSound(calls) /\ PasswordIsForgotten /\ StatusKnown

CallOps == Protected \cup {"confirm", "email", "resend", "password", "list"}
CallSteps == {"sent", "check", "write", "mail", "done", "failed", "refresh"}

LEMMA SettingsNulls == None \notin Address /\ None \notin OpenedLink /\ None \notin StatusRequest /\ None \notin PageCall
BY SettingsAssumption

LEMMA CallBecomes ==
    ASSUME CallsSound(calls), NEW t \in Call, NEW m \in PageCall \cup {None}, m # None => CallSound(m),
           calls' = [calls EXCEPT ![t] = m]
    PROVE  CallsSound(calls')
BY DEF CallsSound

LEMMA CallBegins ==
    ASSUME SettingsInv, NEW t \in Call, NEW op \in CallOps, NEW password \in Password \cup {None}, NEW to \in Address \cup {None},
           op = "email" => to # None,
           calls' = [calls EXCEPT ![t] = [op |-> op, step |-> "sent", password |-> password, to |-> to]]
    PROVE  CallsSound(calls')
<1> DEFINE m == [op |-> op, step |-> "sent", password |-> password, to |-> to]
<1>1. m \in PageCall /\ CallSound(m)
  BY DEF PageCall, CallSound, CallOps
<1> HIDE DEF m
<1> QED
  BY <1>1, CallBecomes DEF m, SettingsInv

LEMMA CallingBegins ==
    ASSUME SettingsInv, NEW t \in Call, NEW op \in CallOps \ {"email"}, Calling(t, op)
    PROVE  CallsSound(calls')
<1>1. recentAuthPassword \in Password \cup {None}
  BY DEF SettingsInv, AccountTypeOK
<1> QED
  BY <1>1, CallBegins DEF Calling

LEMMA CallSteppes ==
    ASSUME SettingsInv, NEW t \in Call, calls[t] # None, NEW step \in CallSteps,
           step = "mail" => calls[t].op = "email", step = "done" => calls[t].op # "list",
           calls' = [calls EXCEPT ![t].step = step]
    PROVE  CallsSound(calls')
<1> DEFINE m == [calls[t] EXCEPT !.step = step]
<1>1. calls[t] \in PageCall /\ CallSound(calls[t])
  BY DEF SettingsInv, CallsSound
<1>2. m \in PageCall /\ m.op = calls[t].op /\ m.to = calls[t].to /\ m.step = step
  BY <1>1 DEF PageCall, CallSteps
<1>3. calls' = [calls EXCEPT ![t] = m]
  OBVIOUS
<1> HIDE DEF m
<1>4. CallSound(m)
  BY <1>1, <1>2 DEF CallSound
<1> QED
  BY <1>2, <1>3, <1>4, CallBecomes DEF SettingsInv

LEMMA CallEnds ==
    ASSUME SettingsInv, NEW t \in Call, calls' = [calls EXCEPT ![t] = None]
    PROVE  CallsSound(calls')
BY CallBecomes DEF SettingsInv

\* Only the calls move, and a load may have failed.
LEMMA CallsMove ==
    ASSUME SettingsInv, CallsSound(calls'), UNCHANGED <<serverSide, pageSide, statusRequest>>,
           staleStatus' \in {staleStatus, TRUE}
    PROVE  SettingsInv'
<1>1. UNCHANGED <<account, session, links, opened, user, recentAuth, recentAuthPassword, recentAuthOpen, pendingAction,
                  openDialog, pendingShown, passkeysShown, statusRequest>>
  BY DEF serverSide, pageSide
<1>2. AccountTypeOK'
  <2>1. staleStatus' \in BOOLEAN
    BY DEF SettingsInv, AccountTypeOK
  <2>2. calls' \in [Call -> PageCall \cup {None}]
    BY DEF CallsSound
  <2> QED
    BY <1>1, <2>1, <2>2 DEF SettingsInv, AccountTypeOK
<1>3. PasswordIsForgotten'
  BY <1>1 DEF SettingsInv, PasswordIsForgotten
<1>4. StatusKnown'
  BY <1>1 DEF SettingsInv, StatusKnown, LivePending, AccountTypeOK
<1> QED
  BY <1>2, <1>3, <1>4 DEF SettingsInv

LEMMA CallStepsKeep ==
    ASSUME SettingsInv, NEW t \in Call,
           \/ confirmRecentAuth(t) \/ Fails(t) \/ changeEmail(t) \/ verifyPassword(t) \/ setPendingEmailChange(t)
           \/ resendVerificationEmail(t) \/ changePassword(t) \/ callProtected(t) \/ listUserPasskeys(t)
    PROVE  SettingsInv'
<1>1. CASE confirmRecentAuth(t)
  BY <1>1, CallingBegins, CallsMove DEF confirmRecentAuth, CallOps
<1>2. CASE Fails(t)
  <2>1. staleStatus' \in {staleStatus, TRUE}
    BY <1>2 DEF Fails, SettingsInv, AccountTypeOK
  <2> QED
    BY <1>2, <2>1, CallEnds, CallsMove DEF Fails
<1>3. CASE changeEmail(t)
  <2>1. PICK to \in Address, password \in Password :
          calls' = [calls EXCEPT ![t] = [op |-> "email", step |-> "sent", password |-> password, to |-> to]]
    <3>1. (IF recentAuth THEN {recentAuthPassword} ELSE Password) \ {None} \subseteq Password
      BY DEF SettingsInv, AccountTypeOK
    <3> QED
      BY <1>3, <3>1, Zenon DEF changeEmail
  <2>2. CallsSound(calls')
    BY <2>1, SettingsNulls, CallBegins DEF CallOps
  <2> QED
    BY <1>3, <2>2, CallsMove DEF changeEmail
<1>4. CASE verifyPassword(t)
  <2>1. PICK step \in {"check", "failed"} : calls' = [calls EXCEPT ![t].step = step]
    BY <1>4 DEF verifyPassword
  <2>2. CallsSound(calls')
    BY <1>4, <2>1, CallSteppes DEF verifyPassword, CallSteps
  <2> QED
    BY <1>4, <2>2, CallsMove DEF verifyPassword
<1>5. CASE setPendingEmailChange(t)
  <2>1. PICK step \in {"write", "failed"} : calls' = [calls EXCEPT ![t].step = step]
    BY <1>5 DEF setPendingEmailChange
  <2>2. CallsSound(calls')
    BY <1>5, <2>1, CallSteppes DEF setPendingEmailChange, CallSteps
  <2> QED
    BY <1>5, <2>2, CallsMove DEF setPendingEmailChange
<1>6. CASE resendVerificationEmail(t)
  BY <1>6, CallingBegins, CallsMove DEF resendVerificationEmail, CallOps
<1>7. CASE changePassword(t)
  <2>1. PICK password \in Password :
          calls' = [calls EXCEPT ![t] = [op |-> "password", step |-> "sent", password |-> password, to |-> None]]
    <3>1. (IF recentAuth THEN {recentAuthPassword} ELSE Password) \ {None} \subseteq Password
      BY DEF SettingsInv, AccountTypeOK
    <3> QED
      BY <1>7, <3>1, Zenon DEF changePassword
  <2>2. CallsSound(calls')
    BY <2>1, CallBegins DEF CallOps
  <2> QED
    BY <1>7, <2>2, CallsMove DEF changePassword
<1>8. CASE callProtected(t)
  <2>1. PICK op \in Protected : Calling(t, op)
    BY <1>8 DEF callProtected
  <2>2. op \in CallOps \ {"email"}
    BY DEF CallOps, Protected
  <2> QED
    BY <1>8, <2>1, <2>2, CallingBegins, CallsMove DEF callProtected
<1>9. CASE listUserPasskeys(t)
  <2> DEFINE n == account.passkeys
             m == [calls[t] EXCEPT !.step = "done", !.to = n]
  <2>1. n \in 0 .. 1
    BY DEF SettingsInv, AccountTypeOK, AccountOf
  <2>2. /\ calls[t] \in PageCall /\ calls[t].op = "list"
        /\ calls' = [calls EXCEPT ![t].step = "done", ![t].to = n]
    BY <1>9 DEF listUserPasskeys, SettingsInv, CallsSound
  <2> HIDE DEF n
  <2>3. m \in PageCall /\ m.op = "list" /\ m.step = "done" /\ m.to = n
    BY <2>1, <2>2 DEF PageCall
  <2>4. calls' = [calls EXCEPT ![t] = m]
    BY <2>2 DEF SettingsInv, CallsSound
  <2> HIDE DEF m
  <2>5. CallSound(m)
    BY <2>1, <2>3 DEF CallSound
  <2>6. CallsSound(calls')
    BY <2>3, <2>4, <2>5, CallBecomes DEF SettingsInv
  <2> QED
    BY <1>9, <2>6, CallsMove DEF listUserPasskeys
<1> QED
  BY <1>1, <1>2, <1>3, <1>4, <1>5, <1>6, <1>7, <1>8, <1>9

\* Only the server and the calls move.
LEMMA ServerMoves ==
    ASSUME SettingsInv, CallsSound(calls'), UNCHANGED <<pageSide, statusRequest>>,
           account' \in AccountOf, session' \in [alive : BOOLEAN, recent : BOOLEAN],
           links' \subseteq EmailLink, opened' \in OpenedLink \cup {None}, staleStatus' \in BOOLEAN,
           ~staleStatus' => ~staleStatus /\ LivePending' = LivePending
    PROVE  SettingsInv'
<1>1. UNCHANGED <<user, recentAuth, recentAuthPassword, recentAuthOpen, pendingAction,
                  openDialog, pendingShown, passkeysShown, statusRequest>>
  BY DEF pageSide
<1>2. AccountTypeOK'
  <2>1. calls' \in [Call -> PageCall \cup {None}]
    BY DEF CallsSound
  <2> QED
    BY <1>1, <2>1 DEF SettingsInv, AccountTypeOK
<1>3. PasswordIsForgotten'
  BY <1>1 DEF SettingsInv, PasswordIsForgotten
<1>4. StatusKnown'
  <2> SUFFICES ASSUME ~staleStatus'
               PROVE  IF statusRequest = None THEN pendingShown = LivePending'
                      ELSE statusRequest.step = "back" => statusRequest.pending = LivePending'
    BY <1>1 DEF StatusKnown
  <2> QED
    BY DEF SettingsInv, StatusKnown
<1> QED
  BY <1>2, <1>3, <1>4 DEF SettingsInv

\* The rows of the account change, but not its address.
RowsWritten ==
    \/ account' = account
    \/ account' = [account EXCEPT !.pending = LivePending]
    \/ \E w \in Password : account' = [account EXCEPT !.password = w]
    \/ \E s \in {"off", "setup", "on"} : account' = [account EXCEPT !.totp = s]
    \/ \E n \in 0 .. 1 : account' = [account EXCEPT !.passkeys = n]

LEMMA RowWrites ==
    ASSUME SettingsInv, RowsWritten
    PROVE  account' \in AccountOf /\ LivePending' = LivePending
<1>1. account \in AccountOf
  BY DEF SettingsInv, AccountTypeOK
<1>2. CASE account' = account
  BY <1>1, <1>2 DEF LivePending
<1>3. CASE account' = [account EXCEPT !.pending = LivePending]
  <2> DEFINE p == LivePending
  <2>1. p \in Address \cup {None} /\ (p = account.address => p = None)
    BY <1>1 DEF AccountOf, LivePending
  <2>2. account' = [account EXCEPT !.pending = p]
    BY <1>3
  <2> HIDE DEF p
  <2>3. account' \in AccountOf /\ account'.address = account.address /\ account'.pending = p
    BY <1>1, <2>1, <2>2 DEF AccountOf
  <2>4. LivePending' = p
    BY <2>1, <2>3 DEF LivePending
  <2> QED
    BY <2>3, <2>4 DEF p
<1>4. CASE \E w \in Password : account' = [account EXCEPT !.password = w]
  <2>1. account' \in AccountOf /\ account'.address = account.address /\ account'.pending = account.pending
    BY <1>1, <1>4 DEF AccountOf
  <2> QED
    BY <2>1 DEF LivePending
<1>5. CASE \E s \in {"off", "setup", "on"} : account' = [account EXCEPT !.totp = s]
  <2>1. account' \in AccountOf /\ account'.address = account.address /\ account'.pending = account.pending
    BY <1>1, <1>5 DEF AccountOf
  <2> QED
    BY <2>1 DEF LivePending
<1>6. CASE \E n \in 0 .. 1 : account' = [account EXCEPT !.passkeys = n]
  <2>1. account' \in AccountOf /\ account'.address = account.address /\ account'.pending = account.pending
    BY <1>1, <1>6 DEF AccountOf
  <2> QED
    BY <2>1 DEF LivePending
<1> QED
  BY <1>2, <1>3, <1>4, <1>5, <1>6 DEF RowsWritten

LEMMA ReplySteps ==
    ASSUME SettingsInv, NEW t \in Call, NEW ok \in BOOLEAN, calls[t] # None, calls[t].op # "list", Replies(t, ok)
    PROVE  CallsSound(calls')
<1>1. PICK step \in {"done", "failed"} : calls' = [calls EXCEPT ![t].step = step]
  BY DEF Replies
<1> QED
  BY <1>1, CallSteppes DEF CallSteps

LEMMA ServerTypes ==
    ASSUME SettingsInv
    PROVE  /\ account \in AccountOf /\ session \in [alive : BOOLEAN, recent : BOOLEAN] /\ session.alive \in BOOLEAN
           /\ links \subseteq EmailLink /\ opened \in OpenedLink \cup {None} /\ staleStatus \in BOOLEAN
           /\ \A r \in BOOLEAN : [session EXCEPT !.recent = r] \in [alive : BOOLEAN, recent : BOOLEAN]
           /\ UNCHANGED account => LivePending' = LivePending
BY DEF SettingsInv, AccountTypeOK, LivePending

LEMMA PasswordStepsKeep ==
    ASSUME SettingsInv, NEW t \in Call, confirmPassword(t) \/ PasswordChanges(t)
    PROVE  SettingsInv'
<1>1. calls[t] # None /\ calls[t].op # "list" /\ Replies(t, PasswordAccepted(t))
      /\ UNCHANGED <<links, opened, pageSide, statusRequest, staleStatus>>
  BY DEF confirmPassword, PasswordChanges
<1>2. PasswordAccepted(t) \in BOOLEAN
  BY ServerTypes DEF PasswordAccepted
<1>3. CallsSound(calls')
  BY <1>1, <1>2, ReplySteps
<1>4. CASE confirmPassword(t)
  <2>1. UNCHANGED account /\ session' = [session EXCEPT !.recent = PasswordAccepted(t) \/ session.recent]
    BY <1>4 DEF confirmPassword
  <2>2. (PasswordAccepted(t) \/ session.recent) \in BOOLEAN
    BY <1>2 DEF SettingsInv, AccountTypeOK
  <2>3. session' \in [alive : BOOLEAN, recent : BOOLEAN]
    BY <2>1, <2>2, ServerTypes
  <2> QED
    BY <1>1, <1>3, <2>1, <2>3, ServerTypes, ServerMoves
<1>5. CASE PasswordChanges(t)
  <2>1. /\ account' = account \/ \E p \in Password : account' = [account EXCEPT !.password = p]
        /\ session' = session \/ session' = [session EXCEPT !.recent = FALSE]
    BY <1>5 DEF PasswordChanges
  <2>2. account' \in AccountOf /\ LivePending' = LivePending
    BY <2>1, RowWrites DEF RowsWritten
  <2>3. session' \in [alive : BOOLEAN, recent : BOOLEAN]
    BY <2>1, ServerTypes
  <2> QED
    BY <1>1, <1>3, <2>2, <2>3, ServerTypes, ServerMoves
<1> QED
  BY <1>4, <1>5

LEMMA ProtectedCallKeeps ==
    ASSUME SettingsInv, NEW t \in Call, ProtectedCall(t)
    PROVE  SettingsInv'
<1>1. calls[t] # None /\ calls[t].op \in Protected /\ Replies(t, Permitted(t))
      /\ UNCHANGED <<links, opened, pageSide, statusRequest>>
  BY DEF ProtectedCall
<1>2. Permitted(t) \in BOOLEAN
  BY DEF Permitted
<1>3. CallsSound(calls')
  BY <1>1, <1>2, ReplySteps DEF Protected
<1>4. /\ account' \in {account, Changed(calls[t].op)}
      /\ session' = session \/ \E r \in BOOLEAN : session' = [session EXCEPT !.recent = r]
      /\ staleStatus' = staleStatus \/ staleStatus' = (staleStatus \/ account'.passkeys # account.passkeys)
  BY DEF ProtectedCall
<1>5. /\ \/ account' = account
         \/ \E s \in {"off", "setup", "on"} : account' = [account EXCEPT !.totp = s]
         \/ \E n \in 0 .. 1 : account' = [account EXCEPT !.passkeys = n]
  <2>1. account.totp \in {"off", "setup", "on"}
    BY ServerTypes DEF AccountOf
  <2>2. \/ Changed(calls[t].op) = account
        \/ \E s \in {"off", "setup", "on"} : Changed(calls[t].op) = [account EXCEPT !.totp = s]
        \/ \E n \in 0 .. 1 : Changed(calls[t].op) = [account EXCEPT !.passkeys = n]
    <3>1. CASE calls[t].op = "enable"
      <4>1. Changed(calls[t].op) = [account EXCEPT !.totp = IF account.totp = "off" THEN "setup" ELSE account.totp]
        BY <3>1 DEF Changed
      <4> QED
        BY <2>1, <4>1
    <3>2. CASE calls[t].op = "verify"
      <4>1. Changed(calls[t].op) = [account EXCEPT !.totp = IF account.totp = "setup" THEN "on" ELSE account.totp]
        BY <3>2 DEF Changed
      <4> QED
        BY <2>1, <4>1
    <3>3. CASE calls[t].op = "disable"
      BY <3>3 DEF Changed
    <3>4. CASE calls[t].op = "addPasskey"
      BY <3>4 DEF Changed
    <3>5. CASE calls[t].op = "removePasskey"
      BY <3>5 DEF Changed
    <3>6. CASE calls[t].op = "codes"
      BY <3>6 DEF Changed
    <3> QED
      BY <1>1, <3>1, <3>2, <3>3, <3>4, <3>5, <3>6 DEF Protected
  <2> QED
    BY <1>4, <2>2
<1>6. account' \in AccountOf /\ LivePending' = LivePending
  BY <1>5, RowWrites DEF RowsWritten
<1>7. session' \in [alive : BOOLEAN, recent : BOOLEAN]
  BY <1>4, ServerTypes
<1>8. staleStatus' \in BOOLEAN
  BY <1>4, ServerTypes
<1>9. ~staleStatus' => ~staleStatus
  BY <1>4, ServerTypes
<1> QED
  BY <1>1, <1>3, <1>6, <1>7, <1>8, <1>9, ServerTypes, ServerMoves

\* The change of address and its mails.
LEMMA MailStepsKeep ==
    ASSUME SettingsInv, NEW t \in Call, setPendingEmail(t) \/ sendPendingEmailChange(t) \/ resendPending(t)
    PROVE  SettingsInv'
<1>1. calls[t] \in PageCall /\ CallSound(calls[t])
  BY DEF SettingsInv, CallsSound, setPendingEmail, sendPendingEmailChange, resendPending
<1>2. CASE setPendingEmail(t)
  <2>1. calls[t].to \in Address
    BY <1>1, <1>2 DEF setPendingEmail, CallSound
  <2>2. account' \in AccountOf
    BY <1>2, <2>1, ServerTypes DEF setPendingEmail, AccountOf
  <2>3. CallsSound(calls')
    BY <1>2, CallSteppes DEF setPendingEmail, CallSteps
  <2> QED
    BY <1>2, <2>2, <2>3, ServerTypes, ServerMoves DEF setPendingEmail
<1>3. CASE sendPendingEmailChange(t)
  <2>1. calls[t].op # "list" /\ calls[t].to \in Address
    BY <1>1, <1>3 DEF sendPendingEmailChange, CallSound
  <2>2. account.address \in Address
    BY ServerTypes DEF AccountOf
  <2>3. links' \subseteq EmailLink
    <3>1. [from |-> account.address, to |-> calls[t].to] \in EmailLink
      BY <2>1, <2>2 DEF EmailLink
    <3>2. links' = links \cup {[from |-> account.address, to |-> calls[t].to]} \/ links' = links
      BY <1>3 DEF sendPendingEmailChange
    <3> QED
      BY <3>1, <3>2, ServerTypes
  <2>4. CallsSound(calls')
    BY <1>3, <2>1, ReplySteps DEF sendPendingEmailChange
  <2> QED
    BY <1>3, <2>3, <2>4, ServerTypes, ServerMoves DEF sendPendingEmailChange
<1>4. CASE resendPending(t)
  <2>1. account' \in AccountOf /\ LivePending' = LivePending
    BY <1>4, RowWrites DEF resendPending, RowsWritten
  <2> DEFINE p == LivePending
  <2>2. p \in Address \cup {None}
    BY ServerTypes DEF LivePending, AccountOf
  <2>3. PICK step \in {"failed", "done", "mail"} :
          calls' = [calls EXCEPT ![t].step = step, ![t].to = p] /\ (step = "mail" => p # None)
    BY <1>4 DEF resendPending
  <2> HIDE DEF p
  <2> DEFINE m == [calls[t] EXCEPT !.step = step, !.to = p]
  <2>4. m \in PageCall /\ m.op = "resend" /\ m.step = step /\ m.to = p
    BY <1>1, <1>4, <2>2 DEF PageCall, resendPending
  <2>5. calls' = [calls EXCEPT ![t] = m]
    BY <2>3 DEF SettingsInv, CallsSound
  <2> HIDE DEF m
  <2>6. CallSound(m)
    BY <2>2, <2>3, <2>4 DEF CallSound
  <2>7. CallsSound(calls')
    BY <2>4, <2>5, <2>6, CallBecomes DEF SettingsInv
  <2> QED
    BY <1>4, <2>1, <2>7, ServerTypes, ServerMoves DEF resendPending
<1> QED
  BY <1>2, <1>3, <1>4

\* The link, the other device, and the age of the session: the calls and the page stay.
LEMMA LinkStepsKeep ==
    ASSUME SettingsInv,
           validateEmailVerificationToken \/ VerifyEmail \/ afterEmailVerification \/ OtherDevice \/ RecentAuthExpires
    PROVE  SettingsInv'
<1>1. UNCHANGED <<calls, pageSide, statusRequest>>
  BY DEF validateEmailVerificationToken, VerifyEmail, afterEmailVerification, OtherDevice, RecentAuthExpires
<1>2. CallsSound(calls')
  BY <1>1 DEF SettingsInv, CallsSound
<1>3. CASE validateEmailVerificationToken
  <2>1. PICK link \in links : opened' = [link |-> link, step |-> "validated"]
    BY <1>3 DEF validateEmailVerificationToken
  <2>2. opened' \in OpenedLink \cup {None}
    BY <2>1, ServerTypes DEF OpenedLink
  <2> QED
    BY <1>1, <1>2, <1>3, <2>2, ServerTypes, ServerMoves DEF validateEmailVerificationToken
<1>4. CASE VerifyEmail
  <2>1. opened \in OpenedLink
    BY <1>4, ServerTypes DEF VerifyEmail
  <2>2. CASE account' = [account EXCEPT !.address = opened.link.to] /\ opened' = [opened EXCEPT !.step = "verified"]
             /\ staleStatus' = TRUE
    <3>1. account' \in AccountOf
      BY <2>1, <2>2, ServerTypes DEF OpenedLink, EmailLink, AccountOf
    <3>2. opened' \in OpenedLink \cup {None}
      BY <2>1, <2>2 DEF OpenedLink
    <3> QED
      BY <1>1, <1>2, <1>4, <2>2, <3>1, <3>2, ServerTypes, ServerMoves DEF VerifyEmail
  <2>3. CASE opened' = None /\ UNCHANGED <<account, staleStatus>>
    BY <1>1, <1>2, <1>4, <2>3, ServerTypes, ServerMoves DEF VerifyEmail
  <2> QED
    BY <1>4, <2>2, <2>3 DEF VerifyEmail
<1>5. CASE afterEmailVerification
  <2>1. account' \in AccountOf
    BY <1>5, ServerTypes DEF afterEmailVerification, AccountOf
  <2> QED
    BY <1>1, <1>2, <1>5, <2>1, ServerTypes, ServerMoves DEF afterEmailVerification
<1>6. CASE OtherDevice
  <2>1. account' = [account EXCEPT !.pending = None] \/ \E p \in Password : account' = [account EXCEPT !.password = p]
    BY <1>6 DEF OtherDevice
  <2>2. account' \in AccountOf
    BY <2>1, ServerTypes DEF AccountOf
  <2>3. session' = session \/ session' = [alive |-> FALSE, recent |-> FALSE]
    BY <1>6 DEF OtherDevice
  <2>4. session' \in [alive : BOOLEAN, recent : BOOLEAN]
    <3>1. [alive |-> FALSE, recent |-> FALSE] \in [alive : BOOLEAN, recent : BOOLEAN]
      OBVIOUS
    <3>2. session \in [alive : BOOLEAN, recent : BOOLEAN]
      BY ServerTypes
    <3> QED
      BY <2>3, <3>1, <3>2, Zenon
  <2>5. staleStatus' = TRUE /\ UNCHANGED <<links, opened>>
    BY <1>6 DEF OtherDevice
  <2> QED
    BY <1>1, <1>2, <2>2, <2>4, <2>5, ServerTypes, ServerMoves
<1>7. CASE RecentAuthExpires
  <2>1. session' \in [alive : BOOLEAN, recent : BOOLEAN]
    BY <1>7, ServerTypes DEF RecentAuthExpires
  <2> QED
    BY <1>1, <1>2, <1>7, <2>1, ServerTypes, ServerMoves DEF RecentAuthExpires
<1> QED
  BY <1>3, <1>4, <1>5, <1>6, <1>7

\* Only the confirmation, the dialogs and the calls move.
LEMMA ConfirmationMoves ==
    ASSUME SettingsInv, CallsSound(calls'),
           UNCHANGED <<serverSide, user, pendingShown, passkeysShown, statusRequest, staleStatus>>,
           recentAuth' \in BOOLEAN, recentAuthOpen' \in BOOLEAN, recentAuthPassword' \in Password \cup {None},
           pendingAction' \in Action \cup {None}, openDialog' \in Action \cup {"setup", None},
           PasswordIsForgotten'
    PROVE  SettingsInv'
<1>1. UNCHANGED <<account, session, links, opened, user, pendingShown, passkeysShown, statusRequest, staleStatus>>
  BY DEF serverSide
<1>2. AccountTypeOK'
  <2>1. calls' \in [Call -> PageCall \cup {None}]
    BY DEF CallsSound
  <2> QED
    BY <1>1, <2>1 DEF SettingsInv, AccountTypeOK
<1>3. StatusKnown'
  BY <1>1 DEF SettingsInv, StatusKnown, LivePending
<1> QED
  BY <1>2, <1>3 DEF SettingsInv

LEMMA ConfirmationTypes ==
    ASSUME SettingsInv
    PROVE  /\ recentAuth \in BOOLEAN /\ recentAuthOpen \in BOOLEAN /\ recentAuthPassword \in Password \cup {None}
           /\ pendingAction \in Action \cup {None} /\ openDialog \in Action \cup {"setup", None}
           /\ CallsSound(calls) /\ (UNCHANGED calls => CallsSound(calls'))
BY DEF SettingsInv, AccountTypeOK

LEMMA RunKeeps ==
    ASSUME SettingsInv, NEW t \in Call, NEW wanted \in Action \cup {None}, Run(wanted, t)
    PROVE  CallsSound(calls') /\ openDialog' \in Action \cup {"setup", None}
<1>1. CASE Calling(t, "list") /\ openDialog' \in {openDialog, wanted}
  BY <1>1, CallingBegins, ConfirmationTypes DEF CallOps
<1>2. CASE Calling(t, "enable") /\ openDialog' = openDialog
  BY <1>2, CallingBegins, ConfirmationTypes DEF CallOps, Protected
<1>3. CASE calls' = [calls EXCEPT ![t] = None] /\ openDialog' = wanted
  BY <1>3, CallEnds
<1> QED
  BY <1>1, <1>2, <1>3 DEF Run

LEMMA ConfirmationCallsKeep ==
    ASSUME SettingsInv, NEW t \in Call,
           requestRecentAuth(t) \/ ConfirmReturns(t)
    PROVE  SettingsInv'
<1>1. UNCHANGED <<serverSide, user, pendingShown, passkeysShown, statusRequest, staleStatus>>
  BY DEF requestRecentAuth, ConfirmReturns
<1>2. CASE requestRecentAuth(t)
  <2>1. PICK wanted \in Action :
          /\ UNCHANGED recentAuth
          /\ IF recentAuth
             THEN Run(wanted, t) /\ UNCHANGED <<pendingAction, recentAuthPassword, recentAuthOpen>>
             ELSE pendingAction' = wanted /\ recentAuthPassword' = None /\ recentAuthOpen' = TRUE /\ UNCHANGED <<openDialog, calls>>
    BY <1>2, Zenon DEF requestRecentAuth
  <2>2. CASE recentAuth
    <3>1. Run(wanted, t) /\ UNCHANGED <<pendingAction, recentAuthPassword, recentAuthOpen>>
      BY <2>1, <2>2
    <3>2. CallsSound(calls') /\ openDialog' \in Action \cup {"setup", None}
      BY <3>1, RunKeeps
    <3>3. PasswordIsForgotten'
      BY <2>1, <3>1 DEF SettingsInv, PasswordIsForgotten
    <3> QED
      BY <1>1, <2>1, <3>1, <3>2, <3>3, ConfirmationTypes, ConfirmationMoves
  <2>3. CASE ~recentAuth
    <3>1. PasswordIsForgotten'
      BY <2>1, <2>3 DEF PasswordIsForgotten
    <3> QED
      BY <1>1, <2>1, <2>3, <3>1, ConfirmationTypes, ConfirmationMoves
  <2> QED
    BY <2>2, <2>3
<1>3. CASE ConfirmReturns(t)
  <2>1. Run(pendingAction, t)
    BY <1>3 DEF ConfirmReturns
  <2>2. CallsSound(calls') /\ openDialog' \in Action \cup {"setup", None}
    BY <2>1, RunKeeps, ConfirmationTypes
  <2>3. PasswordIsForgotten'
    BY <1>3 DEF ConfirmReturns, PasswordIsForgotten
  <2> QED
    BY <1>1, <1>3, <2>2, <2>3, ConfirmationTypes, ConfirmationMoves DEF ConfirmReturns
<1> QED
  BY <1>2, <1>3

LEMMA ConfirmationStepsKeep ==
    ASSUME SettingsInv, TypePassword \/ closeRecentAuth \/ RecentAuthTimer \/ closeDialog
    PROVE  SettingsInv'
<1>1. UNCHANGED <<serverSide, user, pendingShown, passkeysShown, statusRequest, staleStatus>>
  BY DEF TypePassword, closeRecentAuth, RecentAuthTimer, closeDialog
<1>2. CASE TypePassword
  <2>1. recentAuthPassword' \in Password /\ UNCHANGED <<recentAuth, recentAuthOpen, pendingAction, openDialog, calls>>
    BY <1>2 DEF TypePassword
  <2>2. PasswordIsForgotten'
    BY <1>2, <2>1 DEF TypePassword, PasswordIsForgotten
  <2> QED
    BY <1>1, <2>1, <2>2, ConfirmationTypes, ConfirmationMoves
<1>3. CASE closeRecentAuth
  <2>1. /\ recentAuthOpen' = FALSE /\ recentAuthPassword' = IF recentAuth THEN recentAuthPassword ELSE None
        /\ UNCHANGED <<recentAuth, pendingAction, openDialog, calls>>
    BY <1>3 DEF closeRecentAuth
  <2>2. PasswordIsForgotten'
    BY <2>1 DEF PasswordIsForgotten
  <2> QED
    BY <1>1, <2>1, <2>2, ConfirmationTypes, ConfirmationMoves
<1>4. CASE RecentAuthTimer
  <2>1. recentAuth' = FALSE /\ recentAuthPassword' = None /\ UNCHANGED <<recentAuthOpen, pendingAction, openDialog, calls>>
    BY <1>4 DEF RecentAuthTimer
  <2>2. PasswordIsForgotten'
    BY <2>1 DEF PasswordIsForgotten
  <2> QED
    BY <1>1, <2>1, <2>2, ConfirmationTypes, ConfirmationMoves
<1>5. CASE closeDialog
  <2>1. openDialog' = None /\ UNCHANGED <<recentAuth, recentAuthPassword, recentAuthOpen, pendingAction, calls>>
    BY <1>5 DEF closeDialog
  <2>2. PasswordIsForgotten'
    BY <2>1 DEF SettingsInv, PasswordIsForgotten
  <2> QED
    BY <1>1, <2>1, <2>2, ConfirmationTypes, ConfirmationMoves
<1> QED
  BY <1>2, <1>3, <1>4, <1>5

\* What is shown, the requests and the calls move.
LEMMA ShownMoves ==
    ASSUME SettingsInv, CallsSound(calls'), StatusKnown',
           UNCHANGED <<serverSide, recentAuth, recentAuthPassword, recentAuthOpen, pendingAction>>,
           user' \in [address : Address, totp : BOOLEAN], openDialog' \in Action \cup {"setup", None},
           pendingShown' \in Address \cup {None}, passkeysShown' \in 0 .. 1,
           statusRequest' \in StatusRequest \cup {None}, staleStatus' \in BOOLEAN
    PROVE  SettingsInv'
<1>1. UNCHANGED <<account, session, links, opened, recentAuth, recentAuthPassword, recentAuthOpen, pendingAction>>
  BY DEF serverSide
<1>2. AccountTypeOK'
  <2>1. calls' \in [Call -> PageCall \cup {None}]
    BY DEF CallsSound
  <2> QED
    BY <1>1, <2>1 DEF SettingsInv, AccountTypeOK
<1>3. PasswordIsForgotten'
  BY <1>1 DEF SettingsInv, PasswordIsForgotten
<1> QED
  BY <1>2, <1>3 DEF SettingsInv

LEMMA ShownTypes ==
    ASSUME SettingsInv
    PROVE  /\ user \in [address : Address, totp : BOOLEAN] /\ openDialog \in Action \cup {"setup", None}
           /\ pendingShown \in Address \cup {None} /\ passkeysShown \in 0 .. 1
           /\ statusRequest \in StatusRequest \cup {None} /\ staleStatus \in BOOLEAN
BY DEF SettingsInv, AccountTypeOK

\* The session that is fetched again ends no change that is still pending.
LEMMA StoredUserShown ==
    ASSUME SettingsInv, userShown(StoredUser), UNCHANGED <<account, statusRequest, staleStatus>>
    PROVE  /\ user' \in [address : Address, totp : BOOLEAN] /\ pendingShown' \in Address \cup {None}
           /\ StatusKnown'
<1>1. account.address \in Address
  BY ServerTypes DEF AccountOf
<1>2. user' \in [address : Address, totp : BOOLEAN]
  BY <1>1 DEF userShown, StoredUser
<1>3. pendingShown' = pendingShown \/ (pendingShown' = None /\ pendingShown = account.address)
  BY DEF userShown, StoredUser
<1>4. pendingShown' \in Address \cup {None}
  BY <1>3, ShownTypes
<1>5. LivePending' = LivePending /\ LivePending # account.address
  <2>1. LivePending # account.address
    BY <1>1, SettingsNulls DEF LivePending
  <2> QED
    BY <2>1, ServerTypes
<1>6. StatusKnown'
  BY <1>3, <1>5 DEF SettingsInv, StatusKnown
<1> QED
  BY <1>2, <1>4, <1>6

LEMMA AnswersKeep ==
    ASSUME SettingsInv, NEW t \in Call,
           EmailReturns(t) \/ ResendReturns(t) \/ ProtectedReturns(t) \/ PasskeysListed(t)
    PROVE  SettingsInv'
<1>1. UNCHANGED <<serverSide, recentAuth, recentAuthPassword, recentAuthOpen, pendingAction, staleStatus>>
  BY DEF EmailReturns, ResendReturns, ProtectedReturns, PasskeysListed, pageSide
<1>2. UNCHANGED account
  BY <1>1 DEF serverSide
<1>3. calls[t] # None => calls[t] \in PageCall /\ CallSound(calls[t])
  BY DEF SettingsInv, CallsSound
<1>4. ASSUME statusRequest' = [step |-> "sent", pending |-> None]
      PROVE  statusRequest' \in StatusRequest \cup {None} /\ StatusKnown'
  <2>1. statusRequest' \in StatusRequest /\ statusRequest'.step = "sent"
    BY <1>4 DEF StatusRequest
  <2>2. statusRequest' # None
    BY <2>1, SettingsNulls
  <2> QED
    BY <2>1, <2>2 DEF StatusKnown
<1>5. CASE EmailReturns(t)
  <2>1. calls[t].to \in Address
    BY <1>3, <1>5 DEF EmailReturns, CallSound
  <2>2. CallsSound(calls')
    BY <1>5, CallSteppes DEF EmailReturns, CallSteps
  <2> QED
    BY <1>1, <1>4, <1>5, <2>1, <2>2, ShownTypes, ShownMoves DEF EmailReturns
<1>6. CASE ResendReturns(t)
  <2>1. CallsSound(calls')
    BY <1>6, CallSteppes DEF ResendReturns, CallSteps
  <2> QED
    BY <1>1, <1>4, <1>6, <2>1, ShownTypes, ShownMoves DEF ResendReturns, pageSide
<1>7. CASE PasskeysListed(t)
  <2>1. calls[t].to \in 0 .. 1
    BY <1>3, <1>7 DEF PasskeysListed, CallSound
  <2>2. CallsSound(calls')
    BY <1>7, CallEnds DEF PasskeysListed
  <2>3. UNCHANGED <<user, openDialog, pendingShown, statusRequest, staleStatus>> /\ passkeysShown' = calls[t].to
    BY <1>7 DEF PasskeysListed
  <2>4. StatusKnown'
    BY <1>2, <2>3 DEF SettingsInv, StatusKnown, LivePending
  <2> QED
    BY <1>1, <2>1, <2>2, <2>3, <2>4, ShownTypes, ShownMoves
<1>8. CASE ProtectedReturns(t)
  <2>1. CallsSound(calls')
    <3>1. Calling(t, "list") \/ calls' = [calls EXCEPT ![t] = None]
      BY <1>8 DEF ProtectedReturns
    <3> QED
      BY <3>1, CallingBegins, CallEnds DEF CallOps
  <2>2. openDialog' \in Action \cup {"setup", None}
    BY <1>8, ShownTypes DEF ProtectedReturns
  <2>3. UNCHANGED <<passkeysShown, statusRequest, staleStatus>>
    BY <1>8 DEF ProtectedReturns
  <2>4. userShown(StoredUser) \/ UNCHANGED <<user, pendingShown>>
    BY <1>8 DEF ProtectedReturns
  <2>5. /\ user' \in [address : Address, totp : BOOLEAN] /\ pendingShown' \in Address \cup {None}
        /\ StatusKnown'
    <3>1. CASE userShown(StoredUser)
      BY <1>2, <2>3, <3>1, StoredUserShown
    <3>2. CASE UNCHANGED <<user, pendingShown>>
      BY <1>2, <2>3, <3>2, ShownTypes DEF SettingsInv, StatusKnown, LivePending
    <3> QED
      BY <2>4, <3>1, <3>2
  <2> QED
    BY <1>1, <2>1, <2>2, <2>3, <2>5, ShownTypes, ShownMoves
<1> QED
  BY <1>5, <1>6, <1>7, <1>8

LEMMA RefetchKeeps ==
    ASSUME SettingsInv, RefetchSession
    PROVE  SettingsInv'
<1>1. /\ UNCHANGED <<serverSide, recentAuth, recentAuthPassword, recentAuthOpen, pendingAction>>
      /\ userShown(StoredUser) /\ UNCHANGED <<openDialog, passkeysShown, statusRequest, staleStatus, calls>>
  BY DEF RefetchSession
<1>2. UNCHANGED account
  BY <1>1 DEF serverSide
<1>3. CallsSound(calls')
  BY <1>1, ConfirmationTypes
<1>4. /\ user' \in [address : Address, totp : BOOLEAN] /\ pendingShown' \in Address \cup {None}
      /\ StatusKnown'
  BY <1>1, <1>2, StoredUserShown
<1> QED
  BY <1>1, <1>3, <1>4, ShownTypes, ShownMoves

\* A status is asked for and answered, or its request fails.
LEMMA RefreshedKeeps ==
    ASSUME SettingsInv, Refreshed
    PROVE  CallsSound(calls') /\ openDialog' \in Action \cup {"setup", None} /\ statusRequest' = None
<1>1. calls' = [t \in Call |-> IF calls[t] # None /\ calls[t].step = "refresh" THEN None ELSE calls[t]]
  BY DEF Refreshed
<1>2. CallsSound(calls')
  BY <1>1 DEF SettingsInv, CallsSound
<1>3. openDialog' \in {openDialog, None} /\ statusRequest' = None
  BY DEF Refreshed
<1> QED
  BY <1>2, <1>3, ShownTypes

LEMMA StatusStepsKeep ==
    ASSUME SettingsInv, getEmailVerificationStatus \/ StatusReturns \/ StatusFails
    PROVE  SettingsInv'
<1>1. CASE getEmailVerificationStatus
  <2> DEFINE p == LivePending
  <2>1. UNCHANGED <<session, links, opened, pageSide, calls>> /\ staleStatus' = FALSE
    BY <1>1 DEF getEmailVerificationStatus
  <2>2. account' \in AccountOf /\ LivePending' = p
    BY <1>1, RowWrites DEF getEmailVerificationStatus, RowsWritten
  <2>3. p \in Address \cup {None}
    BY ServerTypes DEF LivePending, AccountOf
  <2>4. statusRequest' = [step |-> "back", pending |-> p]
    BY <1>1 DEF getEmailVerificationStatus
  <2> HIDE DEF p
  <2>5. statusRequest' \in StatusRequest /\ statusRequest'.pending = p
    BY <2>3, <2>4 DEF StatusRequest
  <2>6. statusRequest' # None
    BY <2>5, SettingsNulls
  <2>7. UNCHANGED <<user, recentAuth, recentAuthPassword, recentAuthOpen, pendingAction, openDialog, pendingShown, passkeysShown>>
    BY <2>1 DEF pageSide
  <2>8. AccountTypeOK'
    BY <2>1, <2>2, <2>5, <2>7 DEF SettingsInv, AccountTypeOK
  <2>9. PasswordIsForgotten'
    BY <2>7 DEF SettingsInv, PasswordIsForgotten
  <2>10. StatusKnown'
    BY <2>2, <2>5, <2>6 DEF StatusKnown
  <2>11. CallsSound(calls')
    BY <2>1, ConfirmationTypes
  <2> QED
    BY <2>8, <2>9, <2>10, <2>11 DEF SettingsInv
<1>2. CASE StatusReturns
  <2>1. /\ statusRequest # None /\ statusRequest.step = "back" /\ pendingShown' = statusRequest.pending
        /\ UNCHANGED <<serverSide, user, recentAuth, recentAuthPassword, recentAuthOpen, pendingAction, passkeysShown, staleStatus>>
    BY <1>2 DEF StatusReturns
  <2>2. CallsSound(calls') /\ openDialog' \in Action \cup {"setup", None} /\ statusRequest' = None
    BY <1>2, RefreshedKeeps DEF StatusReturns
  <2>3. pendingShown' \in Address \cup {None}
    BY <2>1, ShownTypes DEF StatusRequest
  <2>4. UNCHANGED account
    BY <2>1 DEF serverSide
  <2>5. StatusKnown'
    BY <2>1, <2>2, <2>4 DEF SettingsInv, StatusKnown, LivePending
  <2> QED
    BY <2>1, <2>2, <2>3, <2>5, ShownTypes, ShownMoves
<1>3. CASE StatusFails
  <2>1. /\ staleStatus' = TRUE
        /\ UNCHANGED <<serverSide, user, recentAuth, recentAuthPassword, recentAuthOpen, pendingAction, pendingShown, passkeysShown>>
    BY <1>3 DEF StatusFails
  <2>2. CallsSound(calls') /\ openDialog' \in Action \cup {"setup", None} /\ statusRequest' = None
    BY <1>3, RefreshedKeeps DEF StatusFails
  <2>3. StatusKnown'
    BY <2>1 DEF StatusKnown
  <2> QED
    BY <2>1, <2>2, <2>3, ShownTypes, ShownMoves
<1> QED
  BY <1>1, <1>2, <1>3

LEMMA SettingsInitInv == AccountInit => SettingsInv
<1> SUFFICES ASSUME AccountInit
             PROVE  SettingsInv
  OBVIOUS
<1>1. FirstAddress \in Address /\ pendingShown \in Address \cup {None}
  BY SettingsAssumption DEF AccountInit
<1>2. /\ account \in AccountOf /\ account.address = FirstAddress /\ account.pending = pendingShown
      /\ account.totp = "off"
  BY <1>1 DEF AccountInit, AccountOf, Password
<1>3. LivePending = pendingShown
  BY <1>1, <1>2, SettingsNulls DEF AccountInit, LivePending
<1>4. recentAuth \in BOOLEAN
  BY DEF AccountInit
<1>5. user \in [address : Address, totp : BOOLEAN]
  BY <1>1, <1>2 DEF AccountInit, StoredUser
<1>6. links \subseteq EmailLink
  BY <1>1 DEF AccountInit, EmailLink
<1>7. session \in [alive : BOOLEAN, recent : BOOLEAN]
  BY <1>4 DEF AccountInit
<1>8. calls \in [Call -> PageCall \cup {None}] /\ \A t \in Call : calls[t] = None
  BY DEF AccountInit
<1>9. /\ recentAuthPassword \in Password \cup {None} /\ openDialog \in Action \cup {"setup", None}
      /\ opened = None /\ recentAuthOpen = FALSE /\ pendingAction = None /\ passkeysShown = 0
      /\ statusRequest = None /\ staleStatus = FALSE
  BY DEF AccountInit, Password, Action
<1>10. AccountTypeOK
  <2>1. /\ opened \in OpenedLink \cup {None} /\ pendingAction \in Action \cup {None}
        /\ statusRequest \in StatusRequest \cup {None}
    BY <1>9
  <2>2. passkeysShown \in 0 .. 1
    BY <1>9
  <2>3. recentAuthOpen \in BOOLEAN /\ staleStatus \in BOOLEAN
    BY <1>9
  <2>4. recentAuthPassword \in Password \cup {None} /\ openDialog \in Action \cup {"setup", None}
    BY <1>9
  <2>5. account \in AccountOf /\ pendingShown \in Address \cup {None} /\ calls \in [Call -> PageCall \cup {None}]
    BY <1>1, <1>2, <1>8
  <2> QED
    BY <1>4, <1>5, <1>6, <1>7, <2>1, <2>2, <2>3, <2>4, <2>5, Zenon DEF AccountTypeOK
<1>11. PasswordIsForgotten
  BY DEF AccountInit, PasswordIsForgotten
<1>12. StatusKnown
  BY <1>3, <1>9 DEF StatusKnown
<1>13. CallsSound(calls)
  BY <1>8 DEF CallsSound
<1> QED
  BY <1>10, <1>11, <1>12, <1>13 DEF SettingsInv

LEMMA SettingsStepInv == SettingsInv /\ [AccountNext]_accountVars => SettingsInv'
<1> SUFFICES ASSUME SettingsInv, [AccountNext]_accountVars
             PROVE  SettingsInv'
  OBVIOUS
<1>1. CASE UNCHANGED accountVars
  BY <1>1, ConfirmationTypes, CallsMove DEF accountVars
<1>2. CASE \E t \in Call :
             \/ requestRecentAuth(t) \/ confirmRecentAuth(t) \/ confirmPassword(t) \/ ConfirmReturns(t) \/ Fails(t)
             \/ changeEmail(t) \/ verifyPassword(t) \/ setPendingEmailChange(t) \/ setPendingEmail(t)
             \/ sendPendingEmailChange(t) \/ EmailReturns(t)
             \/ resendVerificationEmail(t) \/ resendPending(t) \/ ResendReturns(t)
             \/ changePassword(t) \/ PasswordChanges(t)
             \/ callProtected(t) \/ ProtectedCall(t) \/ ProtectedReturns(t)
             \/ listUserPasskeys(t) \/ PasskeysListed(t)
  BY <1>2, CallStepsKeep, PasswordStepsKeep, ProtectedCallKeeps, MailStepsKeep, ConfirmationCallsKeep, AnswersKeep
<1>3. CASE TypePassword \/ closeRecentAuth \/ RecentAuthTimer \/ closeDialog
  BY <1>3, ConfirmationStepsKeep
<1>4. CASE getEmailVerificationStatus \/ StatusReturns \/ StatusFails
  BY <1>4, StatusStepsKeep
<1>5. CASE validateEmailVerificationToken \/ VerifyEmail \/ afterEmailVerification \/ OtherDevice \/ RecentAuthExpires
  BY <1>5, LinkStepsKeep
<1>6. CASE RefetchSession
  BY <1>6, RefetchKeeps
<1> QED
  BY <1>1, <1>2, <1>3, <1>4, <1>5, <1>6 DEF AccountNext

\* The settings page tells the truth (settings.vue:121, 138, 161, 223), for any set of addresses, any number of calls
\* under way, and any number of operations: the password typed is gone when neither the confirmation nor its dialog is
\* there, and the change of address shown is the account's while no status is asked for and none is out of date.
THEOREM SettingsAreTrue == AccountSpec => []SettingsTellTheTruth
<1>1. SettingsInv => SettingsTellTheTruth
  BY DEF SettingsInv, StatusKnown, SettingsTellTheTruth, PendingChangeIsShown
<1>2. AccountSpec => []SettingsInv
  BY SettingsInitInv, SettingsStepInv, PTL DEF AccountSpec
<1> QED
  BY <1>1, <1>2, PTL

-----------------------------------------------------------------------------
(************************ the lists of an administrator ********************)

ShownFields == {"role", "status"}
StandingOf == [role : {"admin", "user"}, status : EntryStatus \cup {"none", "gone"}]
RosterLoadOf == [phase : {"none", "asked", "read"}, page : Nat \ {0}, rows : Seq(RosterRow), total : Nat,
                 missed : SUBSET (RosterEntry \X ShownFields), moved : BOOLEAN]
RosterTask == [op : ShownFields \cup {"create", "revoke"}, id : RosterEntry \cup {None},
               value : {"admin", "user", "active", "banned", "revoked", None},
               phase : {"asked", "done", "refused", "refreshing"}]
RosterTypes ==
    /\ roster \in Seq(RosterEntry) /\ standing \in [RosterEntry -> StandingOf]
    /\ rosterPage \in Nat \ {0} /\ heading \in (Nat \ {0}) \cup {None}
    /\ rosterLoad \in RosterLoadOf
    /\ rosterShown \in [page : Nat \ {0}, rows : Seq(RosterRow), total : Nat]
    /\ rosterTasks \subseteq RosterTask
    /\ untold \subseteq RosterEntry \X ShownFields /\ behind \in BOOLEAN

\* who is in the table is there once, and neither gone nor still to come
RosterIsATable ==
    /\ \A k \in DOMAIN roster : standing[roster[k]].status \in EntryStatus
    /\ \A j, k \in DOMAIN roster : roster[j] = roster[k] => j = k

\* a row, or a request about it, is of an entry that has been there
Come(stands, i) == i \in RosterEntry /\ stands[i].status # "none"
RowsCome(stands, rows) == \A k \in DOMAIN rows : Come(stands, rows[k].id)
RowsHaveCome == RowsCome(standing, rosterShown.rows) /\ RowsCome(standing, rosterLoad.rows)

TaskFits(t) ==
    /\ t.op # "create" => Come(standing, t.id)
    /\ t.op = "role" => t.value \in {"admin", "user"}
    /\ t.op = "status" => t.value \in {"active", "banned"}
    /\ t.op = "revoke" => t.value = "revoked"
TasksFit ==
    /\ \A t \in rosterTasks : TaskFits(t)
    /\ \A t, u \in rosterTasks : t.op \in ShownFields /\ u.op = t.op /\ u.id = t.id => u = t

\* the page that is loaded, or shown, is that of the address, unless a navigation is under way
PagingFits ==
    /\ heading # rosterPage
    /\ IF rosterLoad.phase = "none"
       THEN rosterShown.page = rosterPage /\ (heading = None => rosterPage <= Pages(rosterShown.total))
       ELSE rosterLoad.page = rosterPage

\* a list that is not behind has the entries of its page
IsOnPage(ids, rows, page) == [k \in DOMAIN rows |-> rows[k].id] = OnPage(ids, page)
ListFits ==
    /\ ~behind => rosterShown.total = Len(roster) /\ IsOnPage(roster, rosterShown.rows, rosterShown.page)
    /\ rosterLoad.phase = "read" /\ ~rosterLoad.moved =>
         rosterLoad.total = Len(roster) /\ IsOnPage(roster, rosterLoad.rows, rosterLoad.page)

\* what is not excused is told by the rows, or by an answer on its way
Tells(stands, row, f) == stands[row.id].status # "gone" => row[f] = stands[row.id][f]
RowsTellBut(stands, rows, excused) ==
    \A k \in DOMAIN rows, f \in ShownFields : <<rows[k].id, f>> \in excused \/ Tells(stands, rows[k], f)
Answering(t) == t.phase = "done" /\ t.op \in ShownFields
AnswersTell == \A t \in rosterTasks : Answering(t) /\ <<t.id, t.op>> \notin untold =>
    standing[t.id].status = "gone" \/ t.value = standing[t.id][t.op]
RowsTell == \A k \in DOMAIN rosterShown.rows, f \in ShownFields :
    \/ <<rosterShown.rows[k].id, f>> \in untold
    \/ \E t \in rosterTasks : Answering(t) /\ t.id = rosterShown.rows[k].id /\ t.op = f
    \/ Tells(standing, rosterShown.rows[k], f)
LoadTells == rosterLoad.phase = "read" => RowsTellBut(standing, rosterLoad.rows, rosterLoad.missed)

RosterInv ==
    /\ RosterTypes /\ RosterIsATable /\ RowsHaveCome /\ TasksFit
    /\ PagingFits /\ ListFits /\ AnswersTell /\ RowsTell /\ LoadTells

LEMMA RosterFacts ==
    /\ OwnEntry \in RosterEntry /\ RosterPageSize \in Nat \ {0} /\ None \notin Nat
BY RosterAssumption, NoneAssumption

LEMMA PagesArePositive == ASSUME NEW n \in Nat PROVE Pages(n) \in Nat \ {0}
<1>1. CASE n = 0
  BY <1>1 DEF Pages
<1>2. CASE n # 0
  <2> DEFINE s == RosterPageSize
             m == n + s - 1
  <2>1. s \in Nat \ {0} /\ m \in Nat /\ m >= s
    BY <1>2, RosterFacts
  <2>2. Pages(n) = m \div s
    BY <1>2 DEF Pages
  <2> HIDE DEF m, s
  <2>3. m \div s \in Nat \ {0}
    BY <2>1
  <2> QED
    BY <2>2, <2>3
<1> QED
  BY <1>1, <1>2

LEMMA OnPageIsPart ==
    ASSUME NEW r \in Seq(RosterEntry), NEW page \in Nat \ {0}
    PROVE  /\ OnPage(r, page) \in Seq(RosterEntry)
           /\ \A k \in DOMAIN OnPage(r, page) : \E j \in DOMAIN r : OnPage(r, page)[k] = r[j]
<1> DEFINE last == page * RosterPageSize
           from == (page - 1) * RosterPageSize + 1
           to == IF last < Len(r) THEN last ELSE Len(r)
<1>1. from \in Nat \ {0} /\ last \in Nat
  BY RosterFacts
<1>2. to \in Nat /\ to <= Len(r)
  BY <1>1
<1>3. OnPage(r, page) = SubSeq(r, from, to)
  BY DEF OnPage
<1> HIDE DEF last, from, to
<1>4. \A i \in from .. to : i \in 1 .. Len(r) /\ r[i] \in RosterEntry
  BY <1>1, <1>2
<1>5. /\ SubSeq(r, from, to) \in Seq(RosterEntry)
      /\ Len(SubSeq(r, from, to)) = IF from <= to THEN to - from + 1 ELSE 0
      /\ \A i \in 1 .. to - from + 1 : SubSeq(r, from, to)[i] = r[from + i - 1]
  BY <1>1, <1>2, <1>4, SubSeqProperties
<1>6. ASSUME NEW k \in DOMAIN SubSeq(r, from, to)
      PROVE  \E j \in DOMAIN r : SubSeq(r, from, to)[k] = r[j]
  <2>1. k \in 1 .. to - from + 1
    BY <1>1, <1>2, <1>5
  <2> DEFINE j == from + k - 1
  <2>2. j \in from .. to
    BY <1>1, <1>2, <2>1
  <2>3. SubSeq(r, from, to)[k] = r[j]
    BY <1>5, <2>1
  <2> HIDE DEF j
  <2>4. j \in DOMAIN r
    BY <1>4, <2>2
  <2> QED
    BY <2>3, <2>4
<1> QED
  BY <1>3, <1>5, <1>6

LEMMA RowsAreRead ==
    ASSUME RosterInv, NEW page \in Nat \ {0}
    PROVE  /\ RowsOn(page) \in Seq(RosterRow) /\ IsOnPage(roster, RowsOn(page), page)
           /\ RowsCome(standing, RowsOn(page)) /\ \A excused : RowsTellBut(standing, RowsOn(page), excused)
<1> DEFINE ids == OnPage(roster, page)
           row(i) == [id |-> i, role |-> standing[i].role, status |-> standing[i].status]
           rows == [k \in DOMAIN ids |-> row(ids[k])]
<1>1. ids \in Seq(RosterEntry) /\ \A k \in DOMAIN ids : \E j \in DOMAIN roster : ids[k] = roster[j]
  BY OnPageIsPart DEF RosterInv, RosterTypes
<1>2. \A i \in RosterEntry : standing[i] \in StandingOf
  BY DEF RosterInv, RosterTypes
<1>3. RowsOn(page) = rows
  BY DEF RowsOn
<1> HIDE DEF ids
<1>4. ASSUME NEW k \in DOMAIN ids
      PROVE  /\ ids[k] \in RosterEntry /\ standing[ids[k]].status \in EntryStatus
             /\ row(ids[k]) \in RosterRow
  <2>1. ids[k] \in RosterEntry /\ standing[ids[k]].status \in EntryStatus
    BY <1>1 DEF RosterInv, RosterIsATable
  <2>2. standing[ids[k]].role \in {"admin", "user"}
    BY <1>2, <2>1 DEF StandingOf
  <2> QED
    BY <2>1, <2>2 DEF RosterRow
<1>5. DOMAIN rows = DOMAIN ids /\ \A k \in DOMAIN ids : rows[k] = row(ids[k])
  OBVIOUS
<1>6. rows \in Seq(RosterRow)
  <2>1. DOMAIN ids = 1 .. Len(ids) /\ Len(ids) \in Nat
    BY <1>1
  <2>2. rows \in [1 .. Len(ids) -> RosterRow]
    BY <1>4, <2>1
  <2> HIDE DEF rows
  <2> QED
    BY <2>1, <2>2, SeqDef
<1>7. [k \in DOMAIN rows |-> rows[k].id] = ids
  <2>1. ids = [k \in DOMAIN ids |-> ids[k]]
    BY <1>1
  <2> QED
    BY <1>5, <2>1
<1>8. RowsCome(standing, rows)
  BY <1>4, <1>5 DEF RowsCome, Come, EntryStatus
<1>9. ASSUME NEW k \in DOMAIN rows, NEW f \in ShownFields PROVE Tells(standing, rows[k], f)
  BY <1>5 DEF Tells, ShownFields
<1> HIDE DEF rows
<1> QED
  BY <1>3, <1>6, <1>7, <1>8, <1>9 DEF IsOnPage, RowsTellBut, ids

\* Nothing moves but the navigation and the load.
LEMMA LoadMoves ==
    ASSUME RosterInv, UNCHANGED <<rosterTable, rosterShown, rosterTasks>>,
           rosterPage' \in Nat \ {0}, heading' \in (Nat \ {0}) \cup {None}, rosterLoad' \in RosterLoadOf, PagingFits',
           \/ rosterLoad' = rosterLoad
           \/ rosterLoad'.phase # "read" /\ rosterLoad'.rows = <<>>
           \/ rosterLoad' = [rosterLoad EXCEPT !.phase = "read", !.rows = RowsOn(rosterLoad.page), !.total = Len(roster)]
    PROVE  RosterInv'
<1>1. UNCHANGED <<roster, standing, untold, behind, rosterShown, rosterTasks>>
  BY DEF rosterTable
<1>2. RosterTypes'
  BY <1>1 DEF RosterInv, RosterTypes
<1>3. RosterIsATable' /\ TasksFit' /\ AnswersTell'
  BY <1>1 DEF RosterInv, RosterIsATable, TasksFit, TaskFits, Come, AnswersTell, Answering
<1>4. RowsTell'
  BY <1>1 DEF RosterInv, RowsTell, Tells, Answering
<1>5. /\ RowsCome(standing', rosterShown'.rows)
      /\ ~behind' => rosterShown'.total = Len(roster)' /\ IsOnPage(roster', rosterShown'.rows, rosterShown'.page)
  BY <1>1 DEF RosterInv, RowsHaveCome, ListFits
<1>6. /\ RowsCome(standing, rosterLoad'.rows)
      /\ rosterLoad'.phase = "read" /\ ~rosterLoad'.moved =>
           rosterLoad'.total = Len(roster) /\ IsOnPage(roster, rosterLoad'.rows, rosterLoad'.page)
      /\ rosterLoad'.phase = "read" => RowsTellBut(standing, rosterLoad'.rows, rosterLoad'.missed)
  <2>1. CASE rosterLoad' = rosterLoad
    BY <2>1 DEF RosterInv, RowsHaveCome, ListFits, LoadTells
  <2>2. CASE rosterLoad'.phase # "read" /\ rosterLoad'.rows = <<>>
    <3>1. DOMAIN rosterLoad'.rows = {}
      BY <2>2
    <3> QED
      BY <2>2, <3>1 DEF RowsCome
  <2>3. CASE rosterLoad' = [rosterLoad EXCEPT !.phase = "read", !.rows = RowsOn(rosterLoad.page), !.total = Len(roster)]
    <3> DEFINE page == rosterLoad.page
               rows == RowsOn(page)
    <3>1. page \in Nat \ {0}
      BY DEF RosterInv, RosterTypes, RosterLoadOf
    <3>2. rosterLoad'.rows = rows /\ rosterLoad'.total = Len(roster) /\ rosterLoad'.page = page
      BY <2>3 DEF RosterInv, RosterTypes, RosterLoadOf
    <3>3. /\ IsOnPage(roster, rows, page)
          /\ RowsCome(standing, rows) /\ \A excused : RowsTellBut(standing, rows, excused)
      BY <3>1, RowsAreRead
    <3> HIDE DEF rows, page
    <3> QED
      BY <3>2, <3>3
  <2> QED
    BY <2>1, <2>2, <2>3
<1>7. RowsHaveCome'
  BY <1>1, <1>5, <1>6 DEF RowsHaveCome
<1>8. ListFits'
  BY <1>1, <1>5, <1>6 DEF ListFits
<1>9. LoadTells'
  BY <1>1, <1>6 DEF LoadTells
<1> QED
  BY <1>2, <1>3, <1>4, <1>7, <1>8, <1>9 DEF RosterInv

LEMMA LoadTyped ==
    ASSUME NEW page \in Nat \ {0}
    PROVE  /\ LoadOf(page) \in RosterLoadOf /\ LoadOf(page).phase = "asked" /\ LoadOf(page).page = page
           /\ LoadOf(page).rows = <<>>
           /\ NoLoad \in RosterLoadOf /\ NoLoad.phase = "none" /\ NoLoad.rows = <<>>
<1>1. <<>> \in Seq(RosterRow) /\ {} \in SUBSET (RosterEntry \X ShownFields)
  BY EmptySeq
<1>2. NoLoad \in RosterLoadOf /\ NoLoad.phase = "none" /\ NoLoad.rows = <<>>
  BY <1>1 DEF NoLoad, RosterLoadOf
<1> DEFINE n == NoLoad
<1>3. LoadOf(page) = [n EXCEPT !.phase = "asked", !.page = page]
  BY DEF LoadOf
<1> HIDE DEF n
<1>4. n \in RosterLoadOf /\ n.rows = <<>>
  BY <1>2 DEF n
<1>5. LoadOf(page) \in RosterLoadOf /\ LoadOf(page).phase = "asked" /\ LoadOf(page).page = page /\ LoadOf(page).rows = n.rows
  BY <1>3, <1>4 DEF RosterLoadOf
<1> QED
  BY <1>2, <1>4, <1>5

LEMMA TurnsKeep ==
    ASSUME RosterInv, turnPage \/ pageIsTurned \/ rosterIsRead
    PROVE  RosterInv'
<1>1. CASE turnPage
  <2>1. heading' \in Nat \ {0} /\ heading' # rosterPage /\ UNCHANGED <<rosterTable, rosterPage, rosterLoad, rosterShown, rosterTasks>>
    <3>1. Cardinality(RosterEntry) \in Nat
      BY RosterAssumption, FS_CardinalityType
    <3> QED
      BY <1>1, <3>1 DEF turnPage
  <2>2. PagingFits'
    BY <2>1, RosterFacts DEF RosterInv, PagingFits
  <2>3. rosterPage' \in Nat \ {0} /\ rosterLoad' \in RosterLoadOf
    BY <2>1 DEF RosterInv, RosterTypes
  <2> QED
    BY <2>1, <2>2, <2>3, LoadMoves
<1>2. CASE pageIsTurned
  <2>1. /\ heading \in Nat \ {0} /\ heading # rosterPage
    BY <1>2 DEF pageIsTurned, RosterInv, RosterTypes, PagingFits
  <2>2. /\ rosterPage' = heading /\ heading' = None /\ rosterLoad' = LoadOf(heading)
        /\ UNCHANGED <<rosterTable, rosterShown, rosterTasks>>
    BY <1>2, <2>1 DEF pageIsTurned
  <2>3. PagingFits'
    BY <2>1, <2>2, LoadTyped, RosterFacts DEF PagingFits
  <2> QED
    BY <2>1, <2>2, <2>3, LoadTyped, LoadMoves
<1>3. CASE rosterIsRead
  <2> DEFINE rows == RowsOn(rosterLoad.page)
  <2>1. rosterLoad \in RosterLoadOf /\ rosterLoad.page \in Nat \ {0} /\ rosterLoad.phase = "asked" /\ Len(roster) \in Nat
    BY <1>3 DEF rosterIsRead, RosterInv, RosterTypes, RosterLoadOf
  <2>2. rows \in Seq(RosterRow)
    BY <2>1, RowsAreRead
  <2>3. /\ rosterLoad' = [rosterLoad EXCEPT !.phase = "read", !.rows = rows, !.total = Len(roster)]
        /\ UNCHANGED <<rosterTable, rosterPage, heading, rosterShown, rosterTasks>>
    BY <1>3 DEF rosterIsRead
  <2> HIDE DEF rows
  <2>4. rosterLoad' \in RosterLoadOf /\ rosterLoad'.phase = "read" /\ rosterLoad'.page = rosterLoad.page
    BY <2>1, <2>2, <2>3 DEF RosterLoadOf
  <2>5. PagingFits'
    BY <2>1, <2>3, <2>4 DEF RosterInv, PagingFits
  <2>6. rosterPage' \in Nat \ {0} /\ heading' \in (Nat \ {0}) \cup {None}
    BY <2>3 DEF RosterInv, RosterTypes
  <2> QED
    BY <2>3, <2>4, <2>5, <2>6, LoadMoves DEF rows
<1> QED
  BY <1>1, <1>2, <1>3

LEMMA LoadsKeep ==
    ASSUME RosterInv, rosterIsShown \/ rosterFails
    PROVE  RosterInv'
<1>1. rosterLoad \in RosterLoadOf /\ rosterLoad.phase # "none" /\ rosterLoad.page = rosterPage /\ rosterPage \in Nat \ {0}
  BY DEF rosterIsShown, rosterFails, RosterInv, RosterTypes, PagingFits
<1>2. PICK answer \in [page : {rosterPage}, rows : Seq(RosterRow), total : Nat] :
        /\ Loaded(answer)
        /\ \/ /\ rosterLoad.phase = "read" /\ answer.rows = rosterLoad.rows /\ answer.total = rosterLoad.total
              /\ untold' = rosterLoad.missed \cup UntoldYet /\ behind' = rosterLoad.moved
           \/ answer.rows = <<>> /\ answer.total = 0 /\ untold' = UntoldYet /\ behind' = TRUE
  <2>1. CASE rosterIsShown
    <3> DEFINE answer == [page |-> rosterLoad.page, rows |-> rosterLoad.rows, total |-> rosterLoad.total]
    <3>1. answer \in [page : {rosterPage}, rows : Seq(RosterRow), total : Nat]
      BY <1>1 DEF RosterLoadOf
    <3> QED
      BY <2>1, <3>1 DEF rosterIsShown
  <2>2. CASE rosterFails
    <3> DEFINE answer == [page |-> rosterPage, rows |-> <<>>, total |-> 0]
    <3>1. answer \in [page : {rosterPage}, rows : Seq(RosterRow), total : Nat]
      BY EmptySeq
    <3> QED
      BY <2>2, <3>1 DEF rosterFails
  <2> QED
    BY <2>1, <2>2
<1>3. /\ rosterShown' = answer /\ rosterLoad' = NoLoad /\ heading' = Redirected(answer.total)
      /\ rosterTasks' = {t \in rosterTasks : t.phase # "refreshing"}
      /\ UNCHANGED <<roster, standing, rosterPage>>
  BY <1>2 DEF Loaded
<1>4. answer.page = rosterPage /\ answer.rows \in Seq(RosterRow) /\ answer.total \in Nat
  BY <1>2
<1>5. Pages(answer.total) \in Nat \ {0}
  BY <1>4, PagesArePositive
<1>6. /\ heading' \in (Nat \ {0}) \cup {None} /\ heading' # rosterPage
      /\ heading' = None => rosterPage <= Pages(answer.total)
  BY <1>1, <1>3, <1>5, RosterFacts DEF Redirected, RosterInv, RosterTypes, PagingFits
<1>7. NoLoad \in RosterLoadOf /\ NoLoad.phase = "none" /\ DOMAIN NoLoad.rows = {}
  BY LoadTyped, <1>1
<1>8. untold' \subseteq RosterEntry \X ShownFields /\ behind' \in BOOLEAN
  BY <1>1, <1>2 DEF UntoldYet, RosterInv, RosterTypes, RosterLoadOf
<1>9. RosterTypes'
  <2>1. rosterShown' \in [page : Nat \ {0}, rows : Seq(RosterRow), total : Nat]
    BY <1>1, <1>2, <1>3
  <2>2. rosterTasks' \subseteq RosterTask
    BY <1>3 DEF RosterInv, RosterTypes
  <2> QED
    BY <1>3, <1>6, <1>7, <1>8, <2>1, <2>2 DEF RosterInv, RosterTypes
<1>10. RosterIsATable'
  BY <1>3 DEF RosterInv, RosterIsATable
<1>11. RowsHaveCome'
  <2>1. RowsCome(standing, answer.rows)
    BY <1>2 DEF RosterInv, RowsHaveCome, RowsCome
  <2> QED
    BY <1>3, <1>7, <2>1 DEF RowsHaveCome, RowsCome
<1>12. TasksFit'
  BY <1>3 DEF RosterInv, TasksFit, TaskFits, Come
<1>13. PagingFits'
  BY <1>3, <1>4, <1>6, <1>7 DEF PagingFits
<1>14. ListFits'
  <2>1. ASSUME ~behind' PROVE answer.total = Len(roster) /\ IsOnPage(roster, answer.rows, answer.page)
    BY <1>1, <1>2, <1>4, <2>1 DEF RosterInv, ListFits
  <2> QED
    BY <1>3, <1>7, <2>1 DEF ListFits
<1>15. \A t \in rosterTasks : Answering(t) /\ <<t.id, t.op>> \in untold => <<t.id, t.op>> \in untold'
  BY <1>2 DEF Answering, UntoldYet, Field, ShownFields
<1>16. AnswersTell'
  BY <1>3, <1>15 DEF RosterInv, AnswersTell, Answering
<1>17. RowsTell'
  <2>1. RowsTellBut(standing, answer.rows, untold')
    BY <1>2 DEF RosterInv, LoadTells, RowsTellBut
  <2> QED
    BY <1>3, <2>1 DEF RowsTell, RowsTellBut
<1>18. LoadTells'
  BY <1>3, <1>7 DEF LoadTells
<1> QED
  BY <1>9, <1>10, <1>11, <1>12, <1>13, <1>14, <1>16, <1>17, <1>18 DEF RosterInv

\* Only requests move, none of them an answer.
LEMMA TasksMove ==
    ASSUME RosterInv, UNCHANGED <<rosterTable, rosterView>>, rosterTasks' \subseteq RosterTask, TasksFit',
           \A t : Answering(t) => (t \in rosterTasks' <=> t \in rosterTasks)
    PROVE  RosterInv'
<1>1. UNCHANGED <<roster, standing, untold, behind, rosterPage, heading, rosterLoad, rosterShown>>
  BY DEF rosterTable, rosterView
<1>2. RosterTypes' /\ RosterIsATable' /\ RowsHaveCome'
  BY <1>1 DEF RosterInv, RosterTypes, RosterIsATable, RowsHaveCome
<1>3. PagingFits' /\ ListFits' /\ LoadTells'
  BY <1>1 DEF RosterInv, PagingFits, ListFits, LoadTells
<1>4. AnswersTell'
  BY <1>1 DEF RosterInv, AnswersTell
<1>5. RowsTell'
  BY <1>1 DEF RosterInv, RowsTell
<1> QED
  BY <1>2, <1>3, <1>4, <1>5 DEF RosterInv

LEMMA AskKeeps ==
    ASSUME RosterInv, NEW t \in RosterTask, TaskFits(t), t.phase = "asked", Ask(t),
           t.op \in ShownFields => \A u \in rosterTasks : ~(u.op = t.op /\ u.id = t.id)
    PROVE  RosterInv'
<1>1. UNCHANGED <<rosterTable, rosterView, standing>> /\ rosterTasks' = rosterTasks \cup {t}
  BY DEF Ask, rosterTable
<1>2. rosterTasks' \subseteq RosterTask
  BY <1>1 DEF RosterInv, RosterTypes
<1>3. TasksFit'
  BY <1>1 DEF RosterInv, TasksFit, TaskFits, Come
<1>4. \A u : Answering(u) => (u \in rosterTasks' <=> u \in rosterTasks)
  BY <1>1 DEF Answering
<1> QED
  BY <1>1, <1>2, <1>3, <1>4, TasksMove

LEMMA AsksKeep ==
    ASSUME RosterInv, askRole \/ askStatus \/ askInvite \/ askRevoke
    PROVE  RosterInv'
<1>1. \A row \in ShownRows : row \in RosterRow /\ Come(standing, row.id)
  BY DEF ShownRows, RosterInv, RosterTypes, RowsHaveCome, RowsCome
<1>2. CASE askRole
  <2>1. PICK row \in ShownRows, value \in {"admin", "user"} :
          /\ ~\E t \in rosterTasks : t.op = "role" /\ t.id = row.id
          /\ Ask(Asked("role", row.id, value))
    BY <1>2 DEF askRole
  <2> DEFINE t == Asked("role", row.id, value)
  <2>2. t \in RosterTask /\ TaskFits(t) /\ t.phase = "asked" /\ t.op = "role" /\ t.id = row.id
    BY <1>1, <2>1 DEF Asked, RosterTask, ShownFields, TaskFits, RosterRow
  <2> HIDE DEF t
  <2> QED
    BY <2>1, <2>2, AskKeeps DEF t
<1>3. CASE askStatus
  <2>1. PICK row \in ShownRows, value \in {"active", "banned"} :
          /\ ~\E t \in rosterTasks : t.op = "status" /\ t.id = row.id
          /\ Ask(Asked("status", row.id, value))
    BY <1>3 DEF askStatus
  <2> DEFINE t == Asked("status", row.id, value)
  <2>2. t \in RosterTask /\ TaskFits(t) /\ t.phase = "asked" /\ t.op = "status" /\ t.id = row.id
    BY <1>1, <2>1 DEF Asked, RosterTask, ShownFields, TaskFits, RosterRow
  <2> HIDE DEF t
  <2> QED
    BY <2>1, <2>2, AskKeeps DEF t
<1>4. CASE askInvite
  <2> DEFINE t == Asked("create", None, None)
  <2>1. t \in RosterTask /\ TaskFits(t) /\ t.phase = "asked" /\ t.op \notin ShownFields
    BY DEF Asked, RosterTask, ShownFields, TaskFits
  <2>2. Ask(t)
    BY <1>4 DEF askInvite
  <2> HIDE DEF t
  <2> QED
    BY <2>1, <2>2, AskKeeps
<1>5. CASE askRevoke
  <2>1. PICK row \in ShownRows : Ask(Asked("revoke", row.id, "revoked"))
    BY <1>5 DEF askRevoke
  <2> DEFINE t == Asked("revoke", row.id, "revoked")
  <2>2. t \in RosterTask /\ TaskFits(t) /\ t.phase = "asked" /\ t.op \notin ShownFields
    BY <1>1, <2>1 DEF Asked, RosterTask, ShownFields, TaskFits, RosterRow
  <2> HIDE DEF t
  <2> QED
    BY <2>1, <2>2, AskKeeps DEF t
<1> QED
  BY <1>2, <1>3, <1>4, <1>5

\* A request goes on: what it is about stays.
LEMMA TurnedFits ==
    ASSUME RosterInv, NEW t \in rosterTasks, NEW phase \in {"done", "refused", "refreshing"}, Turned(t, phase),
           \A i \in RosterEntry : standing[i].status # "none" => standing'[i].status # "none"
    PROVE  /\ rosterTasks' \subseteq RosterTask /\ TasksFit'
           /\ \A u : u # t /\ u # [t EXCEPT !.phase = phase] => (u \in rosterTasks' <=> u \in rosterTasks)
           /\ [t EXCEPT !.phase = phase] \in rosterTasks'
           /\ [t EXCEPT !.phase = phase].op = t.op /\ [t EXCEPT !.phase = phase].id = t.id
           /\ [t EXCEPT !.phase = phase].value = t.value /\ [t EXCEPT !.phase = phase].phase = phase
           /\ t \in rosterTasks' => t.phase = phase
<1> DEFINE n == [t EXCEPT !.phase = phase]
<1>1. t \in RosterTask /\ rosterTasks \subseteq RosterTask
  BY DEF RosterInv, RosterTypes
<1>2. n \in RosterTask /\ n.op = t.op /\ n.id = t.id /\ n.value = t.value /\ n.phase = phase
  BY <1>1 DEF RosterTask
<1>3. rosterTasks' = (rosterTasks \ {t}) \cup {n}
  BY DEF Turned
<1> HIDE DEF n
<1>4. rosterTasks' \subseteq RosterTask
  BY <1>1, <1>2, <1>3
<1>5. \A u \in rosterTasks : TaskFits(u)'
  BY DEF RosterInv, TasksFit, TaskFits, Come
<1>6. TaskFits(n)'
  BY <1>2, <1>5 DEF TaskFits
<1>7. \A u, v \in rosterTasks' : u.op \in ShownFields /\ v.op = u.op /\ v.id = u.id => v = u
  BY <1>2, <1>3 DEF RosterInv, TasksFit
<1>8. TasksFit'
  BY <1>3, <1>5, <1>6, <1>7 DEF TasksFit
<1>9. \A u : u # t /\ u # n => (u \in rosterTasks' <=> u \in rosterTasks)
  BY <1>3
<1>10. t \in rosterTasks' => t.phase = phase
  BY <1>2, <1>3
<1> QED
  BY <1>2, <1>3, <1>4, <1>8, <1>9, <1>10 DEF n

LEMMA RefusalKeeps ==
    ASSUME RosterInv, taskIsRefused
    PROVE  RosterInv'
<1>1. PICK t \in rosterTasks : t.phase = "asked" /\ Turned(t, "refused") /\ UNCHANGED <<rosterTable, rosterView>>
  BY DEF taskIsRefused
<1>2. UNCHANGED standing
  BY <1>1 DEF rosterTable
<1> DEFINE n == [t EXCEPT !.phase = "refused"]
<1>3. /\ rosterTasks' \subseteq RosterTask /\ TasksFit' /\ n.phase = "refused"
      /\ \A u : u # t /\ u # n => (u \in rosterTasks' <=> u \in rosterTasks)
  BY <1>1, <1>2, TurnedFits
<1> HIDE DEF n
<1>4. \A u : Answering(u) => (u \in rosterTasks' <=> u \in rosterTasks)
  BY <1>1, <1>3 DEF Answering
<1> QED
  BY <1>1, <1>3, <1>4, TasksMove

\* The answer about an account is written into its rows.
LEMMA AccountAnswerKeeps ==
    ASSUME RosterInv, accountAnswered
    PROVE  RosterInv'
<1>1. PICK t \in rosterTasks :
        /\ t.phase = "done" /\ t.op \in ShownFields
        /\ rosterShown' = Patched(t) /\ rosterTasks' = rosterTasks \ {t}
        /\ UNCHANGED <<rosterTable, rosterPage, heading, rosterLoad>>
  BY DEF accountAnswered, ShownFields
<1>2. UNCHANGED <<roster, standing, untold, behind>>
  BY <1>1 DEF rosterTable
<1> DEFINE rows == rosterShown.rows
           row(k) == IF rows[k].id # t.id THEN rows[k]
                     ELSE IF t.op = "role" THEN [rows[k] EXCEPT !.role = t.value] ELSE [rows[k] EXCEPT !.status = t.value]
           new == [k \in DOMAIN rows |-> row(k)]
<1>3. rows \in Seq(RosterRow) /\ rosterShown \in [page : Nat \ {0}, rows : Seq(RosterRow), total : Nat]
  BY DEF RosterInv, RosterTypes
<1>4. rosterShown' = [rosterShown EXCEPT !.rows = new]
  BY <1>1 DEF Patched
<1>5. DOMAIN new = DOMAIN rows /\ \A k \in DOMAIN rows : new[k] = row(k)
  OBVIOUS
<1> HIDE DEF new, rows
<1>6. TaskFits(t)
  BY DEF RosterInv, TasksFit
<1>7. ASSUME NEW k \in DOMAIN rows
      PROVE  /\ row(k) \in RosterRow /\ row(k).id = rows[k].id
             /\ \A f \in ShownFields : row(k)[f] = IF rows[k].id = t.id /\ f = t.op THEN t.value ELSE rows[k][f]
  <2>1. rows[k] \in RosterRow
    BY <1>3
  <2>2. CASE rows[k].id # t.id
    BY <2>1, <2>2
  <2>3. CASE rows[k].id = t.id /\ t.op = "role"
    BY <1>6, <2>1, <2>3 DEF TaskFits, RosterRow, ShownFields
  <2>4. CASE rows[k].id = t.id /\ t.op = "status"
    BY <1>6, <2>1, <2>4 DEF TaskFits, RosterRow, ShownFields, EntryStatus
  <2> QED
    BY <1>1, <2>2, <2>3, <2>4 DEF ShownFields
<1> HIDE DEF row
<1>8. new \in Seq(RosterRow)
  <2>1. DOMAIN rows = 1 .. Len(rows) /\ Len(rows) \in Nat
    BY <1>3
  <2>2. new = [k \in 1 .. Len(rows) |-> row(k)]
    BY <2>1 DEF new
  <2>3. new \in [1 .. Len(rows) -> RosterRow]
    BY <1>7, <2>1, <2>2
  <2> QED
    BY <2>1, <2>3, SeqDef
<1>9. rosterShown'.rows = new /\ rosterShown'.page = rosterShown.page /\ rosterShown'.total = rosterShown.total
      /\ rosterShown' \in [page : Nat \ {0}, rows : Seq(RosterRow), total : Nat]
  BY <1>3, <1>4, <1>8
<1>10. RosterTypes'
  BY <1>1, <1>2, <1>9 DEF RosterInv, RosterTypes
<1>11. RosterIsATable' /\ TasksFit'
  BY <1>1, <1>2 DEF RosterInv, RosterIsATable, TasksFit, TaskFits
<1>12. RowsHaveCome'
  BY <1>1, <1>2, <1>5, <1>7, <1>9 DEF RosterInv, RowsHaveCome, RowsCome, rows
<1>13. PagingFits' /\ LoadTells'
  BY <1>1, <1>2, <1>9 DEF RosterInv, PagingFits, LoadTells
<1>14. ListFits'
  <2>1. [k \in DOMAIN new |-> new[k].id] = [k \in DOMAIN rows |-> rows[k].id]
    BY <1>5, <1>7
  <2> QED
    BY <1>1, <1>2, <1>9, <2>1 DEF RosterInv, ListFits, IsOnPage, rows
<1>15. AnswersTell'
  BY <1>1, <1>2 DEF RosterInv, AnswersTell
<1>16. RowsTell'
  <2> SUFFICES ASSUME NEW k \in DOMAIN rows, NEW f \in ShownFields, <<rows[k].id, f>> \notin untold,
                      \A u \in rosterTasks \ {t} : ~(Answering(u) /\ u.id = rows[k].id /\ u.op = f),
                      standing[rows[k].id].status # "gone"
               PROVE  new[k][f] = standing[rows[k].id][f]
    BY <1>1, <1>2, <1>5, <1>7, <1>9 DEF RowsTell, Tells
  <2>1. CASE rows[k].id = t.id /\ f = t.op
    <3>1. t.value = standing[t.id][t.op]
      BY <1>1, <2>1 DEF RosterInv, AnswersTell, Answering
    <3> QED
      BY <1>5, <1>7, <2>1, <3>1
  <2>2. CASE ~(rows[k].id = t.id /\ f = t.op)
    <3>1. rows[k][f] = standing[rows[k].id][f]
      BY <2>2 DEF RosterInv, RowsTell, Tells, rows
    <3> QED
      BY <1>5, <1>7, <2>2, <3>1
  <2> QED
    BY <2>1, <2>2
<1> QED
  BY <1>10, <1>11, <1>12, <1>13, <1>14, <1>15, <1>16 DEF RosterInv

\* An answer about an invite loads the page again.
LEMMA InviteAnswerKeeps ==
    ASSUME RosterInv, inviteAnswered
    PROVE  RosterInv'
<1>1. PICK t \in rosterTasks :
        /\ t.phase = "done" /\ t.op \in {"create", "revoke"}
        /\ heading' = IF t.op = "create" /\ rosterPage # 1 THEN 1 ELSE heading
        /\ rosterLoad' = LoadOf(rosterPage)
        /\ Turned(t, "refreshing")
        /\ UNCHANGED <<rosterTable, rosterPage, rosterShown>>
  BY DEF inviteAnswered
<1>2. UNCHANGED <<roster, standing, untold, behind>>
  BY <1>1 DEF rosterTable
<1>3. rosterPage \in Nat \ {0} /\ heading \in (Nat \ {0}) \cup {None} /\ heading # rosterPage
  BY DEF RosterInv, RosterTypes, PagingFits
<1>4. /\ rosterLoad' \in RosterLoadOf /\ rosterLoad'.phase = "asked" /\ rosterLoad'.page = rosterPage
      /\ rosterLoad'.rows = <<>>
  BY <1>1, <1>3, LoadTyped
<1> DEFINE n == [t EXCEPT !.phase = "refreshing"]
<1>5. /\ rosterTasks' \subseteq RosterTask /\ TasksFit' /\ n.phase = "refreshing"
      /\ \A u : u # t /\ u # n => (u \in rosterTasks' <=> u \in rosterTasks)
  BY <1>1, <1>2, TurnedFits
<1> HIDE DEF n
<1>6. \A u : Answering(u) => (u \in rosterTasks' <=> u \in rosterTasks)
  BY <1>1, <1>5 DEF Answering, ShownFields
<1>7. heading' \in (Nat \ {0}) \cup {None} /\ heading' # rosterPage
  BY <1>1, <1>3
<1>8. RosterTypes'
  BY <1>1, <1>2, <1>4, <1>5, <1>7 DEF RosterInv, RosterTypes
<1>9. RosterIsATable'
  BY <1>2 DEF RosterInv, RosterIsATable
<1>10. RowsHaveCome'
  <2>1. DOMAIN rosterLoad'.rows = {}
    BY <1>4
  <2> QED
    BY <1>1, <1>2, <2>1 DEF RosterInv, RowsHaveCome, RowsCome
<1>11. PagingFits' /\ LoadTells'
  BY <1>1, <1>4, <1>7 DEF PagingFits, LoadTells
<1>12. ListFits'
  BY <1>1, <1>2, <1>4 DEF RosterInv, ListFits
<1>13. AnswersTell'
  BY <1>2, <1>6 DEF RosterInv, AnswersTell
<1>14. RowsTell'
  BY <1>1, <1>2, <1>6 DEF RosterInv, RowsTell
<1> QED
  BY <1>5, <1>8, <1>9, <1>10, <1>11, <1>12, <1>13, <1>14 DEF RosterInv

\* An answer that is lost leaves its field untold.
LEMMA FailureKeeps ==
    ASSUME RosterInv, taskFails
    PROVE  RosterInv'
<1>1. PICK t \in rosterTasks :
        /\ t.phase \in {"refused", "done"}
        /\ untold' = IF t.phase = "done" /\ t.op # "create" THEN untold \cup {Field(t)} ELSE untold
        /\ rosterTasks' = rosterTasks \ {t}
        /\ UNCHANGED <<roster, standing, behind, rosterView>>
  BY DEF taskFails
<1>2. UNCHANGED <<rosterPage, heading, rosterLoad, rosterShown>>
  BY <1>1 DEF rosterView
<1>3. t \in RosterTask /\ (t.op # "create" => t.id \in RosterEntry)
  BY DEF RosterInv, RosterTypes, TasksFit, TaskFits, Come
<1>4. untold' \subseteq RosterEntry \X ShownFields /\ untold \subseteq untold'
  <2>1. t.op # "create" => Field(t) \in RosterEntry \X ShownFields
    BY <1>3 DEF Field, ShownFields
  <2> QED
    BY <1>1, <2>1 DEF RosterInv, RosterTypes
<1>5. Answering(t) => <<t.id, t.op>> \in untold'
  BY <1>1 DEF Answering, Field, ShownFields
<1>6. RosterTypes' /\ RosterIsATable' /\ RowsHaveCome'
  BY <1>1, <1>2, <1>4 DEF RosterInv, RosterTypes, RosterIsATable, RowsHaveCome
<1>7. PagingFits' /\ ListFits' /\ LoadTells'
  BY <1>1, <1>2 DEF RosterInv, PagingFits, ListFits, LoadTells
<1>8. TasksFit'
  BY <1>1 DEF RosterInv, TasksFit, TaskFits
<1>9. AnswersTell'
  BY <1>1, <1>4 DEF RosterInv, AnswersTell
<1>10. RowsTell'
  BY <1>1, <1>2, <1>4, <1>5 DEF RosterInv, RowsTell
<1> QED
  BY <1>6, <1>7, <1>8, <1>9, <1>10 DEF RosterInv

\* A field of an entry changes: one that is not to be told by an answer is untold.
LEMMA FieldsChange ==
    ASSUME RosterInv, NEW i \in RosterEntry, NEW entry \in StandingOf, NEW told \in BOOLEAN, EntryChange(i, entry, told),
           standing[i].status \in EntryStatus, entry.status \in EntryStatus,
           UNCHANGED <<rosterPage, heading, rosterShown>>, rosterTasks' \subseteq RosterTask, TasksFit',
           \A u \in rosterTasks : Answering(u) => u \in rosterTasks',
           \A u \in rosterTasks' : Answering(u) =>
             \/ u \in rosterTasks /\ (u.id = i => entry[u.op] = standing[i][u.op])
             \/ u \in rosterTasks /\ ~told
             \/ u.id = i /\ u.value = entry[u.op] /\ told,
           told => \A f \in ShownFields : entry[f] # standing[i][f] =>
                     \E u \in rosterTasks' : Answering(u) /\ u.id = i /\ u.op = f
    PROVE  RosterInv'
<1> DEFINE changed == {<<i, f>> : f \in {g \in DOMAIN entry : entry[g] # standing[i][g]}}
<1>1. /\ standing' = [standing EXCEPT ![i] = entry]
      /\ untold' = IF told THEN untold \ changed ELSE untold \cup changed
      /\ rosterLoad' = [rosterLoad EXCEPT !.missed = IF rosterLoad.phase = "read" THEN rosterLoad.missed \cup changed ELSE rosterLoad.missed]
      /\ UNCHANGED <<roster, behind>>
  BY DEF EntryChange
<1>2. DOMAIN entry = ShownFields
  BY DEF StandingOf, ShownFields
<1>3. changed \subseteq RosterEntry \X ShownFields
  BY <1>2
<1>4. \A j \in RosterEntry, f \in ShownFields : <<j, f>> \in changed <=> j = i /\ entry[f] # standing[i][f]
  BY <1>2
<1> HIDE DEF changed
<1>5. standing \in [RosterEntry -> StandingOf] /\ rosterLoad \in RosterLoadOf
  BY DEF RosterInv, RosterTypes
<1>6. /\ rosterLoad' \in RosterLoadOf /\ rosterLoad'.phase = rosterLoad.phase /\ rosterLoad'.page = rosterLoad.page
      /\ rosterLoad'.rows = rosterLoad.rows /\ rosterLoad'.total = rosterLoad.total /\ rosterLoad'.moved = rosterLoad.moved
      /\ rosterLoad.phase = "read" => rosterLoad'.missed = rosterLoad.missed \cup changed
  BY <1>1, <1>3, <1>5 DEF RosterLoadOf
<1>7. /\ standing' \in [RosterEntry -> StandingOf] /\ standing'[i] = entry
      /\ \A j \in RosterEntry : j # i => standing'[j] = standing[j]
  BY <1>1, <1>5
<1>8. \A j \in RosterEntry : /\ standing[j].status \in EntryStatus => standing'[j].status \in EntryStatus
                             /\ standing[j].status # "none" => standing'[j].status # "none"
                             /\ (standing[j].status = "gone") <=> (standing'[j].status = "gone")
  BY <1>7 DEF EntryStatus
<1>9. \A j \in RosterEntry, f \in ShownFields : <<j, f>> \notin changed => standing'[j][f] = standing[j][f]
  BY <1>4, <1>7
<1>10. RosterTypes'
  <2>1. untold' \subseteq RosterEntry \X ShownFields
    BY <1>1, <1>3 DEF RosterInv, RosterTypes
  <2> QED
    BY <1>1, <1>6, <1>7, <2>1 DEF RosterInv, RosterTypes
<1>11. RosterIsATable'
  <2>1. \A k \in DOMAIN roster : roster[k] \in RosterEntry
    BY DEF RosterInv, RosterTypes
  <2> QED
    BY <1>1, <1>8, <2>1 DEF RosterInv, RosterIsATable
<1>12. RowsHaveCome'
  BY <1>6, <1>8 DEF RosterInv, RowsHaveCome, RowsCome, Come
<1>13. PagingFits' /\ ListFits'
  BY <1>1, <1>6 DEF RosterInv, PagingFits, ListFits
<1>14. AnswersTell'
  <2> SUFFICES ASSUME NEW u \in rosterTasks', Answering(u), <<u.id, u.op>> \notin untold', standing'[u.id].status # "gone"
               PROVE  u.value = standing'[u.id][u.op]
    BY DEF AnswersTell
  <2>1. u.op \in ShownFields /\ u.id \in RosterEntry
    BY DEF TasksFit, TaskFits, Come, Answering, ShownFields
  <2>2. CASE u.id = i /\ u.value = entry[u.op] /\ told
    BY <1>7, <2>2
  <2>3. CASE u \in rosterTasks /\ <<u.id, u.op>> \notin changed
    <3>1. <<u.id, u.op>> \notin untold
      BY <1>1, <2>3
    <3> QED
      BY <1>8, <1>9, <2>1, <2>3, <3>1 DEF RosterInv, AnswersTell
  <2>4. CASE u \in rosterTasks /\ (u.id = i => entry[u.op] = standing[i][u.op])
    BY <1>4, <2>1, <2>3, <2>4
  <2>5. CASE u \in rosterTasks /\ ~told
    BY <1>1, <2>3, <2>5
  <2> QED
    BY <2>2, <2>4, <2>5
<1>15. RowsTell'
  <2> DEFINE rows == rosterShown.rows
  <2>1. \A k \in DOMAIN rows : rows[k].id \in RosterEntry
    BY DEF RosterInv, RowsHaveCome, RowsCome, Come
  <2> SUFFICES ASSUME NEW k \in DOMAIN rows, NEW f \in ShownFields, <<rows[k].id, f>> \notin untold',
                      \A u \in rosterTasks' : ~(Answering(u) /\ u.id = rows[k].id /\ u.op = f)
               PROVE  Tells(standing', rows[k], f)
    BY DEF RowsTell
  <2>2. <<rows[k].id, f>> \notin changed
    BY <1>1, <1>4, <2>1
  <2>3. <<rows[k].id, f>> \notin untold
    BY <1>1, <2>2
  <2>4. Tells(standing, rows[k], f)
    BY <2>3 DEF RosterInv, RowsTell
  <2> QED
    BY <1>8, <1>9, <2>1, <2>2, <2>4 DEF Tells
<1>16. LoadTells'
  <2> DEFINE rows == rosterLoad.rows
  <2> SUFFICES ASSUME rosterLoad.phase = "read", NEW k \in DOMAIN rows, NEW f \in ShownFields,
                      <<rows[k].id, f>> \notin rosterLoad.missed \cup changed
               PROVE  Tells(standing', rows[k], f)
    BY <1>6 DEF LoadTells, RowsTellBut
  <2>1. rows[k].id \in RosterEntry
    BY DEF RosterInv, RowsHaveCome, RowsCome, Come
  <2>2. Tells(standing, rows[k], f)
    BY DEF RosterInv, LoadTells, RowsTellBut
  <2> QED
    BY <1>8, <1>9, <2>1, <2>2 DEF Tells
<1> QED
  BY <1>10, <1>11, <1>12, <1>13, <1>14, <1>15, <1>16 DEF RosterInv

LEMMA EntryChangesKeep ==
    ASSUME RosterInv, entryChanges
    PROVE  RosterInv'
<1>1. PICK t \in rosterTasks :
        /\ t.phase = "asked" /\ t.op # "create"
        /\ IF t.op = "revoke" THEN standing[t.id].status \in {"pending", "expired"} ELSE t.id \in ToSet(roster)
        /\ EntryChange(t.id, IF t.op = "role" THEN [standing[t.id] EXCEPT !.role = t.value]
                                              ELSE [standing[t.id] EXCEPT !.status = t.value], t.op # "revoke")
        /\ Turned(t, "done")
        /\ UNCHANGED <<rosterPage, heading, rosterShown>>
  BY DEF entryChanges
<1> DEFINE i == t.id
           entry == IF t.op = "role" THEN [standing[i] EXCEPT !.role = t.value] ELSE [standing[i] EXCEPT !.status = t.value]
           told == t.op # "revoke"
           n == [t EXCEPT !.phase = "done"]
<1>2. t \in RosterTask /\ TaskFits(t) /\ i \in RosterEntry /\ standing[i] \in StandingOf
  BY <1>1 DEF RosterInv, RosterTypes, TasksFit, TaskFits, Come
<1>3. standing[i].status \in EntryStatus
  BY <1>1 DEF ToSet, RosterInv, RosterIsATable, EntryStatus
<1>4. /\ entry \in StandingOf /\ entry.status \in EntryStatus
      /\ \A f \in ShownFields : f # t.op /\ told => entry[f] = standing[i][f]
      /\ told => t.op \in ShownFields /\ entry[t.op] = t.value
  <2>1. CASE t.op = "role"
    BY <1>2, <1>3, <2>1 DEF TaskFits, StandingOf, ShownFields, EntryStatus
  <2>2. CASE t.op \in {"status", "revoke"}
    BY <1>2, <1>3, <2>2 DEF TaskFits, StandingOf, ShownFields, EntryStatus
  <2> QED
    BY <1>1, <1>2, <2>1, <2>2 DEF RosterTask, ShownFields
<1>5. EntryChange(i, entry, told) /\ told \in BOOLEAN
  BY <1>1
<1> HIDE DEF entry, told
<1>6. \A j \in RosterEntry : standing[j].status # "none" => standing'[j].status # "none"
  <2>1. standing' = [standing EXCEPT ![i] = entry] /\ standing \in [RosterEntry -> StandingOf]
    BY <1>5 DEF EntryChange, RosterInv, RosterTypes
  <2> QED
    BY <1>2, <1>4, <2>1 DEF EntryStatus
<1>7. /\ rosterTasks' \subseteq RosterTask /\ TasksFit'
      /\ \A u : u # t /\ u # n => (u \in rosterTasks' <=> u \in rosterTasks)
      /\ n \in rosterTasks' /\ n.op = t.op /\ n.id = i /\ n.value = t.value /\ n.phase = "done"
      /\ t \in rosterTasks' => t.phase = "done"
  BY <1>1, <1>6, TurnedFits
<1> HIDE DEF n
<1>8. \A u \in rosterTasks : Answering(u) => u \in rosterTasks'
  BY <1>1, <1>7 DEF Answering
<1>9. ASSUME NEW u \in rosterTasks', Answering(u)
      PROVE  \/ u \in rosterTasks /\ (u.id = i => entry[u.op] = standing[i][u.op])
             \/ u \in rosterTasks /\ ~told
             \/ u.id = i /\ u.value = entry[u.op] /\ told
  <2>1. CASE u = n
    <3>1. told
      BY <1>7, <1>9, <2>1 DEF Answering, ShownFields, told
    <3> QED
      BY <1>4, <1>7, <2>1, <3>1
  <2>2. CASE u # n /\ told
    <3>1. u \in rosterTasks /\ u # t
      BY <1>1, <1>7, <2>2
    <3>2. u.id = i => u.op # t.op
      BY <1>4, <2>2, <3>1 DEF RosterInv, TasksFit
    <3>3. u.op \in ShownFields
      BY <1>9 DEF Answering
    <3> QED
      BY <1>4, <2>2, <3>1, <3>2, <3>3
  <2>3. CASE u # n /\ ~told
    BY <1>1, <1>7, <2>3
  <2> QED
    BY <1>5, <2>1, <2>2, <2>3
<1>10. told => \A f \in ShownFields : entry[f] # standing[i][f] => \E u \in rosterTasks' : Answering(u) /\ u.id = i /\ u.op = f
  BY <1>4, <1>7 DEF Answering
<1> QED
  BY <1>1, <1>2, <1>3, <1>4, <1>5, <1>7, <1>8, <1>9, <1>10, FieldsChange

LEMMA ElsewhereKeeps ==
    ASSUME RosterInv, changedElsewhere
    PROVE  RosterInv'
<1>1. PICK i \in ToSet(roster), role \in {"admin", "user"}, status \in EntryStatus :
        /\ \/ EntryChange(i, [standing[i] EXCEPT !.role = role], FALSE)
           \/ EntryChange(i, [standing[i] EXCEPT !.status = status], FALSE)
        /\ UNCHANGED <<rosterPage, heading, rosterShown, rosterTasks>>
  BY DEF changedElsewhere, EntryStatus
<1>2. i \in RosterEntry /\ standing[i] \in StandingOf /\ standing[i].status \in EntryStatus
  BY DEF ToSet, RosterInv, RosterTypes, RosterIsATable
<1>3. PICK entry \in StandingOf : EntryChange(i, entry, FALSE) /\ entry.status \in EntryStatus
  <2>1. CASE EntryChange(i, [standing[i] EXCEPT !.role = role], FALSE)
    <3> DEFINE n == [standing[i] EXCEPT !.role = role]
    <3>1. n \in StandingOf /\ n.status = standing[i].status
      BY <1>2 DEF StandingOf
    <3> QED
      BY <1>2, <2>1, <3>1
  <2>2. CASE EntryChange(i, [standing[i] EXCEPT !.status = status], FALSE)
    <3> DEFINE n == [standing[i] EXCEPT !.status = status]
    <3>1. n \in StandingOf /\ n.status = status
      BY <1>2 DEF StandingOf
    <3> QED
      BY <2>2, <3>1
  <2> QED
    BY <1>1, <2>1, <2>2
<1>4. standing' = [standing EXCEPT ![i] = entry] /\ standing \in [RosterEntry -> StandingOf]
  BY <1>3 DEF EntryChange, RosterInv, RosterTypes
<1>5. \A j \in RosterEntry : standing[j].status # "none" => standing'[j].status # "none"
  BY <1>2, <1>3, <1>4 DEF EntryStatus
<1>6. rosterTasks' \subseteq RosterTask /\ TasksFit'
  BY <1>1, <1>5 DEF RosterInv, RosterTypes, TasksFit, TaskFits, Come
<1> QED
  BY <1>1, <1>2, <1>3, <1>6, FieldsChange

\* Entries come, or go: the lists are behind.
LEMMA EntriesMove ==
    ASSUME RosterInv, NEW ids \in Seq(RosterEntry), NEW i \in RosterEntry, NEW entry \in StandingOf, Move(ids, i, entry),
           UNCHANGED <<rosterPage, heading, rosterShown>>, rosterTasks' \subseteq RosterTask, TasksFit',
           \A u : Answering(u) => (u \in rosterTasks' <=> u \in rosterTasks),
           \A k \in DOMAIN ids : IF ids[k] = i THEN entry.status \in EntryStatus ELSE standing[ids[k]].status \in EntryStatus,
           \A j, k \in DOMAIN ids : ids[j] = ids[k] => j = k,
           entry.status # "none", standing[i].status = "none" \/ entry.status = "gone"
    PROVE  RosterInv'
<1>1. /\ roster' = ids /\ standing' = [standing EXCEPT ![i] = entry] /\ behind' = TRUE
      /\ rosterLoad' = [rosterLoad EXCEPT !.moved = rosterLoad.phase = "read"] /\ UNCHANGED untold
  BY DEF Move
<1>2. standing \in [RosterEntry -> StandingOf] /\ rosterLoad \in RosterLoadOf
  BY DEF RosterInv, RosterTypes
<1>3. /\ rosterLoad' \in RosterLoadOf /\ rosterLoad'.phase = rosterLoad.phase /\ rosterLoad'.page = rosterLoad.page
      /\ rosterLoad'.rows = rosterLoad.rows /\ rosterLoad'.missed = rosterLoad.missed
  <2> DEFINE b == rosterLoad.phase = "read"
  <2>1. b \in BOOLEAN /\ rosterLoad' = [rosterLoad EXCEPT !.moved = b]
    BY <1>1
  <2> HIDE DEF b
  <2> QED
    BY <1>2, <2>1 DEF RosterLoadOf
<1>4. rosterLoad'.phase = "read" => rosterLoad'.moved
  BY <1>1, <1>2, <1>3 DEF RosterLoadOf
<1>5. /\ standing' \in [RosterEntry -> StandingOf] /\ standing'[i] = entry
      /\ \A j \in RosterEntry : j # i => standing'[j] = standing[j]
  BY <1>1, <1>2
<1>6. \A j : Come(standing, j) => Come(standing', j) /\ (standing'[j] = standing[j] \/ standing'[j].status = "gone")
  BY <1>5 DEF Come
<1>7. RosterTypes'
  BY <1>1, <1>3, <1>5 DEF RosterInv, RosterTypes
<1>8. RosterIsATable'
  <2>1. \A k \in DOMAIN ids : ids[k] \in RosterEntry
    OBVIOUS
  <2> QED
    BY <1>1, <1>5, <2>1 DEF RosterIsATable
<1>9. RowsHaveCome'
  BY <1>3, <1>6 DEF RosterInv, RowsHaveCome, RowsCome
<1>10. PagingFits' /\ ListFits'
  BY <1>1, <1>3, <1>4 DEF RosterInv, PagingFits, ListFits
<1>11. AnswersTell'
  <2> SUFFICES ASSUME NEW u \in rosterTasks, Answering(u), <<u.id, u.op>> \notin untold, standing'[u.id].status # "gone"
               PROVE  u.value = standing'[u.id][u.op]
    BY <1>1 DEF AnswersTell
  <2>1. Come(standing, u.id)
    BY DEF RosterInv, TasksFit, TaskFits, Answering, ShownFields
  <2> QED
    BY <1>6, <2>1 DEF RosterInv, AnswersTell
<1>12. RowsTell'
  <2> DEFINE rows == rosterShown.rows
  <2> SUFFICES ASSUME NEW k \in DOMAIN rows, NEW f \in ShownFields, <<rows[k].id, f>> \notin untold,
                      \A u \in rosterTasks : ~(Answering(u) /\ u.id = rows[k].id /\ u.op = f)
               PROVE  Tells(standing', rows[k], f)
    BY <1>1 DEF RowsTell
  <2>1. Come(standing, rows[k].id) /\ Tells(standing, rows[k], f)
    BY DEF RosterInv, RowsHaveCome, RowsCome, RowsTell
  <2> QED
    BY <1>6, <2>1 DEF Tells
<1>13. LoadTells'
  <2> DEFINE rows == rosterLoad.rows
  <2> SUFFICES ASSUME rosterLoad.phase = "read", NEW k \in DOMAIN rows, NEW f \in ShownFields, <<rows[k].id, f>> \notin rosterLoad.missed
               PROVE  Tells(standing', rows[k], f)
    BY <1>3 DEF LoadTells, RowsTellBut
  <2>1. Come(standing, rows[k].id) /\ Tells(standing, rows[k], f)
    BY DEF RosterInv, RowsHaveCome, RowsCome, LoadTells, RowsTellBut
  <2> QED
    BY <1>6, <2>1 DEF Tells
<1> QED
  BY <1>7, <1>8, <1>9, <1>10, <1>11, <1>12, <1>13 DEF RosterInv

LEMMA Comes ==
    ASSUME RosterInv, NEW i \in RosterEntry, standing[i].status = "none"
    PROVE  /\ <<i>> \o roster \in Seq(RosterEntry)
           /\ \A k \in DOMAIN (<<i>> \o roster) :
                (<<i>> \o roster)[k] # i => standing[(<<i>> \o roster)[k]].status \in EntryStatus
           /\ \A j, k \in DOMAIN (<<i>> \o roster) : (<<i>> \o roster)[j] = (<<i>> \o roster)[k] => j = k
<1> DEFINE ids == <<i>> \o roster
<1>1. roster \in Seq(RosterEntry) /\ <<i>> \in Seq(RosterEntry) /\ Len(<<i>>) = 1 /\ Len(roster) \in Nat
  BY DEF RosterInv, RosterTypes
<1>2. /\ ids \in Seq(RosterEntry) /\ Len(ids) = 1 + Len(roster)
      /\ \A k \in 1 .. 1 + Len(roster) : ids[k] = IF k <= 1 THEN i ELSE roster[k - 1]
  BY <1>1, ConcatProperties
<1> HIDE DEF ids
<1>3. \A k \in 1 .. Len(roster) : standing[roster[k]].status \in EntryStatus /\ roster[k] # i
  BY <1>1 DEF RosterInv, RosterIsATable, EntryStatus
<1>4. \A j, k \in 1 .. Len(roster) : roster[j] = roster[k] => j = k
  BY <1>1 DEF RosterInv, RosterIsATable
<1>5. \A k \in DOMAIN ids : k \in 1 .. 1 + Len(roster) /\ (k # 1 => k - 1 \in 1 .. Len(roster) /\ ids[k] = roster[k - 1]) /\ ids[1] = i
  BY <1>1, <1>2
<1>6. \A k \in DOMAIN ids : ids[k] # i => standing[ids[k]].status \in EntryStatus
  BY <1>3, <1>5
<1>7. ASSUME NEW j \in DOMAIN ids, NEW k \in DOMAIN ids, ids[j] = ids[k] PROVE j = k
  <2>1. CASE j = 1 \/ k = 1
    BY <1>3, <1>5, <1>7, <2>1
  <2>2. CASE j # 1 /\ k # 1
    <3>1. j - 1 = k - 1
      BY <1>4, <1>5, <1>7, <2>2
    <3> QED
      BY <1>5, <3>1
  <2> QED
    BY <2>1, <2>2
<1> QED
  BY <1>2, <1>6, <1>7 DEF ids

LEMMA Goes ==
    ASSUME RosterInv, NEW n \in DOMAIN roster
    PROVE  /\ RemoveAt(roster, n) \in Seq(RosterEntry)
           /\ \A k \in DOMAIN RemoveAt(roster, n) :
                RemoveAt(roster, n)[k] # roster[n] /\ standing[RemoveAt(roster, n)[k]].status \in EntryStatus
           /\ \A j, k \in DOMAIN RemoveAt(roster, n) : RemoveAt(roster, n)[j] = RemoveAt(roster, n)[k] => j = k
<1> DEFINE len == Len(roster)
           s1 == SubSeq(roster, 1, n - 1)
           s2 == SubSeq(roster, n + 1, len)
           ids == s1 \o s2
<1>1. roster \in Seq(RosterEntry) /\ len \in Nat /\ n \in 1 .. len
  BY DEF RosterInv, RosterTypes
<1>2. RemoveAt(roster, n) = ids
  BY DEF RemoveAt
<1> HIDE DEF len
<1>3. \A k \in 1 .. len : roster[k] \in RosterEntry /\ standing[roster[k]].status \in EntryStatus
  BY <1>1 DEF RosterInv, RosterIsATable, len
<1>4. \A j, k \in 1 .. len : roster[j] = roster[k] => j = k
  BY <1>1 DEF RosterInv, RosterIsATable, len
<1>5. /\ s1 \in Seq(RosterEntry) /\ Len(s1) = n - 1
      /\ \A k \in 1 .. n - 1 : s1[k] = roster[k]
  <2>1. \A k \in 1 .. n - 1 : roster[k] \in RosterEntry
    BY <1>1, <1>3
  <2>2. /\ s1 \in Seq(RosterEntry) /\ Len(s1) = IF 1 <= n - 1 THEN n - 1 - 1 + 1 ELSE 0
        /\ \A k \in 1 .. n - 1 - 1 + 1 : s1[k] = roster[1 + k - 1]
    BY <1>1, <2>1, SubSeqProperties
  <2> QED
    BY <1>1, <2>2
<1>6. /\ s2 \in Seq(RosterEntry) /\ Len(s2) = len - n
      /\ \A k \in 1 .. len - n : s2[k] = roster[n + k]
  <2> DEFINE from == n + 1
  <2>1. \A k \in from .. len : roster[k] \in RosterEntry
    BY <1>1, <1>3
  <2>2. from \in Int /\ len \in Int /\ n \in Int
    BY <1>1
  <2>3. from <= len => len - from + 1 = len - n
    BY <2>2
  <2>4. len < from => len - n = 0 /\ len = n
    BY <1>1
  <2>5. s2 = SubSeq(roster, from, len)
    BY DEF s2
  <2>6. 1 .. len - from + 1 = 1 .. len - n
    BY <2>2
  <2>7. \A k \in Int : from + k - 1 = n + k
    BY <2>2
  <2> HIDE DEF from
  <2>8. /\ s2 \in Seq(RosterEntry) /\ Len(s2) = IF from <= len THEN len - from + 1 ELSE 0
        /\ \A k \in 1 .. len - from + 1 : s2[k] = roster[from + k - 1]
    <3> HIDE DEF s2
    <3>1. \A k \in from .. len : k \in Int
      OBVIOUS
    <3> QED
      BY <2>1, <2>2, <2>5, SubSeqProperties
  <2>9. Len(s2) = len - n
    BY <2>2, <2>3, <2>4, <2>8
  <2>10. ASSUME NEW k \in 1 .. len - n PROVE s2[k] = roster[n + k]
    <3>1. k \in 1 .. len - from + 1 /\ k \in Int
      <4>1. k \in 1 .. len - n
        OBVIOUS
      <4>2. k \in Int
        BY <2>2
      <4> QED
        BY <2>6, <4>1, <4>2, Zenon
    <3>2. s2[k] = roster[from + k - 1]
      BY <2>8, <3>1
    <3>3. from + k - 1 = n + k
      BY <2>7, <3>1
    <3> QED
      BY <3>2, <3>3
  <2> HIDE DEF s2
  <2> QED
    BY <2>8, <2>9, <2>10
<1> HIDE DEF s1, s2
<1>7. /\ ids \in Seq(RosterEntry) /\ Len(ids) = len - 1
      /\ \A k \in 1 .. len - 1 : ids[k] = IF k <= n - 1 THEN roster[k] ELSE roster[k + 1]
  <2>1. /\ ids \in Seq(RosterEntry) /\ Len(ids) = Len(s1) + Len(s2)
        /\ \A k \in 1 .. Len(s1) + Len(s2) : ids[k] = IF k <= Len(s1) THEN s1[k] ELSE s2[k - Len(s1)]
    BY <1>5, <1>6, ConcatProperties
  <2>2. Len(s1) + Len(s2) = len - 1
    BY <1>1, <1>5, <1>6
  <2> HIDE DEF ids
  <2>3. \A k \in 1 .. len - 1 : ids[k] = IF k <= n - 1 THEN s1[k] ELSE s2[k - Len(s1)]
    BY <1>5, <2>1, <2>2
  <2>4. ASSUME NEW k \in 1 .. len - 1, k <= n - 1 PROVE ids[k] = roster[k]
    BY <1>1, <1>5, <2>3, <2>4
  <2>5. ASSUME NEW k \in 1 .. len - 1, ~(k <= n - 1) PROVE ids[k] = roster[k + 1]
    <3> DEFINE m == k - Len(s1)
    <3>1. m \in 1 .. len - n /\ n + m = k + 1
      BY <1>1, <1>5, <2>5
    <3>2. ids[k] = s2[m]
      BY <2>3, <2>5
    <3> HIDE DEF m
    <3> QED
      BY <1>6, <3>1, <3>2
  <2> QED
    BY <2>1, <2>2, <2>4, <2>5
<1> HIDE DEF ids
<1>8. DOMAIN ids = 1 .. len - 1
  BY <1>1, <1>7
<1>9. \A k \in 1 .. len - 1 : \E m \in 1 .. len : m # n /\ ids[k] = roster[m] /\ m = IF k <= n - 1 THEN k ELSE k + 1
  BY <1>1, <1>7
<1>10. \A k \in 1 .. len - 1 : ids[k] # roster[n] /\ standing[ids[k]].status \in EntryStatus
  BY <1>1, <1>3, <1>4, <1>9
<1>11. \A j, k \in 1 .. len - 1 : ids[j] = ids[k] => j = k
  BY <1>1, <1>4, <1>9
<1> QED
  BY <1>2, <1>7, <1>8, <1>10, <1>11

LEMMA NoEntryKnown ==
    /\ [NoEntry EXCEPT !.status = "gone"] \in StandingOf /\ [NoEntry EXCEPT !.status = "gone"].status = "gone"
    /\ [NoEntry EXCEPT !.status = FreshStatus] \in StandingOf
    /\ [NoEntry EXCEPT !.status = FreshStatus].status \in EntryStatus
    /\ [role |-> "user", status |-> "pending"] \in StandingOf
    /\ NoEntry.status = "none"
BY DEF NoEntry, FreshStatus, StandingOf, EntryStatus

LEMMA CreationKeeps ==
    ASSUME RosterInv, inviteIsCreated
    PROVE  RosterInv'
<1>1. PICK t \in rosterTasks, i \in RosterEntry, phase \in {"done", "refused"} :
        /\ t.phase = "asked" /\ t.op = "create" /\ standing[i] = NoEntry
        /\ Move(<<i>> \o roster, i, [role |-> "user", status |-> "pending"])
        /\ rosterTasks' = (rosterTasks \ {t}) \cup {[t EXCEPT !.phase = phase, !.id = i]}
        /\ UNCHANGED <<rosterPage, heading, rosterShown>>
  BY DEF inviteIsCreated
<1> DEFINE n == [t EXCEPT !.phase = phase, !.id = i]
           entry == [role |-> "user", status |-> "pending"]
<1>2. rosterTasks \subseteq RosterTask /\ standing \in [RosterEntry -> StandingOf]
  BY DEF RosterInv, RosterTypes
<1>3. n \in RosterTask /\ n.op = "create"
  BY <1>1, <1>2 DEF RosterTask
<1>4. rosterTasks' = (rosterTasks \ {t}) \cup {n}
  BY <1>1
<1>5. entry \in StandingOf /\ entry.status = "pending" /\ standing[i].status = "none"
  BY <1>1, NoEntryKnown
<1>6. Move(<<i>> \o roster, i, entry)
  BY <1>1
<1> HIDE DEF n, entry
<1>7. rosterTasks' \subseteq RosterTask
  BY <1>2, <1>3, <1>4
<1>8. \A j : Come(standing, j) => Come(standing', j)
  <2>1. standing' = [standing EXCEPT ![i] = entry]
    BY <1>6 DEF Move
  <2> QED
    BY <1>2, <1>5, <2>1 DEF Come
<1>9. TasksFit'
  <2>1. \A u \in rosterTasks : TaskFits(u)'
    BY <1>8 DEF RosterInv, TasksFit, TaskFits
  <2>2. TaskFits(n)'
    BY <1>3 DEF TaskFits
  <2>3. \A u, v \in rosterTasks' : u.op \in ShownFields /\ v.op = u.op /\ v.id = u.id => v = u
    BY <1>3, <1>4 DEF RosterInv, TasksFit, ShownFields
  <2> QED
    BY <1>4, <2>1, <2>2, <2>3 DEF TasksFit
<1>10. \A u : Answering(u) => (u \in rosterTasks' <=> u \in rosterTasks)
  BY <1>1, <1>3, <1>4 DEF Answering, ShownFields
<1> DEFINE ids == <<i>> \o roster
<1>11. /\ ids \in Seq(RosterEntry)
       /\ \A k \in DOMAIN ids : ids[k] # i => standing[ids[k]].status \in EntryStatus
       /\ \A j, k \in DOMAIN ids : ids[j] = ids[k] => j = k
  BY <1>5, Comes
<1> HIDE DEF ids
<1>12. Move(ids, i, entry) /\ entry.status \in EntryStatus /\ entry.status # "none"
  BY <1>5, <1>6 DEF ids, EntryStatus
<1> QED
  BY <1>1, <1>5, <1>7, <1>9, <1>10, <1>11, <1>12, EntriesMove

LEMMA OthersMoveKeeps ==
    ASSUME RosterInv, entriesMove
    PROVE  RosterInv'
<1>1. UNCHANGED <<rosterPage, heading, rosterShown, rosterTasks>>
  BY DEF entriesMove
<1>2. /\ roster \in Seq(RosterEntry) /\ rosterTasks \subseteq RosterTask /\ standing \in [RosterEntry -> StandingOf]
  BY DEF RosterInv, RosterTypes
<1>3. PICK ids \in Seq(RosterEntry), i \in RosterEntry, entry \in StandingOf :
        /\ Move(ids, i, entry)
        /\ \A k \in DOMAIN ids : IF ids[k] = i THEN entry.status \in EntryStatus ELSE standing[ids[k]].status \in EntryStatus
        /\ \A j, k \in DOMAIN ids : ids[j] = ids[k] => j = k
        /\ entry.status # "none" /\ (standing[i].status = "none" \/ entry.status = "gone")
  <2>1. CASE \E i \in RosterEntry : standing[i] = NoEntry /\ Move(<<i>> \o roster, i, [NoEntry EXCEPT !.status = FreshStatus])
    <3> DEFINE entry == [NoEntry EXCEPT !.status = FreshStatus]
    <3>1. PICK i \in RosterEntry : standing[i] = NoEntry /\ Move(<<i>> \o roster, i, entry)
      BY <2>1
    <3>2. entry \in StandingOf /\ entry.status \in EntryStatus
      BY NoEntryKnown
    <3> HIDE DEF entry
    <3> DEFINE ids == <<i>> \o roster
    <3>3. standing[i].status = "none"
      BY <3>1, NoEntryKnown
    <3>4. /\ ids \in Seq(RosterEntry)
          /\ \A k \in DOMAIN ids : ids[k] # i => standing[ids[k]].status \in EntryStatus
          /\ \A j, k \in DOMAIN ids : ids[j] = ids[k] => j = k
      BY <3>3, Comes
    <3>5. Move(ids, i, entry) /\ entry.status # "none"
      BY <3>1, <3>2 DEF EntryStatus
    <3> HIDE DEF ids
    <3> QED
      BY <3>2, <3>3, <3>4, <3>5
  <2>2. CASE \E n \in DOMAIN roster : Move(RemoveAt(roster, n), roster[n], [NoEntry EXCEPT !.status = "gone"])
    <3> DEFINE entry == [NoEntry EXCEPT !.status = "gone"]
    <3>1. PICK n \in DOMAIN roster : Move(RemoveAt(roster, n), roster[n], entry)
      BY <2>2
    <3>2. entry \in StandingOf /\ entry.status = "gone"
      BY NoEntryKnown
    <3> HIDE DEF entry
    <3> DEFINE ids == RemoveAt(roster, n)
    <3>3. /\ ids \in Seq(RosterEntry)
          /\ \A k \in DOMAIN ids : ids[k] # roster[n] /\ standing[ids[k]].status \in EntryStatus
          /\ \A j, k \in DOMAIN ids : ids[j] = ids[k] => j = k
      BY Goes
    <3>4. Move(ids, roster[n], entry) /\ roster[n] \in RosterEntry
      BY <1>2, <3>1
    <3> HIDE DEF ids
    <3> QED
      BY <3>2, <3>3, <3>4
  <2> QED
    BY <2>1, <2>2 DEF entriesMove
<1>4. \A j : Come(standing, j) => Come(standing', j)
  <2>1. standing' = [standing EXCEPT ![i] = entry]
    BY <1>3 DEF Move
  <2> QED
    BY <1>2, <1>3, <2>1 DEF Come
<1>5. rosterTasks' \subseteq RosterTask /\ TasksFit'
  BY <1>1, <1>2, <1>4 DEF RosterInv, TasksFit, TaskFits
<1> QED
  BY <1>1, <1>3, <1>5, EntriesMove

LEMMA RosterInitInv == RosterInit => RosterInv
<1> SUFFICES ASSUME RosterInit PROVE RosterInv
  OBVIOUS
<1> DEFINE other == CHOOSE i \in RosterEntry : i # OwnEntry
           own == [role |-> IF rosterKind = "users" THEN "admin" ELSE "user", status |-> FreshStatus]
           fresh == [role |-> "user", status |-> FreshStatus]
<1>1. other \in RosterEntry /\ other # OwnEntry /\ OwnEntry \in RosterEntry
  BY RosterAssumption
<1>2. FreshStatus \in EntryStatus /\ own \in StandingOf /\ fresh \in StandingOf
  BY DEF FreshStatus, EntryStatus, StandingOf
<1>3. own.status \in EntryStatus /\ fresh.status \in EntryStatus /\ NoEntry \in StandingOf
  BY <1>2 DEF NoEntry, StandingOf
<1>4. standing = [i \in RosterEntry |-> CASE i = OwnEntry -> own [] i = other -> fresh [] OTHER -> NoEntry]
  BY DEF RosterInit
<1>5. roster = <<OwnEntry, other>> \/ roster = <<other, OwnEntry>>
  BY DEF RosterInit
<1> HIDE DEF other, own, fresh
<1>6. standing \in [RosterEntry -> StandingOf] /\ standing[OwnEntry] = own /\ standing[other] = fresh
  <2> DEFINE of(i) == CASE i = OwnEntry -> own [] i = other -> fresh [] OTHER -> NoEntry
  <2>1. of(OwnEntry) = own
    BY <1>1
  <2>2. of(other) = fresh
    BY <1>1
  <2>3. ASSUME NEW i \in RosterEntry PROVE of(i) \in StandingOf
    <3>1. CASE i = OwnEntry
      BY <1>2, <2>1, <3>1
    <3>2. CASE i = other
      BY <1>2, <2>2, <3>2
    <3>3. CASE i # OwnEntry /\ i # other
      BY <1>3, <3>3
    <3> QED
      BY <3>1, <3>2, <3>3
  <2>4. standing = [i \in RosterEntry |-> of(i)]
    BY <1>4
  <2> HIDE DEF of
  <2> QED
    BY <1>1, <2>1, <2>2, <2>3, <2>4
<1>7. rosterPage \in Nat \ {0}
  <2>1. Cardinality(RosterEntry) \in Nat
    BY RosterAssumption, FS_CardinalityType
  <2> QED
    BY <2>1 DEF RosterInit
<1>8. /\ rosterLoad \in RosterLoadOf /\ rosterLoad.phase = "asked" /\ rosterLoad.page = rosterPage
      /\ rosterLoad.rows = <<>>
  BY <1>7, LoadTyped DEF RosterInit
<1>9. /\ rosterShown \in [page : Nat \ {0}, rows : Seq(RosterRow), total : Nat] /\ rosterShown.rows = <<>>
      /\ heading = None /\ rosterTasks = {} /\ untold = {} /\ behind = TRUE
  BY <1>7, EmptySeq DEF RosterInit
<1>10. DOMAIN rosterLoad.rows = {} /\ DOMAIN rosterShown.rows = {}
  BY <1>8, <1>9
<1>11. RosterTypes
  <2>1. <<OwnEntry, other>> \in Seq(RosterEntry) /\ <<other, OwnEntry>> \in Seq(RosterEntry)
    BY <1>1
  <2>2. roster \in Seq(RosterEntry)
    BY <1>5, <2>1
  <2> QED
    BY <1>6, <1>7, <1>8, <1>9, <2>2 DEF RosterTypes
<1>12. RosterIsATable
  <2>1. DOMAIN roster = {1, 2} /\ roster[1] # roster[2]
    BY <1>1, <1>5
  <2>2. \A k \in {1, 2} : roster[k] = OwnEntry \/ roster[k] = other
    BY <1>5
  <2>3. \A k \in {1, 2} : standing[roster[k]].status \in EntryStatus
    BY <1>3, <1>6, <2>2
  <2> QED
    BY <2>1, <2>3 DEF RosterIsATable
<1>13. RowsHaveCome /\ TasksFit /\ AnswersTell /\ RowsTell /\ LoadTells
  BY <1>8, <1>9, <1>10 DEF RowsHaveCome, RowsCome, TasksFit, AnswersTell, RowsTell, LoadTells
<1>14. PagingFits /\ ListFits
  <2>1. heading # rosterPage
    BY <1>7, <1>9, RosterFacts
  <2> QED
    BY <1>8, <1>9, <2>1 DEF PagingFits, ListFits
<1> QED
  BY <1>11, <1>12, <1>13, <1>14 DEF RosterInv

LEMMA RosterStepInv == RosterInv /\ [RosterNext]_rosterVars => RosterInv'
<1> SUFFICES ASSUME RosterInv, [RosterNext]_rosterVars PROVE RosterInv'
  OBVIOUS
<1>1. CASE turnPage \/ pageIsTurned \/ rosterIsRead
  BY <1>1, TurnsKeep
<1>2. CASE rosterIsShown \/ rosterFails
  BY <1>2, LoadsKeep
<1>3. CASE askRole \/ askStatus \/ askInvite \/ askRevoke
  BY <1>3, AsksKeep
<1>4. CASE entryChanges
  BY <1>4, EntryChangesKeep
<1>5. CASE inviteIsCreated
  BY <1>5, CreationKeeps
<1>6. CASE taskIsRefused
  BY <1>6, RefusalKeeps
<1>7. CASE accountAnswered
  BY <1>7, AccountAnswerKeeps
<1>8. CASE inviteAnswered
  BY <1>8, InviteAnswerKeeps
<1>9. CASE taskFails
  BY <1>9, FailureKeeps
<1>10. CASE changedElsewhere
  BY <1>10, ElsewhereKeeps
<1>11. CASE entriesMove
  BY <1>11, OthersMoveKeeps
<1>12. CASE UNCHANGED rosterVars
  <2>1. /\ UNCHANGED <<roster, standing, untold, behind>>
        /\ UNCHANGED <<rosterPage, heading, rosterLoad, rosterShown, rosterTasks>>
    BY <1>12 DEF rosterVars
  <2>2. RosterTypes' /\ RosterIsATable' /\ RowsHaveCome' /\ TasksFit'
    BY <2>1 DEF RosterInv, RosterTypes, RosterIsATable, RowsHaveCome, TasksFit, TaskFits
  <2>3. PagingFits' /\ ListFits' /\ AnswersTell' /\ RowsTell' /\ LoadTells'
    BY <2>1 DEF RosterInv, PagingFits, ListFits, AnswersTell, RowsTell, LoadTells
  <2> QED
    BY <2>2, <2>3 DEF RosterInv
<1> QED
  BY <1>1, <1>2, <1>3, <1>4, <1>5, <1>6, <1>7, <1>8, <1>9, <1>10, <1>11, <1>12 DEF RosterNext

LEMMA RosterInvSettles == RosterInv => AdminListSettles
<1> SUFFICES ASSUME RosterInv, rosterTasks = {}, rosterLoad = NoLoad, heading = None
             PROVE  /\ rosterShown.page = rosterPage /\ rosterPage <= Pages(rosterShown.total)
                    /\ ~behind => /\ rosterShown.total = Len(roster)
                                  /\ [k \in DOMAIN rosterShown.rows |-> rosterShown.rows[k].id] = OnPage(roster, rosterPage)
                    /\ \A row \in ShownRows, f \in ShownFields :
                         <<row.id, f>> \notin untold /\ standing[row.id].status # "gone" => row[f] = standing[row.id][f]
  BY DEF AdminListSettles, ShownFields
<1>1. rosterShown.page = rosterPage /\ rosterPage <= Pages(rosterShown.total)
  BY DEF RosterInv, PagingFits, NoLoad
<1>2. ASSUME ~behind
      PROVE  /\ rosterShown.total = Len(roster)
             /\ [k \in DOMAIN rosterShown.rows |-> rosterShown.rows[k].id] = OnPage(roster, rosterPage)
  BY <1>1, <1>2 DEF RosterInv, ListFits, IsOnPage
<1>3. ASSUME NEW k \in DOMAIN rosterShown.rows, NEW f \in ShownFields, <<rosterShown.rows[k].id, f>> \notin untold
      PROVE  Tells(standing, rosterShown.rows[k], f)
  BY <1>3 DEF RosterInv, RowsTell
<1>4. ASSUME NEW row \in ShownRows, NEW f \in ShownFields, <<row.id, f>> \notin untold, standing[row.id].status # "gone"
      PROVE  row[f] = standing[row.id][f]
  <2>1. PICK k \in DOMAIN rosterShown.rows : row = rosterShown.rows[k]
    BY DEF ShownRows
  <2> QED
    BY <1>3, <1>4, <2>1 DEF Tells
<1> QED
  BY <1>1, <1>2, <1>4

\* Whatever loads and navigations a change of an account or of an invite crosses, once nothing
\* is on its way the administrator sees the page of the address, it exists, and its rows say
\* what is stored, for every number of entries and every page size.
THEOREM AdminListIsTrue == RosterSpec => []AdminListSettles
<1>1. RosterInit => RosterInv
  BY RosterInitInv
<1>2. RosterInv /\ [RosterNext]_rosterVars => RosterInv'
  BY RosterStepInv
<1>3. RosterInv => AdminListSettles
  BY RosterInvSettles
<1> QED
  BY <1>1, <1>2, <1>3, PTL DEF RosterSpec

-----------------------------------------------------------------------------
(************************** the lending dialog ****************************)

Lookup == [query : Text, current : BOOLEAN]
Progress == [phase : {"idle", "sent", "done", "failed", "refresh"}, loan : SomeLoan]
Dialog == [open : BOOLEAN, name : Text \cup {None}, typed : Text \cup {None}, suggested : Text \cup {None},
           link : SomeLoan, delivery : {None, "sent", "failed"}, deliveryOf : SomeLoan, shown : SomeLoan]

DialogTypes ==
    /\ lendDialog \in Dialog /\ lookups \in SUBSET Lookup
    /\ lending \in Progress /\ resending \in Progress
    /\ ownerPage \in {"list", "book"}

\* What is looked up and suggested is the name in the field.
NameInField(d, ks) ==
    /\ d.typed \in {None, d.name} /\ d.suggested \in {None, d.name}
    /\ \A k \in ks : k.current => k.query = d.name

\* A loan is only lent while no link is shown; what is sent again is the link that is shown,
\* unless the dialog was opened since.
LinkInDialog(d, lent1, resent, again) ==
    /\ lent1.phase # "idle" => d.link = None
    /\ resent.phase # "idle" => resent.loan # None
    /\ resent.loan # None => resent.loan = d.link \/ again = TRUE
    /\ d.link # None /\ d.delivery # None => d.deliveryOf = d.link \/ again = TRUE

\* On the page of the list there is no dialog.
NoDialog ==
    /\ lendDialog.open = FALSE /\ lendDialog.typed = None /\ lookups = {}
    /\ lending.phase = "idle" /\ resending.phase = "idle"

DialogInv ==
    /\ DialogTypes
    /\ NameInField(lendDialog, lookups)
    /\ LinkInDialog(lendDialog, lending, resending, straddled)
    /\ straddled \in BOOLEAN
    /\ ownerPage = "list" => NoDialog

LEMMA ShownIsALoan == Shown \in SomeLoan
BY DEF Shown, SomeLoan, ActiveHere

LEMMA StaleLookups ==
    ASSUME lookups \in SUBSET Lookup
    PROVE  Stale \in SUBSET Lookup /\ \A k \in Stale : k.current = FALSE
BY DEF Stale, Lookup

\* Only the book's page has a dialog.
LEMMA BookStepsOnBook ==
    ASSUME DialogInv, BookStep
    PROVE  ownerPage = "book" /\ ownerPage' = "book"
<1>1. ownerPage' = ownerPage
  BY DEF BookStep, openLending, closeLending, lookUp, typeName, saveNoteOfBook, selectBorrowerSuggestion,
         suggestionsArrive, lendBook, loanIsCreated, loanAnswered, lendingFails, resendEmail, inviteIsResent,
         resendAnswered, returnActiveLoan
<1>2. ownerPage # "list"
  <2>1. SUFFICES ASSUME NoDialog, ownerPage = "list" PROVE FALSE
    BY DEF DialogInv
  <2> QED
    BY <2>1 DEF NoDialog, BookStep, openLending, closeLending, lookUp, typeName, saveNoteOfBook,
         selectBorrowerSuggestion, suggestionsArrive, lendBook, loanIsCreated, loanAnswered, lendingFails,
         resendEmail, inviteIsResent, resendAnswered, returnActiveLoan
<1> QED
  BY <1>1, <1>2 DEF DialogInv, DialogTypes

LEMMA NoLoanIsNone == NoAction.loan = None /\ NoAction.phase = "idle" /\ NoAction \in Progress
BY DEF NoAction, Progress, SomeLoan

LEMMA AfterOpenLending ==
    ASSUME DialogInv, openLending
    PROVE  DialogTypes' /\ NameInField(lendDialog, lookups)' /\ LinkInDialog(lendDialog, lending, resending, straddled)'
           /\ straddled' \in BOOLEAN
<1>1. /\ lendDialog' = [BlankDialog EXCEPT !.open = TRUE]
      /\ lookups' = Stale /\ straddled' = (resending.loan # None)
      /\ UNCHANGED <<lending, resending, ownerPage>>
  BY DEF openLending
<1>2. lendDialog' \in Dialog /\ lendDialog'.name = None /\ lendDialog'.typed = None /\ lendDialog'.suggested = None
      /\ lendDialog'.link = None
  BY <1>1 DEF BlankDialog, Dialog, SomeLoan
<1>3. Stale \in SUBSET Lookup /\ \A k \in Stale : k.current = FALSE
  BY StaleLookups DEF DialogInv, DialogTypes
<1>4. straddled' \in BOOLEAN /\ (resending.loan # None => straddled' = TRUE)
  BY <1>1
<1>5. NameInField(lendDialog, lookups)'
  BY <1>1, <1>2, <1>3 DEF NameInField
<1>6. LinkInDialog(lendDialog, lending, resending, straddled)'
  BY <1>1, <1>2, <1>4 DEF LinkInDialog, DialogInv
<1> QED
  BY <1>1, <1>2, <1>3, <1>4, <1>5, <1>6 DEF DialogInv, DialogTypes

DialogStays ==
    DialogTypes' /\ NameInField(lendDialog, lookups)' /\ LinkInDialog(lendDialog, lending, resending, straddled)'
    /\ straddled' \in BOOLEAN

LEMMA AfterTyping ==
    ASSUME DialogInv, NEW n \in Text \cup {None}, closeLending \/ typeName(n) \/ selectBorrowerSuggestion(n)
    PROVE  DialogStays
<1> USE DEF DialogInv
<1>1. Stale \in SUBSET Lookup /\ \A k \in Stale : k.current = FALSE
  BY StaleLookups DEF DialogTypes
<1>2. UNCHANGED <<lending, resending, straddled, ownerPage>>
  BY DEF closeLending, typeName, selectBorrowerSuggestion
<1>3. CASE closeLending
  <2>1. lendDialog' = [lendDialog EXCEPT !.open = FALSE] /\ lookups' = lookups
    BY <1>3 DEF closeLending
  <2>2. /\ lendDialog' \in Dialog /\ lendDialog'.name = lendDialog.name /\ lendDialog'.typed = lendDialog.typed
        /\ lendDialog'.suggested = lendDialog.suggested /\ lendDialog'.link = lendDialog.link
        /\ lendDialog'.delivery = lendDialog.delivery /\ lendDialog'.deliveryOf = lendDialog.deliveryOf
    BY <2>1 DEF DialogTypes, Dialog
  <2> QED
    BY <1>2, <2>1, <2>2 DEF DialogStays, DialogTypes, NameInField, LinkInDialog
<1>4. CASE typeName(n) \/ selectBorrowerSuggestion(n)
  <2>1. /\ lookups' = Stale
        /\ \E t \in {None, n} : lendDialog' = [lendDialog EXCEPT !.name = n, !.typed = t, !.suggested = None]
    BY <1>4 DEF typeName, selectBorrowerSuggestion
  <2>2. PICK t \in {None, n} : lendDialog' = [lendDialog EXCEPT !.name = n, !.typed = t, !.suggested = None]
    BY <2>1
  <2>3. /\ lendDialog' \in Dialog /\ lendDialog'.name = n /\ lendDialog'.typed = t
        /\ lendDialog'.suggested = None /\ lendDialog'.link = lendDialog.link
        /\ lendDialog'.delivery = lendDialog.delivery /\ lendDialog'.deliveryOf = lendDialog.deliveryOf
    BY <2>2 DEF DialogTypes, Dialog
  <2>4. NameInField(lendDialog, lookups)'
    BY <1>1, <2>1, <2>3 DEF NameInField
  <2> QED
    BY <1>1, <1>2, <2>1, <2>3, <2>4 DEF DialogStays, DialogTypes, LinkInDialog
<1> QED
  BY <1>3, <1>4

LEMMA AfterLookUp ==
    ASSUME DialogInv, lookUp
    PROVE  DialogStays
<1> USE DEF DialogInv
<1> DEFINE k == [query |-> lendDialog.typed, current |-> TRUE]
<1>1. /\ lendDialog' = [lendDialog EXCEPT !.typed = None] /\ lookups' = lookups \cup {k} /\ lendDialog.typed # None
      /\ UNCHANGED <<lending, resending, straddled, ownerPage>>
  BY DEF lookUp
<1>2. /\ lendDialog' \in Dialog /\ lendDialog'.name = lendDialog.name /\ lendDialog'.typed = None
      /\ lendDialog'.suggested = lendDialog.suggested /\ lendDialog'.link = lendDialog.link
      /\ lendDialog'.delivery = lendDialog.delivery /\ lendDialog'.deliveryOf = lendDialog.deliveryOf
  BY <1>1 DEF DialogTypes, Dialog
<1>3. k \in Lookup /\ k.query = lendDialog.name
  BY <1>1 DEF DialogTypes, Dialog, NameInField, Lookup
<1> HIDE DEF k
<1>4. NameInField(lendDialog, lookups)'
  BY <1>1, <1>2, <1>3 DEF NameInField
<1> QED
  BY <1>1, <1>2, <1>3, <1>4 DEF DialogStays, DialogTypes, LinkInDialog

LEMMA AfterSuggestions ==
    ASSUME DialogInv, NEW k \in lookups, suggestionsArrive(k)
    PROVE  DialogStays
<1> USE DEF DialogInv
<1>1. lookups' = lookups \ {k} /\ UNCHANGED <<lending, resending, straddled, ownerPage>>
  BY DEF suggestionsArrive
<1>2. CASE k.current
  <2>1. PICK found \in {None, k.query} : lendDialog' = [lendDialog EXCEPT !.suggested = found]
    BY <1>2 DEF suggestionsArrive
  <2>2. k.query = lendDialog.name /\ k.query \in Text
    BY <1>2 DEF NameInField, DialogTypes, Lookup
  <2>3. /\ lendDialog' \in Dialog /\ lendDialog'.name = lendDialog.name /\ lendDialog'.typed = lendDialog.typed
        /\ lendDialog'.suggested = found /\ lendDialog'.link = lendDialog.link
        /\ lendDialog'.delivery = lendDialog.delivery /\ lendDialog'.deliveryOf = lendDialog.deliveryOf
    BY <2>1, <2>2 DEF DialogTypes, Dialog
  <2>4. NameInField(lendDialog, lookups)'
    BY <1>1, <2>2, <2>3 DEF NameInField
  <2> QED
    BY <1>1, <2>3, <2>4 DEF DialogStays, DialogTypes, LinkInDialog
<1>3. CASE ~k.current
  <2>1. lendDialog' = lendDialog
    BY <1>3 DEF suggestionsArrive
  <2>2. NameInField(lendDialog, lookups)'
    BY <1>1, <2>1 DEF NameInField
  <2> QED
    BY <1>1, <2>1, <2>2 DEF DialogStays, DialogTypes, LinkInDialog
<1> QED
  BY <1>2, <1>3

LEMMA AfterLending ==
    ASSUME DialogInv, lendBook \/ loanIsCreated \/ lendingFails
    PROVE  DialogStays
<1> USE DEF DialogInv
<1>1. UNCHANGED <<lendDialog, lookups, resending, straddled, ownerPage>>
  BY DEF lendBook, loanIsCreated, lendingFails
<1>2. lending' \in Progress /\ (lending'.phase # "idle" => lendDialog.link = None)
  <2>1. CASE lendBook
    BY <2>1 DEF lendBook, NoAction, Progress, SomeLoan
  <2>2. CASE loanIsCreated
    <3>1. lendDialog.link = None
      BY <2>2 DEF loanIsCreated, LinkInDialog
    <3>2. lending' = [lending EXCEPT !.phase = "failed"] \/ \E l \in Loaned : lending' = [phase |-> "done", loan |-> l]
      BY <2>2 DEF loanIsCreated
    <3>3. lending' \in Progress
      BY <3>2 DEF DialogTypes, Progress, SomeLoan
    <3> QED
      BY <3>1, <3>3
  <2>3. CASE lendingFails
    BY <2>3, NoLoanIsNone DEF lendingFails
  <2> QED
    BY <2>1, <2>2, <2>3
<1>3. NameInField(lendDialog, lookups)'
  BY <1>1 DEF NameInField
<1> QED
  BY <1>1, <1>2, <1>3 DEF DialogStays, DialogTypes, LinkInDialog

LEMMA AfterLoanAnswered ==
    ASSUME DialogInv, loanAnswered
    PROVE  DialogStays
<1> USE DEF DialogInv
<1>1. PICK d \in {None, "sent", "failed"} :
        lendDialog' = [lendDialog EXCEPT !.link = lending.loan, !.delivery = d,
                                         !.deliveryOf = lending.loan, !.shown = Shown]
  BY DEF loanAnswered
<1>2. lending' = NoAction /\ UNCHANGED <<lookups, resending, straddled, ownerPage>> /\ lendDialog.link = None
  BY DEF loanAnswered, LinkInDialog
<1>3. lending.loan \in SomeLoan /\ Shown \in SomeLoan
  BY ShownIsALoan DEF DialogTypes, Progress
<1>4. /\ lendDialog' \in Dialog /\ lendDialog'.name = lendDialog.name /\ lendDialog'.typed = lendDialog.typed
      /\ lendDialog'.suggested = lendDialog.suggested /\ lendDialog'.link = lendDialog'.deliveryOf
  BY <1>1, <1>3 DEF DialogTypes, Dialog
<1>5. NameInField(lendDialog, lookups)'
  BY <1>2, <1>4 DEF NameInField
<1>6. LinkInDialog(lendDialog, lending, resending, straddled)'
  BY <1>2, <1>4, NoLoanIsNone DEF LinkInDialog
<1> QED
  BY <1>2, <1>4, <1>5, <1>6, NoLoanIsNone DEF DialogStays, DialogTypes

LEMMA AfterResending ==
    ASSUME DialogInv, resendEmail \/ inviteIsResent \/ resendAnswered
    PROVE  DialogStays
<1> USE DEF DialogInv
<1>1. UNCHANGED <<lookups, lending, straddled, ownerPage>>
  BY DEF resendEmail, inviteIsResent, resendAnswered
<1>2. CASE resendEmail \/ inviteIsResent
  <2>1. lendDialog' = lendDialog
    BY <1>2 DEF resendEmail, inviteIsResent
  <2>2. \/ resending' = [phase |-> "sent", loan |-> lendDialog.link] /\ lendDialog.link # None
        \/ \E p \in {"done", "failed"} : resending' = [resending EXCEPT !.phase = p] /\ resending.phase = "sent"
        \/ resending' = NoAction
    BY <1>2 DEF resendEmail, inviteIsResent
  <2>3. resending' \in Progress
    BY <2>2, NoLoanIsNone DEF DialogTypes, Progress, Dialog
  <2>4. /\ resending'.phase # "idle" => resending'.loan # None
        /\ resending'.loan \in {None, lendDialog.link, resending.loan}
    BY <2>2, NoLoanIsNone DEF DialogTypes, Progress, LinkInDialog
  <2>5. LinkInDialog(lendDialog, lending, resending, straddled)'
    BY <1>1, <2>1, <2>4 DEF LinkInDialog
  <2>6. NameInField(lendDialog, lookups)'
    BY <1>1, <2>1 DEF NameInField
  <2> QED
    BY <1>1, <2>1, <2>3, <2>5, <2>6 DEF DialogStays, DialogTypes
<1>3. CASE resendAnswered
  <2>1. resending' = NoAction /\ resending.loan # None /\ resending.loan \in SomeLoan
    BY <1>3 DEF resendAnswered, LinkInDialog, DialogTypes, Progress
  <2>2. \/ lendDialog' = lendDialog
        \/ \E d \in {"sent", "failed"} : lendDialog' = [lendDialog EXCEPT !.delivery = d, !.deliveryOf = resending.loan]
    BY <1>3 DEF resendAnswered
  <2>3. /\ lendDialog' \in Dialog /\ lendDialog'.name = lendDialog.name /\ lendDialog'.typed = lendDialog.typed
        /\ lendDialog'.suggested = lendDialog.suggested /\ lendDialog'.link = lendDialog.link
        /\ \/ lendDialog'.deliveryOf = resending.loan
           \/ lendDialog'.deliveryOf = lendDialog.deliveryOf /\ lendDialog'.delivery = lendDialog.delivery
    BY <2>1, <2>2 DEF DialogTypes, Dialog
  <2>4. NameInField(lendDialog, lookups)'
    BY <1>1, <2>3 DEF NameInField
  <2>5. LinkInDialog(lendDialog, lending, resending, straddled)'
    BY <1>1, <2>1, <2>3, NoLoanIsNone DEF LinkInDialog
  <2> QED
    BY <1>1, <2>1, <2>3, <2>4, <2>5, NoLoanIsNone DEF DialogStays, DialogTypes
<1> QED
  BY <1>2, <1>3

LEMMA AfterReturnOnBook ==
    ASSUME DialogInv, NEW n \in Text \cup {None}, returnActiveLoan \/ saveNoteOfBook(n)
    PROVE  DialogStays
<1> USE DEF DialogInv
<1>1. /\ UNCHANGED <<lookups, lending, resending, straddled, ownerPage>>
      /\ lendDialog' = lendDialog \/ lendDialog' = [lendDialog EXCEPT !.shown = None]
  BY DEF returnActiveLoan, saveNoteOfBook, bookVars
<1>2. /\ lendDialog' \in Dialog /\ lendDialog'.name = lendDialog.name /\ lendDialog'.typed = lendDialog.typed
      /\ lendDialog'.suggested = lendDialog.suggested /\ lendDialog'.link = lendDialog.link
      /\ lendDialog'.delivery = lendDialog.delivery /\ lendDialog'.deliveryOf = lendDialog.deliveryOf
  BY <1>1 DEF DialogTypes, Dialog, SomeLoan
<1>3. NameInField(lendDialog, lookups)'
  BY <1>1, <1>2 DEF NameInField
<1> QED
  BY <1>1, <1>2, <1>3 DEF DialogStays, DialogTypes, LinkInDialog

LEMMA DialogUndisturbed ==
    ASSUME DialogInv, UNCHANGED <<bookVars, ownerPage>>
    PROVE  DialogInv'
BY DEF DialogInv, DialogTypes, NameInField, LinkInDialog, NoDialog, bookVars

LEMMA DialogMoves == DialogInv /\ [LoanPagesNext]_loanVars => DialogInv'
<1> SUFFICES ASSUME DialogInv, [LoanPagesNext]_loanVars PROVE DialogInv'
  OBVIOUS
<1>1. CASE BookStep
  <2>1. DialogStays
    <3>1. \A n \in Text : n \in Text \cup {None}
      OBVIOUS
    <3> QED
      BY <1>1, <3>1, AfterOpenLending, AfterTyping, AfterLookUp, AfterSuggestions, AfterLending, AfterLoanAnswered,
         AfterResending, AfterReturnOnBook DEF BookStep, DialogStays
  <2> QED
    BY <1>1, <2>1, BookStepsOnBook DEF DialogInv, DialogStays
<1>2. CASE ListStep \/ \E l \in Loaned : acceptBook(l)
  <2>1. UNCHANGED <<bookVars, ownerPage>>
    BY <1>2 DEF ListStep, endedElsewhere, saveLoanNote, noteIsSaved, noteIsRefused, noteAnswered, noteFails,
       runLoanAction, loanEnds, actionAnswered, actionFails, listIsRead, listIsShown, listFails, acceptBook
  <2> QED
    BY <2>1, DialogUndisturbed
<1>3. CASE UNCHANGED loanVars
  BY <1>3, DialogUndisturbed DEF loanVars, bookVars
<1> QED
  BY <1>1, <1>2, <1>3 DEF LoanPagesNext

LEMMA DialogBegins == LoanPagesInit => DialogInv
<1> SUFFICES ASSUME LoanPagesInit PROVE DialogInv
  OBVIOUS
<1>1. /\ lendDialog = BlankDialog /\ lookups = {} /\ lending = NoAction /\ resending = NoAction
      /\ straddled = FALSE /\ ownerPage \in {"list", "book"}
  BY DEF LoanPagesInit
<1>2. lendDialog \in Dialog
  BY <1>1 DEF BlankDialog, Dialog, SomeLoan
<1>3. /\ lendDialog.open = FALSE /\ lendDialog.typed = None /\ lendDialog.suggested = None /\ lendDialog.link = None
  BY <1>1 DEF BlankDialog
<1> QED
  BY <1>1, <1>2, <1>3, NoLoanIsNone DEF DialogInv, DialogTypes, NameInField, LinkInDialog, NoDialog

(************************** the list of loans ******************************)

ListReload == [phase : {"none", "asked", "read"}, rows : [Loaned -> LoanRows], missed : SUBSET Loaned]
Actions(as) == as \in [Ends -> Progress] /\ \A e \in Ends : as[e].phase # "idle" => as[e].loan \in Loaned
SavesNamed(saves) == \A r \in Call : saves[r].phase = "idle" <=> saves[r].loan = None

ListTypes ==
    /\ lent \in [Loaned -> LoanRows] /\ list \in [Loaned -> LoanRows]
    /\ noteSaves \in [Call -> SaveRecord] /\ SavesNamed(noteSaves) /\ latest \in [Loaned -> Nat]
    /\ Actions(action) /\ reload \in ListReload
    /\ ownerPage \in {"list", "book"}

\* The row of a loan in the list of its owner.
ListedRow(rows, l) == IF rows[l].status = "deleted" THEN NoRow ELSE rows[l]

\* The notes of a loan that may still change what is stored or shown: not answered, in the row that
\* is shown, and with no newer one written before.
Outstanding(saves, l) ==
    {r \in Call : saves[r].loan = l /\ saves[r].phase \in {"sent", "refused"}
                   /\ saves[r].fresh = TRUE /\ saves[r].outrun = FALSE}
Newest(saves, l, r) == \A q \in Outstanding(saves, l) : saves[q].id <= saves[r].id
Oldest(saves, l, r) == \A q \in Outstanding(saves, l) : saves[r].id <= saves[q].id
Follows(saves, l, q, r) ==
    /\ saves[q].id < saves[r].id
    /\ \A p \in Outstanding(saves, l) : saves[p].id <= saves[q].id \/ saves[r].id <= saves[p].id

\* The list shows the newest of them, or what is stored if there is none.
NoteShown(saves, l, shown, stored) ==
    /\ Outstanding(saves, l) = {} => shown = stored
    /\ \A r \in Outstanding(saves, l) : Newest(saves, l, r) => shown = saves[r].note

\* Each remembers the one before it, and the oldest what is stored.
NotesRemember(saves, l, stored, number) ==
    /\ \A r \in Outstanding(saves, l) : Newest(saves, l, r) => saves[r].id = number
    /\ \A r \in Outstanding(saves, l) : Oldest(saves, l, r) => saves[r].previous = stored
    /\ \A r, q \in Outstanding(saves, l) : Follows(saves, l, q, r) => saves[r].previous = saves[q].note

NoRefusal(saves, l) == \A r \in Call : saves[r].loan = l => saves[r].phase # "refused"

\* What holds of a loan's note that the list is not excused from showing: one of several has
\* failed (then the others must not be refused) or none has.
NoteHolds(saves, l, shown, stored, number, one) ==
    /\ \A r \in Call : saves[r].loan = l /\ saves[r].phase = "sent" => saves[r].fresh = TRUE
    /\ IF one THEN NoRefusal(saves, l) => NoteShown(saves, l, shown, stored)
       ELSE NoteShown(saves, l, shown, stored) /\ NotesRemember(saves, l, stored, number)

\* The notes of a loan are numbered.
NotesNumbered(saves, numbers) ==
    /\ \A r \in Call : saves[r].phase # "idle" => saves[r].id <= numbers[saves[r].loan]
    /\ \A r \in Call : saves[r].phase # "idle" /\ saves[r].outrun = TRUE => saves[r].id < numbers[saves[r].loan]
    /\ \A r, q \in Call : r # q /\ saves[r].phase # "idle" /\ saves[r].loan = saves[q].loan => saves[r].id # saves[q].id

SameRow(shown, stored) == shown.status = stored.status /\ shown.accepted = stored.accepted

RowHolds(saves, l, shown, stored, number, one) ==
    SameRow(shown, stored) /\ NoteHolds(saves, l, shown.note, stored.note, number, one)

RowsHold == \A l \in Loaned \ unseen :
    RowHolds(noteSaves, l, list[l], ListedRow(lent, l), latest[l], l \in failed)

ReloadHolds == reload.phase = "read" => \A l \in Loaned \ reload.missed : reload.rows[l] = ListedRow(lent, l)

\* The notes are numbered and each row holds, on the page of the list.
ListInv == ListTypes /\ (ownerPage = "list" => NotesNumbered(noteSaves, latest) /\ RowsHold /\ ReloadHolds)

(******* what the changes of the notes keep, one loan at a time **********)

\* Two states of the saves that agree on what a loan's note depends on.
SameNotes(s, t, l) ==
    /\ Outstanding(t, l) = Outstanding(s, l)
    /\ \A r \in Outstanding(s, l) : t[r].id = s[r].id /\ t[r].note = s[r].note /\ t[r].previous = s[r].previous
    /\ NoRefusal(t, l) => NoRefusal(s, l)
    /\ \A r \in Call : t[r].loan = l /\ t[r].phase = "sent" => s[r].loan = l /\ s[r].phase = "sent" /\ t[r].fresh = s[r].fresh

LEMMA NoteKept ==
    ASSUME NEW s, NEW t, NEW l, SameNotes(s, t, l), NEW shown, NEW stored, NEW number, NEW one,
           NoteHolds(s, l, shown, stored, number, one)
    PROVE  NoteHolds(t, l, shown, stored, number, one)
<1>1. \A r \in Outstanding(s, l) : Newest(t, l, r) <=> Newest(s, l, r)
  BY DEF SameNotes, Newest
<1>2. \A r \in Outstanding(s, l) : Oldest(t, l, r) <=> Oldest(s, l, r)
  BY DEF SameNotes, Oldest
<1>3. \A r, q \in Outstanding(s, l) : Follows(t, l, q, r) <=> Follows(s, l, q, r)
  BY DEF SameNotes, Follows
<1>4. NoteShown(s, l, shown, stored) => NoteShown(t, l, shown, stored)
  BY <1>1 DEF SameNotes, NoteShown
<1>5. NotesRemember(s, l, stored, number) => NotesRemember(t, l, stored, number)
  BY <1>1, <1>2, <1>3 DEF SameNotes, NotesRemember
<1>6. \A r \in Call : t[r].loan = l /\ t[r].phase = "sent" => t[r].fresh = TRUE
  BY DEF SameNotes, NoteHolds
<1> QED
  BY <1>4, <1>5, <1>6 DEF SameNotes, NoteHolds

\* The saves of another loan are not touched.
LEMMA OtherLoan ==
    ASSUME NEW s, NEW t, NEW l,
           \A r \in Call : s[r].loan = l \/ t[r].loan = l =>
              /\ t[r].loan = s[r].loan /\ t[r].phase = s[r].phase /\ t[r].fresh = s[r].fresh /\ t[r].id = s[r].id
              /\ t[r].note = s[r].note /\ t[r].previous = s[r].previous /\ (t[r].outrun = FALSE <=> s[r].outrun = FALSE)
    PROVE  SameNotes(s, t, l)
<1>1. Outstanding(t, l) = Outstanding(s, l)
  BY DEF Outstanding
<1>2. \A r \in Outstanding(s, l) : s[r].loan = l /\ r \in Call
  BY DEF Outstanding
<1> QED
  BY <1>1, <1>2 DEF SameNotes, NoRefusal

\* With nothing outstanding the list shows what is stored.
LEMMA NothingOutstanding ==
    ASSUME NEW s, NEW l, Outstanding(s, l) = {}, NEW shown, NEW number, NEW one,
           \A r \in Call : s[r].loan = l /\ s[r].phase = "sent" => s[r].fresh = TRUE
    PROVE  NoteHolds(s, l, shown, shown, number, one)
BY DEF NoteHolds, NoteShown, NotesRemember

\* A note is shown before it is saved.
LEMMA NoteIsShown ==
    ASSUME NEW s \in [Call -> SaveRecord], NEW t \in [Call -> SaveRecord], NEW l \in Loaned, NEW r \in Call, NEW n,
           NEW shown, NEW stored, NEW number \in Nat, NEW one,
           s[r].phase = "idle", s[r].loan # l,
           \A q \in Call : s[q].loan = l => s[q].id <= number,
           NoteHolds(s, l, shown, stored, number, one),
           \A q \in Call \ {r} : t[q] = s[q],
           t[r] = [phase |-> "sent", loan |-> l, id |-> number + 1, note |-> n, previous |-> shown,
                   fresh |-> TRUE, outrun |-> FALSE]
    PROVE  NoteHolds(t, l, n, stored, number + 1, one)
<1>1. r \in Outstanding(t, l) /\ r \notin Outstanding(s, l)
  BY DEF Outstanding
<1>2. Outstanding(t, l) = Outstanding(s, l) \cup {r}
  BY DEF Outstanding
<1>3. /\ t[r].id = number + 1 /\ t[r].note = n /\ t[r].previous = shown
      /\ \A q \in Outstanding(s, l) : q # r /\ t[q] = s[q] /\ s[q].id <= number /\ s[q].id \in Nat
  BY <1>1 DEF Outstanding, SaveRecord
<1>4. \A q \in Outstanding(t, l) : Newest(t, l, q) => q = r
  BY <1>2, <1>3 DEF Newest
<1>5. NoteShown(t, l, n, stored)
  BY <1>1, <1>3, <1>4 DEF NoteShown
<1>6. ASSUME NotesRemember(s, l, stored, number), NoteShown(s, l, shown, stored)
      PROVE  NotesRemember(t, l, stored, number + 1)
  <2>1. \A q \in Outstanding(t, l) : Newest(t, l, q) => t[q].id = number + 1
    BY <1>3, <1>4
  <2>2. ASSUME NEW q \in Outstanding(t, l), Oldest(t, l, q) PROVE t[q].previous = stored
    <3>1. CASE q = r
      <4>1. Outstanding(s, l) = {}
        BY <2>2, <1>2, <1>3, <3>1 DEF Oldest
      <4> QED
        BY <4>1, <3>1, <1>3, <1>6 DEF NoteShown
    <3>2. CASE q # r
      <4>1. q \in Outstanding(s, l) /\ Oldest(s, l, q)
        BY <2>2, <1>2, <1>3, <3>2 DEF Oldest
      <4> QED
        BY <4>1, <1>3, <1>6 DEF NotesRemember
    <3> QED
      BY <3>1, <3>2
  <2>3. ASSUME NEW p \in Outstanding(t, l), NEW q \in Outstanding(t, l), Follows(t, l, q, p)
        PROVE  t[p].previous = t[q].note
    <3>1. q # r /\ q \in Outstanding(s, l)
      BY <2>3, <1>2, <1>3 DEF Follows
    <3>2. CASE p = r
      <4>1. Newest(s, l, q)
        <5>1. \A x \in Outstanding(s, l) : t[x].id <= t[q].id \/ t[r].id <= t[x].id
          BY <2>3, <3>2, <1>2 DEF Follows
        <5> QED
          BY <5>1, <3>1, <1>3 DEF Newest
      <4> QED
        BY <4>1, <3>1, <3>2, <1>3, <1>6 DEF NoteShown
    <3>3. CASE p # r
      <4>1. p \in Outstanding(s, l) /\ Follows(s, l, q, p)
        BY <2>3, <3>1, <3>3, <1>2, <1>3 DEF Follows
      <4> QED
        BY <4>1, <3>1, <1>3, <1>6 DEF NotesRemember
    <3> QED
      BY <3>2, <3>3
  <2> QED
    BY <2>1, <2>2, <2>3 DEF NotesRemember
<1>7. \A q \in Call : t[q].loan = l /\ t[q].phase = "sent" => t[q].fresh = TRUE
  BY DEF NoteHolds
<1> QED
  BY <1>5, <1>6, <1>7 DEF NoteHolds

\* A note is stored: those before it are outrun, and it is what is stored.
LEMMA NoteIsStored ==
    ASSUME NEW s \in [Call -> SaveRecord], NEW t, NEW l \in Loaned, NEW r \in Call,
           NEW shown, NEW stored, NEW number, NEW one,
           s[r].phase = "sent", s[r].loan = l, s[r].outrun = FALSE,
           \A q \in Call : q # r /\ s[q].loan = l => s[q].id # s[r].id,
           NoteHolds(s, l, shown, stored, number, one),
           t[r].phase = "saved",
           \A q \in Call \ {r} : /\ t[q].loan = s[q].loan /\ t[q].phase = s[q].phase /\ t[q].fresh = s[q].fresh
                                 /\ t[q].id = s[q].id /\ t[q].note = s[q].note /\ t[q].previous = s[q].previous,
           \A q \in Call \ {r} : s[q].loan = l =>
                (t[q].outrun = FALSE <=> s[q].outrun = FALSE /\ ~(s[q].id < s[r].id))
    PROVE  NoteHolds(t, l, shown, s[r].note, number, one)
<1>1. r \in Outstanding(s, l) /\ r \notin Outstanding(t, l)
  BY DEF Outstanding, NoteHolds
<1>2. \A q \in Call : s[q].id \in Nat
  BY DEF SaveRecord
<1>3. \A q \in Call : q \in Outstanding(t, l) <=> q \in Outstanding(s, l) /\ s[r].id < s[q].id
  BY <1>1, <1>2 DEF Outstanding
<1>4. \A q \in Outstanding(t, l) : q \in Call /\ q # r
  BY <1>1 DEF Outstanding
<1>5. \A q \in Outstanding(s, l) : q \in Call
  BY DEF Outstanding
<1>6. ASSUME NEW q \in Outstanding(t, l), Newest(t, l, q) PROVE Newest(s, l, q)
  BY <1>2, <1>3, <1>4, <1>5, <1>6 DEF Newest
<1>7. NoteShown(s, l, shown, stored) => NoteShown(t, l, shown, s[r].note)
  <2>1. SUFFICES ASSUME NoteShown(s, l, shown, stored) PROVE NoteShown(t, l, shown, s[r].note)
    OBVIOUS
  <2>2. Outstanding(t, l) = {} => Newest(s, l, r)
    BY <1>1, <1>2, <1>3, <1>5 DEF Newest
  <2> QED
    BY <1>1, <1>3, <1>4, <1>6, <2>1, <2>2 DEF NoteShown
<1>8. NotesRemember(s, l, stored, number) => NotesRemember(t, l, s[r].note, number)
  <2>1. SUFFICES ASSUME NotesRemember(s, l, stored, number) PROVE NotesRemember(t, l, s[r].note, number)
    OBVIOUS
  <2>2. ASSUME NEW q \in Outstanding(t, l), Oldest(t, l, q) PROVE t[q].previous = s[r].note
    <3>1. q \in Outstanding(s, l) /\ s[r].id < s[q].id /\ t[q].previous = s[q].previous /\ t[q].id = s[q].id
      BY <1>3, <1>4
    <3>2. Follows(s, l, r, q)
      <4>1. ASSUME NEW p \in Outstanding(s, l) PROVE s[p].id <= s[r].id \/ s[q].id <= s[p].id
        <5>1. CASE s[r].id < s[p].id
          <6>1. p \in Outstanding(t, l) /\ t[p].id = s[p].id
            BY <5>1, <1>3, <1>4, <1>5
          <6> QED
            BY <6>1, <2>2, <3>1 DEF Oldest
        <5> QED
          BY <5>1, <1>2, <1>5
      <4> QED
        BY <4>1, <3>1 DEF Follows
    <3> QED
      BY <2>1, <3>1, <3>2, <1>1 DEF NotesRemember
  <2>3. ASSUME NEW p \in Outstanding(t, l), NEW q \in Outstanding(t, l), Follows(t, l, q, p)
        PROVE  t[p].previous = t[q].note
    <3>1. p \in Outstanding(s, l) /\ q \in Outstanding(s, l) /\ s[r].id < s[q].id
      BY <1>3, <1>4
    <3>2. Follows(s, l, q, p)
      BY <2>3, <3>1, <1>2, <1>3, <1>4, <1>5 DEF Follows
    <3> QED
      BY <2>1, <3>1, <3>2, <1>4 DEF NotesRemember
  <2> QED
    BY <1>3, <1>4, <1>6, <2>1, <2>2, <2>3 DEF NotesRemember
<1>9. NoRefusal(t, l) => NoRefusal(s, l)
  BY DEF NoRefusal
<1>10. \A q \in Call : t[q].loan = l /\ t[q].phase = "sent" => t[q].fresh = TRUE
  BY DEF NoteHolds
<1> QED
  BY <1>7, <1>8, <1>9, <1>10 DEF NoteHolds

\* A note is refused: the one before it comes back, if it is the newest.
LEMMA NoteIsRestored ==
    ASSUME NEW s \in [Call -> SaveRecord], NEW t, NEW l \in Loaned, NEW r \in Call,
           NEW shown, NEW stored, NEW number \in Nat, NEW back,
           s[r].phase = "refused", s[r].loan = l,
           \A q \in Call : q # r /\ s[q].loan = l => s[q].id # s[r].id,
           s[r].outrun = TRUE => s[r].id < number,
           NoteShown(s, l, shown, stored), NotesRemember(s, l, stored, number),
           \A q \in Call : s[q].loan = l /\ s[q].phase = "sent" => s[q].fresh = TRUE,
           NEW one, ~one => \A q \in Call \ {r} : s[q].loan # l,
           back = IF number = s[r].id /\ s[r].fresh THEN s[r].previous ELSE shown,
           \A q \in Call \ {r} : t[q] = s[q], t[r].phase = "idle", t[r].loan = None, l # None
    PROVE  NoteHolds(t, l, back, stored, number, one)
<1>1. NoteShown(s, l, shown, stored) /\ NotesRemember(s, l, stored, number)
  OBVIOUS
<1>2. Outstanding(t, l) = Outstanding(s, l) \ {r}
  BY DEF Outstanding
<1>3. \A q \in Outstanding(s, l) : q \in Call /\ s[q].id \in Nat /\ (q # r => t[q] = s[q])
  BY DEF Outstanding, SaveRecord
<1>4. s[r].id \in Nat
  BY DEF SaveRecord
<1>5. NoteShown(t, l, back, stored)
  <2>1. CASE number = s[r].id /\ s[r].fresh
    <3>1. s[r].fresh = TRUE /\ s[r].outrun \in BOOLEAN
      BY <2>1 DEF SaveRecord
    <3>2. s[r].outrun = FALSE
      BY <2>1, <3>1, <1>4
    <3>3. r \in Outstanding(s, l) /\ back = s[r].previous
      BY <2>1, <3>1, <3>2 DEF Outstanding
    <3>4. ASSUME Outstanding(t, l) = {} PROVE back = stored
      <4>1. Oldest(s, l, r)
        BY <3>4, <1>2, <1>4 DEF Oldest
      <4> QED
        BY <4>1, <3>3, <1>1 DEF NotesRemember
    <3>5. ASSUME NEW q \in Outstanding(t, l), Newest(t, l, q) PROVE back = t[q].note
      <4>1. q \in Outstanding(s, l) /\ t[q] = s[q] /\ q # r
        BY <1>2, <1>3
      <4>2. \A p \in Outstanding(s, l) : s[p].id <= s[q].id \/ s[r].id <= s[p].id
        BY <3>5, <4>1, <1>2, <1>3, <1>4 DEF Newest
      <4>3. s[q].id < s[r].id
        <5>1. CASE s[r].id <= s[q].id
          <6>1. Newest(s, l, q)
            BY <5>1, <3>5, <4>1, <1>2, <1>3 DEF Newest
          <6>2. s[q].id = s[r].id
            BY <6>1, <4>1, <1>1, <2>1 DEF NotesRemember
          <6> QED
            BY <6>2, <4>1, <1>3 DEF Outstanding
        <5> QED
          BY <5>1, <4>1, <1>3, <1>4
      <4> QED
        BY <4>1, <4>2, <4>3, <3>3, <1>1 DEF Follows, NotesRemember
    <3> QED
      BY <3>4, <3>5 DEF NoteShown
  <2>2. CASE ~(number = s[r].id /\ s[r].fresh)
    <3>1. back = shown
      BY <2>2
    <3>2. r \in Outstanding(s, l) => ~Newest(s, l, r)
      BY <2>2, <1>1 DEF NotesRemember, Outstanding
    <3>3. Outstanding(t, l) = {} => Outstanding(s, l) = {}
      <4>1. SUFFICES ASSUME Outstanding(t, l) = {}, r \in Outstanding(s, l) PROVE FALSE
        BY <1>2
      <4>2. Newest(s, l, r)
        BY <4>1, <1>2, <1>4 DEF Newest
      <4> QED
        BY <4>1, <4>2, <3>2
    <3>4. ASSUME NEW q \in Outstanding(t, l), Newest(t, l, q) PROVE Newest(s, l, q) /\ q \in Outstanding(s, l) /\ t[q] = s[q]
      <4>1. q \in Outstanding(s, l) /\ t[q] = s[q]
        BY <1>2, <1>3
      <4>2. \A p \in Outstanding(s, l) : p # r => s[p].id <= s[q].id
        BY <3>4, <4>1, <1>2, <1>3 DEF Newest
      <4>3. r \in Outstanding(s, l) => s[r].id <= s[q].id
        <5>1. SUFFICES ASSUME r \in Outstanding(s, l) PROVE s[r].id <= s[q].id
          OBVIOUS
        <5>2. PICK p \in Outstanding(s, l) : ~(s[p].id <= s[r].id)
          BY <5>1, <3>2 DEF Newest
        <5>3. p # r
          BY <5>2, <1>4
        <5> QED
          BY <5>2, <5>3, <4>1, <4>2, <1>3, <1>4
      <4> QED
        BY <4>1, <4>2, <4>3 DEF Newest
    <3> QED
      BY <3>1, <3>3, <3>4, <1>1 DEF NoteShown
  <2> QED
    BY <2>1, <2>2
<1>6. ASSUME \A q \in Call \ {r} : s[q].loan # l PROVE NotesRemember(t, l, stored, number)
  <2>1. Outstanding(t, l) = {}
    BY <1>6, <1>2 DEF Outstanding
  <2> QED
    BY <2>1 DEF NotesRemember
<1>7. \A q \in Call : t[q].loan = l /\ t[q].phase = "sent" => t[q].fresh = TRUE
  OBVIOUS
<1> QED
  BY <1>5, <1>6, <1>7 DEF NoteHolds

(*************************** the steps of the list **********************)

\* What the list's page is promised to show.
ListHolds == NotesNumbered(noteSaves, latest) /\ RowsHold /\ ReloadHolds

LEMMA BlankRow == NoRow \in LoanRows /\ NoRow.status = "none" /\ NoRow.note = None /\ NoRow.accepted = FALSE
BY DEF NoRow, LoanRows

LEMMA ListedRows == ListedLoans = [l \in Loaned |-> ListedRow(lent, l)]
BY DEF ListedLoans, ListedRow

LEMMA ListedTypes ==
    ASSUME NEW rows \in [Loaned -> LoanRows], NEW l \in Loaned
    PROVE  ListedRow(rows, l) \in LoanRows
BY BlankRow DEF ListedRow

LEMMA BlankSave == NoSave \in SaveRecord /\ NoSave.phase = "idle" /\ NoSave.loan = None
BY DEF NoSave, SaveRecord, SomeLoan

LEMMA EndedTypes ==
    ASSUME lent \in [Loaned -> LoanRows], NEW l \in Loaned, NEW e \in Ends
    PROVE  EndedRow(l, e) \in LoanRows
BY BlankRow DEF EndedRow, LoanRows, NoRow, Ends

\* The loan whose row changes without the list being told is excused, and so is a list that was read before.
LEMMA MissedTypes ==
    ASSUME ListTypes, NEW S \in SUBSET Loaned
    PROVE  /\ Missed(S) \in ListReload
           /\ Missed(S).phase = reload.phase /\ Missed(S).rows = reload.rows
           /\ reload.phase = "read" => Missed(S).missed = reload.missed \cup S
BY DEF Missed, ListTypes, ListReload

\* Types, whichever page is open.
LEMMA AfterServerStep ==
    ASSUME ListTypes, NEW l \in Loaned, NEW row \in LoanRows, lent' = [lent EXCEPT ![l] = row],
           UNCHANGED <<ownerPage, list, noteSaves, latest>>,
           reload' \in ListReload,
           Actions(action')
    PROVE  ListTypes' /\ \A k \in Loaned \ {l} : ListedRow(lent', k) = ListedRow(lent, k)
BY DEF ListTypes, ListedRow

LEMMA NothingNewToShow ==
    ASSUME ListTypes, ListHolds, NEW l \in Loaned,
           \A k \in Loaned \ {l} : ListedRow(lent', k) = ListedRow(lent, k),
           UNCHANGED <<list, noteSaves, latest, failed>>,
           unseen' = unseen \cup {l}, reload' = Missed({l})
    PROVE  ListHolds'
<1>1. NotesNumbered(noteSaves, latest)'
  BY DEF ListHolds, NotesNumbered
<1>2. RowsHold'
  BY DEF ListHolds, RowsHold
<1>3. ReloadHolds'
  <2>1. /\ reload'.phase = reload.phase /\ reload'.rows = reload.rows
        /\ reload.phase = "read" => reload'.missed = reload.missed \cup {l}
    BY MissedTypes
  <2> QED
    BY <2>1 DEF ListHolds, ReloadHolds
<1> QED
  BY <1>1, <1>2, <1>3 DEF ListHolds

LEMMA AfterEndedElsewhere ==
    ASSUME ListTypes, NEW l \in Loaned, endedElsewhere(l) \/ acceptBook(l)
    PROVE  ListTypes' /\ (ListHolds => ListHolds')
<1> DEFINE row == IF endedElsewhere(l) THEN EndedRow(l, "returned") ELSE [lent[l] EXCEPT !.accepted = TRUE]
<1>1. row \in LoanRows
  <2>1. EndedRow(l, "returned") \in LoanRows
    BY EndedTypes DEF ListTypes, Ends
  <2>2. [lent[l] EXCEPT !.accepted = TRUE] \in LoanRows
    BY DEF ListTypes, LoanRows
  <2> QED
    BY <2>1, <2>2
<1>2. /\ lent' = [lent EXCEPT ![l] = row] /\ unseen' = unseen \cup {l} /\ reload' = Missed({l})
      /\ UNCHANGED <<ownerPage, list, noteSaves, latest, action, failed>>
  BY DEF endedElsewhere, acceptBook, Unseen
<1> HIDE DEF row
<1>3. ListTypes' /\ \A k \in Loaned \ {l} : ListedRow(lent', k) = ListedRow(lent, k)
  <2>1. Actions(action') /\ reload' \in ListReload
    BY <1>2, MissedTypes DEF ListTypes
  <2>2. UNCHANGED <<ownerPage, list, noteSaves, latest>>
    BY <1>2
  <2> QED
    BY <1>1, <1>2, <2>1, <2>2, AfterServerStep
<1>4. ASSUME ListHolds PROVE ListHolds'
  BY <1>2, <1>3, <1>4, NothingNewToShow
<1> QED
  BY <1>3, <1>4

LEMMA AfterLoanEnds ==
    ASSUME ListTypes, NEW e \in Ends, loanEnds(e)
    PROVE  ListTypes' /\ (ListHolds => ListHolds')
<1> DEFINE l == action[e].loan
<1>1. Actions(action')
  BY DEF loanEnds, ListTypes, Progress, Actions
<1>2. UNCHANGED <<ownerPage, list, noteSaves, latest, failed>>
  BY DEF loanEnds
<1>3. CASE Endable(l, e)
  <2>1. lent' = [lent EXCEPT ![l] = EndedRow(l, e)] /\ unseen' = unseen \cup {l} /\ reload' = Missed({l})
    BY <1>3 DEF loanEnds, Unseen
  <2>2. l \in Loaned
    BY DEF loanEnds, ListTypes, Actions
  <2>3. EndedRow(l, e) \in LoanRows
    BY <2>2, EndedTypes DEF ListTypes
  <2>4. ListTypes' /\ \A k \in Loaned \ {l} : ListedRow(lent', k) = ListedRow(lent, k)
    <3> HIDE DEF l
    <3>1. reload' \in ListReload
      BY <2>1, <2>2, MissedTypes
    <3>2. UNCHANGED <<ownerPage, list, noteSaves, latest>>
      BY <1>2
    <3> QED
      BY <1>1, <2>1, <2>2, <2>3, <3>1, <3>2, AfterServerStep
  <2> HIDE DEF l
  <2>5. ASSUME ListHolds PROVE ListHolds'
    BY <1>2, <2>1, <2>2, <2>4, <2>5, NothingNewToShow
  <2> QED
    BY <2>4, <2>5
<1>4. CASE ~Endable(l, e)
  <2>1. UNCHANGED <<lent, unseen, reload>>
    BY <1>4 DEF loanEnds
  <2> QED
    BY <1>1, <1>2, <2>1 DEF ListTypes, ListHolds, NotesNumbered, RowsHold, ReloadHolds
<1> QED
  BY <1>3, <1>4

\* A note that is shown.
LEMMA AfterSaveNote ==
    ASSUME ListTypes, None \notin Loaned, NEW r \in Call, NEW l \in Loaned, NEW n \in Text \cup {None},
           saveLoanNote(r, l, n)
    PROVE  ListTypes' /\ (ListHolds => ListHolds')
<1> DEFINE m == [phase |-> "sent", loan |-> l, id |-> latest[l] + 1, note |-> n, previous |-> list[l].note,
                 fresh |-> TRUE, outrun |-> FALSE]
<1>1. /\ latest' = [latest EXCEPT ![l] = @ + 1] /\ noteSaves' = [noteSaves EXCEPT ![r] = m]
      /\ list' = [list EXCEPT ![l].note = n] /\ noteSaves[r].phase = "idle" /\ reload.phase = "none"
      /\ UNCHANGED <<lent, ownerPage, reload, action, unseen, failed>>
  BY DEF saveLoanNote, Visible, ListTypes
<1>2. m \in SaveRecord
  BY DEF ListTypes, SaveRecord, LoanRows, SomeLoan
<1>3. latest' \in [Loaned -> Nat] /\ latest'[l] = latest[l] + 1 /\ \A k \in Loaned \ {l} : latest'[k] = latest[k]
  BY <1>1 DEF ListTypes
<1>4. /\ noteSaves' \in [Call -> SaveRecord] /\ noteSaves'[r] = m
      /\ \A q \in Call \ {r} : noteSaves'[q] = noteSaves[q]
  <2> HIDE DEF m
  <2> QED
    BY <1>1, <1>2 DEF ListTypes
<1>5. /\ list' \in [Loaned -> LoanRows] /\ \A k \in Loaned \ {l} : list'[k] = list[k]
      /\ list'[l].note = n /\ list'[l].status = list[l].status /\ list'[l].accepted = list[l].accepted
  BY <1>1 DEF ListTypes, LoanRows
<1>7. /\ m.phase = "sent" /\ m.loan = l /\ m.id = latest[l] + 1 /\ m.outrun = FALSE
  OBVIOUS
<1>9. SavesNamed(noteSaves')
  <2> HIDE DEF m
  <2> QED
    BY <1>4, <1>7 DEF SavesNamed, ListTypes
<1>6. ListTypes'
  BY <1>1, <1>3, <1>4, <1>5, <1>9 DEF ListTypes
<1>8. ASSUME ListHolds PROVE ListHolds'
  <2>1. noteSaves[r].loan = None /\ l # None
    BY <1>1, <1>8 DEF ListTypes, SavesNamed
  <2>2. \A q \in Call : noteSaves[q].loan = l => noteSaves[q].id <= latest[l]
    BY <1>8, <2>1 DEF ListHolds, NotesNumbered, ListTypes, SavesNamed
  <2>3. \A q \in Call : noteSaves[q].id \in Nat /\ noteSaves[q].phase \in {"idle", "sent", "saved", "refused"}
          /\ noteSaves[q].loan \in SomeLoan
    BY DEF ListTypes, SaveRecord
  <2>4. NotesNumbered(noteSaves', latest')
    <3> HIDE DEF m
    <3>2. \A q \in Call : noteSaves'[q].phase # "idle" => noteSaves'[q].id <= latest'[noteSaves'[q].loan]
      <4>1. TAKE q \in Call
      <4>2. CASE q = r
        BY <4>2, <1>3, <1>4, <1>7 DEF ListTypes
      <4>3. CASE q # r
        <5>1. SUFFICES ASSUME noteSaves[q].phase # "idle"
              PROVE noteSaves[q].id <= latest'[noteSaves[q].loan]
          BY <4>3, <1>4
        <5>2. noteSaves[q].loan \in Loaned /\ noteSaves[q].id <= latest[noteSaves[q].loan]
          BY <5>1, <1>8, <2>3 DEF ListHolds, NotesNumbered, SomeLoan, ListTypes, SavesNamed
        <5>3. latest[noteSaves[q].loan] <= latest'[noteSaves[q].loan]
          BY <5>2, <1>3 DEF ListTypes
        <5>4. latest[noteSaves[q].loan] \in Nat /\ latest'[noteSaves[q].loan] \in Nat /\ noteSaves[q].id \in Nat
          BY <5>2, <1>3, <2>3 DEF ListTypes
        <5> QED
          BY <5>2, <5>3, <5>4
      <4> QED
        BY <4>2, <4>3
    <3>3. \A q \in Call : noteSaves'[q].phase # "idle" /\ noteSaves'[q].outrun = TRUE
            => noteSaves'[q].id < latest'[noteSaves'[q].loan]
      <4>1. TAKE q \in Call
      <4>2. SUFFICES ASSUME q # r, noteSaves[q].phase # "idle", noteSaves[q].outrun = TRUE
            PROVE  noteSaves[q].id < latest'[noteSaves[q].loan]
        BY <1>4, <1>7
      <4>3. noteSaves[q].loan \in Loaned /\ noteSaves[q].id < latest[noteSaves[q].loan]
        BY <4>2, <1>8, <2>3 DEF ListHolds, NotesNumbered, SomeLoan, ListTypes, SavesNamed
      <4>4. latest[noteSaves[q].loan] <= latest'[noteSaves[q].loan]
        BY <4>3, <1>3 DEF ListTypes
      <4>5. latest[noteSaves[q].loan] \in Nat /\ latest'[noteSaves[q].loan] \in Nat /\ noteSaves[q].id \in Nat
        BY <4>3, <1>3, <2>3 DEF ListTypes
      <4> QED
        BY <4>3, <4>4, <4>5
    <3>4. \A p, q \in Call : p # q /\ noteSaves'[p].phase # "idle" /\ noteSaves'[p].loan = noteSaves'[q].loan
            => noteSaves'[p].id # noteSaves'[q].id
      <4>1. \A q \in Call \ {r} : noteSaves[q].loan = l => noteSaves[q].id # m.id
        BY <1>7, <2>2, <2>3 DEF ListTypes
      <4> QED
        BY <4>1, <1>4, <1>7, <1>8 DEF ListHolds, NotesNumbered
    <3> QED
      BY <3>2, <3>3, <3>4 DEF NotesNumbered
  <2>5. RowsHold'
    <3>1. SUFFICES ASSUME NEW k \in Loaned, k \notin unseen
          PROVE  RowHolds(noteSaves', k, list'[k], ListedRow(lent', k), latest'[k], k \in failed')
      BY <1>1 DEF RowsHold
    <3>2. RowHolds(noteSaves, k, list[k], ListedRow(lent, k), latest[k], k \in failed)
      BY <3>1, <1>8 DEF ListHolds, RowsHold
    <3>3. ListedRow(lent', k) = ListedRow(lent, k) /\ failed' = failed
      BY <1>1
    <3>4. CASE k = l
      <4>1. NoteHolds(noteSaves, l, list[l].note, ListedRow(lent, l).note, latest[l], l \in failed)
        BY <3>2, <3>4 DEF RowHolds
      <4>2. latest[l] \in Nat /\ noteSaves \in [Call -> SaveRecord] /\ noteSaves[r].loan # l
        BY <2>1 DEF ListTypes
      <4>3. NoteHolds(noteSaves', l, n, ListedRow(lent, l).note, latest[l] + 1, l \in failed)
        BY <4>1, <4>2, <1>1, <1>4, <2>2, NoteIsShown
      <4> HIDE DEF m
      <4>4. SameRow(list'[l], ListedRow(lent, l))
        BY <3>2, <3>4, <1>5 DEF RowHolds, SameRow
      <4> QED
        BY <4>3, <4>4, <1>3, <1>5, <3>3, <3>4 DEF RowHolds
    <3>5. CASE k # l
      <4> HIDE DEF m
      <4>1. SameNotes(noteSaves, noteSaves', k)
        <5>1. \A q \in Call : noteSaves[q].loan = k \/ noteSaves'[q].loan = k => noteSaves'[q] = noteSaves[q]
          BY <3>5, <1>4, <1>7, <2>1
        <5> QED
          BY <5>1, OtherLoan
      <4>2. NoteHolds(noteSaves, k, list[k].note, ListedRow(lent, k).note, latest[k], k \in failed)
        BY <3>2 DEF RowHolds
      <4>3. NoteHolds(noteSaves', k, list[k].note, ListedRow(lent, k).note, latest[k], k \in failed)
        BY <4>1, <4>2, NoteKept
      <4> QED
        BY <4>3, <1>3, <1>5, <3>2, <3>3, <3>5 DEF RowHolds
    <3> QED
      BY <3>4, <3>5
  <2>6. ReloadHolds'
    BY <1>1 DEF ReloadHolds
  <2> QED
    BY <2>4, <2>5, <2>6 DEF ListHolds
<1> QED
  BY <1>6, <1>8

\* The numbers of the notes do not change while their loan and number stay.
LEMMA NumbersKept ==
    ASSUME NEW s \in [Call -> SaveRecord], NEW t \in [Call -> SaveRecord], NEW numbers, NotesNumbered(s, numbers), SavesNamed(s),
           \A q \in Call : \/ t[q] = NoSave
                           \/ /\ t[q].loan = s[q].loan /\ t[q].id = s[q].id
                              /\ (t[q].phase = "idle" <=> s[q].phase = "idle")
                              /\ t[q].outrun = TRUE => s[q].outrun = TRUE \/ s[q].id < numbers[s[q].loan]
    PROVE  NotesNumbered(t, numbers) /\ SavesNamed(t)
<1>1. NoSave.phase = "idle" /\ NoSave.loan = None
  BY BlankSave
<1>2. \A q \in Call : t[q].phase = "idle" <=> t[q].loan = None
  BY <1>1 DEF SavesNamed
<1>3. \A q \in Call : t[q].phase # "idle" => t[q].id <= numbers[t[q].loan]
  BY <1>1 DEF NotesNumbered
<1>4. \A q \in Call : t[q].phase # "idle" /\ t[q].outrun = TRUE => t[q].id < numbers[t[q].loan]
  BY <1>1 DEF NotesNumbered
<1>5. ASSUME NEW p \in Call, NEW q \in Call, p # q, t[p].phase # "idle", t[p].loan = t[q].loan
      PROVE  t[p].id # t[q].id
  <2>1. t[p] # NoSave /\ t[p].loan # None /\ t[q] # NoSave
    BY <1>1, <1>2, <1>5
  <2> QED
    BY <2>1, <1>5 DEF NotesNumbered
<1> QED
  BY <1>2, <1>3, <1>4, <1>5 DEF NotesNumbered, SavesNamed

\* A note whose row is excused, or that leaves what a row depends on as it is.
LEMMA RowsKept ==
    ASSUME RowsHold, NEW S \in SUBSET Loaned, unseen \subseteq unseen', S \subseteq unseen',
           UNCHANGED latest,
           \A k \in Loaned \ S : ListedRow(lent', k) = ListedRow(lent, k) /\ list'[k] = list[k]
                                 /\ (k \in failed' <=> k \in failed) /\ SameNotes(noteSaves, noteSaves', k)
    PROVE  RowsHold'
<1>1. SUFFICES ASSUME NEW k \in Loaned, k \notin unseen'
      PROVE  RowHolds(noteSaves', k, list'[k], ListedRow(lent', k), latest'[k], k \in failed')
  BY DEF RowsHold
<1>2. k \notin S /\ RowHolds(noteSaves, k, list[k], ListedRow(lent, k), latest[k], k \in failed)
  BY <1>1 DEF RowsHold
<1>3. SameNotes(noteSaves, noteSaves', k) /\ (k \in failed') = (k \in failed)
  BY <1>1, <1>2
<1>4. NoteHolds(noteSaves', k, list[k].note, ListedRow(lent, k).note, latest[k], k \in failed)
  BY <1>2, <1>3, NoteKept DEF RowHolds
<1> QED
  BY <1>1, <1>2, <1>3, <1>4 DEF RowHolds

LEMMA OutrunRecord ==
    ASSUME NEW x \in SaveRecord, NEW b \in BOOLEAN
    PROVE  LET y == [x EXCEPT !.outrun = b] IN
           /\ y \in SaveRecord
           /\ y.loan = x.loan /\ y.id = x.id /\ y.note = x.note /\ y.previous = x.previous
           /\ y.fresh = x.fresh /\ y.phase = x.phase
BY DEF SaveRecord

LEMMA AfterNoteIsRefused ==
    ASSUME ListTypes, NEW r \in Call, noteIsRefused(r)
    PROVE  ListTypes' /\ (ListHolds => ListHolds')
<1>1. /\ noteSaves' = [noteSaves EXCEPT ![r].phase = "refused"] /\ noteSaves[r].phase = "sent"
      /\ UNCHANGED <<lent, ownerPage, list, reload, latest, action, unseen, failed>>
  BY DEF noteIsRefused
<1>2. /\ noteSaves' \in [Call -> SaveRecord] /\ noteSaves'[r].phase = "refused"
      /\ \A q \in Call : /\ noteSaves'[q].loan = noteSaves[q].loan /\ noteSaves'[q].id = noteSaves[q].id
                         /\ noteSaves'[q].note = noteSaves[q].note /\ noteSaves'[q].previous = noteSaves[q].previous
                         /\ noteSaves'[q].fresh = noteSaves[q].fresh /\ noteSaves'[q].outrun = noteSaves[q].outrun
                         /\ (q # r => noteSaves'[q].phase = noteSaves[q].phase)
  BY <1>1 DEF ListTypes, SaveRecord
<1>3. ListTypes'
  BY <1>1, <1>2 DEF ListTypes, SavesNamed
<1>4. ASSUME NEW k \in Loaned PROVE SameNotes(noteSaves, noteSaves', k)
  <2>1. Outstanding(noteSaves', k) = Outstanding(noteSaves, k)
    BY <1>1, <1>2 DEF Outstanding
  <2>2. \A q \in Outstanding(noteSaves, k) : q \in Call
    BY DEF Outstanding
  <2>3. NoRefusal(noteSaves', k) => NoRefusal(noteSaves, k)
    BY <1>1, <1>2 DEF NoRefusal
  <2> QED
    BY <1>2, <2>1, <2>2, <2>3 DEF SameNotes
<1>5. ASSUME ListHolds PROVE ListHolds'
  <2>1. NotesNumbered(noteSaves', latest')
    <3>1. \A q \in Call : noteSaves'[q].phase = "idle" <=> noteSaves[q].phase = "idle"
      BY <1>1, <1>2
    <3>2. noteSaves \in [Call -> SaveRecord] /\ NotesNumbered(noteSaves, latest)
      BY <1>5 DEF ListHolds, ListTypes
    <3>3. NotesNumbered(noteSaves', latest)
      BY <1>2, <3>1, <3>2 DEF NotesNumbered
    <3> QED
      BY <1>1, <3>3
  <2>2. RowsHold'
    <3>1. /\ RowsHold /\ {} \subseteq unseen' /\ {} \in SUBSET Loaned /\ unseen \subseteq unseen' /\ latest' = latest
      BY <1>1, <1>5 DEF ListHolds
    <3>2. \A k \in Loaned \ {} : ListedRow(lent', k) = ListedRow(lent, k) /\ list'[k] = list[k]
                               /\ (k \in failed' <=> k \in failed) /\ SameNotes(noteSaves, noteSaves', k)
      BY <1>1, <1>4
    <3> QED
      BY <3>1, <3>2, RowsKept
  <2> QED
    BY <1>1, <1>5, <2>1, <2>2 DEF ListHolds, ReloadHolds
<1> QED
  BY <1>3, <1>5

LEMMA AfterNoteIsSaved ==
    ASSUME ListTypes, NEW r \in Call, noteIsSaved(r)
    PROVE  ListTypes' /\ (ListHolds => ListHolds')
<1> DEFINE l == noteSaves[r].loan
           outdone(q) == noteSaves[q].loan = l /\ noteSaves[q].id < noteSaves[r].id
<1>1. /\ lent' = [lent EXCEPT ![l].note = noteSaves[r].note] /\ noteSaves[r].phase = "sent" /\ lent[l].status = "active"
      /\ noteSaves' = [q \in Call |-> IF q = r THEN [noteSaves[r] EXCEPT !.phase = "saved"]
            ELSE [noteSaves[q] EXCEPT !.outrun = @ \/ outdone(q)]]
      /\ unseen' = (IF noteSaves[r].outrun THEN unseen \cup {l} ELSE unseen) /\ reload' = Missed({l})
      /\ UNCHANGED <<ownerPage, list, latest, action, failed>>
  BY DEF noteIsSaved, Noted
<1>2. /\ noteSaves' \in [Call -> SaveRecord] /\ noteSaves'[r].phase = "saved"
      /\ \A q \in Call : /\ noteSaves'[q].loan = noteSaves[q].loan /\ noteSaves'[q].id = noteSaves[q].id
                         /\ noteSaves'[q].note = noteSaves[q].note /\ noteSaves'[q].previous = noteSaves[q].previous
                         /\ noteSaves'[q].fresh = noteSaves[q].fresh
                         /\ (q # r => noteSaves'[q].phase = noteSaves[q].phase)
  <2>1. \A q \in Call : noteSaves[q] \in SaveRecord
    BY DEF ListTypes
  <2>2. [noteSaves[r] EXCEPT !.phase = "saved"] \in SaveRecord
    BY <2>1 DEF SaveRecord
  <2>3. \A q \in Call : [noteSaves[q] EXCEPT !.outrun = @ \/ outdone(q)] \in SaveRecord
    <3>1. \A q \in Call : (noteSaves[q].outrun \/ outdone(q)) \in BOOLEAN
      OBVIOUS
    <3> HIDE DEF outdone
    <3> QED
      BY <2>1, <3>1, OutrunRecord
  <2>4. noteSaves' \in [Call -> SaveRecord]
    BY <1>1, <2>2, <2>3
  <2>5. noteSaves'[r] = [noteSaves[r] EXCEPT !.phase = "saved"]
    BY <1>1
  <2>6. \A q \in Call : q # r => noteSaves'[q] = [noteSaves[q] EXCEPT !.outrun = @ \/ outdone(q)]
    BY <1>1
  <2> HIDE DEF outdone
  <2>7. \A q \in Call \ {r} :
            /\ noteSaves'[q].loan = noteSaves[q].loan /\ noteSaves'[q].id = noteSaves[q].id
            /\ noteSaves'[q].note = noteSaves[q].note /\ noteSaves'[q].previous = noteSaves[q].previous
            /\ noteSaves'[q].fresh = noteSaves[q].fresh /\ noteSaves'[q].phase = noteSaves[q].phase
    <3>1. TAKE q \in Call \ {r}
    <3>2. noteSaves[q] \in SaveRecord /\ (noteSaves[q].outrun \/ outdone(q)) \in BOOLEAN
      BY <2>1
    <3>3. noteSaves'[q] = [noteSaves[q] EXCEPT !.outrun = noteSaves[q].outrun \/ outdone(q)]
      BY <2>6
    <3> QED
      BY <3>2, <3>3, OutrunRecord
  <2> QED
    BY <2>1, <2>4, <2>5, <2>7 DEF SaveRecord
<1>3. \A q \in Call : noteSaves'[q].outrun = TRUE
          <=> noteSaves[q].outrun = TRUE \/ (q # r /\ noteSaves[q].loan = l /\ noteSaves[q].id < noteSaves[r].id)
  BY <1>1 DEF ListTypes, SaveRecord
<1>4. \A q \in Call : noteSaves[q].outrun \in BOOLEAN /\ noteSaves'[q].outrun \in BOOLEAN
          /\ noteSaves[q].id \in Nat /\ noteSaves[q].note \in Text \cup {None} /\ noteSaves[q].loan \in SomeLoan
  BY <1>2 DEF ListTypes, SaveRecord
<1>5. lent' \in [Loaned -> LoanRows] /\ \A k \in Loaned : k # l => lent'[k] = lent[k]
  <2>1. \A row \in LoanRows, n \in Text \cup {None} : [row EXCEPT !.note = n] \in LoanRows
    BY DEF LoanRows
  <2>2. \A k \in Loaned : [lent[k] EXCEPT !.note = noteSaves[r].note] \in LoanRows
    BY <1>4, <2>1 DEF ListTypes
  <2> HIDE DEF l
  <2> QED
    BY <1>1, <2>2 DEF ListTypes
<1>6. l \in Loaned => /\ lent'[l].note = noteSaves[r].note /\ lent'[l].status = "active"
                      /\ lent'[l].accepted = lent[l].accepted
  BY <1>1 DEF ListTypes, LoanRows
<1>0. l \in Loaned
  BY <1>1, <1>4 DEF ListTypes, SavesNamed, SomeLoan
<1> HIDE DEF l
<1>7. /\ reload' \in ListReload /\ reload'.phase = reload.phase /\ reload'.rows = reload.rows
      /\ reload.phase = "read" => reload'.missed = reload.missed \cup {l}
  BY <1>0, <1>1, MissedTypes
<1>8. ListTypes'
  <2>1. SavesNamed(noteSaves')
    BY <1>1, <1>2 DEF ListTypes, SavesNamed
  <2> QED
    BY <1>1, <1>2, <1>5, <1>7, <2>1 DEF ListTypes
<1>9. ASSUME ListHolds PROVE ListHolds'
  <2>1. l \in Loaned
    BY <1>0
  <2>2. \A q \in Call : q # r /\ noteSaves[q].loan = l => noteSaves[q].id # noteSaves[r].id
    BY <1>1, <1>9 DEF ListHolds, NotesNumbered, l
  <2>3. NotesNumbered(noteSaves', latest')
    <3>1. noteSaves[r].id <= latest[l] /\ latest[l] \in Nat
      BY <1>1, <1>9, <2>1 DEF ListHolds, NotesNumbered, ListTypes, l
    <3>2. \A q \in Call : noteSaves'[q].outrun = TRUE
            => noteSaves[q].outrun = TRUE \/ noteSaves[q].id < latest[noteSaves[q].loan]
      BY <1>3, <1>4, <3>1
    <3>3. \A q \in Call : noteSaves'[q].phase = "idle" <=> noteSaves[q].phase = "idle"
      BY <1>1, <1>2
    <3>4. noteSaves \in [Call -> SaveRecord] /\ NotesNumbered(noteSaves, latest)
      BY <1>9 DEF ListHolds, ListTypes
    <3>5. NotesNumbered(noteSaves', latest)
      BY <1>2, <3>2, <3>3, <3>4 DEF NotesNumbered
    <3> QED
      BY <1>1, <3>5
  <2>4. RowsHold'
    <3>1. SUFFICES ASSUME NEW k \in Loaned, k \notin unseen'
          PROVE  RowHolds(noteSaves', k, list'[k], ListedRow(lent', k), latest'[k], k \in failed')
      BY DEF RowsHold
    <3>2. RowHolds(noteSaves, k, list[k], ListedRow(lent, k), latest[k], k \in failed)
      BY <1>1, <1>9, <3>1 DEF ListHolds, RowsHold
    <3>3. CASE k = l
      <4>1. noteSaves[r].outrun = FALSE
        BY <1>1, <1>4, <3>1, <3>3
      <4>2. NoteHolds(noteSaves, l, list[l].note, ListedRow(lent, l).note, latest[l], l \in failed)
        BY <3>2, <3>3 DEF RowHolds
      <4>3. \A q \in Call \ {r} : noteSaves[q].loan = l =>
              (noteSaves'[q].outrun = FALSE <=> noteSaves[q].outrun = FALSE /\ ~(noteSaves[q].id < noteSaves[r].id))
        BY <1>3, <1>4
      <4>4. noteSaves \in [Call -> SaveRecord] /\ noteSaves[r].loan = l
        BY DEF ListTypes, l
      <4>5. NoteHolds(noteSaves', l, list[l].note, noteSaves[r].note, latest[l], l \in failed)
        <5>1. noteSaves[r].phase = "sent"
          BY <1>1
        <5>2. \A q \in Call \ {r} :
                 /\ noteSaves'[q].loan = noteSaves[q].loan /\ noteSaves'[q].phase = noteSaves[q].phase
                 /\ noteSaves'[q].fresh = noteSaves[q].fresh /\ noteSaves'[q].id = noteSaves[q].id
                 /\ noteSaves'[q].note = noteSaves[q].note /\ noteSaves'[q].previous = noteSaves[q].previous
          BY <1>2
        <5>3. noteSaves'[r].phase = "saved"
          BY <1>2
        <5> QED
          BY <2>1, <2>2, <4>1, <4>2, <4>3, <4>4, <5>1, <5>2, <5>3, NoteIsStored, ZenonT(60)
      <4>6. ListedRow(lent', l) = lent'[l] /\ ListedRow(lent, l) = lent[l]
        BY <1>1, <1>6, <2>1 DEF ListedRow
      <4>7. SameRow(list[l], lent'[l])
        BY <1>1, <1>6, <2>1, <3>2, <3>3, <4>6 DEF RowHolds, SameRow
      <4> QED
        BY <1>1, <1>6, <2>1, <3>3, <4>5, <4>6, <4>7 DEF RowHolds
    <3>4. CASE k # l
      <4>1. SameNotes(noteSaves, noteSaves', k)
        <5>1. \A q \in Call : noteSaves[q].loan = k => q # r /\ (noteSaves'[q].outrun = FALSE <=> noteSaves[q].outrun = FALSE)
          BY <1>3, <1>4, <3>4 DEF l
        <5> QED
          BY <1>2, <5>1, OtherLoan
      <4>2. NoteHolds(noteSaves', k, list[k].note, ListedRow(lent, k).note, latest[k], k \in failed)
        BY <3>2, <4>1, NoteKept DEF RowHolds
      <4>3. ListedRow(lent', k) = ListedRow(lent, k)
        BY <1>5, <3>4 DEF ListedRow
      <4>4. list' = list /\ latest' = latest /\ failed' = failed /\ SameRow(list[k], ListedRow(lent, k))
        BY <1>1, <3>2 DEF RowHolds
      <4> QED
        BY <4>2, <4>3, <4>4 DEF RowHolds
    <3> QED
      BY <3>3, <3>4
  <2>5. ReloadHolds'
    <3>1. \A k \in Loaned : k # l => ListedRow(lent', k) = ListedRow(lent, k)
      BY <1>5 DEF ListedRow
    <3> QED
      BY <1>7, <1>9, <2>1, <3>1 DEF ListHolds, ReloadHolds
  <2> QED
    BY <2>3, <2>4, <2>5 DEF ListHolds
<1> QED
  BY <1>8, <1>9

\* A save that has been answered is idle; its loan is None.
LEMMA SaveIsOver ==
    ASSUME ListTypes, NEW r \in Call, noteSaves' = [noteSaves EXCEPT ![r] = NoSave]
    PROVE  /\ noteSaves' \in [Call -> SaveRecord] /\ SavesNamed(noteSaves')
           /\ noteSaves'[r] = NoSave /\ \A q \in Call \ {r} : noteSaves'[q] = noteSaves[q]
           /\ NotesNumbered(noteSaves, latest) => NotesNumbered(noteSaves', latest)
<1>1. /\ noteSaves' \in [Call -> SaveRecord] /\ noteSaves'[r] = NoSave
      /\ \A q \in Call \ {r} : noteSaves'[q] = noteSaves[q]
  BY BlankSave DEF ListTypes
<1>2. SavesNamed(noteSaves')
  BY <1>1, BlankSave DEF ListTypes, SavesNamed
<1>3. ASSUME NotesNumbered(noteSaves, latest) PROVE NotesNumbered(noteSaves', latest)
  <2>1. \A q \in Call : q # r => noteSaves'[q] = noteSaves[q]
    BY <1>1
  <2>2. noteSaves'[r].phase = "idle" /\ noteSaves'[r].loan = None
    BY <1>1, BlankSave
  <2>3. \A q \in Call : noteSaves[q].phase # "idle" => noteSaves[q].loan # None
    BY DEF ListTypes, SavesNamed
  <2> QED
    BY <1>3, <2>1, <2>2, <2>3 DEF NotesNumbered
<1> QED
  BY <1>1, <1>2, <1>3

LEMMA OtherLoanOver ==
    ASSUME ListTypes, NEW r \in Call, noteSaves' = [noteSaves EXCEPT ![r] = NoSave], NEW k \in Loaned,
           k # noteSaves[r].loan, k # None
    PROVE  SameNotes(noteSaves, noteSaves', k)
<1>1. \A q \in Call : noteSaves[q].loan = k \/ noteSaves'[q].loan = k => noteSaves'[q] = noteSaves[q]
  BY SaveIsOver, BlankSave
<1> QED
  BY <1>1, OtherLoan

LEMMA AfterNoteAnswered ==
    ASSUME ListTypes, None \notin Loaned, NEW r \in Call, noteAnswered(r)
    PROVE  ListTypes' /\ (ListHolds => ListHolds')
<1> DEFINE l == noteSaves[r].loan
<1>1. /\ noteSaves[r].phase = "saved" /\ noteSaves' = [noteSaves EXCEPT ![r] = NoSave]
      /\ failed' = (IF Alone(r) THEN failed \ {l} ELSE failed)
      /\ UNCHANGED <<lent, ownerPage, list, reload, latest, action, unseen>>
  BY DEF noteAnswered
<1>2. /\ noteSaves' \in [Call -> SaveRecord] /\ SavesNamed(noteSaves')
      /\ noteSaves'[r] = NoSave /\ \A q \in Call \ {r} : noteSaves'[q] = noteSaves[q]
      /\ NotesNumbered(noteSaves, latest) => NotesNumbered(noteSaves', latest)
  BY <1>1, SaveIsOver
<1>3. ListTypes'
  BY <1>1, <1>2 DEF ListTypes
<1>4. ASSUME ListHolds PROVE ListHolds'
  <2>1. RowsHold'
    <3>1. SUFFICES ASSUME NEW k \in Loaned, k \notin unseen
          PROVE  RowHolds(noteSaves', k, list[k], ListedRow(lent, k), latest[k], k \in failed')
      BY <1>1 DEF RowsHold
    <3>2. /\ SameRow(list[k], ListedRow(lent, k))
          /\ NoteHolds(noteSaves, k, list[k].note, ListedRow(lent, k).note, latest[k], k \in failed)
      BY <1>4, <3>1 DEF ListHolds, RowsHold, RowHolds
    <3>3. CASE k = l
      <4>1. SameNotes(noteSaves, noteSaves', k)
        <5>1. noteSaves'[r].phase = "idle" /\ noteSaves'[r].loan = None /\ k # None
          BY <1>2, BlankSave
        <5>2. Outstanding(noteSaves', k) = Outstanding(noteSaves, k)
          BY <1>1, <1>2, <5>1 DEF Outstanding
        <5>3. \A q \in Outstanding(noteSaves, k) : q \in Call /\ q # r
          BY <1>1 DEF Outstanding
        <5>4. NoRefusal(noteSaves', k) => NoRefusal(noteSaves, k)
          BY <1>1, <1>2 DEF NoRefusal
        <5>5. \A q \in Call : noteSaves'[q].loan = k => q # r
          BY <5>1
        <5> QED
          BY <1>2, <5>2, <5>3, <5>4, <5>5 DEF SameNotes
      <4>2. NoteHolds(noteSaves', k, list[k].note, ListedRow(lent, k).note, latest[k], k \in failed)
        BY <3>2, <4>1, NoteKept
      <4>3. CASE Alone(r) /\ k \in failed
        <5>1. \A q \in Call : noteSaves'[q].loan # k
          BY <1>2, <3>3, <4>3, BlankSave DEF Alone
        <5>2. NoRefusal(noteSaves', k) /\ Outstanding(noteSaves', k) = {}
          BY <5>1 DEF NoRefusal, Outstanding
        <5>3. list[k].note = ListedRow(lent, k).note
          BY <4>2, <4>3, <5>2 DEF NoteHolds, NoteShown
        <5>4. NoteHolds(noteSaves', k, list[k].note, list[k].note, latest[k], k \in failed')
          BY <5>1, <5>2, NothingOutstanding
        <5> QED
          BY <3>2, <5>3, <5>4 DEF RowHolds
      <4>4. CASE ~(Alone(r) /\ k \in failed)
        <5>1. (k \in failed') = (k \in failed)
          BY <1>1, <4>4
        <5> QED
          BY <3>2, <4>2, <5>1 DEF RowHolds
      <4> QED
        BY <4>3, <4>4
    <3>4. CASE k # l
      <4>1. SameNotes(noteSaves, noteSaves', k)
        BY <1>1, <3>4, OtherLoanOver
      <4>2. NoteHolds(noteSaves', k, list[k].note, ListedRow(lent, k).note, latest[k], k \in failed)
        BY <3>2, <4>1, NoteKept
      <4>3. (k \in failed') = (k \in failed)
        BY <1>1, <3>4
      <4> QED
        BY <3>2, <4>2, <4>3 DEF RowHolds
    <3> QED
      BY <3>3, <3>4
  <2> QED
    BY <1>1, <1>2, <1>4, <2>1 DEF ListHolds, ReloadHolds
<1> QED
  BY <1>3, <1>4

LEMMA AfterNoteFails ==
    ASSUME ListTypes, None \notin Loaned, NEW r \in Call, noteFails(r)
    PROVE  ListTypes' /\ (ListHolds => ListHolds')
<1> DEFINE l == noteSaves[r].loan
           back == IF latest[l] = noteSaves[r].id /\ noteSaves[r].fresh THEN noteSaves[r].previous ELSE list[l].note
<1>1. /\ noteSaves[r].phase \in {"saved", "refused"} /\ noteSaves' = [noteSaves EXCEPT ![r] = NoSave]
      /\ failed' = (IF Alone(r) THEN failed \ {l} ELSE failed \cup {l})
      /\ unseen' = (IF noteSaves[r].phase = "saved" \/ l \in failed THEN unseen \cup {l} ELSE unseen)
      /\ UNCHANGED <<lent, ownerPage, reload, latest, action>>
  BY DEF noteFails
<1>2. /\ noteSaves' \in [Call -> SaveRecord] /\ SavesNamed(noteSaves')
      /\ noteSaves'[r] = NoSave /\ \A q \in Call \ {r} : noteSaves'[q] = noteSaves[q]
      /\ NotesNumbered(noteSaves, latest) => NotesNumbered(noteSaves', latest)
  BY <1>1, SaveIsOver
<1>3. noteSaves[r].previous \in Text \cup {None} /\ noteSaves[r] \in SaveRecord /\ l \in Loaned
  <2>1. noteSaves[r] \in SaveRecord
    BY DEF ListTypes
  <2> QED
    BY <1>1, <2>1 DEF ListTypes, SaveRecord, SomeLoan, SavesNamed
<1>4. /\ list' \in [Loaned -> LoanRows] /\ \A k \in Loaned : k # l => list'[k] = list[k]
      /\ list'[l].note = back /\ list'[l].status = list[l].status /\ list'[l].accepted = list[l].accepted
  <2>1. list' = IF latest[l] = noteSaves[r].id /\ noteSaves[r].fresh
                THEN [list EXCEPT ![l].note = noteSaves[r].previous] ELSE list
    BY DEF noteFails, restoredNote
  <2>2. CASE latest[l] = noteSaves[r].id /\ noteSaves[r].fresh
    <3>1. list' = [list EXCEPT ![l].note = noteSaves[r].previous] /\ back = noteSaves[r].previous
      BY <2>1, <2>2
    <3> HIDE DEF l, back
    <3>2. list[l] \in LoanRows /\ list \in [Loaned -> LoanRows]
      BY <1>3 DEF ListTypes
    <3>3. [list[l] EXCEPT !.note = noteSaves[r].previous] \in LoanRows
      BY <1>3, <3>2 DEF LoanRows
    <3>4. list'[l] = [list[l] EXCEPT !.note = noteSaves[r].previous]
      BY <1>3, <3>1, <3>2
    <3>5. list' \in [Loaned -> LoanRows] /\ \A k \in Loaned : k # l => list'[k] = list[k]
      BY <1>3, <3>1, <3>2, <3>3
    <3> QED
      BY <3>1, <3>2, <3>4, <3>5 DEF LoanRows
  <2>3. CASE ~(latest[l] = noteSaves[r].id /\ noteSaves[r].fresh)
    BY <2>1, <2>3 DEF ListTypes
  <2> QED
    BY <2>2, <2>3
<1> HIDE DEF back
<1>5. ListTypes'
  BY <1>1, <1>2, <1>4 DEF ListTypes
<1>6. ASSUME ListHolds PROVE ListHolds'
  <2>1. RowsHold'
    <3>1. SUFFICES ASSUME NEW k \in Loaned, k \notin unseen'
          PROVE  RowHolds(noteSaves', k, list'[k], ListedRow(lent, k), latest[k], k \in failed')
      BY <1>1 DEF RowsHold
    <3>2. /\ SameRow(list[k], ListedRow(lent, k))
          /\ NoteHolds(noteSaves, k, list[k].note, ListedRow(lent, k).note, latest[k], k \in failed)
      BY <1>1, <1>6, <3>1 DEF ListHolds, RowsHold, RowHolds
    <3>3. CASE k = l
      <4>1. noteSaves[r].phase = "refused" /\ l \notin failed
        BY <1>1, <3>1, <3>3
      <4>2. /\ NoteShown(noteSaves, l, list[l].note, ListedRow(lent, l).note)
            /\ NotesRemember(noteSaves, l, ListedRow(lent, l).note, latest[l])
            /\ \A q \in Call : noteSaves[q].loan = l /\ noteSaves[q].phase = "sent" => noteSaves[q].fresh = TRUE
        BY <3>2, <3>3, <4>1 DEF NoteHolds
      <4>3. /\ \A q \in Call : q # r /\ noteSaves[q].loan = l => noteSaves[q].id # noteSaves[r].id
            /\ noteSaves[r].outrun = TRUE => noteSaves[r].id < latest[l]
        BY <1>6, <4>1 DEF ListHolds, NotesNumbered
      <4>4. noteSaves'[r].phase = "idle" /\ noteSaves'[r].loan = None /\ l # None /\ latest[l] \in Nat
            /\ noteSaves \in [Call -> SaveRecord] /\ noteSaves[r].loan = l
        BY <1>2, <1>3, BlankSave DEF ListTypes
      <4>5. back = IF latest[l] = noteSaves[r].id /\ noteSaves[r].fresh THEN noteSaves[r].previous ELSE list[l].note
        BY DEF back
      <4>7. l \notin failed' => \A q \in Call \ {r} : noteSaves[q].loan # l
        BY <1>1, <4>1 DEF Alone
      <4>6. NoteHolds(noteSaves', l, back, ListedRow(lent, l).note, latest[l], l \in failed')
        <5>1. \A q \in Call \ {r} : noteSaves'[q] = noteSaves[q]
          BY <1>2
        <5> HIDE DEF l
        <5> QED
          BY <1>3, <4>1, <4>2, <4>3, <4>4, <4>5, <4>7, <5>1, NoteIsRestored, ZenonT(60)
      <4>8. SameRow(list'[l], ListedRow(lent, l))
        BY <1>4, <3>2, <3>3 DEF SameRow
      <4> QED
        BY <1>4, <3>3, <4>6, <4>8 DEF RowHolds
    <3>4. CASE k # l
      <4>1. SameNotes(noteSaves, noteSaves', k)
        BY <1>1, <3>4, OtherLoanOver
      <4>2. NoteHolds(noteSaves', k, list[k].note, ListedRow(lent, k).note, latest[k], k \in failed)
        BY <3>2, <4>1, NoteKept
      <4>3. (k \in failed') = (k \in failed) /\ list'[k] = list[k]
        BY <1>1, <1>4, <3>4
      <4> QED
        BY <3>2, <4>2, <4>3 DEF RowHolds
    <3> QED
      BY <3>3, <3>4
  <2> QED
    BY <1>1, <1>2, <1>6, <2>1 DEF ListHolds, ReloadHolds
<1> QED
  BY <1>5, <1>6

\* The buttons of a row, and the list on its way.
LEMMA AfterButton ==
    ASSUME ListTypes, \/ listIsRead
                      \/ \E e \in Ends : actionAnswered(e) \/ actionFails(e) \/ \E l \in Loaned : runLoanAction(l, e)
    PROVE  ListTypes' /\ (ListHolds => ListHolds')
<1>1. UNCHANGED <<lent, ownerPage, list, noteSaves, latest, unseen, failed>>
  BY DEF runLoanAction, actionAnswered, actionFails, listIsRead
<1>2. Actions(action')
  <2>1. CASE listIsRead
    BY <2>1 DEF listIsRead, ListTypes
  <2>2. ASSUME NEW e \in Ends, actionAnswered(e) \/ actionFails(e) PROVE Actions(action')
    BY <2>2 DEF actionAnswered, actionFails, ListTypes, Actions, Progress, SomeLoan, NoAction
  <2>3. ASSUME NEW e \in Ends, NEW l \in Loaned, runLoanAction(l, e) PROVE Actions(action')
    BY <2>3 DEF runLoanAction, ListTypes, Actions, Progress, SomeLoan
  <2> QED
    BY <2>1, <2>2, <2>3
<1>3. \/ reload' = reload \/ reload' = [NoReload EXCEPT !.phase = "asked"]
      \/ reload' = [phase |-> "read", rows |-> ListedLoans, missed |-> {}]
  BY DEF runLoanAction, actionAnswered, actionFails, listIsRead
<1>4. [NoReload EXCEPT !.phase = "asked"] \in ListReload /\ [NoReload EXCEPT !.phase = "asked"].phase = "asked"
  BY BlankRow DEF NoReload, ListReload
<1>5. ListedLoans \in [Loaned -> LoanRows]
  BY ListedRows, ListedTypes DEF ListTypes
<1>6. reload' \in ListReload
  <2>1. [phase |-> "read", rows |-> ListedLoans, missed |-> {}] \in ListReload
    BY <1>5 DEF ListReload
  <2> QED
    BY <1>3, <1>4, <2>1 DEF ListTypes
<1>7. ListTypes'
  BY <1>1, <1>2, <1>6 DEF ListTypes
<1>8. ASSUME ListHolds PROVE ListHolds'
  <2>1. NotesNumbered(noteSaves', latest') /\ RowsHold'
    BY <1>1, <1>8 DEF ListHolds, RowsHold
  <2>2. ReloadHolds'
    <3>1. \A k \in Loaned : ListedLoans[k] = ListedRow(lent', k)
      BY <1>1, ListedRows
    <3>2. CASE reload' = reload
      BY <1>1, <1>8, <3>2 DEF ListHolds, ReloadHolds
    <3>3. CASE reload' = [NoReload EXCEPT !.phase = "asked"]
      BY <1>4, <3>3 DEF ReloadHolds
    <3>4. CASE reload' = [phase |-> "read", rows |-> ListedLoans, missed |-> {}]
      BY <3>1, <3>4 DEF ReloadHolds
    <3> QED
      BY <1>3, <3>2, <3>3, <3>4
  <2> QED
    BY <2>1, <2>2 DEF ListHolds
<1> QED
  BY <1>7, <1>8

\* The list has been read, or not; the notes on their way are in rows that are no longer there.
LEMMA AfterListIsShown ==
    ASSUME ListTypes, listIsShown \/ listFails
    PROVE  ListTypes' /\ (ListHolds => ListHolds')
<1> DEFINE none == [l \in Loaned |-> NoRow]
<1>1. /\ noteSaves' = [q \in Call |-> [noteSaves[q] EXCEPT !.fresh = FALSE]]
      /\ action' = [e \in Ends |-> IF action[e].phase = "refresh" THEN NoAction ELSE action[e]]
      /\ reload' = NoReload /\ UNCHANGED <<lent, ownerPage, latest, failed>>
  BY DEF listIsShown, listFails, Reloaded
<1>2. \/ list' = reload.rows /\ unseen' = reload.missed \cup Unsaved /\ reload.phase = "read"
      \/ list' = none /\ unseen' = Loaned
  BY DEF listIsShown, listFails, Reloaded
<1>3. NoReload \in ListReload /\ NoReload.phase = "none"
  BY BlankRow DEF NoReload, ListReload
<1>4. Actions(action')
  BY <1>1 DEF ListTypes, Actions, NoAction, Progress, SomeLoan
<1>5. /\ noteSaves' \in [Call -> SaveRecord]
      /\ \A q \in Call : /\ noteSaves'[q].loan = noteSaves[q].loan /\ noteSaves'[q].id = noteSaves[q].id
                         /\ noteSaves'[q].phase = noteSaves[q].phase /\ noteSaves'[q].outrun = noteSaves[q].outrun
                         /\ noteSaves'[q].fresh = FALSE
  BY <1>1 DEF ListTypes, SaveRecord
<1>6. list' \in [Loaned -> LoanRows]
  BY <1>2, BlankRow DEF ListTypes, ListReload
<1>7. SavesNamed(noteSaves')
  BY <1>5 DEF ListTypes, SavesNamed
<1>8. ListTypes'
  BY <1>1, <1>3, <1>4, <1>5, <1>6, <1>7 DEF ListTypes
<1>9. ASSUME ListHolds PROVE ListHolds'
  <2>1. NotesNumbered(noteSaves', latest')
    <3>1. NotesNumbered(noteSaves, latest)
      BY <1>9 DEF ListHolds
    <3>2. NotesNumbered(noteSaves', latest)
      BY <1>5, <3>1 DEF NotesNumbered
    <3> QED
      BY <1>1, <3>2
  <2>2. RowsHold'
    <3>1. SUFFICES ASSUME NEW k \in Loaned, k \notin unseen'
          PROVE  RowHolds(noteSaves', k, list'[k], ListedRow(lent, k), latest[k], k \in failed')
      BY <1>1 DEF RowsHold
    <3>2. list' = reload.rows /\ k \notin reload.missed /\ k \notin Unsaved /\ reload.phase = "read"
      BY <1>2, <3>1
    <3>3. list'[k] = ListedRow(lent, k)
      BY <1>9, <3>1, <3>2 DEF ListHolds, ReloadHolds
    <3>4. Outstanding(noteSaves', k) = {}
      BY <1>5 DEF Outstanding
    <3>5. \A q \in Call : noteSaves'[q].loan = k => noteSaves'[q].phase # "sent"
      BY <1>5, <3>2 DEF Unsaved
    <3>6. NoteHolds(noteSaves', k, list'[k].note, list'[k].note, latest[k], k \in failed')
      BY <3>4, <3>5, NothingOutstanding
    <3> QED
      BY <3>3, <3>6 DEF RowHolds, SameRow
  <2>3. ReloadHolds'
    BY <1>1, <1>3 DEF ReloadHolds
  <2> QED
    BY <2>1, <2>2, <2>3 DEF ListHolds
<1> QED
  BY <1>8, <1>9

\* The page of a book leaves the list as it is; there is none.
LEMMA AfterBookStep ==
    ASSUME ListTypes, DialogInv, BookStep
    PROVE  ListTypes'
<1> DEFINE sameRest == UNCHANGED <<lent, ownerPage, ownerVars>>
<1>1. sameRest => ListTypes'
  BY DEF ListTypes, ownerVars
<1>2. CASE openLending \/ closeLending \/ lookUp
  <2>1. openLending => sameRest
    BY DEF openLending
  <2>2. closeLending => sameRest
    BY DEF closeLending
  <2>3. lookUp => sameRest
    BY DEF lookUp
  <2> QED
    BY <1>1, <1>2, <2>1, <2>2, <2>3
<1>10. ASSUME NEW n \in Text \cup {None}, typeName(n) \/ selectBorrowerSuggestion(n) PROVE ListTypes'
  <2>1. sameRest
    BY <1>10 DEF typeName, selectBorrowerSuggestion
  <2> QED
    BY <1>1, <2>1
<1>11. ASSUME NEW k \in lookups, suggestionsArrive(k) PROVE ListTypes'
  <2>1. sameRest
    BY <1>11 DEF suggestionsArrive
  <2> QED
    BY <1>1, <2>1
<1>3. CASE lendBook \/ loanAnswered \/ lendingFails \/ resendEmail \/ inviteIsResent \/ resendAnswered
  BY <1>3 DEF lendBook, loanAnswered, lendingFails, resendEmail, inviteIsResent, resendAnswered, ListTypes, ownerVars
<1>4. ASSUME NEW l \in Loaned, NEW row \in LoanRows, lent' = [lent EXCEPT ![l] = row], UNCHANGED <<ownerPage, ownerVars>>
      PROVE  ListTypes'
  BY <1>4 DEF ListTypes, ownerVars
<1>5. \A l \in Loaned, n \in Text \cup {None} :
         /\ [lent[l] EXCEPT !.status = "active"] \in LoanRows /\ [lent[l] EXCEPT !.note = n] \in LoanRows
         /\ EndedRow(l, "returned") \in LoanRows
  <2>1. \A row \in LoanRows, n \in Text \cup {None} :
          [row EXCEPT !.status = "active"] \in LoanRows /\ [row EXCEPT !.note = n] \in LoanRows
    BY DEF LoanRows
  <2> QED
    BY <2>1, EndedTypes DEF ListTypes, Ends
<1>6. CASE loanIsCreated
  <2>1. UNCHANGED <<ownerPage, ownerVars>>
    BY <1>6 DEF loanIsCreated
  <2>2. CASE lent' = lent
    BY <2>1, <2>2 DEF ListTypes, ownerVars
  <2>3. CASE \E l \in Loaned : lent' = [lent EXCEPT ![l].status = "active"]
    <3>1. PICK l \in Loaned : lent' = [lent EXCEPT ![l] = [lent[l] EXCEPT !.status = "active"]]
      BY <2>3
    <3> QED
      BY <1>4, <1>5, <2>1, <3>1
  <2> QED
    BY <1>6, <2>2, <2>3 DEF loanIsCreated
<1>7. lendDialog.shown # None => lendDialog.shown \in Loaned
  BY DEF DialogInv, DialogTypes, Dialog, SomeLoan
<1>8. CASE returnActiveLoan
  <2>1. UNCHANGED <<ownerPage, ownerVars>> /\ lendDialog.shown \in Loaned
    BY <1>7, <1>8 DEF returnActiveLoan
  <2>2. lent' = [lent EXCEPT ![lendDialog.shown] = EndedRow(lendDialog.shown, "returned")]
    BY <1>8 DEF returnActiveLoan
  <2> QED
    BY <1>4, <1>5, <2>1, <2>2
<1>9. CASE \E n \in Text \cup {None} : saveNoteOfBook(n)
  <2>1. PICK n \in Text \cup {None} : saveNoteOfBook(n)
    BY <1>9
  <2>2. UNCHANGED <<ownerPage, ownerVars>> /\ lendDialog.shown \in Loaned
    BY <1>7, <2>1 DEF saveNoteOfBook
  <2>3. lent' = [lent EXCEPT ![lendDialog.shown] = [lent[lendDialog.shown] EXCEPT !.note = n]]
    BY <2>1 DEF saveNoteOfBook, Noted
  <2> QED
    BY <1>4, <1>5, <2>2, <2>3
<1> QED
  BY <1>2, <1>3, <1>6, <1>8, <1>9, <1>10, <1>11 DEF BookStep

(***************************** all of it ********************************)

LEMMA ListMoves == DialogInv /\ ListInv /\ [LoanPagesNext]_loanVars => ListInv'
<1> SUFFICES ASSUME DialogInv, ListInv, [LoanPagesNext]_loanVars PROVE ListInv'
  OBVIOUS
<1>1. ListTypes /\ None \notin Loaned
  BY LoanedAssumption DEF ListInv
<1>2. CASE BookStep
  BY <1>1, <1>2, AfterBookStep, BookStepsOnBook DEF ListInv
<1>3. CASE ListStep \/ \E l \in Loaned : acceptBook(l)
  <2>1. ListTypes' /\ (ListHolds => ListHolds')
    <3>1. ASSUME \E r \in Call, l \in Loaned, n \in Text \cup {None} : saveLoanNote(r, l, n)
          PROVE ListTypes' /\ (ListHolds => ListHolds')
      BY <1>1, <3>1, AfterSaveNote
    <3>2. ASSUME \E r \in Call : noteIsSaved(r) \/ noteIsRefused(r) \/ noteAnswered(r) \/ noteFails(r)
          PROVE ListTypes' /\ (ListHolds => ListHolds')
      BY <1>1, <3>2, AfterNoteIsSaved, AfterNoteIsRefused, AfterNoteAnswered, AfterNoteFails
    <3>3. ASSUME (\E l \in Loaned : endedElsewhere(l)) \/ (\E l \in Loaned : acceptBook(l))
          PROVE ListTypes' /\ (ListHolds => ListHolds')
      BY <1>1, <3>3, AfterEndedElsewhere
    <3>4. ASSUME listIsShown \/ listFails
          PROVE ListTypes' /\ (ListHolds => ListHolds')
      BY <1>1, <3>4, AfterListIsShown
    <3>5. ASSUME listIsRead \/ (\E e \in Ends : actionAnswered(e) \/ actionFails(e)) \/ (\E l \in Loaned, e \in Ends : runLoanAction(l, e))
          PROVE ListTypes' /\ (ListHolds => ListHolds')
      BY <1>1, <3>5, AfterButton
    <3>6. ASSUME \E e \in Ends : loanEnds(e)
          PROVE ListTypes' /\ (ListHolds => ListHolds')
      BY <1>1, <3>6, AfterLoanEnds
    <3> QED
      BY <1>3, <3>1, <3>2, <3>3, <3>4, <3>5, <3>6 DEF ListStep
  <2>2. ownerPage' = ownerPage
    BY <1>3 DEF ListStep, endedElsewhere, saveLoanNote, noteIsSaved, noteIsRefused, noteAnswered, noteFails,
       runLoanAction, loanEnds, actionAnswered, actionFails, listIsRead, listIsShown, listFails, acceptBook
  <2> QED
    BY <2>1, <2>2 DEF ListInv, ListHolds
<1>4. CASE UNCHANGED loanVars
  BY <1>4 DEF ListInv, ListTypes, NotesNumbered, RowsHold, ReloadHolds, loanVars
<1> QED
  BY <1>2, <1>3, <1>4 DEF LoanPagesNext

LEMMA ListBegins == LoanPagesInit => ListInv
<1> SUFFICES ASSUME LoanPagesInit PROVE ListInv
  OBVIOUS
<1>1. /\ list = lent /\ reload = NoReload /\ noteSaves = [r \in Call |-> NoSave] /\ latest = [l \in Loaned |-> 0]
      /\ action = [e \in Ends |-> NoAction] /\ ownerPage \in {"list", "book"}
  BY DEF LoanPagesInit
<1>2. lent \in [Loaned -> LoanRows]
  <2>1. {[NoRow EXCEPT !.status = "active"], [NoRow EXCEPT !.status = "returned"]} \subseteq LoanRows
    BY DEF NoRow, LoanRows, Ends
  <2> QED
    BY <2>1, BlankRow DEF LoanPagesInit
<1>3. ownerPage = "list" => \A l \in Loaned : lent[l].status \in {"active", "returned"}
  BY DEF LoanPagesInit, NoRow
<1>4. NoReload \in ListReload /\ NoReload.phase = "none"
  BY BlankRow DEF NoReload, ListReload
<1>5. Actions(action)
  BY <1>1, NoLoanIsNone DEF Actions
<1>6. ListTypes
  BY <1>1, <1>2, <1>4, <1>5, BlankSave DEF ListTypes, SavesNamed
<1>7. \A r \in Call : noteSaves[r].phase = "idle" /\ noteSaves[r].loan = None
  BY <1>1, BlankSave
<1>8. ASSUME ownerPage = "list" PROVE NotesNumbered(noteSaves, latest) /\ RowsHold /\ ReloadHolds
  <2>1. NotesNumbered(noteSaves, latest)
    BY <1>7 DEF NotesNumbered
  <2>2. ASSUME NEW l \in Loaned
        PROVE  RowHolds(noteSaves, l, list[l], ListedRow(lent, l), latest[l], l \in failed)
    <3>1. Outstanding(noteSaves, l) = {}
      BY <1>7 DEF Outstanding
    <3>2. ListedRow(lent, l) = list[l]
      BY <1>1, <1>3, <1>8 DEF ListedRow
    <3>3. NoteHolds(noteSaves, l, list[l].note, list[l].note, latest[l], l \in failed)
      BY <1>7, <3>1, NothingOutstanding
    <3> QED
      BY <3>2, <3>3 DEF RowHolds, SameRow
  <2> QED
    BY <1>1, <1>4, <2>1, <2>2 DEF RowsHold, ReloadHolds
<1> QED
  BY <1>6, <1>8 DEF ListInv

LEMMA ListTells == DialogInv /\ ListInv => LoanPagesTellTheTruth
<1> SUFFICES ASSUME DialogInv, ListInv PROVE ListShowsTheLoans /\ DialogIsCurrent
  BY DEF LoanPagesTellTheTruth
<1>1. ASSUME ownerPage = "list", ListSettled, NEW l \in Loaned, l \notin unseen PROVE list[l] = ListedLoans[l]
  <2>1. RowHolds(noteSaves, l, list[l], ListedRow(lent, l), latest[l], l \in failed)
    BY <1>1 DEF ListInv, RowsHold
  <2>2. NoRefusal(noteSaves, l) /\ Outstanding(noteSaves, l) = {}
    BY <1>1 DEF ListSettled, NoRefusal, Outstanding
  <2>3. SameRow(list[l], ListedRow(lent, l)) /\ list[l].note = ListedRow(lent, l).note
    BY <2>1, <2>2 DEF RowHolds, NoteHolds, NoteShown
  <2>4. list[l] \in LoanRows /\ ListedRow(lent, l) \in LoanRows
    BY ListedTypes DEF ListInv, ListTypes
  <2>5. list[l] = ListedRow(lent, l)
    BY <2>3, <2>4 DEF SameRow, LoanRows
  <2> QED
    BY <2>5, ListedRows
<1>2. DialogIsCurrent
  BY DEF DialogInv, NameInField, LinkInDialog, DialogIsCurrent
<1> QED
  BY <1>1, <1>2 DEF ListShowsTheLoans

\* Notes are shown before they are saved, any number of them may be on its way, and each may be
\* saved, refused or left without an answer, in any order and while the list is loaded again:
\* once all of it has been answered the list shows what is stored, and the dialog the
\* suggestions and the delivery that belong to what it shows, for any loans and notes.
THEOREM LoanPagesAreTrue == LoanPagesSpec => []LoanPagesTellTheTruth
<1>1. LoanPagesInit => DialogInv /\ ListInv
  BY DialogBegins, ListBegins
<1>2. DialogInv /\ ListInv /\ [LoanPagesNext]_loanVars => (DialogInv /\ ListInv)'
  BY DialogMoves, ListMoves
<1>3. DialogInv /\ ListInv => LoanPagesTellTheTruth
  BY ListTells
<1> QED
  BY <1>1, <1>2, <1>3, PTL DEF LoanPagesSpec
=============================================================================
