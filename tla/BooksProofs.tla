----------------------------- MODULE BooksProofs -----------------------------
(* That a shared book keeps its authors and a reader one copy of it, that  *)
(* a copy's columns and its page agree, that tags in use are not           *)
(* collected, and that an export restores the library: for any readers,    *)
(* authors, names, copies and concurrent calls.                            *)
EXTENDS Catalogue, PersonalCopy, Tags, LibraryTransfer, FiniteSetTheorems, SequenceTheorems, TLAPS

-----------------------------------------------------------------------------
(****************************** the catalogue ******************************)

CatalogueTypes ==
    /\ shared \in SharedRow \cup {None}
    /\ copies \in [Reader -> 0..1]
    /\ manual \in SUBSET Reader
    /\ catalogueCalls \in [Call -> CatalogueRequest \cup {None}]
    /\ catalogueOps \in Nat

\* the steps that follow on a shared book that was found or written
WithBook ==
    {"answer", "authors", "tags", "hasTags", "hasAuthors", "hydrate", "enrich", "replace", "owned", "copy"}

\* what a call counts on at its step
Fits(call, row) ==
    /\ call.op = "enrich" \/ call.at \in WithBook => row # None
    /\ call.at = "enrich" => call.op = "enrich"
    /\ call.at = "answer" => row.authors # {}
    /\ call.at = "authors" => call.links # {} /\ call.then \in {"answer", "tags"}
    /\ call.at = "replace" => call.authors # {}
    /\ call.op = "add" => call.reader \in Reader
    /\ call.at \in {"owned", "copy"} => call.op = "add"

CatalogueInv ==
    /\ CatalogueTypes
    /\ \A c \in Call : catalogueCalls[c] # None => Fits(catalogueCalls[c], shared)

\* What a step of the call c leaves: the book keeps its authors, the call fits.
AuthorsKept ==
    /\ shared' \in SharedRow \cup {None}
    /\ shared # None =>
         /\ shared' # None
         /\ shared.authors \ {Unknown} \subseteq shared'.authors
         /\ shared.authors # {} => shared'.authors # {}
CallLeft(c) ==
    /\ catalogueCalls' \in [Call -> CatalogueRequest \cup {None}]
    /\ \A d \in Call \ {c} : catalogueCalls'[d] = catalogueCalls[d]
    /\ catalogueCalls'[c] # None => Fits(catalogueCalls'[c], shared')
CopiesLeft ==
    copies' \in [Reader -> 0..1] /\ manual' \in SUBSET Reader /\ catalogueOps' \in Nat

LEMMA CatalogueNulls == None \notin SharedRow /\ None \notin CatalogueRequest /\ None \notin Reader
BY CatalogueAssumption

LEMMA SharedFields ==
    /\ \A row \in SharedRow : row.authors \subseteq Author \cup {Unknown} /\ row.tags \in BOOLEAN
    /\ \A names \in SUBSET (Author \cup {Unknown}), tags \in BOOLEAN :
         /\ [authors |-> names, tags |-> tags] \in SharedRow
         /\ [authors |-> names, tags |-> tags].authors = names
    /\ \A row \in SharedRow, names \in SUBSET (Author \cup {Unknown}) :
         /\ [row EXCEPT !.authors = names] \in SharedRow
         /\ [row EXCEPT !.authors = names].authors = names
    /\ \A row \in SharedRow, tags \in BOOLEAN :
         /\ [row EXCEPT !.tags = tags] \in SharedRow
         /\ [row EXCEPT !.tags = tags].authors = row.authors
BY DEF SharedRow

LEMMA RequestFields ==
    \A call \in CatalogueRequest :
        /\ call.op \in {"lookup", "add", "bulk", "enrich"} /\ call.at \in CatalogueStep
        /\ call.reader \in Reader \cup {None} /\ call.authors \in SUBSET Author
        /\ call.links \in SUBSET (Author \cup {Unknown})
        /\ call.then \in {"answer", "tags", "authors", "end", None}
BY DEF CatalogueRequest

LEMMA RequestMoves ==
    ASSUME NEW call \in CatalogueRequest, NEW at \in CatalogueStep
    PROVE  LET m == [call EXCEPT !.at = at] IN
           /\ m \in CatalogueRequest
           /\ m.at = at /\ m.op = call.op /\ m.reader = call.reader /\ m.authors = call.authors
           /\ m.links = call.links /\ m.then = call.then
BY DEF CatalogueRequest

\* The invariant survives what a step leaves.
LEMMA CatalogueStepKeeps ==
    ASSUME CatalogueInv, NEW c \in Call, AuthorsKept, CallLeft(c), CopiesLeft
    PROVE  CatalogueInv'
<1> USE CatalogueNulls
<1>1. CatalogueTypes'
  BY DEF CatalogueTypes, AuthorsKept, CallLeft, CopiesLeft
<1>2. ASSUME NEW d \in Call, catalogueCalls'[d] # None
      PROVE  Fits(catalogueCalls'[d], shared')
  <2>1. CASE d = c
    BY <1>2, <2>1 DEF CallLeft
  <2>2. CASE d # c
    <3>1. catalogueCalls'[d] = catalogueCalls[d] /\ Fits(catalogueCalls[d], shared)
      BY <1>2, <2>2 DEF CallLeft, CatalogueInv
    <3> QED
      BY <3>1 DEF Fits, AuthorsKept, WithBook
  <2> QED
    BY <2>1, <2>2
<1> QED
  BY <1>1, <1>2 DEF CatalogueInv

\* What a call that is at a step knows.
LEMMA AtStep ==
    ASSUME CatalogueInv, NEW c \in Call, catalogueCalls[c] # None
    PROVE  /\ catalogueCalls[c] \in CatalogueRequest /\ Fits(catalogueCalls[c], shared)
           /\ shared # None => shared \in SharedRow
BY DEF CatalogueInv, CatalogueTypes

\* A step that leaves the tables alone.
LEMMA TablesStay ==
    ASSUME CatalogueInv, UNCHANGED catalogueTables, catalogueOps' \in Nat
    PROVE  AuthorsKept /\ CopiesLeft
BY DEF CatalogueInv, CatalogueTypes, catalogueTables, AuthorsKept, CopiesLeft

\* A call that ends, moves on, or goes on as m.
LEMMA Ends ==
    ASSUME CatalogueInv, NEW c \in Call, CallEnds(c)
    PROVE  CallLeft(c) /\ catalogueOps' \in Nat
BY DEF CatalogueInv, CatalogueTypes, CallEnds, CallGoes, CallLeft

LEMMA Goes ==
    ASSUME CatalogueInv, NEW c \in Call, NEW m \in CatalogueRequest, NEW row,
           catalogueCalls' = [catalogueCalls EXCEPT ![c] = m], UNCHANGED catalogueOps,
           shared' = row, Fits(m, row)
    PROVE  CallLeft(c) /\ catalogueOps' \in Nat
BY DEF CatalogueInv, CatalogueTypes, CallLeft

LEMMA Moves ==
    ASSUME CatalogueInv, NEW c \in Call, catalogueCalls[c] # None,
           NEW at \in CatalogueStep, CallMoves(c, at), NEW row, shared' = row,
           Fits([catalogueCalls[c] EXCEPT !.at = at], row)
    PROVE  CallLeft(c) /\ catalogueOps' \in Nat
BY AtStep, RequestMoves, Goes DEF CallMoves, CallGoes

-----------------------------------------------------------------------------
(* The steps, one by one                                                   *)

Left(c) == AuthorsKept /\ CallLeft(c) /\ CopiesLeft

LEMMA CatalogueCallKeeps ==
    ASSUME CatalogueInv, NEW c \in Call, NEW op \in {"lookup", "add", "bulk", "enrich"},
           NEW at \in {"find", "fetch"}, NEW reader \in Reader \cup {None},
           CatalogueCall(c, op, at, reader), op = "enrich" => shared # None, op = "add" => reader \in Reader
    PROVE  Left(c)
<1> DEFINE m == [op |-> op, at |-> at, reader |-> reader, authors |-> {}, links |-> {}, then |-> None]
<1>1. m \in CatalogueRequest
  BY DEF CatalogueRequest, CatalogueStep
<1>2. m.op = op /\ m.at = at /\ m.reader = reader
  OBVIOUS
<1>3. Fits(m, shared)
  BY <1>2 DEF Fits, WithBook
<1>4. catalogueCalls' = [catalogueCalls EXCEPT ![c] = m] /\ catalogueOps' \in Nat
  BY DEF CatalogueCall, CatalogueInv, CatalogueTypes
<1> HIDE DEF m
<1>5. UNCHANGED catalogueTables
  BY DEF CatalogueCall
<1>6. CallLeft(c)
  BY <1>1, <1>3, <1>4, <1>5 DEF CallLeft, CatalogueInv, CatalogueTypes, catalogueTables
<1> QED
  BY <1>4, <1>5, <1>6, TablesStay DEF Left

LEMMA RequestsKeep ==
    ASSUME CatalogueInv, NEW c \in Call,
           lookupBook(c) \/ addBookToLibrary(c) \/ bulkLookupBooks(c) \/ enrichOpenLibraryBook(c)
    PROVE  Left(c)
<1> USE CatalogueNulls
<1>1. CASE lookupBook(c)
  BY <1>1, CatalogueCallKeeps DEF lookupBook
<1>2. CASE addBookToLibrary(c)
  BY <1>2, CatalogueCallKeeps DEF addBookToLibrary
<1>3. CASE bulkLookupBooks(c)
  BY <1>3, CatalogueCallKeeps DEF bulkLookupBooks
<1>4. CASE enrichOpenLibraryBook(c)
  BY <1>4, CatalogueCallKeeps DEF enrichOpenLibraryBook
<1> QED
  BY <1>1, <1>2, <1>3, <1>4

\* A step that ends or moves the call and leaves the tables.
LEMMA EndKeeps ==
    ASSUME CatalogueInv, NEW c \in Call, CallEnds(c), UNCHANGED catalogueTables
    PROVE  Left(c)
BY Ends, TablesStay DEF Left

LEMMA MoveKeeps ==
    ASSUME CatalogueInv, NEW c \in Call, catalogueCalls[c] # None, NEW at \in CatalogueStep,
           CallMoves(c, at), UNCHANGED catalogueTables, Fits([catalogueCalls[c] EXCEPT !.at = at], shared)
    PROVE  Left(c)
<1>1. shared' = shared
  BY DEF catalogueTables
<1>2. CallLeft(c) /\ catalogueOps' \in Nat
  BY <1>1, Moves
<1> QED
  BY <1>2, TablesStay DEF Left

\* The call as it moves on to a step it has the book for.
LEMMA MovedFits ==
    ASSUME NEW call \in CatalogueRequest, NEW row, NEW new, Fits(call, row), NEW at \in CatalogueStep,
           row # None => new # None,
           at \in WithBook => new # None,
           at = "enrich" => call.op = "enrich",
           at = "answer" => new.authors # {},
           at # "authors",
           at = "replace" => call.authors # {},
           at \in {"owned", "copy"} => call.op = "add"
    PROVE  Fits([call EXCEPT !.at = at], new)
<1> DEFINE m == [call EXCEPT !.at = at]
<1>1. /\ m.at = at /\ m.op = call.op /\ m.reader = call.reader /\ m.authors = call.authors
  BY RequestMoves
<1> HIDE DEF m
<1>2. Fits(m, new)
  BY <1>1 DEF Fits
<1> QED
  BY <1>2 DEF m

LEMMA CallFailsKeeps ==
    ASSUME CatalogueInv, NEW c \in Call, CallFails(c)
    PROVE  Left(c)
BY EndKeeps DEF CallFails

LEMMA findByIsbnKeeps ==
    ASSUME CatalogueInv, NEW c \in Call, findByIsbn(c)
    PROVE  Left(c)
<1> DEFINE call == catalogueCalls[c]
<1>1. /\ call # None /\ call \in CatalogueRequest /\ Fits(call, shared) /\ UNCHANGED catalogueTables
  BY AtStep DEF findByIsbn, CallAt
<1>2. CASE CallEnds(c)
  BY <1>1, <1>2, EndKeeps
<1>3. CASE shared = None /\ CallMoves(c, "fetch")
  <2>1. "fetch" \in CatalogueStep /\ "fetch" \notin WithBook
    BY DEF CatalogueStep, WithBook
  <2>2. Fits([call EXCEPT !.at = "fetch"], shared)
    BY <1>1, <2>1, MovedFits
  <2> QED
    BY <1>1, <1>3, <2>1, <2>2, MoveKeeps
<1>4. CASE shared # None /\ call.op = "add" /\ CallMoves(c, "owned")
  <2>1. "owned" \in CatalogueStep
    BY DEF CatalogueStep
  <2>2. Fits([call EXCEPT !.at = "owned"], shared)
    BY <1>1, <1>4, <2>1, MovedFits
  <2> QED
    BY <1>1, <1>4, <2>1, <2>2, MoveKeeps
<1> QED
  BY <1>2, <1>3, <1>4 DEF findByIsbn

LEMMA FetchKeeps ==
    ASSUME CatalogueInv, NEW c \in Call, Fetch(c)
    PROVE  Left(c)
<1> DEFINE call == catalogueCalls[c]
<1>1. /\ call # None /\ call \in CatalogueRequest /\ Fits(call, shared) /\ UNCHANGED catalogueTables
      /\ call.at = "fetch"
  BY AtStep DEF Fetch, CallAt
<1>2. PICK answer \in Answers :
        CallGoes(c, [call EXCEPT !.authors = answer,
                                 !.at = CASE call.op = "bulk" -> "ensure"
                                          [] call.op = "enrich" -> "enrich"
                                          [] OTHER -> "core"])
  BY DEF Fetch
<1> DEFINE at == CASE call.op = "bulk" -> "ensure" [] call.op = "enrich" -> "enrich" [] OTHER -> "core"
<1> DEFINE m == [call EXCEPT !.authors = answer, !.at = at]
<1>3. answer \in SUBSET Author
  BY DEF Answers
<1>4. at \in {"ensure", "enrich", "core"} /\ (at = "enrich" => call.op = "enrich")
  OBVIOUS
<1>5. at \in CatalogueStep /\ (at \in WithBook => at = "enrich") /\ at \notin {"answer", "authors", "replace"}
  BY <1>4 DEF CatalogueStep, WithBook
<1> HIDE DEF at
<1>6. /\ m \in CatalogueRequest
      /\ m.at = at /\ m.op = call.op /\ m.reader = call.reader
  BY <1>1, <1>3, <1>5 DEF CatalogueRequest
<1>7. CallGoes(c, m)
  BY <1>2 DEF at
<1> HIDE DEF m
<1>8. Fits(m, shared)
  BY <1>1, <1>4, <1>5, <1>6 DEF Fits
<1>9. shared' = shared
  BY <1>1 DEF catalogueTables
<1>10. CallLeft(c) /\ catalogueOps' \in Nat
  BY <1>6, <1>7, <1>8, <1>9, Goes DEF CallGoes
<1> QED
  BY <1>1, <1>10, TablesStay DEF Left

LEMMA NamesAreThere ==
    ASSUME NEW call \in CatalogueRequest
    PROVE  NamesOf(call) \in SUBSET (Author \cup {Unknown}) /\ NamesOf(call) # {}
BY RequestFields DEF NamesOf

\* A call that begins to link the authors.
LEMMA SetAuthorsLeaves ==
    ASSUME CatalogueInv, NEW c \in Call, catalogueCalls[c] # None, NEW then \in {"answer", "tags"},
           SetAuthors(c, then), NEW row, shared' = row, row # None
    PROVE  CallLeft(c) /\ catalogueOps' \in Nat
<1> DEFINE call == catalogueCalls[c]
           m == [call EXCEPT !.at = "authors", !.links = NamesOf(call), !.then = then]
<1>1. call \in CatalogueRequest /\ Fits(call, shared)
  BY AtStep
<1>2. /\ m \in CatalogueRequest
      /\ m.at = "authors" /\ m.op = call.op /\ m.reader = call.reader
      /\ m.links = NamesOf(call) /\ m.then = then
  BY <1>1, NamesAreThere DEF CatalogueRequest, CatalogueStep
<1>3. CallGoes(c, m)
  BY DEF SetAuthors
<1> HIDE DEF m
<1>4. Fits(m, row)
  BY <1>1, <1>2, NamesAreThere DEF Fits
<1> QED
  BY <1>2, <1>3, <1>4, Goes DEF CallGoes

LEMMA setBookAuthorsKeeps ==
    ASSUME CatalogueInv, NEW c \in Call, setBookAuthors(c)
    PROVE  Left(c)
<1> USE CatalogueNulls
<1> DEFINE call == catalogueCalls[c]
<1>1. /\ call # None /\ call \in CatalogueRequest /\ Fits(call, shared) /\ call.at = "authors"
      /\ UNCHANGED <<copies, manual>>
  BY AtStep DEF setBookAuthors, CallAt
<1>2. PICK a \in call.links :
        /\ shared' = [shared EXCEPT !.authors = shared.authors \cup {a}]
        /\ CallGoes(c, [call EXCEPT !.links = call.links \ {a},
                                    !.at = IF call.links = {a} THEN call.then ELSE call.at])
  BY DEF setBookAuthors
<1> DEFINE m == [call EXCEPT !.links = call.links \ {a},
                             !.at = IF call.links = {a} THEN call.then ELSE call.at]
           names == shared.authors \cup {a}
<1>3. shared \in SharedRow /\ shared # None /\ call.then \in {"answer", "tags"}
  BY <1>1, AtStep DEF Fits, WithBook
<1>4. names \in SUBSET (Author \cup {Unknown}) /\ names # {}
  BY <1>1, <1>3, SharedFields, RequestFields
<1>5. shared' \in SharedRow /\ shared'.authors = names
  BY <1>2, <1>3, <1>4, SharedFields
<1>6. AuthorsKept
  BY <1>5 DEF AuthorsKept
<1>7. /\ m \in CatalogueRequest /\ m.op = call.op /\ m.reader = call.reader
      /\ m.links = call.links \ {a} /\ m.then = call.then
      /\ m.at = IF call.links = {a} THEN call.then ELSE "authors"
  BY <1>1, <1>3 DEF CatalogueRequest, CatalogueStep
<1>8. CallGoes(c, m)
  BY <1>2
<1>9. call.links # {a} => call.links \ {a} # {}
  OBVIOUS
<1> HIDE DEF m
<1>10. Fits(m, shared')
  BY <1>1, <1>3, <1>4, <1>5, <1>7, <1>9 DEF Fits
<1>11. CallLeft(c) /\ catalogueOps' \in Nat
  BY <1>7, <1>8, <1>10, Goes DEF CallGoes
<1> QED
  BY <1>1, <1>6, <1>11 DEF Left, CopiesLeft, CatalogueInv, CatalogueTypes

\* Tags are new, authors are not.
LEMMA TagsHydrated ==
    ASSUME CatalogueInv, shared # None,
           \E tags \in {shared.tags, TRUE} : shared' = [shared EXCEPT !.tags = tags]
    PROVE  AuthorsKept /\ shared' # None /\ shared'.authors = shared.authors
<1> USE CatalogueNulls
<1>1. shared \in SharedRow
  BY DEF CatalogueInv, CatalogueTypes
<1>2. PICK tags \in BOOLEAN : shared' = [shared EXCEPT !.tags = tags]
  BY <1>1, SharedFields
<1>3. shared' \in SharedRow /\ shared'.authors = shared.authors
  BY <1>1, <1>2, SharedFields
<1> QED
  BY <1>3 DEF AuthorsKept

LEMMA hydrateTagsKeeps ==
    ASSUME CatalogueInv, NEW c \in Call, hydrateTags(c)
    PROVE  Left(c)
<1>1. shared # None
  BY AtStep DEF hydrateTags, CallAt, Fits, WithBook
<1>2. AuthorsKept
  BY <1>1, TagsHydrated DEF hydrateTags
<1>3. CallLeft(c) /\ catalogueOps' \in Nat
  BY Ends DEF hydrateTags
<1> QED
  BY <1>2, <1>3 DEF Left, CopiesLeft, CatalogueInv, CatalogueTypes, hydrateTags

LEMMA FindExistingKeeps ==
    ASSUME CatalogueInv, NEW c \in Call, FindExisting(c)
    PROVE  Left(c)
<1> DEFINE call == catalogueCalls[c]
<1>1. /\ call # None /\ call \in CatalogueRequest /\ Fits(call, shared) /\ UNCHANGED catalogueTables
  BY AtStep DEF FindExisting, CallAt
<1>2. "insert" \in CatalogueStep /\ "insert" \notin WithBook /\ "answer" \in CatalogueStep
  BY DEF CatalogueStep, WithBook
<1>3. CASE shared = None /\ CallMoves(c, "insert")
  <2>1. Fits([call EXCEPT !.at = "insert"], shared)
    BY <1>1, <1>2, MovedFits
  <2> QED
    BY <1>1, <1>2, <1>3, <2>1, MoveKeeps
<1>4. CASE shared # None /\ SetAuthors(c, "answer")
  <2>1. shared' = shared
    BY <1>1 DEF catalogueTables
  <2>2. CallLeft(c) /\ catalogueOps' \in Nat
    BY <1>1, <1>4, <2>1, SetAuthorsLeaves
  <2> QED
    BY <1>1, <2>2, TablesStay DEF Left
<1>5. CASE shared # None /\ shared.authors # {} /\ CallMoves(c, "answer")
  <2>1. Fits([call EXCEPT !.at = "answer"], shared)
    BY <1>1, <1>2, <1>5, MovedFits
  <2> QED
    BY <1>1, <1>2, <1>5, <2>1, MoveKeeps
<1> QED
  BY <1>3, <1>4, <1>5 DEF FindExisting, LacksAuthors

LEMMA createCoreOpenLibraryBookKeeps ==
    ASSUME CatalogueInv, NEW c \in Call, createCoreOpenLibraryBook(c)
    PROVE  Left(c)
<1> USE CatalogueNulls
<1> DEFINE call == catalogueCalls[c]
           names == NamesOf(call)
<1>1. /\ call # None /\ call \in CatalogueRequest /\ Fits(call, shared) /\ UNCHANGED <<copies, manual>>
      /\ CallMoves(c, "answer")
  BY AtStep DEF createCoreOpenLibraryBook, CallAt
<1>2. shared' = IF shared = None THEN [authors |-> names, tags |-> FALSE]
                ELSE [shared EXCEPT !.authors = shared.authors \cup names]
  BY DEF createCoreOpenLibraryBook
<1>3. names \in SUBSET (Author \cup {Unknown}) /\ names # {}
  BY <1>1, NamesAreThere
<1> HIDE DEF names
<1>4. CASE shared = None
  <2>1. shared' \in SharedRow /\ shared'.authors = names
    BY <1>2, <1>3, <1>4, SharedFields
  <2> QED
    BY <1>1, <1>3, <1>4, <2>1, MovedFits, Moves
       DEF AuthorsKept, Left, CopiesLeft, CatalogueInv, CatalogueTypes, CatalogueStep
<1>5. CASE shared # None
  <2>1. shared \in SharedRow /\ shared.authors \in SUBSET (Author \cup {Unknown})
    BY <1>5, AtStep, SharedFields DEF CatalogueInv, CatalogueTypes
  <2>2. shared' \in SharedRow /\ shared'.authors = shared.authors \cup names
    BY <1>2, <1>3, <1>5, <2>1, SharedFields
  <2>3. AuthorsKept
    BY <2>2, <1>3 DEF AuthorsKept
  <2>4. Fits([call EXCEPT !.at = "answer"], shared')
    BY <1>1, <1>3, <2>2, MovedFits DEF CatalogueStep
  <2>5. CallLeft(c) /\ catalogueOps' \in Nat
    BY <1>1, <2>4, Moves DEF CatalogueStep
  <2> QED
    BY <1>1, <2>3, <2>5 DEF Left, CopiesLeft, CatalogueInv, CatalogueTypes
<1> QED
  BY <1>4, <1>5

LEMMA AnswerCoreKeeps ==
    ASSUME CatalogueInv, NEW c \in Call, AnswerCore(c)
    PROVE  Left(c)
<1> DEFINE call == catalogueCalls[c]
<1>1. /\ call # None /\ call \in CatalogueRequest /\ Fits(call, shared) /\ UNCHANGED catalogueTables
      /\ call.at = "answer"
  BY AtStep DEF AnswerCore, CallAt
<1>2. CASE CallEnds(c)
  BY <1>1, <1>2, EndKeeps
<1>3. CASE call.op = "add" /\ CallMoves(c, "owned")
  <2>1. shared # None /\ "owned" \in CatalogueStep
    BY <1>1 DEF Fits, WithBook, CatalogueStep
  <2>2. Fits([call EXCEPT !.at = "owned"], shared)
    BY <1>1, <1>3, <2>1, MovedFits
  <2> QED
    BY <1>1, <1>3, <2>1, <2>2, MoveKeeps
<1> QED
  BY <1>2, <1>3 DEF AnswerCore

LEMMA EnsureFindExistingKeeps ==
    ASSUME CatalogueInv, NEW c \in Call, EnsureFindExisting(c)
    PROVE  Left(c)
<1> DEFINE call == catalogueCalls[c]
           at == IF shared = None THEN "insertBulk" ELSE "hasTags"
<1>1. /\ call # None /\ call \in CatalogueRequest /\ Fits(call, shared) /\ UNCHANGED catalogueTables
      /\ CallMoves(c, at)
  BY AtStep DEF EnsureFindExisting, CallAt
<1>2. /\ at \in CatalogueStep /\ (at \in WithBook => shared # None)
      /\ at \notin {"enrich", "answer", "authors", "replace", "owned", "copy"}
  BY DEF CatalogueStep, WithBook
<1> HIDE DEF at
<1>3. Fits([call EXCEPT !.at = at], shared)
  BY <1>1, <1>2, MovedFits
<1> QED
  BY <1>1, <1>2, <1>3, MoveKeeps

LEMMA insertOpenLibraryBookKeeps ==
    ASSUME CatalogueInv, NEW c \in Call, insertOpenLibraryBook(c)
    PROVE  Left(c)
<1> USE CatalogueNulls
<1>1. /\ catalogueCalls[c] # None /\ SetAuthors(c, "tags") /\ UNCHANGED <<copies, manual>>
      /\ shared' = IF shared = None THEN [authors |-> {}, tags |-> FALSE] ELSE shared
  BY DEF insertOpenLibraryBook, CallAt
<1>2. [authors |-> {}, tags |-> FALSE] \in SharedRow
  BY DEF SharedRow
<1>3. shared' \in SharedRow /\ (shared # None => shared' = shared)
  BY <1>1, <1>2 DEF CatalogueInv, CatalogueTypes
<1>4. AuthorsKept
  BY <1>3 DEF AuthorsKept
<1>5. CallLeft(c) /\ catalogueOps' \in Nat
  BY <1>1, <1>3, SetAuthorsLeaves
<1> QED
  BY <1>1, <1>4, <1>5 DEF Left, CopiesLeft, CatalogueInv, CatalogueTypes

LEMMA hasSystemTagsForBookKeeps ==
    ASSUME CatalogueInv, NEW c \in Call, hasSystemTagsForBook(c)
    PROVE  Left(c)
<1> DEFINE call == catalogueCalls[c]
<1>1. /\ call # None /\ call \in CatalogueRequest /\ Fits(call, shared) /\ UNCHANGED catalogueTables
      /\ call.at = "hasTags"
  BY AtStep DEF hasSystemTagsForBook, CallAt
<1>2. CASE CallEnds(c)
  BY <1>1, <1>2, EndKeeps
<1>3. CASE CallMoves(c, "hasAuthors")
  <2>1. shared # None /\ "hasAuthors" \in CatalogueStep
    BY <1>1 DEF Fits, WithBook, CatalogueStep
  <2>2. Fits([call EXCEPT !.at = "hasAuthors"], shared)
    BY <1>1, <2>1, MovedFits
  <2> QED
    BY <1>1, <1>3, <2>1, <2>2, MoveKeeps
<1> QED
  BY <1>2, <1>3 DEF hasSystemTagsForBook

LEMMA hasAuthorsForBookKeeps ==
    ASSUME CatalogueInv, NEW c \in Call, hasAuthorsForBook(c)
    PROVE  Left(c)
<1> DEFINE call == catalogueCalls[c]
<1>1. /\ call # None /\ call \in CatalogueRequest /\ Fits(call, shared) /\ UNCHANGED catalogueTables
      /\ call.at = "hasAuthors"
  BY AtStep DEF hasAuthorsForBook, CallAt
<1>2. PICK answer \in Answers :
        CallGoes(c, [call EXCEPT !.authors = answer, !.at = "hydrate",
                                 !.then = IF LacksAuthors THEN "authors" ELSE "end"])
  BY DEF hasAuthorsForBook
<1> DEFINE then == IF LacksAuthors THEN "authors" ELSE "end"
           m == [call EXCEPT !.authors = answer, !.at = "hydrate", !.then = then]
<1>3. answer \in SUBSET Author /\ then \in {"answer", "tags", "authors", "end", None}
  BY DEF Answers
<1> HIDE DEF then
<1>4. m \in CatalogueRequest /\ m.at = "hydrate" /\ m.op = call.op /\ m.reader = call.reader
  BY <1>1, <1>3 DEF CatalogueRequest, CatalogueStep
<1>5. CallGoes(c, m)
  BY <1>2 DEF then
<1> HIDE DEF m
<1>6. Fits(m, shared) /\ shared' = shared
  BY <1>1, <1>4 DEF Fits, WithBook, catalogueTables
<1>7. CallLeft(c) /\ catalogueOps' \in Nat
  BY <1>4, <1>5, <1>6, Goes DEF CallGoes
<1> QED
  BY <1>1, <1>7, TablesStay DEF Left

LEMMA hydrateMissingKeeps ==
    ASSUME CatalogueInv, NEW c \in Call, hydrateMissingOpenLibraryMetadataForBook(c)
    PROVE  Left(c)
<1>1. shared # None /\ catalogueCalls[c] # None
  BY AtStep DEF hydrateMissingOpenLibraryMetadataForBook, CallAt, Fits, WithBook
<1>2. AuthorsKept /\ shared' # None
  BY <1>1, TagsHydrated DEF hydrateMissingOpenLibraryMetadataForBook
<1>3. CASE SetAuthors(c, "answer")
  <2>1. CallLeft(c) /\ catalogueOps' \in Nat
    BY <1>1, <1>2, <1>3, SetAuthorsLeaves
  <2> QED
    BY <1>2, <2>1 DEF Left, CopiesLeft, CatalogueInv, CatalogueTypes, hydrateMissingOpenLibraryMetadataForBook
<1>4. CASE CallEnds(c)
  BY <1>2, <1>4, Ends
     DEF Left, CopiesLeft, CatalogueInv, CatalogueTypes, hydrateMissingOpenLibraryMetadataForBook
<1> QED
  BY <1>3, <1>4 DEF hydrateMissingOpenLibraryMetadataForBook

LEMMA ReadPlaceholderKeeps ==
    ASSUME CatalogueInv, NEW c \in Call, ReadPlaceholder(c)
    PROVE  Left(c)
<1> DEFINE call == catalogueCalls[c]
           at == IF call.authors # {} /\ shared.authors = {Unknown} THEN "replace" ELSE "tags"
<1>1. /\ call # None /\ call \in CatalogueRequest /\ Fits(call, shared) /\ UNCHANGED catalogueTables
      /\ call.at = "enrich" /\ CallMoves(c, at)
  BY AtStep DEF ReadPlaceholder, CallAt
<1>2. /\ at \in CatalogueStep /\ (at = "replace" => call.authors # {})
      /\ at \notin {"enrich", "answer", "authors", "owned", "copy"}
  BY DEF CatalogueStep
<1> HIDE DEF at
<1>3. shared # None
  BY <1>1 DEF Fits, WithBook
<1>4. Fits([call EXCEPT !.at = at], shared)
  BY <1>1, <1>2, <1>3, MovedFits
<1> QED
  BY <1>1, <1>2, <1>4, MoveKeeps

LEMMA replaceUnknownBookAuthorKeeps ==
    ASSUME CatalogueInv, NEW c \in Call, replaceUnknownBookAuthor(c)
    PROVE  Left(c)
<1> USE CatalogueNulls
<1> DEFINE call == catalogueCalls[c]
           names == (shared.authors \ {Unknown}) \cup call.authors
<1>1. /\ call # None /\ call \in CatalogueRequest /\ Fits(call, shared) /\ UNCHANGED <<copies, manual>>
      /\ call.at = "replace" /\ CallMoves(c, "tags")
  BY AtStep DEF replaceUnknownBookAuthor, CallAt
<1>2. shared \in SharedRow /\ call.authors # {} /\ call.authors \in SUBSET Author
  BY <1>1, AtStep, RequestFields DEF Fits, WithBook
<1>3. shared' = [shared EXCEPT !.authors = names]
  BY DEF replaceUnknownBookAuthor, Replaced
<1>4. names \in SUBSET (Author \cup {Unknown}) /\ names # {} /\ shared.authors \ {Unknown} \subseteq names
  BY <1>2, SharedFields
<1> HIDE DEF names
<1>5. shared' \in SharedRow /\ shared'.authors = names
  BY <1>2, <1>3, <1>4, SharedFields
<1>6. AuthorsKept
  BY <1>4, <1>5 DEF AuthorsKept
<1>7. Fits([call EXCEPT !.at = "tags"], shared')
  BY <1>1, <1>5, MovedFits DEF CatalogueStep
<1>8. CallLeft(c) /\ catalogueOps' \in Nat
  BY <1>1, <1>7, Moves DEF CatalogueStep
<1> QED
  BY <1>1, <1>6, <1>8 DEF Left, CopiesLeft, CatalogueInv, CatalogueTypes

LEMMA CheckOwnedKeeps ==
    ASSUME CatalogueInv, NEW c \in Call, CheckOwned(c)
    PROVE  Left(c)
<1> DEFINE call == catalogueCalls[c]
<1>1. /\ call # None /\ call \in CatalogueRequest /\ Fits(call, shared) /\ UNCHANGED catalogueTables
      /\ call.at = "owned"
  BY AtStep DEF CheckOwned, CallAt
<1>2. CASE CallEnds(c)
  BY <1>1, <1>2, EndKeeps
<1>3. CASE CallMoves(c, "copy")
  <2>1. shared # None /\ call.op = "add" /\ "copy" \in CatalogueStep
    BY <1>1 DEF Fits, WithBook, CatalogueStep
  <2>2. Fits([call EXCEPT !.at = "copy"], shared)
    BY <1>1, <2>1, MovedFits
  <2> QED
    BY <1>1, <1>3, <2>1, <2>2, MoveKeeps
<1> QED
  BY <1>2, <1>3 DEF CheckOwned

\* The unique index: one more copy only where there is none.
LEMMA addBookByISBNKeeps ==
    ASSUME CatalogueInv, NEW c \in Call, addBookByISBN(c)
    PROVE  Left(c)
<1> DEFINE r == catalogueCalls[c].reader
<1>1. r \in Reader
  BY AtStep DEF addBookByISBN, CallAt, Fits
<1>2. copies \in [Reader -> 0..1]
  BY DEF CatalogueInv, CatalogueTypes
<1>3. copies' = [copies EXCEPT ![r] = IF copies[r] = 0 THEN copies[r] + 1 ELSE copies[r]]
  BY DEF addBookByISBN, NoActiveCopy
<1> HIDE DEF r
<1>4. copies' \in [Reader -> 0..1]
  BY <1>1, <1>2, <1>3
<1>5. CallLeft(c) /\ catalogueOps' \in Nat
  BY Ends DEF addBookByISBN
<1> QED
  BY <1>4, <1>5 DEF addBookByISBN, Left, AuthorsKept, CopiesLeft, CatalogueInv, CatalogueTypes

LEMMA CopiesKeep ==
    ASSUME CatalogueInv, createManualBook \/ removeFromLibrary
    PROVE  CatalogueInv' /\ AuthorsKept
<1>1. copies \in [Reader -> 0..1] /\ manual \in SUBSET Reader
  BY DEF CatalogueInv, CatalogueTypes
<1>2. copies' \in [Reader -> 0..1] /\ manual' \in SUBSET Reader
  <2>1. CASE createManualBook
    BY <1>1, <2>1 DEF createManualBook
  <2>2. CASE removeFromLibrary
    BY <1>1, <2>2 DEF removeFromLibrary
  <2> QED
    BY <2>1, <2>2
<1>3. UNCHANGED <<shared, catalogueCalls, catalogueOps>>
  BY DEF createManualBook, removeFromLibrary
<1> QED
  BY <1>2, <1>3 DEF CatalogueInv, CatalogueTypes, AuthorsKept

LEMMA CatalogueKeeps ==
    ASSUME CatalogueInv, [CatalogueNext]_catalogueVars
    PROVE  CatalogueInv' /\ AuthorsKept
<1>1. CASE UNCHANGED catalogueVars
  BY <1>1 DEF catalogueVars, CatalogueInv, CatalogueTypes, AuthorsKept
<1>2. CASE createManualBook \/ removeFromLibrary
  BY <1>2, CopiesKeep
<1>3. ASSUME NEW c \in Call, Left(c)
      PROVE  CatalogueInv' /\ AuthorsKept
  BY <1>3, CatalogueStepKeeps DEF Left
<1>4. ASSUME NEW c \in Call,
             \/ lookupBook(c) \/ addBookToLibrary(c) \/ bulkLookupBooks(c) \/ enrichOpenLibraryBook(c)
             \/ CallFails(c)
             \/ findByIsbn(c) \/ Fetch(c) \/ setBookAuthors(c) \/ hydrateTags(c)
             \/ FindExisting(c) \/ createCoreOpenLibraryBook(c) \/ AnswerCore(c)
             \/ EnsureFindExisting(c) \/ insertOpenLibraryBook(c) \/ hasSystemTagsForBook(c)
             \/ hasAuthorsForBook(c) \/ hydrateMissingOpenLibraryMetadataForBook(c)
             \/ ReadPlaceholder(c) \/ replaceUnknownBookAuthor(c)
             \/ CheckOwned(c) \/ addBookByISBN(c)
      PROVE  Left(c)
  BY <1>4, RequestsKeep, CallFailsKeeps, findByIsbnKeeps, FetchKeeps, setBookAuthorsKeeps, hydrateTagsKeeps,
     FindExistingKeeps, createCoreOpenLibraryBookKeeps, AnswerCoreKeeps, EnsureFindExistingKeeps,
     insertOpenLibraryBookKeeps, hasSystemTagsForBookKeeps, hasAuthorsForBookKeeps, hydrateMissingKeeps,
     ReadPlaceholderKeeps, replaceUnknownBookAuthorKeeps, CheckOwnedKeeps, addBookByISBNKeeps
<1> QED
  BY <1>1, <1>2, <1>3, <1>4 DEF CatalogueNext

LEMMA CatalogueBegins ==
    ASSUME CatalogueInit
    PROVE  CatalogueInv
BY DEF CatalogueInit, CatalogueInv, CatalogueTypes

(* An author the provider named once is never dropped from the shared      *)
(* book, although replaceUnknownBookAuthor acts on an old look at it.      *)
THEOREM NamedAuthorsStay == CatalogueSpec => AuthorsStay
<1>1. CatalogueInv /\ [CatalogueNext]_catalogueVars =>
        [shared # None => shared.authors \ {Unknown} \subseteq shared'.authors]_catalogueVars
  BY CatalogueKeeps DEF AuthorsKept
<1>2. CatalogueInv /\ [CatalogueNext]_catalogueVars => CatalogueInv'
  BY CatalogueKeeps
<1> QED
  BY <1>1, <1>2, CatalogueBegins, PTL DEF CatalogueSpec, AuthorsStay

(* Whoever looks the book up through createCoreOpenLibraryBook is answered *)
(* with authors, and no reader ever has two active copies of it.           *)
THEOREM CatalogueStaysSound == CatalogueSpec => []CatalogueIsSound
<1>1. CatalogueInv => CatalogueIsSound
  <2> SUFFICES ASSUME CatalogueInv PROVE CatalogueIsSound
    OBVIOUS
  <2>1. CoreAnswersHaveAuthors
    BY AtStep DEF CoreAnswersHaveAuthors, CallAt, Fits
  <2>2. OneCopyEach
    BY DEF OneCopyEach, CatalogueInv, CatalogueTypes
  <2> QED
    BY <2>1, <2>2 DEF CatalogueIsSound
<1>2. CatalogueInv /\ [CatalogueNext]_catalogueVars => CatalogueInv'
  BY CatalogueKeeps
<1> QED
  BY <1>1, <1>2, CatalogueBegins, PTL DEF CatalogueSpec

-----------------------------------------------------------------------------
(***************************** a copy, a page ******************************)

CopyTypes ==
    /\ copy \in CopyRow /\ shownCopy \in CopyRow
    /\ bookPages \in {None, PageCount}
    /\ DOMAIN saves = SaveKind
    /\ \A kind \in SaveKind : saves[kind] \in SaveRequest(kind) \cup {None}
    /\ refetch \in Refetch \cup {None}
    /\ unsure \in BOOLEAN /\ copyOps \in Nat

\* status, page, percentage and dates of a reading agree
Agrees(r) ==
    CASE r.status = "read" -> r.percent = 100 /\ r.started /\ r.finished
      [] r.status = "reading" -> r.percent # 100 /\ r.started /\ ~r.finished
      [] r.status = "unread" -> r = NotRead

\* While nothing is in doubt the page shows what is stored, or what it is saving, and
\* then remembers what is stored.
RatingRemembered ==
    refetch = None /\ ~unsure =>
        IF saves["rating"] = None THEN shownCopy.rating = copy.rating
        ELSE /\ shownCopy.rating = saves["rating"].value
             /\ saves["rating"].previous = copy.rating

CopyInv ==
    /\ CopyTypes
    /\ OnlyOwnedCopiesAreUsed
    /\ ~copy.entered => Agrees(copy.reading)
    /\ saves["reading"] # None => Agrees(saves["reading"].value)
    /\ RatingRemembered

LEMMA CopyNulls ==
    /\ None \notin CopyRow /\ None \notin Refetch
    /\ \A kind \in SaveKind : None \notin SaveRequest(kind)
    /\ None \notin Nat /\ \A s \in STRING : s # None
BY CopyAssumption, NoneAssumption

\* Columns of the row as they are written.
LEMMA CopyFields ==
    \A row \in CopyRow :
        /\ row.state \in Library /\ row.location \in Place /\ row.lastKnown \in Place
        /\ row.rating \in Stars \cup {None} /\ row.reading \in ReadingRow /\ row.entered \in BOOLEAN
        /\ \A r \in Stars \cup {None} : LET m == [row EXCEPT !.rating = r] IN
             /\ m \in CopyRow /\ m.rating = r /\ m.state = row.state /\ m.location = row.location
             /\ m.reading = row.reading /\ m.entered = row.entered
        /\ \A l \in Place : LET m == [row EXCEPT !.location = l] IN
             /\ m \in CopyRow /\ m.rating = row.rating /\ m.state = row.state /\ m.location = l
             /\ m.reading = row.reading /\ m.entered = row.entered
        /\ \A v \in ReadingRow : LET m == [row EXCEPT !.reading = v, !.entered = FALSE] IN
             /\ m \in CopyRow /\ m.rating = row.rating /\ m.state = row.state /\ m.location = row.location
             /\ m.reading = v
BY DEF CopyRow

LEMMA StateFields ==
    \A row \in CopyRow :
        /\ \A l \in Place :
             LET m == [row EXCEPT !.state = "previously_owned", !.location = None, !.lastKnown = l] IN
             /\ m \in CopyRow /\ m.rating = row.rating /\ m.state = "previously_owned" /\ m.location = None
             /\ m.reading = row.reading /\ m.entered = row.entered
        /\ LET m == [row EXCEPT !.state = "owned", !.lastKnown = None] IN
             /\ m \in CopyRow /\ m.rating = row.rating /\ m.state = "owned" /\ m.location = row.location
             /\ m.reading = row.reading /\ m.entered = row.entered
BY DEF CopyRow, Library, Place

LEMMA NotReadIsReading == NotRead \in ReadingRow /\ Agrees(NotRead)
BY DEF NotRead, ReadingRow, Agrees

LEMMA WishlistedFields ==
    \A row \in CopyRow :
        LET m == [row EXCEPT !.state = "wishlisted", !.location = None, !.lastKnown = None, !.rating = None,
                             !.reading = NotRead, !.entered = FALSE] IN
        /\ m \in CopyRow /\ m.rating = None /\ m.state = "wishlisted" /\ m.location = None
        /\ m.reading = NotRead
BY NotReadIsReading DEF CopyRow, Library, Place

LEMMA SaveFields ==
    \A kind \in SaveKind : \A q \in SaveRequest(kind) :
        /\ q.at \in {"check", "current", "write"}
        /\ kind = "rating" => q.value \in Stars \cup {None} /\ q.previous \in Stars \cup {None}
        /\ kind = "reading" => q.value \in ReadingRow
        /\ kind = "location" => q.value \in Place
        /\ kind = "state" => q.value \in Library /\ q.previous \in Place
        /\ LET m == [q EXCEPT !.at = "write"] IN
             m \in SaveRequest(kind) /\ m.value = q.value /\ m.previous = q.previous
        /\ \A l \in Place : kind = "state" => [q EXCEPT !.at = "write", !.previous = l] \in SaveRequest(kind)
BY DEF SaveRequest, SaveKind

-----------------------------------------------------------------------------
(* What a reader enters hangs together once it is normalized.              *)

LEMMA PercentIsOne ==
    ASSUME NEW page \in Nat, NEW total \in Nat \ {0}
    PROVE  percentOf(page, total) \in 0..100
<1> DEFINE rounded == (200 * page + total) \div (2 * total)
<1>1. rounded \in Nat
  <2>1. 200 * page + total \in Nat /\ 2 * total \in Nat /\ 2 * total > 0
    OBVIOUS
  <2>2. \A a, b \in Nat : b > 0 => a \div b \in Nat
    OBVIOUS
  <2> HIDE DEF rounded
  <2> QED
    BY <2>1, <2>2 DEF rounded
<1> HIDE DEF rounded
<1>2. percentOf(page, total) = Min({100, rounded})
  BY DEF percentOf, rounded
<1>3. Min({100, rounded}) \in {100, rounded} /\ Min({100, rounded}) <= 100
  <2>1. \E x \in {100, rounded} : \A y \in {100, rounded} : x <= y
    <3>1. CASE rounded <= 100
      BY <3>1, <1>1
    <3>2. CASE ~(rounded <= 100)
      BY <3>2, <1>1
    <3> QED
      BY <3>1, <3>2
  <2> QED
    BY <2>1 DEF Min
<1> QED
  BY <1>1, <1>2, <1>3

LEMMA NormalizedAgrees ==
    ASSUME NEW total \in {None, PageCount}, NEW input \in ProgressInput,
           input.page # None => total # None
    PROVE  /\ normalizeReadingProgress(total, input) \in ReadingRow
           /\ Agrees(normalizeReadingProgress(total, input))
<1> USE CopyNulls
<1> DEFINE percent == settledPercent(total, input)
           moving == (input.page # None /\ input.page > 0) \/ (percent # None /\ percent > 0)
           ended == [status |-> "read", page |-> IF total = None THEN input.page ELSE total,
                     percent |-> 100, started |-> TRUE, finished |-> TRUE]
           reads == [status |-> "reading", page |-> input.page, percent |-> percent,
                     started |-> TRUE, finished |-> FALSE]
<1>1. /\ input.page \in PageNumber \cup {None} /\ input.percent \in ReadPercent \cup {None}
      /\ PageNumber \subseteq Nat /\ ReadPercent \subseteq 0..100 /\ PageCount \in Nat \ {0}
  BY CopyAssumption DEF ProgressInput
<1>2. percent \in (0..100) \cup {None}
  <2>1. CASE input.percent # None \/ input.page = None \/ total = None
    BY <1>1, <2>1 DEF settledPercent
  <2>2. CASE ~(input.percent # None \/ input.page = None \/ total = None)
    <3>1. percent = percentOf(input.page, total) /\ input.page \in Nat /\ total \in Nat \ {0}
      BY <1>1, <2>2 DEF settledPercent
    <3> QED
      BY <3>1, PercentIsOne
  <2> QED
    BY <2>1, <2>2
<1>3. normalizeReadingProgress(total, input) =
        IF ReadsToEnd(total, input, percent) THEN ended
        ELSE IF input.status # "unread" \/ moving THEN reads ELSE NotRead
  BY DEF normalizeReadingProgress
<1>4. ~ReadsToEnd(total, input, percent) => percent # 100
  BY DEF ReadsToEnd
<1> HIDE DEF percent, moving
<1>5. ended \in ReadingRow /\ Agrees(ended)
  BY <1>1 DEF ReadingRow, Agrees
<1>6. percent # 100 => reads \in ReadingRow /\ Agrees(reads)
  BY <1>1, <1>2 DEF ReadingRow, Agrees
<1> HIDE DEF ended, reads
<1> QED
  BY <1>3, <1>4, <1>5, <1>6, NotReadIsReading

-----------------------------------------------------------------------------
(* What a step leaves of the requests, and the invariant                   *)

SaveBecomes(kind, x) ==
    /\ DOMAIN saves' = SaveKind
    /\ saves'[kind] = x
    /\ \A k \in SaveKind \ {kind} : saves'[k] = saves[k]

LEMMA SaveSet ==
    ASSUME CopyInv, NEW kind \in SaveKind, NEW x, saves' = [saves EXCEPT ![kind] = x]
    PROVE  SaveBecomes(kind, x)
BY DEF CopyInv, CopyTypes, SaveBecomes

LEMMA CopyStepKeeps ==
    ASSUME CopyInv, NEW kind \in SaveKind, NEW x \in SaveRequest(kind) \cup {None}, SaveBecomes(kind, x),
           kind = "reading" /\ x # None => Agrees(x.value),
           copy' \in CopyRow, shownCopy' \in CopyRow, bookPages' \in {None, PageCount},
           refetch' \in Refetch \cup {None}, unsure' \in BOOLEAN, copyOps' \in Nat,
           OnlyOwnedCopiesAreUsed', ~copy'.entered => Agrees(copy'.reading), RatingRemembered'
    PROVE  CopyInv'
<1>1. CopyTypes'
  BY DEF CopyTypes, CopyInv, SaveBecomes
<1>2. saves'["reading"] # None => Agrees(saves'["reading"].value)
  BY DEF SaveBecomes, CopyInv, SaveKind
<1> QED
  BY <1>1, <1>2 DEF CopyInv

\* When the row stays, so does what is said of it.
LEMMA RowStays ==
    ASSUME CopyInv, copy' = copy
    PROVE  /\ copy' \in CopyRow /\ OnlyOwnedCopiesAreUsed'
           /\ ~copy'.entered => Agrees(copy'.reading)
BY DEF CopyInv, CopyTypes, OnlyOwnedCopiesAreUsed

\* An owned copy stays owned when one of its columns is written.
LEMMA OwnedStays ==
    ASSUME copy'.state = "owned"
    PROVE  OnlyOwnedCopiesAreUsed'
BY DEF OnlyOwnedCopiesAreUsed

\* The page's own steps.
LEMMA PageKeeps ==
    ASSUME CopyInv, RefetchRead \/ RefetchShow \/ scheduleEnrichmentPoll \/ FillPages
    PROVE  CopyInv'
<1> USE CopyNulls
<1>1. SaveBecomes("rating", saves["rating"]) /\ saves["rating"] \in SaveRequest("rating") \cup {None}
  BY DEF CopyInv, CopyTypes, SaveBecomes, SaveKind, RefetchRead, RefetchShow, scheduleEnrichmentPoll, FillPages
<1>2. copy' = copy
  BY DEF RefetchRead, RefetchShow, scheduleEnrichmentPoll, FillPages
<1>3. /\ copy \in CopyRow /\ shownCopy \in CopyRow /\ bookPages \in {None, PageCount}
      /\ refetch \in Refetch \cup {None} /\ unsure \in BOOLEAN /\ copyOps \in Nat /\ RatingRemembered
  BY DEF CopyInv, CopyTypes
<1>4. \A row \in CopyRow \cup {None} : [seen |-> row] \in Refetch
  BY DEF Refetch
<1>5. refetch # None => refetch.seen \in CopyRow \cup {None}
  BY <1>3 DEF Refetch
<1>6. /\ shownCopy' \in CopyRow /\ bookPages' \in {None, PageCount}
      /\ refetch' \in Refetch \cup {None} /\ unsure' \in BOOLEAN /\ copyOps' \in Nat
  <2>1. CASE RefetchRead
    BY <1>3, <1>4, <2>1 DEF RefetchRead
  <2>2. CASE RefetchShow
    BY <1>3, <1>5, <2>2 DEF RefetchShow
  <2>3. CASE scheduleEnrichmentPoll
    BY <1>3, <1>4, <2>3 DEF scheduleEnrichmentPoll, refetchCopy
  <2>4. CASE FillPages
    BY <1>3, <2>4 DEF FillPages
  <2> QED
    BY <2>1, <2>2, <2>3, <2>4
<1>7. RatingRemembered'
  <2>1. CASE RefetchRead
    BY <1>3, <1>4, <2>1 DEF RefetchRead, RatingRemembered
  <2>2. CASE RefetchShow
    <3>1. /\ unsure' = (saves["rating"] # None \/ refetch.seen.rating # copy.rating)
          /\ shownCopy' = refetch.seen /\ saves' = saves
      BY <2>2 DEF RefetchShow
    <3> QED
      BY <1>2, <3>1 DEF RatingRemembered
  <2>3. CASE scheduleEnrichmentPoll
    BY <1>3, <1>4, <2>3 DEF scheduleEnrichmentPoll, refetchCopy, RatingRemembered
  <2>4. CASE FillPages
    BY <1>3, <2>4 DEF FillPages, RatingRemembered
  <2> QED
    BY <2>1, <2>2, <2>3, <2>4
<1> QED
  BY <1>1, <1>2, <1>6, <1>7, RowStays, CopyStepKeeps DEF SaveKind

\* A request is sent; a rating is shown at once.
LEMMA SendKeeps ==
    ASSUME CopyInv, NEW kind \in SaveKind, NEW x \in SaveRequest(kind), SendSave(kind, x),
           kind = "reading" => Agrees(x.value),
           shownCopy' \in CopyRow,
           kind # "rating" => shownCopy' = shownCopy,
           kind = "rating" => x.previous = shownCopy.rating /\ shownCopy'.rating = x.value
    PROVE  CopyInv'
<1> USE CopyNulls
<1>1. SaveBecomes(kind, x) /\ x # None
  BY SaveSet DEF SendSave
<1>2. /\ UNCHANGED <<copy, bookPages, refetch, unsure>> /\ copyOps' \in Nat /\ saves[kind] = None
  BY DEF SendSave, CopyInv, CopyTypes
<1>3. RatingRemembered'
  <2>1. CASE kind = "rating"
    BY <1>1, <1>2, <2>1 DEF RatingRemembered, SaveBecomes, CopyInv
  <2>2. CASE kind # "rating"
    BY <1>1, <1>2, <2>2 DEF RatingRemembered, SaveBecomes, CopyInv, SaveKind
  <2> QED
    BY <2>1, <2>2
<1> QED
  BY <1>1, <1>2, <1>3, RowStays, CopyStepKeeps DEF CopyInv, CopyTypes

LEMMA RequestsSent ==
    ASSUME CopyInv, saveRating \/ saveReadingProgress \/ saveLocation \/ updateBookLibraryState
    PROVE  CopyInv'
<1> USE CopyNulls
<1>1. shownCopy \in CopyRow /\ bookPages \in {None, PageCount}
  BY DEF CopyInv, CopyTypes
<1>2. ASSUME saveRating PROVE CopyInv'
  <2>1. PICK r \in Stars \cup {None} :
          /\ SendSave("rating", [at |-> "check", value |-> r, previous |-> shownCopy.rating])
          /\ shownCopy' = [shownCopy EXCEPT !.rating = r]
    BY <1>2 DEF saveRating
  <2> DEFINE x == [at |-> "check", value |-> r, previous |-> shownCopy.rating]
  <2>2. x \in SaveRequest("rating") /\ x.value = r /\ x.previous = shownCopy.rating
    BY <1>1, CopyFields DEF SaveRequest
  <2>3. SendSave("rating", x) /\ "rating" \in SaveKind
    BY <2>1 DEF SaveKind
  <2> HIDE DEF x
  <2>4. shownCopy' \in CopyRow /\ shownCopy'.rating = r
    BY <1>1, <2>1 DEF CopyRow
  <2> QED
    BY <2>2, <2>3, <2>4, SendKeeps
<1>3. ASSUME saveReadingProgress PROVE CopyInv'
  <2>1. PICK input \in ProgressInput :
          /\ input.page # None => bookPages # None
          /\ SendSave("reading", [at |-> "check", value |-> normalizeReadingProgress(bookPages, input),
                                  previous |-> None])
          /\ UNCHANGED shownCopy
    BY <1>3 DEF saveReadingProgress
  <2> DEFINE v == normalizeReadingProgress(bookPages, input)
             x == [at |-> "check", value |-> v, previous |-> None]
  <2>2. v \in ReadingRow /\ Agrees(v)
    BY <1>1, <2>1, NormalizedAgrees
  <2> HIDE DEF v
  <2>3. x \in SaveRequest("reading") /\ x.value = v
    BY <2>2 DEF SaveRequest, Place
  <2>4. SendSave("reading", x) /\ "reading" \in SaveKind
    BY <2>1 DEF SaveKind, v
  <2> HIDE DEF x
  <2> QED
    BY <1>1, <2>1, <2>2, <2>3, <2>4, SendKeeps
<1>4. ASSUME saveLocation PROVE CopyInv'
  <2>1. PICK l \in {None, "shelf"} :
          SendSave("location", [at |-> "check", value |-> l, previous |-> None]) /\ UNCHANGED shownCopy
    BY <1>4 DEF saveLocation
  <2> DEFINE x == [at |-> "check", value |-> l, previous |-> None]
  <2>2. x \in SaveRequest("location") /\ "location" \in SaveKind
    BY DEF SaveRequest, Place, SaveKind
  <2>3. SendSave("location", x)
    BY <2>1
  <2> HIDE DEF x
  <2> QED
    BY <1>1, <2>1, <2>2, <2>3, SendKeeps
<1>5. ASSUME updateBookLibraryState PROVE CopyInv'
  <2>1. PICK s \in {"owned", "wishlisted", "previously_owned"} :
          SendSave("state", [at |-> "current", value |-> s, previous |-> None]) /\ UNCHANGED shownCopy
    BY <1>5 DEF updateBookLibraryState
  <2> DEFINE x == [at |-> "current", value |-> s, previous |-> None]
  <2>2. x \in SaveRequest("state") /\ "state" \in SaveKind
    BY DEF SaveRequest, Place, SaveKind, Library
  <2>3. SendSave("state", x)
    BY <2>1
  <2> HIDE DEF x
  <2> QED
    BY <1>1, <2>1, <2>2, <2>3, SendKeeps
<1> QED
  BY <1>2, <1>3, <1>4, <1>5

\* A request that moves on as it was.
LEMMA StepKeeps ==
    ASSUME CopyInv, NEW kind \in SaveKind, NEW x \in SaveRequest(kind), StepSave(kind, x), saves[kind] # None,
           x.value = saves[kind].value, kind # "state" => x.previous = saves[kind].previous
    PROVE  CopyInv'
<1> USE CopyNulls
<1>1. SaveBecomes(kind, x) /\ x # None
  BY SaveSet DEF StepSave
<1>2. UNCHANGED <<copy, bookPages, shownCopy, refetch, unsure, copyOps>>
  BY DEF StepSave
<1>3. RatingRemembered'
  BY <1>1, <1>2 DEF RatingRemembered, SaveBecomes, CopyInv, SaveKind
<1>4. kind = "reading" => Agrees(x.value)
  BY DEF CopyInv
<1> QED
  BY <1>1, <1>2, <1>3, <1>4, RowStays, CopyStepKeeps DEF CopyInv, CopyTypes

\* A request that is refused: the page puts its rating back.
LEMMA RefusedKeeps ==
    ASSUME CopyInv, NEW kind \in SaveKind, saves[kind] # None, SaveRefused(kind),
           saves' = [saves EXCEPT ![kind] = None],
           UNCHANGED <<copy, bookPages, refetch, unsure, copyOps>>
    PROVE  CopyInv'
<1> USE CopyNulls
<1>1. SaveBecomes(kind, None)
  BY SaveSet
<1>2. /\ shownCopy \in CopyRow /\ saves["rating"] \in SaveRequest("rating") \cup {None}
  BY DEF CopyInv, CopyTypes, SaveKind
<1>3. shownCopy' \in CopyRow /\ RatingRemembered'
  <2>1. CASE kind = "rating"
    <3>1. saves["rating"].previous \in Stars \cup {None}
      BY <1>2, <2>1, SaveFields DEF SaveKind
    <3>2. shownCopy' = [shownCopy EXCEPT !.rating = saves["rating"].previous]
      BY <2>1 DEF SaveRefused
    <3>3. shownCopy' \in CopyRow /\ shownCopy'.rating = saves["rating"].previous
      BY <1>2, <3>1, <3>2 DEF CopyRow
    <3> QED
      BY <1>1, <2>1, <3>3 DEF RatingRemembered, SaveBecomes, CopyInv
  <2>2. CASE kind # "rating"
    BY <1>1, <1>2, <2>2 DEF RatingRemembered, SaveBecomes, CopyInv, SaveKind, SaveRefused
  <2> QED
    BY <2>1, <2>2
<1> QED
  BY <1>1, <1>3, RowStays, CopyStepKeeps DEF CopyInv, CopyTypes

LEMMA CheckedKeeps ==
    ASSUME CopyInv, NEW kind \in SaveKind \ {"state"}, getOwnedPhysicalUserBookRef(kind)
    PROVE  CopyInv'
<1>1. saves[kind] # None /\ saves[kind] \in SaveRequest(kind)
  BY DEF getOwnedPhysicalUserBookRef, CopyInv, CopyTypes
<1>2. CASE StepSave(kind, [saves[kind] EXCEPT !.at = "write"])
  <2> DEFINE x == [saves[kind] EXCEPT !.at = "write"]
  <2>1. x \in SaveRequest(kind) /\ x.value = saves[kind].value /\ x.previous = saves[kind].previous
    BY <1>1, SaveFields
  <2>2. StepSave(kind, x)
    BY <1>2
  <2> HIDE DEF x
  <2> QED
    BY <1>1, <2>1, <2>2, StepKeeps
<1>3. CASE copy.state # "owned"
  BY <1>1, <1>3, RefusedKeeps DEF getOwnedPhysicalUserBookRef
<1> QED
  BY <1>2, <1>3 DEF getOwnedPhysicalUserBookRef

LEMMA LoadKeeps ==
    ASSUME CopyInv, LoadLibraryState
    PROVE  CopyInv'
<1> DEFINE x == [saves["state"] EXCEPT !.at = "write", !.previous = copy.location]
<1>1. saves["state"] # None /\ saves["state"] \in SaveRequest("state") /\ copy \in CopyRow
  BY DEF LoadLibraryState, CopyInv, CopyTypes, SaveKind
<1>2. x \in SaveRequest("state")
  BY <1>1, SaveFields, CopyFields DEF SaveKind
<1>3. x.value = saves["state"].value
  BY <1>1 DEF SaveRequest
<1>4. StepSave("state", x)
  BY DEF LoadLibraryState
<1> HIDE DEF x
<1> QED
  BY <1>1, <1>2, <1>3, <1>4, StepKeeps DEF SaveKind

\* What the page shows once its request was refused is a row.
LEMMA RefusedShows ==
    ASSUME CopyInv, NEW kind \in SaveKind, saves[kind] # None, SaveRefused(kind)
    PROVE  shownCopy' \in CopyRow
<1> USE CopyNulls
<1>1. shownCopy \in CopyRow /\ saves[kind] \in SaveRequest(kind)
  BY DEF CopyInv, CopyTypes
<1>2. kind = "rating" => saves["rating"].previous \in Stars \cup {None}
  BY <1>1, SaveFields
<1> QED
  BY <1>1, <1>2 DEF SaveRefused, CopyRow

LEMMA NewRefetch == [seen |-> None] \in Refetch /\ [seen |-> None] # None
BY CopyNulls DEF Refetch

\* A column of an owned copy is written, whether the answer arrives or is lost.
LEMMA WriteKeeps ==
    ASSUME CopyInv, NEW kind \in SaveKind \ {"state"}, NEW row \in CopyRow, WriteCopy(kind, row),
           row.state = copy.state, ~row.entered => Agrees(row.reading),
           kind = "rating" => row.rating = saves["rating"].value
    PROVE  CopyInv'
<1> USE CopyNulls
<1>1. /\ saves[kind] # None /\ saves[kind] \in SaveRequest(kind) /\ shownCopy \in CopyRow
      /\ refetch \in Refetch \cup {None} /\ bookPages' = bookPages /\ copyOps' = copyOps
  BY DEF WriteCopy, CopyInv, CopyTypes
<1>2. CASE ~CopyWritable
  BY <1>1, <1>2, RefusedKeeps DEF WriteCopy
<1>3. CASE /\ CopyWritable /\ copy' = row
           /\ SaveDone(kind)
           /\ shownCopy' = IF kind = "location" THEN [shownCopy EXCEPT !.location = saves[kind].value]
                           ELSE shownCopy
           /\ UNCHANGED unsure
  <2>1. SaveBecomes(kind, None)
    BY <1>3, SaveSet DEF SaveDone
  <2>2. copy'.state = "owned"
    BY <1>3 DEF CopyWritable
  <2>3. kind = "location" => saves[kind].value \in Place
    BY <1>1, SaveFields
  <2>4. shownCopy' \in CopyRow
    BY <1>1, <1>3, <2>3 DEF CopyRow
  <2>5. refetch' \in Refetch \cup {None} /\ (kind = "rating" => refetch' = refetch)
        /\ (kind # "rating" => refetch' # None)
    BY <1>1, <1>3, NewRefetch DEF SaveDone, refetchCopy
  <2>6. RatingRemembered'
    <3>1. CASE kind = "rating"
      <4>1. shownCopy' = shownCopy
        BY <1>3, <3>1
      <4> QED
        BY <1>1, <1>3, <2>1, <2>5, <3>1, <4>1 DEF RatingRemembered, SaveBecomes, CopyInv
    <3>2. CASE kind # "rating"
      BY <2>5, <3>2 DEF RatingRemembered
    <3> QED
      BY <3>1, <3>2
  <2> QED
    BY <1>1, <1>3, <2>1, <2>2, <2>4, <2>5, <2>6, OwnedStays, CopyStepKeeps DEF CopyInv, CopyTypes
<1>4. CASE /\ CopyWritable /\ copy' = row
           /\ SaveRefused(kind)
           /\ saves' = [saves EXCEPT ![kind] = None]
           /\ unsure' = TRUE
           /\ UNCHANGED refetch
  <2>1. SaveBecomes(kind, None)
    BY <1>4, SaveSet
  <2>2. copy'.state = "owned"
    BY <1>4 DEF CopyWritable
  <2>3. shownCopy' \in CopyRow
    BY <1>1, <1>4, RefusedShows
  <2>4. RatingRemembered'
    BY <1>4 DEF RatingRemembered
  <2> QED
    BY <1>1, <1>4, <2>1, <2>2, <2>3, <2>4, OwnedStays, CopyStepKeeps DEF CopyInv, CopyTypes
<1> QED
  BY <1>2, <1>3, <1>4 DEF WriteCopy

LEMMA WritesKeep ==
    ASSUME CopyInv, updateRating \/ updateReadingProgress \/ updateCopyLocation
    PROVE  CopyInv'
<1> USE CopyNulls
<1>1. copy \in CopyRow /\ (~copy.entered => Agrees(copy.reading))
  BY DEF CopyInv, CopyTypes
<1>2. ASSUME NEW kind \in SaveKind, saves[kind] # None
      PROVE  saves[kind] \in SaveRequest(kind) /\ (kind = "reading" => Agrees(saves[kind].value))
  BY <1>2 DEF CopyInv, CopyTypes
<1>3. ASSUME updateRating PROVE CopyInv'
  <2> DEFINE row == [copy EXCEPT !.rating = saves["rating"].value]
  <2>1. saves["rating"].value \in Stars \cup {None}
    BY <1>2, <1>3, SaveFields DEF updateRating, WriteCopy, SaveKind
  <2>2. /\ row \in CopyRow /\ row.state = copy.state /\ row.rating = saves["rating"].value
        /\ row.reading = copy.reading /\ row.entered = copy.entered
    BY <1>1, <2>1 DEF CopyRow
  <2>3. WriteCopy("rating", row) /\ "rating" \in SaveKind \ {"state"}
    BY <1>3 DEF updateRating, SaveKind
  <2> HIDE DEF row
  <2> QED
    BY <1>1, <2>2, <2>3, WriteKeeps
<1>4. ASSUME updateReadingProgress PROVE CopyInv'
  <2> DEFINE row == [copy EXCEPT !.reading = saves["reading"].value, !.entered = FALSE]
  <2>1. saves["reading"].value \in ReadingRow /\ Agrees(saves["reading"].value)
    BY <1>2, <1>4, SaveFields DEF updateReadingProgress, WriteCopy, SaveKind
  <2>2. row \in CopyRow /\ row.state = copy.state /\ row.reading = saves["reading"].value
    BY <1>1, <2>1 DEF CopyRow
  <2>3. WriteCopy("reading", row) /\ "reading" \in SaveKind \ {"state"}
    BY <1>4 DEF updateReadingProgress, SaveKind
  <2> HIDE DEF row
  <2> QED
    BY <2>1, <2>2, <2>3, WriteKeeps
<1>5. ASSUME updateCopyLocation PROVE CopyInv'
  <2> DEFINE row == [copy EXCEPT !.location = saves["location"].value]
  <2>1. saves["location"].value \in Place
    BY <1>2, <1>5, SaveFields DEF updateCopyLocation, WriteCopy, SaveKind
  <2>2. /\ row \in CopyRow /\ row.state = copy.state
        /\ row.reading = copy.reading /\ row.entered = copy.entered
    BY <1>1, <2>1 DEF CopyRow
  <2>3. WriteCopy("location", row) /\ "location" \in SaveKind \ {"state"}
    BY <1>5 DEF updateCopyLocation, SaveKind
  <2> HIDE DEF row
  <2> QED
    BY <1>1, <2>2, <2>3, WriteKeeps
<1> QED
  BY <1>3, <1>4, <1>5

\* The row once its state is written: what does not fit the state goes with it.
LEMMA StateWritten ==
    ASSUME CopyInv, updateLibraryState
    PROVE  /\ copy' \in CopyRow /\ OnlyOwnedCopiesAreUsed'
           /\ ~copy'.entered => Agrees(copy'.reading)
<1> USE CopyNulls
<1>1. /\ copy \in CopyRow /\ (~copy.entered => Agrees(copy.reading))
      /\ saves["state"] \in SaveRequest("state")
  BY DEF CopyInv, CopyTypes, updateLibraryState, SaveKind
<1>2. saves["state"].value \in Library /\ saves["state"].previous \in Place
  BY <1>1, SaveFields DEF SaveKind
<1>3. CASE saves["state"].value = "wishlisted"
  <2>1. copy' = [copy EXCEPT !.state = "wishlisted", !.location = None, !.lastKnown = None, !.rating = None,
                             !.reading = NotRead, !.entered = FALSE]
    BY <1>3 DEF updateLibraryState
  <2>2. /\ copy' \in CopyRow /\ copy'.rating = None /\ copy'.state = "wishlisted"
        /\ copy'.location = None /\ copy'.reading = NotRead
    BY <1>1, <2>1, NotReadIsReading DEF CopyRow, Library, Place
  <2> QED
    BY <2>2, NotReadIsReading DEF OnlyOwnedCopiesAreUsed
<1>4. CASE saves["state"].value = "previously_owned"
  <2>1. copy' = [copy EXCEPT !.state = "previously_owned", !.location = None,
                             !.lastKnown = saves["state"].previous]
    BY <1>4 DEF updateLibraryState
  <2>2. /\ copy' \in CopyRow /\ copy'.state = "previously_owned" /\ copy'.location = None
        /\ copy'.reading = copy.reading /\ copy'.entered = copy.entered
    BY <1>1, <1>2, <2>1 DEF CopyRow, Library, Place
  <2> QED
    BY <1>1, <2>2 DEF OnlyOwnedCopiesAreUsed
<1>5. CASE saves["state"].value = "owned"
  <2>1. copy' = [copy EXCEPT !.state = "owned", !.lastKnown = None]
    BY <1>5 DEF updateLibraryState
  <2>2. /\ copy' \in CopyRow /\ copy'.state = "owned"
        /\ copy'.reading = copy.reading /\ copy'.entered = copy.entered
    BY <1>1, <2>1 DEF CopyRow, Library, Place
  <2> QED
    BY <1>1, <2>2 DEF OnlyOwnedCopiesAreUsed
<1> QED
  BY <1>2, <1>3, <1>4, <1>5 DEF Library

LEMMA StateKeeps ==
    ASSUME CopyInv, updateLibraryState
    PROVE  CopyInv'
<1> USE CopyNulls
<1>1. /\ saves["state"] # None /\ UNCHANGED <<bookPages, shownCopy, copyOps>>
      /\ saves' = [saves EXCEPT !["state"] = None] /\ "state" \in SaveKind
      /\ \/ refetch' = [seen |-> None] /\ UNCHANGED unsure
         \/ UNCHANGED refetch /\ unsure' = TRUE
  BY DEF updateLibraryState, SaveDone, refetchCopy, SaveKind
<1>2. SaveBecomes("state", None)
  BY <1>1, SaveSet
<1>3. refetch' \in Refetch \cup {None} /\ unsure' \in BOOLEAN /\ (refetch' = None => unsure')
  BY <1>1, NewRefetch DEF CopyInv, CopyTypes
<1>4. RatingRemembered'
  BY <1>3 DEF RatingRemembered
<1> QED
  BY <1>1, <1>2, <1>3, <1>4, StateWritten, CopyStepKeeps DEF CopyInv, CopyTypes

LEMMA CopyKeeps ==
    ASSUME CopyInv, [CopyNext]_copyVars
    PROVE  CopyInv'
<1>1. CASE UNCHANGED copyVars
  BY <1>1 DEF copyVars, CopyInv, CopyTypes, OnlyOwnedCopiesAreUsed, RatingRemembered
<1>2. CASE CopyNext
  BY <1>2, PageKeeps, RequestsSent, CheckedKeeps, WritesKeep, LoadKeeps, StateKeeps DEF CopyNext
<1> QED
  BY <1>1, <1>2

LEMMA CopyBegins ==
    ASSUME CopyInit
    PROVE  CopyInv
<1> USE CopyNulls
<1>1. /\ copy \in CopyRow /\ OnlyOwnedCopiesAreUsed
      /\ ~copy.entered => Agrees(copy.reading)
  <2>1. AddedCopy \in CopyRow /\ AddedCopy.state = "owned" /\ AddedCopy.reading = NotRead
    BY NotReadIsReading DEF AddedCopy, CopyRow, Library, Place
  <2> DEFINE entered == [AddedCopy EXCEPT !.reading = [NotRead EXCEPT !.status = "read"], !.entered = TRUE]
             wished == [AddedCopy EXCEPT !.state = "wishlisted"]
  <2>2. [NotRead EXCEPT !.status = "read"] \in ReadingRow
    BY DEF NotRead, ReadingRow
  <2>3. entered \in CopyRow /\ entered.state = "owned" /\ entered.entered
    BY <2>1, <2>2 DEF CopyRow, AddedCopy
  <2>4. /\ wished \in CopyRow /\ wished.state = "wishlisted" /\ wished.reading = NotRead
        /\ wished.location = None /\ wished.rating = None
    BY NotReadIsReading DEF CopyRow, AddedCopy, Library, Place
  <2>5. copy \in {AddedCopy, entered, wished}
    BY DEF CopyInit, ManualCopies
  <2> HIDE DEF entered, wished
  <2> QED
    BY <2>1, <2>3, <2>4, <2>5, NotReadIsReading DEF OnlyOwnedCopiesAreUsed
<1>2. CopyTypes
  BY <1>1 DEF CopyInit, CopyTypes
<1>3. RatingRemembered /\ saves["reading"] = None
  BY DEF CopyInit, RatingRemembered, SaveKind
<1> QED
  BY <1>1, <1>2, <1>3 DEF CopyInv

(* What a copy records fits its state and hangs together, however ratings, *)
(* progress, locations and changes of state interleave.                    *)
THEOREM CopiesHangTogether == CopySpec => []CopyHangsTogether
<1>1. CopyInv => CopyHangsTogether
  BY DEF CopyInv, CopyHangsTogether, ReadingHangsTogether, Agrees
<1>2. CopyInv /\ [CopyNext]_copyVars => CopyInv'
  BY CopyKeeps
<1> QED
  BY <1>1, <1>2, CopyBegins, PTL DEF CopySpec

(* At rest the page shows the rating that is stored, although it rates     *)
(* before the server answers and puts an error back by itself.             *)
THEOREM PagesShowTheRating == CopySpec => []PageShowsTheRating
<1>1. CopyInv => PageShowsTheRating
  BY DEF CopyInv, PageShowsTheRating, RatingRemembered, SaveKind
<1>2. CopyInv /\ [CopyNext]_copyVars => CopyInv'
  BY CopyKeeps
<1> QED
  BY <1>1, <1>2, CopyBegins, PTL DEF CopySpec

-----------------------------------------------------------------------------
(********************************** tags ***********************************)

TagTypes ==
    /\ tagRows \in [TagKey -> TagId \cup {None}]
    /\ \A k \in TagKey : tagRows[k] # None => tagRows[k][1] = k
    /\ tagIds \in [TagKey -> 0..MaxTagIds]
    /\ copyTags \in SUBSET (TagCopy \X TagId) /\ bookTags \in SUBSET TagId
    /\ tagCalls \in [Call -> TagRequest \cup {None}]
    /\ tagsShown \in [tags : SUBSET TagId, suggested : SUBSET TagId]
    /\ dialog \in [tags : SUBSET TagId, names : SUBSET TagKey, suggested : SUBSET TagId] \cup {None}
    /\ tagLost \in BOOLEAN /\ nameRefused \in BOOLEAN /\ tagOps \in Nat

\* no link is without its tag
LinksHold ==
    /\ \A l \in copyTags : TagExists(l[2])
    /\ \A id \in bookTags : TagExists(id)

\* what a call counts on at its step, as long as no tag is collected
TagCallFits(call) ==
    /\ call.at \in {"find", "create", "resolve"} => call.op \in {"add", "system"} /\ call.names # <<>>
    /\ call.at \in {"unlink", "collect"} => call.op = "delete" /\ call.copy \in TagCopy /\ call.id \in TagId
    /\ call.at \in {"suggested", "link"} => call.op \in {"add", "system", "promote"}
    /\ call.op \in {"add", "promote", "batch"} => call.copy \in TagCopy
    /\ call.op = "promote" => call.id \in TagId /\ call.names = <<>>
    /\ call.at = "link" => call.id \in TagId
    /\ call.op # "batch" => call.deletes = {}
    /\ call.at \in {"read", "write"} => call.op = "batch"
    /\ call.at = "write" => call.known \in [Range(call.names) -> TagId \cup {None}]
Finds(call, rows) ==
    /\ call.at = "resolve" => rows[Head(call.names)] # None
    /\ call.at = "link" => rows[call.id[1]] = call.id
    /\ call.at = "write" =>
         /\ \A id \in call.promotes : rows[id[1]] = id
         /\ \A k \in Range(call.names) : call.known[k] # None => rows[k] # None

TagsInv ==
    /\ TagTypes /\ LinksHold
    /\ \A c \in Call : tagCalls[c] # None =>
         TagCallFits(tagCalls[c]) /\ (tagLost \/ Finds(tagCalls[c], tagRows))
    /\ nameRefused => tagLost

\* What a step of the call c leaves: no row goes unless a tag is collected.
RowsLeft ==
    /\ tagRows' \in [TagKey -> TagId \cup {None}]
    /\ \A k \in TagKey : tagRows'[k] # None => tagRows'[k][1] = k
    /\ \A k \in TagKey : tagRows[k] # None => tagRows'[k] = tagRows[k] \/ tagLost'
    /\ tagIds' \in [TagKey -> 0..MaxTagIds]
LinksLeft ==
    /\ copyTags' \in SUBSET (TagCopy \X TagId) /\ bookTags' \in SUBSET TagId
    /\ LinksHold'
FlagsLeft ==
    /\ tagLost' \in BOOLEAN /\ (tagLost => tagLost')
    /\ nameRefused' \in BOOLEAN /\ (nameRefused' => tagLost')
PageLeft ==
    /\ tagsShown' \in [tags : SUBSET TagId, suggested : SUBSET TagId]
    /\ dialog' \in [tags : SUBSET TagId, names : SUBSET TagKey, suggested : SUBSET TagId] \cup {None}
    /\ tagOps' \in Nat
RequestLeft(c) ==
    /\ tagCalls' \in [Call -> TagRequest \cup {None}]
    /\ \A d \in Call \ {c} : tagCalls'[d] = tagCalls[d]
    /\ tagCalls'[c] # None =>
         TagCallFits(tagCalls'[c]) /\ (tagLost' \/ Finds(tagCalls'[c], tagRows'))

LEMMA TagNulls == None \notin TagId /\ None \notin TagRequest /\ \A k \in TagKey, n \in Nat : <<k, n>> # None
BY TagAssumption DEF TagId

LEMMA TagIds ==
    /\ \A id \in TagId : id[1] \in TagKey /\ id # None
    /\ \A k \in TagKey, n \in 1..MaxTagIds : <<k, n>> \in TagId /\ <<k, n>>[1] = k
BY TagNulls DEF TagId

LEMMA NamesFacts ==
    ASSUME NEW s \in Seq(TagKey)
    PROVE  /\ Range(s) \subseteq TagKey
           /\ s # <<>> => Head(s) \in TagKey /\ Head(s) \in Range(s) /\ Tail(s) \in Seq(TagKey)
           /\ Len(s) > 1 => s # <<>> /\ Tail(s) # <<>>
<1>1. Range(s) \subseteq TagKey
  <2>1. \A i \in 1..Len(s) : s[i] \in TagKey
    OBVIOUS
  <2>2. DOMAIN s = 1..Len(s)
    OBVIOUS
  <2> QED
    BY <2>1, <2>2 DEF Range
<1>2. ASSUME s # <<>> PROVE Head(s) \in TagKey /\ Head(s) \in Range(s) /\ Tail(s) \in Seq(TagKey)
  <2>1. Len(s) \in Nat /\ Len(s) # 0 /\ DOMAIN s = 1..Len(s)
    BY <1>2
  <2>2. 1 \in DOMAIN s /\ Head(s) = s[1]
    BY <2>1
  <2>3. Head(s) \in Range(s)
    BY <2>2 DEF Range
  <2> QED
    BY <1>1, <1>2, <2>3
<1>3. Len(s) > 1 => s # <<>> /\ Tail(s) # <<>>
  <2> SUFFICES ASSUME Len(s) > 1 PROVE s # <<>> /\ Tail(s) # <<>>
    OBVIOUS
  <2>1. s # <<>>
    OBVIOUS
  <2>3. Len(Tail(s)) = Len(s) - 1 /\ Len(s) \in Nat
    BY HeadTailProperties, <2>1
  <2>2. Len(Tail(s)) # 0
    <3> DEFINE n == Len(s)
               k == Len(Tail(s))
    <3>1. k = n - 1 /\ n \in Nat /\ n > 1
      BY <2>3
    <3> HIDE DEF n, k
    <3>2. k # 0
      BY <3>1
    <3> QED
      BY <3>2 DEF k
  <2>4. Len(<<>>) = 0
    BY EmptySeq
  <2> QED
    BY <2>1, <2>2, <2>4
<1> QED
  BY <1>1, <1>2, <1>3

LEMMA OneName == \A k \in TagKey : <<k>> \in Seq(TagKey) /\ <<k>> # <<>>
OBVIOUS

LEMMA NamesInOrder ==
    ASSUME NEW names \in SetToSeqs(TagKey)
    PROVE  names \in Seq(TagKey) /\ names # <<>>
<1> DEFINE n == Cardinality(TagKey)
<1>1. n \in Nat /\ n # 0
  BY TagAssumption, FS_CardinalityType, FS_EmptySet
<1>2. names \in [1..n -> TagKey]
  BY DEF SetToSeqs
<1> HIDE DEF n
<1> QED
  BY <1>1, <1>2

LEMMA ChosenNames ==
    ASSUME NEW names \in SUBSET TagKey
    PROVE  SetToSeq(names) \in Seq(TagKey)
<1> DEFINE n == Cardinality(names)
<1>1. IsFiniteSet(names)
  BY TagAssumption, FS_Subset
<1>2. n \in Nat /\ ExistsBijection(1..n, names)
  BY <1>1, FS_CardinalityType
<1>3. \E f \in [1..n -> names] : IsInjective(f)
  BY <1>2 DEF ExistsBijection, Bijection, Injection
<1>4. SetToSeq(names) \in [1..n -> names]
  BY <1>3 DEF SetToSeq
<1> HIDE DEF n
<1> QED
  BY <1>2, <1>4

LEMMA TagRequestFields ==
    \A call \in TagRequest :
        /\ call.op \in {"add", "system", "promote", "delete", "batch"} /\ call.at \in TagStep
        /\ call.copy \in TagCopy \cup {None} /\ call.id \in TagId \cup {None} /\ call.names \in Seq(TagKey)
        /\ call.deletes \in SUBSET TagId /\ call.promotes \in SUBSET TagId
BY DEF TagRequest

LEMMA TagRequestMoves ==
    ASSUME NEW call \in TagRequest, NEW at \in TagStep
    PROVE  LET m == [call EXCEPT !.at = at] IN
           /\ m \in TagRequest
           /\ m.at = at /\ m.op = call.op /\ m.copy = call.copy /\ m.id = call.id /\ m.names = call.names
           /\ m.deletes = call.deletes /\ m.promotes = call.promotes /\ m.known = call.known
BY DEF TagRequest

\* The invariant survives what a step leaves.
LEMMA TagStepKeeps ==
    ASSUME TagsInv, NEW c \in Call, RowsLeft, LinksLeft, FlagsLeft, PageLeft, RequestLeft(c)
    PROVE  TagsInv'
<1> USE TagNulls
<1>1. TagTypes' /\ LinksHold' /\ (nameRefused' => tagLost')
  BY DEF TagTypes, RowsLeft, LinksLeft, FlagsLeft, PageLeft, RequestLeft
<1>2. ASSUME NEW d \in Call, tagCalls'[d] # None
      PROVE  TagCallFits(tagCalls'[d]) /\ (tagLost' \/ Finds(tagCalls'[d], tagRows'))
  <2>1. CASE d = c
    BY <1>2, <2>1 DEF RequestLeft
  <2>2. CASE d # c
    <3>1. /\ tagCalls'[d] = tagCalls[d] /\ tagCalls[d] \in TagRequest /\ TagCallFits(tagCalls[d])
          /\ tagLost \/ Finds(tagCalls[d], tagRows)
      BY <1>2, <2>2 DEF RequestLeft, TagsInv, TagTypes
    <3>2. ASSUME ~tagLost' PROVE Finds(tagCalls[d], tagRows')
      <4>1. Finds(tagCalls[d], tagRows)
        BY <3>1, <3>2 DEF FlagsLeft
      <4>2. \A k \in TagKey : tagRows[k] # None => tagRows'[k] = tagRows[k]
        BY <3>2 DEF RowsLeft
      <4>3. \A id \in TagId : tagRows[id[1]] = id => tagRows'[id[1]] = id
        BY <4>2, TagIds
      <4>4. tagCalls[d].promotes \in SUBSET TagId /\ tagCalls[d].names \in Seq(TagKey)
        BY <3>1, TagRequestFields
      <4>5. tagCalls[d].at = "resolve" => tagRows'[Head(tagCalls[d].names)] # None
        BY <3>1, <4>1, <4>2, <4>4, NamesFacts DEF Finds, TagCallFits
      <4>6. tagCalls[d].at = "link" => tagRows'[tagCalls[d].id[1]] = tagCalls[d].id
        BY <3>1, <4>1, <4>3 DEF Finds, TagCallFits
      <4>7. tagCalls[d].at = "write" =>
              /\ \A id \in tagCalls[d].promotes : tagRows'[id[1]] = id
              /\ \A k \in Range(tagCalls[d].names) : tagCalls[d].known[k] # None => tagRows'[k] # None
        BY <4>1, <4>2, <4>3, <4>4, NamesFacts DEF Finds
      <4> QED
        BY <4>5, <4>6, <4>7 DEF Finds
    <3> QED
      BY <3>1, <3>2
  <2> QED
    BY <2>1, <2>2
<1> QED
  BY <1>1, <1>2 DEF TagsInv

\* Tables, flags and page as they were.
LEMMA TagTablesStay ==
    ASSUME TagsInv, UNCHANGED tagTables
    PROVE  RowsLeft /\ LinksLeft
BY DEF TagsInv, TagTypes, LinksHold, TagExists, tagTables, RowsLeft, LinksLeft

LEMMA TagFlagsStay ==
    ASSUME TagsInv, UNCHANGED <<tagLost, nameRefused>>
    PROVE  FlagsLeft
BY DEF TagsInv, TagTypes, FlagsLeft

LEMMA TagAtStep ==
    ASSUME TagsInv, NEW c \in Call, tagCalls[c] # None
    PROVE  /\ tagCalls[c] \in TagRequest /\ TagCallFits(tagCalls[c])
           /\ tagLost \/ Finds(tagCalls[c], tagRows)
BY DEF TagsInv, TagTypes

\* A call goes on as m, or is over.
LEMMA TagGoesLeaves ==
    ASSUME TagsInv, NEW c \in Call, NEW m \in TagRequest, TagGoes(c, m), TagCallFits(m),
           tagLost' \/ Finds(m, tagRows')
    PROVE  RequestLeft(c) /\ PageLeft
BY DEF TagsInv, TagTypes, TagGoes, tagPage, RequestLeft, PageLeft

LEMMA TagDoneLeaves ==
    ASSUME TagsInv, NEW c \in Call, TagDone(c)
    PROVE  RequestLeft(c) /\ PageLeft
<1> USE TagNulls
<1>1. dialog' \in {dialog, None}
  BY DEF TagDone
<1> QED
  BY <1>1 DEF TagsInv, TagTypes, TagDone, RequestLeft, PageLeft

LEMMA TagFailsLeaves ==
    ASSUME TagsInv, NEW c \in Call, TagFails(c)
    PROVE  RequestLeft(c) /\ PageLeft /\ RowsLeft /\ LinksLeft
<1>1. RequestLeft(c) /\ PageLeft
  BY DEF TagsInv, TagTypes, TagFails, tagPage, RequestLeft, PageLeft
<1> QED
  BY <1>1, TagTablesStay DEF TagFails

-----------------------------------------------------------------------------
(* The steps, one by one                                                   *)

AllLeft(c) == RowsLeft /\ LinksLeft /\ FlagsLeft /\ PageLeft /\ RequestLeft(c)

\* A call that begins, with the page as it is.
LEMMA TagCallKeeps ==
    ASSUME TagsInv, NEW c \in Call, NEW m \in TagRequest, TagCall(c, m), TagCallFits(m), UNCHANGED tagPage,
           m.at \notin {"resolve", "link", "write"}
    PROVE  AllLeft(c)
<1>1. Finds(m, tagRows')
  BY DEF Finds
<1>2. RequestLeft(c) /\ PageLeft
  BY <1>1 DEF TagsInv, TagTypes, TagCall, tagPage, RequestLeft, PageLeft
<1> QED
  BY <1>2, TagTablesStay, TagFlagsStay DEF TagCall, AllLeft

LEMMA OnTagFields ==
    ASSUME NEW op \in {"add", "system", "promote", "delete", "batch"}, NEW at \in TagStep,
           NEW cp \in TagCopy \cup {None}, NEW id \in TagId \cup {None}
    PROVE  /\ OnTag(op, at, cp, id) \in TagRequest
           /\ OnTag(op, at, cp, id).op = op /\ OnTag(op, at, cp, id).at = at
           /\ OnTag(op, at, cp, id).copy = cp /\ OnTag(op, at, cp, id).id = id
           /\ OnTag(op, at, cp, id).deletes = {} /\ OnTag(op, at, cp, id).names = <<>>
<1>1. <<>> \in Seq(TagKey)
  OBVIOUS
<1>2. OnTag(op, at, cp, id) \in TagRequest
  BY <1>1 DEF OnTag, TagRequest
<1> QED
  BY <1>2 DEF OnTag, TagRequest

LEMMA addUserTagKeeps ==
    ASSUME TagsInv, NEW c \in Call, addUserTag(c)
    PROVE  AllLeft(c)
<1>1. PICK cp \in TagCopy, k \in TagKey :
        TagCall(c, [OnTag("add", "find", cp, None) EXCEPT !.names = <<k>>]) /\ UNCHANGED tagPage
  BY DEF addUserTag
<1> DEFINE o == OnTag("add", "find", cp, None)
           m == [o EXCEPT !.names = <<k>>]
<1>2. <<k>> \in Seq(TagKey) /\ <<k>> # <<>>
  BY OneName
<1>3. /\ m \in TagRequest /\ m.op = "add" /\ m.at = "find" /\ m.copy = cp /\ m.id = None
      /\ m.names = <<k>> /\ m.deletes = {}
  <2>1. /\ o \in TagRequest /\ o.op = "add" /\ o.at = "find" /\ o.copy = cp /\ o.id = None
        /\ o.deletes = {}
    BY OnTagFields DEF TagStep
  <2> HIDE DEF o
  <2> QED
    BY <1>2, <2>1 DEF TagRequest
<1>4. TagCall(c, m) /\ UNCHANGED tagPage
  BY <1>1
<1> HIDE DEF m
<1>5. TagCallFits(m)
  BY <1>2, <1>3 DEF TagCallFits
<1> QED
  BY <1>3, <1>4, <1>5, TagCallKeeps

LEMMA hydrateSystemTagsKeeps ==
    ASSUME TagsInv, NEW c \in Call, hydrateSystemTagsForBook(c)
    PROVE  AllLeft(c)
<1>1. PICK names \in SetToSeqs(TagKey) :
        TagCall(c, [OnTag("system", "find", None, None) EXCEPT !.names = names]) /\ UNCHANGED tagPage
  BY DEF hydrateSystemTagsForBook
<1> DEFINE o == OnTag("system", "find", None, None)
           m == [o EXCEPT !.names = names]
<1>2. names \in Seq(TagKey) /\ names # <<>>
  BY NamesInOrder
<1>3. /\ m \in TagRequest /\ m.op = "system" /\ m.at = "find" /\ m.copy = None /\ m.id = None
      /\ m.names = names /\ m.deletes = {}
  <2>1. /\ o \in TagRequest /\ o.op = "system" /\ o.at = "find" /\ o.copy = None /\ o.id = None
        /\ o.deletes = {}
    BY OnTagFields DEF TagStep
  <2> HIDE DEF o
  <2> QED
    BY <1>2, <2>1 DEF TagRequest
<1>4. TagCall(c, m) /\ UNCHANGED tagPage
  BY <1>1
<1> HIDE DEF m
<1>5. TagCallFits(m)
  BY <1>2, <1>3 DEF TagCallFits
<1> QED
  BY <1>3, <1>4, <1>5, TagCallKeeps

LEMMA promoteSuggestedTagKeeps ==
    ASSUME TagsInv, NEW c \in Call, promoteSuggestedTag(c)
    PROVE  AllLeft(c)
<1>1. PICK cp \in TagCopy, id \in bookTags :
        TagCall(c, OnTag("promote", "suggested", cp, id)) /\ UNCHANGED tagPage
  BY DEF promoteSuggestedTag
<1>2. id \in TagId
  BY DEF TagsInv, TagTypes
<1> DEFINE m == OnTag("promote", "suggested", cp, id)
<1>3. /\ m \in TagRequest /\ m.op = "promote" /\ m.at = "suggested" /\ m.copy = cp /\ m.id = id
      /\ m.deletes = {} /\ m.names = <<>>
  BY <1>2, OnTagFields DEF TagStep
<1>4. TagCall(c, m) /\ UNCHANGED tagPage
  BY <1>1
<1> HIDE DEF m
<1>5. TagCallFits(m)
  BY <1>2, <1>3 DEF TagCallFits
<1> QED
  BY <1>3, <1>4, <1>5, TagCallKeeps

LEMMA deleteTagKeeps ==
    ASSUME TagsInv, NEW c \in Call, deleteTag(c)
    PROVE  AllLeft(c)
<1>1. PICK link \in copyTags :
        TagCall(c, OnTag("delete", "unlink", link[1], link[2])) /\ UNCHANGED tagPage
  BY DEF deleteTag
<1>2. link[1] \in TagCopy /\ link[2] \in TagId
  BY DEF TagsInv, TagTypes
<1> DEFINE m == OnTag("delete", "unlink", link[1], link[2])
<1>3. /\ m \in TagRequest /\ m.op = "delete" /\ m.at = "unlink" /\ m.copy = link[1] /\ m.id = link[2]
      /\ m.deletes = {}
  BY <1>2, OnTagFields DEF TagStep
<1>4. TagCall(c, m) /\ UNCHANGED tagPage
  BY <1>1
<1> HIDE DEF m
<1>5. TagCallFits(m)
  BY <1>2, <1>3 DEF TagCallFits
<1> QED
  BY <1>3, <1>4, <1>5, TagCallKeeps

LEMMA saveChangesKeeps ==
    ASSUME TagsInv, NEW c \in Call, saveChanges(c)
    PROVE  AllLeft(c)
<1> DEFINE m == [OnTag("batch", "read", DialogCopy, None) EXCEPT
                   !.deletes = tagsShown.tags \ dialog.tags,
                   !.promotes = dialog.tags \ tagsShown.tags,
                   !.names = SetToSeq(dialog.names)]
<1>1. /\ tagsShown.tags \in SUBSET TagId
      /\ dialog.tags \in SUBSET TagId /\ dialog.names \in SUBSET TagKey
  BY DEF saveChanges, TagsInv, TagTypes
<1>2. SetToSeq(dialog.names) \in Seq(TagKey)
  BY <1>1, ChosenNames
<1>3. OnTag("batch", "read", DialogCopy, None) \in TagRequest /\ DialogCopy \in TagCopy
  BY OnTagFields, TagAssumption DEF TagStep
<1>4. m \in TagRequest
  BY <1>1, <1>2, <1>3 DEF TagRequest
<1>5. m.op = "batch" /\ m.at = "read" /\ m.copy = DialogCopy
  BY DEF OnTag
<1>6. TagCall(c, m) /\ UNCHANGED tagPage
  BY DEF saveChanges
<1> HIDE DEF m
<1>7. TagCallFits(m)
  BY <1>3, <1>5 DEF TagCallFits
<1> QED
  BY <1>4, <1>5, <1>6, <1>7, TagCallKeeps

LEMMA FindTagKeeps ==
    ASSUME TagsInv, NEW c \in Call, FindTag(c)
    PROVE  AllLeft(c)
<1> USE TagNulls
<1> DEFINE call == tagCalls[c]
           row == tagRows[Head(call.names)]
           m == [call EXCEPT !.at = IF row = None THEN "create" ELSE "link", !.id = row]
<1>1. call # None /\ call.at = "find" /\ call \in TagRequest /\ TagCallFits(call)
  BY TagAtStep DEF FindTag, TagCallIs
<1>2. call.names # <<>> /\ Head(call.names) \in TagKey
  BY <1>1, TagRequestFields, NamesFacts DEF TagCallFits
<1>3. row \in TagId \cup {None} /\ (row # None => tagRows[row[1]] = row)
  BY <1>2 DEF TagsInv, TagTypes
<1>4. TagGoes(c, m)
  BY DEF FindTag
<1>5. /\ m \in TagRequest /\ m.op = call.op /\ m.copy = call.copy /\ m.names = call.names
      /\ m.deletes = call.deletes /\ m.id = row /\ m.at = IF row = None THEN "create" ELSE "link"
  BY <1>1, <1>3 DEF TagRequest, TagStep
<1>6. UNCHANGED tagTables /\ UNCHANGED <<tagLost, nameRefused>>
  BY DEF FindTag
<1>7. tagRows' = tagRows
  BY <1>6 DEF tagTables
<1> HIDE DEF m
<1>8. TagCallFits(m)
  BY <1>1, <1>2, <1>3, <1>5 DEF TagCallFits
<1>9. Finds(m, tagRows')
  BY <1>3, <1>5, <1>7 DEF Finds
<1> QED
  BY <1>4, <1>5, <1>6, <1>8, <1>9, TagGoesLeaves, TagTablesStay, TagFlagsStay DEF AllLeft

LEMMA CreateTagKeeps ==
    ASSUME TagsInv, NEW c \in Call, CreateTag(c)
    PROVE  AllLeft(c)
<1> USE TagNulls
<1> DEFINE call == tagCalls[c]
           k == Head(call.names)
           m == [call EXCEPT !.at = "resolve"]
<1>1. call # None /\ call.at = "create" /\ call \in TagRequest /\ TagCallFits(call)
  BY TagAtStep DEF CreateTag, TagCallIs
<1>2. call.names # <<>> /\ k \in TagKey
  BY <1>1, TagRequestFields, NamesFacts DEF TagCallFits
<1>3. /\ m \in TagRequest /\ m.op = call.op /\ m.copy = call.copy /\ m.names = call.names
      /\ m.deletes = call.deletes /\ m.id = call.id /\ m.at = "resolve"
  BY <1>1 DEF TagRequest, TagStep
<1>4. TagGoes(c, m) /\ UNCHANGED <<copyTags, bookTags, tagLost, nameRefused>>
  BY DEF CreateTag
<1> HIDE DEF m
<1>5. TagCallFits(m)
  BY <1>1, <1>2, <1>3 DEF TagCallFits
<1>6. /\ tagRows \in [TagKey -> TagId \cup {None}] /\ tagIds \in [TagKey -> 0..MaxTagIds]
      /\ \A j \in TagKey : tagRows[j] # None => tagRows[j][1] = j
      /\ MaxTagIds \in Nat
  BY TagAssumption DEF TagsInv, TagTypes
<1>7. /\ RowsLeft /\ tagRows'[k] # None
      /\ \A j \in TagKey : tagRows[j] # None => tagRows'[j] = tagRows[j]
  <2>1. CASE tagRows[k] = None
    <3>1. /\ tagRows' = [tagRows EXCEPT ![k] = FreshTag(k)]
          /\ tagIds' = [tagIds EXCEPT ![k] = tagIds[k] + 1] /\ tagIds[k] < MaxTagIds
      BY <2>1 DEF CreateTag, Room
    <3>2. tagIds[k] + 1 \in 1..MaxTagIds
      BY <1>2, <1>6, <3>1
    <3>3. FreshTag(k) \in TagId /\ FreshTag(k)[1] = k /\ FreshTag(k) # None
      BY <1>2, <3>2, TagIds DEF FreshTag
    <3>4. tagIds' \in [TagKey -> 0..MaxTagIds]
      BY <1>2, <1>6, <3>1, <3>2
    <3> QED
      BY <1>2, <1>6, <2>1, <3>1, <3>3, <3>4 DEF RowsLeft
  <2>2. CASE tagRows[k] # None
    <3>1. UNCHANGED <<tagRows, tagIds>>
      BY <2>2 DEF CreateTag
    <3> QED
      BY <1>6, <2>2, <3>1 DEF RowsLeft
  <2> QED
    BY <2>1, <2>2
<1>8. LinksLeft
  BY <1>4, <1>7, TagIds DEF LinksLeft, LinksHold, TagExists, TagsInv, TagTypes
<1>9. Finds(m, tagRows')
  BY <1>3, <1>7 DEF Finds
<1> QED
  BY <1>3, <1>4, <1>5, <1>7, <1>8, <1>9, TagGoesLeaves, TagFlagsStay DEF AllLeft

LEMMA ResolveTagKeeps ==
    ASSUME TagsInv, NEW c \in Call, ResolveTag(c)
    PROVE  AllLeft(c)
<1> USE TagNulls
<1> DEFINE call == tagCalls[c]
           row == tagRows[Head(call.names)]
           m == [call EXCEPT !.at = "link", !.id = row]
<1>1. /\ call # None /\ call.at = "resolve" /\ call \in TagRequest /\ TagCallFits(call)
      /\ tagLost \/ Finds(call, tagRows)
  BY TagAtStep DEF ResolveTag, TagCallIs
<1>2. Head(call.names) \in TagKey
  BY <1>1, TagRequestFields, NamesFacts DEF TagCallFits
<1>3. row \in TagId \cup {None} /\ (row # None => tagRows[row[1]] = row)
  BY <1>2 DEF TagsInv, TagTypes
<1>4. CASE row = None /\ TagFails(c) /\ nameRefused' = TRUE
  <2>1. tagLost
    BY <1>1, <1>4 DEF Finds
  <2>2. FlagsLeft
    BY <1>4, <2>1 DEF FlagsLeft, TagFails
  <2> QED
    BY <1>4, <2>2, TagFailsLeaves DEF AllLeft
<1>5. CASE row # None /\ TagGoes(c, m) /\ UNCHANGED <<tagTables, tagLost, nameRefused>>
  <2>1. /\ m \in TagRequest /\ m.op = call.op /\ m.copy = call.copy /\ m.names = call.names
        /\ m.deletes = call.deletes /\ m.id = row /\ m.at = "link"
    BY <1>1, <1>3 DEF TagRequest, TagStep
  <2>2. UNCHANGED tagTables /\ tagRows' = tagRows /\ UNCHANGED <<tagLost, nameRefused>> /\ TagGoes(c, m)
    BY <1>5 DEF tagTables
  <2> HIDE DEF m
  <2>3. TagCallFits(m)
    BY <1>1, <1>3, <1>5, <2>1 DEF TagCallFits
  <2>4. Finds(m, tagRows')
    BY <1>3, <1>5, <2>1, <2>2 DEF Finds
  <2> QED
    BY <2>1, <2>2, <2>3, <2>4, TagGoesLeaves, TagTablesStay, TagFlagsStay DEF AllLeft
<1> QED
  BY <1>4, <1>5 DEF ResolveTag

LEMMA CheckSuggestedKeeps ==
    ASSUME TagsInv, NEW c \in Call, CheckSuggested(c)
    PROVE  AllLeft(c)
<1> DEFINE call == tagCalls[c]
           m == [call EXCEPT !.at = "link"]
<1>1. /\ call # None /\ call.at = "suggested" /\ call \in TagRequest /\ TagCallFits(call)
  BY TagAtStep DEF CheckSuggested, TagCallIs
<1>2. CASE call.id \in bookTags /\ TagGoes(c, m) /\ UNCHANGED <<tagTables, tagLost>> /\ UNCHANGED nameRefused
  <2>1. /\ m \in TagRequest /\ m.op = call.op /\ m.copy = call.copy /\ m.names = call.names
        /\ m.deletes = call.deletes /\ m.id = call.id /\ m.at = "link"
    BY <1>1 DEF TagRequest, TagStep
  <2>2. UNCHANGED tagTables /\ tagRows' = tagRows /\ UNCHANGED <<tagLost, nameRefused>> /\ TagGoes(c, m)
    BY <1>2 DEF tagTables
  <2>3. call.id \in TagId /\ tagRows[call.id[1]] = call.id
    BY <1>2 DEF TagsInv, TagTypes, LinksHold, TagExists
  <2> HIDE DEF m
  <2>4. TagCallFits(m)
    BY <1>1, <2>1, <2>3 DEF TagCallFits
  <2>5. Finds(m, tagRows')
    BY <2>1, <2>2, <2>3 DEF Finds
  <2> QED
    BY <2>1, <2>2, <2>4, <2>5, TagGoesLeaves, TagTablesStay, TagFlagsStay DEF AllLeft
<1>3. CASE TagFails(c) /\ UNCHANGED nameRefused
  BY <1>3, TagFailsLeaves, TagFlagsStay DEF AllLeft, TagFails
<1> QED
  BY <1>2, <1>3 DEF CheckSuggested

\* A link more, of a tag that exists.
LEMMA LinkAdded ==
    ASSUME TagsInv, UNCHANGED <<tagRows, tagIds>>, NEW id \in TagId, TagExists(id),
           \/ bookTags' = bookTags \cup {id} /\ UNCHANGED copyTags
           \/ \E cp \in TagCopy : copyTags' = copyTags \cup {<<cp, id>>} /\ UNCHANGED bookTags
    PROVE  RowsLeft /\ LinksLeft
BY DEF TagsInv, TagTypes, LinksHold, TagExists, RowsLeft, LinksLeft

LEMMA LinkTagKeeps ==
    ASSUME TagsInv, NEW c \in Call, LinkTag(c)
    PROVE  AllLeft(c)
<1> DEFINE call == tagCalls[c]
           m == [call EXCEPT !.at = "find", !.names = Tail(call.names)]
<1>1. /\ call # None /\ call.at = "link" /\ call \in TagRequest /\ TagCallFits(call)
      /\ tagLost \/ Finds(call, tagRows)
  BY TagAtStep DEF LinkTag, TagCallIs
<1>2. CASE ~TagExists(call.id)
  <2>1. tagLost /\ TagFails(c) /\ nameRefused' \in BOOLEAN
    BY <1>1, <1>2 DEF Finds, TagExists, LinkTag, TagsInv, TagTypes
  <2>2. FlagsLeft
    BY <2>1 DEF FlagsLeft, TagFails
  <2> QED
    BY <2>1, <2>2, TagFailsLeaves DEF AllLeft
<1>3. CASE TagExists(call.id)
  <2>1. /\ call.id \in TagId /\ call.op \in {"add", "system", "promote"}
        /\ call.op # "system" => call.copy \in TagCopy
        /\ call.op # "batch" => call.deletes = {}
    BY <1>1 DEF TagCallFits
  <2>2. /\ IF call.op = "system"
           THEN bookTags' = bookTags \cup {call.id} /\ UNCHANGED copyTags
           ELSE copyTags' = copyTags \cup {<<call.copy, call.id>>} /\ UNCHANGED bookTags
        /\ UNCHANGED <<tagRows, tagIds, tagLost, nameRefused>>
    BY <1>3 DEF LinkTag
  <2>3. RowsLeft /\ LinksLeft /\ FlagsLeft
    BY <1>3, <2>1, <2>2, LinkAdded, TagFlagsStay
  <2>4. CASE Len(call.names) > 1 /\ TagGoes(c, m)
    <3>1. call.names # <<>> /\ Tail(call.names) # <<>> /\ Tail(call.names) \in Seq(TagKey)
      BY <1>1, <2>4, TagRequestFields, NamesFacts
    <3>2. /\ m \in TagRequest /\ m.op = call.op /\ m.copy = call.copy /\ m.names = Tail(call.names)
          /\ m.deletes = call.deletes /\ m.id = call.id /\ m.at = "find"
      BY <1>1, <3>1 DEF TagRequest, TagStep
    <3>3. TagGoes(c, m)
      BY <2>4
    <3>4. call.op # "promote"
      BY <1>1, <3>1 DEF TagCallFits
    <3> HIDE DEF m
    <3>5. TagCallFits(m) /\ Finds(m, tagRows')
      BY <2>1, <3>1, <3>2, <3>4 DEF TagCallFits, Finds
    <3> QED
      BY <2>3, <3>2, <3>3, <3>5, TagGoesLeaves DEF AllLeft
  <2>5. CASE TagDone(c)
    BY <2>3, <2>5, TagDoneLeaves DEF AllLeft
  <2> QED
    BY <1>3, <2>4, <2>5 DEF LinkTag
<1> QED
  BY <1>2, <1>3

LEMMA ReadTagsKeeps ==
    ASSUME TagsInv, NEW c \in Call, ReadTags(c)
    PROVE  AllLeft(c)
<1> USE TagNulls
<1> DEFINE call == tagCalls[c]
           known == [k \in Range(call.names) |-> tagRows[k]]
           m == [call EXCEPT !.at = "write", !.known = known]
<1>1. /\ call # None /\ call.at = "read" /\ call \in TagRequest /\ TagCallFits(call)
  BY TagAtStep DEF ReadTags, TagCallIs
<1>2. CASE TagFails(c) /\ UNCHANGED nameRefused
  BY <1>2, TagFailsLeaves, TagFlagsStay DEF AllLeft, TagFails
<1>3. CASE /\ call.promotes \subseteq bookTags /\ TagGoes(c, m)
           /\ UNCHANGED <<tagTables, tagLost>> /\ UNCHANGED nameRefused
  <2>1. Range(call.names) \in SUBSET TagKey
    BY <1>1, TagRequestFields, NamesFacts
  <2>2. /\ known \in [Range(call.names) -> TagId \cup {None}]
        /\ \A k \in Range(call.names) : known[k] = tagRows[k]
    BY <2>1 DEF TagsInv, TagTypes
  <2>3. known \in UNION {[keys -> TagId \cup {None}] : keys \in SUBSET TagKey}
    BY <2>1, <2>2
  <2> HIDE DEF known
  <2>4. /\ m \in TagRequest /\ m.op = call.op /\ m.copy = call.copy /\ m.names = call.names
        /\ m.deletes = call.deletes /\ m.promotes = call.promotes /\ m.id = call.id
        /\ m.at = "write" /\ m.known = known
    BY <1>1, <2>3 DEF TagRequest, TagStep
  <2>5. UNCHANGED tagTables /\ tagRows' = tagRows /\ UNCHANGED <<tagLost, nameRefused>>
    BY <1>3 DEF tagTables
  <2>6. \A id \in call.promotes : tagRows[id[1]] = id
    BY <1>3 DEF TagsInv, LinksHold, TagExists
  <2>7. TagGoes(c, m)
    BY <1>3 DEF known
  <2> HIDE DEF m
  <2>8. TagCallFits(m)
    BY <1>1, <2>2, <2>4 DEF TagCallFits
  <2>9. Finds(m, tagRows')
    BY <2>2, <2>4, <2>5, <2>6 DEF Finds
  <2> QED
    BY <2>4, <2>5, <2>7, <2>8, <2>9, TagGoesLeaves, TagTablesStay, TagFlagsStay DEF AllLeft
<1> QED
  BY <1>2, <1>3 DEF ReadTags

\* The rows after the missing names are inserted: those there were, and new ones.
LEMMA RowsAfterFacts ==
    ASSUME TagsInv, NEW call \in TagRequest
    PROVE  /\ RowsAfter(call) \in [TagKey -> (TagKey \X Nat) \cup {None}]
           /\ \A k \in TagKey : tagRows[k] # None => RowsAfter(call)[k] = tagRows[k]
           /\ \A k \in TagKey : tagRows[k] = None => RowsAfter(call)[k] \in {None, FreshTag(k)}
           /\ \A k \in TagKey : FreshTag(k) # None /\ FreshTag(k)[1] = k
           /\ \A k \in TagKey : k \in Range(call.names) /\ call.known[k] = None => RowsAfter(call)[k] # None
<1> USE TagNulls
<1>1. \A k \in TagKey : tagRows[k] \in TagId \cup {None} /\ tagIds[k] + 1 \in Nat
  BY TagAssumption DEF TagsInv, TagTypes
<1>2. \A k \in TagKey : FreshTag(k) \in TagKey \X Nat /\ FreshTag(k) # None /\ FreshTag(k)[1] = k
  BY <1>1 DEF FreshTag
<1>3. TagId \subseteq TagKey \X Nat
  BY TagAssumption DEF TagId
<1> QED
  BY <1>1, <1>2, <1>3 DEF RowsAfter

LEMMA batchUpdateTagsKeeps ==
    ASSUME TagsInv, NEW c \in Call, batchUpdateTags(c)
    PROVE  AllLeft(c)
<1> USE TagNulls
<1> DEFINE call == tagCalls[c]
           rows == RowsAfter(call)
           linked == {rows[k] : k \in Range(call.names)}
           ok == \A id \in call.promotes \cup linked : id # None /\ rows[id[1]] = id
<1>1. /\ call # None /\ call.at = "write" /\ call \in TagRequest /\ TagCallFits(call)
      /\ tagLost \/ Finds(call, tagRows)
  BY TagAtStep DEF batchUpdateTags, TagCallIs
<1>2. /\ Range(call.names) \subseteq TagKey /\ call.promotes \in SUBSET TagId /\ call.copy \in TagCopy
  BY <1>1, TagRequestFields, NamesFacts DEF TagCallFits
<1>3. /\ rows \in [TagKey -> (TagKey \X Nat) \cup {None}]
      /\ \A k \in TagKey : tagRows[k] # None => rows[k] = tagRows[k]
      /\ \A k \in TagKey : tagRows[k] = None => rows[k] \in {None, FreshTag(k)}
      /\ \A k \in TagKey : FreshTag(k) # None /\ FreshTag(k)[1] = k
      /\ \A k \in TagKey : k \in Range(call.names) /\ call.known[k] = None => rows[k] # None
  BY <1>1, RowsAfterFacts
<1>4. /\ tagRows \in [TagKey -> TagId \cup {None}] /\ tagIds \in [TagKey -> 0..MaxTagIds]
      /\ \A k \in TagKey : tagRows[k] # None => tagRows[k][1] = k
      /\ MaxTagIds \in Nat
  BY TagAssumption DEF TagsInv, TagTypes
<1>5. \/ ok /\ /\ \A k \in TagKey : rows[k] # tagRows[k] => tagIds[k] < MaxTagIds
               /\ tagRows' = rows
               /\ tagIds' = [k \in TagKey |-> tagIds[k] + (IF rows[k] # tagRows[k] THEN 1 ELSE 0)]
               /\ copyTags' = (copyTags \ {<<call.copy, id>> : id \in call.deletes})
                                \cup {<<call.copy, id>> : id \in call.promotes \cup linked}
               /\ TagDone(c)
               /\ UNCHANGED <<bookTags, tagLost, nameRefused>>
      \/ ~ok /\ TagFails(c) /\ nameRefused' = (nameRefused \/ call.names # <<>>)
  BY DEF batchUpdateTags, LinkedTo, Room
<1> HIDE DEF rows
<1>6. CASE /\ ok
           /\ \A k \in TagKey : rows[k] # tagRows[k] => tagIds[k] < MaxTagIds
           /\ tagRows' = rows
           /\ tagIds' = [k \in TagKey |-> tagIds[k] + (IF rows[k] # tagRows[k] THEN 1 ELSE 0)]
           /\ copyTags' = (copyTags \ {<<call.copy, id>> : id \in call.deletes})
                            \cup {<<call.copy, id>> : id \in call.promotes \cup linked}
           /\ TagDone(c)
           /\ UNCHANGED <<bookTags, tagLost, nameRefused>>
  <2>1. ASSUME NEW k \in TagKey
        PROVE  rows[k] \in TagId \cup {None} /\ (rows[k] # None => rows[k][1] = k)
               /\ tagIds[k] + (IF rows[k] # tagRows[k] THEN 1 ELSE 0) \in 0..MaxTagIds
    <3>1. CASE rows[k] = tagRows[k]
      BY <1>4, <3>1
    <3>2. CASE rows[k] # tagRows[k]
      <4>1. tagIds[k] < MaxTagIds /\ tagIds[k] \in 0..MaxTagIds
        BY <1>4, <1>6, <3>2
      <4>2. rows[k] = FreshTag(k)
        BY <1>3, <3>2
      <4>3. tagIds[k] + 1 \in 1..MaxTagIds
        BY <1>4, <4>1
      <4>4. FreshTag(k) \in TagId
        BY <4>3, TagIds DEF FreshTag
      <4> QED
        BY <1>3, <1>4, <3>2, <4>2, <4>3, <4>4
    <3> QED
      BY <3>1, <3>2
  <2>2. tagRows' \in [TagKey -> TagId \cup {None}] /\ tagIds' \in [TagKey -> 0..MaxTagIds]
    BY <1>3, <1>6, <2>1
  <2>3. RowsLeft
    BY <1>3, <1>6, <2>1, <2>2 DEF RowsLeft
  <2>4. \A id \in call.promotes \cup linked : id \in TagId /\ tagRows'[id[1]] = id
    <3>1. \A id \in linked : id \in TagId \cup {None}
      BY <1>2, <2>1
    <3> QED
      BY <1>2, <1>6, <3>1
  <2>5. \A id \in TagId : tagRows[id[1]] = id => tagRows'[id[1]] = id
    BY <1>3, <1>6, TagIds
  <2>6. copyTags' \in SUBSET (TagCopy \X TagId)
    BY <1>2, <1>6, <2>4 DEF TagsInv, TagTypes
  <2>7. \A l \in copyTags' : tagRows'[l[2][1]] = l[2]
    <3> SUFFICES ASSUME NEW l \in copyTags' PROVE tagRows'[l[2][1]] = l[2]
      OBVIOUS
    <3>1. CASE l \in copyTags
      BY <2>5, <3>1 DEF TagsInv, TagTypes, LinksHold, TagExists
    <3>2. CASE l \in {<<call.copy, id>> : id \in call.promotes \cup linked}
      BY <2>4, <3>2
    <3> QED
      BY <1>6, <3>1, <3>2
  <2>8. bookTags' \in SUBSET TagId /\ \A id \in bookTags' : tagRows'[id[1]] = id
    BY <1>6, <2>5 DEF TagsInv, TagTypes, LinksHold, TagExists
  <2>9. LinksLeft
    BY <2>6, <2>7, <2>8 DEF LinksLeft, LinksHold, TagExists
  <2> QED
    BY <1>6, <2>3, <2>9, TagFlagsStay, TagDoneLeaves DEF AllLeft
<1>7. CASE ~ok /\ TagFails(c) /\ nameRefused' = (nameRefused \/ call.names # <<>>)
  <2>1. ASSUME ~tagLost PROVE ok
    <3>1. Finds(call, tagRows)
      BY <1>1, <2>1
    <3>2. \A id \in call.promotes : id # None /\ rows[id[1]] = id
      BY <1>1, <1>2, <1>3, <3>1, TagIds DEF Finds
    <3>3. ASSUME NEW k \in Range(call.names)
          PROVE  rows[k] # None /\ rows[rows[k][1]] = rows[k]
      <4>1. k \in TagKey /\ rows[k] # None
        <5>1. k \in TagKey /\ (call.known[k] # None => tagRows[k] # None)
          BY <1>1, <1>2, <3>1, <3>3 DEF Finds
        <5> QED
          BY <1>3, <3>3, <5>1
      <4>2. rows[k][1] = k
        BY <1>3, <1>4, <4>1
      <4> QED
        BY <4>1, <4>2
    <3> QED
      BY <3>2, <3>3
  <2>2. tagLost
    BY <1>7, <2>1 DEF TagsInv, TagTypes
  <2>3. FlagsLeft
    BY <1>7, <2>2 DEF FlagsLeft, TagFails
  <2> QED
    BY <1>7, <2>3, TagFailsLeaves DEF AllLeft
<1> QED
  BY <1>5, <1>6, <1>7

LEMMA UnlinkKeeps ==
    ASSUME TagsInv, NEW c \in Call, Unlink(c)
    PROVE  AllLeft(c)
<1> DEFINE call == tagCalls[c]
           m == [call EXCEPT !.at = "collect"]
<1>1. /\ call # None /\ call.at = "unlink" /\ call \in TagRequest /\ TagCallFits(call)
  BY TagAtStep DEF Unlink, TagCallIs
<1>2. copyTags' \subseteq copyTags /\ UNCHANGED <<tagRows, tagIds, bookTags, tagLost, nameRefused>>
  BY DEF Unlink
<1>3. RowsLeft /\ LinksLeft /\ FlagsLeft
  BY <1>2, TagFlagsStay DEF RowsLeft, LinksLeft, LinksHold, TagExists, TagsInv, TagTypes
<1>4. CASE TagGoes(c, m)
  <2>1. /\ m \in TagRequest /\ m.op = call.op /\ m.copy = call.copy /\ m.names = call.names
        /\ m.deletes = call.deletes /\ m.id = call.id /\ m.at = "collect"
    BY <1>1 DEF TagRequest, TagStep
  <2>2. TagGoes(c, m)
    BY <1>4
  <2> HIDE DEF m
  <2>3. TagCallFits(m) /\ Finds(m, tagRows')
    BY <1>1, <2>1 DEF TagCallFits, Finds
  <2> QED
    BY <1>3, <2>1, <2>2, <2>3, TagGoesLeaves DEF AllLeft
<1>5. CASE TagDone(c)
  BY <1>3, <1>5, TagDoneLeaves DEF AllLeft
<1> QED
  BY <1>4, <1>5 DEF Unlink

\* A tag that is collected is unused, so that no link goes with it.
LEMMA CollectTagKeeps ==
    ASSUME TagsInv, NEW c \in Call, CollectTag(c)
    PROVE  AllLeft(c) /\ copyTags' = copyTags
<1> USE TagNulls
<1> DEFINE id == tagCalls[c].id
<1>1. TagDone(c) /\ UNCHANGED <<tagIds, nameRefused>> /\ id \in TagId
  BY TagAtStep DEF CollectTag, TagCallIs, TagCallFits
<1>2. CASE UNCHANGED <<tagRows, copyTags, bookTags, tagLost>>
  BY <1>1, <1>2, TagTablesStay, TagFlagsStay, TagDoneLeaves DEF AllLeft, tagTables
<1>3. CASE /\ TagExists(id) /\ Unused(id)
           /\ tagRows' = [tagRows EXCEPT ![id[1]] = None]
           /\ copyTags' = {l \in copyTags : l[2] # id}
           /\ bookTags' = bookTags \ {id}
           /\ tagLost' = TRUE
  <2>1. copyTags' = copyTags /\ bookTags' = bookTags
    BY <1>3 DEF Unused
  <2>2. \A other \in TagId : other # id /\ tagRows[other[1]] = other => tagRows'[other[1]] = other
    BY <1>1, <1>3, TagIds DEF TagExists, TagsInv, TagTypes
  <2>3. LinksLeft
    <3>1. \A l \in copyTags : l[2] \in TagId /\ l[2] # id /\ tagRows[l[2][1]] = l[2]
      BY <1>3 DEF Unused, TagsInv, TagTypes, LinksHold, TagExists
    <3>2. \A other \in bookTags : other \in TagId /\ other # id /\ tagRows[other[1]] = other
      BY <1>3 DEF Unused, TagsInv, TagTypes, LinksHold, TagExists
    <3> QED
      BY <2>1, <2>2, <3>1, <3>2 DEF LinksLeft, LinksHold, TagExists, TagsInv, TagTypes
  <2>4. RowsLeft
    BY <1>1, <1>3, TagIds DEF RowsLeft, TagsInv, TagTypes
  <2>5. FlagsLeft
    BY <1>1, <1>3 DEF FlagsLeft, TagsInv, TagTypes
  <2> QED
    BY <1>1, <2>1, <2>3, <2>4, <2>5, TagDoneLeaves DEF AllLeft
<1> QED
  BY <1>2, <1>3 DEF CollectTag

\* The page reads the tags anew.
LEMMA ReloadTagsKeeps ==
    ASSUME TagsInv, ReloadTags
    PROVE  TagsInv'
<1>1. TagOf(DialogCopy) \in SUBSET TagId /\ bookTags \in SUBSET TagId
  BY DEF TagsInv, TagTypes, TagOf
<1>2. UNCHANGED <<tagTables, tagCalls, dialog, tagLost, nameRefused, tagOps>>
      /\ tagsShown' \in [tags : SUBSET TagId, suggested : SUBSET TagId]
  BY <1>1 DEF ReloadTags
<1> QED
  BY <1>2 DEF TagsInv, TagTypes, LinksHold, TagExists, TagCallFits, Finds, tagTables

\* The dialog alone changes.
LEMMA ChosenKeeps ==
    ASSUME TagsInv, NEW m \in [tags : SUBSET TagId, names : SUBSET TagKey, suggested : SUBSET TagId], Chosen(m)
    PROVE  TagsInv'
BY DEF TagsInv, TagTypes, LinksHold, TagExists, TagCallFits, Finds, tagTables, Chosen

LEMMA OpenTagsKeeps ==
    ASSUME TagsInv, OpenTags
    PROVE  TagsInv'
<1> DEFINE m == [tags |-> tagsShown.tags, names |-> {}, suggested |-> tagsShown.suggested]
<1>1. m \in [tags : SUBSET TagId, names : SUBSET TagKey, suggested : SUBSET TagId]
  BY DEF TagsInv, TagTypes
<1>2. Chosen(m)
  BY DEF OpenTags
<1> HIDE DEF m
<1> QED
  BY <1>1, <1>2, ChosenKeeps

LEMMA ChooseTagsKeeps ==
    ASSUME TagsInv, ChooseTags
    PROVE  TagsInv'
<1> DEFINE DialogStates == [tags : SUBSET TagId, names : SUBSET TagKey, suggested : SUBSET TagId]
<1>1. dialog \in DialogStates
  BY DEF TagsInv, TagTypes, ChooseTags
<1>2. ASSUME NEW id \in dialog.suggested \ dialog.tags
      PROVE  [dialog EXCEPT !.tags = @ \cup {id}] \in DialogStates
  BY <1>1
<1>3. ASSUME NEW id \in dialog.tags
      PROVE  [dialog EXCEPT !.tags = @ \ {id}, !.suggested = @ \cup {id}] \in DialogStates
  BY <1>1
<1>4. ASSUME NEW k \in TagKey
      PROVE  [dialog EXCEPT !.names = @ \cup {k}] \in DialogStates
  BY <1>1
<1>5. \E m \in DialogStates : Chosen(m)
  BY <1>2, <1>3, <1>4 DEF ChooseTags
<1> QED
  BY <1>5, ChosenKeeps

-----------------------------------------------------------------------------
(* The tags altogether                                                     *)

LEMMA TagsKeeps ==
    ASSUME TagsInv, [TagsNext]_tagVars
    PROVE  TagsInv'
<1>1. ASSUME NEW c \in Call, AllLeft(c) PROVE TagsInv'
  BY <1>1, TagStepKeeps DEF AllLeft
<1>2. CASE UNCHANGED tagVars
  BY <1>2 DEF tagVars, TagsInv, TagTypes, LinksHold, TagExists, TagCallFits, Finds
<1>3. CASE ReloadTags \/ OpenTags \/ ChooseTags
  BY <1>3, ReloadTagsKeeps, OpenTagsKeeps, ChooseTagsKeeps
<1>4. ASSUME NEW c \in Call,
             \/ addUserTag(c) \/ hydrateSystemTagsForBook(c) \/ promoteSuggestedTag(c)
             \/ deleteTag(c) \/ saveChanges(c)
      PROVE  TagsInv'
  BY <1>1, <1>4, addUserTagKeeps, hydrateSystemTagsKeeps, promoteSuggestedTagKeeps, deleteTagKeeps, saveChangesKeeps
<1>5. ASSUME NEW c \in Call, FindTag(c) \/ CreateTag(c) \/ ResolveTag(c) \/ CheckSuggested(c) \/ LinkTag(c)
      PROVE  TagsInv'
  BY <1>1, <1>5, FindTagKeeps, CreateTagKeeps, ResolveTagKeeps, CheckSuggestedKeeps, LinkTagKeeps
<1>6. ASSUME NEW c \in Call, ReadTags(c) \/ batchUpdateTags(c) \/ Unlink(c) \/ CollectTag(c)
      PROVE  TagsInv'
  BY <1>1, <1>6, ReadTagsKeeps, batchUpdateTagsKeeps, UnlinkKeeps, CollectTagKeeps
<1> QED
  BY <1>2, <1>3, <1>4, <1>5, <1>6 DEF TagsNext

LEMMA TagsBegin == TagsInit => TagsInv
<1> SUFFICES ASSUME TagsInit PROVE TagsInv
  OBVIOUS
<1> USE TagNulls
<1> DEFINE k == CHOOSE name \in TagKey : TRUE
<1>1. k \in TagKey
  BY TagAssumption
<1>2. /\ copyTags \in {{}, {<<DialogCopy, <<k, 1>>>>}}
      /\ bookTags \in {{}, {<<k, 1>>}}
      /\ tagIds = [name \in TagKey |-> IF name = k /\ (copyTags # {} \/ bookTags # {}) THEN 1 ELSE 0]
  BY DEF TagsInit
<1> HIDE DEF k
<1>3. <<k, 1>> \in TagId /\ <<k, 1>>[1] = k /\ MaxTagIds \in Nat \ {0}
  BY <1>1, TagIds, TagAssumption
<1>4. tagIds \in [TagKey -> 0..MaxTagIds] /\ \A name \in TagKey : tagIds[name] \in {0, 1}
  BY <1>2, <1>3
<1>5. /\ tagRows \in [TagKey -> TagId \cup {None}]
      /\ \A name \in TagKey : tagRows[name] = IF tagIds[name] = 1 THEN <<name, 1>> ELSE None
  BY <1>3, TagIds DEF TagsInit
<1>6. \A name \in TagKey : tagRows[name] # None => tagRows[name][1] = name
  BY <1>5
<1>7. /\ copyTags \in SUBSET (TagCopy \X TagId) /\ bookTags \in SUBSET TagId
      /\ \A l \in copyTags : l[2] = <<k, 1>> /\ tagIds[k] = 1
      /\ \A id \in bookTags : id = <<k, 1>> /\ tagIds[k] = 1
  BY <1>1, <1>2, <1>3, TagAssumption
<1>8. LinksHold
  BY <1>1, <1>3, <1>5, <1>7 DEF LinksHold, TagExists
<1>9. /\ tagCalls = [c \in Call |-> None] /\ tagLost = FALSE /\ nameRefused = FALSE /\ tagOps = 0
      /\ tagsShown = [tags |-> TagOf(DialogCopy), suggested |-> bookTags] /\ dialog = None
  BY DEF TagsInit
<1>10. tagsShown \in [tags : SUBSET TagId, suggested : SUBSET TagId]
  BY <1>7, <1>9 DEF TagOf
<1>11. TagTypes
  BY <1>4, <1>5, <1>6, <1>7, <1>9, <1>10 DEF TagTypes
<1> QED
  BY <1>8, <1>9, <1>11 DEF TagsInv

\* Links go only where a reader takes them off the copy.
LEMMA LinksGo ==
    ASSUME TagsInv, [TagsNext]_tagVars, NEW l \in copyTags \ copyTags'
    PROVE  \E c \in Call :
             /\ tagCalls[c] # None
             /\ tagCalls'[c] # tagCalls[c]
             /\ tagCalls[c].copy = l[1]
             /\ (tagCalls[c].op = "delete" /\ tagCalls[c].id = l[2]) \/ l[2] \in tagCalls[c].deletes
<1> USE TagNulls
<1>1. copyTags' # copyTags
  OBVIOUS
<1>2. CASE UNCHANGED tagVars \/ ReloadTags \/ OpenTags \/ ChooseTags
  BY <1>1, <1>2 DEF tagVars, ReloadTags, OpenTags, ChooseTags, Chosen, tagTables
<1>3. ASSUME NEW c \in Call,
             \/ addUserTag(c) \/ hydrateSystemTagsForBook(c) \/ promoteSuggestedTag(c)
             \/ deleteTag(c) \/ saveChanges(c)
      PROVE  FALSE
  BY <1>1, <1>3 DEF addUserTag, hydrateSystemTagsForBook, promoteSuggestedTag, deleteTag, saveChanges, TagCall, tagTables
<1>4. ASSUME NEW c \in Call, FindTag(c) \/ CreateTag(c) \/ ResolveTag(c) \/ CheckSuggested(c) \/ ReadTags(c)
      PROVE  FALSE
  BY <1>1, <1>4 DEF FindTag, CreateTag, ResolveTag, CheckSuggested, ReadTags, TagFails, tagTables
<1>5. ASSUME NEW c \in Call, LinkTag(c)
      PROVE  FALSE
  <2>1. copyTags \subseteq copyTags'
    BY <1>5 DEF LinkTag, TagFails, tagTables
  <2> QED
    BY <2>1
<1>6. ASSUME NEW c \in Call, CollectTag(c)
      PROVE  FALSE
  BY <1>1, <1>6, CollectTagKeeps
<1>7. ASSUME NEW c \in Call, batchUpdateTags(c)
      PROVE  /\ tagCalls[c] # None /\ tagCalls'[c] # tagCalls[c]
             /\ tagCalls[c].copy = l[1] /\ l[2] \in tagCalls[c].deletes
  <2>1. tagCalls[c] # None /\ tagCalls \in [Call -> TagRequest \cup {None}]
    BY <1>7 DEF batchUpdateTags, TagCallIs, TagsInv, TagTypes
  <2>2. /\ TagDone(c)
        /\ \E linked : copyTags' = (copyTags \ {<<tagCalls[c].copy, id>> : id \in tagCalls[c].deletes}) \cup linked
    <3>1. ~TagFails(c)
      BY <1>1 DEF TagFails, tagTables
    <3> QED
      BY <1>7, <3>1 DEF batchUpdateTags
  <2>3. l \in {<<tagCalls[c].copy, id>> : id \in tagCalls[c].deletes}
    BY <2>2
  <2>4. tagCalls'[c] = None
    BY <2>1, <2>2 DEF TagDone
  <2> QED
    BY <2>1, <2>3, <2>4
<1>8. ASSUME NEW c \in Call, Unlink(c)
      PROVE  /\ tagCalls[c] # None /\ tagCalls'[c] # tagCalls[c]
             /\ tagCalls[c].copy = l[1] /\ tagCalls[c].op = "delete" /\ tagCalls[c].id = l[2]
  <2> DEFINE call == tagCalls[c]
             m == [call EXCEPT !.at = "collect"]
  <2>1. /\ call # None /\ call.at = "unlink" /\ call \in TagRequest /\ call.op = "delete"
    BY <1>8, TagAtStep DEF Unlink, TagCallIs, TagCallFits
  <2>2. copyTags' = copyTags \ {<<call.copy, call.id>>} /\ TagGoes(c, m)
    BY <1>1, <1>8 DEF Unlink
  <2>3. m.at = "collect"
    BY <2>1 DEF TagRequest
  <2>4. tagCalls'[c] = m
    BY <2>2 DEF TagGoes, TagsInv, TagTypes
  <2> HIDE DEF m
  <2>5. l = <<call.copy, call.id>>
    BY <2>2
  <2> QED
    BY <2>1, <2>3, <2>4, <2>5
<1> QED
  BY <1>2, <1>3, <1>4, <1>5, <1>6, <1>7, <1>8 DEF TagsNext

(* A tag leaves a copy only by a deletion of that tag from that copy: the  *)
(* collection of unused tags takes no link that another call has added.    *)
THEOREM TagsStayOnCopies == TagsSpec => TagsStay
<1>1. TagsInv /\ [TagsNext]_tagVars => TagsInv'
  BY TagsKeeps
<1>2. TagsInv /\ [TagsNext]_tagVars =>
        [\A l \in copyTags \ copyTags' : \E c \in Call :
            /\ tagCalls[c] # None
            /\ tagCalls'[c] # tagCalls[c]
            /\ tagCalls[c].copy = l[1]
            /\ (tagCalls[c].op = "delete" /\ tagCalls[c].id = l[2]) \/ l[2] \in tagCalls[c].deletes]_tagVars
  BY LinksGo
<1> QED
  BY <1>1, <1>2, TagsBegin, PTL DEF TagsSpec, TagsStay

(* Calls that add the same new name at the same time all succeed, unless a *)
(* tag was collected meanwhile.                                            *)
THEOREM EveryCreatorSaves == TagsSpec => []CreatorsAllSave
<1>1. TagsInv => CreatorsAllSave
  BY DEF TagsInv, CreatorsAllSave
<1>2. TagsInv /\ [TagsNext]_tagVars => TagsInv'
  BY TagsKeeps
<1> QED
  BY <1>1, <1>2, TagsBegin, PTL DEF TagsSpec

-----------------------------------------------------------------------------
(*************************** export and import *****************************)

\* What a copy may have in each state.
CopyFits(item) ==
    /\ item \in OwnCopy
    /\ Shelf \in item.refs => item.state = "owned"
    /\ item.kept = TRUE => item.state = "previously_owned"
    /\ item.rated = TRUE => item.state # "wishlisted"

FileRow == [id : Copy, edition : Edition, state : State, shared : BOOLEAN, labels : SUBSET (Entry \ {Shelf}),
            place : BOOLEAN, rated : BOOLEAN]

\* A row of a file is of a copy that has been, and of its edition for as long as the copy is there.
RowFits(row, own, unused) ==
    /\ row \in FileRow
    /\ row.rated = TRUE => row.state # "wishlisted"
    /\ row.id \notin unused
    /\ own[row.id] # None => own[row.id].edition = row.edition

\* Unless books have been added side by side, no two rows are of one edition.
FileFits(rows, own, unused, crossed) ==
    /\ rows \in Seq(FileRow)
    /\ \A n \in DOMAIN rows : RowFits(rows[n], own, unused)
    /\ crossed = TRUE \/ \A n, m \in DOMAIN rows : rows[n].edition = rows[m].edition => n = m

\* A file that says what the library still is.
TellsLibrary(rows, own) ==
    \A n \in DOMAIN rows : own[rows[n].id] # None /\ rows[n] = Row(rows[n].id, own[rows[n].id])

\* The copy a row will be written to, or that there is none.
MatchFits(call, own, unused, crossed) ==
    call.op = "import" /\ call.at = "write" /\ call.rows # <<>> =>
        /\ call.match # None => /\ call.match \notin unused
                                /\ own[call.match] # None => own[call.match].edition = Head(call.rows).edition
        /\ call.match = None => crossed = TRUE \/ \A k \in Copy : own[k] # None => own[k].edition # Head(call.rows).edition

\* A row of the file has its copy.
RestoredIn(own, row) == \E k \in Copy :
    /\ own[k] # None /\ own[k].edition = row.edition /\ own[k].state = row.state /\ own[k].rated = row.rated
    /\ own[k].refs = Wanted(row) /\ (row.state = "previously_owned" => own[k].kept = row.place)

\* An import that nothing has disturbed has restored the rows it has done.
RestoresSoFar(call, file, own) ==
    LET gone == Len(file.rows) - Len(call.rows) IN
    /\ gone >= 0
    /\ \A n \in DOMAIN call.rows : call.rows[n] = file.rows[gone + n]
    /\ \A n \in 1 .. gone : RestoredIn(own, file.rows[n])
    /\ call.at = "write" /\ call.rows # <<>> /\ call.match # None => own[call.match] # None

ACall == [op : {"export", "import"}, rows : Seq(FileRow), existing : BOOLEAN, restores : BOOLEAN, at : {"read", "write"},
          match : Copy \cup {None}, found : [Entry -> Nat], known : [Entry -> Nat]]

AFile == [rows : Seq(FileRow), library : [Copy -> OwnCopy \cup {None}] \cup {None}]

CallFits(call, own, unused, crossed, file) ==
    /\ call \in ACall
    /\ FileFits(call.rows, own, unused, crossed)
    /\ MatchFits(call, own, unused, crossed)
    /\ call.op = "export" /\ call.restores = TRUE => TellsLibrary(call.rows, own)
    /\ call.op = "import" /\ call.restores = TRUE /\ call.existing = FALSE /\ crossed = FALSE =>
          file # None /\ RestoresSoFar(call, file, own)

\* Over an unchanged library an import writes what is there.
WritesBack(call, own) ==
    call.op = "import" =>
        /\ TellsLibrary(call.rows, own)
        /\ call.at = "write" /\ call.rows # <<>> => call.match = Head(call.rows).id

LibraryKept(file, own, calls) == file # None /\ file.library # None =>
    /\ own = file.library /\ TellsLibrary(file.rows, own)
    /\ \A c \in Call : calls[c] # None => WritesBack(calls[c], own)

OneOfEach(own) == \A k, j \in Copy : own[k] # None /\ own[j] # None /\ own[k].edition = own[j].edition => k = j

TransferTypes ==
    /\ ownCopies \in [Copy -> OwnCopy \cup {None}] /\ fresh \subseteq Copy /\ sideBySide \in BOOLEAN
    /\ entries \in [Entry -> Nat] /\ lastEntry \in Nat
    /\ transfers \in [Call -> ACall \cup {None}] /\ exported \in AFile \cup {None}

CopiesHold(own, unused) == \A k \in Copy : own[k] # None => CopyFits(own[k]) /\ k \notin unused

TransferInv ==
    /\ TransferTypes
    /\ CopiesHold(ownCopies, fresh)
    /\ exported # None => FileFits(exported.rows, ownCopies, fresh, sideBySide)
    /\ \A c \in Call : transfers[c] # None => CallFits(transfers[c], ownCopies, fresh, sideBySide, exported)
    /\ LibraryKept(exported, ownCopies, transfers)
    /\ sideBySide = TRUE \/ OneOfEach(ownCopies)
    /\ unrestored = FALSE

-----------------------------------------------------------------------------
(***************************** sequences *********************************)

LEMMA InFile ==
    ASSUME NEW S, IsFiniteSet(S), S \subseteq FileRow
    PROVE  /\ SetToSeq(S) \in Seq(FileRow)
           /\ \A n \in DOMAIN SetToSeq(S) : SetToSeq(S)[n] \in S
           /\ \A n, m \in DOMAIN SetToSeq(S) : SetToSeq(S)[n] = SetToSeq(S)[m] => n = m
<1> DEFINE n == Cardinality(S)
<1>1. n \in Nat /\ ExistsBijection(1..n, S)
  BY FS_CardinalityType
<1>2. \E f \in [1..n -> S] : IsInjective(f)
  BY <1>1 DEF ExistsBijection, Bijection, Injection
<1>3. SetToSeq(S) \in [1..n -> S] /\ IsInjective(SetToSeq(S))
  BY <1>2 DEF SetToSeq
<1> HIDE DEF n
<1> QED
  BY <1>1, <1>3 DEF IsInjective

(****************** what the other steps leave to a call *******************)

\* The copies, ids and books added side by side before a step and after it.
Later(own, own2, unused, unused2, crossed, crossed2) ==
    /\ unused2 \subseteq unused /\ (crossed = TRUE => crossed2 = TRUE) /\ crossed2 \in BOOLEAN
    /\ \A k \in Copy : own2[k] # None => k \in unused \/ (own[k] # None /\ own2[k].edition = own[k].edition)
NoneAdded(own, own2) == \A k \in Copy : own2[k] # None => own[k] # None

LEMMA FileKept ==
    ASSUME NEW rows, NEW own, NEW own2, NEW unused, NEW unused2, NEW crossed, NEW crossed2,
           Later(own, own2, unused, unused2, crossed, crossed2), FileFits(rows, own, unused, crossed)
    PROVE  FileFits(rows, own2, unused2, crossed2)
<1>1. \A n \in DOMAIN rows : RowFits(rows[n], own2, unused2)
  BY DEF FileFits, RowFits, Later, FileRow
<1> QED
  BY <1>1 DEF FileFits, Later

LEMMA MatchKept ==
    ASSUME NEW call \in ACall, NEW own, NEW own2, NEW unused, NEW unused2, NEW crossed, NEW crossed2,
           Later(own, own2, unused, unused2, crossed, crossed2), MatchFits(call, own, unused, crossed),
           crossed2 = TRUE \/ call.op # "import" \/ NoneAdded(own, own2),
           \A k \in Copy : own[k] # None => k \notin unused
    PROVE  MatchFits(call, own2, unused2, crossed2)
<1>1. SUFFICES ASSUME call.op = "import", call.at = "write", call.rows # <<>>
      PROVE /\ call.match # None => /\ call.match \notin unused2
                                    /\ own2[call.match] # None => own2[call.match].edition = Head(call.rows).edition
            /\ call.match = None => crossed2 = TRUE
                                    \/ \A k \in Copy : own2[k] # None => own2[k].edition # Head(call.rows).edition
  BY DEF MatchFits
<1>2. call.match \in Copy \cup {None}
  BY DEF ACall
<1>3. ASSUME call.match # None
      PROVE  call.match \notin unused2 /\ (own2[call.match] # None => own2[call.match].edition = Head(call.rows).edition)
  BY <1>1, <1>2, <1>3 DEF MatchFits, Later
<1>4. ASSUME call.match = None, crossed2 # TRUE, NEW k \in Copy, own2[k] # None
      PROVE  own2[k].edition # Head(call.rows).edition
  <2>1. own[k] # None /\ own2[k].edition = own[k].edition /\ crossed # TRUE
    BY <1>1, <1>4 DEF Later, NoneAdded
  <2> QED
    BY <1>1, <1>4, <2>1 DEF MatchFits
<1> QED
  BY <1>3, <1>4

\* A call that no longer knows the library as it was.
Unsure(call) == [call EXCEPT !.restores = FALSE]

LEMMA UnsureFields ==
    ASSUME NEW call \in ACall
    PROVE  /\ Unsure(call) \in ACall /\ Unsure(call).restores = FALSE /\ Unsure(call).op = call.op
           /\ Unsure(call).rows = call.rows /\ Unsure(call).at = call.at /\ Unsure(call).match = call.match
           /\ Unsure(call).existing = call.existing
BY DEF Unsure, ACall

LEMMA UnsureKept ==
    ASSUME NEW call \in ACall, NEW own, NEW own2, NEW unused, NEW unused2, NEW crossed, NEW crossed2, NEW file, NEW file2,
           Later(own, own2, unused, unused2, crossed, crossed2), CallFits(call, own, unused, crossed, file),
           crossed2 = TRUE \/ call.op # "import" \/ NoneAdded(own, own2),
           \A k \in Copy : own[k] # None => k \notin unused
    PROVE  CallFits(Unsure(call), own2, unused2, crossed2, file2)
<1> DEFINE u == Unsure(call)
<1>1. /\ u \in ACall /\ u.restores = FALSE /\ u.op = call.op /\ u.rows = call.rows /\ u.at = call.at
      /\ u.match = call.match /\ u.existing = call.existing
  BY UnsureFields
<1>2. FileFits(u.rows, own2, unused2, crossed2)
  BY <1>1, FileKept DEF CallFits
<1>3. MatchFits(call, own2, unused2, crossed2)
  BY MatchKept DEF CallFits
<1> HIDE DEF u
<1>4. MatchFits(u, own2, unused2, crossed2)
  BY <1>1, <1>3 DEF MatchFits
<1> QED
  BY <1>1, <1>2, <1>4 DEF CallFits, u

LEMMA TransfersTouched ==
    ASSUME transfers \in [Call -> ACall \cup {None}]
    PROVE  /\ Touched(transfers) \in [Call -> ACall \cup {None}]
           /\ \A c \in Call : Touched(transfers)[c] = IF transfers[c] = None THEN None ELSE Unsure(transfers[c])
<1>1. \A c \in Call : transfers[c] # None => transfers[c] \in ACall
  OBVIOUS
<1>2. \A c \in Call : transfers[c] # None => Unsure(transfers[c]) \in ACall
  BY <1>1, UnsureFields
<1>3. Touched(transfers) = [c \in Call |-> IF transfers[c] = None THEN None ELSE Unsure(transfers[c])]
  BY DEF Touched, Unsure
<1> QED
  BY <1>2, <1>3

(********************* what the user does beside ***************************)

\* What a change by the user must keep.
OwnMoves ==
    /\ ownCopies' \in [Copy -> OwnCopy \cup {None}] /\ CopiesHold(ownCopies', fresh')
    /\ Later(ownCopies, ownCopies', fresh, fresh', sideBySide, sideBySide')
    /\ sideBySide' = TRUE \/ OneOfEach(ownCopies')
    /\ sideBySide' = TRUE \/ Importing = {} \/ NoneAdded(ownCopies, ownCopies')

LEMMA FileForgotten ==
    ASSUME exported \in AFile \cup {None},
           exported' = IF exported = None THEN None ELSE [exported EXCEPT !.library = None]
    PROVE  /\ exported' \in AFile \cup {None}
           /\ exported' # None => exported # None /\ exported'.rows = exported.rows /\ exported'.library = None
BY DEF AFile

LEMMA UserStep ==
    ASSUME TransferInv, UserDoes, OwnMoves, entries' \in [Entry -> Nat], lastEntry' \in Nat
    PROVE  TransferInv'
<1>0. /\ TransferTypes /\ CopiesHold(ownCopies, fresh) /\ unrestored = FALSE
      /\ exported # None => FileFits(exported.rows, ownCopies, fresh, sideBySide)
      /\ \A c \in Call : transfers[c] # None => CallFits(transfers[c], ownCopies, fresh, sideBySide, exported)
  BY DEF TransferInv
<1>1. /\ transfers' = Touched(transfers) /\ unrestored' = unrestored
      /\ exported' = IF exported = None THEN None ELSE [exported EXCEPT !.library = None]
  BY DEF UserDoes
<1>2. /\ transfers' \in [Call -> ACall \cup {None}]
      /\ \A c \in Call : transfers'[c] = IF transfers[c] = None THEN None ELSE Unsure(transfers[c])
  BY <1>0, <1>1, TransfersTouched DEF TransferTypes
<1>3. /\ exported' \in AFile \cup {None}
      /\ exported' # None => exported # None /\ exported'.rows = exported.rows /\ exported'.library = None
  BY <1>0, <1>1, FileForgotten DEF TransferTypes
<1>4. TransferTypes'
  BY <1>0, <1>2, <1>3 DEF TransferTypes, OwnMoves, Later
<1>5. exported' # None => FileFits(exported'.rows, ownCopies', fresh', sideBySide')
  BY <1>0, <1>3, FileKept DEF OwnMoves
<1>6. ASSUME NEW c \in Call, transfers'[c] # None
      PROVE  CallFits(transfers'[c], ownCopies', fresh', sideBySide', exported')
  <2>1. transfers[c] # None /\ transfers[c] \in ACall /\ transfers'[c] = Unsure(transfers[c])
    BY <1>0, <1>2, <1>6 DEF TransferTypes
  <2>2. CallFits(transfers[c], ownCopies, fresh, sideBySide, exported)
    BY <1>0, <2>1
  <2>3. sideBySide' = TRUE \/ transfers[c].op # "import" \/ NoneAdded(ownCopies, ownCopies')
    BY <2>1 DEF OwnMoves, Importing
  <2>4. \A k \in Copy : ownCopies[k] # None => k \notin fresh
    BY <1>0 DEF CopiesHold
  <2>5. Later(ownCopies, ownCopies', fresh, fresh', sideBySide, sideBySide')
    BY DEF OwnMoves
  <2> DEFINE call == transfers[c]
  <2>6. CallFits(Unsure(call), ownCopies', fresh', sideBySide', exported')
    <3> HIDE DEF call
    <3>1. call \in ACall /\ CallFits(call, ownCopies, fresh, sideBySide, exported)
      BY <2>1, <2>2 DEF call
    <3>2. sideBySide' = TRUE \/ call.op # "import" \/ NoneAdded(ownCopies, ownCopies')
      BY <2>3 DEF call
    <3> QED
      BY <3>1, <3>2, <2>4, <2>5, UnsureKept, ZenonT(60)
  <2> QED
    BY <2>1, <2>6
<1>7. LibraryKept(exported', ownCopies', transfers')
  BY <1>3 DEF LibraryKept
<1> QED
  BY <1>0, <1>1, <1>4, <1>5, <1>6, <1>7 DEF OwnMoves, TransferInv

\* A copy that is changed keeps its edition, and gets no second one.
LEMMA ChangeStep ==
    ASSUME TransferInv, NEW k \in Copy, ownCopies[k] # None, NEW item, Change(k, item),
           item = None \/ (CopyFits(item) /\ item.edition = ownCopies[k].edition)
    PROVE  TransferInv'
<1> USE DEF TransferInv
<1>1. UserDoes /\ ownCopies' = [ownCopies EXCEPT ![k] = item] /\ UNCHANGED <<fresh, entries, lastEntry, sideBySide>>
  BY DEF Change
<1>2. item \in OwnCopy \cup {None}
  BY DEF CopyFits
<1>3. /\ ownCopies' \in [Copy -> OwnCopy \cup {None}] /\ ownCopies'[k] = item
      /\ \A j \in Copy : j # k => ownCopies'[j] = ownCopies[j]
  BY <1>1, <1>2 DEF TransferTypes
<1>4. \A j \in Copy : ownCopies'[j] # None => ownCopies[j] # None /\ ownCopies'[j].edition = ownCopies[j].edition
  BY <1>3
<1>5. CopiesHold(ownCopies', fresh')
  BY <1>1, <1>3 DEF CopiesHold
<1>6. Later(ownCopies, ownCopies', fresh, fresh', sideBySide, sideBySide') /\ NoneAdded(ownCopies, ownCopies')
  BY <1>1, <1>4 DEF Later, NoneAdded, TransferTypes
<1>7. sideBySide' = TRUE \/ OneOfEach(ownCopies')
  BY <1>1, <1>4 DEF OneOfEach
<1>8. OwnMoves
  BY <1>3, <1>5, <1>6, <1>7 DEF OwnMoves
<1>9. entries' \in [Entry -> Nat] /\ lastEntry' \in Nat
  BY <1>1 DEF TransferTypes
<1> QED
  BY <1>1, <1>8, <1>9, UserStep

LEMMA AfterRemoveCopy ==
    ASSUME TransferInv, NEW k \in Copy, removeCopy(k)
    PROVE  TransferInv'
<1>1. ownCopies[k] # None /\ Change(k, None)
  BY DEF removeCopy, Active
<1> QED
  BY <1>1, ChangeStep

LEMMA AfterChangeState ==
    ASSUME TransferInv, NEW k \in Copy, NEW state \in State, changeState(k, state)
    PROVE  TransferInv'
<1> DEFINE item == ownCopies[k]
           moved == CASE state = "wishlisted" -> [item EXCEPT !.state = state, !.refs = @ \ {Shelf}, !.kept = FALSE, !.rated = FALSE]
                      [] state = "previously_owned" -> [item EXCEPT !.state = state, !.kept = Shelf \in item.refs, !.refs = @ \ {Shelf}]
                      [] OTHER -> [item EXCEPT !.state = state, !.kept = FALSE]
<1>1. item # None /\ Change(k, moved)
  BY DEF changeState, Active
<1>2. CopyFits(item) /\ item \in OwnCopy
  BY <1>1 DEF TransferInv, CopiesHold, CopyFits
<1>3. CopyFits(moved) /\ moved.edition = item.edition
  <2>1. CASE state = "wishlisted"
    <3>1. moved = [item EXCEPT !.state = state, !.refs = @ \ {Shelf}, !.kept = FALSE, !.rated = FALSE]
      BY <2>1
    <3> HIDE DEF moved, item
    <3> QED
      BY <1>2, <2>1, <3>1 DEF CopyFits, OwnCopy, State
  <2>2. CASE state = "previously_owned"
    <3>1. moved = [item EXCEPT !.state = state, !.kept = Shelf \in item.refs, !.refs = @ \ {Shelf}]
      BY <2>2
    <3>2. (Shelf \in item.refs) \in BOOLEAN
      OBVIOUS
    <3> HIDE DEF moved, item
    <3> QED
      BY <1>2, <2>2, <3>1, <3>2 DEF CopyFits, OwnCopy, State
  <2>3. CASE state = "owned"
    <3>1. moved = [item EXCEPT !.state = state, !.kept = FALSE]
      BY <2>3
    <3> HIDE DEF moved, item
    <3> QED
      BY <1>2, <2>3, <3>1 DEF CopyFits, OwnCopy, State
  <2> QED
    BY <2>1, <2>2, <2>3 DEF State
<1> HIDE DEF moved
<1> QED
  BY <1>1, <1>3, ChangeStep

LEMMA AfterUseCopy ==
    ASSUME TransferInv, NEW k \in Copy, useCopy(k)
    PROVE  TransferInv'
<1> DEFINE item == ownCopies[k]
<1>1. item # None /\ \/ item.state # "wishlisted" /\ Change(k, [item EXCEPT !.rated = ~item.rated])
                     \/ Change(k, [item EXCEPT !.lent = ~item.lent])
                     \/ \E e \in Entry : /\ e = Shelf => item.state = "owned"
                                         /\ Change(k, [item EXCEPT !.refs = IF e \in item.refs THEN item.refs \ {e} ELSE item.refs \cup {e}])
  BY DEF useCopy, Active
<1>2. CopyFits(item) /\ item \in OwnCopy
  BY <1>1 DEF TransferInv, CopiesHold, CopyFits
<1>3. CASE item.state # "wishlisted" /\ Change(k, [item EXCEPT !.rated = ~item.rated])
  <2> DEFINE b == ~item.rated
  <2>1. b \in BOOLEAN
    OBVIOUS
  <2>2. [item EXCEPT !.rated = b] # None => CopyFits([item EXCEPT !.rated = b]) /\ [item EXCEPT !.rated = b].edition = item.edition
    <3> HIDE DEF b, item
    <3> QED
      BY <1>2, <1>3, <2>1 DEF CopyFits, OwnCopy
  <2> QED
    BY <1>1, <1>3, <2>2, ChangeStep
<1>4. CASE Change(k, [item EXCEPT !.lent = ~item.lent])
  <2> DEFINE b == ~item.lent
  <2>1. b \in BOOLEAN
    OBVIOUS
  <2>2. CopyFits([item EXCEPT !.lent = b]) /\ [item EXCEPT !.lent = b].edition = item.edition
    <3> HIDE DEF b, item
    <3> QED
      BY <1>2, <2>1 DEF CopyFits, OwnCopy
  <2> QED
    BY <1>1, <1>4, <2>2, ChangeStep
<1>5. ASSUME NEW e \in Entry, e = Shelf => item.state = "owned",
             Change(k, [item EXCEPT !.refs = IF e \in item.refs THEN item.refs \ {e} ELSE item.refs \cup {e}])
      PROVE  TransferInv'
  <2> DEFINE refs == IF e \in item.refs THEN item.refs \ {e} ELSE item.refs \cup {e}
  <2>1. refs \in SUBSET Entry /\ (Shelf \in refs => item.state = "owned")
    BY <1>2, <1>5 DEF CopyFits, OwnCopy
  <2>2. CopyFits([item EXCEPT !.refs = refs]) /\ [item EXCEPT !.refs = refs].edition = item.edition
    <3> HIDE DEF refs, item
    <3> QED
      BY <1>2, <2>1 DEF CopyFits, OwnCopy
  <2> QED
    BY <1>1, <1>5, <2>2, ChangeStep
<1> QED
  BY <1>1, <1>3, <1>4, <1>5

LEMMA AfterAddBook ==
    ASSUME TransferInv, addBook
    PROVE  TransferInv'
<1> USE DEF TransferInv
<1>1. PICK edition \in Edition, kind \in {"manual", "shared"} :
        /\ fresh # {} /\ CopiesOf(edition) = {} /\ UserDoes
        /\ ownCopies' = [ownCopies EXCEPT ![NewId] = NewCopy(edition, kind, "owned")]
        /\ fresh' = fresh \ {NewId} /\ sideBySide' = (sideBySide \/ Importing # {})
        /\ UNCHANGED <<entries, lastEntry>>
  BY DEF addBook
<1> DEFINE new == NewCopy(edition, kind, "owned")
<1>2. NewId \in fresh /\ NewId \in Copy /\ ownCopies[NewId] = None
  BY <1>1 DEF NewId, TransferTypes, CopiesHold
<1>3. CopyFits(new) /\ new.edition = edition
  BY DEF NewCopy, CopyFits, OwnCopy, State
<1>4. \A k \in Copy : ownCopies[k] # None => ownCopies[k].edition # edition
  BY <1>1 DEF CopiesOf, Active
<1> HIDE DEF new
<1>5. /\ ownCopies' \in [Copy -> OwnCopy \cup {None}] /\ ownCopies'[NewId] = new
      /\ \A j \in Copy : j # NewId => ownCopies'[j] = ownCopies[j]
  BY <1>1, <1>2, <1>3 DEF TransferTypes, CopyFits, new
<1>6. CopiesHold(ownCopies', fresh')
  BY <1>1, <1>3, <1>5 DEF CopiesHold
<1>7. sideBySide' \in BOOLEAN /\ (sideBySide = TRUE => sideBySide' = TRUE) /\ (Importing # {} => sideBySide' = TRUE)
  BY <1>1 DEF TransferTypes
<1>8. Later(ownCopies, ownCopies', fresh, fresh', sideBySide, sideBySide')
  BY <1>1, <1>2, <1>5, <1>7 DEF Later
<1>9. sideBySide' = TRUE \/ OneOfEach(ownCopies')
  <2>1. SUFFICES ASSUME OneOfEach(ownCopies) PROVE OneOfEach(ownCopies')
    BY <1>7
  <2> QED
    BY <2>1, <1>2, <1>3, <1>4, <1>5 DEF OneOfEach
<1>10. OwnMoves
  BY <1>5, <1>6, <1>7, <1>8, <1>9 DEF OwnMoves
<1>11. entries' \in [Entry -> Nat] /\ lastEntry' \in Nat
  BY <1>1 DEF TransferTypes
<1> QED
  BY <1>1, <1>10, <1>11, UserStep

LEMMA AfterEntry ==
    ASSUME TransferInv, NEW e \in Entry, createEntry(e) \/ deleteEntry(e)
    PROVE  TransferInv'
<1> USE DEF TransferInv
<1>1. UserDoes /\ UNCHANGED <<fresh, sideBySide>>
  BY DEF createEntry, deleteEntry
<1>2. entries' \in [Entry -> Nat] /\ lastEntry' \in Nat
  BY DEF createEntry, deleteEntry, TransferTypes
<1>3. ownCopies' = ownCopies
      \/ ownCopies' = [k \in Copy |-> IF k \in Active THEN [ownCopies[k] EXCEPT !.refs = @ \ {e}] ELSE None]
  BY DEF createEntry, deleteEntry
<1>4. \A item \in OwnCopy : CopyFits(item) => CopyFits([item EXCEPT !.refs = @ \ {e}])
                                              /\ [item EXCEPT !.refs = @ \ {e}].edition = item.edition
  BY DEF CopyFits, OwnCopy
<1>5. \A k \in Copy : ownCopies[k] # None => CopyFits(ownCopies[k]) /\ ownCopies[k] \in OwnCopy
  BY DEF CopiesHold, CopyFits
<1>6. \A k \in Copy : /\ ownCopies'[k] # None => /\ ownCopies[k] # None /\ ownCopies'[k].edition = ownCopies[k].edition
                                                /\ CopyFits(ownCopies'[k])
                      /\ ownCopies'[k] \in OwnCopy \cup {None}
  <2>1. CASE ownCopies' = ownCopies
    BY <1>5, <2>1 DEF TransferTypes
  <2>2. CASE ownCopies' = [k \in Copy |-> IF k \in Active THEN [ownCopies[k] EXCEPT !.refs = @ \ {e}] ELSE None]
    <3> TAKE k \in Copy
    <3>1. CASE ownCopies[k] # None
      <4>1. ownCopies'[k] = [ownCopies[k] EXCEPT !.refs = @ \ {e}]
        BY <2>2, <3>1 DEF Active
      <4>2. CopyFits(ownCopies[k]) /\ ownCopies[k] \in OwnCopy
        BY <1>5, <3>1
      <4>3. CopyFits(ownCopies'[k]) /\ ownCopies'[k].edition = ownCopies[k].edition
        BY <1>4, <4>1, <4>2
      <4> QED
        BY <3>1, <4>3 DEF CopyFits
    <3>2. CASE ownCopies[k] = None
      BY <2>2, <3>2 DEF Active
    <3> QED
      BY <3>1, <3>2
  <2> QED
    BY <1>3, <2>1, <2>2
<1>7. ownCopies' \in [Copy -> OwnCopy \cup {None}]
  <2>1. ownCopies' = [k \in Copy |-> ownCopies'[k]]
    BY <1>3 DEF TransferTypes
  <2> QED
    BY <1>6, <2>1
<1>8. CopiesHold(ownCopies', fresh') /\ NoneAdded(ownCopies, ownCopies')
  BY <1>1, <1>6 DEF CopiesHold, NoneAdded
<1>9. Later(ownCopies, ownCopies', fresh, fresh', sideBySide, sideBySide')
  BY <1>1, <1>6 DEF Later, TransferTypes
<1>10. sideBySide' = TRUE \/ OneOfEach(ownCopies')
  BY <1>1, <1>6 DEF OneOfEach
<1> QED
  BY <1>1, <1>2, <1>7, <1>8, <1>9, <1>10, UserStep DEF OwnMoves

(****************************** files and calls ****************************)

LEMMA RowOf ==
    ASSUME NEW k \in Copy, NEW item, CopyFits(item)
    PROVE  /\ Row(k, item) \in FileRow /\ Row(k, item).id = k /\ Row(k, item).edition = item.edition
           /\ Row(k, item).state = item.state /\ Row(k, item).rated = item.rated
           /\ Row(k, item).labels = item.refs \ {Shelf}
<1> DEFINE together == item.kind = "shared"
           place == IF item.state = "previously_owned" THEN item.kept ELSE Shelf \in item.refs
<1>1. item \in OwnCopy
  BY DEF CopyFits
<1>2. together \in BOOLEAN /\ place \in BOOLEAN
  <2>1. item.kept \in BOOLEAN /\ (Shelf \in item.refs) \in BOOLEAN
    BY <1>1 DEF OwnCopy
  <2>2. CASE item.state = "previously_owned"
    BY <2>1, <2>2, Zenon
  <2>3. CASE item.state # "previously_owned"
    BY <2>1, <2>3, Zenon
  <2> QED
    BY <2>2, <2>3
<1>3. Row(k, item) = [id |-> k, edition |-> item.edition, state |-> item.state, shared |-> together,
                      labels |-> item.refs \ {Shelf}, place |-> place, rated |-> item.rated]
  BY DEF Row
<1>4. item.refs \ {Shelf} \in SUBSET (Entry \ {Shelf})
  BY <1>1 DEF OwnCopy
<1> HIDE DEF together, place
<1> QED
  BY <1>1, <1>2, <1>3, <1>4 DEF OwnCopy, FileRow

LEMMA TellsFits ==
    ASSUME NEW own, NEW unused, NEW crossed, NEW rows \in Seq(FileRow), CopiesHold(own, unused), TellsLibrary(rows, own),
           \A n, m \in DOMAIN rows : rows[n].id = rows[m].id => n = m, crossed = TRUE \/ OneOfEach(own)
    PROVE  FileFits(rows, own, unused, crossed)
<1>1. ASSUME NEW n \in DOMAIN rows
      PROVE  /\ RowFits(rows[n], own, unused) /\ rows[n].id \in Copy
             /\ own[rows[n].id] # None /\ rows[n].edition = own[rows[n].id].edition
  <2> DEFINE row == rows[n]
  <2>0. row \in FileRow
    OBVIOUS
  <2>1. row \in FileRow /\ row.id \in Copy
    BY <2>0 DEF FileRow
  <2>2. own[row.id] # None /\ row = Row(row.id, own[row.id])
    BY DEF TellsLibrary
  <2>3. CopyFits(own[row.id]) /\ row.id \notin unused
    BY <2>1, <2>2 DEF CopiesHold
  <2>4. row.edition = own[row.id].edition /\ row.state = own[row.id].state /\ row.rated = own[row.id].rated
    BY <2>1, <2>2, <2>3, RowOf
  <2> QED
    BY <2>1, <2>2, <2>3, <2>4 DEF RowFits, CopyFits
<1> QED
  BY <1>1 DEF FileFits, OneOfEach

LEMMA FileTail ==
    ASSUME NEW own, NEW unused, NEW crossed, NEW rows, rows # <<>>, FileFits(rows, own, unused, crossed)
    PROVE  /\ FileFits(Tail(rows), own, unused, crossed) /\ RowFits(Head(rows), own, unused) /\ rows \in Seq(FileRow)
           /\ Tail(rows) \in Seq(FileRow) /\ Len(Tail(rows)) = Len(rows) - 1 /\ Len(rows) \in Nat
           /\ DOMAIN rows = 1 .. Len(rows) /\ Head(rows) = rows[1] /\ 1 \in DOMAIN rows
           /\ \A n \in DOMAIN Tail(rows) : n + 1 \in DOMAIN rows /\ Tail(rows)[n] = rows[n + 1]
           /\ DOMAIN Tail(rows) = 1 .. Len(Tail(rows))
<1>1. rows \in Seq(FileRow)
  BY DEF FileFits
<1>2. /\ Tail(rows) \in Seq(FileRow) /\ Len(Tail(rows)) = Len(rows) - 1 /\ Len(rows) \in Nat
      /\ DOMAIN rows = 1 .. Len(rows) /\ Head(rows) = rows[1] /\ 1 \in DOMAIN rows
      /\ DOMAIN Tail(rows) = 1 .. Len(Tail(rows))
      /\ \A n \in DOMAIN Tail(rows) : n + 1 \in DOMAIN rows /\ Tail(rows)[n] = rows[n + 1]
  BY <1>1
<1>3. \A n, m \in DOMAIN Tail(rows) : n + 1 = m + 1 => n = m
  BY <1>2
<1> QED
  BY <1>1, <1>2, <1>3 DEF FileFits

LEMMA TellsTail ==
    ASSUME NEW own, NEW rows \in Seq(FileRow), rows # <<>>, TellsLibrary(rows, own)
    PROVE  TellsLibrary(Tail(rows), own)
BY DEF TellsLibrary

\* What a step of one call must keep when it leaves the library alone.
LEMMA CallStep ==
    ASSUME TransferInv, NEW c \in Call, NEW call, transfers' = [transfers EXCEPT ![c] = call],
           UNCHANGED <<tableVars, exported, sideBySide, unrestored>>,
           call # None => /\ CallFits(call, ownCopies, fresh, sideBySide, exported)
                          /\ exported # None /\ exported.library # None => WritesBack(call, ownCopies)
    PROVE  TransferInv'
<1>1. /\ ownCopies' = ownCopies /\ fresh' = fresh /\ entries' = entries /\ lastEntry' = lastEntry
      /\ exported' = exported /\ sideBySide' = sideBySide /\ unrestored' = unrestored
  BY DEF tableVars
<1>2. call \in ACall \cup {None}
  BY DEF CallFits
<1>3. /\ transfers' \in [Call -> ACall \cup {None}] /\ transfers'[c] = call
      /\ \A d \in Call : d # c => transfers'[d] = transfers[d]
  BY <1>2 DEF TransferInv, TransferTypes
<1>4. TransferTypes'
  BY <1>1, <1>3 DEF TransferInv, TransferTypes
<1>5. ASSUME NEW d \in Call, transfers'[d] # None
      PROVE  CallFits(transfers'[d], ownCopies', fresh', sideBySide', exported')
  BY <1>1, <1>3, <1>5 DEF TransferInv
<1>6. LibraryKept(exported', ownCopies', transfers')
  BY <1>1, <1>3 DEF TransferInv, LibraryKept
<1> QED
  BY <1>1, <1>4, <1>5, <1>6 DEF TransferInv

LEMMA NewTransfer ==
    ASSUME NEW op \in {"export", "import"}, NEW rows \in Seq(FileRow), NEW existing \in BOOLEAN
    PROVE  LET call == [Transfer(op, rows) EXCEPT !.existing = existing] IN
           /\ call \in ACall /\ call.op = op /\ call.rows = rows /\ call.existing = existing /\ call.at = "read"
           /\ Transfer(op, rows) \in ACall /\ Transfer(op, rows).op = op /\ Transfer(op, rows).rows = rows
           /\ Transfer(op, rows).at = "read"
BY DEF Transfer, ACall

LEMMA AfterListExportRecords ==
    ASSUME TransferInv, NEW c \in Call, listExportRecords(c)
    PROVE  TransferInv'
<1> DEFINE S == {Row(k, ownCopies[k]) : k \in Active}
           rows == SetToSeq(S)
           call == Transfer("export", rows)
<1>1. transfers' = [transfers EXCEPT ![c] = call] /\ UNCHANGED <<tableVars, exported, sideBySide, unrestored>>
  BY DEF listExportRecords, BeginTransfer
<1>2. /\ CopiesHold(ownCopies, fresh) /\ (sideBySide = TRUE \/ OneOfEach(ownCopies))
      /\ Active \subseteq Copy /\ \A k \in Active : ownCopies[k] # None /\ CopyFits(ownCopies[k])
  BY DEF TransferInv, CopiesHold, Active
<1>3. S \subseteq FileRow /\ \A k \in Active : Row(k, ownCopies[k]).id = k
  BY <1>2, RowOf
<1>4. IsFiniteSet(S)
  <2> DEFINE f == [k \in Active |-> Row(k, ownCopies[k])]
  <2>1. IsFiniteSet(Active)
    BY <1>2, FS_Subset, TransferAssumption
  <2>2. f \in Surjection(Active, S)
    BY DEF Surjection
  <2> QED
    BY <2>1, <2>2, FS_Surjection
<1>5. /\ rows \in Seq(FileRow) /\ \A n \in DOMAIN rows : rows[n] \in S
      /\ \A n, m \in DOMAIN rows : rows[n] = rows[m] => n = m
  <2> HIDE DEF S
  <2> QED
    BY <1>3, <1>4, InFile
<1>6. TellsLibrary(rows, ownCopies)
  BY <1>2, <1>3, <1>5 DEF TellsLibrary
<1>7. \A n, m \in DOMAIN rows : rows[n].id = rows[m].id => n = m
  BY <1>5, <1>6 DEF TellsLibrary
<1> HIDE DEF rows
<1>8. FileFits(rows, ownCopies, fresh, sideBySide)
  BY <1>2, <1>5, <1>6, <1>7, TellsFits
<1>9. call \in ACall /\ call.op = "export" /\ call.rows = rows /\ call.at = "read"
  BY <1>5, NewTransfer
<1> HIDE DEF call
<1>10. CallFits(call, ownCopies, fresh, sideBySide, exported) /\ WritesBack(call, ownCopies)
  BY <1>6, <1>8, <1>9 DEF CallFits, WritesBack, MatchFits
<1> QED
  BY <1>1, <1>10, CallStep

LEMMA AfterImportLibraryCsv ==
    ASSUME TransferInv, NEW c \in Call, importLibraryCsv(c)
    PROVE  TransferInv'
<1>1. PICK existing \in BOOLEAN :
        /\ exported # None /\ UNCHANGED <<tableVars, exported, sideBySide, unrestored>>
        /\ transfers' = [transfers EXCEPT ![c] = [Transfer("import", exported.rows) EXCEPT !.existing = existing]]
  BY DEF importLibraryCsv, BeginTransfer
<1> DEFINE call == [Transfer("import", exported.rows) EXCEPT !.existing = existing]
<1>2. FileFits(exported.rows, ownCopies, fresh, sideBySide) /\ exported.rows \in Seq(FileRow)
  BY <1>1 DEF TransferInv, FileFits
<1>3. call \in ACall /\ call.op = "import" /\ call.rows = exported.rows /\ call.at = "read"
  BY <1>2, NewTransfer
<1> HIDE DEF call
<1>4. RestoresSoFar(call, exported, ownCopies)
  BY <1>2, <1>3 DEF RestoresSoFar
<1>5. CallFits(call, ownCopies, fresh, sideBySide, exported)
  BY <1>1, <1>2, <1>3, <1>4 DEF CallFits, MatchFits
<1>6. exported.library # None => WritesBack(call, ownCopies)
  BY <1>1, <1>3 DEF TransferInv, LibraryKept, WritesBack
<1> QED
  BY <1>1, <1>5, <1>6, CallStep DEF call

LEMMA AfterImportCrash ==
    ASSUME TransferInv, NEW c \in Call, ImportCrash(c)
    PROVE  TransferInv'
BY CallStep DEF ImportCrash

(******************************** a row ************************************)

LEMMA AtRow ==
    ASSUME TransferInv, NEW c \in Call, NEW at, ImportAt(c, at)
    PROVE  /\ transfers[c] # None /\ transfers[c] \in ACall /\ transfers[c].op = "import" /\ transfers[c].at = at
           /\ transfers[c].rows # <<>> /\ CallFits(transfers[c], ownCopies, fresh, sideBySide, exported)
           /\ exported # None /\ exported.library # None => WritesBack(transfers[c], ownCopies)
BY DEF ImportAt, TransferInv, CallFits, LibraryKept

LEMMA NextFields ==
    ASSUME NEW call \in ACall, call.rows # <<>>
    PROVE  /\ NextRow(call) \in ACall /\ NextRow(call).op = call.op /\ NextRow(call).rows = Tail(call.rows)
           /\ NextRow(call).at = "read" /\ NextRow(call).existing = call.existing
           /\ NextRow(call).restores = call.restores
<1>1. call.rows \in Seq(FileRow)
  BY DEF ACall
<1>2. Tail(call.rows) \in Seq(FileRow)
  BY <1>1
<1> QED
  BY <1>2 DEF NextRow, ACall

\* The next row of a file is read, the file being as it was.
LEMMA NextKept ==
    ASSUME NEW own, NEW unused, NEW crossed, NEW file, NEW call, NEW call2 \in ACall,
           CallFits(call, own, unused, crossed, file), call.rows # <<>>, call.op = "import",
           call2.op = "import", call2.rows = Tail(call.rows), call2.at = "read",
           call2.restores = FALSE \/ call2.existing = TRUE
    PROVE  /\ CallFits(call2, own, unused, crossed, file)
           /\ WritesBack(call, own) => WritesBack(call2, own)
<1>1. FileFits(call2.rows, own, unused, crossed) /\ call.rows \in Seq(FileRow)
  BY FileTail DEF CallFits
<1>2. CallFits(call2, own, unused, crossed, file)
  BY <1>1 DEF CallFits, MatchFits
<1>3. WritesBack(call, own) => WritesBack(call2, own)
  BY <1>1, TellsTail DEF WritesBack
<1> QED
  BY <1>2, <1>3

LEMMA AfterRowFails ==
    ASSUME TransferInv, NEW c \in Call, NEW at, ImportAt(c, at), RowFails(c)
    PROVE  TransferInv'
<1> DEFINE call == transfers[c]
           next == NextRow(call)
<1>1. /\ call # None /\ call \in ACall /\ call.op = "import" /\ call.rows # <<>>
      /\ CallFits(call, ownCopies, fresh, sideBySide, exported)
      /\ exported # None /\ exported.library # None => WritesBack(call, ownCopies)
  BY AtRow
<1>2. next \in ACall /\ next.op = "import" /\ next.rows = Tail(call.rows) /\ next.at = "read"
  BY <1>1, NextFields
<1>3. transfers' = [transfers EXCEPT ![c] = Unsure(next)] /\ UNCHANGED <<tableVars, exported, sideBySide, unrestored>>
  BY DEF RowFails, ImportGoes, Unsure
<1> HIDE DEF next, call
<1>4. /\ Unsure(next) \in ACall /\ Unsure(next).op = "import" /\ Unsure(next).rows = Tail(call.rows)
      /\ Unsure(next).at = "read" /\ Unsure(next).restores = FALSE
  BY <1>2, UnsureFields
<1>5. /\ CallFits(Unsure(next), ownCopies, fresh, sideBySide, exported)
      /\ WritesBack(call, ownCopies) => WritesBack(Unsure(next), ownCopies)
  BY <1>1, <1>4, NextKept
<1> QED
  BY <1>1, <1>3, <1>5, CallStep

LEMMA AfterResolveRow ==
    ASSUME TransferInv, NEW c \in Call, resolveRow(c)
    PROVE  TransferInv'
<1> DEFINE call == transfers[c]
           row == Head(call.rows)
           matches == findExisting(row)
           ids == [e \in Entry |-> IF call.known[e] # 0 THEN call.known[e] ELSE entries[e]]
           resolved(match) == [call EXCEPT !.at = "write", !.match = match,
                      !.found = [e \in Entry |-> IF e \in Wanted(row) THEN ids[e] ELSE 0],
                      !.known = [e \in Entry |-> IF e \in Wanted(row) THEN ids[e] ELSE call.known[e]]]
<1>1. /\ call # None /\ call \in ACall /\ call.op = "import" /\ call.rows # <<>> /\ ImportAt(c, "read")
      /\ CallFits(call, ownCopies, fresh, sideBySide, exported)
      /\ exported # None /\ exported.library # None => WritesBack(call, ownCopies)
  BY AtRow DEF resolveRow
<1>2. \/ call.existing = TRUE /\ ImportGoes(c, NextRow(call)) /\ UNCHANGED <<tableVars, exported, sideBySide, unrestored>>
      \/ RowFails(c)
      \/ \E match \in IF matches = {} THEN {None} ELSE matches :
           ImportGoes(c, resolved(match)) /\ UNCHANGED <<tableVars, exported, sideBySide, unrestored>>
  <2>1. call.existing \in BOOLEAN
    BY <1>1 DEF ACall
  <2> QED
    BY <2>1, Zenon DEF resolveRow
<1>3. CASE call.existing = TRUE /\ ImportGoes(c, NextRow(call)) /\ UNCHANGED <<tableVars, exported, sideBySide, unrestored>>
  <2> DEFINE next == NextRow(call)
  <2>1. /\ next \in ACall /\ next.op = "import" /\ next.rows = Tail(call.rows) /\ next.at = "read"
        /\ next.existing = TRUE
    BY <1>1, <1>3, NextFields
  <2>2. transfers' = [transfers EXCEPT ![c] = next]
    BY <1>3 DEF ImportGoes
  <2> HIDE DEF next, call
  <2>3. /\ CallFits(next, ownCopies, fresh, sideBySide, exported)
        /\ WritesBack(call, ownCopies) => WritesBack(next, ownCopies)
    BY <1>1, <2>1, NextKept
  <2> QED
    BY <1>1, <1>3, <2>2, <2>3, CallStep
<1>4. CASE RowFails(c)
  BY <1>1, <1>4, AfterRowFails
<1>5. ASSUME NEW match \in IF matches = {} THEN {None} ELSE matches,
             ImportGoes(c, resolved(match)), UNCHANGED <<tableVars, exported, sideBySide, unrestored>>
      PROVE  TransferInv'
  <2> DEFINE next == resolved(match)
  <2>1. RowFits(row, ownCopies, fresh) /\ row.id \in Copy /\ CopiesHold(ownCopies, fresh)
    <3>1. FileFits(call.rows, ownCopies, fresh, sideBySide) /\ CopiesHold(ownCopies, fresh)
      BY <1>1 DEF CallFits, TransferInv
    <3>2. RowFits(row, ownCopies, fresh)
      BY <1>1, <3>1, FileTail
    <3> HIDE DEF row
    <3> QED
      BY <3>1, <3>2 DEF RowFits, FileRow
  <2>2. /\ match # None => /\ match \in Copy /\ ownCopies[match] # None /\ match \notin fresh
                           /\ ownCopies[match].edition = row.edition
                           /\ ownCopies[row.id] # None => match = row.id
        /\ match = None => \A k \in Copy : ownCopies[k] # None => ownCopies[k].edition # row.edition
        /\ match = None => ownCopies[row.id] = None
    <3>1. None \notin Copy
      BY TransferAssumption
    <3>2. matches = IF ownCopies[row.id] # None THEN {row.id} ELSE {k \in Copy : ownCopies[k] # None /\ ownCopies[k].edition = row.edition}
      BY <2>1 DEF findExisting, Active, CopiesOf
    <3> HIDE DEF matches, row, call
    <3>3. ownCopies[row.id] # None => ownCopies[row.id].edition = row.edition
      BY <2>1 DEF RowFits
    <3> QED
      BY <1>5, <2>1, <3>1, <3>2, <3>3 DEF CopiesHold
  <2>3. match \in Copy \cup {None}
    BY <2>2
  <2>4. ids \in [Entry -> Nat]
    BY <1>1 DEF ACall, TransferInv, TransferTypes
  <2>5. /\ next \in ACall /\ next.at = "write" /\ next.match = match /\ next.op = "import" /\ next.rows = call.rows
        /\ next.existing = call.existing /\ next.restores = call.restores
    <3> DEFINE found == [e \in Entry |-> IF e \in Wanted(row) THEN ids[e] ELSE 0]
               known == [e \in Entry |-> IF e \in Wanted(row) THEN ids[e] ELSE call.known[e]]
    <3>1. found \in [Entry -> Nat]
      BY <2>4
    <3>2. call.known \in [Entry -> Nat]
      BY <1>1 DEF ACall
    <3>3. known \in [Entry -> Nat]
      BY <2>4, <3>2
    <3>4. next = [call EXCEPT !.at = "write", !.match = match, !.found = found, !.known = known]
      OBVIOUS
    <3> HIDE DEF found, known, next, ids, row, call
    <3> QED
      BY <1>1, <2>3, <3>1, <3>3, <3>4 DEF ACall
  <2>6. transfers' = [transfers EXCEPT ![c] = next]
    BY <1>5 DEF ImportGoes
  <2>7. row = Head(call.rows)
    OBVIOUS
  <2> HIDE DEF next, row, ids, matches, call
  <2>8. FileFits(next.rows, ownCopies, fresh, sideBySide) /\ MatchFits(next, ownCopies, fresh, sideBySide)
    BY <1>1, <2>2, <2>5, <2>7 DEF CallFits, MatchFits
  <2>9. ASSUME next.restores = TRUE, next.existing = FALSE, sideBySide = FALSE
        PROVE  exported # None /\ RestoresSoFar(next, exported, ownCopies)
    BY <1>1, <2>2, <2>5, <2>9 DEF CallFits, RestoresSoFar
  <2>10. CallFits(next, ownCopies, fresh, sideBySide, exported)
    BY <2>5, <2>8, <2>9 DEF CallFits
  <2>11. WritesBack(call, ownCopies) => WritesBack(next, ownCopies)
    <3>1. SUFFICES ASSUME WritesBack(call, ownCopies) PROVE WritesBack(next, ownCopies)
      OBVIOUS
    <3>2. TellsLibrary(call.rows, ownCopies)
      BY <1>1, <3>1 DEF WritesBack
    <3>3. 1 \in DOMAIN call.rows /\ row = call.rows[1]
      <4>1. call.rows \in Seq(FileRow) /\ call.rows # <<>>
        BY <1>1 DEF CallFits, FileFits
      <4> QED
        BY <2>7, <4>1
    <3>4. ownCopies[row.id] # None
      BY <3>2, <3>3 DEF TellsLibrary
    <3> QED
      BY <2>2, <2>5, <2>7, <3>2, <3>4 DEF WritesBack
  <2> QED
    BY <1>1, <1>5, <2>6, <2>10, <2>11, CallStep
<1> QED
  BY <1>2, <1>3, <1>4, <1>5

LEMMA AfterExportLibraryCsv ==
    ASSUME TransferInv, NEW c \in Call, exportLibraryCsv(c)
    PROVE  TransferInv'
<1> DEFINE call == transfers[c]
           tagged(row) == [row EXCEPT !.labels = IF ownCopies[row.id] = None THEN {} ELSE ownCopies[row.id].refs \ {Shelf}]
           rows == call.rows
           file == [n \in DOMAIN rows |-> tagged(rows[n])]
           library == IF call.restores /\ Importing = {} THEN ownCopies ELSE None
<1>1. /\ call # None /\ call.op = "export" /\ exported' = [rows |-> file, library |-> library]
      /\ transfers' = [Touched(transfers) EXCEPT ![c] = None]
      /\ ownCopies' = ownCopies /\ fresh' = fresh /\ entries' = entries /\ lastEntry' = lastEntry
      /\ sideBySide' = sideBySide /\ unrestored' = unrestored
  BY DEF exportLibraryCsv, tableVars
<1>2. call \in ACall /\ CallFits(call, ownCopies, fresh, sideBySide, exported)
  BY <1>1 DEF TransferInv, CallFits
<1>3. FileFits(rows, ownCopies, fresh, sideBySide) /\ rows \in Seq(FileRow)
  BY <1>2 DEF CallFits, FileFits
<1>4. ownCopies \in [Copy -> OwnCopy \cup {None}] /\ CopiesHold(ownCopies, fresh)
  BY DEF TransferInv, TransferTypes
<1>5. ASSUME NEW row \in FileRow
      PROVE  /\ tagged(row) \in FileRow /\ tagged(row).id = row.id /\ tagged(row).edition = row.edition
             /\ tagged(row).state = row.state /\ tagged(row).rated = row.rated
  <2> DEFINE labels == IF ownCopies[row.id] = None THEN {} ELSE ownCopies[row.id].refs \ {Shelf}
  <2>1. row.id \in Copy
    BY <1>5 DEF FileRow
  <2>2. labels \in SUBSET (Entry \ {Shelf})
    BY <1>4, <2>1 DEF OwnCopy
  <2> HIDE DEF labels
  <2>3. LET next == [row EXCEPT !.labels = labels] IN
        next \in FileRow /\ next.id = row.id /\ next.edition = row.edition /\ next.state = row.state /\ next.rated = row.rated
    BY <1>5, <2>2 DEF FileRow
  <2> QED
    BY <2>3 DEF labels
<1>6. /\ file \in Seq(FileRow) /\ DOMAIN file = DOMAIN rows
      /\ \A n \in DOMAIN rows : rows[n] \in FileRow /\ file[n] = tagged(rows[n])
  <2>1. DOMAIN rows = 1 .. Len(rows) /\ Len(rows) \in Nat /\ \A n \in DOMAIN rows : rows[n] \in FileRow
    BY <1>3
  <2> HIDE DEF tagged, rows
  <2>2. file \in [1 .. Len(rows) -> FileRow]
    BY <1>5, <2>1
  <2>3. file \in Seq(FileRow)
    <3> HIDE DEF file
    <3> QED
      BY <2>1, <2>2
  <2> QED
    BY <2>1, <2>3
<1>7. FileFits(file, ownCopies, fresh, sideBySide)
  <2> HIDE DEF tagged, rows, file
  <2>1. ASSUME NEW n \in DOMAIN file
        PROVE  RowFits(file[n], ownCopies, fresh) /\ n \in DOMAIN rows /\ file[n].edition = rows[n].edition
    <3>1. RowFits(rows[n], ownCopies, fresh) /\ rows[n] \in FileRow /\ file[n] = tagged(rows[n])
      BY <1>3, <1>6 DEF FileFits
    <3>2. /\ file[n] \in FileRow /\ file[n].id = rows[n].id /\ file[n].edition = rows[n].edition
          /\ file[n].state = rows[n].state /\ file[n].rated = rows[n].rated
      BY <1>5, <3>1
    <3> QED
      BY <1>6, <3>1, <3>2 DEF RowFits
  <2> QED
    BY <1>3, <1>6, <2>1 DEF FileFits
<1>8. ASSUME call.restores = TRUE PROVE TellsLibrary(file, ownCopies)
  <2>1. TellsLibrary(rows, ownCopies)
    BY <1>1, <1>2, <1>8 DEF CallFits
  <2> HIDE DEF rows, file
  <2>2. ASSUME NEW n \in DOMAIN file
        PROVE  file[n] = rows[n]
    <3> DEFINE row == rows[n]
               item == ownCopies[row.id]
    <3>1. row \in FileRow /\ n \in DOMAIN rows /\ file[n] = tagged(row)
      BY <1>6, <2>2
    <3>2. row.id \in Copy /\ item # None /\ row = Row(row.id, item)
      BY <2>1, <3>1 DEF TellsLibrary, FileRow
    <3>3. row.labels = item.refs \ {Shelf}
      BY <1>4, <3>2, RowOf DEF CopiesHold
    <3>4. tagged(row) = [row EXCEPT !.labels = row.labels]
      BY <3>2, <3>3
    <3> HIDE DEF row, tagged
    <3>5. [row EXCEPT !.labels = row.labels] = row
      BY <3>1 DEF FileRow
    <3> QED
      BY <3>1, <3>4, <3>5 DEF row
  <2> QED
    BY <1>6, <2>1, <2>2 DEF TellsLibrary
<1>9. library \in [Copy -> OwnCopy \cup {None}] \cup {None}
  BY <1>4
<1>10. /\ transfers' \in [Call -> ACall \cup {None}] /\ transfers'[c] = None
       /\ \A d \in Call : transfers'[d] # None => transfers[d] # None /\ transfers'[d] = Unsure(transfers[d])
  BY <1>1, TransfersTouched DEF TransferInv, TransferTypes
<1>11. library # None => library = ownCopies /\ call.restores = TRUE /\ Importing = {}
  BY <1>2 DEF ACall
<1> HIDE DEF file, library, rows, call, tagged
<1>12. TransferTypes'
  BY <1>1, <1>4, <1>6, <1>9, <1>10 DEF TransferInv, TransferTypes, AFile
<1>13. ASSUME NEW d \in Call, transfers'[d] # None
       PROVE  CallFits(transfers'[d], ownCopies', fresh', sideBySide', exported')
  <2>1. transfers[d] # None /\ transfers[d] \in ACall /\ transfers'[d] = Unsure(transfers[d])
    BY <1>10, <1>13 DEF TransferInv, TransferTypes
  <2>2. CallFits(transfers[d], ownCopies, fresh, sideBySide, exported)
    BY <2>1 DEF TransferInv
  <2>3. Later(ownCopies, ownCopies, fresh, fresh, sideBySide, sideBySide) /\ NoneAdded(ownCopies, ownCopies)
    BY DEF Later, NoneAdded, TransferInv, TransferTypes
  <2>4. \A k \in Copy : ownCopies[k] # None => k \notin fresh
    BY <1>4 DEF CopiesHold
  <2> DEFINE other == transfers[d]
  <2>5. CallFits(Unsure(other), ownCopies, fresh, sideBySide, exported')
    <3> HIDE DEF other
    <3>1. other \in ACall /\ CallFits(other, ownCopies, fresh, sideBySide, exported)
      BY <2>1, <2>2 DEF other
    <3>2. sideBySide = TRUE \/ other.op # "import" \/ NoneAdded(ownCopies, ownCopies)
      BY <2>3
    <3> QED
      BY <3>1, <3>2, <2>3, <2>4, UnsureKept, ZenonT(60)
  <2> QED
    BY <1>1, <2>1, <2>5
<1>14. LibraryKept(exported', ownCopies', transfers')
  <2>1. exported'.library = library /\ exported'.rows = file
    BY <1>1
  <2>2. ASSUME library # None, NEW d \in Call, transfers'[d] # None
        PROVE  transfers'[d].op # "import"
    <3>1. transfers[d] # None /\ transfers[d] \in ACall /\ transfers'[d] = Unsure(transfers[d])
      BY <1>10, <2>2 DEF TransferInv, TransferTypes
    <3>2. transfers[d].op # "import"
      BY <1>11, <2>2, <3>1 DEF Importing
    <3> QED
      BY <3>1, <3>2, UnsureFields
  <2> QED
    BY <1>1, <1>8, <1>11, <2>1, <2>2 DEF LibraryKept, WritesBack
<1> QED
  BY <1>1, <1>7, <1>12, <1>13, <1>14 DEF TransferInv

LEMMA AfterImportDone ==
    ASSUME TransferInv, NEW c \in Call, ImportDone(c)
    PROVE  TransferInv'
<1> DEFINE call == transfers[c]
<1>1. /\ call # None /\ call.op = "import" /\ call.rows = <<>> /\ transfers' = [transfers EXCEPT ![c] = None]
      /\ UNCHANGED <<tableVars, exported, sideBySide>>
  BY DEF ImportDone
<1>2. call \in ACall /\ CallFits(call, ownCopies, fresh, sideBySide, exported) /\ sideBySide \in BOOLEAN
  BY <1>1 DEF TransferInv, CallFits, TransferTypes
<1>3. ASSUME call.restores = TRUE, call.existing = FALSE, sideBySide = FALSE, NEW n \in DOMAIN exported.rows
      PROVE  Restored(exported.rows[n])
  <2>1. exported # None /\ RestoresSoFar(call, exported, ownCopies)
    BY <1>1, <1>2, <1>3 DEF CallFits
  <2>2. exported.rows \in Seq(FileRow)
    BY <2>1 DEF TransferInv, FileFits
  <2>3. n \in 1 .. (Len(exported.rows) - Len(call.rows))
    BY <1>1, <1>3, <2>2
  <2>4. RestoredIn(ownCopies, exported.rows[n])
    BY <2>1, <2>3 DEF RestoresSoFar
  <2> QED
    BY <2>4 DEF RestoredIn, Restored, Active
<1>4. call.restores \in BOOLEAN /\ call.existing \in BOOLEAN
  BY <1>2 DEF ACall
<1>5. unrestored' = unrestored
  <2>1. unrestored' = (unrestored \/ /\ call.restores /\ ~call.existing /\ ~sideBySide
                                     /\ \E n \in DOMAIN exported.rows : ~Restored(exported.rows[n]))
    BY DEF ImportDone
  <2> HIDE DEF call
  <2>2. ~(/\ call.restores /\ ~call.existing /\ ~sideBySide
          /\ \E n \in DOMAIN exported.rows : ~Restored(exported.rows[n]))
    BY <1>2, <1>3, <1>4
  <2>3. unrestored = FALSE
    BY DEF TransferInv
  <2> QED
    BY <2>1, <2>2, <2>3
<1> QED
  BY <1>1, <1>5, CallStep

(************************** what an import writes **************************)

LEMMA ImportedFits ==
    ASSUME NEW row \in FileRow, row.rated = TRUE => row.state # "wishlisted",
           NEW kind \in {"manual", "shared", "imported"}, NEW lent \in BOOLEAN
    PROVE  LET item == importedCopy(row, kind, lent) IN
           /\ CopyFits(item) /\ item.edition = row.edition /\ item.state = row.state /\ item.rated = row.rated
           /\ item.refs = Wanted(row) /\ item.kind = kind /\ item.lent = lent
           /\ row.state = "previously_owned" => item.kept = row.place
           /\ row.state # "previously_owned" => item.kept = FALSE
<1> DEFINE kept == row.state = "previously_owned" /\ row.place
           rated == row.rated /\ row.state # "wishlisted"
<1>1. row.place \in BOOLEAN /\ row.rated \in BOOLEAN /\ row.edition \in Edition /\ row.state \in State
  BY DEF FileRow
<1>2. kept \in BOOLEAN /\ rated \in BOOLEAN
  OBVIOUS
<1>3. rated = row.rated
  <2>1. row.rated = TRUE \/ row.rated = FALSE
    BY <1>1
  <2> QED
    BY <2>1, Zenon
<1>4. (row.state = "previously_owned" => kept = row.place) /\ (row.state # "previously_owned" => kept = FALSE)
  BY <1>1, Zenon
<1>5. Wanted(row) \in SUBSET Entry /\ (Shelf \in Wanted(row) => row.state = "owned")
  BY DEF FileRow, Wanted, Entry
<1>6. importedCopy(row, kind, lent) = [edition |-> row.edition, kind |-> kind, state |-> row.state, refs |-> Wanted(row),
                                      kept |-> kept, rated |-> row.rated, lent |-> lent]
  BY <1>3 DEF importedCopy
<1> HIDE DEF kept, rated
<1> QED
  BY <1>1, <1>2, <1>4, <1>5, <1>6 DEF CopyFits, OwnCopy

LEMMA PlaceOf ==
    ASSUME NEW k \in Copy, NEW item
    PROVE  /\ item.state = "previously_owned" => Row(k, item).place = item.kept
           /\ item.state # "previously_owned" => (Row(k, item).place = TRUE <=> Shelf \in item.refs)
<1> DEFINE place == IF item.state = "previously_owned" THEN item.kept ELSE Shelf \in item.refs
<1>1. Row(k, item).place = place
  BY DEF Row
<1>2. CASE item.state = "previously_owned"
  BY <1>1, <1>2, Zenon
<1>3. CASE item.state # "previously_owned"
  <2>1. (Shelf \in item.refs) = TRUE <=> Shelf \in item.refs
    OBVIOUS
  <2>2. place = (Shelf \in item.refs)
    BY <1>3, Zenon
  <2> QED
    BY <1>1, <1>3, <2>1, <2>2, Zenon
<1> QED
  BY <1>2, <1>3

\* A row that says what a copy is writes that copy.
LEMMA ImportedSame ==
    ASSUME NEW k \in Copy, NEW item, CopyFits(item)
    PROVE  importedCopy(Row(k, item), item.kind, item.lent) = item
<1> DEFINE row == Row(k, item)
           kind == item.kind
           lent == item.lent
           new == importedCopy(row, kind, lent)
<1>1. item \in OwnCopy /\ item.kind \in {"manual", "shared", "imported"} /\ item.lent \in BOOLEAN /\ item.kept \in BOOLEAN
  BY DEF CopyFits, OwnCopy
<1>2. /\ row \in FileRow /\ row.edition = item.edition /\ row.state = item.state /\ row.rated = item.rated
      /\ row.labels = item.refs \ {Shelf}
      /\ item.state = "previously_owned" => row.place = item.kept
      /\ item.state # "previously_owned" => (row.place = TRUE <=> Shelf \in item.refs)
  BY RowOf, PlaceOf
<1> HIDE DEF row
<1>3. row.rated = TRUE => row.state # "wishlisted"
  BY <1>2 DEF CopyFits
<1>0. kind \in {"manual", "shared", "imported"} /\ lent \in BOOLEAN /\ row \in FileRow
  BY <1>1, <1>2
<1> HIDE DEF kind, lent
<1>4. /\ CopyFits(new) /\ new.edition = row.edition /\ new.state = row.state /\ new.rated = row.rated
      /\ new.refs = Wanted(row) /\ new.kind = kind /\ new.lent = lent
      /\ row.state = "previously_owned" => new.kept = row.place
      /\ row.state # "previously_owned" => new.kept = FALSE
  BY <1>0, <1>3, ImportedFits, ZenonT(60)
<1>5. row.place \in BOOLEAN
  BY <1>2 DEF FileRow
<1>6. Wanted(row) = item.refs
  <2>1. CASE item.state = "owned"
    BY <1>2, <1>5, <2>1 DEF Wanted
  <2>2. CASE item.state # "owned"
    BY <1>2, <2>2 DEF Wanted, CopyFits
  <2> QED
    BY <2>1, <2>2
<1> HIDE DEF new
<1>7. new.kept = item.kept
  <2>1. item.kept = TRUE => row.state = "previously_owned"
    BY <1>2 DEF CopyFits
  <2> QED
    BY <1>1, <1>2, <1>4, <2>1
<1>8. new \in OwnCopy
  BY <1>4 DEF CopyFits
<1> QED
  BY <1>1, <1>2, <1>4, <1>6, <1>7, <1>8 DEF OwnCopy, new, row, kind, lent

\* What an undisturbed import restores with a row, and keeps of the rows before it.
RowRestored(call, own, own2, crossed) ==
    call.restores = TRUE /\ call.existing = FALSE /\ crossed = FALSE =>
        /\ RestoredIn(own2, Head(call.rows))
        /\ \A row : RestoredIn(own, row) /\ row.edition # Head(call.rows).edition => RestoredIn(own2, row)

\* What a written row must keep.
WrittenBy(c) ==
    /\ ownCopies' \in [Copy -> OwnCopy \cup {None}] /\ CopiesHold(ownCopies', fresh')
    /\ Later(ownCopies, ownCopies', fresh, fresh', sideBySide, sideBySide')
    /\ sideBySide' = TRUE \/ OneOfEach(ownCopies')
    /\ sideBySide' = TRUE \/ Importing \subseteq {c} \/ NoneAdded(ownCopies, ownCopies')
    /\ RowRestored(transfers[c], ownCopies, ownCopies', sideBySide')
    /\ exported # None /\ exported.library # None => ownCopies' = ownCopies

\* An import that has written a row has restored it, and the rows before it.
LEMMA RowDone ==
    ASSUME NEW own, NEW own2, NEW unused, NEW unused2, NEW crossed \in BOOLEAN, NEW crossed2, NEW file, NEW call \in ACall,
           NEW next \in ACall, Later(own, own2, unused, unused2, crossed, crossed2), CallFits(call, own, unused, crossed, file),
           file # None => FileFits(file.rows, own, unused, crossed), call.op = "import", call.rows # <<>>,
           next.rows = Tail(call.rows), next.at = "read", next.restores = call.restores, next.existing = call.existing,
           next.op = "import", RowRestored(call, own, own2, crossed2)
    PROVE  CallFits(next, own2, unused2, crossed2, file)
<1>1. FileFits(call.rows, own, unused, crossed)
  BY DEF CallFits
<1>2. FileFits(Tail(call.rows), own, unused, crossed)
  BY <1>1, FileTail
<1>3. FileFits(next.rows, own2, unused2, crossed2)
  BY <1>2, FileKept
<1>4. ASSUME call.restores = TRUE, call.existing = FALSE, crossed2 = FALSE
      PROVE  file # None /\ RestoresSoFar(next, file, own2)
  <2>1. crossed = FALSE
    BY <1>4 DEF Later
  <2>2. file # None /\ RestoresSoFar(call, file, own) /\ FileFits(file.rows, own, unused, crossed)
    BY <1>4, <2>1 DEF CallFits
  <2> DEFINE gone == Len(file.rows) - Len(call.rows)
             rows == call.rows
  <2>3. /\ gone >= 0 /\ \A n \in DOMAIN rows : rows[n] = file.rows[gone + n]
        /\ \A n \in 1 .. gone : RestoredIn(own, file.rows[n])
    BY <2>2 DEF RestoresSoFar
  <2>4. /\ Len(Tail(rows)) = Len(rows) - 1 /\ Len(rows) \in Nat /\ DOMAIN rows = 1 .. Len(rows) /\ Head(rows) = rows[1]
        /\ 1 \in DOMAIN rows /\ \A n \in DOMAIN Tail(rows) : n \in Int /\ n + 1 \in DOMAIN rows /\ Tail(rows)[n] = rows[n + 1]
    <3>1. /\ Len(Tail(rows)) = Len(rows) - 1 /\ Len(rows) \in Nat /\ DOMAIN rows = 1 .. Len(rows) /\ Head(rows) = rows[1]
          /\ 1 \in DOMAIN rows /\ DOMAIN Tail(rows) = 1 .. Len(Tail(rows))
          /\ \A n \in DOMAIN Tail(rows) : n + 1 \in DOMAIN rows /\ Tail(rows)[n] = rows[n + 1]
      <4>1. rows \in Seq(FileRow) /\ rows # <<>>
        BY <1>1 DEF FileFits
      <4> HIDE DEF rows
      <4> QED
        BY <4>1
    <3> HIDE DEF rows
    <3> QED
      BY <3>1
  <2>5. /\ file.rows \in Seq(FileRow) /\ Len(file.rows) \in Nat /\ DOMAIN file.rows = 1 .. Len(file.rows)
        /\ \A n, m \in DOMAIN file.rows : file.rows[n].edition = file.rows[m].edition => n = m
    BY <2>1, <2>2 DEF FileFits
  <2>6. gone \in Nat /\ gone + 1 \in DOMAIN file.rows /\ Head(rows) = file.rows[gone + 1]
        /\ Len(file.rows) - Len(next.rows) = gone + 1
    <3> DEFINE all == Len(file.rows)
               left == Len(rows)
               then == Len(next.rows)
    <3>1. all \in Nat /\ left \in Nat /\ left >= 1 /\ then = left - 1 /\ all - left >= 0
      BY <2>3, <2>4, <2>5
    <3> HIDE DEF all, left, then
    <3>2. all - left \in Nat /\ all - left + 1 \in 1 .. all /\ all - then = all - left + 1
      BY <3>1
    <3>3. Head(rows) = file.rows[gone + 1]
      BY <2>3, <2>4
    <3> QED
      BY <2>5, <3>2, <3>3 DEF all, left, then
  <2>7. Len(file.rows) - Len(next.rows) = gone + 1
    BY <2>6
  <2> HIDE DEF gone
  <2>8. \A n \in 1 .. (gone + 1) : RestoredIn(own2, file.rows[n])
    <3> TAKE n \in 1 .. (gone + 1)
    <3>1. CASE n = gone + 1
      BY <1>4, <2>6, <3>1 DEF RowRestored
    <3>2. CASE n # gone + 1
      <4>1. n \in 1 .. gone /\ n \in DOMAIN file.rows
        BY <2>5, <2>6, <3>2
      <4>2. file.rows[n].edition # Head(rows).edition
        BY <2>5, <2>6, <3>2, <4>1
      <4> QED
        BY <1>4, <2>3, <4>1, <4>2 DEF RowRestored
    <3> QED
      BY <3>1, <3>2
  <2>9. \A n \in DOMAIN next.rows : next.rows[n] = file.rows[gone + 1 + n]
    <3> TAKE n \in DOMAIN next.rows
    <3>1. n \in Int /\ n + 1 \in DOMAIN rows /\ next.rows[n] = rows[n + 1]
      BY <2>4
    <3>2. gone + (n + 1) = gone + 1 + n
      BY <2>6, <3>1
    <3> QED
      BY <2>3, <3>1, <3>2
  <2>10. gone + 1 >= 0
    BY <2>6
  <2> QED
    BY <2>2, <2>7, <2>8, <2>9, <2>10 DEF RestoresSoFar
<1> QED
  BY <1>3, <1>4 DEF CallFits, MatchFits

LEMMA RowWritten ==
    ASSUME TransferInv, NEW c \in Call, ImportAt(c, "write"), WrittenBy(c), NEW known \in [Entry -> Nat],
           transfers' = [d \in Call |-> IF d = c THEN [NextRow(transfers[c]) EXCEPT !.known = known] ELSE Touched(transfers)[d]],
           entries' \in [Entry -> Nat], lastEntry' \in Nat, exported' = exported, unrestored' = unrestored
    PROVE  TransferInv'
<1> DEFINE call == transfers[c]
           next == [NextRow(call) EXCEPT !.known = known]
<1>1. /\ call # None /\ call \in ACall /\ call.op = "import" /\ call.rows # <<>>
      /\ CallFits(call, ownCopies, fresh, sideBySide, exported)
      /\ exported # None /\ exported.library # None => WritesBack(call, ownCopies)
  BY AtRow
<1>2. /\ next \in ACall /\ next.op = "import" /\ next.rows = Tail(call.rows) /\ next.at = "read"
      /\ next.existing = call.existing /\ next.restores = call.restores
  <2> DEFINE plain == NextRow(call)
  <2>1. /\ plain \in ACall /\ plain.op = "import" /\ plain.rows = Tail(call.rows) /\ plain.at = "read"
        /\ plain.existing = call.existing /\ plain.restores = call.restores
    BY <1>1, NextFields
  <2> HIDE DEF plain, call
  <2>2. LET later == [plain EXCEPT !.known = known] IN
        /\ later \in ACall /\ later.op = plain.op /\ later.rows = plain.rows /\ later.at = plain.at
        /\ later.existing = plain.existing /\ later.restores = plain.restores
    BY <2>1 DEF ACall
  <2> QED
    BY <2>1, <2>2 DEF plain
<1>3. /\ Touched(transfers) \in [Call -> ACall \cup {None}]
      /\ \A d \in Call : Touched(transfers)[d] = IF transfers[d] = None THEN None ELSE Unsure(transfers[d])
  BY TransfersTouched DEF TransferInv, TransferTypes
<1>4. transfers'[c] = next /\ \A d \in Call : d # c => transfers'[d] = Touched(transfers)[d]
  OBVIOUS
<1>5. transfers' \in [Call -> ACall \cup {None}]
  <2>1. transfers' = [d \in Call |-> IF d = c THEN next ELSE Touched(transfers)[d]]
    OBVIOUS
  <2> HIDE DEF next
  <2> QED
    BY <1>2, <1>3, <2>1
<1> HIDE DEF next, call
<1>6. Later(ownCopies, ownCopies', fresh, fresh', sideBySide, sideBySide') /\ sideBySide \in BOOLEAN /\ fresh \subseteq Copy
  BY DEF WrittenBy, TransferInv, TransferTypes
<1>7. TransferTypes'
  BY <1>5, <1>6 DEF TransferInv, TransferTypes, WrittenBy, Later
<1>8. exported # None => FileFits(exported.rows, ownCopies, fresh, sideBySide)
  BY DEF TransferInv
<1>9. exported' # None => FileFits(exported'.rows, ownCopies', fresh', sideBySide')
  BY <1>6, <1>8, FileKept
<1>10. CallFits(next, ownCopies', fresh', sideBySide', exported)
  <2>1. RowRestored(call, ownCopies, ownCopies', sideBySide')
    BY DEF WrittenBy, call
  <2>2. call \in ACall /\ CallFits(call, ownCopies, fresh, sideBySide, exported) /\ call.op = "import" /\ call.rows # <<>>
    BY <1>1
  <2> QED
    BY <1>2, <1>6, <1>8, <2>1, <2>2, RowDone
<1>11. ASSUME NEW d \in Call, d # c, transfers'[d] # None
       PROVE  CallFits(transfers'[d], ownCopies', fresh', sideBySide', exported)
  <2> DEFINE other == transfers[d]
  <2>1. other # None /\ other \in ACall /\ transfers'[d] = Unsure(other)
    BY <1>3, <1>4, <1>11 DEF TransferInv, TransferTypes
  <2>2. CallFits(other, ownCopies, fresh, sideBySide, exported)
    BY <2>1 DEF TransferInv
  <2>3. sideBySide' = TRUE \/ other.op # "import" \/ NoneAdded(ownCopies, ownCopies')
    BY <1>11, <2>1 DEF WrittenBy, Importing
  <2>4. \A k \in Copy : ownCopies[k] # None => k \notin fresh
    BY DEF TransferInv, CopiesHold
  <2>5. CallFits(Unsure(other), ownCopies', fresh', sideBySide', exported)
    <3> HIDE DEF other
    <3> QED
      BY <2>1, <2>2, <2>3, <2>4, <1>6, UnsureKept, ZenonT(60)
  <2> QED
    BY <2>1, <2>5
<1>12. LibraryKept(exported', ownCopies', transfers')
  <2>1. SUFFICES ASSUME exported # None, exported.library # None
        PROVE  /\ ownCopies' = exported.library /\ TellsLibrary(exported.rows, ownCopies')
               /\ \A d \in Call : transfers'[d] # None => WritesBack(transfers'[d], ownCopies')
    BY DEF LibraryKept
  <2>2. /\ ownCopies' = ownCopies /\ ownCopies = exported.library /\ TellsLibrary(exported.rows, ownCopies)
        /\ \A d \in Call : transfers[d] # None => WritesBack(transfers[d], ownCopies)
    BY <2>1 DEF WrittenBy, TransferInv, LibraryKept
  <2>3. WritesBack(next, ownCopies)
    <3>1. TellsLibrary(call.rows, ownCopies) /\ call.rows \in Seq(FileRow)
      BY <1>1, <2>1 DEF WritesBack, ACall
    <3> QED
      BY <1>1, <1>2, <3>1, TellsTail DEF WritesBack
  <2>4. ASSUME NEW d \in Call, d # c, transfers'[d] # None PROVE WritesBack(transfers'[d], ownCopies)
    <3> DEFINE other == transfers[d]
    <3>1. other # None /\ other \in ACall /\ transfers'[d] = Unsure(other) /\ WritesBack(other, ownCopies)
      BY <1>3, <1>4, <2>2, <2>4 DEF TransferInv, TransferTypes
    <3> HIDE DEF other
    <3>2. Unsure(other).op = other.op /\ Unsure(other).rows = other.rows /\ Unsure(other).at = other.at
          /\ Unsure(other).match = other.match
      BY <3>1, UnsureFields
    <3> QED
      BY <3>1, <3>2 DEF WritesBack
  <2> QED
    BY <1>4, <2>2, <2>3, <2>4
<1> QED
  BY <1>4, <1>7, <1>9, <1>10, <1>11, <1>12 DEF TransferInv, WrittenBy

LEMMA AfterWriteRow ==
    ASSUME TransferInv, NEW c \in Call, writeRow(c)
    PROVE  TransferInv'
<1> DEFINE call == transfers[c]
           row == Head(call.rows)
           created == {e \in Wanted(row) : entries[e] = 0}
           plain == NextRow(call)
           known == [e \in Entry |-> IF e \in Wanted(row) THEN entries'[e] ELSE plain.known[e]]
           lent == ownCopies[call.match].lent
           kind == ownCopies[call.match].kind
<1>1. /\ call # None /\ call \in ACall /\ call.op = "import" /\ call.rows # <<>> /\ call.at = "write" /\ ImportAt(c, "write")
      /\ CallFits(call, ownCopies, fresh, sideBySide, exported)
      /\ exported # None /\ exported.library # None => WritesBack(call, ownCopies)
  BY AtRow DEF writeRow
<1>2. CASE RowFails(c)
  BY <1>1, <1>2, AfterRowFails
<1>3. CASE /\ entries' = [e \in Entry |-> IF e \in created THEN lastEntry + 1 ELSE entries[e]]
           /\ lastEntry' = IF created = {} THEN lastEntry ELSE lastEntry + 1
           /\ IF call.match # None
              THEN /\ ownCopies' = IF call.match \notin Active THEN ownCopies
                            ELSE [ownCopies EXCEPT ![call.match] = importedCopy(row, kind, lent)]
                   /\ UNCHANGED <<fresh, sideBySide>>
              ELSE /\ fresh # {}
                   /\ ownCopies' = [ownCopies EXCEPT ![NewId] = importedCopy(row, importKind(row), FALSE)]
                   /\ fresh' = fresh \ {NewId}
                   /\ sideBySide' = (sideBySide \/ Importing # {c})
           /\ transfers' = [d \in Call |->
                IF d = c THEN [plain EXCEPT !.known = known] ELSE Touched(transfers)[d]]
           /\ UNCHANGED <<sharedBooks, exported, unrestored, edits, begun>>
  <2>1. /\ ownCopies \in [Copy -> OwnCopy \cup {None}] /\ CopiesHold(ownCopies, fresh) /\ fresh \subseteq Copy
        /\ sideBySide \in BOOLEAN /\ (sideBySide = TRUE \/ OneOfEach(ownCopies))
        /\ entries \in [Entry -> Nat] /\ lastEntry \in Nat
    BY DEF TransferInv, TransferTypes
  <2>2. entries' \in [Entry -> Nat] /\ lastEntry' \in Nat
    BY <1>3, <2>1
  <2>3. known \in [Entry -> Nat]
    <3>1. plain.known \in [Entry -> Nat]
      BY <1>1, NextFields DEF ACall
    <3> HIDE DEF plain
    <3> QED
      BY <2>2, <3>1
  <2>4. RowFits(row, ownCopies, fresh) /\ row \in FileRow /\ row.id \in Copy
    <3>1. FileFits(call.rows, ownCopies, fresh, sideBySide)
      BY <1>1 DEF CallFits
    <3>2. RowFits(row, ownCopies, fresh)
      BY <1>1, <3>1, FileTail
    <3> HIDE DEF row
    <3> QED
      BY <3>2 DEF RowFits, FileRow
  <2>5. /\ call.match \in Copy \cup {None}
        /\ call.match # None => /\ call.match \notin fresh
                                /\ ownCopies[call.match] # None => ownCopies[call.match].edition = row.edition
        /\ call.match = None => sideBySide = TRUE \/ \A k \in Copy : ownCopies[k] # None => ownCopies[k].edition # row.edition
    BY <1>1 DEF CallFits, MatchFits, ACall
  <2>6. call.restores = TRUE /\ call.existing = FALSE /\ sideBySide = FALSE /\ call.match # None => ownCopies[call.match] # None
    BY <1>1 DEF CallFits, RestoresSoFar
  <2>7. exported # None /\ exported.library # None =>
          call.match = row.id /\ ownCopies[row.id] # None /\ row = Row(row.id, ownCopies[row.id])
    <3>1. SUFFICES ASSUME exported # None, exported.library # None
          PROVE call.match = row.id /\ ownCopies[row.id] # None /\ row = Row(row.id, ownCopies[row.id])
      OBVIOUS
    <3>2. TellsLibrary(call.rows, ownCopies) /\ call.match = row.id
      BY <1>1, <3>1 DEF WritesBack
    <3>3. 1 \in DOMAIN call.rows /\ row = call.rows[1]
      <4>1. FileFits(call.rows, ownCopies, fresh, sideBySide) /\ row = Head(call.rows) /\ call.rows # <<>>
        BY <1>1 DEF CallFits
      <4>2. call.rows \in Seq(FileRow)
        BY <4>1 DEF FileFits
      <4> HIDE DEF row, call
      <4> QED
        BY <4>1, <4>2
    <3> QED
      BY <3>2, <3>3 DEF TellsLibrary
  <2>8. None \notin OwnCopy /\ None \notin Copy
    BY TransferAssumption
  <2>9. WrittenBy(c)
    <3>1. CASE call.match # None /\ call.match \notin Active
      <4>1. ownCopies' = ownCopies /\ fresh' = fresh /\ sideBySide' = sideBySide /\ ownCopies[call.match] = None
        BY <1>3, <2>5, <3>1 DEF Active
      <4>2. Later(ownCopies, ownCopies, fresh, fresh, sideBySide, sideBySide) /\ NoneAdded(ownCopies, ownCopies)
        BY <2>1 DEF Later, NoneAdded
      <4> HIDE DEF row
      <4>3. call.restores = TRUE /\ call.existing = FALSE => sideBySide = TRUE
        BY <2>1, <2>6, <3>1, <4>1
      <4> QED
        BY <2>1, <4>1, <4>2, <4>3 DEF WrittenBy, RowRestored
    <3>2. CASE call.match # None /\ call.match \in Active
      <4> DEFINE k == call.match
                 item == importedCopy(row, kind, lent)
      <4>1. /\ ownCopies' = [ownCopies EXCEPT ![k] = item] /\ fresh' = fresh /\ sideBySide' = sideBySide
            /\ k \in Copy /\ ownCopies[k] # None /\ ownCopies[k].edition = row.edition /\ k \notin fresh
        BY <1>3, <2>5, <3>2 DEF Active
      <4>2. CopyFits(ownCopies[k]) /\ kind \in {"manual", "shared", "imported"} /\ lent \in BOOLEAN
        BY <2>1, <4>1 DEF CopiesHold, CopyFits, OwnCopy
      <4>3. row.rated = TRUE => row.state # "wishlisted"
        BY <2>4 DEF RowFits
      <4> HIDE DEF kind, lent, row
      <4>4. /\ CopyFits(item) /\ item.edition = row.edition /\ item.state = row.state /\ item.rated = row.rated
            /\ item.refs = Wanted(row) /\ (row.state = "previously_owned" => item.kept = row.place)
        BY <2>4, <4>2, <4>3, ImportedFits, ZenonT(60)
      <4>5. exported # None /\ exported.library # None => item = ownCopies[k]
        <5>1. SUFFICES ASSUME exported # None, exported.library # None PROVE item = ownCopies[k]
          OBVIOUS
        <5>2. row = Row(k, ownCopies[k])
          BY <2>7, <5>1
        <5>3. importedCopy(Row(k, ownCopies[k]), kind, lent) = ownCopies[k]
          BY <4>1, <4>2, ImportedSame DEF kind, lent
        <5> QED
          BY <5>2, <5>3
      <4> HIDE DEF item, k
      <4>6. item \in OwnCopy /\ item # None
        BY <2>8, <4>4 DEF CopyFits
      <4>7. /\ ownCopies' \in [Copy -> OwnCopy \cup {None}] /\ ownCopies'[k] = item
            /\ \A j \in Copy : j # k => ownCopies'[j] = ownCopies[j]
        BY <2>1, <4>1, <4>6
      <4>8. /\ CopiesHold(ownCopies', fresh') /\ NoneAdded(ownCopies, ownCopies')
            /\ Later(ownCopies, ownCopies', fresh, fresh', sideBySide, sideBySide')
        BY <2>1, <4>1, <4>4, <4>7 DEF CopiesHold, NoneAdded, Later
      <4>9. sideBySide' = TRUE \/ OneOfEach(ownCopies')
        BY <2>1, <4>1, <4>4, <4>7 DEF OneOfEach
      <4>10. RestoredIn(ownCopies', row)
        BY <4>1, <4>4, <4>6, <4>7 DEF RestoredIn
      <4>11. ASSUME NEW other, RestoredIn(ownCopies, other), other.edition # row.edition PROVE RestoredIn(ownCopies', other)
        BY <4>1, <4>7, <4>11 DEF RestoredIn
      <4>12. exported # None /\ exported.library # None => ownCopies' = ownCopies
        BY <2>1, <4>1, <4>5, <4>7
      <4> QED
        BY <4>7, <4>8, <4>9, <4>10, <4>11, <4>12 DEF WrittenBy, RowRestored, row
    <3>3. CASE call.match = None
      <4> DEFINE k == NewId
                 new == importKind(row)
                 item == importedCopy(row, new, FALSE)
      <4>1. /\ ownCopies' = [ownCopies EXCEPT ![k] = item] /\ fresh' = fresh \ {k} /\ fresh # {}
            /\ sideBySide' = (sideBySide \/ Importing # {c})
        BY <1>3, <3>3
      <4>2. k \in fresh /\ k \in Copy /\ ownCopies[k] = None
        BY <2>1, <4>1 DEF NewId, CopiesHold
      <4>3. new \in {"manual", "shared", "imported"} /\ (row.rated = TRUE => row.state # "wishlisted")
        BY <2>4 DEF importKind, RowFits
      <4> HIDE DEF new, row
      <4>4. /\ CopyFits(item) /\ item.edition = row.edition /\ item.state = row.state /\ item.rated = row.rated
            /\ item.refs = Wanted(row) /\ (row.state = "previously_owned" => item.kept = row.place)
        <5> DEFINE no == FALSE
        <5>1. no \in BOOLEAN
          OBVIOUS
        <5>2. item = importedCopy(row, new, no)
          OBVIOUS
        <5> HIDE DEF no, item
        <5> QED
          BY <2>4, <4>3, <5>1, <5>2, ImportedFits
      <4> HIDE DEF item, k
      <4>5. item \in OwnCopy /\ item # None
        BY <2>8, <4>4 DEF CopyFits
      <4>6. /\ ownCopies' \in [Copy -> OwnCopy \cup {None}] /\ ownCopies'[k] = item
            /\ \A j \in Copy : j # k => ownCopies'[j] = ownCopies[j]
        BY <2>1, <4>1, <4>2, <4>5
      <4>7. /\ sideBySide' \in BOOLEAN /\ (sideBySide = TRUE => sideBySide' = TRUE)
            /\ sideBySide' = TRUE \/ (Importing \subseteq {c} /\ sideBySide = FALSE)
        BY <2>1, <4>1
      <4>8. CopiesHold(ownCopies', fresh') /\ Later(ownCopies, ownCopies', fresh, fresh', sideBySide, sideBySide')
        BY <2>1, <4>1, <4>2, <4>4, <4>6, <4>7 DEF CopiesHold, Later
      <4>9. sideBySide' = TRUE \/ OneOfEach(ownCopies')
        <5>1. SUFFICES ASSUME sideBySide' # TRUE PROVE OneOfEach(ownCopies')
          OBVIOUS
        <5>2. OneOfEach(ownCopies) /\ \A j \in Copy : ownCopies[j] # None => ownCopies[j].edition # row.edition
          BY <2>1, <2>5, <3>3, <4>7, <5>1
        <5> QED
          BY <4>2, <4>4, <4>6, <5>2 DEF OneOfEach
      <4>10. RestoredIn(ownCopies', row)
        BY <4>2, <4>4, <4>5, <4>6 DEF RestoredIn
      <4>11. ASSUME NEW other, RestoredIn(ownCopies, other), other.edition # row.edition PROVE RestoredIn(ownCopies', other)
        BY <4>2, <4>6, <4>11 DEF RestoredIn
      <4>12. ~(exported # None /\ exported.library # None)
        BY <2>4, <2>7, <2>8, <3>3
      <4> QED
        BY <4>6, <4>7, <4>8, <4>9, <4>10, <4>11, <4>12 DEF WrittenBy, RowRestored, row
    <3> QED
      BY <3>1, <3>2, <3>3
  <2>10. transfers' = [d \in Call |-> IF d = c THEN [NextRow(transfers[c]) EXCEPT !.known = known] ELSE Touched(transfers)[d]]
    BY <1>3
  <2>11. exported' = exported /\ unrestored' = unrestored
    BY <1>3
  <2> HIDE DEF known
  <2> QED
    BY <1>1, <2>2, <2>3, <2>9, <2>10, <2>11, RowWritten
<1> QED
  <2>1. RowFails(c) \/ ~RowFails(c)
    OBVIOUS
  <2> QED
    BY <1>2, <1>3, Zenon DEF writeRow

(****************************** every step *********************************)

LEMMA TransferStarts ==
    ASSUME TransferInit
    PROVE  TransferInv
<1>1. PICK first \in SomeCopy(FirstBook), second \in {None} \cup SecondCopies :
        ownCopies = [k \in Copy |-> IF k = FirstId THEN first ELSE IF k = SecondId THEN second ELSE None]
  BY DEF TransferInit
<1>2. /\ fresh = Copy \ Active /\ transfers = [c \in Call |-> None] /\ exported = None /\ sideBySide = FALSE
      /\ unrestored = FALSE /\ lastEntry = 1
      /\ entries = [e \in Entry |-> IF \E k \in Active : e \in ownCopies[k].refs THEN 1 ELSE 0]
  BY DEF TransferInit
<1>3. FirstBook \in Edition /\ Shelf # Label
  BY TransferAssumption DEF FirstBook
<1>4. CopyFits(first) /\ first.edition = FirstBook
  <2> DEFINE plain == NewCopy(FirstBook, "manual", "owned")
             wished == NewCopy(FirstBook, "shared", "wishlisted")
             had == NewCopy(FirstBook, "shared", "previously_owned")
  <2>1. /\ plain \in OwnCopy /\ plain.edition = FirstBook /\ plain.state = "owned" /\ plain.kept = FALSE
        /\ wished \in OwnCopy /\ wished.edition = FirstBook /\ wished.state = "wishlisted" /\ wished.rated = FALSE
        /\ wished.kept = FALSE
        /\ had \in OwnCopy /\ had.edition = FirstBook /\ had.state = "previously_owned" /\ had.refs = {}
    BY <1>3 DEF NewCopy, OwnCopy, State
  <2>2. first \in {[plain EXCEPT !.refs = Entry, !.rated = TRUE], [wished EXCEPT !.refs = {Label}],
                   [had EXCEPT !.kept = TRUE, !.rated = TRUE]}
    BY DEF SomeCopy
  <2> HIDE DEF plain, wished, had
  <2>3. CASE first = [plain EXCEPT !.refs = Entry, !.rated = TRUE]
    BY <2>1, <2>3 DEF CopyFits, OwnCopy
  <2>4. CASE first = [wished EXCEPT !.refs = {Label}]
    BY <1>3, <2>1, <2>4 DEF CopyFits, OwnCopy, Entry
  <2>5. CASE first = [had EXCEPT !.kept = TRUE, !.rated = TRUE]
    BY <2>1, <2>5 DEF CopyFits, OwnCopy
  <2> QED
    BY <2>2, <2>3, <2>4, <2>5
<1>5. second # None => CopyFits(second) /\ second.edition # FirstBook
  <2>1. SUFFICES ASSUME second # None PROVE CopyFits(second) /\ second.edition # FirstBook
    OBVIOUS
  <2>2. PICK edition \in Edition \ {FirstBook} : second = [NewCopy(edition, "shared", "owned") EXCEPT !.refs = {Shelf}]
    BY <2>1 DEF SecondCopies
  <2> DEFINE plain == NewCopy(edition, "shared", "owned")
  <2>3. plain \in OwnCopy /\ plain.edition = edition /\ plain.state = "owned" /\ plain.kept = FALSE
    BY DEF NewCopy, OwnCopy, State
  <2>4. second = [plain EXCEPT !.refs = {Shelf}]
    BY <2>2
  <2> HIDE DEF plain
  <2> QED
    BY <2>3, <2>4 DEF CopyFits, OwnCopy, Entry
<1>6. first \in OwnCopy /\ (second # None => second \in OwnCopy)
  BY <1>4, <1>5 DEF CopyFits
<1>7. /\ ownCopies \in [Copy -> OwnCopy \cup {None}]
      /\ \A k \in Copy : ownCopies[k] # None => \/ k = FirstId /\ ownCopies[k] = first
                                                \/ k = SecondId /\ k # FirstId /\ ownCopies[k] = second /\ second # None
  BY <1>1, <1>6
<1>8. CopiesHold(ownCopies, fresh)
  BY <1>2, <1>4, <1>5, <1>7 DEF CopiesHold, Active
<1>9. OneOfEach(ownCopies)
  BY <1>4, <1>5, <1>7 DEF OneOfEach
<1>10. TransferTypes
  BY <1>2, <1>7 DEF TransferTypes
<1> QED
  BY <1>2, <1>8, <1>9, <1>10 DEF TransferInv, LibraryKept

LEMMA TransferStands ==
    ASSUME TransferInv, UNCHANGED transferVars
    PROVE  TransferInv'
<1>1. /\ ownCopies' = ownCopies /\ fresh' = fresh /\ entries' = entries /\ lastEntry' = lastEntry
      /\ transfers' = transfers /\ exported' = exported /\ sideBySide' = sideBySide /\ unrestored' = unrestored
  BY DEF transferVars, tableVars
<1> QED
  BY <1>1 DEF TransferInv, TransferTypes

LEMMA TransferSteps ==
    ASSUME TransferInv, TransferNext
    PROVE  TransferInv'
<1>1. CASE addBook
  BY <1>1, AfterAddBook
<1>2. ASSUME NEW k \in Copy, removeCopy(k) \/ useCopy(k) \/ \E state \in State : changeState(k, state)
      PROVE  TransferInv'
  BY <1>2, AfterRemoveCopy, AfterUseCopy, AfterChangeState
<1>3. ASSUME NEW e \in Entry, createEntry(e) \/ deleteEntry(e)
      PROVE  TransferInv'
  BY <1>3, AfterEntry
<1>4. ASSUME NEW c \in Call, listExportRecords(c) \/ exportLibraryCsv(c)
      PROVE  TransferInv'
  BY <1>4, AfterListExportRecords, AfterExportLibraryCsv
<1>5. ASSUME NEW c \in Call, importLibraryCsv(c) \/ resolveRow(c) \/ writeRow(c) \/ ImportDone(c) \/ ImportCrash(c)
      PROVE  TransferInv'
  BY <1>5, AfterImportLibraryCsv, AfterResolveRow, AfterWriteRow, AfterImportDone, AfterImportCrash
<1> QED
  BY <1>1, <1>2, <1>3, <1>4, <1>5 DEF TransferNext

LEMMA TransferInvRestores ==
    ASSUME TransferInv
    PROVE  ExportRestores
<1>1. exported # None /\ exported.library # None => ownCopies = exported.library
  BY DEF TransferInv, LibraryKept
<1>2. ASSUME sideBySide # TRUE, NEW edition \in Edition
      PROVE  Cardinality(CopiesOf(edition)) <= 1
  <2>1. \A k, j \in CopiesOf(edition) : k = j
    BY <1>2 DEF TransferInv, OneOfEach, CopiesOf, Active
  <2>2. CASE CopiesOf(edition) = {}
    <3>1. Cardinality(CopiesOf(edition)) = 0
      BY <2>2, FS_EmptySet
    <3> QED
      BY <3>1
  <2>3. CASE CopiesOf(edition) # {}
    <3>1. PICK k : CopiesOf(edition) = {k}
      BY <2>1, <2>3
    <3>2. Cardinality(CopiesOf(edition)) = 1
      BY <3>1, FS_Singleton
    <3> QED
      BY <3>2
  <2> QED
    BY <2>2, <2>3
<1>3. unrestored = FALSE /\ sideBySide \in BOOLEAN
  BY DEF TransferInv, TransferTypes
<1> QED
  BY <1>1, <1>2, <1>3 DEF ExportRestores

(* An export restores the library: imported over an unchanged library it   *)
(* changes nothing, an undisturbed import that prefers the file's data     *)
(* brings back every row, and no book comes twice, whatever the user does  *)
(* beside and however many exports and imports are under way.              *)
THEOREM ExportIsTrue == TransferSpec => []ExportRestores
<1>1. TransferInit => TransferInv
  BY TransferStarts
<1>2. TransferInv /\ [TransferNext]_transferVars => TransferInv'
  BY TransferSteps, TransferStands
<1>3. TransferInv => ExportRestores
  BY TransferInvRestores
<1> QED
  BY <1>1, <1>2, <1>3, PTL DEF TransferSpec
=============================================================================
