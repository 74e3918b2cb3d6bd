----------------------------- MODULE Catalogue ------------------------------
(***************************************************************************)
(* The shared record of one ISBN and the copies readers add of it: the two *)
(* ways it is created (createCoreOpenLibraryBook for a lookup or an add,   *)
(* ensureOpenLibraryBook for a bulk lookup), its enrichment, and           *)
(* addBookByISBN, createManualBook and removeFromLibrary, while they       *)
(* interleave.                                                             *)
(***************************************************************************)
EXTENDS Actors

CONSTANTS
    Author,         \* authors the provider may name
    Reader,
    MaxCatalogueOps

VARIABLES
    shared,         \* the row of books: None, or its authors and whether it has system tags
    copies,         \* the active copies of it, by reader
    manual,         \* the readers with a book of their own under the same ISBN
    catalogueCalls,
    catalogueOps    \* calls begun, at most MaxCatalogueOps

catalogueVars == <<shared, copies, manual, catalogueCalls, catalogueOps>>
catalogueTables == <<shared, copies, manual>>

Unknown == "Unknown Author"
\* an answer of the provider: the authors it names
Answers == {{}} \cup {{a} : a \in Author} \cup {Author}

\* a row of books, and what a call remembers
SharedRow == [authors : SUBSET (Author \cup {Unknown}), tags : BOOLEAN]
CatalogueStep ==
    {"find", "fetch", "core", "insert", "answer", "authors", "tags", "ensure", "insertBulk",
     "hasTags", "hasAuthors", "hydrate", "enrich", "replace", "owned", "copy"}
CatalogueRequest ==
    [op : {"lookup", "add", "bulk", "enrich"}, at : CatalogueStep, reader : Reader \cup {None},
     authors : SUBSET Author, links : SUBSET (Author \cup {Unknown}),
     then : {"answer", "tags", "authors", "end", None}]

ASSUME CatalogueAssumption ==
    /\ None \notin SharedRow \cup CatalogueRequest \cup Reader
    /\ MaxCatalogueOps \in Nat

-----------------------------------------------------------------------------

CatalogueCall(c, op, at, reader) ==
    /\ catalogueCalls[c] = None
    /\ Room(catalogueOps, MaxCatalogueOps)
    /\ catalogueOps' = catalogueOps + 1
    /\ catalogueCalls' = [catalogueCalls EXCEPT ![c] =
         [op |-> op, at |-> at, reader |-> reader, authors |-> {}, links |-> {}, then |-> None]]
    /\ UNCHANGED catalogueTables

CallAt(c, at) == catalogueCalls[c] # None /\ catalogueCalls[c].at = at
CallGoes(c, call) == catalogueCalls' = [catalogueCalls EXCEPT ![c] = call] /\ UNCHANGED catalogueOps
CallMoves(c, at) == CallGoes(c, [catalogueCalls[c] EXCEPT !.at = at])
CallEnds(c) == CallGoes(c, None)

lookupBook(c) == CatalogueCall(c, "lookup", "find", None)
addBookToLibrary(c) == \E r \in Reader : CatalogueCall(c, "add", "find", r)
bulkLookupBooks(c) == CatalogueCall(c, "bulk", "find", None)
enrichOpenLibraryBook(c) == shared # None /\ CatalogueCall(c, "enrich", "fetch", None)

\* the provider, the database or the process fails: what was written stays
CallFails(c) ==
    /\ catalogueCalls[c] # None
    /\ catalogueCalls[c].at # "answer"
    /\ CallEnds(c)
    /\ UNCHANGED catalogueTables

-----------------------------------------------------------------------------
(* Lookups                                                                 *)

\* a record that is there answers, or is added, as it is
findByIsbn(c) ==
    /\ CallAt(c, "find")
    /\ CASE shared = None -> CallMoves(c, "fetch")
         [] shared # None /\ catalogueCalls[c].op = "add" -> CallMoves(c, "owned")
         [] OTHER -> CallEnds(c)
    /\ UNCHANGED catalogueTables

Fetch(c) ==
    /\ CallAt(c, "fetch")
    /\ \E answer \in Answers :
         CallGoes(c, [catalogueCalls[c] EXCEPT
             !.authors = answer,
             !.at = CASE catalogueCalls[c].op = "bulk" -> "ensure"
                      [] catalogueCalls[c].op = "enrich" -> "enrich"
                      [] OTHER -> "core"])
    /\ UNCHANGED catalogueTables

NamesOf(call) == IF call.authors = {} THEN {Unknown} ELSE call.authors

\* setBookAuthors links the names one by one, then the call goes on
SetAuthors(c, then) ==
    LET call == catalogueCalls[c] IN
    CallGoes(c, [call EXCEPT !.at = "authors", !.links = NamesOf(call), !.then = then])

setBookAuthors(c) ==
    /\ CallAt(c, "authors")
    /\ LET call == catalogueCalls[c] IN
       \E a \in call.links :
         /\ shared' = [shared EXCEPT !.authors = @ \cup {a}]
         /\ CallGoes(c, [call EXCEPT !.links = @ \ {a}, !.at = IF call.links = {a} THEN call.then ELSE @])
    /\ UNCHANGED <<copies, manual>>

\* subjects, if the provider has any, then the call is over
hydrateTags(c) ==
    /\ CallAt(c, "tags")
    /\ \E tags \in {shared.tags, TRUE} : shared' = [shared EXCEPT !.tags = tags]
    /\ CallEnds(c)
    /\ UNCHANGED <<copies, manual>>

-----------------------------------------------------------------------------
(* createCoreOpenLibraryBook                                               *)

LacksAuthors_Ignored == FALSE
LacksAuthors == shared.authors = {}

\* a competing bulk lookup may have written the book and not its authors yet
FindExisting(c) ==
    /\ CallAt(c, "core")
    /\ CASE shared = None -> CallMoves(c, "insert")
         [] shared # None /\ LacksAuthors -> SetAuthors(c, "answer")
         [] OTHER -> CallMoves(c, "answer")
    /\ UNCHANGED catalogueTables

\* the book, on conflict nothing, and its authors for whichever row has the ISBN
createCoreOpenLibraryBook(c) ==
    /\ CallAt(c, "insert")
    /\ LET names == NamesOf(catalogueCalls[c]) IN
       shared' = IF shared = None THEN [authors |-> names, tags |-> FALSE]
                 ELSE [shared EXCEPT !.authors = @ \cup names]
    /\ CallMoves(c, "answer")
    /\ UNCHANGED <<copies, manual>>

AnswerCore(c) ==
    /\ CallAt(c, "answer")
    /\ IF catalogueCalls[c].op = "add" THEN CallMoves(c, "owned") ELSE CallEnds(c)
    /\ UNCHANGED catalogueTables

-----------------------------------------------------------------------------
(* ensureOpenLibraryBook                                                   *)

EnsureFindExisting(c) ==
    /\ CallAt(c, "ensure")
    /\ CallMoves(c, IF shared = None THEN "insertBulk" ELSE "hasTags")
    /\ UNCHANGED catalogueTables

insertOpenLibraryBook(c) ==
    /\ CallAt(c, "insertBulk")
    /\ shared' = IF shared = None THEN [authors |-> {}, tags |-> FALSE] ELSE shared
    /\ SetAuthors(c, "tags")
    /\ UNCHANGED <<copies, manual>>

\* hydrateMissingOpenLibraryMetadataForBook asks the provider again for a book without tags
hasSystemTagsForBook(c) ==
    /\ CallAt(c, "hasTags")
    /\ IF shared.tags THEN CallEnds(c) ELSE CallMoves(c, "hasAuthors")
    /\ UNCHANGED catalogueTables

hasAuthorsForBook(c) ==
    /\ CallAt(c, "hasAuthors")
    /\ \E answer \in Answers :
         CallGoes(c, [catalogueCalls[c] EXCEPT !.authors = answer, !.at = "hydrate",
                                               !.then = IF LacksAuthors THEN "authors" ELSE "end"])
    /\ UNCHANGED catalogueTables

hydrateMissingOpenLibraryMetadataForBook(c) ==
    /\ CallAt(c, "hydrate")
    /\ \E tags \in {shared.tags, TRUE} : shared' = [shared EXCEPT !.tags = tags]
    /\ IF catalogueCalls[c].then = "authors" THEN SetAuthors(c, "answer") ELSE CallEnds(c)
    /\ UNCHANGED <<copies, manual>>

-----------------------------------------------------------------------------
(* applyOpenLibraryEnrichment replaces the placeholder by what the         *)
(* provider names                                                          *)

ReadPlaceholder(c) ==
    /\ CallAt(c, "enrich")
    /\ CallMoves(c, IF catalogueCalls[c].authors # {} /\ shared.authors = {Unknown} THEN "replace" ELSE "tags")
    /\ UNCHANGED catalogueTables

Replaced_All(links) == {}
Replaced(links) == links \ {Unknown}

replaceUnknownBookAuthor(c) ==
    /\ CallAt(c, "replace")
    /\ shared' = [shared EXCEPT !.authors = Replaced(@) \cup catalogueCalls[c].authors]
    /\ CallMoves(c, "tags")
    /\ UNCHANGED <<copies, manual>>

-----------------------------------------------------------------------------
(* Copies                                                                  *)

\* addBookByISBN looks for any active book of the reader under the ISBN ...
CheckOwned(c) ==
    /\ CallAt(c, "owned")
    /\ LET r == catalogueCalls[c].reader IN
       IF copies[r] > 0 \/ r \in manual THEN CallEnds(c) ELSE CallMoves(c, "copy")
    /\ UNCHANGED catalogueTables

NoActiveCopy_Unchecked(r) == TRUE
NoActiveCopy(r) == copies[r] = 0

\* ... and inserts, where a unique index refuses a second active copy
addBookByISBN(c) ==
    /\ CallAt(c, "copy")
    /\ LET r == catalogueCalls[c].reader IN
       copies' = [copies EXCEPT ![r] = IF NoActiveCopy(r) THEN @ + 1 ELSE @]
    /\ CallEnds(c)
    /\ UNCHANGED <<shared, manual>>

createManualBook == \E r \in Reader \ manual :
    /\ manual' = manual \cup {r}
    /\ UNCHANGED <<shared, copies, catalogueCalls, catalogueOps>>

removeFromLibrary == \E r \in Reader :
    /\ copies[r] > 0
    /\ copies' = [copies EXCEPT ![r] = @ - 1]
    /\ UNCHANGED <<shared, manual, catalogueCalls, catalogueOps>>

-----------------------------------------------------------------------------

CatalogueInit ==
    /\ shared = None
    /\ copies = [r \in Reader |-> 0]
    /\ manual = {}
    /\ catalogueCalls = [c \in Call |-> None]
    /\ catalogueOps = 0

CatalogueNext ==
    \/ createManualBook \/ removeFromLibrary
    \/ \E c \in Call :
         \/ lookupBook(c) \/ addBookToLibrary(c) \/ bulkLookupBooks(c) \/ enrichOpenLibraryBook(c) \/ CallFails(c)
         \/ findByIsbn(c) \/ Fetch(c) \/ setBookAuthors(c) \/ hydrateTags(c)
         \/ FindExisting(c) \/ createCoreOpenLibraryBook(c) \/ AnswerCore(c)
         \/ EnsureFindExisting(c) \/ insertOpenLibraryBook(c) \/ hasSystemTagsForBook(c) \/ hasAuthorsForBook(c)
         \/ hydrateMissingOpenLibraryMetadataForBook(c)
         \/ ReadPlaceholder(c) \/ replaceUnknownBookAuthor(c)
         \/ CheckOwned(c) \/ addBookByISBN(c)

CatalogueSpec == CatalogueInit /\ [][CatalogueNext]_catalogueVars

-----------------------------------------------------------------------------

CatalogueTypeOK ==
    /\ shared \in SharedRow \cup {None}
    /\ \A c \in Call : catalogueCalls[c] \in CatalogueRequest \cup {None}
    /\ manual \subseteq Reader

(* An author the provider named once stays with the shared book: the       *)
(* placeholder is replaced on the strength of a read made before other     *)
(* lookups linked theirs.                                                  *)
AuthorsStay == [][shared # None => shared.authors \ {Unknown} \subseteq shared'.authors]_catalogueVars

(* Whoever looks a book up through createCoreOpenLibraryBook is shown      *)
(* authors, even when a bulk lookup has written the book and not yet, or   *)
(* never, its authors.                                                     *)
CoreAnswersHaveAuthors == \A c \in Call : CallAt(c, "answer") => shared.authors # {}

(* A reader who adds the book in two windows, or removes it while adding   *)
(* it, never has two active copies of the shared book.                     *)
OneCopyEach == \A r \in Reader : copies[r] <= 1

(* Both: what is shown of a shared book is complete, and each reader has it once. *)
CatalogueIsSound == CoreAnswersHaveAuthors /\ OneCopyEach
=============================================================================
