--------------------------- MODULE LibraryTransfer ---------------------------
(***************************************************************************)
(* Export of a user's library to CSV and import of such a file, row by     *)
(* row, beside what the user does meanwhile. Every row is resolved against *)
(* the tables and written in a batch of its own; ids found for one row are *)
(* kept for the next. The jobs an import queues are in ImportEnrichment,   *)
(* the covers it replaces in CoverStorage.                                 *)
(***************************************************************************)
EXTENDS Actors

CONSTANTS
    Copy,           \* ids of user_books rows
    Edition,        \* what identifies a book in a file: its ISBN, or else title and author
    Shelf, Label,   \* a location, and a tag, with a row of their own
    MaxEdits, MaxTransfers

VARIABLES
    ownCopies,      \* the active copies: None, or one
    fresh,          \* ids that are not used yet
    entries,        \* the row of the location or tag: 0 or its id
    lastEntry,      \* the latest id of such a row
    sharedBooks,    \* editions with an Open Library record
    transfers,      \* exports and imports under way
    exported,       \* the last export: None, or its rows and the library as it still is
    sideBySide,     \* an import wrote while another, or the user, added a book
    unrestored,     \* an import left out a row of the export
    edits, begun    \* of the user's requests and of transfers, at most MaxEdits and MaxTransfers

tableVars == <<ownCopies, fresh, entries, lastEntry, sharedBooks>>
transferVars == <<tableVars, transfers, exported, sideBySide, unrestored, edits, begun>>

Entry == {Shelf, Label}
Active == {k \in Copy : ownCopies[k] # None}
CopiesOf(edition) == {k \in Active : ownCopies[k].edition = edition}

State == {"owned", "wishlisted", "previously_owned"}
OwnCopy == [edition : Edition, kind : {"manual", "shared", "imported"}, state : State, refs : SUBSET Entry,
            kept : BOOLEAN, rated : BOOLEAN, lent : BOOLEAN]

ASSUME TransferAssumption ==
    Edition # {} /\ Shelf # Label /\ IsFiniteSet(Copy) /\ None \notin Copy /\ None \notin OwnCopy

-----------------------------------------------------------------------------
(* The user's other requests                                               *)

Importing == {c \in Call : transfers[c] # None /\ transfers[c].op = "import"}

\* the user did something: what an import finds is not what was exported
Touched(calls) == [c \in Call |-> IF calls[c] = None THEN None ELSE [calls[c] EXCEPT !.restores = FALSE]]
UserDoes ==
    /\ Room(edits, MaxEdits)
    /\ edits' = edits + 1
    /\ transfers' = Touched(transfers)
    /\ exported' = IF exported = None THEN None ELSE [exported EXCEPT !.library = None]
    /\ UNCHANGED <<unrestored, begun>>

NewId == CHOOSE k \in fresh : TRUE

NewCopy(edition, kind, state) ==
    [edition |-> edition, kind |-> kind, state |-> state, refs |-> {}, kept |-> FALSE, rated |-> FALSE, lent |-> FALSE]

addBook == \E edition \in Edition, kind \in {"manual", "shared"} :
    /\ fresh # {}
    /\ CopiesOf(edition) = {}
    /\ UserDoes
    /\ ownCopies' = [ownCopies EXCEPT ![NewId] = NewCopy(edition, kind, "owned")]
    /\ fresh' = fresh \ {NewId}
    /\ sharedBooks' = IF kind = "shared" THEN sharedBooks \cup {edition} ELSE sharedBooks
    /\ sideBySide' = (sideBySide \/ Importing # {})
    /\ UNCHANGED <<entries, lastEntry>>

Change(k, copy) ==
    /\ UserDoes
    /\ ownCopies' = [ownCopies EXCEPT ![k] = copy]
    /\ UNCHANGED <<fresh, entries, lastEntry, sharedBooks, sideBySide>>

removeCopy(k) == k \in Active /\ ~ownCopies[k].lent /\ Change(k, None)

\* what a copy keeps when its state changes
changeState(k, state) ==
    /\ k \in Active /\ ownCopies[k].state # state
    /\ state = "owned" \/ ~ownCopies[k].lent
    /\ Change(k, CASE state = "wishlisted" -> [ownCopies[k] EXCEPT !.state = state, !.refs = @ \ {Shelf}, !.kept = FALSE, !.rated = FALSE]
                   [] state = "previously_owned" -> [ownCopies[k] EXCEPT !.state = state, !.kept = Shelf \in ownCopies[k].refs, !.refs = @ \ {Shelf}]
                   [] OTHER -> [ownCopies[k] EXCEPT !.state = state, !.kept = FALSE])

\* rating, tags, location and loans of a copy, each by its own handler
useCopy(k) ==
    /\ k \in Active
    /\ \/ ownCopies[k].state # "wishlisted" /\ Change(k, [ownCopies[k] EXCEPT !.rated = ~@])
       \/ ownCopies[k].state = "owned" /\ Change(k, [ownCopies[k] EXCEPT !.lent = ~@])
       \/ \E e \in Entry :
            /\ entries[e] # 0
            /\ e = Shelf => ownCopies[k].state = "owned"
            /\ Change(k, [ownCopies[k] EXCEPT !.refs = IF e \in @ THEN @ \ {e} ELSE @ \cup {e}])

createEntry(e) ==
    /\ entries[e] = 0
    /\ UserDoes
    /\ entries' = [entries EXCEPT ![e] = lastEntry + 1] /\ lastEntry' = lastEntry + 1
    /\ UNCHANGED <<ownCopies, fresh, sharedBooks, sideBySide>>

\* a location is deleted by the user, a tag collected when nothing has it
deleteEntry(e) ==
    /\ entries[e] # 0
    /\ e = Shelf \/ \A k \in Active : e \notin ownCopies[k].refs
    /\ UserDoes
    /\ entries' = [entries EXCEPT ![e] = 0]
    /\ ownCopies' = [k \in Copy |-> IF k \in Active THEN [ownCopies[k] EXCEPT !.refs = @ \ {e}] ELSE None]
    /\ UNCHANGED <<fresh, lastEntry, sharedBooks, sideBySide>>

-----------------------------------------------------------------------------
(* Export                                                                  *)

\* what a file has of a copy; a loan is written, but no import reads it
Row(k, copy) == [id |-> k, edition |-> copy.edition, state |-> copy.state, shared |-> copy.kind = "shared",
                 labels |-> copy.refs \ {Shelf},
                 place |-> IF copy.state = "previously_owned" THEN copy.kept ELSE Shelf \in copy.refs,
                 rated |-> copy.rated]

Transfer(op, rows) == [op |-> op, rows |-> rows, existing |-> TRUE, restores |-> TRUE, at |-> "read",
                       match |-> None, found |-> [e \in Entry |-> 0], known |-> [e \in Entry |-> 0]]

BeginTransfer(c, call) ==
    /\ transfers[c] = None
    /\ Room(begun, MaxTransfers)
    /\ begun' = begun + 1 /\ UNCHANGED edits
    /\ transfers' = [transfers EXCEPT ![c] = call]

\* the copies, and then their tags
listExportRecords(c) ==
    /\ BeginTransfer(c, Transfer("export", SetToSeq({Row(k, ownCopies[k]) : k \in Active})))
    /\ UNCHANGED <<tableVars, exported, sideBySide, unrestored>>
exportLibraryCsv(c) ==
    /\ transfers[c] # None /\ transfers[c].op = "export"
    /\ LET tagged(row) == [row EXCEPT !.labels = IF ownCopies[row.id] = None THEN {} ELSE ownCopies[row.id].refs \ {Shelf}]
           rows == transfers[c].rows
       IN exported' = [rows |-> [n \in DOMAIN rows |-> tagged(rows[n])],
                       library |-> IF transfers[c].restores /\ Importing = {} THEN ownCopies ELSE None]
    /\ transfers' = [Touched(transfers) EXCEPT ![c] = None]   \* imports are of an earlier file
    /\ UNCHANGED <<tableVars, sideBySide, unrestored, edits, begun>>

-----------------------------------------------------------------------------
(* Import                                                                  *)

\* unless the file is refused: it must be within the limits on cells and lists that no
\* export heeds
importLibraryCsv(c) == \E existing \in BOOLEAN :
    /\ exported # None /\ exported.rows # <<>>
    /\ BeginTransfer(c, [Transfer("import", exported.rows) EXCEPT !.existing = existing])
    /\ UNCHANGED <<tableVars, exported, sideBySide, unrestored>>

ImportAt(c, at) == transfers[c] # None /\ transfers[c].op = "import" /\ transfers[c].at = at /\ transfers[c].rows # <<>>
ImportGoes(c, call) == transfers' = [transfers EXCEPT ![c] = call]
NextRow(call) == [call EXCEPT !.at = "read", !.rows = Tail(@)]
RowFails(c) ==
    /\ ImportGoes(c, [NextRow(transfers[c]) EXCEPT !.restores = FALSE])
    /\ UNCHANGED <<tableVars, exported, sideBySide, unrestored, edits, begun>>

\* the copy of this id, or else one of this book
findExisting(row) == IF row.id \in Active THEN {row.id} ELSE CopiesOf(row.edition)

Wanted(row) == row.labels \cup (IF row.state = "owned" /\ row.place THEN {Shelf} ELSE {})

\* the ids that are known from earlier rows are taken without another look
resolveRow(c) ==
    /\ ImportAt(c, "read")
    /\ LET call == transfers[c]
           row == Head(call.rows)
           matches == findExisting(row)
           ids == [e \in Entry |-> IF call.known[e] # 0 THEN call.known[e] ELSE entries[e]]
       IN IF matches # {} /\ call.existing
          THEN /\ ImportGoes(c, NextRow(call))
               /\ UNCHANGED <<tableVars, exported, sideBySide, unrestored, edits, begun>>
          ELSE IF \E k \in matches : row.state # "owned" /\ ownCopies[k].lent
          THEN RowFails(c)
          ELSE /\ \E match \in IF matches = {} THEN {None} ELSE matches :
                    ImportGoes(c, [call EXCEPT !.at = "write", !.match = match,
                      !.found = [e \in Entry |-> IF e \in Wanted(row) THEN ids[e] ELSE 0],
                      !.known = [e \in Entry |-> IF e \in Wanted(row) THEN ids[e] ELSE @[e]]])
               /\ UNCHANGED <<tableVars, exported, sideBySide, unrestored, edits, begun>>

importedCopy_PlaceForgotten(row, kind, lent) ==
    [edition |-> row.edition, kind |-> kind, state |-> row.state, refs |-> Wanted(row),
     kept |-> FALSE, rated |-> row.rated /\ row.state # "wishlisted", lent |-> lent]
importedCopy(row, kind, lent) ==
    [edition |-> row.edition, kind |-> kind, state |-> row.state, refs |-> Wanted(row),
     kept |-> row.state = "previously_owned" /\ row.place,
     rated |-> row.rated /\ row.state # "wishlisted", lent |-> lent]

\* with trusted provenance a new copy is one of the shared book
importKind(row) == IF row.edition \in sharedBooks /\ row.shared THEN "shared" ELSE "imported"

\* an id that has gone, a name that has come, or a second copy of a shared book breaks the batch
BatchBreaks(call) == LET row == Head(call.rows) IN
    \/ \E e \in Wanted(row) : call.found[e] # entries[e]
    \/ call.match = None /\ importKind(row) = "shared" /\ \E k \in CopiesOf(row.edition) : ownCopies[k].kind = "shared"

writeRow(c) ==
    /\ ImportAt(c, "write")
    /\ LET call == transfers[c]
           row == Head(call.rows)
           created == {e \in Wanted(row) : entries[e] = 0}
       IN IF BatchBreaks(call) THEN RowFails(c)
          ELSE /\ entries' = [e \in Entry |-> IF e \in created THEN lastEntry + 1 ELSE entries[e]]
               /\ lastEntry' = IF created = {} THEN lastEntry ELSE lastEntry + 1
               /\ IF call.match # None
                  THEN /\ ownCopies' = IF call.match \notin Active THEN ownCopies
                            ELSE [ownCopies EXCEPT ![call.match] = importedCopy(row, @.kind, @.lent)]
                       /\ UNCHANGED <<fresh, sideBySide>>
                  ELSE /\ fresh # {}
                       /\ ownCopies' = [ownCopies EXCEPT ![NewId] = importedCopy(row, importKind(row), FALSE)]
                       /\ fresh' = fresh \ {NewId}
                       /\ sideBySide' = (sideBySide \/ Importing # {c})
               /\ transfers' = [d \in Call |->
                    IF d = c THEN [NextRow(call) EXCEPT !.known =
                                     [e \in Entry |-> IF e \in Wanted(row) THEN entries'[e] ELSE @[e]]]
                    ELSE Touched(transfers)[d]]
               /\ UNCHANGED <<sharedBooks, exported, unrestored, edits, begun>>

\* every row of the file has its copy
Restored(row) == \E k \in Active :
    LET copy == ownCopies[k] IN
    /\ copy.edition = row.edition /\ copy.state = row.state /\ copy.rated = row.rated
    /\ copy.refs = Wanted(row) /\ (row.state = "previously_owned" => copy.kept = row.place)

ImportDone(c) ==
    /\ transfers[c] # None /\ transfers[c].op = "import" /\ transfers[c].rows = <<>>
    /\ transfers' = [transfers EXCEPT ![c] = None]
    /\ unrestored' = (unrestored \/ /\ transfers[c].restores /\ ~transfers[c].existing /\ ~sideBySide
                                    /\ \E n \in DOMAIN exported.rows : ~Restored(exported.rows[n]))
    /\ UNCHANGED <<tableVars, exported, sideBySide, edits, begun>>

\* the process dies: the rows before stay
ImportCrash(c) ==
    /\ c \in Importing
    /\ transfers' = [transfers EXCEPT ![c] = None]
    /\ UNCHANGED <<tableVars, exported, sideBySide, unrestored, edits, begun>>

-----------------------------------------------------------------------------

\* a library of one or two books
SomeCopy(edition) ==
    {[NewCopy(edition, "manual", "owned") EXCEPT !.refs = Entry, !.rated = TRUE],
     [NewCopy(edition, "shared", "wishlisted") EXCEPT !.refs = {Label}],
     [NewCopy(edition, "shared", "previously_owned") EXCEPT !.kept = TRUE, !.rated = TRUE]}

FirstBook == CHOOSE edition \in Edition : TRUE
SecondCopies == {[NewCopy(edition, "shared", "owned") EXCEPT !.refs = {Shelf}] : edition \in Edition \ {FirstBook}}
FirstId == CHOOSE k \in Copy : TRUE
SecondId == CHOOSE k \in Copy \ {FirstId} : TRUE

TransferInit ==
    /\ \E first \in SomeCopy(FirstBook), second \in {None} \cup SecondCopies :
         ownCopies = [k \in Copy |-> IF k = FirstId THEN first ELSE IF k = SecondId THEN second ELSE None]
    /\ fresh = Copy \ Active
    /\ sharedBooks = {ownCopies[k].edition : k \in {i \in Active : ownCopies[i].kind = "shared"}}
    /\ entries = [e \in Entry |-> IF \E k \in Active : e \in ownCopies[k].refs THEN 1 ELSE 0] /\ lastEntry = 1
    /\ transfers = [c \in Call |-> None]
    /\ exported = None
    /\ sideBySide = FALSE /\ unrestored = FALSE
    /\ edits = 0 /\ begun = 0

TransferNext ==
    \/ addBook
    \/ \E k \in Copy :
         \/ removeCopy(k) \/ useCopy(k)
         \/ \E state \in State : changeState(k, state)
    \/ \E e \in Entry : createEntry(e) \/ deleteEntry(e)
    \/ \E c \in Call :
         \/ listExportRecords(c) \/ exportLibraryCsv(c)
         \/ importLibraryCsv(c) \/ resolveRow(c) \/ writeRow(c) \/ ImportDone(c) \/ ImportCrash(c)

TransferSpec == TransferInit /\ [][TransferNext]_transferVars

-----------------------------------------------------------------------------

TransferTypeOK ==
    /\ Active \cap fresh = {}
    /\ \A k \in Active : Shelf \in ownCopies[k].refs => ownCopies[k].state = "owned"
    /\ \A e \in Entry : entries[e] <= lastEntry

(* An export restores the library. Imported over an unchanged library it   *)
(* changes nothing; imported after losses, with the file's data preferred, *)
(* it brings back every row of the file; and however often it is imported, *)
(* also after its first copies are gone or after an import that died, no    *)
(* book is there twice: unless imports, or the user, add it side by side.  *)
ExportRestores ==
    /\ exported # None /\ exported.library # None => ownCopies = exported.library
    /\ ~unrestored
    /\ sideBySide \/ \A edition \in Edition : Cardinality(CopiesOf(edition)) <= 1
=============================================================================
