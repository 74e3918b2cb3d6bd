---------------------------- MODULE CoverStorage ----------------------------
(***************************************************************************)
(* Cover images and the rows that refer to them: the shared cover of one   *)
(* ISBN with all of its writers and cleaners, some of which hold the       *)
(* ISBN's lock and some not, and the private covers that users upload,     *)
(* until the deletion of their account. Leases that run out under a        *)
(* working call are the subject of ImportEnrichment.                       *)
(***************************************************************************)
EXTENDS Actors

CONSTANTS
    Owner,          \* users; also the path of the cover each may upload
    Shared,         \* covers/<isbn>.webp
    MaxCoverOps

VARIABLES
    stored,         \* paths in blob storage
    canonical,      \* the Open Library record of the ISBN: "absent", "bare" or "covered"
    ownBook,        \* a user's private book: None, or its kind and cover
    snapshots,      \* covers in the loans of an owner
    gone,           \* deleted accounts
    coverLock,      \* the call in the row of book_enrichment_locks
    coverCalls,
    spoilt,         \* paths for which a write and a deletion crossed, or that a failure left behind
    coverOps        \* calls begun, at most MaxCoverOps

coverVars == <<stored, canonical, ownBook, snapshots, gone, coverLock, coverCalls, spoilt, coverOps>>

Covers == Owner \cup {Shared}

\* a private book, and what a call remembers
OwnRow == [kind : {"import", "manual"}, cover : Covers \cup {None}]
CoverStep == {"lock", "find", "download", "put", "record", "check", "delete", "unlock"}
CoverRequest ==
    [op : {"repair", "bulk", "fill", "enrich", "replace", "sweep", "loan", "manual", "erase"},
     at : CoverStep, user : Owner \cup {None}, path : Covers \cup {None}, mine : BOOLEAN, held : BOOLEAN]

ASSUME CoverAssumption ==
    /\ Shared \notin Owner
    /\ None \notin Covers \cup OwnRow \cup CoverRequest
    /\ MaxCoverOps \in Nat

CoverRefs(u) == snapshots[u] \cup (IF ownBook[u] = None THEN {} ELSE {ownBook[u].cover} \ {None})
Referenced == (UNION {CoverRefs(u) : u \in Owner}) \cup (IF canonical = "covered" THEN {Shared} ELSE {})

-----------------------------------------------------------------------------

\* path: the cover the call has in hand; mine: it downloaded it; held: it acquired the lock
CoverCall(c, op, at, user, path) ==
    /\ coverCalls[c] = None
    /\ Room(coverOps, MaxCoverOps)
    /\ coverOps' = coverOps + 1
    /\ coverCalls' = [coverCalls EXCEPT ![c] =
         [op |-> op, at |-> at, user |-> user, path |-> path, mine |-> FALSE, held |-> FALSE]]

CoverAt(c, at) == coverCalls[c] # None /\ coverCalls[c].at = at
CoverGoes(c, call) == coverCalls' = [coverCalls EXCEPT ![c] = call] /\ UNCHANGED coverOps
CoverMoves(c, at) == CoverGoes(c, [coverCalls[c] EXCEPT !.at = at])

\* what is left to do once the cover has been dealt with
CoverLeaves(c) ==
    IF coverCalls[c].held THEN CoverMoves(c, "unlock") ELSE CoverGoes(c, None)

\* another call that does not respect a lock held here is between its look and its act
Crossing(c, steps) == \E d \in Call \ {c} :
    /\ coverCalls[d] # None
    /\ coverCalls[d].at \in steps
    /\ coverCalls[d].path = coverCalls[c].path
    /\ ~(coverCalls[c].held /\ coverCalls[d].held)
Spoilt(c, steps) == IF Crossing(c, steps) THEN {coverCalls[c].path} ELSE {}
coverRows == <<canonical, ownBook, snapshots, gone>>

repairMissingOpenLibraryCovers(c) ==
    /\ canonical = "bare"
    /\ CoverCall(c, "repair", "download", None, None)
    /\ UNCHANGED <<stored, coverRows, coverLock, spoilt>>

\* a lookup writes the bare record at once; its enrichment and a bulk lookup look for a cover first
createCore ==
    /\ canonical = "absent"
    /\ canonical' = "bare"
    /\ UNCHANGED <<stored, ownBook, snapshots, gone, coverLock, coverCalls, spoilt, coverOps>>
bulkCovers(c) ==
    /\ canonical = "absent"
    /\ CoverCall(c, "bulk", "find", None, None)
    /\ UNCHANGED <<stored, coverRows, coverLock, spoilt>>
enrichCover(c) ==
    /\ canonical # "absent"
    /\ CoverCall(c, "enrich", "find", None, None)
    /\ UNCHANGED <<stored, coverRows, coverLock, spoilt>>

Imported(u) == ownBook[u] # None /\ ownBook[u].kind = "import"

\* an import creates the record, or gives it another ISBN and drops the cover
importCover(c) == \E u \in Owner \ gone :
    /\ \/ /\ ownBook[u] = None
          /\ ownBook' = [ownBook EXCEPT ![u] = [kind |-> "import", cover |-> None]]
          /\ UNCHANGED <<coverCalls, coverOps>>
       \/ /\ Imported(u) /\ ownBook[u].cover = Shared
          /\ ownBook' = [ownBook EXCEPT ![u].cover = None]
          /\ CoverCall(c, "replace", "lock", u, Shared)
    /\ UNCHANGED <<stored, canonical, snapshots, gone, coverLock, spoilt>>

enrichImported(c) == \E u \in Owner :
    /\ Imported(u)
    /\ CoverCall(c, "sweep", "lock", u, None)
    /\ UNCHANGED <<stored, coverRows, coverLock, spoilt>>

-----------------------------------------------------------------------------
(* The lock, which only some of the calls take                             *)

CoverLockFree(c) == coverLock = None

LockCover(c) ==
    /\ CoverAt(c, "lock")
    /\ \/ /\ CoverLockFree(c)
          /\ coverLock' = c
          /\ CoverGoes(c, [coverCalls[c] EXCEPT !.held = TRUE,
                                                !.at = IF coverCalls[c].path = None THEN "find" ELSE "check"])
       \/ CoverGoes(c, None) /\ UNCHANGED coverLock
    /\ UNCHANGED <<stored, coverRows, spoilt>>

UnlockCover(c) ==
    /\ CoverAt(c, "unlock")
    /\ coverLock' = IF coverLock = c THEN None ELSE coverLock
    /\ CoverGoes(c, None)
    /\ UNCHANGED <<stored, coverRows, spoilt>>

\* the lease of a call that died is over
CoverLockExpires ==
    /\ coverLock # None /\ coverCalls[coverLock] = None
    /\ coverLock' = None
    /\ UNCHANGED <<stored, coverRows, coverCalls, spoilt, coverOps>>

-----------------------------------------------------------------------------
(* Writers: find it stored, or download and store it, then record it       *)

findStoredOpenLibraryCover(c) ==
    /\ CoverAt(c, "find")
    /\ \/ Shared \in stored /\ CoverGoes(c, [coverCalls[c] EXCEPT !.at = "record", !.path = Shared])
       \/ CoverMoves(c, "download")
    /\ UNCHANGED <<stored, coverRows, coverLock, spoilt>>

\* no cover, or one that could not be stored, is no path
downloadCovers(c) ==
    /\ CoverAt(c, "download")
    /\ \/ /\ stored' = stored \cup {Shared}
          /\ CoverGoes(c, [coverCalls[c] EXCEPT !.at = "record", !.path = Shared, !.mine = TRUE])
       \/ /\ IF coverCalls[c].op = "repair" THEN CoverGoes(c, None) ELSE CoverMoves(c, "record")
          /\ UNCHANGED stored
    /\ UNCHANGED <<coverRows, coverLock, spoilt>>

Recording(c, op) == CoverAt(c, "record") /\ coverCalls[c].op = op

\* what a write does to the tables, unless it fails
CoverWritten(c) == spoilt' = spoilt \cup Spoilt(c, {"delete"})

updateOpenLibraryCoverPath(c) ==
    /\ Recording(c, "repair")
    /\ canonical' = IF canonical = "bare" THEN "covered" ELSE canonical
    /\ CoverWritten(c)
    /\ CoverGoes(c, None)
    /\ UNCHANGED <<stored, ownBook, snapshots, gone, coverLock>>

\* a record that has appeared meanwhile is filled by another look for a cover
ensureCover(c) ==
    /\ Recording(c, "bulk")
    /\ \/ /\ canonical = "absent"
          /\ canonical' = IF coverCalls[c].path = None THEN "bare" ELSE "covered"
          /\ CoverWritten(c)
          /\ CoverGoes(c, None)
       \/ /\ canonical # "absent"
          /\ IF canonical = "bare"
             THEN CoverGoes(c, [coverCalls[c] EXCEPT !.op = "fill", !.at = "find", !.path = None])
             ELSE CoverGoes(c, None)
          /\ UNCHANGED <<canonical, spoilt>>
    /\ UNCHANGED <<stored, ownBook, snapshots, gone, coverLock>>
updateExistingCover(c) ==
    /\ Recording(c, "fill")
    /\ canonical' = IF canonical = "bare" /\ coverCalls[c].path # None THEN "covered" ELSE canonical
    /\ CoverWritten(c)
    /\ CoverGoes(c, None)
    /\ UNCHANGED <<stored, ownBook, snapshots, gone, coverLock>>

\* a failure, before or after the row is written, cleans up what was downloaded
ApplyCover(c) ==
    /\ Recording(c, "enrich")
    /\ \/ /\ canonical' = IF coverCalls[c].path # None THEN "covered" ELSE canonical
          /\ CoverWritten(c)
       \/ UNCHANGED <<canonical, spoilt>>
    /\ \/ canonical' = canonical /\ coverCalls[c].mine /\ CoverMoves(c, "check")
       \/ coverCalls[c].mine /\ CoverMoves(c, "check")
       \/ CoverGoes(c, None)
    /\ UNCHANGED <<stored, ownBook, snapshots, gone, coverLock>>

\* a sweep that could not apply its cover cleans up in the same way
applyCoverToImport(c) ==
    /\ Recording(c, "sweep")
    /\ LET u == coverCalls[c].user
           applies == Imported(u) /\ coverCalls[c].path # None
       IN /\ ownBook' = IF applies /\ ownBook[u].cover = None
                        THEN [ownBook EXCEPT ![u].cover = Shared] ELSE ownBook
          /\ IF applies THEN CoverWritten(c) ELSE UNCHANGED spoilt
          /\ IF ~applies /\ coverCalls[c].mine THEN CoverMoves(c, "check") ELSE CoverMoves(c, "unlock")
    /\ UNCHANGED <<stored, canonical, snapshots, gone, coverLock>>

createLoanOf(c) == \E u \in Owner \ gone :
    \E path \in CoverRefs(u) \cup (IF canonical = "covered" THEN {Shared} ELSE {}) :
    /\ CoverCall(c, "loan", "record", u, path)
    /\ UNCHANGED <<stored, coverRows, coverLock, spoilt>>
InsertSnapshot(c) ==
    /\ Recording(c, "loan")
    /\ IF coverCalls[c].user \in gone THEN UNCHANGED <<snapshots, spoilt>>
       ELSE /\ snapshots' = [snapshots EXCEPT ![coverCalls[c].user] = @ \cup {coverCalls[c].path}]
            /\ CoverWritten(c)
    /\ CoverGoes(c, None)
    /\ UNCHANGED <<stored, canonical, ownBook, gone, coverLock>>
deleteLoans(u) ==
    /\ snapshots[u] # {}
    /\ snapshots' = [snapshots EXCEPT ![u] = {}]
    /\ UNCHANGED <<stored, canonical, ownBook, gone, coverLock, coverCalls, spoilt, coverOps>>

-----------------------------------------------------------------------------
(* A private cover: stored first, recorded next, deleted if that fails     *)

createManualCover(c) == \E u \in Owner \ gone :
    /\ ownBook[u] = None /\ u \notin stored
    /\ \A d \in Call : coverCalls[d] # None => coverCalls[d].path # u   \* paths are never used twice
    /\ CoverCall(c, "manual", "put", u, u)
    /\ UNCHANGED <<stored, coverRows, coverLock, spoilt>>
putCoverImage(c) ==
    /\ CoverAt(c, "put")
    /\ \/ stored' = stored \cup {coverCalls[c].path} /\ CoverMoves(c, "record")
       \/ CoverGoes(c, None) /\ UNCHANGED stored
    /\ UNCHANGED <<coverRows, coverLock, spoilt>>

InsertFailed_Forgets(c) == CoverGoes(c, None)
InsertFailed(c) == CoverMoves(c, "delete")

\* a user who is gone cannot have a book; reading the rows back may fail after they were written
InsertManual(c) ==
    /\ Recording(c, "manual")
    /\ LET u == coverCalls[c].user
           row == [ownBook EXCEPT ![u] = [kind |-> "manual", cover |-> u]]
       IN \/ u \notin gone /\ ownBook[u] = None /\ ownBook' = row /\ CoverGoes(c, None) /\ UNCHANGED spoilt
          \/ /\ u \notin gone /\ ownBook[u] = None /\ ownBook' = row
             /\ spoilt' = spoilt \cup {u} /\ CoverMoves(c, "delete")
          \/ InsertFailed(c) /\ UNCHANGED <<ownBook, spoilt>>
    /\ UNCHANGED <<stored, canonical, snapshots, gone, coverLock>>

\* the batch returns the covers of the books it deleted
eraseAccount(c) == \E u \in Owner \ gone :
    LET cover == IF ownBook[u] = None THEN None ELSE ownBook[u].cover IN
    /\ CASE cover = None -> UNCHANGED <<coverCalls, coverOps>>
         [] cover = Shared -> CoverCall(c, "erase", "lock", u, Shared)
         [] OTHER -> CoverCall(c, "erase", "delete", u, u)
    /\ gone' = gone \cup {u}
    /\ ownBook' = [ownBook EXCEPT ![u] = None]
    /\ snapshots' = [snapshots EXCEPT ![u] = {}]
    /\ UNCHANGED <<stored, canonical, coverLock, spoilt>>

-----------------------------------------------------------------------------
(* Cleaners                                                                *)

CoverInUse_BooksOnly(path) == path \in Referenced \ UNION {snapshots[u] : u \in Owner}
CoverInUse(path) == path \in Referenced

CheckReferenced(c) ==
    /\ CoverAt(c, "check")
    /\ IF CoverInUse(coverCalls[c].path) THEN CoverLeaves(c) ELSE CoverMoves(c, "delete")
    /\ UNCHANGED <<stored, coverRows, coverLock, spoilt>>

\* a deletion that fails is logged, and that is all
deleteBlob(c) ==
    /\ CoverAt(c, "delete")
    /\ \/ stored' = stored \ {coverCalls[c].path} /\ spoilt' = spoilt \cup Spoilt(c, {"record"})
       \/ spoilt' = spoilt \cup {coverCalls[c].path} /\ UNCHANGED stored
    /\ CoverLeaves(c)
    /\ UNCHANGED <<coverRows, coverLock>>

\* a shared cover that nobody refers to may stay; a private one was to be deleted
CoverCrash(c) ==
    /\ coverCalls[c] # None
    /\ CoverGoes(c, None)
    /\ spoilt' = spoilt \cup ({coverCalls[c].path} \ {None, Shared})
    /\ UNCHANGED <<stored, coverRows, coverLock>>

-----------------------------------------------------------------------------

CoverInit ==
    /\ stored = {}
    /\ canonical = "absent"
    /\ ownBook = [u \in Owner |-> None]
    /\ snapshots = [u \in Owner |-> {}]
    /\ gone = {}
    /\ coverLock = None
    /\ coverCalls = [c \in Call |-> None]
    /\ spoilt = {}
    /\ coverOps = 0

CoverNext ==
    \/ createCore \/ CoverLockExpires
    \/ \E u \in Owner : deleteLoans(u)
    \/ \E c \in Call :
         \/ repairMissingOpenLibraryCovers(c) \/ bulkCovers(c) \/ enrichCover(c)
         \/ importCover(c) \/ enrichImported(c) \/ createLoanOf(c)
         \/ createManualCover(c) \/ eraseAccount(c)
         \/ LockCover(c) \/ UnlockCover(c) \/ CoverCrash(c)
         \/ findStoredOpenLibraryCover(c) \/ downloadCovers(c) \/ putCoverImage(c)
         \/ updateOpenLibraryCoverPath(c) \/ ensureCover(c) \/ updateExistingCover(c)
         \/ ApplyCover(c) \/ applyCoverToImport(c) \/ InsertSnapshot(c) \/ InsertManual(c)
         \/ CheckReferenced(c) \/ deleteBlob(c)

CoverSpec == CoverInit /\ [][CoverNext]_coverVars

-----------------------------------------------------------------------------

CoverTypeOK ==
    /\ stored \subseteq Covers
    /\ \A c \in Call : coverCalls[c] \in CoverRequest \cup {None}
    /\ \A u \in Owner : ownBook[u] \in OwnRow \cup {None}
    /\ \A u \in gone : ownBook[u] = None /\ snapshots[u] = {}
    /\ coverLock \in Call \cup {None}

(* A cover that a book or a loan refers to is stored, whichever of the     *)
(* seven writers recorded it and whatever was cleaned up beside it: unless *)
(* a call without the lock crossed the deletion, or the deletion of a      *)
(* private cover followed a creation that failed after it was written.     *)
CoversInUseAreStored == Referenced \ spoilt \subseteq stored

(* No private cover outlives its owner's account, however the deletion     *)
(* meets an upload under way, unless a deletion failed or a call died.     *)
NothingPrivateRemains == \A u \in (gone \cap stored) \ spoilt :
    \E c \in Call : coverCalls[c] # None /\ coverCalls[c].path = u

(* Both: no reference without a cover, no private cover without its owner. *)
CoversMatchTheirUse == CoversInUseAreStored /\ NothingPrivateRemains
=============================================================================
