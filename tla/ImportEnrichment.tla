-------------------------- MODULE ImportEnrichment --------------------------
(***************************************************************************)
(* Background enrichment of CSV imports: the job rows that an import        *)
(* queues, the sweeps that claim them under an expiring lease, the          *)
(* per-ISBN locks, the shared cover blobs, and the import that changes a    *)
(* book while a sweep is working on it.                                     *)
(*                                                                         *)
(* Every action is one awaited statement: a SQL statement or atomic batch,  *)
(* one provider call, or one blob operation.  Between two of them any other *)
(* actor may run.  All timestamps are kept relative to the present: a tick  *)
(* of the clock lowers each of them by one, and a sweep's `now`, fixed when *)
(* it starts, is -age of that sweep.  Past stands for NULL and for every    *)
(* time that no running sweep can tell from long ago.                       *)
(*                                                                         *)
(* Claim tokens are random UUIDs, so a row's token tells only whether it is *)
(* that of a given run of a sweep.  The token of the run an actor is in is  *)
(* the actor itself; when the run ends, the rows still carrying its token   *)
(* hold one that nobody will present again, Gone.                           *)
(***************************************************************************)
EXTENDS Integers, FiniteSets

CONSTANTS
    Book,         \* rows of books with entry_source csv_import
    User,
    Owner,        \* Owner[b]: the user who imported b
    Isbn,
    Worker,       \* sweeps that may run at the same time
    Importer,     \* the request that imports one CSV record
    Gone,         \* the token of a run that has ended
    None,         \* SQL NULL
    Lease,        \* ticks a claim and its ISBN locks last
    CleanupLease, \* ticks the lock of an import's cover cleanup lasts
    RetryDelays,  \* the delays retryAt can produce, in ticks
    DeferDelay,   \* the 15 seconds of deferClaim, in ticks
    MaxAttempts,
    BatchSize,
    MaxAge,       \* bound: ticks an actor may take over its work
    MaxImports,   \* bound: imported records
    MaxFailures,  \* bound: crashes and database errors
    AttemptBound  \* bound: attempts after which no sweep starts

Actor == Worker \cup {Importer}

ASSUME NullAssumption == None \notin Actor \cup Isbn \cup Book \cup {Gone}
ASSUME ActorAssumption == Importer \notin Worker /\ Gone \notin Actor
ASSUME OwnerAssumption == Owner \in [Book -> User]
ASSUME TimeAssumption ==
    /\ Lease \in Nat \ {0} /\ CleanupLease \in Nat \ {0}
    /\ DeferDelay \in Nat /\ RetryDelays \subseteq Nat
    /\ MaxAge \in Nat
ASSUME CountAssumption ==
    /\ MaxAttempts \in Nat \ {0} /\ BatchSize \in Nat \ {0}
    /\ MaxImports \in Nat /\ MaxFailures \in Nat /\ AttemptBound \in Nat

VARIABLES
    book,     \* books joined with user_books
    job,      \* book_enrichment_jobs, one row per book
    lock,     \* book_enrichment_locks, one row per ISBN
    blobs,    \* ISBNs whose shared cover covers/<isbn>.webp is stored
    pc,       \* next step of each actor
    age,      \* ticks since the actor read its clock
    work,     \* what a sweep has in memory
    import,   \* what the import request has in memory
    imports,  \* imported records so far
    failures  \* crashes and database errors so far

rows == <<book, job, lock, blobs>>
counters == <<imports, failures>>
vars == <<book, job, lock, blobs, pc, age, work, import, imports, failures>>

Active == {"pending", "processing", "retrying"}
Terminal == {"completed", "no_cover", "not_found", "failed", "cancelled"}
Past == -MaxAge
Now(a) == -age[a]
IsbnOrNull == Isbn \cup {None}

NoBook == [state |-> "absent", isbn |-> None, provider |-> None, cover |-> None]
NoJob == [status |-> "none", isbn |-> None, attempts |-> 0, token |-> None,
          lease |-> Past, due |-> Past]
NoLock == [token |-> None, lease |-> Past]
NoClaim == [isbn |-> None, attempts |-> 0]
NoWork == [picked |-> {}, claim |-> [b \in Book |-> NoClaim], locked |-> {},
           found |-> [i \in Isbn |-> "none"], at |-> None, applied |-> FALSE, cur |-> None]
NoImport == [book |-> None, isbn |-> None, enqueue |-> FALSE, mode |-> "none",
             orphan |-> None]

\* Some books have been imported with enrichment, no sweep has run yet.
Init ==
    /\ \E isbn \in [Book -> IsbnOrNull] :
        /\ book = [b \in Book |-> IF isbn[b] = None THEN NoBook
                     ELSE [NoBook EXCEPT !.state = "owned", !.isbn = isbn[b]]]
        /\ job = [b \in Book |-> IF isbn[b] = None THEN NoJob
                     ELSE [NoJob EXCEPT !.status = "pending", !.isbn = isbn[b]]]
    /\ lock = [i \in Isbn |-> NoLock]
    /\ blobs = {}
    /\ pc = [a \in Actor |-> "idle"]
    /\ age = [a \in Actor |-> 0]
    /\ work = [w \in Worker |-> NoWork]
    /\ import = NoImport
    /\ imports = 0 /\ failures = 0

-----------------------------------------------------------------------------
\* A run that ends, whether it returns, throws or dies, forgets its token.
Forgotten(table, a) ==
    [k \in DOMAIN table |-> IF table[k].token = a THEN [table[k] EXCEPT !.token = Gone]
                            ELSE table[k]]

Goto(a, step) == pc' = [pc EXCEPT ![a] = step] /\ age' = age
Stop(a) == pc' = [pc EXCEPT ![a] = "idle"] /\ age' = [age EXCEPT ![a] = 0]
Remember(w, memory) == work' = [work EXCEPT ![w] = memory]
EndSweep(w) == Stop(w) /\ Remember(w, NoWork)

(*************************** job and lock rows *****************************)

\* The joins that make a job worth running: the importer still owns the book
\* and the book still has the ISBN the job was queued for.
Importable(b) == /\ book[b].state = "owned"
                 /\ book[b].isbn # None
                 /\ book[b].isbn = job[b].isbn

\* Mutation of Claimable: an interrupted claim is never taken over.
Claimable_NoReclaim(b, now) ==
    job[b].status \in {"pending", "retrying"} /\ job[b].due <= now

\* `eligible` of claimJobs
Claimable(b, now) ==
    \/ job[b].status \in {"pending", "retrying"} /\ job[b].due <= now
    \/ job[b].status = "processing" /\ job[b].lease <= now

Unclaimed(row, status) ==
    [row EXCEPT !.status = status, !.token = None, !.lease = Past, !.due = Past]

\* Mutation of OwnsClaim: the claim token is not compared.
OwnsClaim_NoToken(w, b) == job[b].status = "processing"

\* The WHERE clause that names id, status processing and claim token.
OwnsClaim(w, b) == job[b].status = "processing" /\ job[b].token = w

UpdateClaim(w, b, row) ==
    job' = IF OwnsClaim(w, b) THEN [job EXCEPT ![b] = row] ELSE job

\* Mutation of markCompleted: a status that the schema does not list.
markCompleted_Unlisted(w, b, status) == UpdateClaim(w, b, Unclaimed(job[b], "done"))

markCompleted(w, b, status) == UpdateClaim(w, b, Unclaimed(job[b], status))
markFailed(w, b) == UpdateClaim(w, b, Unclaimed(job[b], "failed"))
cancelClaim(w, b) == UpdateClaim(w, b, Unclaimed(job[b], "cancelled"))

scheduleRetry(w, b) ==
    \E d \in RetryDelays :
        UpdateClaim(w, b, [Unclaimed(job[b], "retrying") EXCEPT !.due = Now(w) + d])

\* Mutation of deferClaim: the attempt is not given back.
deferClaim_Charged(w, b) ==
    UpdateClaim(w, b, [Unclaimed(job[b], "retrying") EXCEPT !.due = Now(w) + DeferDelay])

deferClaim(w, b) ==
    UpdateClaim(w, b, [Unclaimed(job[b], "retrying") EXCEPT
        !.due = Now(w) + DeferDelay,
        !.attempts = IF @ > 0 THEN @ - 1 ELSE 0])

\* The branch a transient failure takes, on the attempts read with the claim.
RetryOrFail(w, b) ==
    IF work[w].claim[b].attempts >= MaxAttempts
    THEN markFailed(w, b) ELSE scheduleRetry(w, b)

\* Mutation of LockFree: the upsert has no WHERE clause.
LockFree_Unguarded(i, now) == TRUE

\* Upsert that takes a lock row if it is absent or its lease has expired.
LockFree(i, now) == lock[i].token = None \/ lock[i].lease <= now
acquireIsbnLocks(isbns, t, lease, now) ==
    lock' = [i \in Isbn |-> IF i \in isbns /\ LockFree(i, now)
                            THEN [token |-> t, lease |-> now + lease] ELSE lock[i]]

\* The locks once actor a, whose run ends with this, has given back its own.
releaseIsbnLocks(a, isbns) ==
    lock' = Forgotten([i \in Isbn |-> IF i \in isbns /\ lock[i].token = a
                                      THEN NoLock ELSE lock[i]], a)

\* Mutation of isCoverReferenced: only books the user still owns are counted.
isCoverReferenced_Owned(i) == \E b \in Book : book[b].cover = i /\ book[b].state = "owned"

isCoverReferenced(i) == \E b \in Book : book[b].cover = i

-----------------------------------------------------------------------------
(**************************** a sweep **************************************)

\* fairCandidates by what it returns: as many as fit, and no user gets a
\* second more than another whose candidates were not all taken.
OfUser(S, u) == {b \in S : Owner[b] = u}
fairCandidates(C) ==
    {S \in SUBSET C :
        /\ Cardinality(S) = IF Cardinality(C) < BatchSize THEN Cardinality(C) ELSE BatchSize
        /\ \A u, v \in User :
              Cardinality(OfUser(S, u)) > Cardinality(OfUser(S, v)) + 1
                  => OfUser(C, v) \subseteq S}

\* Mutation of cancelIneligibleJobs: activeStatusCondition is missing.
cancelIneligibleJobs_AnyStatus ==
    [b \in Book |-> IF job[b].status # "none" /\ ~Importable(b)
                    THEN Unclaimed(job[b], "cancelled") ELSE job[b]]

cancelIneligibleJobs ==
    [b \in Book |-> IF job[b].status \in Active /\ ~Importable(b)
                    THEN Unclaimed(job[b], "cancelled") ELSE job[b]]

\* enrichImportedBooks begins: fix `now`, cancel what is no longer eligible and
\* read the candidates of claimJobs.  (Nothing is written to a candidate until
\* the next step, which checks it again.)
Start(w) ==
    /\ pc[w] = "idle"
    /\ \A b \in Book : job[b].attempts < AttemptBound
    /\ job' = cancelIneligibleJobs
    /\ LET C == {b \in Book : Claimable(b, Now(w)) /\ Importable(b)} IN
       \/ C = {} /\ UNCHANGED <<pc, age, work>>
       \/ /\ C # {}
          /\ \E S \in fairCandidates(C) : Remember(w, [work[w] EXCEPT !.picked = S])
          /\ Goto(w, "claim")
    /\ UNCHANGED <<book, lock, blobs, import, counters>>

Claimed(w, row) ==
    [row EXCEPT !.status = "processing", !.attempts = row.attempts + 1,
                !.token = w, !.lease = Now(w) + Lease, !.due = Past]

\* The batch of claimJobs, guarded row by row, and the rows its token got.
claimJobs(w) ==
    /\ pc[w] = "claim"
    /\ LET C == {b \in work[w].picked : Claimable(b, Now(w))} IN
       IF C = {} THEN EndSweep(w) /\ job' = job
       ELSE /\ job' = [b \in Book |-> IF b \in C THEN Claimed(w, job[b]) ELSE job[b]]
            /\ Remember(w, [NoWork EXCEPT !.claim = [b \in Book |->
                 IF b \in C THEN [isbn |-> job[b].isbn, attempts |-> job[b].attempts + 1]
                 ELSE NoClaim]])
            /\ Goto(w, "lock")
    /\ UNCHANGED <<book, lock, blobs, import, counters>>

\* The claimed jobs still to be worked on, and their ISBNs.
Todo(w) == {b \in Book : work[w].claim[b] # NoClaim}
IsbnsOf(w) == {work[w].claim[b].isbn : b \in Todo(w)}

\* Take the ISBN locks and read which of them this token holds.
LockIsbns(w) ==
    /\ pc[w] = "lock"
    /\ acquireIsbnLocks(IsbnsOf(w), w, Lease, Now(w))
    /\ Remember(w, [work[w] EXCEPT
            !.locked = {i \in Isbn : i \in IsbnsOf(w) /\ lock'[i].token = w}])
    /\ Goto(w, "defer")
    /\ UNCHANGED <<book, job, blobs, import, counters>>

\* One deferred job whose ISBN another actor holds.
DeferUnlocked(w) ==
    /\ pc[w] = "defer"
    /\ \E b \in Todo(w) :
        /\ work[w].claim[b].isbn \notin work[w].locked
        /\ deferClaim(w, b)
        /\ Remember(w, [work[w] EXCEPT !.claim[b] = NoClaim])
    /\ Goto(w, "defer")
    /\ UNCHANGED <<book, lock, blobs, import, counters>>

NothingLocked(w) ==
    /\ pc[w] = "defer"
    /\ Todo(w) = {} /\ work[w].locked = {}
    /\ EndSweep(w)
    /\ UNCHANGED <<rows, import, counters>>

\* lookupByISBNs fails for the whole batch, or says for each ISBN that there is
\* no record, a record without a cover, or one that advertises a cover; then
\* findStoredOpenLibraryCover for the advertised ones, where a blob that cannot
\* be verified counts as not stored ("bare").
Lookup(w) ==
    /\ pc[w] = "defer"
    /\ Todo(w) # {} /\ IsbnsOf(w) \subseteq work[w].locked
    /\ \E f \in [work[w].locked -> {"missing", "plain", "bare", "stored"}]
              \cup {[i \in work[w].locked |-> "error"]} :
        /\ \A i \in work[w].locked : f[i] = "stored" => i \in blobs
        /\ Remember(w, [work[w] EXCEPT !.found =
              [i \in Isbn |-> IF i \in work[w].locked THEN f[i] ELSE "none"]])
        /\ Goto(w, IF \E i \in work[w].locked : f[i] = "bare" THEN "download" ELSE "process")
    /\ UNCHANGED <<rows, import, counters>>

\* downloadCovers: each missing cover is fetched and put, or yields null.
Download(w) ==
    /\ pc[w] = "download"
    /\ \E S \in SUBSET {i \in Isbn : work[w].found[i] = "bare"} :
        /\ blobs' = blobs \cup S
        /\ Remember(w, [work[w] EXCEPT !.found =
              [i \in Isbn |-> IF i \in S THEN "fresh" ELSE work[w].found[i]]])
    /\ Goto(w, "process")
    /\ UNCHANGED <<book, job, lock, import, counters>>

\* ISBN by ISBN, job by job: b may be next.
Next1(w, b) == work[w].at \in {None, work[w].claim[b].isbn}
FoundFor(w, b) == work[w].found[work[w].claim[b].isbn]

\* The job is done with: go on to the next one, or, after the last job of an
\* ISBN none of whose jobs took the fresh cover, to the cleanup of that cover.
JobDone(w, b) ==
    LET m == work[w]
        i == m.claim[b].isbn
        last == \A c \in Todo(w) : m.claim[c].isbn = i => c = b
        unused == last /\ ~m.applied /\ FoundFor(w, b) = "fresh"
    IN  /\ Remember(w, [m EXCEPT
              !.claim = [m.claim EXCEPT ![b] = NoClaim],
              !.cur = None,
              !.at = IF last /\ ~unused THEN None ELSE i,
              !.applied = m.applied /\ ~last,
              !.found = [m.found EXCEPT ![i] = IF last THEN "none" ELSE m.found[i]]])
        /\ Goto(w, IF unused THEN "check" ELSE "process")

\* A failed lookup: every job of the batch is retried or fails.
RetryAfterLookup(w) ==
    /\ pc[w] = "process"
    /\ \E b \in Todo(w) :
        /\ Next1(w, b) /\ FoundFor(w, b) = "error"
        /\ RetryOrFail(w, b)
        /\ JobDone(w, b)
    /\ UNCHANGED <<book, lock, blobs, import, counters>>

CompleteNotFound(w) ==
    /\ pc[w] = "process"
    /\ \E b \in Todo(w) :
        /\ Next1(w, b) /\ FoundFor(w, b) = "missing"
        /\ markCompleted(w, b, "not_found")
        /\ JobDone(w, b)
    /\ UNCHANGED <<book, lock, blobs, import, counters>>

HasCover(w, b) == FoundFor(w, b) \in {"stored", "fresh"}

\* The WHERE clause of applyMetadata
Applicable(w, b) ==
    /\ book[b].isbn = work[w].claim[b].isbn
    /\ book[b].state = "owned"
    /\ OwnsClaim(w, b)

\* Provider fields are added where the book has none.
Coalesce(x, y) == IF x = None THEN y ELSE x
Enriched(row, isbn, cover) ==
    [row EXCEPT !.provider = Coalesce(row.provider, isbn), !.cover = Coalesce(row.cover, cover)]

applyMetadata(w) ==
    /\ pc[w] = "process"
    /\ \E b \in Todo(w) :
        LET i == work[w].claim[b].isbn IN
        /\ Next1(w, b) /\ FoundFor(w, b) \notin {"none", "error", "missing"}
        /\ IF Applicable(w, b)
           THEN /\ book' = [book EXCEPT ![b] =
                      Enriched(book[b], i, IF HasCover(w, b) THEN i ELSE None)]
                /\ Remember(w, [work[w] EXCEPT !.at = i, !.cur = b, !.applied = TRUE])
                /\ Goto(w, "finish")
           ELSE /\ book' = book
                /\ Remember(w, [work[w] EXCEPT !.at = i, !.cur = b])
                /\ Goto(w, "cancel")
    /\ UNCHANGED <<job, lock, blobs, import, counters>>

CancelUnapplied(w) ==
    /\ pc[w] = "cancel"
    /\ cancelClaim(w, work[w].cur)
    /\ JobDone(w, work[w].cur)
    /\ UNCHANGED <<book, lock, blobs, import, counters>>

\* Tags are added (or fail) and the job is finished accordingly.
FinishJob(w) ==
    /\ pc[w] = "finish"
    /\ LET b == work[w].cur
           lastAttempt == work[w].claim[b].attempts >= MaxAttempts IN
       /\ \/ RetryOrFail(w, b)                        \* the tags could not be added
          \/ /\ FoundFor(w, b) = "bare" /\ ~lastAttempt
             /\ scheduleRetry(w, b)
          \/ /\ FoundFor(w, b) = "plain" \/ (FoundFor(w, b) = "bare" /\ lastAttempt)
             /\ markCompleted(w, b, "no_cover")
          \/ HasCover(w, b) /\ markCompleted(w, b, "completed")
       /\ JobDone(w, b)
    /\ UNCHANGED <<book, lock, blobs, import, counters>>

\* cleanupSharedCoverIfUnreferenced, first half: is the fresh cover in use?
CheckCover(w) ==
    /\ pc[w] = "check"
    /\ IF isCoverReferenced(work[w].at)
       THEN Remember(w, [work[w] EXCEPT !.at = None]) /\ Goto(w, "process")
       ELSE work' = work /\ Goto(w, "delete")
    /\ UNCHANGED <<rows, import, counters>>

\* ... second half: delete it; a failure to delete is only logged.
DeleteCover(w) ==
    /\ pc[w] = "delete"
    /\ blobs' \in {blobs, blobs \ {work[w].at}}
    /\ Remember(w, [work[w] EXCEPT !.at = None])
    /\ Goto(w, "process")
    /\ UNCHANGED <<book, job, lock, import, counters>>

\* Effect.ensuring(releaseLocks), after the last job or after an error.
ReleaseLocks(w) ==
    /\ \/ pc[w] = "process" /\ Todo(w) = {}
       \/ pc[w] = "release"
    /\ releaseIsbnLocks(w, work[w].locked)
    /\ job' = Forgotten(job, w)
    /\ EndSweep(w)
    /\ UNCHANGED <<book, blobs, import, counters>>

\* A database error inside the guarded part skips to the release of the locks.
Abort(w) ==
    /\ pc[w] \in {"download", "process", "cancel", "finish", "check", "delete"}
    /\ failures < MaxFailures
    /\ failures' = failures + 1
    /\ Remember(w, [NoWork EXCEPT !.locked = work[w].locked])
    /\ Goto(w, "release")
    /\ UNCHANGED <<rows, import, imports>>

\* The process dies, or an error is thrown where no lock is released.
Crash(w) ==
    /\ pc[w] # "idle"
    /\ failures < MaxFailures
    /\ failures' = failures + 1
    /\ job' = Forgotten(job, w)
    /\ lock' = Forgotten(lock, w)
    /\ EndSweep(w)
    /\ UNCHANGED <<book, blobs, import, imports>>

-----------------------------------------------------------------------------
(************************ an import of one record **************************)

\* findExisting: a new record, or the row of a book the user still owns, and
\* what importRecords decides on the row it read: whether provider metadata
\* (mode "clear") and a cover (orphan) of another ISBN have to go.
ReadExisting ==
    /\ pc[Importer] = "idle"
    /\ imports < MaxImports
    /\ \E b \in Book, i \in IsbnOrNull, q \in BOOLEAN :
        LET providerMetadataIsStale == /\ book[b].isbn # i
                                       /\ book[b].provider \notin {None, i} IN
        /\ book[b].state \in {"absent", "owned"}
        /\ import' = [NoImport EXCEPT !.book = b, !.isbn = i,
              !.enqueue = q /\ i # None,
              !.mode = IF book[b].state = "absent" THEN "create"
                       ELSE IF providerMetadataIsStale THEN "clear" ELSE "keep",
              !.orphan = IF providerMetadataIsStale THEN book[b].cover ELSE None]
    /\ imports' = imports + 1
    /\ Goto(Importer, "write")
    /\ UNCHANGED <<rows, work, failures>>

\* Mutation of ImportedJob: a job is left alone when enrichment is off.
ImportedJob_LeftAlone(row) ==
    IF import.enqueue THEN [NoJob EXCEPT !.status = "pending", !.isbn = import.isbn] ELSE row

\* The job row after an import with, or without, enrichment.
ImportedJob(row) ==
    IF import.enqueue THEN [NoJob EXCEPT !.status = "pending", !.isbn = import.isbn]
    ELSE IF row.status = "none" THEN row ELSE Unclaimed(row, "cancelled")

\* The book row: created, cleared of stale provider metadata, or kept.
ImportedBook(row) ==
    CASE import.mode = "create" -> [NoBook EXCEPT !.state = "owned", !.isbn = import.isbn]
      [] import.mode = "clear" ->
            [row EXCEPT !.isbn = import.isbn, !.provider = None, !.cover = None]
      [] OTHER -> [row EXCEPT !.isbn = import.isbn]

\* The atomic batch of importRecords for this record.
WriteRecord ==
    /\ pc[Importer] = "write"
    /\ LET b == import.book IN
       /\ book' = [book EXCEPT ![b] = ImportedBook(book[b])]
       /\ job' = [job EXCEPT ![b] = ImportedJob(job[b])]
    /\ import' = [NoImport EXCEPT !.orphan = import.orphan]
    /\ Goto(Importer, IF import.orphan = None THEN "idle" ELSE "lock")
    /\ UNCHANGED <<lock, blobs, work, counters>>

EndImport == Stop(Importer) /\ import' = NoImport

\* The replaced cover is cleaned up under the lock of its ISBN.
LockOrphan ==
    /\ pc[Importer] = "lock"
    /\ acquireIsbnLocks({import.orphan}, Importer, CleanupLease, Now(Importer))
    /\ IF LockFree(import.orphan, Now(Importer))
       THEN Goto(Importer, "check") /\ import' = import
       ELSE EndImport
    /\ UNCHANGED <<book, job, blobs, work, counters>>

CheckOrphan ==
    /\ pc[Importer] = "check"
    /\ Goto(Importer, IF isCoverReferenced(import.orphan) THEN "release" ELSE "delete")
    /\ UNCHANGED <<rows, work, import, counters>>

DeleteOrphan ==
    /\ pc[Importer] = "delete"
    /\ blobs' \in {blobs, blobs \ {import.orphan}}
    /\ Goto(Importer, "release")
    /\ UNCHANGED <<book, job, lock, work, import, counters>>

UnlockOrphan ==
    /\ pc[Importer] = "release"
    /\ releaseIsbnLocks(Importer, {import.orphan})
    /\ EndImport
    /\ UNCHANGED <<book, job, blobs, work, counters>>

ImportCrash ==
    /\ pc[Importer] # "idle"
    /\ failures < MaxFailures
    /\ failures' = failures + 1
    /\ lock' = Forgotten(lock, Importer)
    /\ EndImport
    /\ UNCHANGED <<book, job, blobs, work, imports>>

\* removeFromLibrary
RemoveBook(b) ==
    /\ book[b].state = "owned"
    /\ book' = [book EXCEPT ![b].state = "removed"]
    /\ UNCHANGED <<job, lock, blobs, pc, age, work, import, counters>>

-----------------------------------------------------------------------------
\* Actors whose clock reading still matters.
Timed(a) == IF a = Importer THEN pc[a] \in {"check", "delete", "release"}
                            ELSE pc[a] # "idle"
Earlier(t) == IF t > Past THEN t - 1 ELSE Past

Tick ==
    /\ \A a \in Actor : Timed(a) => age[a] < MaxAge
    /\ age' = [a \in Actor |-> IF Timed(a) THEN age[a] + 1 ELSE age[a]]
    /\ job' = [b \in Book |-> [job[b] EXCEPT !.lease = Earlier(@), !.due = Earlier(@)]]
    /\ lock' = [i \in Isbn |-> [lock[i] EXCEPT !.lease = Earlier(@)]]
    /\ UNCHANGED <<book, blobs, pc, work, import, counters>>

SweepStep(w) ==
    \/ Start(w) \/ claimJobs(w) \/ LockIsbns(w) \/ DeferUnlocked(w) \/ NothingLocked(w)
    \/ Lookup(w) \/ Download(w)
    \/ RetryAfterLookup(w) \/ CompleteNotFound(w) \/ applyMetadata(w)
    \/ CancelUnapplied(w) \/ FinishJob(w)
    \/ CheckCover(w) \/ DeleteCover(w) \/ ReleaseLocks(w)

ImportStep ==
    \/ WriteRecord \/ LockOrphan \/ CheckOrphan
    \/ DeleteOrphan \/ UnlockOrphan

Next ==
    \/ \E w \in Worker : SweepStep(w) \/ Abort(w) \/ Crash(w)
    \/ ReadExisting \/ ImportStep \/ ImportCrash
    \/ \E b \in Book : RemoveBook(b)
    \/ Tick

Spec == Init /\ [][Next]_vars

\* The cron schedule starts sweeps, running code and the clock go on.
FairSpec ==
    /\ Spec
    /\ \A w \in Worker : WF_vars(SweepStep(w))
    /\ WF_vars(ImportStep)
    /\ WF_vars(Tick)

-----------------------------------------------------------------------------
(****************************** properties *********************************)

Steps == {"idle", "claim", "lock", "defer", "download", "process", "cancel",
          "finish", "check", "delete", "release", "write"}
Tokens == Actor \cup {Gone, None}
BookRow == [state : {"absent", "owned", "removed"}, isbn : IsbnOrNull,
            provider : IsbnOrNull, cover : IsbnOrNull]
JobRow == [status : {"none"} \cup Active \cup Terminal, isbn : IsbnOrNull,
           attempts : Nat, token : Tokens, lease : Int, due : Int]
LockRow == [token : Tokens, lease : Int]
Memory == [picked : SUBSET Book, claim : [Book -> [isbn : IsbnOrNull, attempts : Nat]],
           locked : SUBSET Isbn,
           found : [Isbn -> {"none", "error", "missing", "plain", "bare", "stored", "fresh"}],
           at : IsbnOrNull, applied : BOOLEAN, cur : Book \cup {None}]
Record == [book : Book \cup {None}, isbn : IsbnOrNull, enqueue : BOOLEAN,
           mode : {"none", "create", "clear", "keep"}, orphan : IsbnOrNull]

\* The variables keep their types.
TypeOK ==
    /\ book \in [Book -> BookRow]
    /\ job \in [Book -> JobRow]
    /\ lock \in [Isbn -> LockRow]
    /\ blobs \in SUBSET Isbn
    /\ pc \in [Actor -> Steps]
    /\ age \in [Actor -> Nat]
    /\ work \in [Worker -> Memory]
    /\ import \in Record
    /\ imports \in Nat /\ failures \in Nat

LeaseOf(a) == IF a = Importer THEN CleanupLease ELSE Lease

\* The ISBNs an actor believes it has locked.
Believes(a) == IF a = Importer
               THEN IF pc[a] \in {"check", "delete", "release"} THEN {import.orphan} ELSE {}
               ELSE work[a].locked

\* Two actors never both work on an ISBN, unless one of them has overrun its
\* lease: acquireIsbnLocks takes over expired locks only, and releaseIsbnLocks
\* removes nobody else's.
LockExclusion ==
    \A a, b \in Actor : \A i \in Believes(a) \cap Believes(b) :
        a = b \/ age[a] >= LeaseOf(a) \/ age[b] >= LeaseOf(b)

\* An unexpired claim on a job that is still wanted is ended by nobody but the
\* sweep that holds it and an import of the book: the UPDATEs of a stale worker
\* carry a token the row no longer has (docs/deployment.md:105).
ClaimsAreSafe ==
    [][\A b \in Book :
        \/ job[b].status # "processing"
        \/ job'[b].status = "processing" /\ job'[b].token \in {job[b].token, Gone}
        \/ job[b].lease <= 0
        \/ \E w \in Worker : job[b].token = w /\ work'[w] # work[w]
        \/ import.book = b /\ import' # import
        \/ ~Importable(b)]_vars

\* A finished job stays as it finished until an import names its book again:
\* neither cancelIneligibleJobs nor a late sweep changes it, whatever happens to
\* the book.
FinishedStays ==
    [][\A b \in Book :
        job[b].status \in Terminal =>
            \/ job'[b].status = job[b].status /\ job'[b].attempts = job[b].attempts
            \/ import.book = b /\ import' # import]_vars

\* What a finished job reports is true of the book: "completed" books have
\* metadata and a cover, "no_cover" books have metadata, also after an import
\* has cleared what another one found.
OutcomeIsTrue ==
    \A b \in Book :
        /\ job[b].status \in {"completed", "no_cover"} => book[b].provider # None
        /\ job[b].status = "completed" => book[b].cover # None

\* Each attempt beyond maxAttempts is owed to a crash or a database error:
\* waiting for another sweep's ISBN lock costs a job nothing, and the last
\* attempt that ends in an orderly way is final.  (A sweep that overruns its
\* lease also costs an attempt, so MaxAge < Lease here, as in NoDanglingCover.)
AttemptsAreSpent ==
    \A b \in Book : job[b].attempts <= MaxAttempts + failures

\* No book refers to a shared cover that has been deleted: whoever deletes one
\* holds the ISBN's lock from before the reference check until after it.  It
\* takes every lock holder finishing within its lease (MaxAge < Lease).
NoDanglingCover ==
    \A b \in Book : book[b].cover # None => book[b].cover \in blobs

\* Provider metadata belongs to the ISBN the book has now: an import that
\* changes the ISBN invalidates it.
ProviderMetadataMatchesIsbn ==
    \A b \in Book : book[b].provider \in {None, book[b].isbn}

\* Every queued job is settled: lookup errors, missing covers, lock contention
\* and lost sweeps only delay it.
EveryJobSettles ==
    \A b \in Book : job[b].status \in Active ~> job[b].status \notin Active
=============================================================================
