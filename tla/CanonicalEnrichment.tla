------------------------- MODULE CanonicalEnrichment -------------------------
(***************************************************************************)
(* Enrichment of canonical Open Library books.  A lookup stores the core    *)
(* book and a durable pending job; a foreground request or the scheduled    *)
(* sweep claims the job under a short lease, asks the provider, stores the  *)
(* cover, fills the book in and settles the job.                            *)
(*                                                                         *)
(* Every action is one awaited statement, as in ImportEnrichment.  Here     *)
(* time is absolute and counted in the seconds of the table's timestamp     *)
(* columns, because one of them is written in another unit.                 *)
(***************************************************************************)
EXTENDS Integers, Sequences, FiniteSets

CONSTANTS
    Book,         \* canonical books: the ISBN of each is its own
    Request,      \* foreground enrichment requests
    Sweeper,      \* runs of recoverCanonicalEnrichment
    Gone,         \* the token of a run that has ended
    None,         \* SQL NULL
    Epoch,        \* the time at which the model starts
    Horizon,      \* bound: the time at which its clock stops
    Lease,        \* leaseSeconds
    RetryDelay,   \* the longest delay of a retry
    Budget,       \* time a sweep has before its safety margin
    Limit,        \* jobs a sweep lists
    MaxAttempts,  \* maxAttempts of ensurePending
    MaxAge,       \* bound: time an enrichment may take after its claim
    MaxFailures   \* bound: crashes

Actor == Request \cup Sweeper
Milliseconds(t) == 1000 * t

ASSUME NullAssumption == {None, Gone} \cap Actor = {} /\ None # Gone
ASSUME ActorAssumption == Request \cap Sweeper = {}
ASSUME BookAssumption == IsFiniteSet(Book)
\* The clock never reaches the milliseconds since 1970 of any time it shows.
ASSUME TimeAssumption ==
    /\ Epoch \in Nat /\ Horizon \in Nat /\ Epoch <= Horizon /\ Horizon < Milliseconds(Epoch)
    /\ Lease \in Nat \ {0} /\ RetryDelay \in Nat /\ Budget \in Nat \ {0} /\ MaxAge \in Nat
ASSUME CountAssumption ==
    /\ Limit \in Nat \ {0} /\ MaxAttempts \in Nat \ {0} /\ MaxFailures \in Nat

VARIABLES
    book,      \* canonical books: the core only, or with a cover
    job,       \* canonical_book_enrichment_jobs
    blobs,     \* books whose cover covers/<isbn>.webp is stored
    clock,
    pc,        \* next step of each actor
    work,      \* what an actor has in memory
    failures   \* crashes so far

vars == <<book, job, blobs, clock, pc, work, failures>>

Terminal == {"completed", "no_cover", "not_found", "failed"}
NoJob == [status |-> "none", attempts |-> 0, token |-> None, lease |-> None, due |-> None]
NoWork == [todo |-> <<>>, stop |-> 0, now |-> 0, cover |-> "none",
           outcome |-> "error"]

\* createCoreOpenLibraryBook has stored the books, their lookups have yet to
\* queue the jobs.
Init ==
    /\ book = [b \in Book |-> "core"]
    /\ job = [b \in Book |-> NoJob]
    /\ blobs = {}
    /\ clock = Epoch
    /\ pc = [a \in Actor |-> "idle"]
    /\ work = [a \in Actor |-> NoWork]
    /\ failures = 0

-----------------------------------------------------------------------------
Goto(a, step) == pc' = [pc EXCEPT ![a] = step]
Remember(a, memory) == work' = [work EXCEPT ![a] = memory]
Current(a) == Head(work[a].todo)

\* The run of the job ends: its token is forgotten, and a sweep goes on.
Forgotten(a) ==
    [b \in Book |-> IF job[b].token = a THEN [job[b] EXCEPT !.token = Gone] ELSE job[b]]
NextBook(a) ==
    IF Len(work[a].todo) = 1 THEN Remember(a, NoWork) /\ Goto(a, "idle")
    ELSE /\ Remember(a, [NoWork EXCEPT !.todo = Tail(work[a].todo), !.stop = work[a].stop])
         /\ Goto(a, "next")

(**************************** the job table ********************************)

\* Mutation of Claimable: a claim is taken over before its lease has expired.
Claimable_AnyLease(b, now) ==
    /\ job[b].attempts < MaxAttempts
    /\ \/ job[b].status \in {"pending", "processing"}
       \/ job[b].status = "retrying" /\ job[b].due <= now

\* What listRecoverable selects.
Recoverable(b, now) ==
    \/ job[b].status = "pending"
    \/ job[b].status = "retrying" /\ job[b].due <= now
    \/ job[b].status = "processing" /\ job[b].lease <= now

\* The WHERE clause of claim
Claimable(b, now) == job[b].attempts < MaxAttempts /\ Recoverable(b, now)

\* ORDER BY of listRecoverable; pending jobs are ordered by age, which is not
\* modelled.
Rank(b) == CASE job[b].status = "retrying" -> <<0, job[b].due>>
             [] job[b].status = "processing" -> <<1, job[b].lease>>
             [] OTHER -> <<2, 0>>
Before(b, c) == \/ Rank(b)[1] < Rank(c)[1]
                \/ Rank(b)[1] = Rank(c)[1] /\ Rank(b)[2] < Rank(c)[2]

\* Mutation of listRecoverable: the oldest claims and retries only.
listRecoverable_Claimed(now) ==
    LET R == {b \in Book : Recoverable(b, now) /\ job[b].status # "pending"}
    IN {s \in [1..Cardinality(R) -> R] : \A i, j \in DOMAIN s : s[i] = s[j] => i = j}

\* The lists it may return: the first rows, in order, as many as Limit allows.
listRecoverable(now) ==
    LET R == {b \in Book : Recoverable(b, now)}
        n == IF Cardinality(R) < Limit THEN Cardinality(R) ELSE Limit
    IN  {s \in [1..n -> R] :
            /\ \A i, j \in 1..n : s[i] = s[j] => i = j
            /\ \A i, j \in 1..n : i < j => ~Before(s[j], s[i])
            /\ \A b \in R : \A i \in 1..n :
                  Before(b, s[i]) => \E j \in 1..n : s[j] = b}

\* Mutation of OwnsClaim: complete and retry name the book only.
OwnsClaim_NoToken(a, b) == job[b].status = "processing"

\* The WHERE clause of complete and retry
OwnsClaim(a, b) == job[b].token = a

Settled(row, status) == [row EXCEPT !.status = status, !.token = None, !.lease = None]
UpdateClaim(a, b, row) ==
    job' = IF OwnsClaim(a, b) THEN [job EXCEPT ![b] = row] ELSE Forgotten(a)

\* Mutation of retry: a job is given up one attempt early.
retry_Early(a, b) ==
    \E d \in 1..RetryDelay :
        UpdateClaim(a, b,
            IF job[b].attempts + 1 >= MaxAttempts
            THEN [Settled(job[b], "failed") EXCEPT !.due = None]
            ELSE [Settled(job[b], "retrying") EXCEPT !.due = Milliseconds(clock + d)])

\* retry stores getTime(), milliseconds, through an SQL expression, which the
\* column's conversion to seconds does not see.
retry(a, b) ==
    \E d \in 1..RetryDelay :
        UpdateClaim(a, b,
            IF job[b].attempts >= MaxAttempts
            THEN [Settled(job[b], "failed") EXCEPT !.due = None]
            ELSE [Settled(job[b], "retrying") EXCEPT !.due = Milliseconds(clock + d)])

complete(a, b, status) == UpdateClaim(a, b, Settled(job[b], status))

-----------------------------------------------------------------------------
(**************************** one enrichment *******************************)

\* Mutation of ensurePending: a status that the schema does not list.
ensurePending_Unlisted(b) ==
    job' = IF job[b].status = "none" THEN [job EXCEPT ![b] = [NoJob EXCEPT !.status = "queued"]]
           ELSE job

\* INSERT ... ON CONFLICT DO NOTHING
ensurePending(b) ==
    job' = IF job[b].status = "none" THEN [job EXCEPT ![b] = [NoJob EXCEPT !.status = "pending"]]
           ELSE job

\* A lookup of an ISBN whose book lacks a cover, or something not modelled.
Lookup ==
    /\ \E b \in Book : ensurePending(b)
    /\ UNCHANGED <<book, blobs, clock, pc, work, failures>>

\* enrichOpenLibraryBook on the request of a client
Foreground(a) ==
    /\ pc[a] = "idle"
    /\ \E b \in Book : Remember(a, [NoWork EXCEPT !.todo = <<b>>])
    /\ Goto(a, "ensure")
    /\ UNCHANGED <<book, job, blobs, clock, failures>>

\* recoverCanonicalEnrichment lists its jobs.
BeginSweep(a) ==
    /\ pc[a] = "idle"
    /\ \E s \in listRecoverable(clock) :
        /\ s # <<>>
        /\ Remember(a, [NoWork EXCEPT !.todo = s, !.stop = clock + Budget])
    /\ Goto(a, "ensure")
    /\ UNCHANGED <<book, job, blobs, clock, failures>>

\* The sweep's next job, unless its time is up.
NextJob(a) ==
    /\ pc[a] = "next"
    /\ IF clock >= work[a].stop THEN Remember(a, NoWork) /\ Goto(a, "idle")
                                ELSE work' = work /\ Goto(a, "ensure")
    /\ UNCHANGED <<book, job, blobs, clock, failures>>

Ensure(a) ==
    /\ pc[a] = "ensure"
    /\ ensurePending(Current(a))
    /\ Remember(a, [work[a] EXCEPT !.now = clock])
    /\ Goto(a, "claim")
    /\ UNCHANGED <<book, blobs, clock, failures>>

\* A job that is settled, not due or claimed by somebody else is left alone.
claim(a) ==
    /\ pc[a] = "claim"
    /\ LET b == Current(a) IN
       IF Claimable(b, work[a].now)
       THEN /\ job' = [job EXCEPT ![b] = [job[b] EXCEPT !.status = "processing", !.token = a,
                          !.attempts = job[b].attempts + 1, !.lease = work[a].now + Lease]]
            /\ work' = work /\ Goto(a, "lookup")
       ELSE job' = job /\ NextBook(a)
    /\ UNCHANGED <<book, blobs, clock, failures>>

\* lookupByISBN, then findStoredOpenLibraryCover if a cover is advertised.
LookupProvider(a) ==
    /\ pc[a] = "lookup"
    /\ \/ \E o \in {"error", "not_found"} :
            Remember(a, [work[a] EXCEPT !.outcome = o]) /\ Goto(a, "settle")
       \/ work' = work /\ Goto(a, "apply")                       \* no cover
       \/ /\ Current(a) \in blobs
          /\ Remember(a, [work[a] EXCEPT !.cover = "stored"]) /\ Goto(a, "apply")
       \/ work' = work /\ Goto(a, "download")
    /\ UNCHANGED <<book, job, blobs, clock, failures>>

\* downloadCover stores the cover, or yields null.
Download(a) ==
    /\ pc[a] = "download"
    /\ \/ blobs' = blobs \cup {Current(a)} /\ Remember(a, [work[a] EXCEPT !.cover = "fresh"])
       \/ UNCHANGED <<blobs, work>>
    /\ Goto(a, "apply")
    /\ UNCHANGED <<book, job, clock, failures>>

\* The row is filled in whoever holds the claim, or a database error skips it.
applyOpenLibraryEnrichment(a) ==
    /\ pc[a] = "apply"
    /\ LET b == Current(a) IN
       \/ /\ book' = [book EXCEPT ![b] = IF work[a].cover # "none" THEN "covered" ELSE @]
          /\ Remember(a, [work[a] EXCEPT !.outcome =
                IF book'[b] = "covered" THEN "completed" ELSE "no_cover"])
          /\ Goto(a, "complete")
       \/ /\ UNCHANGED <<book, work>>
          /\ Goto(a, IF work[a].cover = "fresh" THEN "check" ELSE "settle")
    /\ UNCHANGED <<job, blobs, clock, failures>>

\* Tags are added and the job is completed, or one of both fails.
Complete(a) ==
    /\ pc[a] = "complete"
    /\ LET b == Current(a) IN
       \/ complete(a, b, work[a].outcome) /\ NextBook(a)
       \/ /\ job' = job
          /\ Remember(a, [work[a] EXCEPT !.outcome = "error"])
          /\ Goto(a, IF work[a].cover = "fresh" THEN "check" ELSE "settle")
    /\ UNCHANGED <<book, blobs, clock, failures>>

\* Mutation of CheckCover: the downloaded cover is deleted unseen.
CheckCover_Unchecked(a) ==
    /\ pc[a] = "check"
    /\ Goto(a, "delete")
    /\ UNCHANGED <<book, job, blobs, clock, work, failures>>

\* isCoverReferenced (or its failure), then deleteBlob (or its failure)
CheckCover(a) ==
    /\ pc[a] = "check"
    /\ Goto(a, IF book[Current(a)] = "covered" THEN "settle" ELSE "delete")
    /\ UNCHANGED <<book, job, blobs, clock, work, failures>>

DeleteCover(a) ==
    /\ pc[a] = "delete"
    /\ blobs' \in {blobs, blobs \ {Current(a)}}
    /\ Goto(a, "settle")
    /\ UNCHANGED <<book, job, clock, work, failures>>

\* Either "not found" is final or the failure is retried.
Settle(a) ==
    /\ pc[a] = "settle"
    /\ LET b == Current(a) IN
       IF work[a].outcome = "not_found" THEN complete(a, b, "not_found") ELSE retry(a, b)
    /\ NextBook(a)
    /\ UNCHANGED <<book, blobs, clock, failures>>

\* The isolate dies, the client disconnects, or an error escapes.
Crash(a) ==
    /\ pc[a] # "idle"
    /\ failures < MaxFailures
    /\ failures' = failures + 1
    /\ job' = Forgotten(a)
    /\ Remember(a, NoWork) /\ Goto(a, "idle")
    /\ UNCHANGED <<book, blobs, clock>>

Working == {"lookup", "download", "apply", "complete", "check", "delete", "settle"}

Tick ==
    /\ clock < Horizon
    /\ \A a \in Actor : pc[a] \in Working \cup {"claim"} => clock < work[a].now + MaxAge
    /\ clock' = clock + 1
    /\ UNCHANGED <<book, job, blobs, pc, work, failures>>

-----------------------------------------------------------------------------
Enrich(a) ==
    \/ Ensure(a) \/ claim(a) \/ LookupProvider(a) \/ Download(a)
    \/ applyOpenLibraryEnrichment(a) \/ Complete(a)
    \/ CheckCover(a) \/ DeleteCover(a) \/ Settle(a)
SweepStep(a) == BeginSweep(a) \/ NextJob(a) \/ Enrich(a)

Next ==
    \/ Lookup
    \/ \E a \in Request : Foreground(a) \/ Enrich(a)
    \/ \E a \in Sweeper : SweepStep(a)
    \/ \E a \in Actor : Crash(a)
    \/ Tick

Spec == Init /\ [][Next]_vars

\* The cron schedule starts sweeps, running code and the clock go on.
FairSpec ==
    /\ Spec
    /\ \A a \in Request : WF_vars(Enrich(a))
    /\ \A a \in Sweeper : WF_vars(SweepStep(a))
    /\ WF_vars(Tick)

-----------------------------------------------------------------------------
(****************************** properties *********************************)

TimeOrNull == Nat \cup {None}

\* The variables keep their types.
TypeOK ==
    /\ book \in [Book -> {"core", "covered"}]
    /\ job \in [Book -> [status : {"none", "pending", "processing", "retrying"} \cup Terminal,
                         attempts : Nat, token : Actor \cup {Gone, None},
                         lease : TimeOrNull, due : TimeOrNull]]
    /\ blobs \in SUBSET Book
    /\ clock \in Epoch..Horizon
    /\ pc \in [Actor -> {"idle", "next", "ensure", "claim"} \cup Working]
    /\ work \in [Actor -> [todo : Seq(Book), stop : Nat, now : Nat,
                           cover : {"none", "stored", "fresh"},
                           outcome : {"error", "not_found", "completed", "no_cover"}]]
    /\ failures \in Nat

\* Two enrichments of one book never run at the same time, unless one of them
\* has overrun its lease: requests that press in together, and the sweep, claim
\* a job once.
OneAtATime ==
    \A a, c \in Actor :
        /\ pc[a] \in Working /\ pc[c] \in Working
        /\ Current(a) = Current(c)
        /\ clock < work[a].now + Lease /\ clock < work[c].now + Lease
        => a = c

\* While the lease of a claim lasts nobody settles or takes the job but the
\* enrichment that holds it: what a late one writes carries a token the row no
\* longer has.
ClaimsAreSafe ==
    [][\A b \in Book :
        \/ job[b].status # "processing"
        \/ job'[b].status = "processing" /\ job'[b].token \in {job[b].token, Gone}
        \/ job[b].lease <= clock
        \/ \E a \in Actor : job[b].token = a /\ work'[a] # work[a]]_vars

\* What a settled job reports is true: a completed book has its cover, and only
\* a job that has used all its attempts, crashes included, has failed.
OutcomeIsTrue ==
    \A b \in Book :
        /\ job[b].status = "completed" => book[b] = "covered"
        /\ job[b].status = "failed" => job[b].attempts = MaxAttempts

\* The book, or an enrichment that is about to record it, counts on a cover of
\* b that is gone or about to be deleted.
CoverLost(b) ==
    /\ b \notin blobs \/ \E a \in Actor : pc[a] = "delete" /\ Current(a) = b
    /\ \/ book[b] = "covered"
       \/ \E a \in Actor : /\ pc[a] \in {"apply", "complete"} /\ Current(a) = b
                          /\ work[a].cover # "none"

\* A cover that is counted on gets lost only while an enrichment of the book is
\* late: one that fails in time deletes what it has downloaded itself and
\* nobody has recorded.
CoversAreKept ==
    [][\A b \in Book : CoverLost(b)' =>
        \/ CoverLost(b)
        \/ \E a \in Actor : /\ pc[a] \in Working /\ Current(a) = b
                           /\ clock >= work[a].now + Lease]_vars

\* Sweeps reach every job that is waiting, behind retries and expired claims,
\* if the list they read has room for all (Limit).
PendingIsReached == \A b \in Book : job[b].status = "pending" ~> job[b].status # "pending"

\* A job that is to be retried becomes due within the longest retry delay
\* (5 seconds doubled per attempt, at most 300).
RetriesComeDue ==
    \A b \in Book : job[b].status = "retrying" => job[b].due <= clock + RetryDelay

\* Work whose claim has expired can be claimed again (docs/deployment.md:269).
InterruptedWorkIsReclaimable ==
    \A b \in Book :
        job[b].status = "processing" /\ job[b].lease <= clock => Claimable(b, clock)
=============================================================================
