----------------------- MODULE ImportEnrichmentProofs -----------------------
(* Type correctness and mutual exclusion of ImportEnrichment, for any books, *)
(* ISBNs, sweeps and bounds.                                                 *)
EXTENDS ImportEnrichment, TLAPS

\* The steps in which a sweep, or the import, works on a particular row.
CursorOK ==
    /\ \A w \in Worker : pc[w] \in {"cancel", "finish"} => work[w].cur \in Book
    /\ pc[Importer] = "write" => import.book \in Book

TypeInv == TypeOK /\ CursorOK

-----------------------------------------------------------------------------
(*************************** the helpers' types ****************************)

LEMMA ConstantTypes ==
    /\ Past \in Int /\ Lease \in Int /\ CleanupLease \in Int
    /\ DeferDelay \in Int /\ \A d \in RetryDelays : d \in Int
    /\ NoJob \in JobRow /\ NoLock \in LockRow /\ NoBook \in BookRow
    /\ NoWork \in Memory /\ NoImport \in Record
BY TimeAssumption DEF Past, NoJob, NoLock, NoBook, NoWork, NoImport, NoClaim, JobRow,
   LockRow, BookRow, Memory, Record, Tokens, IsbnOrNull, Active, Terminal

LEMMA NowType ==
    ASSUME TypeOK, NEW a \in Actor PROVE Now(a) \in Int
BY DEF TypeOK, Now

LEMMA UnclaimedType ==
    ASSUME NEW row \in JobRow, NEW status \in {"none"} \cup Active \cup Terminal
    PROVE Unclaimed(row, status) \in JobRow
BY ConstantTypes DEF Unclaimed, JobRow, Tokens

LEMMA UpdateClaimType ==
    ASSUME TypeOK, NEW w \in Worker, NEW b \in Book, NEW row \in JobRow,
           UpdateClaim(w, b, row)
    PROVE job' \in [Book -> JobRow]
BY DEF TypeOK, UpdateClaim

LEMMA MarkCompletedType ==
    ASSUME TypeOK, NEW w \in Worker, NEW b \in Book, NEW status \in Terminal,
           markCompleted(w, b, status)
    PROVE job' \in [Book -> JobRow]
<1>1. job[b] \in JobRow
  BY DEF TypeOK
<1>2. Unclaimed(job[b], status) \in JobRow
  BY <1>1, UnclaimedType
<1> QED
  BY <1>2, UpdateClaimType DEF markCompleted

LEMMA CancelClaimType ==
    ASSUME TypeOK, NEW w \in Worker, NEW b \in Book, cancelClaim(w, b)
    PROVE job' \in [Book -> JobRow]
<1>1. job[b] \in JobRow
  BY DEF TypeOK
<1>2. Unclaimed(job[b], "cancelled") \in JobRow
  BY <1>1, UnclaimedType DEF Terminal
<1> QED
  BY <1>2, UpdateClaimType DEF cancelClaim

LEMMA ScheduleRetryType ==
    ASSUME TypeOK, NEW w \in Worker, NEW b \in Book, scheduleRetry(w, b)
    PROVE job' \in [Book -> JobRow]
<1>1. PICK d \in RetryDelays :
        UpdateClaim(w, b, [Unclaimed(job[b], "retrying") EXCEPT !.due = Now(w) + d])
  BY DEF scheduleRetry
<1>2. job[b] \in JobRow /\ Now(w) + d \in Int
  BY NowType, ConstantTypes DEF TypeOK, Actor
<1>3. Unclaimed(job[b], "retrying") \in JobRow
  BY <1>2, UnclaimedType DEF Active
<1>4. [Unclaimed(job[b], "retrying") EXCEPT !.due = Now(w) + d] \in JobRow
  BY <1>2, <1>3 DEF JobRow
<1> QED
  BY <1>1, <1>4, UpdateClaimType

LEMMA DeferClaimType ==
    ASSUME TypeOK, NEW w \in Worker, NEW b \in Book, deferClaim(w, b)
    PROVE job' \in [Book -> JobRow]
<1>1. job[b] \in JobRow /\ Now(w) + DeferDelay \in Int
  BY NowType, ConstantTypes DEF TypeOK, Actor
<1>2. Unclaimed(job[b], "retrying") \in JobRow
  BY <1>1, UnclaimedType DEF Active
<1>3. ASSUME NEW row \in JobRow, NEW due \in Int
      PROVE [row EXCEPT !.due = due,
               !.attempts = IF @ > 0 THEN @ - 1 ELSE 0] \in JobRow
  <2>1. (IF row.attempts > 0 THEN row.attempts - 1 ELSE 0) \in Nat
    BY <1>3 DEF JobRow
  <2> QED
    BY <1>3, <2>1 DEF JobRow
<1> QED
  BY <1>1, <1>2, <1>3, UpdateClaimType DEF deferClaim

LEMMA RetryOrFailType ==
    ASSUME TypeOK, NEW w \in Worker, NEW b \in Book, RetryOrFail(w, b)
    PROVE job' \in [Book -> JobRow]
<1>1. CASE markFailed(w, b)
  <2>1. job[b] \in JobRow
    BY DEF TypeOK
  <2>2. Unclaimed(job[b], "failed") \in JobRow
    BY <2>1, UnclaimedType DEF Terminal
  <2> QED
    BY <1>1, <2>2, UpdateClaimType DEF markFailed
<1> QED
  BY <1>1, ScheduleRetryType DEF RetryOrFail

LEMMA ForgottenType ==
    ASSUME NEW a
    PROVE /\ \A t \in [Book -> JobRow] : Forgotten(t, a) \in [Book -> JobRow]
          /\ \A t \in [Isbn -> LockRow] : Forgotten(t, a) \in [Isbn -> LockRow]
BY DEF Forgotten, JobRow, LockRow, Tokens

LEMMA AcquireType ==
    ASSUME TypeOK, NEW S, NEW a \in Actor, NEW l \in Int,
           acquireIsbnLocks(S, a, l, Now(a))
    PROVE lock' \in [Isbn -> LockRow]
<1>1. Now(a) + l \in Int
  BY NowType
<1> QED
  BY <1>1 DEF TypeOK, acquireIsbnLocks, LockRow, Tokens

LEMMA ReleaseType ==
    ASSUME TypeOK, NEW S, NEW a, releaseIsbnLocks(a, S)
    PROVE lock' \in [Isbn -> LockRow]
<1> DEFINE rest == [i \in Isbn |-> IF i \in S /\ lock[i].token = a THEN NoLock ELSE lock[i]]
<1>1. rest \in [Isbn -> LockRow]
  BY ConstantTypes DEF TypeOK
<1> HIDE DEF rest
<1>2. Forgotten(rest, a) \in [Isbn -> LockRow]
  BY <1>1, ForgottenType
<1> QED
  BY <1>2 DEF releaseIsbnLocks, rest

-----------------------------------------------------------------------------
(***************************** sweeps' memory ******************************)

\* What one step of a sweep does to the sweep itself: go to a step, remember
\* something else, leave the import alone.
LEMMA MoveType ==
    ASSUME TypeInv, NEW w \in Worker, NEW step \in Steps, NEW memory \in Memory,
           Goto(w, step), Remember(w, memory), import' = import,
           step \in {"cancel", "finish"} => memory.cur \in Book
    PROVE /\ pc' \in [Actor -> Steps] /\ age' \in [Actor -> Nat]
          /\ work' \in [Worker -> Memory]
          /\ CursorOK'
<1>1. pc \in [Actor -> Steps] /\ age \in [Actor -> Nat] /\ work \in [Worker -> Memory]
      /\ CursorOK
  BY DEF TypeInv, TypeOK
<1>2. pc' = [pc EXCEPT ![w] = step] /\ age' = age /\ work' = [work EXCEPT ![w] = memory]
  BY DEF Goto, Remember
<1>3. w \in Actor /\ Importer \in Actor /\ w # Importer /\ Worker \subseteq Actor
  BY ActorAssumption DEF Actor
<1>4. CursorOK'
  BY <1>1, <1>2, <1>3 DEF CursorOK
<1> QED
  BY <1>1, <1>2, <1>3, <1>4

LEMMA StopType ==
    ASSUME TypeInv, NEW w \in Worker, EndSweep(w), import' = import
    PROVE /\ pc' \in [Actor -> Steps] /\ age' \in [Actor -> Nat]
          /\ work' \in [Worker -> Memory]
          /\ CursorOK'
<1>1. pc \in [Actor -> Steps] /\ age \in [Actor -> Nat] /\ work \in [Worker -> Memory]
      /\ CursorOK
  BY DEF TypeInv, TypeOK
<1>2. /\ pc' = [pc EXCEPT ![w] = "idle"] /\ age' = [age EXCEPT ![w] = 0]
      /\ work' = [work EXCEPT ![w] = NoWork]
  BY DEF EndSweep, Stop, Remember
<1>3. w \in Actor /\ Importer \in Actor /\ w # Importer /\ Worker \subseteq Actor
  BY ActorAssumption DEF Actor
<1>4. CursorOK'
  BY <1>1, <1>2, <1>3 DEF CursorOK
<1> QED
  BY <1>1, <1>2, <1>3, <1>4, ConstantTypes DEF Steps

\* Forgetting a job, or keeping its ISBN, leaves the memory well typed.
LEMMA ForgetClaimType ==
    ASSUME NEW m \in Memory, NEW b \in Book
    PROVE [m.claim EXCEPT ![b] = NoClaim] \in [Book -> [isbn : IsbnOrNull, attempts : Nat]]
BY DEF Memory, NoClaim, IsbnOrNull

\* Finishing a job is a move of the sweep that keeps its locks.
LEMMA JobDoneMove ==
    ASSUME TypeInv, NEW w \in Worker, NEW b \in Book, JobDone(w, b)
    PROVE \E memory \in Memory, step \in {"check", "process"} :
            Remember(w, memory) /\ Goto(w, step) /\ memory.locked = work[w].locked
<1> DEFINE m == work[w]
           i == m.claim[b].isbn
           last == \A c \in Todo(w) : m.claim[c].isbn = i => c = b
           unused == last /\ ~m.applied /\ FoundFor(w, b) = "fresh"
           memory == [m EXCEPT
              !.claim = [m.claim EXCEPT ![b] = NoClaim],
              !.cur = None,
              !.at = IF last /\ ~unused THEN None ELSE i,
              !.applied = m.applied /\ ~last,
              !.found = [m.found EXCEPT ![i] = IF last THEN "none" ELSE m.found[i]]]
           step == IF unused THEN "check" ELSE "process"
<1>1. m \in Memory /\ i \in IsbnOrNull
  BY DEF TypeInv, TypeOK, Memory
<1>2. Remember(w, memory) /\ Goto(w, step)
  BY DEF JobDone
<1>3. [m.claim EXCEPT ![b] = NoClaim] \in [Book -> [isbn : IsbnOrNull, attempts : Nat]]
  BY <1>1, ForgetClaimType
<1>4. [m.found EXCEPT ![i] = IF last THEN "none" ELSE m.found[i]]
        \in [Isbn -> {"none", "error", "missing", "plain", "bare", "stored", "fresh"}]
  BY <1>1 DEF Memory
<1>5. (IF last /\ ~unused THEN None ELSE i) \in IsbnOrNull
  BY <1>1 DEF IsbnOrNull
<1>6. (m.applied /\ ~last) \in BOOLEAN
  OBVIOUS
<1>7. step \in {"check", "process"}
  OBVIOUS
<1> HIDE DEF m, i, last, unused, step
<1>8. memory \in Memory /\ memory.locked = m.locked
  BY <1>1, <1>3, <1>4, <1>5, <1>6 DEF Memory
<1> HIDE DEF memory
<1> QED
  BY <1>2, <1>7, <1>8 DEF m

LEMMA JobDoneType ==
    ASSUME TypeInv, NEW w \in Worker, NEW b \in Book, JobDone(w, b), import' = import
    PROVE /\ pc' \in [Actor -> Steps] /\ age' \in [Actor -> Nat]
          /\ work' \in [Worker -> Memory]
          /\ CursorOK'
<1>1. PICK memory \in Memory, step \in {"check", "process"} :
        Remember(w, memory) /\ Goto(w, step)
  BY JobDoneMove
<1>2. step \in Steps \ {"cancel", "finish"}
  BY DEF Steps
<1> QED
  BY <1>1, <1>2, MoveType

-----------------------------------------------------------------------------
(***************************** type correctness ****************************)

LEMMA InitType == Init => TypeInv
<1> SUFFICES ASSUME Init PROVE TypeInv
  OBVIOUS
<1> PICK isbn \in [Book -> IsbnOrNull] :
        /\ book = [b \in Book |-> IF isbn[b] = None THEN NoBook
                     ELSE [NoBook EXCEPT !.state = "owned", !.isbn = isbn[b]]]
        /\ job = [b \in Book |-> IF isbn[b] = None THEN NoJob
                     ELSE [NoJob EXCEPT !.status = "pending", !.isbn = isbn[b]]]
  BY DEF Init
<1>1. book \in [Book -> BookRow]
  BY ConstantTypes DEF BookRow
<1>2. job \in [Book -> JobRow]
  BY ConstantTypes DEF JobRow, Active
<1>3. lock \in [Isbn -> LockRow] /\ work \in [Worker -> Memory] /\ import \in Record
  BY ConstantTypes DEF Init
<1>4. pc \in [Actor -> Steps] /\ age \in [Actor -> Nat]
  BY DEF Init, Steps
<1>5. CursorOK
  BY DEF Init, CursorOK, Actor
<1> QED
  BY <1>1, <1>2, <1>3, <1>4, <1>5 DEF Init, TypeInv, TypeOK

LEMMA StartType == ASSUME TypeInv, NEW w \in Worker, Start(w) PROVE TypeInv'
<1>1. job' \in [Book -> JobRow]
  <2>1. \A b \in Book : Unclaimed(job[b], "cancelled") \in JobRow
    BY UnclaimedType DEF TypeInv, TypeOK, Terminal
  <2> QED
    BY <2>1 DEF Start, cancelIneligibleJobs, TypeInv, TypeOK
<1>2. CASE UNCHANGED <<pc, age, work>>
  BY <1>1, <1>2 DEF Start, TypeInv, TypeOK, CursorOK, counters
<1>3. CASE Goto(w, "claim") /\ \E S \in SUBSET Book : Remember(w, [work[w] EXCEPT !.picked = S])
  <2>1. PICK S \in SUBSET Book : Remember(w, [work[w] EXCEPT !.picked = S])
    BY <1>3
  <2>2. [work[w] EXCEPT !.picked = S] \in Memory
    BY DEF TypeInv, TypeOK, Memory
  <2>3. import' = import /\ "claim" \in Steps \ {"cancel", "finish"}
    BY DEF Start, Steps
  <2> QED
    BY <1>1, <1>3, <2>1, <2>2, <2>3, MoveType DEF Start, TypeInv, TypeOK, counters
<1> QED
  BY <1>2, <1>3 DEF Start, fairCandidates

LEMMA ClaimJobsType == ASSUME TypeInv, NEW w \in Worker, claimJobs(w) PROVE TypeInv'
<1> DEFINE C == {b \in work[w].picked : Claimable(b, Now(w))}
           claim == [b \in Book |->
                 IF b \in C THEN [isbn |-> job[b].isbn, attempts |-> job[b].attempts + 1]
                 ELSE NoClaim]
<1>1. UNCHANGED <<book, lock, blobs, import, imports, failures>>
  BY DEF claimJobs, counters
<1>2. CASE C = {}
  <2>1. EndSweep(w) /\ job' = job
    BY <1>2 DEF claimJobs
  <2> QED
    BY <1>1, <2>1, StopType DEF TypeInv, TypeOK
<1>3. CASE C # {}
  <2>1. /\ job' = [b \in Book |-> IF b \in C THEN Claimed(w, job[b]) ELSE job[b]]
        /\ Remember(w, [NoWork EXCEPT !.claim = claim]) /\ Goto(w, "lock")
    BY <1>3 DEF claimJobs
  <2>2. \A row \in JobRow : Claimed(w, row) \in JobRow
    <3>1. Now(w) + Lease \in Int /\ w \in Tokens
      BY NowType, ConstantTypes DEF Actor, Tokens, TypeInv
    <3>2. ASSUME NEW row \in JobRow, NEW l \in Int
          PROVE [row EXCEPT !.status = "processing", !.attempts = row.attempts + 1,
                            !.token = w, !.lease = l, !.due = Past] \in JobRow
      <4>1. row.attempts + 1 \in Nat
        BY DEF JobRow
      <4>2. "processing" \in {"none"} \cup Active \cup Terminal /\ Past \in Int
        BY ConstantTypes DEF Active
      <4> QED
        BY <3>1, <4>1, <4>2 DEF JobRow
    <3> QED
      BY <3>1, <3>2 DEF Claimed
  <2>3. job' \in [Book -> JobRow]
    BY <2>1, <2>2 DEF TypeInv, TypeOK
  <2>4. claim \in [Book -> [isbn : IsbnOrNull, attempts : Nat]]
    BY DEF TypeInv, TypeOK, JobRow, NoClaim, IsbnOrNull
  <2> HIDE DEF claim
  <2>5. [NoWork EXCEPT !.claim = claim] \in Memory
    BY <2>4, ConstantTypes DEF Memory
  <2>6. "lock" \in Steps \ {"cancel", "finish"}
    BY DEF Steps
  <2> QED
    BY <1>1, <2>1, <2>3, <2>5, <2>6, MoveType DEF TypeInv, TypeOK
<1> QED
  BY <1>2, <1>3

LEMMA LockingType ==
    ASSUME TypeInv, NEW w \in Worker,
           LockIsbns(w) \/ DeferUnlocked(w) \/ NothingLocked(w) \/ Lookup(w) \/ Download(w)
    PROVE TypeInv'
<1>0. /\ work[w] \in Memory /\ w \in Actor /\ TypeOK
      /\ {"defer", "download", "process"} \subseteq Steps \ {"cancel", "finish"}
  BY DEF TypeInv, TypeOK, Actor, Steps
<1>1. CASE LockIsbns(w)
  <2>1. lock' \in [Isbn -> LockRow]
    BY <1>0, <1>1, AcquireType, ConstantTypes DEF LockIsbns
  <2>2. PICK S \in SUBSET Isbn : Remember(w, [work[w] EXCEPT !.locked = S])
    BY <1>1 DEF LockIsbns
  <2>3. [work[w] EXCEPT !.locked = S] \in Memory
    BY <1>0 DEF Memory
  <2> QED
    BY <1>0, <1>1, <2>1, <2>2, <2>3, MoveType DEF LockIsbns, TypeInv, TypeOK, counters
<1>2. CASE DeferUnlocked(w)
  <2>1. PICK b \in Book : deferClaim(w, b) /\ Remember(w, [work[w] EXCEPT !.claim[b] = NoClaim])
    BY <1>2 DEF DeferUnlocked, Todo
  <2>2. [work[w].claim EXCEPT ![b] = NoClaim] \in [Book -> [isbn : IsbnOrNull, attempts : Nat]]
    BY <1>0, ForgetClaimType
  <2>3. [work[w] EXCEPT !.claim[b] = NoClaim] \in Memory
    BY <1>0, <2>2 DEF Memory
  <2>4. job' \in [Book -> JobRow]
    BY <1>0, <2>1, DeferClaimType
  <2> QED
    BY <1>0, <1>2, <2>1, <2>3, <2>4, MoveType DEF DeferUnlocked, TypeInv, TypeOK, counters
<1>3. CASE NothingLocked(w)
  BY <1>3, StopType DEF NothingLocked, rows, counters, TypeInv, TypeOK
<1>4. CASE Lookup(w)
  <2>1. PICK f \in [work[w].locked -> {"missing", "plain", "bare", "stored"}]
                \cup {[i \in work[w].locked |-> "error"]} :
          /\ Remember(w, [work[w] EXCEPT !.found =
                [i \in Isbn |-> IF i \in work[w].locked THEN f[i] ELSE "none"]])
          /\ \E step \in {"download", "process"} : Goto(w, step)
    BY <1>4 DEF Lookup
  <2>2. [i \in Isbn |-> IF i \in work[w].locked THEN f[i] ELSE "none"]
          \in [Isbn -> {"none", "error", "missing", "plain", "bare", "stored", "fresh"}]
    BY <1>0 DEF Memory
  <2>3. [work[w] EXCEPT !.found =
                [i \in Isbn |-> IF i \in work[w].locked THEN f[i] ELSE "none"]] \in Memory
    BY <1>0, <2>2 DEF Memory
  <2> QED
    BY <1>0, <1>4, <2>1, <2>3, MoveType DEF Lookup, rows, counters, TypeInv, TypeOK
<1>5. CASE Download(w)
  <2>1. PICK S \in SUBSET Isbn :
          /\ blobs' = blobs \cup S
          /\ Remember(w, [work[w] EXCEPT !.found =
                [i \in Isbn |-> IF i \in S THEN "fresh" ELSE work[w].found[i]]])
    BY <1>5 DEF Download
  <2>2. [i \in Isbn |-> IF i \in S THEN "fresh" ELSE work[w].found[i]]
          \in [Isbn -> {"none", "error", "missing", "plain", "bare", "stored", "fresh"}]
    BY <1>0 DEF Memory
  <2>3. [work[w] EXCEPT !.found =
            [i \in Isbn |-> IF i \in S THEN "fresh" ELSE work[w].found[i]]] \in Memory
    BY <1>0, <2>2 DEF Memory
  <2> QED
    BY <1>0, <1>5, <2>1, <2>3, MoveType DEF Download, counters, TypeInv, TypeOK
<1> QED
  BY <1>1, <1>2, <1>3, <1>4, <1>5

LEMMA ProcessType ==
    ASSUME TypeInv, NEW w \in Worker,
           \/ RetryAfterLookup(w) \/ CompleteNotFound(w) \/ applyMetadata(w)
           \/ CancelUnapplied(w) \/ FinishJob(w)
    PROVE TypeInv'
<1>0. /\ work[w] \in Memory /\ w \in Actor /\ TypeOK
      /\ {"cancel", "finish"} \subseteq Steps
  BY DEF TypeInv, TypeOK, Actor, Steps
<1>1. CASE RetryAfterLookup(w)
  <2>1. PICK b \in Book : RetryOrFail(w, b) /\ JobDone(w, b)
    BY <1>1 DEF RetryAfterLookup, Todo
  <2> QED
    BY <1>0, <1>1, <2>1, RetryOrFailType, JobDoneType
       DEF RetryAfterLookup, counters, TypeInv, TypeOK
<1>2. CASE CompleteNotFound(w)
  <2>1. PICK b \in Book : markCompleted(w, b, "not_found") /\ JobDone(w, b)
    BY <1>2 DEF CompleteNotFound, Todo
  <2>2. job' \in [Book -> JobRow]
    BY <1>0, <2>1, MarkCompletedType DEF Terminal
  <2> QED
    BY <1>2, <2>1, <2>2, JobDoneType DEF CompleteNotFound, counters, TypeInv, TypeOK
<1>3. CASE applyMetadata(w)
  <2>1. PICK b \in Book, i \in IsbnOrNull :
          \/ /\ book' = [book EXCEPT ![b] =
                      Enriched(book[b], i, IF HasCover(w, b) THEN i ELSE None)]
             /\ Remember(w, [work[w] EXCEPT !.at = i, !.cur = b, !.applied = TRUE])
             /\ Goto(w, "finish")
          \/ /\ book' = book
             /\ Remember(w, [work[w] EXCEPT !.at = i, !.cur = b])
             /\ Goto(w, "cancel")
    <3>1. PICK b \in Todo(w) :
            LET i == work[w].claim[b].isbn IN
             IF Applicable(w, b)
             THEN /\ book' = [book EXCEPT ![b] =
                      Enriched(book[b], i, IF HasCover(w, b) THEN i ELSE None)]
                  /\ Remember(w, [work[w] EXCEPT !.at = i, !.cur = b, !.applied = TRUE])
                  /\ Goto(w, "finish")
             ELSE /\ book' = book
                  /\ Remember(w, [work[w] EXCEPT !.at = i, !.cur = b])
                  /\ Goto(w, "cancel")
      BY <1>3 DEF applyMetadata
    <3>2. b \in Book /\ work[w].claim[b].isbn \in IsbnOrNull
      BY <1>0 DEF Todo, Memory
    <3> QED
      BY <3>1, <3>2
  <2>2. book' \in [Book -> BookRow]
    <3>1. (IF HasCover(w, b) THEN i ELSE None) \in IsbnOrNull
      BY DEF IsbnOrNull
    <3>2. \A x, y \in IsbnOrNull : Coalesce(x, y) \in IsbnOrNull
      BY DEF Coalesce
    <3>3. ASSUME NEW row \in BookRow, NEW c \in IsbnOrNull
          PROVE Enriched(row, i, c) \in BookRow
      <4>1. /\ Coalesce(row.provider, i) \in IsbnOrNull
            /\ Coalesce(row.cover, c) \in IsbnOrNull
        BY <3>2 DEF BookRow
      <4> QED
        BY <4>1 DEF Enriched, BookRow
    <3>4. book \in [Book -> BookRow]
      BY <1>0 DEF TypeOK
    <3> QED
      BY <2>1, <3>1, <3>3, <3>4
  <2>3. [work[w] EXCEPT !.at = i, !.cur = b, !.applied = TRUE] \in Memory
        /\ [work[w] EXCEPT !.at = i, !.cur = b] \in Memory
    BY <1>0 DEF Memory
  <2>4. PICK memory \in Memory, step \in {"cancel", "finish"} :
          Remember(w, memory) /\ Goto(w, step) /\ memory.cur = b
    <3>1. [work[w] EXCEPT !.at = i, !.cur = b, !.applied = TRUE].cur = b
          /\ [work[w] EXCEPT !.at = i, !.cur = b].cur = b
      BY <1>0 DEF Memory
    <3> QED
      BY <2>1, <2>3, <3>1
  <2> QED
    BY <1>0, <1>3, <2>2, <2>4, MoveType DEF applyMetadata, counters, TypeInv, TypeOK
<1>4. CASE CancelUnapplied(w)
  <2>1. work[w].cur \in Book
    BY <1>4 DEF CancelUnapplied, TypeInv, CursorOK
  <2>2. job' \in [Book -> JobRow]
    BY <1>0, <1>4, <2>1, CancelClaimType DEF CancelUnapplied
  <2> QED
    BY <1>4, <2>1, <2>2, JobDoneType DEF CancelUnapplied, counters, TypeInv, TypeOK
<1>5. CASE FinishJob(w)
  <2>1. work[w].cur \in Book
    BY <1>5 DEF FinishJob, TypeInv, CursorOK
  <2>2. job' \in [Book -> JobRow]
    <3>1. \/ RetryOrFail(w, work[w].cur) \/ scheduleRetry(w, work[w].cur)
          \/ markCompleted(w, work[w].cur, "no_cover")
          \/ markCompleted(w, work[w].cur, "completed")
      BY <1>5 DEF FinishJob
    <3> QED
      BY <1>0, <2>1, <3>1, RetryOrFailType, ScheduleRetryType, MarkCompletedType DEF Terminal
  <2> QED
    BY <1>5, <2>1, <2>2, JobDoneType DEF FinishJob, counters, TypeInv, TypeOK
<1> QED
  BY <1>1, <1>2, <1>3, <1>4, <1>5

LEMMA CleanupType ==
    ASSUME TypeInv, NEW w \in Worker,
           CheckCover(w) \/ DeleteCover(w) \/ ReleaseLocks(w) \/ Abort(w) \/ Crash(w)
    PROVE TypeInv'
<1>0. /\ work[w] \in Memory /\ w \in Actor /\ TypeOK
      /\ {"process", "delete", "release"} \subseteq Steps \ {"cancel", "finish"}
  BY DEF TypeInv, TypeOK, Actor, Steps
<1>1. [work[w] EXCEPT !.at = None] \in Memory
  BY <1>0 DEF Memory, IsbnOrNull
<1>2. CASE CheckCover(w)
  <2>1. PICK memory \in Memory, step \in {"process", "delete"} :
          Remember(w, memory) /\ Goto(w, step)
    <3>1. work' = work => Remember(w, work[w])
      BY <1>0 DEF Remember, TypeOK
    <3> QED
      BY <1>0, <1>1, <1>2, <3>1 DEF CheckCover
  <2> QED
    BY <1>0, <1>2, <2>1, MoveType DEF CheckCover, rows, counters, TypeInv, TypeOK
<1>3. CASE DeleteCover(w)
  BY <1>0, <1>1, <1>3, MoveType DEF DeleteCover, counters, TypeInv, TypeOK
<1>4. CASE ReleaseLocks(w)
  <2>1. lock' \in [Isbn -> LockRow] /\ job' \in [Book -> JobRow]
    BY <1>0, <1>4, ReleaseType, ForgottenType DEF ReleaseLocks, TypeOK
  <2> QED
    BY <1>4, <2>1, StopType DEF ReleaseLocks, counters, TypeInv, TypeOK
<1>5. CASE Abort(w)
  <2>1. [NoWork EXCEPT !.locked = work[w].locked] \in Memory
    BY <1>0, ConstantTypes DEF Memory
  <2> QED
    BY <1>0, <1>5, <2>1, MoveType DEF Abort, rows, TypeInv, TypeOK
<1>6. CASE Crash(w)
  <2>1. lock' \in [Isbn -> LockRow] /\ job' \in [Book -> JobRow]
    BY <1>0, <1>6, ForgottenType DEF Crash, TypeOK
  <2> QED
    BY <1>6, <2>1, StopType DEF Crash, TypeInv, TypeOK
<1> QED
  BY <1>2, <1>3, <1>4, <1>5, <1>6

\* What a step of the import does to the import's own variables.
LEMMA ImportMoveType ==
    ASSUME TypeInv, NEW step \in Steps \ {"write"},
           Goto(Importer, step) \/ Stop(Importer), work' = work
    PROVE /\ pc' \in [Actor -> Steps] /\ age' \in [Actor -> Nat]
          /\ CursorOK'
<1>1. pc \in [Actor -> Steps] /\ age \in [Actor -> Nat] /\ CursorOK
  BY DEF TypeInv, TypeOK
<1>2. PICK s \in Steps \ {"write"} : pc' = [pc EXCEPT ![Importer] = s]
  BY DEF Goto, Stop, Steps
<1>3. Importer \in Actor /\ Importer \notin Worker /\ Worker \subseteq Actor
  BY ActorAssumption DEF Actor
<1>4. CursorOK'
  BY <1>1, <1>2, <1>3 DEF CursorOK
<1> QED
  BY <1>1, <1>2, <1>3, <1>4 DEF Goto, Stop

LEMMA ImportType ==
    ASSUME TypeInv, ReadExisting \/ ImportStep \/ ImportCrash PROVE TypeInv'
<1>0. /\ TypeOK /\ import \in Record /\ Importer \in Actor /\ Importer \notin Worker
      /\ Worker \subseteq Actor
      /\ {"idle", "lock", "check", "delete", "release"} \subseteq Steps \ {"write"}
  BY ActorAssumption DEF TypeInv, TypeOK, Actor, Steps
<1>1. CASE ReadExisting
  <2> DEFINE stale(b, i) == book[b].isbn # i /\ book[b].provider \notin {None, i}
             modeOf(b, i) == IF book[b].state = "absent" THEN "create"
                             ELSE IF stale(b, i) THEN "clear" ELSE "keep"
             orphanOf(b, i) == IF stale(b, i) THEN book[b].cover ELSE None
  <2>1. PICK b \in Book, i \in IsbnOrNull, q \in BOOLEAN :
          import' = [NoImport EXCEPT !.book = b, !.isbn = i, !.enqueue = q /\ i # None,
                                     !.mode = modeOf(b, i), !.orphan = orphanOf(b, i)]
    BY <1>1 DEF ReadExisting
  <2>2. import' \in Record /\ import'.book \in Book
    <3>1. modeOf(b, i) \in {"create", "clear", "keep"} /\ orphanOf(b, i) \in IsbnOrNull
      BY <1>0 DEF TypeOK, BookRow, IsbnOrNull
    <3> HIDE DEF modeOf, orphanOf
    <3>2. (q /\ i # None) \in BOOLEAN
      OBVIOUS
    <3> QED
      BY <2>1, <3>1, <3>2, ConstantTypes DEF Record
  <2>3. /\ pc' = [pc EXCEPT ![Importer] = "write"] /\ age' = age
        /\ UNCHANGED <<book, job, lock, blobs, work, failures>> /\ imports' = imports + 1
    BY <1>1 DEF ReadExisting, Goto, rows
  <2>4. CursorOK'
    BY <1>0, <2>2, <2>3 DEF CursorOK, TypeInv, TypeOK
  <2>5. pc' \in [Actor -> Steps] /\ imports' \in Nat
    BY <1>0, <2>3 DEF TypeOK, Steps
  <2>6. TypeOK'
    BY <1>0, <2>2, <2>3, <2>5 DEF TypeOK
  <2> QED
    BY <2>4, <2>6 DEF TypeInv
<1>2. CASE WriteRecord
  <2>1. import.book \in Book
    BY <1>2 DEF WriteRecord, TypeInv, CursorOK
  <2>2. ImportedBook(book[import.book]) \in BookRow
    <3>1. book[import.book] \in BookRow /\ import.isbn \in IsbnOrNull /\ None \in IsbnOrNull
      BY <1>0, <2>1 DEF TypeOK, Record, IsbnOrNull
    <3>2. ASSUME NEW row \in BookRow, NEW isbn \in IsbnOrNull
          PROVE /\ [NoBook EXCEPT !.state = "owned", !.isbn = isbn] \in BookRow
                /\ [row EXCEPT !.isbn = isbn, !.provider = None, !.cover = None] \in BookRow
                /\ [row EXCEPT !.isbn = isbn] \in BookRow
      BY <3>1, ConstantTypes DEF BookRow
    <3> QED
      BY <3>1, <3>2 DEF ImportedBook
  <2>3. ImportedJob(job[import.book]) \in JobRow
    <3>1. job[import.book] \in JobRow /\ import.isbn \in IsbnOrNull
      BY <1>0, <2>1 DEF TypeOK, Record
    <3>2. Unclaimed(job[import.book], "cancelled") \in JobRow
      BY <3>1, UnclaimedType DEF Terminal
    <3>3. [NoJob EXCEPT !.status = "pending", !.isbn = import.isbn] \in JobRow
      BY <3>1, ConstantTypes DEF JobRow, Active
    <3> QED
      BY <3>1, <3>2, <3>3 DEF ImportedJob
  <2>4. book' \in [Book -> BookRow] /\ job' \in [Book -> JobRow]
    BY <1>0, <1>2, <2>2, <2>3 DEF WriteRecord, TypeOK
  <2>5. import' \in Record
    BY <1>0, <1>2, ConstantTypes DEF WriteRecord, Record
  <2>6. \E step \in {"idle", "lock"} : Goto(Importer, step)
    BY <1>2 DEF WriteRecord
  <2> QED
    BY <1>0, <1>2, <2>4, <2>5, <2>6, ImportMoveType DEF WriteRecord, TypeInv, TypeOK, counters
<1>3. CASE LockOrphan
  <2>1. lock' \in [Isbn -> LockRow]
    BY <1>0, <1>3, AcquireType, ConstantTypes DEF LockOrphan
  <2>2. /\ Goto(Importer, "check") \/ Stop(Importer)
        /\ import' \in Record
    BY <1>0, <1>3, ConstantTypes DEF LockOrphan, EndImport
  <2> QED
    BY <1>0, <1>3, <2>1, <2>2, ImportMoveType DEF LockOrphan, TypeInv, TypeOK, counters
<1>4. CASE CheckOrphan
  <2>1. \E step \in {"delete", "release"} : Goto(Importer, step)
    BY <1>4 DEF CheckOrphan
  <2> QED
    BY <1>0, <1>4, <2>1, ImportMoveType DEF CheckOrphan, rows, TypeInv, TypeOK, counters
<1>5. CASE DeleteOrphan
  BY <1>0, <1>5, ImportMoveType DEF DeleteOrphan, TypeInv, TypeOK, counters
<1>6. CASE UnlockOrphan
  <2>1. lock' \in [Isbn -> LockRow]
    BY <1>0, <1>6, ReleaseType DEF UnlockOrphan
  <2> QED
    BY <1>0, <1>6, <2>1, ImportMoveType, ConstantTypes
       DEF UnlockOrphan, EndImport, TypeInv, TypeOK, counters
<1>7. CASE ImportCrash
  <2>1. lock' \in [Isbn -> LockRow]
    BY <1>0, <1>7, ForgottenType DEF ImportCrash, TypeOK
  <2> QED
    BY <1>0, <1>7, <2>1, ImportMoveType, ConstantTypes
       DEF ImportCrash, EndImport, TypeInv, TypeOK
<1> QED
  BY <1>1, <1>2, <1>3, <1>4, <1>5, <1>6, <1>7 DEF ImportStep

LEMMA EnvironmentType ==
    ASSUME TypeInv, (\E b \in Book : RemoveBook(b)) \/ Tick PROVE TypeInv'
<1>1. ASSUME NEW b \in Book, RemoveBook(b) PROVE TypeInv'
  <2>1. book' \in [Book -> BookRow]
    BY <1>1 DEF RemoveBook, TypeInv, TypeOK, BookRow
  <2> QED
    BY <1>1, <2>1 DEF RemoveBook, TypeInv, TypeOK, CursorOK, counters
<1>2. CASE Tick
  <2>1. \A t \in Int : Earlier(t) \in Int
    BY ConstantTypes DEF Earlier
  <2>2. job' \in [Book -> JobRow]
    BY <1>2, <2>1 DEF Tick, TypeInv, TypeOK, JobRow
  <2>3. lock' \in [Isbn -> LockRow]
    BY <1>2, <2>1 DEF Tick, TypeInv, TypeOK, LockRow
  <2>4. age' \in [Actor -> Nat]
    <3>1. \A a \in Actor : (IF Timed(a) THEN age[a] + 1 ELSE age[a]) \in Nat
      BY DEF TypeInv, TypeOK
    <3> QED
      BY <1>2, <3>1 DEF Tick
  <2>5. UNCHANGED <<book, blobs, pc, work, import, imports, failures>>
    BY <1>2 DEF Tick, counters
  <2>6. TypeOK'
    BY <2>2, <2>3, <2>4, <2>5 DEF TypeInv, TypeOK
  <2>7. CursorOK'
    BY <2>5 DEF TypeInv, CursorOK
  <2> QED
    BY <2>6, <2>7 DEF TypeInv
<1> QED
  BY <1>1, <1>2

LEMMA NextType == TypeInv /\ [Next]_vars => TypeInv'
<1> SUFFICES ASSUME TypeInv, [Next]_vars PROVE TypeInv'
  OBVIOUS
<1>1. ASSUME NEW w \in Worker, SweepStep(w) \/ Abort(w) \/ Crash(w) PROVE TypeInv'
  BY <1>1, StartType, ClaimJobsType, LockingType, ProcessType, CleanupType DEF SweepStep
<1>2. CASE UNCHANGED vars
  BY <1>2 DEF vars, TypeInv, TypeOK, CursorOK
<1> QED
  BY <1>1, <1>2, ImportType, EnvironmentType DEF Next

\* The variables keep their types, whatever the constants: in particular no
\* step writes a status, a token or a timestamp the schema does not know.
THEOREM TypeCorrect == Spec => []TypeOK
<1>1. Spec => []TypeInv
  BY InitType, NextType, PTL DEF Spec
<1>2. TypeInv => TypeOK
  BY DEF TypeInv
<1> QED
  BY <1>1, <1>2, PTL

-----------------------------------------------------------------------------
(***************************** lock exclusion ******************************)

\* What makes LockExclusion inductive: within its lease an actor's locks are
\* rows that carry its token and expire when its lease does; a row carries the
\* token of an actor only while that actor counts on it; and nobody counts on a
\* lock before it has taken one.
LockInv ==
    /\ \A a \in Actor : \A i \in Believes(a) :
          age[a] < LeaseOf(a) => /\ lock[i].token = a
                                 /\ lock[i].lease = LeaseOf(a) - age[a]
    /\ \A a \in Actor : \A i \in Isbn : lock[i].token = a => i \in Believes(a)
    /\ \A w \in Worker : pc[w] \in {"idle", "claim", "lock"} => work[w].locked = {}
    /\ pc[Importer] \in {"lock", "check", "delete", "release"} => import.orphan \in Isbn

\* No two actors' tokens are on one row, and a row that is held is not free.
LEMMA LockInvExcludes == TypeInv /\ LockInv => LockExclusion
<1> SUFFICES ASSUME TypeInv, LockInv, NEW a \in Actor, NEW b \in Actor,
                    NEW i \in Believes(a) \cap Believes(b),
                    ~(age[a] >= LeaseOf(a)), ~(age[b] >= LeaseOf(b))
             PROVE a = b
  BY DEF LockExclusion
<1>1. \A c \in Actor : age[c] \in Nat /\ LeaseOf(c) \in Int
  BY ConstantTypes DEF TypeInv, TypeOK, LeaseOf
<1>2. age[a] < LeaseOf(a) /\ age[b] < LeaseOf(b)
  BY <1>1
<1> QED
  BY <1>2 DEF LockInv

LEMMA HeldIsNotFree ==
    ASSUME TypeInv, LockInv, NEW a \in Actor, NEW i \in Believes(a), age[a] < LeaseOf(a),
           NEW c \in Actor
    PROVE ~LockFree(i, Now(c))
<1>1. lock[i].token = a /\ lock[i].lease = LeaseOf(a) - age[a]
  BY DEF LockInv
<1>2. age[a] \in Nat /\ age[c] \in Nat /\ LeaseOf(a) \in Int
  BY ConstantTypes DEF TypeInv, TypeOK, LeaseOf
<1>3. a # None
  BY NullAssumption
<1> QED
  BY <1>1, <1>2, <1>3 DEF LockFree, Now

LEMMA BelievesType ==
    ASSUME TypeInv, LockInv, NEW a \in Actor PROVE Believes(a) \subseteq Isbn
BY DEF TypeInv, TypeOK, LockInv, Believes, Memory, Actor

\* A step of a sweep that touches neither the lock rows nor its own locks.
LEMMA MoveLock ==
    ASSUME TypeInv, LockInv, NEW w \in Worker, NEW step, NEW memory \in Memory,
           Goto(w, step), Remember(w, memory), memory.locked = work[w].locked,
           step \in {"idle", "claim", "lock"} => memory.locked = {},
           lock' = lock, import' = import
    PROVE LockInv'
<1>1. /\ pc \in [Actor -> Steps] /\ work \in [Worker -> Memory]
      /\ w \in Actor /\ Importer \notin Worker /\ Importer \in Actor /\ Worker \subseteq Actor
  BY ActorAssumption DEF TypeInv, TypeOK, Actor
<1>2. pc' = [pc EXCEPT ![w] = step] /\ age' = age /\ work' = [work EXCEPT ![w] = memory]
  BY DEF Goto, Remember
<1>3. \A a \in Actor : Believes(a)' = Believes(a)
  BY <1>1, <1>2 DEF Believes, Actor
<1>4. \A v \in Worker : pc'[v] \in {"idle", "claim", "lock"} => work'[v].locked = {}
  BY <1>1, <1>2 DEF LockInv
<1>5. pc'[Importer] = pc[Importer]
  BY <1>1, <1>2
<1> QED
  BY <1>2, <1>3, <1>4, <1>5 DEF LockInv, LeaseOf

\* An actor's run ends: the rows with its token are gone or carry another one.
LEMMA EndLock ==
    ASSUME TypeInv, LockInv, NEW a \in Actor,
           Stop(a), Believes(a)' = {},
           \A c \in Actor \ {a} : Believes(c)' = Believes(c),
           \A i \in Isbn : /\ lock'[i].token \notin Actor \/ lock'[i] = lock[i]
                           /\ lock[i].token # a => lock'[i] = lock[i]
                           /\ lock'[i].token # a,
           \A w \in Worker \ {a} : work'[w] = work[w],
           a \in Worker => work'[a].locked = {},
           a # Importer => import' = import
    PROVE LockInv'
<1>1. /\ pc \in [Actor -> Steps] /\ age \in [Actor -> Nat]
      /\ Importer \notin Worker /\ Importer \in Actor /\ Worker \subseteq Actor
  BY ActorAssumption DEF TypeInv, TypeOK, Actor
<1>2. pc' = [pc EXCEPT ![a] = "idle"] /\ age' = [age EXCEPT ![a] = 0]
  BY DEF Stop
<1>3. ASSUME NEW c \in Actor, NEW i \in Believes(c)', age'[c] < LeaseOf(c)
      PROVE lock'[i].token = c /\ lock'[i].lease = LeaseOf(c) - age'[c]
  <2>1. c # a /\ i \in Believes(c) /\ age'[c] = age[c]
    BY <1>1, <1>2, <1>3
  <2>2. i \in Isbn /\ lock[i].token = c /\ lock[i].lease = LeaseOf(c) - age[c]
    BY <1>3, <2>1, BelievesType DEF LockInv
  <2> QED
    BY <2>1, <2>2
<1>4. ASSUME NEW c \in Actor, NEW i \in Isbn, lock'[i].token = c PROVE i \in Believes(c)'
  <2>1. c # a /\ lock[i].token = c
    BY <1>4
  <2> QED
    BY <2>1 DEF LockInv
<1>5. \A w \in Worker : pc'[w] \in {"idle", "claim", "lock"} => work'[w].locked = {}
  BY <1>1, <1>2 DEF LockInv
<1>6. pc'[Importer] \in {"lock", "check", "delete", "release"} => import'.orphan \in Isbn
  BY <1>1, <1>2 DEF LockInv
<1>7. \A c : LeaseOf(c)' = LeaseOf(c)
  BY DEF LeaseOf
<1> QED
  BY <1>3, <1>4, <1>5, <1>6, <1>7 DEF LockInv

\* Taking locks: only free rows are overwritten, and those get a full lease.
LEMMA AcquireLock ==
    ASSUME TypeInv, LockInv, NEW a \in Actor, NEW S, Believes(a) = {}, age' = age,
           acquireIsbnLocks(S, a, LeaseOf(a), Now(a)),
           Believes(a)' = {i \in Isbn : i \in S /\ lock'[i].token = a},
           \A c \in Actor \ {a} : Believes(c)' = Believes(c)
    PROVE /\ \A c \in Actor : \A i \in Believes(c)' :
                age'[c] < LeaseOf(c) => /\ lock'[i].token = c
                                        /\ lock'[i].lease = LeaseOf(c) - age'[c]
          /\ \A c \in Actor : \A i \in Isbn : lock'[i].token = c => i \in Believes(c)'
<1> DEFINE row == [token |-> a, lease |-> Now(a) + LeaseOf(a)]
<1>1. \A i \in Isbn : lock'[i] = IF i \in S /\ LockFree(i, Now(a)) THEN row ELSE lock[i]
  BY DEF acquireIsbnLocks
<1>2. \A i \in Isbn : lock[i].token # a
  BY DEF LockInv
<1>3. row.token = a /\ row.lease = LeaseOf(a) - age[a]
  <2>1. age[a] \in Nat /\ LeaseOf(a) \in Int
    BY ConstantTypes DEF TypeInv, TypeOK, LeaseOf
  <2> QED
    BY <2>1 DEF Now
<1> HIDE DEF row
<1>4. ASSUME NEW c \in Actor, NEW i \in Believes(c)', age'[c] < LeaseOf(c)
      PROVE lock'[i].token = c /\ lock'[i].lease = LeaseOf(c) - age'[c]
  <2>1. CASE c = a
    BY <1>1, <1>2, <1>3, <1>4, <2>1
  <2>2. CASE c # a
    <3>1. i \in Believes(c) /\ i \in Isbn /\ age[c] < LeaseOf(c)
      BY <1>4, <2>2, BelievesType
    <3>2. ~LockFree(i, Now(a))
      BY <3>1, HeldIsNotFree
    <3> QED
      BY <1>1, <3>1, <3>2 DEF LockInv
  <2> QED
    BY <2>1, <2>2
<1>5. ASSUME NEW c \in Actor, NEW i \in Isbn, lock'[i].token = c PROVE i \in Believes(c)'
  <2>1. CASE c = a
    BY <1>1, <1>2, <1>5, <2>1
  <2>2. CASE c # a
    BY <1>1, <1>3, <1>5, <2>2 DEF LockInv
  <2> QED
    BY <2>1, <2>2
<1> QED
  BY <1>4, <1>5

\* Giving locks back: the rows with the actor's token go, the others stay.
LEMMA ForgetLock ==
    ASSUME TypeInv, NEW a \in Actor, NEW S,
           releaseIsbnLocks(a, S) \/ lock' = Forgotten(lock, a)
    PROVE \A i \in Isbn : /\ lock'[i].token \notin Actor \/ lock'[i] = lock[i]
                          /\ lock[i].token # a => lock'[i] = lock[i]
                          /\ lock'[i].token # a
<1>1. lock \in [Isbn -> LockRow] /\ None \notin Actor /\ Gone \notin Actor
  BY NullAssumption, ActorAssumption DEF TypeInv, TypeOK
<1>2. ASSUME NEW t \in [Isbn -> LockRow], NEW i \in Isbn
      PROVE Forgotten(t, a)[i] = IF t[i].token = a THEN [t[i] EXCEPT !.token = Gone] ELSE t[i]
  BY DEF Forgotten
<1>3. \A r \in LockRow : [r EXCEPT !.token = Gone].token = Gone
  BY DEF LockRow
<1> TAKE i \in Isbn
<1>4. CASE lock' = Forgotten(lock, a)
  <2>1. lock[i] \in LockRow
        /\ lock'[i] = IF lock[i].token = a THEN [lock[i] EXCEPT !.token = Gone] ELSE lock[i]
    BY <1>1, <1>2, <1>4
  <2>2. [lock[i] EXCEPT !.token = Gone].token = Gone
    BY <1>3, <2>1
  <2> QED
    BY <1>1, <2>1, <2>2
<1>5. CASE releaseIsbnLocks(a, S)
  <2> DEFINE rest == [j \in Isbn |-> IF j \in S /\ lock[j].token = a THEN NoLock ELSE lock[j]]
  <2>1. rest \in [Isbn -> LockRow] /\ lock' = Forgotten(rest, a)
    BY <1>1, <1>5, ConstantTypes DEF releaseIsbnLocks
  <2>2. rest[i] = IF i \in S /\ lock[i].token = a THEN NoLock ELSE lock[i]
    OBVIOUS
  <2>3. NoLock.token = None
    BY DEF NoLock
  <2> HIDE DEF rest
  <2>4. rest[i] \in LockRow
        /\ lock'[i] = IF rest[i].token = a THEN [rest[i] EXCEPT !.token = Gone] ELSE rest[i]
    BY <1>2, <2>1
  <2>5. [rest[i] EXCEPT !.token = Gone].token = Gone
    BY <1>3, <2>4
  <2> QED
    BY <1>1, <2>2, <2>3, <2>4, <2>5
<1> QED
  BY <1>4, <1>5

LEMMA SweepLock ==
    ASSUME TypeInv, LockInv, NEW w \in Worker, SweepStep(w) \/ Abort(w) \/ Crash(w)
    PROVE LockInv'
<1>0. /\ work[w] \in Memory /\ work \in [Worker -> Memory] /\ pc \in [Actor -> Steps]
      /\ w \in Actor /\ Importer \notin Worker /\ Worker \subseteq Actor /\ w # Importer
      /\ lock \in [Isbn -> LockRow] /\ work[w].locked \subseteq Isbn
  BY ActorAssumption DEF TypeInv, TypeOK, Actor, Memory
<1>1. CASE Start(w)
  <2>1. CASE UNCHANGED <<pc, age, work>>
    <3>1. \A a : Believes(a)' = Believes(a) /\ LeaseOf(a)' = LeaseOf(a)
      BY <1>1, <2>1 DEF Start, Believes, LeaseOf
    <3> QED
      BY <1>1, <2>1, <3>1 DEF Start, LockInv
  <2>2. CASE Goto(w, "claim") /\ \E S \in SUBSET Book : Remember(w, [work[w] EXCEPT !.picked = S])
    <3>1. PICK S \in SUBSET Book : Remember(w, [work[w] EXCEPT !.picked = S])
      BY <2>2
    <3>2. /\ [work[w] EXCEPT !.picked = S] \in Memory
          /\ [work[w] EXCEPT !.picked = S].locked = work[w].locked
      BY <1>0 DEF Memory
    <3>3. work[w].locked = {}
      BY <1>1 DEF Start, LockInv
    <3> QED
      BY <1>1, <2>2, <3>1, <3>2, <3>3, MoveLock DEF Start
  <2> QED
    BY <1>1, <2>1, <2>2 DEF Start, fairCandidates
\* A sweep that ends without lock rows of its own.
<1>2. ASSUME EndSweep(w), lock' = lock, import' = import, work[w].locked = {} PROVE LockInv'
  <2>1. Stop(w) /\ work' = [work EXCEPT ![w] = NoWork]
    BY <1>2 DEF EndSweep, Remember
  <2>2. work'[w].locked = {} /\ \A v \in Worker \ {w} : work'[v] = work[v]
    BY <1>0, <2>1 DEF NoWork
  <2>3. pc' = [pc EXCEPT ![w] = "idle"]
    BY <2>1 DEF Stop
  <2>4. Believes(w)' = {} /\ \A c \in Actor \ {w} : Believes(c)' = Believes(c)
    BY <1>0, <1>2, <2>2, <2>3 DEF Believes, Actor
  <2>5. \A i \in Isbn : lock[i].token # w
    BY <1>0, <1>2 DEF LockInv, Believes
  <2> QED
    BY <1>0, <1>2, <2>1, <2>2, <2>4, <2>5, EndLock
<1>3. CASE claimJobs(w)
  <2>1. work[w].locked = {} /\ lock' = lock /\ import' = import
    BY <1>3 DEF claimJobs, LockInv
  <2>2. CASE EndSweep(w)
    BY <1>2, <2>1, <2>2
  <2>3. CASE ~EndSweep(w)
    <3>1. PICK claim : Remember(w, [NoWork EXCEPT !.claim = claim]) /\ Goto(w, "lock")
      BY <1>3, <2>3 DEF claimJobs
    <3>2. /\ work' = [work EXCEPT ![w] = [NoWork EXCEPT !.claim = claim]]
          /\ work' \in [Worker -> Memory]
      BY <1>3, <3>1, ClaimJobsType DEF Remember, TypeInv, TypeOK
    <3>3. [NoWork EXCEPT !.claim = claim] \in Memory
      BY <1>0, <3>2
    <3>4. [NoWork EXCEPT !.claim = claim].locked = {}
      BY DEF NoWork
    <3> QED
      BY <2>1, <3>1, <3>3, <3>4, MoveLock
  <2> QED
    BY <2>2, <2>3
<1>4. CASE LockIsbns(w)
  <2> DEFINE S == {i \in Isbn : i \in IsbnsOf(w) /\ lock'[i].token = w}
             memory == [work[w] EXCEPT !.locked = S]
  <2>1. /\ pc' = [pc EXCEPT ![w] = "defer"] /\ age' = age /\ import' = import
        /\ work' = [work EXCEPT ![w] = memory]
        /\ acquireIsbnLocks(IsbnsOf(w), w, LeaseOf(w), Now(w))
        /\ work[w].locked = {}
    BY <1>0, <1>4 DEF LockIsbns, Goto, Remember, LeaseOf, LockInv
  <2>2. memory.locked = S
    BY <1>0 DEF Memory
  <2> HIDE DEF memory
  <2>3. Believes(w) = {} /\ Believes(w)' = S
    BY <1>0, <2>1, <2>2 DEF Believes
  <2>4. \A c \in Actor \ {w} : Believes(c)' = Believes(c)
    BY <1>0, <2>1 DEF Believes, Actor
  <2>5. \A v \in Worker : pc'[v] \in {"idle", "claim", "lock"} => work'[v].locked = {}
    BY <1>0, <2>1 DEF LockInv
  <2>6. pc'[Importer] = pc[Importer] /\ \A c : LeaseOf(c)' = LeaseOf(c)
    BY <1>0, <2>1 DEF LeaseOf
  <2> HIDE DEF S
  <2> QED
    BY <1>0, <2>1, <2>3, <2>4, <2>5, <2>6, AcquireLock DEF LockInv, S
<1>5. ASSUME NEW b \in Book, JobDone(w, b), lock' = lock, import' = import PROVE LockInv'
  <2>1. PICK memory \in Memory, step \in {"check", "process"} :
          Remember(w, memory) /\ Goto(w, step) /\ memory.locked = work[w].locked
    BY <1>5, JobDoneMove
  <2> QED
    BY <1>5, <2>1, MoveLock
<1>6. CASE DeferUnlocked(w)
  <2>1. PICK b \in Book : Remember(w, [work[w] EXCEPT !.claim[b] = NoClaim])
    BY <1>6 DEF DeferUnlocked, Todo
  <2>2. [work[w].claim EXCEPT ![b] = NoClaim] \in [Book -> [isbn : IsbnOrNull, attempts : Nat]]
    BY <1>0, ForgetClaimType
  <2>3. /\ [work[w] EXCEPT !.claim[b] = NoClaim] \in Memory
        /\ [work[w] EXCEPT !.claim[b] = NoClaim].locked = work[w].locked
    BY <1>0, <2>2 DEF Memory
  <2> QED
    BY <1>6, <2>1, <2>3, MoveLock DEF DeferUnlocked
<1>7. CASE NothingLocked(w)
  BY <1>2, <1>7 DEF NothingLocked, rows
<1>8. ASSUME NEW found \in
               [Isbn -> {"none", "error", "missing", "plain", "bare", "stored", "fresh"}],
             NEW step \in {"download", "process"}, lock' = lock, import' = import,
             Remember(w, [work[w] EXCEPT !.found = found]), Goto(w, step) PROVE LockInv'
  <2>1. /\ [work[w] EXCEPT !.found = found] \in Memory
        /\ [work[w] EXCEPT !.found = found].locked = work[w].locked
    BY <1>0 DEF Memory
  <2> QED
    BY <1>8, <2>1, MoveLock
<1>9. CASE Lookup(w)
  <2>1. PICK f \in [work[w].locked -> {"missing", "plain", "bare", "stored"}]
                \cup {[i \in work[w].locked |-> "error"]} :
          /\ Remember(w, [work[w] EXCEPT !.found =
                [i \in Isbn |-> IF i \in work[w].locked THEN f[i] ELSE "none"]])
          /\ \E step \in {"download", "process"} : Goto(w, step)
    BY <1>9 DEF Lookup
  <2>2. [i \in Isbn |-> IF i \in work[w].locked THEN f[i] ELSE "none"]
          \in [Isbn -> {"none", "error", "missing", "plain", "bare", "stored", "fresh"}]
    OBVIOUS
  <2> QED
    BY <1>8, <1>9, <2>1, <2>2 DEF Lookup, rows
<1>10. CASE Download(w)
  <2>1. PICK S \in SUBSET Isbn :
          Remember(w, [work[w] EXCEPT !.found =
                [i \in Isbn |-> IF i \in S THEN "fresh" ELSE work[w].found[i]]])
    BY <1>10 DEF Download
  <2>2. [i \in Isbn |-> IF i \in S THEN "fresh" ELSE work[w].found[i]]
          \in [Isbn -> {"none", "error", "missing", "plain", "bare", "stored", "fresh"}]
    BY <1>0 DEF Memory
  <2> QED
    BY <1>8, <1>10, <2>1, <2>2 DEF Download
<1>11. CASE RetryAfterLookup(w) \/ CompleteNotFound(w)
  BY <1>5, <1>11 DEF RetryAfterLookup, CompleteNotFound, Todo
<1>12. CASE applyMetadata(w)
  <2>1. PICK b \in Book, i \in IsbnOrNull :
          \/ Remember(w, [work[w] EXCEPT !.at = i, !.cur = b, !.applied = TRUE])
             /\ Goto(w, "finish")
          \/ Remember(w, [work[w] EXCEPT !.at = i, !.cur = b]) /\ Goto(w, "cancel")
    <3>1. PICK b \in Todo(w) :
          \/ Remember(w, [work[w] EXCEPT !.at = work[w].claim[b].isbn, !.cur = b,
                                         !.applied = TRUE]) /\ Goto(w, "finish")
          \/ Remember(w, [work[w] EXCEPT !.at = work[w].claim[b].isbn, !.cur = b])
             /\ Goto(w, "cancel")
      BY <1>12 DEF applyMetadata
    <3>2. b \in Book /\ work[w].claim[b].isbn \in IsbnOrNull
      BY <1>0 DEF Todo, Memory
    <3> QED
      BY <3>1, <3>2
  <2>2. /\ [work[w] EXCEPT !.at = i, !.cur = b, !.applied = TRUE] \in Memory
        /\ [work[w] EXCEPT !.at = i, !.cur = b, !.applied = TRUE].locked = work[w].locked
        /\ [work[w] EXCEPT !.at = i, !.cur = b] \in Memory
        /\ [work[w] EXCEPT !.at = i, !.cur = b].locked = work[w].locked
    BY <1>0 DEF Memory
  <2> QED
    BY <1>12, <2>1, <2>2, MoveLock DEF applyMetadata
<1>13. CASE CancelUnapplied(w) \/ FinishJob(w)
  <2>1. work[w].cur \in Book
    BY <1>13 DEF CancelUnapplied, FinishJob, TypeInv, CursorOK
  <2> QED
    BY <1>5, <1>13, <2>1 DEF CancelUnapplied, FinishJob
<1>14. ASSUME CheckCover(w) \/ DeleteCover(w) PROVE LockInv'
  <2>1. /\ [work[w] EXCEPT !.at = None] \in Memory
        /\ [work[w] EXCEPT !.at = None].locked = work[w].locked
    BY <1>0 DEF Memory, IsbnOrNull
  <2>2. work' = work => Remember(w, work[w])
    BY <1>0 DEF Remember
  <2>3. PICK memory \in Memory, step \in {"process", "delete"} :
          Remember(w, memory) /\ Goto(w, step) /\ memory.locked = work[w].locked
    BY <1>0, <1>14, <2>1, <2>2 DEF CheckCover, DeleteCover
  <2> QED
    BY <1>14, <2>3, MoveLock DEF CheckCover, DeleteCover, rows
<1>15. CASE Abort(w)
  <2>1. /\ [NoWork EXCEPT !.locked = work[w].locked] \in Memory
        /\ [NoWork EXCEPT !.locked = work[w].locked].locked = work[w].locked
    BY <1>0, ConstantTypes DEF Memory
  <2> QED
    BY <1>15, <2>1, MoveLock DEF Abort, rows
\* The locks are given back, or lost with the run that held them.
<1>16. CASE ReleaseLocks(w) \/ Crash(w)
  <2>1. EndSweep(w) /\ import' = import
    BY <1>16 DEF ReleaseLocks, Crash
  <2>2. Stop(w) /\ work' = [work EXCEPT ![w] = NoWork]
    BY <2>1 DEF EndSweep, Remember
  <2>3. work'[w].locked = {} /\ \A v \in Worker \ {w} : work'[v] = work[v]
    BY <1>0, <2>2 DEF NoWork
  <2>4. pc' = [pc EXCEPT ![w] = "idle"]
    BY <2>2 DEF Stop
  <2>5. Believes(w)' = {} /\ \A c \in Actor \ {w} : Believes(c)' = Believes(c)
    BY <1>0, <2>1, <2>3, <2>4 DEF Believes, Actor
  <2>6. \A i \in Isbn : /\ lock'[i].token \notin Actor \/ lock'[i] = lock[i]
                        /\ lock[i].token # w => lock'[i] = lock[i]
                        /\ lock'[i].token # w
    BY <1>0, <1>16, ForgetLock DEF ReleaseLocks, Crash
  <2> QED
    BY <1>0, <2>1, <2>2, <2>3, <2>5, <2>6, EndLock
<1> QED
  BY <1>1, <1>3, <1>4, <1>6, <1>7, <1>9, <1>10, <1>11, <1>12, <1>13, <1>14, <1>15, <1>16
     DEF SweepStep

LEMMA InitLock == Init => LockInv
<1> SUFFICES ASSUME Init PROVE LockInv
  OBVIOUS
<1>1. \A a \in Actor : Believes(a) = {}
  BY ActorAssumption DEF Init, Believes, Actor, NoWork
<1>2. \A i \in Isbn : lock[i].token = None
  BY DEF Init, NoLock
<1>3. \A w \in Worker : work[w].locked = {}
  BY DEF Init, NoWork
<1>4. pc[Importer] = "idle"
  BY DEF Init, Actor
<1> QED
  BY <1>1, <1>2, <1>3, <1>4, NullAssumption DEF LockInv

\* A step of the import that touches neither the lock rows nor its own lock.
LEMMA ImportMoveLock ==
    ASSUME TypeInv, LockInv, NEW step, Goto(Importer, step), lock' = lock, work' = work,
           Believes(Importer)' = Believes(Importer),
           step \in {"lock", "check", "delete", "release"} => import'.orphan \in Isbn
    PROVE LockInv'
<1>1. /\ pc \in [Actor -> Steps] /\ Importer \in Actor /\ Importer \notin Worker
      /\ Worker \subseteq Actor
  BY ActorAssumption DEF TypeInv, TypeOK, Actor
<1>2. pc' = [pc EXCEPT ![Importer] = step] /\ age' = age
  BY DEF Goto
<1>3. \A a \in Actor : Believes(a)' = Believes(a) /\ LeaseOf(a)' = LeaseOf(a)
  BY <1>1, <1>2 DEF Believes, Actor, LeaseOf
<1>4. \A w \in Worker : pc'[w] = pc[w]
  BY <1>1, <1>2
<1> QED
  BY <1>1, <1>2, <1>3, <1>4 DEF LockInv

LEMMA ImportLock ==
    ASSUME TypeInv, LockInv, ReadExisting \/ ImportStep \/ ImportCrash PROVE LockInv'
<1>0. /\ pc \in [Actor -> Steps] /\ Importer \in Actor /\ Importer \notin Worker
      /\ Worker \subseteq Actor /\ import \in Record
  BY ActorAssumption DEF TypeInv, TypeOK, Actor
<1>1. CASE ReadExisting
  <2>1. Goto(Importer, "write") /\ lock' = lock /\ work' = work /\ pc[Importer] = "idle"
    BY <1>1 DEF ReadExisting, rows
  <2>2. Believes(Importer)' = Believes(Importer)
    BY <1>0, <2>1 DEF Believes, Goto
  <2> QED
    BY <2>1, <2>2, ImportMoveLock
<1>2. CASE WriteRecord
  <2>1. /\ Goto(Importer, IF import.orphan = None THEN "idle" ELSE "lock")
        /\ lock' = lock /\ work' = work /\ pc[Importer] = "write"
        /\ import'.orphan = import.orphan
    BY <1>2, ConstantTypes DEF WriteRecord, Record
  <2>2. Believes(Importer)' = Believes(Importer)
    BY <1>0, <2>1 DEF Believes, Goto
  <2>3. import.orphan # None => import.orphan \in Isbn
    BY <1>0 DEF Record, IsbnOrNull
  <2> QED
    BY <2>1, <2>2, <2>3, ImportMoveLock
<1>3. CASE CheckOrphan \/ DeleteOrphan
  <2>1. PICK step \in {"delete", "release"} : Goto(Importer, step)
    BY <1>3 DEF CheckOrphan, DeleteOrphan
  <2>2. lock' = lock /\ work' = work /\ import' = import /\ pc[Importer] \in {"check", "delete"}
    BY <1>3 DEF CheckOrphan, DeleteOrphan, rows
  <2>3. Believes(Importer)' = Believes(Importer)
    BY <1>0, <2>1, <2>2 DEF Believes, Goto
  <2>4. import.orphan \in Isbn
    BY <2>2 DEF LockInv
  <2> QED
    BY <2>1, <2>2, <2>3, <2>4, ImportMoveLock
<1>4. ASSUME EndImport, work' = work,
             \A i \in Isbn : /\ lock'[i].token \notin Actor \/ lock'[i] = lock[i]
                             /\ lock[i].token # Importer => lock'[i] = lock[i]
                             /\ lock'[i].token # Importer
      PROVE LockInv'
  <2>1. Stop(Importer) /\ pc' = [pc EXCEPT ![Importer] = "idle"]
    BY <1>4 DEF EndImport, Stop
  <2>2. Believes(Importer)' = {} /\ \A c \in Actor \ {Importer} : Believes(c)' = Believes(c)
    BY <1>0, <1>4, <2>1 DEF Believes
  <2> QED
    BY <1>0, <1>4, <2>1, <2>2, EndLock
<1>5. CASE UnlockOrphan \/ ImportCrash
  <2>1. EndImport /\ work' = work
    BY <1>5 DEF UnlockOrphan, ImportCrash
  <2>2. \A i \in Isbn : /\ lock'[i].token \notin Actor \/ lock'[i] = lock[i]
                        /\ lock[i].token # Importer => lock'[i] = lock[i]
                        /\ lock'[i].token # Importer
    BY <1>0, <1>5, ForgetLock DEF UnlockOrphan, ImportCrash
  <2> QED
    BY <1>4, <2>1, <2>2
<1>6. CASE LockOrphan
  <2> DEFINE o == import.orphan
  <2>1. /\ o \in Isbn /\ Believes(Importer) = {} /\ work' = work
        /\ acquireIsbnLocks({o}, Importer, LeaseOf(Importer), Now(Importer))
    BY <1>6 DEF LockOrphan, LockInv, Believes, LeaseOf
  <2>2. \A i \in Isbn : lock[i].token # Importer
    BY <1>0, <2>1 DEF LockInv
  <2>3. CASE ~LockFree(o, Now(Importer))
    <3>1. lock \in [Isbn -> LockRow]
      BY DEF TypeInv, TypeOK
    <3>2. \A i \in Isbn : lock'[i] = lock[i]
      BY <2>1, <2>3 DEF acquireIsbnLocks
    <3>3. EndImport
      BY <1>6, <2>3 DEF LockOrphan
    <3> QED
      BY <1>4, <2>1, <2>2, <3>2, <3>3
  <2>4. CASE LockFree(o, Now(Importer))
    <3>1. /\ pc' = [pc EXCEPT ![Importer] = "check"] /\ age' = age /\ import' = import
      BY <1>6, <2>4 DEF LockOrphan, Goto
    <3>2. lock'[o].token = Importer
      BY <2>1, <2>4 DEF acquireIsbnLocks
    <3>3. Believes(Importer)' = {i \in Isbn : i \in {o} /\ lock'[i].token = Importer}
      BY <1>0, <2>1, <3>1, <3>2 DEF Believes
    <3>4. \A c \in Actor \ {Importer} : Believes(c)' = Believes(c)
      BY <2>1 DEF Believes
    <3>5. \A w \in Worker : pc'[w] = pc[w]
      BY <1>0, <3>1
    <3>6. \A c : LeaseOf(c)' = LeaseOf(c)
      BY DEF LeaseOf
    <3> HIDE DEF o
    <3>7. /\ \A c \in Actor : \A i \in Believes(c)' :
                age'[c] < LeaseOf(c) => /\ lock'[i].token = c
                                        /\ lock'[i].lease = LeaseOf(c) - age'[c]
          /\ \A c \in Actor : \A i \in Isbn : lock'[i].token = c => i \in Believes(c)'
      BY <1>0, <2>1, <3>1, <3>3, <3>4, AcquireLock
    <3>8. import'.orphan \in Isbn
      BY <2>1, <3>1 DEF o
    <3> QED
      BY <2>1, <3>5, <3>6, <3>7, <3>8 DEF LockInv
  <2> QED
    BY <2>3, <2>4
<1> QED
  BY <1>1, <1>2, <1>3, <1>5, <1>6 DEF ImportStep

LEMMA TickLock == ASSUME TypeInv, LockInv, Tick PROVE LockInv'
<1>1. /\ age' = [a \in Actor |-> IF Timed(a) THEN age[a] + 1 ELSE age[a]]
      /\ lock' = [i \in Isbn |-> [lock[i] EXCEPT !.lease = Earlier(lock[i].lease)]]
      /\ UNCHANGED <<pc, work, import>>
  BY DEF Tick
<1>2. \A a \in Actor : Believes(a)' = Believes(a) /\ LeaseOf(a)' = LeaseOf(a)
  BY <1>1 DEF Believes, LeaseOf
<1>3. ASSUME NEW i \in Isbn
      PROVE lock'[i].token = lock[i].token /\ lock'[i].lease = Earlier(lock[i].lease)
  <2>1. lock[i] \in LockRow
    BY DEF TypeInv, TypeOK
  <2>2. lock'[i] = [lock[i] EXCEPT !.lease = Earlier(lock[i].lease)]
    BY <1>1
  <2> HIDE DEF Earlier
  <2> QED
    BY <2>1, <2>2 DEF LockRow
\* Whoever counts on a lock has its clock running.
<1>4. \A a \in Actor : Believes(a) # {} => Timed(a)
  BY DEF Believes, Timed, LockInv, Actor
<1>5. ASSUME NEW a \in Actor, NEW i \in Believes(a), age'[a] < LeaseOf(a)
      PROVE lock'[i].token = a /\ lock'[i].lease = LeaseOf(a) - age'[a]
  <2>1. age'[a] = age[a] + 1
    BY <1>1, <1>4, <1>5
  <2>2. age[a] \in Nat /\ LeaseOf(a) \in Int /\ i \in Isbn /\ MaxAge \in Nat
    BY ConstantTypes, BelievesType, TimeAssumption DEF TypeInv, TypeOK, LeaseOf
  <2>3. lock[i].token = a /\ lock[i].lease = LeaseOf(a) - age[a]
    BY <1>5, <2>1, <2>2 DEF LockInv
  <2>4. Earlier(lock[i].lease) = LeaseOf(a) - age[a] - 1
    BY <1>5, <2>1, <2>2, <2>3 DEF Earlier, Past
  <2> QED
    BY <1>3, <2>1, <2>2, <2>3, <2>4
<1>6. \A a \in Actor : \A i \in Isbn : lock'[i].token = a => i \in Believes(a)'
  BY <1>2, <1>3 DEF LockInv
<1>7. \A a \in Actor : \A i \in Believes(a)' :
        age'[a] < LeaseOf(a)' => /\ lock'[i].token = a
                                 /\ lock'[i].lease = LeaseOf(a)' - age'[a]
  BY <1>2, <1>5
<1> QED
  BY <1>1, <1>6, <1>7 DEF LockInv

LEMMA NextLock == TypeInv /\ LockInv /\ [Next]_vars => LockInv'
<1> SUFFICES ASSUME TypeInv, LockInv, [Next]_vars PROVE LockInv'
  OBVIOUS
<1>1. ASSUME NEW w \in Worker, SweepStep(w) \/ Abort(w) \/ Crash(w) PROVE LockInv'
  BY <1>1, SweepLock
<1>2. ASSUME UNCHANGED <<lock, pc, age, work, import>> PROVE LockInv'
  <2>1. \A a : Believes(a)' = Believes(a) /\ LeaseOf(a)' = LeaseOf(a)
    BY <1>2 DEF Believes, LeaseOf
  <2> QED
    BY <1>2, <2>1 DEF LockInv
<1>3. ASSUME NEW b \in Book, RemoveBook(b) PROVE LockInv'
  BY <1>2, <1>3 DEF RemoveBook
<1>4. CASE UNCHANGED vars
  BY <1>2, <1>4 DEF vars
<1> QED
  BY <1>1, <1>3, <1>4, ImportLock, TickLock DEF Next

\* Whatever the leases, bounds and numbers of sweeps, books and ISBNs: two
\* actors that work on one ISBN at the same time have not both kept within
\* their leases.
THEOREM LocksExclude == Spec => []LockExclusion
<1>1. Spec => [](TypeInv /\ LockInv)
  BY InitType, NextType, InitLock, NextLock, PTL DEF Spec
<1>2. TypeInv /\ LockInv => LockExclusion
  BY LockInvExcludes
<1> QED
  BY <1>1, <1>2, PTL

-----------------------------------------------------------------------------
(***************************************************************************)
(* What import enrichment does to the jobs and covers: claims that last    *)
(* are respected, finished jobs stay, outcomes are true, attempts are      *)
(* spent on failures only, and no book is left with a deleted cover.       *)
(***************************************************************************)

\* What a sweep has in memory about its jobs agrees with the rows it claimed:
\* it forgets a job only when it gives the row back, or when an error takes it
\* to the release of its locks.
JobsInHand(w) ==
    /\ \A b \in Todo(w) : work[w].claim[b].isbn \in Isbn
    /\ pc[w] \in {"idle", "claim", "release"} => Todo(w) = {}
    /\ pc[w] \in {"cancel", "finish"} => work[w].cur \in Todo(w)
    /\ \A b \in Book : OwnsClaim(w, b) =>
          IF b \in Todo(w) THEN job[b].attempts = work[w].claim[b].attempts
                           ELSE pc[w] = "release"

\* A queued job has an ISBN.
JobInv ==
    /\ \A w \in Worker : JobsInHand(w)
    /\ \A b \in Book : job[b].status # "none" => job[b].isbn \in Isbn
    /\ import.enqueue => import.isbn \in Isbn

\* Between the metadata and the end of its job a book keeps what it was given,
\* or the claim is gone.
AppliedStays ==
    \A w \in Worker :
        pc[w] = "finish" /\ OwnsClaim(w, work[w].cur) =>
            /\ book[work[w].cur].provider # None
            /\ HasCover(w, work[w].cur) => book[work[w].cur].cover # None

AgesAreBounded == \A a \in Actor : age[a] <= MaxAge

\* An attempt that is over without an outcome was ended by a failure.
Spent(b) == job[b].attempts < MaxAttempts + failures
AttemptsOK(b) ==
    /\ \A w \in Worker : OwnsClaim(w, b) =>
          /\ job[b].lease = Lease - age[w]
          /\ pc[w] = "release" => Spent(b)
    /\ job[b].status \in {"pending", "retrying"} => Spent(b)
    /\ job[b].status = "processing" /\ job[b].token \notin Worker => Spent(b)
    /\ job[b].attempts <= MaxAttempts + failures
AttemptsInv == AgesAreBounded /\ \A b \in Book : AttemptsOK(b)

\* Covers: what a sweep has found is locked and stored; what it is about to
\* delete is locked and nobody's.
Found(w, i) == work[w].found[i] \in {"stored", "fresh"}
CoversInHand(w) ==
    /\ \A i \in Isbn : /\ work[w].found[i] # "none" => i \in work[w].locked
                       /\ Found(w, i) => i \in blobs
    /\ pc[w] \in {"check", "delete"} =>
          work[w].at \in work[w].locked /\ work[w].found[work[w].at] = "none"
    /\ pc[w] = "delete" => ~isCoverReferenced(work[w].at)
CoversInv ==
    /\ AgesAreBounded
    /\ \A w \in Worker : CoversInHand(w)
    /\ pc[Importer] = "delete" => ~isCoverReferenced(import.orphan)
    /\ NoDanglingCover

-----------------------------------------------------------------------------
(******************** what a step does to its sweep ************************)

\* The others stay as they are.
Frame(w) ==
    /\ \A v \in Worker \ {w} : pc'[v] = pc[v] /\ work'[v] = work[v] /\ age'[v] = age[v]
    /\ pc'[Importer] = pc[Importer] /\ age'[Importer] = age[Importer]
    /\ import' = import

\* A sweep goes on at a step, with a memory, or ends.
GoesTo(w, step) == Frame(w) /\ pc'[w] = step /\ age'[w] = age[w]
Ends(w) == Frame(w) /\ pc'[w] = "idle" /\ age'[w] = 0 /\ work'[w] = NoWork

SameClaims(w) == work'[w].claim = work[w].claim
SameFound(w) == work'[w].found = work[w].found /\ work'[w].locked = work[w].locked

LEMMA Going ==
    ASSUME TypeInv, NEW w \in Worker, NEW step, NEW memory, Goto(w, step), Remember(w, memory),
           import' = import
    PROVE  GoesTo(w, step) /\ work'[w] = memory
BY ActorAssumption DEF TypeInv, TypeOK, Goto, Remember, GoesTo, Frame, Actor

LEMMA Ending ==
    ASSUME TypeInv, NEW w \in Worker, EndSweep(w), import' = import
    PROVE  Ends(w)
BY ActorAssumption DEF TypeInv, TypeOK, EndSweep, Stop, Remember, Ends, Frame, Actor

LEMMA EmptyMemory ==
    /\ NoWork.claim = [b \in Book |-> NoClaim] /\ NoWork.locked = {}
    /\ NoWork.found = [i \in Isbn |-> "none"]
BY DEF NoWork

\* What is left after a sweep has begun, or found nothing to claim.
LEMMA StartDoes ==
    ASSUME TypeInv, NEW w \in Worker, Start(w)
    PROVE  /\ pc[w] = "idle" /\ job' = cancelIneligibleJobs
           /\ UNCHANGED <<book, blobs, failures, import>>
           /\ \/ UNCHANGED <<pc, age, work>>
              \/ GoesTo(w, "claim") /\ SameClaims(w) /\ SameFound(w)
<1>1. work[w] \in Memory
  BY DEF TypeInv, TypeOK
<1>2. \A S : LET m == [work[w] EXCEPT !.picked = S]
             IN  m.claim = work[w].claim /\ m.found = work[w].found /\ m.locked = work[w].locked
  BY <1>1 DEF Memory
<1>3. import' = import
  BY DEF Start
<1>4. UNCHANGED <<pc, age, work>> \/ \E S : Goto(w, "claim") /\ Remember(w, [work[w] EXCEPT !.picked = S])
  BY DEF Start
<1> QED
  BY <1>2, <1>3, <1>4, Going DEF Start, counters, SameClaims, SameFound

LEMMA claimJobsDoes ==
    ASSUME TypeInv, NEW w \in Worker, claimJobs(w)
    PROVE  /\ pc[w] = "claim" /\ UNCHANGED <<book, blobs, failures, import>>
           /\ \/ Ends(w) /\ job' = job
              \/ /\ GoesTo(w, "lock")
                 /\ \A b \in Book :
                      \/ /\ Claimable(b, Now(w)) /\ job'[b] = Claimed(w, job[b])
                         /\ work'[w].claim[b] = [isbn |-> job[b].isbn, attempts |-> job[b].attempts + 1]
                      \/ job'[b] = job[b] /\ work'[w].claim[b] = NoClaim
                 /\ work'[w].locked = {} /\ \A i \in Isbn : work'[w].found[i] = "none"
<1> DEFINE C == {b \in work[w].picked : Claimable(b, Now(w))}
           claim == [b \in Book |->
                 IF b \in C THEN [isbn |-> job[b].isbn, attempts |-> job[b].attempts + 1]
                 ELSE NoClaim]
<1>1. pc[w] = "claim" /\ UNCHANGED <<book, blobs, failures, import>>
  BY DEF claimJobs, counters
<1>2. CASE C = {}
  BY <1>1, <1>2, Ending DEF claimJobs
<1>3. CASE C # {}
  <2>1. /\ job' = [b \in Book |-> IF b \in C THEN Claimed(w, job[b]) ELSE job[b]]
        /\ Remember(w, [NoWork EXCEPT !.claim = claim]) /\ Goto(w, "lock")
    BY <1>3 DEF claimJobs
  <2>2. \A b \in Book : b \in C => Claimable(b, Now(w))
    OBVIOUS
  <2>3. \A b \in Book : claim[b] = IF b \in C
              THEN [isbn |-> job[b].isbn, attempts |-> job[b].attempts + 1] ELSE NoClaim
    OBVIOUS
  <2> HIDE DEF claim, C
  <2>4. /\ [NoWork EXCEPT !.claim = claim].claim = claim
        /\ [NoWork EXCEPT !.claim = claim].locked = {}
        /\ [NoWork EXCEPT !.claim = claim].found = [i \in Isbn |-> "none"]
    BY DEF NoWork
  <2>5. GoesTo(w, "lock") /\ work'[w] = [NoWork EXCEPT !.claim = claim]
    BY <1>1, <2>1, Going
  <2> QED
    BY <1>1, <2>1, <2>2, <2>3, <2>4, <2>5
<1> QED
  BY <1>2, <1>3

LEMMA LockIsbnsDoes ==
    ASSUME TypeInv, NEW w \in Worker, LockIsbns(w)
    PROVE  /\ pc[w] = "lock" /\ UNCHANGED <<book, job, blobs, failures, import>>
           /\ GoesTo(w, "defer") /\ SameClaims(w) /\ work'[w].found = work[w].found
<1>1. \A S : LET m == [work[w] EXCEPT !.locked = S]
             IN  m.claim = work[w].claim /\ m.found = work[w].found
  BY DEF TypeInv, TypeOK, Memory
<1>2. PICK S : Goto(w, "defer") /\ Remember(w, [work[w] EXCEPT !.locked = S])
  BY DEF LockIsbns
<1>3. pc[w] = "lock" /\ UNCHANGED <<book, job, blobs, failures, import>>
  BY DEF LockIsbns, counters
<1> QED
  BY <1>1, <1>2, <1>3, Going DEF SameClaims

LEMMA DeferUnlockedDoes ==
    ASSUME TypeInv, NEW w \in Worker, DeferUnlocked(w)
    PROVE  /\ pc[w] = "defer" /\ UNCHANGED <<book, blobs, failures, import>>
           /\ GoesTo(w, "defer") /\ SameFound(w)
           /\ \E b \in Todo(w) :
                 deferClaim(w, b) /\ work'[w].claim = [work[w].claim EXCEPT ![b] = NoClaim]
<1>1. PICK b \in Todo(w) : /\ deferClaim(w, b)
                           /\ Remember(w, [work[w] EXCEPT !.claim[b] = NoClaim])
  BY DEF DeferUnlocked
<1> DEFINE m == [work[w] EXCEPT !.claim[b] = NoClaim]
<1>2. /\ m.claim = [work[w].claim EXCEPT ![b] = NoClaim]
      /\ m.found = work[w].found /\ m.locked = work[w].locked
  BY DEF TypeInv, TypeOK, Memory
<1>3. Goto(w, "defer") /\ Remember(w, m)
  BY <1>1 DEF DeferUnlocked
<1>4. pc[w] = "defer" /\ UNCHANGED <<book, blobs, failures, import>>
  BY DEF DeferUnlocked, counters
<1> HIDE DEF m
<1> QED
  BY <1>1, <1>2, <1>3, <1>4, Going DEF SameFound

LEMMA LookupDoes ==
    ASSUME TypeInv, NEW w \in Worker, Lookup(w)
    PROVE  /\ pc[w] = "defer" /\ UNCHANGED <<rows, failures, import>>
           /\ GoesTo(w, "download") \/ GoesTo(w, "process")
           /\ SameClaims(w) /\ work'[w].locked = work[w].locked
           /\ \A i \in Isbn : /\ work'[w].found[i] # "none" => i \in work[w].locked
                              /\ Found(w, i)' => i \in blobs
<1>1. PICK f \in [work[w].locked -> {"missing", "plain", "bare", "stored"}]
              \cup {[i \in work[w].locked |-> "error"]} :
        /\ \A i \in work[w].locked : f[i] = "stored" => i \in blobs
        /\ Remember(w, [work[w] EXCEPT !.found =
              [i \in Isbn |-> IF i \in work[w].locked THEN f[i] ELSE "none"]])
        /\ Goto(w, "download") \/ Goto(w, "process")
  BY DEF Lookup
<1> DEFINE found == [i \in Isbn |-> IF i \in work[w].locked THEN f[i] ELSE "none"]
           m == [work[w] EXCEPT !.found = found]
<1>2. m.claim = work[w].claim /\ m.locked = work[w].locked /\ m.found = found
  BY DEF TypeInv, TypeOK, Memory
<1>3. \A i \in Isbn : /\ found[i] # "none" => i \in work[w].locked
                      /\ found[i] \in {"stored", "fresh"} => i \in blobs
  BY <1>1
<1>4. Remember(w, m) /\ UNCHANGED <<rows, failures, import>> /\ pc[w] = "defer"
  BY <1>1 DEF Lookup, counters
<1> HIDE DEF m, found
<1>5. (GoesTo(w, "download") \/ GoesTo(w, "process")) /\ work'[w] = m
  BY <1>1, <1>4, Going
<1> QED
  BY <1>2, <1>3, <1>4, <1>5 DEF SameClaims, Found, rows

LEMMA DownloadDoes ==
    ASSUME TypeInv, NEW w \in Worker, Download(w)
    PROVE  /\ pc[w] = "download" /\ UNCHANGED <<book, job, failures, import>>
           /\ GoesTo(w, "process") /\ SameClaims(w) /\ work'[w].locked = work[w].locked
           /\ blobs \subseteq blobs'
           /\ \A i \in Isbn : \/ work'[w].found[i] = work[w].found[i]
                              \/ work[w].found[i] = "bare" /\ i \in blobs'
<1>1. PICK S \in SUBSET {i \in Isbn : work[w].found[i] = "bare"} :
        /\ blobs' = blobs \cup S
        /\ Remember(w, [work[w] EXCEPT !.found =
              [i \in Isbn |-> IF i \in S THEN "fresh" ELSE work[w].found[i]]])
  BY DEF Download
<1> DEFINE found == [i \in Isbn |-> IF i \in S THEN "fresh" ELSE work[w].found[i]]
           m == [work[w] EXCEPT !.found = found]
<1>2. m.claim = work[w].claim /\ m.locked = work[w].locked /\ m.found = found
  BY DEF TypeInv, TypeOK, Memory
<1>3. \A i \in Isbn : \/ found[i] = work[w].found[i]
                      \/ work[w].found[i] = "bare" /\ i \in blobs'
  BY <1>1
<1>4. /\ Remember(w, m) /\ Goto(w, "process")
      /\ UNCHANGED <<book, job, failures, import>> /\ pc[w] = "download"
  BY <1>1 DEF Download, counters
<1> HIDE DEF m, found
<1>5. GoesTo(w, "process") /\ work'[w] = m
  BY <1>1, <1>4, Going
<1> QED
  BY <1>1, <1>2, <1>3, <1>4, <1>5 DEF SameClaims

\* A job is done with: it is forgotten, its ISBN's result may be too, and an
\* unused fresh cover is checked.
Forgets(w, b) ==
    /\ work'[w].claim = [work[w].claim EXCEPT ![b] = NoClaim]
    /\ work'[w].locked = work[w].locked
    /\ \A i \in Isbn : work'[w].found[i] \in {"none", work[w].found[i]}
    /\ \/ GoesTo(w, "process")
       \/ /\ GoesTo(w, "check")
          /\ work'[w].at \in Isbn /\ work'[w].found[work'[w].at] = "none"
          /\ work[w].found[work'[w].at] = "fresh"

LEMMA JobDoneDoes ==
    ASSUME TypeInv, NEW w \in Worker, NEW b \in Book, work[w].claim[b].isbn \in Isbn,
           JobDone(w, b), import' = import
    PROVE  Forgets(w, b)
<1> DEFINE m == work[w]
           i == m.claim[b].isbn
           last == \A c \in Todo(w) : m.claim[c].isbn = i => c = b
           unused == last /\ ~m.applied /\ FoundFor(w, b) = "fresh"
           at == IF last /\ ~unused THEN None ELSE i
           found == [m.found EXCEPT ![i] = IF last THEN "none" ELSE m.found[i]]
           memory == [m EXCEPT
              !.claim = [m.claim EXCEPT ![b] = NoClaim],
              !.cur = None, !.at = at,
              !.applied = m.applied /\ ~last,
              !.found = found]
           step == IF unused THEN "check" ELSE "process"
<1>1. m \in Memory /\ i \in Isbn
  BY DEF TypeInv, TypeOK
<1>2. Remember(w, memory) /\ Goto(w, step)
  BY DEF JobDone
<1>3. /\ memory.claim = [m.claim EXCEPT ![b] = NoClaim] /\ memory.locked = m.locked
      /\ memory.at = at /\ memory.found = found
  BY <1>1 DEF Memory
<1>4. /\ \A j \in Isbn : found[j] \in {"none", m.found[j]}
      /\ unused => at = i /\ found[at] = "none" /\ m.found[at] = "fresh"
  BY <1>1 DEF Memory, FoundFor
<1>5. step = IF unused THEN "check" ELSE "process"
  OBVIOUS
<1> HIDE DEF m, i, last, unused, at, found, memory, step
<1>6. GoesTo(w, step) /\ work'[w] = memory
  BY <1>2, Going
<1> QED
  BY <1>1, <1>3, <1>4, <1>5, <1>6 DEF Forgets, m

LEMMA applyMetadataDoes ==
    ASSUME TypeInv, NEW w \in Worker, applyMetadata(w)
    PROVE  /\ pc[w] = "process" /\ UNCHANGED <<job, blobs, failures, import>>
           /\ SameClaims(w) /\ SameFound(w)
           /\ \E b \in Todo(w) :
                /\ work'[w].cur = b
                /\ \/ /\ GoesTo(w, "finish")
                      /\ Applicable(w, b)
                      /\ book' = [book EXCEPT ![b] =
                            Enriched(book[b], work[w].claim[b].isbn,
                                     IF HasCover(w, b) THEN work[w].claim[b].isbn ELSE None)]
                   \/ GoesTo(w, "cancel") /\ book' = book
<1>1. PICK b \in Todo(w) :
        LET i == work[w].claim[b].isbn IN
        IF Applicable(w, b)
        THEN /\ book' = [book EXCEPT ![b] =
                   Enriched(book[b], i, IF HasCover(w, b) THEN i ELSE None)]
             /\ Remember(w, [work[w] EXCEPT !.at = i, !.cur = b, !.applied = TRUE])
             /\ Goto(w, "finish")
        ELSE /\ book' = book
             /\ Remember(w, [work[w] EXCEPT !.at = i, !.cur = b])
             /\ Goto(w, "cancel")
  BY DEF applyMetadata
<1> DEFINE i == work[w].claim[b].isbn
           applied == [work[w] EXCEPT !.at = i, !.cur = b, !.applied = TRUE]
           refused == [work[w] EXCEPT !.at = i, !.cur = b]
<1>2. \A m \in {applied, refused} :
        /\ m.claim = work[w].claim /\ m.found = work[w].found
        /\ m.locked = work[w].locked /\ m.cur = b
  BY DEF TypeInv, TypeOK, Memory
<1>3. pc[w] = "process" /\ UNCHANGED <<job, blobs, failures, import>>
  BY DEF applyMetadata, counters
<1>4. CASE Applicable(w, b)
  <2>1. /\ book' = [book EXCEPT ![b] = Enriched(book[b], i, IF HasCover(w, b) THEN i ELSE None)]
        /\ Remember(w, applied) /\ Goto(w, "finish")
    BY <1>1, <1>4
  <2>2. GoesTo(w, "finish") /\ work'[w] = applied
    BY <1>3, <2>1, Going
  <2> HIDE DEF applied, refused
  <2> QED
    BY <1>2, <1>3, <1>4, <2>1, <2>2 DEF SameClaims, SameFound
<1>5. CASE ~Applicable(w, b)
  <2>1. book' = book /\ Remember(w, refused) /\ Goto(w, "cancel")
    BY <1>1, <1>5
  <2>2. GoesTo(w, "cancel") /\ work'[w] = refused
    BY <1>3, <2>1, Going
  <2> HIDE DEF applied, refused
  <2> QED
    BY <1>2, <1>3, <2>1, <2>2 DEF SameClaims, SameFound
<1> QED
  BY <1>4, <1>5

LEMMA CoverStepDoes ==
    ASSUME TypeInv, NEW w \in Worker, CheckCover(w) \/ DeleteCover(w)
    PROVE  /\ pc[w] \in {"check", "delete"} /\ UNCHANGED <<book, job, failures, import>>
           /\ SameClaims(w) /\ SameFound(w)
           /\ \/ /\ GoesTo(w, "process") /\ blobs' \in {blobs, blobs \ {work[w].at}}
                 /\ blobs' # blobs => pc[w] = "delete"
              \/ /\ GoesTo(w, "delete") /\ blobs' = blobs /\ work'[w].at = work[w].at
                 /\ ~isCoverReferenced(work[w].at)
<1>1. LET m == [work[w] EXCEPT !.at = None]
      IN  m.claim = work[w].claim /\ m.found = work[w].found /\ m.locked = work[w].locked
  BY DEF TypeInv, TypeOK, Memory
<1>2. work' = work => Remember(w, work[w])
  BY DEF TypeInv, TypeOK, Remember
<1>3. CASE CheckCover(w)
  BY <1>1, <1>2, <1>3, Going DEF CheckCover, rows, counters, SameClaims, SameFound
<1>4. CASE DeleteCover(w)
  BY <1>1, <1>4, Going DEF DeleteCover, counters, SameClaims, SameFound
<1> QED
  BY <1>3, <1>4

\* What a sweep that ends leaves in the job table.
LEMMA ForgottenJobs ==
    ASSUME TypeInv, NEW w \in Worker, job' = Forgotten(job, w), NEW b \in Book
    PROVE  IF job[b].token = w
           THEN /\ job'[b].token = Gone /\ job'[b].status = job[b].status
                /\ job'[b].attempts = job[b].attempts /\ job'[b].isbn = job[b].isbn
           ELSE job'[b] = job[b]
<1>1. job[b] \in JobRow /\ DOMAIN job = Book
  BY DEF TypeInv, TypeOK
<1>2. job'[b] = IF job[b].token = w THEN [job[b] EXCEPT !.token = Gone] ELSE job[b]
  BY <1>1 DEF Forgotten
<1> QED
  BY <1>1, <1>2 DEF JobRow

LEMMA ReleaseDoes ==
    ASSUME TypeInv, NEW w \in Worker, ReleaseLocks(w)
    PROVE  /\ (pc[w] = "process" /\ Todo(w) = {}) \/ pc[w] = "release"
           /\ UNCHANGED <<book, blobs, failures, import>>
           /\ Ends(w) /\ job' = Forgotten(job, w)
BY Ending DEF ReleaseLocks, counters

LEMMA AbortDoes ==
    ASSUME TypeInv, NEW w \in Worker, Abort(w)
    PROVE  /\ UNCHANGED <<rows, import>> /\ failures' = failures + 1
           /\ GoesTo(w, "release") /\ work'[w].claim = NoWork.claim
           /\ work'[w].found = NoWork.found
<1>1. LET m == [NoWork EXCEPT !.locked = work[w].locked]
      IN  m.claim = NoWork.claim /\ m.found = NoWork.found
  BY DEF NoWork
<1> QED
  BY <1>1, Going DEF Abort, rows

LEMMA CrashDoes ==
    ASSUME TypeInv, NEW w \in Worker, Crash(w)
    PROVE  /\ UNCHANGED <<book, blobs, import>> /\ failures' = failures + 1
           /\ Ends(w) /\ job' = Forgotten(job, w)
BY Ending DEF Crash

\* The import moves alone.
LEMMA ImportDoes ==
    ASSUME TypeInv, ReadExisting \/ ImportStep \/ ImportCrash
    PROVE  /\ work' = work
           /\ \A w \in Worker : pc'[w] = pc[w] /\ age'[w] = age[w]
           /\ age'[Importer] \in {0, age[Importer]}
           /\ failures' \in {failures, failures + 1}
<1>1. Importer \in Actor /\ Importer \notin Worker /\ Worker \subseteq Actor
  BY ActorAssumption DEF Actor
<1>2. pc \in [Actor -> Steps] /\ age \in [Actor -> Nat]
  BY DEF TypeInv, TypeOK
<1>3. (\E step : Goto(Importer, step)) \/ Stop(Importer)
  BY DEF ReadExisting, ImportStep, ImportCrash, WriteRecord, LockOrphan, CheckOrphan,
         DeleteOrphan, UnlockOrphan, EndImport
<1>4. work' = work /\ failures' \in {failures, failures + 1}
  BY DEF ReadExisting, ImportStep, ImportCrash, WriteRecord, LockOrphan, CheckOrphan,
         DeleteOrphan, UnlockOrphan, counters, rows
<1> QED
  BY <1>1, <1>2, <1>3, <1>4 DEF Goto, Stop

\* The clock lowers the times of the rows and nothing else of them.
LEMMA TickDoes ==
    ASSUME TypeInv, Tick, NEW b \in Book
    PROVE  /\ job'[b].status = job[b].status /\ job'[b].isbn = job[b].isbn
           /\ job'[b].attempts = job[b].attempts /\ job'[b].token = job[b].token
           /\ job'[b].lease = Earlier(job[b].lease)
<1>1. job[b] \in JobRow
  BY DEF TypeInv, TypeOK
<1> QED
  BY <1>1 DEF Tick, JobRow

-----------------------------------------------------------------------------
(******************** what the table's updates do **************************)

LEMMA UnclaimedRow ==
    ASSUME NEW row \in JobRow, NEW status
    PROVE  /\ Unclaimed(row, status).status = status /\ Unclaimed(row, status).token = None
           /\ Unclaimed(row, status).isbn = row.isbn
           /\ Unclaimed(row, status).attempts = row.attempts
BY DEF Unclaimed, JobRow

LEMMA RetryingRow ==
    ASSUME NEW row \in JobRow, NEW due
    PROVE  LET r == [Unclaimed(row, "retrying") EXCEPT !.due = due]
           IN  /\ r.status = "retrying" /\ r.token = None
               /\ r.isbn = row.isbn /\ r.attempts = row.attempts
BY DEF Unclaimed, JobRow

\* The attempt of a deferred job is given back.
OneLess(n) == IF n > 0 THEN n - 1 ELSE 0

LEMMA DeferredRow ==
    ASSUME NEW row \in JobRow, NEW due
    PROVE  LET r == [Unclaimed(row, "retrying") EXCEPT !.due = due,
                        !.attempts = IF @ > 0 THEN @ - 1 ELSE 0]
           IN  /\ r.status = "retrying" /\ r.token = None
               /\ r.isbn = row.isbn /\ r.attempts = OneLess(row.attempts)
BY DEF Unclaimed, JobRow, OneLess

\* A sweep gives a row back, if it still holds it: settled, or to be retried
\* after an attempt that was not the last, or deferred.
GivesBack(w, b) ==
    /\ \A c \in Book \ {b} : job'[c] = job[c]
    /\ ~OwnsClaim(w, b) => job'[b] = job[b]
    /\ OwnsClaim(w, b) =>
         /\ job'[b].token = None /\ job'[b].isbn = job[b].isbn
         /\ \/ job'[b].status \in Terminal /\ job'[b].attempts = job[b].attempts
            \/ /\ job'[b].status = "retrying" /\ job'[b].attempts = job[b].attempts
               /\ work[w].claim[b].attempts < MaxAttempts
            \/ job'[b].status = "retrying" /\ job'[b].attempts = OneLess(job[b].attempts)

LEMMA UpdateClaimGives ==
    ASSUME TypeInv, NEW w \in Worker, NEW b \in Book, NEW row, UpdateClaim(w, b, row),
           row.token = None, row.isbn = job[b].isbn,
           \/ row.status \in Terminal /\ row.attempts = job[b].attempts
           \/ /\ row.status = "retrying" /\ row.attempts = job[b].attempts
              /\ work[w].claim[b].attempts < MaxAttempts
           \/ row.status = "retrying" /\ row.attempts = OneLess(job[b].attempts)
    PROVE  GivesBack(w, b)
BY DEF TypeInv, TypeOK, UpdateClaim, GivesBack

LEMMA UpdatesGiveBack ==
    ASSUME TypeInv, NEW w \in Worker, NEW b \in Book,
           \/ \E status \in Terminal : UpdateClaim(w, b, Unclaimed(job[b], status))
           \/ deferClaim(w, b)
           \/ RetryOrFail(w, b)
           \/ scheduleRetry(w, b) /\ ~(work[w].claim[b].attempts >= MaxAttempts)
    PROVE  GivesBack(w, b)
<1>1. job[b] \in JobRow /\ work[w].claim[b].attempts \in Nat /\ MaxAttempts \in Nat
  BY CountAssumption DEF TypeInv, TypeOK, Memory
<1>2. ASSUME NEW status \in Terminal, UpdateClaim(w, b, Unclaimed(job[b], status))
      PROVE  GivesBack(w, b)
  BY <1>1, <1>2, UnclaimedRow, UpdateClaimGives
<1>3. ASSUME scheduleRetry(w, b), ~(work[w].claim[b].attempts >= MaxAttempts)
      PROVE  GivesBack(w, b)
  <2>1. PICK d \in RetryDelays :
          UpdateClaim(w, b, [Unclaimed(job[b], "retrying") EXCEPT !.due = Now(w) + d])
    BY <1>3 DEF scheduleRetry
  <2> DEFINE row == [Unclaimed(job[b], "retrying") EXCEPT !.due = Now(w) + d]
  <2>2. /\ row.status = "retrying" /\ row.token = None
        /\ row.isbn = job[b].isbn /\ row.attempts = job[b].attempts
    BY <1>1, RetryingRow
  <2>3. UpdateClaim(w, b, row) /\ work[w].claim[b].attempts < MaxAttempts
    BY <1>1, <1>3, <2>1
  <2> HIDE DEF row
  <2> QED
    BY <2>2, <2>3, UpdateClaimGives
<1>4. CASE deferClaim(w, b)
  <2> DEFINE row == [Unclaimed(job[b], "retrying") EXCEPT !.due = Now(w) + DeferDelay,
                        !.attempts = IF @ > 0 THEN @ - 1 ELSE 0]
  <2>1. /\ row.status = "retrying" /\ row.token = None
        /\ row.isbn = job[b].isbn /\ row.attempts = OneLess(job[b].attempts)
    BY <1>1, DeferredRow
  <2>2. UpdateClaim(w, b, row)
    BY <1>4 DEF deferClaim
  <2> HIDE DEF row
  <2> QED
    BY <2>1, <2>2, UpdateClaimGives
<1>5. CASE RetryOrFail(w, b)
  <2>1. markFailed(w, b) => \E status \in Terminal : UpdateClaim(w, b, Unclaimed(job[b], status))
    BY DEF markFailed, Terminal
  <2> QED
    BY <1>2, <1>3, <1>5, <2>1 DEF RetryOrFail
<1> QED
  BY <1>2, <1>3, <1>4, <1>5

\* The steps that finish a job: b is given back and forgotten.
LEMMA FinishingDoes ==
    ASSUME TypeInv, JobInv, NEW w \in Worker,
           RetryAfterLookup(w) \/ CompleteNotFound(w) \/ CancelUnapplied(w) \/ FinishJob(w)
    PROVE  /\ UNCHANGED <<book, blobs, failures, import>> /\ pc[w] \in {"process", "cancel", "finish"}
           /\ \E b \in Todo(w) :
                 /\ GivesBack(w, b) /\ Forgets(w, b)
                 /\ OwnsClaim(w, b) /\ job'[b].status \in {"completed", "no_cover"} =>
                      /\ pc[w] = "finish" /\ b = work[w].cur
                      /\ job'[b].status = "completed" => HasCover(w, b)
<1>0. \A b \in Todo(w) : b \in Book /\ work[w].claim[b].isbn \in Isbn /\ job[b] \in JobRow
  BY DEF JobInv, JobsInHand, Todo, TypeInv, TypeOK
<1>1. UNCHANGED <<book, blobs, failures, import>> /\ pc[w] \in {"process", "cancel", "finish"}
  BY DEF RetryAfterLookup, CompleteNotFound, CancelUnapplied, FinishJob, counters
<1>2. ASSUME NEW b \in Todo(w), JobDone(w, b) PROVE Forgets(w, b)
  BY <1>0, <1>1, <1>2, JobDoneDoes
\* What the row says then.
<1>3. ASSUME NEW b \in Todo(w), NEW status, UpdateClaim(w, b, Unclaimed(job[b], status)), OwnsClaim(w, b)
      PROVE  job'[b].status = status
  BY <1>0, <1>3, UnclaimedRow DEF UpdateClaim, TypeInv, TypeOK
<1>4. ASSUME NEW b \in Todo(w), scheduleRetry(w, b), OwnsClaim(w, b) PROVE job'[b].status = "retrying"
  <2>1. PICK d \in RetryDelays :
          UpdateClaim(w, b, [Unclaimed(job[b], "retrying") EXCEPT !.due = Now(w) + d])
    BY <1>4 DEF scheduleRetry
  <2>2. job'[b] = [Unclaimed(job[b], "retrying") EXCEPT !.due = Now(w) + d]
    BY <1>0, <1>4, <2>1 DEF UpdateClaim, TypeInv, TypeOK
  <2> QED
    BY <1>0, <2>2, RetryingRow
<1>5. ASSUME NEW b \in Todo(w), RetryOrFail(w, b), OwnsClaim(w, b)
      PROVE  job'[b].status \in {"failed", "retrying"}
  BY <1>3, <1>4, <1>5 DEF RetryOrFail, markFailed
<1>6. CASE RetryAfterLookup(w)
  <2>1. PICK b \in Todo(w) : RetryOrFail(w, b) /\ JobDone(w, b)
    BY <1>6 DEF RetryAfterLookup
  <2> QED
    BY <1>0, <1>1, <1>2, <1>5, <2>1, UpdatesGiveBack
<1>7. CASE CompleteNotFound(w)
  <2>1. PICK b \in Todo(w) : UpdateClaim(w, b, Unclaimed(job[b], "not_found")) /\ JobDone(w, b)
    BY <1>7 DEF CompleteNotFound, markCompleted
  <2>2. GivesBack(w, b)
    BY <1>0, <2>1, UpdatesGiveBack DEF Terminal
  <2>3. OwnsClaim(w, b) => job'[b].status = "not_found"
    BY <1>3, <2>1
  <2> QED
    BY <1>1, <1>2, <2>1, <2>2, <2>3
<1>8. CASE CancelUnapplied(w)
  <2>1. /\ work[w].cur \in Todo(w) /\ JobDone(w, work[w].cur)
        /\ UpdateClaim(w, work[w].cur, Unclaimed(job[work[w].cur], "cancelled"))
    BY <1>8 DEF CancelUnapplied, cancelClaim, JobInv, JobsInHand
  <2>2. GivesBack(w, work[w].cur)
    BY <1>0, <2>1, UpdatesGiveBack DEF Terminal
  <2>3. OwnsClaim(w, work[w].cur) => job'[work[w].cur].status = "cancelled"
    BY <1>3, <2>1
  <2> QED
    BY <1>1, <1>2, <2>1, <2>2, <2>3
<1>9. CASE FinishJob(w)
  <2> DEFINE b == work[w].cur
  <2>1. b \in Todo(w) /\ pc[w] = "finish" /\ JobDone(w, b)
    BY <1>9 DEF FinishJob, JobInv, JobsInHand
  <2>2. \/ RetryOrFail(w, b)
        \/ ~(work[w].claim[b].attempts >= MaxAttempts) /\ scheduleRetry(w, b)
        \/ UpdateClaim(w, b, Unclaimed(job[b], "no_cover"))
        \/ HasCover(w, b) /\ UpdateClaim(w, b, Unclaimed(job[b], "completed"))
    BY <1>9 DEF FinishJob, markCompleted
  <2>3. GivesBack(w, b)
    BY <1>0, <2>1, <2>2, UpdatesGiveBack DEF Terminal
  <2>4. OwnsClaim(w, b) /\ job'[b].status = "completed" => HasCover(w, b)
    BY <1>3, <1>4, <1>5, <2>1, <2>2
  <2> HIDE DEF b
  <2> QED
    BY <1>1, <1>2, <2>1, <2>3, <2>4 DEF b
<1> QED
  BY <1>6, <1>7, <1>8, <1>9

-----------------------------------------------------------------------------
(******************** the jobs a sweep has in hand *************************)

\* A sweep is given no row, and the rows it holds keep their attempts.
RowsKept(v) == \A b \in Book :
    OwnsClaim(v, b)' => OwnsClaim(v, b) /\ job'[b].attempts = job[b].attempts

\* Every row has its ISBN, as long as it is queued for one.
RowsHaveIsbn == \A b \in Book : job[b].status # "none" => job[b].isbn \in Isbn

LEMMA TodoIs ==
    ASSUME NEW w \in Worker, NEW b \in Book
    PROVE  b \in Todo(w) <=> work[w].claim[b] # NoClaim
BY DEF Todo

LEMMA CancelledRows ==
    ASSUME TypeInv, job' = cancelIneligibleJobs, NEW b \in Book
    PROVE  \/ job'[b] = job[b]
           \/ /\ job[b].status \in Active /\ ~Importable(b)
              /\ job'[b].status = "cancelled" /\ job'[b].token = None
              /\ job'[b].isbn = job[b].isbn /\ job'[b].attempts = job[b].attempts
<1>1. job[b] \in JobRow
  BY DEF TypeInv, TypeOK
<1>2. job'[b] = IF job[b].status \in Active /\ ~Importable(b)
                THEN Unclaimed(job[b], "cancelled") ELSE job[b]
  BY DEF cancelIneligibleJobs
<1> QED
  BY <1>1, <1>2, UnclaimedRow

LEMMA ClaimedRow ==
    ASSUME TypeInv, NEW w \in Worker, NEW b \in Book
    PROVE  LET r == Claimed(w, job[b])
           IN  /\ r.status = "processing" /\ r.token = w /\ r.isbn = job[b].isbn
               /\ r.attempts = job[b].attempts + 1 /\ r.lease = Lease - age[w]
<1>1. job[b] \in JobRow /\ age[w] \in Nat /\ Lease \in Nat
  BY TimeAssumption DEF TypeInv, TypeOK, Actor
<1> QED
  BY <1>1 DEF Claimed, JobRow, Now

LEMMA ClaimedRows ==
    ASSUME TypeInv, NEW w \in Worker, claimJobs(w), NEW b \in Book
    PROVE  \/ job'[b] = job[b]
           \/ Claimable(b, Now(w)) /\ job'[b] = Claimed(w, job[b])
<1>1. CASE job' = job
  BY <1>1
<1>2. CASE job' # job
  <2>1. job' = [c \in Book |-> IF c \in {d \in work[w].picked : Claimable(d, Now(w))}
                              THEN Claimed(w, job[c]) ELSE job[c]]
    BY <1>2 DEF claimJobs
  <2> QED
    BY <2>1
<1> QED
  BY <1>1, <1>2

\* Whatever a sweep does, no other sweep's rows are touched but to take them
\* away.
LEMMA SweepsLeaveOthers ==
    ASSUME TypeInv, JobInv, NEW w \in Worker, SweepStep(w) \/ Abort(w) \/ Crash(w),
           NEW v \in Worker \ {w}
    PROVE  RowsKept(v)
<1>1. v # w /\ v # None /\ v # Gone
  BY NullAssumption, ActorAssumption DEF Actor
<1>2. ASSUME job' = job PROVE RowsKept(v)
  BY <1>2 DEF RowsKept, OwnsClaim
<1>3. ASSUME NEW b \in Book, GivesBack(w, b) PROVE RowsKept(v)
  BY <1>1, <1>3 DEF GivesBack, RowsKept, OwnsClaim
<1>4. ASSUME job' = Forgotten(job, w) PROVE RowsKept(v)
  BY <1>1, <1>4, ForgottenJobs DEF RowsKept, OwnsClaim
<1>5. CASE Start(w)
  BY <1>1, <1>5, StartDoes, CancelledRows DEF RowsKept, OwnsClaim
<1>6. CASE claimJobs(w)
  <2>1. \A b \in Book : job'[b] = job[b] \/ job'[b] = Claimed(w, job[b])
    BY <1>6, ClaimedRows
  <2>2. \A b \in Book : Claimed(w, job[b]).token = w
    BY ClaimedRow
  <2> QED
    BY <1>1, <2>1, <2>2 DEF RowsKept, OwnsClaim
<1>7. CASE DeferUnlocked(w)
  BY <1>3, <1>7, DeferUnlockedDoes, UpdatesGiveBack DEF Todo
<1>8. CASE RetryAfterLookup(w) \/ CompleteNotFound(w) \/ CancelUnapplied(w) \/ FinishJob(w)
  BY <1>3, <1>8, FinishingDoes DEF Todo
<1>9. CASE ReleaseLocks(w) \/ Crash(w)
  BY <1>4, <1>9, ReleaseDoes, CrashDoes
<1>10. CASE \/ LockIsbns(w) \/ NothingLocked(w) \/ Lookup(w) \/ Download(w)
            \/ applyMetadata(w) \/ CheckCover(w) \/ DeleteCover(w) \/ Abort(w)
  <2>1. job' = job
    BY <1>10 DEF LockIsbns, NothingLocked, Lookup, Download, applyMetadata, CheckCover,
                 DeleteCover, Abort, rows
  <2> QED
    BY <1>2, <2>1
<1> QED
  BY <1>5, <1>6, <1>7, <1>8, <1>9, <1>10 DEF SweepStep

\* A sweep at rest in the table goes on with the same claims.
LEMMA SameJobsInHand ==
    ASSUME JobInv, NEW w \in Worker, work'[w].claim = work[w].claim, RowsKept(w),
           pc'[w] = "release" => pc[w] = "release",
           pc'[w] \in {"idle", "claim", "release"} => Todo(w) = {},
           pc'[w] \in {"cancel", "finish"} => work'[w].cur \in Todo(w),
           pc[w] = "release" => pc'[w] = "release"
    PROVE  JobsInHand(w)'
BY DEF JobInv, JobsInHand, RowsKept, Todo

LEMMA NothingInHand ==
    ASSUME NEW w \in Worker, Ends(w), \A b \in Book : ~OwnsClaim(w, b)'
    PROVE  JobsInHand(w)'
<1>1. \A b \in Book : work'[w].claim[b] = NoClaim
  BY EmptyMemory DEF Ends
<1> QED
  BY <1>1 DEF Ends, JobsInHand, Todo

LEMMA GivenBackJobs ==
    ASSUME TypeInv, JobInv, NEW w \in Worker, NEW b \in Todo(w), GivesBack(w, b),
           work'[w].claim = [work[w].claim EXCEPT ![b] = NoClaim],
           pc[w] # "release", pc'[w] \in {"defer", "process", "check"}
    PROVE  JobsInHand(w)'
<1>1. b \in Book /\ w # None
  BY NullAssumption DEF Todo, Actor
<1>2. work[w].claim \in [Book -> [isbn : IsbnOrNull, attempts : Nat]]
  BY DEF TypeInv, TypeOK, Memory
<1>3. \A c \in Book : work'[w].claim[c] = IF c = b THEN NoClaim ELSE work[w].claim[c]
  BY <1>2
<1>4. \A c \in Book : c \in Todo(w)' <=> c # b /\ c \in Todo(w)
  BY <1>3 DEF Todo
<1>5. ~OwnsClaim(w, b)'
  BY <1>1 DEF GivesBack, OwnsClaim
<1>6. \A c \in Book \ {b} : OwnsClaim(w, c)' => OwnsClaim(w, c) /\ job'[c].attempts = job[c].attempts
  BY DEF GivesBack, OwnsClaim
<1>7. \A c \in Book : OwnsClaim(w, c) => c \in Todo(w) /\ job[c].attempts = work[w].claim[c].attempts
  BY DEF JobInv, JobsInHand
<1>8. \A c \in Book : OwnsClaim(w, c)' => c \in Todo(w)' /\ job'[c].attempts = work'[w].claim[c].attempts
  BY <1>1, <1>3, <1>4, <1>5, <1>6, <1>7
<1>9. \A c \in Todo(w)' : work'[w].claim[c].isbn \in Isbn
  BY <1>3, <1>4 DEF JobInv, JobsInHand, Todo
<1> QED
  BY <1>8, <1>9 DEF JobsInHand

\* Each step of a sweep keeps what it has in hand in step with the table.
LEMMA SweepsKeepJobs ==
    ASSUME TypeInv, JobInv, NEW w \in Worker, SweepStep(w) \/ Abort(w) \/ Crash(w)
    PROVE  JobsInHand(w)'
<1>0. /\ w # None /\ w # Gone
      /\ pc[w] \in {"idle", "claim", "release"} => Todo(w) = {}
      /\ \A b \in Book : OwnsClaim(w, b) => b \in Todo(w) \/ pc[w] = "release"
  BY NullAssumption, ActorAssumption DEF Actor, JobInv, JobsInHand
<1>1. ASSUME job' = job PROVE RowsKept(w)
  BY <1>1 DEF RowsKept, OwnsClaim
<1>2. ASSUME job' = Forgotten(job, w) PROVE \A b \in Book : ~OwnsClaim(w, b)'
  BY <1>0, <1>2, ForgottenJobs DEF OwnsClaim
<1>3. CASE Start(w)
  <2>1. RowsKept(w)
    BY <1>0, <1>3, StartDoes, CancelledRows DEF RowsKept, OwnsClaim
  <2> QED
    BY <1>0, <1>3, <2>1, StartDoes, SameJobsInHand DEF GoesTo, SameClaims
<1>4. CASE claimJobs(w)
  <2>1. CASE Ends(w) /\ job' = job
    BY <1>0, <1>4, <2>1, claimJobsDoes, NothingInHand DEF OwnsClaim
  <2>2. CASE ~(Ends(w) /\ job' = job)
    <3>1. /\ pc[w] = "claim" /\ pc'[w] = "lock"
          /\ \A b \in Book :
               \/ /\ Claimable(b, Now(w)) /\ job'[b] = Claimed(w, job[b])
                  /\ work'[w].claim[b] = [isbn |-> job[b].isbn, attempts |-> job[b].attempts + 1]
               \/ job'[b] = job[b] /\ work'[w].claim[b] = NoClaim
      BY <1>4, <2>2, claimJobsDoes DEF GoesTo
    <3>2. \A b \in Book : ~OwnsClaim(w, b)
      BY <1>0, <3>1
    <3>3. ASSUME NEW b \in Book, b \in Todo(w)'
          PROVE  work'[w].claim[b].isbn \in Isbn /\ work'[w].claim[b].attempts = job'[b].attempts
      <4>1. /\ Claimable(b, Now(w)) /\ job'[b] = Claimed(w, job[b])
            /\ work'[w].claim[b] = [isbn |-> job[b].isbn, attempts |-> job[b].attempts + 1]
        BY <3>1, <3>3 DEF Todo
      <4>2. job'[b].attempts = job[b].attempts + 1
        BY <4>1, ClaimedRow
      <4> QED
        BY <4>1, <4>2 DEF Claimable, JobInv
    <3>4. ASSUME NEW b \in Book, OwnsClaim(w, b)' PROVE b \in Todo(w)'
      <4>1. job'[b] # job[b]
        BY <3>2, <3>4 DEF OwnsClaim
      <4>2. /\ Claimable(b, Now(w))
            /\ work'[w].claim[b] = [isbn |-> job[b].isbn, attempts |-> job[b].attempts + 1]
        BY <3>1, <4>1
      <4>3. work'[w].claim[b].isbn \in Isbn /\ NoClaim.isbn \notin Isbn
        BY <4>2, NullAssumption DEF Claimable, JobInv, NoClaim
      <4> QED
        BY <4>3 DEF Todo
    <3> QED
      BY <3>1, <3>3, <3>4 DEF JobsInHand, Todo
  <2> QED
    BY <2>1, <2>2
<1>5. CASE LockIsbns(w)
  BY <1>0, <1>1, <1>5, LockIsbnsDoes, SameJobsInHand DEF GoesTo, SameClaims
<1>6. CASE DeferUnlocked(w)
  BY <1>6, DeferUnlockedDoes, UpdatesGiveBack, GivenBackJobs DEF GoesTo, Todo
<1>7. CASE NothingLocked(w)
  <2>1. Ends(w) /\ job' = job /\ pc[w] = "defer" /\ Todo(w) = {}
    BY <1>7, Ending DEF NothingLocked, rows
  <2> QED
    BY <1>0, <2>1, NothingInHand DEF OwnsClaim
<1>8. CASE Lookup(w)
  <2>1. job' = job /\ SameClaims(w) /\ pc[w] = "defer" /\ pc'[w] \in {"download", "process"}
    BY <1>8, LookupDoes DEF rows, GoesTo
  <2> QED
    BY <1>0, <1>1, <2>1, SameJobsInHand DEF SameClaims
<1>9. CASE Download(w)
  BY <1>0, <1>1, <1>9, DownloadDoes, SameJobsInHand DEF GoesTo, SameClaims
<1>10. CASE RetryAfterLookup(w) \/ CompleteNotFound(w) \/ CancelUnapplied(w) \/ FinishJob(w)
  BY <1>10, FinishingDoes, GivenBackJobs DEF Forgets, GoesTo
<1>11. CASE applyMetadata(w)
  <2>1. /\ job' = job /\ SameClaims(w) /\ pc[w] = "process" /\ work'[w].cur \in Todo(w)
        /\ pc'[w] \in {"cancel", "finish"}
    BY <1>11, applyMetadataDoes DEF GoesTo
  <2> QED
    BY <1>0, <1>1, <2>1, SameJobsInHand DEF SameClaims
<1>12. CASE CheckCover(w) \/ DeleteCover(w)
  <2>1. /\ job' = job /\ SameClaims(w) /\ pc[w] \in {"check", "delete"}
        /\ pc'[w] \in {"process", "delete"}
    BY <1>12, CoverStepDoes DEF GoesTo
  <2> QED
    BY <1>0, <1>1, <2>1, SameJobsInHand DEF SameClaims
<1>13. CASE ReleaseLocks(w) \/ Crash(w)
  BY <1>2, <1>13, ReleaseDoes, CrashDoes, NothingInHand
<1>14. CASE Abort(w)
  <2>1. \A b \in Book : work'[w].claim[b] = NoClaim
    BY <1>14, AbortDoes, EmptyMemory
  <2>2. pc'[w] = "release"
    BY <1>14, AbortDoes DEF GoesTo
  <2> QED
    BY <2>1, <2>2 DEF JobsInHand, Todo
<1> QED
  BY <1>3, <1>4, <1>5, <1>6, <1>7, <1>8, <1>9, <1>10, <1>11, <1>12, <1>13, <1>14 DEF SweepStep

\* Only the row of a claim changes in what it says of its ISBN.
LEMMA SweepsKeepIsbns ==
    ASSUME TypeInv, JobInv, NEW w \in Worker, SweepStep(w) \/ Abort(w) \/ Crash(w)
    PROVE  RowsHaveIsbn' /\ import' = import
<1>1. ASSUME NEW b \in Book, GivesBack(w, b) PROVE RowsHaveIsbn'
  <2>1. OwnsClaim(w, b) => job[b].status # "none"
    BY DEF OwnsClaim
  <2> QED
    BY <1>1, <2>1 DEF GivesBack, RowsHaveIsbn, JobInv
<1>2. ASSUME job' = job PROVE RowsHaveIsbn'
  BY <1>2 DEF RowsHaveIsbn, JobInv
<1>3. CASE Start(w)
  BY <1>3, StartDoes, CancelledRows DEF RowsHaveIsbn, JobInv, Active
<1>4. CASE claimJobs(w)
  <2>1. \A b \in Book :
          \/ job'[b] = job[b]
          \/ Claimable(b, Now(w)) /\ job'[b] = Claimed(w, job[b])
    BY <1>4, ClaimedRows
  <2>2. \A b \in Book : Claimed(w, job[b]).isbn = job[b].isbn
    BY ClaimedRow
  <2> QED
    BY <1>4, <2>1, <2>2, claimJobsDoes DEF RowsHaveIsbn, JobInv, Claimable
<1>5. CASE DeferUnlocked(w)
  BY <1>1, <1>5, DeferUnlockedDoes, UpdatesGiveBack DEF Todo
<1>6. CASE RetryAfterLookup(w) \/ CompleteNotFound(w) \/ CancelUnapplied(w) \/ FinishJob(w)
  BY <1>1, <1>6, FinishingDoes DEF Todo
<1>7. CASE ReleaseLocks(w) \/ Crash(w)
  BY <1>7, ReleaseDoes, CrashDoes, ForgottenJobs DEF RowsHaveIsbn, JobInv
<1>8. CASE \/ LockIsbns(w) \/ NothingLocked(w) \/ Lookup(w) \/ Download(w)
           \/ applyMetadata(w) \/ CheckCover(w) \/ DeleteCover(w) \/ Abort(w)
  BY <1>2, <1>8 DEF LockIsbns, NothingLocked, Lookup, Download, applyMetadata, CheckCover,
                    DeleteCover, Abort, rows
<1> QED
  BY <1>3, <1>4, <1>5, <1>6, <1>7, <1>8 DEF SweepStep

\* A step of a sweep is a step of no other actor.
LEMMA SweepFrames ==
    ASSUME TypeInv, JobInv, NEW w \in Worker, SweepStep(w) \/ Abort(w) \/ Crash(w)
    PROVE  Frame(w)
<1>1. CASE Start(w)
  BY <1>1, StartDoes DEF GoesTo, Frame
<1>2. CASE claimJobs(w)
  BY <1>2, claimJobsDoes DEF GoesTo, Ends
<1>3. CASE LockIsbns(w) \/ DeferUnlocked(w)
  BY <1>3, LockIsbnsDoes, DeferUnlockedDoes DEF GoesTo
<1>4. CASE NothingLocked(w)
  BY <1>4, Ending DEF NothingLocked, Ends
<1>5. CASE Lookup(w)
  BY <1>5, LookupDoes DEF GoesTo
<1>6. CASE Download(w)
  BY <1>6, DownloadDoes DEF GoesTo
<1>7. CASE RetryAfterLookup(w) \/ CompleteNotFound(w) \/ CancelUnapplied(w) \/ FinishJob(w)
  BY <1>7, FinishingDoes DEF Forgets, GoesTo
<1>8. CASE applyMetadata(w)
  BY <1>8, applyMetadataDoes DEF GoesTo
<1>9. CASE CheckCover(w) \/ DeleteCover(w)
  BY <1>9, CoverStepDoes DEF GoesTo
<1>10. CASE ReleaseLocks(w) \/ Abort(w) \/ Crash(w)
  BY <1>10, ReleaseDoes, AbortDoes, CrashDoes DEF GoesTo, Ends
<1> QED
  BY <1>1, <1>2, <1>3, <1>4, <1>5, <1>6, <1>7, <1>8, <1>9, <1>10 DEF SweepStep

\* The import writes a row that nobody holds.
LEMMA WrittenRow ==
    ASSUME TypeInv, WriteRecord
    PROVE  LET b == import.book IN
           /\ pc[Importer] = "write"
           /\ b \in Book => job'[b] = ImportedJob(job[b])
           /\ \A c \in Book \ {b} : job'[c] = job[c] /\ book'[c] = book[c]
           /\ b \in Book => book'[b] = ImportedBook(book[b])
           /\ import'.book = None /\ import'.enqueue = FALSE
           /\ UNCHANGED <<blobs, lock>>
<1>1. /\ job' = [job EXCEPT ![import.book] = ImportedJob(job[import.book])]
      /\ book' = [book EXCEPT ![import.book] = ImportedBook(book[import.book])]
      /\ import' = [NoImport EXCEPT !.orphan = import.orphan]
      /\ pc[Importer] = "write" /\ UNCHANGED <<blobs, lock>>
  BY DEF WriteRecord
<1> QED
  BY <1>1 DEF TypeInv, TypeOK, NoImport

LEMMA ImportedRow ==
    ASSUME TypeInv, NEW row \in JobRow
    PROVE  LET r == ImportedJob(row) IN
           \/ /\ import.enqueue /\ r.status = "pending" /\ r.token = None
              /\ r.isbn = import.isbn /\ r.attempts = 0
           \/ ~import.enqueue /\ row.status = "none" /\ r = row
           \/ /\ ~import.enqueue /\ row.status # "none"
              /\ r.status = "cancelled" /\ r.token = None
              /\ r.isbn = row.isbn /\ r.attempts = row.attempts
<1>1. LET r == [NoJob EXCEPT !.status = "pending", !.isbn = import.isbn]
      IN  r.status = "pending" /\ r.token = None /\ r.isbn = import.isbn /\ r.attempts = 0
  BY DEF NoJob
<1> QED
  BY <1>1, UnclaimedRow DEF ImportedJob

LEMMA JobsKept ==
    ASSUME TypeInv, JobInv, Next
    PROVE  JobInv'
<1>0. \A v \in Worker : v # None /\ v # Gone
  BY NullAssumption, ActorAssumption DEF Actor
<1>1. ASSUME NEW v \in Worker, RowsKept(v), work'[v] = work[v], pc'[v] = pc[v]
      PROVE  JobsInHand(v)'
  BY <1>1, SameJobsInHand DEF JobInv, JobsInHand
<1>2. ASSUME NEW w \in Worker, SweepStep(w) \/ Abort(w) \/ Crash(w)
      PROVE  JobInv'
  <2>1. \A v \in Worker \ {w} : work'[v] = work[v] /\ pc'[v] = pc[v]
    BY <1>2, SweepFrames DEF Frame
  <2>2. \A v \in Worker \ {w} : JobsInHand(v)'
    BY <1>1, <1>2, <2>1, SweepsLeaveOthers
  <2>3. RowsHaveIsbn' /\ import' = import /\ JobsInHand(w)'
    BY <1>2, SweepsKeepIsbns, SweepsKeepJobs
  <2> QED
    BY <2>2, <2>3 DEF JobInv, RowsHaveIsbn
<1>3. ASSUME job' = job, UNCHANGED work, \A v \in Worker : pc'[v] = pc[v],
             import'.enqueue => import'.isbn \in Isbn
      PROVE  JobInv'
  <2>1. \A v \in Worker : RowsKept(v)
    BY <1>3 DEF RowsKept, OwnsClaim
  <2> QED
    BY <1>1, <1>3, <2>1 DEF JobInv
<1>4. CASE ReadExisting
  <2> DEFINE stale(b, i) == book[b].isbn # i /\ book[b].provider \notin {None, i}
             modeOf(b, i) == IF book[b].state = "absent" THEN "create"
                             ELSE IF stale(b, i) THEN "clear" ELSE "keep"
             orphanOf(b, i) == IF stale(b, i) THEN book[b].cover ELSE None
  <2>1. PICK b \in Book, i \in IsbnOrNull, q \in BOOLEAN :
          import' = [NoImport EXCEPT !.book = b, !.isbn = i, !.enqueue = q /\ i # None,
                                     !.mode = modeOf(b, i), !.orphan = orphanOf(b, i)]
    BY <1>4 DEF ReadExisting
  <2> HIDE DEF modeOf, orphanOf
  <2>2. import'.enqueue => import'.isbn \in Isbn
    BY <2>1 DEF NoImport, IsbnOrNull
  <2>3. job' = job
    BY <1>4 DEF ReadExisting, rows
  <2> QED
    BY <1>3, <1>4, <2>2, <2>3, ImportDoes
<1>5. CASE WriteRecord
  <2>1. work' = work /\ \A v \in Worker : pc'[v] = pc[v]
    BY <1>5, ImportDoes DEF ImportStep
  <2>2. ASSUME NEW b \in Book
        PROVE  /\ job'[b] = job[b] \/ job'[b].token = None
               /\ job'[b].status # "none" => job'[b].isbn \in Isbn
    <3>1. job[b] \in JobRow /\ (job[b].status # "none" => job[b].isbn \in Isbn)
      BY DEF TypeInv, TypeOK, JobInv
    <3>2. job'[b] = job[b] \/ job'[b] = ImportedJob(job[b])
      BY <1>5, WrittenRow
    <3>3. import.enqueue => import.isbn \in Isbn
      BY DEF JobInv
    <3> QED
      BY <3>1, <3>2, <3>3, ImportedRow
  <2>3. \A v \in Worker : RowsKept(v)
    BY <1>0, <2>2 DEF RowsKept, OwnsClaim
  <2> QED
    BY <1>1, <1>5, <2>1, <2>2, <2>3, WrittenRow DEF JobInv
<1>6. CASE LockOrphan \/ CheckOrphan \/ DeleteOrphan \/ UnlockOrphan \/ ImportCrash
  <2>1. job' = job /\ (import' = import \/ import' = NoImport)
    BY <1>6 DEF LockOrphan, CheckOrphan, DeleteOrphan, UnlockOrphan, ImportCrash, EndImport, rows
  <2>2. import'.enqueue => import'.isbn \in Isbn
    BY <2>1 DEF JobInv, NoImport
  <2> QED
    BY <1>3, <1>6, <2>1, <2>2, ImportDoes DEF ImportStep
<1>7. CASE \E b \in Book : RemoveBook(b)
  BY <1>3, <1>7 DEF RemoveBook, JobInv
<1>8. CASE Tick
  <2>1. \A v \in Worker : RowsKept(v)
    BY <1>8, TickDoes DEF RowsKept, OwnsClaim
  <2>2. RowsHaveIsbn'
    BY <1>8, TickDoes DEF JobInv, RowsHaveIsbn
  <2>3. UNCHANGED <<work, pc, import>>
    BY <1>8 DEF Tick
  <2> QED
    BY <1>1, <2>1, <2>2, <2>3 DEF JobInv, RowsHaveIsbn
<1> QED
  BY <1>2, <1>4, <1>5, <1>6, <1>7, <1>8 DEF Next, ImportStep

LEMMA JobsAtFirst == Init => JobInv
<1> SUFFICES ASSUME Init PROVE JobInv
  OBVIOUS
<1>1. \A w \in Worker : Todo(w) = {}
  BY EmptyMemory DEF Init, Todo
<1>2. \A w \in Worker : pc[w] = "idle"
  BY DEF Init, Actor
<1>3. PICK isbn \in [Book -> IsbnOrNull] :
        job = [b \in Book |-> IF isbn[b] = None THEN NoJob
                     ELSE [NoJob EXCEPT !.status = "pending", !.isbn = isbn[b]]]
  BY DEF Init
<1>4. \A b \in Book : job[b].status # "processing" /\ (job[b].status # "none" => job[b].isbn \in Isbn)
  BY <1>3 DEF NoJob, IsbnOrNull
<1>5. ~import.enqueue
  BY DEF Init, NoImport
<1> QED
  BY <1>1, <1>2, <1>4, <1>5 DEF JobInv, JobsInHand, OwnsClaim

-----------------------------------------------------------------------------
(*********************** what happens to a row *****************************)

\* A sweep cancels a job that is not wanted, claims one that is due, gives back
\* one it holds, or forgets it when it ends.
Cancels(b) ==
    /\ job[b].status \in Active /\ ~Importable(b)
    /\ job'[b].status = "cancelled" /\ job'[b].token = None
    /\ job'[b].attempts = job[b].attempts
Claims(w, b) ==
    /\ Claimable(b, Now(w)) /\ job'[b].status = "processing" /\ job'[b].token = w
    /\ job'[b].attempts = job[b].attempts + 1 /\ job'[b].lease = Lease - age[w]
    /\ work'[w].claim[b] # NoClaim /\ age'[w] = age[w]
Returns(w, b) ==
    /\ OwnsClaim(w, b) /\ b \in Todo(w) /\ GivesBack(w, b)
    /\ work'[w].claim[b] = NoClaim
    /\ job'[b].status \in {"completed", "no_cover"} =>
         /\ pc[w] = "finish" /\ b = work[w].cur
         /\ job'[b].status = "completed" => HasCover(w, b)
Forgot(w, b) ==
    /\ job[b].token = w /\ job'[b].token = Gone
    /\ job'[b].status = job[b].status /\ job'[b].attempts = job[b].attempts
    /\ (pc[w] = "process" /\ Todo(w) = {}) \/ pc[w] = "release" \/ failures' = failures + 1

LEMMA SweptRow ==
    ASSUME TypeInv, JobInv, NEW w \in Worker, SweepStep(w) \/ Abort(w) \/ Crash(w), NEW b \in Book
    PROVE  job'[b] = job[b] \/ Cancels(b) \/ Claims(w, b) \/ Returns(w, b) \/ Forgot(w, b)
<1>1. CASE Start(w)
  BY <1>1, StartDoes, CancelledRows DEF Cancels
<1>2. CASE claimJobs(w)
  <2>1. CASE job'[b] = job[b]
    BY <2>1
  <2>2. CASE job'[b] # job[b]
    <3>1. /\ Claimable(b, Now(w)) /\ job'[b] = Claimed(w, job[b]) /\ age'[w] = age[w]
          /\ work'[w].claim[b] = [isbn |-> job[b].isbn, attempts |-> job[b].attempts + 1]
      BY <1>2, <2>2, claimJobsDoes DEF GoesTo
    <3>2. work'[w].claim[b].isbn \in Isbn /\ NoClaim.isbn \notin Isbn
      BY <3>1, NullAssumption DEF Claimable, JobInv, NoClaim
    <3>3. Claims(w, b)
      BY <3>1, <3>2, ClaimedRow DEF Claims
    <3> QED
      BY <3>3
  <2> QED
    BY <2>1, <2>2
<1>3. ASSUME NEW c \in Todo(w), GivesBack(w, c), job'[b] # job[b] PROVE b = c /\ OwnsClaim(w, b)
  BY <1>3 DEF GivesBack
<1>4. work[w].claim \in [Book -> [isbn : IsbnOrNull, attempts : Nat]]
  BY DEF TypeInv, TypeOK, Memory
<1>5. CASE DeferUnlocked(w)
  <2>1. PICK c \in Todo(w) :
          deferClaim(w, c) /\ work'[w].claim = [work[w].claim EXCEPT ![c] = NoClaim]
    BY <1>5, DeferUnlockedDoes
  <2>2. c \in Book /\ GivesBack(w, c) /\ work'[w].claim[c] = NoClaim
    BY <1>4, <2>1, UpdatesGiveBack DEF Todo
  <2>3. OwnsClaim(w, c) => job'[c].status = "retrying" \/ job'[c].status \notin {"completed", "no_cover"}
    <3>1. job[c] \in JobRow
      BY <2>2 DEF TypeInv, TypeOK
    <3>2. OwnsClaim(w, c) => job'[c] = [Unclaimed(job[c], "retrying") EXCEPT !.due = Now(w) + DeferDelay,
                                          !.attempts = IF @ > 0 THEN @ - 1 ELSE 0]
      BY <2>1, <2>2 DEF deferClaim, UpdateClaim, TypeInv, TypeOK
    <3> QED
      BY <3>1, <3>2, DeferredRow
  <2> QED
    BY <1>3, <2>2, <2>3 DEF Returns
<1>6. CASE RetryAfterLookup(w) \/ CompleteNotFound(w) \/ CancelUnapplied(w) \/ FinishJob(w)
  <2>1. PICK c \in Todo(w) :
           /\ GivesBack(w, c) /\ Forgets(w, c)
           /\ OwnsClaim(w, c) /\ job'[c].status \in {"completed", "no_cover"} =>
                      /\ pc[w] = "finish" /\ c = work[w].cur
                      /\ job'[c].status = "completed" => HasCover(w, c)
    BY <1>6, FinishingDoes
  <2>2. c \in Book /\ work'[w].claim[c] = NoClaim
    BY <1>4, <2>1 DEF Todo, Forgets
  <2> QED
    BY <1>3, <2>1, <2>2 DEF Returns
<1>7. CASE ReleaseLocks(w) \/ Crash(w)
  BY <1>7, ReleaseDoes, CrashDoes, ForgottenJobs DEF Forgot
<1>8. CASE \/ LockIsbns(w) \/ NothingLocked(w) \/ Lookup(w) \/ Download(w)
           \/ applyMetadata(w) \/ CheckCover(w) \/ DeleteCover(w) \/ Abort(w)
  BY <1>8 DEF LockIsbns, NothingLocked, Lookup, Download, applyMetadata, CheckCover,
              DeleteCover, Abort, rows
<1> QED
  BY <1>1, <1>2, <1>5, <1>6, <1>7, <1>8 DEF SweepStep

\* What anyone else does to a row: an import writes it, time passes.
Imports(b) ==
    /\ WriteRecord /\ import.book = b /\ import' # import
    /\ job'[b] = ImportedJob(job[b])

LEMMA OtherRow ==
    ASSUME TypeInv, JobInv, ReadExisting \/ ImportStep \/ ImportCrash \/ \E c \in Book : RemoveBook(c),
           NEW b \in Book
    PROVE  job'[b] = job[b] \/ Imports(b)
<1>1. CASE WriteRecord
  <2>1. b # import.book => job'[b] = job[b]
    BY <1>1, WrittenRow
  <2>2. b = import.book => Imports(b)
    <3>1. None # b
      BY NullAssumption
    <3> QED
      BY <1>1, <3>1, WrittenRow DEF Imports
  <2> QED
    BY <2>1, <2>2
<1>2. CASE ~WriteRecord
  BY <1>2 DEF ReadExisting, ImportStep, ImportCrash, LockOrphan, CheckOrphan, DeleteOrphan,
              UnlockOrphan, RemoveBook, rows
<1> QED
  BY <1>1, <1>2

-----------------------------------------------------------------------------
(******************** claims and finished jobs last ************************)

SafeStep(b) ==
    \/ job[b].status # "processing"
    \/ job'[b].status = "processing" /\ job'[b].token \in {job[b].token, Gone}
    \/ job[b].lease <= 0
    \/ \E w \in Worker : job[b].token = w /\ work'[w] # work[w]
    \/ import.book = b /\ import' # import
    \/ ~Importable(b)

StaysFinished(b) ==
    job[b].status \in Terminal =>
        \/ job'[b].status = job[b].status /\ job'[b].attempts = job[b].attempts
        \/ import.book = b /\ import' # import

LEMMA StepsAreSafe ==
    ASSUME TypeInv, JobInv, [Next]_vars, NEW b \in Book
    PROVE  SafeStep(b) /\ StaysFinished(b)
<1>1. ASSUME NEW w \in Worker, SweepStep(w) \/ Abort(w) \/ Crash(w)
      PROVE  SafeStep(b) /\ StaysFinished(b)
  <2>1. CASE job'[b] = job[b]
    BY <2>1 DEF SafeStep, StaysFinished
  <2>2. CASE Cancels(b)
    BY <2>2 DEF Cancels, SafeStep, StaysFinished, Active, Terminal
  <2>3. CASE Claims(w, b)
    <3>1. job[b].lease \in Int /\ age[w] \in Nat
      BY DEF TypeInv, TypeOK, JobRow, Actor
    <3> QED
      BY <2>3, <3>1 DEF Claims, Claimable, Now, SafeStep, StaysFinished, Terminal
  <2>4. CASE Returns(w, b)
    <3>1. job[b].status = "processing" /\ job[b].token = w
      BY <2>4 DEF Returns, OwnsClaim
    <3>2. work'[w] # work[w]
      BY <2>4 DEF Returns, Todo
    <3> QED
      BY <3>1, <3>2 DEF SafeStep, StaysFinished, Terminal
  <2>5. CASE Forgot(w, b)
    BY <2>5 DEF Forgot, SafeStep, StaysFinished
  <2> QED
    BY <1>1, <2>1, <2>2, <2>3, <2>4, <2>5, SweptRow
<1>2. CASE ReadExisting \/ ImportStep \/ ImportCrash \/ \E c \in Book : RemoveBook(c)
  <2>1. job'[b] = job[b] \/ Imports(b)
    BY <1>2, OtherRow
  <2> QED
    BY <2>1 DEF Imports, SafeStep, StaysFinished
<1>3. CASE Tick
  BY <1>3, TickDoes DEF SafeStep, StaysFinished
<1>4. CASE UNCHANGED vars
  BY <1>4 DEF vars, SafeStep, StaysFinished
<1> QED
  BY <1>1, <1>2, <1>3, <1>4 DEF Next

LEMMA JobsAreKept == Spec => [](TypeInv /\ JobInv)
<1>1. TypeInv /\ JobInv /\ [Next]_vars => JobInv'
  <2>1. ASSUME UNCHANGED vars, JobInv PROVE JobInv'
    BY <2>1 DEF vars, JobInv, JobsInHand, OwnsClaim, Todo
  <2> QED
    BY <2>1, JobsKept
<1> QED
  BY <1>1, InitType, NextType, JobsAtFirst, PTL DEF Spec

\* For any number of sweeps, books, ISBNs and ticks: no step ends an unexpired
\* claim on a wanted job but one of the sweep that holds it or an import that
\* names the book.
THEOREM ClaimsStaySafe == Spec => ClaimsAreSafe
<1>1. TypeInv /\ JobInv /\ [Next]_vars => [\A b \in Book :
        \/ job[b].status # "processing"
        \/ job'[b].status = "processing" /\ job'[b].token \in {job[b].token, Gone}
        \/ job[b].lease <= 0
        \/ \E w \in Worker : job[b].token = w /\ work'[w] # work[w]
        \/ import.book = b /\ import' # import
        \/ ~Importable(b)]_vars
  BY StepsAreSafe DEF SafeStep
<1> QED
  BY <1>1, JobsAreKept, PTL DEF Spec, ClaimsAreSafe

\* No step, of a late sweep or of another, changes a job that has finished but
\* an import that names its book.
THEOREM FinishedJobsStay == Spec => FinishedStays
<1>1. TypeInv /\ JobInv /\ [Next]_vars => [\A b \in Book :
        job[b].status \in Terminal =>
            \/ job'[b].status = job[b].status /\ job'[b].attempts = job[b].attempts
            \/ import.book = b /\ import' # import]_vars
  BY StepsAreSafe DEF StaysFinished
<1> QED
  BY <1>1, JobsAreKept, PTL DEF Spec, FinishedStays

-----------------------------------------------------------------------------
(************************ outcomes are true ********************************)

\* A book loses neither metadata nor cover.
BookGrows(b) ==
    /\ book[b].provider # None => book'[b].provider # None
    /\ book[b].cover # None => book'[b].cover # None

LEMMA EnrichedRow ==
    ASSUME NEW row \in BookRow, NEW i \in Isbn, NEW c
    PROVE  LET r == Enriched(row, i, c) IN
           /\ r.state = row.state /\ r.isbn = row.isbn /\ r.provider # None
           /\ r.cover = IF row.cover = None THEN c ELSE row.cover
<1>1. i # None
  BY NullAssumption
<1> QED
  BY <1>1 DEF Enriched, Coalesce, BookRow

\* What applyMetadata leaves in the books.
LEMMA AppliedBooks ==
    ASSUME TypeInv, JobInv, NEW w \in Worker, applyMetadata(w), NEW b \in Book
    PROVE  /\ \/ book'[b] = book[b]
              \/ /\ book'[b].provider # None
                 /\ book'[b].cover = IF book[b].cover = None
                        THEN IF HasCover(w, b) THEN work[w].claim[b].isbn ELSE None
                        ELSE book[b].cover
                 /\ work[w].claim[b].isbn \in Isbn
           /\ pc'[w] = "finish" /\ work'[w].cur = b =>
                 /\ book'[b].provider # None
                 /\ HasCover(w, b) => book'[b].cover # None
<1>1. PICK c \in Todo(w) :
         /\ work'[w].cur = c
         /\ \/ /\ pc'[w] = "finish"
               /\ book' = [book EXCEPT ![c] =
                            Enriched(book[c], work[w].claim[c].isbn,
                                     IF HasCover(w, c) THEN work[w].claim[c].isbn ELSE None)]
            \/ pc'[w] = "cancel" /\ book' = book
  BY applyMetadataDoes DEF GoesTo
<1>2. c \in Book /\ work[w].claim[c].isbn \in Isbn /\ book \in [Book -> BookRow]
  BY DEF JobInv, JobsInHand, Todo, TypeInv, TypeOK
<1>3. CASE book' = book
  <2>1. pc'[w] = "cancel" \/ book[c] = Enriched(book[c], work[w].claim[c].isbn,
                                     IF HasCover(w, c) THEN work[w].claim[c].isbn ELSE None)
    BY <1>1, <1>2, <1>3
  <2> QED
    BY <1>1, <1>2, <1>3, <2>1, EnrichedRow, NullAssumption
<1>4. CASE book' # book
  <2>1. book'[b] = IF b = c THEN Enriched(book[b], work[w].claim[b].isbn,
                                     IF HasCover(w, b) THEN work[w].claim[b].isbn ELSE None)
                            ELSE book[b]
    BY <1>1, <1>2, <1>4
  <2> QED
    BY <1>1, <1>2, <2>1, EnrichedRow, NullAssumption
<1> QED
  BY <1>3, <1>4

LEMMA SweptBooks ==
    ASSUME TypeInv, JobInv, NEW w \in Worker, SweepStep(w) \/ Abort(w) \/ Crash(w), NEW b \in Book
    PROVE  BookGrows(b)
<1>1. CASE applyMetadata(w)
  BY <1>1, AppliedBooks DEF BookGrows
<1>2. CASE ~applyMetadata(w)
  <2>1. book' = book
    BY <1>2 DEF SweepStep, Start, claimJobs, LockIsbns, DeferUnlocked, NothingLocked, Lookup,
                Download, RetryAfterLookup, CompleteNotFound, CancelUnapplied, FinishJob,
                CheckCover, DeleteCover, ReleaseLocks, Abort, Crash, rows
  <2> QED
    BY <2>1 DEF BookGrows
<1> QED
  BY <1>1, <1>2

\* Others change a book by an import, which takes its job from whoever has it,
\* or by its removal, which leaves what is known of it.
LEMMA OtherBooks ==
    ASSUME TypeInv, JobInv, ReadExisting \/ ImportStep \/ ImportCrash \/ \E c \in Book : RemoveBook(c),
           NEW b \in Book
    PROVE  \/ /\ book'[b].provider = book[b].provider /\ book'[b].cover = book[b].cover
              /\ job'[b] = job[b]
           \/ Imports(b) /\ job'[b].status \in {"none", "pending", "cancelled"}
<1>1. CASE WriteRecord
  <2>1. CASE b = import.book
    <3>1. job[b] \in JobRow /\ job'[b] = ImportedJob(job[b]) /\ Imports(b)
      <4>1. None # b
        BY NullAssumption
      <4> QED
        BY <1>1, <2>1, <4>1, WrittenRow DEF Imports, TypeInv, TypeOK
    <3> QED
      BY <3>1, ImportedRow
  <2>2. CASE b # import.book
    BY <1>1, <2>2, WrittenRow
  <2> QED
    BY <2>1, <2>2
<1>2. CASE \E c \in Book : RemoveBook(c)
  <2>1. PICK c \in Book : RemoveBook(c)
    BY <1>2
  <2>2. book[b] \in BookRow /\ book' = [book EXCEPT ![c].state = "removed"] /\ job' = job
    BY <2>1 DEF TypeInv, TypeOK, RemoveBook
  <2> QED
    BY <2>2 DEF BookRow
<1>3. CASE ReadExisting \/ LockOrphan \/ CheckOrphan \/ DeleteOrphan \/ UnlockOrphan \/ ImportCrash
  BY <1>3 DEF ReadExisting, LockOrphan, CheckOrphan, DeleteOrphan, UnlockOrphan, ImportCrash, rows
<1> QED
  BY <1>1, <1>2, <1>3 DEF ImportStep

LEMMA AppliedAtFirst == Init => AppliedStays /\ OutcomeIsTrue
<1> SUFFICES ASSUME Init PROVE AppliedStays /\ OutcomeIsTrue
  OBVIOUS
<1>1. \A w \in Worker : pc[w] = "idle"
  BY DEF Init, Actor
<1>2. \A b \in Book : job[b].status \in {"none", "pending"}
  <2>1. PICK isbn \in [Book -> IsbnOrNull] :
          job = [b \in Book |-> IF isbn[b] = None THEN NoJob
                       ELSE [NoJob EXCEPT !.status = "pending", !.isbn = isbn[b]]]
    BY DEF Init
  <2> QED
    BY <2>1 DEF NoJob
<1> QED
  BY <1>1, <1>2 DEF AppliedStays, OutcomeIsTrue

LEMMA AppliedKept ==
    ASSUME TypeInv, JobInv, AppliedStays, [Next]_vars
    PROVE  AppliedStays'
<1> SUFFICES ASSUME NEW v \in Worker, pc'[v] = "finish", OwnsClaim(v, work[v].cur)'
             PROVE  /\ book'[work'[v].cur].provider # None
                    /\ HasCover(v, work[v].cur)' => book'[work'[v].cur].cover # None
  BY DEF AppliedStays
<1> DEFINE b == work'[v].cur
<1>1. JobInv'
  <2>1. UNCHANGED vars => JobInv'
    BY DEF vars, JobInv, JobsInHand, OwnsClaim, Todo
  <2> QED
    BY <2>1, JobsKept
<1>2. b \in Book
  BY <1>1 DEF JobInv, JobsInHand, Todo
\* Where v stays at this job, it had applied it, and the book can only grow.
<1>3. ASSUME pc[v] = "finish", work'[v] = work[v], OwnsClaim(v, b), BookGrows(b)
      PROVE  /\ book'[b].provider # None
             /\ HasCover(v, work[v].cur)' => book'[b].cover # None
  BY <1>3 DEF AppliedStays, BookGrows, HasCover, FoundFor
<1>4. ASSUME NEW w \in Worker \ {v}, SweepStep(w) \/ Abort(w) \/ Crash(w)
      PROVE  /\ book'[b].provider # None
             /\ HasCover(v, work[v].cur)' => book'[b].cover # None
  <2>1. work'[v] = work[v] /\ pc'[v] = pc[v]
    BY <1>4, SweepFrames DEF Frame
  <2>2. OwnsClaim(v, b)
    BY <1>2, <1>4, SweepsLeaveOthers DEF RowsKept, OwnsClaim
  <2> QED
    BY <1>2, <1>3, <1>4, <2>1, <2>2, SweptBooks
<1>5. ASSUME SweepStep(v) \/ Abort(v) \/ Crash(v)
      PROVE  /\ book'[b].provider # None
             /\ HasCover(v, work[v].cur)' => book'[b].cover # None
  <2>1. CASE applyMetadata(v)
    <3>1. /\ book'[b].provider # None
          /\ HasCover(v, b) => book'[b].cover # None
      BY <1>2, <2>1, AppliedBooks
    <3>2. SameClaims(v) /\ SameFound(v)
      BY <2>1, applyMetadataDoes
    <3> QED
      BY <3>1, <3>2 DEF HasCover, FoundFor, SameClaims, SameFound
  <2>2. CASE Start(v)
    BY <2>2, StartDoes DEF GoesTo
  <2>3. CASE claimJobs(v)
    BY <2>3, claimJobsDoes DEF GoesTo, Ends
  <2>4. CASE LockIsbns(v) \/ DeferUnlocked(v)
    BY <2>4, LockIsbnsDoes, DeferUnlockedDoes DEF GoesTo
  <2>5. CASE NothingLocked(v)
    BY <2>5, Ending DEF NothingLocked, Ends
  <2>6. CASE Lookup(v)
    BY <2>6, LookupDoes DEF GoesTo
  <2>7. CASE Download(v)
    BY <2>7, DownloadDoes DEF GoesTo
  <2>8. CASE RetryAfterLookup(v) \/ CompleteNotFound(v) \/ CancelUnapplied(v) \/ FinishJob(v)
    BY <2>8, FinishingDoes DEF Forgets, GoesTo
  <2>9. CASE CheckCover(v) \/ DeleteCover(v)
    BY <2>9, CoverStepDoes DEF GoesTo
  <2>10. CASE ReleaseLocks(v) \/ Abort(v) \/ Crash(v)
    BY <2>10, ReleaseDoes, AbortDoes, CrashDoes DEF GoesTo, Ends
  <2> QED
    BY <1>5, <2>1, <2>2, <2>3, <2>4, <2>5, <2>6, <2>7, <2>8, <2>9, <2>10 DEF SweepStep
<1>6. CASE ReadExisting \/ ImportStep \/ ImportCrash \/ \E c \in Book : RemoveBook(c)
  <2>1. work'[v] = work[v] /\ pc'[v] = pc[v]
    BY <1>6, ImportDoes DEF RemoveBook
  <2>2. /\ book'[b].provider = book[b].provider /\ book'[b].cover = book[b].cover
        /\ job'[b] = job[b]
    BY <1>2, <1>6, OtherBooks DEF OwnsClaim
  <2> QED
    BY <1>3, <2>1, <2>2 DEF OwnsClaim, BookGrows
<1>7. CASE Tick
  <2>1. work' = work /\ pc' = pc /\ book' = book
    BY <1>7 DEF Tick
  <2>2. OwnsClaim(v, b)
    BY <1>2, <1>7, TickDoes DEF OwnsClaim
  <2> QED
    BY <1>3, <2>1, <2>2 DEF BookGrows
<1>8. CASE UNCHANGED vars
  BY <1>3, <1>8 DEF vars, BookGrows, OwnsClaim
<1> QED
  BY <1>4, <1>5, <1>6, <1>7, <1>8 DEF Next

LEMMA OutcomesKept ==
    ASSUME TypeInv, JobInv, AppliedStays, OutcomeIsTrue, [Next]_vars
    PROVE  OutcomeIsTrue'
<1> SUFFICES ASSUME NEW b \in Book
             PROVE  /\ job'[b].status \in {"completed", "no_cover"} => book'[b].provider # None
                    /\ job'[b].status = "completed" => book'[b].cover # None
  BY DEF OutcomeIsTrue
<1>1. ASSUME job'[b].status = job[b].status, BookGrows(b)
      PROVE  /\ job'[b].status \in {"completed", "no_cover"} => book'[b].provider # None
             /\ job'[b].status = "completed" => book'[b].cover # None
  BY <1>1 DEF OutcomeIsTrue, BookGrows
<1>2. ASSUME NEW w \in Worker, SweepStep(w) \/ Abort(w) \/ Crash(w)
      PROVE  /\ job'[b].status \in {"completed", "no_cover"} => book'[b].provider # None
             /\ job'[b].status = "completed" => book'[b].cover # None
  <2>1. BookGrows(b)
    BY <1>2, SweptBooks
  <2>2. CASE Returns(w, b)
    BY <2>1, <2>2 DEF Returns, AppliedStays, BookGrows
  <2>3. CASE job'[b] = job[b] \/ Forgot(w, b)
    BY <1>1, <2>1, <2>3 DEF Forgot
  <2>4. CASE Cancels(b) \/ Claims(w, b)
    BY <2>4 DEF Cancels, Claims
  <2> QED
    BY <1>2, <2>2, <2>3, <2>4, SweptRow
<1>3. CASE ReadExisting \/ ImportStep \/ ImportCrash \/ \E c \in Book : RemoveBook(c)
  BY <1>1, <1>3, OtherBooks DEF BookGrows
<1>4. CASE Tick
  <2>1. job'[b].status = job[b].status /\ book' = book
    BY <1>4, TickDoes DEF Tick
  <2> QED
    BY <1>1, <2>1 DEF BookGrows
<1>5. CASE UNCHANGED vars
  BY <1>1, <1>5 DEF vars, BookGrows
<1> QED
  BY <1>2, <1>3, <1>4, <1>5 DEF Next

\* A job that says "completed" has a book with metadata and a cover, one that
\* says "no_cover" a book with metadata, whatever imports and sweeps do later.
THEOREM OutcomesAreTrue == Spec => []OutcomeIsTrue
<1>1. TypeInv /\ JobInv /\ AppliedStays /\ OutcomeIsTrue /\ [Next]_vars
        => AppliedStays' /\ OutcomeIsTrue'
  BY AppliedKept, OutcomesKept
<1> QED
  BY <1>1, AppliedAtFirst, JobsAreKept, PTL DEF Spec

-----------------------------------------------------------------------------
(************** what holds while actors keep within their leases ***********)

LEMMA AgesAtFirst == Init => AgesAreBounded
<1>1. Init => age = [a \in Actor |-> 0]
  BY DEF Init
<1> QED
  BY <1>1, TimeAssumption DEF AgesAreBounded

LEMMA AgesKept ==
    ASSUME TypeInv, JobInv, AgesAreBounded, [Next]_vars
    PROVE  AgesAreBounded'
<1> SUFFICES ASSUME NEW a \in Actor PROVE age'[a] <= MaxAge
  BY DEF AgesAreBounded
<1>1. age[a] <= MaxAge /\ age[a] \in Nat /\ MaxAge \in Nat
  BY TimeAssumption DEF AgesAreBounded, TypeInv, TypeOK
<1>2. ASSUME age'[a] \in {0, age[a]} PROVE age'[a] <= MaxAge
  BY <1>1, <1>2
<1>3. ASSUME NEW w \in Worker, SweepStep(w) \/ Abort(w) \/ Crash(w) PROVE age'[a] \in {0, age[a]}
  <2>1. (\E step : Goto(w, step)) \/ EndSweep(w) \/ UNCHANGED age
    BY <1>3 DEF SweepStep, Start, claimJobs, LockIsbns, DeferUnlocked, NothingLocked, Lookup,
                Download, RetryAfterLookup, CompleteNotFound, applyMetadata, CancelUnapplied,
                FinishJob, CheckCover, DeleteCover, ReleaseLocks, Abort, Crash, JobDone
  <2> QED
    BY <2>1 DEF Goto, EndSweep, Stop, TypeInv, TypeOK
<1>4. CASE ReadExisting \/ ImportStep \/ ImportCrash
  BY <1>2, <1>4, ImportDoes DEF Actor
<1>5. CASE \E b \in Book : RemoveBook(b)
  BY <1>2, <1>5 DEF RemoveBook
<1>6. CASE Tick
  <2>1. age'[a] = IF Timed(a) THEN age[a] + 1 ELSE age[a]
    BY <1>6 DEF Tick
  <2>2. Timed(a) => age[a] < MaxAge
    BY <1>6 DEF Tick
  <2> QED
    BY <1>1, <2>1, <2>2
<1>7. CASE UNCHANGED vars
  BY <1>2, <1>7 DEF vars
<1> QED
  BY <1>2, <1>3, <1>4, <1>5, <1>6, <1>7 DEF Next

\* The row that a sweep ends without is not one that it still holds.
LEMMA SweepMoves ==
    ASSUME TypeInv, JobInv, NEW w \in Worker, SweepStep(w) \/ Abort(w) \/ Crash(w)
    PROVE  /\ age'[w] = age[w] \/ pc'[w] = "idle"
           /\ pc'[w] = "release" => failures' = failures + 1
           /\ failures' \in {failures, failures + 1}
<1>0. failures' \in {failures, failures + 1}
  BY DEF SweepStep, Start, claimJobs, LockIsbns, DeferUnlocked, NothingLocked, Lookup,
         Download, RetryAfterLookup, CompleteNotFound, applyMetadata, CancelUnapplied,
         FinishJob, CheckCover, DeleteCover, ReleaseLocks, Abort, Crash, counters
<1>1. CASE Start(w)
  BY <1>0, <1>1, StartDoes DEF GoesTo, Frame
<1>2. CASE claimJobs(w)
  BY <1>0, <1>2, claimJobsDoes DEF GoesTo, Ends
<1>3. CASE LockIsbns(w) \/ DeferUnlocked(w)
  BY <1>0, <1>3, LockIsbnsDoes, DeferUnlockedDoes DEF GoesTo
<1>4. CASE NothingLocked(w)
  BY <1>0, <1>4, Ending DEF NothingLocked, Ends
<1>5. CASE Lookup(w)
  BY <1>0, <1>5, LookupDoes DEF GoesTo
<1>6. CASE Download(w)
  BY <1>0, <1>6, DownloadDoes DEF GoesTo
<1>7. CASE RetryAfterLookup(w) \/ CompleteNotFound(w) \/ CancelUnapplied(w) \/ FinishJob(w)
  BY <1>0, <1>7, FinishingDoes DEF Forgets, GoesTo
<1>8. CASE applyMetadata(w)
  BY <1>0, <1>8, applyMetadataDoes DEF GoesTo
<1>9. CASE CheckCover(w) \/ DeleteCover(w)
  BY <1>0, <1>9, CoverStepDoes DEF GoesTo
<1>10. CASE ReleaseLocks(w) \/ Abort(w) \/ Crash(w)
  BY <1>0, <1>10, ReleaseDoes, AbortDoes, CrashDoes DEF GoesTo, Ends
<1> QED
  BY <1>1, <1>2, <1>3, <1>4, <1>5, <1>6, <1>7, <1>8, <1>9, <1>10 DEF SweepStep

LEMMA AttemptsAtFirst == Init => AttemptsInv
<1> SUFFICES ASSUME Init PROVE \A b \in Book : AttemptsOK(b)
  BY AgesAtFirst DEF AttemptsInv
<1>1. PICK isbn \in [Book -> IsbnOrNull] :
        job = [b \in Book |-> IF isbn[b] = None THEN NoJob
                     ELSE [NoJob EXCEPT !.status = "pending", !.isbn = isbn[b]]]
  BY DEF Init
<1>2. \A b \in Book : job[b].status \in {"none", "pending"} /\ job[b].attempts = 0
  BY <1>1 DEF NoJob
<1>3. failures = 0 /\ MaxAttempts \in Nat \ {0}
  BY CountAssumption DEF Init
<1> QED
  BY <1>2, <1>3 DEF AttemptsOK, Spent, OwnsClaim

LEMMA AttemptsKept ==
    ASSUME MaxAge < Lease, TypeInv, JobInv, AttemptsInv, [Next]_vars
    PROVE  AttemptsInv'
<1> SUFFICES ASSUME NEW b \in Book PROVE AttemptsOK(b)'
  BY AgesKept DEF AttemptsInv
<1>1. /\ job[b] \in JobRow /\ failures \in Nat /\ age \in [Actor -> Nat]
      /\ MaxAttempts \in Nat \ {0} /\ Lease \in Nat /\ MaxAge \in Nat
  BY CountAssumption, TimeAssumption DEF TypeInv, TypeOK
<1>2. JobInv'
  <2>1. UNCHANGED vars => JobInv'
    BY DEF vars, JobInv, JobsInHand, OwnsClaim, Todo
  <2> QED
    BY <2>1, JobsKept
<1>3. AttemptsOK(b)
  BY DEF AttemptsInv
<1>4. None \notin Worker /\ Gone \notin Worker /\ Worker \subseteq Actor
  BY NullAssumption, ActorAssumption DEF Actor
\* A sweep that holds the job has not ended.
<1>5. ASSUME NEW v \in Worker, OwnsClaim(v, b)' PROVE pc'[v] # "idle"
  BY <1>2, <1>5 DEF JobInv, JobsInHand
<1>6. ASSUME job'[b] = job[b], failures' \in {failures, failures + 1},
             \A v \in Worker : /\ age'[v] = age[v] \/ pc'[v] = "idle"
                               /\ pc'[v] = "release" => pc[v] = "release" \/ failures' = failures + 1
      PROVE  AttemptsOK(b)'
  <2>1. Spent(b) => Spent(b)'
    BY <1>1, <1>6 DEF Spent, JobRow
  <2>2. failures' = failures + 1 => Spent(b)'
    BY <1>1, <1>3, <1>6 DEF Spent, JobRow, AttemptsOK
  <2>3. job'[b].attempts <= MaxAttempts + failures'
    BY <1>1, <1>3, <1>6 DEF JobRow, AttemptsOK
  <2> QED
    BY <1>3, <1>5, <1>6, <2>1, <2>2, <2>3 DEF AttemptsOK, OwnsClaim
<1>7. ASSUME NEW w \in Worker, SweepStep(w) \/ Abort(w) \/ Crash(w)
      PROVE  AttemptsOK(b)'
  <2>0. failures' \in {failures, failures + 1}
    BY <1>7, SweepMoves
  <2>1. CASE job'[b] = job[b]
    <3>1. \A v \in Worker : /\ age'[v] = age[v] \/ pc'[v] = "idle"
                            /\ pc'[v] = "release" => pc[v] = "release" \/ failures' = failures + 1
      BY <1>7, SweepMoves, SweepFrames DEF Frame
    <3> QED
      BY <1>6, <2>0, <2>1, <3>1
  <2>2. CASE Cancels(b)
    BY <1>1, <1>3, <2>0, <2>2 DEF Cancels, AttemptsOK, OwnsClaim, JobRow
  <2>3. CASE Claims(w, b)
    <3>1. Spent(b)
      <4>1. CASE job[b].status = "processing" /\ job[b].token \in Worker
        <5>1. job[b].lease = Lease - age[job[b].token] /\ age[job[b].token] <= MaxAge
          BY <1>3, <1>4, <4>1 DEF AttemptsOK, OwnsClaim, AttemptsInv, AgesAreBounded
        <5>2. job[b].lease <= -age[w] /\ age[w] \in Nat
          BY <1>1, <1>4, <2>3, <4>1 DEF Claims, Claimable, Now
        <5>3. age[job[b].token] \in Nat
          BY <1>1, <1>4, <4>1
        <5> QED
          BY <1>1, <5>1, <5>2, <5>3
      <4>2. CASE ~(job[b].status = "processing" /\ job[b].token \in Worker)
        BY <1>3, <2>3, <4>2 DEF Claims, Claimable, AttemptsOK
      <4> QED
        BY <4>1, <4>2
    <3>2. job'[b].attempts <= MaxAttempts + failures'
      BY <1>1, <2>0, <2>3, <3>1 DEF Claims, Spent, JobRow
    <3>3. pc'[w] # "release"
      <4>1. b \in Todo(w)'
        BY <2>3 DEF Claims, Todo
      <4> QED
        BY <1>2, <4>1 DEF JobInv, JobsInHand
    <3> QED
      BY <2>3, <3>2, <3>3 DEF Claims, AttemptsOK, OwnsClaim
  <2>4. CASE Returns(w, b)
    <3>1. /\ OwnsClaim(w, b) /\ job'[b].token = None
          /\ \/ job'[b].status \in Terminal /\ job'[b].attempts = job[b].attempts
             \/ /\ job'[b].status = "retrying" /\ job'[b].attempts = job[b].attempts
                /\ work[w].claim[b].attempts < MaxAttempts
             \/ job'[b].status = "retrying" /\ job'[b].attempts = OneLess(job[b].attempts)
      BY <2>4 DEF Returns, GivesBack
    <3>2. job[b].attempts = work[w].claim[b].attempts
      BY <2>4, <3>1 DEF Returns, JobInv, JobsInHand
    <3>3. CASE job'[b].status = "retrying"
      <4>1. Spent(b)'
        BY <1>1, <1>3, <2>0, <3>1, <3>2, <3>3 DEF Spent, AttemptsOK, JobRow, OneLess, Terminal
      <4>2. job'[b].attempts <= MaxAttempts + failures'
        BY <1>1, <1>3, <2>0, <3>1, <3>3 DEF AttemptsOK, JobRow, OneLess, Terminal
      <4> QED
        BY <3>3, <4>1, <4>2 DEF AttemptsOK, OwnsClaim
    <3>4. CASE job'[b].status # "retrying"
      BY <1>1, <1>3, <2>0, <3>1, <3>4 DEF AttemptsOK, JobRow, Terminal, OwnsClaim
    <3> QED
      BY <3>3, <3>4
  <2>5. CASE Forgot(w, b)
    <3>1. Spent(b) => Spent(b)'
      BY <1>1, <2>0, <2>5 DEF Spent, JobRow, Forgot
    <3>2. failures' = failures + 1 => Spent(b)'
      BY <1>1, <1>3, <2>5 DEF Spent, JobRow, AttemptsOK, Forgot
    <3>3. job'[b].attempts <= MaxAttempts + failures'
      BY <1>1, <1>3, <2>0, <2>5 DEF JobRow, AttemptsOK, Forgot
    <3>4. job[b].status = "processing" => Spent(b)'
      <4>1. job[b].status = "processing" => pc[w] = "release" \/ failures' = failures + 1
        BY <2>5 DEF Forgot, JobInv, JobsInHand, OwnsClaim
      <4> QED
        BY <1>3, <2>5, <3>1, <3>2, <4>1 DEF Forgot, AttemptsOK, OwnsClaim
    <3> QED
      BY <1>3, <1>4, <2>5, <3>1, <3>3, <3>4 DEF Forgot, AttemptsOK, OwnsClaim
  <2> QED
    BY <1>7, <2>1, <2>2, <2>3, <2>4, <2>5, SweptRow
<1>8. CASE ReadExisting \/ ImportStep \/ ImportCrash
  <2>1. CASE job'[b] = job[b]
    BY <1>6, <1>8, <2>1, ImportDoes
  <2>2. CASE Imports(b)
    <3>1. failures' \in Nat /\ failures' >= failures
      BY <1>1, <1>8, ImportDoes
    <3>2. job'[b] = ImportedJob(job[b])
      BY <2>2 DEF Imports
    <3> QED
      BY <1>1, <1>3, <3>1, <3>2, ImportedRow DEF AttemptsOK, OwnsClaim, Spent, JobRow
  <2> QED
    BY <1>8, <2>1, <2>2, OtherRow
<1>9. CASE \E c \in Book : RemoveBook(c)
  BY <1>1, <1>6, <1>9 DEF RemoveBook, counters
<1>10. CASE Tick
  <2>1. Spent(b)' <=> Spent(b)
    BY <1>10, TickDoes DEF Spent, Tick, counters
  <2>2. ASSUME NEW v \in Worker, OwnsClaim(v, b)
        PROVE  job'[b].lease = Lease - age'[v]
    <3>1. pc[v] # "idle" /\ v # Importer /\ v \in Actor
      BY <1>4, <2>2, ActorAssumption DEF JobInv, JobsInHand
    <3>2. age'[v] = age[v] + 1
      BY <1>10, <3>1 DEF Tick, Timed
    <3>3. job[b].lease = Lease - age[v] /\ age[v] <= MaxAge
      BY <1>3, <2>2, <3>1 DEF AttemptsOK, AttemptsInv, AgesAreBounded
    <3>4. age[v] \in Nat
      BY <1>1, <3>1
    <3> QED
      BY <1>1, <1>10, <3>2, <3>3, <3>4, TickDoes DEF Earlier, Past
  <2>3. failures' = failures /\ pc' = pc
    BY <1>10 DEF Tick, counters
  <2> QED
    BY <1>3, <1>10, <2>1, <2>2, <2>3, TickDoes DEF AttemptsOK, OwnsClaim
<1>11. CASE UNCHANGED vars
  BY <1>1, <1>6, <1>11 DEF vars
<1> QED
  BY <1>7, <1>8, <1>9, <1>10, <1>11 DEF Next

\* Where every sweep keeps within its lease: a job has used no more attempts
\* than MaxAttempts and one for each crash or database error.
THEOREM AttemptsAreForFailures ==
    ASSUME MaxAge < Lease PROVE Spec => []AttemptsAreSpent
<1>1. TypeInv /\ JobInv /\ AttemptsInv /\ [Next]_vars => AttemptsInv'
  BY AttemptsKept
<1>2. AttemptsInv => AttemptsAreSpent
  BY DEF AttemptsInv, AttemptsOK, AttemptsAreSpent
<1> QED
  BY <1>1, <1>2, AttemptsAtFirst, JobsAreKept, PTL DEF Spec

-----------------------------------------------------------------------------
(********************** no cover is deleted in use *************************)

\* Nobody overruns a lease, so an ISBN is in the hands of one actor.
LeasesLast == MaxAge < Lease /\ MaxAge < CleanupLease

LEMMA Apart ==
    ASSUME LeasesLast, TypeInv, LockInv, AgesAreBounded,
           NEW a \in Actor, NEW c \in Actor, a # c, NEW i \in Believes(a)
    PROVE  i \notin Believes(c)
<1>1. LockExclusion
  BY LockInvExcludes
<1>2. \A d \in Actor : ~(age[d] >= LeaseOf(d))
  <2>1. ASSUME NEW d \in Actor PROVE ~(age[d] >= LeaseOf(d))
    <3>1. age[d] \in Nat /\ age[d] <= MaxAge /\ LeaseOf(d) \in Nat /\ MaxAge < LeaseOf(d)
      BY TimeAssumption DEF TypeInv, TypeOK, AgesAreBounded, LeaseOf, LeasesLast
    <3> QED
      BY <3>1, TimeAssumption
  <2> QED
    BY <2>1
<1> QED
  BY <1>1, <1>2 DEF LockExclusion

LEMMA SweepsApart ==
    ASSUME LeasesLast, TypeInv, LockInv, AgesAreBounded, NEW v \in Worker, NEW w \in Worker, v # w,
           NEW i \in work[v].locked
    PROVE  i \notin work[w].locked
<1>1. v \in Actor /\ w \in Actor /\ v # Importer /\ w # Importer
  BY ActorAssumption DEF Actor
<1>2. Believes(v) = work[v].locked /\ Believes(w) = work[w].locked
  BY <1>1 DEF Believes
<1> QED
  BY <1>1, <1>2, Apart

LEMMA ImportApart ==
    ASSUME LeasesLast, TypeInv, LockInv, AgesAreBounded, NEW v \in Worker,
           pc[Importer] \in {"check", "delete", "release"}
    PROVE  import.orphan \notin work[v].locked
<1>1. v \in Actor /\ Importer \in Actor /\ v # Importer
  BY ActorAssumption DEF Actor
<1>2. Believes(v) = work[v].locked /\ import.orphan \in Believes(Importer)
  BY <1>1 DEF Believes
<1> QED
  BY <1>1, <1>2, Apart

\* A sweep that does not move still has what it found, if the covers it
\* counts on are there and nobody begins to use the one it deletes.
LEMMA CoversStay ==
    ASSUME NEW v \in Worker, CoversInHand(v), work'[v] = work[v], pc'[v] = pc[v],
           \A i \in Isbn : Found(v, i) /\ i \in blobs => i \in blobs',
           pc[v] = "delete" /\ ~isCoverReferenced(work[v].at) => ~isCoverReferenced(work[v].at)'
    PROVE  CoversInHand(v)'
BY DEF CoversInHand, Found, isCoverReferenced

\* A sweep that has forgotten what it found counts on nothing.
LEMMA NothingFound ==
    ASSUME NEW w \in Worker, \A i \in Isbn : work'[w].found[i] = "none",
           pc'[w] \notin {"check", "delete"}
    PROVE  CoversInHand(w)'
BY DEF CoversInHand, Found

LEMMA SameInHand ==
    ASSUME NEW w \in Worker, CoversInHand(w), SameFound(w), UNCHANGED blobs,
           pc'[w] \notin {"check", "delete"}
    PROVE  CoversInHand(w)'
BY DEF CoversInHand, Found, SameFound

\* What a sweep has in hand after a step of its own.
LEMMA SweepsKeepCovers ==
    ASSUME LeasesLast, TypeInv, JobInv, LockInv, CoversInv,
           NEW w \in Worker, SweepStep(w) \/ Abort(w) \/ Crash(w)
    PROVE  CoversInHand(w)'
<1>0. CoversInHand(w) /\ work[w].locked \subseteq Isbn
  BY DEF CoversInv, TypeInv, TypeOK, Memory
<1>1. ASSUME Ends(w) PROVE CoversInHand(w)'
  BY <1>1, EmptyMemory, NothingFound DEF Ends
<1>2. CASE Start(w)
  <2>1. CASE UNCHANGED <<pc, age, work>>
    <3>1. UNCHANGED <<book, blobs>>
      BY <1>2, StartDoes
    <3> QED
      BY <1>0, <2>1, <3>1, CoversStay DEF isCoverReferenced
  <2>2. CASE GoesTo(w, "claim") /\ SameClaims(w) /\ SameFound(w)
    BY <1>0, <1>2, <2>2, StartDoes, SameInHand DEF GoesTo
  <2> QED
    BY <1>2, <2>1, <2>2, StartDoes
<1>3. CASE claimJobs(w)
  BY <1>1, <1>3, claimJobsDoes, NothingFound DEF GoesTo
<1>4. CASE LockIsbns(w)
  <2>1. \A i \in Isbn : work[w].found[i] = "none"
    BY <1>0, <1>4, LockIsbnsDoes DEF CoversInHand, LockInv
  <2> QED
    BY <1>4, <2>1, LockIsbnsDoes, NothingFound DEF GoesTo
<1>5. CASE DeferUnlocked(w)
  BY <1>0, <1>5, DeferUnlockedDoes, SameInHand DEF GoesTo
<1>6. CASE NothingLocked(w)
  BY <1>1, <1>6, Ending DEF NothingLocked
<1>7. CASE Lookup(w)
  <2>1. /\ blobs' = blobs /\ work'[w].locked = work[w].locked /\ pc'[w] \in {"download", "process"}
        /\ \A i \in Isbn : /\ work'[w].found[i] # "none" => i \in work[w].locked
                           /\ Found(w, i)' => i \in blobs
    BY <1>7, LookupDoes DEF rows, GoesTo
  <2> QED
    BY <2>1 DEF CoversInHand, Found
<1>8. CASE Download(w)
  <2>1. /\ blobs \subseteq blobs' /\ work'[w].locked = work[w].locked /\ pc'[w] = "process"
        /\ \A i \in Isbn : \/ work'[w].found[i] = work[w].found[i]
                           \/ work[w].found[i] = "bare" /\ i \in blobs'
    BY <1>8, DownloadDoes DEF GoesTo
  <2> QED
    BY <1>0, <2>1 DEF CoversInHand, Found
<1>9. CASE RetryAfterLookup(w) \/ CompleteNotFound(w) \/ CancelUnapplied(w) \/ FinishJob(w)
  <2>1. PICK b \in Todo(w) : Forgets(w, b) /\ blobs' = blobs
    BY <1>9, FinishingDoes
  <2>2. \A i \in Isbn :
          /\ work'[w].found[i] # "none" => i \in work'[w].locked
          /\ Found(w, i)' => i \in blobs'
    BY <1>0, <2>1 DEF Forgets, CoversInHand, Found
  <2>3. CASE GoesTo(w, "process")
    <3>1. pc'[w] = "process"
      BY <2>3 DEF GoesTo
    <3> QED
      BY <2>2, <3>1 DEF CoversInHand, Found
  <2>4. CASE GoesTo(w, "check")
    <3>1. work'[w].at \in work'[w].locked /\ work'[w].found[work'[w].at] = "none"
      BY <1>0, <2>1, <2>4 DEF Forgets, GoesTo, CoversInHand
    <3>2. pc'[w] = "check"
      BY <2>4 DEF GoesTo
    <3> QED
      BY <2>2, <3>1, <3>2 DEF CoversInHand, Found
  <2> QED
    BY <2>1, <2>3, <2>4 DEF Forgets
<1>10. CASE applyMetadata(w)
  BY <1>0, <1>10, applyMetadataDoes, SameInHand DEF GoesTo
<1>11. CASE CheckCover(w) \/ DeleteCover(w)
  <2>0. /\ pc[w] \in {"check", "delete"} /\ SameFound(w) /\ UNCHANGED book
        /\ \/ /\ GoesTo(w, "process") /\ blobs' \in {blobs, blobs \ {work[w].at}}
              /\ blobs' # blobs => pc[w] = "delete"
           \/ /\ GoesTo(w, "delete") /\ blobs' = blobs /\ work'[w].at = work[w].at
              /\ ~isCoverReferenced(work[w].at)
    BY <1>11, CoverStepDoes
  <2>1. CASE GoesTo(w, "process") /\ blobs' \in {blobs, blobs \ {work[w].at}}
    BY <1>0, <2>0, <2>1 DEF CoversInHand, Found, SameFound, GoesTo
  <2>2. CASE /\ GoesTo(w, "delete") /\ blobs' = blobs /\ work'[w].at = work[w].at
             /\ ~isCoverReferenced(work[w].at)
    BY <1>0, <2>0, <2>2 DEF CoversInHand, Found, SameFound, GoesTo, isCoverReferenced
  <2> QED
    BY <2>0, <2>1, <2>2
<1>12. CASE ReleaseLocks(w) \/ Crash(w)
  BY <1>1, <1>12, ReleaseDoes, CrashDoes
<1>13. CASE Abort(w)
  BY <1>13, AbortDoes, EmptyMemory, NothingFound DEF GoesTo
<1> QED
  BY <1>2, <1>3, <1>4, <1>5, <1>6, <1>7, <1>8, <1>9, <1>10, <1>11, <1>12, <1>13 DEF SweepStep

LEMMA CoversAtFirst == Init => CoversInv
<1> SUFFICES ASSUME Init PROVE CoversInv
  OBVIOUS
<1>1. \A w \in Worker : CoversInHand(w)
  <2>1. \A w \in Worker : pc[w] = "idle" /\ work[w] = NoWork
    BY DEF Init, Actor
  <2> QED
    BY <2>1, EmptyMemory DEF CoversInHand, Found
<1>2. pc[Importer] = "idle"
  BY DEF Init, Actor
<1>3. NoDanglingCover
  <2>1. PICK isbn \in [Book -> IsbnOrNull] :
          book = [b \in Book |-> IF isbn[b] = None THEN NoBook
                       ELSE [NoBook EXCEPT !.state = "owned", !.isbn = isbn[b]]]
    BY DEF Init
  <2>2. \A b \in Book : book[b].cover = None
    BY <2>1 DEF NoBook
  <2> QED
    BY <2>2 DEF NoDanglingCover
<1> QED
  BY <1>1, <1>2, <1>3, AgesAtFirst DEF CoversInv

\* A step that neither deletes nor newly uses a cover.
LEMMA QuietCovers ==
    ASSUME CoversInv, blobs \subseteq blobs',
           \A b \in Book : book'[b].cover \in {None, book[b].cover}
    PROVE  /\ NoDanglingCover'
           /\ \A i \in Isbn : ~isCoverReferenced(i) => ~isCoverReferenced(i)'
<1>1. \A i \in Isbn : ~isCoverReferenced(i) => ~isCoverReferenced(i)'
  BY NullAssumption DEF isCoverReferenced
<1>2. NoDanglingCover'
  BY DEF CoversInv, NoDanglingCover
<1> QED
  BY <1>1, <1>2

LEMMA SweepCovers ==
    ASSUME LeasesLast, TypeInv, JobInv, LockInv, CoversInv, [Next]_vars,
           NEW w \in Worker, SweepStep(w) \/ Abort(w) \/ Crash(w)
    PROVE  CoversInv'
<1>1. AgesAreBounded' /\ CoversInHand(w)' /\ AgesAreBounded
  BY AgesKept, SweepsKeepCovers DEF CoversInv
<1>2. \A v \in Worker \ {w} : work'[v] = work[v] /\ pc'[v] = pc[v] /\ CoversInHand(v)
  BY SweepFrames DEF Frame, CoversInv
<1>3. pc'[Importer] = pc[Importer] /\ import' = import
  BY SweepFrames DEF Frame
<1>4. \A v \in Worker : work[v].locked \subseteq Isbn
  BY DEF TypeInv, TypeOK, Memory
<1>5. pc[Importer] = "delete" => import.orphan \in Isbn
  BY DEF LockInv
<1>6. \A v \in Worker : pc[v] = "delete" => work[v].at \in work[v].locked
  BY DEF CoversInv, CoversInHand
<1>7. CASE applyMetadata(w)
  <2>1. blobs' = blobs /\ CoversInHand(w) /\ pc[w] = "process"
    BY <1>7, applyMetadataDoes DEF CoversInv
  \* What a book newly refers to is in the hands of w, and stored.
  <2>2. ASSUME NEW b \in Book, book'[b].cover # book[b].cover
        PROVE  book'[b].cover = None \/ book'[b].cover \in work[w].locked \cap blobs
    <3>1. /\ book'[b].cover = IF book[b].cover = None
                        THEN IF HasCover(w, b) THEN work[w].claim[b].isbn ELSE None
                        ELSE book[b].cover
          /\ work[w].claim[b].isbn \in Isbn
      BY <1>7, <2>2, AppliedBooks
    <3>2. HasCover(w, b) => Found(w, work[w].claim[b].isbn)
      BY DEF HasCover, FoundFor, Found
    <3> QED
      BY <2>1, <2>2, <3>1, <3>2 DEF CoversInHand, Found
  <2>3. ASSUME NEW i \in Isbn, i \notin work[w].locked, ~isCoverReferenced(i) PROVE ~isCoverReferenced(i)'
    BY <2>2, <2>3, NullAssumption DEF isCoverReferenced
  <2>4. ASSUME NEW v \in Worker \ {w} PROVE CoversInHand(v)'
    <3>1. pc[v] = "delete" => work[v].at \in Isbn /\ work[v].at \notin work[w].locked
      BY <1>1, <1>4, <1>6, SweepsApart
    <3> QED
      BY <1>2, <2>1, <2>3, <3>1, CoversStay
  <2>5. pc'[Importer] = "delete" => ~isCoverReferenced(import.orphan)'
    <3>1. pc[Importer] = "delete" => import.orphan \notin work[w].locked
      BY <1>1, ImportApart
    <3>2. pc[Importer] = "delete" => ~isCoverReferenced(import.orphan)
      BY DEF CoversInv
    <3>3. pc[Importer] = "delete" => ~isCoverReferenced(import.orphan)'
      <4>1. SUFFICES ASSUME pc[Importer] = "delete" PROVE ~ \E b \in Book : book'[b].cover = import.orphan
        BY <1>3 DEF isCoverReferenced
      <4>2. \A b \in Book : book[b].cover # import.orphan
        BY <3>2, <4>1 DEF isCoverReferenced
      <4> QED
        BY <1>5, <2>2, <3>1, <4>1, <4>2, NullAssumption
    <3> QED
      BY <1>3, <3>3 DEF isCoverReferenced
  <2>6. NoDanglingCover'
    BY <2>1, <2>2 DEF CoversInv, NoDanglingCover
  <2> QED
    BY <1>1, <2>4, <2>5, <2>6 DEF CoversInv, isCoverReferenced
<1>8. CASE ~applyMetadata(w)
  <2>1. book' = book
    BY <1>8 DEF SweepStep, Start, claimJobs, LockIsbns, DeferUnlocked, NothingLocked, Lookup,
                Download, RetryAfterLookup, CompleteNotFound, CancelUnapplied, FinishJob,
                CheckCover, DeleteCover, ReleaseLocks, Abort, Crash, rows
  <2>2. \A i : isCoverReferenced(i)' <=> isCoverReferenced(i)
    BY <2>1 DEF isCoverReferenced
  <2>3. pc'[Importer] = "delete" => ~isCoverReferenced(import.orphan)'
    BY <1>3, <2>1 DEF CoversInv, isCoverReferenced
  \* A cover that is deleted is in the hands of w and nobody refers to it.
  <2>4. /\ blobs \subseteq blobs' \cup {work[w].at}
        /\ ~(blobs \subseteq blobs') => pc[w] = "delete"
    <3>1. CASE CheckCover(w) \/ DeleteCover(w)
      BY <3>1, CoverStepDoes
    <3>2. CASE ~(CheckCover(w) \/ DeleteCover(w))
      <4>1. blobs \subseteq blobs'
        BY <1>8, <3>2 DEF SweepStep, Start, claimJobs, LockIsbns, DeferUnlocked, NothingLocked,
                Lookup, Download, RetryAfterLookup, CompleteNotFound, CancelUnapplied,
                FinishJob, ReleaseLocks, Abort, Crash, rows
      <4> QED
        BY <4>1
    <3> QED
      BY <3>1, <3>2
  <2>5. ASSUME NEW v \in Worker \ {w} PROVE CoversInHand(v)'
    <3>1. ASSUME NEW i \in Isbn, Found(v, i), i \in blobs PROVE i \in blobs'
      <4>1. i \in work[v].locked
        BY <1>2, <3>1 DEF CoversInHand, Found
      <4>2. pc[w] = "delete" => i # work[w].at
        BY <1>1, <1>6, <4>1, SweepsApart
      <4> QED
        BY <2>4, <3>1, <4>2
    <3>2. ~isCoverReferenced(work[v].at) => ~isCoverReferenced(work[v].at)'
      BY <1>2, <2>1 DEF isCoverReferenced
    <3> QED
      BY <1>2, <3>1, <3>2, CoversStay
  <2>6. NoDanglingCover'
    <3>1. pc[w] = "delete" => ~isCoverReferenced(work[w].at)
      BY DEF CoversInv, CoversInHand
    <3>2. \A b \in Book : book[b].cover # None => book[b].cover \in blobs
      BY DEF CoversInv, NoDanglingCover
    <3> QED
      BY <2>1, <2>4, <3>1, <3>2 DEF NoDanglingCover, isCoverReferenced
  <2> QED
    BY <1>1, <1>3, <2>3, <2>5, <2>6 DEF CoversInv, isCoverReferenced
<1> QED
  BY <1>7, <1>8

LEMMA CoversKept ==
    ASSUME LeasesLast, TypeInv, JobInv, LockInv, CoversInv, [Next]_vars
    PROVE  CoversInv'
<1>0. /\ AgesAreBounded' /\ AgesAreBounded
      /\ \A v \in Worker : CoversInHand(v) /\ work[v].locked \subseteq Isbn
      /\ \A v \in Worker : pc[v] = "delete" => work[v].at \in Isbn
      /\ NoDanglingCover
  <2>1. \A v \in Worker : work[v].locked \subseteq Isbn
    BY DEF TypeInv, TypeOK, Memory
  <2> QED
    BY <2>1, AgesKept DEF CoversInv, CoversInHand
<1>1. ASSUME work' = work, \A v \in Worker : pc'[v] = pc[v], blobs \subseteq blobs',
             \A b \in Book : book'[b].cover \in {None, book[b].cover},
             pc'[Importer] = "delete" => /\ import'.orphan = import.orphan /\ import.orphan \in Isbn
                                         /\ ~isCoverReferenced(import.orphan)
      PROVE  CoversInv'
  <2>1. NoDanglingCover' /\ \A i \in Isbn : ~isCoverReferenced(i) => ~isCoverReferenced(i)'
    BY <1>1, QuietCovers
  <2>2. ASSUME NEW v \in Worker PROVE CoversInHand(v)'
    BY <1>0, <1>1, <2>1, CoversStay
  <2>3. pc'[Importer] = "delete" => ~isCoverReferenced(import.orphan)'
    BY <1>1, <2>1 DEF isCoverReferenced
  <2> QED
    BY <1>0, <2>1, <2>2, <2>3 DEF CoversInv, isCoverReferenced
<1>2. ASSUME NEW w \in Worker, SweepStep(w) \/ Abort(w) \/ Crash(w) PROVE CoversInv'
  BY <1>2, SweepCovers
<1>3. pc \in [Actor -> Steps] /\ Importer \in Actor
  BY DEF TypeInv, TypeOK, Actor
<1>4. CASE ReadExisting
  <2>1. pc'[Importer] = "write" /\ UNCHANGED <<book, blobs>>
    BY <1>3, <1>4 DEF ReadExisting, Goto, rows
  <2> QED
    BY <1>1, <1>4, <2>1, ImportDoes
<1>5. CASE WriteRecord
  <2>1. pc'[Importer] # "delete"
    BY <1>3, <1>5 DEF WriteRecord, Goto
  <2>2. ASSUME NEW b \in Book PROVE book'[b].cover \in {None, book[b].cover}
    <3>1. book[b] \in BookRow
      BY DEF TypeInv, TypeOK
    <3>2. book'[b] = book[b] \/ book'[b] = ImportedBook(book[b])
      BY <1>5, WrittenRow
    <3>3. ImportedBook(book[b]).cover \in {None, book[b].cover}
      BY <3>1 DEF ImportedBook, NoBook, BookRow
    <3> QED
      BY <3>2, <3>3
  <2>3. blobs' = blobs
    BY <1>5 DEF WriteRecord
  <2> QED
    BY <1>1, <1>5, <2>1, <2>2, <2>3, ImportDoes DEF ImportStep
<1>6. CASE LockOrphan \/ UnlockOrphan \/ ImportCrash
  <2>1. pc'[Importer] # "delete" /\ UNCHANGED <<book, blobs>>
    BY <1>3, <1>6 DEF LockOrphan, UnlockOrphan, ImportCrash, EndImport, Stop, Goto
  <2> QED
    BY <1>1, <1>6, <2>1, ImportDoes DEF ImportStep
<1>7. CASE CheckOrphan
  <2>1. /\ UNCHANGED <<book, blobs, import>> /\ import.orphan \in Isbn
        /\ pc'[Importer] = "delete" => ~isCoverReferenced(import.orphan)
    BY <1>3, <1>7 DEF CheckOrphan, rows, Goto, LockInv
  <2> QED
    BY <1>1, <1>7, <2>1, ImportDoes DEF ImportStep
<1>8. CASE DeleteOrphan
  <2>1. /\ pc[Importer] = "delete" /\ pc'[Importer] = "release" /\ book' = book
        /\ blobs' \in {blobs, blobs \ {import.orphan}}
    BY <1>3, <1>8 DEF DeleteOrphan, Goto
  <2>2. work' = work /\ \A v \in Worker : pc'[v] = pc[v]
    BY <1>8, ImportDoes DEF ImportStep
  <2>3. ASSUME NEW v \in Worker PROVE CoversInHand(v)'
    <3>1. \A i \in Isbn : Found(v, i) => i # import.orphan
      BY <1>0, <2>1, ImportApart DEF CoversInHand, Found
    <3>2. ~isCoverReferenced(work[v].at) => ~isCoverReferenced(work[v].at)'
      BY <2>1, <2>2 DEF isCoverReferenced
    <3> QED
      BY <1>0, <2>1, <2>2, <3>1, <3>2, CoversStay
  <2>4. NoDanglingCover'
    <3>1. ~isCoverReferenced(import.orphan)
      BY <2>1 DEF CoversInv
    <3> QED
      BY <1>0, <2>1, <3>1 DEF NoDanglingCover, isCoverReferenced
  <2> QED
    BY <1>0, <2>1, <2>3, <2>4 DEF CoversInv
<1>9. CASE \E b \in Book : RemoveBook(b)
  <2>1. PICK b \in Book : RemoveBook(b)
    BY <1>9
  <2>2. ASSUME NEW c \in Book PROVE book'[c].cover = book[c].cover
    <3>1. book[c] \in BookRow /\ book' = [book EXCEPT ![b].state = "removed"]
      BY <2>1 DEF TypeInv, TypeOK, RemoveBook
    <3> QED
      BY <3>1 DEF BookRow
  <2>3. UNCHANGED <<blobs, pc, work, import>>
    BY <2>1 DEF RemoveBook
  <2> QED
    BY <1>1, <2>2, <2>3 DEF CoversInv, LockInv
<1>10. CASE Tick \/ UNCHANGED vars
  <2>1. UNCHANGED <<book, blobs, pc, work, import>>
    BY <1>10 DEF Tick, vars
  <2> QED
    BY <1>1, <2>1 DEF CoversInv, LockInv
<1> QED
  BY <1>2, <1>4, <1>5, <1>6, <1>7, <1>8, <1>9, <1>10 DEF Next, ImportStep

\* Where every actor keeps within its lease: a cover that a book refers to is
\* stored, however many sweeps and imports clean up at the same time.
THEOREM NoCoverDangles ==
    ASSUME LeasesLast PROVE Spec => []NoDanglingCover
<1>1. TypeInv /\ JobInv /\ LockInv /\ CoversInv /\ [Next]_vars => CoversInv'
  BY CoversKept
<1>2. CoversInv => NoDanglingCover
  BY DEF CoversInv
<1> QED
  BY <1>1, <1>2, CoversAtFirst, JobsAreKept, InitLock, NextLock, PTL DEF Spec

=============================================================================
