---------------------- MODULE CanonicalEnrichmentProofs ----------------------
(* That enrichments of canonical books keep their types, run one at a time   *)
(* per book, settle only what they hold, report the truth and keep the       *)
(* covers that are counted on: for any books, requests, sweeps and leases.   *)
EXTENDS CanonicalEnrichment, FiniteSetTheorems, SequenceTheorems, TLAPS

\* The claim of a: the row names it, and has the lease it wrote.
Holds(a, b) ==
    /\ job[b].status = "processing"
    /\ job[b].token = a
    /\ job[b].lease = work[a].now + Lease

InTime(a) == pc[a] \in Working /\ clock < work[a].now + Lease

\* What an actor has in memory fits its step.
Fits(a) ==
    /\ pc[a] # "idle" => work[a].todo # <<>>
    /\ pc[a] \in Working \cup {"claim"} => work[a].now <= clock
    /\ pc[a] \in {"next", "ensure", "claim", "lookup", "download"} => work[a].cover = "none"
    /\ pc[a] = "complete" =>
         /\ work[a].outcome \in {"completed", "no_cover"}
         /\ work[a].outcome = "completed" => book[Current(a)] = "covered"
MemoryOK == \A a \in Actor : Fits(a)

\* A row names the run that holds its claim, and none when it is not claimed.
TokensAreHeld ==
    /\ \A a \in Actor, b \in Book :
          job[b].token = a => pc[a] \in Working /\ Current(a) = b /\ Holds(a, b)
    /\ \A b \in Book : job[b].status = "processing" => job[b].lease \in Nat

\* A run whose lease lasts still holds its claim.
InTimeHolds == \A a \in Actor : InTime(a) => Holds(a, Current(a))

AttemptsAreCounted == \A b \in Book : job[b].attempts <= MaxAttempts

Inv ==
    /\ TypeOK /\ MemoryOK /\ TokensAreHeld /\ InTimeHolds
    /\ AttemptsAreCounted /\ OutcomeIsTrue

-----------------------------------------------------------------------------
(************************** what the helpers do ****************************)

Steps == {"idle", "next", "ensure", "claim"} \cup Working
Outcomes == {"error", "not_found", "completed", "no_cover"}
Memory == [todo : Seq(Book), stop : Nat, now : Nat,
           cover : {"none", "stored", "fresh"}, outcome : Outcomes]
Row == [status : {"none", "pending", "processing", "retrying"} \cup Terminal,
        attempts : Nat, token : Actor \cup {Gone, None},
        lease : TimeOrNull, due : TimeOrNull]

LEMMA ConstantTypes == NoWork \in Memory /\ NoJob \in Row
BY DEF NoWork, NoJob, Memory, Row, Outcomes, TimeOrNull

\* TypeOK in the names of this module.
LEMMA TypeNames ==
    TypeOK <=> /\ book \in [Book -> {"core", "covered"}]
               /\ job \in [Book -> Row]
               /\ blobs \in SUBSET Book
               /\ clock \in Epoch..Horizon
               /\ pc \in [Actor -> Steps]
               /\ work \in [Actor -> Memory]
               /\ failures \in Nat
BY DEF TypeOK, Row, Steps, Memory, Outcomes

\* Only the actor moves: what the others do and remember stays.
OthersStay(a) == \A c \in Actor \ {a} : pc'[c] = pc[c] /\ work'[c] = work[c]

LEMMA Move ==
    ASSUME TypeOK, NEW a \in Actor, NEW step \in Steps, NEW memory \in Memory,
           Goto(a, step), Remember(a, memory)
    PROVE  /\ pc' \in [Actor -> Steps] /\ work' \in [Actor -> Memory]
           /\ pc'[a] = step /\ work'[a] = memory
           /\ OthersStay(a)
BY TypeNames DEF Goto, Remember, OthersStay

LEMMA MoveOnly ==
    ASSUME TypeOK, NEW a \in Actor, NEW step \in Steps, Goto(a, step), work' = work
    PROVE  /\ pc' \in [Actor -> Steps] /\ work' \in [Actor -> Memory]
           /\ pc'[a] = step /\ work'[a] = work[a]
           /\ OthersStay(a)
BY TypeNames DEF Goto, OthersStay

\* A run that is at work has a book in hand.
LEMMA CurrentType ==
    ASSUME TypeOK, MemoryOK, NEW a \in Actor, pc[a] # "idle"
    PROVE  Current(a) \in Book
<1>1. work[a].todo \in Seq(Book) /\ work[a].todo # <<>>
  BY TypeNames DEF MemoryOK, Fits, Memory
<1> QED
  BY <1>1 DEF Current

\* The tail of a list of more than one.
LEMMA ProperTail ==
    ASSUME NEW S, NEW s \in Seq(S), s # <<>>, Len(s) # 1
    PROVE  Tail(s) \in Seq(S) /\ Tail(s) # <<>> /\ Tail(s) # s
<1>1. Tail(s) \in Seq(S) /\ Len(Tail(s)) = Len(s) - 1 /\ Len(s) \in Nat \ {0}
  BY HeadTailProperties, EmptySeq
<1>2. Len(Tail(s)) # 0 /\ Len(Tail(s)) # Len(s)
  <2>1. \A m, n : n \in Nat \ {0} /\ m = n - 1 /\ n # 1 => m # 0 /\ m # n
    OBVIOUS
  <2> QED
    BY <1>1, <2>1, Zenon
<1>3. Len(<<>>) = 0
  BY EmptySeq
<1> QED
  BY <1>1, <1>2, <1>3, Zenon

\* When a run is done with a book it goes on to the next, with an empty memory.
LEMMA NextBookMoves ==
    ASSUME TypeOK, MemoryOK, NEW a \in Actor, pc[a] # "idle", NextBook(a)
    PROVE  /\ pc' \in [Actor -> Steps] /\ work' \in [Actor -> Memory]
           /\ pc'[a] \in {"idle", "next"}
           /\ pc'[a] = "next" => work'[a].todo # <<>>
           /\ work'[a].cover = "none"
           /\ work'[a] # work[a]
           /\ OthersStay(a)
<1> DEFINE rest == [NoWork EXCEPT !.todo = Tail(work[a].todo), !.stop = work[a].stop]
<1>1. work[a] \in Memory /\ work[a].todo \in Seq(Book) /\ work[a].todo # <<>>
  BY TypeNames DEF MemoryOK, Fits, Memory
<1>2. CASE Len(work[a].todo) = 1
  <2>1. Goto(a, "idle") /\ Remember(a, NoWork) /\ "idle" \in Steps
    BY <1>2 DEF NextBook, Steps
  <2>2. NoWork.todo = <<>> /\ NoWork.cover = "none"
    BY DEF NoWork
  <2> QED
    BY <1>1, <2>1, <2>2, ConstantTypes, Move
<1>3. CASE Len(work[a].todo) # 1
  <2>1. Goto(a, "next") /\ Remember(a, rest) /\ "next" \in Steps
    BY <1>3 DEF NextBook, Steps
  <2>2. Tail(work[a].todo) \in Seq(Book) /\ Tail(work[a].todo) # <<>> /\ Tail(work[a].todo) # work[a].todo
    BY <1>1, <1>3, ProperTail
  <2>3. rest \in Memory /\ rest.todo = Tail(work[a].todo) /\ rest.cover = "none"
    BY <1>1, <2>2 DEF NoWork, Memory, Outcomes
  <2> HIDE DEF rest
  <2> QED
    BY <2>1, <2>2, <2>3, Move
<1> QED
  BY <1>2, <1>3

-----------------------------------------------------------------------------
(********************* what a step of an actor keeps ***********************)

\* No book loses its cover.
CoversStay == \A b \in Book : book[b] = "covered" => book'[b] = "covered"

LEMMA MemoryKept ==
    ASSUME TypeOK, MemoryOK, NEW a \in Actor, OthersStay(a), Fits(a)', clock' = clock, CoversStay
    PROVE  MemoryOK'
<1>1. SUFFICES ASSUME NEW c \in Actor \ {a} PROVE Fits(c)'
  BY DEF MemoryOK
<1>2. pc'[c] = pc[c] /\ work'[c] = work[c] /\ Current(c)' = Current(c)
  BY DEF OthersStay, Current
<1>3. pc[c] # "idle" => Current(c) \in Book
  BY CurrentType
<1> QED
  BY <1>2, <1>3 DEF MemoryOK, Fits, CoversStay, Working

\* A row stays, or the job is queued.
Queued(b) == job[b].status = "none" /\ job'[b] = [NoJob EXCEPT !.status = "pending"]
RowsStay == \A b \in Book : job'[b] = job[b] \/ Queued(b)

\* The actor goes on with its book, or was not at work and is not now.
SameClaim(a) ==
    \/ /\ pc[a] \in Working /\ pc'[a] \in Working
       /\ work'[a].todo = work[a].todo /\ work'[a].now = work[a].now
    \/ pc[a] \notin Working /\ pc'[a] \notin Working

LEMMA QueuedRow ==
    ASSUME NEW b \in Book, Queued(b)
    PROVE  /\ job'[b].status = "pending" /\ job'[b].attempts = 0
           /\ job'[b].token = None /\ job'[b].token \notin Actor
BY NullAssumption DEF Queued, NoJob

LEMMA ClaimsKept ==
    ASSUME Inv, NEW a \in Actor, OthersStay(a), SameClaim(a), RowsStay, clock' = clock
    PROVE  TokensAreHeld' /\ InTimeHolds' /\ AttemptsAreCounted'
<1>1. \A c \in Actor :
        \/ /\ pc[c] \in Working /\ pc'[c] \in Working
           /\ Current(c)' = Current(c) /\ work'[c].now = work[c].now
        \/ pc[c] \notin Working /\ pc'[c] \notin Working
  BY DEF OthersStay, SameClaim, Current
<1>2. \A b \in Book : job'[b].token \in Actor \/ job'[b].status = "processing" => job'[b] = job[b]
  BY QueuedRow DEF RowsStay
<1>3. TokensAreHeld'
  BY <1>1, <1>2 DEF Inv, TokensAreHeld, Holds
<1>4. ASSUME NEW c \in Actor, InTime(c)' PROVE Holds(c, Current(c))'
  <2>1. InTime(c) /\ Current(c)' = Current(c) /\ work'[c].now = work[c].now
    BY <1>1, <1>4 DEF InTime
  <2>2. Current(c) \in Book /\ Holds(c, Current(c))
    BY <2>1, CurrentType DEF Inv, InTimeHolds, InTime, Working
  <2> QED
    BY <2>1, <2>2 DEF Holds, RowsStay, Queued
<1>5. AttemptsAreCounted'
  BY QueuedRow, CountAssumption DEF Inv, AttemptsAreCounted, RowsStay
<1> QED
  BY <1>3, <1>4, <1>5 DEF InTimeHolds

\* The run of the actor lets go of the row it holds, if it holds one.
LetsGo(a) == \A b \in Book :
    IF job[b].token = a
    THEN /\ job'[b].token \in {None, Gone}
         /\ job'[b].status = "processing" => job'[b].lease = job[b].lease
         /\ job'[b].attempts = job[b].attempts
    ELSE job'[b] = job[b]

LEMMA ClaimsReleased ==
    ASSUME Inv, NEW a \in Actor, OthersStay(a), pc'[a] \notin Working, LetsGo(a), clock' = clock
    PROVE  TokensAreHeld' /\ InTimeHolds' /\ AttemptsAreCounted'
<1>1. \A c \in Actor \ {a} : pc'[c] = pc[c] /\ work'[c] = work[c] /\ Current(c)' = Current(c)
  BY DEF OthersStay, Current
<1>2. \A b \in Book : job'[b].token \in Actor => job[b].token # a /\ job'[b] = job[b]
  BY NullAssumption DEF LetsGo
<1>3. ASSUME NEW c \in Actor, NEW b \in Book, job'[b].token = c
      PROVE  pc'[c] \in Working /\ Current(c)' = b /\ Holds(c, b)'
  <2>1. job[b].token = c /\ job'[b] = job[b] /\ c # a
    BY <1>2, <1>3
  <2> QED
    BY <1>1, <2>1 DEF Inv, TokensAreHeld, Holds
<1>4. \A b \in Book : job'[b].status = "processing" => job'[b].lease \in Nat
  BY DEF Inv, TokensAreHeld, LetsGo, Holds
<1>5. ASSUME NEW c \in Actor, InTime(c)' PROVE Holds(c, Current(c))'
  <2>1. c # a /\ InTime(c) /\ Current(c)' = Current(c) /\ work'[c].now = work[c].now
    BY <1>1, <1>5 DEF InTime
  <2>2. Current(c) \in Book /\ Holds(c, Current(c))
    BY <2>1, CurrentType DEF Inv, InTimeHolds, InTime, Working
  <2> QED
    BY <2>1, <2>2 DEF Holds, LetsGo
<1>6. AttemptsAreCounted'
  BY DEF Inv, AttemptsAreCounted, LetsGo
<1> QED
  BY <1>3, <1>4, <1>5, <1>6 DEF TokensAreHeld, InTimeHolds

-----------------------------------------------------------------------------
(***************************** each action *********************************)

\* A step that leaves the job table alone, but for a job it queues.
LEMMA OutcomeKept ==
    ASSUME Inv, CoversStay, RowsStay
    PROVE  OutcomeIsTrue'
BY QueuedRow DEF Inv, OutcomeIsTrue, CoversStay, RowsStay

LEMMA QueuedTypes ==
    ASSUME TypeOK, NEW b \in Book, ensurePending(b)
    PROVE  RowsStay /\ job' \in [Book -> Row]
<1>1. [NoJob EXCEPT !.status = "pending"] \in Row
  BY DEF NoJob, Row, TimeOrNull
<1> QED
  BY <1>1, TypeNames DEF ensurePending, RowsStay, Queued

LEMMA InitInv == Init => Inv
<1> SUFFICES ASSUME Init PROVE Inv
  OBVIOUS
<1>1. Epoch \in Epoch..Horizon
  BY TimeAssumption DEF Init
<1>2. TypeOK
  <2>1. work \in [Actor -> Memory] /\ job \in [Book -> Row] /\ pc \in [Actor -> Steps]
    BY ConstantTypes DEF Init, Steps
  <2> QED
    BY <1>1, <2>1, TypeNames DEF Init
<1>3. MemoryOK
  BY DEF Init, MemoryOK, Fits, NoWork, Working
<1>4. TokensAreHeld /\ InTimeHolds /\ AttemptsAreCounted /\ OutcomeIsTrue
  BY NullAssumption, CountAssumption
     DEF Init, TokensAreHeld, InTimeHolds, InTime, AttemptsAreCounted, OutcomeIsTrue, NoJob, Working
<1> QED
  BY <1>2, <1>3, <1>4 DEF Inv

LEMMA LookupInv == ASSUME Inv, Lookup PROVE Inv'
<1>1. PICK b \in Book : ensurePending(b)
  BY DEF Lookup
<1>2. RowsStay /\ TypeOK' /\ CoversStay
  BY <1>1, QueuedTypes, TypeNames DEF Inv, Lookup, TypeOK, Row, CoversStay
<1>3. MemoryOK'
  BY DEF Inv, Lookup, MemoryOK, Fits, Current
<1>4. OutcomeIsTrue'
  BY <1>2, OutcomeKept
<1>5. TokensAreHeld'
  BY <1>2, QueuedRow DEF Inv, Lookup, TokensAreHeld, Holds, RowsStay, Current
<1>6. AttemptsAreCounted'
  BY <1>2, QueuedRow, CountAssumption DEF Inv, Lookup, AttemptsAreCounted, RowsStay
<1>7. ASSUME NEW c \in Actor, InTime(c)' PROVE Holds(c, Current(c))'
  <2>1. Current(c) \in Book /\ Holds(c, Current(c)) /\ Current(c)' = Current(c)
    BY <1>7, CurrentType DEF Inv, InTimeHolds, InTime, Working, Lookup, Current
  <2> QED
    BY <1>2, <2>1 DEF Holds, RowsStay, Queued, Lookup
<1> QED
  BY <1>2, <1>3, <1>4, <1>5, <1>6, <1>7 DEF Inv, InTimeHolds

\* What the lemmas above leave to show of a step of an actor.
LEMMA StepInv ==
    ASSUME Inv, NEW a \in Actor, OthersStay(a), TypeOK', Fits(a)', SameClaim(a),
           RowsStay, CoversStay, clock' = clock
    PROVE  Inv'
BY MemoryKept, ClaimsKept, OutcomeKept DEF Inv

LEMMA ReleaseInv ==
    ASSUME Inv, NEW a \in Actor, OthersStay(a), TypeOK', Fits(a)', pc'[a] \notin Working,
           LetsGo(a), book' = book, clock' = clock,
           \A b \in Book : job'[b] # job[b] =>
              /\ job'[b].status = "completed" => book[b] = "covered"
              /\ job'[b].status = "failed" => job'[b].attempts = MaxAttempts
    PROVE  Inv'
<1>1. OutcomeIsTrue'
  BY DEF Inv, OutcomeIsTrue
<1> QED
  BY <1>1, MemoryKept, ClaimsReleased DEF Inv, CoversStay

LEMMA ForegroundInv == ASSUME Inv, NEW a \in Actor, Foreground(a) PROVE Inv'
<1>1. PICK b \in Book : Remember(a, [NoWork EXCEPT !.todo = <<b>>])
  BY DEF Foreground
<1> DEFINE memory == [NoWork EXCEPT !.todo = <<b>>]
<1>2. memory \in Memory /\ memory.todo # <<>> /\ memory.cover = "none"
  <2>1. <<b>> \in Seq(Book) /\ <<b>> # <<>>
    OBVIOUS
  <2>2. memory.todo = <<b>>
    BY DEF NoWork
  <2>3. memory.cover = "none" /\ memory \in Memory
    BY <2>1 DEF NoWork, Memory, Outcomes
  <2> QED
    BY <2>1, <2>2, <2>3
<1>3. Goto(a, "ensure") /\ Remember(a, memory) /\ "ensure" \in Steps
  BY <1>1 DEF Foreground, Steps
<1> HIDE DEF memory
<1>4. /\ pc' \in [Actor -> Steps] /\ work' \in [Actor -> Memory] /\ OthersStay(a)
      /\ pc'[a] = "ensure" /\ work'[a] = memory
  BY <1>2, <1>3, Move DEF Inv
<1>5. TypeOK'
  BY <1>4, TypeNames DEF Inv, Foreground, TypeOK, Steps, Memory, Outcomes
<1>6. Fits(a)' /\ SameClaim(a) /\ RowsStay /\ CoversStay
  BY <1>2, <1>4 DEF Fits, SameClaim, RowsStay, CoversStay, Foreground, Working
<1> QED
  BY <1>4, <1>5, <1>6, StepInv DEF Foreground

LEMMA BeginSweepInv == ASSUME Inv, NEW a \in Actor, BeginSweep(a) PROVE Inv'
<1>1. PICK s \in listRecoverable(clock) :
        s # <<>> /\ Remember(a, [NoWork EXCEPT !.todo = s, !.stop = clock + Budget])
  BY DEF BeginSweep
<1> DEFINE memory == [NoWork EXCEPT !.todo = s, !.stop = clock + Budget]
<1>2. s \in Seq(Book)
  <2> DEFINE R == {b \in Book : Recoverable(b, clock)}
             n == IF Cardinality(R) < Limit THEN Cardinality(R) ELSE Limit
  <2>1. IsFiniteSet(R)
    BY BookAssumption, FS_Subset
  <2>2. Cardinality(R) \in Nat
    BY <2>1, FS_CardinalityType
  <2>3. n \in Nat
    BY <2>2, CountAssumption
  <2>4. s \in [1..n -> R]
    BY DEF listRecoverable
  <2>5. s \in [1..n -> Book]
    BY <2>4
  <2> HIDE DEF n, R
  <2> QED
    BY <2>3, <2>5, IsASeq
<1>3. clock + Budget \in Nat
  BY TimeAssumption DEF Inv, TypeOK
<1>4. memory \in Memory /\ memory.todo # <<>> /\ memory.cover = "none"
  BY <1>1, <1>2, <1>3 DEF NoWork, Memory, Outcomes
<1>5. Goto(a, "ensure") /\ Remember(a, memory) /\ "ensure" \in Steps
  BY <1>1 DEF BeginSweep, Steps
<1> HIDE DEF memory
<1>6. /\ pc' \in [Actor -> Steps] /\ work' \in [Actor -> Memory] /\ OthersStay(a)
      /\ pc'[a] = "ensure" /\ work'[a] = memory
  BY <1>4, <1>5, Move DEF Inv
<1>7. TypeOK'
  BY <1>6, TypeNames DEF Inv, BeginSweep, TypeOK, Steps, Memory, Outcomes
<1>8. Fits(a)' /\ SameClaim(a) /\ RowsStay /\ CoversStay
  BY <1>4, <1>6 DEF Fits, SameClaim, RowsStay, CoversStay, BeginSweep, Working
<1> QED
  BY <1>6, <1>7, <1>8, StepInv DEF BeginSweep

LEMMA NextJobInv == ASSUME Inv, NEW a \in Actor, NextJob(a) PROVE Inv'
<1>1. /\ pc' \in [Actor -> Steps] /\ work' \in [Actor -> Memory] /\ OthersStay(a)
      /\ \/ pc'[a] = "idle"
         \/ pc'[a] = "ensure" /\ work'[a] = work[a]
  <2>1. "idle" \in Steps /\ "ensure" \in Steps
    BY DEF Steps
  <2> QED
    BY <2>1, ConstantTypes, Move, MoveOnly DEF Inv, NextJob
<1>2. TypeOK'
  BY <1>1, TypeNames DEF Inv, NextJob, TypeOK, Steps, Memory, Outcomes
<1>3. Fits(a)' /\ SameClaim(a) /\ RowsStay /\ CoversStay
  BY <1>1 DEF Inv, MemoryOK, Fits, SameClaim, RowsStay, CoversStay, NextJob, Working
<1> QED
  BY <1>1, <1>2, <1>3, StepInv DEF NextJob

\* What a run notes down in its memory.
LEMMA Notes ==
    ASSUME NEW m \in Memory
    PROVE  /\ \A n \in Nat : /\ [m EXCEPT !.now = n] \in Memory
                             /\ [m EXCEPT !.now = n].now = n
                             /\ [m EXCEPT !.now = n].todo = m.todo
                             /\ [m EXCEPT !.now = n].cover = m.cover
           /\ \A o \in Outcomes : /\ [m EXCEPT !.outcome = o] \in Memory
                                  /\ [m EXCEPT !.outcome = o].outcome = o
                                  /\ [m EXCEPT !.outcome = o].todo = m.todo
                                  /\ [m EXCEPT !.outcome = o].now = m.now
           /\ \A k \in {"stored", "fresh"} : /\ [m EXCEPT !.cover = k] \in Memory
                                             /\ [m EXCEPT !.cover = k].cover = k
                                             /\ [m EXCEPT !.cover = k].todo = m.todo
                                             /\ [m EXCEPT !.cover = k].now = m.now
BY DEF Memory

LEMMA EnsureInv == ASSUME Inv, NEW a \in Actor, Ensure(a) PROVE Inv'
<1>1. Current(a) \in Book
  BY CurrentType DEF Inv, Ensure
<1>2. RowsStay /\ job' \in [Book -> Row]
  BY <1>1, QueuedTypes DEF Inv, Ensure
<1> DEFINE memory == [work[a] EXCEPT !.now = clock]
<1>3. work[a] \in Memory /\ clock \in Nat
  BY TypeNames, TimeAssumption DEF Inv, TypeOK
<1>4. /\ memory \in Memory /\ memory.now = clock
      /\ memory.todo = work[a].todo /\ memory.cover = work[a].cover
  BY <1>3, Notes
<1>5. Goto(a, "claim") /\ Remember(a, memory) /\ "claim" \in Steps
  BY DEF Ensure, Steps
<1> HIDE DEF memory
<1>6. /\ pc' \in [Actor -> Steps] /\ work' \in [Actor -> Memory] /\ OthersStay(a)
      /\ pc'[a] = "claim" /\ work'[a] = memory
  BY <1>4, <1>5, Move DEF Inv
<1>7. TypeOK'
  BY <1>2, <1>6, TypeNames DEF Inv, Ensure, TypeOK, Steps, Memory, Outcomes, Row
<1>8. Fits(a)' /\ SameClaim(a) /\ CoversStay
  BY <1>3, <1>4, <1>6 DEF Inv, MemoryOK, Fits, SameClaim, CoversStay, Ensure, Working
<1> QED
  BY <1>2, <1>6, <1>7, <1>8, StepInv DEF Ensure

Claimed(row, a, until) ==
    [row EXCEPT !.status = "processing", !.token = a,
                !.attempts = row.attempts + 1, !.lease = until]

LEMMA ClaimedRow ==
    ASSUME NEW row \in Row, NEW a \in Actor, NEW until \in Nat
    PROVE  /\ Claimed(row, a, until) \in Row
           /\ Claimed(row, a, until).status = "processing"
           /\ Claimed(row, a, until).token = a
           /\ Claimed(row, a, until).attempts = row.attempts + 1
           /\ Claimed(row, a, until).lease = until
<1>1. row.attempts + 1 \in Nat
  BY DEF Row
<1> QED
  BY <1>1 DEF Claimed, Row, TimeOrNull

LEMMA claimInv == ASSUME Inv, NEW a \in Actor, claim(a) PROVE Inv'
<1> DEFINE b == Current(a)
           now == work[a].now
<1>1. pc[a] = "claim" /\ b \in Book /\ work[a] \in Memory /\ now \in Nat /\ now <= clock
  BY CurrentType, TypeNames DEF Inv, claim, MemoryOK, Fits, Memory
<1>2. CASE ~Claimable(b, now)
  <2>1. job' = job /\ NextBook(a)
    BY <1>2 DEF claim
  <2>2. /\ pc' \in [Actor -> Steps] /\ work' \in [Actor -> Memory] /\ OthersStay(a)
        /\ pc'[a] \in {"idle", "next"}
        /\ pc'[a] = "next" => work'[a].todo # <<>>
        /\ work'[a].cover = "none"
    BY <1>1, <2>1, NextBookMoves DEF Inv
  <2>3. TypeOK'
    BY <2>1, <2>2, TypeNames DEF Inv, claim, TypeOK, Steps, Memory, Outcomes
  <2>4. Fits(a)' /\ SameClaim(a) /\ RowsStay /\ CoversStay
    BY <1>1, <2>1, <2>2 DEF Fits, SameClaim, RowsStay, CoversStay, claim, Working
  <2> QED
    BY <2>2, <2>3, <2>4, StepInv DEF claim
<1>3. CASE Claimable(b, now)
  <2> DEFINE row == Claimed(job[b], a, now + Lease)
  <2>1. job' = [job EXCEPT ![b] = row] /\ work' = work /\ Goto(a, "lookup") /\ "lookup" \in Steps
    BY <1>3 DEF claim, Claimed, Steps, Working
  <2>2. job[b] \in Row /\ job[b].attempts < MaxAttempts
    BY <1>1, <1>3, TypeNames DEF Inv, Claimable
  <2>3. /\ row \in Row /\ row.status = "processing" /\ row.token = a
        /\ row.attempts = job[b].attempts + 1 /\ row.lease = now + Lease
    <3>1. now + Lease \in Nat
      BY <1>1, TimeAssumption
    <3> QED
      BY <2>2, <3>1, ClaimedRow
  <2> HIDE DEF row
  <2>4. /\ pc' \in [Actor -> Steps] /\ work' \in [Actor -> Memory] /\ OthersStay(a)
        /\ pc'[a] = "lookup" /\ work'[a] = work[a]
    BY <2>1, MoveOnly DEF Inv
  <2>5. job' \in [Book -> Row] /\ job'[b] = row /\ \A c \in Book \ {b} : job'[c] = job[c]
    BY <1>1, <2>1, <2>3, TypeNames DEF Inv
  <2>6. TypeOK'
    BY <2>4, <2>5, TypeNames DEF Inv, claim, TypeOK, Steps, Memory, Outcomes, Row
  <2>7. MemoryOK'
    <3>1. Fits(a)' /\ CoversStay
      BY <1>1, <2>4 DEF Inv, MemoryOK, Fits, CoversStay, claim, Working
    <3> QED
      BY <2>4, <3>1, MemoryKept DEF Inv, claim
  <2>8. \A c \in Actor \ {a} : pc'[c] = pc[c] /\ work'[c] = work[c] /\ Current(c)' = Current(c)
    BY <2>4 DEF OthersStay, Current
  <2>9. ASSUME NEW c \in Actor, NEW d \in Book, job'[d].token = c
        PROVE  pc'[c] \in Working /\ Current(c)' = d /\ Holds(c, d)'
    <3>1. CASE d = b
      BY <1>1, <2>1, <2>3, <2>4, <2>5, <2>9, <3>1 DEF Holds, Current, Working
    <3>2. CASE d # b
      <4>1. job[d].token = c /\ job'[d] = job[d] /\ pc[c] \in Working /\ Current(c) = d /\ Holds(c, d)
        BY <2>5, <2>9, <3>2 DEF Inv, TokensAreHeld
      <4> QED
        BY <1>1, <2>8, <4>1 DEF Holds, Working
    <3> QED
      BY <3>1, <3>2
  <2>10. TokensAreHeld'
    <3>1. now + Lease \in Nat
      BY <1>1, TimeAssumption
    <3> QED
      BY <2>3, <2>5, <2>9, <3>1 DEF Inv, TokensAreHeld
  \* Nobody else can be in time on this book: the row it would hold is not claimable.
  <2>11. ASSUME NEW c \in Actor, InTime(c)' PROVE Holds(c, Current(c))'
    <3>1. CASE c = a
      BY <2>3, <2>4, <2>5, <2>1, <3>1 DEF Holds, Current
    <3>2. CASE c # a
      <4>1. InTime(c) /\ Current(c)' = Current(c) /\ work'[c] = work[c]
        BY <2>8, <2>11, <3>2 DEF InTime, claim
      <4>2. Current(c) \in Book /\ Holds(c, Current(c))
        BY <4>1, CurrentType DEF Inv, InTimeHolds, InTime, Working
      <4>3. Current(c) # b
        <5>1. SUFFICES ASSUME Current(c) = b PROVE FALSE
          OBVIOUS
        <5>2. job[b].status = "processing" /\ job[b].lease = work[c].now + Lease
          BY <4>2, <5>1 DEF Holds
        <5>3. job[b].lease <= now /\ clock < work[c].now + Lease
          BY <1>3, <4>1, <5>2 DEF Claimable, Recoverable, InTime
        <5>4. work[c].now \in Nat /\ clock \in Nat
          BY TypeNames, TimeAssumption DEF Inv, Memory, TypeOK
        <5> QED
          BY <1>1, <5>2, <5>3, <5>4, TimeAssumption
      <4> QED
        BY <2>5, <4>1, <4>2, <4>3 DEF Holds
    <3> QED
      BY <3>1, <3>2
  <2>12. AttemptsAreCounted'
    BY <2>2, <2>3, <2>5, CountAssumption DEF Inv, AttemptsAreCounted, Row
  <2>13. OutcomeIsTrue'
    BY <2>3, <2>5 DEF Inv, OutcomeIsTrue, claim
  <2> QED
    BY <2>6, <2>7, <2>10, <2>11, <2>12, <2>13 DEF Inv, InTimeHolds
<1> QED
  BY <1>2, <1>3

\* A run at work goes to another step of its work, with the same book in hand.
WorksOn(a) ==
    /\ pc[a] \in Working /\ pc'[a] \in Working
    /\ work'[a].todo = work[a].todo /\ work'[a].now = work[a].now
    /\ pc' \in [Actor -> Steps] /\ work' \in [Actor -> Memory] /\ OthersStay(a)

\* It works on when it notes m and goes to a step of its work.
LEMMA WorkMove ==
    ASSUME Inv, NEW a \in Actor, NEW step \in Working, NEW m \in Memory,
           pc[a] \in Working, m.todo = work[a].todo, m.now = work[a].now,
           Goto(a, step), Remember(a, m)
    PROVE  WorksOn(a) /\ pc'[a] = step /\ work'[a] = m
<1>1. step \in Steps
  BY DEF Steps
<1> QED
  BY <1>1, Move DEF Inv, WorksOn

LEMMA WorkMoveOnly ==
    ASSUME Inv, NEW a \in Actor, NEW step \in Working, pc[a] \in Working,
           Goto(a, step), work' = work
    PROVE  WorksOn(a) /\ pc'[a] = step /\ work'[a] = work[a]
<1>1. step \in Steps
  BY DEF Steps
<1> QED
  BY <1>1, MoveOnly DEF Inv, WorksOn

\* What is left to show of a step of work that leaves the job table alone.
LEMMA WorkInv ==
    ASSUME Inv, NEW a \in Actor, WorksOn(a), job' = job, clock' = clock, failures' = failures,
           book' \in [Book -> {"core", "covered"}], CoversStay, blobs' \in SUBSET Book,
           pc'[a] \in {"lookup", "download"} => work'[a].cover = "none",
           pc'[a] = "complete" =>
             /\ work'[a].outcome \in {"completed", "no_cover"}
             /\ work'[a].outcome = "completed" => book'[Current(a)] = "covered"
    PROVE  Inv'
<1>1. TypeOK'
  BY TypeNames DEF Inv, WorksOn, TypeOK, Steps, Memory, Outcomes, Row
<1>2. Fits(a)'
  BY DEF Inv, MemoryOK, Fits, WorksOn, Working, Current
<1> QED
  BY <1>1, <1>2, StepInv DEF WorksOn, SameClaim, RowsStay

LEMMA LookupProviderWorks ==
    ASSUME Inv, NEW a \in Actor, LookupProvider(a)
    PROVE  /\ WorksOn(a)
           /\ \/ pc'[a] \in {"settle", "apply", "download"} /\ work'[a].cover = "none"
              \/ Current(a) \in blobs /\ pc'[a] = "apply"
<1>1. pc[a] = "lookup" /\ work[a] \in Memory /\ work[a].cover = "none"
  BY TypeNames DEF Inv, LookupProvider, MemoryOK, Fits
<1>2. {"settle", "apply", "download", "lookup"} \subseteq Working
  BY DEF Working
<1>3. CASE \E o \in {"error", "not_found"} :
             Remember(a, [work[a] EXCEPT !.outcome = o]) /\ Goto(a, "settle")
  <2>1. PICK o \in Outcomes : Remember(a, [work[a] EXCEPT !.outcome = o]) /\ Goto(a, "settle")
    BY <1>3 DEF Outcomes
  <2> DEFINE m == [work[a] EXCEPT !.outcome = o]
  <2>2. m \in Memory /\ m.todo = work[a].todo /\ m.now = work[a].now
    BY <1>1, Notes
  <2>3. m.cover = "none"
    BY <1>1 DEF Memory
  <2>4. Remember(a, m)
    BY <2>1
  <2> HIDE DEF m
  <2> QED
    BY <1>1, <1>2, <2>1, <2>2, <2>3, <2>4, WorkMove
<1>4. CASE Current(a) \in blobs /\ Remember(a, [work[a] EXCEPT !.cover = "stored"]) /\ Goto(a, "apply")
  <2> DEFINE m == [work[a] EXCEPT !.cover = "stored"]
  <2>1. m \in Memory /\ m.todo = work[a].todo /\ m.now = work[a].now /\ Remember(a, m)
    BY <1>1, <1>4, Notes
  <2> HIDE DEF m
  <2> QED
    BY <1>1, <1>2, <1>4, <2>1, WorkMove
<1>5. CASE work' = work /\ (Goto(a, "apply") \/ Goto(a, "download"))
  BY <1>1, <1>2, <1>5, WorkMoveOnly
<1> QED
  BY <1>3, <1>4, <1>5 DEF LookupProvider

LEMMA LookupProviderInv == ASSUME Inv, NEW a \in Actor, LookupProvider(a) PROVE Inv'
BY LookupProviderWorks, WorkInv, TypeNames DEF Inv, LookupProvider, CoversStay

LEMMA DownloadWorks ==
    ASSUME Inv, NEW a \in Actor, Download(a)
    PROVE  /\ WorksOn(a) /\ pc'[a] = "apply"
           /\ \/ blobs' = blobs \cup {Current(a)}
              \/ blobs' = blobs /\ work'[a].cover = "none"
<1>1. pc[a] = "download" /\ work[a] \in Memory /\ work[a].cover = "none" /\ Goto(a, "apply")
  BY TypeNames DEF Inv, Download, MemoryOK, Fits
<1>2. {"download", "apply"} \subseteq Working
  BY DEF Working
<1>3. CASE blobs' = blobs \cup {Current(a)} /\ Remember(a, [work[a] EXCEPT !.cover = "fresh"])
  <2> DEFINE m == [work[a] EXCEPT !.cover = "fresh"]
  <2>1. m \in Memory /\ m.todo = work[a].todo /\ m.now = work[a].now /\ Remember(a, m)
    BY <1>1, <1>3, Notes
  <2> HIDE DEF m
  <2> QED
    BY <1>1, <1>2, <1>3, <2>1, WorkMove
<1>4. CASE UNCHANGED <<blobs, work>>
  BY <1>1, <1>2, <1>4, WorkMoveOnly
<1> QED
  BY <1>3, <1>4 DEF Download

LEMMA DownloadInv == ASSUME Inv, NEW a \in Actor, Download(a) PROVE Inv'
<1>1. Current(a) \in Book
  BY CurrentType DEF Inv, Download
<1> QED
  BY <1>1, DownloadWorks, WorkInv, TypeNames DEF Inv, Download, CoversStay

LEMMA applyWorks ==
    ASSUME Inv, NEW a \in Actor, applyOpenLibraryEnrichment(a)
    PROVE  /\ WorksOn(a)
           /\ \/ /\ pc'[a] = "complete" /\ work'[a].cover = work[a].cover
                 /\ book' = [book EXCEPT ![Current(a)] =
                                IF work[a].cover # "none" THEN "covered" ELSE book[Current(a)]]
                 /\ work'[a].outcome = IF book'[Current(a)] = "covered" THEN "completed" ELSE "no_cover"
              \/ book' = book /\ pc'[a] \in {"check", "settle"}
<1>1. pc[a] = "apply" /\ work[a] \in Memory
  BY TypeNames DEF Inv, applyOpenLibraryEnrichment
<1>2. {"complete", "check", "settle", "apply"} \subseteq Working
  BY DEF Working
<1> DEFINE outcome == IF book'[Current(a)] = "covered" THEN "completed" ELSE "no_cover"
           m == [work[a] EXCEPT !.outcome = outcome]
<1>3. CASE Remember(a, m) /\ Goto(a, "complete")
           /\ book' = [book EXCEPT ![Current(a)] =
                          IF work[a].cover # "none" THEN "covered" ELSE book[Current(a)]]
  <2>1. outcome \in Outcomes
    BY DEF Outcomes
  <2>2. m \in Memory /\ m.todo = work[a].todo /\ m.now = work[a].now /\ m.outcome = outcome
    BY <1>1, <2>1, Notes
  <2>3. m.cover = work[a].cover
    BY <1>1 DEF Memory
  <2>4. Remember(a, m)
    BY <1>3
  <2> HIDE DEF m, outcome
  <2>5. WorksOn(a) /\ pc'[a] = "complete" /\ work'[a] = m
    BY <1>1, <1>2, <1>3, <2>2, <2>4, WorkMove
  <2> QED
    BY <1>3, <2>2, <2>3, <2>5 DEF outcome
<1>4. CASE UNCHANGED <<book, work>> /\ Goto(a, IF work[a].cover = "fresh" THEN "check" ELSE "settle")
  BY <1>1, <1>2, <1>4, WorkMoveOnly
<1> QED
  BY <1>3, <1>4 DEF applyOpenLibraryEnrichment

LEMMA applyInv == ASSUME Inv, NEW a \in Actor, applyOpenLibraryEnrichment(a) PROVE Inv'
<1>1. Current(a) \in Book /\ book \in [Book -> {"core", "covered"}]
  BY CurrentType, TypeNames DEF Inv, applyOpenLibraryEnrichment
<1>2. book' \in [Book -> {"core", "covered"}] /\ CoversStay
  BY <1>1, applyWorks DEF CoversStay
<1>3. blobs' \in SUBSET Book
  BY TypeNames DEF Inv, applyOpenLibraryEnrichment
<1> QED
  BY <1>2, <1>3, applyWorks, WorkInv DEF applyOpenLibraryEnrichment

LEMMA CheckCoverInv ==
    ASSUME Inv, NEW a \in Actor, CheckCover(a)
    PROVE  /\ Inv' /\ WorksOn(a)
           /\ pc'[a] = IF book[Current(a)] = "covered" THEN "settle" ELSE "delete"
<1>1. {"check", "settle", "delete"} \subseteq Working
  BY DEF Working
<1>2. WorksOn(a) /\ pc'[a] = IF book[Current(a)] = "covered" THEN "settle" ELSE "delete"
  BY <1>1, WorkMoveOnly DEF CheckCover
<1> QED
  BY <1>2, WorkInv, TypeNames DEF Inv, CheckCover, CoversStay

LEMMA DeleteCoverInv ==
    ASSUME Inv, NEW a \in Actor, DeleteCover(a)
    PROVE  Inv' /\ WorksOn(a) /\ pc'[a] = "settle"
<1>1. {"settle", "delete"} \subseteq Working
  BY DEF Working
<1>2. WorksOn(a) /\ pc'[a] = "settle"
  BY <1>1, WorkMoveOnly DEF DeleteCover
<1> QED
  BY <1>2, WorkInv, TypeNames DEF Inv, DeleteCover, CoversStay

LEMMA SettledRow ==
    ASSUME NEW row \in Row, NEW status \in {"retrying"} \cup Terminal
    PROVE  /\ Settled(row, status) \in Row
           /\ Settled(row, status).status = status
           /\ Settled(row, status).token = None
           /\ Settled(row, status).attempts = row.attempts
           /\ \A due \in TimeOrNull :
                /\ [Settled(row, status) EXCEPT !.due = due] \in Row
                /\ [Settled(row, status) EXCEPT !.due = due].status = status
                /\ [Settled(row, status) EXCEPT !.due = due].token = None
                /\ [Settled(row, status) EXCEPT !.due = due].attempts = row.attempts
<1>1. /\ Settled(row, status) \in Row
      /\ Settled(row, status).status = status
      /\ Settled(row, status).token = None
      /\ Settled(row, status).attempts = row.attempts
  BY DEF Settled, Row, TimeOrNull
<1>2. ASSUME NEW r \in Row, NEW due \in TimeOrNull
      PROVE  /\ [r EXCEPT !.due = due] \in Row
             /\ [r EXCEPT !.due = due].status = r.status
             /\ [r EXCEPT !.due = due].token = r.token
             /\ [r EXCEPT !.due = due].attempts = r.attempts
  BY DEF Row
<1> QED
  BY <1>1, <1>2

\* A run that settles its job writes its own row or none.
LEMMA UpdateClaimWrites ==
    ASSUME Inv, NEW a \in Actor, pc[a] \in Working, NEW row \in Row,
           row.token = None, row.status # "processing",
           row.attempts = job[Current(a)].attempts,
           UpdateClaim(a, Current(a), row)
    PROVE  /\ LetsGo(a) /\ job' \in [Book -> Row]
           /\ \A b \in Book : job'[b] # job[b] =>
                 b = Current(a) /\ job[b].token = a /\ job'[b] = row
<1>1. Current(a) \in Book /\ job \in [Book -> Row]
  BY CurrentType, TypeNames DEF Inv, Working
<1>2. \A b \in Book : job[b].token = a => b = Current(a)
  BY DEF Inv, TokensAreHeld
<1>3. CASE job[Current(a)].token = a
  <2>1. job' = [job EXCEPT ![Current(a)] = row]
    BY <1>3 DEF UpdateClaim, OwnsClaim
  <2>2. job'[Current(a)] = row /\ \A b \in Book \ {Current(a)} : job'[b] = job[b] /\ job[b].token # a
    BY <1>1, <1>2, <2>1
  <2> QED
    BY <1>1, <1>3, <2>1, <2>2 DEF LetsGo
<1>4. CASE job[Current(a)].token # a
  <2>1. \A b \in Book : job[b].token # a /\ job'[b] = job[b]
    BY <1>2, <1>4 DEF UpdateClaim, OwnsClaim, Forgotten
  <2>2. job' \in [Book -> Row]
    BY <1>1, <1>4, <2>1 DEF UpdateClaim, OwnsClaim, Forgotten
  <2> QED
    BY <2>1, <2>2 DEF LetsGo
<1> QED
  BY <1>3, <1>4

\* A run at work that settles its job and goes on to the next.
LEMMA SettleInv ==
    ASSUME Inv, NEW a \in Actor, pc[a] \in Working, NEW row \in Row,
           row.token = None, row.status # "processing",
           row.attempts = job[Current(a)].attempts,
           row.status = "completed" => book[Current(a)] = "covered",
           row.status = "failed" => row.attempts = MaxAttempts,
           UpdateClaim(a, Current(a), row), NextBook(a),
           UNCHANGED <<book, blobs, clock, failures>>
    PROVE  Inv'
<1>1. /\ LetsGo(a) /\ job' \in [Book -> Row]
      /\ \A b \in Book : job'[b] # job[b] =>
            b = Current(a) /\ job[b].token = a /\ job'[b] = row
  BY UpdateClaimWrites
<1>2. /\ pc' \in [Actor -> Steps] /\ work' \in [Actor -> Memory] /\ OthersStay(a)
      /\ pc'[a] \in {"idle", "next"}
      /\ pc'[a] = "next" => work'[a].todo # <<>>
      /\ work'[a].cover = "none"
  BY NextBookMoves DEF Inv, Working
<1>3. TypeOK'
  BY <1>1, <1>2, TypeNames DEF Inv, TypeOK, Steps, Memory, Outcomes, Row
<1>4. Fits(a)' /\ pc'[a] \notin Working
  BY <1>2 DEF Fits, Working
<1> QED
  BY <1>1, <1>2, <1>3, <1>4, ReleaseInv

LEMMA SettleStepInv == ASSUME Inv, NEW a \in Actor, Settle(a) PROVE Inv'
<1> DEFINE b == Current(a)
<1>1. pc[a] \in Working /\ b \in Book /\ job[b] \in Row
  BY CurrentType, TypeNames DEF Inv, Settle, Working
<1>2. CASE complete(a, b, "not_found")
  <2>1. "not_found" \in {"retrying"} \cup Terminal
    BY DEF Terminal
  <2> QED
    BY <1>1, <1>2, <2>1, SettledRow, SettleInv DEF complete, Settle
<1>3. CASE retry(a, b)
  <2>1. {"failed", "retrying"} \subseteq {"retrying"} \cup Terminal
    BY DEF Terminal
  <2>2. CASE job[b].attempts >= MaxAttempts /\ UpdateClaim(a, b, [Settled(job[b], "failed") EXCEPT !.due = None])
    <3> DEFINE row == [Settled(job[b], "failed") EXCEPT !.due = None]
    <3>1. row \in Row /\ row.status = "failed" /\ row.token = None /\ row.attempts = job[b].attempts
      BY <1>1, <2>1, SettledRow DEF TimeOrNull
    <3>2. row.attempts = MaxAttempts
      BY <1>1, <2>2, <3>1, CountAssumption DEF Inv, AttemptsAreCounted, Row
    <3>3. UpdateClaim(a, b, row)
      BY <2>2
    <3> HIDE DEF row
    <3> QED
      BY <1>1, <3>1, <3>2, <3>3, SettleInv DEF Settle
  <2>3. ASSUME NEW d \in 1..RetryDelay,
               UpdateClaim(a, b, [Settled(job[b], "retrying") EXCEPT !.due = Milliseconds(clock + d)])
        PROVE  Inv'
    <3> DEFINE row == [Settled(job[b], "retrying") EXCEPT !.due = Milliseconds(clock + d)]
    <3>1. Milliseconds(clock + d) \in TimeOrNull
      BY TimeAssumption DEF Inv, TypeOK, Milliseconds, TimeOrNull
    <3>2. row \in Row /\ row.status = "retrying" /\ row.token = None /\ row.attempts = job[b].attempts
      BY <1>1, <2>1, <3>1, SettledRow
    <3>3. UpdateClaim(a, b, row)
      BY <2>3
    <3> HIDE DEF row
    <3> QED
      BY <1>1, <3>2, <3>3, SettleInv DEF Settle
  <2> QED
    BY <1>3, <2>2, <2>3 DEF retry
<1> QED
  BY <1>2, <1>3 DEF Settle

LEMMA CompleteInv == ASSUME Inv, NEW a \in Actor, Complete(a) PROVE Inv'
<1> DEFINE b == Current(a)
<1>1. /\ pc[a] = "complete" /\ pc[a] \in Working /\ b \in Book /\ job[b] \in Row /\ work[a] \in Memory
      /\ work[a].outcome \in {"completed", "no_cover"}
      /\ work[a].outcome = "completed" => book[b] = "covered"
  BY CurrentType, TypeNames DEF Inv, Complete, Working, MemoryOK, Fits
<1>2. CASE complete(a, b, work[a].outcome) /\ NextBook(a)
  <2>1. work[a].outcome \in {"retrying"} \cup Terminal
    BY <1>1 DEF Terminal
  <2> QED
    BY <1>1, <1>2, <2>1, SettledRow, SettleInv DEF complete, Complete
<1>3. CASE /\ job' = job /\ Remember(a, [work[a] EXCEPT !.outcome = "error"])
           /\ Goto(a, IF work[a].cover = "fresh" THEN "check" ELSE "settle")
  <2> DEFINE m == [work[a] EXCEPT !.outcome = "error"]
  <2>1. m \in Memory /\ m.todo = work[a].todo /\ m.now = work[a].now
    BY <1>1, Notes DEF Outcomes
  <2>2. Remember(a, m)
    BY <1>3
  <2> HIDE DEF m
  <2>3. WorksOn(a) /\ pc'[a] \in {"check", "settle"}
    <3>1. {"check", "settle"} \subseteq Working
      BY DEF Working
    <3> QED
      BY <1>1, <1>3, <2>1, <2>2, <3>1, WorkMove
  <2> QED
    BY <1>3, <2>3, WorkInv, TypeNames DEF Inv, Complete, CoversStay
<1> QED
  BY <1>2, <1>3 DEF Complete

LEMMA CrashInv == ASSUME Inv, NEW a \in Actor, Crash(a) PROVE Inv'
<1>1. /\ pc' \in [Actor -> Steps] /\ work' \in [Actor -> Memory] /\ OthersStay(a)
      /\ pc'[a] = "idle" /\ work'[a] = NoWork
  BY ConstantTypes, Move DEF Inv, Crash, Steps
<1>2. job \in [Book -> Row]
  BY TypeNames DEF Inv
<1>3. \A b \in Book : job'[b] = IF job[b].token = a THEN [job[b] EXCEPT !.token = Gone] ELSE job[b]
  BY DEF Crash, Forgotten
<1>4. job' = [b \in Book |-> job'[b]]
  BY DEF Crash, Forgotten
<1>5. \A b \in Book : /\ job'[b] \in Row /\ job'[b].status = job[b].status
                      /\ job'[b].lease = job[b].lease /\ job'[b].attempts = job[b].attempts
                      /\ job[b].token = a => job'[b].token = Gone
                      /\ job[b].token # a => job'[b] = job[b]
  BY <1>2, <1>3 DEF Row
<1>6. job' \in [Book -> Row]
  BY <1>4, <1>5
<1>7. TypeOK'
  BY <1>1, <1>6, TypeNames DEF Inv, Crash, TypeOK, Steps, Memory, Outcomes, Row
<1>8. Fits(a)' /\ pc'[a] \notin Working /\ LetsGo(a)
  BY <1>1, <1>5 DEF Fits, Working, LetsGo, NoWork
<1>9. \A b \in Book : job'[b] # job[b] =>
         /\ job'[b].status = "completed" => book[b] = "covered"
         /\ job'[b].status = "failed" => job'[b].attempts = MaxAttempts
  BY <1>5 DEF Inv, OutcomeIsTrue
<1> QED
  BY <1>1, <1>7, <1>8, <1>9, ReleaseInv DEF Crash

LEMMA TickInv == ASSUME Inv, Tick PROVE Inv'
<1>1. clock \in Nat /\ clock' = clock + 1 /\ clock' \in Epoch..Horizon
  BY TimeAssumption DEF Inv, TypeOK, Tick
<1>2. TypeOK'
  BY <1>1 DEF Inv, TypeOK, Tick
<1>3. MemoryOK'
  <2>1. \A a \in Actor : work[a].now \in Nat
    BY TypeNames DEF Inv, Memory
  <2> QED
    BY <1>1, <2>1 DEF Inv, MemoryOK, Fits, Tick, Current
<1>4. TokensAreHeld'
  BY DEF Inv, TokensAreHeld, Holds, Tick, Current
<1>5. InTimeHolds'
  <2> SUFFICES ASSUME NEW a \in Actor, InTime(a)' PROVE Holds(a, Current(a))'
    BY DEF InTimeHolds
  <2>1. work[a].now + Lease \in Nat
    BY TypeNames, TimeAssumption DEF Inv, Memory
  <2>2. InTime(a)
    BY <1>1, <2>1 DEF InTime, Tick
  <2> QED
    BY <2>2 DEF Inv, InTimeHolds, Holds, Tick, Current
<1>6. AttemptsAreCounted' /\ OutcomeIsTrue'
  BY DEF Inv, AttemptsAreCounted, OutcomeIsTrue, Tick
<1> QED
  BY <1>2, <1>3, <1>4, <1>5, <1>6 DEF Inv

LEMMA StutterInv == ASSUME Inv, UNCHANGED vars PROVE Inv'
BY DEF Inv, TypeOK, MemoryOK, Fits, TokensAreHeld, Holds, InTimeHolds, InTime,
       AttemptsAreCounted, OutcomeIsTrue, Current, vars

LEMMA NextInv == ASSUME Inv, [Next]_vars PROVE Inv'
<1>1. ASSUME NEW a \in Actor, Enrich(a) PROVE Inv'
  BY <1>1, EnsureInv, claimInv, LookupProviderInv, DownloadInv, applyInv, CompleteInv,
     CheckCoverInv, DeleteCoverInv, SettleStepInv DEF Enrich
<1>2. ASSUME NEW a \in Sweeper, SweepStep(a) PROVE Inv'
  BY <1>1, <1>2, BeginSweepInv, NextJobInv DEF SweepStep, Actor
<1>3. ASSUME NEW a \in Request, Foreground(a) \/ Enrich(a) PROVE Inv'
  BY <1>1, <1>3, ForegroundInv DEF Actor
<1> QED
  BY <1>2, <1>3, LookupInv, CrashInv, TickInv, StutterInv DEF Next

-----------------------------------------------------------------------------
(***************************** the theorems ********************************)

\* Types are kept, whatever interleaves.
THEOREM TypesAreKept == Spec => []TypeOK
<1>1. Inv => TypeOK
  BY DEF Inv
<1> QED
  BY <1>1, InitInv, NextInv, PTL DEF Spec

\* Two runs in time on one book would both be named by its row.
LEMMA HoldersAreOne == Inv => OneAtATime
<1> SUFFICES ASSUME Inv, NEW a \in Actor, NEW c \in Actor, InTime(a), InTime(c), Current(a) = Current(c)
             PROVE  a = c
  BY DEF OneAtATime, InTime
<1> QED
  BY DEF Inv, InTimeHolds, Holds

\* enrichOpenLibraryBook and recoverCanonicalEnrichment never work on one book
\* at the same time while both their leases last.
THEOREM EnrichmentsExclude == Spec => []OneAtATime
BY HoldersAreOne, InitInv, NextInv, PTL DEF Spec

\* A job reports "completed" only of a book that has its cover, and "failed"
\* only after its last attempt.
THEOREM OutcomesAreTrue == Spec => []OutcomeIsTrue
<1>1. Inv => OutcomeIsTrue
  BY DEF Inv
<1> QED
  BY <1>1, InitInv, NextInv, PTL DEF Spec

\* What ClaimsAreSafe says of a step, for one book.
SafeStep(b) ==
    \/ job[b].status # "processing"
    \/ job'[b].status = "processing" /\ job'[b].token \in {job[b].token, Gone}
    \/ job[b].lease <= clock
    \/ \E a \in Actor : job[b].token = a /\ work'[a] # work[a]

LEMMA UnchangedIsSafe == ASSUME NEW b \in Book, job'[b] = job[b] PROVE SafeStep(b)
BY DEF SafeStep

LEMMA EnsureIsSafe ==
    ASSUME NEW b \in Book, NEW c \in Book, Inv, ensurePending(c)
    PROVE  SafeStep(b)
BY QueuedTypes, UnchangedIsSafe DEF Inv, RowsStay, Queued, SafeStep

LEMMA SettlingIsSafe ==
    ASSUME Inv, NEW a \in Actor, pc[a] \in Working, NEW row, UpdateClaim(a, Current(a), row),
           NextBook(a), NEW b \in Book
    PROVE  SafeStep(b)
<1>1. work'[a] # work[a] /\ job \in [Book -> Row] /\ Current(a) \in Book
  BY NextBookMoves, CurrentType, TypeNames DEF Inv, Working
<1>2. CASE job[b].token = a
  BY <1>1, <1>2 DEF SafeStep
<1>3. CASE job[b].token # a
  <2>1. job'[b] = job[b]
    BY <1>1, <1>3 DEF UpdateClaim, OwnsClaim, Forgotten
  <2> QED
    BY <2>1, UnchangedIsSafe
<1> QED
  BY <1>2, <1>3

LEMMA StepsAreSafe == ASSUME Inv, Next, NEW b \in Book PROVE SafeStep(b)
<1>1. CASE Lookup
  BY <1>1, EnsureIsSafe DEF Lookup
<1>2. ASSUME NEW a \in Actor, Enrich(a) PROVE SafeStep(b)
  <2>1. CASE Ensure(a)
    <3>1. Current(a) \in Book
      BY <2>1, CurrentType DEF Inv, Ensure
    <3> QED
      BY <2>1, <3>1, EnsureIsSafe DEF Ensure
  <2>2. CASE claim(a)
    <3>1. /\ Current(a) \in Book /\ job \in [Book -> Row]
          /\ work[a].now \in Nat /\ work[a].now <= clock /\ clock \in Nat
      <4>1. pc[a] = "claim" /\ clock \in Nat
        BY <2>2, TimeAssumption DEF claim, Inv, TypeOK
      <4> QED
        BY <4>1, CurrentType, TypeNames DEF Inv, MemoryOK, Fits, Memory
    <3>2. CASE job'[b] = job[b]
      BY <3>2, UnchangedIsSafe
    <3>3. CASE job'[b] # job[b]
      <4>1. b = Current(a) /\ Claimable(b, work[a].now)
        BY <2>2, <3>1, <3>3 DEF claim
      <4> QED
        BY <3>1, <4>1 DEF Inv, TokensAreHeld, Claimable, Recoverable, SafeStep
    <3> QED
      BY <3>2, <3>3
  <2>3. CASE LookupProvider(a) \/ Download(a) \/ applyOpenLibraryEnrichment(a)
             \/ CheckCover(a) \/ DeleteCover(a)
    BY <2>3, UnchangedIsSafe
       DEF LookupProvider, Download, applyOpenLibraryEnrichment, CheckCover, DeleteCover
  <2>4. CASE Complete(a)
    BY <2>4, SettlingIsSafe, UnchangedIsSafe DEF Complete, complete, Working
  <2>5. CASE Settle(a)
    BY <2>5, SettlingIsSafe DEF Settle, complete, retry, Working
  <2> QED
    BY <1>2, <2>1, <2>2, <2>3, <2>4, <2>5 DEF Enrich
<1>3. ASSUME NEW a \in Actor, Foreground(a) \/ BeginSweep(a) \/ NextJob(a) PROVE SafeStep(b)
  BY <1>3, UnchangedIsSafe DEF Foreground, BeginSweep, NextJob
<1>4. ASSUME NEW a \in Actor, Crash(a) PROVE SafeStep(b)
  <2>1. job[b] \in Row
    BY TypeNames DEF Inv
  <2> QED
    BY <1>4, <2>1 DEF Crash, Forgotten, SafeStep, Row
<1>5. CASE Tick
  BY <1>5, UnchangedIsSafe DEF Tick
<1> QED
  BY <1>1, <1>2, <1>3, <1>4, <1>5 DEF Next, SweepStep, Actor

\* No step settles, takes over or frees a job whose lease lasts, but a step of
\* the run the row names: complete and retry match the claim token.
THEOREM ClaimsStaySafe == Spec => ClaimsAreSafe
<1>1. ASSUME Inv, [Next]_vars
      PROVE  [\A b \in Book : SafeStep(b)]_vars
  BY <1>1, StepsAreSafe
<1>2. Inv /\ [Next]_vars => [\A b \in Book :
        \/ job[b].status # "processing"
        \/ job'[b].status = "processing" /\ job'[b].token \in {job[b].token, Gone}
        \/ job[b].lease <= clock
        \/ \E a \in Actor : job[b].token = a /\ work'[a] # work[a]]_vars
  BY <1>1 DEF SafeStep
<1> QED
  BY <1>2, InitInv, NextInv, PTL DEF Spec, ClaimsAreSafe

-----------------------------------------------------------------------------
(* The covers that are counted on.                                          *)

Late(b) == \E a \in Actor : pc[a] \in Working /\ Current(a) = b /\ clock >= work[a].now + Lease
Deleting(b) == \E a \in Actor : pc[a] = "delete" /\ Current(a) = b
CountedOn(b) ==
    \/ book[b] = "covered"
    \/ \E a \in Actor : pc[a] \in {"apply", "complete"} /\ Current(a) = b /\ work[a].cover # "none"

LEMMA LostNames == \A b \in Book :
    CoverLost(b) <=> (b \notin blobs \/ Deleting(b)) /\ CountedOn(b)
BY DEF CoverLost, Deleting, CountedOn

\* Of two runs on one book one is late.
LEMMA RivalsAreLate ==
    ASSUME Inv, NEW a \in Actor, NEW c \in Actor, a # c, pc[a] \in Working, pc[c] \in Working,
           Current(a) = Current(c)
    PROVE  Late(Current(a))
<1>1. ~(InTime(a) /\ InTime(c))
  BY HoldersAreOne DEF OneAtATime, InTime
<1>2. clock \in Nat /\ work[a].now + Lease \in Nat /\ work[c].now + Lease \in Nat
  BY TypeNames, TimeAssumption DEF Inv, TypeOK, Memory
<1> QED
  BY <1>1, <1>2 DEF InTime, Late

\* A step after which the actor neither counts on a cover nor deletes one.
LEMMA OtherStepsKeepCovers ==
    ASSUME NEW a \in Actor, OthersStay(a), pc'[a] \notin {"delete", "apply", "complete"},
           book' = book, blobs' = blobs, NEW b \in Book, CoverLost(b)'
    PROVE  CoverLost(b)
<1>1. \A c \in Actor \ {a} : pc'[c] = pc[c] /\ work'[c] = work[c] /\ Current(c)' = Current(c)
  BY DEF OthersStay, Current
<1> QED
  BY <1>1 DEF CoverLost

\* A step of work after which the actor counts on a cover, or not yet.
LEMMA LookingKeepsCovers ==
    ASSUME Inv, NEW a \in Actor, LookupProvider(a) \/ Download(a), NEW b \in Book, CoverLost(b)'
    PROVE  CoverLost(b) \/ Late(b)
<1>1. /\ WorksOn(a) /\ pc[a] \in {"lookup", "download"} /\ pc'[a] # "delete" /\ pc'[a] # "complete"
      /\ book' = book /\ blobs \subseteq blobs' /\ blobs' \subseteq blobs \cup {Current(a)}
      /\ pc'[a] = "apply" /\ work'[a].cover # "none" => Current(a) \in blobs'
  BY LookupProviderWorks, DownloadWorks DEF LookupProvider, Download
<1>2. /\ Current(a)' = Current(a)
      /\ \A c \in Actor \ {a} : pc'[c] = pc[c] /\ work'[c] = work[c] /\ Current(c)' = Current(c)
  BY <1>1 DEF WorksOn, OthersStay, Current
<1>3. b \notin blobs \/ Deleting(b)
  BY <1>1, <1>2 DEF CoverLost, Deleting
<1>4. CASE CountedOn(b)
  BY <1>3, <1>4, LostNames
<1>5. CASE ~CountedOn(b)
  <2>1. Current(a) = b /\ pc'[a] = "apply" /\ work'[a].cover # "none"
    BY <1>1, <1>2, <1>5 DEF CoverLost, CountedOn
  <2>2. PICK c \in Actor : pc'[c] = "delete" /\ Current(c)' = b
    BY <1>1, <1>2, <2>1 DEF CoverLost
  <2>3. c # a /\ pc[c] \in Working /\ pc[a] \in Working /\ Current(c) = b
    BY <1>1, <1>2, <2>1, <2>2 DEF Working
  <2> QED
    BY <2>1, <2>3, RivalsAreLate
<1> QED
  BY <1>4, <1>5

\* A book that gets its cover was counted on before.
LEMMA applyKeepsCovers ==
    ASSUME Inv, NEW a \in Actor, applyOpenLibraryEnrichment(a), NEW b \in Book, CoverLost(b)'
    PROVE  CoverLost(b)
<1>1. /\ pc[a] = "apply" /\ blobs' = blobs /\ WorksOn(a) /\ pc'[a] # "delete"
      /\ book \in [Book -> {"core", "covered"}] /\ Current(a) \in Book
  BY applyWorks, CurrentType, TypeNames DEF Inv, applyOpenLibraryEnrichment
<1>2. /\ Current(a)' = Current(a)
      /\ \A c \in Actor \ {a} : pc'[c] = pc[c] /\ work'[c] = work[c] /\ Current(c)' = Current(c)
  BY <1>1 DEF WorksOn, OthersStay, Current
<1>3. b \notin blobs \/ Deleting(b)
  BY <1>1, <1>2 DEF CoverLost, Deleting
<1>4. CountedOn(b)
  BY <1>1, <1>2, applyWorks DEF CoverLost, CountedOn
<1> QED
  BY <1>3, <1>4, LostNames

\* A cover is about to be deleted when the book was seen without it: a run that
\* has it in memory then is another one.
LEMMA CheckKeepsCovers ==
    ASSUME Inv, NEW a \in Actor, CheckCover(a), NEW b \in Book, CoverLost(b)'
    PROVE  CoverLost(b) \/ Late(b)
<1>1. /\ pc[a] = "check" /\ WorksOn(a) /\ pc'[a] \in {"settle", "delete"}
      /\ pc'[a] = "delete" => book[Current(a)] # "covered"
      /\ book' = book /\ blobs' = blobs
  BY CheckCoverInv DEF CheckCover
<1>2. /\ Current(a)' = Current(a)
      /\ \A c \in Actor \ {a} : pc'[c] = pc[c] /\ work'[c] = work[c] /\ Current(c)' = Current(c)
  BY <1>1 DEF WorksOn, OthersStay, Current
<1>3. CountedOn(b)
  BY <1>1, <1>2 DEF CoverLost, CountedOn
<1>4. CASE b \notin blobs \/ Deleting(b)
  BY <1>3, <1>4, LostNames
<1>5. CASE ~(b \notin blobs \/ Deleting(b))
  <2>1. Current(a) = b /\ book[b] # "covered"
    BY <1>1, <1>2, <1>5 DEF CoverLost, Deleting
  <2>2. PICK c \in Actor : pc[c] \in {"apply", "complete"} /\ Current(c) = b
    BY <1>3, <2>1 DEF CountedOn
  <2>3. c # a /\ pc[c] \in Working /\ pc[a] \in Working
    BY <1>1, <2>2 DEF Working
  <2> QED
    BY <2>1, <2>2, <2>3, RivalsAreLate
<1> QED
  BY <1>4, <1>5

\* A deletion was under way before.
LEMMA DeleteKeepsCovers ==
    ASSUME Inv, NEW a \in Actor, DeleteCover(a), NEW b \in Book, CoverLost(b)'
    PROVE  CoverLost(b)
<1>1. pc[a] = "delete" /\ WorksOn(a) /\ pc'[a] = "settle" /\ book' = book /\ blobs' \in {blobs, blobs \ {Current(a)}}
  BY DeleteCoverInv DEF DeleteCover
<1>2. /\ Current(a)' = Current(a)
      /\ \A c \in Actor \ {a} : pc'[c] = pc[c] /\ work'[c] = work[c] /\ Current(c)' = Current(c)
  BY <1>1 DEF WorksOn, OthersStay, Current
<1>3. CountedOn(b)
  BY <1>1, <1>2 DEF CoverLost, CountedOn
<1>4. b \notin blobs \/ Deleting(b)
  BY <1>1, <1>2 DEF CoverLost, Deleting
<1> QED
  BY <1>3, <1>4, LostNames

\* What the other steps of an actor do to its place.
LEMMA OtherSteps ==
    ASSUME Inv, NEW a \in Actor,
           \/ Foreground(a) \/ BeginSweep(a) \/ NextJob(a) \/ Ensure(a) \/ claim(a)
           \/ Complete(a) \/ Settle(a) \/ Crash(a)
    PROVE  /\ OthersStay(a) /\ pc'[a] \notin {"delete", "apply", "complete"}
           /\ book' = book /\ blobs' = blobs
<1>1. pc \in [Actor -> Steps] /\ work \in [Actor -> Memory]
  BY TypeNames DEF Inv
<1>2. \A step : Goto(a, step) => pc'[a] = step /\ \A c \in Actor \ {a} : pc'[c] = pc[c]
  BY <1>1 DEF Goto
<1>3. \A m : Remember(a, m) => \A c \in Actor \ {a} : work'[c] = work[c]
  BY <1>1 DEF Remember
<1>4. CASE Foreground(a) \/ BeginSweep(a) \/ NextJob(a) \/ Ensure(a) \/ Crash(a)
  <2>1. \E step \in {"ensure", "claim", "idle"} : Goto(a, step)
    BY <1>4 DEF Foreground, BeginSweep, NextJob, Ensure, Crash
  <2>2. work' = work \/ \E m : Remember(a, m)
    BY <1>4, Zenon DEF Foreground, BeginSweep, NextJob, Ensure, Crash
  <2>3. book' = book /\ blobs' = blobs
    BY <1>4 DEF Foreground, BeginSweep, NextJob, Ensure, Crash
  <2> QED
    BY <1>2, <1>3, <2>1, <2>2, <2>3 DEF OthersStay
<1>5. CASE claim(a) \/ Complete(a) \/ Settle(a)
  <2>1. pc[a] # "idle"
    BY <1>5 DEF claim, Complete, Settle
  <2>2. NextBook(a) => OthersStay(a) /\ pc'[a] \in {"idle", "next"}
    BY <2>1, NextBookMoves DEF Inv
  <2> QED
    BY <1>2, <1>3, <1>5, <2>2 DEF claim, Complete, Settle, OthersStay
<1> QED
  BY <1>4, <1>5

LEMMA StepsKeepCovers ==
    ASSUME Inv, Next, NEW b \in Book, CoverLost(b)'
    PROVE  CoverLost(b) \/ Late(b)
<1>1. CASE Lookup \/ Tick
  BY <1>1 DEF Lookup, Tick, CoverLost, Current
<1>2. ASSUME NEW a \in Actor, Foreground(a) \/ SweepStep(a) \/ Crash(a)
      PROVE  CoverLost(b) \/ Late(b)
  <2>1. CASE LookupProvider(a) \/ Download(a)
    BY <2>1, LookingKeepsCovers
  <2>2. CASE applyOpenLibraryEnrichment(a)
    BY <2>2, applyKeepsCovers
  <2>3. CASE CheckCover(a)
    BY <2>3, CheckKeepsCovers
  <2>4. CASE DeleteCover(a)
    BY <2>4, DeleteKeepsCovers
  <2>5. CASE \/ Foreground(a) \/ BeginSweep(a) \/ NextJob(a) \/ Ensure(a) \/ claim(a)
             \/ Complete(a) \/ Settle(a) \/ Crash(a)
    BY <2>5, OtherSteps, OtherStepsKeepCovers
  <2> QED
    BY <1>2, <2>1, <2>2, <2>3, <2>4, <2>5 DEF SweepStep, Enrich
<1> QED
  BY <1>1, <1>2 DEF Next, SweepStep, Actor

\* A cover that a book, or a run about to record it, counts on gets lost only
\* while a run on that book is past its lease.
THEOREM CoversStayKept == Spec => CoversAreKept
<1>1. Inv /\ [Next]_vars => [\A b \in Book : CoverLost(b)' =>
        \/ CoverLost(b)
        \/ \E a \in Actor : /\ pc[a] \in Working /\ Current(a) = b
                           /\ clock >= work[a].now + Lease]_vars
  BY StepsKeepCovers DEF Late
<1> QED
  BY <1>1, InitInv, NextInv, PTL DEF Spec, CoversAreKept

=============================================================================
