-------------------------- MODULE CoverStorageProofs --------------------------
(* That a cover in use is stored and a private one is deleted with its      *)
(* owner's account, and that a backup has the covers its rows refer to: for *)
(* any users, any number of writers and cleaners, any files and releases.   *)
EXTENDS CoverStorage, Backup, TLAPS

-----------------------------------------------------------------------------
(*************************** stored covers *********************************)

CoverTypes ==
    /\ stored \in SUBSET Covers
    /\ canonical \in {"absent", "bare", "covered"}
    /\ ownBook \in [Owner -> OwnRow \cup {None}]
    /\ snapshots \in [Owner -> SUBSET Covers]
    /\ gone \in SUBSET Owner
    /\ coverLock \in Call \cup {None}
    /\ coverCalls \in [Call -> CoverRequest \cup {None}]
    /\ spoilt \in SUBSET (Covers \cup {None})
    /\ coverOps \in Nat

Manual(u, books) == books[u] # None /\ books[u].kind = "manual"
\* the private cover of a user has been recorded, or never will be
Settled(u, books, deleted) == u \in deleted \/ Manual(u, books)

\* a private cover is only its owner's: in the book, and in loans of it
RowsArePrivate(books, loans, deleted) ==
    /\ \A u \in Owner : loans[u] \subseteq {u, Shared} /\ (u \in loans[u] => Settled(u, books, deleted))
    /\ \A u \in Owner : books[u] # None =>
         books[u].cover \in IF books[u].kind = "manual" THEN {u} ELSE {None, Shared}
    /\ \A u \in deleted : books[u] = None /\ loans[u] = {}

\* what a call does with which path at its step
CoverCallFits(call, deleted) ==
    /\ call.at = "put" => call.op = "manual"
    /\ call.op = "manual" => /\ call.at \in {"put", "record", "delete"} /\ ~call.held
                             /\ call.path \in Owner /\ call.path = call.user
    /\ call.op = "erase" => \/ call.path = Shared /\ call.at \in {"lock", "check", "delete", "unlock"}
                            \/ call.path \in deleted /\ call.at = "delete" /\ ~call.held
    /\ call.op = "loan" => call.at = "record" /\ call.user \in Owner /\ call.path \in {call.user, Shared}
    /\ call.op \notin {"manual", "erase", "loan"} => call.path \in {None, Shared}
    /\ call.op = "sweep" => call.user \in Owner
    /\ call.op = "repair" /\ call.at = "record" => call.path = Shared
    /\ call.op \in {"enrich", "sweep"} /\ call.mine => call.path = Shared
    /\ call.at \in {"find", "download"} => call.path = None
    /\ call.at \in {"check", "delete"} => call.path # None

\* a cover about to be recorded is stored, one about to be deleted is not in use
PathFits(call, files, bad, refs) ==
    /\ call.at = "record" /\ call.path # None => call.path \in files \cup bad
    /\ call.at = "delete" => call.path \notin refs \ bad

\* only the upload of a private cover has it before it is recorded
UploadIsAlone(call, files, books, deleted) ==
    /\ call.op = "manual" /\ call.at \in {"put", "record"} =>
         ~Manual(call.path, books) /\ (call.at = "put" => call.path \notin files)
    /\ call.op = "loan" /\ call.path \in Owner => Settled(call.path, books, deleted)

\* calls that say they hold the lock do, and no two uploads share a path
CallsApart(calls, lock) ==
    /\ \A c \in Call : calls[c] # None /\ calls[c].held => lock = c
    /\ \A c, d \in Call : c # d /\ calls[c] # None /\ calls[d] # None
         /\ calls[c].op = "manual" /\ calls[d].op = "manual" => calls[c].path # calls[d].path

\* a private cover that is stored is its owner's, or someone deals with it
DealsWith(call, u) == call # None /\ call.op \in {"manual", "erase"} /\ call.path = u
PrivateAccounted == \A u \in (Owner \cap stored) \ spoilt :
    \/ Manual(u, ownBook)
    \/ \E c \in Call : DealsWith(coverCalls[c], u)

CoverInv ==
    /\ CoverTypes
    /\ RowsArePrivate(ownBook, snapshots, gone)
    /\ CallsApart(coverCalls, coverLock)
    /\ \A c \in Call : coverCalls[c] # None =>
         /\ CoverCallFits(coverCalls[c], gone)
         /\ PathFits(coverCalls[c], stored, spoilt, Referenced)
         /\ UploadIsAlone(coverCalls[c], stored, ownBook, gone)
    /\ CoversInUseAreStored
    /\ PrivateAccounted

-----------------------------------------------------------------------------
(* What a step of the call c, or of none of them, leaves                   *)

Uploads(call, u) == call # None /\ call.op = "manual" /\ call.path = u

RowsFit(c) ==
    /\ CoverTypes'
    /\ spoilt \subseteq spoilt' /\ gone \subseteq gone'
    /\ \A d \in Call \ {c} : coverCalls'[d] = coverCalls[d]
    /\ RowsArePrivate(ownBook', snapshots', gone')
    /\ \A u \in Owner : Settled(u, ownBook, gone) => Settled(u, ownBook', gone')
    /\ \A u \in Owner : Manual(u, ownBook') /\ ~Manual(u, ownBook) => c \in Call /\ Uploads(coverCalls[c], u)

\* what is stored is shared, or uploaded here; what goes is not in use, and nobody is about to
\* record it; what comes into use is stored, and nobody is about to delete it
BlobsFit(c) ==
    /\ \A p \in stored' \ stored : p = Shared \/ (c \in Call /\ Uploads(coverCalls[c], p))
    /\ \A p \in (stored \ stored') \ spoilt' :
         /\ p \notin Referenced'
         /\ \A d \in Call \ {c} : coverCalls[d] # None /\ coverCalls[d].at = "record" => coverCalls[d].path # p
    /\ \A p \in (Referenced' \ Referenced) \ spoilt' :
         /\ p \in stored'
         /\ \A d \in Call \ {c} : coverCalls[d] # None /\ coverCalls[d].at = "delete" => coverCalls[d].path # p

OthersHold(c) == \A d \in Call \ {c} : coverCalls[d] # None /\ coverCalls[d].held => coverLock' = d

\* the call goes on as m
GoesOn(c, m) ==
    /\ CoverCallFits(m, gone')
    /\ PathFits(m, stored', spoilt', Referenced')
    /\ UploadIsAlone(m, stored', ownBook', gone')
    /\ m.held => coverLock' = c
    /\ m.op = "manual" => \A d \in Call \ {c} : ~Uploads(coverCalls[d], m.path)
OwnCallFits(c) == c \in Call /\ coverCalls'[c] # None => GoesOn(c, coverCalls'[c])

PrivateFits(c) == \A u \in (Owner \cap stored') \ spoilt' :
    \/ Manual(u, ownBook')
    \/ c \in Call /\ DealsWith(coverCalls'[c], u)
    \/ u \in stored /\ ~Manual(u, ownBook) /\ (c \in Call => ~DealsWith(coverCalls[c], u))

StepFits(c) == RowsFit(c) /\ BlobsFit(c) /\ OthersHold(c) /\ OwnCallFits(c) /\ PrivateFits(c)

LEMMA CoverNulls ==
    /\ Shared \notin Owner /\ None \notin Owner /\ None # Shared /\ None \notin OwnRow
    /\ None \notin CoverRequest /\ None \notin Call
    /\ Covers = Owner \cup {Shared}
BY CoverAssumption, NoneAssumption DEF Covers

LEMMA CoverFields ==
    \A call \in CoverRequest :
        /\ call.op \in {"repair", "bulk", "fill", "enrich", "replace", "sweep", "loan", "manual", "erase"}
        /\ call.at \in CoverStep /\ call.user \in Owner \cup {None} /\ call.path \in Covers \cup {None}
        /\ call.mine \in BOOLEAN /\ call.held \in BOOLEAN
BY DEF CoverRequest

\* What is known of a call at its step.
LEMMA CoverAtStep ==
    ASSUME CoverInv, NEW c \in Call, coverCalls[c] # None
    PROVE  /\ coverCalls[c] \in CoverRequest
           /\ CoverCallFits(coverCalls[c], gone)
           /\ PathFits(coverCalls[c], stored, spoilt, Referenced)
           /\ UploadIsAlone(coverCalls[c], stored, ownBook, gone)
           /\ coverCalls[c].held => coverLock = c
           /\ coverCalls[c].op = "manual" => \A d \in Call \ {c} : ~Uploads(coverCalls[d], coverCalls[c].path)
BY DEF CoverInv, CoverTypes, CallsApart, Uploads

\* A private cover that is referred to is its owner's.
LEMMA PrivateRefs ==
    ASSUME NEW u \in Owner, RowsArePrivate(ownBook, snapshots, gone), u \in Referenced,
           ownBook \in [Owner -> OwnRow \cup {None}]
    PROVE  Manual(u, ownBook) /\ u \notin gone
<1> USE CoverNulls
<1>1. PICK v \in Owner : u \in CoverRefs(v)
  BY DEF Referenced
<1>2. u \in snapshots[v] \/ (ownBook[v] # None /\ ownBook[v].cover = u)
  BY <1>1 DEF CoverRefs
<1>3. CASE u \in snapshots[v]
  BY <1>3 DEF RowsArePrivate, Settled
<1>4. CASE ownBook[v] # None /\ ownBook[v].cover = u
  BY <1>4 DEF RowsArePrivate, Manual
<1> QED
  BY <1>2, <1>3, <1>4

\* The invariant survives what a step leaves.
LEMMA CoverStepKeeps ==
    ASSUME CoverInv, NEW c, StepFits(c)
    PROVE  CoverInv'
<1> USE CoverNulls
<1>1. CoverTypes' /\ RowsArePrivate(ownBook', snapshots', gone')
  BY DEF StepFits, RowsFit
<1>2. ASSUME NEW d \in Call \ {c}, coverCalls[d] # None
      PROVE  /\ CoverCallFits(coverCalls[d], gone')
             /\ PathFits(coverCalls[d], stored', spoilt', Referenced')
             /\ UploadIsAlone(coverCalls[d], stored', ownBook', gone')
  <2> DEFINE call == coverCalls[d]
  <2>1. /\ call \in CoverRequest /\ CoverCallFits(call, gone)
        /\ PathFits(call, stored, spoilt, Referenced)
        /\ UploadIsAlone(call, stored, ownBook, gone)
    BY <1>2, CoverAtStep
  <2>2. CoverCallFits(call, gone')
    BY <2>1 DEF CoverCallFits, StepFits, RowsFit
  <2>3. PathFits(call, stored', spoilt', Referenced')
    BY <1>2, <2>1 DEF PathFits, StepFits, RowsFit, BlobsFit
  <2>4. call.op = "manual" => call.path \in Owner /\ (c \in Call => ~Uploads(coverCalls[c], call.path))
    <3> SUFFICES ASSUME call.op = "manual", c \in Call PROVE ~Uploads(coverCalls[c], call.path)
      BY <2>1 DEF CoverCallFits
    <3> QED
      BY <1>2, CoverAtStep
  <2>5. UploadIsAlone(call, stored', ownBook', gone')
    BY <2>1, <2>4 DEF UploadIsAlone, StepFits, RowsFit, BlobsFit
  <2> QED
    BY <2>2, <2>3, <2>5
<1>3. \A d \in Call : d # c => coverCalls'[d] = coverCalls[d]
  BY DEF StepFits, RowsFit
<1>4. ASSUME NEW d \in Call, coverCalls'[d] # None
      PROVE  /\ CoverCallFits(coverCalls'[d], gone')
             /\ PathFits(coverCalls'[d], stored', spoilt', Referenced')
             /\ UploadIsAlone(coverCalls'[d], stored', ownBook', gone')
             /\ coverCalls'[d].held => coverLock' = d
             /\ coverCalls'[d].op = "manual" => \A e \in Call \ {d} : ~Uploads(coverCalls'[e], coverCalls'[d].path)
  <2>1. CASE d = c
    BY <1>3, <1>4, <2>1 DEF StepFits, OwnCallFits, GoesOn
  <2>2. CASE d # c
    <3>1. coverCalls'[d] = coverCalls[d] /\ coverCalls[d] # None
      BY <1>3, <1>4, <2>2
    <3>2. coverCalls[d].held => coverLock' = d
      BY <2>2, <3>1 DEF StepFits, OthersHold
    <3>3. ASSUME coverCalls[d].op = "manual", NEW e \in Call \ {d}
          PROVE  ~Uploads(coverCalls'[e], coverCalls[d].path)
      <4>1. CASE e = c
        BY <2>2, <3>1, <3>3, <4>1 DEF StepFits, OwnCallFits, GoesOn, Uploads
      <4>2. CASE e # c
        BY <1>3, <3>1, <3>3, <4>2, CoverAtStep
      <4> QED
        BY <4>1, <4>2
    <3> QED
      BY <1>2, <2>2, <3>1, <3>2, <3>3
  <2> QED
    BY <2>1, <2>2
<1>5. CallsApart(coverCalls', coverLock')
  BY <1>4 DEF CallsApart, Uploads
<1>6. CoversInUseAreStored'
  <2> SUFFICES ASSUME NEW p \in Referenced', p \notin spoilt' PROVE p \in stored'
    BY DEF CoversInUseAreStored
  <2>1. CASE p \in Referenced
    BY <2>1 DEF CoverInv, CoversInUseAreStored, StepFits, RowsFit, BlobsFit
  <2>2. CASE p \notin Referenced
    BY <2>2 DEF StepFits, BlobsFit
  <2> QED
    BY <2>1, <2>2
<1>7. PrivateAccounted'
  <2> SUFFICES ASSUME NEW u \in (Owner \cap stored') \ spoilt', ~Manual(u, ownBook')
               PROVE  \E d \in Call : DealsWith(coverCalls'[d], u)
    BY DEF PrivateAccounted
  <2>1. CASE c \in Call /\ DealsWith(coverCalls'[c], u)
    BY <2>1
  <2>2. CASE u \in stored /\ ~Manual(u, ownBook) /\ (c \in Call => ~DealsWith(coverCalls[c], u))
    <3>1. PICK d \in Call : DealsWith(coverCalls[d], u)
      BY <2>2 DEF CoverInv, PrivateAccounted, StepFits, RowsFit
    <3> QED
      BY <1>3, <2>2, <3>1
  <2> QED
    BY <2>1, <2>2 DEF StepFits, PrivateFits
<1> QED
  BY <1>1, <1>4, <1>5, <1>6, <1>7 DEF CoverInv

-----------------------------------------------------------------------------
(* Steps that leave the rows as they are                                   *)

\* the call c goes on as m, or is over
Becomes(c, m) == coverCalls' = [coverCalls EXCEPT ![c] = m] /\ coverOps' \in Nat

\* the step of c loses no private cover that c deals with
Deals(c, m) == \A u \in Owner : DealsWith(coverCalls[c], u) =>
    DealsWith(m, u) \/ u \notin stored' \ spoilt' \/ Manual(u, ownBook)

LEMMA RowsStay ==
    ASSUME UNCHANGED coverRows
    PROVE  Referenced' = Referenced /\ UNCHANGED <<canonical, ownBook, snapshots, gone>>
BY DEF coverRows, Referenced, CoverRefs

\* The blobs, the lock and one call change.
LEMMA CallMoves ==
    ASSUME CoverInv, NEW c \in Call, NEW m \in CoverRequest \cup {None}, UNCHANGED coverRows, Becomes(c, m),
           stored' \in SUBSET Covers, spoilt' \in SUBSET (Covers \cup {None}), spoilt \subseteq spoilt',
           coverLock' \in Call \cup {None}, BlobsFit(c), OthersHold(c), m # None => GoesOn(c, m),
           Deals(c, m), \A u \in Owner : u \in stored' \ stored => DealsWith(m, u)
    PROVE  CoverInv'
<1>1. UNCHANGED <<canonical, ownBook, snapshots, gone>>
  BY RowsStay
<1>2. coverCalls' \in [Call -> CoverRequest \cup {None}] /\ coverCalls'[c] = m
      /\ \A d \in Call \ {c} : coverCalls'[d] = coverCalls[d]
  BY DEF Becomes, CoverInv, CoverTypes
<1>3. CoverTypes'
  BY <1>1, <1>2 DEF Becomes, CoverInv, CoverTypes
<1>4. RowsFit(c)
  BY <1>1, <1>2, <1>3 DEF RowsFit, CoverInv
<1>5. OwnCallFits(c)
  BY <1>2 DEF OwnCallFits
<1>6. PrivateFits(c)
  BY <1>1, <1>2 DEF PrivateFits, Deals
<1> QED
  BY <1>4, <1>5, <1>6, CoverStepKeeps DEF StepFits

\* Only one call and the lock change.
LEMMA CallMovesQuietly ==
    ASSUME CoverInv, NEW c \in Call, NEW m \in CoverRequest \cup {None}, UNCHANGED <<stored, coverRows, spoilt>>,
           Becomes(c, m), coverLock' \in Call \cup {None}, OthersHold(c), Deals(c, m),
           m # None =>
             /\ CoverCallFits(m, gone)
             /\ PathFits(m, stored, spoilt, Referenced)
             /\ UploadIsAlone(m, stored, ownBook, gone)
             /\ m.held => coverLock' = c
             /\ m.op = "manual" => \A d \in Call \ {c} : ~Uploads(coverCalls[d], m.path)
    PROVE  CoverInv'
<1>1. UNCHANGED <<ownBook, gone, stored, spoilt>> /\ UNCHANGED coverRows /\ Referenced' = Referenced
  <2>1. UNCHANGED <<stored, spoilt>> /\ UNCHANGED coverRows
    OBVIOUS
  <2> QED
    BY <2>1, RowsStay
<1>2. BlobsFit(c)
  BY <1>1 DEF BlobsFit
<1>3. m # None => GoesOn(c, m)
  BY <1>1 DEF GoesOn
<1>4. stored' \in SUBSET Covers /\ spoilt' \in SUBSET (Covers \cup {None}) /\ spoilt \subseteq spoilt'
  BY <1>1 DEF CoverInv, CoverTypes
<1> QED
  BY <1>1, <1>2, <1>3, <1>4, CallMoves

\* An ordinary call has to do with the shared cover alone.
Ordinary(m) == m.op \notin {"manual", "erase", "loan"}
LEMMA OrdinaryDeals ==
    ASSUME CoverInv, NEW c \in Call, coverCalls[c] # None,
           Ordinary(coverCalls[c]) \/ coverCalls[c].op = "loan" \/ coverCalls[c].path \notin Owner, NEW m
    PROVE  Deals(c, m)
BY DEF Ordinary, Deals, DealsWith

\* A call begins.
LEMMA CallBegins ==
    ASSUME CoverInv, NEW c \in Call, NEW m \in CoverRequest, UNCHANGED <<stored, coverRows, coverLock, spoilt>>,
           coverCalls[c] = None, Becomes(c, m), CoverCallFits(m, gone), ~m.held,
           PathFits(m, stored, spoilt, Referenced), UploadIsAlone(m, stored, ownBook, gone),
           m.op = "manual" => \A d \in Call \ {c} : ~Uploads(coverCalls[d], m.path)
    PROVE  CoverInv'
<1>1. UNCHANGED <<stored, coverRows, spoilt>> /\ coverLock' = coverLock
  OBVIOUS
<1>2. coverLock' \in Call \cup {None} /\ OthersHold(c) /\ Deals(c, m)
  BY <1>1 DEF CoverInv, CoverTypes, CallsApart, OthersHold, Deals, DealsWith
<1> QED
  BY <1>1, <1>2, CallMovesQuietly

LEMMA CoverCallBecomes ==
    ASSUME CoverInv, NEW c, NEW op, NEW at, NEW user, NEW path, CoverCall(c, op, at, user, path)
    PROVE  /\ coverCalls[c] = None
           /\ Becomes(c, [op |-> op, at |-> at, user |-> user, path |-> path, mine |-> FALSE, held |-> FALSE])
BY DEF CoverCall, Becomes, CoverInv, CoverTypes

\* An ordinary call begins, with no path in hand.
LEMMA OrdinaryBegins ==
    ASSUME CoverInv, NEW c \in Call, NEW op \in {"repair", "bulk", "enrich", "sweep"},
           NEW at \in {"lock", "find", "download"}, NEW user \in Owner \cup {None},
           op = "sweep" => user \in Owner,
           CoverCall(c, op, at, user, None), UNCHANGED <<stored, coverRows, coverLock, spoilt>>
    PROVE  CoverInv'
<1> DEFINE m == [op |-> op, at |-> at, user |-> user, path |-> None, mine |-> FALSE, held |-> FALSE]
<1>1. m \in CoverRequest /\ m.op = op /\ m.at = at /\ m.user = user /\ m.path = None /\ ~m.mine /\ ~m.held
  BY DEF CoverRequest, CoverStep
<1>2. coverCalls[c] = None /\ Becomes(c, m)
  BY CoverCallBecomes
<1> HIDE DEF m
<1>3. CoverCallFits(m, gone) /\ PathFits(m, stored, spoilt, Referenced) /\ UploadIsAlone(m, stored, ownBook, gone)
  BY <1>1 DEF CoverCallFits, PathFits, UploadIsAlone
<1> QED
  BY <1>1, <1>2, <1>3, CallBegins

LEMMA OrdinaryCallsBegin ==
    ASSUME CoverInv, NEW c \in Call,
           repairMissingOpenLibraryCovers(c) \/ bulkCovers(c) \/ enrichCover(c) \/ enrichImported(c)
    PROVE  CoverInv'
BY OrdinaryBegins DEF repairMissingOpenLibraryCovers, bulkCovers, enrichCover, enrichImported

\* A loan remembers a cover that is in use: a shared one, or the lender's.
LEMMA createLoanOfKeeps ==
    ASSUME CoverInv, NEW c \in Call, createLoanOf(c)
    PROVE  CoverInv'
<1> USE CoverNulls
<1>a. PICK u \in Owner \ gone : \E path \in CoverRefs(u) \cup (IF canonical = "covered" THEN {Shared} ELSE {}) :
        CoverCall(c, "loan", "record", u, path) /\ UNCHANGED <<stored, coverRows, coverLock, spoilt>>
  BY DEF createLoanOf
<1>1. PICK path \in CoverRefs(u) \cup (IF canonical = "covered" THEN {Shared} ELSE {}) :
        CoverCall(c, "loan", "record", u, path) /\ UNCHANGED <<stored, coverRows, coverLock, spoilt>>
  BY <1>a
<1>2. path \in Referenced /\ path \in {u, Shared}
  <2>1. path \in Referenced
    BY <1>1 DEF Referenced
  <2>2. ownBook[u] # None => ownBook[u].cover \in {u, None, Shared}
    BY <1>1 DEF CoverInv, RowsArePrivate
  <2>3. snapshots[u] \subseteq {u, Shared}
    BY <1>1 DEF CoverInv, RowsArePrivate
  <2> QED
    BY <1>1, <2>1, <2>2, <2>3 DEF CoverRefs
<1>3. path \in stored \cup spoilt
  BY <1>2 DEF CoverInv, CoversInUseAreStored
<1>4. path \in Owner => Settled(path, ownBook, gone)
  BY <1>2, PrivateRefs DEF CoverInv, CoverTypes, Settled
<1> DEFINE m == [op |-> "loan", at |-> "record", user |-> u, path |-> path, mine |-> FALSE, held |-> FALSE]
<1>5. m \in CoverRequest /\ m.op = "loan" /\ m.at = "record" /\ m.user = u /\ m.path = path /\ ~m.held
  BY <1>1, <1>2 DEF CoverRequest, CoverStep
<1>6. coverCalls[c] = None /\ Becomes(c, m)
  BY <1>1, CoverCallBecomes
<1> HIDE DEF m
<1>7. CoverCallFits(m, gone) /\ PathFits(m, stored, spoilt, Referenced) /\ UploadIsAlone(m, stored, ownBook, gone)
  BY <1>1, <1>2, <1>3, <1>4, <1>5 DEF CoverCallFits, PathFits, UploadIsAlone
<1> QED
  BY <1>1, <1>5, <1>6, <1>7, CallBegins

\* An upload begins with a path nobody else has.
LEMMA createManualCoverKeeps ==
    ASSUME CoverInv, NEW c \in Call, createManualCover(c)
    PROVE  CoverInv'
<1> USE CoverNulls
<1>1. PICK u \in Owner \ gone :
        /\ ownBook[u] = None /\ u \notin stored
        /\ \A d \in Call : coverCalls[d] # None => coverCalls[d].path # u
        /\ CoverCall(c, "manual", "put", u, u) /\ UNCHANGED <<stored, coverRows, coverLock, spoilt>>
  BY DEF createManualCover
<1> DEFINE m == [op |-> "manual", at |-> "put", user |-> u, path |-> u, mine |-> FALSE, held |-> FALSE]
<1>2. m \in CoverRequest /\ m.op = "manual" /\ m.at = "put" /\ m.user = u /\ m.path = u /\ ~m.held /\ ~m.mine
  BY <1>1 DEF CoverRequest, CoverStep
<1>3. coverCalls[c] = None /\ Becomes(c, m)
  BY <1>1, CoverCallBecomes
<1> HIDE DEF m
<1>4. CoverCallFits(m, gone) /\ PathFits(m, stored, spoilt, Referenced) /\ UploadIsAlone(m, stored, ownBook, gone)
  BY <1>1, <1>2 DEF CoverCallFits, PathFits, UploadIsAlone, Manual
<1>5. \A d \in Call : ~Uploads(coverCalls[d], m.path)
  BY <1>1, <1>2 DEF Uploads
<1> QED
  BY <1>1, <1>2, <1>3, <1>4, <1>5, CallBegins

\* A call is over, and had nothing private in hand.
LEMMA OrdinaryEnds ==
    ASSUME CoverInv, NEW c \in Call, UNCHANGED <<stored, coverRows, spoilt>>, CoverGoes(c, None),
           coverLock' \in Call \cup {None}, OthersHold(c), Deals(c, None)
    PROVE  CoverInv'
<1>1. Becomes(c, None)
  BY DEF CoverGoes, Becomes, CoverInv, CoverTypes
<1> QED
  BY <1>1, CallMovesQuietly

LEMMA OthersStillHold ==
    ASSUME CoverInv, NEW c \in Call, coverLock' = coverLock
    PROVE  OthersHold(c) /\ coverLock' \in Call \cup {None}
BY DEF CoverInv, CoverTypes, CallsApart, OthersHold

LEMMA LockCoverKeeps ==
    ASSUME CoverInv, NEW c \in Call, LockCover(c)
    PROVE  CoverInv'
<1> USE CoverNulls
<1> DEFINE call == coverCalls[c]
           m == [call EXCEPT !.held = TRUE, !.at = IF call.path = None THEN "find" ELSE "check"]
<1>1. /\ call # None /\ call.at = "lock" /\ UNCHANGED <<stored, coverRows, spoilt>>
      /\ call \in CoverRequest /\ CoverCallFits(call, gone)
  BY CoverAtStep DEF LockCover, CoverAt
<1>2. call.op \in {"replace", "sweep", "erase", "repair", "bulk", "fill", "enrich"} /\ call.path \in {None, Shared}
      /\ (call.op = "erase" => call.path = Shared)
  BY <1>1, CoverFields DEF CoverCallFits
<1>3. CASE CoverLockFree(c) /\ coverLock' = c /\ CoverGoes(c, m)
  <2>1. /\ m \in CoverRequest /\ m.op = call.op /\ m.user = call.user /\ m.path = call.path
        /\ m.mine = call.mine /\ m.held /\ m.at = IF call.path = None THEN "find" ELSE "check"
    BY <1>1 DEF CoverRequest, CoverStep
  <2>2. Becomes(c, m)
    BY <1>3 DEF CoverGoes, Becomes, CoverInv, CoverTypes
  <2> HIDE DEF m
  <2>3. CoverCallFits(m, gone)
    BY <1>1, <1>2, <2>1 DEF CoverCallFits
  <2>4. PathFits(m, stored, spoilt, Referenced) /\ UploadIsAlone(m, stored, ownBook, gone)
    BY <1>2, <2>1 DEF PathFits, UploadIsAlone
  <2>5. OthersHold(c)
    BY <1>3 DEF CoverInv, CallsApart, OthersHold, CoverLockFree
  <2>6. Deals(c, m)
    BY <1>1, <1>2, OrdinaryDeals
  <2> QED
    BY <1>1, <1>2, <1>3, <2>1, <2>2, <2>3, <2>4, <2>5, <2>6, CallMovesQuietly
<1>4. CASE CoverGoes(c, None) /\ UNCHANGED coverLock
  BY <1>1, <1>2, <1>4, OrdinaryEnds, OrdinaryDeals, OthersStillHold
<1> QED
  BY <1>3, <1>4 DEF LockCover

LEMMA UnlockCoverKeeps ==
    ASSUME CoverInv, NEW c \in Call, UnlockCover(c)
    PROVE  CoverInv'
<1> USE CoverNulls
<1> DEFINE call == coverCalls[c]
<1>1. /\ call # None /\ call.at = "unlock" /\ UNCHANGED <<stored, coverRows, spoilt>>
      /\ call \in CoverRequest /\ CoverCallFits(call, gone) /\ CoverGoes(c, None)
      /\ coverLock' = IF coverLock = c THEN None ELSE coverLock
  BY CoverAtStep DEF UnlockCover, CoverAt
<1>2. call.op # "manual" /\ (call.op = "erase" => call.path = Shared)
  BY <1>1 DEF CoverCallFits
<1>3. Deals(c, None)
  BY <1>1, <1>2 DEF Deals, DealsWith
<1>4. OthersHold(c) /\ coverLock' \in Call \cup {None}
  BY <1>1 DEF CoverInv, CoverTypes, CallsApart, OthersHold
<1> QED
  BY <1>1, <1>3, <1>4, OrdinaryEnds

LEMMA CoverLockExpiresKeeps ==
    ASSUME CoverInv, CoverLockExpires
    PROVE  CoverInv'
<1>1. /\ coverLock # None /\ coverCalls[coverLock] = None /\ coverLock' = None
      /\ UNCHANGED <<stored, canonical, ownBook, snapshots, gone, coverCalls, spoilt, coverOps>>
  BY DEF CoverLockExpires, coverRows
<1>2. CallsApart(coverCalls', coverLock')
  BY <1>1 DEF CoverInv, CallsApart
<1>3. Referenced' = Referenced
  BY <1>1 DEF Referenced, CoverRefs
<1> QED
  BY <1>1, <1>2, <1>3 DEF CoverInv, CoverTypes, CoversInUseAreStored, PrivateAccounted

LEMMA CoverCrashKeeps ==
    ASSUME CoverInv, NEW c \in Call, CoverCrash(c)
    PROVE  CoverInv'
<1> USE CoverNulls
<1>1. /\ coverCalls[c] \in CoverRequest /\ stored' = stored /\ coverLock' = coverLock
      /\ UNCHANGED coverRows /\ CoverGoes(c, None)
      /\ spoilt' = spoilt \cup ({coverCalls[c].path} \ {None, Shared})
  BY CoverAtStep DEF CoverCrash
<1>2. Becomes(c, None)
  BY <1>1 DEF CoverGoes, Becomes, CoverInv, CoverTypes
<1>3. stored' \in SUBSET Covers /\ spoilt' \in SUBSET (Covers \cup {None}) /\ spoilt \subseteq spoilt'
  BY <1>1, CoverFields DEF CoverInv, CoverTypes
<1>4. BlobsFit(c)
  BY <1>1, RowsStay DEF BlobsFit
<1>5. Deals(c, None)
  BY <1>1 DEF Deals, DealsWith
<1> QED
  BY <1>1, <1>2, <1>3, <1>4, <1>5, OthersStillHold, CallMoves

\* Calls that look for a shared cover have none yet, and nothing private.
LEMMA LookingForShared ==
    ASSUME CoverInv, NEW c \in Call, coverCalls[c] # None, coverCalls[c].at \in {"find", "download"}
    PROVE  Ordinary(coverCalls[c]) /\ coverCalls[c].path = None
<1> USE CoverNulls
<1> QED
  BY CoverAtStep DEF CoverCallFits, Ordinary

LEMMA findStoredKeeps ==
    ASSUME CoverInv, NEW c \in Call, findStoredOpenLibraryCover(c)
    PROVE  CoverInv'
<1> USE CoverNulls
<1> DEFINE call == coverCalls[c]
           found == [call EXCEPT !.at = "record", !.path = Shared]
           missing == [call EXCEPT !.at = "download"]
<1>1. /\ call # None /\ call.at = "find" /\ UNCHANGED <<stored, coverRows, spoilt>> /\ coverLock' = coverLock
      /\ call \in CoverRequest /\ CoverCallFits(call, gone) /\ (call.held => coverLock = c)
      /\ Ordinary(call) /\ call.path = None
  BY CoverAtStep, LookingForShared DEF findStoredOpenLibraryCover, CoverAt
<1>2. ASSUME NEW m \in {found, missing}, CoverGoes(c, m), m = found => Shared \in stored
      PROVE  CoverInv'
  <2>1. /\ m \in CoverRequest /\ m.op = call.op /\ m.user = call.user
        /\ m.mine = call.mine /\ m.held = call.held
        /\ \/ m.at = "record" /\ m.path = Shared /\ Shared \in stored
           \/ m.at = "download" /\ m.path = None
    <3>1. /\ found \in CoverRequest /\ found.op = call.op /\ found.user = call.user /\ found.mine = call.mine
          /\ found.held = call.held /\ found.at = "record" /\ found.path = Shared
      BY <1>1 DEF CoverRequest, CoverStep, Covers
    <3>2. /\ missing \in CoverRequest /\ missing.op = call.op /\ missing.user = call.user
          /\ missing.mine = call.mine /\ missing.held = call.held
          /\ missing.at = "download" /\ missing.path = None
      BY <1>1 DEF CoverRequest, CoverStep, Covers
    <3> HIDE DEF found, missing
    <3> QED
      BY <1>2, <3>1, <3>2
  <2>2. Becomes(c, m)
    BY <1>2 DEF CoverGoes, Becomes, CoverInv, CoverTypes
  <2> HIDE DEF found, missing
  <2>3. CoverCallFits(m, gone) /\ PathFits(m, stored, spoilt, Referenced) /\ UploadIsAlone(m, stored, ownBook, gone)
    BY <1>1, <2>1 DEF CoverCallFits, PathFits, UploadIsAlone, Ordinary
  <2>4. m.op # "manual" /\ Deals(c, m)
    BY <1>1, <2>1, OrdinaryDeals DEF Ordinary
  <2> QED
    BY <1>1, <2>1, <2>2, <2>3, <2>4, OthersStillHold, CallMovesQuietly
<1>3. \/ Shared \in stored /\ CoverGoes(c, found)
      \/ CoverGoes(c, missing)
  BY DEF findStoredOpenLibraryCover, CoverMoves
<1>4. found # missing
  BY <1>1 DEF CoverRequest
<1> HIDE DEF found, missing
<1> QED
  BY <1>2, <1>3, <1>4

LEMMA downloadCoversKeeps ==
    ASSUME CoverInv, NEW c \in Call, downloadCovers(c)
    PROVE  CoverInv'
<1> USE CoverNulls
<1> DEFINE call == coverCalls[c]
           m == [call EXCEPT !.at = "record", !.path = Shared, !.mine = TRUE]
           n == [call EXCEPT !.at = "record"]
<1>1. /\ call # None /\ call.at = "download" /\ UNCHANGED coverRows /\ spoilt' = spoilt /\ coverLock' = coverLock
      /\ call \in CoverRequest /\ CoverCallFits(call, gone) /\ (call.held => coverLock = c)
      /\ Ordinary(call) /\ call.path = None
  BY CoverAtStep, LookingForShared DEF downloadCovers, CoverAt
<1>2. CASE stored' = stored \cup {Shared} /\ CoverGoes(c, m)
  <2>1. /\ m \in CoverRequest /\ m.op = call.op /\ m.user = call.user
        /\ m.mine /\ m.held = call.held /\ m.at = "record" /\ m.path = Shared
    BY <1>1 DEF CoverRequest, CoverStep, Covers
  <2>2. Becomes(c, m)
    BY <1>2 DEF CoverGoes, Becomes, CoverInv, CoverTypes
  <2> HIDE DEF m
  <2>3. /\ stored' \in SUBSET Covers /\ spoilt' \in SUBSET (Covers \cup {None})
        /\ \A u \in Owner : u \notin stored' \ stored
    BY <1>1, <1>2 DEF CoverInv, CoverTypes
  <2>4. BlobsFit(c)
    BY <1>1, <1>2, RowsStay DEF BlobsFit
  <2>5. GoesOn(c, m)
    <3>1. gone' = gone
      BY <1>1, RowsStay
    <3> QED
      BY <1>1, <1>2, <2>1, <3>1 DEF GoesOn, CoverCallFits, PathFits, UploadIsAlone, Ordinary
  <2> QED
    BY <1>1, <1>2, <2>1, <2>2, <2>3, <2>4, <2>5, OthersStillHold, OrdinaryDeals, CallMoves
<1>3. CASE CoverGoes(c, None) /\ stored' = stored
  BY <1>1, <1>3, OrdinaryEnds, OrdinaryDeals, OthersStillHold
<1>4. CASE call.op # "repair" /\ CoverGoes(c, n) /\ stored' = stored
  <2>1. /\ n \in CoverRequest /\ n.op = call.op /\ n.user = call.user
        /\ n.mine = call.mine /\ n.held = call.held /\ n.at = "record" /\ n.path = None
    BY <1>1 DEF CoverRequest, CoverStep
  <2>2. Becomes(c, n)
    BY <1>4 DEF CoverGoes, Becomes, CoverInv, CoverTypes
  <2> HIDE DEF n
  <2>3. CoverCallFits(n, gone) /\ PathFits(n, stored, spoilt, Referenced) /\ UploadIsAlone(n, stored, ownBook, gone)
    BY <1>1, <1>4, <2>1 DEF CoverCallFits, PathFits, UploadIsAlone, Ordinary
  <2>4. n.op # "manual" /\ Deals(c, n)
    BY <1>1, <2>1, OrdinaryDeals DEF Ordinary
  <2> QED
    BY <1>1, <1>4, <2>1, <2>2, <2>3, <2>4, OthersStillHold, CallMovesQuietly
<1> QED
  BY <1>2, <1>3, <1>4 DEF downloadCovers, CoverMoves

\* The upload of a private cover stores it, or fails.
LEMMA putCoverImageKeeps ==
    ASSUME CoverInv, NEW c \in Call, putCoverImage(c)
    PROVE  CoverInv'
<1> USE CoverNulls
<1> DEFINE call == coverCalls[c]
           m == [call EXCEPT !.at = "record"]
<1>1. /\ call # None /\ call.at = "put" /\ UNCHANGED coverRows /\ spoilt' = spoilt /\ coverLock' = coverLock
      /\ call \in CoverRequest /\ CoverCallFits(call, gone) /\ UploadIsAlone(call, stored, ownBook, gone)
      /\ call.op = "manual" => \A d \in Call \ {c} : ~Uploads(coverCalls[d], call.path)
  BY CoverAtStep DEF putCoverImage, CoverAt
<1>2. call.op = "manual" /\ ~call.held /\ call.path \in Owner /\ call.path = call.user
      /\ call.path \notin stored /\ ~Manual(call.path, ownBook)
  BY <1>1 DEF CoverCallFits, UploadIsAlone
<1>3. CASE stored' = stored \cup {call.path} /\ CoverGoes(c, m)
  <2>1. /\ m \in CoverRequest /\ m.op = "manual" /\ m.user = call.user /\ m.path = call.path
        /\ ~m.held /\ m.at = "record" /\ m # None
    BY <1>1, <1>2 DEF CoverRequest, CoverStep
  <2>2. Becomes(c, m)
    BY <1>3 DEF CoverGoes, Becomes, CoverInv, CoverTypes
  <2>u. Uploads(call, call.path)
    BY <1>1, <1>2 DEF Uploads
  <2> HIDE DEF m
  <2>3. stored' \in SUBSET Covers /\ spoilt' \in SUBSET (Covers \cup {None})
    BY <1>1, <1>2, <1>3 DEF CoverInv, CoverTypes
  <2>4. BlobsFit(c)
    BY <1>1, <1>2, <1>3, <2>u, RowsStay DEF BlobsFit
  <2>5. GoesOn(c, m)
    <3>1. gone' = gone /\ ownBook' = ownBook
      BY <1>1, RowsStay
    <3> QED
      BY <1>1, <1>2, <1>3, <2>1, <3>1 DEF GoesOn, CoverCallFits, PathFits, UploadIsAlone
  <2>6. Deals(c, m) /\ \A u \in Owner : u \in stored' \ stored => DealsWith(m, u)
    BY <1>1, <1>2, <1>3, <2>1 DEF Deals, DealsWith
  <2> QED
    BY <1>1, <2>1, <2>2, <2>3, <2>4, <2>5, <2>6, OthersStillHold, CallMoves
<1>4. CASE CoverGoes(c, None) /\ stored' = stored
  <2>1. Deals(c, None)
    BY <1>2, <1>4 DEF Deals, DealsWith
  <2> QED
    BY <1>1, <1>4, <2>1, OrdinaryEnds, OthersStillHold
<1> QED
  BY <1>3, <1>4 DEF putCoverImage, CoverMoves

\* Who checks or takes the lock away has the shared cover in hand.
LEMMA CheckReferencedKeeps ==
    ASSUME CoverInv, NEW c \in Call, CheckReferenced(c)
    PROVE  CoverInv'
<1> USE CoverNulls
<1> DEFINE call == coverCalls[c]
           m == [call EXCEPT !.at = "delete"]
           n == [call EXCEPT !.at = "unlock"]
<1>1. /\ call # None /\ call.at = "check" /\ UNCHANGED <<stored, coverRows, spoilt>> /\ coverLock' = coverLock
      /\ call \in CoverRequest /\ CoverCallFits(call, gone) /\ (call.held => coverLock = c)
  BY CoverAtStep DEF CheckReferenced, CoverAt
<1>2. call.op # "manual" /\ call.op # "loan" /\ call.path = Shared
  BY <1>1 DEF CoverCallFits
<1>3. CASE call.path \notin Referenced /\ CoverGoes(c, m)
  <2>1. /\ m \in CoverRequest /\ m.op = call.op /\ m.user = call.user /\ m.path = call.path
        /\ m.mine = call.mine /\ m.held = call.held /\ m.at = "delete"
    BY <1>1 DEF CoverRequest, CoverStep
  <2>2. Becomes(c, m)
    BY <1>3 DEF CoverGoes, Becomes, CoverInv, CoverTypes
  <2> HIDE DEF m
  <2>3. CoverCallFits(m, gone) /\ PathFits(m, stored, spoilt, Referenced) /\ UploadIsAlone(m, stored, ownBook, gone)
    BY <1>1, <1>2, <1>3, <2>1 DEF CoverCallFits, PathFits, UploadIsAlone
  <2> QED
    BY <1>1, <1>2, <2>1, <2>2, <2>3, OrdinaryDeals, OthersStillHold, CallMovesQuietly
<1>4. CASE CoverGoes(c, n)
  <2>1. /\ n \in CoverRequest /\ n.op = call.op /\ n.user = call.user /\ n.path = call.path
        /\ n.mine = call.mine /\ n.held = call.held /\ n.at = "unlock"
    BY <1>1 DEF CoverRequest, CoverStep
  <2>2. Becomes(c, n)
    BY <1>4 DEF CoverGoes, Becomes, CoverInv, CoverTypes
  <2> HIDE DEF n
  <2>3. CoverCallFits(n, gone) /\ PathFits(n, stored, spoilt, Referenced) /\ UploadIsAlone(n, stored, ownBook, gone)
    BY <1>1, <1>2, <2>1 DEF CoverCallFits, PathFits, UploadIsAlone
  <2> QED
    BY <1>1, <1>2, <2>1, <2>2, <2>3, OrdinaryDeals, OthersStillHold, CallMovesQuietly
<1>5. CASE CoverGoes(c, None)
  BY <1>1, <1>2, <1>5, OrdinaryDeals, OrdinaryEnds, OthersStillHold
<1> QED
  BY <1>3, <1>4, <1>5 DEF CheckReferenced, CoverInUse, CoverLeaves, CoverMoves

\* A deletion: what goes is in use nowhere, and who is about to record it has
\* crossed it, since two calls do not hold the lock at once.
LEMMA deleteBlobKeeps ==
    ASSUME CoverInv, NEW c \in Call, deleteBlob(c)
    PROVE  CoverInv'
<1> USE CoverNulls
<1> DEFINE call == coverCalls[c]
           n == [call EXCEPT !.at = "unlock"]
<1>1. /\ call # None /\ call.at = "delete" /\ UNCHANGED coverRows /\ coverLock' = coverLock
      /\ call \in CoverRequest /\ CoverCallFits(call, gone) /\ (call.held => coverLock = c)
      /\ PathFits(call, stored, spoilt, Referenced)
  BY CoverAtStep DEF deleteBlob, CoverAt
<1>2. /\ Referenced' = Referenced /\ gone' = gone
      /\ call.path \notin Referenced \ spoilt /\ call.path \in Covers /\ call.op # "loan"
      /\ call.held => call.op # "manual" /\ (call.op = "erase" => call.path = Shared)
  BY <1>1, RowsStay, CoverFields DEF PathFits, CoverCallFits
<1>3. \/ stored' = stored \ {call.path} /\ spoilt' = spoilt \cup Spoilt(c, {"record"})
      \/ stored' = stored /\ spoilt' = spoilt \cup {call.path}
  BY DEF deleteBlob
<1>4. /\ stored' \in SUBSET Covers /\ spoilt' \in SUBSET (Covers \cup {None}) /\ spoilt \subseteq spoilt'
      /\ stored' \subseteq stored
  BY <1>2, <1>3 DEF CoverInv, CoverTypes, Spoilt
<1>5. BlobsFit(c)
  <2> SUFFICES ASSUME NEW p \in (stored \ stored') \ spoilt'
               PROVE  /\ p \notin Referenced
                      /\ \A d \in Call \ {c} : coverCalls[d] # None /\ coverCalls[d].at = "record" => coverCalls[d].path # p
    BY <1>2, <1>4 DEF BlobsFit
  <2>1. p = call.path /\ spoilt' = spoilt \cup Spoilt(c, {"record"})
    BY <1>3
  <2>2. p \notin Referenced
    BY <1>2, <2>1
  <2>3. ~Crossing(c, {"record"})
    BY <2>1 DEF Spoilt
  <2>4. ASSUME NEW d \in Call \ {c}, coverCalls[d] # None, coverCalls[d].at = "record"
        PROVE  coverCalls[d].path # p
    BY <1>1, <2>1, <2>3, <2>4 DEF Crossing, CoverInv, CallsApart
  <2> QED
    BY <2>2, <2>4
<1>6. ASSUME NEW m PROVE Deals(c, m)
  BY <1>3 DEF Deals, DealsWith
<1>7. \A u \in Owner : u \notin stored' \ stored
  BY <1>4
<1>8. CASE CoverGoes(c, None)
  <2>1. Becomes(c, None)
    BY <1>8 DEF CoverGoes, Becomes, CoverInv, CoverTypes
  <2> QED
    BY <1>1, <1>4, <1>5, <1>6, <1>7, <2>1, OthersStillHold, CallMoves
<1>9. CASE call.held /\ CoverGoes(c, n)
  <2>1. /\ n \in CoverRequest /\ n.op = call.op /\ n.user = call.user /\ n.path = call.path
        /\ n.mine = call.mine /\ n.held = call.held /\ n.at = "unlock"
    BY <1>1 DEF CoverRequest, CoverStep
  <2>2. Becomes(c, n)
    BY <1>9 DEF CoverGoes, Becomes, CoverInv, CoverTypes
  <2> HIDE DEF n
  <2>3. GoesOn(c, n)
    BY <1>1, <1>2, <1>9, <2>1 DEF GoesOn, CoverCallFits, PathFits, UploadIsAlone
  <2> QED
    BY <1>1, <1>4, <1>5, <1>6, <1>7, <2>1, <2>2, <2>3, OthersStillHold, CallMoves
<1> QED
  BY <1>8, <1>9 DEF deleteBlob, CoverLeaves, CoverMoves

-----------------------------------------------------------------------------
(* Steps that write rows                                                   *)

LEMMA NewRefs ==
    ASSUME NEW P, \A u \in Owner : CoverRefs(u)' \subseteq CoverRefs(u) \cup P,
           canonical' = "covered" => canonical = "covered" \/ Shared \in P
    PROVE  Referenced' \subseteq Referenced \cup P
<1> SUFFICES ASSUME NEW p \in Referenced', p \notin P PROVE p \in Referenced
  OBVIOUS
<1>1. CASE \E u \in Owner : p \in CoverRefs(u)'
  BY <1>1 DEF Referenced
<1>2. CASE canonical' = "covered" /\ p = Shared
  BY <1>2 DEF Referenced
<1> QED
  BY <1>1, <1>2 DEF Referenced

\* The cover a writer has in hand comes into use: it is stored, and who is
\* about to delete it has crossed the writer.
LEMMA WriterRecords ==
    ASSUME CoverInv, NEW c \in Call, coverCalls[c] # None, coverCalls[c].at = "record",
           stored' = stored, spoilt \subseteq spoilt',
           Referenced' \subseteq Referenced \cup ({coverCalls[c].path} \ {None}),
           Referenced' \subseteq Referenced \/ Spoilt(c, {"delete"}) \subseteq spoilt'
    PROVE  BlobsFit(c)
<1> SUFFICES ASSUME NEW p \in (Referenced' \ Referenced) \ spoilt'
             PROVE  /\ p \in stored
                    /\ \A d \in Call \ {c} :
                         coverCalls[d] # None /\ coverCalls[d].at = "delete" => coverCalls[d].path # p
  BY DEF BlobsFit
<1>1. p = coverCalls[c].path /\ p # None /\ ~Crossing(c, {"delete"})
  BY DEF Spoilt
<1>2. p \in stored
  BY <1>1, CoverAtStep DEF PathFits
<1>3. ASSUME NEW d \in Call \ {c}, coverCalls[d] # None, coverCalls[d].at = "delete"
      PROVE  coverCalls[d].path # p
  BY <1>1, <1>3 DEF Crossing, CoverInv, CallsApart
<1> QED
  BY <1>2, <1>3

\* An ordinary call writes the record of the ISBN.
LEMMA RecordWritten ==
    ASSUME CoverInv, NEW c \in Call, NEW m \in CoverRequest \cup {None},
           coverCalls[c] # None, coverCalls[c].at = "record", Ordinary(coverCalls[c]),
           UNCHANGED <<stored, ownBook, snapshots, gone, coverLock>>, Becomes(c, m),
           canonical' \in {canonical, "bare", "covered"},
           canonical' = "covered" => canonical = "covered" \/ coverCalls[c].path = Shared,
           (spoilt' = spoilt /\ canonical' = canonical) \/ CoverWritten(c),
           m # None => /\ Ordinary(m) /\ CoverCallFits(m, gone) /\ m.at \notin {"record", "delete"}
                       /\ (m.held => coverCalls[c].held)
    PROVE  CoverInv'
<1> USE CoverNulls
<1>1. /\ coverCalls[c] \in CoverRequest /\ (coverCalls[c].held => coverLock = c)
      /\ coverCalls[c].path \in Covers \cup {None}
  BY CoverAtStep, CoverFields
<1>2. coverCalls' \in [Call -> CoverRequest \cup {None}] /\ coverCalls'[c] = m
      /\ \A d \in Call \ {c} : coverCalls'[d] = coverCalls[d]
  BY DEF Becomes, CoverInv, CoverTypes
<1>3. spoilt \subseteq spoilt' /\ spoilt' \in SUBSET (Covers \cup {None})
  BY <1>1 DEF CoverWritten, Spoilt, CoverInv, CoverTypes
<1>4. RowsFit(c)
  <2>1. CoverTypes'
    BY <1>2, <1>3 DEF CoverInv, CoverTypes, Becomes
  <2> QED
    BY <1>2, <1>3, <2>1 DEF RowsFit, CoverInv
<1>5. \A u \in Owner : CoverRefs(u)' = CoverRefs(u)
  BY DEF CoverRefs
<1>6. BlobsFit(c)
  <2>1. Referenced' \subseteq Referenced \cup ({coverCalls[c].path} \ {None})
    BY <1>5, NewRefs
  <2>2. canonical' = canonical => Referenced' \subseteq Referenced
    BY <1>5 DEF Referenced
  <2>3. Referenced' \subseteq Referenced \/ Spoilt(c, {"delete"}) \subseteq spoilt'
    BY <2>2 DEF CoverWritten
  <2> QED
    BY <1>3, <2>1, <2>3, WriterRecords
<1>7. OthersHold(c)
  BY OthersStillHold
<1>8. OwnCallFits(c)
  BY <1>1, <1>2 DEF OwnCallFits, GoesOn, PathFits, UploadIsAlone, Ordinary
<1>9. PrivateFits(c)
  BY <1>3 DEF PrivateFits, Ordinary, DealsWith, Manual
<1> QED
  BY <1>4, <1>6, <1>7, <1>8, <1>9, CoverStepKeeps DEF StepFits

\* An ordinary writer has the shared cover in hand, or none.
LEMMA WriterHolds ==
    ASSUME CoverInv, NEW c \in Call, NEW op \in {"repair", "bulk", "fill", "enrich", "sweep"}, Recording(c, op)
    PROVE  /\ coverCalls[c] # None /\ coverCalls[c].at = "record" /\ Ordinary(coverCalls[c])
           /\ coverCalls[c] \in CoverRequest /\ CoverCallFits(coverCalls[c], gone)
           /\ coverCalls[c].op = op /\ coverCalls[c].path \in {None, Shared}
           /\ op = "repair" => coverCalls[c].path = Shared
           /\ op = "sweep" => coverCalls[c].user \in Owner
           /\ op \in {"enrich", "sweep"} /\ coverCalls[c].mine => coverCalls[c].path = Shared
<1>1. coverCalls[c] # None /\ coverCalls[c].at = "record" /\ coverCalls[c].op = op
  BY DEF Recording, CoverAt
<1>2. coverCalls[c] \in CoverRequest /\ CoverCallFits(coverCalls[c], gone)
  BY <1>1, CoverAtStep
<1> QED
  BY <1>1, <1>2 DEF CoverCallFits, Ordinary

LEMMA GoesBecomes ==
    ASSUME CoverInv, NEW c, NEW m, CoverGoes(c, m)
    PROVE  Becomes(c, m)
BY DEF CoverGoes, Becomes, CoverInv, CoverTypes

LEMMA RepairKeeps ==
    ASSUME CoverInv, NEW c \in Call, updateOpenLibraryCoverPath(c)
    PROVE  CoverInv'
BY WriterHolds, GoesBecomes, RecordWritten DEF updateOpenLibraryCoverPath

LEMMA updateExistingKeeps ==
    ASSUME CoverInv, NEW c \in Call, updateExistingCover(c)
    PROVE  CoverInv'
BY WriterHolds, GoesBecomes, RecordWritten DEF updateExistingCover

LEMMA ensureCoverKeeps ==
    ASSUME CoverInv, NEW c \in Call, ensureCover(c)
    PROVE  CoverInv'
<1> USE CoverNulls
<1> DEFINE call == coverCalls[c]
           m == [call EXCEPT !.op = "fill", !.at = "find", !.path = None]
<1>1. /\ call # None /\ call.at = "record" /\ Ordinary(call) /\ call \in CoverRequest
      /\ call.path \in {None, Shared} /\ UNCHANGED <<stored, ownBook, snapshots, gone, coverLock>>
  BY WriterHolds DEF ensureCover
<1>2. CASE /\ canonical' = IF call.path = None THEN "bare" ELSE "covered"
           /\ CoverWritten(c) /\ CoverGoes(c, None)
  BY <1>1, <1>2, GoesBecomes, RecordWritten
<1>3. CASE CoverGoes(c, None) /\ UNCHANGED <<canonical, spoilt>>
  BY <1>1, <1>3, GoesBecomes, RecordWritten
<1>4. CASE CoverGoes(c, m) /\ UNCHANGED <<canonical, spoilt>>
  <2>1. m \in CoverRequest /\ m.op = "fill" /\ m.at = "find" /\ m.path = None /\ m.held = call.held
    BY <1>1 DEF CoverRequest, CoverStep
  <2>2. Becomes(c, m)
    BY <1>4, GoesBecomes
  <2> HIDE DEF m
  <2>3. Ordinary(m) /\ CoverCallFits(m, gone)
    BY <2>1 DEF Ordinary, CoverCallFits
  <2> QED
    BY <1>1, <1>4, <2>1, <2>2, <2>3, RecordWritten
<1> QED
  BY <1>2, <1>3, <1>4 DEF ensureCover

LEMMA ApplyCoverKeeps ==
    ASSUME CoverInv, NEW c \in Call, ApplyCover(c)
    PROVE  CoverInv'
<1> USE CoverNulls
<1> DEFINE call == coverCalls[c]
           m == [call EXCEPT !.at = "check"]
<1>1. /\ call # None /\ call.at = "record" /\ Ordinary(call) /\ call \in CoverRequest /\ call.op = "enrich"
      /\ CoverCallFits(call, gone) /\ (call.mine => call.path = Shared)
      /\ call.path \in {None, Shared} /\ UNCHANGED <<stored, ownBook, snapshots, gone, coverLock>>
  BY WriterHolds DEF ApplyCover
<1>2. /\ canonical' \in {canonical, "bare", "covered"}
      /\ canonical' = "covered" => canonical = "covered" \/ call.path = Shared
      /\ (spoilt' = spoilt /\ canonical' = canonical) \/ CoverWritten(c)
  BY <1>1 DEF ApplyCover
<1>3. CASE CoverGoes(c, None)
  BY <1>1, <1>2, <1>3, GoesBecomes, RecordWritten
<1>4. CASE call.mine /\ CoverGoes(c, m)
  <2>1. /\ m \in CoverRequest /\ m.op = "enrich" /\ m.at = "check" /\ m.path = call.path
        /\ m.held = call.held /\ m.mine = call.mine
    BY <1>1 DEF CoverRequest, CoverStep
  <2>2. Becomes(c, m)
    BY <1>4, GoesBecomes
  <2> HIDE DEF m
  <2>3. Ordinary(m) /\ CoverCallFits(m, gone)
    BY <1>1, <1>4, <2>1 DEF Ordinary, CoverCallFits
  <2> QED
    BY <1>1, <1>2, <2>1, <2>2, <2>3, RecordWritten
<1> QED
  BY <1>3, <1>4 DEF ApplyCover, CoverMoves

\* Steps that only take rows out of use.
LEMMA RefsShrink ==
    ASSUME NEW c, stored' = stored, Referenced' \subseteq Referenced
    PROVE  BlobsFit(c)
BY DEF BlobsFit

\* A sweep gives an imported book the shared cover.
LEMMA applyCoverToImportKeeps ==
    ASSUME CoverInv, NEW c \in Call, applyCoverToImport(c)
    PROVE  CoverInv'
<1> USE CoverNulls
<1> DEFINE call == coverCalls[c]
           u == call.user
           applies == Imported(u) /\ call.path # None
           m == [call EXCEPT !.at = "check"]
           n == [call EXCEPT !.at = "unlock"]
           row == [ownBook[u] EXCEPT !.cover = Shared]
<1>1. /\ call # None /\ call.at = "record" /\ Ordinary(call) /\ call \in CoverRequest /\ call.op = "sweep"
      /\ CoverCallFits(call, gone) /\ (call.mine => call.path = Shared) /\ u \in Owner
      /\ call.path \in {None, Shared} /\ (call.held => coverLock = c)
  BY WriterHolds, CoverAtStep DEF applyCoverToImport
<1>2. /\ UNCHANGED <<stored, canonical, snapshots, gone, coverLock>>
      /\ ownBook' = IF applies /\ ownBook[u].cover = None THEN [ownBook EXCEPT ![u] = row] ELSE ownBook
      /\ IF applies THEN CoverWritten(c) ELSE UNCHANGED spoilt
      /\ \/ call.mine /\ CoverGoes(c, m)
         \/ CoverGoes(c, n)
  BY DEF applyCoverToImport, CoverMoves
<1>3. spoilt \subseteq spoilt' /\ spoilt' \in SUBSET (Covers \cup {None})
  BY <1>1, <1>2 DEF CoverWritten, Spoilt, CoverInv, CoverTypes
<1>4. applies => row \in OwnRow /\ row.kind = "import" /\ row.cover = Shared /\ row # None
  BY <1>1 DEF CoverInv, CoverTypes, Imported, OwnRow, Covers
<1> HIDE DEF row
<1>5. /\ ownBook' \in [Owner -> OwnRow \cup {None}]
      /\ \A v \in Owner : ownBook'[v] = ownBook[v] \/ (v = u /\ applies /\ ownBook'[v] = row)
  BY <1>1, <1>2, <1>4 DEF CoverInv, CoverTypes
<1>6. PICK k \in CoverRequest :
        /\ CoverGoes(c, k) /\ k.op = "sweep" /\ k.path = call.path /\ k.user = u
        /\ k.held = call.held /\ k.mine = call.mine /\ k.at \in {"check", "unlock"} /\ (k.at = "check" => call.mine)
  <2>1. /\ m \in CoverRequest /\ m.op = "sweep" /\ m.at = "check" /\ m.path = call.path /\ m.user = u
        /\ m.held = call.held /\ m.mine = call.mine
    BY <1>1 DEF CoverRequest, CoverStep
  <2>2. /\ n \in CoverRequest /\ n.op = "sweep" /\ n.at = "unlock" /\ n.path = call.path /\ n.user = u
        /\ n.held = call.held /\ n.mine = call.mine
    BY <1>1 DEF CoverRequest, CoverStep
  <2> HIDE DEF m, n
  <2> QED
    BY <1>2, <2>1, <2>2
<1>7. coverCalls' \in [Call -> CoverRequest \cup {None}] /\ coverCalls'[c] = k
      /\ (\A d \in Call \ {c} : coverCalls'[d] = coverCalls[d]) /\ coverOps' \in Nat
  BY <1>6, GoesBecomes DEF Becomes, CoverInv, CoverTypes
<1>8. \A v \in Owner : (Manual(v, ownBook') <=> Manual(v, ownBook))
  BY <1>4, <1>5 DEF Manual, Imported
<1>9. RowsFit(c)
  <2>1. CoverTypes'
    BY <1>2, <1>3, <1>5, <1>7 DEF CoverInv, CoverTypes
  <2>2. RowsArePrivate(ownBook', snapshots', gone')
    <3>1. u \notin gone \/ ~applies
      BY DEF Imported, CoverInv, RowsArePrivate
    <3>2. gone \subseteq Owner
      BY DEF CoverInv, CoverTypes
    <3> QED
      BY <1>2, <1>4, <1>5, <1>8, <3>1, <3>2 DEF CoverInv, RowsArePrivate, Settled
  <2> QED
    BY <1>2, <1>3, <1>7, <1>8, <2>1, <2>2 DEF RowsFit, Settled
<1>10. BlobsFit(c)
  <2>1. \A v \in Owner : CoverRefs(v)' \subseteq CoverRefs(v) \cup ({call.path} \ {None})
    BY <1>1, <1>2, <1>4, <1>5 DEF CoverRefs
  <2>2. Referenced' \subseteq Referenced \cup ({call.path} \ {None})
    BY <1>2, <2>1, NewRefs
  <2>3. ~applies => Referenced' \subseteq Referenced
    BY <1>2 DEF Referenced, CoverRefs
  <2>4. Referenced' \subseteq Referenced \/ Spoilt(c, {"delete"}) \subseteq spoilt'
    BY <1>2, <2>3 DEF CoverWritten
  <2> QED
    BY <1>1, <1>2, <1>3, <2>2, <2>4, WriterRecords
<1>11. OthersHold(c)
  BY <1>2, OthersStillHold
<1>12. OwnCallFits(c)
  BY <1>1, <1>2, <1>6, <1>7 DEF OwnCallFits, GoesOn, PathFits, UploadIsAlone, CoverCallFits
<1>13. PrivateFits(c)
  BY <1>1, <1>2, <1>3, <1>8 DEF PrivateFits, DealsWith
<1> QED
  BY <1>9, <1>10, <1>11, <1>12, <1>13, CoverStepKeeps DEF StepFits

\* A loan of a book remembers its cover.
LEMMA InsertSnapshotKeeps ==
    ASSUME CoverInv, NEW c \in Call, InsertSnapshot(c)
    PROVE  CoverInv'
<1> USE CoverNulls
<1> DEFINE call == coverCalls[c]
           u == call.user
           added == [snapshots EXCEPT ![u] = @ \cup {call.path}]
<1>1. /\ call # None /\ call.at = "record" /\ call.op = "loan" /\ call \in CoverRequest
      /\ CoverCallFits(call, gone) /\ UploadIsAlone(call, stored, ownBook, gone)
  BY CoverAtStep DEF InsertSnapshot, Recording, CoverAt
<1>2. u \in Owner /\ call.path \in {u, Shared} /\ (call.path = u => Settled(u, ownBook, gone))
  BY <1>1 DEF CoverCallFits, UploadIsAlone
<1>3. UNCHANGED <<stored, canonical, ownBook, gone, coverLock>> /\ CoverGoes(c, None)
  BY DEF InsertSnapshot
<1>4. Becomes(c, None)
  BY <1>3, GoesBecomes
<1>5. coverCalls' \in [Call -> CoverRequest \cup {None}] /\ coverCalls'[c] = None
      /\ (\A d \in Call \ {c} : coverCalls'[d] = coverCalls[d]) /\ coverOps' \in Nat
  BY <1>4 DEF Becomes, CoverInv, CoverTypes
<1>6. OthersHold(c) /\ OwnCallFits(c)
  BY <1>3, <1>5, OthersStillHold DEF OwnCallFits
<1>7. CASE UNCHANGED <<snapshots, spoilt>>
  <2>1. UNCHANGED coverRows /\ UNCHANGED <<stored, coverRows, spoilt>>
    BY <1>3, <1>7 DEF coverRows
  <2>2. Deals(c, None) /\ coverLock' \in Call \cup {None}
    BY <1>1, <1>3, OrdinaryDeals, OthersStillHold
  <2> QED
    BY <1>3, <1>6, <2>1, <2>2, OrdinaryEnds
<1>8. CASE u \notin gone /\ snapshots' = added /\ CoverWritten(c)
  <2>1. spoilt \subseteq spoilt' /\ spoilt' \in SUBSET (Covers \cup {None})
    BY <1>1, <1>8, CoverFields DEF CoverWritten, Spoilt, CoverInv, CoverTypes
  <2>2. /\ snapshots' \in [Owner -> SUBSET Covers]
        /\ \A v \in Owner : snapshots'[v] = IF v = u THEN snapshots[v] \cup {call.path} ELSE snapshots[v]
    BY <1>2, <1>8 DEF CoverInv, CoverTypes
  <2>3. RowsFit(c)
    <3>1. CoverTypes'
      BY <1>3, <1>5, <2>1, <2>2 DEF CoverInv, CoverTypes
    <3>2. RowsArePrivate(ownBook', snapshots', gone')
      BY <1>2, <1>3, <1>8, <2>2 DEF CoverInv, CoverTypes, RowsArePrivate
    <3> QED
      BY <1>3, <1>5, <2>1, <3>1, <3>2 DEF RowsFit
  <2>4. BlobsFit(c)
    <3>1. \A v \in Owner : CoverRefs(v)' \subseteq CoverRefs(v) \cup ({call.path} \ {None})
      BY <1>2, <1>3, <2>2 DEF CoverRefs
    <3>2. Referenced' \subseteq Referenced \cup ({call.path} \ {None})
      BY <1>3, <3>1, NewRefs
    <3> QED
      BY <1>1, <1>3, <1>8, <2>1, <3>2, WriterRecords DEF CoverWritten
  <2>5. PrivateFits(c)
    BY <1>1, <1>3, <2>1 DEF PrivateFits, DealsWith
  <2> QED
    BY <1>6, <2>3, <2>4, <2>5, CoverStepKeeps DEF StepFits
<1> QED
  BY <1>7, <1>8 DEF InsertSnapshot

\* The upload of a private cover ends: with the book, or with its deletion.
LEMMA InsertManualKeeps ==
    ASSUME CoverInv, NEW c \in Call, InsertManual(c)
    PROVE  CoverInv'
<1> USE CoverNulls
<1> DEFINE call == coverCalls[c]
           u == call.path
           new == [kind |-> "manual", cover |-> u]
           m == [call EXCEPT !.at = "delete"]
<1>1. /\ call # None /\ call.at = "record" /\ call.op = "manual" /\ call \in CoverRequest
      /\ CoverCallFits(call, gone) /\ UploadIsAlone(call, stored, ownBook, gone)
      /\ PathFits(call, stored, spoilt, Referenced)
      /\ \A d \in Call \ {c} : ~Uploads(coverCalls[d], call.path)
  BY CoverAtStep DEF InsertManual, Recording, CoverAt
<1>2. u \in Owner /\ call.user = u /\ ~call.held /\ ~Manual(u, ownBook) /\ u \in stored \cup spoilt
  BY <1>1 DEF CoverCallFits, UploadIsAlone, PathFits
<1>3. UNCHANGED <<stored, canonical, snapshots, gone, coverLock>>
  BY DEF InsertManual
<1>4. /\ m \in CoverRequest /\ m.op = "manual" /\ m.at = "delete" /\ m.path = u /\ m.user = u /\ ~m.held
      /\ m # None
  BY <1>1, <1>2 DEF CoverRequest, CoverStep
<1>5. \/ /\ u \notin gone /\ ownBook[u] = None /\ ownBook' = [ownBook EXCEPT ![u] = new]
         /\ \/ CoverGoes(c, None) /\ spoilt' = spoilt
            \/ CoverGoes(c, m) /\ spoilt' = spoilt \cup {u}
      \/ CoverGoes(c, m) /\ UNCHANGED <<ownBook, spoilt>>
  BY <1>2 DEF InsertManual, InsertFailed, CoverMoves
<1> HIDE DEF m
<1>6. ASSUME NEW d \in Call \ {c}, coverCalls[d] # None, coverCalls[d].path = u, u \notin gone
      PROVE  coverCalls[d].op = "loan"
  <2>1. coverCalls[d] \in CoverRequest /\ CoverCallFits(coverCalls[d], gone)
    BY <1>6, CoverAtStep
  <2> QED
    BY <1>1, <1>2, <1>6, <2>1, CoverFields DEF CoverCallFits, Uploads
<1>7. CASE CoverGoes(c, m) /\ UNCHANGED <<ownBook, spoilt>>
  <2>1. UNCHANGED <<stored, coverRows, spoilt>>
    BY <1>3, <1>7 DEF coverRows
  <2>2. u \notin Referenced
    BY <1>2, PrivateRefs DEF CoverInv, CoverTypes
  <2>3. CoverCallFits(m, gone) /\ PathFits(m, stored, spoilt, Referenced) /\ UploadIsAlone(m, stored, ownBook, gone)
    BY <1>2, <1>4, <2>2 DEF CoverCallFits, PathFits, UploadIsAlone
  <2>4. Deals(c, m)
    BY <1>4 DEF Deals, DealsWith
  <2> QED
    BY <1>1, <1>3, <1>4, <1>7, <2>1, <2>3, <2>4, GoesBecomes, OthersStillHold, CallMovesQuietly
<1>8. ASSUME u \notin gone, ownBook[u] = None, ownBook' = [ownBook EXCEPT ![u] = new],
             NEW k \in {None, m}, CoverGoes(c, k), spoilt' = spoilt \cup (IF k = None THEN {} ELSE {u})
      PROVE  CoverInv'
  <2>1. new \in OwnRow /\ new.kind = "manual" /\ new.cover = u /\ new # None
    BY <1>2 DEF OwnRow
  <2> HIDE DEF new
  <2>2. /\ ownBook' \in [Owner -> OwnRow \cup {None}]
        /\ \A v \in Owner : ownBook'[v] = IF v = u THEN new ELSE ownBook[v]
    BY <1>2, <1>8, <2>1 DEF CoverInv, CoverTypes
  <2>3. /\ coverCalls' \in [Call -> CoverRequest \cup {None}] /\ coverCalls'[c] = k
        /\ (\A d \in Call \ {c} : coverCalls'[d] = coverCalls[d]) /\ coverOps' \in Nat
    BY <1>4, <1>8, GoesBecomes DEF Becomes, CoverInv, CoverTypes
  <2>4. /\ Manual(u, ownBook')
        /\ \A v \in Owner \ {u} : Manual(v, ownBook') <=> Manual(v, ownBook)
    BY <1>2, <2>1, <2>2 DEF Manual
  <2>5. spoilt \subseteq spoilt' /\ spoilt' \in SUBSET (Covers \cup {None})
    BY <1>2, <1>8 DEF CoverInv, CoverTypes
  <2>6. RowsFit(c)
    <3>1. CoverTypes'
      BY <1>3, <2>2, <2>3, <2>5 DEF CoverInv, CoverTypes
    <3>2. RowsArePrivate(ownBook', snapshots', gone')
      <4>1. \A v \in Owner : Settled(v, ownBook, gone) => Settled(v, ownBook', gone')
        BY <1>3, <2>4 DEF Settled
      <4>2. \A v \in gone : v # u /\ v \in Owner
        BY <1>8 DEF CoverInv, CoverTypes
      <4> QED
        BY <1>2, <1>3, <2>1, <2>2, <4>1, <4>2 DEF CoverInv, RowsArePrivate
    <3> QED
      BY <1>1, <1>2, <1>3, <2>3, <2>4, <2>5, <3>1, <3>2 DEF RowsFit, Settled, Uploads
  <2>7. BlobsFit(c)
    <3>1. \A v \in Owner : CoverRefs(v)' \subseteq CoverRefs(v) \cup {u}
      BY <1>2, <1>3, <2>1, <2>2 DEF CoverRefs
    <3>2. Referenced' \subseteq Referenced \cup {u}
      BY <1>3, <3>1, NewRefs
    <3>3. \A d \in Call \ {c} : coverCalls[d] # None /\ coverCalls[d].at = "delete" => coverCalls[d].path # u
      BY <1>6, <1>8, CoverAtStep DEF CoverCallFits
    <3> QED
      BY <1>2, <1>3, <2>5, <3>2, <3>3 DEF BlobsFit
  <2>8. OwnCallFits(c)
    BY <1>1, <1>2, <1>4, <1>8, <2>3, <2>4 DEF OwnCallFits, GoesOn, CoverCallFits, PathFits, UploadIsAlone
  <2>9. PrivateFits(c)
    BY <1>2, <1>3, <2>4, <2>5 DEF PrivateFits, DealsWith
  <2> QED
    BY <1>3, <2>6, <2>7, <2>8, <2>9, OthersStillHold, CoverStepKeeps DEF StepFits
<1> QED
  BY <1>4, <1>5, <1>7, <1>8

\* Rows change, and no call.
LEMMA RowsAlone ==
    ASSUME CoverInv, UNCHANGED <<stored, coverLock, coverCalls, spoilt>>, CoverTypes', gone \subseteq gone',
           RowsArePrivate(ownBook', snapshots', gone'),
           \A u \in Owner : Settled(u, ownBook, gone) => Settled(u, ownBook', gone'),
           \A u \in Owner : Manual(u, ownBook') <=> Manual(u, ownBook),
           Referenced' \subseteq Referenced
    PROVE  CoverInv'
<1> USE CoverNulls
<1>1. RowsFit(None)
  BY DEF RowsFit
<1>2. BlobsFit(None) /\ OthersHold(None) /\ OwnCallFits(None) /\ PrivateFits(None)
  BY RefsShrink DEF CoverInv, CallsApart, OthersHold, OwnCallFits, PrivateFits
<1> QED
  BY <1>1, <1>2, CoverStepKeeps DEF StepFits

LEMMA createCoreKeeps ==
    ASSUME CoverInv, createCore
    PROVE  CoverInv'
<1>1. Referenced' \subseteq Referenced
  BY DEF createCore, Referenced, CoverRefs
<1> QED
  BY <1>1, RowsAlone DEF createCore, CoverInv, CoverTypes

LEMMA deleteLoansKeeps ==
    ASSUME CoverInv, NEW u \in Owner, deleteLoans(u)
    PROVE  CoverInv'
<1>1. /\ snapshots' \in [Owner -> SUBSET Covers]
      /\ \A v \in Owner : snapshots'[v] = IF v = u THEN {} ELSE snapshots[v]
      /\ UNCHANGED <<stored, canonical, ownBook, gone, coverLock, coverCalls, spoilt, coverOps>>
  BY DEF deleteLoans, CoverInv, CoverTypes
<1>2. \A v \in Owner : CoverRefs(v)' \subseteq CoverRefs(v) \cup {}
  BY <1>1 DEF CoverRefs
<1>3. Referenced' \subseteq Referenced
  <2>1. Referenced' \subseteq Referenced \cup {}
    BY <1>1, <1>2, NewRefs
  <2> QED
    BY <2>1
<1>4. CoverTypes'
  BY <1>1 DEF CoverInv, CoverTypes
<1>5. RowsArePrivate(ownBook', snapshots', gone')
  BY <1>1 DEF CoverInv, CoverTypes, RowsArePrivate
<1> QED
  BY <1>1, <1>3, <1>4, <1>5, RowsAlone

\* Rows go out of use, and a call begins that deals with their cover.
LEMMA RowsGo ==
    ASSUME CoverInv, NEW c \in Call, NEW m \in CoverRequest, coverCalls[c] = None, Becomes(c, m), ~m.held,
           m.op \in {"replace", "erase"}, m.at \in {"lock", "delete"}, CoverCallFits(m, gone'), m.at = "delete" => m.path \notin Referenced',
           UNCHANGED <<stored, canonical, coverLock, spoilt>>,
           ownBook' \in [Owner -> OwnRow \cup {None}], snapshots' \in [Owner -> SUBSET Covers],
           gone' \in SUBSET Owner, gone \subseteq gone', RowsArePrivate(ownBook', snapshots', gone'),
           \A u \in Owner : Settled(u, ownBook, gone) => Settled(u, ownBook', gone'),
           \A u \in Owner : Manual(u, ownBook') => Manual(u, ownBook),
           \A u \in Owner : Manual(u, ownBook) /\ ~Manual(u, ownBook') => DealsWith(m, u),
           Referenced' \subseteq Referenced
    PROVE  CoverInv'
<1> USE CoverNulls
<1>1. coverCalls' \in [Call -> CoverRequest \cup {None}] /\ coverCalls'[c] = m
      /\ (\A d \in Call \ {c} : coverCalls'[d] = coverCalls[d]) /\ coverOps' \in Nat
  BY DEF Becomes, CoverInv, CoverTypes
<1>2. CoverTypes'
  BY <1>1 DEF CoverInv, CoverTypes
<1>3. RowsFit(c)
  BY <1>1, <1>2 DEF RowsFit
<1>4. BlobsFit(c) /\ OthersHold(c)
  BY RefsShrink, OthersStillHold
<1>6. OwnCallFits(c)
  BY <1>1 DEF OwnCallFits, GoesOn, PathFits, UploadIsAlone
<1>7. PrivateFits(c)
  BY <1>1 DEF PrivateFits, DealsWith
<1> QED
  BY <1>3, <1>4, <1>6, <1>7, CoverStepKeeps DEF StepFits

\* An import drops the shared cover, or makes a book that has none.
LEMMA importCoverKeeps ==
    ASSUME CoverInv, NEW c \in Call, importCover(c)
    PROVE  CoverInv'
<1> USE CoverNulls
<1>1. PICK u \in Owner \ gone :
        /\ \/ /\ ownBook[u] = None
              /\ ownBook' = [ownBook EXCEPT ![u] = [kind |-> "import", cover |-> None]]
              /\ UNCHANGED <<coverCalls, coverOps>>
           \/ /\ Imported(u) /\ ownBook[u].cover = Shared
              /\ ownBook' = [ownBook EXCEPT ![u].cover = None]
              /\ CoverCall(c, "replace", "lock", u, Shared)
        /\ UNCHANGED <<stored, canonical, snapshots, gone, coverLock, spoilt>>
  BY DEF importCover
<1>2. \E row \in OwnRow : row.kind = "import" /\ row.cover = None /\ ownBook' = [ownBook EXCEPT ![u] = row]
  <2>1. CASE ownBook[u] = None
    <3> DEFINE row == [kind |-> "import", cover |-> None]
    <3>1. row \in OwnRow /\ row.kind = "import" /\ row.cover = None
      BY DEF OwnRow
    <3>2. ownBook' = [ownBook EXCEPT ![u] = row]
      BY <1>1, <2>1 DEF Imported
    <3> HIDE DEF row
    <3> QED
      BY <3>1, <3>2
  <2>2. CASE ownBook[u] # None
    <3> DEFINE row == [ownBook[u] EXCEPT !.cover = None]
    <3>1. row \in OwnRow /\ row.kind = "import" /\ row.cover = None
      BY <1>1, <2>2 DEF OwnRow, Imported, CoverInv, CoverTypes
    <3>2. ownBook' = [ownBook EXCEPT ![u] = row]
      BY <1>1, <2>2
    <3> HIDE DEF row
    <3> QED
      BY <3>1, <3>2
  <2> QED
    BY <2>1, <2>2
<1>3. PICK row \in OwnRow : row.kind = "import" /\ row.cover = None /\ ownBook' = [ownBook EXCEPT ![u] = row]
  BY <1>2
<1>4. /\ ownBook' \in [Owner -> OwnRow \cup {None}]
      /\ \A v \in Owner : ownBook'[v] = IF v = u THEN row ELSE ownBook[v]
      /\ row # None
  BY <1>1, <1>3 DEF CoverInv, CoverTypes
<1>5. ~Manual(u, ownBook)
  BY <1>1 DEF Manual, Imported
<1>6. \A v \in Owner : Manual(v, ownBook') <=> Manual(v, ownBook)
  BY <1>1, <1>3, <1>4, <1>5 DEF Manual
<1>7. \A v \in Owner : Settled(v, ownBook', gone') <=> Settled(v, ownBook, gone)
  BY <1>1, <1>6 DEF Settled
<1>8. RowsArePrivate(ownBook', snapshots', gone')
  <2>1. \A v \in gone : v # u /\ v \in Owner
    BY <1>1 DEF CoverInv, CoverTypes
  <2> QED
    BY <1>1, <1>3, <1>4, <1>7, <2>1 DEF CoverInv, RowsArePrivate
<1>9. Referenced' \subseteq Referenced
  <2>1. \A v \in Owner : CoverRefs(v)' \subseteq CoverRefs(v) \cup {}
    BY <1>1, <1>3, <1>4 DEF CoverRefs
  <2>2. Referenced' \subseteq Referenced \cup {}
    BY <1>1, <2>1, NewRefs
  <2> QED
    BY <2>2
<1>10. CASE UNCHANGED <<coverCalls, coverOps>>
  <2>1. CoverTypes'
    BY <1>1, <1>4, <1>10 DEF CoverInv, CoverTypes
  <2> QED
    BY <1>1, <1>6, <1>7, <1>8, <1>9, <1>10, <2>1, RowsAlone
<1>11. CASE CoverCall(c, "replace", "lock", u, Shared)
  <2> DEFINE m == [op |-> "replace", at |-> "lock", user |-> u, path |-> Shared, mine |-> FALSE, held |-> FALSE]
  <2>1. m \in CoverRequest /\ m.op = "replace" /\ m.at = "lock" /\ m.user = u /\ m.path = Shared /\ ~m.held /\ ~m.mine
    BY <1>1 DEF CoverRequest, CoverStep
  <2>2. coverCalls[c] = None /\ Becomes(c, m)
    BY <1>11, CoverCallBecomes
  <2> HIDE DEF m
  <2>3. CoverCallFits(m, gone')
    BY <2>1 DEF CoverCallFits
  <2>4. snapshots' \in [Owner -> SUBSET Covers] /\ gone' \in SUBSET Owner
    BY <1>1 DEF CoverInv, CoverTypes
  <2> QED
    BY <1>1, <1>4, <1>6, <1>7, <1>8, <1>9, <2>1, <2>2, <2>3, <2>4, RowsGo
<1> QED
  BY <1>1, <1>10, <1>11

\* An account goes, with its books and loans; what they had as covers is dealt with.
LEMMA eraseAccountKeeps ==
    ASSUME CoverInv, NEW c \in Call, eraseAccount(c)
    PROVE  CoverInv'
<1> USE CoverNulls
<1>1. PICK u \in Owner \ gone :
        LET cover == IF ownBook[u] = None THEN None ELSE ownBook[u].cover IN
        /\ CASE cover = None -> UNCHANGED <<coverCalls, coverOps>>
             [] cover = Shared -> CoverCall(c, "erase", "lock", u, Shared)
             [] OTHER -> CoverCall(c, "erase", "delete", u, u)
        /\ gone' = gone \cup {u}
        /\ ownBook' = [ownBook EXCEPT ![u] = None]
        /\ snapshots' = [snapshots EXCEPT ![u] = {}]
        /\ UNCHANGED <<stored, canonical, coverLock, spoilt>>
  BY DEF eraseAccount
<1> DEFINE cover == IF ownBook[u] = None THEN None ELSE ownBook[u].cover
<1>2. /\ ownBook' \in [Owner -> OwnRow \cup {None}] /\ snapshots' \in [Owner -> SUBSET Covers]
      /\ gone' \in SUBSET Owner /\ gone' = gone \cup {u}
      /\ \A v \in Owner : ownBook'[v] = IF v = u THEN None ELSE ownBook[v]
      /\ \A v \in Owner : snapshots'[v] = IF v = u THEN {} ELSE snapshots[v]
      /\ UNCHANGED <<stored, canonical, coverLock, spoilt>>
  BY <1>1 DEF CoverInv, CoverTypes
<1>3. Manual(u, ownBook) => cover = u
  BY DEF Manual, CoverInv, RowsArePrivate
<1>4. cover \in {None, Shared, u}
  BY DEF CoverInv, RowsArePrivate
<1>5. /\ ~Manual(u, ownBook')
      /\ \A v \in Owner \ {u} : Manual(v, ownBook') <=> Manual(v, ownBook)
  BY <1>2 DEF Manual
<1>6. \A v \in Owner : Settled(v, ownBook, gone) => Settled(v, ownBook', gone')
  BY <1>2, <1>5 DEF Settled
<1>7. RowsArePrivate(ownBook', snapshots', gone')
  BY <1>2, <1>6 DEF CoverInv, CoverTypes, RowsArePrivate
<1>8. \A v \in Owner : CoverRefs(v)' \subseteq CoverRefs(v) \cup {} /\ (v = u => CoverRefs(v)' = {})
  BY <1>2 DEF CoverRefs
<1>9. Referenced' \subseteq Referenced
  <2>1. Referenced' \subseteq Referenced \cup {}
    BY <1>2, <1>8, NewRefs
  <2> QED
    BY <2>1
<1>10. CASE cover = None
  <2>1. UNCHANGED <<coverCalls, coverOps>>
    BY <1>1, <1>10
  <2>2. CoverTypes'
    BY <1>2, <2>1 DEF CoverInv, CoverTypes
  <2>3. \A v \in Owner : Manual(v, ownBook') <=> Manual(v, ownBook)
    BY <1>3, <1>5, <1>10
  <2> QED
    BY <1>2, <1>6, <1>7, <1>9, <2>1, <2>2, <2>3, RowsAlone
<1>11. CASE cover = Shared
  <2> DEFINE m == [op |-> "erase", at |-> "lock", user |-> u, path |-> Shared, mine |-> FALSE, held |-> FALSE]
  <2>1. m \in CoverRequest /\ m.op = "erase" /\ m.at = "lock" /\ m.path = Shared /\ ~m.held
    BY <1>1 DEF CoverRequest, CoverStep
  <2>2. CoverCall(c, "erase", "lock", u, Shared)
    BY <1>1, <1>11
  <2>3. coverCalls[c] = None /\ Becomes(c, m)
    BY <2>2, CoverCallBecomes
  <2> HIDE DEF m
  <2>4. CoverCallFits(m, gone')
    BY <2>1 DEF CoverCallFits
  <2>5. ~Manual(u, ownBook)
    BY <1>3, <1>11
  <2> QED
    BY <1>2, <1>5, <1>6, <1>7, <1>9, <2>1, <2>3, <2>4, <2>5, RowsGo
<1>12. CASE cover = u
  <2> DEFINE m == [op |-> "erase", at |-> "delete", user |-> u, path |-> u, mine |-> FALSE, held |-> FALSE]
  <2>1. m \in CoverRequest /\ m.op = "erase" /\ m.at = "delete" /\ m.path = u /\ ~m.held
    BY <1>1 DEF CoverRequest, CoverStep
  <2>2. CoverCall(c, "erase", "delete", u, u)
    <3>1. cover # None /\ cover # Shared
      BY <1>12
    <3> HIDE DEF cover
    <3>2. (CASE cover = None -> UNCHANGED <<coverCalls, coverOps>>
             [] cover = Shared -> CoverCall(c, "erase", "lock", u, Shared)
             [] OTHER -> CoverCall(c, "erase", "delete", u, u))
      BY <1>1 DEF cover
    <3> QED
      BY <3>1, <3>2
  <2>3. coverCalls[c] = None /\ Becomes(c, m)
    BY <2>2, CoverCallBecomes
  <2> HIDE DEF m
  <2>4. CoverCallFits(m, gone')
    BY <1>2, <2>1 DEF CoverCallFits
  <2>5. u \notin Referenced'
    <3>1. ASSUME NEW v \in Owner PROVE u \notin CoverRefs(v)'
      <4>1. CASE v = u
        BY <1>8, <4>1
      <4>2. CASE v # u
        <5>1. snapshots[v] \subseteq {v, Shared}
          BY DEF CoverInv, RowsArePrivate
        <5>2. ownBook[v] # None => ownBook[v].cover \in {v, None, Shared}
          BY DEF CoverInv, RowsArePrivate
        <5>3. u # v /\ u # Shared /\ u # None
          BY <4>2
        <5> QED
          BY <1>2, <4>2, <5>1, <5>2, <5>3 DEF CoverRefs
      <4> QED
        BY <4>1, <4>2
    <3> QED
      BY <3>1 DEF Referenced
  <2>6. DealsWith(m, u)
    BY <2>1 DEF DealsWith
  <2>7. /\ \A v \in Owner : Manual(v, ownBook') => Manual(v, ownBook)
        /\ \A v \in Owner : Manual(v, ownBook) /\ ~Manual(v, ownBook') => DealsWith(m, v)
    BY <1>5, <2>6
  <2> QED
    BY <1>2, <1>6, <1>7, <1>9, <2>1, <2>3, <2>4, <2>5, <2>7, RowsGo
<1> QED
  BY <1>4, <1>10, <1>11, <1>12

-----------------------------------------------------------------------------
(* The covers altogether                                                   *)

LEMMA CoverKeeps ==
    ASSUME CoverInv, [CoverNext]_coverVars
    PROVE  CoverInv'
<1>1. CASE UNCHANGED coverVars
  <2>1. UNCHANGED coverRows
    BY <1>1 DEF coverVars, coverRows
  <2> QED
    BY <1>1, <2>1, RowsStay DEF coverVars, CoverInv, CoverTypes, CallsApart, CoversInUseAreStored, PrivateAccounted
<1>2. CASE createCore \/ CoverLockExpires \/ \E u \in Owner : deleteLoans(u)
  BY <1>2, createCoreKeeps, CoverLockExpiresKeeps, deleteLoansKeeps
<1>3. ASSUME NEW c \in Call,
             \/ repairMissingOpenLibraryCovers(c) \/ bulkCovers(c) \/ enrichCover(c)
             \/ importCover(c) \/ enrichImported(c) \/ createLoanOf(c)
             \/ createManualCover(c) \/ eraseAccount(c)
      PROVE  CoverInv'
  BY <1>3, OrdinaryCallsBegin, importCoverKeeps, createLoanOfKeeps, createManualCoverKeeps, eraseAccountKeeps
<1>4. ASSUME NEW c \in Call,
             \/ LockCover(c) \/ UnlockCover(c) \/ CoverCrash(c)
             \/ findStoredOpenLibraryCover(c) \/ downloadCovers(c) \/ putCoverImage(c)
             \/ CheckReferenced(c) \/ deleteBlob(c)
      PROVE  CoverInv'
  BY <1>4, LockCoverKeeps, UnlockCoverKeeps, CoverCrashKeeps, findStoredKeeps, downloadCoversKeeps,
     putCoverImageKeeps, CheckReferencedKeeps, deleteBlobKeeps
<1>5. ASSUME NEW c \in Call,
             \/ updateOpenLibraryCoverPath(c) \/ ensureCover(c) \/ updateExistingCover(c)
             \/ ApplyCover(c) \/ applyCoverToImport(c) \/ InsertSnapshot(c) \/ InsertManual(c)
      PROVE  CoverInv'
  BY <1>5, RepairKeeps, ensureCoverKeeps, updateExistingKeeps, ApplyCoverKeeps, applyCoverToImportKeeps,
     InsertSnapshotKeeps, InsertManualKeeps
<1> QED
  BY <1>1, <1>2, <1>3, <1>4, <1>5 DEF CoverNext

LEMMA CoverBegins == CoverInit => CoverInv
<1> USE CoverNulls
<1> SUFFICES ASSUME CoverInit PROVE CoverInv
  OBVIOUS
<1>1. CoverTypes
  BY DEF CoverInit, CoverTypes
<1>2. RowsArePrivate(ownBook, snapshots, gone) /\ CallsApart(coverCalls, coverLock)
  BY DEF CoverInit, RowsArePrivate, CallsApart
<1>3. Referenced = {}
  BY DEF CoverInit, Referenced, CoverRefs
<1> QED
  BY <1>1, <1>2, <1>3 DEF CoverInit, CoverInv, CoversInUseAreStored, PrivateAccounted

(* A cover that a book or a loan refers to is stored, and no private cover *)
(* outlives its owner's account, unless a call without the lock crossed    *)
(* the deletion, a deletion failed or a call died.                         *)
THEOREM CoversStayMatched == CoverSpec => []CoversMatchTheirUse
<1>1. CoverInv => CoversMatchTheirUse
  <2> SUFFICES ASSUME CoverInv, NEW u \in (gone \cap stored) \ spoilt
               PROVE  \E c \in Call : coverCalls[c] # None /\ coverCalls[c].path = u
    BY DEF CoverInv, CoversMatchTheirUse, NothingPrivateRemains
  <2>1. u \in (Owner \cap stored) \ spoilt /\ ~Manual(u, ownBook)
    BY DEF CoverInv, CoverTypes, RowsArePrivate, Manual
  <2> QED
    BY <2>1 DEF CoverInv, PrivateAccounted, DealsWith
<1>2. CoverInv /\ [CoverNext]_coverVars => CoverInv'
  BY CoverKeeps
<1> QED
  BY <1>1, <1>2, CoverBegins, PTL DEF CoverSpec

-----------------------------------------------------------------------------
(************************ backup and restore *******************************)

\* What a run of the backup has seen accounts for the rows it copied.
Accounted(run) == run.gone \cup run.missing
BackupFits(run, files) ==
    /\ run.refs \subseteq files \cup Accounted(run)
    /\ run.refs \cap run.added \subseteq Accounted(run)
    /\ run.seen = run.copied
    /\ run.step # "blobs" /\ ~run.cut => run.refs \subseteq run.copied \cup Accounted(run)
    /\ run.step = "bundle" => run.release \in Release

\* What a run of the restore has made of the deployment at its step.
RowsRestored == {"clear", "blobs", "migrate"}
FilesRestored == {"migrate", "verify", "complete"}
RestoreFits(run, rows, files, version) ==
    /\ run.step \in {"extract", "manifest"} =>
         rows = run.before.database /\ files = run.before.blobs
    /\ run.force \/ run.before.database = None
    /\ run.step # "extract" => run.archive.whole
    /\ run.step \notin {"extract", "manifest"} => run.archive.release <= version
    /\ run.step \in RowsRestored =>
         rows = [refs |-> run.archive.refs, schema |-> run.archive.schema]
    /\ run.step \in {"verify", "complete", "failed"} =>
         /\ rows \in Database /\ rows.refs = run.archive.refs
         /\ run.archive.schema <= version => rows.schema = version
    /\ run.step \in FilesRestored => files = run.archive.blobs
    /\ run.step = "complete" => rows.refs \subseteq files

\* A restore runs alone, with the application stopped.
BackupInv ==
    /\ BackupTypeOK
    /\ appUp => database # None
    /\ backup # None => BackupFits(backup, blobs)
    /\ restore # None => backup = None /\ ~appUp /\ RestoreFits(restore, database, blobs, release)
    /\ ArchivesAreWhole

LEMMA BackupNulls == None \notin Database /\ None \notin BackupRun /\ None \notin RestoreRun
BY BackupAssumption

LEMMA BackupBegins == BackupInit => BackupInv
<1> SUFFICES ASSUME BackupInit PROVE BackupInv
  OBVIOUS
<1>1. PICK b \in Blob : database = [refs |-> {b}, schema |-> release] /\ blobs = {b}
  BY BackupAssumption DEF BackupInit
<1>2. database \in Database /\ database.schema = release
  BY <1>1, BackupAssumption DEF BackupInit, Database
<1>3. database # None
  BY <1>1, <1>2, BackupNulls
<1> QED
  BY <1>1, <1>2, <1>3 DEF BackupInit, BackupInv, BackupTypeOK, ArchivesAreWhole

\* The application's steps.
LEMMA StoreKeeps == ASSUME BackupInv, NEW b \in Blob, storeCover(b) PROVE BackupInv'
<1> USE DEF storeCover
<1>1. CASE backup = None
  BY <1>1 DEF BackupInv, BackupTypeOK, ArchivesAreWhole
<1>2. CASE backup # None
  <2> DEFINE m == [backup EXCEPT !.added = @ \cup {b}]
  <2>1. /\ m \in BackupRun /\ m.refs = backup.refs /\ m.added = backup.added \cup {b}
        /\ m.gone = backup.gone /\ m.missing = backup.missing /\ m.seen = backup.seen
        /\ m.copied = backup.copied /\ m.step = backup.step /\ m.cut = backup.cut
        /\ m.release = backup.release
    BY <1>2 DEF BackupInv, BackupTypeOK, BackupRun
  <2>2. backup' = m /\ blobs' = blobs \cup {b} /\ b \notin blobs
    BY <1>2
  <2> HIDE DEF m
  <2>3. BackupFits(backup', blobs')
    BY <1>2, <2>1, <2>2 DEF BackupInv, BackupFits, Accounted
  <2> QED
    BY <1>2, <2>1, <2>2, <2>3 DEF BackupInv, BackupTypeOK, ArchivesAreWhole
<1> QED
  BY <1>1, <1>2

LEMMA ReferKeeps == ASSUME BackupInv, NEW b \in Blob, referToCover(b) PROVE BackupInv'
<1>1. database \in Database
  BY DEF referToCover, BackupInv, BackupTypeOK
<1>2. database' \in Database /\ database' # None
  BY <1>1, BackupNulls DEF referToCover, Database
<1> QED
  BY <1>2 DEF referToCover, BackupInv, BackupTypeOK, ArchivesAreWhole

LEMMA RemoveKeeps == ASSUME BackupInv, NEW b \in Blob, removeCover(b) PROVE BackupInv'
<1>1. /\ appUp /\ database \in Database /\ restore = None
      /\ UNCHANGED <<release, appUp, archives, restore>>
  BY DEF removeCover, BackupInv, BackupTypeOK
<1>2. database' \in Database /\ database' # None
  BY <1>1, BackupNulls DEF removeCover, Database
<1>3. CASE UNCHANGED <<blobs, backup>>
  BY <1>1, <1>2, <1>3 DEF BackupInv, BackupTypeOK, ArchivesAreWhole
<1>4. CASE blobs' = blobs \ {b} /\ backup = None /\ backup' = None
  BY <1>1, <1>2, <1>4 DEF BackupInv, BackupTypeOK, ArchivesAreWhole
<1>5. CASE blobs' = blobs \ {b} /\ backup # None /\ backup' = [backup EXCEPT !.gone = @ \cup {b}]
  <2> DEFINE m == [backup EXCEPT !.gone = @ \cup {b}]
  <2>1. /\ m \in BackupRun /\ m.refs = backup.refs /\ m.added = backup.added
        /\ m.gone = backup.gone \cup {b} /\ m.missing = backup.missing /\ m.seen = backup.seen
        /\ m.copied = backup.copied /\ m.step = backup.step /\ m.cut = backup.cut
        /\ m.release = backup.release
    BY <1>5 DEF BackupInv, BackupTypeOK, BackupRun
  <2>2. backup' = m
    BY <1>5
  <2> HIDE DEF m
  <2>3. BackupFits(backup', blobs')
    BY <1>5, <2>1, <2>2 DEF BackupInv, BackupFits, Accounted
  <2> QED
    BY <1>1, <1>2, <1>5, <2>1, <2>2, <2>3 DEF BackupInv, BackupTypeOK, ArchivesAreWhole
<1> QED
  BY <1>3, <1>4, <1>5 DEF removeCover

LEMMA DeploymentKeeps ==
    ASSUME BackupInv, stopApp \/ startApp \/ \E r \in Release : deploy(r)
    PROVE  BackupInv'
<1>1. CASE stopApp
  BY <1>1 DEF stopApp, BackupInv, BackupTypeOK, ArchivesAreWhole
<1>2. CASE startApp
  <2>1. database' \in Database /\ database' # None
    BY <1>2, BackupNulls, BackupAssumption DEF startApp, BackupInv, BackupTypeOK, Database, Migrated
  <2> QED
    BY <1>2, <2>1 DEF startApp, BackupInv, BackupTypeOK, ArchivesAreWhole
<1>3. CASE \E r \in Release : deploy(r)
  BY <1>3 DEF deploy, BackupInv, BackupTypeOK, ArchivesAreWhole
<1> QED
  BY <1>1, <1>2, <1>3

\* The steps of a backup that go on with it.
LEMMA BackupGoesOn ==
    ASSUME BackupInv, backup # None, NEW m \in BackupRun, backup' = m, BackupFits(m, blobs),
           UNCHANGED <<release, appUp, database, blobs, archives, restore>>
    PROVE  BackupInv'
BY DEF BackupInv, BackupTypeOK, ArchivesAreWhole

LEMMA vacuumIntoKeeps == ASSUME BackupInv, vacuumInto PROVE BackupInv'
<1>1. database \in Database /\ backup' \in BackupRun /\ restore = None
  BY DEF vacuumInto, Readable, BackupInv, BackupTypeOK, Database, BackupRun, brokenReferences
<1>2. BackupFits(backup', blobs)
  BY <1>1 DEF vacuumInto, BackupFits, Accounted, brokenReferences
<1> QED
  BY <1>1, <1>2 DEF vacuumInto, BackupInv, BackupTypeOK, ArchivesAreWhole

LEMMA copyBlobKeeps == ASSUME BackupInv, NEW b \in Blob, copyBlob(b) PROVE BackupInv'
<1> DEFINE m == [backup EXCEPT !.seen = @ \cup {b}, !.copied = @ \cup {b}]
<1>1. /\ backup \in BackupRun /\ backup # None /\ BackupFits(backup, blobs) /\ backup.step = "blobs"
  BY DEF copyBlob, BackupAt, BackupInv, BackupTypeOK
<1>2. m \in BackupRun /\ BackupFits(m, blobs)
  BY <1>1 DEF BackupRun, BackupFits, Accounted
<1>3. backup' = m
  BY DEF copyBlob
<1> HIDE DEF m
<1> QED
  BY <1>1, <1>2, <1>3, BackupGoesOn DEF copyBlob

LEMMA ListingKeeps ==
    ASSUME BackupInv, blobsCopied \/ \E b \in Blob : listedBlobIsGone(b)
    PROVE  BackupInv'
<1> DEFINE m == [backup EXCEPT !.step = "manifest"]
           n == [backup EXCEPT !.step = "manifest", !.cut = TRUE]
<1>1. /\ backup \in BackupRun /\ backup # None /\ BackupFits(backup, blobs) /\ backup.step = "blobs"
      /\ UNCHANGED <<release, appUp, database, blobs, archives, restore>>
  BY DEF blobsCopied, listedBlobIsGone, BackupAt, BackupInv, BackupTypeOK
<1>2. CASE blobsCopied
  <2>1. backup.refs \subseteq backup.copied \cup Accounted(backup)
    BY <1>1, <1>2 DEF blobsCopied, BackupFits, Accounted
  <2>2. m \in BackupRun /\ BackupFits(m, blobs)
    BY <1>1, <2>1 DEF BackupRun, BackupFits, Accounted
  <2>3. backup' = m
    BY <1>2 DEF blobsCopied
  <2> HIDE DEF m
  <2> QED
    BY <1>1, <2>2, <2>3, BackupGoesOn
<1>3. CASE \E b \in Blob : listedBlobIsGone(b)
  <2>2. n \in BackupRun /\ BackupFits(n, blobs)
    BY <1>1 DEF BackupRun, BackupFits, Accounted
  <2>3. backup' = n
    BY <1>3 DEF listedBlobIsGone
  <2> HIDE DEF n
  <2> QED
    BY <1>1, <2>2, <2>3, BackupGoesOn
<1> QED
  BY <1>2, <1>3

LEMMA ManifestKeeps == ASSUME BackupInv, buildBackupManifest PROVE BackupInv'
<1> DEFINE m == [backup EXCEPT !.step = "bundle", !.release = release]
<1>1. /\ backup \in BackupRun /\ backup # None /\ BackupFits(backup, blobs) /\ backup.step = "manifest"
      /\ release \in Release
  BY DEF buildBackupManifest, BackupAt, BackupInv, BackupTypeOK
<1>2. m \in BackupRun /\ BackupFits(m, blobs)
  BY <1>1 DEF BackupRun, BackupFits, Accounted
<1>3. backup' = m
  BY DEF buildBackupManifest
<1> HIDE DEF m
<1> QED
  BY <1>1, <1>2, <1>3, BackupGoesOn DEF buildBackupManifest

\* An archive has what the run copied: of the rows it saw, all that was there to copy.
LEMMA createTarGzKeeps == ASSUME BackupInv, createTarGz PROVE BackupInv'
<1>1. /\ backup \in BackupRun /\ backup # None /\ BackupFits(backup, blobs) /\ backup.step = "bundle"
  BY DEF createTarGz, BackupAt, BackupInv, BackupTypeOK
<1>2. PICK whole \in BOOLEAN : archives' = archives \cup {Bundled(whole)}
  BY DEF createTarGz
<1>3. Bundled(whole) \in Archive
  BY <1>1 DEF Bundled, Archive, BackupRun, BackupFits
<1>4. Bundled(whole).whole /\ ~Bundled(whole).cut
        => Bundled(whole).refs \subseteq Bundled(whole).blobs \cup Bundled(whole).gone
  BY <1>1 DEF Bundled, BackupFits, Accounted
<1>5. ArchivesAreWhole'
  BY <1>2, <1>4 DEF BackupInv, ArchivesAreWhole
<1> QED
  BY <1>2, <1>3, <1>5 DEF createTarGz, BackupInv, BackupTypeOK

LEMMA backupFailsKeeps == ASSUME BackupInv, backupFails PROVE BackupInv'
BY DEF backupFails, BackupInv, BackupTypeOK, ArchivesAreWhole

-----------------------------------------------------------------------------
\* A restore begins, and its steps: the run m goes on, or it has ended.
LEMMA RestoreBegins == ASSUME BackupInv, assertCleanTarget PROVE BackupInv'
<1>1. PICK a \in archives, force \in BOOLEAN :
        /\ force \/ Empty
        /\ restore' = [step |-> "extract", archive |-> a, force |-> force,
                       before |-> [database |-> database, blobs |-> blobs]]
  BY DEF assertCleanTarget
<1>2. restore' \in RestoreRun /\ RestoreFits(restore', database, blobs, release)
  BY <1>1 DEF RestoreFits, RestoreRun, RowsRestored, FilesRestored, Empty, BackupInv, BackupTypeOK
<1> QED
  BY <1>2 DEF assertCleanTarget, BackupInv, BackupTypeOK, ArchivesAreWhole

LEMMA RestoreGoesOn ==
    ASSUME BackupInv, restore # None, NEW m \in RestoreRun \cup {None}, restore' = m,
           m # None => RestoreFits(m, database', blobs', release),
           database' \in Database \cup {None}, blobs' \subseteq Blob,
           RestoreUnchanged
    PROVE  BackupInv'
BY DEF RestoreUnchanged, BackupInv, BackupTypeOK, ArchivesAreWhole

LEMMA RestoreStepMeans ==
    ASSUME BackupInv, NEW s, RestoreAt(s)
    PROVE  /\ restore \in RestoreRun /\ restore # None /\ restore.step = s
           /\ RestoreFits(restore, database, blobs, release)
           /\ database \in Database \cup {None} /\ blobs \subseteq Blob /\ release \in Nat
           /\ restore.archive \in Archive /\ restore.archive.release \in Nat
           /\ restore.archive.schema \in Nat
           /\ \A t \in {"manifest", "remove", "database", "clear", "blobs", "migrate", "verify", "complete", "failed"} :
                LET m == [restore EXCEPT !.step = t] IN
                /\ m \in RestoreRun /\ m.step = t /\ m.archive = restore.archive
                /\ m.force = restore.force /\ m.before = restore.before
BY BackupAssumption DEF RestoreAt, BackupInv, BackupTypeOK, RestoreRun, Archive

LEMMA CheckingKeeps ==
    ASSUME BackupInv, extractTarGz \/ assertRestoreManifestCompatible
    PROVE  BackupInv'
<1> DEFINE m(t) == [restore EXCEPT !.step = t]
<1>1. CASE extractTarGz
  <2>1. RestoreAt("extract") /\ UNCHANGED <<database, blobs>> /\ RestoreUnchanged
    BY <1>1 DEF extractTarGz
  <2>2. CASE restore.archive.whole /\ restore' = m("manifest")
    <3>1. RestoreFits(m("manifest"), database, blobs, release)
      BY <2>1, <2>2, RestoreStepMeans DEF RestoreFits, RowsRestored, FilesRestored
    <3> QED
      BY <2>1, <2>2, <3>1, RestoreStepMeans, RestoreGoesOn
  <2>3. CASE restore' = None
    BY <2>1, <2>3, RestoreStepMeans, RestoreGoesOn
  <2> QED
    BY <1>1, <2>2, <2>3 DEF extractTarGz, RestoreGoesTo
<1>2. CASE assertRestoreManifestCompatible
  <2>1. RestoreAt("manifest") /\ UNCHANGED <<database, blobs>> /\ RestoreUnchanged
    BY <1>2 DEF assertRestoreManifestCompatible
  <2>2. CASE restore.archive.release <= release /\ restore' = m("remove")
    <3>1. RestoreFits(m("remove"), database, blobs, release)
      BY <2>1, <2>2, RestoreStepMeans DEF RestoreFits, RowsRestored, FilesRestored
    <3> QED
      BY <2>1, <2>2, <3>1, RestoreStepMeans, RestoreGoesOn
  <2>3. CASE restore' = None
    BY <2>1, <2>3, RestoreStepMeans, RestoreGoesOn
  <2> QED
    BY <1>2, <2>2, <2>3 DEF assertRestoreManifestCompatible, RestoreGoesTo, checkManifestCompatibility
<1> QED
  BY <1>1, <1>2

LEMMA DatabaseKeeps ==
    ASSUME BackupInv, removeDatabase \/ restoreDatabase \/ runMigrations
    PROVE  BackupInv'
<1> DEFINE m(t) == [restore EXCEPT !.step = t]
           rows == [refs |-> restore.archive.refs, schema |-> restore.archive.schema]
<1>1. CASE removeDatabase
  <2>1. RestoreAt("remove") /\ restore' = m("database") /\ database' = None /\ blobs' = blobs /\ RestoreUnchanged
    BY <1>1 DEF removeDatabase, RestoreGoesTo
  <2>2. RestoreFits(m("database"), None, blobs, release)
    BY <2>1, RestoreStepMeans DEF RestoreFits, RowsRestored, FilesRestored
  <2> QED
    BY <2>1, <2>2, RestoreStepMeans, RestoreGoesOn
<1>2. CASE restoreDatabase
  <2>1. RestoreAt("database") /\ blobs' = blobs /\ RestoreUnchanged
    BY <1>2 DEF restoreDatabase
  <2>2. CASE database' = rows /\ restore' = m("clear")
    <3>1. rows \in Database
      BY <2>1, RestoreStepMeans DEF Database, Archive
    <3>2. RestoreFits(m("clear"), rows, blobs, release)
      BY <2>1, RestoreStepMeans DEF RestoreFits, RowsRestored, FilesRestored
    <3> QED
      BY <2>1, <2>2, <3>1, <3>2, RestoreStepMeans, RestoreGoesOn
  <2>3. CASE database' = Damaged /\ restore' = None
    <3>1. Damaged \in Database
      BY DEF Damaged, Database
    <3> QED
      BY <2>1, <2>3, <3>1, RestoreStepMeans, RestoreGoesOn
  <2> QED
    BY <1>2, <2>2, <2>3 DEF restoreDatabase, RestoreGoesTo
<1>3. CASE runMigrations
  <2>1. /\ RestoreAt("migrate") /\ restore' = m("verify") /\ database' = Migrated(database)
        /\ blobs' = blobs /\ RestoreUnchanged
    BY <1>3 DEF runMigrations, RestoreGoesTo
  <2>2. database = rows
    BY <2>1, RestoreStepMeans DEF RestoreFits, RowsRestored
  <2>3. /\ Migrated(database) \in Database /\ Migrated(database).refs = restore.archive.refs
        /\ restore.archive.schema <= release => Migrated(database).schema = release
    BY <2>1, <2>2, RestoreStepMeans DEF Migrated, Database, Archive
  <2>4. RestoreFits(m("verify"), Migrated(database), blobs, release)
    BY <2>1, <2>3, RestoreStepMeans DEF RestoreFits, RowsRestored, FilesRestored
  <2> QED
    BY <2>1, <2>3, <2>4, RestoreStepMeans, RestoreGoesOn
<1> QED
  BY <1>1, <1>2, <1>3

LEMMA FilesKeep ==
    ASSUME BackupInv, removeBlobs \/ restoreBlobs
    PROVE  BackupInv'
<1> DEFINE m(t) == [restore EXCEPT !.step = t]
<1>1. CASE removeBlobs
  <2>1. RestoreAt("clear") /\ restore' = m("blobs") /\ database' = database /\ blobs' = {} /\ RestoreUnchanged
    BY <1>1 DEF removeBlobs, RestoreGoesTo
  <2>2. RestoreFits(m("blobs"), database, {}, release)
    BY <2>1, RestoreStepMeans DEF RestoreFits, RowsRestored, FilesRestored
  <2> QED
    BY <2>1, <2>2, RestoreStepMeans, RestoreGoesOn
<1>2. CASE restoreBlobs
  <2>1. RestoreAt("blobs") /\ database' = database /\ RestoreUnchanged /\ restore.archive.blobs \subseteq Blob
    BY <1>2, RestoreStepMeans DEF restoreBlobs, Archive
  <2>2. CASE blobs' = restore.archive.blobs /\ restore' = m("migrate")
    <3>1. RestoreFits(m("migrate"), database, restore.archive.blobs, release)
      BY <2>1, RestoreStepMeans DEF RestoreFits, RowsRestored, FilesRestored
    <3> QED
      BY <2>1, <2>2, <3>1, RestoreStepMeans, RestoreGoesOn
  <2>3. CASE blobs' \in SUBSET restore.archive.blobs /\ restore' = None
    BY <2>1, <2>3, RestoreStepMeans, RestoreGoesOn
  <2> QED
    BY <1>2, <2>2, <2>3 DEF restoreBlobs, RestoreGoesTo
<1> QED
  BY <1>1, <1>2

LEMMA VerdictKeeps ==
    ASSUME BackupInv, verifyBackupTarget \/ restoreEnds
    PROVE  BackupInv'
<1> DEFINE m(t) == [restore EXCEPT !.step = t]
<1>1. CASE verifyBackupTarget
  <2>1. RestoreAt("verify") /\ UNCHANGED <<database, blobs>> /\ RestoreUnchanged
    BY <1>1 DEF verifyBackupTarget
  <2>2. CASE brokenReferences = {} /\ restore' = m("complete")
    <3>1. database.refs \subseteq blobs
      BY <2>2 DEF brokenReferences
    <3>2. RestoreFits(m("complete"), database, blobs, release)
      BY <2>1, <3>1, RestoreStepMeans DEF RestoreFits, RowsRestored, FilesRestored
    <3> QED
      BY <2>1, <2>2, <3>2, RestoreStepMeans, RestoreGoesOn
  <2>3. CASE restore' = m("failed")
    <3>1. RestoreFits(m("failed"), database, blobs, release)
      BY <2>1, RestoreStepMeans DEF RestoreFits, RowsRestored, FilesRestored
    <3> QED
      BY <2>1, <2>3, <3>1, RestoreStepMeans, RestoreGoesOn
  <2> QED
    BY <1>1, <2>2, <2>3 DEF verifyBackupTarget, RestoreGoesTo
<1>2. CASE restoreEnds
  BY <1>2, RestoreGoesOn DEF restoreEnds, BackupInv, BackupTypeOK
<1> QED
  BY <1>1, <1>2

LEMMA BackupKeeps == BackupInv /\ [BackupNext]_backupVars => BackupInv'
<1> SUFFICES ASSUME BackupInv, [BackupNext]_backupVars PROVE BackupInv'
  OBVIOUS
<1>1. CASE \E b \in Blob : storeCover(b) \/ referToCover(b) \/ removeCover(b)
  BY <1>1, StoreKeeps, ReferKeeps, RemoveKeeps
<1>2. CASE stopApp \/ startApp \/ \E r \in Release : deploy(r)
  BY <1>2, DeploymentKeeps
<1>3. CASE \/ vacuumInto \/ \E b \in Blob : copyBlob(b) \/ listedBlobIsGone(b)
           \/ blobsCopied \/ buildBackupManifest \/ createTarGz \/ backupFails
  BY <1>3, vacuumIntoKeeps, copyBlobKeeps, ListingKeeps, ManifestKeeps, createTarGzKeeps, backupFailsKeeps
<1>4. CASE \/ assertCleanTarget \/ extractTarGz \/ assertRestoreManifestCompatible
           \/ removeDatabase \/ restoreDatabase \/ removeBlobs \/ restoreBlobs
           \/ runMigrations \/ verifyBackupTarget \/ restoreEnds
  BY <1>4, RestoreBegins, CheckingKeeps, DatabaseKeeps, FilesKeep, VerdictKeeps
<1>5. CASE UNCHANGED backupVars
  BY <1>5 DEF backupVars, BackupInv, BackupTypeOK, ArchivesAreWhole
<1> QED
  BY <1>1, <1>2, <1>3, <1>4, <1>5 DEF BackupNext

LEMMA BackupInvSays == BackupInv => BackupsRestore
<1> SUFFICES ASSUME BackupInv, restore # None PROVE RestoredOnlyFromGood
  BY DEF BackupInv, BackupsRestore, RestoredOnlyFromGood
<1>1. restore \in RestoreRun /\ RestoreFits(restore, database, blobs, release) /\ release \in Nat
      /\ restore.archive \in Archive /\ restore.archive.release \in Nat /\ restore.archive.schema \in Nat
  BY BackupAssumption DEF BackupInv, BackupTypeOK, RestoreRun, Archive
<1> QED
  BY <1>1 DEF RestoredOnlyFromGood, RestoreFits, FilesRestored, RestoreRun

(* Every complete backup has the covers its rows refer to, although both are *)
(* changed while they are read; a deployment is given up only for an archive *)
(* that can be used, and a restore called complete has what was in it.       *)
THEOREM BackupsAreGood == BackupSpec => []BackupsRestore
BY BackupBegins, BackupKeeps, BackupInvSays, PTL DEF BackupSpec
=============================================================================
