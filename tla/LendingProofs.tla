--------------------------- MODULE LendingProofs ---------------------------
(* Type correctness of Lending, its invariants, and the proof that it        *)
(* implements Holding, for any copies, loans, borrowers and requests.        *)
EXTENDS Lending, TLAPS

\* The steps in which a request works on a particular row.
CursorOK ==
    \A r \in Request :
        /\ pc[r] \in {"check", "insert", "remove", "state"} => work[r].copy \in Copy
        /\ pc[r] = "state" => work[r].state \in LibraryStates
        /\ pc[r] \in {"send", "record"} => work[r].loan \in Loan

\* An active loan is of a copy; a loan has a borrower iff it is accepted, and
\* a token only while it waits for one; a cancelled loan never had one.
RowOK(row) ==
    /\ row.status = "active" => row.copy \in Copy
    /\ row.accepted <=> row.borrower # None
    /\ row.status = "canceled" => row.borrower = None
    /\ row.token => row.status = "active" /\ row.borrower = None
RowsOK == \A l \in Loan : RowOK(loan[l])

TypeInv == TypeOK /\ CursorOK
Inv == TypeInv /\ RowsOK /\ OneActiveLoan

-----------------------------------------------------------------------------
(******************************* types *************************************)

LEMMA ConstantTypes ==
    /\ NoLoan \in LoanRow /\ NoWork \in Memory
    /\ "owned" \in LibraryStates
BY DEF NoLoan, NoWork, LoanRow, Memory, LibraryStates

\* What the operations make of a row.
LEMMA RowTypes ==
    ASSUME NEW row \in LoanRow
    PROVE  /\ \A s \in {"returned", "canceled"} : Closed(row, s) \in LoanRow
           /\ \A u \in Borrower : Accepted(row, u) \in LoanRow
           /\ Anonymous(row) \in LoanRow
           /\ \A d \in {None, "pending", "sent", "failed"} :
                 [row EXCEPT !.delivery = d] \in LoanRow
BY DEF LoanRow, Closed, Accepted, Anonymous

LEMMA NewRowTypes ==
    ASSUME NEW c \in Copy, NEW email \in BOOLEAN
    PROVE  NewLoan(c, email) \in LoanRow
BY DEF LoanRow, NewLoan, NoLoan

LEMMA InitType == Init => TypeInv
BY ConstantTypes DEF Init, TypeInv, TypeOK, CursorOK, Steps

\* A request goes to a step with a memory that suits it.
LEMMA MoveType ==
    ASSUME TypeInv, NEW r \in Request, NEW step \in Steps, NEW memory \in Memory,
           Goto(r, step), Remember(r, memory),
           step \in {"check", "insert", "remove", "state"} => memory.copy \in Copy,
           step = "state" => memory.state \in LibraryStates,
           step \in {"send", "record"} => memory.loan \in Loan
    PROVE  pc' \in [Request -> Steps] /\ work' \in [Request -> Memory] /\ CursorOK'
BY DEF TypeInv, TypeOK, CursorOK, Goto, Remember

LEMMA StopType ==
    ASSUME TypeInv, NEW r \in Request, Stop(r)
    PROVE  pc' \in [Request -> Steps] /\ work' \in [Request -> Memory] /\ CursorOK'
BY ConstantTypes, MoveType DEF Stop, Steps

\* A request step that reads a copy, decides and remembers.
LEMMA ReadType ==
    ASSUME TypeInv, NEW r \in Request,
           Snapshot(r) \/ CheckActive(r) \/ CheckRemoval(r) \/ CheckState(r)
    PROVE  TypeInv'
<1>1. SUFFICES pc' \in [Request -> Steps] /\ work' \in [Request -> Memory] /\ CursorOK'
  BY DEF TypeInv, TypeOK, Snapshot, CheckActive, CheckRemoval, CheckState
<1>2. ASSUME NEW c \in Copy
      PROVE  /\ [NoWork EXCEPT !.copy = c] \in Memory
             /\ [NoWork EXCEPT !.copy = c].copy = c
             /\ \A s \in LibraryStates :
                   /\ [NoWork EXCEPT !.copy = c, !.state = s] \in Memory
                   /\ [NoWork EXCEPT !.copy = c, !.state = s].copy = c
                   /\ [NoWork EXCEPT !.copy = c, !.state = s].state = s
  BY DEF NoWork, Memory
<1>3. CASE Snapshot(r)
  <2>1. PICK c \in Copy : Remember(r, [NoWork EXCEPT !.copy = c])
    BY <1>3 DEF Snapshot
  <2>2. Goto(r, "check") /\ "check" \in Steps
    BY <1>3 DEF Snapshot, Steps
  <2> DEFINE m == [NoWork EXCEPT !.copy = c]
  <2>3. m \in Memory /\ m.copy \in Copy /\ Remember(r, m)
    BY <1>2, <2>1
  <2> HIDE DEF m
  <2> QED
    BY <2>2, <2>3, MoveType
<1>4. CASE CheckActive(r)
  <2>1. CASE Stop(r)
    BY <2>1, StopType
  <2>2. CASE Goto(r, "insert") /\ work' = work
    BY <1>4, <2>2 DEF TypeInv, TypeOK, CursorOK, CheckActive, Goto, Steps
  <2> QED
    BY <1>4, <2>1, <2>2 DEF CheckActive
<1>5. CASE CheckRemoval(r)
  <2>1. PICK c \in Copy : Remember(r, [NoWork EXCEPT !.copy = c])
    BY <1>5 DEF CheckRemoval
  <2>2. Goto(r, "remove") /\ "remove" \in Steps
    BY <1>5 DEF CheckRemoval, Steps
  <2> DEFINE m == [NoWork EXCEPT !.copy = c]
  <2>3. m \in Memory /\ m.copy \in Copy /\ Remember(r, m)
    BY <1>2, <2>1
  <2> HIDE DEF m
  <2> QED
    BY <2>2, <2>3, MoveType
<1>6. CASE CheckState(r)
  <2>1. PICK c \in Copy, s \in LibraryStates :
          Remember(r, [NoWork EXCEPT !.copy = c, !.state = s])
    BY <1>6 DEF CheckState
  <2>2. Goto(r, "state") /\ "state" \in Steps
    BY <1>6 DEF CheckState, Steps
  <2> DEFINE m == [NoWork EXCEPT !.copy = c, !.state = s]
  <2>3. m \in Memory /\ m.copy \in Copy /\ m.state \in LibraryStates /\ Remember(r, m)
    BY <1>2, <2>1
  <2> HIDE DEF m
  <2> QED
    BY <2>2, <2>3, MoveType
<1> QED
  BY <1>3, <1>4, <1>5, <1>6

LEMMA InsertType ==
    ASSUME TypeInv, NEW r \in Request, InsertLoan(r)
    PROVE  TypeInv'
<1>1. work[r].copy \in Copy
  BY DEF InsertLoan, TypeInv, CursorOK
<1>2. CASE Stop(r) /\ loan' = loan
  BY <1>2, StopType DEF TypeInv, TypeOK, InsertLoan
<1>3. ASSUME NEW l \in Loan, NEW email \in BOOLEAN, Created(r, l, email)
      PROVE  TypeInv'
  <2>1. loan' \in [Loan -> LoanRow]
    BY <1>1, <1>3, NewRowTypes DEF Created, TypeInv, TypeOK
  <2>2. [NoWork EXCEPT !.loan = l] \in Memory /\ [NoWork EXCEPT !.loan = l].loan = l
    BY DEF NoWork, Memory
  <2>3. pc' \in [Request -> Steps] /\ work' \in [Request -> Memory] /\ CursorOK'
    BY <1>3, <2>2, MoveType, StopType DEF Created, Steps
  <2> QED
    BY <2>1, <2>3 DEF TypeInv, TypeOK, InsertLoan
<1> QED
  BY <1>2, <1>3 DEF InsertLoan

LEMMA InviteType ==
    ASSUME TypeInv, NEW r \in Request, ReadInvite(r) \/ SendEmail(r) \/ RecordDelivery(r)
    PROVE  TypeInv'
<1>1. CASE ReadInvite(r)
  <2>1. PICK l \in Loan :
          \/ Goto(r, "send") /\ Remember(r, [NoWork EXCEPT !.loan = l])
          \/ Goto(r, "record") /\ Remember(r, [NoWork EXCEPT !.loan = l, !.delivery = "pending"])
    BY <1>1 DEF ReadInvite
  <2>2. /\ [NoWork EXCEPT !.loan = l] \in Memory
        /\ [NoWork EXCEPT !.loan = l].loan = l
        /\ [NoWork EXCEPT !.loan = l, !.delivery = "pending"] \in Memory
        /\ [NoWork EXCEPT !.loan = l, !.delivery = "pending"].loan = l
    BY DEF NoWork, Memory
  <2>3. PICK step \in {"send", "record"}, m \in Memory :
          m.loan \in Loan /\ Goto(r, step) /\ Remember(r, m)
    BY <2>1, <2>2
  <2>4. pc' \in [Request -> Steps] /\ work' \in [Request -> Memory] /\ CursorOK'
    BY <2>3, MoveType DEF Steps
  <2> QED
    BY <1>1, <2>4 DEF TypeInv, TypeOK, ReadInvite
<1>2. CASE SendEmail(r)
  <2>1. PICK d \in {"sent", "failed"} : Remember(r, [work[r] EXCEPT !.delivery = d])
    BY <1>2 DEF SendEmail
  <2>2. work[r] \in Memory /\ work[r].loan \in Loan
    BY <1>2 DEF TypeInv, TypeOK, CursorOK, SendEmail
  <2>3. /\ [work[r] EXCEPT !.delivery = d] \in Memory
        /\ [work[r] EXCEPT !.delivery = d].loan = work[r].loan
    BY <2>2 DEF Memory
  <2>4. pc' \in [Request -> Steps] /\ work' \in [Request -> Memory] /\ CursorOK'
    BY <1>2, <2>1, <2>2, <2>3, MoveType DEF SendEmail, Steps
  <2> QED
    BY <1>2, <2>4 DEF TypeInv, TypeOK, SendEmail
<1>3. CASE RecordDelivery(r)
  <2>1. work[r].loan \in Loan /\ work[r].delivery \in {None, "pending", "sent", "failed"}
    BY <1>3 DEF TypeInv, TypeOK, CursorOK, RecordDelivery, Memory
  <2>2. loan' \in [Loan -> LoanRow]
    <3> DEFINE l == work[r].loan
               new == [loan[l] EXCEPT !.delivery = work[r].delivery]
    <3>1. loan[l] \in LoanRow /\ new \in LoanRow
      BY <2>1, RowTypes DEF TypeInv, TypeOK
    <3>2. loan' = loan \/ loan' = [loan EXCEPT ![l] = new]
      BY <1>3 DEF RecordDelivery
    <3> QED
      BY <3>1, <3>2 DEF TypeInv, TypeOK
  <2>3. Stop(r) /\ UNCHANGED <<copy, deleted, emailEnabled>>
    BY <1>3 DEF RecordDelivery
  <2>4. pc' \in [Request -> Steps] /\ work' \in [Request -> Memory] /\ CursorOK'
    BY <2>3, StopType
  <2> QED
    BY <2>2, <2>3, <2>4 DEF TypeInv, TypeOK
<1> QED
  BY <1>1, <1>2, <1>3

LEMMA CopyType ==
    ASSUME TypeInv, NEW r \in Request, Remove(r) \/ SetState(r)
    PROVE  TypeInv'
<1>1. work[r].copy \in Copy /\ (pc[r] = "state" => work[r].state \in LibraryStates)
  BY DEF TypeInv, CursorOK, Remove, SetState
<1>2. copy' \in [Copy -> [state : LibraryStates, removed : BOOLEAN]]
  BY <1>1 DEF TypeInv, TypeOK, Remove, SetState
<1> QED
  BY <1>2, StopType DEF TypeInv, TypeOK, Remove, SetState

LEMMA LoanType ==
    ASSUME TypeInv, NEW l \in Loan, returnLoan(l) \/ cancelLoan(l) \/ deleteLoan(l)
    PROVE  TypeInv'
<1>1. loan[l] \in LoanRow
  BY DEF TypeInv, TypeOK
<1>2. [NoLoan EXCEPT !.status = "deleted"] \in LoanRow
  BY DEF NoLoan, LoanRow
<1>3. loan' \in [Loan -> LoanRow]
  BY <1>1, <1>2, RowTypes DEF TypeInv, TypeOK, returnLoan, cancelLoan, deleteLoan
<1> QED
  BY <1>3 DEF TypeInv, TypeOK, CursorOK, returnLoan, cancelLoan, deleteLoan

LEMMA BorrowerType ==
    ASSUME TypeInv
    PROVE  /\ \A l \in Loan, u \in Borrower \cup {Owner} :
                 acceptInviteByHash(l, u) => TypeInv'
           /\ \A u \in Borrower : deleteAccountData(u) => TypeInv'
<1>1. ASSUME NEW l \in Loan, NEW u \in Borrower \cup {Owner}, acceptInviteByHash(l, u)
      PROVE  TypeInv'
  <2>1. u \in Borrower
    BY <1>1 DEF acceptInviteByHash, Acceptable
  <2>2. loan' \in [Loan -> LoanRow]
    BY <1>1, <2>1, RowTypes DEF TypeInv, TypeOK, acceptInviteByHash
  <2> QED
    BY <1>1, <2>2 DEF TypeInv, TypeOK, CursorOK, acceptInviteByHash
<1>2. ASSUME NEW u \in Borrower, deleteAccountData(u)
      PROVE  TypeInv'
  <2>1. loan' \in [Loan -> LoanRow]
    BY <1>2, RowTypes DEF TypeInv, TypeOK, deleteAccountData
  <2> QED
    BY <1>2, <2>1 DEF TypeInv, TypeOK, CursorOK, deleteAccountData
<1> QED
  BY <1>1, <1>2

LEMMA NextType == TypeInv /\ [Next]_vars => TypeInv'
<1> SUFFICES ASSUME TypeInv, [Next]_vars PROVE TypeInv'
  OBVIOUS
<1>1. ASSUME NEW r \in Request, RequestStep(r) PROVE TypeInv'
  BY <1>1, ReadType, InsertType, InviteType, CopyType DEF RequestStep
<1>2. CASE UNCHANGED vars
  BY <1>2 DEF vars, TypeInv, TypeOK, CursorOK
<1> QED
  BY <1>1, <1>2, LoanType, BorrowerType DEF Next

\* The variables of the lending model keep their types.
THEOREM TypeCorrect == Spec => []TypeOK
<1>1. TypeInv => TypeOK
  BY DEF TypeInv
<1> QED
  BY <1>1, InitType, NextType, PTL DEF Spec

-----------------------------------------------------------------------------
(***************************** invariants **********************************)

LEMMA InitInv == Init => Inv
BY InitType DEF Init, Inv, RowsOK, RowOK, OneActiveLoan, NoLoan

\* A step after which the active loans were active before, of the same copy,
\* makes no second loan of a copy.
LEMMA NoNewLoan ==
    ASSUME OneActiveLoan,
           \A l \in Loan : loan'[l].status = "active" =>
               loan[l].status = "active" /\ loan'[l].copy = loan[l].copy
    PROVE  OneActiveLoan'
BY DEF OneActiveLoan

\* What the operations make of a row that is as it should be.
LEMMA RowsStayOK ==
    ASSUME NEW row \in LoanRow, RowOK(row)
    PROVE  /\ RowOK(Closed(row, "returned"))
           /\ ~row.accepted => RowOK(Closed(row, "canceled"))
           /\ row.status = "active" =>
                 \A u \in Borrower : RowOK(Accepted(row, u))
           /\ RowOK(Anonymous(row))
           /\ \A d : RowOK([row EXCEPT !.delivery = d])
BY NullAssumption DEF RowOK, LoanRow, Closed, Accepted, Anonymous

\* A step that changes one row, without making it an active one.
LEMMA OneRowInv ==
    ASSUME Inv, NEW l \in Loan, NEW row, RowOK(row), loan' = [loan EXCEPT ![l] = row],
           row.status = "active" => loan[l].status = "active" /\ row.copy = loan[l].copy
    PROVE  RowsOK' /\ OneActiveLoan'
<1>1. \A k \in Loan : loan'[k] = IF k = l THEN row ELSE loan[k]
  BY DEF Inv, TypeInv, TypeOK
<1>2. RowsOK'
  BY <1>1 DEF Inv, RowsOK, RowOK
<1>3. OneActiveLoan'
  BY <1>1, NoNewLoan DEF Inv
<1> QED
  BY <1>2, <1>3

\* The one step that makes a loan active finds no other loan of the copy.
LEMMA CreatedInv ==
    ASSUME Inv, NEW r \in Request, NEW l \in Loan, NEW email \in BOOLEAN,
           work[r].copy \in Copy, ActiveOn(work[r].copy) = {}, Created(r, l, email)
    PROVE  RowsOK' /\ OneActiveLoan'
<1> DEFINE new == NewLoan(work[r].copy, email)
<1>1. \A k \in Loan : loan'[k] = IF k = l THEN new ELSE loan[k]
  BY DEF Created, Inv, TypeInv, TypeOK
<1>2. RowOK(new) /\ new.status = "active" /\ new.copy = work[r].copy
  BY DEF RowOK, NewLoan, NoLoan
<1>3. \A k \in Loan : ~(loan[k].status = "active" /\ loan[k].copy = work[r].copy)
  BY DEF ActiveOn, ActiveIn
<1> HIDE DEF new
<1>4. RowsOK'
  BY <1>1, <1>2 DEF Inv, RowsOK, RowOK
<1>5. OneActiveLoan'
  BY <1>1, <1>2, <1>3 DEF Inv, OneActiveLoan
<1> QED
  BY <1>4, <1>5

LEMMA RequestInv ==
    ASSUME Inv, NEW r \in Request, RequestStep(r)
    PROVE  RowsOK' /\ OneActiveLoan'
<1>1. ASSUME loan' = loan PROVE RowsOK' /\ OneActiveLoan'
  BY <1>1 DEF Inv, RowsOK, RowOK, OneActiveLoan
<1>2. CASE InsertLoan(r)
  <2>1. work[r].copy \in Copy
    BY <1>2 DEF Inv, TypeInv, CursorOK, InsertLoan
  <2> QED
    BY <1>1, <1>2, <2>1, CreatedInv DEF InsertLoan
<1>3. CASE RecordDelivery(r)
  <2> DEFINE l == work[r].loan
             row == [loan[l] EXCEPT !.delivery = work[r].delivery]
  <2>1. l \in Loan
    BY <1>3 DEF Inv, TypeInv, CursorOK, RecordDelivery
  <2>2. loan[l] \in LoanRow /\ RowOK(loan[l])
    BY <2>1 DEF Inv, TypeInv, TypeOK, RowsOK
  <2>3. RowOK(row)
    BY <2>2, RowsStayOK
  <2>4. row.status = loan[l].status /\ row.copy = loan[l].copy
    BY <2>2 DEF LoanRow
  <2>5. loan' = loan \/ loan' = [loan EXCEPT ![l] = row]
    BY <1>3 DEF RecordDelivery
  <2> HIDE DEF row, l
  <2> QED
    BY <1>1, <2>1, <2>3, <2>4, <2>5, OneRowInv
<1> QED
  BY <1>1, <1>2, <1>3
     DEF RequestStep, Snapshot, CheckActive, ReadInvite, SendEmail, CheckRemoval, Remove,
         CheckState, SetState

LEMMA EndInv ==
    ASSUME Inv, NEW l \in Loan, returnLoan(l) \/ cancelLoan(l) \/ deleteLoan(l)
    PROVE  RowsOK' /\ OneActiveLoan'
<1>1. loan[l] \in LoanRow /\ RowOK(loan[l])
  BY DEF Inv, TypeInv, TypeOK, RowsOK
<1>2. PICK row :
        /\ RowOK(row) /\ row.status # "active"
        /\ loan' = [loan EXCEPT ![l] = row]
  <2>1. CASE returnLoan(l)
    <3>1. Closed(loan[l], "returned").status = "returned"
      BY <1>1 DEF Closed, LoanRow
    <3> QED
      BY <1>1, <2>1, <3>1, RowsStayOK DEF returnLoan
  <2>2. CASE cancelLoan(l)
    <3>1. Closed(loan[l], "canceled").status = "canceled"
      BY <1>1 DEF Closed, LoanRow
    <3> QED
      BY <1>1, <2>2, <3>1, RowsStayOK DEF cancelLoan
  <2>3. CASE deleteLoan(l)
    BY <2>3 DEF deleteLoan, NoLoan, RowOK
  <2> QED
    BY <2>1, <2>2, <2>3
<1> QED
  BY <1>2, OneRowInv

LEMMA AcceptInv ==
    ASSUME Inv, NEW l \in Loan, NEW u \in Borrower \cup {Owner}, acceptInviteByHash(l, u)
    PROVE  RowsOK' /\ OneActiveLoan'
<1> DEFINE row == Accepted(loan[l], u)
<1>1. loan[l] \in LoanRow /\ RowOK(loan[l]) /\ loan[l].status = "active" /\ u \in Borrower
  BY DEF Inv, TypeInv, TypeOK, RowsOK, acceptInviteByHash, Acceptable
<1>2. RowOK(row) /\ row.copy = loan[l].copy
  BY <1>1, RowsStayOK DEF Accepted, LoanRow
<1>3. loan' = [loan EXCEPT ![l] = row]
  BY DEF acceptInviteByHash
<1> HIDE DEF row
<1> QED
  BY <1>1, <1>2, <1>3, OneRowInv

LEMMA DeletionInv ==
    ASSUME Inv, NEW u \in Borrower, deleteAccountData(u)
    PROVE  RowsOK' /\ OneActiveLoan'
<1>1. \A l \in Loan : loan[l] \in LoanRow /\ RowOK(loan[l])
  BY DEF Inv, TypeInv, TypeOK, RowsOK
<1>2. \A l \in Loan :
        loan'[l] = IF loan[l].borrower = u THEN Anonymous(loan[l]) ELSE loan[l]
  BY DEF deleteAccountData
<1>3. \A l \in Loan : /\ RowOK(Anonymous(loan[l]))
                      /\ Anonymous(loan[l]).status = loan[l].status
                      /\ Anonymous(loan[l]).copy = loan[l].copy
  BY <1>1, RowsStayOK DEF Anonymous, LoanRow
<1>4. RowsOK'
  BY <1>1, <1>2, <1>3 DEF RowsOK, RowOK
<1>5. OneActiveLoan'
  BY <1>2, <1>3, NoNewLoan DEF Inv
<1> QED
  BY <1>4, <1>5

LEMMA NextInv == Inv /\ [Next]_vars => Inv'
<1> SUFFICES ASSUME Inv, [Next]_vars PROVE RowsOK' /\ OneActiveLoan'
  BY NextType DEF Inv
<1>1. CASE UNCHANGED vars
  BY <1>1 DEF vars, Inv, RowsOK, RowOK, OneActiveLoan
<1>2. CASE Next
  BY <1>2, RequestInv, EndInv, AcceptInv, DeletionInv DEF Next
<1> QED
  BY <1>1, <1>2

LEMMA Invariance == Spec => []Inv
BY InitInv, NextInv, PTL DEF Spec

\* However the requests of the owner interleave, a copy has one active loan at
\* most: the check of createLoan is not enough, its index is.
THEOREM OneLoanPerCopy == Spec => []OneActiveLoan
<1>1. Inv => OneActiveLoan
  BY DEF Inv
<1> QED
  BY <1>1, Invariance, PTL

\* A token that is still stored is that of an offer nobody has accepted.
THEOREM TokensUsedOnce == Spec => []TokensAreSingleUse
<1>1. Inv => TokensAreSingleUse
  BY DEF Inv, RowsOK, RowOK, TokensAreSingleUse, TypeInv, TypeOK, LoanRow
<1> QED
  BY <1>1, Invariance, PTL

\* A cancelled loan never had a borrower.
THEOREM AcceptedNotCanceled == Spec => []CanceledWasNotAccepted
<1>1. Inv => CanceledWasNotAccepted
  BY DEF Inv, RowsOK, RowOK, CanceledWasNotAccepted, TypeInv, TypeOK, LoanRow
<1> QED
  BY <1>1, Invariance, PTL

-----------------------------------------------------------------------------
(******************************* history ***********************************)

\* A loan that is closed is only deleted, or loses its borrower with the
\* borrower's account, whatever report about its invitation is still to come.
THEOREM HistoryStays == Spec => ClosedStays
<1>1. Inv /\ [Next]_vars =>
        \A l \in Loan :
            loan[l].status \in {"returned", "canceled"} =>
                \/ loan'[l] = loan[l]
                \/ loan'[l].status = "deleted"
                \/ loan[l].borrower \in deleted' \ deleted
  <2> DEFINE Frozen(l) == \/ loan'[l] = loan[l]
                          \/ loan'[l].status = "deleted"
                          \/ loan[l].borrower \in deleted' \ deleted
  <2> SUFFICES ASSUME Inv, [Next]_vars,
                      NEW l \in Loan, loan[l].status \in {"returned", "canceled"}
               PROVE  Frozen(l)
    OBVIOUS
  <2>1. loan \in [Loan -> LoanRow]
    BY DEF Inv, TypeInv, TypeOK
  <2>2. ASSUME NEW r \in Request, RequestStep(r) PROVE Frozen(l)
    <3>1. CASE InsertLoan(r)
      BY <2>1, <3>1 DEF InsertLoan, Created
    <3>2. CASE RecordDelivery(r)
      <4>1. loan' = loan \/ \E k \in Loan :
                \E row : loan[k].status = "active" /\ loan' = [loan EXCEPT ![k] = row]
        <5>1. work[r].loan \in Loan
          BY <3>2 DEF Inv, TypeInv, CursorOK, RecordDelivery
        <5> QED
          BY <3>2, <5>1 DEF RecordDelivery
      <4> QED
        BY <2>1, <4>1
    <3> QED
      BY <2>2, <3>1, <3>2
         DEF RequestStep, Snapshot, CheckActive, ReadInvite, SendEmail, CheckRemoval,
             Remove, CheckState, SetState
  <2>3. ASSUME NEW k \in Loan, returnLoan(k) \/ cancelLoan(k) PROVE Frozen(l)
    BY <2>1, <2>3 DEF returnLoan, cancelLoan
  <2>4. ASSUME NEW k \in Loan, deleteLoan(k) PROVE Frozen(l)
    BY <2>1, <2>4 DEF deleteLoan, NoLoan
  <2>5. ASSUME NEW k \in Loan, NEW u \in Borrower \cup {Owner}, acceptInviteByHash(k, u)
        PROVE  Frozen(l)
    BY <2>1, <2>5 DEF acceptInviteByHash, Acceptable
  <2>6. ASSUME NEW u \in Borrower, deleteAccountData(u) PROVE Frozen(l)
    BY <2>6 DEF deleteAccountData
  <2>7. CASE UNCHANGED vars
    BY <2>7 DEF vars
  <2> QED
    BY <2>2, <2>3, <2>4, <2>5, <2>6, <2>7 DEF Next
<1> QED
  BY <1>1, Invariance, PTL DEF Spec, ClosedStays

-----------------------------------------------------------------------------
(****************************** refinement *********************************)

LEMMA OneHolder ==
    ASSUME NEW table, NEW c, NEW l \in Loan,
           \A k \in Loan : table[k].status = "active" /\ table[k].copy = c <=> k = l
    PROVE  HolderIn(table, c) = Place(table[l])
<1>1. ActiveIn(table, c) = {l}
  BY DEF ActiveIn
<1> QED
  BY <1>1 DEF HolderIn

LEMMA NoHolder ==
    ASSUME NEW table, NEW c,
           \A k \in Loan : ~(table[k].status = "active" /\ table[k].copy = c)
    PROVE  HolderIn(table, c) = "home"
BY DEF HolderIn, ActiveIn

\* A table that differs in no active loan of a copy says the same of it.
LEMMA SameHolder ==
    ASSUME NEW table, NEW new, NEW c,
           \A k \in Loan :
               (new[k].status = "active" /\ new[k].copy = c
                   <=> table[k].status = "active" /\ table[k].copy = c),
           \A k \in Loan : table[k].status = "active" /\ table[k].copy = c
               => Place(new[k]) = Place(table[k])
    PROVE  HolderIn(new, c) = HolderIn(table, c)
<1>1. ActiveIn(new, c) = ActiveIn(table, c)
  BY DEF ActiveIn
<1>2. CASE ActiveIn(table, c) = {}
  BY <1>1, <1>2 DEF HolderIn
<1>3. CASE ActiveIn(table, c) # {}
  <2> DEFINE k == CHOOSE l \in Loan : l \in ActiveIn(table, c)
  <2>1. k \in Loan /\ k \in ActiveIn(table, c)
    BY <1>3 DEF ActiveIn
  <2>2. Place(new[k]) = Place(table[k])
    BY <2>1 DEF ActiveIn
  <2> QED
    BY <1>1, <1>3, <2>2 DEF HolderIn
<1> QED
  BY <1>2, <1>3

\* The holder of a copy after a step that changes one row that is, or becomes,
\* the active loan of a copy.
LEMMA HolderOfOthers ==
    ASSUME Inv, NEW l \in Loan, NEW row, NEW c \in Copy, NEW d \in Copy, d # c,
           loan' = [loan EXCEPT ![l] = row],
           loan[l].status = "active" => loan[l].copy = c,
           row.status = "active" => row.copy = c
    PROVE  holder'[d] = holder[d]
<1>1. \A k \in Loan : loan'[k] = IF k = l THEN row ELSE loan[k]
  BY DEF Inv, TypeInv, TypeOK
<1>2. ASSUME NEW new, new = loan' PROVE HolderIn(new, d) = HolderIn(loan, d)
  <2>1. \A k \in Loan :
          (new[k].status = "active" /\ new[k].copy = d
              <=> loan[k].status = "active" /\ loan[k].copy = d)
    BY <1>1, <1>2
  <2>2. \A k \in Loan : loan[k].status = "active" /\ loan[k].copy = d
          => Place(new[k]) = Place(loan[k])
    BY <1>1, <1>2
  <2> QED
    BY <2>1, <2>2, SameHolder
<1>3. HolderIn(loan', d) = HolderIn(loan, d)
  BY <1>2
<1> QED
  BY <1>3 DEF holder

\* The loan, as it was and as it is, is active only for copy c.
OnlyOf(row, new, c) ==
    /\ row.status = "active" => row.copy = c
    /\ new.status = "active" => new.copy = c

LEMMA HolderMoves ==
    ASSUME Inv, NEW l \in Loan, NEW row, NEW c \in Copy, NEW place,
           loan' = [loan EXCEPT ![l] = row], OnlyOf(loan[l], row, c), holder'[c] = place
    PROVE  holder' = [holder EXCEPT ![c] = place]
<1>1. \A d \in Copy : d # c => holder'[d] = holder[d]
  BY HolderOfOthers DEF OnlyOf
<1>2. /\ holder \in [Copy -> {holder[d] : d \in Copy}]
      /\ holder' \in [Copy -> {holder'[d] : d \in Copy}]
  BY DEF holder
<1> QED
  BY <1>1, <1>2

\* The holder of the copy of an active loan.
LEMMA HolderOfLoan ==
    ASSUME Inv, NEW l \in Loan, loan[l].status = "active"
    PROVE  /\ loan[l].copy \in Copy
           /\ holder[loan[l].copy] = Place(loan[l])
           /\ Place(loan[l]) # "home"
<1>1. loan[l] \in LoanRow /\ loan[l].copy \in Copy
  BY DEF Inv, TypeInv, TypeOK, RowsOK, RowOK
<1>2. HolderIn(loan, loan[l].copy) = Place(loan[l])
  <2>1. \A k \in Loan :
          (loan[k].status = "active" /\ loan[k].copy = loan[l].copy <=> k = l)
    BY DEF Inv, OneActiveLoan
  <2> QED
    BY <2>1, OneHolder
<1>3. Place(loan[l]) # "home"
  BY <1>1, PlaceAssumption DEF Place, Places, LoanRow
<1> QED
  BY <1>1, <1>2, <1>3 DEF holder

\* A loan that begins takes its copy from home to an offer.
LEMMA LendStep ==
    ASSUME Inv, NEW r \in Request, NEW l \in Loan, NEW email \in BOOLEAN,
           work[r].copy \in Copy, ActiveOn(work[r].copy) = {}, Created(r, l, email)
    PROVE  H!Lend(work[r].copy)
<1> DEFINE c == work[r].copy
           row == NewLoan(c, email)
<1>1. holder[c] = "home"
  BY NoHolder DEF ActiveOn, HolderIn, holder
<1>2. loan' = [loan EXCEPT ![l] = row] /\ loan[l].status # "active"
  BY DEF Created
<1>3. row.status = "active" /\ row.copy = c /\ Place(row) = "offered"
  BY DEF NewLoan, NoLoan, Place
<1> HIDE DEF row
<1>4. \A k \in Loan :
        /\ loan'[k] = IF k = l THEN row ELSE loan[k]
        /\ ~(loan[k].status = "active" /\ loan[k].copy = c)
  BY <1>2 DEF Inv, TypeInv, TypeOK, ActiveOn, ActiveIn
<1>5. ASSUME NEW new, new = loan' PROVE HolderIn(new, c) = "offered"
  <2>1. \A k \in Loan : (new[k].status = "active" /\ new[k].copy = c <=> k = l)
    BY <1>3, <1>4, <1>5
  <2>2. Place(new[l]) = "offered"
    BY <1>3, <1>4, <1>5
  <2> QED
    BY <2>1, <2>2, OneHolder
<1>6. holder'[c] = "offered"
  BY <1>5 DEF holder
<1>7. OnlyOf(loan[l], row, c) /\ c \in Copy
  BY <1>2, <1>3 DEF OnlyOf
<1> HIDE DEF c
<1>8. holder' = [holder EXCEPT ![c] = "offered"]
  BY <1>2, <1>6, <1>7, HolderMoves
<1> QED
  BY <1>1, <1>8 DEF H!Lend, c

\* A step that leaves the active loans and their places alone is a stutter.
LEMMA HolderStays ==
    ASSUME \A k \in Loan :
               /\ loan'[k].status = "active" <=> loan[k].status = "active"
               /\ loan[k].status = "active" =>
                     loan'[k].copy = loan[k].copy /\ Place(loan'[k]) = Place(loan[k])
    PROVE  holder' = holder
<1>1. ASSUME NEW new, new = loan', NEW c \in Copy
      PROVE  HolderIn(new, c) = HolderIn(loan, c)
  <2>1. \A k \in Loan :
          (new[k].status = "active" /\ new[k].copy = c
              <=> loan[k].status = "active" /\ loan[k].copy = c)
    BY <1>1
  <2>2. \A k \in Loan : loan[k].status = "active" /\ loan[k].copy = c
          => Place(new[k]) = Place(loan[k])
    BY <1>1
  <2> QED
    BY <2>1, <2>2, SameHolder
<1>2. \A c \in Copy : HolderIn(loan', c) = HolderIn(loan, c)
  BY <1>1
<1> QED
  BY <1>2 DEF holder

\* A loan that ends takes its copy home.
LEMMA EndStep ==
    ASSUME Inv, NEW l \in Loan, NEW row,
           loan[l].status = "active", row.status # "active",
           loan' = [loan EXCEPT ![l] = row]
    PROVE  H!GiveBack(loan[l].copy)
<1>0. PICK c : c = loan[l].copy
  OBVIOUS
<1>1. c \in Copy /\ holder[c] # "home"
  BY <1>0, HolderOfLoan
<1>2. \A k \in Loan : /\ loan'[k] = IF k = l THEN row ELSE loan[k]
                      /\ loan[k].status = "active" /\ loan[k].copy = c => k = l
  BY <1>0 DEF Inv, TypeInv, TypeOK, OneActiveLoan
<1>3. ASSUME NEW new, new = loan' PROVE HolderIn(new, c) = "home"
  <2>1. \A k \in Loan : ~(new[k].status = "active" /\ new[k].copy = c)
    BY <1>2, <1>3
  <2> QED
    BY <2>1, NoHolder
<1>4. holder'[c] = "home"
  BY <1>1, <1>3 DEF holder
<1>5. OnlyOf(loan[l], row, c)
  BY <1>0 DEF OnlyOf
<1>6. holder' = [holder EXCEPT ![c] = "home"]
  BY <1>1, <1>4, <1>5, HolderMoves
<1> QED
  BY <1>0, <1>1, <1>6 DEF H!GiveBack

\* An invitation that is accepted takes its copy from the offer to the borrower.
LEMMA AcceptStep ==
    ASSUME Inv, NEW l \in Loan, NEW u \in Borrower \cup {Owner}, acceptInviteByHash(l, u)
    PROVE  u \in Borrower /\ loan[l].copy \in Copy /\ H!Accept(loan[l].copy, u)
<1>0. PICK c, row : c = loan[l].copy /\ row = Accepted(loan[l], u)
  OBVIOUS
<1>1. /\ u \in Borrower /\ loan[l] \in LoanRow
      /\ loan[l].status = "active" /\ loan[l].borrower = None /\ loan[l].token
      /\ loan' = [loan EXCEPT ![l] = row]
  BY <1>0 DEF acceptInviteByHash, Acceptable, Inv, TypeInv, TypeOK
<1>2. c \in Copy /\ holder[c] = "offered"
  BY <1>0, <1>1, HolderOfLoan DEF Place
<1>3. row.status = "active" /\ row.copy = c /\ Place(row) = u
  BY <1>0, <1>1, NullAssumption DEF Accepted, LoanRow, Place
<1>4. \A k \in Loan : /\ loan'[k] = IF k = l THEN row ELSE loan[k]
                      /\ loan[k].status = "active" /\ loan[k].copy = c => k = l
  BY <1>0, <1>1 DEF Inv, TypeInv, TypeOK, OneActiveLoan
<1>5. ASSUME NEW new, new = loan' PROVE HolderIn(new, c) = u
  <2>1. \A k \in Loan : (new[k].status = "active" /\ new[k].copy = c <=> k = l)
    BY <1>3, <1>4, <1>5
  <2>2. Place(new[l]) = u
    BY <1>3, <1>4, <1>5
  <2> QED
    BY <2>1, <2>2, OneHolder
<1>6. holder'[c] = u
  BY <1>2, <1>5 DEF holder
<1>7. OnlyOf(loan[l], row, c)
  BY <1>0, <1>3 DEF OnlyOf
<1>8. holder' = [holder EXCEPT ![c] = u]
  BY <1>1, <1>2, <1>6, <1>7, HolderMoves
<1> QED
  BY <1>0, <1>1, <1>2, <1>8 DEF H!Accept

\* Deleting a borrower's account leaves the copies of that borrower unnamed.
LEMMA ForgetStep ==
    ASSUME Inv, NEW u \in Borrower, deleteAccountData(u)
    PROVE  H!Forget(u)
<1>1. \A k \in Loan : /\ loan[k] \in LoanRow /\ RowOK(loan[k])
                      /\ loan'[k] = IF loan[k].borrower = u THEN Anonymous(loan[k]) ELSE loan[k]
  BY DEF Inv, TypeInv, TypeOK, RowsOK, deleteAccountData
<1>2. \A k \in Loan :
        /\ loan'[k].status = loan[k].status /\ loan'[k].copy = loan[k].copy
        /\ Place(loan'[k]) = IF Place(loan[k]) = u THEN "unnamed" ELSE Place(loan[k])
  <2> SUFFICES ASSUME NEW k \in Loan
               PROVE  /\ loan'[k].status = loan[k].status /\ loan'[k].copy = loan[k].copy
                      /\ Place(loan'[k]) = IF Place(loan[k]) = u THEN "unnamed" ELSE Place(loan[k])
    OBVIOUS
  <2>1. loan[k] \in LoanRow /\ (loan[k].token => loan[k].borrower = None)
    BY <1>1 DEF RowOK
  <2>2. CASE loan[k].borrower = u
    <3>1. u # None /\ ~loan[k].token
      BY <2>1, <2>2, NullAssumption
    <3>2. ASSUME NEW row \in LoanRow
          PROVE  /\ Anonymous(row).status = row.status /\ Anonymous(row).copy = row.copy
                 /\ Anonymous(row).borrower = None /\ Anonymous(row).token = row.token
      BY DEF LoanRow, Anonymous
    <3>3. loan'[k] = Anonymous(loan[k])
      BY <1>1, <2>2
    <3>4. /\ loan'[k].status = loan[k].status /\ loan'[k].copy = loan[k].copy
          /\ loan'[k].borrower = None /\ ~loan'[k].token
      BY <2>1, <3>1, <3>2, <3>3
    <3>5. Place(loan[k]) = u /\ Place(loan'[k]) = "unnamed"
      BY <2>2, <3>1, <3>4 DEF Place
    <3> QED
      BY <3>4, <3>5
  <2>3. CASE loan[k].borrower # u
    <3>1. loan'[k] = loan[k]
      BY <1>1, <2>3
    <3>2. Place(loan[k]) # u
      BY <2>1, <2>3, PlaceAssumption DEF LoanRow, Place, Places
    <3> QED
      BY <3>1, <3>2
  <2> QED
    BY <2>2, <2>3
<1>3. ASSUME NEW c \in Copy, NEW new, new = loan'
      PROVE  HolderIn(new, c) = IF HolderIn(loan, c) = u THEN "unnamed" ELSE HolderIn(loan, c)
  <2>1. CASE \A k \in Loan : ~(loan[k].status = "active" /\ loan[k].copy = c)
    <3>1. \A k \in Loan : ~(new[k].status = "active" /\ new[k].copy = c)
      BY <1>2, <1>3, <2>1
    <3>2. HolderIn(new, c) = "home" /\ HolderIn(loan, c) = "home"
      BY <2>1, <3>1, NoHolder
    <3> QED
      BY <3>2, PlaceAssumption DEF Places
  <2>2. ASSUME NEW l \in Loan, loan[l].status = "active", loan[l].copy = c
        PROVE  HolderIn(new, c) = IF HolderIn(loan, c) = u THEN "unnamed" ELSE HolderIn(loan, c)
    <3>1. \A k \in Loan : (loan[k].status = "active" /\ loan[k].copy = c <=> k = l)
      BY <2>2 DEF Inv, OneActiveLoan
    <3>2. \A k \in Loan : (new[k].status = "active" /\ new[k].copy = c <=> k = l)
      BY <1>2, <1>3, <3>1
    <3>3. HolderIn(loan, c) = Place(loan[l]) /\ HolderIn(new, c) = Place(new[l])
      BY <3>1, <3>2, OneHolder
    <3> QED
      BY <1>2, <1>3, <3>3
  <2> QED
    BY <2>1, <2>2
<1>4. \A c \in Copy : holder[c] = HolderIn(loan, c)
  BY DEF holder
<1>5. holder' = [c \in Copy |-> IF holder[c] = u THEN "unnamed" ELSE holder[c]]
  BY <1>3, <1>4 DEF holder
<1> QED
  BY <1>5 DEF H!Forget

LEMMA RequestHolding ==
    ASSUME Inv, NEW r \in Request, RequestStep(r)
    PROVE  H!Next \/ holder' = holder
<1>1. CASE InsertLoan(r)
  <2>1. CASE loan' = loan
    BY <2>1 DEF holder, HolderIn, ActiveIn
  <2>2. ASSUME NEW l \in Loan, NEW email \in BOOLEAN, Created(r, l, email),
               ActiveOn(work[r].copy) = {}
        PROVE  H!Next
    <3>1. work[r].copy \in Copy
      BY <1>1 DEF Inv, TypeInv, CursorOK, InsertLoan
    <3> QED
      BY <2>2, <3>1, LendStep DEF H!Next
  <2> QED
    BY <1>1, <2>1, <2>2 DEF InsertLoan
<1>2. CASE RecordDelivery(r)
  <2>1. work[r].loan \in Loan /\ loan \in [Loan -> LoanRow]
    BY <1>2 DEF Inv, TypeInv, TypeOK, CursorOK, RecordDelivery
  <2>2. \A k \in Loan :
          /\ loan'[k].status = loan[k].status /\ loan'[k].copy = loan[k].copy
          /\ loan'[k].borrower = loan[k].borrower /\ loan'[k].token = loan[k].token
    BY <1>2, <2>1 DEF RecordDelivery, LoanRow
  <2> QED
    BY <2>2, HolderStays DEF Place
<1>3. CASE loan' = loan
  BY <1>3 DEF holder, HolderIn, ActiveIn
<1> QED
  BY <1>1, <1>2, <1>3
     DEF RequestStep, Snapshot, CheckActive, ReadInvite, SendEmail, CheckRemoval, Remove,
         CheckState, SetState

LEMMA EndHolding ==
    ASSUME Inv, NEW l \in Loan, returnLoan(l) \/ cancelLoan(l) \/ deleteLoan(l)
    PROVE  H!Next \/ holder' = holder
<1>1. loan \in [Loan -> LoanRow]
  BY DEF Inv, TypeInv, TypeOK
<1>2. CASE returnLoan(l) \/ cancelLoan(l)
  <2>1. PICK row : row.status # "active" /\ loan' = [loan EXCEPT ![l] = row]
    <3>1. \A s \in {"returned", "canceled"} : Closed(loan[l], s).status # "active"
      BY <1>1 DEF Closed, LoanRow
    <3> QED
      BY <1>2, <3>1 DEF returnLoan, cancelLoan
  <2>2. loan[l].status = "active"
    BY <1>2 DEF returnLoan, cancelLoan
  <2> QED
    BY <2>1, <2>2, EndStep, HolderOfLoan DEF H!Next
<1>3. CASE deleteLoan(l)
  <2>1. \A k \in Loan : loan'[k] = loan[k] \/ (k = l /\ loan'[k].status = "deleted")
    BY <1>1, <1>3 DEF deleteLoan, NoLoan
  <2>2. loan[l].status # "active"
    BY <1>3 DEF deleteLoan
  <2> QED
    BY <2>1, <2>2, HolderStays
<1> QED
  BY <1>2, <1>3

LEMMA NextHolding == Inv /\ [Next]_vars => [H!Next]_holder
<1> SUFFICES ASSUME Inv, [Next]_vars PROVE H!Next \/ holder' = holder
  OBVIOUS
<1>1. ASSUME NEW l \in Loan, NEW u \in Borrower \cup {Owner}, acceptInviteByHash(l, u)
      PROVE  H!Next
  BY <1>1, AcceptStep DEF H!Next
<1>2. ASSUME NEW u \in Borrower, deleteAccountData(u) PROVE H!Next
  BY <1>2, ForgetStep DEF H!Next
<1>3. CASE UNCHANGED vars
  BY <1>3 DEF vars, holder, HolderIn, ActiveIn
<1> QED
  BY <1>1, <1>2, <1>3, RequestHolding, EndHolding DEF Next

LEMMA InitHolding == Init => H!Init
<1> SUFFICES ASSUME Init PROVE \A c \in Copy : HolderIn(loan, c) = "home"
  BY DEF H!Init, holder
<1>1. \A k \in Loan : loan[k].status # "active"
  BY DEF Init, NoLoan
<1> QED
  BY <1>1, NoHolder

\* Lending implements Holding: whatever the requests of the owner do at the
\* same time, a copy goes from home to an offer, to one borrower and back.
THEOREM LendingIsHolding == Spec => ImplementsHolding
BY InitHolding, NextHolding, Invariance, PTL DEF Spec, ImplementsHolding, H!Spec
=============================================================================
