\* Two requests of the owner and two borrowers, two loans of one copy.
\* Once the copy is removed and all ids are used the library may rest.
SPECIFICATION Spec
CONSTANTS
    Copy = {c1}
    Loan = {l1, l2}
    Borrower = {u1, u2}
    Owner = owner
    Request = {r1, r2}
    None = None
SYMMETRY MCSymmetry
CHECK_DEADLOCK FALSE
INVARIANTS TypeOK OneActiveLoan TokensAreSingleUse 
PROPERTIES ClosedStays ImplementsHolding
