\* One request lends a copy while another moves it to the wishlist.
SPECIFICATION Spec
CONSTANTS
    Copy = {c1}
    Loan = {l1}
    Borrower = {u1}
    Owner = owner
    Request = {r1, r2}
    None = None
CHECK_DEADLOCK FALSE
INVARIANTS LentCopyIsOwned
