----------------------------- MODULE LendingMC -----------------------------
EXTENDS Lending, TLC

MCSymmetry == Permutations(Loan) \cup Permutations(Request)
                \cup Permutations(Borrower) \cup Permutations(Copy)
=============================================================================
