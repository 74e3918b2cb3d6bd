------------------------- MODULE ImportEnrichmentMC -------------------------
EXTENDS ImportEnrichment, TLC

CONSTANTS b1, b2, u1, u2
MCOwner == [b \in Book |-> IF b = b1 THEN u1 ELSE u2]
MCOneOwner == [b \in Book |-> u1]
MCSymmetry == Permutations(Worker)
MCSymmetryAll == Permutations(Worker) \cup Permutations(Book)
=============================================================================
