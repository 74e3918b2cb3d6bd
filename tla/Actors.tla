------------------------------- MODULE Actors -------------------------------
(***************************************************************************)
(* What the component modules share: the concurrent calls the server       *)
(* handles, and a value for an absent one (a null column, an undefined     *)
(* variable).                                                              *)
(***************************************************************************)
EXTENDS Integers, FiniteSets, SequencesExt

CONSTANTS
    Call,   \* requests that are being handled at the same time
    None    \* null

\* null is no value of a column or of a variable
ASSUME NoneAssumption == None \notin Call \cup Nat \cup BOOLEAN /\ None \notin STRING

\* a bounded counter has room for one more step
Room(n, bound) == n < bound

\* the elements of s at the positions P, in their order
InOrder(s, P) == [n \in 1 .. Cardinality(P) |-> s[CHOOSE i \in P : Cardinality({j \in P : j <= i}) = n]]
=============================================================================
