------------------------------ MODULE Holding ------------------------------
(* What lending promises about a copy of a book: it is at home, or offered   *)
(* to whoever has the invitation, or with one borrower.  A borrower keeps it *)
(* until it is given back; if the borrower's account is deleted, it remains  *)
(* lent to somebody without a name.                                          *)
CONSTANTS
    Copy,
    Borrower

VARIABLE holder

Init == holder = [c \in Copy |-> "home"]

Lend(c) == holder[c] = "home" /\ holder' = [holder EXCEPT ![c] = "offered"]
Accept(c, u) == holder[c] = "offered" /\ holder' = [holder EXCEPT ![c] = u]
GiveBack(c) == holder[c] # "home" /\ holder' = [holder EXCEPT ![c] = "home"]
Forget(u) == holder' = [c \in Copy |-> IF holder[c] = u THEN "unnamed" ELSE holder[c]]

Next ==
    \/ \E c \in Copy : Lend(c) \/ GiveBack(c)
    \/ \E c \in Copy, u \in Borrower : Accept(c, u)
    \/ \E u \in Borrower : Forget(u)

Spec == Init /\ [][Next]_holder
=============================================================================
