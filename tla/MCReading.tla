------------------------------- MODULE MCReading -------------------------------
(***************************************************************************)
(* Three letters: ann's carries a cv that once had a job of its own and    *)
(* links a page, bob's carries the same cv, and one does not parse.        *)
(***************************************************************************)
EXTENDS Reading, TLC

CONSTANTS a, b, bad, cv, page, ann, bob, eve

Senders == [m \in Messages |-> CASE m = a -> ann [] m = b -> bob [] m = bad -> eve]
Subjects == [m \in Messages |-> IF m = a THEN "founder" ELSE Nothing]
Names == [m \in Messages |-> IF m = b THEN "investor" ELSE Nothing]
Attached == [m \in Messages |-> IF m = bad THEN <<>> ELSE <<cv>>]
NoLinks == [m \in Messages |-> {}]
Linked == [m \in Messages |-> IF m = a THEN {page} ELSE {}]

Crew == Permutations(Workers)
=============================================================================
