----------------------------- MODULE DoubleBlind -----------------------------
(***************************************************************************)
(* What the desk promises two people it means to introduce.                *)
(*                                                                         *)
(* Each is told privately.  Once anyone is told, there may be an           *)
(* objection.  They meet, in one email to both, only when both are told    *)
(* and neither has objected; an objection and a meeting exclude each       *)
(* other for good.  The desk and the graph arm both keep this promise.     *)
(***************************************************************************)
CONSTANTS
  Matches,         \* the introductions that may be made
  Sides            \* Sides[m]: the two people of m

VARIABLES
  told,            \* told[m]: who has been sent the private preview
  objected,        \* objected[m]: a veto, correction, stop or deletion stands
  met              \* met[m]: the introduction has left

vars == <<told, objected, met>>

Init ==
  /\ told = [m \in Matches |-> {}]
  /\ objected = [m \in Matches |-> FALSE]
  /\ met = [m \in Matches |-> FALSE]

\* One side learns of the other.
Tell(m) ==
  /\ \E p \in Sides[m] \ told[m] : told' = [told EXCEPT ![m] = @ \cup {p}]
  /\ UNCHANGED <<objected, met>>

\* One side says no, in time.
Object(m) ==
  /\ told[m] # {}
  /\ ~objected[m] /\ ~met[m]
  /\ objected' = [objected EXCEPT ![m] = TRUE]
  /\ UNCHANGED <<told, met>>

\* The introduction leaves.
Meet(m) ==
  /\ told[m] = Sides[m]
  /\ ~objected[m] /\ ~met[m]
  /\ met' = [met EXCEPT ![m] = TRUE]
  /\ UNCHANGED <<told, objected>>

Next == \E m \in Matches : Tell(m) \/ Object(m) \/ Meet(m)

Spec == Init /\ [][Next]_vars
=============================================================================
