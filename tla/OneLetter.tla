------------------------------ MODULE OneLetter ------------------------------
(***************************************************************************)
(* What the outbox promises about each letter the desk decides to write.   *)
(*                                                                         *)
(* A letter is owed from the moment a job exists for it.  The mail server  *)
(* takes at most one copy of it.  The desk then comes to rest on one of    *)
(* two answers, and the answer is true: "delivered" only when a copy left, *)
(* "abandoned" only when none did.  Neither answer is ever taken back.     *)
(*                                                                         *)
(* Between the moment a copy leaves and the moment the desk writes that    *)
(* down the letter is still owed: a process can die there, and the promise *)
(* allows the question to stay open, but not a second copy.                *)
(***************************************************************************)
EXTENDS Naturals

CONSTANT Letters   \* one idempotency key per intended email

VARIABLES
  status,          \* what the desk believes about each letter
  copies           \* how many copies the mail server took

vars == <<status, copies>>

Init ==
  /\ status = [k \in Letters |-> "unwritten"]
  /\ copies = [k \in Letters |-> 0]

\* The desk decides that this email should exist.
Owe(k) ==
  /\ status[k] = "unwritten"
  /\ status' = [status EXCEPT ![k] = "owed"]
  /\ UNCHANGED copies

\* The one copy leaves.
HandOver(k) ==
  /\ status[k] = "owed"
  /\ copies[k] = 0
  /\ copies' = [copies EXCEPT ![k] = 1]
  /\ UNCHANGED status

\* The desk writes down that it left.
Settle(k) ==
  /\ status[k] = "owed"
  /\ copies[k] = 1
  /\ status' = [status EXCEPT ![k] = "delivered"]
  /\ UNCHANGED copies

\* The desk gives up on a letter that never left.
Abandon(k) ==
  /\ status[k] = "owed"
  /\ copies[k] = 0
  /\ status' = [status EXCEPT ![k] = "abandoned"]
  /\ UNCHANGED copies

Next == \E k \in Letters : Owe(k) \/ HandOver(k) \/ Settle(k) \/ Abandon(k)

Spec == Init /\ [][Next]_vars
=============================================================================
