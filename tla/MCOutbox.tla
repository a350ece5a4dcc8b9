------------------------------- MODULE MCOutbox -------------------------------
(***************************************************************************)
(* The outbox on its own, small: the values are in the .cfg files.  Letters *)
(* are interchangeable, so the runs that check no liveness may use Symmetry. *)
(***************************************************************************)
EXTENDS Outbox, TLC

Symmetry == Permutations(Letters)
=============================================================================
