-------------------------------- MODULE MCDesk --------------------------------
(***************************************************************************)
(* The desk, small: one owner and one candidate.                            *)
(***************************************************************************)
EXTENDS Desk

CONSTANTS ann, bob

\* bob owns the opportunity, ann is the candidate.
OnePair == {<<ann, bob>>}

AllIntents == {"stop", "delete", "pass", "introduce", "correct", "message"}
=============================================================================
