------------------------------ MODULE MCConsent ------------------------------
(***************************************************************************)
(* The consent round, small: one match, or two of one person.              *)
(***************************************************************************)
EXTENDS Consent

CONSTANTS ann, bob, cid, m1, m2

OneMatch == [m \in {m1} |-> <<ann, bob>>]

\* One address occurs in another: ann's in bob's, or bob's in cid's.
OneAlike == [s \in {bob} |-> {ann, bob}]
SharedAlike == [s \in {ann, bob, cid} |-> IF s = cid THEN {bob, cid} ELSE {s}]

\* Two matches of bob: he seeks in one and offers in the other.
Shared == [m \in {m1, m2} |-> IF m = m1 THEN <<ann, bob>> ELSE <<bob, cid>>]
=============================================================================
