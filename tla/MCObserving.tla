------------------------------ MODULE MCObserving ------------------------------
(***************************************************************************)
(* A letter that two jobs resolve to, of which a model may write a person, *)
(* a fact about it, and an invention; and a voice.                         *)
(***************************************************************************)
EXTENDS Observing

CONSTANTS note, person, fact, invention

OneLetter == [r \in Readers |-> note]
Lines == [l \in Letters |-> {person, fact, invention}]
Subjects == [c \in Claims |-> IF c = person THEN Nothing ELSE person]
Groups == [c \in Claims |-> IF c = person THEN "entities" ELSE "disclosures"]
Places == [c \in Claims |-> CASE c = person -> 1 [] c = invention -> 2 [] OTHER -> 3]
=============================================================================
