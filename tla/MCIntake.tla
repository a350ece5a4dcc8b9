-------------------------------- MODULE MCIntake --------------------------------
(***************************************************************************)
(* ann sends her resume, follows up with a PDF and a note that says the    *)
(* rest, asks to be deleted, and stops on top of it.                       *)
(***************************************************************************)
EXTENDS Intake

CONSTANTS ann, cv, pdf, note, resume, followup, delete, stop

Arrival == <<resume, followup, delete, stop>>
Senders == [l \in Letters |-> ann]
Intents == [l \in Letters |->
  CASE l = delete -> "delete" [] l = stop -> "stop" [] OTHER -> "message"]
Attached == [l \in Letters |->
  CASE l = resume -> {cv} [] l = followup -> {pdf} [] OTHER -> {}]
Bodies == [l \in Letters |-> IF l = followup THEN note ELSE Nothing]
Evidence == [d \in Documents |->
  CASE d = cv -> {"roles"} [] d = note -> {"seeks"} [] OTHER -> {}]
Policy == <<"roles", "seeks">>
===============================================================================
