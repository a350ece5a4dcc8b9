------------------------------ MODULE MCCurating ------------------------------
(***************************************************************************)
(* Ada (1) hires and Ben (2) offers: in the words of their letters, where  *)
(* both mention the papers of the intake too, as roles they declare, and   *)
(* by the grade of a document.  3 is an organisation.                      *)
(***************************************************************************)
EXTENDS Curating

Row(subject, predicate, object, source) ==
  [subject |-> subject, predicate |-> predicate, object |-> object, attributes |-> {},
   source |-> source, grade |-> "good", retracted |-> FALSE]

Papers == {"resume", "intro", "cv"}

Said ==
  {{Row(1, "is_person", {"ada"}, "message"), Row(1, "HIRING", {"rust"}, "message"),
    Row(1, "BUYING", Papers, "message"), Row(1, "hiring", {}, "message")},
   {Row(2, "is_person", {"ben"}, "message"), Row(2, "OFFERING", {"rust"}, "message"),
    Row(2, "OFFERING", Papers, "message"), Row(2, "seeking_employment", {}, "message"),
    Row(2, "hire_for", {"rust"}, "attachment")}}
===============================================================================
