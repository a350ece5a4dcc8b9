-------------------------------- MODULE Matching --------------------------------
(***************************************************************************)
(* Who is worth introducing to whom (src/graph/matching.js): a pure        *)
(* function of the observations it is given.                               *)
(*                                                                         *)
(* A row is what one observation says: its subject, a predicate, the words *)
(* of its object, the values of its attributes, the kind of source it came *)
(* from, the grade of a proposal, and whether it is a retraction.  The two *)
(* tokenizers of the code are one here: an object is its words.            *)
(* Confidence is in hundredths.                                            *)
(***************************************************************************)
EXTENDS Integers, FiniteSets, FiniteSetsExt

CONSTANT Artifacts    \* words that only name the intake: "resume", "intro"

\* Which intents answer which.
Complements ==
  [SEEKING     |-> {"OFFERING", "SELLING", "REFERRING"},
   HIRING      |-> {"SEEKING", "OFFERING", "REFERRING"},
   FUNDRAISING |-> {"INVESTING"},
   BUYING      |-> {"SELLING", "OFFERING"},
   SELLING     |-> {"BUYING", "SEEKING"},
   INVESTING   |-> {"FUNDRAISING"},
   OFFERING    |-> {"SEEKING", "HIRING", "BUYING"},
   PARTNERING  |-> {"PARTNERING"}]

IntentTypes ==
  DOMAIN Complements \cup {"DISCUSSING", "CONSIDERING", "INTRODUCING", "REFERRING"}

\* The roles a person may declare, and who answers the asking ones.
Roles == {"hiring", "seeking_employment", "seeking_funding", "funding_startups"}
AnsweredBy == [seeking_employment |-> "hiring", seeking_funding |-> "funding_startups"]
SeekingRoles == DOMAIN AnsweredBy

\* Which kind of graded proposal speaks for which side, and answers which ask.
Families == {"hire_for", "invest_in"}
Family ==
  [seeking_employment |-> "hire_for", seeking_funding |-> "invest_in",
   SEEKING |-> "hire_for", OFFERING |-> "hire_for", FUNDRAISING |-> "invest_in"]
AskFamily == [HIRING |-> "hire_for", INVESTING |-> "invest_in"]

GradeWeight == [good |-> 5, strong |-> 10, exceptional |-> 15]
GradeConfidence == [good |-> 55, strong |-> 65, exceptional |-> 75]

Threshold == 50
Capped(limit, n) == Min({limit, n})

\* Nothing but intake: every word of it names the transaction with Yente.
IsIntakeArtifact(words) == words # {} /\ words \subseteq Artifacts
-------------------------------------------------------------------------------
(* What a person's documents can vouch for.                                *)

DocumentKinds == {"attachment", "link", "vendor"}

DocumentFacts(rows, s) ==
  {r \in rows : /\ r.subject = s /\ r.source \in DocumentKinds
                /\ r.predicate \notin IntentTypes /\ ~r.retracted}

Vocabulary(rows, s) ==
  UNION {r.object \cup r.attributes : r \in DocumentFacts(rows, s)}

GradedProposals(rows, s) ==
  {r \in rows : r.subject = s /\ r.predicate \in Families /\ ~r.retracted}

\* The first proposal, in the order the store returns them, whose target
\* touches what the other side wants; a side that wants nothing is touched.
Support(rows, s, asks, wants) ==
  LET apt == {r \in GradedProposals(rows, s) :
                /\ asks \in DOMAIN Family /\ r.predicate = Family[asks]
                /\ r.object \cap wants # {} \/ wants = {}}
  IN IF apt = {} THEN 0 ELSE GradeWeight[(CHOOSE r \in apt : TRUE).grade]
-------------------------------------------------------------------------------
(* The three arms.                                                         *)

Proposal(seeker, offerer, type, confidence) ==
  [seeker |-> seeker, offerer |-> offerer, type |-> type, confidence |-> confidence]

\* What two intents share: words, values, or words the offerer's documents
\* vouch for.
Shared(a, b, rows) ==
  (a.object \cap b.object) \cup (a.attributes \cap b.attributes)
    \cup (a.object \cap Vocabulary(rows, b.subject))

\* What a pair that may be scored is worth.
Score(a, b, rows) ==
  LET mentions == Cardinality(a.object \cap b.object)
      agree == Cardinality(a.attributes \cap b.attributes)
      backed == Cardinality(a.object \cap Vocabulary(rows, b.subject))
      endorsed == IF Shared(a, b, rows) = {} THEN 0
                  ELSE Support(rows, a.subject, a.predicate, b.object)
  IN Capped(100, 40 + Capped(30, 10 * mentions) + Capped(30, 15 * agree)
                   + Capped(20, 7 * backed) + endorsed)

Answers(a, b) == a.predicate \in DOMAIN Complements /\ b.predicate \in Complements[a.predicate]

\* Slip: the intake is scored like business.
ScoreWithIntake(a, b, rows) == IF Answers(a, b) THEN Score(a, b, rows) ELSE 0

\* One directed pair of intents; 0 when it is refused before it is scored.
ScorePair(a, b, rows) ==
  IF ~IsIntakeArtifact(a.object) /\ ~IsIntakeArtifact(b.object) /\ Answers(a, b)
  THEN Score(a, b, rows) ELSE 0

\* Mined from prose.  Retracted rows are not left out.
FromIntents(rows) ==
  LET intents == {r \in rows : r.predicate \in IntentTypes}
      pairs == {p \in intents \X intents :
                  /\ p[1].subject # p[2].subject
                  /\ ScorePair(p[1], p[2], rows) >= Threshold}
  IN {Proposal(p[1].subject, p[2].subject, <<p[1].predicate, p[2].predicate>>,
               ScorePair(p[1], p[2], rows)) : p \in pairs}

\* What people declared: the asking side of a pair of roles is the seeker, and
\* the documents of both only rank it.
FromRoles(rows) ==
  LET declared == {r \in rows : r.predicate \in Roles /\ ~r.retracted}
      pairs == {p \in declared \X declared :
                  /\ p[1].subject # p[2].subject
                  /\ p[1].predicate \in SeekingRoles
                  /\ p[2].predicate = AnsweredBy[p[1].predicate]}
      Warmth(s, o, role) ==
        LET both == Cardinality(Vocabulary(rows, s) \cap Vocabulary(rows, o))
        IN Capped(100, 70 + Capped(30, 6 * both)
                          + Support(rows, s, role, Vocabulary(rows, o)))
  IN {Proposal(p[1].subject, p[2].subject, <<p[1].predicate, p[2].predicate>>,
               Warmth(p[1].subject, p[2].subject, p[1].predicate)) : p \in pairs}

\* A graded candidate answers a live ask; the best grade speaks.
ProposalAnswers(rows) ==
  LET asks == {r \in rows : /\ r.predicate \in DOMAIN AskFamily /\ ~r.retracted
                            /\ r.object # {} /\ ~IsIntakeArtifact(r.object)}
      Answering(ask, s) ==
        {r \in GradedProposals(rows, s) :
           r.predicate = AskFamily[ask.predicate] /\ r.object \cap ask.object # {}}
      Confidence(ask, r) ==
        Capped(100, GradeConfidence[r.grade]
                      + Capped(10, 5 * (Cardinality(r.object \cap ask.object) - 1)))
      pairs == {p \in asks \X {r.subject : r \in rows} :
                  p[2] # p[1].subject /\ Answering(p[1], p[2]) # {}}
  IN {Proposal(p[1].subject, p[2], <<p[1].predicate, AskFamily[p[1].predicate]>>,
               Max({Confidence(p[1], r) : r \in Answering(p[1], p[2])})) : p \in pairs}

\* Best first, one proposal for each ordered pair.
ProposeIntroductions(rows) ==
  LET all == FromRoles(rows) \cup ProposalAnswers(rows) \cup FromIntents(rows)
      Best(S) == CHOOSE p \in S : \A q \in S : q.confidence =< p.confidence
  IN {Best({p \in all : <<p.seeker, p.offerer>> = pair}) :
        pair \in {<<p.seeker, p.offerer>> : p \in all}}
===============================================================================
