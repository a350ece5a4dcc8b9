------------------------------ MODULE CuratingProofs ------------------------------
(***************************************************************************)
(* Proofs about the review queue, Curating: for any subjects, claims,      *)
(* limits and levers, any number of moves, bridges and restarts, nobody    *)
(* has more live introductions than the limit, nothing thin is queued, no  *)
(* ruling is taken back by a scan, and no robot moves who said no.         *)
(***************************************************************************)
EXTENDS Curating, TLAPS, FiniteSetTheorems, FunctionTheorems, WellFoundedInduction

-------------------------------------------------------------------------------
(***************************************************************************)
(* Numbers and finite sets.                                                *)
(***************************************************************************)

LEMMA MinOfTwo ==
  ASSUME NEW a \in Int, NEW b \in Int
  PROVE Min({a, b}) \in {a, b} /\ Min({a, b}) =< a /\ Min({a, b}) =< b
<1>1. \E x \in {a, b} : \A y \in {a, b} : x =< y
  <2>1. CASE a =< b
    BY <2>1
  <2>2. CASE b =< a
    BY <2>2
  <2>. QED BY <2>1, <2>2
<1>. QED BY <1>1 DEF Min

LEMMA CappedBounds ==
  ASSUME NEW limit \in Int, NEW n \in Int
  PROVE Capped(limit, n) \in {limit, n} /\ Capped(limit, n) =< limit /\ Capped(limit, n) =< n
  BY MinOfTwo DEF Capped

\* Values that are bounded have a greatest one, in an infinite set too.
LEMMA Greatest ==
  ASSUME NEW S, S # {}, NEW f, \A x \in S : f[x] \in 0 .. 100
  PROVE \E x \in S : \A y \in S : f[y] =< f[x]
<1> DEFINE T == {n \in Nat : \E x \in S : f[x] = 100 - n}
<1>1. \A x \in S : 100 - f[x] \in T
  <2>. TAKE x \in S
  <2>1. 100 - f[x] \in Nat /\ f[x] = 100 - (100 - f[x])
    OBVIOUS
  <2>. QED BY <2>1
<1>2. T \subseteq Nat /\ T # {}
  BY <1>1
<1>3. PICK n \in T : \A m \in T : ~(<<m, n>> \in OpToRel(<, Nat))
  BY <1>2, WFMin, NatLessThanWellFounded
<1>4. \A m \in T : n =< m
  <2>. TAKE m \in T
  <2>1. m \in Nat /\ n \in Nat
    BY <1>2
  <2>2. ~(m < n)
    BY <1>3, <2>1, Zenon DEF OpToRel
  <2>. QED BY <2>1, <2>2
<1>5. PICK x \in S : f[x] = 100 - n
  BY <1>3
<1>6. \A y \in S : f[y] =< f[x]
  <2>. TAKE y \in S
  <2>1. n =< 100 - f[y]
    BY <1>1, <1>4
  <2>2. f[y] \in Int /\ n \in Int
    BY <1>2
  <2>. QED BY <1>5, <2>1, <2>2
<1>. QED BY <1>6

LEMMA MaxIsOne ==
  ASSUME NEW S \in SUBSET (0 .. 100), S # {}
  PROVE Max(S) \in S
<1> DEFINE f == [x \in S |-> x]
<1>1. \A x \in S : f[x] = x /\ f[x] \in 0 .. 100
  OBVIOUS
<1>2. \E x \in S : \A y \in S : f[y] =< f[x]
  <2> HIDE DEF f
  <2>. QED BY <1>1, Greatest
<1>3. \E x \in S : \A y \in S : x >= y
  BY <1>1, <1>2
<1>. QED BY <1>3 DEF Max

LEMMA ImageIsFinite ==
  ASSUME NEW S, IsFiniteSet(S), NEW f
  PROVE IsFiniteSet({f[x] : x \in S})
<1> DEFINE T == {f[x] : x \in S}
           g == [x \in S |-> f[x]]
<1>1. g \in Surjection(S, T)
  BY Fun_IsSurj
<1>. QED BY <1>1, FS_Surjection

-------------------------------------------------------------------------------
(***************************************************************************)
(* What may be in the graph.                                               *)
(***************************************************************************)

\* The claims a reading may find, and what the operator may take back of them.
Landable == Claims \cup {Retraction(c) : c \in Claims}

Predicates == {c.predicate : c \in Claims}

IsRow(r) ==
  /\ r.subject \in Subjects /\ r.predicate \in Predicates
  /\ r.grade \in DOMAIN GradeWeight
  /\ IsFiniteSet(r.object) /\ IsFiniteSet(r.attributes)

LEMMA RowShape ==
  ASSUME NEW r \in Landable
  PROVE IsRow(r)
<1>1. CASE r \in Claims
  BY <1>1, CuratingAssumption DEF IsClaim, IsRow, Predicates
<1>2. ASSUME NEW c \in Claims, r = Retraction(c) PROVE IsRow(r)
  <2>1. IsClaim(c)
    BY CuratingAssumption
  <2>2. "good" \in DOMAIN GradeWeight
    BY DEF GradeWeight
  <2>. QED BY <1>2, <2>1, <2>2, FS_EmptySet
       DEF Retraction, IsClaim, IsRow, Predicates
<1>. QED BY <1>1, <1>2 DEF Landable

LEMMA LandableIsFinite == IsFiniteSet(Landable)
<1> DEFINE f == [c \in Claims |-> Retraction(c)]
<1>1. IsFiniteSet(Claims)
  BY CuratingAssumption
<1>2. {Retraction(c) : c \in Claims} = {f[c] : c \in Claims}
  OBVIOUS
<1>3. IsFiniteSet({Retraction(c) : c \in Claims})
  <2> HIDE DEF f
  <2>. QED BY <1>1, <1>2, ImageIsFinite
<1>. QED BY <1>1, <1>3, FS_Union DEF Landable

\* The keys a match may have are finitely many.
Types == {<<"curated">>} \cup (Predicates \X Predicates)
Keys == {[seeker |-> t[1], offerer |-> t[2], type |-> t[3]] : t \in Subjects \X Subjects \X Types}

LEMMA KeysAreFinite == IsFiniteSet(Keys)
<1> DEFINE f == [c \in Claims |-> c.predicate]
           T == Subjects \X Subjects \X Types
           g == [t \in T |-> [seeker |-> t[1], offerer |-> t[2], type |-> t[3]]]
<1>1. IsFiniteSet(Predicates)
  <2>1. Predicates = {f[c] : c \in Claims} /\ IsFiniteSet(Claims)
    BY CuratingAssumption DEF Predicates
  <2> HIDE DEF f
  <2>. QED BY <2>1, ImageIsFinite
<1>2. IsFiniteSet(Types)
  BY <1>1, FS_Product, FS_Singleton, FS_Union DEF Types
<1>3. IsFiniteSet(T)
  <2> DEFINE pairs == Subjects \X Types
             h == [u \in Subjects \X pairs |-> <<u[1], u[2][1], u[2][2]>>]
  <2>1. IsFiniteSet(Subjects \X pairs)
    BY <1>2, CuratingAssumption, FS_Product
  <2>2. IsFiniteSet({h[u] : u \in Subjects \X pairs})
    <3> HIDE DEF h, pairs
    <3>. QED BY <2>1, ImageIsFinite
  <2>3. T \subseteq {h[u] : u \in Subjects \X pairs}
    <3> SUFFICES ASSUME NEW t \in T PROVE \E u \in Subjects \X pairs : t = h[u]
      OBVIOUS
    <3>1. <<t[1], <<t[2], t[3]>>>> \in Subjects \X pairs
      OBVIOUS
    <3>2. h[<<t[1], <<t[2], t[3]>>>>] = <<t[1], t[2], t[3]>>
      BY <3>1
    <3>. QED BY <3>1, <3>2
  <2>. QED BY <2>2, <2>3, FS_Subset
<1>4. Keys = {g[t] : t \in T}
  BY DEF Keys
<1>. HIDE DEF g, T
<1>. QED BY <1>3, <1>4, ImageIsFinite
-------------------------------------------------------------------------------
(***************************************************************************)
(* What matching makes of a graph.                                         *)
(***************************************************************************)

LEMMA VocabularyIsFinite ==
  ASSUME NEW rows \in SUBSET Landable, NEW s
  PROVE IsFiniteSet(Vocabulary(rows, s))
<1> DEFINE facts == DocumentFacts(rows, s)
           f == [r \in facts |-> r.object \cup r.attributes]
           words == {f[r] : r \in facts}
<1>1. facts \subseteq Landable
  BY DEF DocumentFacts
<1>2. IsFiniteSet(facts)
  BY <1>1, LandableIsFinite, FS_Subset
<1>3. \A r \in facts : IsFiniteSet(r.object \cup r.attributes)
  BY <1>1, RowShape, FS_Union DEF IsRow
<1>4. \A w \in words : IsFiniteSet(w)
  BY <1>3
<1>5. Vocabulary(rows, s) = UNION words
  BY DEF Vocabulary
<1>6. IsFiniteSet(words)
  <2> HIDE DEF f, facts
  <2>. QED BY <1>2, ImageIsFinite
<1>. HIDE DEF words
<1>. QED BY <1>4, <1>5, <1>6, FS_UNION

LEMMA SupportRange ==
  ASSUME NEW rows \in SUBSET Landable, NEW s, NEW asks, NEW wants
  PROVE Support(rows, s, asks, wants) \in 0 .. 15
<1> DEFINE apt == {r \in GradedProposals(rows, s) :
                     /\ asks \in DOMAIN Family /\ r.predicate = Family[asks]
                     /\ r.object \cap wants # {} \/ wants = {}}
<1>1. CASE apt = {}
  BY <1>1 DEF Support
<1>2. CASE apt # {}
  <2>1. (CHOOSE r \in apt : TRUE) \in Landable
    BY <1>2 DEF GradedProposals
  <2>2. (CHOOSE r \in apt : TRUE).grade \in DOMAIN GradeWeight
    BY <2>1, RowShape DEF IsRow
  <2>3. \A g \in DOMAIN GradeWeight : GradeWeight[g] \in 0 .. 15
    BY DEF GradeWeight
  <2>4. Support(rows, s, asks, wants) = GradeWeight[(CHOOSE r \in apt : TRUE).grade]
    BY <1>2 DEF Support
  <2> HIDE DEF apt
  <2>. QED BY <2>2, <2>3, <2>4
<1>. QED BY <1>1, <1>2

\* A pair that shares nothing is worth 40 of 100, short of the threshold.
LEMMA ScoreRange ==
  ASSUME NEW rows \in SUBSET Landable, NEW a \in Landable, NEW b \in Landable
  PROVE /\ Score(a, b, rows) \in 0 .. 100
        /\ Score(a, b, rows) >= Threshold => Shared(a, b, rows) # {}
<1> DEFINE mentions == Cardinality(a.object \cap b.object)
           agree == Cardinality(a.attributes \cap b.attributes)
           backed == Cardinality(a.object \cap Vocabulary(rows, b.subject))
           endorsed == IF Shared(a, b, rows) = {} THEN 0
                       ELSE Support(rows, a.subject, a.predicate, b.object)
           m == Capped(30, 10 * mentions)
           g == Capped(30, 15 * agree)
           d == Capped(20, 7 * backed)
<1>1. mentions \in Nat /\ agree \in Nat /\ backed \in Nat
  BY RowShape, FS_Intersection, FS_CardinalityType DEF IsRow
<1>2. endorsed \in 0 .. 15
  BY SupportRange
<1>3. Shared(a, b, rows) = {} =>
        mentions = 0 /\ agree = 0 /\ backed = 0 /\ endorsed = 0
  <2>1. Shared(a, b, rows) = {} =>
          /\ a.object \cap b.object = {} /\ a.attributes \cap b.attributes = {}
          /\ a.object \cap Vocabulary(rows, b.subject) = {}
    BY DEF Shared
  <2>. QED BY <2>1, FS_EmptySet
<1>4. Score(a, b, rows) = Capped(100, 40 + m + g + d + endorsed)
  BY DEF Score
<1> HIDE DEF mentions, agree, backed, endorsed
<1>5. m \in 0 .. 30 /\ m =< 10 * mentions
  BY <1>1, CappedBounds
<1>6. g \in 0 .. 30 /\ g =< 15 * agree
  BY <1>1, CappedBounds
<1>7. d \in 0 .. 20 /\ d =< 7 * backed
  BY <1>1, CappedBounds
<1> HIDE DEF m, g, d
<1>8. 40 + m + g + d + endorsed \in Nat
  BY <1>2, <1>5, <1>6, <1>7
<1> DEFINE total == 40 + m + g + d + endorsed
<1>9. /\ Capped(100, total) \in {100, total} /\ Capped(100, total) =< 100
      /\ Capped(100, total) =< total
  <2> HIDE DEF total
  <2>. QED BY <1>8, CappedBounds DEF total
<1>10. Score(a, b, rows) \in 0 .. 100
  BY <1>4, <1>8, <1>9
<1>11. Shared(a, b, rows) = {} => total =< 40
  BY <1>1, <1>2, <1>3, <1>5, <1>6, <1>7
<1>. QED BY <1>4, <1>8, <1>9, <1>10, <1>11 DEF Threshold

\* What a proposal rests on, in the words of QueueIsSubstantial.
Rests(k, rows) ==
  \E a, b \in rows :
    /\ a.subject = k.seeker /\ b.subject = k.offerer
    /\ <<a.predicate, b.predicate>> = k.type
    /\ \/ a.predicate \in SeekingRoles /\ b.predicate = AnsweredBy[a.predicate]
       \/ /\ ~IsIntakeArtifact(a.object)
          /\ b.predicate \in Families \/ ~IsIntakeArtifact(b.object)
          /\ Shared(a, b, rows) # {}

Sound(p, rows) ==
  p.confidence \in 0 .. 100 /\ p.seeker # p.offerer /\ Rests(p, rows)

LEMMA IntentsAreSound ==
  ASSUME NEW rows \in SUBSET Landable, NEW p \in FromIntents(rows)
  PROVE Sound(p, rows)
<1>1. PICK a \in rows, b \in rows :
        /\ a.subject # b.subject /\ ScorePair(a, b, rows) >= Threshold
        /\ p = Proposal(a.subject, b.subject, <<a.predicate, b.predicate>>,
                        ScorePair(a, b, rows))
  BY DEF FromIntents
<1>2. /\ ~IsIntakeArtifact(a.object) /\ ~IsIntakeArtifact(b.object)
      /\ ScorePair(a, b, rows) = Score(a, b, rows)
  BY <1>1 DEF ScorePair, Threshold
<1>3. Score(a, b, rows) \in 0 .. 100 /\ Shared(a, b, rows) # {}
  BY <1>1, <1>2, ScoreRange
<1>4. /\ p.seeker = a.subject /\ p.offerer = b.subject
      /\ p.type = <<a.predicate, b.predicate>> /\ p.confidence = Score(a, b, rows)
  BY <1>1, <1>2 DEF Proposal
<1>5. Rests(p, rows)
  BY <1>2, <1>3, <1>4 DEF Rests
<1>. QED BY <1>1, <1>3, <1>4, <1>5 DEF Sound

LEMMA RolesAreSound ==
  ASSUME NEW rows \in SUBSET Landable, NEW p \in FromRoles(rows)
  PROVE Sound(p, rows)
<1> DEFINE Both(s, o) == Cardinality(Vocabulary(rows, s) \cap Vocabulary(rows, o))
           Warmth(s, o, role) ==
             Capped(100, 70 + Capped(30, 6 * Both(s, o))
                            + Support(rows, s, role, Vocabulary(rows, o)))
<1>1. PICK a \in rows, b \in rows :
        /\ a.subject # b.subject
        /\ a.predicate \in SeekingRoles /\ b.predicate = AnsweredBy[a.predicate]
        /\ p = Proposal(a.subject, b.subject, <<a.predicate, b.predicate>>,
                        Warmth(a.subject, b.subject, a.predicate))
  BY DEF FromRoles
<1>2. ASSUME NEW s, NEW o, NEW role PROVE Warmth(s, o, role) \in 0 .. 100
  <2> DEFINE n == 6 * Both(s, o)
             e == Support(rows, s, role, Vocabulary(rows, o))
             t == 70 + Capped(30, n) + e
  <2>1. Both(s, o) \in Nat
    BY VocabularyIsFinite, FS_Intersection, FS_CardinalityType
  <2>2. e \in 0 .. 15
    BY SupportRange
  <2> HIDE DEF e
  <2>3. n \in Nat
    BY <2>1
  <2> HIDE DEF n
  <2>4. Capped(30, n) \in 0 .. 30
    BY <2>3, CappedBounds
  <2>5. t \in Nat
    BY <2>2, <2>4
  <2> HIDE DEF t
  <2>6. Capped(100, t) \in 0 .. 100
    <3>1. Capped(100, t) \in {100, t} /\ Capped(100, t) =< 100
      BY <2>5, CappedBounds
    <3>. QED BY <2>5, <3>1
  <2>. QED BY <2>6 DEF t, n, e
<1>3. /\ p.seeker = a.subject /\ p.offerer = b.subject
      /\ p.type = <<a.predicate, b.predicate>>
      /\ p.confidence = Warmth(a.subject, b.subject, a.predicate)
  BY <1>1 DEF Proposal
<1>4. Rests(p, rows)
  BY <1>1, <1>3 DEF Rests
<1> HIDE DEF Warmth
<1>. QED BY <1>1, <1>2, <1>3, <1>4 DEF Sound

LEMMA AnswersAreSound ==
  ASSUME NEW rows \in SUBSET Landable, NEW p \in ProposalAnswers(rows)
  PROVE Sound(p, rows)
<1> DEFINE Answering(ask, s) ==
             {r \in GradedProposals(rows, s) :
                r.predicate = AskFamily[ask.predicate] /\ r.object \cap ask.object # {}}
           Confidence(ask, r) ==
             Capped(100, GradeConfidence[r.grade]
                           + Capped(10, 5 * (Cardinality(r.object \cap ask.object) - 1)))
           Grades(ask, s) == {Confidence(ask, r) : r \in Answering(ask, s)}
<1>1. PICK a \in rows, s \in {r.subject : r \in rows} :
        /\ s # a.subject /\ Answering(a, s) # {} /\ ~IsIntakeArtifact(a.object)
        /\ p = Proposal(a.subject, s, <<a.predicate, AskFamily[a.predicate]>>,
                        Max(Grades(a, s)))
  BY DEF ProposalAnswers
<1>2. PICK b \in Answering(a, s) : TRUE
  BY <1>1
<1>3. /\ b \in rows /\ b.subject = s /\ b.predicate \in Families
      /\ b.predicate = AskFamily[a.predicate] /\ b.object \cap a.object # {}
  BY DEF GradedProposals
<1>4. Shared(a, b, rows) # {}
  BY <1>3 DEF Shared
<1>5. ASSUME NEW r \in Answering(a, s) PROVE Confidence(a, r) \in 0 .. 100
  <2> DEFINE n == 5 * (Cardinality(r.object \cap a.object) - 1)
             g == GradeConfidence[r.grade]
             t == g + Capped(10, n)
  <2>1. r \in Landable
    BY DEF GradedProposals
  <2>2. IsFiniteSet(r.object) /\ r.grade \in DOMAIN GradeWeight
    BY <2>1, RowShape DEF IsRow
  <2>3. Cardinality(r.object \cap a.object) \in Nat
    BY <2>2, FS_Intersection, FS_CardinalityType
  <2>4. g \in 55 .. 75
    BY <2>2 DEF GradeWeight, GradeConfidence
  <2>5. n \in Int /\ n >= -5
    BY <2>3
  <2> HIDE DEF n, g
  <2>6. Capped(10, n) \in -5 .. 10
    BY <2>5, CappedBounds
  <2>7. t \in Nat
    BY <2>4, <2>6
  <2> HIDE DEF t
  <2>8. Capped(100, t) \in 0 .. 100
    <3>1. Capped(100, t) \in {100, t} /\ Capped(100, t) =< 100
      BY <2>7, CappedBounds
    <3>. QED BY <2>7, <3>1
  <2>. QED BY <2>8 DEF t, n, g
<1>6. Max(Grades(a, s)) \in 0 .. 100
  <2>1. Grades(a, s) \subseteq 0 .. 100 /\ Grades(a, s) # {}
    <3> HIDE DEF Confidence, Answering
    <3>. QED BY <1>2, <1>5
  <2> HIDE DEF Grades
  <2>. QED BY <2>1, MaxIsOne
<1>7. /\ p.seeker = a.subject /\ p.offerer = s
      /\ p.type = <<a.predicate, AskFamily[a.predicate]>> /\ p.confidence = Max(Grades(a, s))
  BY <1>1 DEF Proposal
<1> HIDE DEF Grades, Answering
<1>8. Rests(p, rows)
  BY <1>1, <1>3, <1>4, <1>7 DEF Rests
<1>. QED BY <1>1, <1>6, <1>7, <1>8 DEF Sound

\* What is proposed for a pair is the best there is for it, and there is one.
LEMMA ProposedAreSound ==
  ASSUME NEW rows \in SUBSET Landable, NEW p \in ProposeIntroductions(rows)
  PROVE Sound(p, rows)
<1> DEFINE all == FromRoles(rows) \cup ProposalAnswers(rows) \cup FromIntents(rows)
           Of(pair) == {q \in all : <<q.seeker, q.offerer>> = pair}
           Best(S) == CHOOSE q \in S : \A r \in S : r.confidence =< q.confidence
<1>1. \A q \in all : Sound(q, rows)
  BY IntentsAreSound, RolesAreSound, AnswersAreSound
<1>2. PICK pair \in {<<q.seeker, q.offerer>> : q \in all} : p = Best(Of(pair))
  BY DEF ProposeIntroductions
<1>3. Of(pair) # {}
  BY <1>2
<1>4. \E q \in Of(pair) : \A r \in Of(pair) : r.confidence =< q.confidence
  <2> DEFINE S == Of(pair)
             f == [q \in S |-> q.confidence]
  <2>1. \A q \in S : f[q] = q.confidence /\ f[q] \in 0 .. 100
    BY <1>1 DEF Sound
  <2>2. \E q \in S : \A r \in S : f[r] =< f[q]
    <3> HIDE DEF f, S
    <3>1. S # {}
      BY <1>3 DEF S
    <3>. QED BY <2>1, <3>1, Greatest
  <2> HIDE DEF f
  <2>. QED BY <2>1, <2>2
<1>5. p \in Of(pair)
  <2> HIDE DEF Of
  <2>. QED BY <1>2, <1>4
<1>. QED BY <1>1, <1>5

\* What a proposal rests on is there whatever else lands.
LEMMA RestsStands ==
  ASSUME NEW more, NEW rows \in SUBSET more, NEW k, Rests(k, rows)
  PROVE Rests(k, more)
<1>1. \A s : Vocabulary(rows, s) \subseteq Vocabulary(more, s)
  BY DEF Vocabulary, DocumentFacts
<1>2. \A a, b : Shared(a, b, rows) \subseteq Shared(a, b, more)
  BY <1>1 DEF Shared
<1>. QED BY <1>2 DEF Rests

-------------------------------------------------------------------------------
(***************************************************************************)
(* The inductive invariant.                                                *)
(***************************************************************************)

GraphInv == graph \subseteq Landable

StateRows == [state : States \ {"new"}, authority : {USER_CORRECTION, DETERMINISTIC},
              retracted : BOOLEAN]

LivesInv == lifecycle \in [Subjects -> Seq(StateRows)]

PeopleInv ==
  /\ excluded \subseteq Subjects /\ members \subseteq Mailed
  /\ same \cup different \subseteq Subjects \X Subjects

MatchStates == LiveStates \cup Decided \cup {"PROPOSED"}
MatchRows == [state : MatchStates, origin : {"scorer", "human"}]

\* Matches have keys out of a finite set, which is why they can be counted.
MatchesInv ==
  /\ DOMAIN matches \subseteq Keys
  /\ \A k \in DOMAIN matches : k.seeker # k.offerer /\ matches[k] \in MatchRows

LoopInv ==
  /\ loop \in {"awake", "draining", "asleep", "down"}
  /\ pending \in BOOLEAN /\ owed \in BOOLEAN /\ unseen \in BOOLEAN
  /\ count \in [moves : Nat, bridges : Nat, restarts : Nat, thrown : BOOLEAN]

IInv ==
  /\ GraphInv /\ LivesInv /\ PeopleInv /\ MatchesInv /\ LoopInv
  /\ NeverMoreThanFive /\ QueueIsSubstantial

LEMMA InitIInv == Init => IInv
<1> SUFFICES ASSUME Init PROVE IInv
  OBVIOUS
<1>1. GraphInv /\ PeopleInv
  BY DEF Init, GraphInv, PeopleInv
<1>2. LivesInv
  <2>1. <<>> \in Seq(StateRows)
    OBVIOUS
  <2>. QED BY <2>1 DEF Init, LivesInv
<1>3. DOMAIN matches = {}
  BY DEF Init
<1>4. MatchesInv /\ QueueIsSubstantial
  BY <1>3 DEF MatchesInv, QueueIsSubstantial
<1>5. LoopInv
  BY DEF Init, LoopInv
<1>6. NeverMoreThanFive
  <2>1. \A s \in Subjects : Live(s) = {}
    BY <1>3 DEF Live
  <2>. QED BY <2>1, FS_EmptySet, CuratingAssumption DEF NeverMoreThanFive
<1>. QED BY <1>1, <1>2, <1>4, <1>5, <1>6 DEF IInv

-------------------------------------------------------------------------------
(***************************************************************************)
(* What a step does to the graph, to a life and to the matches.            *)
(***************************************************************************)

\* Claims land and are retracted; nothing leaves the graph.
LEMMA GraphGrows ==
  ASSUME GraphInv, [Next]_vars
  PROVE graph \subseteq graph' /\ GraphInv'
<1>1. CASE \E claims \in Readings : Land(claims)
  <2>1. PICK claims \in Readings : graph' = graph \cup claims
    BY <1>1 DEF Land
  <2>2. claims \subseteq Landable
    BY DEF Landable, Claims
  <2>. QED BY <2>1, <2>2 DEF GraphInv
<1>2. CASE \E c \in graph : c.subject \in Curated /\ WrongClaim(c)
  <2>1. PICK c \in graph : ~c.retracted /\ graph' = graph \cup {Retraction(c)}
    BY <1>2 DEF WrongClaim
  <2>2. \A d \in Claims : Retraction(d).retracted
    BY DEF Retraction
  <2>3. c \in Claims
    BY <2>1, <2>2 DEF GraphInv, Landable
  <2>4. Retraction(c) \in Landable
    BY <2>3 DEF Landable
  <2>. QED BY <2>1, <2>4 DEF GraphInv
<1>3. CASE UNCHANGED graph
  BY <1>3 DEF GraphInv
<1>4. \/ \E claims \in Readings : Land(claims)
      \/ \E c \in graph : c.subject \in Curated /\ WrongClaim(c)
      \/ UNCHANGED graph
  BY DEF Next, vars, store, DrainEnds, Scan, FallAsleep, TimeToLook, Operator, PartiesAnswer,
         Bridge, Restart, SetState, WrongState, ExcludeSubject, SamePerson, DifferentPeople,
         CreateMatch, ConfirmMatch, RejectMatch
<1>. QED BY <1>1, <1>2, <1>3, <1>4

\* A hop of the walk adds a row, or none.
LEMMA MovedKeeps ==
  ASSUME NEW rows \in Seq(StateRows), NEW legal \in BOOLEAN, NEW state \in States \ {"new"}, NEW by
  PROVE LET walk == Moved([rows |-> rows, legal |-> legal], state, by)
        IN /\ walk.rows \in Seq(StateRows) /\ walk.legal \in BOOLEAN
           /\ walk = [rows |-> walk.rows, legal |-> walk.legal]
<1> DEFINE start == [rows |-> rows, legal |-> legal]
           row == [state |-> state, retracted |-> FALSE,
                   authority |-> IF state = "qualified" \/ by = "yente:auto"
                                 THEN USER_CORRECTION ELSE DETERMINISTIC]
           current == StateOf(rows)
           walk == Moved(start, state, by)
<1>1. row \in StateRows
  BY DEF StateRows
<1>2. Recorded(rows, row) \in Seq(StateRows)
  <2> HIDE DEF row
  <2>. QED BY <1>1 DEF Recorded
<1>3. /\ [start EXCEPT !.legal = FALSE] = [rows |-> rows, legal |-> FALSE]
      /\ [start EXCEPT !.rows = Recorded(@, row)] = [rows |-> Recorded(rows, row), legal |-> legal]
  <2>1. ASSUME NEW r, NEW l, NEW x
        PROVE [[rows |-> r, legal |-> l] EXCEPT !.rows = x] = [rows |-> x, legal |-> l]
    OBVIOUS
  <2>2. ASSUME NEW r, NEW l, NEW x
        PROVE [[rows |-> r, legal |-> l] EXCEPT !.legal = x] = [rows |-> r, legal |-> x]
    OBVIOUS
  <2>3. start.rows = rows
    OBVIOUS
  <2>4. [start EXCEPT !.legal = FALSE] = [rows |-> rows, legal |-> FALSE]
    BY <2>2
  <2> HIDE DEF row
  <2> DEFINE new == Recorded(rows, row)
  <2>5. [start EXCEPT !.rows = Recorded(@, row)] = [start EXCEPT !.rows = new]
    BY <2>3
  <2>6. [start EXCEPT !.rows = new] = [rows |-> new, legal |-> legal]
    <3> HIDE DEF new
    <3>. QED BY <2>1
  <2>. QED BY <2>4, <2>5, <2>6
<1>4. \/ walk = start
      \/ walk = [start EXCEPT !.legal = FALSE]
      \/ walk = [start EXCEPT !.rows = Recorded(@, row)]
  BY DEF Moved
<1> HIDE DEF row
<1>. QED BY <1>2, <1>3, <1>4

LEMMA HopKeeps ==
  ASSUME NEW walk, walk = [rows |-> walk.rows, legal |-> walk.legal],
         walk.rows \in Seq(StateRows), walk.legal \in BOOLEAN,
         NEW i \in 1 .. 4, NEW from, NEW by
  PROVE LET next == Hop(walk, i, from, by)
        IN /\ next = [rows |-> next.rows, legal |-> next.legal]
           /\ next.rows \in Seq(StateRows) /\ next.legal \in BOOLEAN
<1>1. Route[i] \in States \ {"new"}
  BY DEF Route, States
<1>2. CASE i > from
  <2>1. Hop(walk, i, from, by) = Moved([rows |-> walk.rows, legal |-> walk.legal], Route[i], by)
    BY <1>2 DEF Hop
  <2>. QED BY <1>1, <2>1, MovedKeeps
<1>3. CASE ~(i > from)
  BY <1>3 DEF Hop
<1>. QED BY <1>2, <1>3

LEMMA WalkKeeps ==
  ASSUME NEW rows \in Seq(StateRows), NEW by
  PROVE Walk(rows, by).rows \in Seq(StateRows)
<1> DEFINE from == HopsDone(StateOf(rows))
           start == [rows |-> rows, legal |-> TRUE]
           first == Hop(start, 1, from, by)
           second == Hop(first, 2, from, by)
           third == Hop(second, 3, from, by)
           last == Hop(third, 4, from, by)
           IsWalk(w) == /\ w = [rows |-> w.rows, legal |-> w.legal]
                        /\ w.rows \in Seq(StateRows) /\ w.legal \in BOOLEAN
<1>1. ASSUME NEW w, IsWalk(w), NEW i \in 1 .. 4 PROVE IsWalk(Hop(w, i, from, by))
  <2> HIDE DEF from
  <2>. QED BY <1>1, HopKeeps
<1>2. IsWalk(start)
  OBVIOUS
<1>3. Walk(rows, by) = last
  BY DEF Walk
<1> HIDE DEF IsWalk, from, start
<1>4. IsWalk(first)
  BY <1>1, <1>2
<1> HIDE DEF first
<1>5. IsWalk(second)
  BY <1>1, <1>4
<1> HIDE DEF second
<1>6. IsWalk(third)
  BY <1>1, <1>5
<1> HIDE DEF third
<1>7. IsWalk(last)
  BY <1>1, <1>6
<1>. QED BY <1>3, <1>7 DEF IsWalk

\* How a step may leave the life of s: as it was, walked by a robot from where
\* nobody has declined, or moved by the operator.
LifeMoves(s) ==
  \/ lifecycle'[s] = lifecycle[s]
  \/ State(s) # "declined" /\ \E by : lifecycle'[s] = Walk(lifecycle[s], by).rows
  \/ count'.moves > count.moves /\ lifecycle'[s] \in Seq(StateRows)

LEMMA OperatorCounts ==
  ASSUME LoopInv, Operates
  PROVE count'.moves > count.moves /\ LoopInv'
<1>1. /\ count.moves \in Nat /\ count' = [count EXCEPT !.moves = @ + 1]
      /\ count \in [moves : Nat, bridges : Nat, restarts : Nat, thrown : BOOLEAN]
  BY DEF LoopInv, Operates
<1>2. count'.moves = count.moves + 1
  BY <1>1
<1>3. count' \in [moves : Nat, bridges : Nat, restarts : Nat, thrown : BOOLEAN]
  BY <1>1
<1>. QED BY <1>1, <1>2, <1>3 DEF LoopInv, Operates

LEMMA LivesMove ==
  ASSUME LivesInv, LoopInv, Next
  PROVE /\ lifecycle' = [s \in Subjects |-> lifecycle'[s]]
        /\ \A s \in Subjects : LifeMoves(s)
<1>1. CASE Scan
  <2>1. CASE ScanWhole
    <3>1. lifecycle' = [s \in Subjects |-> IF Promotable(s) THEN Promoted(s).rows
                                           ELSE lifecycle[s]]
      BY <2>1 DEF ScanWhole
    <3>2. \A s \in Subjects : Promotable(s) => State(s) # "declined"
      BY DEF Promotable
    <3>. QED BY <3>1, <3>2 DEF LifeMoves, Promoted
  <2>2. CASE ScanThrows
    <3>1. PICK t \in Stuck, before \in SUBSET {s \in Subjects \ Stuck : Promotable(s)} :
            lifecycle' = [s \in Subjects |-> IF s \in before \cup {t} THEN Promoted(s).rows
                                             ELSE lifecycle[s]]
      BY <2>2 DEF ScanThrows
    <3>2. \A s \in before \cup {t} : State(s) # "declined"
      BY DEF Promotable, Stuck
    <3>. QED BY <3>1, <3>2 DEF LifeMoves, Promoted
  <2>. QED BY <1>1, <2>1, <2>2 DEF Scan
<1>2. CASE \E s \in Curated, state \in Levers : SetState(s, state)
  <2>1. PICK s \in Curated, state \in Levers : SetState(s, state)
    BY <1>2
  <2> DEFINE walk == Moved([rows |-> lifecycle[s], legal |-> TRUE], state, "operator")
  <2>2. s \in Subjects /\ state \in States \ {"new"} /\ lifecycle[s] \in Seq(StateRows)
    BY CuratingAssumption DEF LivesInv
  <2>3. walk.rows \in Seq(StateRows)
    BY <2>2, MovedKeeps
  <2>4. lifecycle' = [lifecycle EXCEPT ![s] = walk.rows] /\ Operates
    BY <2>1 DEF SetState
  <2> HIDE DEF walk
  <2>. QED BY <2>2, <2>3, <2>4, OperatorCounts DEF LifeMoves, LivesInv
<1>3. CASE \E s \in Curated : \E i \in DOMAIN lifecycle[s] :
             lifecycle[s][i].state \in Levers /\ WrongState(s, i)
  <2>1. PICK s \in Curated : \E i \in DOMAIN lifecycle[s] : WrongState(s, i)
    BY <1>3
  <2>2. PICK i \in DOMAIN lifecycle[s] : WrongState(s, i)
    BY <2>1
  <2> DEFINE row == [state |-> lifecycle[s][i].state, authority |-> USER_CORRECTION,
                     retracted |-> TRUE]
             rows == Append(lifecycle[s], row)
  <2>3. s \in Subjects /\ lifecycle[s] \in Seq(StateRows)
    BY CuratingAssumption DEF LivesInv
  <2>4. lifecycle[s][i] \in StateRows
    BY <2>3
  <2>5. row \in StateRows
    BY <2>4 DEF StateRows
  <2>6. lifecycle' = [lifecycle EXCEPT ![s] = rows] /\ Operates
    BY <2>2 DEF WrongState
  <2> HIDE DEF row
  <2>7. rows \in Seq(StateRows)
    BY <2>3, <2>5
  <2> HIDE DEF rows
  <2>. QED BY <2>3, <2>6, <2>7, OperatorCounts DEF LifeMoves, LivesInv
<1>4. CASE \E s \in Mailed : Bridge(s)
  <2>1. PICK s \in Mailed : Bridge(s)
    BY <1>4
  <2>2. \/ UNCHANGED lifecycle
        \/ /\ State(s) # "declined"
           /\ lifecycle' = [lifecycle EXCEPT ![s] = Walk(lifecycle[s], "desk").rows]
    BY <2>1 DEF Bridge
  <2>3. s \in Subjects
    BY CuratingAssumption
  <2>. QED BY <2>2, <2>3 DEF LifeMoves, LivesInv
<1>5. CASE Restart
  <2>1. PICK walked \in SUBSET Unbridged :
          lifecycle' = [s \in Subjects |-> IF s \in walked THEN Walk(lifecycle[s], "desk").rows
                                           ELSE lifecycle[s]]
    <3> DEFINE broken == {s \in Unbridged : ~Walk(lifecycle[s], "desk").legal}
    <3>1. \/ lifecycle' = [s \in Subjects |-> IF s \in Unbridged
                                              THEN Walk(lifecycle[s], "desk").rows
                                              ELSE lifecycle[s]]
          \/ \E t \in broken, before \in SUBSET (Unbridged \ broken) :
               lifecycle' = [s \in Subjects |-> IF s \in before \cup {t}
                                                THEN Walk(lifecycle[s], "desk").rows
                                                ELSE lifecycle[s]]
      BY <1>5 DEF Restart, Backfill
    <3>2. CASE lifecycle' = [s \in Subjects |-> IF s \in Unbridged
                                              THEN Walk(lifecycle[s], "desk").rows
                                              ELSE lifecycle[s]]
      BY <3>2
    <3>3. ASSUME NEW t \in broken, NEW before \in SUBSET (Unbridged \ broken),
                 lifecycle' = [s \in Subjects |-> IF s \in before \cup {t}
                                                THEN Walk(lifecycle[s], "desk").rows
                                                ELSE lifecycle[s]]
          PROVE \E walked \in SUBSET Unbridged :
                  lifecycle' = [s \in Subjects |-> IF s \in walked
                                                   THEN Walk(lifecycle[s], "desk").rows
                                                   ELSE lifecycle[s]]
      <4>1. before \cup {t} \in SUBSET Unbridged
        OBVIOUS
      <4>. QED BY <3>3, <4>1
    <3>. QED BY <3>1, <3>2, <3>3
  <2>2. \A s \in walked : State(s) # "declined"
    BY DEF Unbridged
  <2>. QED BY <2>1, <2>2 DEF LifeMoves
<1>6. CASE UNCHANGED lifecycle
  BY <1>6 DEF LifeMoves, LivesInv
<1>7. \/ Scan
      \/ \E s \in Curated, state \in Levers : SetState(s, state)
      \/ \E s \in Curated : \E i \in DOMAIN lifecycle[s] :
             lifecycle[s][i].state \in Levers /\ WrongState(s, i)
      \/ \E s \in Mailed : Bridge(s)
      \/ Restart
      \/ UNCHANGED lifecycle
  BY DEF Next, store, Land, DrainEnds, FallAsleep, TimeToLook, Operator, PartiesAnswer,
         WrongClaim, ExcludeSubject, SamePerson, DifferentPeople,
         CreateMatch, ConfirmMatch, RejectMatch
<1>. QED BY <1>1, <1>2, <1>3, <1>4, <1>5, <1>6, <1>7

LEMMA StepLives ==
  ASSUME LivesInv, LoopInv, Next
  PROVE LivesInv'
<1>1. \A s \in Subjects : lifecycle'[s] \in Seq(StateRows)
  <2>. TAKE s \in Subjects
  <2>1. lifecycle[s] \in Seq(StateRows)
    BY DEF LivesInv
  <2>. QED BY <2>1, LivesMove, WalkKeeps DEF LifeMoves
<1>. QED BY <1>1, LivesMove DEF LivesInv

\* A scan proposes keys that rest on the graph.
LEMMA ScanKeys ==
  ASSUME GraphInv, NEW visible \in SUBSET graph, NEW k \in {Key(p) : p \in ProposeIntroductions(visible)}
  PROVE k \in Keys /\ k.seeker # k.offerer /\ Rests(k, graph)
<1>1. PICK p \in ProposeIntroductions(visible) : k = Key(p)
  OBVIOUS
<1>2. visible \subseteq Landable
  BY DEF GraphInv
<1>3. p.seeker # p.offerer /\ Rests(p, visible)
  BY <1>2, ProposedAreSound DEF Sound
<1>4. /\ k = [seeker |-> p.seeker, offerer |-> p.offerer, type |-> p.type]
      /\ k.seeker = p.seeker /\ k.offerer = p.offerer /\ k.type = p.type
  BY <1>1 DEF Key
<1>5. Rests(k, visible)
  BY <1>3, <1>4 DEF Rests
<1>6. Rests(k, graph)
  BY <1>5, RestsStands
<1>7. p.seeker \in Subjects /\ p.offerer \in Subjects /\ p.type \in Types
  <2>1. PICK a \in visible, b \in visible :
          /\ a.subject = k.seeker /\ b.subject = k.offerer
          /\ <<a.predicate, b.predicate>> = k.type
    BY <1>5 DEF Rests
  <2>2. IsRow(a) /\ IsRow(b)
    BY <1>2, RowShape
  <2>. QED BY <1>4, <2>1, <2>2 DEF IsRow, Types
<1>8. k \in Keys
  <2>1. <<p.seeker, p.offerer, p.type>> \in Subjects \X Subjects \X Types
    BY <1>7
  <2>. QED BY <1>4, <2>1 DEF Keys
<1>. QED BY <1>3, <1>4, <1>6, <1>8

\* How a step may leave the matches: as they were, with proposals filed, or
\* with one of them moved on, by who has room for it if that makes it live, and
\* by the operator's hand if it was settled.
MayFile(keys, origin) ==
  /\ matches' = Proposed(matches, keys, origin)
  /\ keys \subseteq Keys /\ \A k \in keys : k.seeker # k.offerer
  /\ origin \in {"human", "scorer"}
  /\ origin = "scorer" => \A k \in keys : Rests(k, graph)

MayMove(k, state) ==
  /\ matches' = [matches EXCEPT ![k].state = state]
  /\ state \in MatchStates \ {"PROPOSED"}
  /\ state \in LiveStates => HasRoom(k) \/ matches[k].state \in LiveStates
  /\ matches[k].state \in {"INTRODUCED", "REJECTED"} => count'.moves > count.moves

MatchesMove ==
  \/ UNCHANGED matches
  \/ \E keys, origin : MayFile(keys, origin)
  \/ \E k \in DOMAIN matches, state \in MatchStates : MayMove(k, state)

LEMMA StepMatches ==
  ASSUME GraphInv, LoopInv, Next
  PROVE MatchesMove
<1>1. CASE Scan
  <2>1. CASE ScanThrows
    BY <2>1 DEF ScanThrows, MatchesMove
  <2>2. CASE ScanWhole
    <3>1. PICK visible \in SUBSET graph :
            matches' = Proposed(matches, {Key(p) : p \in ProposeIntroductions(visible)}, "scorer")
      <4> DEFINE lives == [s \in Subjects |-> IF Promotable(s) THEN Promoted(s).rows
                                              ELSE lifecycle[s]]
                 matchable == {s \in Subjects : IsMatchable(s, lives)}
                 visible == {r \in graph : r.subject \in matchable}
      <4>1. matches' = Proposed(matches, {Key(p) : p \in ProposeIntroductions(visible)}, "scorer")
        BY <2>2 DEF ScanWhole
      <4>2. visible \in SUBSET graph
        OBVIOUS
      <4> HIDE DEF visible
      <4>. QED BY <4>1, <4>2
    <3>2. MayFile({Key(p) : p \in ProposeIntroductions(visible)}, "scorer")
      <4> DEFINE keys == {Key(p) : p \in ProposeIntroductions(visible)}
      <4>1. \A k \in keys : k \in Keys /\ k.seeker # k.offerer /\ Rests(k, graph)
        BY ScanKeys
      <4>2. matches' = Proposed(matches, keys, "scorer")
        BY <3>1
      <4> HIDE DEF keys
      <4>3. MayFile(keys, "scorer")
        BY <4>1, <4>2 DEF MayFile
      <4>. QED BY <4>3 DEF keys
    <3>. QED BY <3>2 DEF MatchesMove
  <2>. QED BY <1>1, <2>1, <2>2 DEF Scan
<1>2. CASE \E a, b \in Curated : CreateMatch(a, b)
  <2>1. PICK a \in Curated, b \in Curated : CreateMatch(a, b)
    BY <1>2
  <2> DEFINE k == [seeker |-> a, offerer |-> b, type |-> <<"curated">>]
  <2>2. k \in Keys
    <3>1. <<a, b, <<"curated">>>> \in Subjects \X Subjects \X Types
      BY CuratingAssumption DEF Types
    <3>. QED BY <3>1 DEF Keys
  <2>3. k.seeker # k.offerer /\ matches' = Proposed(matches, {k}, "human")
    BY <2>1 DEF CreateMatch
  <2>4. MayFile({k}, "human")
    <3> HIDE DEF k
    <3>1. {k} \subseteq Keys /\ \A j \in {k} : j.seeker # j.offerer
      BY <2>2, <2>3
    <3>. QED BY <2>3, <3>1, Zenon DEF MayFile
  <2>. QED BY <2>4 DEF MatchesMove
<1>3. CASE \E k \in DOMAIN matches : ConfirmMatch(k) \/ RejectMatch(k) \/ PartiesAnswer(k)
  <2>1. PICK k \in DOMAIN matches : ConfirmMatch(k) \/ RejectMatch(k) \/ PartiesAnswer(k)
    BY <1>3
  <2>2. CASE ConfirmMatch(k)
    <3>1. HasRoom(k) /\ \E state \in LiveStates : matches' = [matches EXCEPT ![k].state = state]
      BY <2>2 DEF ConfirmMatch, LiveStates
    <3>2. count'.moves > count.moves
      BY <2>2, OperatorCounts DEF ConfirmMatch
    <3>. QED BY <3>1, <3>2 DEF MatchesMove, MayMove, MatchStates, LiveStates
  <2>3. CASE RejectMatch(k)
    <3>0. count'.moves > count.moves
      BY <2>3, OperatorCounts DEF RejectMatch
    <3>1. MayMove(k, "REJECTED") /\ "REJECTED" \in MatchStates
      BY <2>3, <3>0 DEF RejectMatch, MayMove, MatchStates, LiveStates, Decided
    <3>. QED BY <3>1 DEF MatchesMove
  <2>4. CASE PartiesAnswer(k)
    <3>1. /\ matches[k].state \in LiveStates
          /\ \E state \in {"CONFIRMED", "REJECTED", "INTRODUCED"} :
               matches' = [matches EXCEPT ![k].state = state]
      BY <2>4 DEF PartiesAnswer, LiveStates
    <3>. QED BY <3>1 DEF MatchesMove, MayMove, MatchStates, LiveStates, Decided
  <2>. QED BY <2>1, <2>2, <2>3, <2>4
<1>4. CASE UNCHANGED matches
  BY <1>4 DEF MatchesMove
<1>5. \/ Scan \/ \E a, b \in Curated : CreateMatch(a, b)
      \/ \E k \in DOMAIN matches : ConfirmMatch(k) \/ RejectMatch(k) \/ PartiesAnswer(k)
      \/ UNCHANGED matches
  BY DEF Next, store, Land, DrainEnds, FallAsleep, TimeToLook, Operator, Bridge, Restart,
         SetState, WrongState, WrongClaim, ExcludeSubject, SamePerson, DifferentPeople
<1>. QED BY <1>1, <1>2, <1>3, <1>4, <1>5

\* What is held keeps its row, unless it is a proposal still.
LEMMA FiledRows ==
  ASSUME MatchesInv, NEW keys, NEW origin, MayFile(keys, origin)
  PROVE /\ DOMAIN matches' = DOMAIN matches \cup keys
        /\ \A k \in DOMAIN matches' :
             \/ k \in DOMAIN matches /\ matches'[k] = matches[k]
             \/ /\ k \in keys /\ matches'[k] = [state |-> "PROPOSED", origin |-> origin]
                /\ k \in DOMAIN matches => matches[k].state = "PROPOSED"
  BY DEF MayFile, Proposed

LEMMA MovedRows ==
  ASSUME MatchesInv, NEW k \in DOMAIN matches, NEW state \in MatchStates, MayMove(k, state)
  PROVE /\ DOMAIN matches' = DOMAIN matches
        /\ \A j \in DOMAIN matches \ {k} : matches'[j] = matches[j]
        /\ matches'[k] \in MatchRows /\ matches'[k].state = state
        /\ matches'[k].origin = matches[k].origin
<1>1. matches[k] \in MatchRows
  BY DEF MatchesInv
<1>2. /\ [matches[k] EXCEPT !.state = state] \in MatchRows
      /\ [matches[k] EXCEPT !.state = state].state = state
      /\ [matches[k] EXCEPT !.state = state].origin = matches[k].origin
  BY <1>1 DEF MatchRows
<1>3. /\ DOMAIN matches' = DOMAIN matches /\ matches'[k] = [matches[k] EXCEPT !.state = state]
      /\ \A j \in DOMAIN matches \ {k} : matches'[j] = matches[j]
  BY DEF MayMove
<1>. QED BY <1>2, <1>3

LEMMA StepRows ==
  ASSUME MatchesInv, MatchesMove
  PROVE MatchesInv'
<1>1. ASSUME NEW keys, NEW origin, MayFile(keys, origin) PROVE MatchesInv'
  <2>1. [state |-> "PROPOSED", origin |-> origin] \in MatchRows
    BY <1>1 DEF MayFile, MatchRows, MatchStates
  <2>2. keys \subseteq Keys /\ \A k \in keys : k.seeker # k.offerer
    BY <1>1 DEF MayFile
  <2>3. DOMAIN matches' \subseteq Keys
    BY <1>1, <2>2, FiledRows DEF MatchesInv
  <2>4. ASSUME NEW k \in DOMAIN matches' PROVE k.seeker # k.offerer /\ matches'[k] \in MatchRows
    <3>1. CASE k \in DOMAIN matches /\ matches'[k] = matches[k]
      BY <3>1 DEF MatchesInv
    <3>2. CASE k \in keys /\ matches'[k] = [state |-> "PROPOSED", origin |-> origin]
      BY <2>1, <2>2, <3>2
    <3>. QED BY <1>1, <3>1, <3>2, FiledRows
  <2>. QED BY <2>3, <2>4 DEF MatchesInv
<1>2. ASSUME NEW k \in DOMAIN matches, NEW state \in MatchStates, MayMove(k, state)
      PROVE MatchesInv'
  BY <1>2, MovedRows DEF MatchesInv
<1>3. CASE UNCHANGED matches
  BY <1>3 DEF MatchesInv
<1>. QED BY <1>1, <1>2, <1>3 DEF MatchesMove

LEMMA LiveIsFinite ==
  ASSUME MatchesInv, NEW s
  PROVE IsFiniteSet(Live(s)) /\ Cardinality(Live(s)) \in Nat
<1>1. Live(s) \subseteq Keys
  BY DEF Live, MatchesInv
<1>. QED BY <1>1, KeysAreFinite, FS_Subset, FS_CardinalityType

\* The count of live matches is taken from the rows themselves, and only a
\* confirmation makes one live.
LEMMA StepLimit ==
  ASSUME MatchesInv, MatchesMove, NeverMoreThanFive
  PROVE NeverMoreThanFive'
<1> SUFFICES ASSUME NEW s \in Subjects PROVE Cardinality(Live(s)') =< MaxLive
  BY DEF NeverMoreThanFive
<1>1. /\ IsFiniteSet(Live(s)) /\ Cardinality(Live(s)) \in Nat
      /\ Cardinality(Live(s)) =< MaxLive /\ MaxLive \in Nat
  BY LiveIsFinite, CuratingAssumption DEF NeverMoreThanFive
<1>2. CASE Live(s)' \subseteq Live(s)
  <2>1. Cardinality(Live(s)') =< Cardinality(Live(s)) /\ IsFiniteSet(Live(s)')
    BY <1>1, <1>2, FS_Subset
  <2>. QED BY <1>1, <2>1, FS_CardinalityType
<1>3. ASSUME NEW keys, NEW origin, MayFile(keys, origin) PROVE Live(s)' \subseteq Live(s)
  <2>1. [state |-> "PROPOSED", origin |-> origin].state \notin LiveStates
    BY DEF LiveStates
  <2>2. ASSUME NEW k \in Live(s)' PROVE k \in Live(s)
    <3>1. k \in DOMAIN matches' /\ s \in Sides(k) /\ matches'[k].state \in LiveStates
      BY DEF Live
    <3>2. k \in DOMAIN matches /\ matches'[k] = matches[k]
      <4>1. matches'[k] # [state |-> "PROPOSED", origin |-> origin]
        BY <2>1, <3>1
      <4>2. \/ k \in DOMAIN matches /\ matches'[k] = matches[k]
            \/ matches'[k] = [state |-> "PROPOSED", origin |-> origin]
        BY <1>3, <3>1, FiledRows
      <4>. QED BY <4>1, <4>2, Zenon
    <3>. QED BY <3>1, <3>2 DEF Live
  <2>. QED BY <2>2
<1>4. ASSUME NEW k \in DOMAIN matches, NEW state \in MatchStates, MayMove(k, state)
      PROVE Cardinality(Live(s)') =< MaxLive
  <2>1. Live(s)' \subseteq Live(s) \cup {k}
    BY <1>4, MovedRows DEF Live
  <2>2. CASE k \notin Live(s)'
    BY <1>2, <2>1, <2>2
  <2>3. CASE k \in Live(s)' /\ matches[k].state \in LiveStates
    <3>1. k \in Live(s)
      BY <2>3 DEF Live
    <3>. QED BY <1>2, <2>1, <3>1
  <2>4. CASE k \in Live(s)' /\ matches[k].state \notin LiveStates
    <3>1. state \in LiveStates /\ s \in Sides(k)
      BY <1>4, <2>4, MovedRows DEF Live
    <3>2. HasRoom(k)
      BY <1>4, <2>4, <3>1 DEF MayMove
    <3>3. Cardinality(Live(s)) < MaxLive
      BY <3>1, <3>2 DEF HasRoom
    <3>4. /\ IsFiniteSet(Live(s) \cup {k})
          /\ Cardinality(Live(s) \cup {k}) =< Cardinality(Live(s)) + 1
      BY <1>1, FS_AddElement
    <3>5. Cardinality(Live(s)') =< Cardinality(Live(s) \cup {k}) /\ IsFiniteSet(Live(s)')
      BY <2>1, <3>4, FS_Subset
    <3>6. Cardinality(Live(s)') \in Nat /\ Cardinality(Live(s) \cup {k}) \in Nat
      BY <3>4, <3>5, FS_CardinalityType
    <3>. QED BY <1>1, <3>3, <3>4, <3>5, <3>6
  <2>. QED BY <2>2, <2>3, <2>4
<1>5. CASE UNCHANGED matches
  BY <1>2, <1>5 DEF Live
<1>. QED BY <1>2, <1>3, <1>4, <1>5 DEF MatchesMove

LEMMA QueueRests ==
  QueueIsSubstantial <=>
    \A k \in DOMAIN matches : matches[k].origin = "scorer" => Rests(k, graph)
  BY DEF QueueIsSubstantial, Rests

LEMMA StepQueue ==
  ASSUME GraphInv, MatchesInv, MatchesMove, QueueIsSubstantial, graph \subseteq graph'
  PROVE QueueIsSubstantial'
<1>1. \A k : Rests(k, graph) => Rests(k, graph')
  BY RestsStands
<1>2. \A k \in DOMAIN matches : matches[k].origin = "scorer" => Rests(k, graph')
  BY <1>1, QueueRests
<1>3. ASSUME NEW keys, NEW origin, MayFile(keys, origin),
             NEW k \in DOMAIN matches', matches'[k].origin = "scorer"
      PROVE Rests(k, graph')
  <2>1. CASE k \in DOMAIN matches /\ matches'[k] = matches[k]
    BY <1>2, <1>3, <2>1
  <2>2. CASE k \in keys /\ matches'[k] = [state |-> "PROPOSED", origin |-> origin]
    BY <1>1, <1>3, <2>2 DEF MayFile
  <2>. QED BY <1>3, <2>1, <2>2, FiledRows
<1>4. ASSUME NEW j \in DOMAIN matches, NEW state \in MatchStates, MayMove(j, state),
             NEW k \in DOMAIN matches', matches'[k].origin = "scorer"
      PROVE Rests(k, graph')
  BY <1>2, <1>4, MovedRows
<1>5. CASE UNCHANGED matches
  BY <1>2, <1>5 DEF QueueIsSubstantial, Rests
<1>6. \A k \in DOMAIN matches' : matches'[k].origin = "scorer" => Rests(k, graph')
  BY <1>2, <1>3, <1>4, <1>5 DEF MatchesMove
<1>. QED BY <1>6 DEF QueueIsSubstantial, Rests

LEMMA StepLoop ==
  ASSUME LoopInv, Next
  PROVE LoopInv'
<1> DEFINE Counts == [moves : Nat, bridges : Nat, restarts : Nat, thrown : BOOLEAN]
<1>1. count \in Counts
  BY DEF LoopInv
<1>2. CASE Operator
  BY <1>2, OperatorCounts
     DEF Operator, SetState, WrongClaim, WrongState, ExcludeSubject, SamePerson,
         DifferentPeople, CreateMatch, ConfirmMatch, RejectMatch
<1>3. CASE Scan
  <2>1. [count EXCEPT !.thrown = TRUE] \in Counts
    BY <1>1
  <2>2. count' \in Counts
    BY <1>1, <1>3, <2>1 DEF Scan, ScanWhole, ScanThrows
  <2>3. loop' \in {"draining", "asleep"} /\ pending' \in BOOLEAN
    BY <1>3 DEF Scan, ScanWhole, ScanThrows
  <2>4. owed' \in BOOLEAN /\ unseen' \in BOOLEAN
    BY <1>3 DEF Scan, ScanWhole, ScanThrows, LoopInv
  <2>. QED BY <2>2, <2>3, <2>4 DEF LoopInv
<1>4. CASE \E s \in Mailed : Bridge(s)
  <2>1. [count EXCEPT !.bridges = @ + 1] \in Counts
    BY <1>1
  <2>2. count' \in Counts
    BY <1>4, <2>1 DEF Bridge
  <2>3. loop' \in {loop, "awake"} /\ pending' \in {pending, TRUE} /\ UNCHANGED <<owed, unseen>>
    BY <1>4 DEF Bridge, Nudge
  <2>. QED BY <2>2, <2>3 DEF LoopInv
<1>5. CASE Restart
  <2>1. [count EXCEPT !.restarts = @ + 1] \in Counts
    BY <1>1
  <2>2. count' \in Counts
    BY <1>5, <2>1 DEF Restart
  <2>3. loop' \in {"awake", "down"}
    BY <1>5 DEF Restart, Backfill
  <2>. QED BY <1>5, <2>2, <2>3 DEF LoopInv, Restart
<1>6. CASE \/ \E claims \in Readings : Land(claims)
           \/ DrainEnds \/ FallAsleep \/ TimeToLook
           \/ \E k \in DOMAIN matches : PartiesAnswer(k)
  BY <1>6 DEF LoopInv, Land, DrainEnds, FallAsleep, TimeToLook, PartiesAnswer, Nudge
<1>. QED BY <1>2, <1>3, <1>4, <1>5, <1>6 DEF Next

LEMMA StepPeople ==
  ASSUME PeopleInv, Next
  PROVE PeopleInv'
<1>1. CASE \E s \in Curated : ExcludeSubject(s)
  BY <1>1, CuratingAssumption DEF PeopleInv, ExcludeSubject, Operates
<1>2. CASE \E a, b \in Curated : SamePerson(a, b) \/ DifferentPeople(a, b)
  <2>1. PICK a \in Curated, b \in Curated : SamePerson(a, b) \/ DifferentPeople(a, b)
    BY <1>2
  <2>2. <<a, b>> \in Subjects \X Subjects
    BY CuratingAssumption
  <2>. QED BY <2>1, <2>2 DEF PeopleInv, SamePerson, DifferentPeople, Operates
<1>3. CASE \E s \in Mailed : Bridge(s)
  BY <1>3 DEF PeopleInv, Bridge
<1>4. CASE UNCHANGED <<excluded, members, same, different>>
  BY <1>4 DEF PeopleInv
<1>5. \/ \E s \in Curated : ExcludeSubject(s)
      \/ \E a, b \in Curated : SamePerson(a, b) \/ DifferentPeople(a, b)
      \/ \E s \in Mailed : Bridge(s)
      \/ UNCHANGED <<excluded, members, same, different>>
  BY DEF Next, store, Land, DrainEnds, FallAsleep, TimeToLook, Scan, ScanWhole, ScanThrows,
         Operator, Operates, PartiesAnswer, Restart, SetState, WrongState, WrongClaim,
         CreateMatch, ConfirmMatch, RejectMatch
<1>. QED BY <1>1, <1>2, <1>3, <1>4, <1>5

LEMMA StepIInv ==
  ASSUME IInv, [Next]_vars
  PROVE IInv'
<1>1. CASE Next
  <2>1. graph \subseteq graph' /\ GraphInv'
    BY GraphGrows DEF IInv
  <2>2. MatchesMove
    BY <1>1, StepMatches DEF IInv
  <2>3. MatchesInv' /\ NeverMoreThanFive' /\ QueueIsSubstantial'
    BY <2>1, <2>2, StepRows, StepLimit, StepQueue DEF IInv
  <2>4. LivesInv' /\ LoopInv' /\ PeopleInv'
    BY <1>1, StepLives, StepLoop, StepPeople DEF IInv
  <2>. QED BY <2>1, <2>3, <2>4 DEF IInv
<1>2. CASE UNCHANGED vars
  BY <1>2 DEF vars, store, IInv, GraphInv, LivesInv, PeopleInv, MatchesInv, LoopInv,
              NeverMoreThanFive, Live, QueueIsSubstantial
<1>. QED BY <1>1, <1>2

LEMMA Invariance == Spec => []IInv
  BY InitIInv, StepIInv, PTL DEF Spec

LEMMA Shapes == IInv => TypeOK
<1> SUFFICES ASSUME IInv PROVE TypeOK
  OBVIOUS
<1>1. \A r \in graph : \E c \in Claims :
        \/ r = c
        \/ r.retracted /\ r.subject = c.subject /\ r.predicate = c.predicate /\ r.object = c.object
  <2>. TAKE r \in graph
  <2>1. CASE r \in Claims
    BY <2>1
  <2>2. ASSUME NEW c \in Claims, r = Retraction(c)
        PROVE r.retracted /\ r.subject = c.subject /\ r.predicate = c.predicate
                /\ r.object = c.object
    BY <2>2 DEF Retraction
  <2>. QED BY <2>1, <2>2 DEF IInv, GraphInv, Landable
<1>2. \A s \in Subjects : \A i \in DOMAIN lifecycle[s] :
        /\ lifecycle[s][i].state \in States \ {"new"}
        /\ lifecycle[s][i].authority \in {USER_CORRECTION, DETERMINISTIC}
        /\ lifecycle[s][i].retracted \in BOOLEAN
  <2>1. \A s \in Subjects : \A i \in DOMAIN lifecycle[s] : lifecycle[s][i] \in StateRows
    BY DEF IInv, LivesInv
  <2>2. \A row \in StateRows :
          /\ row.state \in States \ {"new"} /\ row.authority \in {USER_CORRECTION, DETERMINISTIC}
          /\ row.retracted \in BOOLEAN
    BY DEF StateRows
  <2>. QED BY <2>1, <2>2
<1>3. \A k \in DOMAIN matches :
        /\ k.seeker \in Subjects /\ k.offerer \in Subjects \ {k.seeker}
        /\ matches[k].state \in LiveStates \cup Decided \cup {"PROPOSED"}
        /\ matches[k].origin \in {"scorer", "human"}
  <2>1. \A k \in Keys : k.seeker \in Subjects /\ k.offerer \in Subjects
    BY DEF Keys
  <2>2. \A row \in MatchRows : row.state \in MatchStates /\ row.origin \in {"scorer", "human"}
    BY DEF MatchRows
  <2>. QED BY <2>1, <2>2 DEF IInv, MatchesInv, MatchStates
<1>. QED BY <1>1, <1>2, <1>3 DEF IInv, PeopleInv, LoopInv, TypeOK

-------------------------------------------------------------------------------
(***************************************************************************)
(* The theorems.                                                           *)
(***************************************************************************)

\* However the operator confirms, rejects and creates, the parties answer and
\* scans propose: the rows have their shapes, and nobody has more introductions
\* under way than the limit of GraphMatchRepository.
THEOREM TheLimitHolds == Spec => []Consistent
<1>1. IInv => Consistent
  BY Shapes DEF IInv, Consistent
<1>. QED BY <1>1, Invariance, PTL

\* Whatever lands, is retracted, excluded or merged: a match of the scorer's
\* rests on two claims that matching may put together, and on something shared.
THEOREM TheQueueRestsOnTheGraph == Spec => []QueueIsSubstantial
<1>1. IInv => QueueIsSubstantial
  BY DEF IInv
<1>. QED BY <1>1, Invariance, PTL

\* RulingsAreFinal: no scan, restart or answer puts a match back in the queue once
\* somebody has ruled on it, no match is ever taken away, and only the operator,
\* who may rule again, moves one that is rejected or introduced.
THEOREM OnlyTheOperatorRulesAgain == Spec => RulingsAreFinal
<1> DEFINE Stands == \A k \in DOMAIN matches :
             /\ k \in DOMAIN matches'
             /\ matches[k].state # "PROPOSED" => matches'[k].state # "PROPOSED"
             /\ (matches[k].state \in {"INTRODUCED", "REJECTED"} /\ matches'[k] # matches[k])
                  => count'.moves > count.moves
<1>1. ASSUME IInv, [Next]_vars PROVE Stands
  <2>1. MatchesInv /\ GraphInv /\ LoopInv
    BY <1>1 DEF IInv
  <2>2. CASE UNCHANGED matches
    BY <2>2
  <2>3. ASSUME NEW keys, NEW origin, MayFile(keys, origin) PROVE Stands
    <3>. TAKE k \in DOMAIN matches
    <3>. QED BY <2>1, <2>3, FiledRows
  <2>4. ASSUME NEW k \in DOMAIN matches, NEW state \in MatchStates, MayMove(k, state)
        PROVE Stands
    <3>1. /\ state # "PROPOSED"
          /\ matches[k].state \in {"INTRODUCED", "REJECTED"} => count'.moves > count.moves
      BY <2>4 DEF MayMove
    <3>. QED BY <2>1, <2>4, <3>1, MovedRows
  <2>5. Next => MatchesMove
    BY <2>1, StepMatches
  <2>. QED BY <1>1, <2>2, <2>3, <2>4, <2>5 DEF MatchesMove, vars, store
<1>2. IInv /\ [Next]_vars => [Stands]_vars
  BY <1>1
<1>. QED BY <1>2, Invariance, PTL DEF Spec, RulingsAreFinal

\* Only the operator's hand moves who declined: no promotion, no bridge from
\* the desk and no boot.
THEOREM NoRobotMovesANo == Spec => NoIsNo
<1> DEFINE Stands == \A s \in Subjects :
             (State(s) = "declined" /\ StateOf(lifecycle'[s]) # "declined")
               => count'.moves > count.moves
<1>1. ASSUME IInv, [Next]_vars PROVE Stands
  <2>1. CASE Next
    BY <1>1, <2>1, LivesMove DEF IInv, LifeMoves, State
  <2>2. CASE UNCHANGED vars
    BY <2>2 DEF vars, store, State
  <2>. QED BY <1>1, <2>1, <2>2
<1>2. IInv /\ [Next]_vars => [Stands]_vars
  BY <1>1
<1>. QED BY <1>2, Invariance, PTL DEF Spec, NoIsNo
==============================================================================
