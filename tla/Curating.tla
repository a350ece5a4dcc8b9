-------------------------------- MODULE Curating --------------------------------
(***************************************************************************)
(* The review queue: what the connect loop (src/graph/loops.js) proposes   *)
(* from the claims that have landed, and what the operator's levers        *)
(* (src/graph/manager.js), the bridge from the desk (bin/yente.mjs) and    *)
(* the promotion of the loop itself do to who may be proposed at all.      *)
(*                                                                         *)
(* Observations are kept by predicate: the claims a reading produced and   *)
(* their retractions in graph, profile states in lifecycle, the others in  *)
(* excluded, same and different.  An observation is never updated, and one *)
(* that has the key of another is not written.  The web forms send no      *)
(* evidence, so the key of a profile state is its subject, its state and   *)
(* its authority.  Party approval is on; Consent has the round itself.     *)
(***************************************************************************)
EXTENDS Matching, Sequences, SequencesExt

CONSTANTS
  Subjects,      \* subject ids, in their lexicographic order
  Mailed,        \* those that are an address
  Readings,      \* what each reading may find: sets of rows, none a retraction
  MinClaims,     \* claims a promotion asks for
  MaxLive,       \* MAX_LIVE_INTRODUCTIONS
  Curated,       \* bound: subjects the operator has a hand in
  Levers,        \* bound: states the operator sets or corrects
  MaxMoves,      \* bound: what the operator does
  MaxBridges,    \* bound: qualifications by the desk
  MaxRestarts    \* bound: restarts

Claims == UNION Readings
States == {"new", "asked", "received", "drafted", "awaiting_approval", "qualified", "declined"}

\* A claim as a reading leaves it: its words and values are finitely many, and
\* its grade, which counts in a proposal only, is one of the three.
IsClaim(c) ==
  /\ c.subject \in Subjects /\ ~c.retracted /\ c.grade \in DOMAIN GradeWeight
  /\ IsFiniteSet(c.object) /\ IsFiniteSet(c.attributes)

ASSUME CuratingAssumption ==
  /\ Subjects \subseteq Nat /\ IsFiniteSet(Subjects)
  /\ Mailed \subseteq Subjects /\ Curated \subseteq Subjects /\ Levers \subseteq States \ {"new"}
  /\ IsFiniteSet(Claims) /\ \A c \in Claims : IsClaim(c)
  /\ MinClaims \in Nat /\ MaxLive \in Nat \ {0}
  /\ MaxMoves \in Nat /\ MaxBridges \in Nat /\ MaxRestarts \in Nat

VARIABLES
  graph,        \* claims landed, and retractions of them
  lifecycle,    \* lifecycle[s]: profile states of s, as they were observed
  excluded,     \* subjects kept out of matchmaking
  same,         \* pairs asserted to be one person
  different,    \* pairs asserted to be two
  matches,      \* rows of the matches collection, by pair and type
  members,      \* subjects the desk has qualified
  loop,         \* the connect loop: awake, draining, asleep, or down
  pending,      \* connectPending
  owed,         \* has a drain committed claims and not nudged yet?
  unseen,       \* history: has a claim landed that no whole scan saw?
  count         \* what was done of the bounded things; history: has a promotion thrown?

store == <<graph, lifecycle, excluded, same, different, matches>>
vars == <<store, members, loop, pending, owed, unseen, count>>

Decided == {"CONFIRMED", "INTRODUCED", "REJECTED"}
LiveStates == {"AWAITING_PARTIES", "CONFIRMED"}

USER_CORRECTION == 400
DETERMINISTIC == 300

Init ==
  /\ graph = {}
  /\ lifecycle = [s \in Subjects |-> <<>>]
  /\ excluded = {} /\ same = {} /\ different = {}
  /\ matches = [k \in {} |-> 0]
  /\ members = {}
  /\ loop = "awake" /\ pending = FALSE /\ owed = FALSE
  /\ unseen = FALSE
  /\ count = [moves |-> 0, bridges |-> 0, restarts |-> 0, thrown |-> FALSE]
-------------------------------------------------------------------------------
(* The lifecycle of a subject, as its rows tell it.                        *)

LegalTransitions ==
  [new               |-> {"asked", "received", "declined"},
   asked             |-> {"received", "asked", "declined"},
   received          |-> {"drafted", "asked", "declined"},
   drafted           |-> {"awaiting_approval", "declined"},
   awaiting_approval |-> {"qualified", "received", "declined"},
   qualified         |-> {"received", "declined"},
   declined          |-> {"asked", "received"}]

\* project: of the rows of one state the one of most authority, the latest of
\* those, stands.
Standing(rows) ==
  {i \in DOMAIN rows : ~\E j \in DOMAIN rows :
     /\ rows[j].state = rows[i].state
     /\ \/ rows[j].authority > rows[i].authority
        \/ rows[j].authority = rows[i].authority /\ j > i}

\* profileState: the latest standing row; whether it is a retraction is not
\* looked at.
StateOf(rows) ==
  LET standing == Standing(rows)
  IN IF standing = {} THEN "new" ELSE rows[Max(standing)].state

State(s) == StateOf(lifecycle[s])

\* append: a row already there is not written again.
Recorded(rows, row) == IF row \in Range(rows) THEN rows ELSE Append(rows, row)

\* setProfileState: throws on an illegal move.
Moved(walk, state, by) ==
  LET current == StateOf(walk.rows)
  IN IF ~walk.legal THEN walk
     ELSE IF state # current /\ state \notin LegalTransitions[current]
     THEN [walk EXCEPT !.legal = FALSE]
     ELSE [walk EXCEPT !.rows = Recorded(@,
             [state |-> state, retracted |-> FALSE,
              authority |-> IF state = "qualified" \/ by = "yente:auto"
                            THEN USER_CORRECTION ELSE DETERMINISTIC])]

Route == <<"received", "drafted", "awaiting_approval", "qualified">>

\* How many hops of the route a subject has behind it; none when it is off it.
HopsDone(state) == Max({0} \cup {i \in DOMAIN Route : Route[i] = state})

\* One hop of the way to qualified, for who has not come so far.
Hop(walk, i, from, by) == IF i > from THEN Moved(walk, Route[i], by) ELSE walk

\* The hops to qualified from where the subject stands.
Walk(rows, by) ==
  LET from == HopsDone(StateOf(rows))
      first == Hop([rows |-> rows, legal |-> TRUE], 1, from, by)
      second == Hop(first, 2, from, by)
      third == Hop(second, 3, from, by)
  IN Hop(third, 4, from, by)
-------------------------------------------------------------------------------
(* Who is who, and who may be proposed.                                    *)

\* A pair asserted to be two people is not joined, whichever came first.
Unions == {p \in same : <<p[1], p[2]>> \notin different /\ <<p[2], p[1]>> \notin different}

\* The root of a class is its least id.
Roots ==
  FoldSet(LAMBDA p, root :
            LET two == {root[p[1]], root[p[2]]}
            IN [x \in Subjects |-> IF root[x] \in two THEN Min(two) ELSE root[x]],
          [x \in Subjects |-> x], Unions)

IsEligible(s) == s \notin excluded

IsMatchable(s, lives) == IsEligible(s) /\ StateOf(lives[s]) = "qualified"

\* A class of subjects that the graph can stand behind: named, with something
\* they want or are graded for, and MinClaims observations of any kind.
Substantial(id) ==
  LET root == Roots
      mine == {c \in graph : root[c.subject] = id /\ ~c.retracted}
      others == {p \in same \cup different : root[p[1]] = id}
      kept == {s \in excluded : root[s] = id}
  IN /\ \E c \in mine : c.predicate = "is_person"
     /\ \E c \in mine : \/ c.predicate \in Families
                        \/ c.predicate \in IntentTypes /\ ~IsIntakeArtifact(c.object)
     /\ Cardinality(mine) + Cardinality(others) + Cardinality(kept) >= MinClaims

\* Slip: who said no is promoted like anybody.
PromotableAnyway(id) ==
  IsEligible(id) /\ State(id) # "qualified" /\ Substantial(id)

Promotable(id) ==
  IsEligible(id) /\ State(id) \notin {"qualified", "declined"} /\ Substantial(id)

Promoted(id) == Walk(lifecycle[id], "yente:auto")

\* Those whose promotion throws.
Stuck == {id \in Subjects : Promotable(id) /\ ~Promoted(id).legal}
-------------------------------------------------------------------------------
(* The matches collection.                                                 *)

Key(p) == [seeker |-> p.seeker, offerer |-> p.offerer, type |-> p.type]
Sides(k) == {k.seeker, k.offerer}

\* Slip: a match somebody ruled on is proposed again.
Reopened(rows, keys, origin) ==
  [k \in DOMAIN rows \cup keys |->
     IF k \in keys THEN [state |-> "PROPOSED", origin |-> origin] ELSE rows[k]]

\* propose: what is held keeps its ruling, and a curated match its origin.
Proposed(rows, keys, origin) ==
  [k \in DOMAIN rows \cup keys |->
     IF k \in DOMAIN rows /\ (k \notin keys \/ rows[k].state # "PROPOSED" \/ rows[k].origin = "human")
     THEN rows[k] ELSE [state |-> "PROPOSED", origin |-> origin]]

Live(s) == {k \in DOMAIN matches : s \in Sides(k) /\ matches[k].state \in LiveStates}

\* Slip: one more than the limit.
HasRoomForOneMore(k) == \A s \in Sides(k) : Cardinality(Live(s)) =< MaxLive

HasRoom(k) == \A s \in Sides(k) : Cardinality(Live(s)) < MaxLive
-------------------------------------------------------------------------------
(* The loops.                                                              *)

\* Understand: the observations of a reading job land.
Land(claims) ==
  /\ loop # "down" /\ ~(claims \subseteq graph)
  /\ graph' = graph \cup claims
  /\ owed' = TRUE /\ unseen' = TRUE
  /\ UNCHANGED <<lifecycle, excluded, same, different, matches, members, loop, pending,
                 count>>

\* nudgeConnect: wakes the loop, or waits for it to look.
Nudge ==
  /\ pending' = TRUE
  /\ loop' = IF loop = "asleep" THEN "awake" ELSE loop

\* The drain that read the job ends: the graph changed.
DrainEnds ==
  /\ loop # "down" /\ owed
  /\ owed' = FALSE
  /\ Nudge
  /\ UNCHANGED <<store, members, unseen, count>>

\* A whole scan: everybody the graph can stand behind is promoted, then every
\* pair of the matchable is scored.
ScanWhole ==
  LET lives == [s \in Subjects |-> IF Promotable(s) THEN Promoted(s).rows ELSE lifecycle[s]]
      matchable == {s \in Subjects : IsMatchable(s, lives)}
      visible == {r \in graph : r.subject \in matchable}
  IN /\ Stuck = {}
     /\ lifecycle' = lives
     /\ matches' = Proposed(matches, {Key(p) : p \in ProposeIntroductions(visible)}, "scorer")
     /\ unseen' = FALSE
     /\ loop' = "draining"
     /\ UNCHANGED count

\* A promotion throws: who came before it is promoted, and the rest of the
\* pass, the scan and both drains, is skipped.
ScanThrows ==
  /\ \E t \in Stuck, before \in SUBSET {s \in Subjects \ Stuck : Promotable(s)} :
       lifecycle' = [s \in Subjects |-> IF s \in before \cup {t} THEN Promoted(s).rows
                                        ELSE lifecycle[s]]
  /\ loop' = "asleep"
  /\ count' = [count EXCEPT !.thrown = TRUE]
  /\ UNCHANGED <<matches, unseen>>

Scan ==
  /\ loop = "awake"
  /\ pending' = FALSE
  /\ ScanWhole \/ ScanThrows
  /\ UNCHANGED <<graph, excluded, same, different, members, owed>>

\* Slip: the flag is cleared when the pass is over.
ForgetsTheNudge ==
  /\ loop = "draining"
  /\ loop' = "asleep" /\ pending' = FALSE
  /\ UNCHANGED <<store, members, owed, unseen, count>>

\* The drains of consents and introductions are over: sleepOrNudge.
FallAsleep ==
  /\ loop = "draining"
  /\ loop' = IF pending THEN "awake" ELSE "asleep"
  /\ UNCHANGED <<store, members, pending, owed, unseen, count>>

\* connectMs have passed.
TimeToLook ==
  /\ loop = "asleep"
  /\ loop' = "awake"
  /\ UNCHANGED <<store, members, pending, owed, unseen, count>>
-------------------------------------------------------------------------------
(* The operator.                                                           *)

Operates ==
  /\ loop # "down" /\ count.moves < MaxMoves
  /\ count' = [count EXCEPT !.moves = @ + 1]
  /\ UNCHANGED <<members, loop, pending, owed, unseen>>

SetState(s, state) ==
  LET walk == Moved([rows |-> lifecycle[s], legal |-> TRUE], state, "operator")
  IN /\ Operates
     /\ walk.legal
     /\ lifecycle' = [lifecycle EXCEPT ![s] = walk.rows]
     /\ UNCHANGED <<graph, excluded, same, different, matches>>

\* A retraction has the words of what it retracts, and no attributes.
Retraction(c) ==
  [subject |-> c.subject, predicate |-> c.predicate, object |-> c.object, attributes |-> {},
   source |-> c.source, grade |-> "good", retracted |-> TRUE]

WrongClaim(c) ==
  /\ Operates
  /\ ~c.retracted
  /\ graph' = graph \cup {Retraction(c)}
  /\ UNCHANGED <<lifecycle, excluded, same, different, matches>>

\* The same lever under a profile state that stands.
WrongState(s, i) ==
  /\ Operates
  /\ i \in Standing(lifecycle[s]) /\ ~lifecycle[s][i].retracted
  /\ lifecycle' = [lifecycle EXCEPT ![s] = Append(@,
       [state |-> @[i].state, authority |-> USER_CORRECTION, retracted |-> TRUE])]
  /\ UNCHANGED <<graph, excluded, same, different, matches>>

ExcludeSubject(s) ==
  /\ Operates
  /\ excluded' = excluded \cup {s}
  /\ UNCHANGED <<graph, lifecycle, same, different, matches>>

SamePerson(a, b) ==
  /\ Operates
  /\ same' = same \cup {<<a, b>>}
  /\ UNCHANGED <<graph, lifecycle, excluded, different, matches>>

DifferentPeople(a, b) ==
  /\ Operates
  /\ different' = different \cup {<<a, b>>}
  /\ UNCHANGED <<graph, lifecycle, excluded, same, matches>>

CreateMatch(a, b) ==
  /\ Operates
  /\ a # b
  /\ matches' = Proposed(matches, {[seeker |-> a, offerer |-> b, type |-> <<"curated">>]}, "human")
  /\ UNCHANGED <<graph, lifecycle, excluded, same, different>>

\* Under party approval a pair of addresses enters the consent round if it is
\* still proposed; any other pair is confirmed, whatever it was.
ConfirmMatch(k) ==
  /\ Operates
  /\ HasRoom(k)
  /\ \/ /\ Sides(k) \subseteq Mailed /\ matches[k].state = "PROPOSED"
        /\ matches' = [matches EXCEPT ![k].state = "AWAITING_PARTIES"]
     \/ /\ ~(Sides(k) \subseteq Mailed)
        /\ matches' = [matches EXCEPT ![k].state = "CONFIRMED"]
  /\ UNCHANGED <<graph, lifecycle, excluded, same, different>>

RejectMatch(k) ==
  /\ Operates
  /\ matches' = [matches EXCEPT ![k].state = "REJECTED"]
  /\ UNCHANGED <<graph, lifecycle, excluded, same, different>>

Operator ==
  \/ \E s \in Curated :
       \/ \E state \in Levers : SetState(s, state)
       \/ \E i \in DOMAIN lifecycle[s] : lifecycle[s][i].state \in Levers /\ WrongState(s, i)
       \/ ExcludeSubject(s)
  \/ \E c \in graph : c.subject \in Curated /\ WrongClaim(c)
  \/ \E a, b \in Curated : a # b /\ (SamePerson(a, b) \/ DifferentPeople(a, b))
  \/ \E a, b \in Curated : CreateMatch(a, b)
  \/ \E k \in DOMAIN matches : ConfirmMatch(k) \/ RejectMatch(k)
-------------------------------------------------------------------------------
(* The consent round and the mail, the desk, and the process.              *)

\* What Consent does with a match, in short.
PartiesAnswer(k) ==
  /\ loop # "down"
  /\ \/ /\ matches[k].state = "AWAITING_PARTIES"
        /\ \E state \in {"CONFIRMED", "REJECTED"} :
             matches' = [matches EXCEPT ![k].state = state]
     \/ /\ matches[k].state = "CONFIRMED"
        /\ matches' = [matches EXCEPT ![k].state = "INTRODUCED"]
  /\ UNCHANGED <<graph, lifecycle, excluded, same, different, members, loop, pending, owed,
                 unseen, count>>

\* onQualified: the desk qualified the member, and the bridge walks the rest
\* of the way; when a hop throws, the tick goes on.
Bridge(s) ==
  LET walk == Walk(lifecycle[s], "desk")
  IN /\ loop # "down" /\ s \notin members /\ count.bridges < MaxBridges
     /\ members' = members \cup {s}
     /\ count' = [count EXCEPT !.bridges = @ + 1]
     /\ IF State(s) = "declined"
        THEN UNCHANGED <<lifecycle, loop, pending>>
        ELSE /\ lifecycle' = [lifecycle EXCEPT ![s] = walk.rows]
             /\ IF walk.legal THEN Nudge ELSE UNCHANGED <<loop, pending>>
     /\ UNCHANGED <<graph, excluded, same, different, matches, owed, unseen>>

Unbridged == {s \in members : State(s) \notin {"qualified", "declined"}}

\* Boot: members the desk qualified before are walked again, and nothing
\* catches a hop that throws.
Backfill ==
  LET Walked(s) == Walk(lifecycle[s], "desk")
      broken == {s \in Unbridged : ~Walked(s).legal}
  IN \/ /\ broken = {}
        /\ lifecycle' = [s \in Subjects |-> IF s \in Unbridged THEN Walked(s).rows
                                            ELSE lifecycle[s]]
        /\ loop' = "awake"
     \/ \E t \in broken, before \in SUBSET (Unbridged \ broken) :
          /\ lifecycle' = [s \in Subjects |-> IF s \in before \cup {t} THEN Walked(s).rows
                                              ELSE lifecycle[s]]
          /\ loop' = "down"

\* The process stops, at any point, and starts.
Restart ==
  /\ count.restarts < MaxRestarts
  /\ count' = [count EXCEPT !.restarts = @ + 1]
  /\ Backfill
  /\ pending' = FALSE /\ owed' = FALSE
  /\ UNCHANGED <<graph, excluded, same, different, matches, members, unseen>>

Next ==
  \/ \E claims \in Readings : Land(claims)
  \/ DrainEnds \/ Scan \/ FallAsleep \/ TimeToLook
  \/ Operator
  \/ \E k \in DOMAIN matches : PartiesAnswer(k)
  \/ \E s \in Mailed : Bridge(s)
  \/ Restart

Spec == Init /\ [][Next]_vars

\* What a scan, whole or not, is to the loop.
ScanRuns == loop = "awake" /\ loop' \in {"draining", "asleep"}

\* The loops run.  TimeToLook is left out on purpose: what lands is not to
\* wait for the clock.
Fairness == WF_vars(DrainEnds) /\ WF_loop(ScanRuns) /\ WF_vars(FallAsleep)

FairSpec == Spec /\ Fairness
-------------------------------------------------------------------------------
(* Properties.                                                             *)

\* Every row is of its kind and a match is between two subjects.
TypeOK ==
  /\ \A r \in graph : \E c \in Claims :
       \/ r = c
       \/ r.retracted /\ r.subject = c.subject /\ r.predicate = c.predicate /\ r.object = c.object
  /\ \A s \in Subjects : \A i \in DOMAIN lifecycle[s] :
       /\ lifecycle[s][i].state \in States \ {"new"}
       /\ lifecycle[s][i].authority \in {USER_CORRECTION, DETERMINISTIC}
       /\ lifecycle[s][i].retracted \in BOOLEAN
  /\ excluded \subseteq Subjects /\ members \subseteq Mailed
  /\ same \cup different \subseteq Subjects \X Subjects
  /\ \A k \in DOMAIN matches :
       /\ k.seeker \in Subjects /\ k.offerer \in Subjects \ {k.seeker}
       /\ matches[k].state \in LiveStates \cup Decided \cup {"PROPOSED"}
       /\ matches[k].origin \in {"scorer", "human"}
  /\ loop \in {"awake", "draining", "asleep", "down"}
  /\ pending \in BOOLEAN /\ owed \in BOOLEAN
  /\ unseen \in BOOLEAN

\* "Never more than five live introductions": whatever the operator confirms
\* and in whatever order the parties answer, nobody has more than MaxLive.
NeverMoreThanFive == \A s \in Subjects : Cardinality(Live(s)) =< MaxLive

\* The rows have their shapes, and the matches fit the limit.
Consistent == TypeOK /\ NeverMoreThanFive

\* Nothing thin is queued: a match of the scorer's rests on roles that answer
\* each other, or on an ask and what answers it, an intent or the target of a
\* graded proposal, which share a word, a value or a document.  No ask is about
\* the intake alone, and no intent that answers one; of a proposal the code does
\* not ask it.
QueueIsSubstantial ==
  \A k \in DOMAIN matches : matches[k].origin = "scorer" =>
    \E a, b \in graph :
      /\ a.subject = k.seeker /\ b.subject = k.offerer
      /\ <<a.predicate, b.predicate>> = k.type
      /\ \/ a.predicate \in SeekingRoles /\ b.predicate = AnsweredBy[a.predicate]
         \/ /\ ~IsIntakeArtifact(a.object)
            /\ b.predicate \in Families \/ ~IsIntakeArtifact(b.object)
            /\ Shared(a, b, graph) # {}

\* Saying no once is enough, as manager.js has it: no scan, proposal or boot
\* moves a match that is beyond PROPOSED, or takes one away; the parties' answers
\* move those under way, and what is rejected or introduced is moved by the
\* operator's hand only.  He may rule as often as he likes: rejectMatch takes any
\* match, and so does confirmMatch where a side has no address.
RulingsAreFinal ==
  [][\A k \in DOMAIN matches :
       /\ k \in DOMAIN matches'
       /\ matches[k].state # "PROPOSED" => matches'[k].state # "PROPOSED"
       /\ (matches[k].state \in {"INTRODUCED", "REJECTED"} /\ matches'[k] # matches[k])
            => count'.moves > count.moves]_vars

\* No is no, even to a robot: a subject who declined is moved by the operator's
\* hand, never by a promotion, the bridge from the desk or a boot.
NoIsNo ==
  [][\A s \in Subjects :
       (State(s) = "declined" /\ StateOf(lifecycle'[s]) # "declined")
         => count'.moves > count.moves]_vars

\* Matching reacts to the graph, not to the clock: what landed is seen by a
\* whole scan even if it landed, or the nudge came, while one was running;
\* unless a promotion has thrown, or the boot has.
EveryClaimIsScanned ==
  unseen ~> ~unseen \/ count.thrown \/ loop = "down"

\* Intake is autonomous: a subject nobody has touched, whom what has just
\* landed lets the graph stand behind, is moved along, with the same exceptions.
StrangersAreQualified ==
  \A s \in Subjects :
    (owed /\ State(s) = "new" /\ Promotable(s))
      ~> (State(s) # "new" \/ ~Promotable(s) \/ count.thrown \/ loop = "down")

===============================================================================
