------------------------------ MODULE ConsentProofs ------------------------------
(***************************************************************************)
(* Proofs about Consent, for any proposals, any parties, any number of     *)
(* confirm requests, replies, crashes and lost acknowledgements.           *)
(***************************************************************************)
EXTENDS Consent, TLAPS

(* What a row says of what has been said and sent.  A side's slot says      *)
(* "sent" only of what the server has taken; an approval answers that       *)
(* preview; a refusal leaves nothing gone; and nothing goes before both     *)
(* have approved.                                                           *)
Grounded(m, p) ==
  /\ match[m].preview[p] = "sent"
  /\ match[m].basis[p] \in DOMAIN replies
  /\ SaidYes(m, p)

InHand(m) == \E e \in Entrants : entrant[e].holds = m

Unasked == {"ABSENT", "PROPOSED"}
Agreed == {"CONFIRMED", "INTRODUCTION_SENDING", "INTRODUCED"}

SideInv(m, p) ==
  /\ match[m].state \in Unasked =>
       match[m].preview[p] = "none" /\ match[m].decision[p] = "none"
  /\ match[m].preview[p] = "sent" => told[m][p] > 0
  /\ match[m].decision[p] = "approve" => Grounded(m, p)
  /\ match[m].decision[p] = "decline" => match[m].state = "REJECTED"

MatchInv(m) ==
  /\ match[m].state \in Unasked \cup {"AWAITING_PARTIES"} => introduced[m] = 0 /\ ~InHand(m)
  /\ match[m].state \in Agreed \/ introduced[m] > 0 \/ InHand(m) =>
       \A p \in Parties(m) : match[m].decision[p] = "approve"

RowInv(m) == MatchInv(m) /\ \A p \in Parties(m) : SideInv(m, p)
RowsInv == \A m \in Matches : RowInv(m)

(* A reply that can answer a preview came under the address it went to, and *)
(* the preview is on record as sent.                                        *)
RepliesInv ==
  \A r \in DOMAIN replies : \A m \in Matches : \A p \in Parties(m) :
    <<m, p>> \in replies[r].after =>
      p \in Carries[replies[r].from] /\ match[m].preview[p] = "sent"

(* A reply in the hands of the drain answers what the drain is at, and that *)
(* side has said nothing yet.                                               *)
Answers(r) ==
  /\ at \in Visits /\ r \in DOMAIN replies
  /\ <<at[1], Person(at)>> \in replies[r].after
  /\ match[at[1]].decision[Person(at)] = "none"

(* The drain: rows it has yet to come to are under way, and the slot whose  *)
(* letter it awaits is claimed.                                             *)
Awaited == drain \in {"sending", "accepted"}
DrainInv ==
  /\ \A v \in visits : match[v[1]].state \notin Unasked
  /\ Awaited =>
       at \in Visits /\ match[at[1]].state \notin Unasked
         /\ match[at[1]].preview[Person(at)] = "claimed" /\ unread = {}
  /\ drain = "accepted" => told[at[1]][Person(at)] > 0
  /\ \A r \in unread : Answers(r)
  /\ drain = "reading" => Answers(reading)
  /\ drain = "off" => visits = {} /\ unread = {}

(* An entrant holds a letter exactly while it writes or sends it, and a     *)
(* dead process holds nothing.                                              *)
EntrantInv ==
  /\ \A e \in Entrants : entrant[e].pc \in {"sending", "accepted"} <=> entrant[e].holds # Nothing
  /\ OneHandPerLetter
  /\ ~up => drain = "off" /\ entrant = [e \in Entrants |-> Idle]

IInv == TypeOK /\ RowsInv /\ RepliesInv /\ DrainInv /\ EntrantInv

(* Copies of a letter with no record of it, now or when the send that is    *)
(* awaited is through.                                                      *)
Recorded(m, i) == match[m].preview[Sides[m][i]] = "sent" \/ (drain = "accepted" /\ at = <<m, i>>)
Stray(m, i) ==
  LET copies == told[m][Sides[m][i]] IN IF Recorded(m, i) THEN Extra(copies) ELSE copies

(* An introduction that is to be sent whatever the server has of it.        *)
Owed(m) ==
  \/ match[m].state = "CONFIRMED"
  \/ match[m].state = "INTRODUCTION_SENDING" /\ ~InHand(m)
  \/ \E e \in Entrants : entrant[e].holds = m /\ entrant[e].pc = "sending"
StrayIntroductions(m) == IF Owed(m) THEN introduced[m] ELSE Extra(introduced[m])

StrayInv ==
  \A m \in Matches : Stray(m, 1) + Stray(m, 2) + StrayIntroductions(m) <= restarts + lost
-------------------------------------------------------------------------------
(* What the repository makes of a row.                                     *)

(* The state of a row, and whether it is due, are all that most steps       *)
(* write.                                                                   *)
LEMMA Restated ==
  ASSUME NEW m \in Matches, NEW row \in Rows(m), NEW s \in MatchStates, NEW d \in BOOLEAN
  PROVE /\ [row EXCEPT !.state = s] \in Rows(m)
        /\ [row EXCEPT !.state = s, !.due = d] \in Rows(m)
        /\ [row EXCEPT !.due = d] \in Rows(m)
  BY DEF Rows

LEMMA NewRowShape ==
  ASSUME NEW m \in Matches, NEW s \in MatchStates
  PROVE /\ NewRow(m) \in Rows(m) /\ [NewRow(m) EXCEPT !.state = s] \in Rows(m)
  BY DEF NewRow, Rows, MatchStates, LiveStates

LEMMA SlotShape ==
  ASSUME NEW m \in Matches, NEW row \in Rows(m), NEW p \in Parties(m),
         NEW s \in {"none", "claimed", "sent"}
  PROVE [row EXCEPT !.preview[p] = s] \in Rows(m)
  BY DEF Rows

LEMMA DecisionShape ==
  ASSUME NEW m \in Matches, NEW row \in Rows(m), NEW p \in Parties(m),
         NEW d \in {"approve", "decline"}, NEW r \in Ids
  PROVE RecordPartyDecision(row, p, d, r) \in Rows(m)
<1> DEFINE next == [row EXCEPT !.decision[p] = d, !.basis[p] = r]
<1>1. next \in Rows(m)
  BY DEF Rows
<1>2. /\ [next EXCEPT !.state = "REJECTED"] \in Rows(m)
      /\ [next EXCEPT !.state = "CONFIRMED", !.due = TRUE] \in Rows(m)
  <2> HIDE DEF next
  <2> QED BY <1>1, Restated DEF MatchStates, LiveStates
<1> HIDE DEF next
<1> QED BY <1>1, <1>2 DEF RecordPartyDecision, next

LEMMA BootShape ==
  ASSUME NEW m \in Matches, NEW row \in Rows(m)
  PROVE Released(Requeued(row)) \in Rows(m)
<1>1. Requeued(row) \in Rows(m)
  BY Restated DEF Requeued, MatchStates, LiveStates
<1>2. ASSUME NEW r \in Rows(m) PROVE Released(r) \in Rows(m)
  BY DEF Released, Rows
<1> QED BY <1>1, <1>2

(* A row is written: it changes, and no other.                              *)
LEMMA Written ==
  ASSUME DOMAIN match = Matches, \A n \in Matches : match[n] \in Rows(n),
         NEW m \in Matches, NEW row \in Rows(m), match' = [match EXCEPT ![m] = row]
  PROVE /\ DOMAIN match' = Matches /\ \A n \in Matches : match'[n] \in Rows(n)
        /\ match'[m] = row
        /\ \A n \in Matches \ {m} : match'[n] = match[n]
  OBVIOUS

LEMMA PersonOf ==
  ASSUME NEW v \in Visits
  PROVE v[1] \in Matches /\ Person(v) \in Parties(v[1])
  BY DEF Visits, Person, Parties
-------------------------------------------------------------------------------
(* Types.                                                                   *)

MatchOK == DOMAIN match = Matches /\ \A m \in Matches : match[m] \in Rows(m)
Hand == [pc: Pcs, ready: SUBSET Matches, holds: Matches \cup {Nothing}]
EntrantOK == entrant \in [Entrants -> Hand]

(* An entrant moves, and no other.                                          *)
LEMMA Moved ==
  ASSUME EntrantOK, NEW e \in Entrants, NEW h \in Hand, entrant' = [entrant EXCEPT ![e] = h]
  PROVE /\ EntrantOK'
        /\ entrant'[e] = h
        /\ \A f \in Entrants \ {e} : entrant'[f] = entrant[f]
  BY DEF EntrantOK

LEMMA HandShape ==
  ASSUME NEW h \in Hand, NEW pc \in Pcs, NEW ready \in SUBSET Matches
  PROVE /\ [h EXCEPT !.pc = pc] \in Hand
        /\ [h EXCEPT !.ready = ready] \in Hand
        /\ [h EXCEPT !.pc = pc, !.holds = Nothing] \in Hand
        /\ Idle \in Hand
        /\ \A m \in Matches \cup {Nothing} : [pc |-> pc, ready |-> ready, holds |-> m] \in Hand
  BY DEF Hand, Idle, Pcs

LEMMA InitTypes == Init => TypeOK
<1> SUFFICES ASSUME Init PROVE TypeOK
  OBVIOUS
<1>1. MatchOK
  BY NewRowShape DEF Init, MatchOK, MatchStates, LiveStates
<1>2. EntrantOK
  BY HandShape DEF Init, EntrantOK, Pcs, Hand, Idle
<1>3. replies \in Seq([from: People, text: Texts, after: SUBSET Matches]) /\ Len(replies) <= MaxReplies
  BY ConsentAssumption DEF Init
<1> QED BY <1>1, <1>2, <1>3, ConsentAssumption DEF Init, TypeOK, MatchOK, EntrantOK, Hand

LEMMA StepTypes == TypeOK /\ DrainInv /\ EntrantInv /\ [Next]_vars => TypeOK'
<1> SUFFICES ASSUME TypeOK, DrainInv, EntrantInv, [Next]_vars PROVE TypeOK'
  OBVIOUS
<1> USE ConsentAssumption
<1>1. ASSUME NEW m \in Matches, Propose(m) PROVE TypeOK'
  <2>1. MatchOK'
    BY <1>1, Written, Restated DEF Propose, TypeOK, MatchOK, MatchStates, LiveStates
  <2> QED BY <1>1, <2>1 DEF Propose, TypeOK, MatchOK, drainVars
<1>2. ASSUME NEW m \in Matches, Reject(m) PROVE TypeOK'
  <2>1. MatchOK'
    BY <1>2, Written, Restated DEF Reject, TypeOK, MatchOK, MatchStates, LiveStates
  <2> QED BY <1>2, <2>1 DEF Reject, TypeOK, MatchOK, drainVars
<1>3. ASSUME NEW e \in Hooks, NEW m \in Matches, Confirm(e, m) PROVE TypeOK'
  <2>1. MatchOK'
    BY <1>3, Written, NewRowShape DEF Confirm, TypeOK, MatchOK, MatchStates, LiveStates
  <2>2. EntrantOK'
    <3>1. EntrantOK /\ e \in Entrants /\ entrant[e] \in Hand
      BY <1>3 DEF TypeOK, EntrantOK, Entrants, Hand
    <3>2. [entrant[e] EXCEPT !.pc = "consent"] \in Hand
      BY <3>1, HandShape DEF Pcs
    <3> QED BY <1>3, <3>1, <3>2, Moved DEF Confirm, EnterConsent
  <2>3. visits' \subseteq Visits /\ drain' \in {"off", "visit", "sending", "accepted", "reading"}
    BY <1>3 DEF Confirm, EnterConsent, TypeOK, Visits
  <2> QED BY <1>3, <2>1, <2>2, <2>3 DEF Confirm, EnterConsent, TypeOK, MatchOK, EntrantOK, Hand
<1>4. CASE ConnectPass
  <2>1. EntrantOK'
    <3>1. EntrantOK /\ "tick" \in Entrants /\ entrant["tick"] \in Hand
      BY DEF TypeOK, EntrantOK, Entrants, Hand
    <3>2. [entrant["tick"] EXCEPT !.pc = "consent"] \in Hand
      BY <3>1, HandShape DEF Pcs
    <3> QED BY <1>4, <3>1, <3>2, Moved DEF ConnectPass, EnterConsent
  <2>2. visits' \subseteq Visits /\ drain' \in {"off", "visit", "sending", "accepted", "reading"}
    BY <1>4 DEF ConnectPass, EnterConsent, TypeOK, Visits
  <2> QED BY <1>4, <2>1, <2>2 DEF ConnectPass, EnterConsent, TypeOK, EntrantOK, Hand
<1>5. ASSUME NEW s \in Senders, NEW t \in Texts, Hear(s, t) PROVE TypeOK'
  <2>1. Carries[s] \subseteq People
    BY SenderAssumption
  <2> QED BY <1>5, <2>1 DEF Hear, TypeOK, drainVars
<1>6. CASE Drain
  <2>1. ASSUME NEW v \in visits, ClaimPreview(v) PROVE TypeOK'
    <3>1. v \in Visits /\ v[1] \in Matches /\ Person(v) \in Parties(v[1])
      BY PersonOf DEF TypeOK
    <3>2. MatchOK'
      BY <2>1, <3>1, SlotShape, Written DEF ClaimPreview, TypeOK, MatchOK
    <3> QED BY <2>1, <3>1, <3>2 DEF ClaimPreview, Visited, TypeOK, MatchOK
  <2>2. ASSUME NEW v \in visits, FindReplies(v) PROVE TypeOK'
    <3>1. DOMAIN replies \subseteq Ids
      BY DEF TypeOK, Ids
    <3> QED BY <2>2, <3>1 DEF FindReplies, Visited, Unread, TypeOK
  <2>3. CASE PreviewTaken
    <3>1. at \in Visits /\ at[1] \in Matches /\ Person(at) \in Parties(at[1])
      BY <2>3, PersonOf DEF PreviewTaken, DrainInv, Awaited
    <3>2. DOMAIN told' = Matches /\ \A m \in Matches : told'[m] \in [Parties(m) -> Nat]
      BY <2>3, <3>1 DEF PreviewTaken, TypeOK
    <3> QED BY <2>3, <3>2 DEF PreviewTaken, TypeOK
  <2>4. CASE MarkPreviewSent
    <3>1. at \in Visits /\ at[1] \in Matches /\ Person(at) \in Parties(at[1])
      BY <2>4, PersonOf DEF MarkPreviewSent, DrainInv, Awaited
    <3>2. MatchOK'
      BY <2>4, <3>1, SlotShape, Written DEF MarkPreviewSent, TypeOK, MatchOK
    <3> QED BY <2>4, <3>2 DEF MarkPreviewSent, TypeOK, MatchOK
  <2>5. ASSUME NEW c \in {0, 1}, PreviewFails(c) PROVE TypeOK'
    <3>1. at \in Visits /\ at[1] \in Matches /\ Person(at) \in Parties(at[1])
      BY <2>5, PersonOf DEF PreviewFails, DrainInv, Awaited
    <3>2. MatchOK'
      BY <2>5, <3>1, SlotShape, Written DEF PreviewFails, TypeOK, MatchOK
    <3>3. DOMAIN told' = Matches /\ \A m \in Matches : told'[m] \in [Parties(m) -> Nat]
      BY <2>5, <3>1 DEF PreviewFails, TypeOK
    <3>4. lost' \in 0..MaxLost
      BY <2>5 DEF PreviewFails, Throws, TypeOK
    <3> QED BY <2>5, <3>2, <3>3, <3>4 DEF PreviewFails, TypeOK, MatchOK
  <2>6. ASSUME NEW r \in unread, ReadReply(r) PROVE TypeOK'
    <3>1. at \in Visits /\ at[1] \in Matches /\ r \in Ids
      BY <2>6, PersonOf DEF DrainInv, Answers, TypeOK
    <3>2. [match[at[1]] EXCEPT !.seen = @ \cup {r}] \in Rows(at[1])
      <4>1. match[at[1]] \in Rows(at[1])
        BY <3>1 DEF TypeOK
      <4> QED BY <3>1, <4>1 DEF Rows
    <3>3. MatchOK'
      BY <2>6, <3>1, <3>2, Written DEF ReadReply, TypeOK, MatchOK
    <3> QED BY <2>6, <3>1, <3>3 DEF ReadReply, TypeOK, MatchOK
  <2>7. ASSUME NEW d \in {"approve", "decline", "unclear"}, TakeVerdict(d) PROVE TypeOK'
    <3>1. at \in Visits /\ at[1] \in Matches /\ Person(at) \in Parties(at[1])
      BY <2>7, PersonOf DEF TakeVerdict, DrainInv, Answers
    <3>2. reading \in Ids
      BY <2>7 DEF TakeVerdict, DrainInv, Answers, TypeOK, Ids
    <3>3. MatchOK'
      <4>1. CASE d = "unclear"
        <5>1. match' = match
          BY <2>7, <4>1 DEF TakeVerdict
        <5> QED BY <5>1 DEF TypeOK, MatchOK
      <4>2. CASE d # "unclear"
        BY <2>7, <3>1, <3>2, <4>2, DecisionShape, Written DEF TakeVerdict, TypeOK, MatchOK
      <4> QED BY <4>1, <4>2
    <3> QED BY <2>7, <3>3 DEF TakeVerdict, TypeOK, MatchOK
  <2>8. CASE EndConsent
    BY <2>8 DEF EndConsent, TypeOK, Pcs
  <2> QED BY <1>6, <2>1, <2>2, <2>3, <2>4, <2>5, <2>6, <2>7, <2>8 DEF Drain
<1>7. ASSUME NEW e \in Entrants, Deliver(e) PROVE TypeOK'
  <2> USE DEF EntrantOK
  <2>0. EntrantOK /\ entrant[e] \in Hand /\ entrant[e].ready \subseteq Matches
    BY DEF TypeOK, Hand
  <2>1. CASE ReadReady(e)
    <3>1. EntrantOK'
      BY <2>1, <2>0, Moved, HandShape DEF ReadReady, Pcs
    <3> QED BY <2>1, <3>1 DEF ReadReady, TypeOK, Hand, drainVars
  <2>2. ASSUME NEW m \in Matches, ClaimIntroduction(e, m) PROVE TypeOK'
    <3>1. MatchOK'
      <4>1. CASE Claimable(match[m])
        <5>1. [match[m] EXCEPT !.state = "INTRODUCTION_SENDING"] \in Rows(m)
          BY Restated DEF TypeOK, MatchStates, LiveStates
        <5>2. match' = [match EXCEPT ![m] = [match[m] EXCEPT !.state = "INTRODUCTION_SENDING"]]
          BY <2>2, <4>1 DEF ClaimIntroduction
        <5> QED BY <5>1, <5>2, Written DEF TypeOK, MatchOK
      <4>2. CASE ~Claimable(match[m])
        BY <2>2, <4>2 DEF ClaimIntroduction, TypeOK, MatchOK
      <4> QED BY <4>1, <4>2
    <3>2. EntrantOK'
      <4>1. CASE Claimable(match[m])
        <5>1. [pc |-> "sending", ready |-> entrant[e].ready \ {m}, holds |-> m] \in Hand
          BY <2>0, HandShape DEF Pcs
        <5>2. entrant' = [entrant EXCEPT ![e] =
                            [pc |-> "sending", ready |-> entrant[e].ready \ {m}, holds |-> m]]
          BY <2>2, <4>1 DEF ClaimIntroduction
        <5> QED BY <5>1, <5>2, <2>0, Moved
      <4>2. CASE ~Claimable(match[m])
        <5>1. [entrant[e] EXCEPT !.ready = @ \ {m}] \in Hand
          BY <2>0, HandShape DEF Pcs
        <5>2. entrant' = [entrant EXCEPT ![e] = [entrant[e] EXCEPT !.ready = @ \ {m}]]
          BY <2>2, <4>2 DEF ClaimIntroduction
        <5> QED BY <5>1, <5>2, <2>0, Moved
      <4> QED BY <4>1, <4>2
    <3> QED BY <2>2, <3>1, <3>2 DEF ClaimIntroduction, TypeOK, MatchOK, Hand, drainVars
  <2>3. CASE IntroductionTaken(e)
    <3>1. EntrantOK'
      BY <2>3, <2>0, Moved, HandShape DEF IntroductionTaken, Pcs
    <3>2. introduced' \in [Matches -> Nat]
      <4>1. entrant[e].holds \in Matches
        BY <2>3, <2>0 DEF IntroductionTaken, EntrantInv, Hand
      <4> QED BY <2>3, <4>1 DEF IntroductionTaken, TypeOK
    <3> QED BY <2>3, <3>1, <3>2 DEF IntroductionTaken, TypeOK, Hand, drainVars
  <2>4. CASE RecordIntroduced(e)
    <3>1. entrant[e].holds \in Matches
      BY <2>4 DEF RecordIntroduced, EntrantInv, TypeOK
    <3>2. MarkIntroduced(match[entrant[e].holds]) \in Rows(entrant[e].holds)
      BY <3>1, Restated DEF MarkIntroduced, TypeOK, MatchStates, LiveStates
    <3>3. MatchOK'
      BY <2>4, <3>1, <3>2, Written DEF RecordIntroduced, TypeOK, MatchOK
    <3>4. EntrantOK'
      BY <2>4, <2>0, Moved, HandShape DEF RecordIntroduced, NextOf, Pcs
    <3> QED BY <2>4, <3>3, <3>4 DEF RecordIntroduced, TypeOK, MatchOK, Hand, drainVars
  <2>5. ASSUME NEW c \in {0, 1}, IntroductionFails(e, c) PROVE TypeOK'
    <3>1. entrant[e].holds \in Matches
      BY <2>5 DEF IntroductionFails, EntrantInv, TypeOK
    <3>2. FailIntroduction(match[entrant[e].holds]) \in Rows(entrant[e].holds)
      BY <3>1, Restated DEF FailIntroduction, TypeOK, MatchStates, LiveStates
    <3>3. MatchOK'
      BY <2>5, <3>1, <3>2, Written DEF IntroductionFails, TypeOK, MatchOK
    <3>4. EntrantOK'
      BY <2>5, <2>0, Moved, HandShape DEF IntroductionFails, NextOf, Pcs
    <3>5. introduced' \in [Matches -> Nat]
      BY <2>5, <3>1 DEF IntroductionFails, TypeOK
    <3>6. lost' \in 0..MaxLost
      BY <2>5 DEF IntroductionFails, Throws, TypeOK
    <3> QED BY <2>5, <3>3, <3>4, <3>5, <3>6
        DEF IntroductionFails, TypeOK, MatchOK, Hand, drainVars
  <2>6. CASE Leave(e)
    <3>1. EntrantOK'
      BY <2>6, <2>0, Moved, HandShape DEF Leave, Pcs
    <3> QED BY <2>6, <3>1 DEF Leave, TypeOK, Hand, drainVars
  <2> QED BY <1>7, <2>1, <2>2, <2>3, <2>4, <2>5, <2>6 DEF Deliver
<1>8. CASE ClockTick
  <2>1. MatchOK'
    <3>0. \A m \in Matches : match[m] \in Rows(m)
      BY DEF TypeOK
    <3>1. ASSUME NEW m \in Matches PROVE [match[m] EXCEPT !.due = TRUE] \in Rows(m)
      <4>1. match[m] \in Rows(m)
        BY <3>0
      <4> QED BY <4>1 DEF Rows
    <3> QED BY <1>8, <3>1 DEF ClockTick, MatchOK
  <2> QED BY <1>8, <2>1 DEF ClockTick, TypeOK, MatchOK, drainVars
<1>9. CASE Crash
  <2>1. EntrantOK'
    <3>1. Idle \in Hand
      BY DEF Idle, Hand, Pcs
    <3> QED BY <1>9, <3>1 DEF Crash, EntrantOK
  <2>2. restarts' \in 0..MaxRestarts
    BY <1>9 DEF Crash, TypeOK
  <2> QED BY <1>9, <2>1, <2>2 DEF Crash, TypeOK, EntrantOK, Hand
<1>10. CASE Boot
  <2>1. MatchOK'
    BY <1>10, BootShape DEF Boot, TypeOK, MatchOK
  <2> QED BY <1>10, <2>1 DEF Boot, TypeOK, MatchOK, drainVars
<1>11. CASE UNCHANGED vars
  BY <1>11 DEF vars, drainVars, TypeOK
<1> QED BY <1>1, <1>2, <1>3, <1>4, <1>5, <1>6, <1>7, <1>8, <1>9, <1>10, <1>11
        DEF Next, Operator
-------------------------------------------------------------------------------
(* What a step may leave as it is.                                         *)

(* Only the row of this match is written.                                   *)
Wrote(m) == \A n \in Matches \ {m} : match'[n] = match[n]

SaidAndSent(m) ==
  \A p \in Parties(m) :
    /\ match'[m].preview[p] = match[m].preview[p]
    /\ match'[m].decision[p] = match[m].decision[p]
    /\ match'[m].basis[p] = match[m].basis[p]
    /\ told'[m][p] = told[m][p]

RepliesKept ==
  /\ DOMAIN replies \subseteq DOMAIN replies'
  /\ \A r \in DOMAIN replies : replies'[r] = replies[r]

(* The match is moved no further than what was said before allows.          *)
Rightly(m) ==
  /\ match'[m].state \in Unasked => match[m].state \in Unasked
  /\ match'[m].state \in Unasked \cup {"AWAITING_PARTIES"} =>
       /\ match[m].state \in Unasked \cup {"AWAITING_PARTIES"}
       /\ introduced'[m] = introduced[m] /\ ~InHand(m)'
  /\ match'[m].state \in Agreed \/ introduced'[m] > 0 \/ InHand(m)' =>
       match[m].state \in Agreed \/ introduced[m] > 0 \/ InHand(m)
  /\ match[m].state = "REJECTED" => match'[m].state = "REJECTED"

LEMMA Kept ==
  ASSUME NEW m \in Matches, RowInv(m), SaidAndSent(m), RepliesKept, Rightly(m)
  PROVE RowInv(m)'
<1>1. MatchInv(m)'
  BY DEF RowInv, MatchInv, SaidAndSent, Rightly
<1>2. ASSUME NEW p \in Parties(m) PROVE SideInv(m, p)'
  <2>1. SideInv(m, p)
    BY DEF RowInv
  <2>2. /\ match'[m].state \in Unasked => match[m].state \in Unasked
        /\ match[m].state = "REJECTED" => match'[m].state = "REJECTED"
    BY DEF Rightly
  <2>3. match[m].decision[p] = "approve" => Grounded(m, p)'
    BY <2>1 DEF SideInv, Grounded, SaidYes, SaidAndSent, RepliesKept
  <2> QED BY <2>1, <2>2, <2>3 DEF SideInv, SaidAndSent
<1> QED BY <1>1, <1>2 DEF RowInv

(* Nothing of a match is touched, except that its letter may be let go.     *)
Unmoved(m) ==
  /\ match'[m] = match[m] /\ told'[m] = told[m] /\ introduced'[m] = introduced[m]
  /\ InHand(m)' => InHand(m)

LEMMA UnmovedKept ==
  ASSUME NEW m \in Matches, RowInv(m), Unmoved(m), RepliesKept
  PROVE RowInv(m)'
<1>1. SaidAndSent(m)
  BY DEF Unmoved, SaidAndSent
<1>2. Rightly(m)
  BY DEF Unmoved, Rightly, RowInv, MatchInv
<1> QED BY <1>1, <1>2, Kept

LEMMA StateWritten ==
  ASSUME MatchOK, NEW m \in Matches, NEW s, match' = [match EXCEPT ![m].state = s]
  PROVE \A n \in Matches :
    /\ match'[n].preview = match[n].preview /\ match'[n].decision = match[n].decision
    /\ match'[n].basis = match[n].basis
    /\ n = m => match'[n].state = s
    /\ n # m => match'[n].state = match[n].state
<1> SUFFICES ASSUME NEW n \in Matches
             PROVE /\ match'[n].preview = match[n].preview /\ match'[n].decision = match[n].decision
                   /\ match'[n].basis = match[n].basis
                   /\ n = m => match'[n].state = s
                   /\ n # m => match'[n].state = match[n].state
  OBVIOUS
<1>1. match[m] \in Rows(m) /\ DOMAIN match = Matches
  BY DEF MatchOK
<1>2. CASE n = m
  <2>1. match'[m] = [match[m] EXCEPT !.state = s]
    BY <1>1
  <2>2. /\ match'[m].preview = match[m].preview /\ match'[m].decision = match[m].decision
        /\ match'[m].basis = match[m].basis /\ match'[m].state = s
    BY <1>1, <2>1 DEF Rows
  <2> QED BY <1>2, <2>2
<1>3. CASE n # m
  BY <1>1, <1>3
<1> QED BY <1>2, <1>3

(* Who has a letter in hand when an entrant moves.                          *)
LEMMA HandsMoved ==
  ASSUME EntrantOK, NEW e \in Entrants, NEW h \in Hand, entrant' = [entrant EXCEPT ![e] = h],
         NEW m \in Matches
  PROVE /\ InHand(m)' => InHand(m) \/ h.holds = m
        /\ h.holds = m => InHand(m)'
<1>1. entrant'[e] = h /\ \A f \in Entrants \ {e} : entrant'[f] = entrant[f]
  BY Moved
<1> QED BY <1>1 DEF InHand
-------------------------------------------------------------------------------
(* The rows stay grounded.                                                 *)

LEMMA InitIInv == Init => IInv
<1> SUFFICES ASSUME Init PROVE IInv
  OBVIOUS
<1>1. TypeOK
  BY InitTypes
<1>2. \A e \in Entrants : entrant[e] = Idle
  BY DEF Init
<1>3. \A m \in Matches : ~InHand(m)
  BY <1>2, ConsentAssumption DEF InHand, Idle
<1>4. \A m \in Matches : /\ match[m].state = "ABSENT" /\ introduced[m] = 0
                         /\ \A p \in Parties(m) : match[m].preview[p] = "none" /\ match[m].decision[p] = "none"
  BY DEF Init, NewRow
<1>5. RowsInv
  BY <1>3, <1>4 DEF RowsInv, RowInv, MatchInv, SideInv, Unasked, Agreed
<1>6. RepliesInv /\ DrainInv
  BY DEF Init, RepliesInv, DrainInv, Awaited
<1>7. EntrantInv
  BY <1>2 DEF EntrantInv, OneHandPerLetter, Init, Idle
<1> QED BY <1>1, <1>5, <1>6, <1>7 DEF IInv

(* An entrant comes to the drain, and nothing is in its hands for that.     *)
LEMMA Entering ==
  ASSUME EntrantOK, NEW e \in Entrants, entrant' = [entrant EXCEPT ![e].pc = "consent"]
  PROVE /\ \A m \in Matches : InHand(m)' <=> InHand(m)
        /\ \A f \in Entrants : entrant'[f].holds = entrant[f].holds
        /\ \A f \in Entrants \ {e} : entrant'[f] = entrant[f]
        /\ entrant'[e].pc = "consent"
<1>1. entrant[e] \in Hand
  BY DEF EntrantOK
<1>2. /\ \A f \in Entrants : entrant'[f].holds = entrant[f].holds
      /\ \A f \in Entrants \ {e} : entrant'[f] = entrant[f]
      /\ entrant'[e].pc = "consent"
  BY <1>1 DEF EntrantOK, Hand
<1> QED BY <1>2 DEF InHand

(* The drain changes nothing of the entrants but where they wait.           *)
LEMMA QuietRows ==
  ASSUME RowsInv, RepliesKept, UNCHANGED <<match, told, introduced>>,
         \A m \in Matches : InHand(m)' => InHand(m)
  PROVE RowsInv'
<1> SUFFICES ASSUME NEW m \in Matches PROVE RowInv(m)'
  BY DEF RowsInv
<1>1. RowInv(m) /\ Unmoved(m)
  BY DEF RowsInv, Unmoved
<1> QED BY <1>1, UnmovedKept

(* A match is moved, and nothing else about it is written.                  *)
LEMMA MovedRows ==
  ASSUME MatchOK, RowsInv, NEW m \in Matches, NEW s, match' = [match EXCEPT ![m].state = s],
         UNCHANGED <<replies, told>>, \A n \in Matches : Rightly(n)
  PROVE RowsInv'
<1> SUFFICES ASSUME NEW n \in Matches PROVE RowInv(n)'
  BY DEF RowsInv
<1>1. RowInv(n) /\ SaidAndSent(n) /\ RepliesKept
  BY StateWritten DEF RowsInv, SaidAndSent, RepliesKept
<1> QED BY <1>1, Kept

LEMMA RowsPropose == ASSUME IInv, NEW m \in Matches, Propose(m) PROVE RowsInv'
<1>1. MatchOK /\ RowsInv /\ match' = [match EXCEPT ![m].state = "PROPOSED"] /\ UNCHANGED <<replies, told>>
  BY DEF IInv, TypeOK, MatchOK, Propose
<1>2. UNCHANGED <<introduced, entrant>> /\ match[m].state = "ABSENT"
  BY DEF Propose
<1>3. ASSUME NEW n \in Matches PROVE Rightly(n)
  <2>1. /\ n = m => match'[n].state = "PROPOSED"
        /\ n # m => match'[n].state = match[n].state
    BY <1>1, StateWritten
  <2>2. MatchInv(n) /\ InHand(n)' = InHand(n)
    BY <1>1, <1>2 DEF RowsInv, RowInv, InHand
  <2> QED BY <1>2, <2>1, <2>2 DEF Rightly, MatchInv, Unasked, Agreed
<1> QED BY <1>1, <1>3, MovedRows

LEMMA RowsReject == ASSUME IInv, NEW m \in Matches, Reject(m) PROVE RowsInv'
<1>1. MatchOK /\ RowsInv /\ match' = [match EXCEPT ![m].state = "REJECTED"] /\ UNCHANGED <<replies, told>>
  BY DEF IInv, TypeOK, MatchOK, Reject
<1>2. UNCHANGED <<introduced, entrant>>
  BY DEF Reject
<1>3. ASSUME NEW n \in Matches PROVE Rightly(n)
  <2>1. /\ n = m => match'[n].state = "REJECTED"
        /\ n # m => match'[n].state = match[n].state
    BY <1>1, StateWritten
  <2>2. MatchInv(n) /\ InHand(n)' = InHand(n)
    BY <1>1, <1>2 DEF RowsInv, RowInv, InHand
  <2> QED BY <1>2, <2>1, <2>2 DEF Rightly, MatchInv, Unasked, Agreed
<1> QED BY <1>1, <1>3, MovedRows

(* A round is opened on a row that says nothing yet.                        *)
LEMMA RowsConfirm ==
  ASSUME IInv, NEW e \in Hooks, NEW m \in Matches, Confirm(e, m)
  PROVE RowsInv'
<1>1. /\ MatchOK /\ RowsInv /\ EntrantOK /\ e \in Entrants
      /\ match' = [match EXCEPT ![m] = [NewRow(m) EXCEPT !.state = "AWAITING_PARTIES"]]
      /\ entrant' = [entrant EXCEPT ![e].pc = "consent"]
      /\ UNCHANGED <<replies, told, introduced>> /\ match[m].state = "PROPOSED"
  BY DEF IInv, TypeOK, MatchOK, EntrantOK, Hand, Entrants, Confirm, EnterConsent
<1>2. \A n \in Matches : InHand(n)' <=> InHand(n)
  BY <1>1, Entering
<1> SUFFICES ASSUME NEW n \in Matches PROVE RowInv(n)'
  BY DEF RowsInv
<1>3. RowInv(n) /\ RepliesKept
  BY <1>1 DEF RowsInv, RepliesKept
<1>4. CASE n = m
  <2>1. match'[m] = [NewRow(m) EXCEPT !.state = "AWAITING_PARTIES"]
    BY <1>1 DEF MatchOK
  <2>2. /\ match'[m].state = "AWAITING_PARTIES"
        /\ \A p \in Parties(m) : match'[m].preview[p] = "none" /\ match'[m].decision[p] = "none"
    BY <2>1 DEF NewRow
  <2>3. introduced'[m] = 0 /\ ~InHand(m)'
    BY <1>1, <1>2, <1>3, <1>4 DEF RowInv, MatchInv, Unasked
  <2>4. MatchInv(m)'
    BY <2>2, <2>3 DEF MatchInv, Agreed
  <2>5. \A p \in Parties(m) : SideInv(m, p)'
    BY <2>2 DEF SideInv, Unasked
  <2> QED BY <1>4, <2>4, <2>5 DEF RowInv
<1>5. CASE n # m
  <2>1. Unmoved(n)
    BY <1>1, <1>2, <1>5 DEF Unmoved, MatchOK
  <2> QED BY <1>3, <2>1, UnmovedKept
<1> QED BY <1>4, <1>5

(* What a verdict makes of a row: that side's answer, and a ruling when it  *)
(* is a no or the last yes.                                                 *)
LEMMA VerdictWritten ==
  ASSUME NEW m \in Matches, NEW row \in Rows(m), NEW p \in Parties(m),
         NEW d \in {"approve", "decline"}, NEW r, row.state = "AWAITING_PARTIES",
         NEW new, new = RecordPartyDecision(row, p, d, r)
  PROVE
    /\ new.preview = row.preview
    /\ new.decision[p] = d /\ new.basis[p] = r
    /\ \A q \in Parties(m) \ {p} :
         new.decision[q] = row.decision[q] /\ new.basis[q] = row.basis[q]
    /\ d = "decline" => new.state = "REJECTED"
    /\ d = "approve" =>
         \/ new.state = "CONFIRMED" /\ \A q \in Parties(m) : new.decision[q] = "approve"
         \/ new.state = "AWAITING_PARTIES"
<1> DEFINE next == [row EXCEPT !.decision[p] = d, !.basis[p] = r]
<1>1. /\ next.preview = row.preview /\ next.state = row.state
      /\ next.decision[p] = d /\ next.basis[p] = r
      /\ \A q \in Parties(m) \ {p} :
           next.decision[q] = row.decision[q] /\ next.basis[q] = row.basis[q]
      /\ DOMAIN row.decision = Parties(m)
  BY DEF Rows
<1>2. CASE d = "decline"
  <2>1. new = [next EXCEPT !.state = "REJECTED"]
    BY <1>2 DEF RecordPartyDecision
  <2>2. /\ new.preview = next.preview /\ new.decision = next.decision /\ new.basis = next.basis
        /\ new.state = "REJECTED"
    BY <2>1 DEF Rows
  <2> QED BY <1>1, <1>2, <2>2
<1>3. CASE d = "approve" /\ \A q \in DOMAIN row.decision : next.decision[q] = "approve"
  <2>1. new = [next EXCEPT !.state = "CONFIRMED", !.due = TRUE]
    BY <1>3 DEF RecordPartyDecision
  <2>2. /\ new.preview = next.preview /\ new.decision = next.decision /\ new.basis = next.basis
        /\ new.state = "CONFIRMED"
    BY <2>1 DEF Rows
  <2> QED BY <1>1, <1>3, <2>2
<1>4. CASE d = "approve" /\ ~\A q \in DOMAIN row.decision : next.decision[q] = "approve"
  <2>1. new = next
    BY <1>4 DEF RecordPartyDecision
  <2> QED BY <1>1, <1>4, <2>1
<1> QED BY <1>2, <1>3, <1>4

LEMMA VerdictElsewhere ==
  ASSUME NEW row, NEW p, NEW d, NEW r, row.state # "AWAITING_PARTIES"
  PROVE RecordPartyDecision(row, p, d, r) = row
  BY DEF RecordPartyDecision

LEMMA Judged ==
  ASSUME TypeOK, RowsInv, RepliesInv, NEW m \in Matches, NEW p \in Parties(m),
         NEW r \in DOMAIN replies, <<m, p>> \in replies[r].after,
         match[m].decision[p] = "none",
         NEW d \in {"approve", "decline"}, d \in Verdicts(replies[r].text),
         Wrote(m), match'[m] = RecordPartyDecision(match[m], p, d, r),
         UNCHANGED <<replies, told, introduced, entrant>>
  PROVE RowsInv'
<1>1. match[m] \in Rows(m) /\ DOMAIN match = Matches
  BY DEF TypeOK
<1>2. \A n \in Matches : InHand(n)' <=> InHand(n)
  BY DEF InHand
<1> SUFFICES ASSUME NEW n \in Matches PROVE RowInv(n)'
  BY DEF RowsInv
<1>3. RowInv(n) /\ RepliesKept
  BY DEF RowsInv, RepliesKept
<1>4. CASE n # m \/ match[m].state # "AWAITING_PARTIES"
  <2>1. match'[n] = match[n]
    BY <1>1, <1>4, VerdictElsewhere DEF Wrote
  <2>2. Unmoved(n)
    BY <1>2, <2>1 DEF Unmoved
  <2> QED BY <1>3, <2>2, UnmovedKept
<1>5. CASE n = m /\ match[m].state = "AWAITING_PARTIES"
  <2>1. match'[m] = RecordPartyDecision(match[m], p, d, r)
    BY <1>1
  <2>2. /\ match'[m].preview = match[m].preview
        /\ match'[m].decision[p] = d /\ match'[m].basis[p] = r
        /\ \A q \in Parties(m) \ {p} :
             match'[m].decision[q] = match[m].decision[q] /\ match'[m].basis[q] = match[m].basis[q]
        /\ d = "decline" => match'[m].state = "REJECTED"
        /\ d = "approve" =>
             \/ match'[m].state = "CONFIRMED" /\ \A q \in Parties(m) : match'[m].decision[q] = "approve"
             \/ match'[m].state = "AWAITING_PARTIES"
    BY <1>1, <1>5, <2>1, VerdictWritten
  <2>3. introduced'[m] = 0 /\ ~InHand(m)'
    BY <1>2, <1>3, <1>5 DEF RowInv, MatchInv
  <2>4. MatchInv(m)'
    BY <2>2, <2>3 DEF MatchInv, Agreed, Unasked
  <2>5. ASSUME NEW q \in Parties(m) PROVE SideInv(m, q)'
    <3>1. SideInv(m, q)
      BY <1>3, <1>5 DEF RowInv
    <3>2. DOMAIN match[m].decision = Parties(m) /\ DOMAIN match[m].basis = Parties(m)
      BY <1>1 DEF Rows
    <3>3. match'[m].state \notin Unasked
      BY <2>2 DEF Unasked
    <3>4. CASE q = p
      <4>1. match'[m].decision[q] = d /\ match'[m].basis[q] = r
        BY <2>2, <3>2, <3>4
      <4>2. match'[m].preview[q] = "sent"
        BY <2>2, <3>4 DEF RepliesInv
      <4>a. p \in Carries[replies[r].from]
        BY DEF RepliesInv
      <4>3. d = "approve" => replies[r].text # "no"
        BY DEF Verdicts
      <4>4. d = "approve" => Grounded(m, q)'
        BY <3>4, <4>1, <4>2, <4>3, <4>a DEF Grounded, SaidYes
      <4>5. told'[m][q] > 0
        BY <2>2, <3>1, <4>2 DEF SideInv
      <4> QED BY <2>2, <3>3, <4>1, <4>4, <4>5 DEF SideInv
    <3>5. CASE q # p
      <4>1. /\ match'[m].decision[q] = match[m].decision[q] /\ match'[m].basis[q] = match[m].basis[q]
            /\ match'[m].preview[q] = match[m].preview[q]
        BY <2>2, <3>2, <3>5
      <4>2. match[m].decision[q] # "decline"
        BY <1>5, <3>1 DEF SideInv
      <4>3. match[m].decision[q] = "approve" => Grounded(m, q)'
        BY <3>1, <4>1 DEF SideInv, Grounded, SaidYes
      <4>4. match[m].preview[q] = "sent" => told[m][q] > 0
        BY <3>1 DEF SideInv
      <4> QED BY <3>3, <4>1, <4>2, <4>3, <4>4 DEF SideInv
    <3> QED BY <3>4, <3>5
  <2> QED BY <1>5, <2>4, <2>5 DEF RowInv
<1> QED BY <1>4, <1>5

LEMMA RowsVerdict ==
  ASSUME IInv, NEW d \in {"approve", "decline"}, TakeVerdict(d)
  PROVE RowsInv'
<1>1. TypeOK /\ RowsInv /\ RepliesInv /\ Answers(reading)
  BY DEF IInv, TakeVerdict, DrainInv
<1>2. at[1] \in Matches /\ Person(at) \in Parties(at[1])
  BY <1>1, PersonOf DEF Answers
<1>3. /\ reading \in DOMAIN replies /\ <<at[1], Person(at)>> \in replies[reading].after
      /\ match[at[1]].decision[Person(at)] = "none"
  BY <1>1 DEF Answers
<1>4. /\ Wrote(at[1])
      /\ match'[at[1]] = RecordPartyDecision(match[at[1]], Person(at), d, reading)
      /\ UNCHANGED <<replies, told, introduced, entrant>>
      /\ d \in Verdicts(replies[reading].text)
  BY <1>1, <1>2 DEF TakeVerdict, TypeOK, Wrote
<1> QED BY <1>1, <1>2, <1>3, <1>4, Judged
(* A slot of an open match is written: "sent" only when the server has the  *)
(* letter, and never over a side that has approved.                         *)
LEMMA SlotRows ==
  ASSUME TypeOK, RowsInv, NEW m \in Matches, NEW p \in Parties(m),
         NEW s \in {"none", "claimed", "sent"},
         match' = [match EXCEPT ![m].preview[p] = s],
         UNCHANGED <<replies, introduced, entrant>>,
         \A n \in Matches : \A q \in Parties(n) : told[n][q] > 0 => told'[n][q] > 0,
         match[m].state \notin Unasked, match[m].preview[p] # "sent",
         s = "sent" => told'[m][p] > 0
  PROVE RowsInv'
<1>1. MatchOK
  BY DEF TypeOK, MatchOK
<1>0. \A n \in Matches :
        /\ match'[n].state = match[n].state /\ match'[n].decision = match[n].decision
        /\ match'[n].basis = match[n].basis
        /\ \A q \in Parties(n) : n # m \/ q # p => match'[n].preview[q] = match[n].preview[q]
        /\ n = m => match'[n].preview[p] = s
  <2> SUFFICES ASSUME NEW n \in Matches
               PROVE /\ match'[n].state = match[n].state /\ match'[n].decision = match[n].decision
                     /\ match'[n].basis = match[n].basis
                     /\ \A q \in Parties(n) : n # m \/ q # p =>
                          match'[n].preview[q] = match[n].preview[q]
                     /\ n = m => match'[n].preview[p] = s
    OBVIOUS
  <2>1. match[m] \in Rows(m) /\ DOMAIN match = Matches
    BY <1>1 DEF MatchOK
  <2>2. CASE n = m
    <3>1. match'[m] = [match[m] EXCEPT !.preview[p] = s]
      BY <2>1
    <3>2. /\ match'[m].state = match[m].state /\ match'[m].decision = match[m].decision
          /\ match'[m].basis = match[m].basis
          /\ match'[m].preview = [match[m].preview EXCEPT ![p] = s]
      BY <2>1, <3>1 DEF Rows
    <3>3. DOMAIN match[m].preview = Parties(m)
      BY <2>1 DEF Rows
    <3> QED BY <2>2, <3>2, <3>3
  <2>3. CASE n # m
    BY <2>1, <2>3
  <2> QED BY <2>2, <2>3
<1> SUFFICES ASSUME NEW n \in Matches PROVE RowInv(n)'
  BY DEF RowsInv
<1>2. /\ match'[n].state = match[n].state /\ match'[n].decision = match[n].decision
      /\ match'[n].basis = match[n].basis
      /\ \A q \in Parties(n) : n # m \/ q # p => match'[n].preview[q] = match[n].preview[q]
      /\ n = m => match'[n].preview[p] = s
  BY <1>0
<1>3. MatchInv(n) /\ (InHand(n)' <=> InHand(n))
  BY DEF RowsInv, RowInv, InHand
<1>4. MatchInv(n)'
  BY <1>2, <1>3 DEF MatchInv
<1>5. ASSUME NEW q \in Parties(n) PROVE SideInv(n, q)'
  <2>1. SideInv(n, q)
    BY DEF RowsInv, RowInv
  <2>3. CASE n = m /\ q = p
    <3>1. match'[n].preview[q] = s
      BY <1>2, <2>3
    <3>2. match[n].decision[q] # "approve"
      BY <2>1, <2>3 DEF SideInv, Grounded
    <3> QED BY <1>2, <2>1, <2>3, <3>1, <3>2 DEF SideInv
  <2>4. CASE ~(n = m /\ q = p)
    <3>1. match'[n].preview[q] = match[n].preview[q]
      BY <1>2, <2>4
    <3>2. match[n].decision[q] = "approve" => Grounded(n, q)'
      BY <1>2, <2>1, <3>1 DEF SideInv, Grounded, SaidYes
    <3> QED BY <1>2, <2>1, <3>1, <3>2 DEF SideInv
  <2> QED BY <2>3, <2>4
<1> QED BY <1>4, <1>5 DEF RowInv

LEMMA AtSlot ==
  ASSUME IInv, Awaited
  PROVE /\ at \in Visits /\ at[1] \in Matches /\ Person(at) \in Parties(at[1])
        /\ match[at[1]].state \notin Unasked /\ match[at[1]].preview[Person(at)] = "claimed"
  BY PersonOf DEF IInv, DrainInv

(* Copies are only ever added.                                              *)
LEMMA ToldGrows ==
  ASSUME TypeOK, NEW m \in Matches, NEW p \in Parties(m), NEW c \in Nat,
         told' = [told EXCEPT ![m][p] = @ + c]
  PROVE /\ \A n \in Matches : \A q \in Parties(n) : told[n][q] > 0 => told'[n][q] > 0
        /\ \A n \in Matches : \A q \in Parties(n) : n # m \/ q # p => told'[n][q] = told[n][q]
        /\ told'[m][p] = told[m][p] + c /\ told[m][p] \in Nat
  BY DEF TypeOK

LEMMA RowsDrain == ASSUME IInv, Drain PROVE RowsInv'
<1>0. /\ TypeOK /\ RowsInv /\ DrainInv
  BY DEF IInv
<1>1. ASSUME NEW v \in visits, ClaimPreview(v) PROVE RowsInv'
  <2>1. v[1] \in Matches /\ Person(v) \in Parties(v[1])
    BY <1>0, PersonOf DEF TypeOK
  <2>2. /\ match' = [match EXCEPT ![v[1]].preview[Person(v)] = "claimed"]
        /\ UNCHANGED <<replies, introduced, entrant, told>>
        /\ match[v[1]].state \notin Unasked /\ match[v[1]].preview[Person(v)] # "sent"
    BY <1>0, <1>1 DEF ClaimPreview, Unsent, DrainInv
  <2> QED BY <1>0, <2>1, <2>2, SlotRows
<1>2. ASSUME NEW v \in visits, FindReplies(v) PROVE RowsInv'
  BY <1>0, <1>2, QuietRows DEF FindReplies, RepliesKept, InHand
<1>3. CASE PreviewTaken
  <2>1. /\ told' = [told EXCEPT ![at[1]][Person(at)] = @ + 1]
        /\ UNCHANGED <<match, replies, introduced, entrant>> /\ Awaited
    BY <1>3 DEF PreviewTaken, Awaited
  <2>2. at[1] \in Matches /\ Person(at) \in Parties(at[1])
    BY <2>1, AtSlot
  <2>3. \A n \in Matches : \A q \in Parties(n) : told[n][q] > 0 => told'[n][q] > 0
    BY <1>0, <2>1, <2>2, ToldGrows
  <2> SUFFICES ASSUME NEW n \in Matches PROVE RowInv(n)'
    BY DEF RowsInv
  <2>4. MatchInv(n) /\ \A q \in Parties(n) : SideInv(n, q)
    BY <1>0 DEF RowsInv, RowInv
  <2>5. MatchInv(n)'
    BY <2>1, <2>4 DEF MatchInv, InHand
  <2>6. \A q \in Parties(n) : SideInv(n, q)'
    BY <2>1, <2>3, <2>4 DEF SideInv, Grounded, SaidYes
  <2> QED BY <2>5, <2>6 DEF RowInv
<1>4. CASE MarkPreviewSent
  <2>1. /\ match' = [match EXCEPT ![at[1]].preview[Person(at)] = "sent"]
        /\ UNCHANGED <<replies, introduced, entrant, told>> /\ Awaited
        /\ told'[at[1]][Person(at)] > 0
    BY <1>0, <1>4 DEF MarkPreviewSent, Awaited, DrainInv
  <2> QED BY <1>0, <2>1, AtSlot, SlotRows
<1>5. ASSUME NEW c \in {0, 1}, PreviewFails(c) PROVE RowsInv'
  <2>1. /\ match' = [match EXCEPT ![at[1]].preview[Person(at)] = "none"]
        /\ UNCHANGED <<replies, introduced, entrant>> /\ Awaited
        /\ told' = [told EXCEPT ![at[1]][Person(at)] = @ + c]
    BY <1>5 DEF PreviewFails, Awaited
  <2>2. \A n \in Matches : \A q \in Parties(n) : told[n][q] > 0 => told'[n][q] > 0
    BY <1>0, <2>1, AtSlot, ToldGrows
  <2> QED BY <1>0, <2>1, <2>2, AtSlot, SlotRows
<1>6. ASSUME NEW r \in unread, ReadReply(r) PROVE RowsInv'
  <2>1. /\ match' = [match EXCEPT ![at[1]].seen = @ \cup {r}]
        /\ UNCHANGED <<replies, introduced, entrant, told>>
    BY <1>6 DEF ReadReply
  <2>2. at[1] \in Matches
    BY <1>0, PersonOf DEF DrainInv, Answers
  <2> SUFFICES ASSUME NEW n \in Matches PROVE RowInv(n)'
    BY DEF RowsInv
  <2>3. /\ match'[n].state = match[n].state /\ match'[n].preview = match[n].preview
        /\ match'[n].decision = match[n].decision /\ match'[n].basis = match[n].basis
    <3>1. match[at[1]] \in Rows(at[1]) /\ DOMAIN match = Matches
      BY <1>0, <2>2 DEF TypeOK
    <3>2. CASE n = at[1]
      BY <2>1, <3>1, <3>2 DEF Rows
    <3>3. CASE n # at[1]
      BY <2>1, <3>1, <3>3
    <3> QED BY <3>2, <3>3
  <2>4. RowInv(n) /\ MatchInv(n)
    BY <1>0 DEF RowsInv, RowInv
  <2>5. SaidAndSent(n) /\ RepliesKept /\ Rightly(n)
    BY <2>1, <2>3, <2>4 DEF SaidAndSent, RepliesKept, Rightly, MatchInv, InHand
  <2> QED BY <2>4, <2>5, Kept
<1>7. ASSUME NEW d \in {"approve", "decline", "unclear"}, TakeVerdict(d) PROVE RowsInv'
  <2>1. CASE d = "unclear"
    BY <1>0, <1>7, <2>1, QuietRows DEF TakeVerdict, RepliesKept, InHand
  <2>2. CASE d # "unclear"
    BY <1>7, <2>2, RowsVerdict
  <2> QED BY <2>1, <2>2
<1>8. CASE EndConsent
  <2>1. \A m \in Matches : InHand(m)' => InHand(m)
    <3>1. EntrantOK
      BY <1>0 DEF TypeOK, EntrantOK, Hand
    <3>2. \A e \in Entrants : entrant'[e].holds = entrant[e].holds
      BY <1>8, <3>1 DEF EndConsent, EntrantOK, Hand
    <3> QED BY <3>2 DEF InHand
  <2> QED BY <1>0, <1>8, <2>1, QuietRows DEF EndConsent, RepliesKept
<1> QED BY <1>1, <1>2, <1>3, <1>4, <1>5, <1>6, <1>7, <1>8 DEF Drain

(* An entrant moves on with at most the letter it had.                      *)
LEMMA HandsKept ==
  ASSUME EntrantOK, NEW e \in Entrants, NEW h \in Hand, entrant' = [entrant EXCEPT ![e] = h],
         h.holds \in {Nothing, entrant[e].holds}
  PROVE \A m \in Matches : InHand(m)' => InHand(m)
<1>1. \A m \in Matches : m # Nothing
  BY ConsentAssumption
<1> SUFFICES ASSUME NEW m \in Matches, InHand(m)' PROVE InHand(m)
  OBVIOUS
<1>2. InHand(m) \/ h.holds = m
  BY HandsMoved
<1> QED BY <1>1, <1>2 DEF InHand

LEMMA RowsDeliver == ASSUME IInv, NEW e \in Entrants, Deliver(e) PROVE RowsInv'
<1>0. /\ TypeOK /\ MatchOK /\ RowsInv /\ EntrantInv /\ EntrantOK /\ entrant[e] \in Hand
      /\ entrant[e].ready \subseteq Matches
  BY DEF IInv, TypeOK, MatchOK, EntrantOK, Hand
<1>1. CASE ReadReady(e)
  <2> DEFINE h == [pc |-> "claiming", ready |-> {m \in Matches : Claimable(match[m])}, holds |-> Nothing]
  <2>1. h \in Hand /\ h.holds = Nothing
    BY DEF Hand, Pcs
  <2>2. entrant' = [entrant EXCEPT ![e] = h] /\ UNCHANGED <<match, replies, told, introduced>>
    BY <1>1 DEF ReadReady
  <2> HIDE DEF h
  <2> QED BY <1>0, <2>1, <2>2, HandsKept, QuietRows DEF RepliesKept
<1>2. ASSUME NEW m \in Matches, ClaimIntroduction(e, m) PROVE RowsInv'
  <2>1. CASE Claimable(match[m])
    <3> DEFINE h == [pc |-> "sending", ready |-> entrant[e].ready \ {m}, holds |-> m]
    <3>1. h \in Hand /\ h.holds = m
      BY <1>0 DEF Hand, Pcs
    <3>2. /\ match' = [match EXCEPT ![m].state = "INTRODUCTION_SENDING"]
          /\ entrant' = [entrant EXCEPT ![e] = h] /\ UNCHANGED <<replies, told, introduced>>
          /\ match[m].state = "CONFIRMED"
      BY <1>2, <2>1 DEF ClaimIntroduction, Claimable
    <3> HIDE DEF h
    <3>3. ASSUME NEW n \in Matches PROVE Rightly(n)
      <4>1. /\ n = m => match'[n].state = "INTRODUCTION_SENDING"
            /\ n # m => match'[n].state = match[n].state
        BY <1>0, <3>2, StateWritten
      <4>2. MatchInv(n) /\ (n # m => (InHand(n)' => InHand(n)))
        BY <1>0, <3>1, <3>2, HandsMoved DEF RowsInv, RowInv
      <4>3. introduced'[n] = introduced[n]
        BY <3>2
      <4>4. CASE n = m
        BY <3>2, <4>1, <4>4 DEF Rightly, Unasked, Agreed
      <4>5. CASE n # m
        BY <4>1, <4>2, <4>3, <4>5 DEF Rightly, MatchInv
      <4> QED BY <4>4, <4>5
    <3> QED BY <1>0, <3>2, <3>3, MovedRows
  <2>2. CASE ~Claimable(match[m])
    <3>1. [entrant[e] EXCEPT !.ready = @ \ {m}] \in Hand
            /\ [entrant[e] EXCEPT !.ready = @ \ {m}].holds = entrant[e].holds
      BY <1>0 DEF Hand
    <3>2. /\ entrant' = [entrant EXCEPT ![e] = [entrant[e] EXCEPT !.ready = @ \ {m}]]
          /\ UNCHANGED <<match, replies, told, introduced>>
      BY <1>2, <2>2 DEF ClaimIntroduction
    <3>3. \A n \in Matches : InHand(n)' => InHand(n)
      BY <1>0, <3>1, <3>2, HandsKept
    <3> QED BY <1>0, <3>2, <3>3, QuietRows DEF RepliesKept
  <2> QED BY <2>1, <2>2
<1>3. CASE IntroductionTaken(e)
  <2> DEFINE m == entrant[e].holds
  <2>1. /\ [entrant[e] EXCEPT !.pc = "accepted"] \in Hand
        /\ [entrant[e] EXCEPT !.pc = "accepted"].holds = m
    BY <1>0 DEF Hand, Pcs
  <2>2. /\ entrant' = [entrant EXCEPT ![e] = [entrant[e] EXCEPT !.pc = "accepted"]]
        /\ introduced' = [introduced EXCEPT ![m] = @ + 1]
        /\ UNCHANGED <<match, replies, told>>
    BY <1>3 DEF IntroductionTaken
  <2>3. m \in Matches /\ InHand(m)
    BY <1>0, <1>3 DEF IntroductionTaken, EntrantInv, Hand, InHand
  <2>4. \A n \in Matches : InHand(n)' => InHand(n)
    BY <1>0, <2>1, <2>2, HandsKept
  <2> HIDE DEF m
  <2>5. ASSUME NEW n \in Matches PROVE RowInv(n)'
    <3>1. RowInv(n) /\ MatchInv(n) /\ RepliesKept
      BY <1>0, <2>2 DEF RowsInv, RowInv, RepliesKept
    <3>2. SaidAndSent(n)
      BY <2>2 DEF SaidAndSent
    <3>3. n # m => introduced'[n] = introduced[n]
      BY <1>0, <2>2 DEF TypeOK
    <3>4. Rightly(n)
      BY <2>2, <2>3, <2>4, <3>1, <3>3 DEF Rightly, MatchInv
    <3> QED BY <3>1, <3>2, <3>4, Kept
  <2> QED BY <2>5 DEF RowsInv
<1>4. ASSUME NEW c \in {0, 1},
             RecordIntroduced(e) \/ IntroductionFails(e, c)
      PROVE RowsInv'
  <2> DEFINE m == entrant[e].holds
             h == [entrant[e] EXCEPT !.pc = "claiming", !.holds = Nothing]
  <2>1. h \in Hand /\ h.holds = Nothing
    BY <1>0 DEF Hand, Pcs
  <2>2. entrant' = [entrant EXCEPT ![e] = h] /\ UNCHANGED <<replies, told>>
    BY <1>4 DEF RecordIntroduced, IntroductionFails, NextOf
  <2>3. m \in Matches /\ InHand(m)
    BY <1>0, <1>4 DEF RecordIntroduced, IntroductionFails, EntrantInv, Hand, InHand
  <2>4. \/ match' = [match EXCEPT ![m] = MarkIntroduced(@)] /\ introduced' = introduced
        \/ match' = [match EXCEPT ![m] = FailIntroduction(@)] /\ introduced' = [introduced EXCEPT ![m] = @ + c]
    BY <1>4 DEF RecordIntroduced, IntroductionFails
  <2>5. \A n \in Matches : InHand(n)' => InHand(n)
    <3> HIDE DEF h
    <3> QED BY <1>0, <2>1, <2>2, HandsKept
  <2> HIDE DEF h, m
  <2>6. \A n \in Matches : n # m => match'[n] = match[n] /\ introduced'[n] = introduced[n]
    BY <1>0, <2>3, <2>4 DEF TypeOK
  <2>7. /\ match'[m].preview = match[m].preview /\ match'[m].decision = match[m].decision
        /\ match'[m].basis = match[m].basis
        /\ match'[m].state # match[m].state => match'[m].state \in Agreed /\ match[m].state \in Agreed
    <3>1. match[m] \in Rows(m) /\ DOMAIN match = Matches
      BY <1>0, <2>3 DEF TypeOK
    <3>2. match'[m] \in {MarkIntroduced(match[m]), FailIntroduction(match[m])}
      BY <2>3, <2>4, <3>1
    <3> QED BY <3>1, <3>2 DEF MarkIntroduced, FailIntroduction, Rows, Agreed
  <2>8. ASSUME NEW n \in Matches PROVE RowInv(n)'
    <3>1. RowInv(n) /\ MatchInv(n) /\ RepliesKept
      BY <1>0, <2>2 DEF RowsInv, RowInv, RepliesKept
    <3>2. SaidAndSent(n)
      BY <2>2, <2>6, <2>7 DEF SaidAndSent
    <3>3. Rightly(n)
      <4>1. CASE n = m
        BY <2>3, <2>7, <3>1, <4>1 DEF Rightly, MatchInv, Agreed, Unasked
      <4>2. CASE n # m
        BY <2>5, <2>6, <3>1, <4>2 DEF Rightly, MatchInv
      <4> QED BY <4>1, <4>2
    <3> QED BY <3>1, <3>2, <3>3, Kept
  <2> QED BY <2>8 DEF RowsInv
<1>5. CASE Leave(e)
  <2>1. Idle \in Hand /\ Idle.holds = Nothing
    BY DEF Hand, Idle, Pcs
  <2>2. entrant' = [entrant EXCEPT ![e] = Idle] /\ UNCHANGED <<match, replies, told, introduced>>
    BY <1>5 DEF Leave
  <2>3. \A n \in Matches : InHand(n)' => InHand(n)
    BY <1>0, <2>1, <2>2, HandsKept
  <2> QED BY <1>0, <2>2, <2>3, QuietRows DEF RepliesKept
<1> QED BY <1>1, <1>2, <1>3, <1>4, <1>5 DEF Deliver

LEMMA RowsClock == ASSUME IInv, ClockTick PROVE RowsInv'
<1>1. /\ TypeOK /\ RowsInv /\ match' = [m \in Matches |-> [match[m] EXCEPT !.due = TRUE]]
      /\ UNCHANGED <<replies, told, introduced, entrant>>
  BY DEF IInv, ClockTick
<1> SUFFICES ASSUME NEW m \in Matches PROVE RowInv(m)'
  BY DEF RowsInv
<1>2. match[m] \in Rows(m) /\ match'[m] = [match[m] EXCEPT !.due = TRUE]
  BY <1>1 DEF TypeOK
<1>3. /\ match'[m].state = match[m].state /\ match'[m].preview = match[m].preview
      /\ match'[m].decision = match[m].decision /\ match'[m].basis = match[m].basis
  BY <1>2 DEF Rows
<1>4. RowInv(m) /\ MatchInv(m)
  BY <1>1 DEF RowsInv, RowInv
<1>5. SaidAndSent(m) /\ RepliesKept /\ Rightly(m)
  BY <1>1, <1>3, <1>4 DEF SaidAndSent, RepliesKept, Rightly, MatchInv, InHand
<1> QED BY <1>4, <1>5, Kept

(* What boot makes of a row: claims are dropped, introductions due again.   *)
LEMMA BootWritten ==
  ASSUME NEW m \in Matches, NEW row \in Rows(m), NEW new, new = Released(Requeued(row))
  PROVE /\ new.decision = row.decision /\ new.basis = row.basis
        /\ new.state = row.state \/ (row.state = "INTRODUCTION_SENDING" /\ new.state = "CONFIRMED")
        /\ row.state # "AWAITING_PARTIES" => new.preview = row.preview
        /\ \A p \in Parties(m) :
             new.preview[p] = IF row.state = "AWAITING_PARTIES" /\ row.preview[p] = "claimed"
                                THEN "none" ELSE row.preview[p]
<1> DEFINE old == Requeued(row)
<1>1. /\ old \in Rows(m) /\ old.decision = row.decision /\ old.basis = row.basis
      /\ old.preview = row.preview
      /\ old.state = row.state \/ (row.state = "INTRODUCTION_SENDING" /\ old.state = "CONFIRMED")
      /\ row.state = "AWAITING_PARTIES" <=> old.state = "AWAITING_PARTIES"
  <2>1. CASE row.state \in {"INTRODUCTION_SENDING", "CONFIRMED"}
    <3>1. old = [row EXCEPT !.state = "CONFIRMED", !.due = TRUE]
      BY <2>1 DEF Requeued
    <3>2. "CONFIRMED" \in MatchStates
      BY DEF MatchStates, LiveStates
    <3> HIDE DEF old
    <3> QED BY <2>1, <3>1, <3>2 DEF Rows
  <2>2. CASE row.state \notin {"INTRODUCTION_SENDING", "CONFIRMED"}
    <3>1. old = row
      BY <2>2 DEF Requeued
    <3> HIDE DEF old
    <3> QED BY <3>1
  <2> QED BY <2>1, <2>2
<1>2. new = Released(old)
  OBVIOUS
<1> HIDE DEF old
<1>3. DOMAIN old.preview = Parties(m)
  BY <1>1 DEF Rows
<1>4. CASE old.state = "AWAITING_PARTIES"
  <2>1. new = [old EXCEPT !.preview =
                [p \in DOMAIN old.preview |-> IF old.preview[p] = "claimed" THEN "none" ELSE old.preview[p]]]
    BY <1>2, <1>4 DEF Released
  <2>2. /\ new.decision = old.decision /\ new.basis = old.basis /\ new.state = old.state
        /\ new.preview = [p \in DOMAIN old.preview |->
                           IF old.preview[p] = "claimed" THEN "none" ELSE old.preview[p]]
    BY <1>1, <2>1 DEF Rows
  <2> QED BY <1>1, <1>3, <1>4, <2>2
<1>5. CASE old.state # "AWAITING_PARTIES"
  BY <1>1, <1>2, <1>5 DEF Released
<1> QED BY <1>4, <1>5

LEMMA RowsBoot == ASSUME IInv, Boot PROVE RowsInv'
<1>1. /\ TypeOK /\ RowsInv /\ match' = [m \in Matches |-> Released(Requeued(match[m]))]
      /\ UNCHANGED <<replies, told, introduced, entrant>>
  BY DEF IInv, Boot
<1> SUFFICES ASSUME NEW m \in Matches PROVE RowInv(m)'
  BY DEF RowsInv
<1>2. match[m] \in Rows(m) /\ match'[m] = Released(Requeued(match[m]))
  BY <1>1 DEF TypeOK
<1>3. /\ match'[m].decision = match[m].decision /\ match'[m].basis = match[m].basis
      /\ \/ match'[m].state = match[m].state
         \/ match[m].state = "INTRODUCTION_SENDING" /\ match'[m].state = "CONFIRMED"
      /\ match[m].state # "AWAITING_PARTIES" => match'[m].preview = match[m].preview
      /\ \A p \in Parties(m) :
           match'[m].preview[p] = IF match[m].state = "AWAITING_PARTIES" /\ match[m].preview[p] = "claimed"
                                    THEN "none" ELSE match[m].preview[p]
  BY <1>2, BootWritten
<1>4. RowInv(m) /\ MatchInv(m)
  BY <1>1 DEF RowsInv, RowInv
<1>5. MatchInv(m)'
  BY <1>1, <1>3, <1>4 DEF MatchInv, InHand, Agreed, Unasked
<1>6. ASSUME NEW p \in Parties(m) PROVE SideInv(m, p)'
  <2>1. SideInv(m, p)
    BY <1>4 DEF RowInv
  <2>2. /\ match[m].preview[p] = "sent" => match'[m].preview[p] = "sent"
        /\ match'[m].preview[p] = "sent" => match[m].preview[p] = "sent"
        /\ match[m].preview[p] = "none" => match'[m].preview[p] = "none"
    BY <1>3
  <2>3. match[m].decision[p] = "approve" => Grounded(m, p)'
    BY <1>1, <1>3, <2>1, <2>2 DEF SideInv, Grounded, SaidYes
  <2>4. /\ match'[m].state \in Unasked => match[m].state \in Unasked
        /\ match[m].state = "REJECTED" => match'[m].state = "REJECTED"
    BY <1>3 DEF Unasked
  <2> QED BY <1>1, <1>3, <2>1, <2>2, <2>3, <2>4 DEF SideInv
<1> QED BY <1>5, <1>6 DEF RowInv

(* Whatever happens, every row stays grounded in what was said and sent.    *)
LEMMA StepRows == IInv /\ [Next]_vars => RowsInv'
<1> SUFFICES ASSUME IInv, [Next]_vars PROVE RowsInv'
  OBVIOUS
<1>0. TypeOK /\ RowsInv /\ EntrantOK
  BY DEF IInv, TypeOK, EntrantOK, Hand
<1>1. ASSUME Operator PROVE RowsInv'
  BY <1>1, RowsPropose, RowsReject, RowsConfirm DEF Operator
<1>2. CASE ConnectPass
  <2>1. "tick" \in Entrants /\ entrant' = [entrant EXCEPT !["tick"].pc = "consent"]
          /\ UNCHANGED <<match, replies, told, introduced>>
    BY <1>2 DEF ConnectPass, EnterConsent, Entrants
  <2> QED BY <1>0, <2>1, Entering, QuietRows DEF RepliesKept
<1>3. ASSUME NEW s \in Senders, NEW t \in Texts, Hear(s, t) PROVE RowsInv'
  <2>1. RepliesKept
    BY <1>0, <1>3 DEF Hear, RepliesKept, TypeOK
  <2> QED BY <1>0, <1>3, <2>1, QuietRows DEF Hear, InHand
<1>4. CASE Crash
  <2>1. \A m \in Matches : InHand(m)' => InHand(m)
    BY <1>4, ConsentAssumption DEF Crash, InHand, Idle
  <2> QED BY <1>0, <1>4, <2>1, QuietRows DEF Crash, RepliesKept
<1>5. CASE UNCHANGED vars
  BY <1>0, <1>5, QuietRows DEF vars, drainVars, RepliesKept, InHand
<1> QED BY <1>1, <1>2, <1>3, <1>4, <1>5, RowsDrain, RowsDeliver, RowsClock, RowsBoot DEF Next
-------------------------------------------------------------------------------
(* What a step makes of one row.                                           *)

(* A ruling stands, a round that was opened stays opened, and what is       *)
(* recorded as sent stays recorded.                                         *)
Abides(m) ==
  /\ match[m].state = "REJECTED" => match'[m].state = "REJECTED"
  /\ match[m].state = "INTRODUCED" => match'[m].state \in {"INTRODUCED", "REJECTED"}
  /\ match[m].state \notin Unasked => match'[m].state \notin Unasked
  /\ \A p \in Parties(m) : match[m].preview[p] = "sent" => match'[m].preview[p] = "sent"

(* Nobody but the drain writes what the sides of an open match are told and *)
(* say.                                                                     *)
LeftToTheDrain(m) ==
  \A p \in Parties(m) :
    /\ match'[m].decision[p] = match[m].decision[p]
    /\ match[m].state \notin Unasked => match'[m].preview[p] = match[m].preview[p]

(* Only who sends an introduction, or the operator, ends the sending.       *)
StillSending(m) ==
  match[m].state = "INTRODUCTION_SENDING" => match'[m].state \in {"INTRODUCTION_SENDING", "REJECTED"}

(* The operator's moves, and the drain's.                                   *)
Overruled(m) == match'[m].state \in {match[m].state, "PROPOSED", "AWAITING_PARTIES", "REJECTED"}
Ruled(m) == match'[m].state = match[m].state \/ match[m].state = "AWAITING_PARTIES"

LEMMA RowSame ==
  ASSUME NEW m \in Matches, match'[m] = match[m]
  PROVE Abides(m) /\ LeftToTheDrain(m) /\ StillSending(m) /\ Overruled(m) /\ Ruled(m)
  BY DEF Abides, LeftToTheDrain, StillSending, Overruled, Ruled

LEMMA RowOperator ==
  ASSUME IInv, Operator, NEW m \in Matches
  PROVE Abides(m) /\ LeftToTheDrain(m) /\ StillSending(m) /\ Overruled(m)
<1>0. MatchOK /\ RowInv(m)
  BY DEF IInv, TypeOK, MatchOK, RowsInv
<1>1. ASSUME NEW n \in Matches, Propose(n) PROVE Abides(m) /\ LeftToTheDrain(m) /\ StillSending(m) /\ Overruled(m)
  <2>1. match' = [match EXCEPT ![n].state = "PROPOSED"] /\ match[n].state = "ABSENT"
    BY <1>1 DEF Propose
  <2>2. /\ match'[m].preview = match[m].preview /\ match'[m].decision = match[m].decision
        /\ m = n => match'[m].state = "PROPOSED"
        /\ m # n => match'[m].state = match[m].state
    BY <1>0, <2>1, StateWritten
  <2> QED BY <2>1, <2>2 DEF Abides, LeftToTheDrain, StillSending, Overruled, Unasked
<1>2. ASSUME NEW n \in Matches, Reject(n) PROVE Abides(m) /\ LeftToTheDrain(m) /\ StillSending(m) /\ Overruled(m)
  <2>1. match' = [match EXCEPT ![n].state = "REJECTED"]
    BY <1>2 DEF Reject
  <2>2. /\ match'[m].preview = match[m].preview /\ match'[m].decision = match[m].decision
        /\ m = n => match'[m].state = "REJECTED"
        /\ m # n => match'[m].state = match[m].state
    BY <1>0, <2>1, StateWritten
  <2> QED BY <2>2 DEF Abides, LeftToTheDrain, StillSending, Overruled, Unasked
<1>3. ASSUME NEW e \in Hooks, NEW n \in Matches, Confirm(e, n)
      PROVE Abides(m) /\ LeftToTheDrain(m) /\ StillSending(m) /\ Overruled(m)
  <2>1. /\ match' = [match EXCEPT ![n] = [NewRow(n) EXCEPT !.state = "AWAITING_PARTIES"]]
        /\ match[n].state = "PROPOSED"
    BY <1>3 DEF Confirm
  <2>2. CASE m = n
    <3>1. match'[m] = [NewRow(m) EXCEPT !.state = "AWAITING_PARTIES"]
      BY <1>0, <2>1, <2>2 DEF MatchOK
    <3>2. /\ match'[m].state = "AWAITING_PARTIES"
          /\ \A p \in Parties(m) : match'[m].decision[p] = "none"
      BY <3>1 DEF NewRow
    <3>3. \A p \in Parties(m) : match[m].preview[p] = "none" /\ match[m].decision[p] = "none"
      BY <1>0, <2>1, <2>2 DEF RowInv, SideInv, Unasked
    <3> QED BY <2>1, <2>2, <3>2, <3>3 DEF Abides, LeftToTheDrain, StillSending, Overruled, Unasked
  <2>3. CASE m # n
    <3>1. match'[m] = match[m]
      BY <1>0, <2>1, <2>3 DEF MatchOK
    <3> QED BY <3>1, RowSame
  <2> QED BY <2>2, <2>3
<1> QED BY <1>1, <1>2, <1>3 DEF Operator

LEMMA RowDeliver ==
  ASSUME IInv, NEW e \in Entrants, Deliver(e), NEW m \in Matches
  PROVE /\ Abides(m) /\ LeftToTheDrain(m)
        /\ entrant[e].holds # m => StillSending(m)
<1>0. MatchOK /\ RowInv(m) /\ EntrantInv /\ entrant[e].holds \in Matches \cup {Nothing}
  BY DEF IInv, TypeOK, MatchOK, RowsInv
<1>1. CASE match' = match
  BY <1>1, RowSame
<1>2. ASSUME NEW n \in Matches, ClaimIntroduction(e, n), match' # match
      PROVE Abides(m) /\ LeftToTheDrain(m) /\ StillSending(m)
  <2>1. match' = [match EXCEPT ![n].state = "INTRODUCTION_SENDING"] /\ match[n].state = "CONFIRMED"
    BY <1>2 DEF ClaimIntroduction, Claimable
  <2>2. /\ match'[m].preview = match[m].preview /\ match'[m].decision = match[m].decision
        /\ m = n => match'[m].state = "INTRODUCTION_SENDING"
        /\ m # n => match'[m].state = match[m].state
    BY <1>0, <2>1, StateWritten
  <2> QED BY <2>1, <2>2 DEF Abides, LeftToTheDrain, StillSending, Unasked
<1>3. ASSUME NEW c \in {0, 1}, RecordIntroduced(e) \/ IntroductionFails(e, c)
      PROVE Abides(m) /\ LeftToTheDrain(m) /\ (entrant[e].holds # m => StillSending(m))
  <2> DEFINE n == entrant[e].holds
  <2>1. n \in Matches
    BY <1>0, <1>3 DEF RecordIntroduced, IntroductionFails, EntrantInv
  <2>2. match' = [match EXCEPT ![n] = MarkIntroduced(@)] \/ match' = [match EXCEPT ![n] = FailIntroduction(@)]
    BY <1>3 DEF RecordIntroduced, IntroductionFails
  <2> HIDE DEF n
  <2>3. CASE m = n
    <3>1. match[m] \in Rows(m) /\ DOMAIN match = Matches
      BY <1>0 DEF MatchOK
    <3>2. match'[m] \in {MarkIntroduced(match[m]), FailIntroduction(match[m])}
      BY <2>2, <2>3, <3>1
    <3>3. /\ match'[m].preview = match[m].preview /\ match'[m].decision = match[m].decision
          /\ \/ match'[m].state = match[m].state
             \/ match[m].state = "INTRODUCTION_SENDING" /\ match'[m].state \in {"INTRODUCED", "CONFIRMED"}
      BY <3>1, <3>2 DEF MarkIntroduced, FailIntroduction, Rows
    <3>4. Abides(m)
      BY <3>3 DEF Abides, Unasked
    <3>5. LeftToTheDrain(m)
      BY <3>3 DEF LeftToTheDrain
    <3> QED BY <2>3, <3>4, <3>5 DEF n
  <2>4. CASE m # n
    <3>1. match'[m] = match[m]
      BY <1>0, <2>2, <2>4 DEF MatchOK
    <3> QED BY <3>1, RowSame
  <2> QED BY <2>3, <2>4
<1>4. ReadReady(e) \/ IntroductionTaken(e) \/ Leave(e) => match' = match
  BY DEF ReadReady, IntroductionTaken, Leave
<1> QED BY <1>1, <1>2, <1>3, <1>4 DEF Deliver

LEMMA RowClock ==
  ASSUME IInv, ClockTick, NEW m \in Matches
  PROVE Abides(m) /\ LeftToTheDrain(m) /\ StillSending(m) /\ Ruled(m)
<1>1. match[m] \in Rows(m) /\ match'[m] = [match[m] EXCEPT !.due = TRUE]
  BY DEF IInv, TypeOK, ClockTick
<1>2. /\ match'[m].state = match[m].state /\ match'[m].preview = match[m].preview
      /\ match'[m].decision = match[m].decision
  BY <1>1 DEF Rows
<1> QED BY <1>2 DEF Abides, LeftToTheDrain, StillSending, Ruled

LEMMA RowBoot ==
  ASSUME IInv, Boot, NEW m \in Matches
  PROVE Abides(m)
<1>1. match[m] \in Rows(m) /\ match'[m] = Released(Requeued(match[m]))
  BY DEF IInv, TypeOK, Boot
<1>2. /\ \/ match'[m].state = match[m].state
         \/ match[m].state = "INTRODUCTION_SENDING" /\ match'[m].state = "CONFIRMED"
      /\ \A p \in Parties(m) :
           match'[m].preview[p] = IF match[m].state = "AWAITING_PARTIES" /\ match[m].preview[p] = "claimed"
                                    THEN "none" ELSE match[m].preview[p]
  BY <1>1, BootWritten
<1>3. \A p \in Parties(m) : match[m].preview[p] = "sent" => match'[m].preview[p] = "sent"
  BY <1>2
<1> QED BY <1>2, <1>3 DEF Abides, Unasked

(* A slot is written, and nothing else of the row.                          *)
LEMMA RowSlot ==
  ASSUME MatchOK, NEW n \in Matches, NEW p \in Parties(n), NEW s,
         match' = [match EXCEPT ![n].preview[p] = s], NEW m \in Matches
  PROVE /\ match'[m].state = match[m].state /\ match'[m].decision = match[m].decision
        /\ \A q \in Parties(m) : m # n \/ q # p => match'[m].preview[q] = match[m].preview[q]
        /\ m = n => match'[m].preview[p] = s
<1>1. match[n] \in Rows(n) /\ DOMAIN match = Matches
  BY DEF MatchOK
<1>2. CASE m = n
  <2>1. match'[m] = [match[m] EXCEPT !.preview[p] = s]
    BY <1>1, <1>2
  <2>2. /\ match'[m].state = match[m].state /\ match'[m].decision = match[m].decision
        /\ match'[m].preview = [match[m].preview EXCEPT ![p] = s]
    BY <1>1, <1>2, <2>1 DEF Rows
  <2>3. DOMAIN match[m].preview = Parties(m)
    BY <1>1, <1>2 DEF Rows
  <2> QED BY <1>2, <2>2, <2>3
<1>3. CASE m # n
  BY <1>1, <1>3
<1> QED BY <1>2, <1>3

LEMMA RowVerdict ==
  ASSUME IInv, NEW d \in {"approve", "decline", "unclear"}, TakeVerdict(d), NEW m \in Matches
  PROVE Abides(m) /\ StillSending(m) /\ Ruled(m)
<1>0. MatchOK /\ DrainInv /\ match[m] \in Rows(m)
  BY DEF IInv, TypeOK, MatchOK
<1>1. CASE d = "unclear"
  <2>1. match' = match
    BY <1>1 DEF TakeVerdict
  <2> QED BY <2>1, RowSame
<1>2. CASE d # "unclear"
  <2>1. at[1] \in Matches /\ Person(at) \in Parties(at[1])
    BY <1>0, PersonOf DEF TakeVerdict, DrainInv, Answers
  <2>2. match' = [match EXCEPT ![at[1]] = RecordPartyDecision(@, Person(at), d, reading)]
    BY <1>2 DEF TakeVerdict
  <2>3. CASE m # at[1] \/ match[m].state # "AWAITING_PARTIES"
    <3>1. match'[m] = match[m]
      BY <1>0, <2>1, <2>2, <2>3, VerdictElsewhere DEF MatchOK
    <3> QED BY <3>1, RowSame
  <2>4. CASE m = at[1] /\ match[m].state = "AWAITING_PARTIES"
    <3>1. match'[m] = RecordPartyDecision(match[m], Person(at), d, reading)
      BY <1>0, <2>1, <2>2, <2>4 DEF MatchOK
    <3>2. Person(at) \in Parties(m) /\ d \in {"approve", "decline"}
      BY <1>2, <2>1, <2>4
    <3>3. match'[m].preview = match[m].preview /\ match'[m].state \notin Unasked
      BY <1>0, <2>4, <3>1, <3>2, VerdictWritten DEF Unasked
    <3> QED BY <2>4, <3>3 DEF Abides, StillSending, Ruled, Unasked
  <2> QED BY <2>3, <2>4
<1> QED BY <1>1, <1>2

LEMMA RowDrain ==
  ASSUME IInv, Drain, NEW m \in Matches
  PROVE Abides(m) /\ StillSending(m) /\ Ruled(m)
<1>0. MatchOK /\ DrainInv
  BY DEF IInv, TypeOK, MatchOK
<1>1. ASSUME NEW v \in visits, ClaimPreview(v) PROVE Abides(m) /\ StillSending(m) /\ Ruled(m)
  <2>1. v[1] \in Matches /\ Person(v) \in Parties(v[1])
    BY PersonOf DEF IInv, TypeOK
  <2>2. /\ match' = [match EXCEPT ![v[1]].preview[Person(v)] = "claimed"]
        /\ match[v[1]].preview[Person(v)] = "none"
    BY <1>1 DEF ClaimPreview, Unsent
  <2>3. /\ match'[m].state = match[m].state
        /\ \A q \in Parties(m) : m # v[1] \/ q # Person(v) => match'[m].preview[q] = match[m].preview[q]
    BY <1>0, <2>1, <2>2, RowSlot
  <2> QED BY <2>2, <2>3 DEF Abides, StillSending, Ruled
<1>2. ASSUME MarkPreviewSent \/ \E c \in {0, 1} : PreviewFails(c)
      PROVE Abides(m) /\ StillSending(m) /\ Ruled(m)
  <2>1. PICK s \in {"sent", "none"} : match' = [match EXCEPT ![at[1]].preview[Person(at)] = s]
    BY <1>2 DEF MarkPreviewSent, PreviewFails
  <2>2. Awaited
    BY <1>2 DEF Awaited, MarkPreviewSent, PreviewFails
  <2>3. /\ at[1] \in Matches /\ Person(at) \in Parties(at[1])
        /\ match[at[1]].preview[Person(at)] = "claimed"
    BY <2>2, AtSlot
  <2>4. /\ match'[m].state = match[m].state
        /\ \A q \in Parties(m) : m # at[1] \/ q # Person(at) => match'[m].preview[q] = match[m].preview[q]
    BY <1>0, <2>1, <2>3, RowSlot
  <2> QED BY <2>3, <2>4 DEF Abides, StillSending, Ruled
<1>3. ASSUME NEW r \in unread, ReadReply(r) PROVE Abides(m) /\ StillSending(m) /\ Ruled(m)
  <2>1. at[1] \in Matches /\ match' = [match EXCEPT ![at[1]].seen = @ \cup {r}]
    BY <1>0, <1>3, PersonOf DEF ReadReply, DrainInv, Answers
  <2>2. match'[m].state = match[m].state /\ match'[m].preview = match[m].preview
    <3>1. match[m] \in Rows(m) /\ DOMAIN match = Matches
      BY <1>0 DEF MatchOK
    <3>2. CASE m = at[1]
      BY <2>1, <3>1, <3>2 DEF Rows
    <3>3. CASE m # at[1]
      BY <2>1, <3>1, <3>3
    <3> QED BY <3>2, <3>3
  <2> QED BY <2>2 DEF Abides, StillSending, Ruled
<1>4. PreviewTaken \/ EndConsent \/ (\E v \in visits : FindReplies(v)) => match' = match
  BY DEF PreviewTaken, EndConsent, FindReplies
<1> QED BY <1>1, <1>2, <1>3, <1>4, RowVerdict, RowSame DEF Drain

LEMMA StepAbides ==
  ASSUME IInv, [Next]_vars, NEW m \in Matches
  PROVE Abides(m)
<1>1. ConnectPass \/ Crash \/ UNCHANGED vars \/ (\E s \in Senders, t \in Texts : Hear(s, t))
        => match' = match
  BY DEF ConnectPass, Crash, Hear, vars
<1> QED BY <1>1, RowSame, RowOperator, RowDeliver, RowClock, RowBoot, RowDrain DEF Next
-------------------------------------------------------------------------------
(* The replies, the drain and the entrants.                                *)

LEMMA StepReplies == IInv /\ [Next]_vars => RepliesInv'
<1> SUFFICES ASSUME IInv, [Next]_vars PROVE RepliesInv'
  OBVIOUS
<1>0. RepliesInv
  BY DEF IInv
<1>1. \A m \in Matches : \A p \in Parties(m) :
        match[m].preview[p] = "sent" => match'[m].preview[p] = "sent"
  BY StepAbides DEF Abides
<1>2. CASE replies' = replies
  BY <1>0, <1>1, <1>2 DEF RepliesInv
<1>3. ASSUME NEW s \in Senders, NEW t \in Texts, Hear(s, t) PROVE RepliesInv'
  <2> DEFINE new == [from |-> s, text |-> t,
                     after |-> {v \in Matches \X Carries[s] :
                       v[2] \in Parties(v[1]) /\ match[v[1]].preview[v[2]] = "sent"}]
  <2>1. replies' = Append(replies, new) /\ match' = match
    BY <1>3 DEF Hear
  <2>2. \A m \in Matches : \A p \in Parties(m) : <<m, p>> \in new.after =>
          p \in Carries[new.from] /\ match[m].preview[p] = "sent"
    OBVIOUS
  <2>3. replies \in Seq([from: Senders, text: Texts, after: SUBSET (Matches \X People)])
    BY DEF IInv, TypeOK
  <2> HIDE DEF new
  <2>4. ASSUME NEW r \in DOMAIN replies' PROVE replies'[r] = new \/ (r \in DOMAIN replies /\ replies'[r] = replies[r])
    BY <2>1, <2>3
  <2> QED BY <1>0, <2>1, <2>2, <2>4 DEF RepliesInv
<1>4. (~\E s \in Senders, t \in Texts : Hear(s, t)) => replies' = replies
  BY DEF Next, vars, Operator, Propose, Reject, Confirm, ConnectPass, Drain, ClaimPreview,
         FindReplies, PreviewTaken, MarkPreviewSent, PreviewFails, ReadReply, TakeVerdict,
         EndConsent, Deliver, ReadReady, ClaimIntroduction, IntroductionTaken,
         RecordIntroduced, IntroductionFails, Leave, ClockTick, Crash, Boot
<1> QED BY <1>2, <1>3, <1>4

(* The drain is left alone, and so is what it is at work on.                *)
LEMMA DrainLeft ==
  ASSUME IInv, UNCHANGED drainVars, UNCHANGED told, RepliesKept,
         \A m \in Matches : Abides(m) /\ LeftToTheDrain(m)
  PROVE DrainInv'
<1>0. /\ DrainInv /\ RowsInv /\ RepliesInv /\ visits \subseteq Visits
      /\ UNCHANGED <<drain, visits, at, unread, reading>>
  BY DEF IInv, TypeOK, drainVars
<1>1. \A v \in visits : match'[v[1]].state \notin Unasked
  BY <1>0, PersonOf DEF DrainInv, Abides
<1>2. Awaited => match'[at[1]].state \notin Unasked /\ match'[at[1]].preview[Person(at)] = "claimed"
  BY AtSlot DEF Abides, LeftToTheDrain
<1>3. ASSUME NEW r, Answers(r) PROVE Answers(r)'
  <2>1. at \in Visits /\ at[1] \in Matches /\ Person(at) \in Parties(at[1])
    BY <1>3, PersonOf DEF Answers
  <2>2. match'[at[1]].decision[Person(at)] = match[at[1]].decision[Person(at)]
    BY <2>1 DEF LeftToTheDrain
  <2> QED BY <1>0, <1>3, <2>1, <2>2 DEF Answers, RepliesKept, Person
<1>4. Person(at)' = Person(at)
  BY <1>0 DEF Person
<1> QED BY <1>0, <1>1, <1>2, <1>3, <1>4 DEF DrainInv, Awaited

(* A drain that begins has done nothing yet.                                *)
LEMMA DrainBegins ==
  ASSUME IInv, NEW e, EnterConsent(e, match'), TypeOK', UNCHANGED told, UNCHANGED replies,
         \A m \in Matches : Abides(m) /\ LeftToTheDrain(m)
  PROVE DrainInv'
<1>1. CASE drain = "off"
  <2>1. /\ drain' = "visit" /\ unread' = {}
        /\ visits' = {m \in Matches : match'[m].state = "AWAITING_PARTIES"} \X {1, 2}
    BY <1>1 DEF EnterConsent, IInv, DrainInv
  <2>2. \A v \in visits' : match'[v[1]].state \notin Unasked
    BY <2>1 DEF Unasked
  <2> QED BY <2>1, <2>2 DEF DrainInv, Awaited
<1>2. CASE drain # "off"
  <2>1. UNCHANGED drainVars
    BY <1>2 DEF EnterConsent, drainVars
  <2> QED BY <2>1, DrainLeft DEF RepliesKept
<1> QED BY <1>1, <1>2

LEMMA DrainDrains == ASSUME IInv, TypeOK', Drain PROVE DrainInv'
<1>0. TypeOK /\ MatchOK /\ DrainInv /\ RowsInv /\ RepliesInv /\ visits \subseteq Visits
  BY DEF IInv, TypeOK, MatchOK
<1>a. \A m \in Matches : match[m].state \notin Unasked => match'[m].state \notin Unasked
  BY RowDrain DEF Abides
<1>b. ASSUME visits' \subseteq visits PROVE \A v \in visits' : match'[v[1]].state \notin Unasked
  BY <1>0, <1>a, <1>b, PersonOf DEF DrainInv
<1>1. ASSUME NEW v \in visits, ClaimPreview(v) PROVE DrainInv'
  <2>1. v \in Visits /\ v[1] \in Matches /\ Person(v) \in Parties(v[1])
    BY <1>0, PersonOf
  <2>2. /\ drain' = "sending" /\ at' = v /\ unread' = {} /\ visits' \subseteq visits
        /\ match' = [match EXCEPT ![v[1]].preview[Person(v)] = "claimed"]
    BY <1>1 DEF ClaimPreview, AtVisit, Visited
  <2>3. match'[v[1]].preview[Person(v)] = "claimed"
    <3>1. match[v[1]] \in Rows(v[1]) /\ DOMAIN match = Matches
      BY <1>0, <2>1 DEF MatchOK
    <3>2. match'[v[1]] = [match[v[1]] EXCEPT !.preview[Person(v)] = "claimed"]
      BY <2>1, <2>2, <3>1
    <3> QED BY <2>1, <3>1, <3>2 DEF Rows
  <2>4. match'[v[1]].state \notin Unasked
    BY <1>0, <1>a, <2>1 DEF DrainInv
  <2>5. Person(at)' = Person(v)
    BY <2>2 DEF Person
  <2> QED BY <1>b, <2>1, <2>2, <2>3, <2>4, <2>5 DEF DrainInv, Awaited
<1>2. ASSUME NEW v \in visits, FindReplies(v) PROVE DrainInv'
  <2>1. /\ drain' = "visit" /\ at' = v /\ unread' = Unread(v) /\ visits' \subseteq visits
        /\ UNCHANGED <<match, replies>>
    BY <1>2 DEF FindReplies, AtVisit, Visited
  <2>2. Person(at)' = Person(v)
    BY <2>1 DEF Person
  <2>3. \A r \in unread' : Answers(r)'
    BY <1>0, <2>1, <2>2 DEF Unread, Answers, IsReply
  <2> QED BY <1>b, <2>1, <2>3 DEF DrainInv, Awaited
<1>3. CASE PreviewTaken
  <2>1. /\ drain = "sending" /\ drain' = "accepted"
        /\ told' = [told EXCEPT ![at[1]][Person(at)] = @ + 1]
        /\ UNCHANGED <<match, replies, visits, at, unread>>
    BY <1>3 DEF PreviewTaken
  <2>2. /\ at \in Visits /\ at[1] \in Matches /\ Person(at) \in Parties(at[1])
        /\ match[at[1]].state \notin Unasked /\ match[at[1]].preview[Person(at)] = "claimed"
        /\ unread = {}
    BY <1>0, <2>1, AtSlot DEF Awaited, DrainInv
  <2>3. told'[at[1]][Person(at)] > 0
    <3>1. DOMAIN told = Matches /\ told[at[1]] \in [Parties(at[1]) -> Nat]
      BY <1>0, <2>2 DEF TypeOK
    <3>2. told'[at[1]][Person(at)] = told[at[1]][Person(at)] + 1
      BY <2>1, <2>2, <3>1
    <3> QED BY <2>2, <3>1, <3>2
  <2>4. Person(at)' = Person(at)
    BY <2>1 DEF Person
  <2> QED BY <1>b, <2>1, <2>2, <2>3, <2>4 DEF DrainInv, Awaited
<1>4. ASSUME MarkPreviewSent \/ \E c \in {0, 1} : PreviewFails(c) PROVE DrainInv'
  <2>1. drain' = "visit" /\ visits' = visits /\ unread' = unread
    BY <1>4 DEF MarkPreviewSent, PreviewFails
  <2>2. unread = {}
    BY <1>0, <1>4 DEF MarkPreviewSent, PreviewFails, DrainInv, Awaited
  <2> QED BY <1>b, <2>1, <2>2 DEF DrainInv, Awaited
<1>5. ASSUME NEW r \in unread, ReadReply(r) PROVE DrainInv'
  <2>1. /\ match' = [match EXCEPT ![at[1]].seen = @ \cup {r}] /\ unread' = unread \ {r}
        /\ reading' = r /\ drain' = "reading" /\ UNCHANGED <<replies, visits, at>>
    BY <1>5 DEF ReadReply
  <2>2. at[1] \in Matches /\ match[at[1]] \in Rows(at[1]) /\ DOMAIN match = Matches
    BY <1>0, PersonOf DEF DrainInv, Answers, MatchOK
  <2>3. match'[at[1]].decision = match[at[1]].decision
    BY <2>1, <2>2 DEF Rows
  <2>4. ASSUME NEW s \in unread PROVE Answers(s)'
    <3>1. Answers(s)
      BY <1>0 DEF DrainInv
    <3> QED BY <2>1, <2>3, <3>1 DEF Answers, Person
  <2> QED BY <1>b, <2>1, <2>4 DEF DrainInv, Awaited
<1>6. ASSUME NEW d \in {"approve", "decline", "unclear"}, TakeVerdict(d) PROVE DrainInv'
  <2>1. drain' = "visit" /\ UNCHANGED <<replies, visits, at>>
    BY <1>6 DEF TakeVerdict
  <2>2. CASE d = "unclear"
    <3>1. UNCHANGED <<match, unread>>
      BY <1>6, <2>2 DEF TakeVerdict
    <3>2. ASSUME NEW r \in unread PROVE Answers(r)'
      <4>1. Answers(r)
        BY <1>0 DEF DrainInv
      <4> QED BY <2>1, <3>1, <4>1 DEF Answers, Person
    <3> QED BY <1>b, <2>1, <3>1, <3>2 DEF DrainInv, Awaited
  <2>3. CASE d # "unclear"
    <3>1. unread' = {}
      BY <1>6, <2>3 DEF TakeVerdict
    <3> QED BY <1>b, <2>1, <3>1 DEF DrainInv, Awaited
  <2> QED BY <2>2, <2>3
<1>7. CASE EndConsent
  <2>1. drain' = "off" /\ visits' = {} /\ unread' = {}
    BY <1>7 DEF EndConsent
  <2> QED BY <2>1 DEF DrainInv, Awaited
<1> QED BY <1>1, <1>2, <1>3, <1>4, <1>5, <1>6, <1>7 DEF Drain

LEMMA StepDrain == IInv /\ TypeOK' /\ [Next]_vars => DrainInv'
<1> SUFFICES ASSUME IInv, TypeOK', [Next]_vars PROVE DrainInv'
  OBVIOUS
<1>1. CASE Operator
  <2>1. \A m \in Matches : Abides(m) /\ LeftToTheDrain(m)
    BY <1>1, RowOperator
  <2>2. ASSUME NEW m \in Matches, Propose(m) \/ Reject(m) PROVE DrainInv'
    <3>1. UNCHANGED drainVars /\ UNCHANGED <<told, replies>>
      BY <2>2 DEF Propose, Reject
    <3> QED BY <2>1, <3>1, DrainLeft DEF RepliesKept
  <2>3. ASSUME NEW e \in Hooks, NEW m \in Matches, Confirm(e, m) PROVE DrainInv'
    BY <2>1, <2>3, DrainBegins DEF Confirm
  <2> QED BY <1>1, <2>2, <2>3 DEF Operator
<1>2. CASE ConnectPass
  <2>1. match' = match /\ UNCHANGED <<told, replies>> /\ EnterConsent("tick", match')
    BY <1>2 DEF ConnectPass
  <2> QED BY <2>1, RowSame, DrainBegins
<1>3. ASSUME NEW s \in Senders, NEW t \in Texts, Hear(s, t) PROVE DrainInv'
  <2>1. match' = match /\ told' = told /\ UNCHANGED drainVars
    BY <1>3 DEF Hear
  <2>2. RepliesKept
    BY <1>3 DEF Hear, RepliesKept, IInv, TypeOK
  <2> QED BY <2>1, <2>2, RowSame, DrainLeft
<1>4. ASSUME NEW e \in Entrants, Deliver(e) PROVE DrainInv'
  <2>1. UNCHANGED drainVars /\ UNCHANGED <<told, replies>>
    BY <1>4 DEF Deliver, ReadReady, ClaimIntroduction, IntroductionTaken, RecordIntroduced,
                IntroductionFails, Leave
  <2> QED BY <1>4, <2>1, RowDeliver, DrainLeft DEF RepliesKept
<1>5. CASE ClockTick
  <2>1. UNCHANGED drainVars /\ UNCHANGED <<told, replies>>
    BY <1>5 DEF ClockTick
  <2> QED BY <1>5, <2>1, RowClock, DrainLeft DEF RepliesKept
<1>6. CASE Crash
  BY <1>6 DEF Crash, DrainInv, Awaited
<1>7. CASE Boot
  <2>1. drain = "off" /\ visits = {} /\ unread = {} /\ UNCHANGED drainVars
    BY <1>7 DEF Boot, IInv, EntrantInv, DrainInv
  <2> QED BY <2>1 DEF DrainInv, Awaited, drainVars
<1>8. CASE UNCHANGED vars
  <2>1. match' = match /\ UNCHANGED <<told, replies>> /\ UNCHANGED drainVars
    BY <1>8 DEF vars
  <2> QED BY <2>1, RowSame, DrainLeft DEF RepliesKept
<1> QED BY <1>1, <1>2, <1>3, <1>4, <1>5, <1>6, <1>7, <1>8, DrainDrains DEF Next

(* The entrants, when none of them moves: a letter in hand keeps its row.   *)
LEMMA HandsLeft ==
  ASSUME TypeOK, EntrantInv, UNCHANGED entrant, UNCHANGED up, drain = "off" => drain' = "off",
         \A m \in Matches : Abides(m) /\ StillSending(m)
  PROVE EntrantInv'
<1>1. ASSUME NEW e \in Entrants, entrant[e].holds # Nothing
      PROVE match'[entrant[e].holds].state \in {"INTRODUCTION_SENDING", "REJECTED"}
  <2>1. entrant[e].holds \in Matches
    BY <1>1 DEF TypeOK
  <2> QED BY <1>1, <2>1 DEF EntrantInv, OneHandPerLetter, Abides, StillSending
<1> QED BY <1>1 DEF EntrantInv, OneHandPerLetter

(* Who works is alive: only boot and the clock move while the process is    *)
(* down.                                                                    *)
LEMMA UpToWork ==
  ASSUME IInv
  PROVE /\ Operator \/ ConnectPass \/ Drain \/ (\E e \in Entrants : Deliver(e)) => up
        /\ up \in BOOLEAN
<1>1. EntrantInv /\ DrainInv /\ up \in BOOLEAN
  BY DEF IInv, TypeOK
<1>2. ~up => /\ drain = "off" /\ visits = {} /\ unread = {}
             /\ \A e \in Entrants : entrant[e].pc = "idle"
  BY <1>1 DEF EntrantInv, DrainInv, Idle
<1>3. ~up => ~Operator /\ ~ConnectPass
  BY DEF Operator, Propose, Reject, Confirm, ConnectPass, NextEvent
<1>4. ~up => ~Drain
  BY <1>2 DEF Drain, PreviewTaken, MarkPreviewSent, PreviewFails, TakeVerdict, EndConsent
<1>5. ~up => ~\E e \in Entrants : Deliver(e)
  BY <1>2 DEF Deliver, ReadReady, ClaimIntroduction, IntroductionTaken, RecordIntroduced,
              IntroductionFails, Leave
<1> QED BY <1>1, <1>3, <1>4, <1>5

(* An entrant that waits for the drain keeps what it holds, which is        *)
(* nothing.                                                                 *)
LEMMA EntrantWaits ==
  ASSUME IInv, NEW e \in Entrants, entrant[e].pc = "idle", up, up',
         entrant' = [entrant EXCEPT ![e].pc = "consent"],
         \A m \in Matches : Abides(m) /\ StillSending(m)
  PROVE EntrantInv'
<1>0. TypeOK /\ EntrantOK /\ EntrantInv
  BY DEF IInv, TypeOK, EntrantOK, Hand
<1>1. /\ \A f \in Entrants : entrant'[f].holds = entrant[f].holds
      /\ \A f \in Entrants \ {e} : entrant'[f] = entrant[f]
      /\ entrant'[e].pc = "consent"
  BY <1>0, Entering
<1>2. \A f \in Entrants : entrant'[f].pc \in {"sending", "accepted"} <=> entrant'[f].holds # Nothing
  BY <1>0, <1>1 DEF EntrantInv
<1>3. ASSUME NEW f \in Entrants, entrant[f].holds # Nothing
      PROVE match'[entrant[f].holds].state \in {"INTRODUCTION_SENDING", "REJECTED"}
  <2>1. entrant[f].holds \in Matches
    BY <1>0, <1>3 DEF TypeOK
  <2> QED BY <1>0, <1>3, <2>1 DEF EntrantInv, OneHandPerLetter, Abides, StillSending
<1>4. OneHandPerLetter'
  BY <1>0, <1>1, <1>3 DEF EntrantInv, OneHandPerLetter
<1> QED BY <1>2, <1>4 DEF EntrantInv

(* An entrant moves: its new letter, if any, is one nobody holds and whose  *)
(* row is marked as being sent.                                             *)
LEMMA EntrantMoves ==
  ASSUME IInv, NEW e \in Entrants, NEW h \in Hand, up', entrant' = [entrant EXCEPT ![e] = h],
         h.pc \in {"sending", "accepted"} <=> h.holds # Nothing,
         h.holds # Nothing => /\ match'[h.holds].state \in {"INTRODUCTION_SENDING", "REJECTED"}
                              /\ \A f \in Entrants \ {e} : entrant[f].holds # h.holds,
         \A m \in Matches : Abides(m) /\ (entrant[e].holds # m => StillSending(m))
  PROVE EntrantInv'
<1>0. TypeOK /\ EntrantOK /\ EntrantInv
  BY DEF IInv, TypeOK, EntrantOK, Hand
<1>1. entrant'[e] = h /\ \A f \in Entrants \ {e} : entrant'[f] = entrant[f]
  BY <1>0, Moved
<1>2. \A f \in Entrants : entrant'[f].pc \in {"sending", "accepted"} <=> entrant'[f].holds # Nothing
  BY <1>0, <1>1 DEF EntrantInv
<1>3. ASSUME NEW f \in Entrants \ {e}, entrant[f].holds # Nothing
      PROVE match'[entrant[f].holds].state \in {"INTRODUCTION_SENDING", "REJECTED"}
  <2>1. entrant[f].holds \in Matches /\ entrant[e].holds # entrant[f].holds
    BY <1>0, <1>3 DEF TypeOK, EntrantInv, OneHandPerLetter
  <2> QED BY <1>0, <1>3, <2>1 DEF EntrantInv, OneHandPerLetter, Abides, StillSending
<1>4. ASSUME NEW f \in Entrants, entrant'[f].holds # Nothing, NEW g \in Entrants \ {f}
      PROVE entrant'[g].holds # entrant'[f].holds
  <2>1. CASE f = e
    BY <1>1, <1>4, <2>1
  <2>2. CASE g = e
    BY <1>1, <1>4, <2>2
  <2>3. CASE f # e /\ g # e
    BY <1>0, <1>1, <1>4, <2>3 DEF EntrantInv, OneHandPerLetter
  <2> QED BY <2>1, <2>2, <2>3
<1>5. OneHandPerLetter'
  BY <1>1, <1>3, <1>4 DEF OneHandPerLetter
<1> QED BY <1>2, <1>5 DEF EntrantInv

LEMMA EntrantsDeliver == ASSUME IInv, NEW e \in Entrants, Deliver(e) PROVE EntrantInv'
<1>0. /\ TypeOK /\ MatchOK /\ EntrantInv /\ entrant[e] \in Hand /\ entrant[e].ready \subseteq Matches
      /\ \A m \in Matches : Abides(m) /\ (entrant[e].holds # m => StillSending(m))
  BY RowDeliver DEF IInv, TypeOK, MatchOK, Hand
<1>1. up'
  <2>1. up
    BY UpToWork
  <2>2. up' = up
    BY DEF Deliver, ReadReady, ClaimIntroduction, IntroductionTaken, RecordIntroduced,
           IntroductionFails, Leave
  <2> QED BY <2>1, <2>2
<1>2. CASE ReadReady(e)
  <2> DEFINE h == [pc |-> "claiming", ready |-> {m \in Matches : Claimable(match[m])}, holds |-> Nothing]
  <2>1. h \in Hand /\ h.holds = Nothing /\ h.pc = "claiming"
    BY DEF Hand, Pcs
  <2>2. entrant' = [entrant EXCEPT ![e] = h]
    BY <1>2 DEF ReadReady
  <2> HIDE DEF h
  <2> QED BY <1>0, <1>1, <2>1, <2>2, EntrantMoves
<1>3. ASSUME NEW m \in Matches, ClaimIntroduction(e, m) PROVE EntrantInv'
  <2>1. CASE Claimable(match[m])
    <3> DEFINE h == [pc |-> "sending", ready |-> entrant[e].ready \ {m}, holds |-> m]
    <3>1. h \in Hand /\ h.holds = m /\ h.pc = "sending"
      BY <1>0 DEF Hand, Pcs
    <3>2. /\ match' = [match EXCEPT ![m].state = "INTRODUCTION_SENDING"]
          /\ entrant' = [entrant EXCEPT ![e] = h] /\ match[m].state = "CONFIRMED"
      BY <1>3, <2>1 DEF ClaimIntroduction, Claimable
    <3>3. match'[m].state = "INTRODUCTION_SENDING"
      BY <1>0, <3>2, StateWritten
    <3>4. \A f \in Entrants : entrant[f].holds # m
      BY <1>0, <3>2, ConsentAssumption DEF EntrantInv, OneHandPerLetter
    <3> HIDE DEF h
    <3> QED BY <1>0, <1>1, <3>1, <3>2, <3>3, <3>4, EntrantMoves, ConsentAssumption
  <2>2. CASE ~Claimable(match[m])
    <3> DEFINE h == [entrant[e] EXCEPT !.ready = @ \ {m}]
    <3>1. h \in Hand /\ h.holds = entrant[e].holds /\ h.pc = entrant[e].pc
      BY <1>0 DEF Hand
    <3>2. entrant' = [entrant EXCEPT ![e] = h] /\ match' = match
      BY <1>3, <2>2 DEF ClaimIntroduction
    <3>3. h.holds = Nothing
      BY <1>0, <1>3, <3>1 DEF ClaimIntroduction, EntrantInv
    <3>4. h.pc = "claiming"
      BY <1>3, <3>1 DEF ClaimIntroduction
    <3> HIDE DEF h
    <3> QED BY <1>0, <1>1, <3>1, <3>2, <3>3, <3>4, EntrantMoves
  <2> QED BY <2>1, <2>2
<1>4. CASE IntroductionTaken(e)
  <2> DEFINE h == [entrant[e] EXCEPT !.pc = "accepted"]
  <2>1. h \in Hand /\ h.holds = entrant[e].holds /\ h.pc = "accepted"
    BY <1>0 DEF Hand, Pcs
  <2>2. entrant' = [entrant EXCEPT ![e] = h] /\ match' = match /\ entrant[e].pc = "sending"
    BY <1>4 DEF IntroductionTaken
  <2> HIDE DEF h
  <2>3. /\ h.holds # Nothing /\ match'[h.holds].state \in {"INTRODUCTION_SENDING", "REJECTED"}
        /\ \A f \in Entrants \ {e} : entrant[f].holds # h.holds
    BY <1>0, <2>1, <2>2 DEF EntrantInv, OneHandPerLetter
  <2> QED BY <1>0, <1>1, <2>1, <2>2, <2>3, EntrantMoves
<1>5. ASSUME NEW c \in {0, 1}, RecordIntroduced(e) \/ IntroductionFails(e, c) PROVE EntrantInv'
  <2> DEFINE h == [entrant[e] EXCEPT !.pc = "claiming", !.holds = Nothing]
  <2>1. h \in Hand /\ h.holds = Nothing /\ h.pc = "claiming"
    BY <1>0 DEF Hand, Pcs
  <2>2. entrant' = [entrant EXCEPT ![e] = h]
    BY <1>5 DEF RecordIntroduced, IntroductionFails, NextOf
  <2> HIDE DEF h
  <2> QED BY <1>0, <1>1, <2>1, <2>2, EntrantMoves
<1>6. CASE Leave(e)
  <2>1. Idle \in Hand /\ Idle.holds = Nothing /\ Idle.pc = "idle"
    BY DEF Hand, Idle, Pcs
  <2>2. entrant' = [entrant EXCEPT ![e] = Idle]
    BY <1>6 DEF Leave
  <2> QED BY <1>0, <1>1, <2>1, <2>2, EntrantMoves
<1> QED BY <1>2, <1>3, <1>4, <1>5, <1>6 DEF Deliver

LEMMA StepEntrants == IInv /\ [Next]_vars => EntrantInv'
<1> SUFFICES ASSUME IInv, [Next]_vars PROVE EntrantInv'
  OBVIOUS
<1>0. TypeOK /\ EntrantOK /\ EntrantInv
  BY DEF IInv, TypeOK, EntrantOK, Hand
<1>1. CASE Operator
  <2>1. \A m \in Matches : Abides(m) /\ StillSending(m)
    BY <1>1, RowOperator
  <2>2. ASSUME NEW m \in Matches, Propose(m) \/ Reject(m) PROVE EntrantInv'
    <3>1. UNCHANGED <<entrant, up, drain>>
      BY <2>2 DEF Propose, Reject, drainVars
    <3> QED BY <1>0, <2>1, <3>1, HandsLeft
  <2>3. ASSUME NEW e \in Hooks, NEW m \in Matches, Confirm(e, m) PROVE EntrantInv'
    <3>1. /\ e \in Entrants /\ entrant[e].pc = "idle" /\ up /\ up'
          /\ entrant' = [entrant EXCEPT ![e].pc = "consent"]
      BY <2>3 DEF Confirm, EnterConsent, NextEvent, Entrants
    <3> QED BY <2>1, <3>1, EntrantWaits
  <2> QED BY <1>1, <2>2, <2>3 DEF Operator
<1>2. CASE ConnectPass
  <2>1. /\ "tick" \in Entrants /\ entrant["tick"].pc = "idle" /\ up /\ up' /\ match' = match
        /\ entrant' = [entrant EXCEPT !["tick"].pc = "consent"]
    BY <1>2 DEF ConnectPass, EnterConsent, NextEvent, Entrants
  <2> QED BY <2>1, RowSame, EntrantWaits
<1>3. ASSUME NEW s \in Senders, NEW t \in Texts, Hear(s, t) PROVE EntrantInv'
  <2>1. UNCHANGED <<match, entrant, up, drain>>
    BY <1>3 DEF Hear, drainVars
  <2> QED BY <1>0, <2>1, RowSame, HandsLeft
<1>4. CASE Drain
  <2>1. \A m \in Matches : Abides(m) /\ StillSending(m)
    BY <1>4, RowDrain
  <2>2. up /\ up'
    <3>1. up' = up
      BY <1>4 DEF Drain, ClaimPreview, FindReplies, PreviewTaken, MarkPreviewSent, PreviewFails,
                  ReadReply, TakeVerdict, EndConsent
    <3> QED BY <1>4, <3>1, UpToWork
  <2>3. \A e \in Entrants : /\ entrant'[e].holds = entrant[e].holds
                            /\ entrant'[e].pc \in {"sending", "accepted"} <=>
                                 entrant[e].pc \in {"sending", "accepted"}
    <3>1. CASE EndConsent
      BY <1>0, <3>1 DEF EndConsent, EntrantOK, Hand
    <3>2. CASE ~EndConsent
      <4>1. entrant' = entrant
        BY <1>4, <3>2 DEF Drain, ClaimPreview, FindReplies, PreviewTaken, MarkPreviewSent,
                          PreviewFails, ReadReply, TakeVerdict
      <4> QED BY <4>1
    <3> QED BY <3>1, <3>2
  <2>4. ASSUME NEW e \in Entrants, entrant[e].holds # Nothing
        PROVE match'[entrant[e].holds].state \in {"INTRODUCTION_SENDING", "REJECTED"}
    <3>1. entrant[e].holds \in Matches
      BY <1>0, <2>4 DEF TypeOK
    <3> QED BY <1>0, <2>1, <2>4, <3>1 DEF EntrantInv, OneHandPerLetter, Abides, StillSending
  <2>5. OneHandPerLetter'
    BY <1>0, <2>3, <2>4 DEF EntrantInv, OneHandPerLetter
  <2>6. \A e \in Entrants : entrant'[e].pc \in {"sending", "accepted"} <=> entrant'[e].holds # Nothing
    BY <1>0, <2>3 DEF EntrantInv
  <2> QED BY <2>2, <2>5, <2>6 DEF EntrantInv
<1>5. CASE ClockTick
  <2>1. UNCHANGED <<entrant, up, drain>>
    BY <1>5 DEF ClockTick, drainVars
  <2> QED BY <1>0, <1>5, <2>1, RowClock, HandsLeft
<1>6. CASE Crash
  <2>1. drain' = "off" /\ entrant' = [e \in Entrants |-> Idle]
    BY <1>6 DEF Crash
  <2> QED BY <2>1 DEF EntrantInv, OneHandPerLetter, Idle
<1>7. CASE Boot
  <2>1. entrant = [e \in Entrants |-> Idle] /\ entrant' = entrant /\ up' = TRUE
    BY <1>0, <1>7 DEF Boot, EntrantInv
  <2> QED BY <2>1 DEF EntrantInv, OneHandPerLetter, Idle
<1>8. CASE UNCHANGED vars
  <2>1. UNCHANGED <<match, entrant, up, drain>>
    BY <1>8 DEF vars, drainVars
  <2> QED BY <1>0, <2>1, RowSame, HandsLeft
<1> QED BY <1>1, <1>2, <1>3, <1>4, <1>5, <1>6, <1>7, <1>8, EntrantsDeliver DEF Next
-------------------------------------------------------------------------------
(* What follows.                                                           *)

(* A row says "sent" of what the server has, an approval answers that       *)
(* preview, a refusal leaves nothing gone, and drain and entrants hold what *)
(* their phase says, in every reachable state.                              *)
LEMMA Invariance == Spec => []IInv
<1>1. IInv /\ [Next]_vars => IInv'
  <2> SUFFICES ASSUME IInv, [Next]_vars PROVE IInv'
    OBVIOUS
  <2>1. TypeOK'
    BY StepTypes DEF IInv
  <2> QED BY <2>1, StepRows, StepReplies, StepDrain, StepEntrants DEF IInv
<1> QED BY <1>1, InitIInv, PTL DEF Spec

(* Consistent: rows, drain and entrants have their types, and no two        *)
(* entrants ever hold the same introduction, whose row says it is being     *)
(* sent unless the operator has rejected it.                                *)
THEOREM ConsentIsConsistent == Spec => []Consistent
<1>1. IInv => Consistent
  BY DEF IInv, EntrantInv, Consistent
<1> QED BY <1>1, Invariance, PTL

(* PartiesDecide: an introduction goes out only when a message under each    *)
(* side's address has answered its preview with a yes, and one no ends the  *)
(* round, whatever the drains, the operator and crashes do in between.      *)
THEOREM BothSidesDecide == Spec => []PartiesDecide
<1>1. IInv => PartiesDecide
  <2> SUFFICES ASSUME IInv PROVE PartiesDecide
    OBVIOUS
  <2>1. BothSaidYes
    <3> SUFFICES ASSUME NEW m \in Matches,
                        match[m].state \in {"CONFIRMED", "INTRODUCTION_SENDING", "INTRODUCED"}
                          \/ introduced[m] > 0,
                        NEW p \in Parties(m)
                 PROVE /\ told[m][p] > 0 /\ match[m].preview[p] = "sent"
                       /\ match[m].decision[p] = "approve"
                       /\ SaidYes(m, p)
      BY DEF BothSaidYes
    <3>1. MatchInv(m) /\ SideInv(m, p)
      BY DEF IInv, RowsInv, RowInv
    <3>2. match[m].decision[p] = "approve"
      BY <3>1 DEF MatchInv, Agreed
    <3>3. Grounded(m, p) /\ told[m][p] > 0
      BY <3>1, <3>2 DEF SideInv, Grounded
    <3> QED BY <3>2, <3>3 DEF Grounded
  <2>2. OneNoIsANo
    <3> SUFFICES ASSUME NEW m \in Matches, NEW p \in Parties(m), match[m].decision[p] = "decline"
                 PROVE /\ match[m].state = "REJECTED" /\ introduced[m] = 0
                       /\ \A e \in Entrants : entrant[e].holds # m
      BY DEF OneNoIsANo
    <3>1. MatchInv(m) /\ SideInv(m, p) /\ introduced[m] \in Nat
      BY DEF IInv, RowsInv, RowInv, TypeOK
    <3>2. ~(introduced[m] > 0) /\ ~InHand(m)
      BY <3>1 DEF MatchInv
    <3> QED BY <3>1, <3>2 DEF SideInv, InHand
  <2> QED BY <2>1, <2>2 DEF PartiesDecide
<1> QED BY <1>1, Invariance, PTL

(* Where no From header contains the address of anybody but its sender, the  *)
(* message behind each approval is from that very side, so the introduction *)
(* goes out only when both of them reply.  Only this is assumed of the mail; *)
(* with a header that carries two addresses it is not so (see README).      *)
THEOREM EachSaidYes ==
  ASSUME \A s \in Senders : Carries[s] \subseteq {s}
  PROVE Spec => [](\A m \in Matches :
          match[m].state \in Agreed \/ introduced[m] > 0 =>
            \A p \in Parties(m) : replies[match[m].basis[p]].from = p)
<1>1. IInv => \A m \in Matches :
        match[m].state \in Agreed \/ introduced[m] > 0 =>
          \A p \in Parties(m) : replies[match[m].basis[p]].from = p
  <2> SUFFICES ASSUME IInv, NEW m \in Matches,
                      match[m].state \in Agreed \/ introduced[m] > 0,
                      NEW p \in Parties(m)
               PROVE replies[match[m].basis[p]].from = p
    OBVIOUS
  <2>1. MatchInv(m) /\ SideInv(m, p)
    BY DEF IInv, RowsInv, RowInv
  <2>2. Grounded(m, p)
    BY <2>1 DEF MatchInv, SideInv
  <2>3. replies[match[m].basis[p]].from \in Senders
    <3> DEFINE Messages == [from : Senders, text : Texts, after : SUBSET (Matches \X People)]
    <3>1. replies \in Seq(Messages)
      BY DEF IInv, TypeOK
    <3>2. match[m].basis[p] \in DOMAIN replies
      BY <2>2 DEF Grounded
    <3>3. \A r \in Messages : r.from \in Senders
      OBVIOUS
    <3>4. replies[match[m].basis[p]] \in Messages
      <4> HIDE DEF Messages
      <4> QED BY <3>1, <3>2
    <3> QED BY <3>3, <3>4
  <2> QED BY <2>2, <2>3 DEF Grounded, SaidYes
<1> QED BY <1>1, Invariance, PTL

(* RulingsStand: no step moves a rejected match, and only the operator      *)
(* moves an introduced one.                                                 *)
THEOREM RulingsAreFinal == Spec => RulingsStand
<1>1. IInv /\ [Next]_vars =>
        [\A m \in Matches :
           /\ match[m].state = "REJECTED" => match'[m].state = "REJECTED"
           /\ match[m].state = "INTRODUCED" => match'[m].state \in {"INTRODUCED", "REJECTED"}]_match
  BY StepAbides DEF Abides
<1> QED BY <1>1, Invariance, PTL DEF Spec, RulingsStand
-------------------------------------------------------------------------------
(* The refinement of DoubleBlind: who is told, who objects, who meets.     *)

Informed(m) == {p \in Parties(m) : told[m][p] > 0}
Objects(m) == \E p \in Parties(m) : match[m].decision[p] = "decline"

Met(m) == introduced[m] > 0

Unheard(m) ==
  /\ Informed(m)' = Informed(m)
  /\ Objects(m)' <=> Objects(m)
  /\ Met(m)' <=> Met(m)

(* A step that changes none of the three is a stutter.                      *)
LEMMA Stutters ==
  ASSUME \A m \in Matches : Unheard(m)
  PROVE UNCHANGED Promise!vars
<1>1. \A m \in Matches : /\ Informed(m)' = Informed(m) /\ Objects(m)' = Objects(m) /\ Met(m)' = Met(m)
  BY DEF Unheard, Objects, Met
<1>2. /\ [m \in Matches |-> Informed(m)]' = [m \in Matches |-> Informed(m)]
      /\ [m \in Matches |-> Objects(m)]' = [m \in Matches |-> Objects(m)]
      /\ [m \in Matches |-> Met(m)]' = [m \in Matches |-> Met(m)]
  BY <1>1, Zenon
<1> QED BY <1>2 DEF Informed, Objects, Met, Promise!vars

LEMMA TellOne ==
  ASSUME NEW m \in Matches, NEW p \in Parties(m), ~(told[m][p] > 0),
         Informed(m)' = Informed(m) \cup {p},
         \A n \in Matches \ {m} : Informed(n)' = Informed(n),
         \A n \in Matches : (Objects(n)' <=> Objects(n)) /\ introduced'[n] = introduced[n]
  PROVE Promise!Next
<1>1. p \in Parties(m) \ [n \in Matches |-> Informed(n)][m]
  BY DEF Informed
<1>2. [n \in Matches |-> Informed(n)]' =
        [[n \in Matches |-> Informed(n)] EXCEPT ![m] = @ \cup {p}]
  OBVIOUS
<1>3. \A n \in Matches : Objects(n)' = Objects(n) /\ Met(n)' = Met(n)
  BY DEF Met, Objects
<1>4. /\ [n \in Matches |-> Objects(n)]' = [n \in Matches |-> Objects(n)]
      /\ [n \in Matches |-> Met(n)]' = [n \in Matches |-> Met(n)]
  BY <1>3, Zenon
<1>5. Promise!Tell(m)
  BY <1>1, <1>2, <1>4 DEF Promise!Tell, Informed, Objects, Met
<1> QED BY <1>5 DEF Promise!Next

LEMMA ObjectOne ==
  ASSUME NEW m \in Matches, Informed(m) # {}, ~Objects(m), ~Met(m),
         Objects(m)', \A n \in Matches \ {m} : Objects(n)' <=> Objects(n),
         \A n \in Matches : Informed(n)' = Informed(n) /\ introduced'[n] = introduced[n]
  PROVE Promise!Next
<1>1. \A n \in Matches : Objects(n)' = IF n = m THEN TRUE ELSE Objects(n)
  BY DEF Objects
<1>2. [n \in Matches |-> Objects(n)]' = [[n \in Matches |-> Objects(n)] EXCEPT ![m] = TRUE]
  BY <1>1, Zenon
<1>3. \A n \in Matches : Met(n)' = Met(n)
  BY DEF Met
<1>4. /\ [n \in Matches |-> Informed(n)]' = [n \in Matches |-> Informed(n)]
      /\ [n \in Matches |-> Met(n)]' = [n \in Matches |-> Met(n)]
  BY <1>3, Zenon
<1>5. Promise!Object(m)
  BY <1>2, <1>4 DEF Promise!Object, Informed, Objects, Met
<1> QED BY <1>5 DEF Promise!Next

LEMMA MeetOne ==
  ASSUME NEW m \in Matches, Informed(m) = Parties(m), ~Objects(m), ~Met(m),
         Met(m)', \A n \in Matches \ {m} : introduced'[n] = introduced[n],
         \A n \in Matches : Informed(n)' = Informed(n) /\ (Objects(n)' <=> Objects(n))
  PROVE Promise!Next
<1>1. \A n \in Matches : Met(n)' = IF n = m THEN TRUE ELSE Met(n)
  BY DEF Met
<1>2. [n \in Matches |-> Met(n)]' = [[n \in Matches |-> Met(n)] EXCEPT ![m] = TRUE]
  BY <1>1, Zenon
<1>3. \A n \in Matches : Objects(n)' = Objects(n)
  BY DEF Objects
<1>4. /\ [n \in Matches |-> Informed(n)]' = [n \in Matches |-> Informed(n)]
      /\ [n \in Matches |-> Objects(n)]' = [n \in Matches |-> Objects(n)]
  BY <1>3, Zenon
<1>5. Promise!Meet(m)
  BY <1>2, <1>4 DEF Promise!Meet, Informed, Objects, Met
<1> QED BY <1>5 DEF Promise!Next

(* Only a verdict changes what a side has said.                             *)
LEMMA SaidStays ==
  ASSUME IInv, [Next]_vars, ~\E d \in {"approve", "decline", "unclear"} : TakeVerdict(d),
         NEW m \in Matches
  PROVE \A p \in Parties(m) : match'[m].decision[p] = match[m].decision[p]
<1>0. TypeOK /\ MatchOK /\ DrainInv /\ match[m] \in Rows(m)
  BY DEF IInv, TypeOK, MatchOK
<1>1. CASE Operator \/ ClockTick \/ \E e \in Entrants : Deliver(e)
  BY <1>1, RowOperator, RowClock, RowDeliver DEF LeftToTheDrain
<1>2. CASE Boot
  <2>1. match'[m] = Released(Requeued(match[m]))
    BY <1>2 DEF Boot
  <2> QED BY <1>0, <2>1, BootWritten
<1>3. ASSUME NEW v \in visits, ClaimPreview(v)
      PROVE \A p \in Parties(m) : match'[m].decision[p] = match[m].decision[p]
  <2>1. v[1] \in Matches /\ Person(v) \in Parties(v[1])
    BY <1>0, PersonOf DEF TypeOK
  <2>2. match' = [match EXCEPT ![v[1]].preview[Person(v)] = "claimed"]
    BY <1>3 DEF ClaimPreview
  <2>3. match'[m].decision = match[m].decision
    BY <1>0, <2>1, <2>2, RowSlot
  <2> QED BY <2>3
<1>4. ASSUME MarkPreviewSent \/ \E c \in {0, 1} : PreviewFails(c)
      PROVE \A p \in Parties(m) : match'[m].decision[p] = match[m].decision[p]
  <2>1. PICK s \in {"sent", "none"} : match' = [match EXCEPT ![at[1]].preview[Person(at)] = s]
    BY <1>4 DEF MarkPreviewSent, PreviewFails
  <2>2. Awaited
    BY <1>4 DEF Awaited, MarkPreviewSent, PreviewFails
  <2>3. at[1] \in Matches /\ Person(at) \in Parties(at[1])
    BY <2>2, AtSlot
  <2>4. match'[m].decision = match[m].decision
    BY <1>0, <2>1, <2>3, RowSlot
  <2> QED BY <2>4
<1>5. ASSUME NEW r \in unread, ReadReply(r)
      PROVE \A p \in Parties(m) : match'[m].decision[p] = match[m].decision[p]
  <2>1. at[1] \in Matches /\ match' = [match EXCEPT ![at[1]].seen = @ \cup {r}]
    BY <1>0, <1>5, PersonOf DEF ReadReply, DrainInv, Answers
  <2>2. CASE m = at[1]
    <3>1. match'[m] = [match[m] EXCEPT !.seen = @ \cup {r}]
      BY <1>0, <2>1, <2>2 DEF MatchOK
    <3>2. match'[m].decision = match[m].decision
      BY <1>0, <3>1 DEF Rows
    <3> QED BY <3>2
  <2>3. CASE m # at[1]
    BY <1>0, <2>1, <2>3 DEF MatchOK
  <2> QED BY <2>2, <2>3
<1>6. CASE match' = match
  BY <1>6
<1>7. /\ PreviewTaken \/ EndConsent \/ (\E v \in visits : FindReplies(v)) => match' = match
      /\ ConnectPass \/ Crash \/ UNCHANGED vars \/ (\E s \in Senders, t \in Texts : Hear(s, t))
           => match' = match
  BY DEF PreviewTaken, EndConsent, FindReplies, ConnectPass, Crash, Hear, vars
<1> QED BY <1>1, <1>2, <1>3, <1>4, <1>5, <1>6, <1>7 DEF Next, Drain

(* A copy of a preview: its side is told, or was told before.               *)
LEMMA PromiseTold ==
  ASSUME IInv, [Next]_vars, NEW m \in Matches, NEW p \in Parties(m), NEW c \in {0, 1},
         told' = [told EXCEPT ![m][p] = @ + c], UNCHANGED introduced,
         ~\E d \in {"approve", "decline", "unclear"} : TakeVerdict(d)
  PROVE [Promise!Next]_(Promise!vars)
<1>2. /\ DOMAIN told = Matches /\ \A n \in Matches : told[n] \in [Parties(n) -> Nat]
  BY DEF IInv, TypeOK
<1>3. /\ told'[m][p] = told[m][p] + c /\ told[m][p] \in Nat
      /\ \A n \in Matches : \A q \in Parties(n) : n # m \/ q # p => told'[n][q] = told[n][q]
  BY <1>2
<1>4. \A n \in Matches : (Objects(n)' <=> Objects(n)) /\ introduced'[n] = introduced[n]
  BY SaidStays DEF Objects
<1>5. \A n \in Matches \ {m} : Informed(n)' = Informed(n)
  BY <1>3 DEF Informed
<1>6. CASE c = 0 \/ told[m][p] > 0
  <2>0. \A q \in Parties(m) : told'[m][q] > 0 <=> told[m][q] > 0
    BY <1>3, <1>6
  <2>1. Informed(m)' = Informed(m)
    BY <2>0 DEF Informed
  <2>2. \A n \in Matches : Unheard(n)
    BY <1>4, <1>5, <2>1 DEF Unheard, Met
  <2> QED BY <2>2, Stutters
<1>7. CASE c = 1 /\ ~(told[m][p] > 0)
  <2>0. \A q \in Parties(m) : told'[m][q] > 0 <=> told[m][q] > 0 \/ q = p
    BY <1>3, <1>7
  <2>1. Informed(m)' = Informed(m) \cup {p}
    BY <2>0 DEF Informed
  <2> QED BY <1>4, <1>5, <1>7, <2>1, TellOne
<1> QED BY <1>6, <1>7

(* A copy of an introduction: the two meet, or have met.                    *)
LEMMA PromiseMet ==
  ASSUME IInv, [Next]_vars, NEW m \in Matches, InHand(m), NEW c \in {0, 1},
         introduced' = [introduced EXCEPT ![m] = @ + c], UNCHANGED told,
         ~\E d \in {"approve", "decline", "unclear"} : TakeVerdict(d)
  PROVE [Promise!Next]_(Promise!vars)
<1>2. introduced \in [Matches -> Nat]
  BY DEF IInv, TypeOK
<1>3. /\ introduced'[m] = introduced[m] + c /\ introduced[m] \in Nat
      /\ \A n \in Matches \ {m} : introduced'[n] = introduced[n]
  BY <1>2
<1>4. \A n \in Matches : (Objects(n)' <=> Objects(n)) /\ Informed(n)' = Informed(n)
  BY SaidStays DEF Objects, Informed
<1>5. CASE c = 0 \/ introduced[m] > 0
  <2>1. \A n \in Matches : Unheard(n)
    BY <1>3, <1>4, <1>5 DEF Unheard, Met
  <2> QED BY <2>1, Stutters
<1>6. CASE c = 1 /\ ~(introduced[m] > 0)
  <2>1. MatchInv(m) /\ \A p \in Parties(m) : SideInv(m, p)
    BY DEF IInv, RowsInv, RowInv
  <2>2. \A p \in Parties(m) : match[m].decision[p] = "approve"
    BY <2>1 DEF MatchInv
  <2>3. Informed(m) = Parties(m) /\ ~Objects(m)
    BY <2>1, <2>2 DEF Informed, Objects, SideInv, Grounded
  <2>4. ~Met(m) /\ Met(m)'
    BY <1>3, <1>6 DEF Met
  <2> QED BY <1>3, <1>4, <2>3, <2>4, MeetOne
<1> QED BY <1>5, <1>6

(* A verdict: a no in time objects, and nothing else is heard.              *)
LEMMA PromiseSaid ==
  ASSUME IInv, NEW m \in Matches, NEW p \in Parties(m), m = at[1], p = Person(at),
         NEW d \in {"approve", "decline", "unclear"}, TakeVerdict(d)
  PROVE [Promise!Next]_(Promise!vars)
<1>0. TypeOK /\ RowsInv /\ RepliesInv /\ Answers(reading) /\ DOMAIN match = Matches
  BY DEF IInv, TypeOK, TakeVerdict, DrainInv
<1>2. \A n \in Matches : Informed(n)' = Informed(n) /\ introduced'[n] = introduced[n]
  BY DEF TakeVerdict, Informed
<1>3. /\ d = "unclear" => match' = match
      /\ d # "unclear" => match' = [match EXCEPT ![m] = RecordPartyDecision(@, p, d, reading)]
  BY DEF TakeVerdict
<1>4. match[m].decision[p] = "none" /\ p \in Informed(m)
  <2>1. match[m].preview[p] = "sent"
    BY <1>0 DEF Answers, RepliesInv
  <2>2. told[m][p] > 0
    BY <1>0, <2>1 DEF RowsInv, RowInv, SideInv
  <2> QED BY <1>0, <2>2 DEF Answers, Informed
<1>5. match[m] \in Rows(m) /\ MatchInv(m) /\ introduced[m] \in Nat /\ (\A q \in Parties(m) : SideInv(m, q))
  BY <1>0 DEF TypeOK, RowsInv, RowInv
<1>6. CASE d = "unclear" \/ match[m].state # "AWAITING_PARTIES"
  <2>1. \A n \in Matches : match'[n] = match[n]
    BY <1>0, <1>3, <1>6, VerdictElsewhere
  <2>2. \A n \in Matches : Unheard(n)
    BY <1>2, <2>1 DEF Unheard, Objects, Met
  <2> QED BY <2>2, Stutters
<1>7. CASE d # "unclear" /\ match[m].state = "AWAITING_PARTIES"
  <2>1. match'[m] = RecordPartyDecision(match[m], p, d, reading) /\ \A n \in Matches \ {m} : match'[n] = match[n]
    BY <1>0, <1>3, <1>7
  <2>2. /\ match'[m].decision[p] = d
        /\ \A q \in Parties(m) \ {p} : match'[m].decision[q] = match[m].decision[q]
    BY <1>5, <1>7, <2>1, VerdictWritten
  <2>3. ~Objects(m)
    BY <1>5, <1>7 DEF Objects, SideInv
  <2>4. \A n \in Matches \ {m} : Objects(n)' <=> Objects(n)
    BY <2>1 DEF Objects
  <2>5. CASE d = "decline"
    <3>1. Objects(m)'
      BY <2>2, <2>5 DEF Objects
    <3>2. ~Met(m) /\ Informed(m) # {}
      BY <1>4, <1>5, <1>7 DEF Met, MatchInv
    <3> QED BY <1>2, <2>3, <2>4, <3>1, <3>2, ObjectOne
  <2>6. CASE d = "approve"
    <3>0. \A q \in Parties(m) : match'[m].decision[q] # "decline"
      BY <2>2, <2>3, <2>6 DEF Objects
    <3>1. Objects(m)' <=> Objects(m)
      BY <2>3, <3>0 DEF Objects
    <3>2. \A n \in Matches : Unheard(n)
      BY <1>2, <2>4, <3>1 DEF Unheard, Met
    <3> QED BY <3>2, Stutters
  <2> QED BY <1>7, <2>5, <2>6
<1> QED BY <1>6, <1>7

LEMMA PromiseStep == IInv /\ [Next]_vars => [Promise!Next]_(Promise!vars)
<1> SUFFICES ASSUME IInv, [Next]_vars PROVE [Promise!Next]_(Promise!vars)
  OBVIOUS
<1>1. ASSUME NEW d \in {"approve", "decline", "unclear"}, TakeVerdict(d)
      PROVE [Promise!Next]_(Promise!vars)
  <2>1. PICK m \in Matches : m = at[1] /\ Person(at) \in Parties(m)
    BY <1>1, PersonOf DEF IInv, TakeVerdict, DrainInv, Answers
  <2>2. PICK p \in Parties(m) : p = Person(at)
    BY <2>1
  <2> QED BY <1>1, <2>1, <2>2, PromiseSaid
<1>2. ASSUME ~\E d \in {"approve", "decline", "unclear"} : TakeVerdict(d),
             PreviewTaken \/ \E c \in {0, 1} : PreviewFails(c)
      PROVE [Promise!Next]_(Promise!vars)
  <2>1. PICK c \in {0, 1} : told' = [told EXCEPT ![at[1]][Person(at)] = @ + c]
    BY <1>2 DEF PreviewTaken, PreviewFails
  <2>2. Awaited /\ UNCHANGED introduced
    BY <1>2 DEF PreviewTaken, PreviewFails, Awaited
  <2>3. PICK m \in Matches : m = at[1] /\ Person(at) \in Parties(m)
    BY <2>2, AtSlot
  <2>4. PICK p \in Parties(m) : p = Person(at)
    BY <2>3
  <2>5. told' = [told EXCEPT ![m][p] = @ + c]
    BY <2>1, <2>3, <2>4
  <2> QED BY <1>2, <2>2, <2>5, PromiseTold
<1>3. ASSUME ~\E d \in {"approve", "decline", "unclear"} : TakeVerdict(d),
             NEW e \in Entrants, IntroductionTaken(e) \/ \E c \in {0, 1} : IntroductionFails(e, c)
      PROVE [Promise!Next]_(Promise!vars)
  <2>1. PICK c \in {0, 1} : introduced' = [introduced EXCEPT ![entrant[e].holds] = @ + c]
    BY <1>3 DEF IntroductionTaken, IntroductionFails
  <2>2. entrant[e].pc = "sending" /\ UNCHANGED told
    BY <1>3 DEF IntroductionTaken, IntroductionFails
  <2>3. PICK m \in Matches : m = entrant[e].holds
    BY <2>2 DEF IInv, EntrantInv, TypeOK
  <2>4. InHand(m)
    BY <2>3 DEF InHand
  <2> QED BY <1>3, <2>1, <2>2, <2>3, <2>4, PromiseMet
<1>4. ASSUME ~\E d \in {"approve", "decline", "unclear"} : TakeVerdict(d), UNCHANGED <<told, introduced>>
      PROVE [Promise!Next]_(Promise!vars)
  <2>1. \A m \in Matches : Unheard(m)
    BY <1>4, SaidStays DEF Unheard, Informed, Objects, Met
  <2> QED BY <2>1, Stutters
<1>5. \/ PreviewTaken \/ \E c \in {0, 1} : PreviewFails(c)
      \/ \E e \in Entrants : IntroductionTaken(e) \/ \E c \in {0, 1} : IntroductionFails(e, c)
      \/ \E d \in {"approve", "decline", "unclear"} : TakeVerdict(d)
      \/ UNCHANGED <<told, introduced>>
  BY DEF Next, vars, Operator, Propose, Reject, Confirm, ConnectPass, Hear, Drain, ClaimPreview,
         FindReplies, MarkPreviewSent, ReadReply, EndConsent, Deliver, ReadReady,
         ClaimIntroduction, RecordIntroduced, Leave, ClockTick, Crash, Boot
<1> QED BY <1>1, <1>2, <1>3, <1>4, <1>5

(* KeepsDoubleBlind: nobody is introduced to whom either side was not told, *)
(* or after either side has said no; the graph arm's round implements       *)
(* DoubleBlind.                                                             *)
THEOREM ConsentRefinesDoubleBlind == Spec => KeepsDoubleBlind
<1>1. Init => Promise!Init
  <2> SUFFICES ASSUME Init PROVE Promise!Init
    OBVIOUS
  <2>1. \A m \in Matches : \A p \in Parties(m) : told[m][p] = 0 /\ match[m].decision[p] = "none"
    BY DEF Init, NewRow
  <2>2. \A m \in Matches : Informed(m) = {} /\ Objects(m) = FALSE /\ Met(m) = FALSE
    BY <2>1 DEF Init, Informed, Objects, Met
  <2>3. /\ [m \in Matches |-> Informed(m)] = [m \in Matches |-> {}]
        /\ [m \in Matches |-> Objects(m)] = [m \in Matches |-> FALSE]
        /\ [m \in Matches |-> Met(m)] = [m \in Matches |-> FALSE]
    BY <2>2, Zenon
  <2> QED BY <2>3 DEF Promise!Init, Informed, Objects, Met
<1> QED BY <1>1, PromiseStep, Invariance, PTL DEF Spec, KeepsDoubleBlind, Promise!Spec
-------------------------------------------------------------------------------
(* Resends.  A copy without a record is one a crash or a lost               *)
(* acknowledgement has left.                                                *)

LEMMA ExtraFacts ==
  ASSUME NEW n \in Nat
  PROVE /\ Extra(n) \in Nat /\ Extra(n) <= n /\ n <= Extra(n) + 1 /\ Extra(n + 1) = n
        /\ n = 0 => Extra(n) = n
  BY DEF Extra

LEMMA StrayTypes ==
  ASSUME TypeOK, NEW m \in Matches, NEW i \in {1, 2}
  PROVE /\ Sides[m][i] \in Parties(m) /\ told[m][Sides[m][i]] \in Nat /\ introduced[m] \in Nat
        /\ Stray(m, i) \in Nat /\ StrayIntroductions(m) \in Nat
<1>1. Sides[m][i] \in Parties(m)
  BY DEF Parties
<1>2. told[m][Sides[m][i]] \in Nat /\ introduced[m] \in Nat
  BY <1>1 DEF TypeOK
<1> QED BY <1>1, <1>2, ExtraFacts DEF Stray, StrayIntroductions

LEMMA StrayTypesAfter ==
  ASSUME TypeOK', NEW m \in Matches, NEW i \in {1, 2}
  PROVE Stray(m, i)' \in Nat /\ StrayIntroductions(m)' \in Nat
<1>1. Sides[m][i] \in Parties(m)
  BY DEF Parties
<1>2. told'[m][Sides[m][i]] \in Nat /\ introduced'[m] \in Nat
  BY <1>1 DEF TypeOK
<1> QED BY <1>2, ExtraFacts DEF Stray, StrayIntroductions

(* Nothing more is stray of a side whose record is not lost, or of an       *)
(* introduction that is not owed again.                                     *)
LEMMA StrayKept ==
  ASSUME TypeOK, NEW m \in Matches, NEW i \in {1, 2},
         told'[m][Sides[m][i]] = told[m][Sides[m][i]], Recorded(m, i) => Recorded(m, i)'
  PROVE Stray(m, i)' <= Stray(m, i)
<1>1. told[m][Sides[m][i]] \in Nat
  BY StrayTypes
<1> QED BY <1>1, ExtraFacts DEF Stray

LEMMA OwedKept ==
  ASSUME TypeOK, NEW m \in Matches, introduced'[m] = introduced[m],
         Owed(m)' => Owed(m) \/ introduced[m] = 0
  PROVE StrayIntroductions(m)' <= StrayIntroductions(m)
<1>1. introduced[m] \in Nat
  BY DEF TypeOK
<1> QED BY <1>1, ExtraFacts DEF StrayIntroductions

(* A record is only lost when the process dies between the server's yes and *)
(* its own note of it.                                                      *)
LEMMA RecordStays ==
  ASSUME IInv, [Next]_vars, NEW m \in Matches, NEW i \in {1, 2}, Recorded(m, i), ~Crash
  PROVE Recorded(m, i)'
<1>0. TypeOK /\ Sides[m][i] \in Parties(m)
  BY DEF IInv, Parties
<1>1. CASE match[m].preview[Sides[m][i]] = "sent"
  BY <1>0, <1>1, StepAbides DEF Abides, Recorded
<1>2. CASE drain = "accepted" /\ at = <<m, i>> /\ ~MarkPreviewSent
  <2>1. drain' = drain /\ at' = at
    BY <1>2 DEF Next, vars, drainVars, Operator, Propose, Reject, Confirm, EnterConsent, ConnectPass,
         Hear, Drain, ClaimPreview, FindReplies, AtVisit, PreviewTaken, PreviewFails, ReadReply,
         TakeVerdict, EndConsent, Deliver, ReadReady, ClaimIntroduction, IntroductionTaken,
         RecordIntroduced, IntroductionFails, Leave, ClockTick, Boot
  <2> QED BY <1>2, <2>1 DEF Recorded
<1>3. CASE drain = "accepted" /\ at = <<m, i>> /\ MarkPreviewSent
  <2>1. at[1] = m /\ Person(at) = Sides[m][i]
    BY <1>3 DEF Person
  <2>2. match' = [match EXCEPT ![m].preview[Sides[m][i]] = "sent"]
    BY <1>3, <2>1 DEF MarkPreviewSent
  <2>3. match'[m].preview[Sides[m][i]] = "sent"
    <3>1. match[m] \in Rows(m) /\ DOMAIN match = Matches
      BY <1>0 DEF TypeOK
    <3>2. match'[m] = [match[m] EXCEPT !.preview[Sides[m][i]] = "sent"]
      BY <2>2, <3>1
    <3> QED BY <1>0, <3>1, <3>2 DEF Rows
  <2> QED BY <2>3 DEF Recorded
<1> QED BY <1>1, <1>2, <1>3 DEF Recorded

(* No step but a verdict, and then of a letter of which no copy is out,     *)
(* makes an introduction owed.                                              *)
LEMMA OwedStays ==
  ASSUME IInv, [Next]_vars, ~Crash, NEW m \in Matches, Owed(m)'
  PROVE Owed(m) \/ introduced[m] = 0 \/ \E e \in Entrants, c \in {0, 1} : IntroductionFails(e, c)
<1>0. TypeOK /\ EntrantOK /\ EntrantInv /\ MatchInv(m) /\ match[m] \in Rows(m)
  BY DEF IInv, TypeOK, EntrantOK, Hand, RowsInv, RowInv
<1>a. ASSUME \A e \in Entrants : /\ entrant'[e].holds = entrant[e].holds
                                 /\ entrant'[e].pc = "sending" => entrant[e].pc = "sending",
             match'[m].state \in {match[m].state, "PROPOSED", "AWAITING_PARTIES", "REJECTED"}
               \/ match[m].state = "AWAITING_PARTIES"
      PROVE Owed(m) \/ introduced[m] = 0
  <2>1. CASE match[m].state = "AWAITING_PARTIES"
    BY <1>0, <2>1 DEF MatchInv
  <2>2. CASE match[m].state # "AWAITING_PARTIES"
    BY <1>a, <2>2 DEF Owed, InHand
  <2> QED BY <2>1, <2>2
<1>b. ASSUME NEW e \in Entrants, entrant' = [entrant EXCEPT ![e].pc = "consent"]
      PROVE \A f \in Entrants : /\ entrant'[f].holds = entrant[f].holds
                                /\ entrant'[f].pc = "sending" => entrant[f].pc = "sending"
  BY <1>0, <1>b, Entering
<1>1. CASE Operator
  <2>1. match'[m].state \in {match[m].state, "PROPOSED", "AWAITING_PARTIES", "REJECTED"}
    BY <1>1, RowOperator DEF Overruled
  <2>2. ASSUME NEW n \in Matches, Propose(n) \/ Reject(n) PROVE Owed(m) \/ introduced[m] = 0
    <3>1. entrant' = entrant
      BY <2>2 DEF Propose, Reject
    <3> QED BY <1>a, <2>1, <3>1
  <2>3. ASSUME NEW e \in Hooks, NEW n \in Matches, Confirm(e, n) PROVE Owed(m) \/ introduced[m] = 0
    <3>1. e \in Entrants /\ entrant' = [entrant EXCEPT ![e].pc = "consent"]
      BY <2>3 DEF Confirm, EnterConsent, Entrants
    <3> QED BY <1>a, <1>b, <2>1, <3>1
  <2> QED BY <1>1, <2>2, <2>3 DEF Operator
<1>2. CASE ConnectPass
  <2>1. match' = match /\ "tick" \in Entrants /\ entrant' = [entrant EXCEPT !["tick"].pc = "consent"]
    BY <1>2 DEF ConnectPass, EnterConsent, Entrants
  <2> QED BY <1>a, <1>b, <2>1
<1>3. CASE Drain
  <2>1. match'[m].state = match[m].state \/ match[m].state = "AWAITING_PARTIES"
    BY <1>3, RowDrain DEF Ruled
  <2>2. \A e \in Entrants : /\ entrant'[e].holds = entrant[e].holds
                            /\ entrant'[e].pc = "sending" => entrant[e].pc = "sending"
    <3>1. CASE EndConsent
      BY <1>0, <3>1 DEF EndConsent, EntrantOK, Hand
    <3>2. CASE ~EndConsent
      <4>1. entrant' = entrant
        BY <1>3, <3>2 DEF Drain, ClaimPreview, FindReplies, PreviewTaken, MarkPreviewSent,
                          PreviewFails, ReadReply, TakeVerdict
      <4> QED BY <4>1
    <3> QED BY <3>1, <3>2
  <2> QED BY <1>a, <2>1, <2>2
<1>4. CASE ClockTick
  <2>1. entrant' = entrant /\ Ruled(m)
    BY <1>4, RowClock DEF ClockTick
  <2> QED BY <1>a, <2>1 DEF Ruled
<1>5. CASE Boot
  <2>1. match'[m] = Released(Requeued(match[m])) /\ entrant' = entrant
          /\ entrant = [e \in Entrants |-> Idle]
    BY <1>0, <1>5 DEF Boot, EntrantInv
  <2>2. match'[m].state = match[m].state
          \/ (match[m].state = "INTRODUCTION_SENDING" /\ match'[m].state = "CONFIRMED")
    BY <1>0, <2>1, BootWritten
  <2>3. ~InHand(m)
    BY <2>1, ConsentAssumption DEF InHand, Idle
  <2>4. CASE match'[m].state = match[m].state
    BY <1>a, <2>1, <2>4
  <2>5. CASE match[m].state = "INTRODUCTION_SENDING"
    BY <2>3, <2>5 DEF Owed
  <2> QED BY <2>2, <2>4, <2>5
<1>6. ASSUME NEW e \in Entrants, Deliver(e), ~\E c \in {0, 1} : IntroductionFails(e, c)
      PROVE Owed(m) \/ introduced[m] = 0
  <2>0. entrant[e] \in Hand /\ MatchOK /\ entrant[e].ready \subseteq Matches
    BY <1>0 DEF EntrantOK, TypeOK, MatchOK, Hand
  <2>a. ASSUME NEW h \in Hand, entrant' = [entrant EXCEPT ![e] = h], match' = match,
               entrant[e].holds # Nothing => h.holds = entrant[e].holds,
               h.pc = "sending" => entrant[e].pc = "sending" /\ h.holds = entrant[e].holds
        PROVE Owed(m) \/ introduced[m] = 0
    <3>1. entrant'[e] = h /\ \A f \in Entrants \ {e} : entrant'[f] = entrant[f]
      BY <1>0, <2>a, Moved
    <3>2. InHand(m) => InHand(m)'
      BY <2>a, <3>1, ConsentAssumption DEF InHand
    <3> QED BY <2>a, <3>1, <3>2 DEF Owed
  <2>1. CASE ReadReady(e)
    <3> DEFINE h == [pc |-> "claiming", ready |-> {n \in Matches : Claimable(match[n])}, holds |-> Nothing]
    <3>1. h \in Hand /\ h.pc = "claiming"
      BY DEF Hand, Pcs
    <3>2. entrant' = [entrant EXCEPT ![e] = h] /\ match' = match /\ entrant[e].holds = Nothing
      BY <1>0, <2>1 DEF ReadReady, EntrantInv
    <3> HIDE DEF h
    <3> QED BY <2>a, <3>1, <3>2
  <2>2. ASSUME NEW n \in Matches, ClaimIntroduction(e, n) PROVE Owed(m) \/ introduced[m] = 0
    <3>1. CASE Claimable(match[n])
      <4> DEFINE h == [pc |-> "sending", ready |-> entrant[e].ready \ {n}, holds |-> n]
      <4>1. h \in Hand /\ h.holds = n
        BY <2>0 DEF Hand, Pcs
      <4>2. /\ match' = [match EXCEPT ![n].state = "INTRODUCTION_SENDING"]
            /\ entrant' = [entrant EXCEPT ![e] = h] /\ match[n].state = "CONFIRMED"
            /\ entrant[e].holds = Nothing
        BY <1>0, <2>2, <3>1 DEF ClaimIntroduction, Claimable, EntrantInv
      <4> HIDE DEF h
      <4>3. entrant'[e] = h /\ \A f \in Entrants \ {e} : entrant'[f] = entrant[f]
        BY <1>0, <4>1, <4>2, Moved
      <4>4. CASE m = n
        BY <4>2, <4>4 DEF Owed
      <4>5. CASE m # n
        <5>1. match'[m].state = match[m].state
          BY <2>0, <4>2, <4>5 DEF MatchOK
        <5>2. InHand(m) => InHand(m)'
          BY <4>2, <4>3, ConsentAssumption DEF InHand
        <5> QED BY <4>1, <4>3, <4>5, <5>1, <5>2 DEF Owed
      <4> QED BY <4>4, <4>5
    <3>2. CASE ~Claimable(match[n])
      <4> DEFINE h == [entrant[e] EXCEPT !.ready = @ \ {n}]
      <4>1. h \in Hand /\ h.holds = entrant[e].holds /\ h.pc = entrant[e].pc
        BY <2>0 DEF Hand
      <4>2. entrant' = [entrant EXCEPT ![e] = h] /\ match' = match
        BY <2>2, <3>2 DEF ClaimIntroduction
      <4> HIDE DEF h
      <4> QED BY <2>a, <4>1, <4>2
    <3> QED BY <3>1, <3>2
  <2>3. CASE IntroductionTaken(e)
    <3> DEFINE h == [entrant[e] EXCEPT !.pc = "accepted"]
    <3>1. h \in Hand /\ h.holds = entrant[e].holds /\ h.pc = "accepted"
      BY <2>0 DEF Hand, Pcs
    <3>2. entrant' = [entrant EXCEPT ![e] = h] /\ match' = match
      BY <2>3 DEF IntroductionTaken
    <3> HIDE DEF h
    <3> QED BY <2>a, <3>1, <3>2
  <2>4. CASE RecordIntroduced(e)
    <3> DEFINE h == [entrant[e] EXCEPT !.pc = "claiming", !.holds = Nothing]
    <3>1. h \in Hand /\ h.holds = Nothing /\ h.pc = "claiming"
      BY <2>0 DEF Hand, Pcs
    <3>2. /\ entrant' = [entrant EXCEPT ![e] = h]
          /\ match' = [match EXCEPT ![entrant[e].holds] = MarkIntroduced(@)]
      BY <2>4 DEF RecordIntroduced, NextOf
    <3>3. PICK n \in Matches : n = entrant[e].holds
      BY <1>0, <2>4 DEF RecordIntroduced, EntrantInv, EntrantOK, Hand
    <3> HIDE DEF h
    <3>4. entrant'[e] = h /\ \A f \in Entrants \ {e} : entrant'[f] = entrant[f]
      BY <1>0, <3>1, <3>2, Moved
    <3>5. CASE m = n
      <4>1. match[m].state \in {"INTRODUCTION_SENDING", "REJECTED"}
        BY <1>0, <3>3, <3>5, ConsentAssumption DEF EntrantInv, OneHandPerLetter
      <4>2. match'[m] = MarkIntroduced(match[m])
        BY <2>0, <3>2, <3>3, <3>5 DEF MatchOK
      <4>3. match'[m].state \in {"INTRODUCED", "REJECTED"}
        BY <1>0, <4>1, <4>2 DEF MarkIntroduced, Rows
      <4>4. \A f \in Entrants \ {e} : entrant[f].holds # m
        BY <1>0, <3>3, <3>5, ConsentAssumption DEF EntrantInv, OneHandPerLetter
      <4> QED BY <3>1, <3>4, <4>3, <4>4 DEF Owed
    <3>6. CASE m # n
      <4>1. match'[m].state = match[m].state
        BY <2>0, <3>2, <3>3, <3>6 DEF MatchOK
      <4>2. InHand(m) => InHand(m)'
        BY <3>3, <3>4, <3>6 DEF InHand
      <4> QED BY <3>1, <3>4, <4>1, <4>2 DEF Owed
    <3> QED BY <3>5, <3>6
  <2>5. CASE Leave(e)
    <3>1. Idle \in Hand /\ Idle.pc = "idle"
      BY DEF Hand, Idle, Pcs
    <3>2. entrant' = [entrant EXCEPT ![e] = Idle] /\ match' = match /\ entrant[e].holds = Nothing
      BY <1>0, <2>5 DEF Leave, EntrantInv
    <3> QED BY <2>a, <3>1, <3>2
  <2> QED BY <1>6, <2>1, <2>2, <2>3, <2>4, <2>5 DEF Deliver
<1>7. CASE UNCHANGED vars \/ \E s \in Senders, t \in Texts : Hear(s, t)
  <2>1. match' = match /\ entrant' = entrant
    BY <1>7 DEF vars, Hear
  <2> QED BY <1>a, <2>1
<1> QED BY <1>1, <1>2, <1>3, <1>4, <1>5, <1>6, <1>7 DEF Next

(* What the server has of one side's preview moves the copies of that slot  *)
(* alone.                                                                   *)
LEMMA OtherSlots ==
  ASSUME IInv, Awaited, NEW c \in Nat, told' = [told EXCEPT ![at[1]][Person(at)] = @ + c]
  PROVE /\ at[1] \in Matches /\ at[2] \in {1, 2} /\ at = <<at[1], at[2]>>
        /\ Sides[at[1]][at[2]] = Person(at)
        /\ told'[at[1]][Person(at)] = told[at[1]][Person(at)] + c
        /\ \A m \in Matches : \A i \in {1, 2} : <<m, i>> # at =>
             told'[m][Sides[m][i]] = told[m][Sides[m][i]]
<1>1. at \in Visits /\ at[1] \in Matches /\ Person(at) \in Parties(at[1])
  BY AtSlot
<1>2. at[2] \in {1, 2} /\ at = <<at[1], at[2]>>
  BY <1>1 DEF Visits
<1>3. /\ DOMAIN told = Matches /\ \A m \in Matches : told[m] \in [Parties(m) -> Nat]
  BY DEF IInv, TypeOK
<1>4. told'[at[1]][Person(at)] = told[at[1]][Person(at)] + c
  BY <1>1, <1>3
<1>5. ASSUME NEW m \in Matches, NEW i \in {1, 2}, <<m, i>> # at
      PROVE told'[m][Sides[m][i]] = told[m][Sides[m][i]]
  <2>1. CASE m = at[1]
    <3>1. i # at[2]
      BY <1>2, <1>5, <2>1
    <3>2. Sides[m][i] # Sides[m][at[2]]
      BY <1>2, <3>1, ConsentAssumption
    <3>3. Sides[m][i] # Person(at) /\ Sides[m][i] \in Parties(m)
      BY <2>1, <3>2 DEF Person, Parties
    <3> QED BY <1>1, <1>3, <2>1, <3>3
  <2>2. CASE m # at[1]
    BY <1>1, <1>3, <2>2
  <2> QED BY <2>1, <2>2
<1> QED BY <1>1, <1>2, <1>4, <1>5 DEF Person

(* The copies of a match that are stray, and the mishaps there were.        *)
Strays(m) == Stray(m, 1) + Stray(m, 2) + StrayIntroductions(m)

LEMMA StrayBound ==
  ASSUME TypeOK, TypeOK', StrayInv, NEW m \in Matches, NEW c \in Nat,
         restarts' + lost' = restarts + lost + c, Strays(m)' <= Strays(m) + c
  PROVE Strays(m)' <= restarts' + lost'
<1>1. Strays(m) <= restarts + lost
  BY DEF StrayInv, Strays
<1>2. Strays(m) \in Nat /\ restarts \in Nat /\ lost \in Nat
  <2>1. restarts \in Nat /\ lost \in Nat
    BY ConsentAssumption DEF TypeOK
  <2>2. Stray(m, 1) \in Nat /\ Stray(m, 2) \in Nat /\ StrayIntroductions(m) \in Nat
    BY StrayTypes
  <2> QED BY <2>1, <2>2 DEF Strays
<1>3. Strays(m)' \in Nat
  BY StrayTypesAfter DEF Strays
<1> QED BY <1>1, <1>2, <1>3

(* A crash strands one copy of a match at most: who holds its introduction  *)
(* has both its previews on record.                                         *)
LEMMA StrayCrash ==
  ASSUME IInv, Crash, NEW m \in Matches
  PROVE Strays(m)' <= Strays(m) + 1
<1>0. /\ TypeOK /\ EntrantInv /\ MatchInv(m) /\ UNCHANGED <<match, told, introduced>>
      /\ drain' = "off" /\ (\A i \in {1, 2} : Sides[m][i] \in Parties(m) /\ SideInv(m, Sides[m][i]))
  BY DEF IInv, Crash, RowsInv, RowInv, Parties
<1>1. \A i \in {1, 2} : /\ told[m][Sides[m][i]] \in Nat /\ introduced[m] \in Nat
                        /\ Stray(m, i) \in Nat /\ StrayIntroductions(m) \in Nat
  BY <1>0, StrayTypes
<1>2. ~InHand(m)' /\ ~\E e \in Entrants : entrant'[e].holds = m
  BY ConsentAssumption DEF Crash, InHand, Idle
<1>3. ASSUME NEW i \in {1, 2}
      PROVE /\ Stray(m, i)' <= Stray(m, i) + 1
            /\ ~(drain = "accepted" /\ at = <<m, i>>) => Stray(m, i)' = Stray(m, i)
  <2>1. Recorded(m, i)' <=> match[m].preview[Sides[m][i]] = "sent"
    BY <1>0 DEF Recorded
  <2>2. Recorded(m, i) <=> match[m].preview[Sides[m][i]] = "sent" \/ (drain = "accepted" /\ at = <<m, i>>)
    BY DEF Recorded
  <2> QED BY <1>0, <1>1, <2>1, <2>2, ExtraFacts DEF Stray
<1>4. CASE drain = "accepted" /\ at[1] = m
  <2>1. Awaited /\ match[m].preview[Person(at)] = "claimed" /\ at \in Visits
    BY <1>4, AtSlot DEF Awaited
  <2>2. match[m].decision[Person(at)] # "approve" /\ Person(at) \in Parties(m)
    <3>1. Person(at) \in Parties(m)
      BY <1>4, <2>1, PersonOf
    <3>2. SideInv(m, Person(at))
      BY <3>1 DEF IInv, RowsInv, RowInv
    <3> QED BY <2>1, <3>1, <3>2 DEF SideInv, Grounded
  <2>3. match[m].state \notin Agreed /\ ~(introduced[m] > 0) /\ ~InHand(m)
    BY <1>0, <2>2 DEF MatchInv
  <2>4. StrayIntroductions(m)' <= StrayIntroductions(m)
    BY <1>0, <1>1, <2>3 DEF StrayIntroductions, Extra
  <2>5. at[2] # 1 \/ at[2] # 2
    OBVIOUS
  <2>6. \/ Stray(m, 1)' = Stray(m, 1) /\ Stray(m, 2)' <= Stray(m, 2) + 1
        \/ Stray(m, 2)' = Stray(m, 2) /\ Stray(m, 1)' <= Stray(m, 1) + 1
    <3>1. at[2] # 1 => at # <<m, 1>>
      OBVIOUS
    <3>2. at[2] # 2 => at # <<m, 2>>
      OBVIOUS
    <3> QED BY <1>3, <2>5, <3>1, <3>2
  <2>7. /\ Stray(m, 1)' \in Nat /\ Stray(m, 2)' \in Nat /\ StrayIntroductions(m)' \in Nat
    BY <1>0, <1>1, ExtraFacts DEF Stray, StrayIntroductions
  <2> QED BY <1>1, <2>4, <2>6, <2>7 DEF Strays
<1>5. CASE ~(drain = "accepted" /\ at[1] = m)
  <2>1. \A i \in {1, 2} : Stray(m, i)' = Stray(m, i)
    <3>1. \A i \in {1, 2} : ~(drain = "accepted" /\ at = <<m, i>>)
      BY <1>5
    <3> QED BY <1>3, <3>1
  <2>2. StrayIntroductions(m)' <= StrayIntroductions(m) + 1
    BY <1>0, <1>1, ExtraFacts DEF StrayIntroductions
  <2>3. StrayIntroductions(m)' \in Nat
    BY <1>0, <1>1, ExtraFacts DEF StrayIntroductions
  <2> QED BY <1>1, <2>1, <2>2, <2>3 DEF Strays
<1> QED BY <1>4, <1>5

(* A preview the server takes is recorded with its acknowledgement.         *)
LEMMA StrayTaken ==
  ASSUME IInv, [Next]_vars, PreviewTaken, NEW m \in Matches
  PROVE Strays(m)' <= Strays(m)
<1>0. TypeOK /\ ~Crash
  <2>1. drain' = "accepted"
    BY DEF PreviewTaken
  <2> QED BY <2>1 DEF IInv, Crash
<1>1. /\ Awaited /\ told' = [told EXCEPT ![at[1]][Person(at)] = @ + 1] /\ drain' = "accepted"
      /\ drain = "sending" /\ UNCHANGED <<match, introduced, entrant, at>>
  BY DEF PreviewTaken, Awaited
<1>2. /\ at[1] \in Matches /\ at[2] \in {1, 2} /\ at = <<at[1], at[2]>>
      /\ Sides[at[1]][at[2]] = Person(at)
      /\ told'[at[1]][Person(at)] = told[at[1]][Person(at)] + 1
      /\ \A n \in Matches : \A i \in {1, 2} : <<n, i>> # at =>
           told'[n][Sides[n][i]] = told[n][Sides[n][i]]
  BY <1>1, OtherSlots
<1>3. ASSUME NEW i \in {1, 2} PROVE Stray(m, i)' <= Stray(m, i)
  <2>1. CASE <<m, i>> # at
    <3>1. told'[m][Sides[m][i]] = told[m][Sides[m][i]]
      BY <1>2, <2>1
    <3>2. Recorded(m, i) => Recorded(m, i)'
      BY <1>1 DEF Recorded
    <3> QED BY <1>0, <3>1, <3>2, StrayKept
  <2>2. CASE <<m, i>> = at
    <3>1. told[m][Sides[m][i]] \in Nat /\ told'[m][Sides[m][i]] = told[m][Sides[m][i]] + 1
      BY <1>0, <1>2, <2>2, StrayTypes
    <3>2. match[m].preview[Sides[m][i]] = "claimed"
      BY <1>1, <1>2, <2>2, AtSlot
    <3>3. ~Recorded(m, i) /\ Recorded(m, i)'
      BY <1>1, <2>2, <3>2 DEF Recorded
    <3> QED BY <3>1, <3>3, ExtraFacts DEF Stray
  <2> QED BY <2>1, <2>2
<1>4. StrayIntroductions(m)' <= StrayIntroductions(m)
  <2>1. Owed(m)' => Owed(m)
    BY <1>1 DEF Owed, InHand
  <2> QED BY <1>0, <1>1, <2>1, OwedKept
<1>5. /\ Stray(m, 1) \in Int /\ Stray(m, 2) \in Int /\ StrayIntroductions(m) \in Int
      /\ Stray(m, 1)' \in Int /\ Stray(m, 2)' \in Int /\ StrayIntroductions(m)' \in Int
  BY <1>0, StepTypes, StrayTypes, StrayTypesAfter DEF IInv
<1> QED BY <1>3, <1>4, <1>5 DEF Strays

(* A preview whose send throws is stray only when the server took it.       *)
LEMMA StrayFails ==
  ASSUME IInv, [Next]_vars, NEW c \in {0, 1}, PreviewFails(c), NEW m \in Matches
  PROVE Strays(m)' <= Strays(m) + c
<1>0. TypeOK /\ ~Crash
  <2>1. drain' = "visit"
    BY DEF PreviewFails
  <2> QED BY <2>1 DEF IInv, Crash
<1>1. /\ Awaited /\ told' = [told EXCEPT ![at[1]][Person(at)] = @ + c] /\ drain' = "visit"
      /\ drain = "sending" /\ UNCHANGED <<introduced, entrant>>
  BY DEF PreviewFails, Awaited
<1>2. /\ at[1] \in Matches /\ at[2] \in {1, 2} /\ at = <<at[1], at[2]>>
      /\ Sides[at[1]][at[2]] = Person(at)
      /\ told'[at[1]][Person(at)] = told[at[1]][Person(at)] + c
      /\ \A n \in Matches : \A i \in {1, 2} : <<n, i>> # at =>
           told'[n][Sides[n][i]] = told[n][Sides[n][i]]
  BY <1>1, OtherSlots
<1>3. ASSUME NEW i \in {1, 2}, <<m, i>> # at PROVE Stray(m, i)' <= Stray(m, i)
  <2>1. told'[m][Sides[m][i]] = told[m][Sides[m][i]]
    BY <1>2, <1>3
  <2>2. Recorded(m, i) => Recorded(m, i)'
    BY <1>0, RecordStays
  <2> QED BY <1>0, <2>1, <2>2, StrayKept
<1>4. ASSUME NEW i \in {1, 2}, <<m, i>> = at PROVE Stray(m, i)' <= Stray(m, i) + c
  <2>1. told[m][Sides[m][i]] \in Nat /\ told'[m][Sides[m][i]] = told[m][Sides[m][i]] + c
    BY <1>0, <1>2, <1>4, StrayTypes
  <2>2. match[m].preview[Sides[m][i]] = "claimed"
    BY <1>1, <1>2, <1>4, AtSlot
  <2>3. ~Recorded(m, i)
    BY <1>1, <2>2 DEF Recorded
  <2> QED BY <2>1, <2>3, ExtraFacts DEF Stray
<1>5. StrayIntroductions(m)' <= StrayIntroductions(m)
  <2>1. (\E e \in Entrants, d \in {0, 1} : IntroductionFails(e, d)) => FALSE
    BY <1>1 DEF IntroductionFails, drainVars
  <2>2. introduced'[m] = introduced[m] /\ (Owed(m)' => Owed(m) \/ introduced[m] = 0)
    BY <1>0, <1>1, <2>1, OwedStays
  <2> QED BY <1>0, <2>2, OwedKept
<1>6. /\ Stray(m, 1) \in Int /\ Stray(m, 2) \in Int /\ StrayIntroductions(m) \in Int
      /\ Stray(m, 1)' \in Int /\ Stray(m, 2)' \in Int /\ StrayIntroductions(m)' \in Int
  BY <1>0, StepTypes, StrayTypes, StrayTypesAfter DEF IInv
<1>7. ~(<<m, 1>> = at /\ <<m, 2>> = at)
  OBVIOUS
<1> QED BY <1>3, <1>4, <1>5, <1>6, <1>7 DEF Strays

(* An introduction: what was owed is recorded with its acknowledgement, and *)
(* is owed again when its send throws.                                      *)
LEMMA StrayIntroduced ==
  ASSUME IInv, [Next]_vars, NEW e \in Entrants, NEW c \in {0, 1},
         \/ IntroductionTaken(e) /\ c = 0
         \/ IntroductionFails(e, c),
         NEW m \in Matches
  PROVE Strays(m)' <= Strays(m) + c
<1>0. TypeOK /\ ~Crash /\ EntrantOK /\ EntrantInv /\ MatchOK /\ entrant[e] \in Hand
  <2>1. restarts' = restarts
    BY DEF IntroductionTaken, IntroductionFails
  <2> QED BY <2>1, ConsentAssumption DEF IInv, Crash, TypeOK, EntrantOK, MatchOK, Hand
<1>1. /\ entrant[e].pc = "sending" /\ told' = told
  BY DEF IntroductionTaken, IntroductionFails
<1>2. PICK n \in Matches : n = entrant[e].holds
  BY <1>0, <1>1 DEF EntrantInv, EntrantOK, Hand
<1>3. Owed(n) /\ introduced[n] \in Nat /\ introduced[m] \in Nat
  BY <1>0, <1>1, <1>2 DEF Owed, TypeOK
<1>4. ASSUME NEW i \in {1, 2} PROVE Stray(m, i)' <= Stray(m, i)
  <2>1. Recorded(m, i) => Recorded(m, i)'
    BY <1>0, RecordStays
  <2> QED BY <1>0, <1>1, <2>1, StrayKept
<1>5. StrayIntroductions(m)' <= StrayIntroductions(m) + c
  <2>1. CASE IntroductionTaken(e) /\ c = 0
    <3> DEFINE h == [entrant[e] EXCEPT !.pc = "accepted"]
    <3>1. h \in Hand /\ h.holds = n /\ h.pc = "accepted"
      BY <1>0, <1>2 DEF Hand, Pcs
    <3>2. /\ entrant' = [entrant EXCEPT ![e] = h] /\ match' = match
          /\ introduced' = [introduced EXCEPT ![n] = @ + 1]
      BY <1>2, <2>1 DEF IntroductionTaken
    <3> HIDE DEF h
    <3>3. entrant'[e] = h /\ \A f \in Entrants \ {e} : entrant'[f] = entrant[f]
      BY <1>0, <3>1, <3>2, Moved
    <3>4. CASE m = n
      <4>1. introduced'[m] = introduced[m] + 1
        BY <1>0, <3>2, <3>4 DEF TypeOK
      <4>2. match[m].state \in {"INTRODUCTION_SENDING", "REJECTED"}
              /\ \A f \in Entrants \ {e} : entrant[f].holds # m
        BY <1>0, <1>2, <3>4, ConsentAssumption DEF EntrantInv, OneHandPerLetter
      <4>3. ~Owed(m)'
        BY <3>1, <3>2, <3>3, <3>4, <4>2 DEF Owed, InHand
      <4> QED BY <1>3, <2>1, <3>4, <4>1, <4>3, ExtraFacts DEF StrayIntroductions
    <3>5. CASE m # n
      <4>1. introduced'[m] = introduced[m]
        BY <1>0, <3>2, <3>5 DEF TypeOK
      <4>2. InHand(m) => InHand(m)'
        BY <1>2, <3>3, <3>5 DEF InHand
      <4>3. Owed(m)' => Owed(m)
        BY <3>1, <3>2, <3>3, <4>2 DEF Owed
      <4>4. StrayIntroductions(m)' <= StrayIntroductions(m)
        BY <1>0, <4>1, <4>3, OwedKept
      <4> QED BY <2>1, <4>4, StrayTypes, <1>0, <4>1, <4>3, ExtraFacts DEF StrayIntroductions
    <3> QED BY <3>4, <3>5
  <2>2. CASE IntroductionFails(e, c)
    <3> DEFINE h == [entrant[e] EXCEPT !.pc = "claiming", !.holds = Nothing]
    <3>1. h \in Hand /\ h.holds = Nothing /\ h.pc = "claiming"
      BY <1>0 DEF Hand, Pcs
    <3>2. /\ entrant' = [entrant EXCEPT ![e] = h]
          /\ match' = [match EXCEPT ![n] = FailIntroduction(@)]
          /\ introduced' = [introduced EXCEPT ![n] = @ + c]
      BY <1>2, <2>2 DEF IntroductionFails, NextOf
    <3> HIDE DEF h
    <3>3. entrant'[e] = h /\ \A f \in Entrants \ {e} : entrant'[f] = entrant[f]
      BY <1>0, <3>1, <3>2, Moved
    <3>4. CASE m = n
      <4>1. introduced'[m] = introduced[m] + c
        BY <1>0, <3>2, <3>4 DEF TypeOK
      <4> QED BY <1>3, <3>4, <4>1, ExtraFacts DEF StrayIntroductions
    <3>5. CASE m # n
      <4>1. introduced'[m] = introduced[m] /\ match'[m] = match[m]
        BY <1>0, <3>2, <3>5 DEF TypeOK
      <4>2. InHand(m) => InHand(m)'
        BY <1>2, <3>3, <3>5 DEF InHand
      <4>3. Owed(m)' => Owed(m)
        BY <3>1, <3>3, <4>1, <4>2 DEF Owed
      <4> QED BY <1>3, <4>1, <4>3, ExtraFacts DEF StrayIntroductions
    <3> QED BY <3>4, <3>5
  <2> QED BY <2>1, <2>2
<1>6. /\ Stray(m, 1) \in Int /\ Stray(m, 2) \in Int /\ StrayIntroductions(m) \in Int
      /\ Stray(m, 1)' \in Int /\ Stray(m, 2)' \in Int /\ StrayIntroductions(m)' \in Int
  BY <1>0, StepTypes, StrayTypes, StrayTypesAfter DEF IInv
<1> QED BY <1>4, <1>5, <1>6 DEF Strays

LEMMA StepStray == IInv /\ StrayInv /\ [Next]_vars => StrayInv'
<1> SUFFICES ASSUME IInv, StrayInv, [Next]_vars, NEW m \in Matches
             PROVE Strays(m)' <= restarts' + lost'
  BY DEF StrayInv, Strays
<1>0. TypeOK /\ TypeOK' /\ restarts \in Nat /\ lost \in Nat
  BY StepTypes, ConsentAssumption DEF IInv, TypeOK
<1>1. CASE Crash
  <2>1. restarts' + lost' = restarts + lost + 1
    BY <1>0, <1>1 DEF Crash
  <2> QED BY <1>0, <1>1, <2>1, StrayCrash, StrayBound
<1>2. CASE PreviewTaken
  <2>1. Strays(m)' <= Strays(m)
    BY <1>2, StrayTaken
  <2>2. restarts' + lost' = restarts + lost + 0 /\ Strays(m) + 0 = Strays(m)
    BY <1>0, <1>2, StrayTypes DEF PreviewTaken, Strays
  <2> QED BY <1>0, <2>1, <2>2, StrayBound
<1>3. ASSUME NEW c \in {0, 1}, PreviewFails(c) PROVE Strays(m)' <= restarts' + lost'
  <2>1. restarts' + lost' = restarts + lost + c
    BY <1>0, <1>3 DEF PreviewFails, Throws
  <2> QED BY <1>0, <1>3, <2>1, StrayFails, StrayBound
<1>4. ASSUME NEW e \in Entrants, NEW c \in {0, 1},
             (IntroductionTaken(e) /\ c = 0) \/ IntroductionFails(e, c)
      PROVE Strays(m)' <= restarts' + lost'
  <2>1. restarts' + lost' = restarts + lost + c
    BY <1>0, <1>4 DEF IntroductionTaken, IntroductionFails, Throws
  <2>2. Strays(m)' <= Strays(m) + c
    BY <1>4, StrayIntroduced
  <2> QED BY <1>0, <2>1, <2>2, StrayBound
<1>5. ASSUME ~Crash, UNCHANGED <<told, introduced, restarts, lost>>,
             ~\E e \in Entrants, c \in {0, 1} : IntroductionFails(e, c)
      PROVE Strays(m)' <= restarts' + lost'
  <2>1. \A i \in {1, 2} : Stray(m, i)' <= Stray(m, i)
    BY <1>0, <1>5, RecordStays, StrayKept
  <2>2. StrayIntroductions(m)' <= StrayIntroductions(m)
    BY <1>0, <1>5, OwedStays, OwedKept
  <2>3. /\ Stray(m, 1) \in Int /\ Stray(m, 2) \in Int /\ StrayIntroductions(m) \in Int
        /\ Stray(m, 1)' \in Int /\ Stray(m, 2)' \in Int /\ StrayIntroductions(m)' \in Int
    BY <1>0, StrayTypes, StrayTypesAfter
  <2>4. Strays(m)' <= Strays(m) + 0 /\ restarts' + lost' = restarts + lost + 0
    BY <1>0, <1>5, <2>1, <2>2, <2>3 DEF Strays
  <2> QED BY <1>0, <2>4, StrayBound
<1>6. \/ Crash \/ PreviewTaken \/ \E c \in {0, 1} : PreviewFails(c)
      \/ \E e \in Entrants : IntroductionTaken(e) \/ \E c \in {0, 1} : IntroductionFails(e, c)
      \/ UNCHANGED <<told, introduced, restarts, lost>>
  BY DEF Next, vars, Operator, Propose, Reject, Confirm, ConnectPass, Hear, Drain, ClaimPreview,
         FindReplies, MarkPreviewSent, ReadReply, TakeVerdict, EndConsent, Deliver, ReadReady,
         ClaimIntroduction, RecordIntroduced, Leave, ClockTick, Boot
<1> QED BY <1>1, <1>2, <1>3, <1>4, <1>5, <1>6

(* ResendsAreMishaps: the letters of a match go out at most one time too    *)
(* often per crash and per lost acknowledgement, whoever drains.            *)
THEOREM ResendsAreBounded == Spec => []ResendsAreMishaps
<1>1. Init => StrayInv
  <2> SUFFICES ASSUME Init, NEW m \in Matches
               PROVE Stray(m, 1) + Stray(m, 2) + StrayIntroductions(m) <= restarts + lost
    BY DEF StrayInv
  <2>1. \A i \in {1, 2} : told[m][Sides[m][i]] = 0
    BY DEF Init, Parties
  <2>2. Stray(m, 1) = 0 /\ Stray(m, 2) = 0 /\ StrayIntroductions(m) = 0
    BY <2>1 DEF Init, Stray, StrayIntroductions, Extra
  <2> QED BY <2>2 DEF Init
<1>2. IInv /\ StrayInv => ResendsAreMishaps
  <2> SUFFICES ASSUME IInv, StrayInv, NEW m \in Matches
               PROVE Extra(told[m][Sides[m][1]]) + Extra(told[m][Sides[m][2]]) + Extra(introduced[m])
                       <= restarts + lost
    BY DEF ResendsAreMishaps
  <2>1. /\ told[m][Sides[m][1]] \in Nat /\ told[m][Sides[m][2]] \in Nat /\ introduced[m] \in Nat
        /\ restarts \in Nat /\ lost \in Nat
    BY StrayTypes, ConsentAssumption DEF IInv, TypeOK
  <2>2. /\ Extra(told[m][Sides[m][1]]) <= Stray(m, 1) /\ Extra(told[m][Sides[m][2]]) <= Stray(m, 2)
        /\ Extra(introduced[m]) <= StrayIntroductions(m)
    BY <2>1, ExtraFacts DEF Stray, StrayIntroductions
  <2>3. Stray(m, 1) \in Nat /\ Stray(m, 2) \in Nat /\ StrayIntroductions(m) \in Nat
    BY StrayTypes DEF IInv
  <2>4. Stray(m, 1) + Stray(m, 2) + StrayIntroductions(m) <= restarts + lost
    BY DEF StrayInv
  <2> QED BY <2>1, <2>2, <2>3, <2>4, ExtraFacts
<1> QED BY <1>1, <1>2, StepStray, Invariance, PTL DEF Spec
=============================================================================
