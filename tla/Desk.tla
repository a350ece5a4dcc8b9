--------------------------------- MODULE Desk ---------------------------------
(***************************************************************************)
(* The desk: the tick of src/runtime/desk.js over the runtime of           *)
(* src/runtime/yente.js, the member and match machines of src/domain, and  *)
(* the outbox (module Outbox, instantiated on the same rows).              *)
(*                                                                         *)
(* One tick runs to its end before the next one starts:                    *)
(*   ingest -> propose -> deadlines -> sweep -> drain -> idle.             *)
(* Every durable write is a put of its own, so every put is a step here    *)
(* and the process can die between any two.  What survives is the rows:    *)
(* members, matches, recorded messages and outbox jobs.                    *)
(*                                                                         *)
(* A match is stored under the sorted pair of its members, so a match is   *)
(* the set of the two.  Time is distance, as in Outbox: a match keeps the  *)
(* clock ticks left to its deadlineAt, and the clock moves between ticks   *)
(* of the desk, each of which reads it once.                               *)
(*                                                                         *)
(* The letters of intake (profile requests, interview questions, replies)  *)
(* are not in this module: it is about matches.                            *)
(***************************************************************************)
EXTENDS Integers, FiniteSets, Sequences

CONSTANTS
  Members,         \* addresses
  Eligible,        \* <<candidate, owner of an opportunity>> that clear the
                   \* qualification and fit policies in both directions
  Enrolled,        \* members that are ACTIVE at the start
  Intents,         \* the intents whose mail arrives
  VetoWindow,      \* vetoWindowMs, in clock ticks
  MaxLive,         \* MAX_LIVE_INTRODUCTIONS
  MaxMail,         \* bound: messages in all
  NoMail,          \* no message in hand
  MaxAttempts, BaseDelay, MaxDelay, ClaimLimit, AckLoss, MaxRestarts,
  NoLetter

ASSUME DeskAssumption ==
  /\ Eligible \subseteq Members \X Members
  /\ \A e \in Eligible : e[1] # e[2]
  /\ Enrolled \subseteq Members
  /\ VetoWindow \in Nat \ {0}
  /\ MaxLive \in Nat
  /\ MaxMail \in Nat

Matches == {{e[1], e[2]} : e \in Eligible}

\* The outbox keys of a match, each the match and its recipients.
Preview(m, p) == <<m, {p}>>
Introduction(m) == <<m, m>>
Letters == {Introduction(m) : m \in Matches}
             \cup UNION {{Preview(m, p) : p \in m} : m \in Matches}
MatchOf(k) == k[1]
Recipients(k) == k[2]

\* What the outbox asks of the constants it is given here.
ASSUME DeskOutboxAssumption ==
  /\ MaxAttempts \in Nat \ {0}
  /\ BaseDelay \in Nat
  /\ MaxDelay \in Nat
  /\ ClaimLimit \in Nat
  /\ AckLoss \in BOOLEAN
  /\ MaxRestarts \in Nat
  /\ NoLetter \notin Letters

VARIABLES
  member,          \* the MEMBERS rows: durable
  match,           \* the MATCHES rows: durable
  mail,            \* evidence that has no MESSAGES row yet: durable
  arrived,         \* how many messages have arrived so far (bounded)
  stage,           \* where the tick is
  hand,            \* the message being handled
  toQueue,         \* the queue() calls still owed for the match just saved
  job, phase, batch, inHand, halted, accepted, restarts   \* see Outbox

Box == INSTANCE Outbox WITH RecoveryCalled <- FALSE, HaltChoices <- {FALSE}

boxVars == <<job, phase, batch, inHand, halted, accepted, restarts>>
vars == <<member, match, mail, arrived, stage, hand, toQueue, boxVars>>

Stages == {"idle", "ingest", "handle", "decide", "propose", "deadlines",
           "sweep", "drain"}

TerminalMembers == {"STOPPED", "DELETED"}
MemberStates ==
  {"UNKNOWN", "NEEDS_PROFILE", "INTERVIEWING", "ACTIVE"} \cup TerminalMembers

TerminalMatches == {"INTRODUCED", "VETOED", "INVALIDATED_BY_CORRECTION",
                    "CANCELLED_BY_STOP", "CANCELLED_BY_DELETION"}
DeskLiveStates == {"PREVIEWS_QUEUED", "VETO_WINDOW", "READY_TO_INTRODUCE",
                   "INTRODUCTION_QUEUED"}
MatchStates == {"ABSENT"} \cup DeskLiveStates \cup TerminalMatches

\* Slip: only an erased member is out of reach.
OnlyDeletedIsSuppressed(p) == member[p] # "DELETED"

\* canReceiveOutbound, which lets an address without a member row through.
CanReceiveOutbound(p) == member[p] \notin TerminalMembers
-------------------------------------------------------------------------------
(* The match machine of src/domain/workflow.js, on one row.                *)

\* A preview's messageId is the attempt that earned it, 0 while PENDING.
NewRow(m, s) ==
  [state |-> s, left |-> VetoWindow,
   preview |-> [p \in m |-> [messageId |-> 0, decision |-> "PENDING"]]]

\* What a decision other than an approval does to the match.
Blocks == [PASS |-> "VETOED", CORRECT |-> "INVALIDATED_BY_CORRECTION",
           STOP |-> "CANCELLED_BY_STOP", DELETE |-> "CANCELLED_BY_DELETION"]
Decisions == {"PENDING", "APPROVE"} \cup DOMAIN Blocks

\* Slip: the window opens with the first preview that is delivered.
OpensOnFirstDelivery(row, p, id) ==
  [row EXCEPT !.preview[p].messageId = id, !.state = "VETO_WINDOW",
              !.left = VetoWindow]

\* markPreviewSent: the second delivery opens the window.
MarkPreviewSent(row, p, id) ==
  LET next == [row EXCEPT !.preview[p].messageId = id]
  IN IF \A q \in DOMAIN row.preview : next.preview[q].messageId # 0
       THEN [next EXCEPT !.state = "VETO_WINDOW", !.left = VetoWindow]
       ELSE next

\* Slip: one approval clears the match.
OneApprovalIsEnough(row, p, d) ==
  LET next == [row EXCEPT !.preview[p].decision = d]
  IN IF d = "APPROVE" THEN [next EXCEPT !.state = "READY_TO_INTRODUCE"]
                      ELSE [next EXCEPT !.state = Blocks[d]]

\* recordPreviewDecision: a block ends the match, two approvals clear it.
RecordPreviewDecision(row, p, d) ==
  LET next == [row EXCEPT !.preview[p].decision = d]
  IN CASE d \in DOMAIN Blocks -> [next EXCEPT !.state = Blocks[d]]
       [] \A q \in DOMAIN row.preview : next.preview[q].decision = "APPROVE" ->
            [next EXCEPT !.state = "READY_TO_INTRODUCE"]
       [] OTHER -> next
-------------------------------------------------------------------------------
Init ==
  /\ member = [p \in Members |-> IF p \in Enrolled THEN "ACTIVE" ELSE "UNKNOWN"]
  /\ match = [m \in Matches |-> NewRow(m, "ABSENT")]
  /\ mail = {}
  /\ arrived = 0
  /\ stage = "idle"
  /\ hand = NoMail
  /\ toQueue = <<>>
  /\ Box!Init

At(s) == phase # "down" /\ stage = s

\* The graph records a message.  A tick reads the evidence once, at its start,
\* so mail that lands during a tick is mail that lands before the next.
Arrive(p, i) ==
  /\ At("idle")
  /\ arrived < MaxMail
  /\ mail' = mail \cup {[from |-> p, intent |-> i]}
  /\ arrived' = arrived + 1
  /\ UNCHANGED <<member, match, stage, hand, toQueue, boxVars>>

StartTick ==
  /\ At("idle")
  /\ stage' = "ingest"
  /\ UNCHANGED <<member, match, mail, arrived, hand, toQueue, boxVars>>

\* recordInbound: the message is written down before anything acts on it.  One
\* that is written down is a duplicate, now and after every restart, and a
\* duplicate is no step: so evidence leaves mail for good when it is recorded.
Record(e) ==
  /\ At("ingest")
  /\ e \in mail
  /\ mail' = mail \ {e}
  /\ hand' = e
  /\ stage' = "handle"
  /\ UNCHANGED <<member, match, arrived, toQueue, boxVars>>

EndIngest ==
  /\ At("ingest")
  /\ mail = {}
  /\ stage' = "propose"
  /\ UNCHANGED <<member, match, mail, arrived, hand, toQueue, boxVars>>

Sender == hand.from
Intent == hand.intent
Suppressions == {"stop", "delete"}
Controls == {"pass", "introduce", "correct"}

\* This message is done with.
NextMessage == stage' = "ingest" /\ hand' = NoMail

\* Slip: a stop is refused by every state but the matchable one.
OnlyActiveCanStop(p) == member[p] = "ACTIVE"

\* stopMember refuses a deleted member; deleteMember refuses nobody.
CanSuppress(p) == Intent = "stop" => member[p] # "DELETED"

\* INV-9: the member row first, the matches after it.
Suppress ==
  /\ At("handle")
  /\ Intent \in Suppressions
  /\ member[Sender] # "UNKNOWN" /\ CanSuppress(Sender)
  /\ member' = [member EXCEPT ![Sender] =
                  IF Intent = "stop" THEN "STOPPED" ELSE "DELETED"]
  /\ stage' = "decide"
  /\ UNCHANGED <<match, mail, arrived, hand, toQueue, boxVars>>

\* A stop from an address that has no member row leaves no trace.
IgnoreStranger ==
  /\ At("handle")
  /\ Intent \in Suppressions
  /\ member[Sender] = "UNKNOWN"
  /\ NextMessage
  /\ UNCHANGED <<member, match, mail, arrived, toQueue, boxVars>>

\* The throw of stopMember leaves ingest and the tick with it.
AbortTick ==
  /\ At("handle")
  /\ Intent \in Suppressions
  /\ member[Sender] # "UNKNOWN"
  /\ ~CanSuppress(Sender)
  /\ stage' = "idle"
  /\ hand' = NoMail
  /\ UNCHANGED <<member, match, mail, arrived, toQueue, boxVars>>

\* createMember and beginIntake, in one write.
Welcome ==
  /\ At("handle")
  /\ Intent \notin Suppressions
  /\ member[Sender] = "UNKNOWN"
  /\ member' = [member EXCEPT ![Sender] = "NEEDS_PROFILE"]
  /\ UNCHANGED <<match, mail, arrived, stage, hand, toQueue, boxVars>>

SkipSuppressed ==
  /\ At("handle")
  /\ Intent \notin Suppressions
  /\ ~CanReceiveOutbound(Sender)
  /\ NextMessage
  /\ UNCHANGED <<member, match, mail, arrived, toQueue, boxVars>>

\* A conversational message from a live member.
Conversing ==
  /\ At("handle")
  /\ Intent = "message"
  /\ CanReceiveOutbound(Sender)
  /\ member[Sender] # "UNKNOWN"

\* Evidence landed: beginInterview, a write of its own before qualify.
BeginInterview ==
  /\ Conversing
  /\ member[Sender] = "NEEDS_PROFILE"
  /\ member' = [member EXCEPT ![Sender] = "INTERVIEWING"]
  /\ UNCHANGED <<match, mail, arrived, stage, hand, toQueue, boxVars>>

\* qualify: either nothing changes, or the member is ACTIVE in one write.
Qualify ==
  /\ Conversing
  /\ \E s \in {member[Sender], "ACTIVE"} : member' = [member EXCEPT ![Sender] = s]
  /\ NextMessage
  /\ UNCHANGED <<match, mail, arrived, toQueue, boxVars>>

\* recordDecision: a control word from a live member, whatever it answers.
TakeControl ==
  /\ At("handle")
  /\ Intent \in Controls
  /\ CanReceiveOutbound(Sender)
  /\ member[Sender] # "UNKNOWN"
  /\ stage' = "decide"
  /\ UNCHANGED <<member, match, mail, arrived, hand, toQueue, boxVars>>

DecisionOf == [pass |-> "PASS", introduce |-> "APPROVE", correct |-> "CORRECT",
               stop |-> "STOP", delete |-> "DELETE"]

\* Slip: a decision counts from the moment the match exists.
DecidesUndelivered(m) ==
  /\ Sender \in m
  /\ match[m].state \in {"PREVIEWS_QUEUED", "VETO_WINDOW", "READY_TO_INTRODUCE"}
  /\ match[m].preview[Sender].decision # DecisionOf[Intent]

\* recordDecision and cancelPendingFor walk every match of the sender, and skip
\* those outside these two states.
StillToDecide(m) ==
  /\ Sender \in m
  /\ match[m].state \in {"VETO_WINDOW", "READY_TO_INTRODUCE"}
  /\ match[m].preview[Sender].decision # DecisionOf[Intent]

Decide(m) ==
  /\ At("decide")
  /\ StillToDecide(m)
  /\ match' = [match EXCEPT ![m] = RecordPreviewDecision(@, Sender, DecisionOf[Intent])]
  /\ UNCHANGED <<member, mail, arrived, stage, hand, toQueue, boxVars>>

EndDecide ==
  /\ At("decide")
  /\ ~\E m \in Matches : StillToDecide(m)
  /\ NextMessage
  /\ UNCHANGED <<member, match, mail, arrived, toQueue, boxVars>>
-------------------------------------------------------------------------------
\* liveMatchCount looks for the member in row.memberIds, and MatchRepository.save
\* writes no such field: the list it finds is empty.
MemberIds(m) == {}
LiveMatchCount(p) ==
  Cardinality({m \in Matches : match[m].state \in DeskLiveStates /\ p \in MemberIds(m)})

\* The owner's own member row is not asked for: only the candidate is ACTIVE.
Proposable(e) ==
  /\ member[e[1]] = "ACTIVE"
  /\ LiveMatchCount(e[1]) < MaxLive
  /\ LiveMatchCount(e[2]) < MaxLive
  /\ match[{e[1], e[2]}].state = "ABSENT"

\* One proposal: the match is saved, then its two previews are queued.
Propose(e) ==
  /\ At("propose")
  /\ toQueue = <<>>
  /\ Proposable(e)
  /\ LET m == {e[1], e[2]}
     IN /\ match' = [match EXCEPT ![m] = NewRow(m, "PREVIEWS_QUEUED")]
        /\ toQueue' = <<Preview(m, e[1]), Preview(m, e[2])>>
  /\ UNCHANGED <<member, mail, arrived, stage, hand, boxVars>>

\* queue: a letter is enqueued when all its recipients may be written to.
Sendable(k) == \A p \in Recipients(k) : CanReceiveOutbound(p)

Queue ==
  /\ toQueue # <<>>
  /\ Sendable(Head(toQueue))
  /\ Box!Enqueue(Head(toQueue))
  /\ toQueue' = Tail(toQueue)
  /\ UNCHANGED <<member, match, mail, arrived, stage, hand>>

\* Otherwise it is dropped without a word.
DropUnsendable ==
  /\ toQueue # <<>>
  /\ ~Sendable(Head(toQueue))
  /\ toQueue' = Tail(toQueue)
  /\ UNCHANGED <<member, match, mail, arrived, stage, hand, boxVars>>

EndPropose ==
  /\ At("propose")
  /\ toQueue = <<>>
  /\ ~\E e \in Eligible : Proposable(e)
  /\ stage' = "deadlines"
  /\ UNCHANGED <<member, match, mail, arrived, hand, toQueue, boxVars>>

\* advanceVetoDeadline: silence clears a window when its deadline has come.
Cleared(m) ==
  \/ match[m].state = "READY_TO_INTRODUCE"
  \/ match[m].state = "VETO_WINDOW" /\ match[m].left = 0

\* A cleared match is queued while both may be written to.  One that is not
\* stays as it is stored, its window open.
Introducible(m) == Cleared(m) /\ \A p \in m : CanReceiveOutbound(p)

\* advanceDeadlines: queueIntroduction is saved, then the letter is queued.
Introduce(m) ==
  /\ At("deadlines")
  /\ toQueue = <<>>
  /\ Introducible(m)
  /\ match' = [match EXCEPT ![m].state = "INTRODUCTION_QUEUED"]
  /\ toQueue' = <<Introduction(m)>>
  /\ UNCHANGED <<member, mail, arrived, stage, hand, boxVars>>

EndDeadlines ==
  /\ At("deadlines")
  /\ toQueue = <<>>
  /\ ~\E m \in Matches : Introducible(m)
  /\ stage' = "sweep"
  /\ UNCHANGED <<member, match, mail, arrived, hand, toQueue, boxVars>>

\* sweepUnanswered: somebody in intake who was never written to is qualified
\* from the facts on file, if they suffice.
Sweep(p) ==
  /\ At("sweep")
  /\ member[p] \in {"NEEDS_PROFILE", "INTERVIEWING"}
  /\ \A k \in Letters : p \in Recipients(k) => job[k].state = "ABSENT"
  /\ member' = [member EXCEPT ![p] = "ACTIVE"]
  /\ UNCHANGED <<match, mail, arrived, stage, hand, toQueue, boxVars>>

EndSweep ==
  /\ At("sweep")
  /\ stage' = "drain"
  /\ UNCHANGED <<member, match, mail, arrived, hand, toQueue, boxVars>>

\* drainOutbox up to the saved SENT or failure row.
Drain ==
  /\ stage = "drain"
  /\ Box!StartDrain \/ (\E k \in Letters : Box!Claim(k)) \/ Box!Send \/ Box!RecordSent
  /\ UNCHANGED <<member, match, mail, arrived, stage, hand, toQueue>>

\* Slip: the match is not told that its introduction left.
ForgetsIntroductions(row, k, id) ==
  IF Recipients(k) = MatchOf(k)
    THEN row ELSE MarkPreviewSent(row, CHOOSE p \in Recipients(k) : TRUE, id)

\* recordDelivery, on the row of the letter's match: markIntroduced while the
\* introduction is queued, markPreviewSent for a preview.
Delivered(row, k, id) ==
  IF Recipients(k) = MatchOf(k)
    THEN IF row.state = "INTRODUCTION_QUEUED"
           THEN [row EXCEPT !.state = "INTRODUCED"] ELSE row
    ELSE MarkPreviewSent(row, CHOOSE p \in Recipients(k) : TRUE, id)

RecordDelivery ==
  /\ Box!RecordDelivery
  /\ match' = [match EXCEPT ![MatchOf(inHand)] =
                 Delivered(@, inHand, job[inHand].messageId)]
  /\ UNCHANGED <<member, mail, arrived, stage, hand, toQueue>>

EndTick ==
  /\ Box!EndDrain
  /\ stage' = "idle"
  /\ UNCHANGED <<member, match, mail, arrived, hand, toQueue>>

\* The clock moves between ticks: a backoff runs down, and so does a window.
ClockTick ==
  /\ stage = "idle"
  /\ phase \in {"rest", "down"}
  /\ \/ \E k \in Letters : job[k].wait > 0
     \/ \E m \in Matches : match[m].state = "VETO_WINDOW" /\ match[m].left > 0
  /\ job' = [k \in Letters |-> Box!Aged(job[k])]
  /\ match' = [m \in Matches |->
                 IF match[m].state = "VETO_WINDOW"
                   THEN [match[m] EXCEPT !.left = Box!Sooner(@)] ELSE match[m]]
  /\ UNCHANGED <<member, mail, arrived, stage, hand, toQueue,
                 phase, batch, inHand, halted, accepted, restarts>>

Crash ==
  /\ Box!Crash
  /\ stage' = "idle"
  /\ hand' = NoMail
  /\ toQueue' = <<>>
  /\ UNCHANGED <<member, match, mail, arrived>>

\* Boot reads the rows and changes none of them.
Boot ==
  /\ Box!Boot
  /\ UNCHANGED <<member, match, mail, arrived, stage, hand, toQueue>>

Ingest ==
  \/ \E e \in mail : Record(e)
  \/ EndIngest
  \/ Suppress \/ IgnoreStranger \/ AbortTick \/ Welcome \/ SkipSuppressed
  \/ BeginInterview \/ Qualify \/ TakeControl
  \/ \E m \in Matches : Decide(m)
  \/ EndDecide

Matching ==
  \/ \E e \in Eligible : Propose(e)
  \/ Queue \/ DropUnsendable \/ EndPropose
  \/ \E m \in Matches : Introduce(m)
  \/ EndDeadlines
  \/ \E p \in Members : Sweep(p)
  \/ EndSweep

Tick == StartTick \/ Ingest \/ Matching \/ Drain \/ RecordDelivery \/ EndTick

Next ==
  \/ \E p \in Members, i \in Intents : Arrive(p, i)
  \/ Tick
  \/ ClockTick
  \/ Crash
  \/ Boot

Spec == Init /\ [][Next]_vars

\* The desk loop ticks forever and sleeps in between, and a supervisor starts a
\* dead process again.  Nothing obliges anyone to write, or the server to
\* accept.  The drain settles every send it awaits.
Fairness == WF_vars(Tick) /\ SF_vars(ClockTick) /\ WF_vars(Boot)

FairSpec == Spec /\ Fairness
-------------------------------------------------------------------------------
Mail == [from: Members, intent: Intents]

Rows(m) ==
  [state: MatchStates, left: 0..VetoWindow,
   preview: [m -> [messageId: 0..MaxAttempts, decision: Decisions]]]

TypeOK ==
  /\ Box!TypeOK
  /\ member \in [Members -> MemberStates]
  /\ DOMAIN match = Matches /\ \A m \in Matches : match[m] \in Rows(m)
  /\ mail \subseteq Mail
  /\ arrived \in 0..MaxMail
  /\ stage \in Stages
  /\ hand \in Mail \cup {NoMail}
  /\ toQueue \in Seq(Letters) /\ Len(toQueue) <= 2

Told(m, p) == match[m].preview[p].messageId # 0

\* INV-7 and INV-8: from the moment an introduction exists as a job, both
\* previews are on record as sent, under the ids the outbox earned for them,
\* nobody's decision stands against it, and it is either approved by both or
\* past its deadline.  It stays so while the job waits, retries and survives
\* restarts, and whatever mail comes in meanwhile.
IntroductionIsEarned ==
  \A m \in Matches : job[Introduction(m)].state # "ABSENT" =>
    /\ match[m].state \in {"INTRODUCTION_QUEUED", "INTRODUCED"}
    /\ \A p \in m :
         /\ job[Preview(m, p)].state = "SENT"
         /\ match[m].preview[p].messageId = job[Preview(m, p)].messageId
         /\ match[m].preview[p].decision \in {"PENDING", "APPROVE"}
    /\ \/ match[m].left = 0
       \/ \A p \in m : match[m].preview[p].decision = "APPROVE"

\* recordDelivery runs inside the try of the send.  Were markPreviewSent to
\* throw there, markFailed would be saved over a SENT row, the save would throw
\* too, and the whole drain would die with it: so a match that has a preview
\* in flight is never in a state that refuses its delivery.
DeliveryFindsItsMatch ==
  phase \in {"sending", "accepted", "delivered"} =>
    LET row == match[MatchOf(inHand)]
    IN IF Recipients(inHand) = MatchOf(inHand)
         THEN row.state = "INTRODUCTION_QUEUED"
         ELSE /\ row.state = "PREVIEWS_QUEUED"
              /\ \A p \in Recipients(inHand) : ~Told(MatchOf(inHand), p)

\* The rows have their shapes, and those of a match fit the job in flight.
Consistent == TypeOK /\ DeliveryFindsItsMatch

\* INV-9, as far as the desk keeps it: once a stop or a deletion is saved, no
\* message, qualification, sweep or restart makes the member live again, and no
\* letter is written to them that did not exist before.
StopIsFinal ==
  [][\A p \in Members : member[p] \in TerminalMembers =>
       /\ member'[p] \in TerminalMembers
       /\ \A k \in Letters : p \in Recipients(k) =>
            (job[k].state = "ABSENT" => job'[k].state = "ABSENT")]_vars

\* A window that opens is closed by a decision or by its deadline, over any
\* number of restarts, unless a party may no longer be written to.
WindowCloses ==
  \A m \in Matches : match[m].state = "VETO_WINDOW" ~>
    (match[m].state # "VETO_WINDOW" \/ \E p \in m : member[p] \in TerminalMembers)

\* Without a crash, a match that is cleared is introduced or its one letter dies.
IntroductionSettles ==
  \A m \in Matches : match[m].state = "INTRODUCTION_QUEUED" ~>
    (match[m].state = "INTRODUCED" \/ job[Introduction(m)].state = "DEAD"
       \/ restarts > 0)

\* A match that is under way comes to its end.
MatchesMoveOn == WindowCloses /\ IntroductionSettles

\* A stop or a deletion is in the mail of somebody the desk knows.
StopFrom(p) ==
  /\ member[p] # "UNKNOWN"
  /\ \E e \in mail : e.from = p /\ e.intent \in Suppressions

\* INV-9: in a process that does not die every stop of a member lands, though a
\* tick may throw on another message first.
StopsLand ==
  \A p \in Members :
    StopFrom(p) ~> (member[p] \in TerminalMembers \/ restarts > 0)

\* D7 of the letters the desk really writes: between the tick, the mail server
\* and a crash in any gap of the drain, a row at rest tells the truth (see
\* Outbox).
HonestRows == Box!HonestRows

\* "Outbox retries cannot duplicate a delivered email": each preview and each
\* introduction is a letter as OneLetter promises it.
KeepsPromise == Box!KeepsPromise

\* The pair's side of the desk, in the words of DoubleBlind.
Promise == INSTANCE DoubleBlind WITH
  Sides <- [m \in Matches |-> m],
  told <- [m \in Matches |-> {p \in m : accepted[Preview(m, p)] > 0}],
  objected <- [m \in Matches |->
                 \E p \in m : match[m].preview[p].decision \in DOMAIN Blocks],
  met <- [m \in Matches |-> accepted[Introduction(m)] > 0]

\* INV-7: what the mail server has seen and what the rows say of a pair obey
\* DoubleBlind, through lost acknowledgements and crashes.
KeepsDoubleBlind == Promise!Spec
-------------------------------------------------------------------------------
\* "Either member's veto prevents introduction": a PASS that the desk handles
\* after its sender's preview has reached them.
PassIsHeard ==
  \A m \in Matches : \A p \in m :
    [](At("decide") /\ Sender = p /\ Intent = "pass" /\ Told(m, p)
         /\ accepted[Introduction(m)] = 0
       => [](accepted[Introduction(m)] = 0))
=============================================================================
