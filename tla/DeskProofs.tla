------------------------------ MODULE DeskProofs ------------------------------
(***************************************************************************)
(* Proofs about Desk, for any members, any pairs that may be proposed and  *)
(* any retry policy, whether or not acknowledgements get lost.             *)
(*                                                                         *)
(* The desk's outbox is the module Outbox on the desk's rows, so what      *)
(* OutboxProofs shows of an outbox is true of it.                          *)
(***************************************************************************)
EXTENDS Desk, TLAPS

\* Outbox once more, with what OutboxProofs proves of it; Box of Desk is the
\* same module without the proofs.
OP == INSTANCE OutboxProofs WITH RecoveryCalled <- FALSE, HaltChoices <- {FALSE}

-------------------------------------------------------------------------------
(* The inductive invariant, in parts.                                       *)

Undecided(m) == match[m].state \in {"ABSENT", "PREVIEWS_QUEUED"}
Open(m) == match[m].state \in {"VETO_WINDOW", "READY_TO_INTRODUCE"}
Called(m) == match[m].state \in {"INTRODUCTION_QUEUED", "INTRODUCED"}
AllApprove(m) == \A p \in m : match[m].preview[p].decision = "APPROVE"
NobodyObjects(m) ==
  \A p \in m : match[m].preview[p].decision \in {"PENDING", "APPROVE"}
Written(k) == job[k].state # "ABSENT"
InHand(k) == phase \in {"sending", "accepted", "delivered"} /\ inHand = k

(* The rows that are not the outbox's have their shapes. *)
RowsInv ==
  /\ member \in [Members -> MemberStates]
  /\ DOMAIN match = Matches /\ \A m \in Matches : match[m] \in Rows(m)
  /\ mail \subseteq Mail
  /\ arrived \in 0..MaxMail
  /\ toQueue \in Seq(Letters)

(* Where the tick is: it drains in one stage only, and a message is in hand *)
(* exactly while it is handled.                                             *)
StageInv ==
  /\ stage \in Stages
  /\ hand \in Mail \cup {NoMail}
  /\ phase \in {"drain", "sending", "accepted", "delivered"} => stage = "drain"
  /\ phase = "down" => stage = "idle"
  /\ stage \in {"handle", "decide"} => hand \in Mail
  /\ stage = "decide" => Intent \in Suppressions \cup Controls

(* The letters still to be queued are those of the match just saved. *)
QueueInv ==
  /\ Len(toQueue) <= 2
  /\ toQueue # <<>> => stage \in {"propose", "deadlines"}
  /\ \A i \in 1..Len(toQueue), m \in Matches :
       /\ \A p \in m : toQueue[i] = Preview(m, p) =>
            match[m].state = "PREVIEWS_QUEUED"
       /\ toQueue[i] = Introduction(m) => match[m].state = "INTRODUCTION_QUEUED"

(* Who is told: no preview exists before its match is proposed, the window  *)
(* opens when the last one is delivered and not before, and a delivery on   *)
(* record is the one the outbox has on record.                              *)
ToldOf(m) ==
  /\ match[m].state = "ABSENT" =>
       \A p \in m : ~Told(m, p) /\ ~Written(Preview(m, p))
  /\ match[m].state = "PREVIEWS_QUEUED" => \E p \in m : ~Told(m, p)
  /\ ~Undecided(m) => \A p \in m : Told(m, p)
  /\ \A p \in m : Told(m, p) =>
       /\ job[Preview(m, p)].state = "SENT"
       /\ job[Preview(m, p)].messageId = match[m].preview[p].messageId

(* Who decided what: nobody before the window, and no objection stands      *)
(* against a match that goes on.                                            *)
DecidedOf(m) ==
  /\ Undecided(m) => \A p \in m : match[m].preview[p].decision = "PENDING"
  /\ Open(m) \/ Called(m) => NobodyObjects(m)
  /\ match[m].state = "READY_TO_INTRODUCE" => AllApprove(m)
  /\ Called(m) => match[m].left = 0 \/ AllApprove(m)

(* The introduction exists only for a match that was called for it, and one *)
(* that has been introduced has it behind it.                               *)
CalledOf(m) ==
  /\ Written(Introduction(m)) => Called(m)
  /\ match[m].state = "INTRODUCED" =>
       job[Introduction(m)].state = "SENT" /\ ~InHand(Introduction(m))

(* A preview that is out to be delivered is not on record as delivered. *)
FlightOf(m) == \A p \in m : InHand(Preview(m, p)) => ~Told(m, p)

ToldInv == \A m \in Matches : ToldOf(m)
DecidedInv == \A m \in Matches : DecidedOf(m)
CalledInv == \A m \in Matches : CalledOf(m)
FlightInv == \A m \in Matches : FlightOf(m)

MatchInv == ToldInv /\ DecidedInv /\ CalledInv /\ FlightInv
DInv == RowsInv /\ StageInv /\ QueueInv /\ MatchInv
IInv == OP!IInv /\ OP!EarnedInv /\ DInv
-------------------------------------------------------------------------------
(* Box and OP are one module under two names, action by action.             *)
LEMMA BoxAssumption == OP!OutboxAssumption
  BY DeskOutboxAssumption DEF OP!OutboxAssumption

LEMMA BoxInit == Init => OP!Init
  BY DEF Init, Box!Init, OP!Init, Box!NoJob, OP!NoJob

LEMMA BoxVars == UNCHANGED boxVars => UNCHANGED OP!vars
  BY DEF boxVars, OP!vars
LEMMA BoxEnqueue == ASSUME NEW k PROVE Box!Enqueue(k) => OP!Enqueue(k)
  BY DEF Box!Enqueue, OP!Enqueue, Box!NewJob, OP!NewJob
LEMMA BoxClaim == ASSUME NEW k PROVE Box!Claim(k) => OP!Claim(k)
  BY DEF Box!Claim, OP!Claim, Box!Due, OP!Due, Box!Waiting, OP!Waiting,
         Box!BeginSend, OP!BeginSend
LEMMA BoxCount == ASSUME NEW S PROVE Box!Cardinality(S) = OP!Cardinality(S)
  BY DEF Box!Cardinality, OP!Cardinality
LEMMA BoxStart == Box!StartDrain => OP!StartDrain
<1>1. Box!DueJobs = OP!DueJobs
  BY DEF Box!DueJobs, OP!DueJobs, Box!Due, OP!Due, Box!Waiting, OP!Waiting
<1> QED BY <1>1, BoxCount DEF Box!StartDrain, OP!StartDrain
LEMMA BoxFailed ==
  ASSUME NEW j, NEW q PROVE Box!FailedJobs(j, q) = OP!FailedJobs(j, q)
  BY DEF Box!FailedJobs, OP!FailedJobs, Box!Exhausted, OP!Exhausted, Box!Dead,
         OP!Dead, Box!RetryAfter, OP!RetryAfter, Box!Delays, OP!Delays,
         Box!Ceiling, OP!Ceiling
LEMMA BoxSend == Box!Send => OP!Send
<1>1. Box!Accept => OP!Accept
  BY DEF Box!Accept, OP!Accept
<1>2. ASSUME NEW q, Box!Refuse(q) PROVE OP!Refuse(q)
  BY <1>2, BoxFailed DEF Box!Refuse, OP!Refuse
<1>3. Box!LoseAck => OP!LoseAck
  BY BoxFailed DEF Box!LoseAck, OP!LoseAck
<1> QED BY <1>1, <1>2, <1>3 DEF Box!Send, OP!Send
LEMMA BoxSent == Box!RecordSent => OP!RecordSent
  BY DEF Box!RecordSent, OP!RecordSent, Box!MarkSent, OP!MarkSent
LEMMA BoxDelivery == Box!RecordDelivery => OP!RecordDelivery
  BY DEF Box!RecordDelivery, OP!RecordDelivery
LEMMA BoxEnd == Box!EndDrain => OP!EndDrain
  BY DEF Box!EndDrain, OP!EndDrain
LEMMA BoxCrash == Box!Crash => OP!Crash
  BY DEF Box!Crash, OP!Crash
LEMMA BoxBoot == Box!Boot => OP!Boot
  BY DEF Box!Boot, OP!Boot
LEMMA BoxClock == Box!ClockTick => OP!ClockTick
  BY DEF Box!ClockTick, OP!ClockTick, Box!Aged, OP!Aged, Box!Sooner, OP!Sooner

(* The outbox has one more operation, which nobody calls.                   *)
LEMMA BoxNext == Box!Next => OP!Next
<1>1. ASSUME NEW k \in Letters PROVE ~Box!RecoverStalled(k)
  BY DEF Box!RecoverStalled
<1> QED BY <1>1, BoxEnqueue, BoxClaim, BoxStart, BoxSend, BoxSent, BoxDelivery, BoxEnd,
           BoxClock, BoxCrash, BoxBoot
        DEF Box!Next, OP!Next, Box!Drain, OP!Drain

(* The clock of the desk also moves when only a window has time left, and   *)
(* then no row of the outbox is touched.                                    *)
LEMMA DeskClock == OP!IInv /\ ClockTick => Box!ClockTick \/ UNCHANGED boxVars
<1> SUFFICES ASSUME OP!IInv, ClockTick PROVE Box!ClockTick \/ UNCHANGED boxVars
  OBVIOUS
<1>1. /\ phase \in {"rest", "down"}
      /\ job' = [k \in Letters |-> Box!Aged(job[k])]
      /\ UNCHANGED <<phase, batch, inHand, halted, accepted, restarts>>
  BY DEF ClockTick
<1>2. CASE \E k \in Letters : job[k].wait > 0
  BY <1>1, <1>2 DEF Box!ClockTick
<1>3. CASE ~\E k \in Letters : job[k].wait > 0
  <2>1. \A k \in Letters : job[k] \in OP!Jobs
    BY DEF OP!IInv, OP!TypeOK
  <2>2. \A k \in Letters : job[k].wait = 0
    BY <1>3, <2>1 DEF OP!Jobs
  <2>3. \A k \in Letters : Box!Aged(job[k]) = job[k]
    BY <2>1, <2>2, OP!AgedShape, BoxAssumption
       DEF Box!Aged, OP!Aged, Box!Sooner, OP!Sooner
  <2>4. job' = job
    BY <1>1, <2>3 DEF OP!IInv, OP!TypeOK
  <2> QED BY <1>1, <2>4 DEF boxVars
<1> QED BY <1>2, <1>3

(* Every step of the desk is a step of its outbox, or none.                 *)
LEMMA DeskStep == IInv /\ [Next]_vars => Box!Next \/ UNCHANGED boxVars
<1> SUFFICES ASSUME OP!IInv, DInv, [Next]_vars PROVE Box!Next \/ UNCHANGED boxVars
  BY DEF IInv
<1>1. CASE Queue
  <2>1. toQueue # <<>> /\ Box!Enqueue(Head(toQueue)) /\ toQueue \in Seq(Letters)
    BY <1>1 DEF Queue, DInv, RowsInv
  <2>2. PICK k \in Letters : Box!Enqueue(k)
    BY <2>1
  <2> QED BY <2>2 DEF Box!Next
<1>2. CASE Drain
  BY <1>2 DEF Drain, Box!Next, Box!Drain
<1>3. CASE RecordDelivery
  BY <1>3 DEF RecordDelivery, Box!Next, Box!Drain
<1>4. CASE EndTick
  BY <1>4 DEF EndTick, Box!Next, Box!Drain
<1>5. CASE ClockTick
  BY <1>5, DeskClock DEF Box!Next
<1>6. CASE Crash \/ Boot
  BY <1>6 DEF Crash, Boot, Box!Next
<1>7. CASE Ingest
  BY <1>7 DEF Ingest, Record, EndIngest, Suppress, IgnoreStranger, AbortTick,
     Welcome, SkipSuppressed, BeginInterview, Qualify, TakeControl, Decide, EndDecide
<1>8. CASE Matching
  BY <1>1, <1>8 DEF Matching, Propose, DropUnsendable, EndPropose, Introduce,
     EndDeadlines, Sweep, EndSweep
<1>9. CASE StartTick \/ (\E p \in Members, i \in Intents : Arrive(p, i))
             \/ UNCHANGED vars
  BY <1>9 DEF StartTick, Arrive, vars
<1> QED
  BY <1>2, <1>3, <1>4, <1>5, <1>6, <1>7, <1>8, <1>9 DEF Next, Tick

LEMMA BoxStep == IInv /\ [Next]_vars => [OP!Next]_(OP!vars)
  BY DeskStep, BoxNext, BoxVars

(* So what OutboxProofs shows of an outbox holds of this one.               *)
LEMMA BoxInv == IInv /\ [Next]_vars => OP!IInv' /\ OP!EarnedInv'
  BY BoxStep, OP!StepIInv, OP!StepEarned, BoxAssumption DEF IInv
-------------------------------------------------------------------------------
(* Letters and pairs.                                                       *)
LEMMA PairShape ==
  ASSUME NEW m \in Matches
  PROVE \E a, b \in Members : a # b /\ m = {a, b}
<1>1. PICK e \in Eligible : m = {e[1], e[2]}
  BY DEF Matches
<1>2. e[1] \in Members /\ e[2] \in Members /\ e[1] # e[2]
  BY DeskAssumption
<1> QED BY <1>1, <1>2

LEMMA LetterShape ==
  ASSUME NEW m \in Matches, NEW n \in Matches, NEW p \in m, NEW q \in n
  PROVE /\ Preview(m, p) \in Letters /\ Introduction(m) \in Letters
        /\ MatchOf(Preview(m, p)) = m /\ MatchOf(Introduction(m)) = m
        /\ Recipients(Preview(m, p)) = {p} /\ Recipients(Introduction(m)) = m
        /\ Preview(m, p) # Introduction(n)
        /\ Preview(m, p) = Preview(n, q) => m = n /\ p = q
        /\ Introduction(m) = Introduction(n) => m = n
<1>1. Preview(m, p) \in Letters /\ Introduction(m) \in Letters
  BY DEF Letters
<1>2. {p} # n
  BY PairShape
<1> QED BY <1>1, <1>2 DEF Preview, Introduction, MatchOf, Recipients

LEMMA LetterKinds ==
  ASSUME NEW k \in Letters
  PROVE \E m \in Matches : k = Introduction(m) \/ \E p \in m : k = Preview(m, p)
  BY DEF Letters

(* A pair is not empty, so neither are its letters.                         *)
LEMMA SomebodyIn == ASSUME NEW m \in Matches PROVE \E p \in m : TRUE
  BY PairShape
-------------------------------------------------------------------------------
(* Frames: what a part of the invariant does not speak of cannot hurt it.   *)
LEMMA MatchFrame ==
  ASSUME MatchInv, UNCHANGED <<match, job, phase, inHand>> PROVE MatchInv'
<1>1. /\ \A m, p : Told(m, p)' = Told(m, p)
      /\ \A k : Written(k)' = Written(k) /\ InHand(k)' = InHand(k)
  BY DEF Told, Written, InHand
<1>2. \A m : /\ Undecided(m)' = Undecided(m) /\ Open(m)' = Open(m)
             /\ Called(m)' = Called(m) /\ AllApprove(m)' = AllApprove(m)
             /\ NobodyObjects(m)' = NobodyObjects(m)
  BY DEF Undecided, Open, Called, AllApprove, NobodyObjects
<1>3. ToldInv'
  BY <1>1, <1>2 DEF MatchInv, ToldInv, ToldOf
<1>4. DecidedInv'
  BY <1>2 DEF MatchInv, DecidedInv, DecidedOf
<1>5. CalledInv' /\ FlightInv'
  BY <1>1, <1>2 DEF MatchInv, CalledInv, CalledOf, FlightInv, FlightOf
<1> QED BY <1>3, <1>4, <1>5 DEF MatchInv

LEMMA QueueFrame ==
  ASSUME QueueInv, UNCHANGED <<match, toQueue>>, toQueue = <<>> \/ stage' = stage
  PROVE QueueInv'
  BY DEF QueueInv

(* Somebody is to be written to only while the desk proposes or introduces. *)
LEMMA NothingToQueue ==
  ASSUME QueueInv, stage \notin {"propose", "deadlines"} PROVE toQueue = <<>>
  BY DEF QueueInv

(* Steps that touch neither a match nor the outbox: the mail, the members   *)
(* and the turns of the tick.                                               *)
LEMMA QuietStep ==
  ASSUME DInv,
         \/ \E p \in Members, i \in Intents : Arrive(p, i)
         \/ StartTick \/ EndIngest \/ IgnoreStranger \/ AbortTick \/ SkipSuppressed
         \/ EndDecide \/ EndPropose \/ EndDeadlines \/ EndSweep
         \/ \E e \in mail : Record(e)
         \/ TakeControl
  PROVE DInv'
<1>1. UNCHANGED <<member, match, toQueue, boxVars>>
  BY DEF Arrive, StartTick, EndIngest, IgnoreStranger, AbortTick, SkipSuppressed,
         EndDecide, EndPropose, EndDeadlines, EndSweep, Record, TakeControl
<1>2. toQueue = <<>> \/ stage' = stage
  BY NothingToQueue
     DEF DInv, At, Arrive, StartTick, EndIngest, IgnoreStranger, AbortTick,
         SkipSuppressed, EndDecide, EndPropose, EndDeadlines, EndSweep, Record,
         TakeControl, NextMessage
<1>3. MatchInv' /\ QueueInv'
  BY <1>1, <1>2, MatchFrame, QueueFrame DEF DInv, boxVars
<1>4. RowsInv'
  <2>1. mail' \subseteq Mail /\ arrived' \in 0..MaxMail
    <3>1. CASE \E p \in Members, i \in Intents : Arrive(p, i)
      BY <3>1, DeskAssumption DEF Arrive, DInv, RowsInv, Mail
    <3>2. CASE UNCHANGED <<mail, arrived>>
      BY <3>2 DEF DInv, RowsInv
    <3>3. CASE \E e \in mail : Record(e)
      BY <3>3 DEF Record, DInv, RowsInv
    <3> QED BY <3>1, <3>2, <3>3
            DEF StartTick, EndIngest, IgnoreStranger, AbortTick, SkipSuppressed,
                EndDecide, EndPropose, EndDeadlines, EndSweep, TakeControl
  <2> QED BY <1>1, <2>1 DEF DInv, RowsInv, Rows, boxVars
<1>5. StageInv'
  <2>1. phase' = phase
    BY <1>1 DEF boxVars
  <2>2. CASE \E e \in mail : Record(e)
    BY <2>1, <2>2 DEF Record, At, DInv, RowsInv, StageInv, Stages
  <2>3. CASE TakeControl
    BY <2>1, <2>3 DEF TakeControl, At, DInv, StageInv, Stages, Intent
  <2>4. CASE \/ \E p \in Members, i \in Intents : Arrive(p, i)
             \/ StartTick \/ EndIngest \/ EndPropose \/ EndDeadlines \/ EndSweep
    BY <2>1, <2>4
       DEF Arrive, StartTick, EndIngest, EndPropose, EndDeadlines, EndSweep, At,
           DInv, StageInv, Stages
  <2>5. CASE IgnoreStranger \/ AbortTick \/ SkipSuppressed \/ EndDecide
    BY <2>1, <2>5
       DEF IgnoreStranger, AbortTick, SkipSuppressed, EndDecide, NextMessage, At,
           DInv, StageInv, Stages
  <2> QED BY <2>2, <2>3, <2>4, <2>5
<1> QED BY <1>3, <1>4, <1>5 DEF DInv

(* Whose message is in hand is a member's.                                  *)
LEMMA SenderIsMember ==
  ASSUME StageInv, stage \in {"handle", "decide"} PROVE Sender \in Members
  BY DEF StageInv, Mail, Sender

(* Steps that write one member row and nothing else.                        *)
LEMMA MemberStep ==
  ASSUME DInv,
         Suppress \/ Welcome \/ BeginInterview \/ Qualify \/ \E p \in Members : Sweep(p)
  PROVE DInv'
<1>1. UNCHANGED <<match, mail, arrived, toQueue, boxVars>>
  BY DEF Suppress, Welcome, BeginInterview, Qualify, Sweep
<1>2. toQueue = <<>>
  BY NothingToQueue
     DEF DInv, Suppress, Welcome, BeginInterview, Qualify, Conversing, Sweep, At
<1>3. MatchInv' /\ QueueInv'
  BY <1>1, <1>2, MatchFrame, QueueFrame DEF DInv, boxVars
<1>4. member' \in [Members -> MemberStates]
  <2>1. \A p \in Members : member[p] \in MemberStates
    BY DEF DInv, RowsInv
  <2>2. PICK p \in Members, s \in MemberStates : member' = [member EXCEPT ![p] = s]
    <3>1. CASE Suppress
      BY <3>1, SenderIsMember DEF Suppress, At, DInv, MemberStates, TerminalMembers
    <3>2. CASE Welcome
      BY <3>2, SenderIsMember DEF Welcome, At, DInv, MemberStates
    <3>3. CASE BeginInterview
      BY <3>3, SenderIsMember DEF BeginInterview, Conversing, At, DInv, MemberStates
    <3>4. CASE Qualify
      BY <3>4, <2>1, SenderIsMember DEF Qualify, Conversing, At, DInv, MemberStates
    <3>5. CASE \E p \in Members : Sweep(p)
      BY <3>5 DEF Sweep, MemberStates
    <3> QED BY <3>1, <3>2, <3>3, <3>4, <3>5
  <2> QED BY <2>2 DEF DInv, RowsInv
<1>5. RowsInv'
  BY <1>1, <1>4 DEF DInv, RowsInv, Rows
<1>6. StageInv'
  <2>1. phase' = phase
    BY <1>1 DEF boxVars
  <2>2. CASE Suppress
    BY <2>1, <2>2 DEF Suppress, At, DInv, StageInv, Stages, Intent
  <2>3. CASE Welcome \/ BeginInterview \/ \E p \in Members : Sweep(p)
    BY <2>1, <2>3 DEF Welcome, BeginInterview, Conversing, Sweep, At, DInv, StageInv, Intent
  <2>4. CASE Qualify
    BY <2>1, <2>4 DEF Qualify, Conversing, NextMessage, At, DInv, StageInv, Stages
  <2> QED BY <2>2, <2>3, <2>4
<1> QED BY <1>3, <1>5, <1>6 DEF DInv
-------------------------------------------------------------------------------
(* The letters owed shrink from the front.                                  *)
LEMMA QueueTail ==
  ASSUME RowsInv, QueueInv, toQueue # <<>>, toQueue' = Tail(toQueue),
         match' = match, stage' = stage
  PROVE QueueInv' /\ toQueue' \in Seq(Letters)
<1>1. toQueue \in Seq(Letters)
  BY DEF RowsInv
<1>2. /\ Tail(toQueue) \in Seq(Letters)
      /\ Len(Tail(toQueue)) = Len(toQueue) - 1
      /\ \A i \in 1..Len(Tail(toQueue)) :
           i + 1 \in 1..Len(toQueue) /\ Tail(toQueue)[i] = toQueue[i + 1]
  BY <1>1
<1>3. Len(toQueue) \in Nat
  BY <1>1
<1> QED BY <1>2, <1>3 DEF QueueInv

LEMMA DropStep == ASSUME DInv, DropUnsendable PROVE DInv'
<1>1. /\ toQueue # <<>> /\ toQueue' = Tail(toQueue)
      /\ UNCHANGED <<member, match, mail, arrived, stage, hand, boxVars>>
  BY DEF DropUnsendable
<1>2. QueueInv' /\ toQueue' \in Seq(Letters)
  BY <1>1, QueueTail DEF DInv
<1>3. MatchInv'
  BY <1>1, MatchFrame DEF DInv, boxVars
<1>4. RowsInv'
  BY <1>1, <1>2 DEF DInv, RowsInv, Rows
<1>5. StageInv'
  BY <1>1 DEF DInv, StageInv, boxVars, Intent
<1> QED BY <1>2, <1>3, <1>4, <1>5 DEF DInv

(* The letter that is queued is one its match has been saved for.           *)
LEMMA QueueStep == ASSUME IInv, Queue PROVE DInv'
<1>t. OP!TypeOK /\ RowsInv /\ StageInv /\ QueueInv
      /\ ToldInv /\ DecidedInv /\ CalledInv /\ FlightInv
  BY DEF IInv, DInv, OP!IInv, MatchInv
<1> DEFINE k == Head(toQueue)
<1>1. /\ toQueue # <<>> /\ toQueue' = Tail(toQueue)
      /\ UNCHANGED <<member, match, mail, arrived, stage, hand>>
      /\ OP!Enqueue(k)
  BY BoxEnqueue DEF Queue
<1>2. k \in Letters /\ k = toQueue[1] /\ 1 \in 1..Len(toQueue)
  BY <1>1, <1>t DEF RowsInv
<1>3. /\ phase = "rest" /\ ~Written(k)
      /\ UNCHANGED <<phase, batch, inHand, halted, accepted, restarts>>
      /\ job' = [job EXCEPT ![k] = OP!NewJob]
  BY <1>1 DEF OP!Enqueue, Written
<1>4. \A l \in Letters : l # k => job'[l] = job[l]
  BY <1>3, <1>t DEF OP!TypeOK
<1>5. \A m \in Matches :
        /\ \A p \in m : k = Preview(m, p) => match[m].state = "PREVIEWS_QUEUED"
        /\ k = Introduction(m) => match[m].state = "INTRODUCTION_QUEUED"
  BY <1>2, <1>t DEF QueueInv
<1> HIDE DEF k
<1>6. \A m, p : Told(m, p)' = Told(m, p)
  BY <1>1 DEF Told
<1>7. \A m : Undecided(m)' = Undecided(m) /\ Called(m)' = Called(m)
  BY <1>1 DEF Undecided, Called
<1>8. ToldInv'
  <2> SUFFICES ASSUME NEW m \in Matches
      PROVE /\ match[m].state = "ABSENT" =>
                \A p \in m : ~Told(m, p) /\ ~Written(Preview(m, p))'
            /\ match[m].state = "PREVIEWS_QUEUED" => \E p \in m : ~Told(m, p)
            /\ ~Undecided(m) => \A p \in m : Told(m, p)
            /\ \A p \in m : Told(m, p) =>
                /\ job'[Preview(m, p)].state = "SENT"
                /\ job'[Preview(m, p)].messageId = match[m].preview[p].messageId
    BY <1>1, <1>6, <1>7 DEF ToldInv, ToldOf
  <2>1. ASSUME NEW p \in m, match[m].state = "ABSENT"
        PROVE ~Told(m, p) /\ ~Written(Preview(m, p))'
    BY <1>4, <1>5, <1>t, <2>1, LetterShape DEF ToldInv, ToldOf, Written
  <2>2. ASSUME NEW p \in m, Told(m, p)
        PROVE /\ job'[Preview(m, p)].state = "SENT"
              /\ job'[Preview(m, p)].messageId = match[m].preview[p].messageId
    BY <1>3, <1>4, <1>t, <2>2, LetterShape DEF ToldInv, ToldOf, Written
  <2> QED BY <2>1, <2>2, <1>t DEF ToldInv, ToldOf
<1>9. DecidedInv'
  BY <1>1, <1>t DEF DecidedInv, DecidedOf, Undecided, Open, Called, NobodyObjects, AllApprove
<1>10. CalledInv'
  <2>1. ASSUME NEW m \in Matches, Written(Introduction(m))' PROVE Called(m)
    <3>1. CASE k = Introduction(m)
      BY <3>1, <1>5 DEF Called
    <3>2. CASE k # Introduction(m)
      BY <3>2, <2>1, <1>4, <1>t, LetterShape, SomebodyIn DEF CalledInv, CalledOf, Written
    <3> QED BY <3>1, <3>2
  <2>2. ASSUME NEW m \in Matches, match[m].state = "INTRODUCED"
        PROVE job'[Introduction(m)].state = "SENT" /\ ~InHand(Introduction(m))'
    <3>1. job[Introduction(m)].state = "SENT" /\ Introduction(m) \in Letters
      BY <2>2, <1>t, LetterShape, SomebodyIn DEF CalledInv, CalledOf
    <3>2. ~InHand(Introduction(m))'
      BY <1>3 DEF InHand
    <3> QED BY <3>1, <3>2, <1>3, <1>4 DEF Written
  <2> QED BY <2>1, <2>2, <1>1, <1>7 DEF CalledInv, CalledOf
<1>11. FlightInv'
  BY <1>3 DEF FlightInv, FlightOf, InHand
<1>12. QueueInv' /\ toQueue' \in Seq(Letters)
  BY <1>1, <1>t, QueueTail
<1>13. RowsInv'
  BY <1>1, <1>12, <1>t DEF RowsInv, Rows
<1>14. StageInv'
  BY <1>1, <1>3, <1>t DEF StageInv, Intent
<1> QED BY <1>8, <1>9, <1>10, <1>11, <1>12, <1>13, <1>14 DEF DInv, MatchInv
-------------------------------------------------------------------------------
(* Rows of a match.                                                         *)
LEMMA BlocksShape ==
  /\ DOMAIN Blocks = {"PASS", "CORRECT", "STOP", "DELETE"}
  /\ \A d \in DOMAIN Blocks :
       Blocks[d] \in {"VETOED", "INVALIDATED_BY_CORRECTION", "CANCELLED_BY_STOP",
                      "CANCELLED_BY_DELETION"}
<1>1. DOMAIN Blocks = {"PASS", "CORRECT", "STOP", "DELETE"}
  BY DEF Blocks
<1> QED BY <1>1 DEF Blocks

LEMMA DecisionShape ==
  \A i \in Suppressions \cup Controls : DecisionOf[i] \in {"APPROVE"} \cup DOMAIN Blocks
  BY BlocksShape DEF Suppressions, Controls, DecisionOf

LEMMA SetState ==
  ASSUME NEW m, NEW row \in Rows(m), NEW s \in MatchStates
  PROVE LET next == [row EXCEPT !.state = s]
        IN /\ next \in Rows(m) /\ next.state = s
           /\ next.left = row.left /\ next.preview = row.preview
  BY DEF Rows

(* Writing one side's decision leaves the rest of the row alone.            *)
LEMMA SetDecision ==
  ASSUME NEW m, NEW row \in Rows(m), NEW p \in m, NEW d \in Decisions
  PROVE LET next == [row EXCEPT !.preview[p].decision = d]
        IN /\ next \in Rows(m)
           /\ next.state = row.state /\ next.left = row.left
           /\ \A q \in m : next.preview[q].messageId = row.preview[q].messageId
           /\ next.preview[p].decision = d
           /\ \A q \in m : q # p =>
                next.preview[q].decision = row.preview[q].decision
<1> DEFINE cell == [row.preview[p] EXCEPT !.decision = d]
           cells == [row.preview EXCEPT ![p] = cell]
<1>1. row.preview \in [m -> [messageId: 0..MaxAttempts, decision: Decisions]]
  BY DEF Rows
<1>2. /\ cell \in [messageId: 0..MaxAttempts, decision: Decisions]
      /\ cell.messageId = row.preview[p].messageId /\ cell.decision = d
  BY <1>1
<1>3. /\ cells \in [m -> [messageId: 0..MaxAttempts, decision: Decisions]]
      /\ cells[p] = cell /\ \A q \in m : q # p => cells[q] = row.preview[q]
  BY <1>1, <1>2
<1>4. [row EXCEPT !.preview[p].decision = d] = [row EXCEPT !.preview = cells]
  BY DEF Rows
<1> HIDE DEF cells, cell
<1>5. LET next == [row EXCEPT !.preview = cells]
      IN /\ next \in Rows(m)
         /\ next.state = row.state /\ next.left = row.left /\ next.preview = cells
  BY <1>3 DEF Rows
<1> QED BY <1>2, <1>3, <1>4, <1>5

(* And so does writing down one side's delivery.                            *)
LEMMA SetDelivery ==
  ASSUME NEW m, NEW row \in Rows(m), NEW p \in m, NEW id \in 0..MaxAttempts
  PROVE LET next == [row EXCEPT !.preview[p].messageId = id]
        IN /\ next \in Rows(m)
           /\ next.state = row.state /\ next.left = row.left
           /\ \A q \in m : next.preview[q].decision = row.preview[q].decision
           /\ next.preview[p].messageId = id
           /\ \A q \in m : q # p =>
                next.preview[q].messageId = row.preview[q].messageId
<1> DEFINE cell == [row.preview[p] EXCEPT !.messageId = id]
           cells == [row.preview EXCEPT ![p] = cell]
<1>1. row.preview \in [m -> [messageId: 0..MaxAttempts, decision: Decisions]]
  BY DEF Rows
<1>2. /\ cell \in [messageId: 0..MaxAttempts, decision: Decisions]
      /\ cell.decision = row.preview[p].decision /\ cell.messageId = id
  BY <1>1
<1>3. /\ cells \in [m -> [messageId: 0..MaxAttempts, decision: Decisions]]
      /\ cells[p] = cell /\ \A q \in m : q # p => cells[q] = row.preview[q]
  BY <1>1, <1>2
<1>4. [row EXCEPT !.preview[p].messageId = id] = [row EXCEPT !.preview = cells]
  BY DEF Rows
<1> HIDE DEF cells, cell
<1>5. LET next == [row EXCEPT !.preview = cells]
      IN /\ next \in Rows(m)
         /\ next.state = row.state /\ next.left = row.left /\ next.preview = cells
  BY <1>3 DEF Rows
<1> QED BY <1>2, <1>3, <1>4, <1>5

(* A block ends the match; an approval clears it when it is the last.       *)
LEMMA DecisionRow ==
  ASSUME NEW m \in Matches, NEW row \in Rows(m), NEW p \in m,
         NEW d \in {"APPROVE"} \cup DOMAIN Blocks
  PROVE LET next == RecordPreviewDecision(row, p, d)
        IN /\ next \in Rows(m) /\ next.left = row.left
           /\ \A q \in m : next.preview[q].messageId = row.preview[q].messageId
           /\ next.preview[p].decision = d
           /\ \A q \in m : q # p =>
                next.preview[q].decision = row.preview[q].decision
           /\ d \in DOMAIN Blocks => next.state = Blocks[d]
           /\ d = "APPROVE" =>
                \/ /\ next.state = "READY_TO_INTRODUCE"
                   /\ \A q \in m : next.preview[q].decision = "APPROVE"
                \/ next.state = row.state
<1> DEFINE base == [row EXCEPT !.preview[p].decision = d]
<1>1. d \in Decisions /\ "APPROVE" \notin DOMAIN Blocks
  BY BlocksShape DEF Decisions
<1>2. /\ base \in Rows(m)
      /\ base.state = row.state /\ base.left = row.left
      /\ \A q \in m : base.preview[q].messageId = row.preview[q].messageId
      /\ base.preview[p].decision = d
      /\ \A q \in m : q # p => base.preview[q].decision = row.preview[q].decision
  BY <1>1, SetDecision
<1>3. DOMAIN row.preview = m
  BY DEF Rows
<1>4. RecordPreviewDecision(row, p, d) =
        CASE d \in DOMAIN Blocks -> [base EXCEPT !.state = Blocks[d]]
          [] \A q \in m : base.preview[q].decision = "APPROVE" ->
               [base EXCEPT !.state = "READY_TO_INTRODUCE"]
          [] OTHER -> base
  BY <1>3 DEF RecordPreviewDecision
<1> HIDE DEF base
<1>5. CASE d \in DOMAIN Blocks
  <2>1. Blocks[d] \in MatchStates
    BY <1>5, BlocksShape DEF MatchStates, TerminalMatches
  <2>2. base.preview[p].decision # "APPROVE"
    BY <1>1, <1>2, <1>5
  <2>3. RecordPreviewDecision(row, p, d) = [base EXCEPT !.state = Blocks[d]]
    BY <1>4, <1>5, <2>2
  <2> QED BY <1>1, <1>2, <1>5, <2>1, <2>3, SetState
<1>6. CASE d \notin DOMAIN Blocks
  <2>1. CASE \A q \in m : base.preview[q].decision = "APPROVE"
    <3>1. RecordPreviewDecision(row, p, d) = [base EXCEPT !.state = "READY_TO_INTRODUCE"]
      BY <1>4, <1>6, <2>1
    <3>2. "READY_TO_INTRODUCE" \in MatchStates
      BY DEF MatchStates, DeskLiveStates
    <3> QED BY <1>2, <1>6, <2>1, <3>1, <3>2, SetState
  <2>2. CASE ~\A q \in m : base.preview[q].decision = "APPROVE"
    <3>1. RecordPreviewDecision(row, p, d) = base
      BY <1>4, <1>6, <2>2
    <3> QED BY <1>2, <1>6, <3>1
  <2> QED BY <2>1, <2>2
<1> QED BY <1>5, <1>6

(* A delivery is written down; the last one opens the window.               *)
LEMMA DeliveryRow ==
  ASSUME NEW m \in Matches, NEW row \in Rows(m), NEW p \in m, NEW id \in 0..MaxAttempts
  PROVE LET next == MarkPreviewSent(row, p, id)
        IN /\ next \in Rows(m)
           /\ \A q \in m : next.preview[q].decision = row.preview[q].decision
           /\ next.preview[p].messageId = id
           /\ \A q \in m : q # p =>
                next.preview[q].messageId = row.preview[q].messageId
           /\ \/ /\ next.state = "VETO_WINDOW"
                 /\ \A q \in m : next.preview[q].messageId # 0
              \/ /\ next.state = row.state /\ next.left = row.left
                 /\ \E q \in m : next.preview[q].messageId = 0
<1> DEFINE base == [row EXCEPT !.preview[p].messageId = id]
<1>1. /\ base \in Rows(m)
      /\ base.state = row.state /\ base.left = row.left
      /\ \A q \in m : base.preview[q].decision = row.preview[q].decision
      /\ base.preview[p].messageId = id
      /\ \A q \in m : q # p => base.preview[q].messageId = row.preview[q].messageId
  BY SetDelivery
<1>2. DOMAIN row.preview = m
  BY DEF Rows
<1>3. MarkPreviewSent(row, p, id) =
        IF \A q \in m : base.preview[q].messageId # 0
          THEN [base EXCEPT !.state = "VETO_WINDOW", !.left = VetoWindow] ELSE base
  BY <1>2 DEF MarkPreviewSent
<1> HIDE DEF base
<1>4. CASE \A q \in m : base.preview[q].messageId # 0
  <2> DEFINE next == [base EXCEPT !.state = "VETO_WINDOW", !.left = VetoWindow]
  <2>1. VetoWindow \in 0..VetoWindow /\ "VETO_WINDOW" \in MatchStates
    BY DeskAssumption DEF MatchStates, DeskLiveStates
  <2>2. /\ next \in Rows(m) /\ next.state = "VETO_WINDOW"
        /\ next.preview = base.preview
    BY <1>1, <2>1 DEF Rows
  <2>3. MarkPreviewSent(row, p, id) = next
    BY <1>3, <1>4
  <2> HIDE DEF next
  <2> QED BY <1>1, <1>4, <2>2, <2>3
<1>5. CASE ~\A q \in m : base.preview[q].messageId # 0
  BY <1>1, <1>3, <1>5
<1> QED BY <1>4, <1>5
-------------------------------------------------------------------------------
(* A step that writes one match, no job, and takes nothing in hand.         *)
LEMMA OneMatch ==
  ASSUME RowsInv, MatchInv, NEW m \in Matches, NEW row \in Rows(m),
         match' = [match EXCEPT ![m] = row],
         UNCHANGED <<member, mail, arrived, job>>, \A k : InHand(k)' => InHand(k),
         toQueue' \in Seq(Letters),
         ToldOf(m)', DecidedOf(m)', CalledOf(m)', FlightOf(m)'
  PROVE MatchInv' /\ RowsInv'
<1>1. match'[m] = row /\ DOMAIN match' = Matches
      /\ \A n \in Matches \ {m} : match'[n] = match[n]
  BY DEF RowsInv
<1>2. RowsInv'
  BY <1>1 DEF RowsInv, Rows
<1>3. ASSUME NEW n \in Matches \ {m}
      PROVE ToldOf(n)' /\ DecidedOf(n)' /\ CalledOf(n)' /\ FlightOf(n)'
  <2>1. ToldOf(n) /\ DecidedOf(n) /\ CalledOf(n) /\ FlightOf(n)
    BY DEF MatchInv, ToldInv, DecidedInv, CalledInv, FlightInv
  <2>2. match'[n] = match[n]
    BY <1>1
  <2>3. /\ \A p : Told(n, p)' = Told(n, p)
        /\ \A k : Written(k)' = Written(k) /\ (InHand(k)' => InHand(k))
    BY <2>2 DEF Told, Written
  <2>4. /\ Undecided(n)' = Undecided(n) /\ Open(n)' = Open(n)
        /\ Called(n)' = Called(n) /\ AllApprove(n)' = AllApprove(n)
        /\ NobodyObjects(n)' = NobodyObjects(n)
    BY <2>2 DEF Undecided, Open, Called, AllApprove, NobodyObjects
  <2>5. ToldOf(n)' /\ CalledOf(n)' /\ FlightOf(n)'
    BY <2>1, <2>2, <2>3, <2>4 DEF ToldOf, CalledOf, FlightOf
  <2>6. DecidedOf(n)'
    BY <2>1, <2>2, <2>4 DEF DecidedOf
  <2> QED BY <2>5, <2>6
<1>4. MatchInv'
  BY <1>3 DEF MatchInv, ToldInv, DecidedInv, CalledInv, FlightInv
<1> QED BY <1>2, <1>4

LEMMA RowOf == ASSUME RowsInv, NEW m \in Matches PROVE match[m] \in Rows(m)
  BY DEF RowsInv

LEMMA DecideStep == ASSUME DInv, NEW m \in Matches, Decide(m) PROVE DInv'
<1>t. RowsInv /\ StageInv /\ QueueInv /\ MatchInv
      /\ ToldOf(m) /\ DecidedOf(m) /\ CalledOf(m) /\ FlightOf(m)
  BY DEF DInv, MatchInv, ToldInv, DecidedInv, CalledInv, FlightInv
<1> DEFINE d == DecisionOf[Intent]
           row == RecordPreviewDecision(match[m], Sender, d)
<1>1. /\ stage = "decide" /\ Sender \in m
      /\ match[m].state \in {"VETO_WINDOW", "READY_TO_INTRODUCE"}
      /\ match[m].preview[Sender].decision # d
      /\ match' = [match EXCEPT ![m] = row]
      /\ UNCHANGED <<member, mail, arrived, stage, hand, toQueue, boxVars>>
  BY DEF Decide, At, StillToDecide
<1>2. d \in {"APPROVE"} \cup DOMAIN Blocks
  BY <1>1, <1>t, DecisionShape DEF StageInv
<1>3. match[m] \in Rows(m)
  BY <1>t, RowOf
<1> HIDE DEF d
<1>4. /\ row \in Rows(m) /\ row.left = match[m].left
      /\ \A q \in m : row.preview[q].messageId = match[m].preview[q].messageId
      /\ row.preview[Sender].decision = d
      /\ \A q \in m : q # Sender =>
           row.preview[q].decision = match[m].preview[q].decision
      /\ d \in DOMAIN Blocks => row.state = Blocks[d]
      /\ d = "APPROVE" =>
           \/ /\ row.state = "READY_TO_INTRODUCE"
              /\ \A q \in m : row.preview[q].decision = "APPROVE"
           \/ row.state = match[m].state
  BY <1>1, <1>2, <1>3, DecisionRow
<1> HIDE DEF row
<1>5. match'[m] = row
  BY <1>1, <1>t DEF RowsInv
<1>6. UNCHANGED <<job, phase, inHand>>
  BY <1>1 DEF boxVars
<1>7. toQueue = <<>>
  BY <1>1, <1>t, NothingToQueue
<1>8. /\ \A p \in m : Told(m, p)' = Told(m, p)
      /\ \A k : Written(k)' = Written(k) /\ InHand(k)' = InHand(k)
  BY <1>4, <1>5, <1>6 DEF Told, Written, InHand
<1>9. /\ ~Undecided(m) /\ ~Called(m) /\ Open(m)
      /\ ~Undecided(m)' /\ ~Called(m)'
  <2>1. CASE d \in DOMAIN Blocks
    BY <1>1, <1>4, <1>5, <2>1, BlocksShape DEF Undecided, Called, Open
  <2>2. CASE d = "APPROVE"
    BY <1>1, <1>4, <1>5, <2>2 DEF Undecided, Called, Open
  <2> QED BY <1>2, <2>1, <2>2
<1>10. ToldOf(m)'
  <2>1. \A p \in m : Told(m, p)
    BY <1>9, <1>t DEF ToldOf
  <2> QED BY <1>4, <1>5, <1>6, <1>8, <1>9, <1>t, <2>1 DEF ToldOf, Undecided
<1>11. DecidedOf(m)'
  <2>1. NobodyObjects(m)
    BY <1>9, <1>t DEF DecidedOf
  <2>2. CASE d \in DOMAIN Blocks
    <3>1. ~Open(m)' /\ match'[m].state # "READY_TO_INTRODUCE"
      BY <1>4, <1>5, <2>2, BlocksShape DEF Open
    <3> QED BY <1>9, <3>1 DEF DecidedOf
  <2>3. CASE d = "APPROVE"
    <3>1. NobodyObjects(m)'
      BY <1>4, <1>5, <2>1, <2>3 DEF NobodyObjects
    <3>2. match'[m].state = "READY_TO_INTRODUCE" => AllApprove(m)'
      <4>1. CASE match[m].state = "READY_TO_INTRODUCE"
        BY <1>1, <1>t, <2>3, <4>1 DEF DecidedOf, AllApprove
      <4>2. CASE match[m].state # "READY_TO_INTRODUCE"
        BY <1>4, <1>5, <2>3, <4>2 DEF AllApprove
      <4> QED BY <4>1, <4>2
    <3> QED BY <1>9, <3>1, <3>2 DEF DecidedOf
  <2> QED BY <1>2, <2>2, <2>3
<1>12. CalledOf(m)' /\ FlightOf(m)'
  BY <1>8, <1>9, <1>t DEF CalledOf, FlightOf, Called
<1>13. MatchInv' /\ RowsInv'
  BY <1>1, <1>4, <1>6, <1>7, <1>8, <1>10, <1>11, <1>12, <1>t, OneMatch DEF RowsInv
<1>14. QueueInv' /\ StageInv'
  BY <1>1, <1>6, <1>7, <1>t DEF QueueInv, StageInv, Intent
<1> QED BY <1>13, <1>14 DEF DInv

LEMMA ProposeStep == ASSUME DInv, NEW e \in Eligible, Propose(e) PROVE DInv'
<1> DEFINE m == {e[1], e[2]}
           row == NewRow(m, "PREVIEWS_QUEUED")
           owed == <<Preview(m, e[1]), Preview(m, e[2])>>
<1>m. m \in Matches /\ e[1] \in m /\ e[2] \in m
  BY DEF Matches
<1>1. /\ stage = "propose" /\ toQueue = <<>>
      /\ match[m].state = "ABSENT"
      /\ match' = [match EXCEPT ![m] = row] /\ toQueue' = owed
      /\ UNCHANGED <<member, mail, arrived, stage, hand, boxVars>>
  BY DEF Propose, At, Proposable
<1>2. owed \in Seq(Letters) /\ Len(owed) = 2
      /\ owed[1] = Preview(m, e[1]) /\ owed[2] = Preview(m, e[2])
  BY <1>m, LetterShape
<1> HIDE DEF m, owed
<1>t. RowsInv /\ StageInv /\ QueueInv /\ MatchInv /\ CalledOf(m) /\ FlightOf(m)
  BY <1>m DEF DInv, MatchInv, CalledInv, FlightInv
<1>3. /\ row \in Rows(m) /\ row.state = "PREVIEWS_QUEUED"
      /\ \A p \in m : /\ row.preview[p].messageId = 0
                      /\ row.preview[p].decision = "PENDING"
  <2>1. VetoWindow \in 0..VetoWindow /\ 0 \in 0..MaxAttempts
    BY DeskAssumption, DeskOutboxAssumption
  <2> QED BY <2>1 DEF NewRow, Rows, MatchStates, DeskLiveStates, Decisions
<1> HIDE DEF row
<1>4. match'[m] = row /\ \A n \in Matches \ {m} : match'[n] = match[n]
  BY <1>1, <1>m, <1>t DEF RowsInv
<1>5. UNCHANGED <<job, phase, inHand>>
  BY <1>1 DEF boxVars
<1>6. \A p \in m : ~Told(m, p)'
  BY <1>3, <1>4 DEF Told
<1>7. Undecided(m)' /\ ~Open(m)' /\ ~Called(m)' /\ ~Called(m)
  BY <1>1, <1>3, <1>4 DEF Undecided, Open, Called
<1>8. ToldOf(m)'
  BY <1>3, <1>4, <1>6, <1>7, <1>m DEF ToldOf
<1>9. DecidedOf(m)'
  BY <1>3, <1>4, <1>7 DEF DecidedOf
<1>10. CalledOf(m)' /\ FlightOf(m)'
  BY <1>3, <1>4, <1>5, <1>6, <1>7, <1>t DEF CalledOf, FlightOf, Written
<1>11. MatchInv' /\ RowsInv'
  BY <1>1, <1>2, <1>3, <1>5, <1>8, <1>9, <1>10, <1>m, <1>t, OneMatch DEF InHand
<1>12. QueueInv'
  <2>1. \A i \in 1..Len(owed) : \E p \in m : owed[i] = Preview(m, p)
    BY <1>2, <1>m
  <2>2. \A i \in 1..Len(owed), n \in Matches :
          /\ \A p \in n : owed[i] = Preview(n, p) => n = m
          /\ owed[i] # Introduction(n)
    <3> SUFFICES ASSUME NEW i \in 1..Len(owed), NEW n \in Matches
        PROVE /\ \A p \in n : owed[i] = Preview(n, p) => n = m
              /\ owed[i] # Introduction(n)
      OBVIOUS
    <3>1. PICK q \in m : owed[i] = Preview(m, q)
      BY <2>1
    <3> QED BY <3>1, <1>m, LetterShape, SomebodyIn
  <2> QED BY <1>1, <1>2, <1>3, <1>4, <2>2 DEF QueueInv
<1>13. StageInv'
  BY <1>1, <1>5, <1>t DEF StageInv, Intent
<1> QED BY <1>11, <1>12, <1>13 DEF DInv

LEMMA IntroduceStep == ASSUME DInv, NEW m \in Matches, Introduce(m) PROVE DInv'
<1> DEFINE row == [match[m] EXCEPT !.state = "INTRODUCTION_QUEUED"]
<1>t. RowsInv /\ StageInv /\ QueueInv /\ MatchInv
      /\ ToldOf(m) /\ DecidedOf(m) /\ CalledOf(m) /\ FlightOf(m)
  BY DEF DInv, MatchInv, ToldInv, DecidedInv, CalledInv, FlightInv
<1>1. /\ stage = "deadlines" /\ toQueue = <<>> /\ Cleared(m)
      /\ match' = [match EXCEPT ![m] = row] /\ toQueue' = <<Introduction(m)>>
      /\ UNCHANGED <<member, mail, arrived, stage, hand, boxVars>>
  BY DEF Introduce, At, Introducible
<1>2. /\ row \in Rows(m) /\ row.state = "INTRODUCTION_QUEUED"
      /\ row.left = match[m].left /\ row.preview = match[m].preview
  <2>1. "INTRODUCTION_QUEUED" \in MatchStates /\ match[m] \in Rows(m)
    BY <1>t, RowOf DEF MatchStates, DeskLiveStates
  <2> QED BY <2>1, SetState
<1> HIDE DEF row
<1>3. match'[m] = row
  BY <1>1, <1>t DEF RowsInv
<1>4. UNCHANGED <<job, phase, inHand>>
  BY <1>1 DEF boxVars
<1>5. /\ Open(m) /\ ~Undecided(m) /\ ~Undecided(m)' /\ ~Open(m)' /\ Called(m)'
      /\ match'[m].state \notin {"INTRODUCED", "READY_TO_INTRODUCE"}
  BY <1>1, <1>2, <1>3 DEF Cleared, Open, Undecided, Called
<1>6. /\ \A p : Told(m, p)' = Told(m, p)
      /\ NobodyObjects(m)' = NobodyObjects(m) /\ AllApprove(m)' = AllApprove(m)
      /\ match'[m].left = match[m].left
  BY <1>2, <1>3 DEF Told, NobodyObjects, AllApprove
<1>7. match[m].left = 0 \/ AllApprove(m)
  BY <1>1, <1>t DEF Cleared, DecidedOf
<1>8. ToldOf(m)'
  <2>1. \A p \in m : Told(m, p)
    BY <1>5, <1>t DEF ToldOf
  <2> QED BY <1>2, <1>3, <1>4, <1>5, <1>6, <1>t, <2>1 DEF ToldOf, Undecided
<1>9. DecidedOf(m)'
  BY <1>5, <1>6, <1>7, <1>t DEF DecidedOf
<1>10. CalledOf(m)' /\ FlightOf(m)'
  BY <1>4, <1>5, <1>6, <1>t DEF CalledOf, FlightOf, InHand
<1>11. Introduction(m) \in Letters
  BY LetterShape, SomebodyIn
<1>12. <<Introduction(m)>> \in Seq(Letters) /\ Len(<<Introduction(m)>>) = 1
  BY <1>11
<1>13. MatchInv' /\ RowsInv'
  BY <1>1, <1>2, <1>4, <1>8, <1>9, <1>10, <1>12, <1>t, OneMatch DEF InHand
<1>14. QueueInv'
  <2>1. \A n \in Matches :
          /\ \A p \in n : Introduction(m) # Preview(n, p)
          /\ Introduction(m) = Introduction(n) => n = m
    BY LetterShape, SomebodyIn
  <2> QED BY <1>1, <1>2, <1>3, <2>1 DEF QueueInv
<1>15. StageInv'
  BY <1>1, <1>4, <1>t DEF StageInv, Intent
<1> QED BY <1>13, <1>14, <1>15 DEF DInv
-------------------------------------------------------------------------------
(* A step of the outbox that writes no new letter.  What was SENT stays so, *)
(* and whatever is taken in hand was waiting, so it has not been delivered. *)
LEMMA OutboxFrame ==
  ASSUME MatchInv, match' = match,
         \A k \in Letters :
           /\ Written(k)' => Written(k)
           /\ job[k].state = "SENT" => job'[k] = job[k]
           /\ InHand(k)' => InHand(k) \/ job[k].state \in {"PENDING", "RETRY_WAIT"}
  PROVE MatchInv'
<1> SUFFICES ASSUME NEW m \in Matches
             PROVE ToldOf(m)' /\ DecidedOf(m)' /\ CalledOf(m)' /\ FlightOf(m)'
  BY DEF MatchInv, ToldInv, DecidedInv, CalledInv, FlightInv
<1>1. ToldOf(m) /\ DecidedOf(m) /\ CalledOf(m) /\ FlightOf(m)
  BY DEF MatchInv, ToldInv, DecidedInv, CalledInv, FlightInv
<1>2. \A p : Told(m, p)' = Told(m, p)
  BY DEF Told
<1>3. /\ Undecided(m)' = Undecided(m) /\ Open(m)' = Open(m)
      /\ Called(m)' = Called(m) /\ AllApprove(m)' = AllApprove(m)
      /\ NobodyObjects(m)' = NobodyObjects(m)
  BY DEF Undecided, Open, Called, AllApprove, NobodyObjects
<1>4. Introduction(m) \in Letters /\ \A p \in m : Preview(m, p) \in Letters
  BY LetterShape, SomebodyIn
<1>5. ToldOf(m)'
  BY <1>1, <1>2, <1>3, <1>4 DEF ToldOf
<1>6. DecidedOf(m)'
  BY <1>1, <1>3 DEF DecidedOf
<1>7. CalledOf(m)'
  BY <1>1, <1>3, <1>4 DEF CalledOf
<1>8. FlightOf(m)'
  BY <1>1, <1>2, <1>4 DEF FlightOf, ToldOf
<1> QED BY <1>5, <1>6, <1>7, <1>8

(* Drains, crashes and boots write no new letter, and take nothing in hand  *)
(* that was not waiting.                                                    *)
LEMMA DrainActions ==
  Drain \/ EndTick \/ Crash \/ Boot =>
    \/ OP!StartDrain \/ (\E k \in Letters : OP!Claim(k)) \/ OP!Send \/ OP!RecordSent
    \/ OP!EndDrain \/ OP!Crash \/ OP!Boot
  BY BoxStart, BoxClaim, BoxSend, BoxSent, BoxEnd, BoxCrash, BoxBoot
     DEF Drain, EndTick, Crash, Boot

LEMMA DrainWrites ==
  ASSUME OP!IInv, Drain \/ EndTick \/ Crash \/ Boot, NEW k \in Letters
  PROVE /\ Written(k)' => Written(k)
        /\ InHand(k)' => InHand(k) \/ job[k].state \in {"PENDING", "RETRY_WAIT"}
<1>t. OP!TypeOK /\ OP!HandInv
  BY DEF OP!IInv
<1>1. CASE OP!StartDrain \/ OP!EndDrain \/ OP!Crash \/ OP!Boot
  BY <1>1 DEF OP!StartDrain, OP!EndDrain, OP!Crash, OP!Boot, Written, InHand
<1>2. ASSUME NEW l \in Letters, OP!Claim(l)
      PROVE /\ Written(k)' => Written(k)
            /\ InHand(k)' => job[k].state \in {"PENDING", "RETRY_WAIT"}
  <2>1. /\ job[l].state \in {"PENDING", "RETRY_WAIT"} /\ inHand' = l
        /\ \A n \in Letters : n # l => job'[n] = job[n]
    BY <1>2, <1>t DEF OP!Claim, OP!Due, OP!Waiting, OP!TypeOK
  <2> QED BY <2>1 DEF Written, InHand
<1>3. CASE OP!RecordSent
  <2>1. /\ phase = "accepted" /\ inHand \in Letters
        /\ job[inHand].state = "SENDING" /\ inHand' = inHand
        /\ \A n \in Letters : n # inHand => job'[n] = job[n]
    BY <1>3, <1>t DEF OP!RecordSent, OP!HandInv, OP!TypeOK
  <2> QED BY <2>1 DEF Written, InHand
<1>4. CASE OP!Accept
  BY <1>4 DEF OP!Accept, Written, InHand
<1>5. CASE OP!Refuse(TRUE) \/ OP!Refuse(FALSE) \/ OP!LoseAck
  <2>1. phase = "sending" /\ phase' = "drain"
        /\ \E j : job' = [job EXCEPT ![inHand] = j]
    BY <1>5 DEF OP!Refuse, OP!LoseAck
  <2>2. job[inHand].state = "SENDING" /\ inHand \in Letters
    BY <2>1, <1>t DEF OP!HandInv
  <2>3. \A n \in Letters : n # inHand => job'[n] = job[n]
    BY <2>1, <1>t DEF OP!TypeOK
  <2> QED BY <2>1, <2>2, <2>3 DEF Written, InHand
<1> QED BY DrainActions, <1>1, <1>2, <1>3, <1>4, <1>5 DEF OP!Send

(* The drain, the end of it, a crash and a boot.                            *)
LEMMA DrainStep == ASSUME IInv, Drain \/ EndTick \/ Crash \/ Boot PROVE DInv'
<1>t. OP!IInv /\ OP!TypeOK /\ OP!HandInv /\ RowsInv /\ StageInv /\ QueueInv /\ MatchInv
  BY DEF IInv, DInv, OP!IInv
<1>1. [Next]_vars /\ match' = match /\ UNCHANGED <<member, mail, arrived>>
  BY DEF Next, Tick, Drain, EndTick, Crash, Boot
<1>2. \A k \in Letters : job[k].state = "SENT" => job'[k] = job[k]
  BY <1>1, BoxStep, OP!RowsAdvance, BoxAssumption DEF IInv, OP!TerminalStates
<1>3. \/ OP!StartDrain \/ (\E k \in Letters : OP!Claim(k)) \/ OP!Send \/ OP!RecordSent
      \/ OP!EndDrain \/ OP!Crash \/ OP!Boot
  BY DrainActions
<1>4. \A k \in Letters :
        /\ Written(k)' => Written(k)
        /\ InHand(k)' => InHand(k) \/ job[k].state \in {"PENDING", "RETRY_WAIT"}
  BY <1>t, DrainWrites
<1>5. MatchInv'
  BY <1>1, <1>2, <1>4, <1>t, OutboxFrame
<1>6. toQueue' = <<>> \/ UNCHANGED <<toQueue, stage>>
  BY <1>t, NothingToQueue DEF Drain, EndTick, Crash, Boot, Box!EndDrain, StageInv
<1>7. QueueInv'
  BY <1>1, <1>6, <1>t DEF QueueInv
<1>8. RowsInv'
  <2>1. toQueue' \in Seq(Letters)
    <3>1. <<>> \in Seq(Letters)
      OBVIOUS
    <3> QED BY <1>6, <1>t, <3>1 DEF RowsInv
  <2> QED BY <1>1, <2>1, <1>t DEF RowsInv, Rows
<1>9. StageInv'
  <2>1. CASE Drain
    <3>1. stage = "drain" /\ UNCHANGED <<stage, hand>>
      BY <2>1 DEF Drain
    <3>2. phase' # "down"
      BY <1>3, <2>1, BoxStart, BoxClaim, BoxSend, BoxSent
         DEF Drain, OP!StartDrain, OP!Claim, OP!Send, OP!Accept, OP!Refuse,
             OP!LoseAck, OP!RecordSent
    <3> QED BY <3>1, <3>2, <1>t DEF StageInv, Stages
  <2>2. CASE EndTick
    BY <2>2, <1>t DEF EndTick, Box!EndDrain, StageInv, Stages
  <2>3. CASE Crash
    BY <2>3, <1>t DEF Crash, Box!Crash, StageInv, Stages
  <2>4. CASE Boot
    BY <2>4, <1>t DEF Boot, Box!Boot, StageInv, Stages, Intent
  <2> QED BY <2>1, <2>2, <2>3, <2>4
<1> QED BY <1>5, <1>7, <1>8, <1>9 DEF DInv
(* Which letter is delivered, and what its match looks like then.           *)
LEMMA DeliveryShape ==
  ASSUME IInv, NEW k \in Letters, InHand(k)
  PROVE \E m \in Matches :
          \/ k = Introduction(m) /\ match[m].state = "INTRODUCTION_QUEUED"
          \/ \E p \in m : /\ k = Preview(m, p) /\ ~Told(m, p)
                          /\ match[m].state = "PREVIEWS_QUEUED"
<1>1. PICK m \in Matches : k = Introduction(m) \/ \E p \in m : k = Preview(m, p)
  BY LetterKinds
<1>2. ToldOf(m) /\ CalledOf(m) /\ FlightOf(m)
  BY DEF IInv, DInv, MatchInv, ToldInv, CalledInv, FlightInv
<1>3. Written(k)
  BY DEF IInv, OP!IInv, OP!HandInv, InHand, Written
<1>4. CASE k = Introduction(m)
  BY <1>2, <1>3, <1>4 DEF CalledOf, Called
<1>5. CASE \E p \in m : k = Preview(m, p)
  <2>1. PICK p \in m : k = Preview(m, p)
    BY <1>5
  <2>2. ~Told(m, p)
    BY <1>2, <2>1 DEF FlightOf
  <2>3. match[m].state = "PREVIEWS_QUEUED"
    BY <1>2, <1>3, <2>1, <2>2 DEF ToldOf, Undecided
  <2> QED BY <2>1, <2>2, <2>3
<1> QED BY <1>1, <1>4, <1>5

LEMMA DeliveryStep == ASSUME IInv, RecordDelivery PROVE DInv'
<1>t. OP!TypeOK /\ OP!HandInv /\ OP!EarnedInv
      /\ RowsInv /\ StageInv /\ QueueInv /\ MatchInv
  BY DEF IInv, DInv, OP!IInv
<1> DEFINE k == inHand
<1>1. /\ phase = "delivered" /\ phase' = "drain" /\ job' = job
      /\ match' = [match EXCEPT ![MatchOf(k)] =
                     Delivered(match[MatchOf(k)], k, job[k].messageId)]
      /\ UNCHANGED <<member, mail, arrived, stage, hand, toQueue>>
  BY DEF RecordDelivery, Box!RecordDelivery
<1>2. k \in Letters /\ InHand(k) /\ job[k].state = "SENT" /\ stage = "drain"
  BY <1>1, <1>t DEF OP!HandInv, InHand, StageInv
<1>3. job[k].messageId \in 0..MaxAttempts /\ job[k].messageId # 0
  <2>1. job[k] \in OP!Jobs
    BY <1>2, <1>t DEF OP!TypeOK
  <2> QED BY <1>2, <1>t, <2>1 DEF OP!Jobs, OP!EarnedInv
<1>4. toQueue = <<>> /\ toQueue' = <<>> /\ toQueue' \in Seq(Letters)
  BY <1>1, <1>2, <1>t, NothingToQueue
<1>5. \A l : ~InHand(l)' /\ (Written(l)' = Written(l))
  BY <1>1 DEF InHand, Written
<1>6. QueueInv' /\ StageInv'
  <2>1. QueueInv'
    BY <1>4 DEF QueueInv
  <2> QED BY <1>1, <1>2, <1>t, <2>1 DEF StageInv, Stages
<1>7. ASSUME NEW m \in Matches, k = Introduction(m),
             match[m].state = "INTRODUCTION_QUEUED"
      PROVE MatchInv' /\ RowsInv'
  <2> DEFINE row == [match[m] EXCEPT !.state = "INTRODUCED"]
  <2>1. MatchOf(k) = m /\ Recipients(k) = m
    BY <1>7, LetterShape, SomebodyIn
  <2>2. match' = [match EXCEPT ![m] = row]
    BY <1>1, <1>7, <2>1 DEF Delivered
  <2>3. /\ row \in Rows(m) /\ row.state = "INTRODUCED"
        /\ row.left = match[m].left /\ row.preview = match[m].preview
    <3>1. "INTRODUCED" \in MatchStates /\ match[m] \in Rows(m)
      BY <1>t, RowOf DEF MatchStates, TerminalMatches
    <3> QED BY <3>1, SetState
  <2> HIDE DEF row
  <2>4. match'[m] = row
    BY <2>2, <1>t DEF RowsInv
  <2>5. ToldOf(m) /\ DecidedOf(m) /\ CalledOf(m)
    BY <1>t DEF MatchInv, ToldInv, DecidedInv, CalledInv
  <2>6. /\ \A p : Told(m, p)' = Told(m, p)
        /\ NobodyObjects(m)' = NobodyObjects(m) /\ AllApprove(m)' = AllApprove(m)
        /\ match'[m].left = match[m].left /\ match'[m].state = "INTRODUCED"
        /\ Called(m) /\ Called(m)' /\ ~Undecided(m) /\ ~Undecided(m)'
    BY <1>7, <2>3, <2>4
       DEF Told, NobodyObjects, AllApprove, Called, Undecided
  <2>7. ToldOf(m)'
    BY <1>1, <2>3, <2>4, <2>5, <2>6 DEF ToldOf
  <2>8. DecidedOf(m)'
    BY <2>5, <2>6 DEF DecidedOf
  <2>9. CalledOf(m)' /\ FlightOf(m)'
    BY <1>1, <1>2, <1>5, <1>7, <2>6 DEF CalledOf, FlightOf
  <2> QED BY <1>1, <1>4, <1>5, <1>t, <2>2, <2>3, <2>7, <2>8, <2>9, OneMatch
<1>8. ASSUME NEW m \in Matches, NEW p \in m, k = Preview(m, p), ~Told(m, p),
             match[m].state = "PREVIEWS_QUEUED"
      PROVE MatchInv' /\ RowsInv'
  <2> DEFINE id == job[k].messageId
             row == MarkPreviewSent(match[m], p, id)
  <2>1. MatchOf(k) = m /\ Recipients(k) = {p} /\ {p} # m
    BY <1>8, LetterShape, PairShape
  <2>2. (CHOOSE q \in {p} : TRUE) = p
    OBVIOUS
  <2>3. match' = [match EXCEPT ![m] = row]
    BY <1>1, <2>1, <2>2 DEF Delivered
  <2>4. match[m] \in Rows(m) /\ id \in 0..MaxAttempts
    BY <1>3, <1>t, RowOf
  <2> HIDE DEF id
  <2>5. /\ row \in Rows(m)
        /\ \A q \in m : row.preview[q].decision = match[m].preview[q].decision
        /\ row.preview[p].messageId = id
        /\ \A q \in m : q # p =>
             row.preview[q].messageId = match[m].preview[q].messageId
        /\ \/ row.state = "VETO_WINDOW" /\ \A q \in m : row.preview[q].messageId # 0
           \/ /\ row.state = "PREVIEWS_QUEUED"
              /\ \E q \in m : row.preview[q].messageId = 0
    BY <1>8, <2>4, DeliveryRow
  <2> HIDE DEF row
  <2>6. match'[m] = row
    BY <2>3, <1>t DEF RowsInv
  <2>7. ToldOf(m) /\ DecidedOf(m) /\ CalledOf(m)
    BY <1>t DEF MatchInv, ToldInv, DecidedInv, CalledInv
  <2>8. /\ match'[m].state \in {"VETO_WINDOW", "PREVIEWS_QUEUED"}
        /\ ~Called(m) /\ ~Called(m)' /\ Undecided(m)
    BY <1>8, <2>5, <2>6 DEF Called, Undecided
  <2>9. ToldOf(m)'
    <3>1. \A q \in m : Told(m, q)' =>
            /\ job'[Preview(m, q)].state = "SENT"
            /\ job'[Preview(m, q)].messageId = match'[m].preview[q].messageId
      <4> SUFFICES ASSUME NEW q \in m, Told(m, q)'
          PROVE /\ job[Preview(m, q)].state = "SENT"
                /\ job[Preview(m, q)].messageId = match'[m].preview[q].messageId
        BY <1>1
      <4>1. CASE q = p
        BY <1>2, <1>8, <2>5, <2>6, <4>1 DEF id
      <4>2. CASE q # p
        BY <2>5, <2>6, <2>7, <4>2 DEF ToldOf, Told
      <4> QED BY <4>1, <4>2
    <3>2. match'[m].state = "PREVIEWS_QUEUED" => \E q \in m : ~Told(m, q)'
      BY <2>5, <2>6 DEF Told
    <3>3. ~Undecided(m)' => \A q \in m : Told(m, q)'
      BY <2>5, <2>6 DEF Told, Undecided
    <3> QED BY <2>8, <3>1, <3>2, <3>3 DEF ToldOf
  <2>10. DecidedOf(m)'
    <3>1. \A q \in m : match'[m].preview[q].decision = "PENDING"
      BY <2>5, <2>6, <2>7, <2>8 DEF DecidedOf
    <3> QED BY <2>8, <3>1 DEF DecidedOf, NobodyObjects
  <2>11. CalledOf(m)' /\ FlightOf(m)'
    BY <1>1, <1>5, <2>7, <2>8 DEF CalledOf, FlightOf
  <2> QED BY <1>1, <1>4, <1>5, <1>t, <2>3, <2>5, <2>9, <2>10, <2>11, OneMatch
<1> HIDE DEF k
<1>9. MatchInv' /\ RowsInv'
  BY <1>2, <1>7, <1>8, DeliveryShape
<1> QED BY <1>6, <1>9 DEF DInv

LEMMA ClockStep == ASSUME IInv, ClockTick PROVE DInv'
<1>t. OP!IInv /\ OP!TypeOK /\ RowsInv /\ StageInv /\ QueueInv /\ MatchInv
  BY DEF IInv, DInv, OP!IInv
<1>1. /\ stage = "idle" /\ phase \in {"rest", "down"}
      /\ job' = [k \in Letters |-> OP!Aged(job[k])]
      /\ match' = [m \in Matches |->
                     IF match[m].state = "VETO_WINDOW"
                       THEN [match[m] EXCEPT !.left = OP!Sooner(@)] ELSE match[m]]
      /\ UNCHANGED <<member, mail, arrived, stage, hand, toQueue, phase, inHand>>
  BY DEF ClockTick, Box!Aged, OP!Aged, Box!Sooner, OP!Sooner
<1>2. \A k \in Letters : /\ job'[k].state = job[k].state
                         /\ job'[k].messageId = job[k].messageId
  BY <1>1, <1>t, OP!AgedShape, BoxAssumption DEF OP!TypeOK
<1>3. ASSUME NEW m \in Matches
      PROVE /\ match'[m] \in Rows(m) /\ match'[m].state = match[m].state
            /\ match'[m].preview = match[m].preview
            /\ match[m].state # "VETO_WINDOW" => match'[m] = match[m]
  <2>1. match[m] \in Rows(m)
    BY <1>t, RowOf
  <2>2. OP!Sooner(match[m].left) \in 0..VetoWindow
    BY <2>1, DeskAssumption DEF Rows, OP!Sooner
  <2>3. [match[m] EXCEPT !.left = OP!Sooner(@)]
          = [match[m] EXCEPT !.left = OP!Sooner(match[m].left)]
    OBVIOUS
  <2>4. LET r == [match[m] EXCEPT !.left = OP!Sooner(match[m].left)]
        IN r \in Rows(m) /\ r.state = match[m].state /\ r.preview = match[m].preview
    BY <2>1, <2>2 DEF Rows
  <2>5. match'[m] = IF match[m].state = "VETO_WINDOW"
                      THEN [match[m] EXCEPT !.left = OP!Sooner(match[m].left)]
                      ELSE match[m]
    BY <1>1, <2>3
  <2>6. CASE match[m].state = "VETO_WINDOW"
    BY <2>4, <2>5, <2>6
  <2>7. CASE match[m].state # "VETO_WINDOW"
    BY <2>1, <2>5, <2>7
  <2> QED BY <2>6, <2>7
<1>4. DOMAIN match' = Matches
  BY <1>1
<1>5. toQueue = <<>> /\ toQueue' = <<>>
  BY <1>1, <1>t, NothingToQueue
<1>6. RowsInv' /\ StageInv' /\ QueueInv'
  <2>1. RowsInv'
    BY <1>1, <1>3, <1>4, <1>t DEF RowsInv, Rows
  <2>2. StageInv' /\ QueueInv'
    BY <1>1, <1>5, <1>t DEF StageInv, QueueInv, Intent
  <2> QED BY <2>1, <2>2
<1>7. MatchInv'
  <2> SUFFICES ASSUME NEW m \in Matches
               PROVE ToldOf(m)' /\ DecidedOf(m)' /\ CalledOf(m)' /\ FlightOf(m)'
    BY DEF MatchInv, ToldInv, DecidedInv, CalledInv, FlightInv
  <2>1. ToldOf(m) /\ DecidedOf(m) /\ CalledOf(m) /\ FlightOf(m)
    BY <1>t DEF MatchInv, ToldInv, DecidedInv, CalledInv, FlightInv
  <2>2. /\ \A p : Told(m, p)' = Told(m, p)
        /\ \A k \in Letters : Written(k)' = Written(k)
        /\ \A k : InHand(k)' = InHand(k)
    BY <1>1, <1>2, <1>3 DEF Told, Written, InHand
  <2>3. /\ Undecided(m)' = Undecided(m) /\ Open(m)' = Open(m)
        /\ Called(m)' = Called(m) /\ AllApprove(m)' = AllApprove(m)
        /\ NobodyObjects(m)' = NobodyObjects(m)
        /\ Called(m) => match'[m].left = match[m].left
    BY <1>3 DEF Undecided, Open, Called, AllApprove, NobodyObjects
  <2>4. Introduction(m) \in Letters /\ \A p \in m : Preview(m, p) \in Letters
    BY LetterShape, SomebodyIn
  <2>5. ToldOf(m)'
    BY <1>2, <1>3, <2>1, <2>2, <2>3, <2>4 DEF ToldOf
  <2>6. DecidedOf(m)'
    BY <1>3, <2>1, <2>3 DEF DecidedOf
  <2>7. CalledOf(m)' /\ FlightOf(m)'
    BY <1>2, <1>3, <2>1, <2>2, <2>3, <2>4 DEF CalledOf, FlightOf
  <2> QED BY <2>5, <2>6, <2>7
<1> QED BY <1>6, <1>7 DEF DInv
-------------------------------------------------------------------------------
(* Invariance.                                                              *)
LEMMA InitDInv == Init => DInv
<1> SUFFICES ASSUME Init PROVE DInv
  OBVIOUS
<1>1. ASSUME NEW m \in Matches
      PROVE /\ match[m] \in Rows(m) /\ match[m].state = "ABSENT"
            /\ \A p \in m : /\ match[m].preview[p].messageId = 0
                            /\ match[m].preview[p].decision = "PENDING"
  <2>1. match[m] = NewRow(m, "ABSENT")
    BY DEF Init
  <2>2. VetoWindow \in 0..VetoWindow /\ 0 \in 0..MaxAttempts
    BY DeskAssumption, DeskOutboxAssumption
  <2> QED BY <2>1, <2>2 DEF NewRow, Rows, MatchStates, Decisions
<1>2. \A k \in Letters : ~Written(k) /\ ~InHand(k)
  BY BoxInit DEF OP!Init, OP!NoJob, Written, InHand
<1>3. \A m \in Matches :
        /\ \A p \in m : ~Told(m, p)
        /\ Undecided(m) /\ ~Open(m) /\ ~Called(m)
  BY <1>1 DEF Told, Undecided, Open, Called
<1>4. MatchInv
  <2> SUFFICES ASSUME NEW m \in Matches
               PROVE ToldOf(m) /\ DecidedOf(m) /\ CalledOf(m) /\ FlightOf(m)
    BY DEF MatchInv, ToldInv, DecidedInv, CalledInv, FlightInv
  <2>1. Introduction(m) \in Letters /\ \A p \in m : Preview(m, p) \in Letters
    BY LetterShape, SomebodyIn
  <2> QED BY <1>1, <1>2, <1>3, <2>1 DEF ToldOf, DecidedOf, CalledOf, FlightOf
<1>5. RowsInv
  <2>1. member \in [Members -> MemberStates]
    BY DEF Init, MemberStates
  <2>2. <<>> \in Seq(Letters) /\ 0 \in 0..MaxMail
    BY DeskAssumption
  <2>3. DOMAIN match = Matches
    BY DEF Init
  <2> QED BY <1>1, <2>1, <2>2, <2>3 DEF Init, RowsInv
<1>6. StageInv /\ QueueInv
  BY BoxInit DEF Init, OP!Init, StageInv, QueueInv, Stages
<1> QED BY <1>4, <1>5, <1>6 DEF DInv

LEMMA StepIInv == IInv /\ [Next]_vars => IInv'
<1> SUFFICES ASSUME IInv, [Next]_vars PROVE DInv'
  BY BoxInv DEF IInv
<1>t. DInv
  BY DEF IInv
<1>1. CASE \/ \E p \in Members, i \in Intents : Arrive(p, i)
           \/ StartTick
  BY <1>1, <1>t, QuietStep
<1>2. CASE Ingest
  BY <1>2, <1>t, QuietStep, MemberStep, DecideStep DEF Ingest
<1>3. CASE Matching
  BY <1>3, <1>t, QuietStep, MemberStep, DropStep, QueueStep, ProposeStep, IntroduceStep
     DEF Matching
<1>4. CASE Drain \/ EndTick \/ Crash \/ Boot
  BY <1>4, DrainStep
<1>5. CASE RecordDelivery
  BY <1>5, DeliveryStep
<1>6. CASE ClockTick
  BY <1>6, ClockStep
<1>7. CASE UNCHANGED vars
  <2>1. MatchInv' /\ QueueInv'
    BY <1>7, <1>t, MatchFrame, QueueFrame DEF vars, boxVars, DInv
  <2> QED BY <1>7, <1>t, <2>1 DEF vars, boxVars, DInv, RowsInv, Rows, StageInv, Intent
<1> QED BY <1>1, <1>2, <1>3, <1>4, <1>5, <1>6, <1>7 DEF Next, Tick

LEMMA Invariance == Spec => []IInv
<1>1. Init => IInv
  BY BoxInit, OP!InitIInv, OP!InitEarned, InitDInv, BoxAssumption DEF IInv
<1> QED BY <1>1, StepIInv, PTL DEF Spec
-------------------------------------------------------------------------------
(* The tick drives the outbox as module Outbox says an outbox is driven: no *)
(* stage of it, crash or boot makes a row of the outbox move otherwise.     *)
THEOREM RunsTheOutbox == Spec => Box!Spec
<1>1. Init => Box!Init
  BY DEF Init
<1>2. IInv /\ [Next]_vars => [Box!Next]_(Box!vars)
  BY DeskStep DEF boxVars, Box!vars
<1> QED BY <1>1, <1>2, Invariance, PTL DEF Spec, Box!Spec

(* So what is proved of the outbox holds of the desk: while no              *)
(* acknowledgement is lost, no preview and no introduction leaves twice,    *)
(* over any number of ticks, failures and restarts (the idempotency key).   *)
THEOREM OneOfEachLetter == ASSUME ~AckLoss PROVE Spec => []Box!OneCopy
<1>1. OP!Lossless
  BY DEF OP!Lossless
<1>2. Spec => OP!Spec
  <2>1. Init => OP!Init
    BY BoxInit
  <2> QED BY <2>1, BoxStep, Invariance, PTL DEF Spec, OP!Spec
<1>3. OP!Spec => []OP!OneCopy
  BY <1>1, BoxAssumption, OP!AtMostOneCopy
<1>4. OP!OneCopy => Box!OneCopy
  BY DEF OP!OneCopy, Box!OneCopy
<1> QED BY <1>2, <1>3, <1>4, PTL

(* HonestRows: the rows of the desk's previews and introductions say what   *)
(* the mail server has seen, in every gap of the tick and after any crash.  *)
THEOREM DeskRowsAreHonest == ASSUME ~AckLoss PROVE Spec => []HonestRows
<1>1. OP!Lossless
  BY DEF OP!Lossless
<1>2. Spec => OP!Spec
  <2>1. Init => OP!Init
    BY BoxInit
  <2> QED BY <2>1, BoxStep, Invariance, PTL DEF Spec, OP!Spec
<1>3. OP!Spec => []OP!HonestRows
  BY <1>1, BoxAssumption, OP!TruthfulRows
<1>4. OP!HonestRows => HonestRows
  BY DEF OP!HonestRows, HonestRows, Box!HonestRows, OP!Waiting, Box!Waiting
<1> QED BY <1>2, <1>3, <1>4, PTL

(* KeepsPromise: each of those letters is the letter OneLetter promises, so *)
(* no retry, deadline, message or crash of the desk sends it twice.         *)
THEOREM DeskKeepsItsPromise == ASSUME ~AckLoss PROVE Spec => KeepsPromise
<1>1. OP!Lossless
  BY DEF OP!Lossless
<1>2. Spec => OP!Spec
  <2>1. Init => OP!Init
    BY BoxInit
  <2> QED BY <2>1, BoxStep, Invariance, PTL DEF Spec, OP!Spec
<1>3. OP!Spec => OP!KeepsPromise
  BY <1>1, BoxAssumption, OP!Refinement
<1>4. OP!Promise!Init => Box!Promise!Init
  BY DEF OP!Promise!Init, Box!Promise!Init, OP!Belief, Box!Belief
<1>5. [OP!Promise!Next]_(OP!Promise!vars) => [Box!Promise!Next]_(Box!Promise!vars)
  BY DEF OP!Promise!Next, OP!Promise!vars, OP!Promise!Owe, OP!Promise!HandOver,
         OP!Promise!Settle, OP!Promise!Abandon, OP!Belief,
         Box!Promise!Next, Box!Promise!vars, Box!Promise!Owe, Box!Promise!HandOver,
         Box!Promise!Settle, Box!Promise!Abandon, Box!Belief
<1> QED
  BY <1>2, <1>3, <1>4, <1>5, PTL
     DEF OP!KeepsPromise, KeepsPromise, Box!KeepsPromise, OP!Promise!Spec,
         Box!Promise!Spec

(* Consistent: every row has its shape, and a delivery always finds its     *)
(* match in the state it is recorded on, so markPreviewSent and             *)
(* markIntroduced never throw inside the drain.                             *)
THEOREM DeskIsConsistent == Spec => []Consistent
<1>1. IInv => Consistent
  <2> SUFFICES ASSUME IInv PROVE Consistent
    OBVIOUS
  <2>1. OP!TypeOK /\ DInv
    BY DEF IInv, OP!IInv
  <2>2. Box!TypeOK
    BY <2>1 DEF Box!TypeOK, OP!TypeOK, Box!Jobs, OP!Jobs, Box!JobStates, OP!JobStates,
                Box!Phases, OP!Phases
  <2>3. TypeOK
    BY <2>1, <2>2 DEF TypeOK, DInv, RowsInv, StageInv, QueueInv
  <2>4. DeliveryFindsItsMatch
    <3> SUFFICES ASSUME phase \in {"sending", "accepted", "delivered"}
        PROVE IF Recipients(inHand) = MatchOf(inHand)
                THEN match[MatchOf(inHand)].state = "INTRODUCTION_QUEUED"
                ELSE /\ match[MatchOf(inHand)].state = "PREVIEWS_QUEUED"
                     /\ \A p \in Recipients(inHand) : ~Told(MatchOf(inHand), p)
      BY DEF DeliveryFindsItsMatch
    <3>1. inHand \in Letters /\ InHand(inHand)
      BY DEF IInv, OP!IInv, OP!HandInv, InHand
    <3>2. PICK m \in Matches :
            \/ inHand = Introduction(m) /\ match[m].state = "INTRODUCTION_QUEUED"
            \/ \E p \in m : /\ inHand = Preview(m, p) /\ ~Told(m, p)
                            /\ match[m].state = "PREVIEWS_QUEUED"
      BY <3>1, DeliveryShape
    <3>3. CASE inHand = Introduction(m) /\ match[m].state = "INTRODUCTION_QUEUED"
      BY <3>3, LetterShape, SomebodyIn
    <3>4. ASSUME NEW p \in m, inHand = Preview(m, p), ~Told(m, p),
                 match[m].state = "PREVIEWS_QUEUED"
          PROVE /\ Recipients(inHand) # MatchOf(inHand)
                /\ match[MatchOf(inHand)].state = "PREVIEWS_QUEUED"
                /\ \A q \in Recipients(inHand) : ~Told(MatchOf(inHand), q)
      <4>1. Recipients(inHand) = {p} /\ MatchOf(inHand) = m
        BY <3>4, LetterShape
      <4>2. {p} # m
        BY PairShape
      <4> QED BY <3>4, <4>1, <4>2
    <3> QED BY <3>2, <3>3, <3>4
  <2> QED BY <2>3, <2>4 DEF Consistent
<1> QED BY <1>1, Invariance, PTL

(* IntroductionIsEarned: from the moment an introduction exists as a job    *)
(* both previews are on record under the ids the outbox earned, nobody's    *)
(* decision stands against it, and it is approved by both or past its       *)
(* deadline.                                                                *)
THEOREM IntroductionsAreEarned == Spec => []IntroductionIsEarned
<1>1. IInv => IntroductionIsEarned
  <2> SUFFICES ASSUME IInv, NEW m \in Matches, Written(Introduction(m))
      PROVE /\ match[m].state \in {"INTRODUCTION_QUEUED", "INTRODUCED"}
            /\ \A p \in m :
                 /\ job[Preview(m, p)].state = "SENT"
                 /\ match[m].preview[p].messageId = job[Preview(m, p)].messageId
                 /\ match[m].preview[p].decision \in {"PENDING", "APPROVE"}
            /\ \/ match[m].left = 0
               \/ \A p \in m : match[m].preview[p].decision = "APPROVE"
    BY DEF IntroductionIsEarned, Written
  <2>1. ToldOf(m) /\ DecidedOf(m) /\ CalledOf(m)
    BY DEF IInv, DInv, MatchInv, ToldInv, DecidedInv, CalledInv
  <2>2. Called(m) /\ ~Undecided(m)
    BY <2>1 DEF CalledOf, Called, Undecided
  <2>3. \A p \in m : Told(m, p)
    BY <2>1, <2>2 DEF ToldOf
  <2> QED BY <2>1, <2>2, <2>3 DEF ToldOf, DecidedOf, Called, NobodyObjects, AllApprove
<1> QED BY <1>1, Invariance, PTL
-------------------------------------------------------------------------------
(* A letter comes to be written in one place only.                          *)
LEMMA OnlyQueueWrites ==
  ASSUME IInv, [Next]_vars, NEW k \in Letters, ~Written(k), Written(k)'
  PROVE Queue /\ k = Head(toQueue)
<1>t. OP!IInv /\ OP!TypeOK /\ RowsInv
  BY DEF IInv, DInv, OP!IInv
<1>1. CASE UNCHANGED job
  BY <1>1 DEF Written
<1>2. CASE Drain \/ EndTick \/ Crash \/ Boot
  BY <1>2, <1>t, DrainWrites
<1>3. CASE RecordDelivery
  BY <1>1, <1>3 DEF RecordDelivery, Box!RecordDelivery
<1>4. CASE ClockTick
  <2>1. job'[k] = OP!Aged(job[k])
    BY <1>4 DEF ClockTick, Box!Aged, OP!Aged, Box!Sooner, OP!Sooner
  <2>2. job'[k].state = job[k].state
    BY <1>t, <2>1, OP!AgedShape, BoxAssumption DEF OP!TypeOK
  <2> QED BY <2>2 DEF Written
<1>5. CASE Queue
  <2>1. job' = [job EXCEPT ![Head(toQueue)] = Box!NewJob]
    BY <1>5 DEF Queue, Box!Enqueue
  <2>2. k # Head(toQueue) => job'[k] = job[k]
    BY <2>1, <1>t DEF OP!TypeOK
  <2> QED BY <1>5, <2>2 DEF Written
<1>6. CASE Ingest
  BY <1>1, <1>6 DEF Ingest, Record, EndIngest, Suppress, IgnoreStranger, AbortTick,
     Welcome, SkipSuppressed, BeginInterview, Qualify, TakeControl, Decide, EndDecide,
     boxVars
<1>7. CASE Matching
  BY <1>1, <1>5, <1>7 DEF Matching, Propose, DropUnsendable, EndPropose, Introduce,
     EndDeadlines, Sweep, EndSweep, boxVars
<1>8. CASE StartTick \/ (\E p \in Members, i \in Intents : Arrive(p, i))
             \/ UNCHANGED vars
  BY <1>1, <1>8 DEF StartTick, Arrive, vars, boxVars
<1> QED
  BY <1>2, <1>3, <1>4, <1>6, <1>7, <1>8 DEF Next, Tick

(* No step brings back whoever has stopped or was deleted.                  *)
LEMMA TerminalStays ==
  ASSUME IInv, [Next]_vars, NEW p \in Members, member[p] \in TerminalMembers
  PROVE member'[p] \in TerminalMembers
<1>t. RowsInv /\ StageInv
  BY DEF IInv, DInv
<1>1. CASE UNCHANGED member
  BY <1>1
<1>2. CASE Suppress
  <2>1. Sender \in Members
    BY <1>2, <1>t, SenderIsMember DEF Suppress, At
  <2> QED BY <1>2, <1>t, <2>1 DEF Suppress, RowsInv, TerminalMembers
<1>3. CASE Welcome \/ BeginInterview \/ Qualify
  <2>1. /\ Sender \in Members /\ member[Sender] \notin TerminalMembers
        /\ \E s : member' = [member EXCEPT ![Sender] = s]
    BY <1>3, <1>t, SenderIsMember
       DEF Welcome, BeginInterview, Qualify, Conversing, At, CanReceiveOutbound,
           TerminalMembers
  <2> QED BY <1>t, <2>1 DEF RowsInv
<1>4. ASSUME NEW q \in Members, Sweep(q) PROVE member'[p] \in TerminalMembers
  BY <1>4, <1>t DEF Sweep, RowsInv, TerminalMembers
<1>5. CASE Ingest
  BY <1>1, <1>2, <1>3, <1>5
     DEF Ingest, Record, EndIngest, IgnoreStranger, AbortTick, SkipSuppressed,
         TakeControl, Decide, EndDecide
<1>6. CASE Matching
  BY <1>1, <1>4, <1>6 DEF Matching, Propose, Queue, DropUnsendable, EndPropose,
     Introduce, EndDeadlines, EndSweep
<1>7. CASE StartTick \/ (\E q \in Members, i \in Intents : Arrive(q, i)) \/ Drain
             \/ RecordDelivery \/ EndTick \/ ClockTick \/ Crash \/ Boot \/ UNCHANGED vars
  BY <1>1, <1>7 DEF StartTick, Arrive, Drain, RecordDelivery, EndTick, ClockTick,
     Crash, Boot, vars
<1> QED BY <1>5, <1>6, <1>7 DEF Next, Tick

(* StopIsFinal: once a stop or a deletion is saved no message, sweep or     *)
(* restart makes the member live again, and no letter is written to them.   *)
THEOREM StopsAreFinal == Spec => StopIsFinal
<1>1. IInv /\ [Next]_vars =>
        [\A p \in Members : member[p] \in TerminalMembers =>
           /\ member'[p] \in TerminalMembers
           /\ \A k \in Letters : p \in Recipients(k) =>
                (job[k].state = "ABSENT" => job'[k].state = "ABSENT")]_vars
  <2> SUFFICES ASSUME IInv, [Next]_vars, NEW p \in Members, member[p] \in TerminalMembers
      PROVE /\ member'[p] \in TerminalMembers
            /\ \A k \in Letters : p \in Recipients(k) =>
                 (job[k].state = "ABSENT" => job'[k].state = "ABSENT")
    OBVIOUS
  <2>1. ASSUME NEW k \in Letters, p \in Recipients(k), ~Written(k) PROVE ~Written(k)'
    BY <2>1, OnlyQueueWrites DEF Queue, Sendable, CanReceiveOutbound
  <2> QED BY <2>1, TerminalStays DEF Written
<1> QED BY <1>1, Invariance, PTL DEF Spec, StopIsFinal
-------------------------------------------------------------------------------
(* The refinement of DoubleBlind: who is told, who objects, who meets.      *)
Informed(m) == {p \in m : accepted[Preview(m, p)] > 0}
Objects(m) == \E p \in m : match[m].preview[p].decision \in DOMAIN Blocks
Met(m) == accepted[Introduction(m)] > 0

(* The three as truth values.                                               *)
LEMMA SameTruth ==
  ASSUME NEW n
  PROVE /\ (Objects(n)' <=> Objects(n)) => Objects(n)' = Objects(n)
        /\ (Met(n)' <=> Met(n)) => Met(n)' = Met(n)
        /\ Objects(n)' => Objects(n)' = TRUE
        /\ Met(n)' => Met(n)' = TRUE
<1>1. ASSUME NEW a, NEW b
      PROVE /\ ((a > 0) <=> (b > 0)) => (a > 0) = (b > 0)
            /\ (a > 0) => (a > 0) = TRUE
  OBVIOUS
<1>2. /\ (Met(n)' <=> Met(n)) => Met(n)' = Met(n)
      /\ Met(n)' => Met(n)' = TRUE
  BY <1>1 DEF Met
<1>3. /\ (Objects(n)' <=> Objects(n)) => Objects(n)' = Objects(n)
      /\ Objects(n)' => Objects(n)' = TRUE
  BY DEF Objects
<1> QED BY <1>2, <1>3

(* Three steps of DoubleBlind, and the step that is none.                   *)
LEMMA Stutters ==
  ASSUME \A m \in Matches :
           /\ Informed(m)' = Informed(m)
           /\ Objects(m)' <=> Objects(m)
           /\ Met(m)' <=> Met(m)
  PROVE UNCHANGED Promise!vars
<1>1. \A m \in Matches : Objects(m)' = Objects(m) /\ Met(m)' = Met(m)
  BY SameTruth
<1>2. /\ [m \in Matches |-> Informed(m)]' = [m \in Matches |-> Informed(m)]
      /\ [m \in Matches |-> Objects(m)]' = [m \in Matches |-> Objects(m)]
      /\ [m \in Matches |-> Met(m)]' = [m \in Matches |-> Met(m)]
  BY <1>1, Zenon
<1> QED BY <1>2 DEF Informed, Objects, Met, Promise!vars

LEMMA TellOne ==
  ASSUME NEW m \in Matches, NEW p \in m, ~(accepted[Preview(m, p)] > 0),
         Informed(m)' = Informed(m) \cup {p},
         \A n \in Matches \ {m} : Informed(n)' = Informed(n),
         \A n \in Matches : (Objects(n)' <=> Objects(n)) /\ (Met(n)' <=> Met(n))
  PROVE Promise!Next
<1>1. p \in [n \in Matches |-> n][m] \ [n \in Matches |-> Informed(n)][m]
  BY DEF Informed
<1>2. [n \in Matches |-> Informed(n)]' =
        [[n \in Matches |-> Informed(n)] EXCEPT ![m] = @ \cup {p}]
  OBVIOUS
<1>3. \A n \in Matches : Objects(n)' = Objects(n) /\ Met(n)' = Met(n)
  BY SameTruth
<1>4. /\ [n \in Matches |-> Objects(n)]' = [n \in Matches |-> Objects(n)]
      /\ [n \in Matches |-> Met(n)]' = [n \in Matches |-> Met(n)]
  BY <1>3, Zenon
<1>5. Promise!Tell(m)
  BY <1>1, <1>2, <1>4 DEF Promise!Tell, Informed, Objects, Met
<1> QED BY <1>5 DEF Promise!Next

LEMMA ObjectOne ==
  ASSUME NEW m \in Matches, Informed(m) # {}, ~Objects(m), ~Met(m),
         Objects(m)', \A n \in Matches \ {m} : Objects(n)' <=> Objects(n),
         \A n \in Matches : Informed(n)' = Informed(n) /\ (Met(n)' <=> Met(n))
  PROVE Promise!Next
<1>1. \A n \in Matches : Objects(n)' = IF n = m THEN TRUE ELSE Objects(n)
  BY SameTruth
<1>2. [n \in Matches |-> Objects(n)]' = [[n \in Matches |-> Objects(n)] EXCEPT ![m] = TRUE]
  BY <1>1, Zenon
<1>3. \A n \in Matches : Met(n)' = Met(n)
  BY SameTruth
<1>4. /\ [n \in Matches |-> Informed(n)]' = [n \in Matches |-> Informed(n)]
      /\ [n \in Matches |-> Met(n)]' = [n \in Matches |-> Met(n)]
  BY <1>3, Zenon
<1>5. Promise!Object(m)
  BY <1>2, <1>4 DEF Promise!Object, Informed, Objects, Met
<1> QED BY <1>5 DEF Promise!Next

LEMMA MeetOne ==
  ASSUME NEW m \in Matches, Informed(m) = m, ~Objects(m), ~Met(m),
         Met(m)', \A n \in Matches \ {m} : Met(n)' <=> Met(n),
         \A n \in Matches : Informed(n)' = Informed(n) /\ (Objects(n)' <=> Objects(n))
  PROVE Promise!Next
<1>1. \A n \in Matches : Met(n)' = IF n = m THEN TRUE ELSE Met(n)
  BY SameTruth
<1>2. [n \in Matches |-> Met(n)]' = [[n \in Matches |-> Met(n)] EXCEPT ![m] = TRUE]
  BY <1>1, Zenon
<1>3. \A n \in Matches : Objects(n)' = Objects(n)
  BY SameTruth
<1>4. /\ [n \in Matches |-> Informed(n)]' = [n \in Matches |-> Informed(n)]
      /\ [n \in Matches |-> Objects(n)]' = [n \in Matches |-> Objects(n)]
  BY <1>3, Zenon
<1>5. Promise!Meet(m)
  BY <1>2, <1>4 DEF Promise!Meet, Informed, Objects, Met
<1> QED BY <1>5 DEF Promise!Next

(* Whoever is on record as told has been told, and a match nobody has been  *)
(* called for has not met.                                                  *)
LEMMA ToldIsInformed ==
  ASSUME IInv, NEW m \in Matches, ~Undecided(m) PROVE Informed(m) = m
<1>1. ToldOf(m) /\ \A p \in m : Preview(m, p) \in Letters
  BY LetterShape DEF IInv, DInv, MatchInv, ToldInv
<1>2. \A p \in m : job[Preview(m, p)].state = "SENT"
  BY <1>1 DEF ToldOf
<1>3. \A p \in m : accepted[Preview(m, p)] > 0
  BY <1>1, <1>2 DEF IInv, OP!EarnedInv
<1> QED BY <1>3 DEF Informed

LEMMA UncalledHasNotMet ==
  ASSUME IInv, NEW m \in Matches, ~Called(m) PROVE ~Met(m)
<1>1. Introduction(m) \in Letters /\ ~Written(Introduction(m))
  BY LetterShape, SomebodyIn DEF IInv, DInv, MatchInv, CalledInv, CalledOf
<1>2. job[Introduction(m)].attempts = 0 /\ accepted[Introduction(m)] \in Nat
  BY <1>1 DEF IInv, OP!IInv, OP!WaitInv, OP!TypeOK, Written
<1> QED BY <1>1, <1>2 DEF IInv, OP!IInv, OP!CountInv, Met

(* A decision is recorded in one place only.                                *)
LEMMA OnlyDecideDecides ==
  ASSUME IInv, [Next]_vars, ~\E m \in Matches : Decide(m), NEW n \in Matches
  PROVE Objects(n)' <=> Objects(n)
<1>t. RowsInv /\ DecidedOf(n) /\ match[n] \in Rows(n)
  BY RowOf DEF IInv, DInv, MatchInv, DecidedInv
<1> SUFFICES \A q \in n : match'[n].preview[q].decision = match[n].preview[q].decision
  BY DEF Objects
<1>1. CASE match' = match
  BY <1>1
<1>2. ASSUME NEW e \in Eligible, Propose(e)
      PROVE \A q \in n : match'[n].preview[q].decision = match[n].preview[q].decision
  <2> DEFINE m == {e[1], e[2]}
  <2>1. /\ m \in Matches /\ match[m].state = "ABSENT"
        /\ match' = [match EXCEPT ![m] = NewRow(m, "PREVIEWS_QUEUED")]
    BY <1>2 DEF Propose, Proposable, Matches
  <2> HIDE DEF m
  <2>2. CASE n = m
    <3>1. \A q \in n : match[n].preview[q].decision = "PENDING"
      BY <1>t, <2>1, <2>2 DEF DecidedOf, Undecided
    <3>2. match'[n] = NewRow(n, "PREVIEWS_QUEUED")
      BY <1>t, <2>1, <2>2 DEF RowsInv
    <3> QED BY <3>1, <3>2 DEF NewRow
  <2>3. CASE n # m
    BY <1>t, <2>1, <2>3 DEF RowsInv
  <2> QED BY <2>2, <2>3
<1>3. ASSUME NEW m \in Matches, Introduce(m)
      PROVE \A q \in n : match'[n].preview[q].decision = match[n].preview[q].decision
  <2>1. match' = [match EXCEPT ![m].state = "INTRODUCTION_QUEUED"]
    BY <1>3 DEF Introduce
  <2>2. match'[n].preview = match[n].preview
    BY <1>t, <2>1 DEF RowsInv, Rows
  <2> QED BY <2>2
<1>4. CASE RecordDelivery
  <2> DEFINE k == inHand
  <2>1. /\ k \in Letters /\ InHand(k)
        /\ match' = [match EXCEPT ![MatchOf(k)] =
                       Delivered(match[MatchOf(k)], k, job[k].messageId)]
    BY <1>4 DEF RecordDelivery, Box!RecordDelivery, IInv, OP!IInv, OP!HandInv, InHand
  <2>2. job[k].messageId \in 0..MaxAttempts
    BY <2>1 DEF IInv, OP!IInv, OP!TypeOK, OP!Jobs
  <2> HIDE DEF k
  <2>3. CASE n # MatchOf(k)
    BY <1>t, <2>1, <2>3 DEF RowsInv
  <2>4. CASE n = MatchOf(k)
    <3>1. match'[n] = Delivered(match[n], k, job[k].messageId)
      BY <1>t, <2>1, <2>4 DEF RowsInv
    <3>2. k = Introduction(n) \/ \E p \in n : k = Preview(n, p)
      BY <2>1, <2>4, LetterKinds, LetterShape, SomebodyIn
    <3>3. CASE k = Introduction(n)
      <4>1. Recipients(k) = MatchOf(k)
        BY <3>3, LetterShape, SomebodyIn
      <4>2. match'[n].preview = match[n].preview
        BY <1>t, <3>1, <4>1 DEF Delivered, Rows
      <4> QED BY <4>2
    <3>4. ASSUME NEW p \in n, k = Preview(n, p)
          PROVE \A q \in n : match'[n].preview[q].decision = match[n].preview[q].decision
      <4>1. Recipients(k) = {p} /\ MatchOf(k) = n /\ {p} # n
        BY <3>4, LetterShape, PairShape
      <4>2. (CHOOSE q \in {p} : TRUE) = p
        OBVIOUS
      <4>3. match'[n] = MarkPreviewSent(match[n], p, job[k].messageId)
        BY <3>1, <4>1, <4>2 DEF Delivered
      <4> QED BY <1>t, <2>2, <4>3, DeliveryRow
    <3> QED BY <3>2, <3>3, <3>4
  <2> QED BY <2>3, <2>4
<1>5. CASE ClockTick
  <2>1. match'[n] = IF match[n].state = "VETO_WINDOW"
                      THEN [match[n] EXCEPT !.left = Box!Sooner(@)] ELSE match[n]
    BY <1>5 DEF ClockTick
  <2>2. match'[n].preview = match[n].preview
    BY <1>t, <2>1 DEF Rows
  <2> QED BY <2>2
<1>6. CASE Ingest
  BY <1>1, <1>6
     DEF Ingest, Record, EndIngest, Suppress, IgnoreStranger, AbortTick, Welcome,
         SkipSuppressed, BeginInterview, Qualify, TakeControl, EndDecide
<1>7. CASE Matching
  BY <1>1, <1>2, <1>3, <1>7 DEF Matching, Queue, DropUnsendable, EndPropose,
     EndDeadlines, Sweep, EndSweep
<1>8. CASE StartTick \/ (\E p \in Members, i \in Intents : Arrive(p, i)) \/ Drain
             \/ EndTick \/ Crash \/ Boot \/ UNCHANGED vars
  BY <1>1, <1>8 DEF StartTick, Arrive, Drain, EndTick, Crash, Boot, vars
<1> QED BY <1>4, <1>5, <1>6, <1>7, <1>8 DEF Next, Tick

(* And the server takes a letter in one place only.                         *)
LEMMA OnlySendSends ==
  ASSUME [Next]_vars, accepted' # accepted
  PROVE /\ Drain /\ phase = "sending" /\ match' = match
        /\ accepted' = [accepted EXCEPT ![inHand] = @ + 1]
<1>1. CASE Drain
  BY <1>1 DEF Drain, Box!StartDrain, Box!Claim, Box!Send, Box!Accept, Box!Refuse,
     Box!LoseAck, Box!RecordSent
<1>2. CASE RecordDelivery \/ EndTick \/ ClockTick \/ Crash \/ Boot
  BY <1>2 DEF RecordDelivery, EndTick, ClockTick, Crash, Boot, Box!RecordDelivery,
     Box!EndDrain, Box!Crash, Box!Boot
<1>3. CASE Ingest
  BY <1>3 DEF Ingest, Record, EndIngest, Suppress, IgnoreStranger, AbortTick,
     Welcome, SkipSuppressed, BeginInterview, Qualify, TakeControl, Decide, EndDecide,
     boxVars
<1>4. CASE Matching
  BY <1>4 DEF Matching, Propose, Queue, Box!Enqueue, DropUnsendable, EndPropose,
     Introduce, EndDeadlines, Sweep, EndSweep, boxVars
<1>5. CASE StartTick \/ (\E p \in Members, i \in Intents : Arrive(p, i))
             \/ UNCHANGED vars
  BY <1>5 DEF StartTick, Arrive, vars, boxVars
<1> QED BY <1>1, <1>2, <1>3, <1>4, <1>5 DEF Next, Tick
(* A decision is an objection of somebody who was told, or none at all.     *)
LEMMA DecideObjects ==
  ASSUME IInv, NEW m \in Matches, Decide(m)
  PROVE [Promise!Next]_(Promise!vars)
<1>t. RowsInv /\ StageInv /\ DecidedOf(m) /\ match[m] \in Rows(m)
  BY RowOf DEF IInv, DInv, MatchInv, DecidedInv
<1> DEFINE d == DecisionOf[Intent]
           row == RecordPreviewDecision(match[m], Sender, d)
<1>1. /\ stage = "decide" /\ Sender \in m
      /\ match[m].state \in {"VETO_WINDOW", "READY_TO_INTRODUCE"}
      /\ match' = [match EXCEPT ![m] = row]
      /\ accepted' = accepted
  BY DEF Decide, At, StillToDecide, boxVars
<1>2. d \in {"APPROVE"} \cup DOMAIN Blocks /\ "APPROVE" \notin DOMAIN Blocks
  BY <1>1, <1>t, DecisionShape, BlocksShape DEF StageInv
<1> HIDE DEF d
<1>3. /\ row.preview[Sender].decision = d
      /\ \A q \in m : q # Sender =>
           row.preview[q].decision = match[m].preview[q].decision
  BY <1>1, <1>2, <1>t, DecisionRow
<1> HIDE DEF row
<1>4. match'[m] = row /\ \A n \in Matches \ {m} : match'[n] = match[n]
  BY <1>1, <1>t DEF RowsInv
<1>5. ~Undecided(m) /\ ~Called(m) /\ Open(m)
  BY <1>1 DEF Undecided, Called, Open
<1>6. Informed(m) = m /\ ~Met(m)
  BY <1>5, ToldIsInformed, UncalledHasNotMet
<1>7. ~Objects(m)
  BY <1>5, <1>t, BlocksShape DEF DecidedOf, NobodyObjects, Objects
<1>8. \A n \in Matches : Informed(n)' = Informed(n) /\ (Met(n)' <=> Met(n))
  BY <1>1 DEF Informed, Met
<1>9. \A n \in Matches \ {m} : Objects(n)' <=> Objects(n)
  BY <1>4 DEF Objects
<1>10. CASE d \in DOMAIN Blocks
  <2>1. Objects(m)'
    BY <1>1, <1>3, <1>4, <1>10 DEF Objects
  <2>2. Informed(m) # {}
    BY <1>6, SomebodyIn
  <2> QED BY <1>6, <1>7, <1>8, <1>9, <2>1, <2>2, ObjectOne
<1>11. CASE d = "APPROVE"
  <2>1. ~Objects(m)'
    BY <1>2, <1>3, <1>4, <1>7, <1>11 DEF Objects
  <2> QED BY <1>7, <1>8, <1>9, <2>1, Stutters
<1> QED BY <1>2, <1>10, <1>11

(* A first copy of a preview tells its reader, a first copy of an           *)
(* introduction is the meeting; further copies change nothing.              *)
LEMMA SendTells ==
  ASSUME IInv, phase = "sending", match' = match,
         accepted' = [accepted EXCEPT ![inHand] = @ + 1]
  PROVE [Promise!Next]_(Promise!vars)
<1>t. OP!TypeOK
  BY DEF IInv, OP!IInv
<1> DEFINE k == inHand
<1>1. k \in Letters /\ InHand(k)
  BY DEF IInv, OP!IInv, OP!HandInv, InHand
<1>2. /\ accepted'[k] = accepted[k] + 1 /\ accepted[k] \in Nat
      /\ \A l \in Letters : l # k => accepted'[l] = accepted[l]
  BY <1>1, <1>t DEF OP!TypeOK
<1> HIDE DEF k
<1>3. \A n \in Matches : Objects(n)' <=> Objects(n)
  BY DEF Objects
<1>4. PICK m \in Matches :
        \/ k = Introduction(m) /\ match[m].state = "INTRODUCTION_QUEUED"
        \/ \E p \in m : k = Preview(m, p)
  BY <1>1, DeliveryShape
<1>5. CASE k = Introduction(m) /\ match[m].state = "INTRODUCTION_QUEUED"
  <2>1. \A n \in Matches : Informed(n)' = Informed(n)
    <3> SUFFICES ASSUME NEW n \in Matches, NEW p \in n
        PROVE accepted'[Preview(n, p)] = accepted[Preview(n, p)]
      BY DEF Informed
    <3> QED BY <1>2, <1>5, LetterShape, SomebodyIn
  <2>2. \A n \in Matches \ {m} : Met(n)' <=> Met(n)
    BY <1>2, <1>5, LetterShape, SomebodyIn DEF Met
  <2>3. Met(m)'
    BY <1>2, <1>5 DEF Met
  <2>4. CASE Met(m)
    BY <1>3, <2>1, <2>2, <2>3, <2>4, Stutters
  <2>5. CASE ~Met(m)
    <3>1. ~Undecided(m) /\ Called(m)
      BY <1>5 DEF Undecided, Called
    <3>2. ~Objects(m)
      BY <3>1, BlocksShape
         DEF IInv, DInv, MatchInv, DecidedInv, DecidedOf, NobodyObjects, Objects
    <3> QED BY <1>3, <2>1, <2>2, <2>3, <2>5, <3>1, <3>2, ToldIsInformed, MeetOne
  <2> QED BY <2>4, <2>5
<1>6. ASSUME NEW p \in m, k = Preview(m, p) PROVE [Promise!Next]_(Promise!vars)
  <2>1. \A n \in Matches : Met(n)' <=> Met(n)
    BY <1>2, <1>6, LetterShape, SomebodyIn DEF Met
  <2>2. \A n \in Matches : \A q \in n :
          Preview(n, q) # k => accepted'[Preview(n, q)] = accepted[Preview(n, q)]
    BY <1>2, LetterShape
  <2>3. \A n \in Matches \ {m} : Informed(n)' = Informed(n)
    BY <1>6, <2>2, LetterShape DEF Informed
  <2>4. Informed(m)' = Informed(m) \cup {p}
    BY <1>2, <1>6, <2>2, LetterShape DEF Informed
  <2>5. CASE accepted[k] > 0
    <3>1. Informed(m)' = Informed(m)
      BY <1>6, <2>4, <2>5 DEF Informed
    <3> QED BY <1>3, <2>1, <2>3, <3>1, Stutters
  <2>6. CASE ~(accepted[k] > 0)
    BY <1>3, <1>6, <2>1, <2>3, <2>4, <2>6, TellOne
  <2> QED BY <2>5, <2>6
<1> QED BY <1>4, <1>5, <1>6

LEMMA PromiseStep == IInv /\ [Next]_vars => [Promise!Next]_(Promise!vars)
<1> SUFFICES ASSUME IInv, [Next]_vars PROVE [Promise!Next]_(Promise!vars)
  OBVIOUS
<1>1. CASE \E m \in Matches : Decide(m)
  BY <1>1, DecideObjects
<1>2. CASE accepted' # accepted
  BY <1>2, OnlySendSends, SendTells
<1>3. CASE accepted' = accepted /\ ~\E m \in Matches : Decide(m)
  <2>1. \A m \in Matches : Objects(m)' <=> Objects(m)
    BY <1>3, OnlyDecideDecides
  <2>2. \A m \in Matches : Informed(m)' = Informed(m) /\ (Met(m)' <=> Met(m))
    BY <1>3 DEF Informed, Met
  <2> QED BY <2>1, <2>2, Stutters
<1> QED BY <1>1, <1>2, <1>3

(* KeepsDoubleBlind: through retries, lost acknowledgements and crashes,    *)
(* nobody meets who was not told, and nobody after either has objected.     *)
THEOREM DeskRefinesDoubleBlind == Spec => KeepsDoubleBlind
<1>1. Init => Promise!Init
  <2> SUFFICES ASSUME Init PROVE Promise!Init
    OBVIOUS
  <2>1. \A k \in Letters : accepted[k] = 0
    BY BoxInit DEF OP!Init
  <2>2. \A m \in Matches : \A p \in m : match[m].preview[p].decision = "PENDING"
    BY DEF Init, NewRow
  <2>3. \A m \in Matches :
          Introduction(m) \in Letters /\ \A p \in m : Preview(m, p) \in Letters
    BY LetterShape, SomebodyIn
  <2>4. \A m \in Matches : Informed(m) = {} /\ Objects(m) = FALSE /\ Met(m) = FALSE
    BY <2>1, <2>2, <2>3, BlocksShape DEF Informed, Objects, Met
  <2>5. /\ [m \in Matches |-> Informed(m)] = [m \in Matches |-> {}]
        /\ [m \in Matches |-> Objects(m)] = [m \in Matches |-> FALSE]
        /\ [m \in Matches |-> Met(m)] = [m \in Matches |-> FALSE]
    BY <2>4, Zenon
  <2> QED BY <2>5 DEF Promise!Init, Informed, Objects, Met
<1> QED BY <1>1, PromiseStep, Invariance, PTL DEF Spec, KeepsDoubleBlind, Promise!Spec
=============================================================================
