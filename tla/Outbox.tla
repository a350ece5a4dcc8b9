-------------------------------- MODULE Outbox --------------------------------
(***************************************************************************)
(* The durable outbox: the job machine of src/domain/outbox.js, the rows   *)
(* of OutboxRepository (src/store/repositories.js) and the loop that       *)
(* drains them (drainOutbox in src/runtime/yente.js).                      *)
(*                                                                         *)
(* One job per idempotency key.  There is one drain, and it belongs to the *)
(* desk's tick, so no two drains overlap; what makes it hard is that a     *)
(* drain awaits the mail server in the middle of every job, that the       *)
(* process can die at any write or await, and that the only things to      *)
(* survive are the rows.                                                   *)
(*                                                                         *)
(* Time is kept as the distance to a job's availableAt, counted in ticks   *)
(* of a coarse clock.  A tick of the desk reads the clock once, at its     *)
(* start, so the clock moves only between drains.                          *)
(***************************************************************************)
EXTENDS Integers, FiniteSets

CONSTANTS
  Letters,         \* idempotency keys: one per intended email
  MaxAttempts,     \* job.maxAttempts
  BaseDelay,       \* backoff.baseMs, in clock ticks
  MaxDelay,        \* backoff.maxMs, in clock ticks
  ClaimLimit,      \* the limit of one claimable() query
  AckLoss,         \* may the server take a letter and the send still throw?
  RecoveryCalled,  \* may a caller run recoverStalledSend? (none ships)
  HaltChoices,     \* the values haltOutbound may have at a boot
  MaxRestarts,     \* bound: how often the process may die
  NoLetter         \* nothing in hand

ASSUME OutboxAssumption ==
  /\ MaxAttempts \in Nat \ {0}
  /\ BaseDelay \in Nat
  /\ MaxDelay \in Nat
  /\ ClaimLimit \in Nat
  /\ AckLoss \in BOOLEAN
  /\ RecoveryCalled \in BOOLEAN
  /\ HaltChoices \subseteq BOOLEAN
  /\ HaltChoices # {}
  /\ MaxRestarts \in Nat
  /\ NoLetter \notin Letters

VARIABLES
  job,       \* the OUTBOX rows: durable
  phase,     \* where the process is: "down", "rest" (not draining), "drain",
             \* "sending" (awaiting the server), "accepted" (the send resolved),
             \* "delivered" (SENT is saved, the delivery not yet recorded)
  batch,     \* what claimable() returned and the loop has not reached
  inHand,    \* the job the loop holds a copy of
  halted,    \* haltOutbound, read at boot
  accepted,  \* copies of each letter the mail server has taken (history)
  restarts   \* crashes so far (bounded)

vars == <<job, phase, batch, inHand, halted, accepted, restarts>>

JobStates == {"ABSENT", "PENDING", "SENDING", "SENT", "RETRY_WAIT", "DEAD"}
TerminalStates == {"SENT", "DEAD"}
Waiting == {"PENDING", "RETRY_WAIT"}
Phases == {"down", "rest", "drain", "sending", "accepted", "delivered"}

\* A messageId is named by the attempt that earned it; 0 is null.
Jobs == [state: JobStates, attempts: 0..MaxAttempts, wait: Nat,
         messageId: 0..MaxAttempts]

NoJob == [state |-> "ABSENT", attempts |-> 0, wait |-> 0, messageId |-> 0]

\* backoffMs: full jitter under a capped exponential, never the ceiling itself.
Ceiling(n) ==
  LET raw == BaseDelay * 2^(n - 1) IN IF raw < MaxDelay THEN raw ELSE MaxDelay
Delays(n) == {0} \cup 0..(Ceiling(n) - 1)

\* Slip: every row that is not finished is claimable, a stranded one too.
UnfinishedIsDue(k) ==
  job[k].state \in {"PENDING", "RETRY_WAIT", "SENDING"} /\ job[k].wait = 0

\* isDue, and the filter of claimable(): a waiting job whose backoff is over.
Due(k) == job[k].state \in Waiting /\ job[k].wait = 0

DueJobs == {k \in Letters : Due(k)}

\* enqueueEmail: what a new row holds.
NewJob == [state |-> "PENDING", attempts |-> 0, wait |-> 0, messageId |-> 0]

\* Slip: the attempt is counted only when it has failed, so a crash forgets it.
UncountedBeginSend(j) == [j EXCEPT !.state = "SENDING"]

\* beginSend, markSent and markFailed on a copy of the row.
BeginSend(j) == [j EXCEPT !.state = "SENDING", !.attempts = @ + 1]
MarkSent(j) == [j EXCEPT !.state = "SENT", !.messageId = j.attempts]
Dead(j) == [j EXCEPT !.state = "DEAD"]
RetryAfter(j, d) == [j EXCEPT !.state = "RETRY_WAIT", !.wait = d]

\* Slip: the last attempt is not made.
ExhaustedEarly(j) == j.attempts >= MaxAttempts - 1

Exhausted(j) == j.attempts >= MaxAttempts

\* One clock tick nearer to availableAt, which stays in the past once there.
Sooner(n) == IF n > 0 THEN n - 1 ELSE 0
Aged(j) == [j EXCEPT !.wait = Sooner(@)]

\* Slip: a failure forgets which state the attempt came from.
FailureResetsCount(j, permanent) ==
  {[RetryAfter(j, d) EXCEPT !.attempts = 0] : d \in Delays(1)}

\* Every row markFailed may write for j; the jitter picks one.
FailedJobs(j, permanent) ==
  IF permanent \/ Exhausted(j) THEN {Dead(j)}
                               ELSE {RetryAfter(j, d) : d \in Delays(j.attempts)}
-------------------------------------------------------------------------------
Init ==
  /\ job = [k \in Letters |-> NoJob]
  /\ phase = "rest"
  /\ batch = {}
  /\ inHand = NoLetter
  /\ halted \in HaltChoices
  /\ accepted = [k \in Letters |-> 0]
  /\ restarts = 0

\* runtime.queue -> OutboxRepository.enqueue.  An existing key is a duplicate
\* and writes nothing, so only an absent row is a step.
Enqueue(k) ==
  /\ phase = "rest"
  /\ job[k].state = "ABSENT"
  /\ job' = [job EXCEPT ![k] = NewJob]
  /\ UNCHANGED <<phase, batch, inHand, halted, accepted, restarts>>

\* The top of drainOutbox: one claimable() query, then a loop over its answer.
\* The query sorts by availableAt and cuts at the limit; which jobs make the
\* cut is left open.  Under the halt the query is only counted for the log.
StartDrain ==
  /\ phase = "rest"
  /\ ~halted
  /\ phase' = "drain"
  /\ \E s \in SUBSET DueJobs :
       /\ Cardinality(s) = (IF Cardinality(DueJobs) < ClaimLimit
                              THEN Cardinality(DueJobs) ELSE ClaimLimit)
       /\ batch' = s
  /\ UNCHANGED <<job, inHand, halted, accepted, restarts>>

\* beginSend, then save: the attempt is counted in the row before the server
\* hears of it.  beginSend throws for a job that is not waiting or not due.
Claim(k) ==
  /\ phase = "drain"
  /\ k \in batch
  /\ Due(k)
  /\ job' = [job EXCEPT ![k] = BeginSend(@)]
  /\ phase' = "sending"
  /\ batch' = batch \ {k}
  /\ inHand' = k
  /\ UNCHANGED <<halted, accepted, restarts>>

\* The mail server takes the letter and the awaited send resolves.
Accept ==
  /\ phase = "sending"
  /\ accepted' = [accepted EXCEPT ![inHand] = @ + 1]
  /\ phase' = "accepted"
  /\ UNCHANGED <<job, batch, inHand, halted, restarts>>

\* Slip: a delivery is written down as an attempt that must be repeated.
RecordSentAsRetry ==
  /\ phase = "accepted"
  /\ job' = [job EXCEPT ![inHand] = RetryAfter(@, 0)]
  /\ phase' = "delivered"
  /\ UNCHANGED <<batch, inHand, halted, accepted, restarts>>

\* markSent, then save.  save refuses to move a row out of SENT, which the
\* row in hand never is.
RecordSent ==
  /\ phase = "accepted"
  /\ job[inHand].state # "SENT"
  /\ job' = [job EXCEPT ![inHand] = MarkSent(@)]
  /\ phase' = "delivered"
  /\ UNCHANGED <<batch, inHand, halted, accepted, restarts>>

\* recordDelivery: the match's side of a delivery belongs to the desk.
RecordDelivery ==
  /\ phase = "delivered"
  /\ phase' = "drain"
  /\ inHand' = NoLetter
  /\ UNCHANGED <<job, batch, halted, accepted, restarts>>

\* The send throws and no copy left: markFailed, then save.
Refuse(permanent) ==
  /\ phase = "sending"
  /\ job[inHand].state # "SENT"
  /\ \E j \in FailedJobs(job[inHand], permanent) : job' = [job EXCEPT ![inHand] = j]
  /\ phase' = "drain"
  /\ inHand' = NoLetter
  /\ UNCHANGED <<batch, halted, accepted, restarts>>

\* The server took the letter, but the connection died before it said so.
LoseAck ==
  /\ AckLoss
  /\ phase = "sending"
  /\ accepted' = [accepted EXCEPT ![inHand] = @ + 1]
  /\ \E j \in FailedJobs(job[inHand], FALSE) : job' = [job EXCEPT ![inHand] = j]
  /\ phase' = "drain"
  /\ inHand' = NoLetter
  /\ UNCHANGED <<batch, halted, restarts>>

EndDrain ==
  /\ phase = "drain"
  /\ batch = {}
  /\ phase' = "rest"
  /\ UNCHANGED <<job, batch, inHand, halted, accepted, restarts>>

\* recoverStalledSend over stalled(), for a caller that runs it between drains.
RecoverStalled(k) ==
  /\ RecoveryCalled
  /\ phase = "rest"
  /\ job[k].state = "SENDING"
  /\ \E j \in FailedJobs(job[k], FALSE) : job' = [job EXCEPT ![k] = j]
  /\ UNCHANGED <<phase, batch, inHand, halted, accepted, restarts>>

\* Time passes, whether or not the process is up.
ClockTick ==
  /\ phase \in {"rest", "down"}
  /\ \E k \in Letters : job[k].wait > 0
  /\ job' = [k \in Letters |-> Aged(job[k])]
  /\ UNCHANGED <<phase, batch, inHand, halted, accepted, restarts>>

\* The process dies: everything that is not a row is gone.
Crash ==
  /\ phase # "down"
  /\ restarts < MaxRestarts
  /\ phase' = "down"
  /\ batch' = {}
  /\ inHand' = NoLetter
  /\ restarts' = restarts + 1
  /\ UNCHANGED <<job, halted, accepted>>

\* Boot touches no outbox row: a job found in SENDING stays there.
Boot ==
  /\ phase = "down"
  /\ phase' = "rest"
  /\ halted' \in HaltChoices
  /\ UNCHANGED <<job, batch, inHand, accepted, restarts>>

Send == Accept \/ Refuse(TRUE) \/ Refuse(FALSE) \/ LoseAck

Drain == StartDrain \/ (\E k \in Letters : Claim(k)) \/ Send \/ RecordSent
           \/ RecordDelivery \/ EndDrain

Next ==
  \/ \E k \in Letters : Enqueue(k) \/ RecoverStalled(k)
  \/ Drain
  \/ ClockTick
  \/ Crash
  \/ Boot

Spec == Init /\ [][Next]_vars

\* The tick loop drains forever and sleeps between ticks, an awaited send
\* settles one way or the other, and a dead process is started again.  The sleep
\* comes and goes, hence the strong fairness of the clock.  Nothing obliges the
\* server to accept, nobody has to write a letter, and nothing in the program
\* ever runs recoverStalledSend.
Fairness == WF_vars(Drain) /\ SF_vars(ClockTick) /\ WF_vars(Boot)

FairSpec == Spec /\ Fairness
-------------------------------------------------------------------------------
TypeOK ==
  /\ job \in [Letters -> Jobs]
  /\ phase \in Phases
  /\ batch \subseteq Letters
  /\ inHand \in Letters \cup {NoLetter}
  /\ halted \in BOOLEAN
  /\ accepted \in [Letters -> Nat]
  /\ restarts \in 0..MaxRestarts

Lossless == ~AckLoss /\ ~RecoveryCalled

\* The counter belongs to the row (beginSend's comment): however the process
\* dies, the mail server never sees more copies of a letter than the row has
\* attempts, nor the row more attempts than its policy allows.
CopiesWithinAttempts ==
  \A k \in Letters :
    /\ accepted[k] <= job[k].attempts
    /\ job[k].attempts <= MaxAttempts

\* INV-10 for one job: while no acknowledgement is lost, one intended email is
\* at most one email, through every retry and every restart.
OneCopy == \A k \in Letters : accepted[k] <= 1

\* A row at rest tells the truth about the mail server: SENT means a copy left
\* and names it, a waiting or DEAD row means none did.  Only SENDING is in
\* doubt.
HonestRows ==
  \A k \in Letters :
    /\ job[k].state = "SENT" => accepted[k] = 1 /\ job[k].messageId = job[k].attempts
    /\ job[k].state \in Waiting \cup {"DEAD", "ABSENT"} =>
         accepted[k] = 0 /\ job[k].messageId = 0

\* A drain works from one query and a copy it holds across an await.  Neither
\* is ever stale: what is still to be claimed is due, and the row in hand is
\* the SENDING row it claimed, so beginSend, markSent, markFailed and save
\* never throw and a drain never dies half way through its batch.
DrainHoldsFreshRows ==
  /\ \A k \in batch : job[k].state \in Waiting /\ job[k].wait = 0
  /\ phase \in {"sending", "accepted"} => job[inHand].state = "SENDING"

\* SENT and DEAD are final, no step takes an attempt back, and nothing gives a
\* letter up early: lost acknowledgements, recovery and failures that may pass do
\* so with the attempts used up only, a refusal for good by itself.
TerminalIsForever ==
  [][\A k \in Letters :
       /\ job[k].state \in TerminalStates => job'[k] = job[k]
       /\ job'[k].attempts >= job[k].attempts
       /\ (job'[k].state = "DEAD" /\ job[k].state # "DEAD") =>
            job[k].attempts = MaxAttempts \/ Refuse(TRUE)]_job

\* Without the halt, a letter the desk has written is sent or given up in the
\* end, unless the process goes down under it.
LettersSettle ==
  \A k \in Letters :
    job[k].state # "ABSENT" ~>
      (job[k].state \in TerminalStates \/ restarts > 0 \/ halted)

\* "Restarting during any state transition is safe" (SPEC_v2.md): a letter the
\* desk has written settles whatever the process does.
LettersSettleAcrossRestarts ==
  \A k \in Letters : job[k].state # "ABSENT" ~> job[k].state \in TerminalStates

\* What the desk believes about a letter, in the words of OneLetter.
Belief(k) ==
  CASE job[k].state = "ABSENT" -> "unwritten"
    [] job[k].state = "SENT"   -> "delivered"
    [] job[k].state = "DEAD"   -> "abandoned"
    [] OTHER                   -> "owed"

Promise == INSTANCE OneLetter WITH status <- [k \in Letters |-> Belief(k)],
                                   copies <- accepted

\* The shipped outbox keeps the promise of OneLetter.
KeepsPromise == Promise!Spec
=============================================================================
