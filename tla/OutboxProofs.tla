----------------------------- MODULE OutboxProofs -----------------------------
(***************************************************************************)
(* Proofs about Outbox, for any set of letters, any retry policy and any   *)
(* number of restarts.                                                     *)
(***************************************************************************)
EXTENDS Outbox, TLAPS

(* Where the loop is and what it holds. *)
HandInv ==
  /\ phase \in {"sending", "accepted", "delivered"} => inHand \in Letters
  /\ phase \in {"sending", "accepted"} => job[inHand].state = "SENDING"
  /\ phase = "delivered" => job[inHand].state = "SENT"

(* Backoff is a matter of RETRY_WAIT alone, and only a row with an attempt  *)
(* left waits for one.                                                      *)
WaitInv ==
  \A k \in Letters :
    /\ job[k].state # "RETRY_WAIT" => job[k].wait = 0
    /\ job[k].state \in Waiting => job[k].attempts < MaxAttempts
    /\ job[k].state \in {"ABSENT", "PENDING"} => job[k].attempts = 0

(* The server never has more copies than the row has attempts, and while a  *)
(* send is awaited there is room for the one it may take.                   *)
CountInv ==
  /\ \A k \in Letters : accepted[k] <= job[k].attempts
  /\ phase = "sending" => accepted[inHand] < job[inHand].attempts

BatchInv == \A k \in batch : job[k].state \in Waiting /\ job[k].wait = 0

IInv == TypeOK /\ HandInv /\ WaitInv /\ CountInv /\ BatchInv

(* An attempt under way has been counted, and a row that says SENT names the *)
(* attempt that earned it, of which the server has a copy.                  *)
EarnedInv ==
  /\ \A k \in Letters :
       /\ job[k].state \in {"SENDING", "SENT"} => job[k].attempts > 0
       /\ job[k].state = "SENT" =>
            job[k].messageId = job[k].attempts /\ accepted[k] > 0
  /\ phase = "accepted" => accepted[inHand] > 0

(* What a row in doubt may hide while no acknowledgement is lost. *)
DoubtInv ==
  /\ HonestRows
  /\ \A k \in Letters : job[k].state = "SENDING" =>
       accepted[k] <= 1 /\ job[k].messageId = 0
  /\ phase = "sending" => accepted[inHand] = 0
  /\ phase = "accepted" => accepted[inHand] = 1
-------------------------------------------------------------------------------
(* The jitter of backoffMs is a natural number of clock ticks. *)
LEMMA DelaysAreNat == ASSUME NEW n, NEW d \in Delays(n) PROVE d \in Nat
  BY DEF Delays

(* What markFailed may make of a row. *)
LEMMA FailedJobsShape ==
  ASSUME NEW j \in Jobs, NEW permanent, NEW f \in FailedJobs(j, permanent)
  PROVE /\ f \in Jobs
        /\ f.attempts = j.attempts
        /\ f.messageId = j.messageId
        /\ \/ f.state = "DEAD" /\ f.wait = j.wait
           \/ f.state = "RETRY_WAIT" /\ j.attempts < MaxAttempts
<1>1. CASE permanent \/ Exhausted(j)
  <2>1. f = [j EXCEPT !.state = "DEAD"]
    BY <1>1 DEF FailedJobs, Dead
  <2> QED BY <2>1 DEF Jobs, JobStates
<1>2. CASE ~(permanent \/ Exhausted(j))
  <2>1. PICK d \in Delays(j.attempts) : f = RetryAfter(j, d)
    BY <1>2 DEF FailedJobs
  <2>2. d \in Nat
    BY DelaysAreNat
  <2>3. j.attempts < MaxAttempts
    BY <1>2, OutboxAssumption DEF Exhausted, Jobs
  <2> QED BY <2>1, <2>2, <2>3 DEF RetryAfter, Jobs, JobStates
<1> QED BY <1>1, <1>2

(* A clock tick changes nothing in a row but a distance that is not zero. *)
LEMMA AgedShape ==
  ASSUME NEW j \in Jobs
  PROVE /\ Aged(j) \in Jobs
        /\ Aged(j).state = j.state
        /\ Aged(j).attempts = j.attempts
        /\ Aged(j).messageId = j.messageId
        /\ j.wait = 0 => Aged(j) = j
  BY DEF Aged, Sooner, Jobs, JobStates

(* Type correctness and the facts it needs hold at the start. *)
LEMMA InitIInv == Init => IInv
  BY OutboxAssumption
     DEF Init, IInv, TypeOK, HandInv, WaitInv, CountInv, BatchInv, NoJob, Jobs,
         JobStates, Phases, Waiting

(* The one step two actions share: the row in hand, or a stalled one, is    *)
(* replaced by what markFailed made of it.                                  *)
LEMMA FailedRow ==
  ASSUME IInv, NEW k \in Letters, NEW permanent,
         NEW f \in FailedJobs(job[k], permanent),
         job[k].state = "SENDING",
         job' = [job EXCEPT ![k] = f]
  PROVE /\ job' \in [Letters -> Jobs]
        /\ job'[k].state \in {"DEAD", "RETRY_WAIT"}
        /\ job'[k].attempts = job[k].attempts
        /\ job'[k].messageId = job[k].messageId
        /\ WaitInv'
        /\ \A l \in Letters \ {k} : job'[l] = job[l]
<1>1. job[k] \in Jobs /\ job[k].wait = 0
  BY DEF IInv, TypeOK, WaitInv
<1>2. /\ f \in Jobs
      /\ f.attempts = job[k].attempts
      /\ f.messageId = job[k].messageId
      /\ \/ f.state = "DEAD" /\ f.wait = job[k].wait
         \/ f.state = "RETRY_WAIT" /\ job[k].attempts < MaxAttempts
  BY <1>1, FailedJobsShape
<1>3. job'[k] = f /\ \A l \in Letters \ {k} : job'[l] = job[l]
  BY DEF IInv, TypeOK
<1>4. job' \in [Letters -> Jobs]
  BY <1>2 DEF IInv, TypeOK
<1>5. WaitInv'
  BY <1>1, <1>2, <1>3 DEF WaitInv, IInv, Waiting
<1> QED BY <1>2, <1>3, <1>4, <1>5

(* Every step of the outbox preserves the invariant. *)
LEMMA StepIInv == IInv /\ [Next]_vars => IInv'
<1> SUFFICES ASSUME IInv, [Next]_vars PROVE IInv'
  OBVIOUS
<1>t. TypeOK /\ HandInv /\ WaitInv /\ CountInv /\ BatchInv
  BY DEF IInv
<1>1. ASSUME NEW k \in Letters, Enqueue(k) PROVE IInv'
  <2>1. /\ job' \in [Letters -> Jobs]
        /\ job'[k] = NewJob
        /\ \A l \in Letters \ {k} : job'[l] = job[l]
    <3>1. NewJob \in Jobs
      BY OutboxAssumption DEF NewJob, Jobs, JobStates
    <3> QED BY <1>1, <1>t, <3>1 DEF Enqueue, TypeOK
  <2>2. TypeOK'
    BY <1>1, <1>t, <2>1 DEF Enqueue, TypeOK
  <2>3. WaitInv'
    BY <1>t, <2>1, OutboxAssumption DEF WaitInv, NewJob, Waiting
  <2>4. HandInv' /\ BatchInv'
    BY <1>1, <1>t, <2>1 DEF Enqueue, HandInv, BatchInv, TypeOK, Waiting
  <2>5. CountInv'
    <3>1. accepted[k] <= job'[k].attempts
      BY <1>1, <1>t, <2>1 DEF Enqueue, CountInv, WaitInv, NewJob
    <3> QED BY <1>1, <1>t, <2>1, <3>1 DEF Enqueue, CountInv
  <2> QED BY <2>2, <2>3, <2>4, <2>5 DEF IInv
<1>2. ASSUME NEW k \in Letters, RecoverStalled(k) PROVE IInv'
  <2>1. PICK f \in FailedJobs(job[k], FALSE) : job' = [job EXCEPT ![k] = f]
    BY <1>2 DEF RecoverStalled
  <2>2. /\ job' \in [Letters -> Jobs]
        /\ job'[k].attempts = job[k].attempts
        /\ WaitInv'
        /\ \A l \in Letters \ {k} : job'[l] = job[l]
    BY <1>2, <2>1, FailedRow DEF RecoverStalled
  <2>3. TypeOK' /\ HandInv'
    BY <1>2, <1>t, <2>2 DEF RecoverStalled, TypeOK, HandInv
  <2>4. CountInv'
    BY <1>2, <1>t, <2>2 DEF RecoverStalled, CountInv
  <2>5. BatchInv'
    BY <1>2, <1>t, <2>2 DEF RecoverStalled, BatchInv, TypeOK, Waiting
  <2> QED BY <2>2, <2>3, <2>4, <2>5 DEF IInv
<1>3. CASE StartDrain
  <2>1. batch' \subseteq DueJobs /\ UNCHANGED job
    BY <1>3 DEF StartDrain
  <2>2. BatchInv'
    BY <2>1 DEF BatchInv, DueJobs, Due
  <2>3. TypeOK'
    BY <1>3, <1>t, <2>1 DEF StartDrain, TypeOK, DueJobs, Phases
  <2> QED BY <1>3, <1>t, <2>2, <2>3
          DEF StartDrain, IInv, HandInv, WaitInv, CountInv
<1>4. ASSUME NEW k \in Letters, Claim(k) PROVE IInv'
  <2>1. /\ job[k].attempts < MaxAttempts
        /\ job[k] \in Jobs
        /\ job[k].state \in Waiting /\ job[k].wait = 0
    BY <1>4, <1>t DEF Claim, Due, WaitInv, TypeOK
  <2>2. /\ BeginSend(job[k]) \in Jobs
        /\ BeginSend(job[k]).state = "SENDING"
        /\ BeginSend(job[k]).attempts = job[k].attempts + 1
        /\ BeginSend(job[k]).wait = 0
    <3>1. job[k].attempts + 1 \in 0..MaxAttempts
      BY <2>1, OutboxAssumption DEF Jobs
    <3> QED BY <2>1, <3>1 DEF BeginSend, Jobs, JobStates
  <2>3. /\ job' \in [Letters -> Jobs]
        /\ job'[k] = BeginSend(job[k])
        /\ \A l \in Letters \ {k} : job'[l] = job[l]
    BY <1>4, <1>t, <2>2 DEF Claim, TypeOK
  <2>4. TypeOK'
    BY <1>4, <1>t, <2>3 DEF Claim, TypeOK, Phases
  <2>5. HandInv' /\ WaitInv'
    BY <1>4, <1>t, <2>2, <2>3 DEF Claim, HandInv, WaitInv, Waiting
  <2>6. CountInv'
    <3>1. accepted[k] < job'[k].attempts
      BY <1>t, <2>1, <2>2, <2>3 DEF CountInv, TypeOK, Jobs
    <3> QED BY <1>4, <1>t, <2>3, <3>1 DEF Claim, CountInv, TypeOK, Jobs
  <2>7. BatchInv'
    BY <1>4, <1>t, <2>3 DEF Claim, BatchInv, TypeOK
  <2> QED BY <2>4, <2>5, <2>6, <2>7 DEF IInv
<1>5. CASE Accept
  <2>1. inHand \in Letters /\ accepted[inHand] < job[inHand].attempts
    BY <1>5, <1>t DEF Accept, HandInv, CountInv
  <2>2. TypeOK'
    <3>1. accepted[inHand] + 1 \in Nat
      BY <2>1, <1>t DEF TypeOK
    <3>2. accepted' \in [Letters -> Nat]
      BY <1>5, <1>t, <3>1 DEF Accept, TypeOK
    <3> QED BY <1>5, <1>t, <3>2 DEF Accept, TypeOK, Phases
  <2>3. HandInv' /\ WaitInv' /\ BatchInv'
    BY <1>5, <1>t DEF Accept, HandInv, WaitInv, BatchInv
  <2>4. CountInv'
    BY <1>5, <1>t, <2>1 DEF Accept, CountInv, TypeOK, Jobs
  <2> QED BY <2>2, <2>3, <2>4 DEF IInv
<1>6. CASE RecordSent
  <2>1. /\ inHand \in Letters
        /\ job[inHand] \in Jobs
        /\ job[inHand].state = "SENDING" /\ job[inHand].wait = 0
    BY <1>6, <1>t DEF RecordSent, HandInv, TypeOK, WaitInv
  <2>2. /\ MarkSent(job[inHand]) \in Jobs
        /\ MarkSent(job[inHand]).state = "SENT"
        /\ MarkSent(job[inHand]).wait = 0
        /\ MarkSent(job[inHand]).attempts = job[inHand].attempts
    BY <2>1 DEF MarkSent, Jobs, JobStates
  <2>3. /\ job' \in [Letters -> Jobs]
        /\ job'[inHand] = MarkSent(job[inHand])
        /\ \A l \in Letters \ {inHand} : job'[l] = job[l]
    BY <1>6, <1>t, <2>1, <2>2 DEF RecordSent, TypeOK
  <2>4. TypeOK'
    BY <1>6, <1>t, <2>3 DEF RecordSent, TypeOK, Phases
  <2>5. HandInv' /\ WaitInv'
    BY <1>6, <1>t, <2>1, <2>2, <2>3 DEF RecordSent, HandInv, WaitInv, Waiting
  <2>6. CountInv'
    BY <1>6, <1>t, <2>2, <2>3 DEF RecordSent, CountInv
  <2>7. BatchInv'
    BY <1>6, <1>t, <2>1, <2>3 DEF RecordSent, BatchInv, TypeOK, Waiting
  <2> QED BY <2>4, <2>5, <2>6, <2>7 DEF IInv
<1>7. CASE RecordDelivery
  BY <1>7, <1>t
     DEF RecordDelivery, IInv, TypeOK, HandInv, WaitInv, CountInv, BatchInv, Phases
<1>8. ASSUME NEW permanent, Refuse(permanent) PROVE IInv'
  <2>1. PICK f \in FailedJobs(job[inHand], permanent) :
          job' = [job EXCEPT ![inHand] = f]
    BY <1>8 DEF Refuse
  <2>2. inHand \in Letters /\ job[inHand].state = "SENDING"
    BY <1>8, <1>t DEF Refuse, HandInv
  <2>3. /\ job' \in [Letters -> Jobs]
        /\ job'[inHand].attempts = job[inHand].attempts
        /\ WaitInv'
        /\ \A l \in Letters \ {inHand} : job'[l] = job[l]
    BY <2>1, <2>2, FailedRow
  <2>4. TypeOK' /\ HandInv'
    BY <1>8, <1>t, <2>3 DEF Refuse, TypeOK, HandInv, Phases
  <2>5. CountInv'
    BY <1>8, <1>t, <2>2, <2>3 DEF Refuse, CountInv
  <2>6. BatchInv'
    BY <1>8, <1>t, <2>2, <2>3 DEF Refuse, BatchInv, TypeOK, Waiting
  <2> QED BY <2>3, <2>4, <2>5, <2>6 DEF IInv
<1>9. CASE LoseAck
  <2>1. PICK f \in FailedJobs(job[inHand], FALSE) : job' = [job EXCEPT ![inHand] = f]
    BY <1>9 DEF LoseAck
  <2>2. /\ inHand \in Letters /\ job[inHand].state = "SENDING"
        /\ accepted[inHand] < job[inHand].attempts
    BY <1>9, <1>t DEF LoseAck, HandInv, CountInv
  <2>3. /\ job' \in [Letters -> Jobs]
        /\ job'[inHand].attempts = job[inHand].attempts
        /\ WaitInv'
        /\ \A l \in Letters \ {inHand} : job'[l] = job[l]
    BY <2>1, <2>2, FailedRow
  <2>4. TypeOK' /\ HandInv'
    BY <1>9, <1>t, <2>3 DEF LoseAck, TypeOK, HandInv, Phases
  <2>5. CountInv'
    BY <1>9, <1>t, <2>2, <2>3 DEF LoseAck, CountInv, TypeOK, Jobs
  <2>6. BatchInv'
    BY <1>9, <1>t, <2>2, <2>3 DEF LoseAck, BatchInv, TypeOK, Waiting
  <2> QED BY <2>3, <2>4, <2>5, <2>6 DEF IInv
<1>10. CASE EndDrain
  BY <1>10, <1>t
     DEF EndDrain, IInv, TypeOK, HandInv, WaitInv, CountInv, BatchInv, Phases
<1>11. CASE ClockTick
  <2>1. \A k \in Letters :
          /\ job'[k] \in Jobs
          /\ job'[k].state = job[k].state
          /\ job'[k].attempts = job[k].attempts
          /\ job[k].wait = 0 => job'[k] = job[k]
    BY <1>11, <1>t, AgedShape DEF ClockTick, TypeOK
  <2>2. job' \in [Letters -> Jobs]
    BY <1>11, <2>1 DEF ClockTick
  <2>3. TypeOK'
    BY <1>11, <1>t, <2>2 DEF ClockTick, TypeOK
  <2>4. HandInv' /\ WaitInv'
    BY <1>11, <1>t, <2>1 DEF ClockTick, HandInv, WaitInv
  <2>5. CountInv' /\ BatchInv'
    BY <1>11, <1>t, <2>1 DEF ClockTick, CountInv, BatchInv, TypeOK
  <2> QED BY <2>3, <2>4, <2>5 DEF IInv
<1>12. CASE Crash
  <2>1. restarts' \in 0..MaxRestarts
    BY <1>12, <1>t, OutboxAssumption DEF Crash, TypeOK
  <2> QED BY <1>12, <1>t, <2>1
          DEF Crash, IInv, TypeOK, HandInv, WaitInv, CountInv, BatchInv, Phases
<1>13. CASE Boot
  BY <1>13, <1>t, OutboxAssumption
     DEF Boot, IInv, TypeOK, HandInv, WaitInv, CountInv, BatchInv, Phases
<1>14. CASE UNCHANGED vars
  BY <1>14, <1>t
     DEF vars, IInv, TypeOK, HandInv, WaitInv, CountInv, BatchInv
<1> QED
  BY <1>1, <1>2, <1>3, <1>4, <1>5, <1>6, <1>7, <1>8, <1>9, <1>10, <1>11, <1>12,
     <1>13, <1>14 DEF Next, Drain, Send
-------------------------------------------------------------------------------
(* Each row and counter has its type, and the loop holds what its phase     *)
(* says it holds, in every reachable state.                                 *)
LEMMA Invariance == Spec => []IInv
  BY InitIInv, StepIInv, PTL DEF Spec

(* TypeOK: the outbox's rows and counters have their types. *)
THEOREM TypeCorrect == Spec => []TypeOK
<1>1. IInv => TypeOK
  BY DEF IInv
<1> QED BY <1>1, Invariance, PTL

(* CopiesWithinAttempts: whatever is lost and however often the process dies,  *)
(* the copies of a letter never outnumber the attempts its row has counted,    *)
(* nor those the policy.                                                       *)
THEOREM AttemptsBoundCopies == Spec => []CopiesWithinAttempts
<1>1. IInv => CopiesWithinAttempts
  BY OutboxAssumption DEF IInv, TypeOK, CountInv, CopiesWithinAttempts, Jobs
<1> QED BY <1>1, Invariance, PTL

(* DrainHoldsFreshRows: no guard of beginSend, markSent, markFailed or save     *)
(* ever meets a stale row, so a drain never dies half way.                     *)
THEOREM DrainsHoldFreshRows == Spec => []DrainHoldsFreshRows
<1>1. IInv => DrainHoldsFreshRows
  BY DEF IInv, HandInv, BatchInv, DrainHoldsFreshRows
<1> QED BY <1>1, Invariance, PTL

(* What a step does to the rows, letter by letter: the one fact behind the  *)
(* finality of SENT and DEAD.                                               *)
LEMMA RowsAdvance ==
  ASSUME IInv, [Next]_vars, NEW k \in Letters
  PROVE /\ job[k].state \in TerminalStates => job'[k] = job[k]
        /\ job'[k].attempts >= job[k].attempts
<1>t. TypeOK /\ HandInv /\ WaitInv
  BY DEF IInv
<1>a. job[k] \in Jobs /\ job[k].attempts \in Int
  BY <1>t DEF TypeOK, Jobs
<1>1. ASSUME NEW l \in Letters, Enqueue(l)
      PROVE /\ job[k].state \in TerminalStates => job'[k] = job[k]
            /\ job'[k].attempts >= job[k].attempts
  <2>1. k # l => job'[k] = job[k]
    BY <1>1, <1>t DEF Enqueue, TypeOK
  <2>2. k = l => job[k].state = "ABSENT" /\ job[k].attempts = 0 /\ job'[k] = NewJob
    BY <1>1, <1>t DEF Enqueue, WaitInv, TypeOK
  <2> QED BY <1>a, <2>1, <2>2 DEF TerminalStates, NewJob
<1>2. ASSUME NEW l \in Letters, RecoverStalled(l)
      PROVE /\ job[k].state \in TerminalStates => job'[k] = job[k]
            /\ job'[k].attempts >= job[k].attempts
  <2>1. PICK f \in FailedJobs(job[l], FALSE) : job' = [job EXCEPT ![l] = f]
    BY <1>2 DEF RecoverStalled
  <2>2. job[l].state = "SENDING"
    BY <1>2 DEF RecoverStalled
  <2>3. /\ job'[l].attempts = job[l].attempts
        /\ \A i \in Letters \ {l} : job'[i] = job[i]
    BY <2>1, <2>2, FailedRow
  <2> QED BY <1>a, <2>2, <2>3 DEF TerminalStates
<1>3. ASSUME NEW l \in Letters, Claim(l)
      PROVE /\ job[k].state \in TerminalStates => job'[k] = job[k]
            /\ job'[k].attempts >= job[k].attempts
  <2>1. k # l => job'[k] = job[k]
    BY <1>3, <1>t DEF Claim, TypeOK
  <2>2. k = l => /\ job[k].state \in Waiting
                 /\ job'[k].attempts = job[k].attempts + 1
    BY <1>3, <1>t, <1>a DEF Claim, Due, TypeOK, BeginSend, Jobs
  <2> QED BY <1>a, <2>1, <2>2 DEF TerminalStates, Waiting
<1>4. CASE RecordSent
  <2>1. job[inHand].state = "SENDING" /\ inHand \in Letters
    BY <1>4, <1>t DEF RecordSent, HandInv
  <2>2. k # inHand => job'[k] = job[k]
    BY <1>4, <1>t DEF RecordSent, TypeOK
  <2>3. k = inHand => job'[k].attempts = job[k].attempts
    BY <1>4, <1>t, <1>a DEF RecordSent, TypeOK, MarkSent, Jobs
  <2> QED BY <1>a, <2>1, <2>2, <2>3 DEF TerminalStates
<1>5. ASSUME NEW permanent, NEW f \in FailedJobs(job[inHand], permanent),
             phase = "sending", job' = [job EXCEPT ![inHand] = f]
      PROVE /\ job[k].state \in TerminalStates => job'[k] = job[k]
            /\ job'[k].attempts >= job[k].attempts
  <2>1. job[inHand].state = "SENDING" /\ inHand \in Letters
    BY <1>5, <1>t DEF HandInv
  <2>2. /\ job'[inHand].attempts = job[inHand].attempts
        /\ \A i \in Letters \ {inHand} : job'[i] = job[i]
    BY <1>5, <2>1, FailedRow
  <2> QED BY <1>a, <2>1, <2>2 DEF TerminalStates
<1>6. CASE ClockTick
  <2>1. job'[k] = Aged(job[k])
    BY <1>6 DEF ClockTick
  <2>2. job[k].state \in TerminalStates => job[k].wait = 0
    BY <1>t DEF WaitInv, TerminalStates
  <2> QED BY <1>a, <2>1, <2>2, AgedShape
<1>7. CASE UNCHANGED job
  BY <1>7, <1>a
<1>8. CASE LoseAck \/ \E permanent \in BOOLEAN : Refuse(permanent)
  BY <1>5, <1>8 DEF LoseAck, Refuse
<1>9. CASE StartDrain \/ Accept \/ RecordDelivery \/ EndDrain \/ Crash \/ Boot
             \/ UNCHANGED vars
  BY <1>7, <1>9
     DEF StartDrain, Accept, RecordDelivery, EndDrain, Crash, Boot, vars
<1> QED
  BY <1>1, <1>2, <1>3, <1>4, <1>6, <1>8, <1>9 DEF Next, Drain, Send

(* A letter is given up with its attempts used up, or refused for good.     *)
LEMMA GivenUpLate ==
  ASSUME IInv, [Next]_vars, NEW k \in Letters,
         job'[k].state = "DEAD", job[k].state # "DEAD"
  PROVE job[k].attempts = MaxAttempts \/ Refuse(TRUE)
<1>t. TypeOK /\ HandInv /\ CountInv
  BY DEF IInv
<1>a. job[k] \in Jobs /\ job[k].attempts \in Nat
  BY <1>t, OutboxAssumption DEF TypeOK, Jobs
<1>1. ASSUME NEW l \in Letters, job' = [job EXCEPT ![l] = NewJob] PROVE FALSE
  BY <1>1, <1>t DEF TypeOK, NewJob
<1>2. ASSUME NEW l, NEW f \in FailedJobs(job[l], FALSE), job' = [job EXCEPT ![l] = f]
      PROVE job[k].attempts = MaxAttempts
  <2>1. k = l /\ f.state = "DEAD"
    BY <1>2, <1>t DEF TypeOK
  <2>2. Exhausted(job[k])
    <3>1. ASSUME ~Exhausted(job[k]) PROVE FALSE
      <4>1. PICK d \in Delays(job[k].attempts) : f = RetryAfter(job[k], d)
        BY <1>2, <2>1, <3>1 DEF FailedJobs
      <4>2. f.state = "RETRY_WAIT"
        BY <1>a, <4>1 DEF RetryAfter, Jobs
      <4> QED BY <2>1, <4>2
    <3> QED BY <3>1
  <2>3. job[k].attempts =< MaxAttempts
    BY <1>a, <1>t DEF Jobs
  <2> QED BY <1>a, <2>2, <2>3, OutboxAssumption DEF Exhausted
<1>3. ASSUME NEW l \in Letters, Claim(l) PROVE FALSE
  <2>1. job'[l].state = "SENDING"
    BY <1>3, <1>t DEF Claim, TypeOK, BeginSend, Jobs
  <2> QED BY <1>3, <2>1, <1>t DEF Claim, TypeOK
<1>4. ASSUME RecordSent PROVE FALSE
  <2>1. inHand \in Letters
    BY <1>4, <1>t DEF RecordSent, HandInv
  <2>2. job'[inHand].state = "SENT"
    BY <1>4, <1>t, <2>1 DEF RecordSent, TypeOK, MarkSent, Jobs
  <2> QED BY <1>4, <2>1, <2>2, <1>t DEF RecordSent, TypeOK
<1>5. ASSUME ClockTick PROVE FALSE
  BY <1>5, <1>a, AgedShape DEF ClockTick
<1>6. CASE LoseAck \/ Refuse(FALSE) \/ \E l \in Letters : RecoverStalled(l)
  BY <1>2, <1>6 DEF LoseAck, Refuse, RecoverStalled
<1>7. CASE UNCHANGED job
  BY <1>7
<1>8. CASE \E l \in Letters : Enqueue(l)
  BY <1>1, <1>8 DEF Enqueue
<1>9. CASE StartDrain \/ Accept \/ RecordDelivery \/ EndDrain \/ Crash \/ Boot
             \/ UNCHANGED vars
  BY <1>7, <1>9
     DEF StartDrain, Accept, RecordDelivery, EndDrain, Crash, Boot, vars
<1> QED
  BY <1>3, <1>4, <1>5, <1>6, <1>8, <1>9 DEF Next, Drain, Send

(* TerminalIsForever: no retry, recovery, clock or restart moves a row that *)
(* is SENT or DEAD, no step takes an attempt back, and none gives a letter  *)
(* up before its attempts are used up, a refusal for good apart.            *)
THEOREM Finality == Spec => TerminalIsForever
<1>1. IInv /\ [Next]_vars =>
        [\A k \in Letters :
           /\ job[k].state \in TerminalStates => job'[k] = job[k]
           /\ job'[k].attempts >= job[k].attempts
           /\ (job'[k].state = "DEAD" /\ job[k].state # "DEAD") =>
                job[k].attempts = MaxAttempts \/ Refuse(TRUE)]_job
  BY RowsAdvance, GivenUpLate
<1> QED BY <1>1, Invariance, PTL DEF Spec, TerminalIsForever
-------------------------------------------------------------------------------
(* What SENT means holds however many acknowledgements get lost.            *)
LEMMA InitEarned == Init => EarnedInv
  BY DEF Init, EarnedInv, NoJob

(* A row that becomes what markFailed made of it is neither SENDING nor     *)
(* SENT, so it owes EarnedInv nothing.                                      *)
LEMMA StepEarned == IInv /\ EarnedInv /\ [Next]_vars => EarnedInv'
<1> SUFFICES ASSUME IInv, EarnedInv, [Next]_vars PROVE EarnedInv'
  OBVIOUS
<1>t. TypeOK /\ HandInv /\ WaitInv
  BY DEF IInv
<1>1. ASSUME NEW k \in Letters, Enqueue(k) PROVE EarnedInv'
  <2>1. /\ job'[k] = NewJob /\ \A l \in Letters \ {k} : job'[l] = job[l]
        /\ accepted' = accepted /\ phase' = "rest"
    BY <1>1, <1>t DEF Enqueue, TypeOK
  <2> QED BY <2>1 DEF EarnedInv, NewJob
<1>2. ASSUME NEW k \in Letters, NEW f \in FailedJobs(job[k], FALSE),
             RecoverStalled(k), job' = [job EXCEPT ![k] = f]
      PROVE EarnedInv'
  <2>1. /\ job'[k].state \in {"DEAD", "RETRY_WAIT"}
        /\ \A l \in Letters \ {k} : job'[l] = job[l]
    BY <1>2, FailedRow DEF RecoverStalled
  <2> QED BY <1>2, <2>1 DEF RecoverStalled, EarnedInv
<1>3. ASSUME NEW k \in Letters, Claim(k) PROVE EarnedInv'
  <2>1. job[k] \in Jobs
    BY <1>t DEF TypeOK
  <2>2. /\ job'[k].state = "SENDING" /\ job'[k].attempts = job[k].attempts + 1
        /\ \A l \in Letters \ {k} : job'[l] = job[l]
    BY <1>3, <1>t, <2>1 DEF Claim, TypeOK, BeginSend, Jobs
  <2>3. accepted' = accepted /\ phase' = "sending" /\ job[k].attempts \in Nat
    BY <1>3, <2>1, OutboxAssumption DEF Claim, Jobs
  <2> QED BY <2>2, <2>3 DEF EarnedInv
<1>4. CASE Accept
  <2>1. inHand \in Letters /\ accepted[inHand] \in Nat
    BY <1>4, <1>t DEF Accept, HandInv, TypeOK
  <2>2. /\ job' = job /\ inHand' = inHand /\ phase' = "accepted"
        /\ accepted'[inHand] = accepted[inHand] + 1
        /\ \A l \in Letters \ {inHand} : accepted'[l] = accepted[l]
    BY <1>4, <1>t, <2>1 DEF Accept, TypeOK
  <2> QED BY <2>1, <2>2 DEF EarnedInv
<1>5. CASE RecordSent
  <2>1. /\ inHand \in Letters /\ job[inHand] \in Jobs
        /\ job[inHand].state = "SENDING" /\ accepted[inHand] > 0
    BY <1>5, <1>t DEF RecordSent, HandInv, TypeOK, EarnedInv
  <2>2. /\ job'[inHand].messageId = job[inHand].attempts
        /\ job'[inHand].attempts = job[inHand].attempts
        /\ \A l \in Letters \ {inHand} : job'[l] = job[l]
    BY <1>5, <1>t, <2>1 DEF RecordSent, TypeOK, MarkSent, Jobs
  <2>3. accepted' = accepted /\ phase' = "delivered"
    BY <1>5 DEF RecordSent
  <2> QED BY <2>1, <2>2, <2>3 DEF EarnedInv
<1>6. ASSUME NEW permanent, NEW f \in FailedJobs(job[inHand], permanent),
             phase = "sending", job' = [job EXCEPT ![inHand] = f],
             phase' = "drain",
             \A l \in Letters \ {inHand} : accepted'[l] = accepted[l]
      PROVE EarnedInv'
  <2>1. inHand \in Letters /\ job[inHand].state = "SENDING"
    BY <1>6, <1>t DEF HandInv
  <2>2. /\ job'[inHand].state \in {"DEAD", "RETRY_WAIT"}
        /\ \A l \in Letters \ {inHand} : job'[l] = job[l]
    BY <1>6, <2>1, FailedRow
  <2> QED BY <1>6, <2>2 DEF EarnedInv
<1>7. ASSUME NEW permanent, Refuse(permanent) PROVE EarnedInv'
  BY <1>6, <1>7 DEF Refuse
<1>8. CASE LoseAck
  BY <1>6, <1>8, <1>t DEF LoseAck, TypeOK
<1>9. CASE ClockTick
  <2>1. \A k \in Letters : /\ job'[k].state = job[k].state
                           /\ job'[k].attempts = job[k].attempts
                           /\ job'[k].messageId = job[k].messageId
    BY <1>9, <1>t, AgedShape DEF ClockTick, TypeOK
  <2> QED BY <1>9, <2>1 DEF ClockTick, EarnedInv
<1>10. CASE StartDrain \/ RecordDelivery \/ EndDrain \/ Crash \/ Boot
              \/ UNCHANGED vars
  BY <1>10 DEF StartDrain, RecordDelivery, EndDrain, Crash, Boot, vars, EarnedInv
<1>11. ASSUME NEW k \in Letters, RecoverStalled(k) PROVE EarnedInv'
  BY <1>2, <1>11 DEF RecoverStalled
<1> QED
  BY <1>1, <1>3, <1>4, <1>5, <1>7, <1>8, <1>9, <1>10, <1>11 DEF Next, Drain, Send

LEMMA EarnedInvariance == Spec => []EarnedInv
<1>1. IInv /\ EarnedInv /\ [Next]_vars => EarnedInv'
  BY StepEarned
<1> QED BY <1>1, InitEarned, Invariance, PTL DEF Spec
-------------------------------------------------------------------------------
(* While acknowledgements arrive, the only row in doubt is a SENDING one.   *)
LEMMA InitDoubt == Init => DoubtInv
  BY DEF Init, DoubtInv, HonestRows, NoJob, Waiting

LEMMA StepDoubt == Lossless /\ IInv /\ DoubtInv /\ [Next]_vars => DoubtInv'
<1> SUFFICES ASSUME Lossless, IInv, DoubtInv, [Next]_vars PROVE DoubtInv'
  OBVIOUS
<1>t. TypeOK /\ HandInv /\ WaitInv /\ HonestRows
  BY DEF IInv, DoubtInv
<1>1. ASSUME NEW k \in Letters, Enqueue(k) PROVE DoubtInv'
  <2>1. job'[k] = NewJob /\ \A l \in Letters \ {k} : job'[l] = job[l]
    BY <1>1, <1>t DEF Enqueue, TypeOK
  <2>2. accepted' = accepted /\ accepted[k] = 0 /\ phase' = "rest"
    BY <1>1, <1>t DEF Enqueue, HonestRows, Waiting
  <2> QED BY <2>1, <2>2 DEF DoubtInv, HonestRows, NewJob, Waiting
<1>2. ASSUME NEW k \in Letters, RecoverStalled(k) PROVE DoubtInv'
  BY <1>2 DEF RecoverStalled, Lossless
<1>3. ASSUME NEW k \in Letters, Claim(k) PROVE DoubtInv'
  <2>1. /\ job[k] \in Jobs /\ job[k].state \in Waiting
        /\ accepted[k] = 0 /\ job[k].messageId = 0
    BY <1>3, <1>t DEF Claim, Due, TypeOK, HonestRows
  <2>2. /\ job'[k].state = "SENDING" /\ job'[k].messageId = 0
        /\ \A l \in Letters \ {k} : job'[l] = job[l]
    BY <1>3, <1>t, <2>1 DEF Claim, TypeOK, BeginSend, Jobs
  <2>3. accepted' = accepted /\ phase' = "sending" /\ inHand' = k
    BY <1>3 DEF Claim
  <2> QED BY <2>1, <2>2, <2>3 DEF DoubtInv, HonestRows, Waiting
<1>4. CASE Accept
  <2>1. /\ inHand \in Letters /\ job[inHand].state = "SENDING"
        /\ accepted[inHand] = 0
    BY <1>4, <1>t DEF Accept, HandInv, DoubtInv
  <2>2. /\ job' = job /\ inHand' = inHand /\ phase' = "accepted"
        /\ accepted'[inHand] = 1
        /\ \A l \in Letters \ {inHand} : accepted'[l] = accepted[l]
    BY <1>4, <1>t, <2>1 DEF Accept, TypeOK
  <2> QED BY <2>1, <2>2 DEF DoubtInv, HonestRows, Waiting
<1>5. CASE RecordSent
  <2>1. /\ inHand \in Letters /\ job[inHand] \in Jobs
        /\ accepted[inHand] = 1
    BY <1>5, <1>t DEF RecordSent, HandInv, TypeOK, DoubtInv
  <2>2. /\ job'[inHand].state = "SENT"
        /\ job'[inHand].messageId = job'[inHand].attempts
        /\ \A l \in Letters \ {inHand} : job'[l] = job[l]
    BY <1>5, <1>t, <2>1 DEF RecordSent, TypeOK, MarkSent, Jobs
  <2>3. accepted' = accepted /\ phase' = "delivered"
    BY <1>5 DEF RecordSent
  <2> QED BY <2>1, <2>2, <2>3 DEF DoubtInv, HonestRows, Waiting
<1>6. ASSUME NEW permanent, Refuse(permanent) PROVE DoubtInv'
  <2>1. PICK f \in FailedJobs(job[inHand], permanent) :
          job' = [job EXCEPT ![inHand] = f]
    BY <1>6 DEF Refuse
  <2>2. /\ inHand \in Letters /\ job[inHand].state = "SENDING"
        /\ accepted[inHand] = 0 /\ job[inHand].messageId = 0
    BY <1>6, <1>t DEF Refuse, HandInv, DoubtInv
  <2>3. /\ job'[inHand].state \in {"DEAD", "RETRY_WAIT"}
        /\ job'[inHand].messageId = 0
        /\ \A l \in Letters \ {inHand} : job'[l] = job[l]
    BY <2>1, <2>2, FailedRow
  <2>4. accepted' = accepted /\ phase' = "drain"
    BY <1>6 DEF Refuse
  <2> QED BY <2>2, <2>3, <2>4 DEF DoubtInv, HonestRows, Waiting
<1>7. CASE LoseAck
  BY <1>7 DEF LoseAck, Lossless
<1>8. CASE ClockTick
  <2>1. \A k \in Letters : /\ job'[k].state = job[k].state
                           /\ job'[k].attempts = job[k].attempts
                           /\ job'[k].messageId = job[k].messageId
    BY <1>8, <1>t, AgedShape DEF ClockTick, TypeOK
  <2> QED BY <1>8, <2>1 DEF ClockTick, DoubtInv, HonestRows
<1>9. CASE StartDrain \/ RecordDelivery \/ EndDrain \/ Crash \/ Boot
             \/ UNCHANGED vars
  BY <1>9 DEF StartDrain, RecordDelivery, EndDrain, Crash, Boot, vars, DoubtInv,
              HonestRows
<1> QED
  BY <1>1, <1>2, <1>3, <1>4, <1>5, <1>6, <1>7, <1>8, <1>9 DEF Next, Drain, Send

LEMMA DoubtInvariance == ASSUME Lossless PROVE Spec => []DoubtInv
<1>1. IInv /\ DoubtInv /\ [Next]_vars => DoubtInv'
  BY StepDoubt
<1> QED BY <1>1, InitDoubt, Invariance, PTL DEF Spec

(* HonestRows: while no acknowledgement is lost, a row that is not SENDING  *)
(* says exactly what the mail server has seen.                              *)
THEOREM TruthfulRows == ASSUME Lossless PROVE Spec => []HonestRows
<1>1. DoubtInv => HonestRows
  BY DEF DoubtInv
<1> QED BY <1>1, DoubtInvariance, PTL

(* OneCopy: while no acknowledgement is lost, one idempotency key is at most *)
(* one email, whatever fails or restarts.                                    *)
THEOREM AtMostOneCopy == ASSUME Lossless PROVE Spec => []OneCopy
<1>1. IInv /\ DoubtInv => OneCopy
  BY DEF IInv, TypeOK, DoubtInv, HonestRows, OneCopy, Jobs, JobStates, Waiting
<1> QED BY <1>1, DoubtInvariance, Invariance, PTL
-------------------------------------------------------------------------------
(* The refinement of OneLetter: beliefs and copies move as it allows.       *)

(* A step that leaves every belief and every copy alone is a stutter.       *)
LEMMA Stutters ==
  ASSUME \A k \in Letters : Belief(k)' = Belief(k), accepted' = accepted
  PROVE UNCHANGED Promise!vars
  BY DEF Promise!vars

(* A step that changes one belief and no copy sets that belief only. *)
LEMMA OneBelief ==
  ASSUME NEW k \in Letters, NEW b, Belief(k)' = b,
         \A l \in Letters \ {k} : Belief(l)' = Belief(l)
  PROVE [l \in Letters |-> Belief(l)]'
          = [[l \in Letters |-> Belief(l)] EXCEPT ![k] = b]
  OBVIOUS

LEMMA PromiseInit == Init => Promise!Init
  BY DEF Init, Promise!Init, Belief, NoJob

LEMMA PromiseStep ==
  Lossless /\ IInv /\ DoubtInv /\ [Next]_vars => [Promise!Next]_(Promise!vars)
<1> SUFFICES ASSUME Lossless, IInv, DoubtInv, [Next]_vars
             PROVE [Promise!Next]_(Promise!vars)
  OBVIOUS
<1>t. TypeOK /\ HandInv /\ WaitInv /\ HonestRows
  BY DEF IInv, DoubtInv
<1>1. ASSUME NEW k \in Letters, Enqueue(k) PROVE [Promise!Next]_(Promise!vars)
  <2>1. /\ job[k].state = "ABSENT" /\ job'[k] = NewJob
        /\ \A l \in Letters \ {k} : job'[l] = job[l]
        /\ accepted' = accepted
    BY <1>1, <1>t DEF Enqueue, TypeOK
  <2>2. /\ Belief(k) = "unwritten" /\ Belief(k)' = "owed"
        /\ \A l \in Letters \ {k} : Belief(l)' = Belief(l)
    BY <2>1 DEF Belief, NewJob
  <2>3. Promise!Owe(k)
    BY <2>1, <2>2, OneBelief DEF Promise!Owe
  <2> QED BY <2>3 DEF Promise!Next
<1>2. ASSUME NEW k \in Letters, RecoverStalled(k)
      PROVE [Promise!Next]_(Promise!vars)
  BY <1>2 DEF RecoverStalled, Lossless
<1>3. ASSUME NEW k \in Letters, Claim(k) PROVE [Promise!Next]_(Promise!vars)
  <2>1. /\ job[k].state \in Waiting /\ job'[k].state = "SENDING"
        /\ \A l \in Letters \ {k} : job'[l] = job[l]
        /\ accepted' = accepted
    BY <1>3, <1>t DEF Claim, Due, TypeOK, BeginSend, Jobs
  <2>2. \A l \in Letters : Belief(l)' = Belief(l)
    BY <2>1 DEF Belief, Waiting
  <2> QED BY <2>1, <2>2, Stutters
<1>4. CASE Accept
  <2>1. PICK k \in Letters : k = inHand
    BY <1>4, <1>t DEF Accept, HandInv
  <2>2. /\ job[k].state = "SENDING" /\ job' = job
        /\ accepted[k] = 0 /\ accepted' = [accepted EXCEPT ![k] = accepted[k] + 1]
    BY <1>4, <1>t, <2>1 DEF Accept, HandInv, DoubtInv
  <2>3. accepted' = [accepted EXCEPT ![k] = 1]
    BY <2>2
  <2>4. /\ Belief(k) = "owed"
        /\ \A l \in Letters : Belief(l)' = Belief(l)
    BY <2>2 DEF Belief
  <2>5. Promise!HandOver(k)
    BY <2>1, <2>2, <2>3, <2>4 DEF Promise!HandOver
  <2> QED BY <2>1, <2>5 DEF Promise!Next
<1>5. CASE RecordSent
  <2>1. PICK k \in Letters : k = inHand
    BY <1>5, <1>t DEF RecordSent, HandInv
  <2>2. /\ job[k].state = "SENDING" /\ job[k] \in Jobs
        /\ accepted[k] = 1 /\ accepted' = accepted
    BY <1>5, <1>t, <2>1 DEF RecordSent, HandInv, DoubtInv, TypeOK
  <2>3. /\ job'[k].state = "SENT"
        /\ \A l \in Letters \ {k} : job'[l] = job[l]
    BY <1>5, <1>t, <2>1, <2>2 DEF RecordSent, TypeOK, MarkSent, Jobs
  <2>4. /\ Belief(k) = "owed" /\ Belief(k)' = "delivered"
        /\ \A l \in Letters \ {k} : Belief(l)' = Belief(l)
    BY <2>2, <2>3 DEF Belief
  <2>5. Promise!Settle(k)
    BY <2>1, <2>2, <2>4, OneBelief DEF Promise!Settle
  <2> QED BY <2>1, <2>5 DEF Promise!Next
<1>6. ASSUME NEW permanent, Refuse(permanent) PROVE [Promise!Next]_(Promise!vars)
  <2>1. PICK k \in Letters : k = inHand
    BY <1>6, <1>t DEF Refuse, HandInv
  <2>2. PICK f \in FailedJobs(job[k], permanent) : job' = [job EXCEPT ![k] = f]
    BY <1>6, <2>1 DEF Refuse
  <2>3. /\ job[k].state = "SENDING"
        /\ accepted[k] = 0 /\ accepted' = accepted
    BY <1>6, <1>t, <2>1 DEF Refuse, HandInv, DoubtInv
  <2>4. /\ job'[k].state \in {"DEAD", "RETRY_WAIT"}
        /\ \A l \in Letters \ {k} : job'[l] = job[l]
    BY <2>2, <2>3, FailedRow
  <2>5. /\ Belief(k) = "owed"
        /\ \A l \in Letters \ {k} : Belief(l)' = Belief(l)
    BY <2>3, <2>4 DEF Belief
  <2>6. CASE job'[k].state = "RETRY_WAIT"
    <3>1. Belief(k)' = Belief(k)
      BY <2>5, <2>6 DEF Belief
    <3> QED BY <2>3, <2>5, <3>1, Stutters
  <2>7. CASE job'[k].state = "DEAD"
    <3>1. Belief(k)' = "abandoned"
      BY <2>7 DEF Belief
    <3>2. Promise!Abandon(k)
      BY <2>3, <2>5, <3>1, OneBelief DEF Promise!Abandon
    <3> QED BY <3>2 DEF Promise!Next
  <2> QED BY <2>4, <2>6, <2>7
<1>7. CASE LoseAck
  BY <1>7 DEF LoseAck, Lossless
<1>8. CASE ClockTick
  <2>1. \A k \in Letters : job'[k].state = job[k].state
    BY <1>8, <1>t, AgedShape DEF ClockTick, TypeOK
  <2>2. \A k \in Letters : Belief(k)' = Belief(k)
    BY <2>1 DEF Belief
  <2> QED BY <1>8, <2>2, Stutters DEF ClockTick
<1>9. CASE StartDrain \/ RecordDelivery \/ EndDrain \/ Crash \/ Boot
             \/ UNCHANGED vars
  <2>1. job' = job /\ accepted' = accepted
    BY <1>9 DEF StartDrain, RecordDelivery, EndDrain, Crash, Boot, vars
  <2>2. \A k \in Letters : Belief(k)' = Belief(k)
    BY <2>1 DEF Belief
  <2> QED BY <2>1, <2>2, Stutters
<1> QED
  BY <1>1, <1>2, <1>3, <1>4, <1>5, <1>6, <1>7, <1>8, <1>9 DEF Next, Drain, Send

(* KeepsPromise: while no acknowledgement is lost the outbox implements       *)
(* OneLetter: one copy, a true answer, and no answer taken back.              *)
THEOREM Refinement == ASSUME Lossless PROVE Spec => KeepsPromise
<1>1. IInv /\ DoubtInv /\ [Next]_vars => [Promise!Next]_(Promise!vars)
  BY PromiseStep
<1> QED
  BY <1>1, PromiseInit, Invariance, DoubtInvariance, PTL
     DEF Spec, KeepsPromise, Promise!Spec
=============================================================================
