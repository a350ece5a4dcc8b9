----------------------------- MODULE ObservingProofs -----------------------------
(***************************************************************************)
(* Proofs about the reader, Observing: for any jobs, letters, claims and   *)
(* voices, any number of slots, attempts and rounds, and whatever a model  *)
(* answers, the slots taken are exactly the calls that stream, only        *)
(* grounded claims reach the graph, nothing that passed the gates is lost  *)
(* on the way, and who waits has an inference to wait for.                 *)
(***************************************************************************)
EXTENDS Observing, TLAPS, FiniteSetTheorems

(***************************************************************************)
(* The inductive invariant.                                                *)
(***************************************************************************)

\* What a model may write of k that the gates let through.
Sound(k) == Says[k] \ (Misshapen \cup Invented)

\* Whoever has a slot or waits for one.
Callers(g) == g.streaming \cup Range(g.line)

\* The slots taken are the calls that stream; nobody streams and waits, or
\* waits twice; and while somebody waits every slot is taken.
GateInv(g) ==
  /\ g \in [inflight : 0..MaxInflight, streaming : SUBSET (Letters \cup Voices),
            line : Seq(Letters \cup Voices)]
  /\ IsFiniteSet(g.streaming) /\ g.inflight = Cardinality(g.streaming)
  /\ g.line # <<>> => g.inflight = MaxInflight
  /\ \A i \in DOMAIN g.line : g.line[i] \notin g.streaming
  /\ \A i, j \in DOMAIN g.line : g.line[i] = g.line[j] => i = j

\* Every inference has the fields of Resting.
HasShape(f) ==
  f = [pc |-> f.pc, attempt |-> f.attempt, rounds |-> f.rounds, bank |-> f.bank,
       feedback |-> f.feedback, woken |-> f.woken, trace |-> f.trace, partial |-> f.partial,
       graded |-> f.graded, prompt |-> f.prompt, accepted |-> f.accepted]

\* One inference: what it banked, thought and wrote passed the gates, it
\* accepted nothing that is not banked, and its backoff has an attempt left.
InferenceInv(f, k) ==
  /\ HasShape(f)
  /\ f.pc \in {"none", "calling", "sleeping"}
  /\ f.rounds \in 0..Rounds /\ f.attempt \in 0..(Attempts + f.rounds)
  /\ f.pc = "sleeping" => f.attempt < Attempts
  /\ f.woken \in BOOLEAN /\ f.prompt \in {"base", "review", "results", "wakeup"}
  /\ f.bank \subseteq Sound(k) /\ f.trace \subseteq Sound(k) /\ f.partial \subseteq Sound(k)
  /\ f.accepted \subseteq f.bank

States == {"unasked", "waiting", "complete", "partial", "failed"}

\* Every letter has its inference.
ReadingInv ==
  /\ reading = [k \in Letters |-> reading[k]]
  /\ \A k \in Letters : InferenceInv(reading[k], k)

\* An inference calls exactly while the gate knows its call.
CallsInv ==
  \A k \in Letters : (reading[k].pc = "calling") <=> k \in Callers(gate)

\* Nobody waits for an inference that is not there, and nobody's answer lacks
\* what was accepted.
WaitersInv ==
  /\ reader \in [Readers -> [state : States, lost : {{}}]]
  /\ \A r \in Readers : reader[r].state = "waiting" => reading[Reads[r]].pc # "none"

\* Seeds come from an answer.
SeedsInv ==
  /\ seeds = [r \in Readers |-> seeds[r]]
  /\ \A r \in Readers : seeds[r] \subseteq Sound(Reads[r])

GraphInv ==
  /\ graph \in [Letters -> SUBSET Claims]
  /\ GraphIsGrounded

BoundsInv ==
  asks \in 0..MaxAsks /\ calls \in [Voices -> 0..MaxCalls] /\ stopping \in BOOLEAN

IInv ==
  /\ GateInv(gate) /\ ReadingInv /\ CallsInv /\ WaitersInv /\ SeedsInv /\ GraphInv
  /\ BoundsInv
-------------------------------------------------------------------------------
(***************************************************************************)
(* The gate of the client.                                                 *)
(***************************************************************************)

\* A gate is its three fields.
LEMMA GateFields ==
  ASSUME NEW g \in [inflight : 0..MaxInflight, streaming : SUBSET (Letters \cup Voices),
                    line : Seq(Letters \cup Voices)],
         NEW n \in 0..MaxInflight, NEW S \in SUBSET (Letters \cup Voices),
         NEW l \in Seq(Letters \cup Voices),
         NEW h, h = [g EXCEPT !.inflight = n, !.streaming = S, !.line = l]
  PROVE  /\ h \in [inflight : 0..MaxInflight, streaming : SUBSET (Letters \cup Voices),
                   line : Seq(Letters \cup Voices)]
         /\ h.inflight = n /\ h.streaming = S /\ h.line = l
<1>1. h = [inflight |-> n, streaming |-> S, line |-> l]
  OBVIOUS
<1>. QED BY <1>1

\* A caller the gate does not know gets a slot or a place in line, and
\* nobody else is moved.
LEMMA AcquireAdmits ==
  ASSUME NEW g, GateInv(g), NEW x \in Letters \cup Voices, x \notin Callers(g)
  PROVE  /\ GateInv(Acquire(g, x))
         /\ Callers(Acquire(g, x)) = Callers(g) \cup {x}
<1> DEFINE h == Acquire(g, x)
<1>0. MaxInflight \in Nat \ {0}
  BY ObservingAssumption DEF ObservingAssumption
<1>1. /\ g \in [inflight : 0..MaxInflight, streaming : SUBSET (Letters \cup Voices),
                line : Seq(Letters \cup Voices)]
      /\ IsFiniteSet(g.streaming) /\ g.inflight = Cardinality(g.streaming)
      /\ g.line # <<>> => g.inflight = MaxInflight
      /\ \A i \in DOMAIN g.line : g.line[i] \notin g.streaming
      /\ \A i, j \in DOMAIN g.line : g.line[i] = g.line[j] => i = j
  BY DEF GateInv
<1>2. x \notin g.streaming /\ \A i \in DOMAIN g.line : g.line[i] # x
  BY DEF Callers, Range
<1>3. CASE g.inflight < MaxInflight
  <2>1. h = [g EXCEPT !.inflight = @ + 1, !.streaming = @ \cup {x}]
    BY <1>3 DEF Acquire
  <2>2. /\ h.inflight = g.inflight + 1 /\ h.streaming = g.streaming \cup {x} /\ h.line = g.line
        /\ h \in [inflight : 0..MaxInflight, streaming : SUBSET (Letters \cup Voices),
               line : Seq(Letters \cup Voices)]
    <3>1. /\ g.inflight + 1 \in 0..MaxInflight /\ g.line \in Seq(Letters \cup Voices)
          /\ g.streaming \cup {x} \in SUBSET (Letters \cup Voices)
      BY <1>0, <1>1, <1>3
    <3>2. h = [g EXCEPT !.inflight = g.inflight + 1, !.streaming = g.streaming \cup {x},
                        !.line = g.line]
      BY <1>1, <2>1
    <3>. QED BY <1>1, <3>1, <3>2, GateFields
  <2>3. g.line = <<>> /\ DOMAIN g.line = {}
    BY <1>0, <1>1, <1>3
  <2>4. IsFiniteSet(h.streaming) /\ Cardinality(h.streaming) = h.inflight
    BY <1>1, <1>2, <2>2, FS_AddElement
  <2>6. GateInv(h)
    BY <2>2, <2>3, <2>4 DEF GateInv
  <2>7. Callers(h) = Callers(g) \cup {x}
    BY <2>2 DEF Callers
  <2>. QED BY <2>6, <2>7
<1>4. CASE ~(g.inflight < MaxInflight)
  <2>1. h = [g EXCEPT !.line = Append(@, x)]
    BY <1>4 DEF Acquire
  <2>2. /\ h.inflight = g.inflight /\ h.streaming = g.streaming /\ h.line = Append(g.line, x)
        /\ h \in [inflight : 0..MaxInflight, streaming : SUBSET (Letters \cup Voices),
               line : Seq(Letters \cup Voices)]
    <3>1. /\ g.inflight \in 0..MaxInflight /\ g.streaming \in SUBSET (Letters \cup Voices)
          /\ g.line \in Seq(Letters \cup Voices)
      BY <1>1
    <3>2. Append(g.line, x) \in Seq(Letters \cup Voices)
      BY <3>1
    <3>3. h = [g EXCEPT !.inflight = g.inflight, !.streaming = g.streaming,
                        !.line = Append(g.line, x)]
      BY <1>1, <2>1
    <3>. QED BY <1>1, <3>1, <3>2, <3>3, GateFields
  <2>3. h.inflight = MaxInflight
    BY <1>0, <1>1, <1>4, <2>2
  <2>5. /\ DOMAIN h.line = 1..(Len(g.line) + 1) /\ DOMAIN g.line = 1..Len(g.line)
        /\ Len(g.line) \in Nat
        /\ \A i \in 1..Len(g.line) : h.line[i] = g.line[i]
        /\ h.line[Len(g.line) + 1] = x
    BY <1>1, <2>2
  <2>6. \A i \in DOMAIN h.line : h.line[i] \notin h.streaming
    BY <1>1, <1>2, <2>2, <2>5
  <2>7. \A i, j \in DOMAIN h.line : h.line[i] = h.line[j] => i = j
    BY <1>1, <1>2, <2>5
  <2>8. GateInv(h)
    BY <1>1, <2>2, <2>3, <2>6, <2>7 DEF GateInv
  <2>9. Range(h.line) = Range(g.line) \cup {x}
    BY <2>5 DEF Range
  <2>. QED BY <2>2, <2>8, <2>9 DEF Callers
<1>. QED BY <1>3, <1>4

\* A stream that ends frees its slot or hands it to the next in line, and
\* nobody is forgotten.
LEMMA ReleaseHandsOn ==
  ASSUME NEW g, GateInv(g), NEW x \in g.streaming
  PROVE  /\ GateInv(Release(g, x))
         /\ Callers(Release(g, x)) = Callers(g) \ {x}
<1> DEFINE h == Release(g, x)
<1>0. MaxInflight \in Nat \ {0}
  BY ObservingAssumption DEF ObservingAssumption
<1>1. /\ g \in [inflight : 0..MaxInflight, streaming : SUBSET (Letters \cup Voices),
                line : Seq(Letters \cup Voices)]
      /\ IsFiniteSet(g.streaming) /\ g.inflight = Cardinality(g.streaming)
      /\ g.line # <<>> => g.inflight = MaxInflight
      /\ \A i \in DOMAIN g.line : g.line[i] \notin g.streaming
      /\ \A i, j \in DOMAIN g.line : g.line[i] = g.line[j] => i = j
  BY DEF GateInv
<1>2. IsFiniteSet(g.streaming \ {x}) /\ Cardinality(g.streaming \ {x}) = g.inflight - 1
  BY <1>1, FS_RemoveElement
<1>3. CASE g.line = <<>>
  <2>1. h = [g EXCEPT !.inflight = @ - 1, !.streaming = @ \ {x}]
    BY <1>3 DEF Release
  <2>2. g.inflight # 0
    BY <1>1, FS_EmptySet
  <2>3. /\ h.inflight = g.inflight - 1 /\ h.streaming = g.streaming \ {x} /\ h.line = <<>>
        /\ h \in [inflight : 0..MaxInflight, streaming : SUBSET (Letters \cup Voices),
               line : Seq(Letters \cup Voices)]
    <3>1. /\ g.inflight - 1 \in 0..MaxInflight /\ g.line \in Seq(Letters \cup Voices)
          /\ g.streaming \ {x} \in SUBSET (Letters \cup Voices)
      BY <1>0, <1>1, <2>2
    <3>2. h = [g EXCEPT !.inflight = g.inflight - 1, !.streaming = g.streaming \ {x},
                        !.line = g.line]
      BY <1>1, <2>1
    <3>. QED BY <1>1, <1>3, <3>1, <3>2, GateFields
  <2>5. GateInv(h)
    BY <1>2, <2>3 DEF GateInv
  <2>6. Range(g.line) = {} /\ Range(h.line) = {}
    BY <1>3, <2>3 DEF Range
  <2>. QED BY <2>3, <2>5, <2>6 DEF Callers
<1>4. CASE g.line # <<>>
  <2> DEFINE first == Head(g.line)
  <2>1. h = [g EXCEPT !.streaming = (@ \ {x}) \cup {first}, !.line = Tail(@)]
    BY <1>4 DEF Release
  <2>2. /\ h.inflight = g.inflight /\ h.line = Tail(g.line)
        /\ h.streaming = (g.streaming \ {x}) \cup {first}
        /\ h \in [inflight : 0..MaxInflight, streaming : SUBSET (Letters \cup Voices),
               line : Seq(Letters \cup Voices)]
    <3>1. /\ g.inflight \in 0..MaxInflight /\ Tail(g.line) \in Seq(Letters \cup Voices)
          /\ first \in Letters \cup Voices
      BY <1>1, <1>4
    <3>2. (g.streaming \ {x}) \cup {first} \in SUBSET (Letters \cup Voices)
      BY <1>1, <3>1
    <3>3. h = [g EXCEPT !.inflight = g.inflight, !.streaming = (g.streaming \ {x}) \cup {first},
                        !.line = Tail(g.line)]
      BY <1>1, <2>1
    <3>. QED BY <1>1, <3>1, <3>2, <3>3, GateFields
  <2>3. /\ Len(g.line) \in Nat /\ Len(g.line) >= 1 /\ DOMAIN g.line = 1..Len(g.line)
        /\ first = g.line[1] /\ DOMAIN h.line = 1..(Len(g.line) - 1)
        /\ \A i \in 1..(Len(g.line) - 1) : h.line[i] = g.line[i + 1]
    BY <1>1, <1>4, <2>2
  <2>4. first \notin g.streaming /\ first \in Letters \cup Voices
    BY <1>1, <2>3
  <2>5. IsFiniteSet(h.streaming) /\ Cardinality(h.streaming) = h.inflight
    <3>1. first \notin g.streaming \ {x}
      BY <2>4
    <3>2. /\ IsFiniteSet((g.streaming \ {x}) \cup {first})
          /\ Cardinality((g.streaming \ {x}) \cup {first}) = Cardinality(g.streaming \ {x}) + 1
      BY <1>2, <3>1, FS_AddElement
    <3>. QED BY <1>1, <1>2, <2>2, <3>2
  <2>7. \A i \in DOMAIN h.line : h.line[i] \notin h.streaming
    <3> TAKE i \in DOMAIN h.line
    <3>1. h.line[i] = g.line[i + 1] /\ i + 1 \in DOMAIN g.line /\ i + 1 # 1
      BY <2>3
    <3>2. h.line[i] \notin g.streaming
      BY <1>1, <3>1
    <3>3. h.line[i] # first
      BY <1>1, <2>3, <3>1
    <3>. QED BY <2>2, <3>2, <3>3
  <2>8. \A i, j \in DOMAIN h.line : h.line[i] = h.line[j] => i = j
    <3> SUFFICES ASSUME NEW i \in DOMAIN h.line, NEW j \in DOMAIN h.line, h.line[i] = h.line[j]
                 PROVE  i = j
      OBVIOUS
    <3>1. g.line[i + 1] = g.line[j + 1] /\ i + 1 \in DOMAIN g.line /\ j + 1 \in DOMAIN g.line
      BY <2>3
    <3>2. i + 1 = j + 1
      BY <1>1, <3>1
    <3>. QED BY <2>3, <3>2
  <2>9. GateInv(h)
    BY <1>1, <1>4, <2>2, <2>5, <2>7, <2>8 DEF GateInv
  <2>10. Range(g.line) = Range(h.line) \cup {first}
    <3>1. \A i \in DOMAIN g.line : i = 1 \/ (i - 1 \in DOMAIN h.line /\ h.line[i - 1] = g.line[i])
      BY <2>3
    <3>2. \A i \in DOMAIN h.line : i + 1 \in DOMAIN g.line /\ h.line[i] = g.line[i + 1]
      BY <2>3
    <3>3. 1 \in DOMAIN g.line
      BY <2>3
    <3>4. Range(g.line) \subseteq Range(h.line) \cup {first}
      BY <2>3, <3>1 DEF Range
    <3>5. Range(h.line) \subseteq Range(g.line)
      BY <3>2 DEF Range
    <3>6. first \in Range(g.line)
      BY <2>3, <3>3 DEF Range
    <3>. QED BY <3>4, <3>5, <3>6
  <2>11. x \notin Range(g.line)
    BY <1>1 DEF Range
  <2>12. h.streaming \cup Range(h.line) = (g.streaming \cup Range(g.line)) \ {x}
    BY <2>2, <2>10, <2>11
  <2>. QED BY <2>9, <2>12 DEF Callers
<1>. QED BY <1>3, <1>4

\* A call that ends and is made again keeps the books, wherever it ends up.
LEMMA ReleaseAndAskAgain ==
  ASSUME NEW g, GateInv(g), NEW x \in g.streaming
  PROVE  /\ GateInv(Acquire(Release(g, x), x))
         /\ Callers(Acquire(Release(g, x), x)) = Callers(g)
<1>1. GateInv(Release(g, x)) /\ Callers(Release(g, x)) = Callers(g) \ {x}
  BY ReleaseHandsOn
<1>2. x \in Letters \cup Voices /\ x \in Callers(g)
  BY DEF GateInv, Callers
<1>3. x \notin Callers(Release(g, x))
  BY <1>1
<1>4. /\ GateInv(Acquire(Release(g, x), x))
      /\ Callers(Acquire(Release(g, x), x)) = Callers(Release(g, x)) \cup {x}
  BY <1>1, <1>2, <1>3, AcquireAdmits
<1>. QED BY <1>1, <1>2, <1>4
-------------------------------------------------------------------------------
(***************************************************************************)
(* The gates, and one inference.                                           *)
(***************************************************************************)

\* What the constants promise, for the proofs of arithmetic.
LEMMA Bounds ==
  /\ Attempts \in Nat \ {0} /\ Rounds \in Nat /\ MaxInflight \in Nat \ {0} /\ MaxAsks \in Nat
  /\ \A k \in Letters : Sound(k) \subseteq Says[k] /\ Says[k] \subseteq Claims
  /\ \A r \in Readers : Reads[r] \in Letters
BY ObservingAssumption DEF ObservingAssumption, Sound

\* What passes the gates is sound, whichever refs the caller vouches for.
LEMMA VerifiedIsSound ==
  ASSUME NEW k \in Letters, NEW A \in SUBSET Says[k], NEW refs
  PROVE  Verified(A, refs) \subseteq Sound(k)
BY DEF Verified, Shaped, Sound

\* So is the text of an error, or the one remembered when it carries none.
LEMMA TextsAreSound ==
  ASSUME NEW k \in Letters, NEW t \in Texts(k), NEW old \in SUBSET Sound(k)
  PROVE  Latest(t, old) \subseteq Sound(k)
<1>1. CASE t = Nothing
  BY <1>1 DEF Latest
<1>2. CASE t # Nothing
  <2>1. PICK A \in SUBSET Says[k] : t = Verified(A, {})
    BY <1>2 DEF Texts, Harvests
  <2>2. Latest(t, old) = t
    BY <1>2 DEF Latest
  <2>. QED BY <2>1, <2>2, VerifiedIsSound
<1>. QED BY <1>1, <1>2

\* A claim attaches with the entity it is about.
LEMMA AttachedIsGrounded ==
  ASSUME NEW S \in SUBSET Claims, NEW c \in Attached(S), About[c] # Nothing
  PROVE  About[c] \in Attached(S)
<1>1. c \in Claims /\ About[c] \in S
  BY DEF Attached
<1>2. About[About[c]] = Nothing
  BY <1>1, ObservingAssumption DEF ObservingAssumption
<1>. QED BY <1>1, <1>2 DEF Attached

\* With an attempt left, the loop calls again: the call is counted and told
\* what to work on, and the rest stays.
LEMMA NextAttemptCalls ==
  ASSUME NEW k \in Letters, NEW f, HasShape(f),
         f.rounds \in 0..Rounds, f.attempt \in Nat, f.attempt < Attempts + f.rounds,
         f.woken \in BOOLEAN,
         f.bank \subseteq Sound(k), f.trace \subseteq Sound(k), f.partial \subseteq Sound(k),
         f.accepted \subseteq f.bank
  PROVE  InferenceInv(NextAttempt(f), k) /\ NextAttempt(f).pc = "calling"
<1> DEFINE p == PromptFor(f)
           h == NextAttempt(f)
<1>1. p \in {"base", "review", "results", "wakeup"}
  BY DEF PromptFor
<1>2. h = [f EXCEPT !.pc = "calling", !.attempt = f.attempt + 1, !.prompt = p]
  BY DEF NextAttempt
<1> HIDE DEF p, h
<1>3. h = [pc |-> "calling", attempt |-> f.attempt + 1, rounds |-> f.rounds, bank |-> f.bank,
           feedback |-> f.feedback, woken |-> f.woken, trace |-> f.trace,
           partial |-> f.partial, graded |-> f.graded, prompt |-> p, accepted |-> f.accepted]
  BY <1>2 DEF HasShape
<1>4. HasShape(h)
  BY <1>3 DEF HasShape
<1>5. /\ h.pc = "calling" /\ h.attempt = f.attempt + 1 /\ h.rounds = f.rounds
      /\ h.bank = f.bank /\ h.woken = f.woken /\ h.trace = f.trace /\ h.partial = f.partial
      /\ h.prompt = p /\ h.accepted = f.accepted
  BY <1>3
<1>6. h.attempt \in 0..(Attempts + h.rounds)
  BY <1>5, Bounds
<1>7. InferenceInv(h, k)
  BY <1>1, <1>4, <1>5, <1>6 DEF InferenceInv
<1>. QED BY <1>5, <1>7 DEF h

\* Nobody reads: nothing is banked, and nothing accepted.
LEMMA RestingIsFine ==
  ASSUME NEW k \in Letters
  PROVE  InferenceInv(Resting, k) /\ Resting.pc = "none"
<1>1. HasShape(Resting)
  BY DEF HasShape, Resting
<1>. QED BY <1>1, Bounds DEF InferenceInv, Resting

\* A job's seeds start an inference: they are its bank.
LEMMA FreshInferenceCalls ==
  ASSUME NEW k \in Letters, NEW S \in SUBSET Sound(k)
  PROVE  /\ InferenceInv(NextAttempt([Resting EXCEPT !.bank = S, !.accepted = S]), k)
         /\ NextAttempt([Resting EXCEPT !.bank = S, !.accepted = S]).pc = "calling"
<1> DEFINE g == Resting
           f == [g EXCEPT !.bank = S, !.accepted = S]
<1>1. /\ g.pc = "none" /\ g.attempt = 0 /\ g.rounds = 0 /\ g.woken = FALSE
      /\ g.trace = {} /\ g.partial = {} /\ HasShape(g)
  BY DEF Resting, HasShape
<1>6. f = [g EXCEPT !.bank = S, !.accepted = S]
  OBVIOUS
<1> HIDE DEF g, f
<1>2. f = [pc |-> g.pc, attempt |-> g.attempt, rounds |-> g.rounds, bank |-> S,
           feedback |-> g.feedback, woken |-> g.woken, trace |-> g.trace,
           partial |-> g.partial, graded |-> g.graded, prompt |-> g.prompt, accepted |-> S]
  BY <1>1, <1>6 DEF HasShape
<1>5. HasShape(f)
  BY <1>2 DEF HasShape
<1>3. /\ f.rounds \in 0..Rounds /\ f.attempt \in Nat /\ f.attempt < Attempts + f.rounds
      /\ f.woken \in BOOLEAN
      /\ f.bank \subseteq Sound(k) /\ f.trace \subseteq Sound(k) /\ f.partial \subseteq Sound(k)
      /\ f.accepted \subseteq f.bank
  <2>1. /\ f.rounds = 0 /\ f.attempt = 0 /\ f.woken = FALSE /\ f.bank = S /\ f.trace = {}
        /\ f.partial = {} /\ f.accepted = S
    BY <1>1, <1>2
  <2>2. f.rounds \in 0..Rounds /\ f.attempt \in Nat /\ f.attempt < Attempts + f.rounds
    BY <2>1, Bounds
  <2>3. f.woken \in BOOLEAN
    BY <2>1
  <2>. QED BY <2>1, <2>2, <2>3
<1>4. InferenceInv(NextAttempt(f), k) /\ NextAttempt(f).pc = "calling"
  BY <1>5, <1>3, NextAttemptCalls
<1>. QED BY <1>4 DEF f, g

\* A backoff ends in a call.
LEMMA SleeperCalls ==
  ASSUME NEW k \in Letters, NEW f, InferenceInv(f, k), f.pc = "sleeping"
  PROVE  InferenceInv(NextAttempt(f), k) /\ NextAttempt(f).pc = "calling"
<1>1. f.attempt \in Nat /\ f.attempt < Attempts + f.rounds
  BY Bounds DEF InferenceInv
<1>. QED BY <1>1, NextAttemptCalls DEF InferenceInv

\* A graded round: what held is banked, what was struck is let go, and the
\* next call is made.
LEMMA GradedRoundCalls ==
  ASSUME NEW k \in Letters, NEW g, HasShape(g),
         g.rounds \in Nat, g.rounds < Rounds,
         g.attempt \in Nat, g.attempt <= Attempts + g.rounds, g.woken \in BOOLEAN,
         g.trace \subseteq Sound(k), g.partial \subseteq Sound(k),
         NEW kept \in SUBSET Sound(k), g.accepted \subseteq kept, NEW grades
  PROVE  /\ InferenceInv(NextAttempt(Grade(g, kept, grades)), k)
         /\ NextAttempt(Grade(g, kept, grades)).pc = "calling"
<1> DEFINE h == Grade(g, kept, grades)
           all == g.graded \cup grades
<1>1. h = [g EXCEPT !.bank = kept, !.feedback = grades, !.graded = all,
                    !.rounds = g.rounds + 1]
  BY DEF Grade
<1> HIDE DEF h, all
<1>2. h = [pc |-> g.pc, attempt |-> g.attempt, rounds |-> g.rounds + 1, bank |-> kept,
           feedback |-> grades, woken |-> g.woken, trace |-> g.trace, partial |-> g.partial,
           graded |-> all, prompt |-> g.prompt, accepted |-> g.accepted]
  BY <1>1 DEF HasShape
<1>3. HasShape(h)
  BY <1>2 DEF HasShape
<1>4. /\ h.attempt = g.attempt /\ h.rounds = g.rounds + 1 /\ h.bank = kept
      /\ h.woken = g.woken /\ h.trace = g.trace /\ h.partial = g.partial
      /\ h.accepted = g.accepted
  BY <1>2
<1>5. h.rounds \in 0..Rounds /\ h.attempt \in Nat /\ h.attempt < Attempts + h.rounds
  BY <1>4, Bounds
<1>6. InferenceInv(NextAttempt(h), k) /\ NextAttempt(h).pc = "calling"
  BY <1>3, <1>4, <1>5, NextAttemptCalls
<1>. QED BY <1>6 DEF h

\* A failed attempt: what it delivered is banked and so is all it accepted,
\* and with an attempt left it may sleep on it.
LEMMA FailureBanks ==
  ASSUME NEW k \in Letters, NEW f, InferenceInv(f, k),
         NEW looped, looped \in BOOLEAN,
         NEW thought \in Texts(k), NEW wrote \in Texts(k)
  PROVE  LET g == [Bank(f, thought, wrote) EXCEPT !.woken = looped,
                     !.accepted = @ \cup Latest(thought, {}) \cup Latest(wrote, {})]
         IN /\ Salvage(g) \subseteq Sound(k) /\ g.accepted \subseteq Salvage(g)
            /\ f.attempt < Attempts => InferenceInv([g EXCEPT !.pc = "sleeping"], k)
<1> DEFINE t == Latest(thought, f.trace)
           w == Latest(wrote, f.partial)
           t0 == Latest(thought, {})
           w0 == Latest(wrote, {})
           bank == (f.bank \cup t) \cup w0
           acc == (f.accepted \cup t0) \cup w0
           b == Bank(f, thought, wrote)
           g == [b EXCEPT !.woken = looped, !.accepted = @ \cup t0 \cup w0]
           s == [g EXCEPT !.pc = "sleeping"]
<1>1. /\ HasShape(f) /\ f.rounds \in 0..Rounds /\ f.attempt \in 0..(Attempts + f.rounds)
      /\ f.prompt \in {"base", "review", "results", "wakeup"}
      /\ f.bank \subseteq Sound(k) /\ f.trace \subseteq Sound(k) /\ f.partial \subseteq Sound(k)
      /\ f.accepted \subseteq f.bank
  BY DEF InferenceInv
<1>2. /\ t \subseteq Sound(k) /\ w \subseteq Sound(k)
      /\ t0 \subseteq Sound(k) /\ w0 \subseteq Sound(k)
  BY <1>1, TextsAreSound
<1>3. t0 \subseteq t
  BY DEF Latest
<1>4. b = [f EXCEPT !.trace = t, !.partial = w, !.bank = bank]
  BY DEF Bank
<1>5. g = [b EXCEPT !.woken = looped, !.accepted = acc]
  <2>1. b.accepted = f.accepted
    BY <1>1, <1>4 DEF HasShape
  <2>. QED BY <2>1
<1>6. s = [g EXCEPT !.pc = "sleeping"]
  OBVIOUS
<1> HIDE DEF t, w, t0, w0, bank, acc, b, g, s
<1>7. b = [pc |-> f.pc, attempt |-> f.attempt, rounds |-> f.rounds,
           bank |-> bank,
           feedback |-> f.feedback, woken |-> f.woken, trace |-> t, partial |-> w,
           graded |-> f.graded, prompt |-> f.prompt, accepted |-> f.accepted]
  BY <1>1, <1>4 DEF HasShape
<1>8. g = [pc |-> f.pc, attempt |-> f.attempt, rounds |-> f.rounds,
           bank |-> bank,
           feedback |-> f.feedback, woken |-> looped, trace |-> t, partial |-> w,
           graded |-> f.graded, prompt |-> f.prompt,
           accepted |-> acc]
  BY <1>5, <1>7
<1>9. s = [pc |-> "sleeping", attempt |-> f.attempt, rounds |-> f.rounds, bank |-> bank,
           feedback |-> f.feedback, woken |-> looped, trace |-> t, partial |-> w,
           graded |-> f.graded, prompt |-> f.prompt, accepted |-> acc]
  BY <1>6, <1>8
<1>10. g.bank = bank /\ g.partial = w /\ g.accepted = acc
  BY <1>8
<1>11. Salvage(g) \subseteq Sound(k) /\ g.accepted \subseteq Salvage(g)
  BY <1>1, <1>2, <1>3, <1>10 DEF Salvage, bank, acc
<1>12. ASSUME f.attempt < Attempts
       PROVE  InferenceInv(s, k)
  <2>1. HasShape(s)
    BY <1>9 DEF HasShape
  <2>2. /\ s.pc = "sleeping" /\ s.attempt = f.attempt /\ s.rounds = f.rounds
        /\ s.bank = bank /\ s.trace = t /\ s.partial = w
        /\ s.prompt = f.prompt /\ s.accepted = acc
    BY <1>9
  <2>3. s.woken \in BOOLEAN
    BY <1>9
  <2>4. s.bank \subseteq Sound(k) /\ s.accepted \subseteq s.bank
    BY <1>1, <1>2, <1>3, <2>2 DEF bank, acc
  <2>5. s.trace \subseteq Sound(k) /\ s.partial \subseteq Sound(k)
    BY <1>2, <2>2
  <2>6. s.rounds \in 0..Rounds /\ s.attempt \in 0..(Attempts + s.rounds)
    BY <1>1, <2>2
  <2>. QED BY <1>1, <1>12, <2>1, <2>2, <2>3, <2>4, <2>5, <2>6 DEF InferenceInv
<1>. QED BY <1>11, <1>12 DEF s, g, b, t0, w0
-------------------------------------------------------------------------------
(***************************************************************************)
(* An answer, for all who wait.                                            *)
(***************************************************************************)

\* Everybody who waits is answered and nobody else; what was claimed goes on
\* the graph with what it is about; and the inference rests.
LEMMA SettleAnswers ==
  ASSUME IInv, NEW k \in Letters, NEW how \in {"complete", "partial", "failed"},
         NEW claims \in SUBSET Sound(k), NEW accepted \in SUBSET claims,
         Settle(k, how, claims, accepted)
  PROVE  /\ ReadingInv' /\ WaitersInv' /\ SeedsInv' /\ GraphInv'
         /\ reading'[k].pc = "none"
         /\ \A l \in Letters : l # k => reading'[l] = reading[l]
<1>1. /\ reading' = [reading EXCEPT ![k] = Resting]
      /\ reader' = [r \in Readers |->
           IF r \in Waiting(k)
           THEN [reader[r] EXCEPT !.state = how, !.lost = accepted \ claims]
           ELSE reader[r]]
      /\ graph' = [graph EXCEPT ![k] = @ \cup Attached(claims)]
      /\ seeds' = [r \in Readers |->
           CASE r \in Waiting(k) /\ how = "partial"  -> claims
             [] r \in Waiting(k) /\ how = "complete" -> {}
             [] OTHER                                -> seeds[r]]
  BY DEF Settle
<1>2. claims \subseteq Claims
  BY Bounds
<1>3. /\ reading' = [l \in Letters |-> reading'[l]]
      /\ reading'[k] = Resting
      /\ \A l \in Letters : l # k => reading'[l] = reading[l]
  BY <1>1 DEF IInv, ReadingInv
<1>4. ReadingInv'
  <2>1. \A l \in Letters : InferenceInv(reading'[l], l)
    BY <1>3, RestingIsFine DEF IInv, ReadingInv
  <2>. QED BY <1>3, <2>1 DEF ReadingInv
<1>5. WaitersInv'
  <2>1. \A r \in Readers : r \in Waiting(k) =>
          reader'[r] \in [state : States, lost : {{}}] /\ reader'[r].state = how
    <3>1. accepted \ claims = {}
      OBVIOUS
    <3>2. reader \in [Readers -> [state : States, lost : {{}}]]
      BY DEF IInv, WaitersInv
    <3>. QED BY <1>1, <3>1, <3>2 DEF States
  <2>2. \A r \in Readers : r \notin Waiting(k) => reader'[r] = reader[r]
    BY <1>1
  <2>3. reader' \in [Readers -> [state : States, lost : {{}}]]
    <3>1. \A r \in Readers : reader'[r] \in [state : States, lost : {{}}]
      BY <2>1, <2>2 DEF IInv, WaitersInv
    <3>. QED BY <1>1, <3>1
  <2>4. ASSUME NEW r \in Readers, reader'[r].state = "waiting"
        PROVE  reading'[Reads[r]].pc # "none"
    <3>1. r \notin Waiting(k)
      BY <2>1, <2>4
    <3>2. reader[r].state = "waiting" /\ Reads[r] # k
      BY <2>2, <2>4, <3>1 DEF Waiting
    <3>3. Reads[r] \in Letters
      BY Bounds
    <3>. QED BY <1>3, <3>2, <3>3 DEF IInv, WaitersInv
  <2>. QED BY <2>3, <2>4 DEF WaitersInv
<1>6. SeedsInv'
  <2>1. ASSUME NEW r \in Readers
        PROVE  seeds'[r] \subseteq Sound(Reads[r])
    <3>1. CASE r \in Waiting(k)
      <4>1. Reads[r] = k
        BY <3>1 DEF Waiting
      <4>2. seeds'[r] = claims \/ seeds'[r] = {} \/ seeds'[r] = seeds[r]
        BY <1>1, <3>1
      <4>. QED BY <4>1, <4>2 DEF IInv, SeedsInv
    <3>2. CASE r \notin Waiting(k)
      <4>1. seeds'[r] = seeds[r]
        BY <1>1, <3>2
      <4>. QED BY <4>1 DEF IInv, SeedsInv
    <3>. QED BY <3>1, <3>2
  <2>2. seeds' = [r \in Readers |-> seeds'[r]]
    BY <1>1
  <2>. QED BY <2>1, <2>2 DEF SeedsInv
<1>7. GraphInv'
  <2>1. /\ graph' \in [Letters -> SUBSET Claims]
        /\ graph'[k] = graph[k] \cup Attached(claims)
        /\ \A l \in Letters : l # k => graph'[l] = graph[l]
    BY <1>1, <1>2 DEF IInv, GraphInv, Attached
  <2>2. ASSUME NEW c \in Attached(claims)
        PROVE  c \notin Misshapen \cup Invented /\ (About[c] # Nothing => About[c] \in Attached(claims))
    <3>1. c \in claims
      BY <2>2 DEF Attached
    <3>. QED BY <1>2, <2>2, <3>1, AttachedIsGrounded DEF Sound
  <2>3. \A c \in graph'[k] :
          /\ c \notin Misshapen \cup Invented
          /\ About[c] # Nothing => About[c] \in graph'[k]
    BY <2>1, <2>2 DEF IInv, GraphInv, GraphIsGrounded
  <2>4. \A l \in Letters : \A c \in graph'[l] :
          /\ c \notin Misshapen \cup Invented
          /\ About[c] # Nothing => About[c] \in graph'[l]
    BY <2>1, <2>3 DEF IInv, GraphInv, GraphIsGrounded
  <2>. QED BY <2>1, <2>4 DEF GraphInv, GraphIsGrounded
<1>. QED BY <1>3, <1>4, <1>5, <1>6, <1>7 DEF Resting
-------------------------------------------------------------------------------
(***************************************************************************)
(* The steps.                                                              *)
(***************************************************************************)

\* A call is made, or made again, for k: the books agree.
LEMMA CallIsBooked ==
  ASSUME IInv, NEW k \in Letters, NEW h, InferenceInv(h, k), h.pc = "calling",
         reading' = [reading EXCEPT ![k] = h],
         Callers(gate') = Callers(gate) \cup {k}
  PROVE  /\ ReadingInv' /\ CallsInv'
         /\ \A l \in Letters : reading[l].pc # "none" => reading'[l].pc # "none"
         /\ reading'[k].pc # "none"
<1>1. /\ reading' = [l \in Letters |-> reading'[l]] /\ reading'[k] = h
      /\ \A l \in Letters : l # k => reading'[l] = reading[l]
  BY DEF IInv, ReadingInv
<1>2. ReadingInv'
  <2>1. \A l \in Letters : InferenceInv(reading'[l], l)
    BY <1>1 DEF IInv, ReadingInv
  <2>. QED BY <1>1, <2>1 DEF ReadingInv
<1>3. \A l \in Letters : (reading'[l].pc = "calling") <=> l \in Callers(gate')
  BY <1>1 DEF IInv, CallsInv
<1>4. CallsInv'
  BY <1>3 DEF CallsInv, Callers
<1>. QED BY <1>1, <1>2, <1>4

\* A call for k ends, and its inference no longer calls: the books agree.
LEMMA EndIsBooked ==
  ASSUME IInv, NEW k \in Letters, reading'[k].pc # "calling",
         \A l \in Letters : l # k => reading'[l] = reading[l],
         Callers(gate') = Callers(gate) \ {k}
  PROVE  CallsInv'
<1>1. \A l \in Letters : (reading'[l].pc = "calling") <=> l \in Callers(gate')
  BY DEF IInv, CallsInv
<1>. QED BY <1>1 DEF CallsInv, Callers

\* Nobody new waits, and whatever was read is: nobody waits for nothing.
LEMMA WaitersStay ==
  ASSUME IInv, reader' = reader,
         \A l \in Letters : reading[l].pc # "none" => reading'[l].pc # "none"
  PROVE  WaitersInv'
BY Bounds DEF IInv, WaitersInv

\* The seeds, the graph and the counters stay.
LEMMA RestStays ==
  ASSUME IInv
  PROVE  /\ UNCHANGED seeds => SeedsInv'
         /\ UNCHANGED graph => GraphInv'
         /\ UNCHANGED <<asks, calls, stopping>> => BoundsInv'
BY DEF IInv, SeedsInv, GraphInv, GraphIsGrounded, BoundsInv

LEMMA AskKeeps ==
  ASSUME IInv, NEW r \in Readers, Ask(r)
  PROVE  IInv'
<1> DEFINE k == Reads[r]
           h == NextAttempt([Resting EXCEPT !.bank = seeds[r], !.accepted = seeds[r]])
<1>1. k \in Letters
  BY Bounds
<1>2. /\ reader' = [reader EXCEPT ![r].state = "waiting"]
      /\ asks < MaxAsks /\ asks' = asks + 1
      /\ UNCHANGED <<seeds, graph, calls, stopping>>
      /\ \/ reading[k].pc # "none" /\ UNCHANGED <<reading, gate>>
         \/ /\ reading[k].pc = "none"
            /\ reading' = [reading EXCEPT ![k] = h]
            /\ gate' = Acquire(gate, k)
  BY DEF Ask
<1>3. SeedsInv' /\ GraphInv'
  BY <1>2, RestStays
<1>4. BoundsInv'
  BY <1>2, Bounds DEF IInv, BoundsInv
<1>5. /\ GateInv(gate') /\ ReadingInv' /\ CallsInv'
      /\ \A l \in Letters : reading[l].pc # "none" => reading'[l].pc # "none"
      /\ reading'[k].pc # "none"
  <2>1. CASE reading[k].pc # "none" /\ UNCHANGED <<reading, gate>>
    BY <2>1 DEF IInv, ReadingInv, CallsInv
  <2>2. CASE /\ reading[k].pc = "none"
             /\ reading' = [reading EXCEPT ![k] = h]
             /\ gate' = Acquire(gate, k)
    <3>1. k \notin Callers(gate)
      BY <1>1, <2>2 DEF IInv, CallsInv
    <3>2. GateInv(gate') /\ Callers(gate') = Callers(gate) \cup {k}
      BY <1>1, <2>2, <3>1, AcquireAdmits DEF IInv
    <3>3. seeds[r] \in SUBSET Sound(k)
      BY DEF IInv, SeedsInv
    <3>4. InferenceInv(h, k) /\ h.pc = "calling"
      BY <1>1, <3>3, FreshInferenceCalls
    <3> HIDE DEF h, k
    <3>. QED BY <1>1, <2>2, <3>2, <3>4, CallIsBooked
  <2>. QED BY <1>2, <2>1, <2>2
<1>6. WaitersInv'
  <2>1. \A q \in Readers : q # r => reader'[q] = reader[q]
    BY <1>2 DEF IInv, WaitersInv
  <2>2. reader' \in [Readers -> [state : States, lost : {{}}]]
    BY <1>2 DEF IInv, WaitersInv, States
  <2>3. \A q \in Readers : reader'[q].state = "waiting" => reading'[Reads[q]].pc # "none"
    BY <1>5, <2>1, Bounds DEF IInv, WaitersInv
  <2>. QED BY <2>2, <2>3 DEF WaitersInv
<1>. QED BY <1>3, <1>4, <1>5, <1>6 DEF IInv

LEMMA AnswerKeeps ==
  ASSUME IInv, NEW k \in Letters, NEW A, NEW struck, Answer(k, A, struck)
  PROVE  IInv'
<1> DEFINE f == reading[k]
           fresh == Verified(A, f.bank)
           kept == (f.bank \ struck) \cup fresh
           acc == (f.accepted \ struck) \cup fresh
           grades == Grades(A, f.bank) \ f.graded
           seen == f.graded \cup Grades(A, f.bank)
           after == [f EXCEPT !.feedback = {}, !.graded = seen, !.accepted = acc]
           h == NextAttempt(Grade(after, kept, grades))
<1>1. /\ k \in gate.streaming /\ A \in SUBSET Says[k]
      /\ UNCHANGED <<asks, calls, stopping>>
      /\ \/ /\ f.rounds < Rounds
            /\ reading' = [reading EXCEPT ![k] = h]
            /\ gate' = Acquire(Release(gate, k), k)
            /\ UNCHANGED <<reader, seeds, graph>>
         \/ /\ Settle(k, "complete", kept, after.accepted)
            /\ gate' = Release(gate, k)
  BY DEF Answer
<1>2. InferenceInv(f, k)
  BY DEF IInv, ReadingInv
<1>3. fresh \in SUBSET Sound(k)
  BY <1>1, VerifiedIsSound
<1>4. kept \in SUBSET Sound(k) /\ acc \in SUBSET kept
  BY <1>2, <1>3 DEF InferenceInv
<1>5. after.accepted = acc
  BY <1>2 DEF InferenceInv, HasShape
<1>6. BoundsInv'
  BY <1>1, RestStays
<1>7. CASE /\ f.rounds < Rounds
           /\ reading' = [reading EXCEPT ![k] = h]
           /\ gate' = Acquire(Release(gate, k), k)
           /\ UNCHANGED <<reader, seeds, graph>>
  <2>1. after = [pc |-> f.pc, attempt |-> f.attempt, rounds |-> f.rounds, bank |-> f.bank,
                 feedback |-> {}, woken |-> f.woken, trace |-> f.trace,
                 partial |-> f.partial, graded |-> seen, prompt |-> f.prompt,
                 accepted |-> acc]
    <3>1. after = [f EXCEPT !.feedback = {}, !.graded = seen, !.accepted = acc]
      OBVIOUS
    <3> HIDE DEF f, seen, acc, after
    <3>. QED BY <1>2, <3>1 DEF InferenceInv, HasShape
  <2>2. InferenceInv(h, k) /\ h.pc = "calling"
    <3> HIDE DEF f, fresh, kept, acc, grades, seen, after
    <3>1. HasShape(after)
      BY <2>1 DEF HasShape
    <3>2. /\ after.rounds = f.rounds /\ after.attempt = f.attempt /\ after.woken = f.woken
          /\ after.trace = f.trace /\ after.partial = f.partial /\ after.accepted = acc
      BY <2>1
    <3>3. /\ after.rounds \in Nat /\ after.rounds < Rounds /\ after.attempt \in Nat
          /\ after.attempt <= Attempts + after.rounds /\ after.woken \in BOOLEAN
          /\ after.trace \subseteq Sound(k) /\ after.partial \subseteq Sound(k)
          /\ after.accepted \subseteq kept
      BY <1>2, <1>4, <1>7, <3>2, Bounds DEF InferenceInv
    <3>4. /\ InferenceInv(NextAttempt(Grade(after, kept, grades)), k)
          /\ NextAttempt(Grade(after, kept, grades)).pc = "calling"
      BY <1>4, <3>1, <3>3, GradedRoundCalls
    <3>. QED BY <3>4
  <2>3. GateInv(gate') /\ Callers(gate') = Callers(gate)
    BY <1>1, <1>7, ReleaseAndAskAgain DEF IInv
  <2>4. Callers(gate') = Callers(gate) \cup {k}
    BY <1>1, <2>3 DEF Callers
  <2> HIDE DEF h
  <2>5. /\ ReadingInv' /\ CallsInv'
        /\ \A l \in Letters : reading[l].pc # "none" => reading'[l].pc # "none"
    BY <1>7, <2>2, <2>4, CallIsBooked
  <2>6. WaitersInv' /\ SeedsInv' /\ GraphInv'
    BY <1>7, <2>5, WaitersStay, RestStays
  <2>. QED BY <1>6, <2>3, <2>5, <2>6 DEF IInv
<1>8. CASE /\ Settle(k, "complete", kept, after.accepted)
           /\ gate' = Release(gate, k)
  <2>1. Settle(k, "complete", kept, acc)
    BY <1>5, <1>8
  <2> HIDE DEF f, kept, acc
  <2>2. /\ ReadingInv' /\ WaitersInv' /\ SeedsInv' /\ GraphInv'
        /\ reading'[k].pc = "none"
        /\ \A l \in Letters : l # k => reading'[l] = reading[l]
    BY <1>4, <2>1, SettleAnswers
  <2>3. GateInv(gate') /\ Callers(gate') = Callers(gate) \ {k}
    BY <1>1, <1>8, ReleaseHandsOn DEF IInv
  <2>4. CallsInv'
    BY <2>2, <2>3, EndIsBooked
  <2>. QED BY <1>6, <2>2, <2>3, <2>4 DEF IInv
<1>. QED BY <1>1, <1>7, <1>8

LEMMA FailKeeps ==
  ASSUME IInv, NEW k \in Letters, NEW retryable, NEW looped, looped \in BOOLEAN,
         NEW thought \in Texts(k), NEW wrote \in Texts(k),
         Fail(k, retryable, looped, thought, wrote)
  PROVE  IInv'
<1> DEFINE f == reading[k]
           g == [Bank(f, thought, wrote) EXCEPT !.woken = looped,
                   !.accepted = @ \cup Latest(thought, {}) \cup Latest(wrote, {})]
           saved == Salvage(g)
           s == [g EXCEPT !.pc = "sleeping"]
<1>1. InferenceInv(f, k)
  BY DEF IInv, ReadingInv
<1>2. /\ k \in gate.streaming /\ gate' = Release(gate, k)
      /\ UNCHANGED <<asks, calls, stopping>>
      /\ \/ /\ f.attempt < Attempts
            /\ reading' = [reading EXCEPT ![k] = s]
            /\ UNCHANGED <<reader, seeds, graph>>
         \/ Settle(k, IF saved # {} THEN "partial" ELSE "failed", saved, g.accepted)
  <2>1. IF retryable /\ g.attempt < Attempts
        THEN reading' = [reading EXCEPT ![k] = s] /\ UNCHANGED <<reader, seeds, graph>>
        ELSE Settle(k, IF saved # {} THEN "partial" ELSE "failed", saved, g.accepted)
    BY DEF Fail
  <2>3. g.attempt = f.attempt
    BY <1>1 DEF InferenceInv, HasShape, Bank
  <2> HIDE DEF g, s, saved
  <2>2. k \in gate.streaming /\ gate' = Release(gate, k) /\ UNCHANGED <<asks, calls, stopping>>
    BY DEF Fail
  <2>. QED BY <2>1, <2>2, <2>3
<1>3. /\ saved \in SUBSET Sound(k) /\ g.accepted \in SUBSET saved
      /\ f.attempt < Attempts => InferenceInv(s, k)
  <2> HIDE DEF f
  <2>. QED BY <1>1, FailureBanks
<1>4. s.pc = "sleeping"
  <2>1. "pc" \in DOMAIN g
    BY <1>1 DEF InferenceInv, HasShape, Bank
  <2> HIDE DEF g
  <2>. QED BY <2>1
<1> HIDE DEF f, g, saved, s
<1>5. BoundsInv'
  BY <1>2, RestStays
<1>6. GateInv(gate') /\ Callers(gate') = Callers(gate) \ {k}
  BY <1>2, ReleaseHandsOn DEF IInv
<1>7. CASE /\ f.attempt < Attempts
           /\ reading' = [reading EXCEPT ![k] = s]
           /\ UNCHANGED <<reader, seeds, graph>>
  <2>1. /\ reading' = [l \in Letters |-> reading'[l]] /\ reading'[k] = s
        /\ \A l \in Letters : l # k => reading'[l] = reading[l]
    BY <1>7 DEF IInv, ReadingInv
  <2>2. \A l \in Letters : InferenceInv(reading'[l], l)
    BY <1>3, <1>7, <2>1 DEF IInv, ReadingInv
  <2>3. ReadingInv'
    BY <2>1, <2>2 DEF ReadingInv
  <2>4. CallsInv'
    BY <1>4, <1>6, <2>1, EndIsBooked
  <2>5. \A l \in Letters : reading[l].pc # "none" => reading'[l].pc # "none"
    BY <1>4, <2>1
  <2>6. WaitersInv' /\ SeedsInv' /\ GraphInv'
    BY <1>7, <2>5, WaitersStay, RestStays
  <2>. QED BY <1>5, <1>6, <2>3, <2>4, <2>6 DEF IInv
<1>8. CASE Settle(k, IF saved # {} THEN "partial" ELSE "failed", saved, g.accepted)
  <2>1. PICK how \in {"complete", "partial", "failed"} : Settle(k, how, saved, g.accepted)
    BY <1>8
  <2>2. /\ ReadingInv' /\ WaitersInv' /\ SeedsInv' /\ GraphInv'
        /\ reading'[k].pc = "none"
        /\ \A l \in Letters : l # k => reading'[l] = reading[l]
    <3> DEFINE acc == g.accepted
    <3>1. acc \in SUBSET saved /\ Settle(k, how, saved, acc)
      BY <1>3, <2>1
    <3> HIDE DEF acc
    <3>. QED BY <1>3, <3>1, SettleAnswers
  <2>3. CallsInv'
    BY <1>6, <2>2, EndIsBooked
  <2>. QED BY <1>5, <1>6, <2>2, <2>3 DEF IInv
<1>. QED BY <1>2, <1>7, <1>8

LEMMA ResumeKeeps ==
  ASSUME IInv, NEW k \in Letters, Resume(k)
  PROVE  IInv'
<1> DEFINE h == NextAttempt(reading[k])
<1>1. /\ reading[k].pc = "sleeping" /\ reading' = [reading EXCEPT ![k] = h]
      /\ gate' = Acquire(gate, k)
      /\ UNCHANGED <<reader, seeds, graph, asks, calls, stopping>>
  BY DEF Resume
<1>2. k \notin Callers(gate)
  BY <1>1 DEF IInv, CallsInv
<1>3. GateInv(gate') /\ Callers(gate') = Callers(gate) \cup {k}
  BY <1>1, <1>2, AcquireAdmits DEF IInv
<1>4. InferenceInv(h, k) /\ h.pc = "calling"
  BY <1>1, SleeperCalls DEF IInv, ReadingInv
<1> HIDE DEF h
<1>5. /\ ReadingInv' /\ CallsInv'
      /\ \A l \in Letters : reading[l].pc # "none" => reading'[l].pc # "none"
  BY <1>1, <1>3, <1>4, CallIsBooked
<1>6. WaitersInv' /\ SeedsInv' /\ GraphInv' /\ BoundsInv'
  BY <1>1, <1>5, WaitersStay, RestStays
<1>. QED BY <1>3, <1>5, <1>6 DEF IInv

\* A voice and a letter are not the same caller.
LEMMA VoicesAreNotRead ==
  ASSUME IInv, NEW v \in Voices, NEW C \in {Callers(gate) \cup {v}, Callers(gate) \ {v}},
         Callers(gate') = C, UNCHANGED reading
  PROVE  ReadingInv' /\ CallsInv'
<1>1. v \notin Letters
  BY ObservingAssumption DEF ObservingAssumption
<1>2. \A l \in Letters : (reading'[l].pc = "calling") <=> l \in Callers(gate')
  BY <1>1 DEF IInv, CallsInv
<1>. QED BY <1>2 DEF IInv, ReadingInv, CallsInv, Callers

LEMMA SpeakKeeps ==
  ASSUME IInv, NEW v \in Voices, Speak(v)
  PROVE  IInv'
<1>1. /\ v \notin Callers(gate) /\ calls[v] < MaxCalls
      /\ calls' = [calls EXCEPT ![v] = calls[v] + 1]
      /\ gate' = Acquire(gate, v)
      /\ UNCHANGED <<reading, reader, seeds, graph, asks, stopping>>
  BY DEF Speak, Callers
<1>2. GateInv(gate') /\ Callers(gate') = Callers(gate) \cup {v}
  BY <1>1, AcquireAdmits DEF IInv
<1>3. ReadingInv' /\ CallsInv'
  BY <1>1, <1>2, VoicesAreNotRead
<1>4. WaitersInv' /\ SeedsInv' /\ GraphInv'
  BY <1>1, WaitersStay, RestStays
<1>5. calls' \in [Voices -> 0..MaxCalls]
  <2>1. MaxCalls \in Nat
    BY ObservingAssumption DEF ObservingAssumption
  <2>2. calls[v] + 1 \in 0..MaxCalls
    BY <1>1, <2>1 DEF IInv, BoundsInv
  <2>. QED BY <1>1, <2>2 DEF IInv, BoundsInv
<1>6. BoundsInv'
  BY <1>1, <1>5 DEF IInv, BoundsInv
<1>. QED BY <1>2, <1>3, <1>4, <1>6 DEF IInv

LEMMA SpokenKeeps ==
  ASSUME IInv, NEW v \in Voices, Spoken(v)
  PROVE  IInv'
<1>1. /\ v \in gate.streaming /\ gate' = Release(gate, v)
      /\ UNCHANGED <<reading, reader, seeds, graph, asks, calls, stopping>>
  BY DEF Spoken
<1>2. GateInv(gate') /\ Callers(gate') = Callers(gate) \ {v}
  BY <1>1, ReleaseHandsOn DEF IInv
<1>3. ReadingInv' /\ CallsInv'
  BY <1>1, <1>2, VoicesAreNotRead
<1>4. WaitersInv' /\ SeedsInv' /\ GraphInv' /\ BoundsInv'
  BY <1>1, WaitersStay, RestStays
<1>. QED BY <1>2, <1>3, <1>4 DEF IInv

\* Nothing moved that the invariant reads, but the signal.
LEMMA StillKeeps ==
  ASSUME IInv, UNCHANGED <<reading, gate, reader, seeds, graph, asks, calls>>,
         stopping' \in BOOLEAN
  PROVE  IInv'
<1>1. GateInv(gate') /\ ReadingInv' /\ CallsInv' /\ WaitersInv'
  BY DEF IInv, ReadingInv, CallsInv, WaitersInv
<1>2. SeedsInv' /\ GraphInv'
  BY RestStays
<1>3. BoundsInv'
  BY DEF IInv, BoundsInv
<1>. QED BY <1>1, <1>2, <1>3 DEF IInv

LEMMA InitHolds == ASSUME Init PROVE IInv
<1>1. GateInv(gate) /\ Callers(gate) = {}
  <2>1. gate = [inflight |-> 0, streaming |-> {}, line |-> <<>>]
    BY DEF Init
  <2>2. gate.inflight = 0 /\ gate.streaming = {} /\ gate.line = <<>> /\ DOMAIN gate.line = {}
    BY <2>1
  <2>3. Range(gate.line) = {}
    BY <2>2 DEF Range
  <2>4. gate \in [inflight : 0..MaxInflight, streaming : SUBSET (Letters \cup Voices),
                  line : Seq(Letters \cup Voices)]
    BY <2>1, Bounds
  <2>. QED BY <2>2, <2>3, <2>4, FS_EmptySet DEF GateInv, Callers
<1>2. reading = [k \in Letters |-> Resting]
  BY DEF Init
<1>3. ReadingInv
  <2>1. \A k \in Letters : reading[k] = Resting
    BY <1>2
  <2>. QED BY <1>2, <2>1, RestingIsFine DEF ReadingInv
<1>4. CallsInv
  BY <1>1, <1>2, RestingIsFine DEF CallsInv
<1>5. WaitersInv
  BY DEF Init, Unasked, WaitersInv, States
<1>6. SeedsInv /\ GraphInv
  BY DEF Init, SeedsInv, GraphInv, GraphIsGrounded
<1>7. BoundsInv
  <2>1. 0 \in 0..MaxAsks /\ 0 \in 0..MaxCalls
    BY ObservingAssumption DEF ObservingAssumption
  <2>2. asks = 0 /\ calls = [v \in Voices |-> 0] /\ stopping = FALSE
    BY DEF Init
  <2>. QED BY <2>1, <2>2 DEF BoundsInv
<1>. QED BY <1>1, <1>3, <1>4, <1>5, <1>6, <1>7 DEF IInv

LEMMA StepKeeps == ASSUME IInv, [Next]_vars PROVE IInv'
<1>1. ASSUME NEW r \in Readers, Ask(r) PROVE IInv'
  BY <1>1, AskKeeps
<1>2. ASSUME NEW k \in Letters, StreamEnds(k) PROVE IInv'
  <2>1. Nothing \in Texts(k)
    BY DEF Texts
  <2>2. CASE \E A \in SUBSET Says[k], struck \in SUBSET reading[k].bank : Answer(k, A, struck)
    BY <2>2, AnswerKeeps
  <2>3. CASE Unreadable(k) \/ Refused(k)
    BY <2>1, <2>3, FailKeeps DEF Unreadable, Refused
  <2>4. ASSUME NEW thought \in Texts(k), NEW wrote \in Texts(k),
               \/ Stalls(k, thought, wrote) \/ Loops(k, thought, wrote)
               \/ Overflows(k, thought, wrote) \/ Aborted(k, thought, wrote)
        PROVE  IInv'
    BY <2>4, FailKeeps DEF Stalls, Loops, Overflows, Aborted
  <2>. QED BY <1>2, <2>2, <2>3, <2>4 DEF StreamEnds
<1>3. ASSUME NEW k \in Letters, Resume(k) PROVE IInv'
  BY <1>3, ResumeKeeps
<1>4. ASSUME NEW v \in Voices, Speak(v) \/ Spoken(v) PROVE IInv'
  BY <1>4, SpeakKeeps, SpokenKeeps
<1>5. CASE Shutdown
  BY <1>5, StillKeeps DEF Shutdown
<1>6. CASE UNCHANGED vars
  <2>1. stopping' \in BOOLEAN
    BY <1>6 DEF vars, IInv, BoundsInv
  <2>. QED BY <1>6, <2>1, StillKeeps DEF vars
<1>. QED BY <1>1, <1>2, <1>3, <1>4, <1>5, <1>6 DEF Next

LEMMA Invariance == Spec => []IInv
<1>1. Init => IInv
  BY InitHolds
<1>2. IInv /\ [Next]_vars => IInv'
  BY StepKeeps
<1>. QED BY <1>1, <1>2, PTL DEF Spec
-------------------------------------------------------------------------------
(***************************************************************************)
(* The theorems.                                                           *)
(***************************************************************************)

\* However streams stall, loop, overflow, are refused or aborted, and whoever
\* waits in line: the slots taken are the calls that stream, and only grounded
\* claims reach the graph, each with the entity it is about.
THEOREM ReaderIsConsistent == Spec => []Consistent
<1>1. IInv => TypeOK
  <2> SUFFICES ASSUME IInv PROVE TypeOK
    OBVIOUS
  <2>1. ASSUME NEW k \in Letters
        PROVE  LET f == reading[k] IN
               /\ f.pc \in {"none", "calling", "sleeping"}
               /\ f.rounds \in 0..Rounds /\ f.attempt \in 0..(Attempts + f.rounds)
               /\ f.bank \subseteq Says[k] /\ f.partial \subseteq Says[k]
               /\ f.prompt \in {"base", "review", "results", "wakeup"}
    BY Bounds DEF IInv, ReadingInv, InferenceInv
  <2>2. /\ gate.inflight \in 0..MaxInflight
        /\ gate.streaming \subseteq Letters \cup Voices
        /\ gate.line \in Seq(Letters \cup Voices)
    BY DEF IInv, GateInv
  <2>3. \A r \in Readers :
          reader[r].state \in {"unasked", "waiting", "complete", "partial", "failed"}
    BY DEF IInv, WaitersInv, States
  <2>4. seeds \in [Readers -> SUBSET Claims]
    <3>1. \A r \in Readers : seeds[r] \in SUBSET Claims
      <4> TAKE r \in Readers
      <4>1. Sound(Reads[r]) \subseteq Claims
        BY Bounds
      <4>. QED BY <4>1 DEF IInv, SeedsInv
    <3>2. seeds = [r \in Readers |-> seeds[r]]
      BY DEF IInv, SeedsInv
    <3>. QED BY <3>1, <3>2
  <2>. QED BY <2>1, <2>2, <2>3, <2>4 DEF TypeOK, IInv, GraphInv, BoundsInv
<1>2. IInv => GateIsExact
  BY DEF IInv, GateInv, CallsInv, Callers, GateIsExact
<1>3. IInv => Consistent
  BY <1>1, <1>2 DEF IInv, GraphInv, Consistent
<1>. QED BY <1>3, Invariance, PTL

\* A claim that passed the gates once is in the answer the job gets, through
\* every round, retry and try of the job, unless the model struck it.
THEOREM AcceptedClaimsArrive == Spec => []NothingAcceptedIsLost
<1>1. IInv => NothingAcceptedIsLost
  BY DEF IInv, WaitersInv, NothingAcceptedIsLost
<1>. QED BY <1>1, Invariance, PTL

\* Who waits for an answer waits for a call that streams or stands in line, or
\* for a backoff with an attempt left: no answer is owed that nobody works on.
BeingRead(r) ==
  \/ Reads[r] \in gate.streaming \cup Range(gate.line)
  \/ reading[Reads[r]].pc = "sleeping" /\ reading[Reads[r]].attempt < Attempts

\* The safety half of EveryAskSettles.
THEOREM WhoWaitsIsBeingRead ==
  Spec => [](\A r \in Readers : reader[r].state = "waiting" => BeingRead(r))
<1>1. IInv => \A r \in Readers : reader[r].state = "waiting" => BeingRead(r)
  BY Bounds DEF IInv, ReadingInv, InferenceInv, CallsInv, Callers, WaitersInv, BeingRead
<1>. QED BY <1>1, Invariance, PTL
==================================================================================
