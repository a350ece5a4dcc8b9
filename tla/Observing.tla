-------------------------------- MODULE Observing --------------------------------
(***************************************************************************)
(* The reader: what an observation (src/intelligence/provider.js) does     *)
(* with a model that stalls, loops, truncates and invents, through the     *)
(* gate and the streams of the client (src/llm/client.js), and what of it  *)
(* reaches the graph (src/intelligence/queue.js).                          *)
(*                                                                         *)
(* A claim is a line of an answer, and the gates are what shape, reference *)
(* and grounding make of a set of them.  The bank is a set: a verdict      *)
(* names its claim by its number in the prompt of the same attempt.  No    *)
(* inference cache: bin/ configures none.  Observations run in process,    *)
(* which is the default.                                                   *)
(***************************************************************************)
EXTENDS Integers, FiniteSets, Sequences, Functions

CONSTANTS
  Readers,      \* jobs that ask for an observation
  Letters,      \* contents, each with an inference key
  Reads,        \* Reads[r]: the content job r resolves to
  Voices,       \* what else calls the same client: one model, one gate
  Claims,       \* lines a model may write
  Says,         \* Says[k]: those it may write of content k
  Misshapen,    \* claims the schema refuses
  Invented,     \* claims whose evidence is not in the source
  About,        \* About[c]: the entity claim that declares c's ref, or Nothing
  Group,        \* Group[c]: the claim group c belongs to
  Line,         \* Line[c]: where in an answer c stands
  MaxInflight,  \* slots of the client
  Attempts,     \* maxAttempts
  Rounds,       \* maxRounds
  MaxAsks,      \* bound: observations asked for, in all
  MaxCalls,     \* bound: calls of a voice
  Nothing       \* no claim, no trace

ASSUME ObservingAssumption ==
  /\ Reads \in [Readers -> Letters] /\ Says \in [Letters -> SUBSET Claims]
  /\ Letters \cap Voices = {}
  /\ Misshapen \subseteq Claims /\ Invented \subseteq Claims
  /\ About \in [Claims -> Claims \cup {Nothing}] /\ Nothing \notin Claims
  /\ \A c \in Claims : About[c] # Nothing => About[About[c]] = Nothing
  /\ Line \in [Claims -> Nat] /\ DOMAIN Group = Claims
  /\ MaxInflight \in Nat \ {0} /\ Attempts \in Nat \ {0} /\ Rounds \in Nat
  /\ MaxAsks \in Nat /\ MaxCalls \in Nat

VARIABLES
  reading,      \* reading[k]: the inference in flight for k, or Resting
  gate,         \* the client's slots: taken, who streams, who waits in line
  reader,       \* reader[r]: what job r awaits or was last answered
  seeds,        \* RETRY_SEEDS: what a job's partial answer held, in memory
  graph,        \* graph[k]: claims on the graph from k: durable
  asks,         \* observations asked for so far
  calls,        \* calls made by each voice
  stopping      \* was the process signalled?

vars == <<reading, gate, reader, seeds, graph, asks, calls, stopping>>

\* accepted, and lost below, are history the properties look at: what passed
\* the gates and was not struck since, and what of it an answer lacked.
\* prompt is the one the call in flight was given.  trace and partial are the
\* last trace of thought and the last text of an attempt that died, as the
\* claims the gates would let out of them.
Resting == [pc |-> "none", attempt |-> 0, rounds |-> 0, bank |-> {}, feedback |-> {},
            woken |-> FALSE, trace |-> {}, partial |-> {}, graded |-> {},
            prompt |-> "base", accepted |-> {}]
Unasked == [state |-> "unasked", lost |-> {}]

Init ==
  /\ reading = [k \in Letters |-> Resting]
  /\ gate = [inflight |-> 0, streaming |-> {}, line |-> <<>>]
  /\ reader = [r \in Readers |-> Unasked]
  /\ seeds = [r \in Readers |-> {}]
  /\ graph = [k \in Letters |-> {}]
  /\ asks = 0
  /\ calls = [v \in Voices |-> 0]
  /\ stopping = FALSE
-------------------------------------------------------------------------------
(* The gates: shape, then reference, then grounding.                       *)

Shaped(A) == A \ Misshapen

\* A claim about an entity nobody declared in well-formed lines: not in this
\* answer, and not among the refs the caller vouches for.
Dangling(A, refs) ==
  {c \in Shaped(A) : About[c] # Nothing /\ About[c] \notin Shaped(A) \cup refs}

Verified(A, refs) == Shaped(A) \ (Dangling(A, refs) \cup Invented)

\* Where c stands among the lines of its group in A.
Index(c, A) == Cardinality({d \in A : Group[d] = Group[c] /\ Line[d] < Line[c]})

\* The line a dangling claim is graded under: its index counts the shaped
\* claims of its group, and is looked up among all of them.
GradedAs(c, A) ==
  CHOOSE d \in A : Group[d] = Group[c] /\ Index(d, A) = Index(c, Shaped(A))

Grades(A, refs) ==
  {<<"shape", c>> : c \in A \cap Misshapen}
    \cup {<<"dangling", GradedAs(c, A)>> : c \in Dangling(A, refs)}
    \cup {<<"ungrounded", c>> : c \in (Shaped(A) \ Dangling(A, refs)) \cap Invented}

\* What the text or the thoughts of an attempt that died may be worth.  Refs
\* that only the bank declares do not count here.
Harvests(k) == {Verified(A, {}) : A \in SUBSET Says[k]}

\* The texts an error may carry: none, or one with claims in it.
Texts(k) == {Nothing} \cup Harvests(k)

Latest(new, old) == IF new = Nothing THEN old ELSE new

\* observationsFrom: a claim attaches to the subject its ref resolved to; with
\* no such entity in the answer it is passed over.
Attached(S) == {c \in S : About[c] = Nothing \/ About[c] \in S}
-------------------------------------------------------------------------------
(* The gate of the client: MaxInflight slots, first come first served.     *)

Acquire(g, x) ==
  IF g.inflight < MaxInflight
  THEN [g EXCEPT !.inflight = @ + 1, !.streaming = @ \cup {x}]
  ELSE [g EXCEPT !.line = Append(@, x)]

\* Slip: the slot is freed and handed on as well.
ReleaseTwice(g, x) ==
  IF g.line # <<>>
  THEN [inflight |-> g.inflight - 1, streaming |-> (g.streaming \ {x}) \cup {Head(g.line)},
        line |-> Tail(g.line)]
  ELSE [g EXCEPT !.inflight = @ - 1, !.streaming = @ \ {x}]

\* The next in line inherits the slot.
Release(g, x) ==
  IF g.line # <<>>
  THEN [g EXCEPT !.streaming = (@ \ {x}) \cup {Head(g.line)}, !.line = Tail(@)]
  ELSE [g EXCEPT !.inflight = @ - 1, !.streaming = @ \ {x}]
-------------------------------------------------------------------------------
(* One inference.                                                          *)

\* The prompt of the next attempt: a wake-up outranks the results of a graded
\* round, which outrank the review of what is banked.
PromptFor(f) ==
  CASE f.woken                             -> "wakeup"
    [] ~f.woken /\ f.feedback # {}         -> "results"
    [] ~f.woken /\ f.feedback = {} /\ f.bank # {} -> "review"
    [] OTHER                               -> "base"

\* The loop is entered again.  Past its last attempt it would fall through.
NextAttempt(f) ==
  IF f.attempt < Attempts + f.rounds
  THEN [f EXCEPT !.pc = "calling", !.attempt = @ + 1, !.prompt = PromptFor(f)]
  ELSE [f EXCEPT !.pc = "exhausted"]

\* Slip: only one of those who share the inference hears of its end.
WaitingAlone(k) ==
  LET all == {r \in Readers : Reads[r] = k /\ reader[r].state = "waiting"}
  IN {r \in all : r = CHOOSE q \in all : TRUE}

Waiting(k) == {r \in Readers : Reads[r] = k /\ reader[r].state = "waiting"}

\* Whoever waits gets the one answer: claims go on the graph, and a partial
\* answer is also the seed of the job's next try.
Settle(k, how, claims, accepted) ==
  /\ reading' = [reading EXCEPT ![k] = Resting]
  /\ reader' = [r \in Readers |->
       IF r \in Waiting(k)
       THEN [reader[r] EXCEPT !.state = how, !.lost = accepted \ claims]
       ELSE reader[r]]
  /\ graph' = [graph EXCEPT ![k] = @ \cup Attached(claims)]
  /\ seeds' = [r \in Readers |->
       CASE r \in Waiting(k) /\ how = "partial"  -> claims
         [] r \in Waiting(k) /\ how = "complete" -> {}
         [] OTHER                                -> seeds[r]]

\* A job asks.  One inference per content at a time: who comes later shares it,
\* and its own seeds are not looked at.
Ask(r) ==
  LET k == Reads[r]
      fresh == [Resting EXCEPT !.bank = seeds[r], !.accepted = seeds[r]] IN
  /\ ~stopping
  /\ reader[r].state \notin {"waiting", "complete"} /\ asks < MaxAsks
  /\ reader' = [reader EXCEPT ![r].state = "waiting"]
  /\ asks' = asks + 1
  /\ IF reading[k].pc # "none"
     THEN UNCHANGED <<reading, gate>>
     ELSE /\ reading' = [reading EXCEPT ![k] = NextAttempt(fresh)]
          /\ gate' = Acquire(gate, k)
  /\ UNCHANGED <<seeds, graph, calls, stopping>>

\* A partly verified answer earns a round: what held is banked, what did not
\* is shown, once.
Grade(f, kept, grades) ==
  [f EXCEPT !.bank = kept, !.feedback = grades, !.graded = @ \cup grades,
            !.rounds = @ + 1]

\* The model answered, in a readable form: lines A, and verdicts against some
\* of what it was shown.  A ref the bank declares counts as declared.
Answer(k, A, struck) ==
  LET f == reading[k]
      fresh == Verified(A, f.bank)
      kept == (f.bank \ struck) \cup fresh
      grades == Grades(A, f.bank) \ f.graded
      after == [f EXCEPT !.feedback = {}, !.graded = @ \cup Grades(A, f.bank),
                         !.accepted = (@ \ struck) \cup fresh] IN
  /\ k \in gate.streaming /\ A \in SUBSET Says[k] /\ struck \in SUBSET f.bank
  /\ IF f.rounds < Rounds /\ grades # {}
     THEN /\ reading' = [reading EXCEPT ![k] = NextAttempt(Grade(after, kept, grades))]
          /\ gate' = Acquire(Release(gate, k), k)
          /\ UNCHANGED <<reader, seeds, graph>>
     ELSE /\ Settle(k, "complete", kept, after.accepted)
          /\ gate' = Release(gate, k)
  /\ UNCHANGED <<asks, calls, stopping>>

\* Slip: salvage only at the end, and only from the last attempt.
BankNothing(f, thought, wrote) ==
  [f EXCEPT !.trace = Latest(thought, @), !.partial = Latest(wrote, @)]

\* The lines a failed attempt delivered, and those in the latest trace of
\* thought, join the bank.
Bank(f, thought, wrote) ==
  [f EXCEPT !.trace = Latest(thought, @), !.partial = Latest(wrote, @),
            !.bank = @ \cup Latest(thought, f.trace) \cup Latest(wrote, {})]

\* The last resort: what the dying stream delivered, and the bank.
Salvage(f) == f.bank \cup f.partial

\* An attempt failed: with thought and wrote in hand, if the error carries them.
Fail(k, retryable, looped, thought, wrote) ==
  LET f == [Bank(reading[k], thought, wrote) EXCEPT
              !.woken = looped,
              !.accepted = @ \cup Latest(thought, {}) \cup Latest(wrote, {})]
      saved == Salvage(f) IN
  /\ k \in gate.streaming
  /\ gate' = Release(gate, k)
  /\ IF retryable /\ f.attempt < Attempts
     THEN /\ reading' = [reading EXCEPT ![k] = [f EXCEPT !.pc = "sleeping"]]
          /\ UNCHANGED <<reader, seeds, graph>>
     ELSE Settle(k, IF saved # {} THEN "partial" ELSE "failed", saved, f.accepted)
  /\ UNCHANGED <<asks, calls, stopping>>

\* A reply no reader understands, or the gateway's apology for its budget: the
\* error carries neither text nor trace.  So do an empty completion and a 5xx.
Unreadable(k) == Fail(k, TRUE, FALSE, Nothing, Nothing)

\* Anything but 408, 409, 429 and 5xx.
Refused(k) == Fail(k, FALSE, FALSE, Nothing, Nothing)

\* A deadline, a dropped connection, an error event in the stream.
Stalls(k, thought, wrote) == Fail(k, TRUE, FALSE, thought, wrote)

\* The same line of thought, maxReasoningRepeats times.
Loops(k, thought, wrote) == thought # Nothing /\ Fail(k, TRUE, TRUE, thought, wrote)

\* More text than maxCharacters.
Overflows(k, thought, wrote) == wrote # Nothing /\ Fail(k, FALSE, FALSE, thought, wrote)

\* The caller's signal: before the request, or in its stream.
Aborted(k, thought, wrote) == stopping /\ Fail(k, FALSE, FALSE, thought, wrote)

\* The linear backoff ends.
Resume(k) ==
  /\ reading[k].pc = "sleeping"
  /\ reading' = [reading EXCEPT ![k] = NextAttempt(@)]
  /\ gate' = Acquire(gate, k)
  /\ UNCHANGED <<reader, seeds, graph, asks, calls, stopping>>

\* However the stream ends.
StreamEnds(k) ==
  \/ \E A \in SUBSET Says[k], struck \in SUBSET reading[k].bank : Answer(k, A, struck)
  \/ Unreadable(k) \/ Refused(k)
  \/ \E thought, wrote \in Texts(k) :
       \/ Stalls(k, thought, wrote) \/ Loops(k, thought, wrote)
       \/ Overflows(k, thought, wrote) \/ Aborted(k, thought, wrote)
-------------------------------------------------------------------------------
(* The rest of the process.                                                *)

\* A letter is being written: the same client, the same gate.
Speak(v) ==
  /\ v \notin gate.streaming \cup Range(gate.line) /\ calls[v] < MaxCalls
  /\ calls' = [calls EXCEPT ![v] = @ + 1]
  /\ gate' = Acquire(gate, v)
  /\ UNCHANGED <<reading, reader, seeds, graph, asks, stopping>>

Spoken(v) ==
  /\ v \in gate.streaming
  /\ gate' = Release(gate, v)
  /\ UNCHANGED <<reading, reader, seeds, graph, asks, calls, stopping>>

Shutdown ==
  /\ ~stopping
  /\ stopping' = TRUE
  /\ UNCHANGED <<reading, gate, reader, seeds, graph, asks, calls>>

Next ==
  \/ \E r \in Readers : Ask(r)
  \/ \E k \in Letters : StreamEnds(k) \/ Resume(k)
  \/ \E v \in Voices : Speak(v) \/ Spoken(v)
  \/ Shutdown

Spec == Init /\ [][Next]_vars

\* Every stream ends: by an answer, a deadline, or the model's own max_tokens.
\* Every backoff ends.
FairSpec ==
  /\ Spec
  /\ \A k \in Letters : WF_vars(StreamEnds(k)) /\ WF_vars(Resume(k))
  /\ \A v \in Voices : WF_vars(Spoken(v))
-------------------------------------------------------------------------------
(* Properties.                                                             *)

TypeOK ==
  /\ \A k \in Letters :
       LET f == reading[k] IN
       /\ f.pc \in {"none", "calling", "sleeping"}
       /\ f.rounds \in 0..Rounds /\ f.attempt \in 0..(Attempts + f.rounds)
       /\ f.bank \subseteq Says[k] /\ f.partial \subseteq Says[k]
       /\ f.prompt \in {"base", "review", "results", "wakeup"}
  /\ gate.inflight \in 0..MaxInflight
  /\ gate.streaming \subseteq Letters \cup Voices
  /\ gate.line \in Seq(Letters \cup Voices)
  /\ \A r \in Readers :
       reader[r].state \in {"unasked", "waiting", "complete", "partial", "failed"}
  /\ seeds \in [Readers -> SUBSET Claims] /\ graph \in [Letters -> SUBSET Claims]
  /\ asks \in 0..MaxAsks
  /\ calls \in [Voices -> 0..MaxCalls] /\ stopping \in BOOLEAN

\* A claim that passed the gates once, in an answer, in the lines of a stream
\* that died or in a trace of thought, is in the answer the job gets, through
\* every round, retry and try of the job: unless the model struck it.
NothingAcceptedIsLost ==
  \A r \in Readers : reader[r].lost = {}

\* The slots taken are the calls that stream, and nobody waits in line for a
\* slot that is free: no failure, abort or timeout leaks one.
GateIsExact ==
  /\ gate.inflight = Cardinality(gate.streaming)
  /\ gate.line # <<>> => gate.inflight = MaxInflight
  /\ \A k \in Letters :
       (reading[k].pc = "calling") <=> k \in gate.streaming \cup Range(gate.line)

\* Only claims whose evidence was found reach the graph, and each with the
\* entity it is about.
GraphIsGrounded ==
  \A k \in Letters : \A c \in graph[k] :
    /\ c \notin Misshapen \cup Invented
    /\ About[c] # Nothing => About[c] \in graph[k]

\* The rows have their shapes, the slots fit the calls and the graph the mail.
Consistent == TypeOK /\ GateIsExact /\ GraphIsGrounded

\* Whoever asks is answered: with claims, or with a failure it can retry.
EveryAskSettles ==
  \A r \in Readers : (reader[r].state = "waiting") ~> (reader[r].state # "waiting")
================================================================================
