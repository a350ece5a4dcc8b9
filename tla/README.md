# Yente in TLA+

Yente is a matchmaker that works by mail. It takes people in, reads what they
send, proposes introductions, asks both sides, and introduces them when nobody
objects. This directory holds TLA+ models of the parts of it whose correctness
depends on order: what may be read and when, who may be proposed, what may leave
the outbox, when an introduction may be made, what a stop or a no is worth while
other things are going on, and what survives a crash. TLC checks them on small
instances, and TLAPS proves their safety properties for every size.

All paths are relative to the repository; `src/` stands for its own source
directory (`src/src/` in `PROJECT.json`).

Contents: [the system](#the-system) ·
[what is hard](#what-is-hard-about-it) ·
[the modules](#the-modules) · [the runs](#the-runs) ·
[fairness](#fairness) · [the proofs](#the-proofs) ·
[disagreements](#where-the-code-and-its-documents-disagree) ·
[not modelled](#what-is-not-modelled) · [the plan](#the-plan)

## The system

One Node process (`bin/yente.mjs`), one thread, one embedded store behind
synchronous `put`/`get`. Two arms work over one mailbox: the *desk*, which knows
members and answers them, and the *graph*, which knows what was said.

| Component | State | Operations | Module |
|---|---|---|---|
| Mail source and ingestion (`mail/source.js`, `graph/ingest.js`, `graph/documents.js`, `graph/enrich.js`) | cursor, evidence | fetch a batch, file letters, documents and pages, move the cursor | `Reading` |
| Founding seats (`waitlist/`) | one seat per address | claim by mail, backfill at boot | `Reading` |
| Intelligence backlog (`store/graph.js`, `intelligence/queue.js`) | one job per piece of evidence | enqueue, claim, finish, fail, release, retire, re-open at boot | `Jobs`, `Reading` |
| Observation (`intelligence/provider.js`, `llm/client.js`) | inferences in flight, slots of the client, seeds of a retry | ask, stream, grade, bank, salvage, abort | `Observing` |
| Matching of the graph (`graph/matching.js`) | none | score and propose | `Matching` |
| Graph manager and connect loop (`graph/manager.js`, `graph/qualification.js`, `graph/loops.js`) | profile states, exclusions, identities, match rows, nudges | scan, promote, propose, confirm, reject, correct, merge | `Curating` |
| Consent round and introductions (`graph/consent.js`, `graph/introductions.js`) | match rows, a latch | send previews, read replies, claim, send, mark | `Consent` |
| Intake (`runtime/yente.js`, `runtime/desk.js`, `domain/member.js`, `domain/qualification.js`) | members, sources, facts, owed replies | ingest, read, qualify, answer, sweep, pay debts | `Intake` |
| Matches of the desk (`domain/workflow.js`, `runtime/yente.js`) | one row per pair: state, two previews with decisions, deadline | propose, queue, preview sent, decide, deadline, introduce | `Desk` |
| Outbox (`domain/outbox.js`) | one row per idempotency key: state, attempts, availableAt, messageId | enqueue, claim, mark sent, mark failed, recover a stalled send | `Outbox` |

A letter travels like this. The listen loop files it as *evidence*, its documents
one extraction later each, and only then gives it a reading *job*. The
understand loop takes jobs, several at once, and each becomes an *observation*:
calls to a model whose answer is verified before its claims reach the graph. A
drain that committed claims nudges the connect loop, which promotes and proposes.
The operator confirms, the consent round asks both sides, introductions leave.
Beside all this the desk's tick looks at the same evidence, takes in members,
answers them through its *outbox*, and decides on its own matches.

The arms meet in a few places, and these are where the modules join. The desk and
the consent drain read the evidence ledger and neither moves it. Whoever the
desk qualifies is *bridged* into the graph. The graph arm has no outbox: its
match rows carry claims and marks, and two entrants (the connect loop, and the
hook run by every confirm click) walk them. Boot repairs the graph's rows and
leaves the desk's alone.

## What is hard about it

- The thread is free at every `await`: of the mail server, of a model. What was
  read before one may be stale after it. The desk avoids this by never running
  two ticks; the graph arm has two entrants and relies on claims and a latch;
  the reading of mail has as many workers as it is given.
- Every `put` is durable by itself and nothing is transactional, so the process
  may die between any two of them. What is recorded is deduplicated for ever.
- Mailboxes get renumbered, batches contain what no parser reads, and a letter's
  documents arrive in the store after the letter.
- A model stalls, loops, truncates and invents, is asked the same thing twice at
  once, and is aborted when the process stops; its slots must come back.
- The mail server may take a letter and fail to say so; a retry is a copy.
- People answer at any time: early, twice, with a stop where a pass was meant,
  or after the deadline. The operator corrects, merges and refuses at any time.
- Silence is consent in the desk (a deadline) and is not in the graph arm.

`PROJECT.json` lists these hazards at the lines where they bite, with the
properties that watch them, and says which are still unwatched and why.

What makes each component correct, in one line each:

- ingestion: the cursor passes nothing that is not on record; a letter is read
  with its documents or not at all; a renumbered mailbox loses nothing;
- backlog: whoever runs is run by somebody; what counts as read was read by the
  prompt deployed, and not more often than that; attempts are earned;
- observation: nothing that was accepted is lost; no slot leaks; only what was
  found in the source reaches the graph; whoever asks is answered;
- curating: nobody has more than the limit; nothing thin is queued; rulings and
  refusals stand; what lands is looked at without waiting for the clock;
- intake: a letter is answered or owed; nobody is asked for a profile again;
- outbox: an intended email is at most one email; a letter is sent or given up;
  a row at rest tells the truth about the server;
- members: nothing leads from STOPPED or DELETED back to a live state, and a stop
  lands;
- matches of the desk: an introduction rests on two delivered previews and on
  two approvals or the end of a disclosed window; no objection is overrun;
- consent round: an introduction rests on two approvals, each on a message
  that counts as an answer to that preview; a no is final; no letter is in two hands; no claim is stranded.

## The modules

| Module | What it is |
|---|---|
| `OneLetter` | abstract: what an outbox promises of a letter |
| `DoubleBlind` | abstract: what both arms promise to the two sides of a match |
| `Outbox` | the job machine, its rows, the drain, crash and boot |
| `OutboxProofs` | TLAPS proofs about `Outbox` |
| `Desk` | the tick over members, matches and the outbox |
| `DeskProofs` | TLAPS proofs about `Desk`, on top of `OutboxProofs` |
| `Consent` | the graph arm: consent round, introductions, operator |
| `ConsentProofs` | TLAPS proofs about `Consent` |
| `Jobs` | the operations on a row of the backlog, as operators |
| `Reading` | the mailbox, the listen loop, the understand loop, boot and shutdown |
| `ReadingProofs` | TLAPS proofs about `Reading` |
| `Observing` | attempts, rounds, the gate of the client, what reaches the graph |
| `ObservingProofs` | TLAPS proofs about `Observing` |
| `Matching` | scoring and proposing, as operators on observations |
| `Curating` | the connect loop, the operator's levers, the bridge, boot |
| `CuratingProofs` | TLAPS proofs about `Curating` and `Matching` |
| `Intake` | from recorded mail to a member on file, with debts and the sweep |
| `IntakeProofs` | TLAPS proofs about `Intake` |
| `MC*` | the instances TLC checks |

`Desk` composes: it INSTANCEs `Outbox` on its own `job`, `phase`, ... and each
of its outbox steps is the outbox's action with the match's side of it conjoined
(`RecordDelivery` is `Box!RecordDelivery` plus the row of the match). `Reading`
extends `Jobs`, and `Curating` extends `Matching`: the rows and the scores are
pure functions there, the loops around them are actions here.
`Outbox` refines `OneLetter`; `Desk` and `Consent` both refine `DoubleBlind`,
each under its own mapping, so the two arms are held to one promise: nobody is
introduced who was not told, and nobody who objected.

Operators whose comment begins with "Slip:" are not part of a model. Each is a
bug somebody could plausibly write in the definition beside it; replacing the
definition by its slip must break the property `PROJECT.json` pairs it with.

### Outbox

State is the row (`job`), the position of the drain (`phase`, `batch`,
`inHand`), and a history of what the server has taken (`accepted`). `Claim` is
`beginSend` with its save, `Accept`, `Refuse` and `LoseAck` are the three ways
an awaited send can end, `RecordSent` and `RecordDelivery` the two writes after
it, in their order, with a crash possible before each. `Refuse(permanent)`
writes what `markFailed` writes; the jitter of `backoffMs` is a choice over the
whole range, the floor included and the ceiling excluded. Time is the distance
to `availableAt` in ticks of a coarse clock, and moves only between drains,
since a tick of the desk reads the clock once.

Three constants choose a world. `AckLoss` is whether acknowledgements can get
lost. `RecoveryCalled` is whether anything may call `recoverStalledSend`; in the
code nothing does, and no fairness is assumed of it, so with `TRUE` it may happen
and need not. `HaltChoices` is what the halt switch may be at a boot; a halted
desk sends nothing. The run `outbox` allows all of this, which takes in what the
shipped program does; the runs `desk` and `outbox_stalled` are the shipped
program. Enqueueing a key that exists is no step, for it writes nothing.

### Desk

`stage` is the place in the tick, and every `put` of the code is a step.
`Record` writes the message, `Suppress`, `Welcome`, `BeginInterview`, `Qualify`
and `Decide` write what follows from it, one match at a time, so that a crash
can fall between. `Propose` and `Introduce` save the match and fill `toQueue`;
`Queue` enqueues from it, or `DropUnsendable` drops. `AbortTick` is a handler
that throws: a stop from a deleted member ends the tick there, and the loop
starts another.

A match is the set of its two members, as its key is the sorted pair. The
window is the number of clock ticks left. Mail arrives between ticks; inside one
it would only wait for the next. What a conversational message does to a
member's state through extraction and qualification is a choice (`Qualify`),
which `Intake` spells out, and which pairs clear the policies is the constant
`Eligible`. The letters of intake are in `Intake`, so `Sweep` sees a member here
as written to only through matches, which allows more than the code does.

`MemberIds` is empty on purpose: it is the field `liveMatchCount` reads and
`MatchRepository.save` does not write (see below).

### Consent

The default configuration: party approval on, both sides with an address. The
thread is modelled by two guards. `Free` says nobody is between two awaits;
`NextEvent` adds that no settled promise waits its turn, and guards everything
that comes from outside (a scan's proposal, a click, mail, the next pass of the
connect loop). So drains interleave with each other and with requests at awaits
and nowhere else, as on the event loop, while a crash may fall anywhere.

The consent drain is one machine (`drain`, `visits`, `at`, `unread`,
`reading`, `fresh`), for it is latched; an entrant that comes second waits for the run in
progress. The introduction drain is one machine per entrant. The rows it visits
are those that awaited their parties when it began; it never looks at their
state again, which is the code's behaviour (see below). It reads `consentSeen`
from that copy too, so the second side of a match does not see what the first has
just noted: `fresh` is that difference.

A reply is known by the From header it came under, by what it says (`yes`, `no`:
the control words; `words`: free text, of which the model may make anything or
nothing) and by the previews that were marked sent before it was received. Whose
answer it is, the code asks of the raw header: does it contain the address
(`graph/consent.js:336`)? `Senders` are the headers, `Carries[s]` the parties
whose address occurs in `s`: nobody, one, or several, as `joann@x.com` contains
`ann@x.com`. A reply answers whatever preview it comes after to an address its
header contains (`IsFrom`, `IsReply`), and one message may be the answer of both
sides. The order in which unread replies are read is left open. A failed introduction waits one
unit of a coarse clock, whatever the backoff has grown to.

### Jobs and Reading

The mailbox (`box`) is a sequence and a UID is a place in it; `Renumber` is a new
UIDVALIDITY. `listener` is where the listen loop is: `Ask` learns the numbering,
`Fetch` takes the next `BatchSize` places after the cursor, if the cursor is of
that numbering, and everything otherwise (`Since`). `Record`, `Claim`, `Attach`
or `Refuse`, `EnqueueLetter` and `Commit` are the writes for one letter and then
for the batch, in the code's order: evidence, seat, one document at a time, the
job once all are in, the cursor last. A link is fetched beside all this
(`fetching`, `PageArrives`, `PageFails`). What no parser reads (`Garbled`) is
passed over, and a batch of nothing else leaves the cursor where it was.

`StartDrain` takes the snapshot a drain works through; `Take` claims a job for a
free worker; `Complete`, `Falter` and `ComesDue` are the ends of an observation
and of its backoff. `Crash` forgets what is in memory. `Shutdown` has
observations on lanes hand their jobs back with the attempt; without lanes the
abort is one more failure of theirs.
`Boot` re-opens what was stranded, what was found empty (once), what was read
under another prompt, retires the documents' own jobs, and backfills seats
(`Booted`, `Backfill`), and may deploy another prompt. The rows are those of
`Jobs`, where each operation of the repository is a function from a row to a row.

`reads` and `blamed` are histories: how often an item was read to the end, and how
often an attempt failed or died.

### Observing

`reading[k]` is the inference in flight for content `k`: all jobs that resolve to
the same content share it, the first in asks and the others join (`Ask`). A call
takes a slot of the client (`Acquire`, `Release`), or waits in line with the
other readings and with the *voice*, which uses the same client. `Answer` is a stream that ended: its lines pass the gates of shape,
reference and grounding (`Verified`), what passes is banked, the rest is graded
and goes back to the model in another round while rounds last; the model may
strike what it said before. `Stalls`, `Loops`, `Overflows`, `Refused`,
`Unreadable` and `Aborted` are the ways a call fails, with what the trace of
thought or the truncated text still gave (`Bank`), and `Fail` decides on another
attempt. `Settle` hands the result, whole or partial, to everybody who waits.
Partial results seed the next try of the same job (`seeds`).

A claim is a line of an answer; which of them a model may write is the constant
`Says`, and misshapen and invented ones are among them.

### Matching and Curating

`Matching` is the code's three arms (`FromIntents`, `FromRoles`,
`ProposalAnswers`), each with its floor and its caps, and `ProposeIntroductions`
that keeps the best proposal of each ordered pair.

`Curating` keeps the ledgers append-only, as the code does: profile states are rows, one
that has the key of another is not written, and the state of a subject is the
standing row (`Standing`, `StateOf`). `Land` is a reading that commits claims,
`DrainEnds` its nudge; `Scan` is the connect loop's pass (promotion, then
proposals on the rows after it), `ScanThrows` the pass that a promotion throws out
of, `FallAsleep` and `TimeToLook` its waiting. The operator's levers are one action
each; `PartiesAnswer` is the whole consent round, which `Consent` spells out.
`Bridge` and `Backfill` carry the desk's qualifications over.

### Intake

`File` and `Attach` are what the desk sees of the listen loop: a letter first, then
its documents, at any moment between two steps of a tick. `BeginTick` notes what
is filed, `Take` looks at one letter, and from there the steps follow the code:
record, suppress or join, read each source (`Read`, `ReadBody`), extract
(`Extract`: any part of what a document has evidence for), qualify, answer by
letter or by the voice (`Speak`, `FailToSpeak`), settle the account (`Settle`),
tell the bridge. `Sweep` writes to whom nobody has written; `Pay`, `ClearDebt`,
`Forgive` and `FailToPay` work the ledger of owed replies.

A letter that goes out is known by its idempotency key, as records in code are
(`Profile`, `Clarify`, `NoFacts`, `Interview`, `Confirm`, `LinkedIn`, `Reply`), so
"asked again" is a key that may or may not appear. Two definitions show what
the code does rather than what it means to: `Readable` is false of PDF and DOCX,
and `RowShowsUrl` is false of everything (see below).

## The runs

Deadlock is checked except in `outbox`, `observing` and `curating`, where all that
the bounds allow may be done: a halted desk has nothing left to send, a settled
reading nobody left to ask, and a process that cannot boot stays down.

| Run | Instance | Question |
|---|---|---|
| `outbox` | 2 letters, 3 attempts, backoff 1, 2 and 3 ticks, 2 crashes, the halt on or off at any boot, lost acknowledgements, recovery possible, fair | No stale copy in the drain, copies within attempts, final states final and not early, every letter settles unless the process dies or is halted |
| `desk` | one pair, the owner unknown at first, two messages of any of six intents, 2 attempts, 1 crash, no lost acknowledgements, fair | The rows of the outbox tell the truth and no letter leaves twice (`OneLetter`), introductions are earned, deliveries find their match, stops are final and land, windows close and introductions settle, and `DoubleBlind` |
| `consent` | two matches of one person, both live, whose address another sender's header contains; a confirm hook beside the connect loop, 2 replies | Each side's approval has its ground, one no is a no, one hand per letter, rulings stand, and `DoubleBlind` |
| `consent_live` | one match, a hook beside the loop, 2 replies under a header that contains both addresses, 1 crash, 1 lost acknowledgement, fair | Resends are bounded by mishaps; claims, SENDING rows, confirmed matches and answers are dealt with |
| `reading` | two letters that share a document and one that no parser reads, batches of two, two workers in process, one seat a side, two numberings, 1 stop, 1 mishap | The cursor skips nothing, letters are whole, RUNNING rows are run, seats keep up |
| `reading_live` | one letter with a page and an old document, one lane, two prompts, 2 stops, 1 mishap, fair | What counts as read is current and not read too often, attempts are earned, and every letter is read |
| `observing` | two jobs for one letter of three lines (a person, a fact about it, an invention), a voice, one slot, 2 attempts and one extra round, 2 asks, a shutdown, fair | Nothing accepted is lost, the slots are exact, the graph is grounded, every ask settles |
| `curating` | two people whose intents, roles and documents answer each other and who both also talk of their intake, an organisation, two moves of the operator, 1 bridge, 1 restart, limit 1, fair | The limit, nothing thin, rulings and refusals stand, what lands is scanned, strangers are qualified |
| `intake` | one person's resume, a follow-up with a PDF and a note, a deletion and a stop, 1 crash, fair | Every letter is answered or owed, debts are paid, no profile is asked for while facts are on file, the sweep finds whom a crash left |
| `outbox_stalled` | 1 letter, 2 attempts, 1 crash, as shipped, fair | violation of `LettersSettleAcrossRestarts` |
| `desk_lost_veto` | one pair, one PASS | violation of `PassIsHeard` |
| `intake_early_tick` | as `intake`, no crash | violation of `WholeMail` |

`Consistent` in each module is the type invariant and the invariant that ties its
rows to whoever is at work on them: `DeliveryFindsItsMatch` (`Desk`),
`OneHandPerLetter` (`Consent`), `RunningIsRun` and `SeatsKeepUp` (`Reading`),
`GateIsExact` and `GraphIsGrounded` (`Observing`), `NeverMoreThanFive`
(`Curating`), `EveryLetterIsAnsweredOrOwed` (`Intake`). `PartiesDecide` is
`BothSaidYes` and `OneNoIsANo`; `MatchesMoveOn` is `WindowCloses` and
`IntroductionSettles`; `NothingIsStranded` is `ClaimsResolve`, `SendingResolves`
and `ConfirmedIsTried`.

What the properties excuse, because the code does not keep it: `LettersSettle`,
`MatchesMoveOn`, `StopsLand` and `AnswersAreRead` a crash, `BothSaidYes` a message
that counts for a side and is somebody else's, `NeverAskedAgain` the LinkedIn
question, `RulingsAreFinal` the operator, who may rule as often as he likes,
`EveryLetterIsRead` a letter that a stop left recorded and without a job,
`EveryClaimIsScanned` and `StrangersAreQualified` a promotion that throws,
`EveryLetterIsAnsweredOrOwed` a letter that a crash found in hand. Each of
these is listed below.

Why these bounds reach the cases that matter:

- *Outbox.* Two letters make a batch that is half drained when something goes
  wrong. Three attempts give a first, a middle and a last one, and backoffs on both sides of
  the cap. Two crashes let a crash meet the leftovers of another. One
  letter and one crash are all that `outbox_stalled` needs.
- *Desk.* All its properties are about one pair. Two previews
  and one introduction with two attempts each can be delivered by different
  ticks, in any order, retried, or die. Two messages give every ordered pair of
  intents, from one member or from both, before, inside and after the window. A
  window of one tick can be open and can be over.
- *Consent.* Two live matches with a common person are the least in which one
  reply can answer two previews, an entrant's list can hold two letters, and the
  other entrant can take one from under it. With two replies both sides can
  answer, or one side twice. In `consent` Bob's address is contained in Cid's, so
  that a message of Cid's can answer both matches; in `consent_live` the header of
  all mail contains both addresses of the pair, so that one message may ground both
  approvals, be noted by one side and read by the other. `consent_live` has one match, so that a crash and a
  lost acknowledgement can fall at every step of it. Its replies are `yes` and
  `words`, where `words` may be read as a decline.
- *Reading.* Three messages and batches of two give a batch with a hole, one cut
  by the batch size and one begun in the middle of a numbering; the shared
  document is carried by one letter while the other is filed. One seat a side
  makes the second claimant come too late. Two workers can hold two jobs in any
  order; they are interchangeable, so `reading`, which has no liveness, uses them as a
  symmetry. `reading_live` has no garbled letter, since a batch of nothing
  else stalls the cursor; its two stops and two prompts let a row be re-opened
  for each reason and for two at once.
- *Observing.* Two jobs for one letter are the least that share an inference; a
  second ask can come at any point of the first. One slot and a voice make
  somebody wait in line for every failure of somebody else. Two attempts and an
  extra round give a retry after each kind of failure and a grading before and
  after it. The three lines are one claim that stands, one that falls with it,
  and one that must be rejected.
- *Curating.* A limit of 1 is reached by one confirmation and exceeded by two.
  The rows make the arms of intents and of roles each propose the same two people
  from a different end, a graded document compete with the intents, and the
  words of the intake outbid both if they were let in. Two moves give
  every ordered pair of levers around a scan, the bridge and a boot; an operator
  has a hand in one person and in the organisation.
- *Intake.* The four letters lead one person through every state: a first
  resume that leaves a field open, a follow-up that answers it beside a
  document of a kind the code cannot read back, a deletion, and a stop on top of
  it, which throws. A crash can fall between any two writes of this.

## Fairness

- `Outbox`: weak fairness of the drain as one action: the tick loop comes round
  for ever and an awaited send settles. It says nothing of *how* it settles: the
  server may refuse for ever. The clock has strong fairness because it moves
  only between drains, and is therefore disabled again and again; time passes
  all the same. Weak fairness of boot is the supervisor (`bin/daemon.mjs`).
  Nothing is assumed of recovery, which nothing schedules.
- `Desk`: the same, for the tick as a whole. Nobody has to write. A tick that
  throws is followed by another (`deskLoop` catches).
- `Consent`: strong fairness of whatever waits for the thread. The event loop is
  a queue: a settled promise or a due timer is enabled and disabled while others
  hold the thread, and is served in the end. Nobody has to confirm, reject or
  reply, and no server has to accept.
- `Reading`: the two loops keep turning (`File`, `StartDrain`), every worker
  takes and completes, backoffs end, the process is started again. Failures are
  bounded by `MaxMishaps`, so this assumes that a model that is asked often
  enough answers; nobody has to write and no page has to arrive.
- `Observing`: a stream ends one way or the other, since the client has a
  deadline and `max_tokens`; a reading that sleeps resumes; a voice is answered.
  No answer has to be good.
- `Curating`: a drain that committed nudges, a connect loop that is awake scans,
  and then falls asleep. `TimeToLook`, the clock, is left out on purpose: what
  lands must be seen because of the nudge. The operator and the parties are
  obliged to nothing.
- `Intake`: the tick goes on and the process is started again. That the voice
  does not fail for ever on one letter (strong fairness of `Pay`) is an
  assumption about the environment, without which a debt stays a debt.

## The proofs

Every safety property that a passing run checks is also a theorem: the run shows it on
an instance, the theorem for all constants that meet the module's assumptions.
Each proof module states its inductive invariant in named parts, shows
`Init => IInv` and `IInv /\ [Next]_vars => IInv'`, and derives the properties.

### The outbox

`OutboxProofs` proves, for any set of letters, any retry policy, any claim limit
and any number of crashes, with `OutboxAssumption` as the only hypothesis:

- `TypeCorrect`: the type invariant, in it that attempts stay within the policy;
- `AttemptsBoundCopies`: the server never has more copies of a letter than its
  row has attempts, whatever gets lost;
- `DrainsHoldFreshRows`: a drain's list and the copy it holds are never stale;
- `Finality`: SENT and DEAD are final, no attempt is taken back, and no letter is
  given up before its attempts are used up, unless it was refused for good.

And, assuming `Lossless` (no acknowledgement is lost, and nothing recovers
stalled rows, as in the shipped program):

- `TruthfulRows`, `AtMostOneCopy`: a row at rest tells the truth, and an email
  is at most one email over any number of crashes;
- `Refinement`: `Outbox` implements `OneLetter`.

The hypothesis is needed: with either of the two a second copy can leave, under
the same row, and `CopiesWithinAttempts` is what remains.

The argument. None of the properties is inductive. `IInv` adds where the loop is
and what it holds (`HandInv`: the row in hand is SENDING until it is SENT), who
may wait and for how long (`WaitInv`: a waiting row has an attempt left, which is
why counting one more at a claim stays within the policy), room for the copy a
send may take (`CountInv`), and that nothing but the loop itself touches what is
in its batch (`BatchInv`). `StepIInv` goes through the actions one by one, with
what `markFailed` may write stated once (`FailedJobsShape`, `FailedRow`).
`DoubtInv` then adds what a SENDING row may hide: at most one copy, none while
the send is awaited, exactly one once it has resolved. `RowsAdvance` is the
step-wise form of finality, `GivenUpLate` that of its last part. `EarnedInv` says that a SENT row has the message id of a
letter that left. For the refinement each action is mapped to a step of
`OneLetter` or to a stutter; `TruthfulRows` decides which.

### The reading of mail

`ReadingProofs` proves, from `ReadingAssumption`, for any mailbox, any
batch size, workers, lanes, renumberings, prompts, stops and mishaps:

- `MailIsNeverSkipped`: the cursor never stands past a letter that parses and is
  not on record;
- `LettersAreWhole`: a letter has a job only when each of its documents is on
  record under it or was refused;
- `NobodyIsStranded`: while the process is up, the RUNNING jobs are exactly those
  its workers hold, each held once;
- `ReadingsAreCurrent`, `ReadingsAreNotRepeated`: what counts as read was read
  under the prompt deployed, and no letter or page more often than there were
  prompts, and once more if it was found empty;
- `AttemptsAreAccountedFor`: attempts are readings, failures, deaths, and the
  one in progress;
- `SeatsKeepUpWithMail`: types, and the founding seats, of which below.

The argument. That the cursor skips nothing is not inductive, for the cursor moves
over a whole batch at once. `BatchInv` says that in the numbering the listener
was told, a batch in hand leaves no hole between the cursor and the place it has reached:
each letter there is on record, unreadable, or still ahead in the batch. Once the
batch is through, that is what `Commit` needs; if the mailbox was renumbered in
between, the cursor it writes belongs to a numbering nobody asks for any more.
`MailInv` keeps the mailbox and the cursor in range, `HandInv` what the listener
holds (`FilingInv` is the four together). `LetterInv` says of the letter in hand
which of its documents are in, which makes `WholeLetter` inductive at
`EnqueueLetter`. `JobsInv` types the rows and ties the RUNNING ones to workers. On top, `BooksInv` is a statement per row (`Earned`, `Once`, `Current`);
what each operation of `Jobs` does to it is a lemma (`EarnedOps`, `OnceOps`,
`CurrentOps`), what a boot does to a row another (`BootedBooks`), and the step
lemmas only say which rows an action touches. TLC has checked `IInv` and
`BooksInv` as invariants of both instances.

The founding seats are the harder half of `SeatsKeepUpWithMail` (`Consistent`): no
side has more than its limit, and whoever declared a side in a letter on record has
a seat, or found a side full, although the process may die between the record and
the claim. `SeatInv` says that seats are only given (`Given`) and that each
letter on record is served (`Served`) unless it is the one about to claim;
`RangesInv` keeps counters in their bounds. What the pass of a boot does is a fold,
that is, a recursive function over the letters left; that this function exists
(`PassExists`) and serves every letter (`PassGives`) is shown by way of a least
counterexample, since a least number is a fact the provers can use and induction
over an operator is not. The proof brought out an assumption that had been
silent: a letter that names a side in a file name has a document
(`graph/ingest.js:94`, names and count are of one list); without it the
backfill, which has only the count, would miss its sender.

### The desk

`DeskProofs` proves, from `DeskAssumption` and `DeskOutboxAssumption` (the types
of the retry policy), for any members, any pairs that may be proposed and any
number of restarts, acknowledgements lost or not:

- `DeskIsConsistent`: rows have their shapes, and a delivery finds its match in a
  state that can record it, so nothing throws inside the drain;
- `IntroductionsAreEarned`: an introduction rests on two delivered previews and on
  two approvals or the end of a disclosed window;
- `StopsAreFinal`: nothing leads back from a stop, and no letter is queued to
  whoever stopped;
- `RunsTheOutbox`: `Desk` implements `Outbox`, so that what is proved of an
  outbox holds of the desk's; with it, while no acknowledgement is lost,
  `DeskRowsAreHonest` (a row at rest tells the truth), `DeskKeepsItsPromise` (the
  desk implements `OneLetter`) and `OneOfEachLetter` (no preview and no
  introduction leaves twice);
- `DeskRefinesDoubleBlind`: `Desk` implements `DoubleBlind`, a second copy of a
  letter being a stutter.

The argument. `OP` is `Outbox` once more, with its proofs, on the desk's rows. Each
step of the desk is a step of it or leaves its rows alone (`DeskStep`), which hands
over `OP!IInv` and `OP!EarnedInv` (a row that is SENT has a message id). On top,
`ToldInv`, `DecidedInv`, `CalledInv` and `FlightInv` follow one match: no preview
exists before its match is proposed; a delivery on record is the one the outbox
has, by message id; the window opens only with the last delivery; nobody decides
before that, and a live match has no objection; an introduction exists only for a
match called for it. `StageInv` and `QueueInv` say where in the tick the loop is, and that
the letters it still has to queue are those of the match just saved, which a crash
may leave without them. In the refinement only `Decide`
changes objections and only `Send` changes copies.

### The consent round

`ConsentProofs` proves, from `ConsentAssumption` and `SenderAssumption` (a header
contains addresses of parties, any of them), for any pairs, replies and restarts:

- `ConsentIsConsistent`: types, one hand per letter, one no is a no, the books of
  a pair agree;
- `BothSidesDecide`: an introduction rests, for each side, on a preview on record
  as sent and on a later message whose header contains that side's address and
  which is not a no; a no of either ends the matter;
- `EachSaidYes`: where no header contains the address of anybody but its sender,
  the message behind each approval is from that very side. This is an assumption
  about the mail that the code does not enforce;
- `RulingsAreFinal`: a ruling is never taken back;
- `ConsentRefinesDoubleBlind`: the same promise as the desk's;
- `ResendsAreBounded`: a second copy of a letter is paid for by a crash or a
  failure between its sending and its row.

The argument. `RowsInv` ties, per match and side, the slots of the row to what was
sent and said; `DrainInv` and `EntrantInv` say what the two drains hold across their
awaits: the row they read is stale, and what of it may still be trusted is stated
there; `RepliesInv` says which replies may exist. For the resends, `StrayInv`
bounds copies by rows and mishaps. A crash strands at most one copy, since whoever
holds an introduction has both previews on record as sent.

### Observations

`ObservingProofs` proves, from `ObservingAssumption` (a claim that is about another
claim is not itself the subject of one, `REF_FIELDS` of `intelligence/schema.js`):

- `ReaderIsConsistent`: the gate counts exactly who streams, is never wider than it
  was set, admits whoever it can, and answers say only what was verified;
- `AcceptedClaimsArrive`: what a round accepted is in the answer of its attempt,
  whatever fails after it;
- `WhoWaitsIsBeingRead`: whoever waits for a reading waits for one under way,
  the safety half of `EveryAskSettles`.

The argument is by caller of the gate: `GateInv` is kept by acquiring and by
handing on, stated once for each (`AcquireAdmits`, `ReleaseHandsOn`);
`InferenceInv` says of each inference what its stage entitles it to have banked.

### The graph and its queue

`CuratingProofs` proves, from the assumptions of `Curating` (finite sets of
subjects, claims and grades, claims well formed):

- `TheLimitHolds`: nobody is in more than five live introductions, whatever
  proposes, retypes, confirms and rejects in whatever order;
- `TheQueueRestsOnTheGraph`: a queued match rests on what both sides have on the
  graph;
- `OnlyTheOperatorRulesAgain`: nothing returns a match to PROPOSED, none is
  removed, and what is rejected or introduced is moved by the operator's hand only.
  He may rule again: `rejectMatch` takes any match, `confirmMatch` any of which a
  side has no address;
- `NoRobotMovesANo`: only the operator moves somebody who declined.

The argument. A proposal of the scorer is sound (`ProposedAreSound`): `SupportRange`
and `ScoreRange` bound the scores of `Matching`, and a pair that shares nothing
stays below the threshold. What is shared only grows with the graph
(`GraphGrows`), so soundness outlives the scan. Each step leaves the matches,
files proposals, or moves one that has room (`StepMatches`). Two things came out of
the attempt. `QueueIsSubstantial` had been too strong beyond the instance: of a
graded proposal the code asks only whether the *ask* is about intake
(`graph/matching.js:456`), and an intent with an empty object may share a
value; it now says what the code ensures. And `Walk`, which was recursive, is now its at most
four hops.

### Intake

`IntakeProofs` proves, from `IntakeAssumption` (in it that no letter is posted
twice: what the graph files is told apart by content):

- `LettersAreAnsweredOrOwed`: every letter of a member that was read to its end was
  answered or is owed;
- `NoProfileIsAskedForAgain`: while facts about a member are on file, neither the
  profile request nor the no-facts letter is queued. The LinkedIn question is not
  covered: it is asked with the URL on file (`runtime/yente.js:766`);
- `TheSuppressedAreLetBe`: nothing is sent to whom the tick found suppressed.

The argument. `EveryLetterIsAnsweredOrOwed` is inductive once `TickInv` and
`HandInv` say where in the tick a letter in hand is and what has been saved of it,
and `DebtsInv` that only letters on record are owed; the steps differ in which
of outbox, debts and members they write, and each invariant has one lemma for that.

### What is only model-checked

Liveness (`LettersSettle`, `MatchesMoveOn`, `StopsLand`, `NothingIsStranded`,
`AnswersAreRead`, `EveryLetterIsRead`, `EveryAskSettles`, `EveryClaimIsScanned`,
`StrangersAreQualified`, `EveryDebtIsPaid`, `TheSweepFindsThem`): the prover has
no rules for fairness and `ENABLED`. And the three runs that end in a
counterexample, which are not there to be proved.

## Where the code and its documents disagree

Three have a run that shows them, and TLC's trace is a history of ordinary events.

| Run | What happens |
|---|---|
| `outbox_stalled` | The process dies between the SENDING row and the answer of the server. Nothing calls `recoverStalledSend` (`domain/outbox.js:414`, whose comment is about this very case) but its test: after the boot the row stays SENDING under drains that run for ever, where SPEC_v2.md:916 has a restart safe during any state transition. |
| `desk_lost_veto` | A PASS that comes while the *other* preview is still being retried is recorded and dropped (`runtime/yente.js:1077`); the window runs out and the introduction leaves, where SPEC_v2.md:217 lets either member's veto prevent it. |
| `intake_early_tick` | The comment at `runtime/yente.js:255` has a letter qualified once, after every source on it is stored. A tick between the filing of a letter and the filing of its document takes the letter without it, and the document becomes nobody's source (`:285`). |

The others were met while modelling. The models do what the code does, the
properties excuse or leave out what follows, and no run states them.

Outbox and desk:

- Recipients are checked when a letter is queued and not when it is sent: what was
  queued before a STOP leaves after it (`runtime/yente.js:1279`; SPEC_v2.md:893).
- The message is recorded before the member is saved; a crash in between loses the
  STOP, for the message is now a duplicate (`runtime/yente.js:496`).
- The count of live matches reads a field that is never stored, so the cap of
  five never holds anybody back in the desk (`runtime/yente.js:942`).
- A PASS is applied to every open match of its sender (`runtime/yente.js:1075`;
  SPEC_v2.md:892).
- A crash between saving a match as queued and queueing its letters leaves a
  match that no later sweep looks at (`runtime/yente.js:1000`, `:1116`), and a
  preview that goes DEAD leaves its match waiting (`:1301`).

Consent:

- A message is a side's answer when its From header *contains* the side's address
  (`graph/consent.js:336`): one of `joann@x.com`, or of somebody whose display name
  carries the address, counts for `ann@x.com`, where the comment at `:12` has the
  introduction go out only when both reply yes. `BothSaidYes` says what the code
  ensures, and `EachSaidYes` under which assumption that is enough.
- `consentSeen` is kept per match and asked of a stale copy
  (`graph/consent.js:338`): a message that counts for both sides is read by both in
  one pass, but what one side has noted alone is shown to neither in a later one.
- One side's no is read in the same pass in which the other's preview is sent
  again: the card of a rejected match goes out (`graph/consent.js:312`).
- A reply is noted as seen before its verdict is known; a crash in between loses
  the answer (`graph/consent.js:341`).
- A stop in reply to the graph arm declines the match and suppresses nothing.

Intake:

- A PDF or DOCX is filed as text under its own type and parsed again as what it
  was, so that each is answered with "I could not read that file"
  (`runtime/yente.js:308`, `graph/documents.js:207`); the tests use plain text.
- The LinkedIn question is always open, for the rows it looks at carry no text
  (`runtime/yente.js:766`).
- A document that two letters share is folded only onto the first.
- A crash after the facts are complete and before the interview has begun leaves a
  member whom the sweep counts as answered and writes nothing to; a crash between a
  reply and the deletion of its debt leaves a debt that costs a model call
  each tick; a crash while the voice is awaited loses the letter before it is owed.
- A STOP of a deleted member throws out of the tick, and whoever the tick had
  qualified reaches the graph only at the next boot, as do those the sweep
  qualifies (`runtime/desk.js:41`).
- An empty evidence ledger falls back to fetching unseen mail
  (`runtime/yente.js:246`), which its comment reserves for desks without a graph.

Reading:

- A crash between evidence and job leaves evidence that nobody reads, for it is a
  duplicate at the next fetch (`graph/ingest.js:75`, against the comment at `:15`).
- A batch in which nothing parses leaves the cursor and is fetched for ever
  (`mail/source.js:166`). `fetchSince` cuts a batch before it sorts it.
- `reassignOwner` re-opens a retired job too, and re-opening costs the inference
  its comment says it does not (`store/graph.js:457`).
- The backfill of seats has lost the names of files, so a side that only those
  declare is not restored (`bin/yente.mjs:199`).
- With no lanes a shutdown costs an attempt; with lanes it is refunded.
- A link whose fetch failed is never tried again, and who joins a fetch is told
  it was already enriched (`graph/enrich.js:95`).
- A job whose claims were all duplicates counts as empty and is re-opened, once.

Observing:

- A rejected dangling claim is graded under the wrong line of the prompt
  (`intelligence/provider.js:905`), for the index is that of the survivors.
- A claim that was struck may be harvested again, and one written from a partial
  result stays on the graph.
- A claim whose entity was not grounded is dropped silently, where the comment at
  `intelligence/queue.js:57` says there is no such case.
- The limit of attempts in the catch does not count the rounds used.
- A joiner's own seeds are ignored; each lane has a gate of its own.

Curating:

- After the operator has retracted a profile state, or set one again, the same row
  cannot be written a second time: a promotion then throws, and with it the whole
  pass, scans and drains included, for ever; the same throw at boot ends the process
  (`store/graph.js:107`, `graph/manager.js:627`, `bin/yente.mjs:402`, whose comment
  has the backfill idempotent).
- A person who declined and writes again is never heard
  (`graph/qualification.js:83`).
- "Wrong" on a standing profile state asserts it again, at the operator's authority.
- A retraction of an intent, a role or a fact is a row of its own and takes the
  first one out of neither matching nor promotion (`graph/manager.js:553`).
- `confirmMatch` checks room again and eligibility not (`graph/manager.js:375`).
- Matching uses raw subject ids where promotion uses merged ones; `not_same_as`
  keeps apart only the two it names; no lever takes an exclusion back.
- Two intents that answer each other queue one meeting from both ends, and a
  rejected pair may come back under another type.
- A pair of which a side is no address is confirmed over any state
  (`graph/manager.js:409`).
- The operator's levers do not nudge the connect loop.

## What is not modelled

- `DELIVERY_FAILED`, which the workflow names and nothing writes, and the state
  PROPOSED of the desk, which is never stored.
- The consent round with `YENTE_PARTY_APPROVAL=0`.
- In `Intake`: graceful shutdown, the save of the profile view, the arrival of letters out
  of order, the fallback to unseen mail. What a STOP cancels and what decisions do is
  in `Desk` and `Outbox`.
- In `Reading`: the branch for permanent HTTP failures, which cannot fire; the
  order and the limit of `ready()`; enrichment by vendors; the sign-up form.
- In `Observing`: the inference cache, which nothing configures; observations on
  lanes, each of which has a client of its own; the bank's order; wording.
- In `Curating`: the consent round (in `Consent`); the search pages. One tokenizer
  stands for the code's two, and confidence is in hundredths.
- Opportunity matching of the desk, which enters as the constant `Eligible`.
- Text: prompts, extraction, composition, rendering; what comes of it is a
  nondeterministic choice where control depends on it.
- The store itself: a `put` is atomic and durable.
- The site, Python workers, triage by model, the founding sequence and one-off
  scripts, which run outside the process or change nothing in it.

## The plan

1. *Proofs*: the safety properties of all components are proved. Left are facts
   about `Matching` as a function (that a score is symmetric where the code means it
   to be, that more evidence never lowers it), and for liveness the safety half of
   each promise: that whoever waits has somebody to wait for, as
   `WhoWaitsIsBeingRead` says for observations.
2. *Consent, wider*: party approval off, the second introduction of a pair that
   was confirmed twice, and the desk's stops seen from the graph arm (they are
   not).
3. *Desk, wider*: previews that die, and what a repair at boot would have to do
   for matches that a crash left queued.
4. *Seats*: the subscription form beside the mail.
