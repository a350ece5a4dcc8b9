--------------------------------- MODULE Reading ---------------------------------
(***************************************************************************)
(* From the mailbox to the graph: the listen loop (src/graph/loops.js over *)
(* src/mail/source.js and src/mail/imap-client.js), ingestion              *)
(* (src/graph/ingest.js, src/graph/documents.js, src/graph/enrich.js), the *)
(* founding seats a letter claims (src/waitlist), the understand loop      *)
(* (src/intelligence/queue.js over src/runtime/lanes.js), and the boot and *)
(* shutdown of bin/yente.mjs around them.                                  *)
(*                                                                         *)
(* One thread: loops interleave at their awaits.  Every put is durable as  *)
(* it is made, and the process may die between any two.  UIDs are the      *)
(* positions of the mailbox; a new UIDVALIDITY renumbers it.               *)
(***************************************************************************)
EXTENDS Jobs, FiniteSets, Integers, Sequences, Folds

CONSTANTS
  Messages,     \* letters people may send
  Garbled,      \* those of them no parser reads
  From,         \* From[m]: the sender
  Subject,      \* Subject[m]: the cohort its subject line names, or Nothing
  FileNames,    \* FileNames[m]: the cohort its file names name, or Nothing
  Docs,         \* Docs[m]: the sequence of documents attached to m
  Links,        \* Links[m]: the pages m links to
  Historical,   \* documents with a job of their own, from before letters
                \* were read whole
  BatchSize,    \* batchSize of the mail source
  Workers,      \* observations at once: concurrency, or the ingest lanes
  Lanes,        \* do observations run on lanes?
  SeatLimit,    \* COHORT_LIMIT
  MaxEpoch,     \* bound: UIDVALIDITY values
  MaxPrompt,    \* bound: prompt versions deployed
  MaxRestarts,  \* bound: crashes and shutdowns
  MaxMishaps,   \* bound: fetches, extractions and observations that fail
  Nothing       \* no message, no side

Documents == UNION {{Docs[m][i] : i \in DOMAIN Docs[m]} : m \in Messages}
Pages == UNION {Links[m] : m \in Messages}
Items == Messages \cup Documents \cup Pages
People == {From[m] : m \in Messages}

\* Evidence of a message, of a document and of a page is told apart by its id.
\* Names and documents are of one list of attachments (src/graph/ingest.js).
ASSUME ReadingAssumption ==
  /\ Garbled \subseteq Messages
  /\ DOMAIN From = Messages /\ DOMAIN Subject = Messages /\ DOMAIN FileNames = Messages
  /\ DOMAIN Docs = Messages /\ DOMAIN Links = Messages
  /\ \A m \in Messages : Docs[m] \in Seq(Documents)
  /\ \A m \in Messages : FileNames[m] # Nothing => Docs[m] # <<>>
  /\ Historical \subseteq Documents
  /\ Messages \cap Documents = {} /\ Messages \cap Pages = {} /\ Documents \cap Pages = {}
  /\ Nothing \notin Items
  /\ Nothing \notin {"investor", "founder"}
  /\ BatchSize \in Nat \ {0}
  /\ Lanes \in BOOLEAN
  /\ SeatLimit \in Nat
  /\ MaxEpoch \in Nat \ {0} /\ MaxPrompt \in Nat \ {0}
  /\ MaxRestarts \in Nat /\ MaxMishaps \in Nat

VARIABLES
  box,          \* the mailbox: a message's UID is its place
  epoch,        \* its UIDVALIDITY
  cursor,       \* the MAIL_CURSORS row: durable
  listener,     \* the listen loop: where it is, the epoch it was told, the
                \* batch in hand, the documents of the head still to extract
  filed,        \* messages and pages in EVIDENCE: durable
  carriers,     \* carriers[d]: the letters document d is recorded under: durable
  gaps,         \* <<m, d>> whose extraction failed
  seats,        \* seats[p]: p's cohort, or Nothing: durable
  fetching,     \* <<page, sender>> whose extraction is awaited (inFlight)
  jobs,         \* the INTELLIGENCE_JOBS rows: durable
  snapshot,     \* what the drain in progress has still to claim
  worker,       \* worker[w]: the job whose observation w awaits
  reads,        \* observations that came back complete, per item
  blamed,       \* attempts that failed or died with the process, per item
  prompt,       \* the prompt version this build observes with
  up,           \* is the process running?
  restarts, mishaps   \* so far (bounded)

mailVars == <<box, epoch>>
fileVars == <<filed, carriers, gaps, seats, fetching>>
drainVars == <<snapshot, worker, reads, blamed>>
vars == <<mailVars, cursor, listener, fileVars, jobs, drainVars,
          prompt, up, restarts, mishaps>>

\* batch maps the UIDs in hand to their messages; at is the UID being filed,
\* high the last one filed.
Resting == [pc |-> "idle", epoch |-> 0, batch |-> <<>>, at |-> 0, docs |-> <<>>, high |-> 0]
ListenerPcs == {"idle", "asked", "filing", "claiming", "attaching"}

\* Once, a document was read alone: such jobs are DONE under an older prompt.
OldJob == [NoJob EXCEPT !.state = "DONE", !.attempts = 1, !.claims = 1]

Init ==
  /\ box = <<>> /\ epoch = 1
  /\ cursor = [epoch |-> 0, uid |-> 0]
  /\ listener = Resting
  /\ filed = {} /\ gaps = {} /\ fetching = {}
  /\ carriers = [d \in Documents |-> {}]
  /\ seats = [p \in People |-> Nothing]
  /\ jobs = [x \in Items |-> IF x \in Historical THEN OldJob ELSE NoJob]
  /\ snapshot = {} /\ worker = [w \in Workers |-> Nothing]
  /\ reads = [x \in Items |-> IF x \in Historical THEN 1 ELSE 0]
  /\ blamed = [x \in Items |-> 0]
  /\ prompt = 1
  /\ up = FALSE /\ restarts = 0 /\ mishaps = 0
-------------------------------------------------------------------------------
(* The mail server.                                                        *)

Box == {box[i] : i \in DOMAIN box}

Deliver(m) ==
  /\ m \notin Box
  /\ box' = Append(box, m)
  /\ UNCHANGED <<epoch, cursor, listener, fileVars, jobs, drainVars, prompt, up,
                 restarts, mishaps>>

\* The mailbox is rebuilt: another UIDVALIDITY, every message another UID.
Renumber ==
  /\ epoch < MaxEpoch /\ Len(box) > 1
  /\ epoch' = epoch + 1
  /\ box' = [i \in DOMAIN box |-> box[Len(box) + 1 - i]]
  /\ UNCHANGED <<cursor, listener, fileVars, jobs, drainVars, prompt, up,
                 restarts, mishaps>>
-------------------------------------------------------------------------------
(* The listen loop: fetchNew, then ingestMail over the batch.              *)

Ask ==
  /\ up /\ listener.pc = "idle"
  /\ listener' = [Resting EXCEPT !.pc = "asked", !.epoch = epoch]
  /\ UNCHANGED <<mailVars, cursor, fileVars, jobs, drainVars, prompt, up, restarts, mishaps>>

\* Slip: the cursor is believed across a change of UIDVALIDITY.
SinceWhateverEpoch(told) == cursor.uid

\* The UID to read after: the cursor's, when it is of the epoch just told.
Since(told) == IF cursor.epoch = told THEN cursor.uid ELSE 0

\* fetchSince: the next BatchSize UIDs after the cursor, in order.
Fetched(since) == {i \in DOMAIN box : i > since /\ i <= since + BatchSize}

\* The rows that parse; one that does not is passed over.
Parsed(uids) == [i \in {u \in uids : box[u] \notin Garbled} |-> box[i]]

\* Nothing that parses means nothing to do: the loop goes to wait for mail.
Fetch ==
  /\ up /\ listener.pc = "asked"
  /\ LET batch == Parsed(Fetched(Since(listener.epoch)))
     IN listener' = IF DOMAIN batch = {} THEN Resting
                    ELSE [listener EXCEPT !.pc = "filing", !.batch = batch]
  /\ UNCHANGED <<mailVars, cursor, fileVars, jobs, drainVars, prompt, up, restarts, mishaps>>

\* The connection throws, before or in the fetch: the loop backs off.
FetchFails ==
  /\ up /\ listener.pc = "asked" /\ mishaps < MaxMishaps
  /\ listener' = Resting
  /\ mishaps' = mishaps + 1
  /\ UNCHANGED <<mailVars, cursor, fileVars, jobs, drainVars, prompt, up, restarts>>

Letter == listener.batch[listener.at]

\* The message at UID u is done with: on to the next.
Past(u) == [listener EXCEPT !.pc = "filing", !.docs = <<>>, !.at = 0, !.high = u,
                            !.batch = [v \in DOMAIN @ \ {u} |-> @[v]]]

\* Oldest first, and evidence first.  What is on record already costs nothing.
Record ==
  /\ up /\ listener.pc = "filing"
  /\ \E u \in DOMAIN listener.batch :
       /\ \A v \in DOMAIN listener.batch : u <= v
       /\ \/ /\ listener.batch[u] \in filed
             /\ listener' = Past(u)
             /\ UNCHANGED filed
          \/ /\ listener.batch[u] \notin filed
             /\ filed' = filed \cup {listener.batch[u]}
             /\ listener' = [listener EXCEPT !.pc = "claiming", !.at = u]
  /\ UNCHANGED <<mailVars, cursor, carriers, gaps, seats, fetching, jobs, drainVars,
                 prompt, up, restarts, mishaps>>

\* cohortFromInbound: backing words win, then building words, then any file.
Cohort(m, names) ==
  CASE "investor" \in {Subject[m], names} -> "investor"
    [] "investor" \notin {Subject[m], names} /\
       ("founder" \in {Subject[m], names} \/ Docs[m] # <<>>) -> "founder"
    [] OTHER -> Nothing

Full(held, side) == Cardinality({p \in People : held[p] = side}) >= SeatLimit

\* claimInbound: a sender's first seat, while there is one.
ClaimSeat(held, m, names) ==
  LET side == Cohort(m, names) IN
  IF side = Nothing \/ held[From[m]] # Nothing \/ Full(held, side)
    THEN held ELSE [held EXCEPT ![From[m]] = side]

\* enrichLink: a page on record, or being fetched, is not bought again.
ToFetch(m) == {l \in Links[m] : l \notin filed /\ \A f \in fetching : f[1] # l}

\* onMessage claims the seat; then the sender's address and declared roles are
\* noted, and the links are set off, waited for by nobody.
Claim ==
  /\ up /\ listener.pc = "claiming"
  /\ seats' = ClaimSeat(seats, Letter, FileNames[Letter])
  /\ fetching' = fetching \cup {<<l, From[Letter]>> : l \in ToFetch(Letter)}
  /\ listener' = [listener EXCEPT !.pc = "attaching", !.docs = Docs[Letter]]
  /\ UNCHANGED <<mailVars, cursor, filed, carriers, gaps, jobs, drainVars, prompt, up,
                 restarts, mishaps>>

\* ingestAttachments, one document.  One already on record gains a letter, and
\* a finished job of its own is re-opened for a new sender.
Attach ==
  /\ up /\ listener.pc = "attaching" /\ listener.docs # <<>>
  /\ LET d == listener.docs[1] IN
     /\ carriers' = [carriers EXCEPT ![d] = @ \cup {Letter}]
     /\ jobs' = [jobs EXCEPT ![d] = ReassignOwner(@, From[Letter])]
  /\ listener' = [listener EXCEPT !.docs = Tail(@)]
  /\ UNCHANGED <<mailVars, cursor, filed, gaps, seats, fetching, drainVars, prompt, up,
                 restarts, mishaps>>

\* The parser refuses the document, or times out: a gap, and on to the next.
Refuse ==
  /\ up /\ listener.pc = "attaching" /\ listener.docs # <<>> /\ mishaps < MaxMishaps
  /\ gaps' = gaps \cup {<<Letter, listener.docs[1]>>}
  /\ listener' = [listener EXCEPT !.docs = Tail(@)]
  /\ mishaps' = mishaps + 1
  /\ UNCHANGED <<mailVars, cursor, filed, carriers, seats, fetching, jobs, drainVars,
                 prompt, up, restarts>>

\* Slip: the job does not wait for the documents.
AnyTime(docs) == TRUE

\* The job exists only after the whole letter does.
Whole(docs) == docs = <<>>

EnqueueLetter ==
  /\ up /\ listener.pc = "attaching" /\ Whole(listener.docs)
  /\ jobs' = [jobs EXCEPT ![Letter] = Enqueue(@, From[Letter])]
  /\ listener' = Past(listener.at)
  /\ UNCHANGED <<mailVars, cursor, fileVars, drainVars, prompt, up, restarts, mishaps>>

\* advance: forward within an epoch, afresh in a new one.
Advance(held, told, high) ==
  [epoch |-> told,
   uid   |-> IF held.epoch = told /\ held.uid > high THEN held.uid ELSE high]

\* Only now: the batch is filed, the cursor may move.
Commit ==
  /\ up /\ listener.pc = "filing" /\ DOMAIN listener.batch = {}
  /\ cursor' = Advance(cursor, listener.epoch, listener.high)
  /\ listener' = Resting
  /\ UNCHANGED <<mailVars, fileVars, jobs, drainVars, prompt, up, restarts, mishaps>>
-------------------------------------------------------------------------------
(* Links, fetched beside the loop.                                         *)

\* enrichViaWebExtract: evidence and job in one stretch.
PageArrives(f) ==
  /\ up /\ f \in fetching
  /\ filed' = filed \cup {f[1]}
  /\ jobs' = [jobs EXCEPT ![f[1]] = Enqueue(@, f[2])]
  /\ fetching' = fetching \ {f}
  /\ UNCHANGED <<mailVars, cursor, listener, carriers, gaps, seats, drainVars, prompt,
                 up, restarts, mishaps>>

\* A page that does not come is not asked for again.
PageFails(f) ==
  /\ up /\ f \in fetching /\ mishaps < MaxMishaps
  /\ fetching' = fetching \ {f}
  /\ mishaps' = mishaps + 1
  /\ UNCHANGED <<mailVars, cursor, listener, filed, carriers, gaps, seats, jobs,
                 drainVars, prompt, up, restarts>>
-------------------------------------------------------------------------------
(* The understand loop: drainIntelligence.                                 *)

Free(w) == worker[w] = Nothing

\* One drain at a time, over what is due as it begins.
StartDrain ==
  /\ up /\ snapshot = {} /\ \A w \in Workers : Free(w)
  /\ snapshot' = {x \in Items : Ready(jobs[x])}
  /\ snapshot' # {}
  /\ UNCHANGED <<mailVars, cursor, listener, fileVars, jobs, worker, reads, blamed,
                 prompt, up, restarts, mishaps>>

Take(w) ==
  /\ up /\ Free(w)
  /\ \E x \in snapshot :
       /\ snapshot' = snapshot \ {x}
       /\ jobs[x].state = "READY"
       /\ jobs' = [jobs EXCEPT ![x] = Start(@)]
       /\ worker' = [worker EXCEPT ![w] = x]
  /\ UNCHANGED <<mailVars, cursor, listener, fileVars, reads, blamed, prompt, up,
                 restarts, mishaps>>

\* The observation is complete.  The row counts what is new: nothing, when the
\* letter says nothing, or when an attempt cut short had written it already.
Complete(w) ==
  /\ up /\ ~Free(w)
  /\ LET x == worker[w] IN
     /\ \E claims \in {0, 1} : jobs' = [jobs EXCEPT ![x] = Finish(@, claims, prompt)]
     /\ reads' = [reads EXCEPT ![x] = @ + 1]
  /\ worker' = [worker EXCEPT ![w] = Nothing]
  /\ UNCHANGED <<mailVars, cursor, listener, fileVars, snapshot, blamed, prompt, up,
                 restarts, mishaps>>

\* The observation throws, its lane dies, or the stream breaks after some
\* claims came whole: those are kept, and the job stays open.
Falter(w) ==
  /\ up /\ ~Free(w) /\ mishaps < MaxMishaps
  /\ LET x == worker[w] IN
     /\ jobs' = [jobs EXCEPT ![x] = FailTransient(@)]
     /\ blamed' = [blamed EXCEPT ![x] = @ + 1]
  /\ worker' = [worker EXCEPT ![w] = Nothing]
  /\ mishaps' = mishaps + 1
  /\ UNCHANGED <<mailVars, cursor, listener, fileVars, snapshot, reads, prompt, up,
                 restarts>>

ComesDue(x) ==
  /\ jobs[x].state = "READY" /\ ~jobs[x].due
  /\ jobs' = [jobs EXCEPT ![x].due = TRUE]
  /\ UNCHANGED <<mailVars, cursor, listener, fileVars, drainVars, prompt, up, restarts,
                 mishaps>>
-------------------------------------------------------------------------------
(* The process.                                                            *)

Held == {worker[w] : w \in Workers} \ {Nothing}

\* Memory is gone: the batch, the fetches, the drain.
Forget ==
  /\ up' = FALSE
  /\ listener' = Resting /\ fetching' = {}
  /\ snapshot' = {} /\ worker' = [w \in Workers |-> Nothing]

\* The process dies.
Crash ==
  /\ up /\ restarts < MaxRestarts
  /\ Forget
  /\ restarts' = restarts + 1
  /\ UNCHANGED <<mailVars, cursor, filed, carriers, gaps, seats, jobs, reads, blamed,
                 prompt, mishaps>>

\* A signal: lanes hand back what they held, with the attempt; without lanes
\* the abort is one more failure.  What the 15 s run out on is cut as it is.
Shutdown ==
  /\ up /\ restarts < MaxRestarts
  /\ Forget
  /\ jobs' = [x \in Items |-> CASE x \in Held /\ Lanes  -> Release(jobs[x])
                                [] x \in Held /\ ~Lanes -> FailTransient(jobs[x])
                                [] OTHER                -> jobs[x]]
  /\ blamed' = [x \in Items |-> IF x \in Held /\ ~Lanes THEN blamed[x] + 1 ELSE blamed[x]]
  /\ restarts' = restarts + 1
  /\ UNCHANGED <<mailVars, cursor, filed, carriers, gaps, seats, reads, prompt,
                 mishaps>>

\* Every letter on record claims again, its file names no longer known as such.
Backfill(held) ==
  MapThenFoldSet(LAMBDA m, h : ClaimSeat(h, m, Nothing), held,
                 LAMBDA m : m, LAMBDA s : CHOOSE m \in s : TRUE, filed \cap Messages)

\* What boot makes of a row, pass after pass.
Booted(x, row, version) ==
  LET retired == IF x \in Documents THEN Retire(RequeueStranded(row))
                                    ELSE RequeueStranded(row)
  IN RequeueForPrompt(RequeueEmpty(retired), version)

Boot ==
  /\ ~up
  /\ up' = TRUE
  /\ prompt' \in {v \in {prompt, prompt + 1} : v <= MaxPrompt}
  /\ seats' = Backfill(seats)
  /\ jobs' = [x \in Items |-> Booted(x, jobs[x], prompt')]
  /\ blamed' = [x \in Items |->
       IF jobs[x].state = "RUNNING" THEN blamed[x] + 1 ELSE blamed[x]]
  /\ UNCHANGED <<mailVars, cursor, listener, filed, carriers, gaps, fetching, snapshot,
                 worker, reads, restarts, mishaps>>

File == Ask \/ Fetch \/ Record \/ Claim \/ Attach \/ EnqueueLetter \/ Commit

Next ==
  \/ \E m \in Messages : Deliver(m)
  \/ Renumber
  \/ File \/ FetchFails \/ Refuse
  \/ \E f \in fetching : PageArrives(f) \/ PageFails(f)
  \/ StartDrain
  \/ \E w \in Workers : Take(w) \/ Complete(w) \/ Falter(w)
  \/ \E x \in Items : ComesDue(x)
  \/ Crash \/ Shutdown \/ Boot

Spec == Init /\ [][Next]_vars

\* The loops keep turning, a model that is asked answers at last, backoffs
\* end, and a process that died is started again.  Failures are bounded.
FairSpec ==
  /\ Spec
  /\ WF_vars(File) /\ WF_vars(StartDrain) /\ WF_vars(Boot)
  /\ \A w \in Workers : WF_vars(Take(w)) /\ WF_vars(Complete(w))
  /\ \A x \in Items : WF_vars(ComesDue(x))
-------------------------------------------------------------------------------
(* Properties.                                                             *)

TypeOK ==
  /\ box \in Seq(Messages) /\ epoch \in 1..MaxEpoch
  /\ cursor \in [epoch : 0..MaxEpoch, uid : 0..Len(box)]
  /\ listener.pc \in ListenerPcs /\ listener.epoch \in 0..MaxEpoch
  /\ listener.docs \in Seq(Documents)
  /\ \A u \in DOMAIN listener.batch : listener.batch[u] \in Messages
  /\ filed \subseteq Messages \cup Pages
  /\ carriers \in [Documents -> SUBSET Messages]
  /\ gaps \subseteq Messages \X Documents
  /\ seats \in [People -> {"investor", "founder", Nothing}]
  /\ fetching \subseteq Pages \X People
  /\ \A x \in Items : jobs[x].state \in JobStates /\ jobs[x].attempts \in Nat
  /\ snapshot \subseteq Items
  /\ worker \in [Workers -> Items \cup {Nothing}]
  /\ reads \in [Items -> Nat] /\ blamed \in [Items -> Nat]
  /\ prompt \in 1..MaxPrompt /\ up \in BOOLEAN
  /\ restarts \in 0..MaxRestarts /\ mishaps \in 0..MaxMishaps

\* The cursor never stands past a letter that is not on record, wherever the
\* process died in a batch and whenever the server renumbered the mailbox.
\* Mail skipped is never fetched again (src/graph/ingest.js, commit).
NothingSkipped ==
  cursor.epoch = epoch =>
    \A i \in DOMAIN box : i <= cursor.uid => box[i] \in Garbled \cup filed

\* A letter is read whole: once it has a job, which the understand loop may
\* take at once, each of its documents is on record under it, or was refused.
WholeLetter ==
  \A m \in Messages : jobs[m].state # "ABSENT" =>
    \A i \in DOMAIN Docs[m] : m \in carriers[Docs[m][i]] \/ <<m, Docs[m][i]>> \in gaps

\* Every job marked RUNNING is being run, by one worker, and every worker runs
\* such a job: none is left where nothing will ever move it.
RunningIsRun ==
  up => /\ \A x \in Items : jobs[x].state = "RUNNING" <=> x \in Held
        /\ \A v, w \in Workers : worker[v] = worker[w] => v = w \/ Free(v)

\* While the process is up, what counts as understood was understood by the
\* prompt now deployed, whatever the graph was when it was stopped; only the
\* retired keep an older reading.
ReadUnderThisPrompt ==
  up => \A x \in Items :
          jobs[x].state = "DONE" /\ ~jobs[x].retired => jobs[x].prompt = prompt

\* Inference is the expensive part: a letter or page is read to the end once
\* per prompt deployed, and once more, ever, if it was found to say nothing.
ReadOncePerPrompt ==
  \A x \in Messages \cup Pages :
    reads[x] <= prompt + IF jobs[x].emptied THEN 1 ELSE 0

\* The attempts of a row, which decide its backoff, count what was finished,
\* what failed and what died with the process, and the one in progress: a
\* shutdown that lanes hand back is not among them.
AttemptsAreEarned ==
  \A x \in Items :
    jobs[x].attempts = reads[x] + blamed[x] + IF jobs[x].state = "RUNNING" THEN 1 ELSE 0

\* Whoever has a letter on record that declares a side has a seat, or that side
\* was full, however the process died between the record and the claim; and no
\* side has more than its limit.
SeatsKeepUp ==
  /\ \A side \in {"investor", "founder"} :
       Cardinality({p \in People : seats[p] = side}) <= SeatLimit
  /\ up => \A m \in filed \cap Messages :
       \/ Cohort(m, FileNames[m]) = Nothing
       \/ seats[From[m]] # Nothing
       \/ \E side \in {"investor", "founder"} : Full(seats, side)
       \/ listener.pc = "claiming" /\ Letter = m

\* The rows have their shapes, the jobs fit the workers and the seats the mail.
Consistent == TypeOK /\ RunningIsRun /\ SeatsKeepUp

\* A letter on record that no job reads and nobody is filing.
Orphan(m) ==
  /\ m \in filed /\ jobs[m].state = "ABSENT"
  /\ ~(listener.pc \in {"claiming", "attaching"} /\ Letter = m)

\* Every letter that parses is understood in the end, whatever is renumbered,
\* re-delivered, cut off or refused: unless the process stopped while filing it.
EveryLetterIsRead ==
  \A m \in Messages \ Garbled :
    m \in Box ~> jobs[m].state = "DONE" \/ (Orphan(m) /\ restarts > 0)
================================================================================
