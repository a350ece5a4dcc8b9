----------------------------- MODULE ReadingProofs -----------------------------
(***************************************************************************)
(* Proofs about Reading, for any mailbox, any letters and documents, any   *)
(* number of workers, prompts, stops and mishaps.                          *)
(***************************************************************************)
EXTENDS Reading, TLAPS, FiniteSetTheorems, WellFoundedInduction

(* A position on file, or in hand as it stands in the mailbox. *)
Filed(i) == box[i] \in Garbled \cup filed
InHand(i) == i \in DOMAIN listener.batch /\ listener.batch[i] = box[i]

(* The mailbox and the cursor: no epoch but one that was told, no UID but   *)
(* one that was given out.                                                  *)
MailInv ==
  /\ box \in Seq(Messages) /\ epoch \in Nat
  /\ cursor \in [epoch : Nat, uid : Nat]
  /\ cursor.epoch <= epoch /\ cursor.uid <= Len(box)
  /\ filed \subseteq Messages \cup Pages

(* The listener and what it holds. *)
HandInv ==
  /\ listener = [pc |-> listener.pc, epoch |-> listener.epoch, batch |-> listener.batch,
                 at |-> listener.at, docs |-> listener.docs, high |-> listener.high]
  /\ listener.pc \in ListenerPcs
  /\ listener.epoch \in Nat /\ listener.epoch <= epoch
  /\ listener.high \in Nat /\ listener.high <= Len(box)
  /\ DOMAIN listener.batch \subseteq 1..Len(box)
  /\ \A u \in DOMAIN listener.batch : listener.batch[u] \in Messages
  /\ listener.pc = "asked" => listener.high = 0 /\ DOMAIN listener.batch = {}
  /\ listener.pc \in {"claiming", "attaching"} =>
       /\ listener.at \in DOMAIN listener.batch
       /\ \A v \in DOMAIN listener.batch : listener.at <= v
       /\ Letter \in filed

(* In the epoch it was told, a batch leaves no hole: up to where it reaches *)
(* every letter is on file, does not parse, or is still in hand.            *)
BatchInv ==
  listener.pc \in {"filing", "claiming", "attaching"} /\ listener.epoch = epoch =>
    \A i \in 1..Len(box) :
      (i <= listener.high \/ \E u \in DOMAIN listener.batch : i <= u)
        => Filed(i) \/ InHand(i)

FilingInv == MailInv /\ HandInv /\ BatchInv /\ NothingSkipped

Accounted(m, d) == m \in carriers[d] \/ <<m, d>> \in gaps

(* A row of the backlog. *)
Row == [state : JobStates, due : BOOLEAN, attempts : Nat, claims : {0, 1}, prompt : Nat,
        emptied : BOOLEAN, retired : BOOLEAN, owner : People \cup {"nobody"}]

(* The backlog and its workers. *)
JobsInv ==
  /\ jobs \in [Items -> Row] /\ prompt \in Nat /\ up \in BOOLEAN
  /\ fetching \subseteq Pages \X People
  /\ snapshot \subseteq Items
  /\ worker \in [Workers -> Items \cup {Nothing}]
  /\ ~up => \A w \in Workers : worker[w] = Nothing
  /\ RunningIsRun

(* While the documents of a letter are being filed, the rest is in hand. *)
LetterInv ==
  /\ carriers \in [Documents -> SUBSET Messages]
  /\ listener.pc = "attaching" =>
       /\ listener.docs \in Seq(Documents)
       /\ \A i \in DOMAIN Docs[Letter] :
            \/ Accounted(Letter, Docs[Letter][i])
            \/ \E j \in DOMAIN listener.docs : listener.docs[j] = Docs[Letter][i]

(* The attempts of a row are accounted for by r readings and b mishaps. *)
Earned(row, r, b) ==
  /\ row.attempts = r + b + IF row.state = "RUNNING" THEN 1 ELSE 0
  /\ row.state = "ABSENT" => row.attempts = 0

(* A row still to be read has a reading left: one for each prompt, and one  *)
(* more, once, if it was found empty.                                       *)
Extra(row) == IF row.emptied THEN 1 ELSE 0
Once(row, r, version) ==
  /\ row.state # "DONE" => r < version + Extra(row)
  /\ row.state = "DONE" => r <= row.prompt + Extra(row) /\ row.prompt <= version

Current(row, version) == row.state = "DONE" /\ ~row.retired => row.prompt = version

(* The books of the backlog. *)
BooksInv ==
  /\ reads \in [Items -> Nat] /\ blamed \in [Items -> Nat] /\ prompt > 0
  /\ \A x \in Items : Earned(jobs[x], reads[x], blamed[x])
  /\ \A x \in Messages \cup Pages : Once(jobs[x], reads[x], prompt)
  /\ up => \A x \in Items : Current(jobs[x], prompt)

IInv == FilingInv /\ JobsInv /\ LetterInv /\ WholeLetter

filingVars == <<mailVars, cursor, listener, filed>>
-------------------------------------------------------------------------------
(* Filing: from the mailbox to the record.                                 *)

(* At rest, the listener holds nothing. *)
LEMMA RestingKeeps ==
  ASSUME FilingInv, listener' = Resting, UNCHANGED <<mailVars, cursor>>,
         filed \subseteq filed', filed' \subseteq Messages \cup Pages
  PROVE FilingInv'
<1>1. MailInv'
  BY DEF FilingInv, MailInv, mailVars
<1>2. HandInv' /\ BatchInv'
  BY <1>1 DEF FilingInv, MailInv, HandInv, BatchInv, mailVars, Resting, ListenerPcs
<1>3. NothingSkipped'
  BY DEF FilingInv, NothingSkipped, mailVars
<1> QED BY <1>1, <1>2, <1>3 DEF FilingInv

(* The oldest letter in hand is on file: the listener may go past it. *)
LEMMA PastKeeps ==
  ASSUME FilingInv, UNCHANGED <<mailVars, cursor>>,
         listener.pc \in {"filing", "claiming", "attaching"},
         NEW u \in DOMAIN listener.batch,
         \A v \in DOMAIN listener.batch : u <= v,
         listener.batch[u] \in filed,
         filed' = filed,
         listener' = Past(u)
  PROVE FilingInv'
<1> DEFINE rest == DOMAIN listener.batch \ {u}
<1>1. listener' = [pc |-> "filing", epoch |-> listener.epoch,
                   batch |-> [v \in rest |-> listener.batch[v]],
                   at |-> 0, docs |-> <<>>, high |-> u]
  BY DEF FilingInv, HandInv, Past
<1>2. u \in 1..Len(box) /\ Len(box) \in Nat
  BY DEF FilingInv, MailInv, HandInv
<1>3. MailInv' /\ NothingSkipped'
  BY DEF FilingInv, MailInv, NothingSkipped, mailVars
<1>4. HandInv'
  BY <1>1, <1>2 DEF FilingInv, HandInv, mailVars, ListenerPcs
<1>5. BatchInv'
  <2> SUFFICES ASSUME listener.epoch = epoch, NEW i \in 1..Len(box),
                      i <= u \/ \E v \in rest : i <= v
               PROVE Filed(i) \/ (i \in rest /\ listener.batch[i] = box[i])
    BY <1>1 DEF BatchInv, mailVars, Filed, InHand
  <2>1. Filed(i) \/ InHand(i)
    BY DEF FilingInv, BatchInv
  <2>2. CASE i = u
    BY <2>1, <2>2 DEF InHand, Filed
  <2>3. CASE i # u
    BY <2>1, <2>3 DEF InHand
  <2> QED BY <2>2, <2>3
<1> QED BY <1>3, <1>4, <1>5 DEF FilingInv

(* The listener moves within a letter on file: neither batch nor mark change. *)
LEMMA WithinKeeps ==
  ASSUME FilingInv, UNCHANGED <<mailVars, cursor>>,
         listener.pc \in {"filing", "claiming", "attaching"},
         filed \subseteq filed', filed' \subseteq Messages \cup Pages,
         NEW u \in DOMAIN listener.batch,
         \A v \in DOMAIN listener.batch : u <= v,
         listener.batch[u] \in filed',
         NEW pc \in {"claiming", "attaching"}, NEW docs,
         listener' = [pc |-> pc, epoch |-> listener.epoch, batch |-> listener.batch,
                      at |-> u, docs |-> docs, high |-> listener.high]
  PROVE FilingInv'
<1>1. MailInv' /\ NothingSkipped'
  BY DEF FilingInv, MailInv, NothingSkipped, mailVars
<1>2. HandInv'
  BY DEF FilingInv, HandInv, mailVars, ListenerPcs, Letter
<1>3. BatchInv'
  BY DEF FilingInv, BatchInv, mailVars, Filed, InHand
<1> QED BY <1>1, <1>2, <1>3 DEF FilingInv

LEMMA InitFiling == Init => FilingInv
  BY ReadingAssumption
     DEF Init, FilingInv, MailInv, HandInv, BatchInv, NothingSkipped, Resting, ListenerPcs

(* A new letter comes last: no mark reaches it. *)
LEMMA DeliverKeeps ==
  ASSUME FilingInv, NEW m \in Messages, Deliver(m) PROVE FilingInv'
<1>1. /\ box' = Append(box, m) /\ box' \in Seq(Messages)
      /\ Len(box') = Len(box) + 1 /\ Len(box) \in Nat
      /\ \A i \in 1..Len(box) : box'[i] = box[i]
  BY DEF FilingInv, MailInv, Deliver
<1>2. UNCHANGED <<epoch, cursor, listener, filed>>
  BY DEF Deliver, fileVars
<1>3. MailInv'
  BY <1>1, <1>2 DEF FilingInv, MailInv
<1>4. HandInv'
  BY <1>1, <1>2 DEF FilingInv, HandInv, Letter
<1>5. BatchInv'
  BY <1>1, <1>2 DEF FilingInv, HandInv, BatchInv, Filed, InHand
<1>6. NothingSkipped'
  BY <1>1, <1>2 DEF FilingInv, MailInv, NothingSkipped
<1> QED BY <1>3, <1>4, <1>5, <1>6 DEF FilingInv

(* A renumbered mailbox is of an epoch no cursor and no batch was told. *)
LEMMA RenumberKeeps ==
  ASSUME FilingInv, Renumber PROVE FilingInv'
<1>1. /\ box' = [i \in 1..Len(box) |-> box[Len(box) + 1 - i]]
      /\ Len(box) \in Nat /\ box \in Seq(Messages)
  BY DEF FilingInv, MailInv, Renumber
<1>2. box' \in Seq(Messages) /\ Len(box') = Len(box)
  BY <1>1
<1>3. epoch' = epoch + 1 /\ UNCHANGED <<cursor, listener, filed>>
  BY DEF Renumber, fileVars
<1>4. MailInv' /\ HandInv'
  BY <1>2, <1>3 DEF FilingInv, MailInv, HandInv, Letter
<1>5. BatchInv' /\ NothingSkipped'
  BY <1>3 DEF FilingInv, MailInv, HandInv, BatchInv, NothingSkipped
<1> QED BY <1>4, <1>5 DEF FilingInv

(* A batch is all that parses of the next letters after the cursor. *)
LEMMA FetchKeeps ==
  ASSUME FilingInv, Fetch PROVE FilingInv'
<1> DEFINE since == Since(listener.epoch)
           batch == Parsed(Fetched(since))
<1>1. UNCHANGED <<mailVars, cursor, filed>>
  BY DEF Fetch, fileVars
<1>2. CASE listener' = Resting
  BY <1>1, <1>2, RestingKeeps DEF FilingInv, MailInv
<1>3. CASE listener' = [listener EXCEPT !.pc = "filing", !.batch = batch]
  <2>1. listener' = [pc |-> "filing", epoch |-> listener.epoch, batch |-> batch,
                     at |-> listener.at, docs |-> listener.docs, high |-> 0]
    BY <1>3 DEF FilingInv, HandInv, Fetch
  <2>2. since \in Nat /\ Len(box) \in Nat /\ DOMAIN box = 1..Len(box)
    BY DEF Since, FilingInv, MailInv
  <2>3. /\ DOMAIN batch = {i \in 1..Len(box) :
                            i > since /\ i <= since + BatchSize /\ box[i] \notin Garbled}
        /\ \A i \in DOMAIN batch : batch[i] = box[i]
    BY <2>2 DEF Parsed, Fetched
  <2>4. MailInv' /\ NothingSkipped'
    BY <1>1 DEF FilingInv, MailInv, NothingSkipped, mailVars
  <2>5. HandInv'
    <3>1. \A u \in DOMAIN batch : batch[u] \in Messages
      BY <2>2, <2>3 DEF FilingInv, MailInv
    <3> QED BY <1>1, <2>1, <2>2, <2>3, <3>1 DEF FilingInv, HandInv, mailVars, ListenerPcs
  <2>6. BatchInv'
    <3> SUFFICES ASSUME listener.epoch = epoch, NEW i \in 1..Len(box),
                        i <= 0 \/ \E u \in DOMAIN batch : i <= u
                 PROVE Filed(i) \/ (i \in DOMAIN batch /\ batch[i] = box[i])
      BY <1>1, <2>1 DEF BatchInv, mailVars, Filed, InHand
    <3>1. i <= since + BatchSize
      BY <2>2, <2>3, ReadingAssumption
    <3>2. CASE i > since
      BY <2>2, <2>3, <3>1, <3>2 DEF Filed
    <3>3. CASE i <= since
      BY <2>2, <3>3 DEF Since, FilingInv, NothingSkipped, Filed
    <3> QED BY <2>2, <3>2, <3>3
  <2> QED BY <2>4, <2>5, <2>6 DEF FilingInv
<1> QED BY <1>2, <1>3 DEF Fetch

(* The cursor moves to the last letter filed, and no further. *)
LEMMA CommitKeeps ==
  ASSUME FilingInv, Commit PROVE FilingInv'
<1>1. /\ UNCHANGED <<box, epoch, filed>> /\ listener' = Resting
      /\ cursor' = [epoch |-> listener.epoch,
                    uid |-> IF cursor.epoch = listener.epoch /\ cursor.uid > listener.high
                              THEN cursor.uid ELSE listener.high]
      /\ listener.pc = "filing" /\ DOMAIN listener.batch = {}
  BY DEF Commit, Advance, mailVars, fileVars
<1>2. MailInv'
  BY <1>1 DEF FilingInv, MailInv, HandInv
<1>3. HandInv' /\ BatchInv'
  BY <1>1, <1>2 DEF FilingInv, MailInv, HandInv, BatchInv, Resting, ListenerPcs
<1>4. NothingSkipped'
  <2> SUFFICES ASSUME listener.epoch = epoch, NEW i \in 1..Len(box), i <= cursor'.uid
               PROVE Filed(i)
    BY <1>1 DEF NothingSkipped, Filed, FilingInv, MailInv
  <2>1. CASE i <= listener.high
    BY <1>1, <2>1 DEF FilingInv, BatchInv, InHand
  <2>2. CASE ~(i <= listener.high)
    BY <1>1, <2>2 DEF FilingInv, MailInv, HandInv, NothingSkipped, Filed
  <2> QED BY <2>1, <2>2
<1> QED BY <1>2, <1>3, <1>4 DEF FilingInv

(* Every step of the system keeps what filing rests on. *)
LEMMA StepFiling == FilingInv /\ JobsInv /\ [Next]_vars => FilingInv'
<1> SUFFICES ASSUME FilingInv, JobsInv, [Next]_vars PROVE FilingInv'
  OBVIOUS
<1>f. filed \subseteq Messages \cup Pages
  BY DEF FilingInv, MailInv
<1>q. ASSUME UNCHANGED <<mailVars, cursor, listener, filed>> PROVE FilingInv'
  BY <1>q DEF FilingInv, MailInv, HandInv, BatchInv, NothingSkipped, Filed, InHand,
              Letter, mailVars
<1>1. ASSUME NEW m \in Messages, Deliver(m) PROVE FilingInv'
  BY <1>1, DeliverKeeps
<1>2. CASE Renumber
  BY <1>2, RenumberKeeps
<1>3. CASE Ask
  <2>1. /\ UNCHANGED <<mailVars, cursor, filed>>
        /\ listener' = [pc |-> "asked", epoch |-> epoch, batch |-> <<>>, at |-> 0,
                        docs |-> <<>>, high |-> 0]
    BY <1>3 DEF Ask, Resting, fileVars
  <2> QED BY <2>1 DEF FilingInv, MailInv, HandInv, BatchInv, NothingSkipped, ListenerPcs,
                      mailVars
<1>4. CASE Fetch
  BY <1>4, FetchKeeps
<1>5. CASE Record
  <2>1. PICK u \in DOMAIN listener.batch :
          /\ \A v \in DOMAIN listener.batch : u <= v
          /\ \/ /\ listener.batch[u] \in filed
                /\ listener' = Past(u) /\ UNCHANGED filed
             \/ /\ filed' = filed \cup {listener.batch[u]}
                /\ listener' = [listener EXCEPT !.pc = "claiming", !.at = u]
    BY <1>5 DEF Record
  <2>2. UNCHANGED <<mailVars, cursor>> /\ listener.pc = "filing"
    BY <1>5 DEF Record
  <2>3. CASE listener.batch[u] \in filed /\ listener' = Past(u) /\ UNCHANGED filed
    BY <2>1, <2>2, <2>3, PastKeeps
  <2>4. CASE /\ filed' = filed \cup {listener.batch[u]}
             /\ listener' = [listener EXCEPT !.pc = "claiming", !.at = u]
    <3>1. listener' = [pc |-> "claiming", epoch |-> listener.epoch,
                       batch |-> listener.batch, at |-> u, docs |-> listener.docs,
                       high |-> listener.high]
      BY <2>4 DEF FilingInv, HandInv
    <3>2. filed' \subseteq Messages \cup Pages
      BY <1>f, <2>4 DEF FilingInv, HandInv
    <3> QED BY <2>1, <2>2, <2>4, <3>1, <3>2, WithinKeeps
  <2> QED BY <2>1, <2>3, <2>4
<1>6. CASE Claim \/ Attach \/ Refuse
  <2>1. /\ UNCHANGED <<mailVars, cursor, filed>>
        /\ listener.pc \in {"claiming", "attaching"}
        /\ \E docs : listener' = [listener EXCEPT !.pc = "attaching", !.docs = docs]
    <3>1. CASE Claim
      BY <3>1 DEF Claim
    <3>2. CASE Attach \/ Refuse
      BY <3>2 DEF Attach, Refuse, FilingInv, HandInv
    <3> QED BY <1>6, <3>1, <3>2
  <2>2. PICK docs : listener' = [pc |-> "attaching", epoch |-> listener.epoch,
                                 batch |-> listener.batch, at |-> listener.at,
                                 docs |-> docs, high |-> listener.high]
    BY <2>1 DEF FilingInv, HandInv
  <2>3. /\ listener.at \in DOMAIN listener.batch
        /\ \A v \in DOMAIN listener.batch : listener.at <= v
        /\ listener.batch[listener.at] \in filed
    BY <2>1 DEF FilingInv, HandInv, Letter
  <2> QED BY <1>f, <2>1, <2>2, <2>3, WithinKeeps
<1>7. CASE EnqueueLetter
  <2>1. /\ UNCHANGED <<mailVars, cursor, filed>> /\ listener' = Past(listener.at)
        /\ listener.pc = "attaching"
    BY <1>7 DEF EnqueueLetter, fileVars
  <2>2. /\ listener.at \in DOMAIN listener.batch
        /\ \A v \in DOMAIN listener.batch : listener.at <= v
        /\ listener.batch[listener.at] \in filed
    BY <2>1 DEF FilingInv, HandInv, Letter
  <2> QED BY <2>1, <2>2, PastKeeps
<1>8. CASE Commit
  BY <1>8, CommitKeeps
<1>9. CASE FetchFails \/ Crash \/ Shutdown
  <2>1. UNCHANGED <<mailVars, cursor, filed>> /\ listener' = Resting
    BY <1>9 DEF FetchFails, Crash, Shutdown, Forget, fileVars
  <2> QED BY <1>f, <2>1, RestingKeeps
<1>10. ASSUME NEW f \in fetching, PageArrives(f) PROVE FilingInv'
  <2>1. UNCHANGED <<mailVars, cursor, listener>> /\ filed' = filed \cup {f[1]}
    BY <1>10 DEF PageArrives
  <2>2. filed' \subseteq Messages \cup Pages
    BY <1>f, <1>10, <2>1 DEF JobsInv
  <2> QED BY <2>1, <2>2 DEF FilingInv, MailInv, HandInv, BatchInv, NothingSkipped, Filed,
                            InHand, Letter, mailVars
<1>11. ASSUME NEW f \in fetching, PageFails(f) PROVE FilingInv'
  BY <1>11, <1>q DEF PageFails
<1>12. ASSUME NEW w \in Workers, Take(w) \/ Complete(w) \/ Falter(w) PROVE FilingInv'
  BY <1>12, <1>q DEF Take, Complete, Falter, fileVars
<1>13. ASSUME NEW x \in Items, ComesDue(x) PROVE FilingInv'
  BY <1>13, <1>q DEF ComesDue, fileVars
<1>14. CASE StartDrain \/ Boot \/ UNCHANGED vars
  BY <1>14, <1>q DEF StartDrain, Boot, vars, fileVars
<1> QED BY <1>1, <1>2, <1>3, <1>4, <1>5, <1>6, <1>7, <1>8, <1>9, <1>10, <1>11, <1>12,
           <1>13, <1>14 DEF Next, File
-------------------------------------------------------------------------------
(* The backlog: rows, workers and letters read whole.                      *)

(* Start makes a row RUNNING. *)
LEMMA StartRow ==
  ASSUME NEW row \in Row
  PROVE Start(row) \in Row /\ Start(row).state = "RUNNING"
<1> DEFINE n == row.attempts + 1
<1>1. n \in Nat
  BY DEF Row
<1>2. Start(row) = [row EXCEPT !.state = "RUNNING", !.attempts = n]
  BY DEF Start
<1> HIDE DEF n
<1> QED BY <1>1, <1>2 DEF Row, JobStates

(* A re-opened row is READY. *)
LEMMA ReopenedRow ==
  ASSUME NEW row \in Row
  PROVE Reopened(row) \in Row /\ Reopened(row).state = "READY"
  BY DEF Row, Reopened, JobStates

(* Finish makes it DONE, and nothing else does but retiring it. *)
LEMMA FinishRow ==
  ASSUME NEW row \in Row, NEW claims \in {0, 1}, NEW version \in Nat
  PROVE Finish(row, claims, version) \in Row /\ Finish(row, claims, version).state = "DONE"
  BY DEF Row, Finish, JobStates

(* A failure makes it READY again. *)
LEMMA FailedRow ==
  ASSUME NEW row \in Row
  PROVE FailTransient(row) \in Row /\ FailTransient(row).state = "READY"
  BY DEF Row, FailTransient, JobStates

(* So does handing it back, with an attempt that stays a natural number. *)
LEMMA ReleasedRow ==
  ASSUME NEW row \in Row
  PROVE Release(row) \in Row /\ Release(row).state = "READY"
<1>1. PICK n \in Nat : Release(row) = [Reopened(row) EXCEPT !.attempts = n]
  <2>1. Reopened(row).attempts \in Nat
    BY ReopenedRow DEF Row
  <2> QED BY <2>1 DEF Release
<1> QED BY <1>1, ReopenedRow DEF Row

(* Only enqueuing makes a row of nothing; neither it nor a new owner starts *)
(* or stops a job.                                                          *)
LEMMA RowOps ==
  ASSUME NEW row \in Row, NEW who \in People
  PROVE /\ Enqueue(row, who) \in Row /\ Enqueue(row, who).state # "ABSENT"
        /\ Enqueue(row, who).state = "RUNNING" <=> row.state = "RUNNING"
        /\ ReassignOwner(row, who) \in Row
        /\ ReassignOwner(row, who).state = "RUNNING" <=> row.state = "RUNNING"
        /\ ReassignOwner(row, who).state = "ABSENT" <=> row.state = "ABSENT"
<1>1. NoJob \in Row
  BY DEF NoJob, Row, JobStates
<1>2. /\ Enqueue(row, who) \in Row /\ Enqueue(row, who).state # "ABSENT"
      /\ Enqueue(row, who).state = "RUNNING" <=> row.state = "RUNNING"
  BY <1>1 DEF Row, Enqueue, NoJob, JobStates
<1>3. /\ ReassignOwner(row, who) \in Row
      /\ ReassignOwner(row, who).state = "RUNNING" <=> row.state = "RUNNING"
      /\ ReassignOwner(row, who).state = "ABSENT" <=> row.state = "ABSENT"
  BY ReopenedRow DEF Row, ReassignOwner, JobStates
<1> QED BY <1>2, <1>3

(* Boot leaves no row RUNNING, makes none and loses none. *)
LEMMA BootedRows ==
  ASSUME NEW row \in Row, NEW x, NEW version \in Nat
  PROVE /\ Booted(x, row, version) \in Row
        /\ Booted(x, row, version).state # "RUNNING"
        /\ Booted(x, row, version).state = "ABSENT" <=> row.state = "ABSENT"
<1> DEFINE Kept(r) == r \in Row /\ r.state # "RUNNING"
                        /\ (r.state = "ABSENT" <=> row.state = "ABSENT")
<1>1. Kept(RequeueStranded(row))
  BY DEF Row, RequeueStranded, Reopened, JobStates
<1>2. ASSUME NEW r, Kept(r) PROVE Kept(Retire(r))
  BY <1>2 DEF Row, Retire, JobStates
<1>3. ASSUME NEW r, Kept(r) PROVE Kept(RequeueEmpty(r))
  BY <1>3 DEF Row, RequeueEmpty, Reopened, JobStates
<1>4. ASSUME NEW r, Kept(r) PROVE Kept(RequeueForPrompt(r, version))
  BY <1>4 DEF Row, RequeueForPrompt, Reopened, JobStates
<1> DEFINE retired == IF x \in Documents THEN Retire(RequeueStranded(row))
                                         ELSE RequeueStranded(row)
<1>5. Kept(retired)
  BY <1>1, <1>2
<1>6. Kept(RequeueForPrompt(RequeueEmpty(retired), version))
  BY <1>3, <1>4, <1>5
<1> QED BY <1>6 DEF Booted

LEMMA InitJobs == Init => JobsInv /\ LetterInv /\ WholeLetter
<1> SUFFICES ASSUME Init PROVE JobsInv /\ LetterInv /\ WholeLetter
  OBVIOUS
<1>1. NoJob \in Row /\ OldJob \in Row
  BY DEF OldJob, NoJob, Row, JobStates
<1>2. JobsInv
  <2>1. jobs \in [Items -> Row] /\ \A x \in Items : jobs[x].state # "RUNNING"
    BY <1>1 DEF Init, NoJob, OldJob
  <2> QED BY <2>1 DEF Init, JobsInv, RunningIsRun
<1>3. LetterInv
  BY DEF Init, LetterInv, Resting
<1>4. WholeLetter
  <2>1. \A m \in Messages : m \in Items /\ m \notin Historical
    BY ReadingAssumption DEF Items
  <2> QED BY <2>1 DEF Init, WholeLetter, NoJob
<1> QED BY <1>2, <1>3, <1>4

(* A change of rows that starts and stops no job keeps workers and jobs in  *)
(* step.                                                                    *)
LEMMA RowsKeep ==
  ASSUME JobsInv, UNCHANGED <<prompt, up, snapshot, worker>>,
         fetching' \subseteq Pages \X People,
         jobs' \in [Items -> Row],
         \A x \in Items : jobs'[x].state = "RUNNING" <=> jobs[x].state = "RUNNING"
  PROVE JobsInv'
<1>1. Held' = Held
  BY DEF Held
<1> QED BY <1>1 DEF JobsInv, RunningIsRun, Free

(* What a worker holds is RUNNING, and nobody else holds it. *)
LEMMA WorkerHolds ==
  ASSUME JobsInv, up, NEW w \in Workers, ~Free(w)
  PROVE /\ worker[w] \in Items /\ jobs[worker[w]].state = "RUNNING"
        /\ \A v \in Workers \ {w} : worker[v] # worker[w]
  BY DEF JobsInv, RunningIsRun, Held, Free

(* A worker lets go of its job, which stops RUNNING. *)
LEMMA LettingGoKeeps ==
  ASSUME JobsInv, up, NEW w \in Workers, ~Free(w), NEW row \in Row,
         row.state # "RUNNING",
         UNCHANGED <<prompt, up, snapshot, fetching>>,
         jobs' = [jobs EXCEPT ![worker[w]] = row],
         worker' = [worker EXCEPT ![w] = Nothing]
  PROVE JobsInv'
<1> DEFINE x == worker[w]
<1>1. /\ x \in Items /\ x # Nothing /\ jobs[x].state = "RUNNING"
      /\ \A v \in Workers \ {w} : worker[v] # x
  BY WorkerHolds, ReadingAssumption
<1>2. /\ jobs' \in [Items -> Row] /\ jobs'[x] = row
      /\ \A y \in Items \ {x} : jobs'[y] = jobs[y]
  BY <1>1 DEF JobsInv
<1>3. /\ worker' \in [Workers -> Items \cup {Nothing}] /\ worker'[w] = Nothing
      /\ \A v \in Workers \ {w} : worker'[v] = worker[v]
  BY DEF JobsInv
<1>4. Held' = Held \ {x}
  BY <1>1, <1>3 DEF Held
<1>5. RunningIsRun'
  <2>1. \A y \in Items : jobs'[y].state = "RUNNING" <=> y \in Held'
    BY <1>1, <1>2, <1>4 DEF JobsInv, RunningIsRun
  <2>2. \A v, z \in Workers : worker'[v] = worker'[z] => v = z \/ worker'[v] = Nothing
    BY <1>3 DEF JobsInv, RunningIsRun, Free
  <2> QED BY <2>1, <2>2 DEF RunningIsRun, Free
<1> QED BY <1>2, <1>3, <1>5 DEF JobsInv

(* A worker takes a READY job, which nobody holds. *)
LEMMA TakeKeeps ==
  ASSUME JobsInv, NEW w \in Workers, Take(w)
  PROVE JobsInv'
<1>1. PICK x \in snapshot :
        /\ snapshot' = snapshot \ {x} /\ jobs[x].state = "READY"
        /\ jobs' = [jobs EXCEPT ![x] = Start(@)]
        /\ worker' = [worker EXCEPT ![w] = x]
  BY DEF Take
<1>2. /\ x \in Items /\ up /\ Free(w) /\ UNCHANGED <<prompt, up, fetching>>
  BY <1>1 DEF Take, JobsInv, fileVars
<1>3. /\ jobs' \in [Items -> Row] /\ jobs'[x].state = "RUNNING"
      /\ \A y \in Items \ {x} : jobs'[y] = jobs[y]
  <2>1. Start(jobs[x]) \in Row /\ Start(jobs[x]).state = "RUNNING"
    BY <1>2, StartRow DEF JobsInv
  <2> QED BY <1>1, <1>2, <2>1 DEF JobsInv
<1>4. /\ worker' \in [Workers -> Items \cup {Nothing}] /\ worker'[w] = x
      /\ \A v \in Workers \ {w} : worker'[v] = worker[v]
  BY <1>1, <1>2 DEF JobsInv
<1>5. x # Nothing /\ x \notin Held
  BY <1>1, <1>2, ReadingAssumption DEF JobsInv, RunningIsRun
<1>6. Held' = Held \cup {x}
  BY <1>2, <1>4, <1>5 DEF Held, Free
<1>7. RunningIsRun'
  <2>1. \A y \in Items : jobs'[y].state = "RUNNING" <=> y \in Held'
    BY <1>2, <1>3, <1>6 DEF JobsInv, RunningIsRun
  <2>2. \A v, z \in Workers : worker'[v] = worker'[z] => v = z \/ worker'[v] = Nothing
    <3>1. \A v \in Workers : worker[v] # x
      BY <1>5 DEF Held
    <3> QED BY <1>2, <1>4, <3>1 DEF JobsInv, RunningIsRun, Free
  <2> QED BY <2>1, <2>2 DEF RunningIsRun, Free
<1> QED BY <1>1, <1>2, <1>3, <1>4, <1>7 DEF JobsInv

(* Every step keeps the backlog and its workers in step. *)
LEMMA StepJobs == FilingInv /\ JobsInv /\ [Next]_vars => JobsInv'
<1> SUFFICES ASSUME FilingInv, JobsInv, [Next]_vars PROVE JobsInv'
  OBVIOUS
<1>r. \A x \in Items : jobs[x] \in Row
  BY DEF JobsInv
<1>q. ASSUME UNCHANGED <<prompt, up, snapshot, worker, jobs>>,
             fetching' \subseteq Pages \X People
      PROVE JobsInv'
  BY <1>q, RowsKeep DEF JobsInv
<1>1. ASSUME NEW m \in Messages, Deliver(m) PROVE JobsInv'
  BY <1>1, <1>q DEF Deliver, fileVars, drainVars, JobsInv
<1>2. CASE Renumber \/ Ask \/ Fetch \/ FetchFails \/ Record \/ Refuse \/ Commit
  BY <1>2, <1>q DEF Renumber, Ask, Fetch, FetchFails, Record, Refuse, Commit, fileVars,
                    drainVars, JobsInv
<1>3. CASE Claim
  <2>1. Letter \in Messages
    BY <1>3 DEF Claim, FilingInv, HandInv, Letter
  <2>2. From[Letter] \in People /\ Links[Letter] \subseteq Pages
    BY <2>1, ReadingAssumption DEF People, Pages
  <2>3. fetching' \subseteq Pages \X People
    BY <1>3, <2>2 DEF Claim, ToFetch, JobsInv
  <2> QED BY <1>3, <1>q, <2>3 DEF Claim, drainVars
<1>4. CASE Attach
  <2>1. Letter \in Messages
    BY <1>4 DEF Attach, FilingInv, HandInv, Letter
  <2>2. From[Letter] \in People
    BY <2>1, ReadingAssumption DEF People
  <2> DEFINE d == listener.docs[1]
  <2>3. /\ jobs' = [jobs EXCEPT ![d] = ReassignOwner(@, From[Letter])]
        /\ UNCHANGED <<prompt, up, snapshot, worker, fetching>>
    BY <1>4 DEF Attach, drainVars
  <2>4. ASSUME d \in Items
        PROVE /\ jobs' \in [Items -> Row]
              /\ \A x \in Items : jobs'[x].state = "RUNNING" <=> jobs[x].state = "RUNNING"
    BY <1>r, <2>2, <2>3, <2>4, RowOps DEF JobsInv
  <2>5. /\ jobs' \in [Items -> Row]
        /\ \A x \in Items : jobs'[x].state = "RUNNING" <=> jobs[x].state = "RUNNING"
    BY <2>3, <2>4 DEF JobsInv
  <2> QED BY <2>3, <2>5, RowsKeep DEF JobsInv
<1>5. CASE EnqueueLetter
  <2>1. Letter \in Messages
    BY <1>5 DEF EnqueueLetter, FilingInv, HandInv, Letter
  <2>2. From[Letter] \in People /\ Letter \in Items
    BY <2>1, ReadingAssumption DEF People, Items
  <2>3. /\ jobs' = [jobs EXCEPT ![Letter] = Enqueue(@, From[Letter])]
        /\ UNCHANGED <<prompt, up, snapshot, worker, fetching>>
    BY <1>5 DEF EnqueueLetter, drainVars, fileVars
  <2>4. /\ jobs' \in [Items -> Row]
        /\ \A x \in Items : jobs'[x].state = "RUNNING" <=> jobs[x].state = "RUNNING"
    BY <1>r, <2>2, <2>3, RowOps DEF JobsInv
  <2> QED BY <2>3, <2>4, RowsKeep DEF JobsInv
<1>6. ASSUME NEW f \in fetching, PageArrives(f) PROVE JobsInv'
  <2>1. f[1] \in Items /\ f[2] \in People
    BY <1>6 DEF JobsInv, Items
  <2>2. /\ jobs' = [jobs EXCEPT ![f[1]] = Enqueue(@, f[2])]
        /\ UNCHANGED <<prompt, up, snapshot, worker>> /\ fetching' \subseteq fetching
    BY <1>6 DEF PageArrives, drainVars
  <2>3. /\ jobs' \in [Items -> Row]
        /\ \A x \in Items : jobs'[x].state = "RUNNING" <=> jobs[x].state = "RUNNING"
    BY <1>r, <2>1, <2>2, RowOps DEF JobsInv
  <2> QED BY <2>2, <2>3, RowsKeep DEF JobsInv
<1>7. ASSUME NEW f \in fetching, PageFails(f) PROVE JobsInv'
  BY <1>7, <1>q DEF PageFails, drainVars, JobsInv
<1>8. CASE StartDrain
  <2>1. snapshot' \subseteq Items /\ UNCHANGED <<prompt, up, jobs, worker, fetching>>
    BY <1>8 DEF StartDrain, fileVars
  <2> QED BY <2>1 DEF JobsInv, RunningIsRun, Held, Free
<1>9. ASSUME NEW w \in Workers, Take(w) PROVE JobsInv'
  BY <1>9, TakeKeeps
<1>10. ASSUME NEW w \in Workers, Complete(w) \/ Falter(w) PROVE JobsInv'
  <2> DEFINE x == worker[w]
  <2>1. /\ up /\ ~Free(w) /\ UNCHANGED <<prompt, up, snapshot, fetching>>
        /\ worker' = [worker EXCEPT ![w] = Nothing]
    BY <1>10 DEF Complete, Falter, fileVars
  <2>2. x \in Items /\ x \in DOMAIN jobs /\ jobs[x] \in Row
    BY <1>r, <2>1, WorkerHolds DEF JobsInv
  <2>3. CASE Complete(w)
    <3>1. PICK claims \in {0, 1} : jobs' = [jobs EXCEPT ![x] = Finish(@, claims, prompt)]
      BY <2>3 DEF Complete
    <3>2. /\ Finish(jobs[x], claims, prompt) \in Row
          /\ Finish(jobs[x], claims, prompt).state # "RUNNING"
      BY <2>2, FinishRow DEF JobsInv
    <3>3. jobs' = [jobs EXCEPT ![x] = Finish(jobs[x], claims, prompt)]
      BY <3>1
    <3> QED BY <2>1, <3>2, <3>3, LettingGoKeeps
  <2>4. CASE Falter(w)
    <3>1. jobs' = [jobs EXCEPT ![x] = FailTransient(jobs[x])]
      BY <2>4 DEF Falter
    <3>2. FailTransient(jobs[x]) \in Row /\ FailTransient(jobs[x]).state # "RUNNING"
      BY <2>2, FailedRow
    <3> QED BY <2>1, <3>1, <3>2, LettingGoKeeps
  <2> QED BY <1>10, <2>3, <2>4
<1>11. ASSUME NEW x \in Items, ComesDue(x) PROVE JobsInv'
  <2>1. /\ jobs' = [jobs EXCEPT ![x] = [jobs[x] EXCEPT !.due = TRUE]]
        /\ UNCHANGED <<prompt, up, snapshot, worker, fetching>>
    BY <1>11 DEF ComesDue, fileVars, drainVars
  <2>2. [jobs[x] EXCEPT !.due = TRUE] \in Row /\ jobs[x] \in Row
    BY <1>r DEF Row
  <2>3. /\ jobs' \in [Items -> Row]
        /\ \A y \in Items : jobs'[y].state = "RUNNING" <=> jobs[y].state = "RUNNING"
    BY <2>1, <2>2 DEF JobsInv, Row
  <2> QED BY <2>1, <2>3, RowsKeep DEF JobsInv
<1>12. CASE Crash \/ Shutdown
  <2>1. /\ up' = FALSE /\ fetching' = {} /\ snapshot' = {} /\ UNCHANGED prompt
        /\ worker' = [w \in Workers |-> Nothing]
    BY <1>12 DEF Crash, Shutdown, Forget
  <2>2. jobs' \in [Items -> Row]
    <3>1. CASE Crash
      BY <3>1 DEF Crash, JobsInv
    <3>2. CASE Shutdown
      <4>1. \A x \in Items : Release(jobs[x]) \in Row /\ FailTransient(jobs[x]) \in Row
        BY <1>r, FailedRow, ReleasedRow
      <4> QED BY <1>r, <3>2, <4>1 DEF Shutdown
    <3> QED BY <1>12, <3>1, <3>2
  <2> QED BY <2>1, <2>2 DEF JobsInv, RunningIsRun
<1>13. CASE Boot
  <2>1. /\ up' = TRUE /\ prompt' \in Nat
        /\ jobs' = [x \in Items |-> Booted(x, jobs[x], prompt')]
        /\ UNCHANGED <<fetching, snapshot, worker>>
        /\ \A w \in Workers : worker[w] = Nothing
    BY <1>13 DEF Boot, JobsInv
  <2>2. jobs' \in [Items -> Row] /\ \A x \in Items : jobs'[x].state # "RUNNING"
    BY <1>r, <2>1, BootedRows
  <2>3. Held' = {}
    BY <2>1 DEF Held
  <2> QED BY <2>1, <2>2, <2>3 DEF JobsInv, RunningIsRun, Free
<1>14. CASE UNCHANGED vars
  BY <1>14, <1>q DEF vars, fileVars, drainVars, JobsInv
<1> QED BY <1>1, <1>2, <1>3, <1>4, <1>5, <1>6, <1>7, <1>8, <1>9, <1>10, <1>11, <1>12,
           <1>13, <1>14 DEF Next, File

(* What is accounted for stays so, and a letter without a job may stay so:  *)
(* then letters with jobs are as whole as before.                           *)
LEMMA AccountsKeep ==
  ASSUME WholeLetter,
         \A m \in Messages : jobs'[m].state # "ABSENT" => jobs[m].state # "ABSENT",
         \A m \in Messages, d \in Documents : Accounted(m, d) => Accounted(m, d)'
  PROVE WholeLetter'
<1> SUFFICES ASSUME NEW m \in Messages, jobs'[m].state # "ABSENT", NEW i \in DOMAIN Docs[m]
             PROVE Accounted(m, Docs[m][i])'
  BY DEF WholeLetter, Accounted
<1>1. Docs[m][i] \in Documents
  BY ReadingAssumption
<1>2. Accounted(m, Docs[m][i])
  BY DEF WholeLetter, Accounted
<1> QED BY <1>1, <1>2

(* Outside of the listener's own steps nothing of a letter in hand changes, *)
(* nor does any letter get a job.                                           *)
LEMMA AsideKeeps ==
  ASSUME LetterInv, WholeLetter,
         \A m \in Messages : jobs'[m].state # "ABSENT" => jobs[m].state # "ABSENT",
         UNCHANGED <<carriers, gaps>>,
         UNCHANGED listener \/ listener'.pc # "attaching"
  PROVE LetterInv' /\ WholeLetter'
<1>1. WholeLetter'
  BY AccountsKeep DEF Accounted
<1>2. LetterInv'
  BY DEF LetterInv, Accounted, Letter
<1> QED BY <1>1, <1>2

(* One document of the letter in hand is recorded, or refused. *)
LEMMA DocumentKeeps ==
  ASSUME IInv, Attach \/ Refuse
  PROVE LetterInv' /\ WholeLetter'
<1>1. PICK m \in Messages, docs \in Seq(Documents), d \in Documents :
        /\ m = Letter /\ docs = listener.docs /\ d = docs[1]
        /\ listener.pc = "attaching" /\ docs # <<>>
        /\ carriers \in [Documents -> SUBSET Messages]
  BY DEF Attach, Refuse, IInv, LetterInv, FilingInv, HandInv, Letter
<1>2. /\ Tail(docs) \in Seq(Documents)
      /\ \A j \in DOMAIN docs :
           j = 1 \/ (j - 1 \in DOMAIN Tail(docs) /\ Tail(docs)[j - 1] = docs[j])
  BY <1>1
<1>3. /\ listener' = [listener EXCEPT !.docs = Tail(@)]
      /\ \/ carriers' = [carriers EXCEPT ![d] = @ \cup {m}] /\ UNCHANGED gaps
         \/ gaps' = gaps \cup {<<m, d>>} /\ UNCHANGED carriers
  BY <1>1 DEF Attach, Refuse
<1>4. /\ listener'.pc = "attaching" /\ listener'.docs = Tail(docs) /\ Letter' = m
  BY <1>1, <1>3 DEF IInv, FilingInv, HandInv, Letter
<1>5. /\ carriers' \in [Documents -> SUBSET Messages] /\ Accounted(m, d)'
      /\ \A n \in Messages, e \in Documents : Accounted(n, e) => Accounted(n, e)'
  BY <1>1, <1>2, <1>3 DEF Accounted
<1>6. LetterInv'
  <2> SUFFICES ASSUME NEW i \in DOMAIN Docs[m]
               PROVE \/ Accounted(m, Docs[m][i])'
                     \/ \E j \in DOMAIN Tail(docs) : Tail(docs)[j] = Docs[m][i]
    BY <1>2, <1>4, <1>5 DEF LetterInv, Accounted
  <2>1. Docs[m][i] \in Documents
    BY <1>1, ReadingAssumption
  <2>2. CASE Accounted(m, Docs[m][i])
    <3>1. ASSUME NEW e \in Documents, Accounted(m, e) PROVE Accounted(m, e)'
      BY <1>5, <3>1
    <3> QED BY <2>1, <2>2, <3>1 DEF Accounted
  <2>3. CASE \E j \in DOMAIN docs : docs[j] = Docs[m][i]
    <3>1. PICK j \in DOMAIN docs : docs[j] = Docs[m][i]
      BY <2>3
    <3>2. CASE j = 1
      <4>1. Docs[m][i] = d
        BY <1>1, <3>1, <3>2
      <4> QED BY <1>5, <4>1 DEF Accounted
    <3>3. CASE j # 1
      <4>1. j - 1 \in DOMAIN Tail(docs) /\ Tail(docs)[j - 1] = Docs[m][i]
        BY <1>2, <3>1, <3>3
      <4> QED BY <4>1
    <3> QED BY <3>2, <3>3
  <2> QED BY <1>1, <2>2, <2>3 DEF IInv, LetterInv
<1>7. \A n \in Messages : jobs'[n].state # "ABSENT" => jobs[n].state # "ABSENT"
  <2>1. CASE Attach
    <3>1. jobs' = [jobs EXCEPT ![d] = ReassignOwner(@, From[m])]
      BY <1>1, <2>1 DEF Attach
    <3>2. \A n \in Messages : n # d
      BY <1>2, ReadingAssumption
    <3> QED BY <3>1, <3>2
  <2>2. CASE Refuse
    BY <2>2 DEF Refuse
  <2> QED BY <2>1, <2>2
<1>8. WholeLetter'
  BY <1>5, <1>7, AccountsKeep DEF IInv
<1> QED BY <1>6, <1>8

(* The job of a letter comes last. *)
LEMMA EnqueueKeeps ==
  ASSUME IInv, EnqueueLetter
  PROVE LetterInv' /\ WholeLetter'
<1>1. /\ listener.pc = "attaching" /\ listener.docs = <<>> /\ listener' = Past(listener.at)
      /\ jobs' = [jobs EXCEPT ![Letter] = Enqueue(@, From[Letter])]
      /\ UNCHANGED <<carriers, gaps>>
  BY DEF EnqueueLetter, Whole, fileVars
<1>2. \A i \in DOMAIN Docs[Letter] : Accounted(Letter, Docs[Letter][i])
  BY <1>1 DEF IInv, LetterInv
<1>3. \A m \in Messages : m # Letter => jobs'[m] = jobs[m]
  BY <1>1
<1>4. WholeLetter'
  BY <1>1, <1>2, <1>3 DEF IInv, WholeLetter, Accounted
<1>5. LetterInv'
  BY <1>1 DEF IInv, LetterInv, FilingInv, HandInv, Past
<1> QED BY <1>4, <1>5

(* Every step keeps letters whole. *)
LEMMA StepLetter == IInv /\ [Next]_vars => LetterInv' /\ WholeLetter'
<1> SUFFICES ASSUME IInv, [Next]_vars PROVE LetterInv' /\ WholeLetter'
  OBVIOUS
<1>t. FilingInv /\ JobsInv /\ LetterInv /\ WholeLetter
  BY DEF IInv
<1>m. Messages \subseteq Items /\ Messages \cap Pages = {}
  BY ReadingAssumption DEF Items
<1>r. \A x \in Items : jobs[x] \in Row
  BY <1>t DEF JobsInv
<1>q. ASSUME UNCHANGED <<jobs, carriers, gaps>>,
             UNCHANGED listener \/ listener'.pc # "attaching"
      PROVE LetterInv' /\ WholeLetter'
  BY <1>q, <1>t, AsideKeeps
<1>1. ASSUME NEW m \in Messages, Deliver(m) PROVE LetterInv' /\ WholeLetter'
  BY <1>1, <1>q DEF Deliver, fileVars
<1>2. CASE Renumber \/ Ask \/ Fetch \/ FetchFails \/ Record \/ Commit
  <2>1. UNCHANGED <<jobs, carriers, gaps>>
    BY <1>2 DEF Renumber, Ask, Fetch, FetchFails, Record, Commit, fileVars
  <2>2. UNCHANGED listener \/ listener'.pc # "attaching"
    <3>1. Resting.pc # "attaching"
      BY DEF Resting
    <3>2. CASE Renumber \/ Ask \/ FetchFails \/ Commit
      BY <3>1, <3>2 DEF Renumber, Ask, FetchFails, Commit, Resting
    <3>3. CASE Fetch
      BY <1>t, <3>1, <3>3 DEF Fetch, FilingInv, HandInv
    <3>4. CASE Record
      BY <1>t, <3>4 DEF Record, Past, FilingInv, HandInv
    <3> QED BY <1>2, <3>2, <3>3, <3>4
  <2> QED BY <2>1, <2>2, <1>q
<1>3. CASE Claim
  <2>1. /\ UNCHANGED <<jobs, carriers, gaps>> /\ Letter \in Messages
        /\ listener'.docs = Docs[Letter] /\ Letter' = Letter
    BY <1>3, <1>t DEF Claim, FilingInv, HandInv, Letter
  <2>2. Docs[Letter] \in Seq(Documents)
    BY <2>1, ReadingAssumption
  <2>3. LetterInv'
    BY <1>t, <2>1, <2>2 DEF LetterInv, Accounted
  <2> QED BY <1>t, <2>1, <2>3 DEF WholeLetter
<1>4. CASE Attach \/ Refuse
  BY <1>4, DocumentKeeps
<1>5. CASE EnqueueLetter
  BY <1>5, EnqueueKeeps
<1>6. ASSUME NEW f \in fetching, PageArrives(f) PROVE LetterInv' /\ WholeLetter'
  <2>1. /\ f[1] \in Pages /\ jobs' = [jobs EXCEPT ![f[1]] = Enqueue(@, f[2])]
        /\ UNCHANGED <<carriers, gaps, listener>>
    BY <1>6, <1>t DEF PageArrives, JobsInv
  <2>2. \A m \in Messages : jobs'[m] = jobs[m]
    BY <1>m, <2>1
  <2> QED BY <1>t, <2>1, <2>2, AsideKeeps
<1>7. ASSUME NEW f \in fetching, PageFails(f) PROVE LetterInv' /\ WholeLetter'
  BY <1>7, <1>q DEF PageFails
<1>8. ASSUME NEW w \in Workers, Take(w) PROVE LetterInv' /\ WholeLetter'
  <2>1. PICK x \in snapshot :
          jobs[x].state = "READY" /\ jobs' = [jobs EXCEPT ![x] = Start(@)]
    BY <1>8 DEF Take
  <2>2. \A m \in Messages : jobs'[m].state # "ABSENT" => jobs[m].state # "ABSENT"
    BY <2>1
  <2>3. UNCHANGED <<carriers, gaps, listener>>
    BY <1>8 DEF Take, fileVars
  <2> QED BY <1>t, <2>2, <2>3, AsideKeeps
<1>9. ASSUME NEW w \in Workers, Complete(w) \/ Falter(w) PROVE LetterInv' /\ WholeLetter'
  <2> DEFINE x == worker[w]
  <2>1. jobs[x].state = "RUNNING"
    BY <1>9, <1>t, WorkerHolds DEF Complete, Falter
  <2>2. \A m \in Messages \ {x} : jobs'[m] = jobs[m]
    <3>1. CASE Complete(w)
      BY <3>1 DEF Complete
    <3>2. CASE Falter(w)
      BY <3>2 DEF Falter
    <3> QED BY <1>9, <3>1, <3>2
  <2>3. UNCHANGED <<carriers, gaps, listener>>
    BY <1>9 DEF Complete, Falter, fileVars
  <2> QED BY <1>t, <2>1, <2>2, <2>3, AsideKeeps
<1>10. ASSUME NEW x \in Items, ComesDue(x) PROVE LetterInv' /\ WholeLetter'
  <2>1. jobs[x].state = "READY" /\ \A m \in Messages \ {x} : jobs'[m] = jobs[m]
    BY <1>10, <1>t DEF ComesDue, JobsInv
  <2>2. UNCHANGED <<carriers, gaps, listener>>
    BY <1>10 DEF ComesDue, fileVars
  <2> QED BY <1>t, <2>1, <2>2, AsideKeeps
<1>11. CASE Crash \/ Shutdown
  <2>1. listener'.pc # "attaching" /\ UNCHANGED <<carriers, gaps>>
    BY <1>11 DEF Crash, Shutdown, Forget, Resting
  <2>2. \A m \in Messages : jobs'[m].state # "ABSENT" => jobs[m].state # "ABSENT"
    <3>1. CASE Crash
      BY <3>1 DEF Crash
    <3>2. CASE Shutdown
      <4>1. \A x \in Held \cap Items : up => jobs[x].state = "RUNNING"
        BY <1>t DEF JobsInv, RunningIsRun
      <4> QED BY <1>m, <3>2, <4>1 DEF Shutdown
    <3> QED BY <1>11, <3>1, <3>2
  <2> QED BY <1>t, <2>1, <2>2, AsideKeeps
<1>12. CASE Boot
  <2>1. /\ UNCHANGED <<carriers, gaps, listener>> /\ prompt' \in Nat
        /\ jobs' = [x \in Items |-> Booted(x, jobs[x], prompt')]
    BY <1>12, <1>t DEF Boot, JobsInv
  <2>2. \A m \in Messages : jobs'[m].state # "ABSENT" => jobs[m].state # "ABSENT"
    BY <1>m, <1>r, <2>1, BootedRows
  <2> QED BY <1>t, <2>1, <2>2, AsideKeeps
<1>13. CASE StartDrain \/ UNCHANGED vars
  BY <1>13, <1>q DEF StartDrain, vars, fileVars
<1> QED BY <1>1, <1>2, <1>3, <1>4, <1>5, <1>6, <1>7, <1>8, <1>9, <1>10, <1>11, <1>12,
           <1>13 DEF Next, File
-------------------------------------------------------------------------------
(* The books of the backlog: attempts, readings and prompts.               *)

(* Attempts stay accounted for: what was RUNNING was read, or blamed, or    *)
(* handed back with its attempt.                                            *)
LEMMA EarnedOps ==
  ASSUME NEW row \in Row, NEW r \in Nat, NEW b \in Nat, NEW who, NEW claims, NEW version,
         Earned(row, r, b)
  PROVE /\ Earned(Enqueue(row, who), r, b)
        /\ Earned(ReassignOwner(row, who), r, b)
        /\ row.state = "READY" => Earned(Start(row), r, b)
        /\ row.state = "RUNNING" => /\ Earned(Finish(row, claims, version), r + 1, b)
                                    /\ Earned(FailTransient(row), r, b + 1)
                                    /\ Earned(Release(row), r, b)
<1>1. Earned(Enqueue(row, who), r, b)
  BY DEF Earned, Enqueue, NoJob, Row
<1>2. Earned(ReassignOwner(row, who), r, b)
  BY DEF Earned, ReassignOwner, Reopened, Row
<1>3. row.state = "READY" => Earned(Start(row), r, b)
  BY DEF Earned, Start, Row
<1>4. row.state = "RUNNING" => Earned(Finish(row, claims, version), r + 1, b)
  BY DEF Earned, Finish, Row
<1>5. row.state = "RUNNING" => Earned(FailTransient(row), r, b + 1)
  BY DEF Earned, FailTransient, Row
<1>6. row.state = "RUNNING" => Earned(Release(row), r, b)
  BY DEF Earned, Release, Reopened, Row
<1> QED BY <1>1, <1>2, <1>3, <1>4, <1>5, <1>6

(* So do the readings left: only what was finished may be opened again, and *)
(* documents apart only by boot.                                            *)
LEMMA OnceOps ==
  ASSUME NEW row \in Row, NEW r \in Nat, NEW b \in Nat, NEW who, NEW claims,
         NEW version \in Nat, version > 0, Earned(row, r, b), Once(row, r, version)
  PROVE /\ Once(Enqueue(row, who), r, version)
        /\ row.state = "READY" => Once(Start(row), r, version)
        /\ row.state = "RUNNING" => /\ Once(Finish(row, claims, version), r + 1, version)
                                    /\ Once(FailTransient(row), r, version)
                                    /\ Once(Release(row), r, version)
<1>1. Once(Enqueue(row, who), r, version)
  BY DEF Earned, Once, Extra, Enqueue, NoJob, Row
<1>2. row.state = "READY" => Once(Start(row), r, version)
  BY DEF Once, Extra, Start, Row
<1>3. row.state = "RUNNING" => Once(Finish(row, claims, version), r + 1, version)
  BY DEF Once, Extra, Finish, Row
<1>4. row.state = "RUNNING" => Once(FailTransient(row), r, version)
  BY DEF Once, Extra, FailTransient, Row
<1>5. row.state = "RUNNING" => Once(Release(row), r, version)
  BY DEF Once, Extra, Release, Reopened, Row
<1> QED BY <1>1, <1>2, <1>3, <1>4, <1>5

(* What is DONE is DONE under the prompt deployed, or was before. *)
LEMMA CurrentOps ==
  ASSUME NEW row \in Row, NEW who, NEW claims, NEW version, Current(row, version)
  PROVE /\ Current(Enqueue(row, who), version)
        /\ Current(ReassignOwner(row, who), version)
        /\ Current(Start(row), version)
        /\ Current(Finish(row, claims, version), version)
        /\ Current(FailTransient(row), version)
<1>1. Current(Enqueue(row, who), version) /\ Current(ReassignOwner(row, who), version)
  BY DEF Current, Enqueue, NoJob, ReassignOwner, Reopened, Row
<1>2. Current(Start(row), version)
  BY DEF Current, Start, Row
<1>3. Current(Finish(row, claims, version), version)
  BY DEF Current, Finish, Row
<1>4. Current(FailTransient(row), version)
  BY DEF Current, FailTransient, Row
<1> QED BY <1>1, <1>2, <1>3, <1>4

(* Boot blames the death for what ran, opens again what was read under      *)
(* another prompt or found empty for the first time, and nothing else.      *)
LEMMA BootedBooks ==
  ASSUME NEW row \in Row, NEW x, NEW r \in Nat, NEW b \in Nat,
         NEW version \in Nat, NEW next \in {version, version + 1}, Earned(row, r, b)
  PROVE /\ Earned(Booted(x, row, next), r, IF row.state = "RUNNING" THEN b + 1 ELSE b)
        /\ x \notin Documents /\ Once(row, r, version) => Once(Booted(x, row, next), r, next)
        /\ Current(Booted(x, row, next), next)
<1> DEFINE c == IF row.state = "RUNNING" THEN b + 1 ELSE b
           s == RequeueStranded(row)
           d == IF x \in Documents THEN Retire(s) ELSE s
           e == RequeueEmpty(d)
           f == RequeueForPrompt(e, next)
<1>1. s \in Row /\ s.state # "RUNNING"
  BY DEF Row, RequeueStranded, Reopened, JobStates
<1>2. d \in Row /\ d.state # "RUNNING"
  BY <1>1 DEF Row, Retire, JobStates
<1>3. e \in Row /\ e.state # "RUNNING"
  BY <1>2 DEF Row, RequeueEmpty, Reopened, JobStates
<1>4. Earned(s, r, c)
  BY DEF Earned, RequeueStranded, Reopened, Row
<1>5. Earned(d, r, c)
  BY <1>1, <1>4 DEF Earned, Retire, Row
<1>6. Earned(e, r, c)
  BY <1>2, <1>5 DEF Earned, RequeueEmpty, Reopened, Row
<1>7. Earned(f, r, c)
  BY <1>3, <1>6 DEF Earned, RequeueForPrompt, Reopened, Row
<1>8. Current(f, next)
  BY <1>3 DEF Current, RequeueForPrompt, Reopened, Row
<1>9. ASSUME x \notin Documents, Once(row, r, version) PROVE Once(f, r, next)
  <2>1. Once(s, r, version) /\ d = s
    BY <1>9 DEF Once, Extra, RequeueStranded, Reopened, Row
  <2>2. Once(e, r, version)
    BY <1>1, <2>1 DEF Once, Extra, RequeueEmpty, Reopened, Row
  <2>3. CASE e.state = "DONE" /\ e.prompt # next /\ ~e.retired
    <3>1. f = Reopened(e)
      BY <2>3 DEF RequeueForPrompt
    <3>2. e.prompt < next
      BY <1>3, <2>2, <2>3 DEF Once, Row
    <3>3. r < next + Extra(e)
      BY <1>3, <2>2, <2>3, <3>2 DEF Once, Extra, Row
    <3> QED BY <1>3, <3>1, <3>3 DEF Once, Extra, Reopened, Row
  <2>4. CASE ~(e.state = "DONE" /\ e.prompt # next /\ ~e.retired)
    <3>1. f = e
      BY <2>4 DEF RequeueForPrompt
    <3> QED BY <1>3, <2>2, <3>1 DEF Once, Extra, Row
  <2> QED BY <2>3, <2>4
<1> QED BY <1>7, <1>8, <1>9 DEF Booted

(* One row changes, and what was counted for it. *)
LEMMA OneRow ==
  ASSUME JobsInv, BooksInv, UNCHANGED <<prompt, up>>,
         NEW x \in Items, NEW row \in Row, NEW r \in Nat, NEW b \in Nat,
         jobs' = [jobs EXCEPT ![x] = row],
         reads' = [reads EXCEPT ![x] = r], blamed' = [blamed EXCEPT ![x] = b],
         Earned(row, r, b),
         x \in Messages \cup Pages => Once(row, r, prompt),
         up => Current(row, prompt)
  PROVE BooksInv'
<1>1. /\ reads' \in [Items -> Nat] /\ reads'[x] = r
      /\ blamed' \in [Items -> Nat] /\ blamed'[x] = b /\ jobs'[x] = row
      /\ \A y \in Items \ {x} : /\ jobs'[y] = jobs[y]
                               /\ reads'[y] = reads[y] /\ blamed'[y] = blamed[y]
  BY DEF JobsInv, BooksInv
<1>2. Messages \cup Pages \subseteq Items
  BY DEF Items
<1>3. \A y \in Items : Earned(jobs'[y], reads'[y], blamed'[y])
  <2> TAKE y \in Items
  <2>1. CASE y = x
    BY <1>1, <2>1
  <2>2. CASE y # x
    BY <1>1, <2>2 DEF BooksInv
  <2> QED BY <2>1, <2>2
<1>4. \A y \in Messages \cup Pages : Once(jobs'[y], reads'[y], prompt)
  BY <1>1, <1>2 DEF BooksInv
<1>5. up => \A y \in Items : Current(jobs'[y], prompt)
  BY <1>1 DEF BooksInv
<1> QED BY <1>1, <1>3, <1>4, <1>5 DEF BooksInv

(* The same with nothing counted. *)
LEMMA RowOnly ==
  ASSUME JobsInv, BooksInv, UNCHANGED <<prompt, up, reads, blamed>>,
         NEW x \in Items, NEW row \in Row,
         jobs' = [jobs EXCEPT ![x] = row],
         Earned(row, reads[x], blamed[x]),
         x \in Messages \cup Pages => Once(row, reads[x], prompt),
         up => Current(row, prompt)
  PROVE BooksInv'
<1>1. /\ reads[x] \in Nat /\ blamed[x] \in Nat
      /\ reads' = [reads EXCEPT ![x] = reads[x]]
      /\ blamed' = [blamed EXCEPT ![x] = blamed[x]]
  BY DEF BooksInv
<1> QED BY <1>1, OneRow

(* What the books say of one row. *)
LEMMA BooksOf ==
  ASSUME JobsInv, BooksInv, NEW x \in Items
  PROVE /\ jobs[x] \in Row /\ reads[x] \in Nat /\ blamed[x] \in Nat
        /\ Earned(jobs[x], reads[x], blamed[x])
        /\ x \in Messages \cup Pages => Once(jobs[x], reads[x], prompt)
        /\ up => Current(jobs[x], prompt)
        /\ prompt \in Nat /\ prompt > 0
  BY DEF JobsInv, BooksInv

LEMMA InitBooks == Init => BooksInv
<1> SUFFICES ASSUME Init PROVE BooksInv
  OBVIOUS
<1>1. \A x \in Messages \cup Pages : x \in Items /\ x \notin Historical
  BY ReadingAssumption DEF Items
<1>2. \A x \in Items : Earned(jobs[x], reads[x], blamed[x])
  BY DEF Init, NoJob, OldJob, Earned
<1>3. \A x \in Messages \cup Pages : Once(jobs[x], reads[x], prompt)
  BY <1>1 DEF Init, NoJob, Once, Extra
<1>4. reads \in [Items -> Nat] /\ blamed \in [Items -> Nat]
  BY DEF Init
<1>5. prompt > 0 /\ up = FALSE
  BY DEF Init
<1> QED BY <1>2, <1>3, <1>4, <1>5 DEF BooksInv

(* Every step keeps the books. *)
LEMMA StepBooks == IInv /\ BooksInv /\ [Next]_vars => BooksInv'
<1> SUFFICES ASSUME IInv, BooksInv, [Next]_vars PROVE BooksInv'
  OBVIOUS
<1>t. FilingInv /\ JobsInv /\ LetterInv
  BY DEF IInv
<1>q. ASSUME UNCHANGED <<jobs, reads, blamed, prompt>>, UNCHANGED up \/ up' = FALSE
      PROVE BooksInv'
  BY <1>q DEF BooksInv
<1>1. ASSUME NEW m \in Messages, Deliver(m) PROVE BooksInv'
  BY <1>1, <1>q DEF Deliver, drainVars
<1>2. CASE Renumber \/ Ask \/ Fetch \/ FetchFails \/ Record \/ Claim \/ Refuse \/ Commit
  BY <1>2, <1>q DEF Renumber, Ask, Fetch, FetchFails, Record, Claim, Refuse, Commit,
                    drainVars
<1>3. CASE Attach
  <2> DEFINE d == listener.docs[1]
             row == ReassignOwner(jobs[d], From[Letter])
  <2>1. d \in Documents
    BY <1>3, <1>t DEF Attach, LetterInv
  <2>2. d \in Items /\ d \notin Messages \cup Pages
    BY <2>1, ReadingAssumption DEF Items
  <2>3. From[Letter] \in People
    BY <1>3, <1>t, ReadingAssumption DEF Attach, FilingInv, HandInv, Letter, People
  <2>4. jobs' = [jobs EXCEPT ![d] = row] /\ UNCHANGED <<prompt, up, reads, blamed>>
    BY <1>3 DEF Attach, drainVars
  <2>5. row \in Row /\ Earned(row, reads[d], blamed[d]) /\ (up => Current(row, prompt))
    BY <1>t, <2>2, <2>3, BooksOf, RowOps, EarnedOps, CurrentOps
  <2> QED BY <1>t, <2>2, <2>4, <2>5, RowOnly
<1>4. CASE EnqueueLetter
  <2> DEFINE row == Enqueue(jobs[Letter], From[Letter])
  <2>1. Letter \in Messages
    BY <1>4, <1>t DEF EnqueueLetter, FilingInv, HandInv, Letter
  <2>2. Letter \in Items /\ From[Letter] \in People
    BY <2>1, ReadingAssumption DEF Items, People
  <2>3. jobs' = [jobs EXCEPT ![Letter] = row] /\ UNCHANGED <<prompt, up, reads, blamed>>
    BY <1>4 DEF EnqueueLetter, drainVars
  <2>4. /\ row \in Row /\ Earned(row, reads[Letter], blamed[Letter])
        /\ Once(row, reads[Letter], prompt) /\ (up => Current(row, prompt))
    BY <1>t, <2>1, <2>2, BooksOf, RowOps, EarnedOps, OnceOps, CurrentOps
  <2> QED BY <1>t, <2>2, <2>3, <2>4, RowOnly
<1>5. ASSUME NEW f \in fetching, PageArrives(f) PROVE BooksInv'
  <2> DEFINE row == Enqueue(jobs[f[1]], f[2])
  <2>1. f[1] \in Pages /\ f[1] \in Items /\ f[2] \in People
    BY <1>5, <1>t DEF JobsInv, Items
  <2>2. jobs' = [jobs EXCEPT ![f[1]] = row] /\ UNCHANGED <<prompt, up, reads, blamed>>
    BY <1>5 DEF PageArrives, drainVars
  <2>3. /\ row \in Row /\ Earned(row, reads[f[1]], blamed[f[1]])
        /\ Once(row, reads[f[1]], prompt) /\ (up => Current(row, prompt))
    BY <1>t, <2>1, BooksOf, RowOps, EarnedOps, OnceOps, CurrentOps
  <2> QED BY <1>t, <2>1, <2>2, <2>3, RowOnly
<1>6. ASSUME NEW f \in fetching, PageFails(f) PROVE BooksInv'
  BY <1>6, <1>q DEF PageFails, drainVars
<1>7. CASE StartDrain
  BY <1>7, <1>q DEF StartDrain
<1>8. ASSUME NEW w \in Workers, Take(w) PROVE BooksInv'
  <2>1. PICK x \in snapshot : /\ jobs[x].state = "READY"
                              /\ jobs' = [jobs EXCEPT ![x] = Start(@)]
    BY <1>8 DEF Take
  <2>2. x \in Items /\ UNCHANGED <<prompt, up, reads, blamed>>
    BY <1>8, <1>t DEF Take, JobsInv
  <2> DEFINE row == Start(jobs[x])
  <2>3. /\ row \in Row /\ Earned(row, reads[x], blamed[x]) /\ (up => Current(row, prompt))
        /\ x \in Messages \cup Pages => Once(row, reads[x], prompt)
    BY <1>t, <2>1, <2>2, BooksOf, StartRow, EarnedOps, OnceOps, CurrentOps
  <2> QED BY <1>t, <2>1, <2>2, <2>3, RowOnly
<1>9. ASSUME NEW w \in Workers, Complete(w) \/ Falter(w) PROVE BooksInv'
  <2>1. PICK x \in Items : /\ x = worker[w] /\ jobs[x].state = "RUNNING"
    BY <1>9, <1>t, WorkerHolds DEF Complete, Falter
  <2>2. UNCHANGED <<prompt, up>>
    BY <1>9 DEF Complete, Falter
  <2>3. CASE Complete(w)
    <3>1. PICK claims \in {0, 1} : jobs' = [jobs EXCEPT ![x] = Finish(@, claims, prompt)]
      BY <2>1, <2>3 DEF Complete
    <3> DEFINE row == Finish(jobs[x], claims, prompt)
               r == reads[x] + 1
    <3>2. /\ reads' = [reads EXCEPT ![x] = r] /\ r \in Nat
          /\ blamed' = [blamed EXCEPT ![x] = blamed[x]] /\ blamed[x] \in Nat
      BY <2>1, <2>3, <1>t, BooksOf DEF Complete, BooksInv
    <3>3. /\ row \in Row /\ Earned(row, r, blamed[x]) /\ (up => Current(row, prompt))
          /\ x \in Messages \cup Pages => Once(row, r, prompt)
      BY <1>t, <2>1, BooksOf, FinishRow, EarnedOps, OnceOps, CurrentOps
    <3> QED BY <1>t, <2>2, <3>1, <3>2, <3>3, OneRow
  <2>4. CASE Falter(w)
    <3> DEFINE row == FailTransient(jobs[x])
               b == blamed[x] + 1
    <3>1. /\ jobs' = [jobs EXCEPT ![x] = row]
          /\ blamed' = [blamed EXCEPT ![x] = b] /\ b \in Nat
          /\ reads' = [reads EXCEPT ![x] = reads[x]] /\ reads[x] \in Nat
      BY <2>1, <2>4, <1>t, BooksOf DEF Falter, BooksInv
    <3>2. /\ row \in Row /\ Earned(row, reads[x], b) /\ (up => Current(row, prompt))
          /\ x \in Messages \cup Pages => Once(row, reads[x], prompt)
      BY <1>t, <2>1, BooksOf, FailedRow, EarnedOps, OnceOps, CurrentOps
    <3> QED BY <1>t, <2>2, <3>1, <3>2, OneRow
  <2> QED BY <1>9, <2>3, <2>4
<1>10. ASSUME NEW x \in Items, ComesDue(x) PROVE BooksInv'
  <2> DEFINE row == [jobs[x] EXCEPT !.due = TRUE]
  <2>1. jobs' = [jobs EXCEPT ![x] = row] /\ UNCHANGED <<prompt, up, reads, blamed>>
    BY <1>10 DEF ComesDue, drainVars
  <2>2. jobs[x] \in Row
    BY <1>t, BooksOf
  <2>3. /\ row \in Row /\ row.state = jobs[x].state /\ row.attempts = jobs[x].attempts
        /\ row.emptied = jobs[x].emptied /\ row.prompt = jobs[x].prompt
        /\ row.retired = jobs[x].retired
    BY <2>2 DEF Row
  <2>4. /\ Earned(row, reads[x], blamed[x]) /\ (up => Current(row, prompt))
        /\ x \in Messages \cup Pages => Once(row, reads[x], prompt)
    BY <1>t, <2>3, BooksOf DEF Earned, Once, Extra, Current
  <2> QED BY <1>t, <2>1, <2>3, <2>4, RowOnly
<1>11. CASE Crash
  BY <1>11, <1>q DEF Crash, Forget
<1>12. CASE Shutdown
  <2>1. up' = FALSE /\ up /\ UNCHANGED <<reads, prompt>>
    BY <1>12 DEF Shutdown, Forget
  <2>2. \A x \in Held \cap Items : jobs[x].state = "RUNNING"
    BY <1>t, <2>1 DEF JobsInv, RunningIsRun
  <2>3. blamed' \in [Items -> Nat]
    BY <1>12 DEF Shutdown, BooksInv
  <2>4. ASSUME NEW x \in Items PROVE Earned(jobs'[x], reads[x], blamed'[x])
    BY <1>12, <1>t, <2>2, BooksOf, EarnedOps DEF Shutdown
  <2>5. ASSUME NEW x \in Messages \cup Pages PROVE Once(jobs'[x], reads[x], prompt)
    <3>1. x \in Items
      BY DEF Items
    <3> QED BY <1>12, <1>t, <2>2, <3>1, BooksOf, OnceOps DEF Shutdown
  <2> QED BY <2>1, <2>3, <2>4, <2>5 DEF BooksInv
<1>13. CASE Boot
  <2>1. /\ prompt' \in {prompt, prompt + 1} /\ prompt' \in Nat /\ prompt' > 0
        /\ UNCHANGED reads
        /\ jobs' = [x \in Items |-> Booted(x, jobs[x], prompt')]
        /\ blamed' = [x \in Items |->
             IF jobs[x].state = "RUNNING" THEN blamed[x] + 1 ELSE blamed[x]]
    BY <1>13, <1>t DEF Boot, JobsInv, BooksInv
  <2>2. blamed' \in [Items -> Nat]
    BY <2>1 DEF BooksInv
  <2>3. ASSUME NEW x \in Items
        PROVE Earned(jobs'[x], reads[x], blamed'[x]) /\ Current(jobs'[x], prompt')
    BY <1>t, <2>1, BooksOf, BootedBooks
  <2>4. ASSUME NEW x \in Messages \cup Pages PROVE Once(jobs'[x], reads[x], prompt')
    <3>1. x \in Items /\ x \notin Documents
      BY ReadingAssumption DEF Items
    <3> QED BY <1>t, <2>1, <3>1, BooksOf, BootedBooks
  <2> QED BY <2>1, <2>2, <2>3, <2>4 DEF BooksInv
<1>14. CASE UNCHANGED vars
  BY <1>14, <1>q DEF vars, drainVars
<1> QED BY <1>1, <1>2, <1>3, <1>4, <1>5, <1>6, <1>7, <1>8, <1>9, <1>10, <1>11, <1>12,
           <1>13, <1>14 DEF Next, File
-------------------------------------------------------------------------------
(* The founding seats, and what is left of the types.                      *)

Sides == {"investor", "founder"}
Holders(held, side) == {p \in People : held[p] = side}

(* Who holds a seat: no side has more holders than its limit. *)
SeatsFit(held) ==
  /\ held \in [People -> Sides \cup {Nothing}]
  /\ \A side \in Sides : /\ IsFiniteSet(Holders(held, side))
                         /\ Cardinality(Holders(held, side)) <= SeatLimit

(* Seats are only ever given. *)
Given(held, later) ==
  /\ SeatsFit(later)
  /\ \A p \in People : held[p] # Nothing => later[p] = held[p]
  /\ \A side \in Sides : Full(held, side) => Full(later, side)

(* Letter m, read under these names, has its seat or finds its side full. *)
Served(held, m, names) ==
  \/ Cohort(m, names) = Nothing
  \/ held[From[m]] # Nothing
  \/ \E side \in Sides : Full(held, side)

(* The seats are given out, the letters on record are finitely many. *)
SeatInv ==
  /\ SeatsFit(seats)
  /\ IsFiniteSet(filed \cap Messages)
  /\ SeatsKeepUp

(* Counters within their bounds, gaps of letters and their documents, and   *)
(* documents in the listener's hand.                                        *)
RangesInv ==
  /\ epoch \in 1..MaxEpoch /\ prompt \in 1..MaxPrompt
  /\ restarts \in 0..MaxRestarts /\ mishaps \in 0..MaxMishaps
  /\ gaps \subseteq Messages \X Documents
  /\ listener.docs \in Seq(Documents)

(* A cohort is a side, or none. *)
LEMMA CohortSides ==
  ASSUME NEW m \in Messages, NEW names
  PROVE Cohort(m, names) \in Sides \cup {Nothing}
  BY DEF Cohort, Sides

(* What the file names of a letter declare, its having documents declares. *)
LEMMA NamesAreOfDocuments ==
  ASSUME NEW m \in Messages, Cohort(m, Nothing) = Nothing
  PROVE Cohort(m, FileNames[m]) = Nothing
  BY ReadingAssumption DEF Cohort

(* Giving and giving again is giving. *)
LEMMA GivenStays ==
  ASSUME NEW held, NEW later, NEW last, Given(held, later), Given(later, last)
  PROVE Given(held, last)
  BY DEF Given

(* Who was served stays so while seats are only given. *)
LEMMA ServedStays ==
  ASSUME NEW held, NEW later, Given(held, later), NEW m \in Messages, NEW names,
         Served(held, m, names)
  PROVE Served(later, m, names)
<1>1. From[m] \in People
  BY DEF People
<1> QED BY <1>1 DEF Given, Served

(* One letter claims at most one seat, and none above the limit. *)
LEMMA ClaimGives ==
  ASSUME NEW held, SeatsFit(held), NEW m \in Messages, NEW names
  PROVE /\ Given(held, ClaimSeat(held, m, names))
        /\ Served(ClaimSeat(held, m, names), m, names)
<1> DEFINE side == Cohort(m, names)
           later == [held EXCEPT ![From[m]] = side]
<1>1. From[m] \in People /\ side \in Sides \cup {Nothing} /\ Nothing \notin Sides
  BY CohortSides, ReadingAssumption DEF People, Sides
<1>2. CASE side = Nothing \/ held[From[m]] # Nothing \/ Full(held, side)
  <2>1. ClaimSeat(held, m, names) = held
    BY <1>2 DEF ClaimSeat
  <2> QED BY <1>1, <1>2, <2>1 DEF Given, Served
<1>3. CASE ~(side = Nothing \/ held[From[m]] # Nothing \/ Full(held, side))
  <2>1. ClaimSeat(held, m, names) = later
    BY <1>3 DEF ClaimSeat
  <2>2. later \in [People -> Sides \cup {Nothing}] /\ later[From[m]] = side
    BY <1>1 DEF SeatsFit
  <2>3. /\ Holders(later, side) = Holders(held, side) \cup {From[m]}
        /\ \A other \in Sides \ {side} : Holders(later, other) = Holders(held, other)
    BY <1>1, <1>3 DEF SeatsFit, Holders
  <2>4. side \in Sides /\ IsFiniteSet(Holders(held, side))
        /\ Cardinality(Holders(held, side)) < SeatLimit
    <3>1. side \in Sides /\ IsFiniteSet(Holders(held, side))
      BY <1>1, <1>3 DEF SeatsFit
    <3>2. Cardinality(Holders(held, side)) \in Nat
      BY <3>1, FS_CardinalityType
    <3>3. ~(Cardinality(Holders(held, side)) >= SeatLimit)
      BY <1>3 DEF Full, Holders
    <3> QED BY <3>1, <3>2, <3>3, ReadingAssumption
  <2>5. From[m] \notin Holders(held, side)
    BY <1>1, <1>3, <2>4 DEF Holders
  <2>6. /\ IsFiniteSet(Holders(later, side))
        /\ Cardinality(Holders(later, side)) = Cardinality(Holders(held, side)) + 1
        /\ Cardinality(Holders(held, side)) \in Nat
    <3> DEFINE before == Holders(held, side)
    <3>1. IsFiniteSet(before) /\ From[m] \notin before /\ Holders(later, side) = before \cup {From[m]}
      BY <2>3, <2>4, <2>5
    <3> HIDE DEF before
    <3>2. /\ IsFiniteSet(before \cup {From[m]})
          /\ Cardinality(before \cup {From[m]}) = Cardinality(before) + 1
          /\ Cardinality(before) \in Nat
      BY <3>1, FS_AddElement, FS_CardinalityType
    <3> QED BY <3>1, <3>2 DEF before
  <2>7. SeatsFit(later)
    <3>1. ASSUME NEW other \in Sides
          PROVE /\ IsFiniteSet(Holders(later, other))
                /\ Cardinality(Holders(later, other)) <= SeatLimit
      <4>1. CASE other = side
        <5> HIDE DEF later, side
        <5> QED BY <2>4, <2>6, <4>1, ReadingAssumption
      <4>2. CASE other # side
        BY <2>3, <4>2 DEF SeatsFit
      <4> QED BY <4>1, <4>2
    <3> QED BY <2>2, <3>1 DEF SeatsFit
  <2>8. \A p \in People : held[p] # Nothing => later[p] = held[p]
    BY <1>3 DEF SeatsFit
  <2>9. \A other \in Sides : Full(held, other) => Full(later, other)
    <3>1. \A other \in Sides \ {side} : Full(held, other) => Full(later, other)
      BY <2>3 DEF Full, Holders
    <3> QED BY <1>3, <3>1
  <2>10. Served(later, m, names)
    BY <1>3, <2>2 DEF Served
  <2> QED BY <2>1, <2>7, <2>8, <2>9, <2>10 DEF Given
<1> QED BY <1>2, <1>3

(***************************************************************************)
(* Boot's pass over the record.  Backfill is a fold, that is a function    *)
(* defined by recursion on the letters left; that there is one, and what   *)
(* it gives, is shown by way of a least counterexample.                    *)
(***************************************************************************)

(* A set of numbers that is not empty has a least one. *)
LEMMA LeastNumber ==
  ASSUME NEW T, T \subseteq Nat, T # {}
  PROVE \E n \in T : \A k \in T : n <= k
<1>1. PICK n \in T : \A k \in T : ~(<<k, n>> \in OpToRel(<, Nat))
  BY WFMin, NatLessThanWellFounded
<1>2. ASSUME NEW k \in T PROVE n <= k
  <2>1. k \in Nat /\ n \in Nat
    OBVIOUS
  <2>2. ~(k < n)
    BY <1>1, <2>1, Zenon DEF OpToRel
  <2> QED BY <2>1, <2>2
<1> QED BY <1>2

(* What is left of a finite set without the letter that is next. *)
Upcoming(S) == CHOOSE m \in S : TRUE

(* The next letter is one of those left, and leaves one fewer. *)
LEMMA UpcomingLeaves ==
  ASSUME NEW S, IsFiniteSet(S), S # {}
  PROVE /\ Upcoming(S) \in S /\ IsFiniteSet(S \ {Upcoming(S)})
        /\ Cardinality(S) \in Nat \ {0}
        /\ Cardinality(S \ {Upcoming(S)}) = Cardinality(S) - 1
<1>1. Upcoming(S) \in S
  BY DEF Upcoming
<1>2. Cardinality(S) \in Nat /\ Cardinality(S) # 0
  BY FS_CardinalityType, FS_EmptySet
<1> QED BY <1>1, <1>2, FS_RemoveElement

(* The letters of S claim, from held on: what the pass over S has come to,  *)
(* given what it came to over every smaller set.                            *)
Pass(f, held, S) ==
  IF S = {} THEN held ELSE ClaimSeat(f[S \ {Upcoming(S)}], Upcoming(S), Nothing)

(* There is a function as the fold defines it: for the sets of up to n      *)
(* letters, whatever n.                                                     *)
LEMMA PassExists ==
  ASSUME NEW held, NEW R, IsFiniteSet(R)
  PROVE \E f : f = [S \in SUBSET R |-> Pass(f, held, S)]
<1> DEFINE Small(n) == {S \in SUBSET R : Cardinality(S) <= n}
           Works(n) == \E f : f = [S \in Small(n) |-> Pass(f, held, S)]
           T == {n \in Nat : ~Works(n)}
<1>f. \A S \in SUBSET R : IsFiniteSet(S) /\ Cardinality(S) \in Nat
  BY FS_Subset, FS_CardinalityType
<1>1. Works(0)
  <2> DEFINE f == [S \in Small(0) |-> held]
  <2>1. \A S \in Small(0) : S = {}
    BY <1>f, FS_EmptySet
  <2>2. f = [S \in Small(0) |-> Pass(f, held, S)]
    <3>1. \A S \in Small(0) : Pass(f, held, S) = held
      BY <2>1 DEF Pass
    <3> HIDE DEF Small
    <3> QED BY <3>1
  <2> QED BY <2>2
<1>2. ASSUME NEW n \in Nat, Works(n) PROVE Works(n + 1)
  <2>1. PICK f : f = [S \in Small(n) |-> Pass(f, held, S)]
    BY <1>2
  <2> DEFINE g == [S \in Small(n + 1) |-> Pass(f, held, S)]
  <2>2. ASSUME NEW S \in Small(n + 1) PROVE Pass(f, held, S) = Pass(g, held, S)
    <3>1. CASE S = {}
      BY <3>1 DEF Pass
    <3>2. CASE S # {}
      <4> DEFINE left == S \ {Upcoming(S)}
      <4>1. left \in SUBSET R /\ Cardinality(left) <= n /\ Cardinality(left) <= n + 1
        BY <1>f, <3>2, UpcomingLeaves
      <4>2. left \in Small(n) /\ left \in Small(n + 1)
        BY <4>1
      <4>3. f[left] = Pass(f, held, left) /\ g[left] = Pass(f, held, left)
        <5> HIDE DEF left, Small
        <5>1. f[left] = Pass(f, held, left)
          BY <2>1, <4>2
        <5> QED BY <4>2, <5>1
      <4> QED BY <3>2, <4>3 DEF Pass
    <3> QED BY <3>1, <3>2
  <2>3. g = [S \in Small(n + 1) |-> Pass(g, held, S)]
    <3> HIDE DEF Small
    <3> QED BY <2>2
  <2> QED BY <2>3
<1>3. T = {}
  <2> SUFFICES ASSUME T # {} PROVE FALSE
    OBVIOUS
  <2>1. PICK n \in T : \A k \in T : n <= k
    BY LeastNumber
  <2>2. n \in Nat /\ ~Works(n)
    OBVIOUS
  <2> HIDE DEF Works
  <2>3. n # 0
    BY <1>1, <2>2
  <2>4. n - 1 \in Nat /\ n - 1 \notin T
    BY <2>1, <2>2, <2>3
  <2>5. Works(n - 1)
    BY <2>4
  <2>6. Works(n - 1 + 1)
    BY <1>2, <2>4, <2>5
  <2>7. n - 1 + 1 = n
    BY <2>2
  <2> QED BY <2>2, <2>6, <2>7
<1>4. Cardinality(R) \in Nat
  BY FS_CardinalityType
<1>5. Works(Cardinality(R))
  <2> HIDE DEF Works
  <2> QED BY <1>3, <1>4
<1>6. Small(Cardinality(R)) = SUBSET R
  BY FS_Subset
<1> QED BY <1>5, <1>6

(* Over any set of letters the pass only gives seats, and serves them all. *)
LEMMA PassGives ==
  ASSUME NEW held, SeatsFit(held), NEW R, IsFiniteSet(R), R \subseteq Messages,
         NEW f, f = [S \in SUBSET R |-> Pass(f, held, S)]
  PROVE \A S \in SUBSET R : Given(held, f[S]) /\ \A m \in S : Served(f[S], m, Nothing)
<1> DEFINE Good(S) == Given(held, f[S]) /\ \A m \in S : Served(f[S], m, Nothing)
           T == {n \in Nat : \E S \in SUBSET R : Cardinality(S) = n /\ ~Good(S)}
<1>f. \A S \in SUBSET R : IsFiniteSet(S) /\ Cardinality(S) \in Nat
  BY FS_Subset, FS_CardinalityType
<1>1. ASSUME NEW S \in SUBSET R, ~Good(S),
             \A L \in SUBSET R : Cardinality(L) < Cardinality(S) => Good(L)
      PROVE FALSE
  <2>1. f[S] = Pass(f, held, S)
    OBVIOUS
  <2>2. CASE S = {}
    <3>1. f[S] = held
      BY <2>1, <2>2 DEF Pass
    <3> QED BY <1>1, <2>2, <3>1 DEF Given
  <2>3. CASE S # {}
    <3> DEFINE m == Upcoming(S)
               left == S \ {m}
    <3>1. m \in S /\ left \in SUBSET R /\ Cardinality(left) < Cardinality(S)
      <4>1. IsFiniteSet(S)
        BY <1>f
      <4>2. /\ m \in S /\ Cardinality(S) \in Nat
            /\ Cardinality(left) = Cardinality(S) - 1
        BY <2>3, <4>1, UpcomingLeaves
      <4> QED BY <4>2
    <3>2. f[S] = ClaimSeat(f[left], m, Nothing)
      BY <2>1, <2>3 DEF Pass
    <3>3. Good(left)
      BY <1>1, <3>1
    <3>4. m \in Messages /\ \A k \in S : k \in Messages /\ (k = m \/ k \in left)
      BY <3>1
    <3> HIDE DEF m, left
    <3>5. Given(f[left], f[S]) /\ Served(f[S], m, Nothing)
      BY <3>2, <3>3, <3>4, ClaimGives DEF Given
    <3>6. Given(held, f[S])
      BY <3>3, <3>5, GivenStays
    <3>7. \A k \in S : Served(f[S], k, Nothing)
      BY <3>3, <3>4, <3>5, ServedStays
    <3> QED BY <1>1, <3>6, <3>7
  <2> QED BY <2>2, <2>3
<1>2. T = {}
  <2> SUFFICES ASSUME T # {} PROVE FALSE
    OBVIOUS
  <2>1. PICK n \in T : \A k \in T : n <= k
    BY LeastNumber
  <2>2. PICK S \in SUBSET R : Cardinality(S) = n /\ ~Good(S)
    OBVIOUS
  <2>3. ASSUME NEW L \in SUBSET R, Cardinality(L) < Cardinality(S) PROVE Good(L)
    <3> HIDE DEF Good
    <3>1. Cardinality(L) \notin T
      BY <1>f, <2>1, <2>2, <2>3
    <3> QED BY <1>f, <3>1
  <2> HIDE DEF Good
  <2> QED BY <1>1, <2>2, <2>3
<1>3. ASSUME NEW S \in SUBSET R PROVE Good(S)
  <2> HIDE DEF Good
  <2>1. Cardinality(S) \in Nat /\ Cardinality(S) \notin T
    BY <1>f, <1>2
  <2> QED BY <2>1
<1> QED BY <1>3

(* And so does the backfill, over all letters on record. *)
LEMMA BackfillGives ==
  ASSUME NEW held, SeatsFit(held), IsFiniteSet(filed \cap Messages)
  PROVE /\ Given(held, Backfill(held))
        /\ \A m \in filed \cap Messages : Served(Backfill(held), m, Nothing)
<1> DEFINE R == filed \cap Messages
           f == CHOOSE g : g = [S \in SUBSET R |-> Pass(g, held, S)]
<1>1. f = [S \in SUBSET R |-> Pass(f, held, S)]
  <2>1. \E g : g = [S \in SUBSET R |-> Pass(g, held, S)]
    BY PassExists
  <2> QED BY <2>1
<1>2. Backfill(held) = f[R]
  BY DEF Backfill, MapThenFoldSet, Pass, Upcoming
<1> HIDE DEF f
<1>3. Given(held, f[R]) /\ \A m \in R : Served(f[R], m, Nothing)
  BY <1>1, PassGives
<1> QED BY <1>2, <1>3

(* The pass of a boot serves whatever a letter declares. *)
LEMMA BootServes ==
  ASSUME SeatInv, Boot
  PROVE SeatInv'
<1>1. /\ seats' = Backfill(seats) /\ UNCHANGED <<filed, listener>>
      /\ SeatsFit(seats) /\ IsFiniteSet(filed \cap Messages)
  BY DEF Boot, SeatInv
<1>2. SeatsFit(seats') /\ \A m \in filed \cap Messages : Served(seats', m, Nothing)
  BY <1>1, BackfillGives DEF Given
<1>3. \A side \in Sides : Cardinality(Holders(seats', side)) <= SeatLimit
  BY <1>2 DEF SeatsFit
<1>4. ASSUME NEW m \in filed \cap Messages
      PROVE \/ Cohort(m, FileNames[m]) = Nothing
            \/ seats'[From[m]] # Nothing
            \/ \E side \in Sides : Full(seats', side)
  BY <1>2, NamesAreOfDocuments DEF Served
<1> QED BY <1>1, <1>2, <1>3, <1>4 DEF SeatInv, SeatsKeepUp, Sides, Holders

(* Where nobody claims, and no letter comes on record. *)
LEMMA SeatsRest ==
  ASSUME SeatInv, UNCHANGED seats, filed' \cap Messages = filed \cap Messages,
         up' => up,
         up' => \/ listener.pc # "claiming"
                \/ listener'.pc = "claiming" /\ Letter' = Letter
  PROVE SeatInv'
<1>1. SeatsFit(seats') /\ IsFiniteSet(filed' \cap Messages)
  BY DEF SeatInv
<1>2. SeatsKeepUp'
  BY DEF SeatInv, SeatsKeepUp, Full
<1> QED BY <1>1, <1>2 DEF SeatInv

(* A letter that comes on record is about to claim. *)
LEMMA RecordSeats ==
  ASSUME SeatInv, FilingInv, Record
  PROVE SeatInv'
<1>1. PICK u \in DOMAIN listener.batch :
        \/ /\ listener' = Past(u) /\ UNCHANGED filed
        \/ /\ filed' = filed \cup {listener.batch[u]}
           /\ listener' = [listener EXCEPT !.pc = "claiming", !.at = u]
  BY DEF Record
<1>2. listener.pc = "filing" /\ UNCHANGED <<seats, up>>
  BY DEF Record
<1>3. CASE listener' = Past(u) /\ UNCHANGED filed
  BY <1>2, <1>3, SeatsRest
<1>4. CASE /\ filed' = filed \cup {listener.batch[u]}
           /\ listener' = [listener EXCEPT !.pc = "claiming", !.at = u]
  <2> DEFINE m == listener.batch[u]
  <2>1. listener'.pc = "claiming" /\ Letter' = m /\ m \in Messages
    BY <1>4 DEF FilingInv, HandInv, Letter
  <2>2. filed' \cap Messages = (filed \cap Messages) \cup {m}
    BY <1>4, <2>1
  <2> HIDE DEF m
  <2>3. SeatsFit(seats') /\ IsFiniteSet(filed' \cap Messages)
    BY <1>2, <2>2, FS_AddElement DEF SeatInv
  <2>4. SeatsKeepUp'
    BY <1>2, <2>1, <2>2 DEF SeatInv, SeatsKeepUp, Full
  <2> QED BY <2>3, <2>4 DEF SeatInv
<1> QED BY <1>1, <1>3, <1>4

(* Then it has claimed, and has its seat or found a side full. *)
LEMMA ClaimSeats ==
  ASSUME SeatInv, FilingInv, Claim
  PROVE SeatInv'
<1>1. /\ seats' = ClaimSeat(seats, Letter, FileNames[Letter])
      /\ UNCHANGED <<filed, up>> /\ listener.pc = "claiming"
  BY DEF Claim
<1>2. Letter \in Messages /\ SeatsFit(seats)
  BY <1>1 DEF FilingInv, HandInv, Letter, SeatInv
<1>3. Given(seats, seats') /\ Served(seats', Letter, FileNames[Letter])
  BY <1>1, <1>2, ClaimGives
<1>4. ASSUME up', NEW m \in filed' \cap Messages PROVE Served(seats', m, FileNames[m])
  <2>1. CASE m = Letter
    BY <1>3, <2>1
  <2>2. CASE m # Letter
    <3>1. Served(seats, m, FileNames[m])
      BY <1>1, <1>4, <2>2 DEF SeatInv, SeatsKeepUp, Served, Sides
    <3> QED BY <1>3, <3>1, ServedStays
  <2> QED BY <2>1, <2>2
<1>5. SeatsFit(seats') /\ IsFiniteSet(filed' \cap Messages)
  BY <1>1, <1>3 DEF Given, SeatInv
<1>6. \A side \in Sides : Cardinality(Holders(seats', side)) <= SeatLimit
  BY <1>5 DEF SeatsFit
<1> QED BY <1>4, <1>5, <1>6 DEF SeatInv, SeatsKeepUp, Served, Sides, Holders

(* At first nobody has a seat and nothing is on record. *)
LEMMA InitSeats == Init => SeatInv /\ RangesInv
<1> SUFFICES ASSUME Init PROVE SeatInv /\ RangesInv
  OBVIOUS
<1>1. seats = [p \in People |-> Nothing] /\ filed = {} /\ up = FALSE
  BY DEF Init
<1>2. ASSUME NEW side \in Sides
      PROVE Holders(seats, side) = {}
  BY <1>1, <1>2, ReadingAssumption DEF Sides, Holders
<1>3. SeatsFit(seats)
  <2>1. seats \in [People -> Sides \cup {Nothing}]
    BY <1>1
  <2>2. ASSUME NEW side \in Sides
        PROVE /\ IsFiniteSet(Holders(seats, side))
              /\ Cardinality(Holders(seats, side)) = 0
    BY <1>2, FS_EmptySet
  <2>3. 0 <= SeatLimit
    BY ReadingAssumption
  <2> QED BY <2>1, <2>2, <2>3 DEF SeatsFit
<1>4. SeatsKeepUp
  BY <1>1, <1>3 DEF SeatsKeepUp, SeatsFit, Holders, Sides
<1>5. IsFiniteSet(filed \cap Messages)
  <2>1. filed \cap Messages = {}
    BY <1>1
  <2> QED BY <2>1, FS_EmptySet
<1>6. RangesInv
  BY ReadingAssumption DEF Init, RangesInv, Resting
<1> QED BY <1>3, <1>4, <1>5, <1>6 DEF SeatInv

(* Every step keeps the seats fitting and given. *)
LEMMA StepSeats == IInv /\ SeatInv /\ [Next]_vars => SeatInv'
<1> SUFFICES ASSUME IInv, SeatInv, [Next]_vars PROVE SeatInv'
  OBVIOUS
<1>i. FilingInv /\ JobsInv
  BY DEF IInv
<1>q. ASSUME UNCHANGED <<seats, filed, up, listener>> PROVE SeatInv'
  BY <1>q, SeatsRest DEF Letter
<1>1. ASSUME NEW m \in Messages, Deliver(m) PROVE SeatInv'
  BY <1>1, <1>q DEF Deliver, fileVars
<1>2. CASE Renumber \/ StartDrain \/ UNCHANGED vars
  BY <1>2, <1>q DEF Renumber, StartDrain, vars, fileVars
<1>3. CASE Ask \/ Fetch \/ FetchFails \/ Commit \/ Attach \/ Refuse \/ EnqueueLetter
  <2>1. /\ UNCHANGED <<seats, filed, up>>
        /\ listener.pc \in {"idle", "asked", "filing", "attaching"}
    BY <1>3 DEF Ask, Fetch, FetchFails, Commit, Attach, Refuse, EnqueueLetter, fileVars
  <2> QED BY <2>1, SeatsRest
<1>4. CASE Record
  BY <1>i, <1>4, RecordSeats
<1>5. CASE Claim
  BY <1>i, <1>5, ClaimSeats
<1>6. ASSUME NEW f \in fetching, PageArrives(f) PROVE SeatInv'
  <2>1. UNCHANGED <<seats, up, listener>> /\ filed' = filed \cup {f[1]} /\ f[1] \in Pages
    BY <1>i, <1>6 DEF PageArrives, JobsInv
  <2>2. filed' \cap Messages = filed \cap Messages
    BY <2>1, ReadingAssumption
  <2> QED BY <2>1, <2>2, SeatsRest DEF Letter
<1>7. ASSUME NEW f \in fetching, PageFails(f) PROVE SeatInv'
  BY <1>7, <1>q DEF PageFails
<1>8. ASSUME NEW w \in Workers, Take(w) \/ Complete(w) \/ Falter(w) PROVE SeatInv'
  BY <1>8, <1>q DEF Take, Complete, Falter, fileVars
<1>9. ASSUME NEW x \in Items, ComesDue(x) PROVE SeatInv'
  BY <1>9, <1>q DEF ComesDue, fileVars
<1>10. CASE Crash \/ Shutdown
  <2>1. UNCHANGED <<seats, filed>> /\ up' = FALSE
    BY <1>10 DEF Crash, Shutdown, Forget
  <2> QED BY <2>1, SeatsRest
<1>11. CASE Boot
  BY <1>11, BootServes
<1> QED BY <1>1, <1>2, <1>3, <1>4, <1>5, <1>6, <1>7, <1>8, <1>9, <1>10, <1>11 DEF Next, File

(* Every step keeps counters in their bounds. *)
LEMMA StepRanges == IInv /\ RangesInv /\ [Next]_vars => RangesInv'
<1> SUFFICES ASSUME IInv, RangesInv, [Next]_vars PROVE RangesInv'
  OBVIOUS
<1>i. FilingInv /\ JobsInv
  BY DEF IInv
<1>a. MaxEpoch \in Nat /\ MaxPrompt \in Nat /\ MaxRestarts \in Nat /\ MaxMishaps \in Nat
  BY ReadingAssumption
<1>b. Resting.docs \in Seq(Documents)
  BY DEF Resting
<1>q. ASSUME UNCHANGED <<epoch, prompt, restarts, gaps>>,
             listener'.docs \in Seq(Documents) \/ UNCHANGED listener,
             UNCHANGED mishaps \/ (mishaps < MaxMishaps /\ mishaps' = mishaps + 1)
      PROVE RangesInv'
  BY <1>a, <1>q DEF RangesInv
<1>1. ASSUME NEW m \in Messages, Deliver(m) PROVE RangesInv'
  BY <1>1, <1>q DEF Deliver, fileVars
<1>2. CASE Renumber
  BY <1>2, <1>a DEF Renumber, fileVars, RangesInv
<1>3. CASE Ask \/ FetchFails \/ Commit
  <2>1. listener'.docs = Resting.docs
    BY <1>3 DEF Ask, FetchFails, Commit, Resting
  <2> QED BY <1>3, <1>b, <1>q, <2>1 DEF Ask, FetchFails, Commit, fileVars, mailVars
<1>4. CASE Fetch \/ Record \/ EnqueueLetter
  <2>1. listener'.docs \in Seq(Documents)
    <3>1. CASE Fetch
      BY <1>b, <1>i, <3>1 DEF Fetch, FilingInv, HandInv, RangesInv
    <3>2. ASSUME NEW u PROVE Past(u).docs \in Seq(Documents)
      BY <1>i DEF Past, FilingInv, HandInv
    <3>3. CASE EnqueueLetter
      BY <3>2, <3>3 DEF EnqueueLetter
    <3>4. CASE Record
      BY <1>i, <3>2, <3>4 DEF Record, FilingInv, HandInv, RangesInv
    <3> QED BY <1>4, <3>1, <3>3, <3>4
  <2> QED BY <1>4, <1>q, <2>1 DEF Fetch, Record, EnqueueLetter, fileVars, mailVars
<1>5. CASE Claim
  <2>1. Docs[Letter] \in Seq(Documents)
    BY <1>5, <1>i, ReadingAssumption DEF Claim, FilingInv, HandInv, Letter
  <2>2. listener'.docs = Docs[Letter]
    BY <1>5, <1>i DEF Claim, FilingInv, HandInv
  <2> QED BY <1>5, <1>q, <2>1, <2>2 DEF Claim, mailVars
<1>6. CASE Attach \/ Refuse
  <2>1. listener'.docs = Tail(listener.docs) /\ listener.docs # <<>>
    BY <1>6, <1>i DEF Attach, Refuse, FilingInv, HandInv
  <2>2. listener'.docs \in Seq(Documents) /\ listener.docs[1] \in Documents
    BY <2>1 DEF RangesInv
  <2>3. CASE Attach
    BY <1>q, <2>2, <2>3 DEF Attach, mailVars
  <2>4. CASE Refuse
    <3>1. Letter \in Messages
      BY <1>i, <2>4 DEF Refuse, FilingInv, HandInv, Letter
    <3> QED BY <1>a, <2>2, <2>4, <3>1 DEF Refuse, mailVars, RangesInv
  <2> QED BY <1>6, <2>3, <2>4
<1>7. ASSUME NEW f \in fetching, PageArrives(f) \/ PageFails(f) PROVE RangesInv'
  BY <1>7, <1>q DEF PageArrives, PageFails, mailVars
<1>8. ASSUME NEW w \in Workers, Take(w) \/ Complete(w) \/ Falter(w) PROVE RangesInv'
  BY <1>8, <1>q DEF Take, Complete, Falter, fileVars, mailVars
<1>9. ASSUME NEW x \in Items, ComesDue(x) PROVE RangesInv'
  BY <1>9, <1>q DEF ComesDue, fileVars, mailVars
<1>10. CASE Crash \/ Shutdown
  BY <1>10, <1>a, <1>b DEF Crash, Shutdown, Forget, mailVars, RangesInv
<1>11. CASE Boot
  BY <1>11, <1>a DEF Boot, mailVars, RangesInv
<1>12. CASE StartDrain \/ UNCHANGED vars
  BY <1>12, <1>q DEF StartDrain, vars, fileVars, mailVars
<1> QED BY <1>1, <1>2, <1>3, <1>4, <1>5, <1>6, <1>7, <1>8, <1>9, <1>10, <1>11, <1>12
        DEF Next, File
-------------------------------------------------------------------------------
(* The theorems.                                                           *)

(* What holds of every reachable state. *)
AllInv == IInv /\ BooksInv /\ SeatInv /\ RangesInv

LEMMA Inductive == Spec => []AllInv
<1>1. Init => AllInv
  BY InitFiling, InitJobs, InitBooks, InitSeats DEF IInv, AllInv
<1>2. AllInv /\ [Next]_vars => AllInv'
  BY StepFiling, StepJobs, StepLetter, StepBooks, StepSeats, StepRanges DEF IInv, AllInv
<1> QED BY <1>1, <1>2, PTL DEF Spec

(* The rows have their types, the jobs fit the workers, no side has more    *)
(* founders or investors than its limit, and whoever declared a side in a   *)
(* letter on record has a seat or found a side full, wherever the process   *)
(* died between the record and the claim (claimInbound, the backfill of     *)
(* bin/yente.mjs).                                                          *)
THEOREM SeatsKeepUpWithMail == Spec => []Consistent
<1>1. AllInv => Consistent
  <2> SUFFICES ASSUME AllInv PROVE Consistent
    OBVIOUS
  <2>t. /\ MailInv /\ HandInv /\ JobsInv /\ LetterInv /\ BooksInv /\ SeatInv /\ RangesInv
    BY DEF AllInv, IInv, FilingInv
  <2>1. /\ box \in Seq(Messages) /\ epoch \in 1..MaxEpoch
        /\ filed \subseteq Messages \cup Pages
    BY <2>t DEF MailInv, RangesInv
  <2>2. cursor \in [epoch : 0..MaxEpoch, uid : 0..Len(box)]
    <3>1. cursor.epoch \in 0..MaxEpoch /\ cursor.uid \in 0..Len(box)
      BY <2>t, ReadingAssumption DEF MailInv, RangesInv
    <3>2. cursor = [epoch |-> cursor.epoch, uid |-> cursor.uid]
      BY <2>t DEF MailInv
    <3> QED BY <3>1, <3>2
  <2>3. /\ listener.pc \in ListenerPcs /\ listener.epoch \in 0..MaxEpoch
        /\ listener.docs \in Seq(Documents)
        /\ \A u \in DOMAIN listener.batch : listener.batch[u] \in Messages
    BY <2>t, ReadingAssumption DEF HandInv, RangesInv
  <2>4. /\ carriers \in [Documents -> SUBSET Messages]
        /\ gaps \subseteq Messages \X Documents
        /\ seats \in [People -> {"investor", "founder", Nothing}]
    BY <2>t DEF LetterInv, RangesInv, SeatInv, SeatsFit, Sides
  <2>5. /\ fetching \subseteq Pages \X People /\ snapshot \subseteq Items
        /\ \A x \in Items : jobs[x].state \in JobStates /\ jobs[x].attempts \in Nat
        /\ worker \in [Workers -> Items \cup {Nothing}] /\ up \in BOOLEAN
    BY <2>t DEF JobsInv, Row
  <2>6. /\ reads \in [Items -> Nat] /\ blamed \in [Items -> Nat]
        /\ prompt \in 1..MaxPrompt
        /\ restarts \in 0..MaxRestarts /\ mishaps \in 0..MaxMishaps
    BY <2>t DEF BooksInv, RangesInv
  <2>7. TypeOK
    BY <2>1, <2>2, <2>3, <2>4, <2>5, <2>6 DEF TypeOK
  <2>8. RunningIsRun /\ SeatsKeepUp
    BY <2>t DEF JobsInv, SeatInv
  <2> QED BY <2>7, <2>8 DEF Consistent
<1> QED BY <1>1, Inductive, PTL

(* However batches end, the process dies and the server renumbers: the      *)
(* cursor never stands past a letter that is not on record (commit).        *)
THEOREM MailIsNeverSkipped == Spec => []NothingSkipped
<1>1. AllInv => NothingSkipped
  BY DEF AllInv, IInv, FilingInv
<1> QED BY <1>1, Inductive, PTL

(* No letter has a job before each of its documents is on record under it,  *)
(* or was refused (ingestMail).                                             *)
THEOREM LettersAreWhole == Spec => []WholeLetter
<1>1. AllInv => WholeLetter
  BY DEF AllInv, IInv
<1> QED BY <1>1, Inductive, PTL

(* While the process is up, the jobs marked RUNNING are those the workers   *)
(* run, each in one hand (drainIntelligence, requeueStranded).              *)
THEOREM NobodyIsStranded == Spec => []RunningIsRun
<1>1. AllInv => RunningIsRun
  BY DEF AllInv, IInv, JobsInv
<1> QED BY <1>1, Inductive, PTL

(* While the process is up, what counts as understood was understood by the *)
(* prompt deployed, unless it is retired (requeueForPrompt).                *)
THEOREM ReadingsAreCurrent == Spec => []ReadUnderThisPrompt
<1>1. AllInv => ReadUnderThisPrompt
  BY DEF AllInv, BooksInv, ReadUnderThisPrompt, Current
<1> QED BY <1>1, Inductive, PTL

(* No letter and no page is read to the end more than once per prompt, and  *)
(* once more, ever, if it was found empty (requeueEmptyUnderstandings).     *)
THEOREM ReadingsAreNotRepeated == Spec => []ReadOncePerPrompt
<1>1. AllInv => ReadOncePerPrompt
  <2> SUFFICES ASSUME AllInv, NEW x \in Messages \cup Pages
               PROVE reads[x] <= prompt + IF jobs[x].emptied THEN 1 ELSE 0
    BY DEF ReadOncePerPrompt
  <2>1. x \in Items
    BY DEF Items
  <2>2. jobs[x] \in Row /\ reads[x] \in Nat /\ prompt \in Nat
        /\ Once(jobs[x], reads[x], prompt)
    BY <2>1, BooksOf DEF AllInv, IInv
  <2> QED BY <2>2 DEF Once, Extra, Row
<1> QED BY <1>1, Inductive, PTL

(* The attempts of a row are what was finished, failed or died with it, and *)
(* the one in progress (start, release, fail, requeueStranded).             *)
THEOREM AttemptsAreAccountedFor == Spec => []AttemptsAreEarned
<1>1. AllInv => AttemptsAreEarned
  BY DEF AllInv, BooksInv, AttemptsAreEarned, Earned
<1> QED BY <1>1, Inductive, PTL
================================================================================
