--------------------------------- MODULE Intake ---------------------------------
(***************************************************************************)
(* From recorded mail to a member on file: ingest, runIntakePipeline,      *)
(* qualify, acknowledge, converse, sweepUnanswered and retryOwedReplies of *)
(* src/runtime/yente.js, as the tick of src/runtime/desk.js calls them,    *)
(* and the bridge bin/yente.mjs hangs on it.                               *)
(*                                                                         *)
(* The listen loop (module Reading) files a letter first and its documents *)
(* one extraction later each; the desk only looks at what is filed.  Every *)
(* put is durable as it is made and the process may die between any two;   *)
(* what the desk knows it has processed dies with it.  The matches and the *)
(* draining of the same tick are in modules Desk and Outbox, and so is     *)
(* what a STOP cancels.                                                    *)
(***************************************************************************)
EXTENDS Naturals, Sequences, FiniteSets

CONSTANTS
  People,
  Documents,     \* attachments and letter bodies, by content
  Formatted,     \* those filed under a type with a parser: PDF and DOCX
  Post,          \* the letters people send, in the order of the mailbox
  From,          \* From[l]: the sender
  Intent,        \* Intent[l]: what triage makes of its words
  Files,         \* Files[l]: the documents attached to it
  Body,          \* Body[l]: its words, when they are a source, or Nothing
  Holds,         \* Holds[d]: the profile fields d has evidence for
  Required,      \* requiredFields of the qualification policy
  MaxRestarts,   \* bound: crashes
  Nothing        \* no letter, no document, nobody

Letters == {Post[i] : i \in DOMAIN Post}
Fields == UNION {Holds[d] : d \in Documents} \cup {Required[i] : i \in DOMAIN Required}

ASSUME IntakeAssumption ==
  /\ Post \in Seq(Letters) /\ \A i, j \in DOMAIN Post : Post[i] = Post[j] => i = j
  /\ Nothing \notin Letters
  /\ DOMAIN From = Letters /\ \A l \in Letters : From[l] \in People
  /\ \A l \in Letters : Intent[l] \in {"stop", "delete", "decision", "message"}
  /\ \A l \in Letters : Files[l] \subseteq Documents
  /\ \A l \in Letters : Body[l] \in Documents \cup {Nothing}
  /\ Formatted \subseteq Documents
  /\ DOMAIN Holds = Documents
  /\ MaxRestarts \in Nat

VARIABLES
  listening,    \* the letter the listen loop is filing, its documents to come
  seen,         \* letters filed in EVIDENCE: durable
  carrier,      \* carrier[d]: the letter d was first filed under: durable
  messages,     \* letters with a MESSAGES row: durable
  member,       \* the MEMBERS rows: durable
  sources,      \* sources[p]: p's SOURCES rows: durable
  facts,        \* facts[p]: the fields of p's PROFILE_FACTS: durable
  outbox,       \* the keys that have an OUTBOX row: durable
  owed,         \* letters with an OWED_REPLIES row: durable
  bridged,      \* people the graph was told are qualified: durable
  processed,    \* processedEvidence: letters and documents
  stage,        \* where the tick is
  batch,        \* letters the tick has still to ingest
  folded,       \* documents the tick found filed when it began
  hand,         \* what is being handled, and for whom
  qualified,    \* whom this tick's ingest qualified
  due,          \* members to sweep, then debts to work
  up,           \* is the process running?
  restarts,     \* crashes so far (bounded)
  answered,     \* letters that queued one of the desk's own (history)
  cut           \* letters a crash found in hand (history)

graphVars == <<listening, seen, carrier>>
deskRows == <<messages, member, sources, facts>>
tickVars == <<processed, batch, folded, qualified, due>>
lifeVars == <<up, restarts, cut>>
vars == <<graphVars, deskRows, outbox, owed, bridged, tickVars, stage, hand,
          lifeVars, answered>>

Suppressed == {"STOPPED", "DELETED"}
IntakeStates == {"NEEDS_PROFILE", "INTERVIEWING"}
MemberStates == {"UNKNOWN", "ACTIVE"} \cup IntakeStates \cup Suppressed

Stages == {"idle", "ingest", "recorded", "reading", "extracting", "qualifying",
           "acknowledging", "linking", "settling", "bridging", "sweeping",
           "paying", "paid"}

\* files are to be read, sources to be mined; found: was a fact stored; passed: is
\* the member qualified; depth: the outbox rows there were before.
NoHand == [letter |-> Nothing, who |-> Nothing, files |-> {}, mine |-> {},
           found |-> FALSE, passed |-> FALSE, depth |-> 0]
NotListening == [letter |-> Nothing, docs |-> {}]

Init ==
  /\ listening = NotListening
  /\ seen = {} /\ carrier = [d \in Documents |-> Nothing]
  /\ messages = {} /\ member = [p \in People |-> "UNKNOWN"]
  /\ sources = [p \in People |-> {}] /\ facts = [p \in People |-> {}]
  /\ outbox = {} /\ owed = {} /\ bridged = {}
  /\ processed = {} /\ batch = {} /\ folded = {} /\ qualified = {} /\ due = {}
  /\ stage = "idle" /\ hand = NoHand
  /\ up = TRUE /\ restarts = 0 /\ answered = {} /\ cut = {}
-------------------------------------------------------------------------------
(* The listen loop, as far as the desk can tell: one letter at a time, its *)
(* documents after it.                                                     *)

File ==
  /\ up /\ listening.docs = {} /\ seen # Letters
  /\ LET l == Post[Cardinality(seen) + 1] IN
       /\ seen' = seen \cup {l}
       /\ listening' = [letter |-> l, docs |-> Files[l]]
  /\ UNCHANGED <<carrier, deskRows, outbox, owed, bridged, tickVars, stage, hand,
                 lifeVars, answered>>

\* A document is filed once, under the letter that brought it first; one that
\* cannot be read is not filed.
Attach(d) ==
  /\ up /\ d \in listening.docs
  /\ listening' = [listening EXCEPT !.docs = @ \ {d}]
  /\ \/ carrier' = [carrier EXCEPT ![d] = IF @ = Nothing THEN listening.letter ELSE @]
     \/ UNCHANGED carrier
  /\ UNCHANGED <<seen, deskRows, outbox, owed, bridged, tickVars, stage, hand,
                 lifeVars, answered>>
-------------------------------------------------------------------------------
(* Letters of the desk, by idempotency key.                                *)

Profile(p) == <<"profile", p>>
Clarify(p, d) == <<"clarify", p, d>>
NoFacts(p) == <<"nofacts", p>>
Interview(p, fields) == <<"interview", p, fields>>
Confirm(p, count) == <<"confirm", p, count>>
LinkedIn(p) == <<"linkedin", p>>
Reply(l) == <<"reply", l>>
Recipient(k) == IF k[1] = "reply" THEN From[k[2]] ELSE k[2]

CanReceive(p) == member[p] \notin Suppressed

\* queue(): nobody suppressed is written to, and a key is used once.
Queue(k) == outbox' = IF CanReceive(Recipient(k)) THEN outbox \cup {k} ELSE outbox
-------------------------------------------------------------------------------
(* ingest: a letter is taken with the documents filed under it by then.    *)

BeginTick ==
  /\ up /\ stage = "idle"
  /\ stage' = "ingest"
  /\ batch' = seen \ processed
  /\ folded' = {d \in Documents \ processed : carrier[d] # Nothing}
  /\ qualified' = {}
  /\ UNCHANGED <<graphVars, deskRows, outbox, owed, bridged, processed, due, hand,
                 lifeVars, answered>>

Folded(l) == {d \in folded : carrier[d] = l}

\* recordInbound: a letter with a row is a duplicate, and changes nothing.
Take(l) ==
  /\ up /\ stage = "ingest" /\ l \in batch
  /\ batch' = batch \ {l}
  /\ processed' = processed \cup {l} \cup Folded(l)
  /\ messages' = messages \cup {l}
  /\ IF l \in messages
       THEN UNCHANGED <<stage, hand>>
       ELSE /\ stage' = "recorded"
            /\ hand' = [NoHand EXCEPT !.letter = l, !.who = From[l],
                                      !.files = Folded(l), !.depth = Cardinality(outbox)]
  /\ UNCHANGED <<graphVars, member, sources, facts, outbox, owed, bridged, folded,
                 qualified, due, lifeVars, answered>>

\* The letter in hand needs no more: on to the next.
Drop == stage' = "ingest" /\ hand' = NoHand

\* INV-9: STOP and DELETE of a member, before anything else.
Suppress ==
  /\ up /\ stage = "recorded" /\ Intent[hand.letter] \in {"stop", "delete"}
  /\ ~(Intent[hand.letter] = "stop" /\ member[hand.who] = "DELETED")
  /\ member' = [member EXCEPT ![hand.who] =
                  IF @ = "UNKNOWN" THEN @
                  ELSE IF Intent[hand.letter] = "stop" THEN "STOPPED" ELSE "DELETED"]
  /\ Drop
  /\ UNCHANGED <<graphVars, messages, sources, facts, outbox, owed, bridged, tickVars,
                 lifeVars, answered>>

\* stopMember throws on an erased member, and nothing in the tick catches it:
\* the letters in hand and the qualifications of this ingest are let go.
TickThrows ==
  /\ up /\ stage = "recorded"
  /\ Intent[hand.letter] = "stop" /\ member[hand.who] = "DELETED"
  /\ stage' = "idle" /\ hand' = NoHand
  /\ batch' = {} /\ qualified' = {}
  /\ UNCHANGED <<graphVars, deskRows, outbox, owed, bridged, processed, folded, due,
                 lifeVars, answered>>

\* A stranger becomes a member; the suppressed are let be, and a PASS, an
\* INTRODUCE or a CORRECT goes to the match it is about (module Desk).
Join ==
  /\ up /\ stage = "recorded" /\ Intent[hand.letter] \in {"decision", "message"}
  /\ member' = [member EXCEPT ![hand.who] = IF @ = "UNKNOWN" THEN "NEEDS_PROFILE" ELSE @]
  /\ IF CanReceive(hand.who) /\ Intent[hand.letter] = "message"
       THEN stage' = "reading" /\ UNCHANGED hand
       ELSE Drop
  /\ UNCHANGED <<graphVars, messages, sources, facts, outbox, owed, bridged, tickVars,
                 lifeVars, answered>>
-------------------------------------------------------------------------------
(* What the letter brought.                                                *)

Known(p) == facts[p] # {}

SaveSource(d) ==
  /\ sources' = [sources EXCEPT ![hand.who] = @ \cup {d}]

\* extractText.  What is filed is a document's text under the document's type,
\* and the parser of a PDF refuses a text.
Readable(d) == d \notin Formatted

Read(d) ==
  /\ up /\ stage = "reading" /\ d \in hand.files
  /\ \/ /\ Readable(d)
        /\ SaveSource(d)
        /\ hand' = [hand EXCEPT !.files = @ \ {d}, !.mine = @ \cup {d}]
        /\ UNCHANGED outbox
     \/ /\ ~Readable(d)
        /\ Queue(Clarify(hand.who, d))
        /\ hand' = [hand EXCEPT !.files = @ \ {d}]
        /\ UNCHANGED sources
  /\ UNCHANGED <<graphVars, messages, member, facts, owed, bridged, tickVars, stage,
                 lifeVars, answered>>

\* A body of substance is a source when no document was.
ReadBody ==
  /\ up /\ stage = "reading" /\ hand.files = {}
  /\ hand.mine = {} /\ Body[hand.letter] # Nothing
  /\ SaveSource(Body[hand.letter])
  /\ hand' = [hand EXCEPT !.mine = {Body[hand.letter]}]
  /\ stage' = "extracting"
  /\ UNCHANGED <<graphVars, messages, member, facts, outbox, owed, bridged, tickVars,
                 lifeVars, answered>>

\* Slip: whoever sends nothing is asked, whatever is on file.
AskAnyway ==
  /\ stage' = "settling"
  /\ Queue(Profile(hand.who))

\* Nothing to mine: go on from the facts on file, or ask for a profile.
Continue ==
  IF Known(hand.who)
    THEN stage' = "qualifying" /\ UNCHANGED outbox
    ELSE stage' = "settling" /\ Queue(Profile(hand.who))

EndReading ==
  /\ up /\ stage = "reading" /\ hand.files = {}
  /\ \/ hand.mine # {} /\ stage' = "extracting" /\ UNCHANGED outbox
     \/ hand.mine = {} /\ Body[hand.letter] = Nothing /\ Continue
  /\ UNCHANGED <<graphVars, deskRows, owed, bridged, tickVars, hand, lifeVars, answered>>

\* extractProfileFacts: whatever part of the evidence the model quotes right
\* within its attempts, which is nothing when it fails.
Verified(d) == SUBSET Holds[d]

\* A put that a crash prevents is one not quoted.
Extract(d) ==
  /\ up /\ stage = "extracting" /\ d \in hand.mine
  /\ \E quoted \in Verified(d) :
       /\ facts' = [facts EXCEPT ![hand.who] = @ \cup quoted]
       /\ hand' = [hand EXCEPT !.mine = @ \ {d}, !.found = @ \/ quoted # {}]
  /\ UNCHANGED <<graphVars, messages, member, sources, outbox, owed, bridged, tickVars,
                 stage, lifeVars, answered>>

\* Nothing quoted: go on from the facts on file, or say so, once.
EndExtraction ==
  /\ up /\ stage = "extracting" /\ hand.mine = {}
  /\ \/ /\ hand.found
        /\ member' = [member EXCEPT ![hand.who] = IF @ = "NEEDS_PROFILE" THEN "INTERVIEWING" ELSE @]
        /\ stage' = "qualifying" /\ UNCHANGED outbox
     \/ /\ ~hand.found /\ UNCHANGED member
        /\ IF Known(hand.who)
             THEN stage' = "qualifying" /\ UNCHANGED outbox
             ELSE stage' = "settling" /\ Queue(NoFacts(hand.who))
  /\ UNCHANGED <<graphVars, messages, sources, facts, owed, bridged, tickVars, hand,
                 lifeVars, answered>>
-------------------------------------------------------------------------------
(* Qualification (src/domain/qualification.js, src/domain/policies.js).    *)

AllowedStates == {"INTERVIEWING", "QUALIFIED", "ACTIVE"}

\* buildProfileView: what there is stored evidence for.
View(p) == facts[p]

Missing(p) == SelectSeq(Required, LAMBDA f : f \notin View(p))

\* Two questions at most.
Asked(p) == SubSeq(Missing(p), 1, IF Len(Missing(p)) > 2 THEN 2 ELSE Len(Missing(p)))

\* Where the pipeline goes on: to the second ask when a document brought facts,
\* and back to the sweep when no letter is in hand.
AfterQualifying ==
  IF hand.found THEN "linking" ELSE IF hand.letter # Nothing THEN "settling" ELSE "sweeping"

\* qualify: ask for what is missing, or let the member in, or neither.
Qualify ==
  /\ up /\ stage = "qualifying"
  /\ \/ /\ Missing(hand.who) # <<>>
        /\ Queue(Interview(hand.who, Asked(hand.who)))
        /\ stage' = AfterQualifying
        /\ UNCHANGED <<member, hand>>
     \/ /\ Missing(hand.who) = <<>> /\ member[hand.who] \in AllowedStates
        /\ member' = [member EXCEPT ![hand.who] = "ACTIVE"]
        /\ hand' = [hand EXCEPT !.passed = TRUE]
        /\ stage' = "acknowledging"
        /\ UNCHANGED outbox
     \/ /\ Missing(hand.who) = <<>> /\ member[hand.who] \notin AllowedStates
        /\ stage' = AfterQualifying
        /\ UNCHANGED <<member, hand, outbox>>
  /\ UNCHANGED <<graphVars, messages, sources, facts, owed, bridged, tickVars,
                 lifeVars, answered>>

\* One confirmation per member and number of facts.
Acknowledge ==
  /\ up /\ stage = "acknowledging"
  /\ Queue(Confirm(hand.who, Cardinality(facts[hand.who])))
  /\ stage' = AfterQualifying
  /\ UNCHANGED <<graphVars, deskRows, owed, bridged, tickVars, hand, lifeVars, answered>>

\* A MESSAGES row keeps neither the text nor the raw letter: ingest hands
\* recordInbound none.
RowShowsUrl(l) == FALSE
HasLinkedIn(p) == \E l \in messages : From[l] = p /\ RowShowsUrl(l)

RequestLinkedIn ==
  /\ up /\ stage = "linking"
  /\ IF HasLinkedIn(hand.who) THEN UNCHANGED outbox ELSE Queue(LinkedIn(hand.who))
  /\ stage' = "settling"
  /\ UNCHANGED <<graphVars, deskRows, owed, bridged, tickVars, hand, lifeVars, answered>>
-------------------------------------------------------------------------------
(* ingestOne: a letter that queued nothing is answered by the voice, or    *)
(* the answer is owed.                                                     *)

Wrote == Cardinality(outbox) # hand.depth

\* The outcome is kept for the tick to report.
Report ==
  /\ qualified' = IF hand.passed THEN qualified \cup {hand.who} ELSE qualified
  /\ Drop

Settle ==
  /\ up /\ stage = "settling" /\ Wrote
  /\ answered' = answered \cup {hand.letter}
  /\ Report
  /\ UNCHANGED <<graphVars, deskRows, outbox, owed, bridged, processed, batch, folded,
                 due, lifeVars>>

Speak ==
  /\ up /\ stage = "settling" /\ ~Wrote
  /\ Queue(Reply(hand.letter))
  /\ Report
  /\ UNCHANGED <<graphVars, deskRows, owed, bridged, processed, batch, folded, due,
                 lifeVars, answered>>

\* Slip: a voice that fails is logged, and that is all.
LogOnly == UNCHANGED owed

Owe == owed' = owed \cup {hand.letter}

FailToSpeak ==
  /\ up /\ stage = "settling" /\ ~Wrote
  /\ Owe
  /\ Report
  /\ UNCHANGED <<graphVars, deskRows, outbox, bridged, processed, batch, folded, due,
                 lifeVars, answered>>
-------------------------------------------------------------------------------
(* The rest of the tick.                                                   *)

EndIngest ==
  /\ up /\ stage = "ingest" /\ batch = {}
  /\ stage' = "bridging"
  /\ UNCHANGED <<graphVars, deskRows, outbox, owed, bridged, tickVars, hand, lifeVars,
                 answered>>

\* onQualified: the graph hears of those the ingest qualified.
Bridge(p) ==
  /\ up /\ stage = "bridging" /\ p \in qualified
  /\ bridged' = bridged \cup {p}
  /\ qualified' = qualified \ {p}
  /\ UNCHANGED <<graphVars, deskRows, outbox, owed, processed, batch, folded, due,
                 stage, hand, lifeVars, answered>>

\* Slip: the sweep is for those who sent something.
SentButUnanswered(p) ==
  /\ member[p] \in IntakeStates /\ sources[p] # {}
  /\ \A k \in outbox : Recipient(k) # p

\* Members in intake nobody ever wrote to.
Unanswered(p) ==
  /\ member[p] \in IntakeStates
  /\ \A k \in outbox : Recipient(k) # p

StartSweep ==
  /\ up /\ stage = "bridging" /\ qualified = {}
  /\ due' = {p \in People : Unanswered(p)}
  /\ stage' = "sweeping"
  /\ UNCHANGED <<graphVars, deskRows, outbox, owed, bridged, processed, batch, folded,
                 qualified, hand, lifeVars, answered>>

Sweep(p) ==
  /\ up /\ stage = "sweeping" /\ p \in due
  /\ due' = due \ {p}
  /\ \/ /\ Known(p)
        /\ stage' = "qualifying" /\ hand' = [NoHand EXCEPT !.who = p]
        /\ UNCHANGED outbox
     \/ /\ ~Known(p)
        /\ Queue(IF sources[p] # {} THEN NoFacts(p) ELSE Profile(p))
        /\ UNCHANGED <<stage, hand>>
  /\ UNCHANGED <<graphVars, deskRows, owed, bridged, processed, batch, folded, qualified,
                 lifeVars, answered>>

StartPaying ==
  /\ up /\ stage = "sweeping" /\ due = {}
  /\ due' = owed
  /\ stage' = "paying" /\ hand' = NoHand
  /\ UNCHANGED <<graphVars, deskRows, outbox, owed, bridged, processed, batch, folded,
                 qualified, lifeVars, answered>>

\* A debt to the suppressed is struck.
Forgive(l) ==
  /\ up /\ stage = "paying" /\ l \in due /\ ~CanReceive(From[l])
  /\ owed' = owed \ {l} /\ due' = due \ {l}
  /\ UNCHANGED <<graphVars, deskRows, outbox, bridged, processed, batch, folded,
                 qualified, stage, hand, lifeVars, answered>>

\* The reply is queued first, its debt cleared after.
Pay(l) ==
  /\ up /\ stage = "paying" /\ l \in due /\ CanReceive(From[l])
  /\ Reply(l) \notin outbox
  /\ Queue(Reply(l))
  /\ stage' = "paid" /\ hand' = [NoHand EXCEPT !.letter = l]
  /\ UNCHANGED <<graphVars, deskRows, owed, bridged, tickVars, lifeVars, answered>>

ClearDebt ==
  /\ up /\ stage = "paid"
  /\ owed' = owed \ {hand.letter} /\ due' = due \ {hand.letter}
  /\ stage' = "paying" /\ hand' = NoHand
  /\ UNCHANGED <<graphVars, deskRows, outbox, bridged, processed, batch, folded,
                 qualified, lifeVars, answered>>

\* Slip: one more try, and the debt is written off.
WriteOff(l) == owed' = owed \ {l}

StillOwed(l) == UNCHANGED owed

\* The voice fails again, or the reply is in the outbox already.
FailToPay(l) ==
  /\ up /\ stage = "paying" /\ l \in due /\ CanReceive(From[l])
  /\ due' = due \ {l}
  /\ StillOwed(l)
  /\ UNCHANGED <<graphVars, deskRows, outbox, bridged, processed, batch, folded,
                 qualified, stage, hand, lifeVars, answered>>

EndTick ==
  /\ up /\ stage = "paying" /\ due = {}
  /\ stage' = "idle" /\ folded' = {}
  /\ UNCHANGED <<graphVars, deskRows, outbox, owed, bridged, processed, batch, qualified,
                 due, hand, lifeVars, answered>>
-------------------------------------------------------------------------------
(* The process.                                                            *)

Crash ==
  /\ up /\ restarts < MaxRestarts
  /\ up' = FALSE /\ restarts' = restarts + 1
  /\ cut' = cut \cup ({hand.letter} \ {Nothing})
  /\ listening' = NotListening
  /\ processed' = {} /\ batch' = {} /\ folded' = {} /\ qualified' = {} /\ due' = {}
  /\ stage' = "idle" /\ hand' = NoHand
  /\ UNCHANGED <<seen, carrier, deskRows, outbox, owed, bridged, answered>>

\* The backfill: whoever is a member already is bridged at boot.
Boot ==
  /\ ~up
  /\ up' = TRUE
  /\ bridged' = bridged \cup {p \in People : member[p] = "ACTIVE"}
  /\ UNCHANGED <<graphVars, deskRows, outbox, owed, tickVars, stage, hand, restarts, cut,
                 answered>>

Listen == File \/ (\E d \in Documents : Attach(d))

Ingest ==
  \/ BeginTick \/ (\E l \in Letters : Take(l)) \/ Suppress \/ TickThrows \/ Join
  \/ (\E d \in Documents : Read(d) \/ Extract(d)) \/ ReadBody \/ EndReading
  \/ EndExtraction \/ Qualify \/ Acknowledge \/ RequestLinkedIn
  \/ Settle \/ Speak \/ FailToSpeak \/ EndIngest

Debts ==
  \/ (\E p \in People : Bridge(p) \/ Sweep(p)) \/ StartSweep \/ StartPaying
  \/ (\E l \in Letters : Forgive(l) \/ Pay(l) \/ FailToPay(l)) \/ ClearDebt \/ EndTick

Tick == Ingest \/ Debts

Next == Listen \/ Tick \/ Crash \/ Boot

Spec == Init /\ [][Next]_vars

\* deskLoop ticks again and again and is supervised; the voice does not fail
\* for ever.
Fairness ==
  /\ WF_vars(Tick) /\ WF_vars(Boot)
  /\ \A l \in Letters : Intent[l] = "message" => SF_vars(Pay(l))

FairSpec == Spec /\ Fairness
-------------------------------------------------------------------------------
(* Properties.                                                             *)

\* The rows, the outbox, and the tick in memory have their shapes.
TypeOK ==
  /\ listening.letter \in Letters \cup {Nothing} /\ listening.docs \subseteq Documents
  /\ seen \subseteq Letters /\ messages \subseteq seen
  /\ carrier \in [Documents -> Letters \cup {Nothing}]
  /\ member \in [People -> MemberStates]
  /\ \A p \in People : sources[p] \subseteq Documents /\ facts[p] \subseteq Fields
  /\ \A k \in outbox : Recipient(k) \in People
  /\ owed \subseteq messages /\ bridged \subseteq People
  /\ processed \subseteq Letters \cup Documents
  /\ stage \in Stages /\ batch \subseteq Letters /\ folded \subseteq Documents
  /\ qualified \subseteq People /\ due \subseteq People \cup Letters
  /\ up \in BOOLEAN /\ restarts \in 0 .. MaxRestarts
  /\ answered \subseteq messages /\ cut \subseteq messages

\* Letters the desk is through with, that a live person wrote to be answered.
Handled(l) ==
  /\ l \in messages \ (cut \cup {hand.letter})
  /\ Intent[l] = "message" /\ CanReceive(From[l])

\* "Silence is the one failure mode a matchmaker cannot afford": a letter the
\* desk is through with queued something, was replied to, or is owed a reply;
\* a letter is taken only once, so nothing else would come of it
\* (ingestOne, retryOwedReplies).
EveryLetterIsAnsweredOrOwed ==
  \A l \in Letters : Handled(l) => l \in answered \cup owed \/ Reply(l) \in outbox

\* The rows have their shapes, and the letters fit what came of them.
Consistent == TypeOK /\ EveryLetterIsAnsweredOrOwed

\* "A member who has already sent a resume must never be asked for one again":
\* while facts are on file neither the profile request nor the no-facts letter
\* is queued, by the pipeline or by the sweep (runIntakePipeline,
\* sweepUnanswered).  The LinkedIn question is not among these two: it is put
\* to whoever sent documents, also when the URL was in one of his letters,
\* since no row shows it (RowShowsUrl).
NeverAskedAgain ==
  [][\A p \in People : Known(p) =>
       {Profile(p), NoFacts(p)} \cap (outbox' \ outbox) = {}]_vars

\* A reply on the ledger is queued in the end, through failures of the voice
\* and crashes, or its sender is suppressed (retryOwedReplies).
EveryDebtIsPaid ==
  \A l \in Letters : l \in owed ~> Reply(l) \in outbox \/ ~CanReceive(From[l])

Written(p) == \E k \in outbox : Recipient(k) = p

\* A crash with a letter in hand loses the letter and not its sender: a member
\* in intake of whom something is missing hears from the desk, since the sweep
\* finds whoever nobody wrote to (sweepUnanswered).
TheSweepFindsThem ==
  \A p \in People :
    member[p] \in IntakeStates /\ Missing(p) # <<>> ~>
      Written(p) \/ Missing(p) = <<>> \/ ~CanReceive(p)

\* "qualify() runs once after every source on that mail has been stored"
\* (src/runtime/yente.js): of a letter the desk is through with, every document
\* on file is a source of its sender.
WholeMail ==
  \A l \in Letters : Handled(l) =>
    \A d \in Documents : carrier[d] = l => d \in sources[From[l]]
===============================================================================
