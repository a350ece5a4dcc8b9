------------------------------ MODULE IntakeProofs ------------------------------
(***************************************************************************)
(* Proofs about the intake, Intake: for any people, letters, documents and *)
(* policy, any number of crashes, and whatever the model quotes or the     *)
(* voice fails at, a letter the desk is through with is answered or owed   *)
(* an answer, who has facts on file is not asked for them again, and who   *)
(* stopped is let be.                                                      *)
(***************************************************************************)
EXTENDS Intake, TLAPS, FiniteSetTheorems

(***************************************************************************)
(* The inductive invariant.                                                *)
(***************************************************************************)

\* The letters on file are the first of the mailbox.
FiledInv ==
  /\ IsFiniteSet(seen) /\ Cardinality(seen) \in 0 .. Len(Post)
  /\ seen = {Post[i] : i \in 1 .. Cardinality(seen)}
  /\ listening \in [letter : Letters \cup {Nothing}, docs : SUBSET Documents]
  /\ carrier \in [Documents -> Letters \cup {Nothing}]

RowsInv ==
  /\ messages \subseteq seen
  /\ member \in [People -> MemberStates]
  /\ sources \in [People -> SUBSET Documents] /\ facts \in [People -> SUBSET Fields]
  /\ \A k \in outbox : Recipient(k) \in People
  /\ owed \subseteq messages /\ bridged \subseteq People
  /\ answered \subseteq messages /\ cut \subseteq messages

TickInv ==
  /\ processed \subseteq Letters \cup Documents
  /\ batch \subseteq seen /\ folded \subseteq Documents
  /\ qualified \subseteq People /\ due \subseteq People \cup Letters
  /\ stage \in Stages /\ up \in BOOLEAN /\ restarts \in 0 .. MaxRestarts

\* Whoever is being handled.
Handling == {"recorded", "reading", "extracting", "qualifying", "acknowledging", "linking",
             "settling"}

\* While somebody is handled the letter in hand is theirs and on record; only
\* the sweep handles a person without one, and it found nothing in it; and a
\* debt is in hand only once its reply is queued.
HandInv ==
  /\ hand = [letter |-> hand.letter, who |-> hand.who, files |-> hand.files,
             mine |-> hand.mine, found |-> hand.found, passed |-> hand.passed,
             depth |-> hand.depth]
  /\ hand.files \subseteq Documents /\ hand.mine \subseteq Documents
  /\ hand.letter \in messages \cup {Nothing}
  /\ stage \in Handling =>
       /\ hand.who \in People
       /\ hand.letter # Nothing => hand.who = From[hand.letter]
       /\ hand.letter = Nothing => stage \in {"qualifying", "acknowledging"} /\ ~hand.found
  /\ stage = "paid" => hand.letter # Nothing /\ Reply(hand.letter) \in outbox
  /\ stage \notin Handling \cup {"paid"} => hand.letter = Nothing

\* The debts being worked are of letters on record.
DebtsInv == stage \in {"paying", "paid"} => due \subseteq messages

IInv == FiledInv /\ RowsInv /\ TickInv /\ HandInv /\ DebtsInv /\ EveryLetterIsAnsweredOrOwed
-------------------------------------------------------------------------------
(***************************************************************************)
(* The letters of the desk.                                                *)
(***************************************************************************)

\* Whom each is for.
LEMMA Recipients ==
  /\ \A p : /\ Recipient(Profile(p)) = p /\ Recipient(NoFacts(p)) = p
            /\ Recipient(LinkedIn(p)) = p
  /\ \A p, x : /\ Recipient(Clarify(p, x)) = p /\ Recipient(Interview(p, x)) = p
               /\ Recipient(Confirm(p, x)) = p
  /\ \A l : Recipient(Reply(l)) = From[l]
<1>1. \A p : /\ Recipient(Profile(p)) = p /\ Recipient(NoFacts(p)) = p
             /\ Recipient(LinkedIn(p)) = p
  BY DEF Recipient, Profile, NoFacts, LinkedIn
<1>2. \A p, x : /\ Recipient(Clarify(p, x)) = p /\ Recipient(Interview(p, x)) = p
                /\ Recipient(Confirm(p, x)) = p
  BY DEF Recipient, Clarify, Interview, Confirm
<1>3. \A l : Recipient(Reply(l)) = From[l]
  BY DEF Recipient, Reply
<1>. QED BY <1>1, <1>2, <1>3

\* Neither a request for a profile nor word that nothing was found in one.
AsksNobody(k) == k[1] \notin {"profile", "nofacts"}

LEMMA OtherLetters ==
  /\ \A p : AsksNobody(LinkedIn(p))
  /\ \A p, x : AsksNobody(Clarify(p, x)) /\ AsksNobody(Interview(p, x)) /\ AsksNobody(Confirm(p, x))
  /\ \A l : AsksNobody(Reply(l))
<1>1. \A p : AsksNobody(LinkedIn(p))
  BY DEF AsksNobody, LinkedIn
<1>2. \A p, x : AsksNobody(Clarify(p, x)) /\ AsksNobody(Interview(p, x)) /\ AsksNobody(Confirm(p, x))
  BY DEF AsksNobody, Clarify, Interview, Confirm
<1>3. \A l : AsksNobody(Reply(l))
  BY DEF AsksNobody, Reply
<1>. QED BY <1>1, <1>2, <1>3

\* A letter that may be queued: to somebody, and no second request to one of
\* whom facts are on file.
Proper(k) ==
  /\ Recipient(k) \in People
  /\ \A p \in People : Known(p) => k # Profile(p) /\ k # NoFacts(p)

LEMMA ProperLetters ==
  ASSUME NEW p \in People
  PROVE  /\ Proper(LinkedIn(p))
         /\ \A x : Proper(Clarify(p, x)) /\ Proper(Interview(p, x)) /\ Proper(Confirm(p, x))
         /\ ~Known(p) => Proper(Profile(p)) /\ Proper(NoFacts(p))
         /\ \A l \in Letters : Proper(Reply(l))
<1>1. \A k : AsksNobody(k) => \A q : k # Profile(q) /\ k # NoFacts(q)
  BY DEF AsksNobody, Profile, NoFacts
<1>2. \A l \in Letters : From[l] \in People
  BY IntakeAssumption DEF IntakeAssumption
<1>3. Proper(LinkedIn(p))
  BY <1>1, Recipients, OtherLetters DEF Proper
<1>4. \A x : Proper(Clarify(p, x)) /\ Proper(Interview(p, x)) /\ Proper(Confirm(p, x))
  BY <1>1, Recipients, OtherLetters DEF Proper
<1>5. \A l \in Letters : Proper(Reply(l))
  BY <1>1, <1>2, Recipients, OtherLetters DEF Proper
<1>6. ASSUME ~Known(p) PROVE Proper(Profile(p)) /\ Proper(NoFacts(p))
  <2>1. \A q : Known(q) => q # p
    BY <1>6
  <2>2. \A q : q # p => /\ Profile(p) # Profile(q) /\ Profile(p) # NoFacts(q)
                        /\ NoFacts(p) # Profile(q) /\ NoFacts(p) # NoFacts(q)
    BY DEF Profile, NoFacts
  <2>. QED BY <2>1, <2>2, Recipients DEF Proper
<1>. QED BY <1>3, <1>4, <1>5, <1>6

\* What is on record was filed, and what was filed is in the mailbox.
LEMMA Shelved ==
  ASSUME IInv
  PROVE  seen \subseteq Letters /\ messages \subseteq Letters /\ Nothing \notin messages
<1>1. \A i \in 1 .. Cardinality(seen) : i \in DOMAIN Post
  BY IntakeAssumption DEF IntakeAssumption, IInv, FiledInv
<1>2. seen \subseteq Letters
  BY <1>1 DEF IInv, FiledInv, Letters
<1>. QED BY <1>2, IntakeAssumption DEF IntakeAssumption, IInv, RowsInv

\* A step queues one letter at most, that may be queued, and to nobody
\* suppressed.
QueuesOne ==
  \/ outbox' = outbox
  \/ \E k : Proper(k) /\ Queue(k)

\* Who is handled, is somebody.
LEMMA InHand ==
  ASSUME IInv, stage \in Handling
  PROVE  hand.who \in People
BY DEF IInv, HandInv

LEMMA StepQueuesOne ==
  ASSUME IInv, Next
  PROVE  QueuesOne
<1>1. ASSUME NEW d \in Documents, Read(d) PROVE QueuesOne
  <2>1. stage = "reading" /\ (UNCHANGED outbox \/ Queue(Clarify(hand.who, d)))
    BY <1>1 DEF Read
  <2>. QED BY <2>1, InHand, ProperLetters DEF QueuesOne, Handling
<1>2. CASE EndReading
  <2>1. stage = "reading"
    BY <1>2 DEF EndReading
  <2>2. UNCHANGED outbox \/ (~Known(hand.who) /\ Queue(Profile(hand.who)))
    BY <1>2 DEF EndReading, Continue
  <2>. QED BY <2>1, <2>2, InHand, ProperLetters DEF QueuesOne, Handling
<1>3. CASE EndExtraction
  <2>1. stage = "extracting"
    BY <1>3 DEF EndExtraction
  <2>2. UNCHANGED outbox \/ (~Known(hand.who) /\ Queue(NoFacts(hand.who)))
    BY <1>3 DEF EndExtraction
  <2>. QED BY <2>1, <2>2, InHand, ProperLetters DEF QueuesOne, Handling
<1>4. CASE Qualify
  <2>1. stage = "qualifying"
        /\ (UNCHANGED outbox \/ Queue(Interview(hand.who, Asked(hand.who))))
    BY <1>4 DEF Qualify
  <2>. QED BY <2>1, InHand, ProperLetters DEF QueuesOne, Handling
<1>5. CASE Acknowledge
  <2>1. stage = "acknowledging" /\ Queue(Confirm(hand.who, Cardinality(facts[hand.who])))
    BY <1>5 DEF Acknowledge
  <2>. QED BY <2>1, InHand, ProperLetters DEF QueuesOne, Handling
<1>6. CASE RequestLinkedIn
  <2>1. stage = "linking" /\ (UNCHANGED outbox \/ Queue(LinkedIn(hand.who)))
    BY <1>6 DEF RequestLinkedIn
  <2>. QED BY <2>1, InHand, ProperLetters DEF QueuesOne, Handling
<1>7. CASE Speak
  <2>1. stage = "settling" /\ Queue(Reply(hand.letter))
    BY <1>7 DEF Speak
  <2>2. hand.who \in People /\ hand.letter \in Letters
    BY <2>1, Shelved DEF IInv, HandInv, Handling, RowsInv
  <2>. QED BY <2>1, <2>2, ProperLetters DEF QueuesOne
<1>8. ASSUME NEW p \in People, Sweep(p) PROVE QueuesOne
  <2>1. \/ UNCHANGED outbox
        \/ ~Known(p) /\ Queue(NoFacts(p))
        \/ ~Known(p) /\ Queue(Profile(p))
    BY <1>8 DEF Sweep
  <2>. QED BY <2>1, ProperLetters DEF QueuesOne
<1>9. ASSUME NEW l \in Letters, Pay(l) PROVE QueuesOne
  <2>1. Queue(Reply(l))
    BY <1>9 DEF Pay
  <2>2. From[l] \in People
    BY IntakeAssumption DEF IntakeAssumption
  <2>. QED BY <2>1, <2>2, ProperLetters DEF QueuesOne
<1>10. CASE UNCHANGED outbox
  BY <1>10 DEF QueuesOne
<1>. QED
  BY <1>1, <1>2, <1>3, <1>4, <1>5, <1>6, <1>7, <1>8, <1>9, <1>10
     DEF Next, Listen, Tick, Ingest, Debts, File, Attach, BeginTick, Take, Suppress,
         TickThrows, Join, ReadBody, Extract, Settle, FailToSpeak, EndIngest, Bridge,
         StartSweep, StartPaying, Forgive, ClearDebt, FailToPay, EndTick, Crash, Boot
-------------------------------------------------------------------------------
(***************************************************************************)
(* What every step leaves standing.                                        *)
(***************************************************************************)

\* A queued letter stays queued, and is written to nobody suppressed.
LEMMA OutboxGrows ==
  ASSUME IInv, QueuesOne
  PROVE  /\ outbox \subseteq outbox'
         /\ \A k \in outbox' : Recipient(k) \in People
         /\ \A k \in outbox' \ outbox : CanReceive(Recipient(k)) /\ Proper(k)
BY DEF QueuesOne, Queue, Proper, IInv, RowsInv

\* Nobody suppressed becomes a live member again.
MembersKept ==
  /\ member' \in [People -> MemberStates]
  /\ \A p \in People : member[p] \in Suppressed => member'[p] \in Suppressed

LEMMA StepKeepsMembers ==
  ASSUME IInv, Next
  PROVE  MembersKept
<1>0. member \in [People -> MemberStates]
  BY DEF IInv, RowsInv
<1>1. CASE Suppress
  <2>1. stage = "recorded" /\ hand.who \in People
    BY <1>1, InHand DEF Suppress, Handling
  <2>2. PICK s \in Suppressed \cup {"UNKNOWN"} :
          /\ member' = [member EXCEPT ![hand.who] = s]
          /\ member[hand.who] # "UNKNOWN" => s \in Suppressed
    BY <1>1 DEF Suppress, Suppressed
  <2>. QED BY <1>0, <2>1, <2>2 DEF MembersKept, MemberStates, Suppressed
<1>2. CASE Join
  <2>1. stage = "recorded" /\ hand.who \in People
    BY <1>2, InHand DEF Join, Handling
  <2>2. member' = [member EXCEPT ![hand.who] =
                     IF member[hand.who] = "UNKNOWN" THEN "NEEDS_PROFILE" ELSE member[hand.who]]
    BY <1>2 DEF Join
  <2>. QED BY <1>0, <2>1, <2>2 DEF MembersKept, MemberStates, IntakeStates, Suppressed
<1>3. CASE EndExtraction
  <2>1. stage = "extracting" /\ hand.who \in People
    BY <1>3, InHand DEF EndExtraction, Handling
  <2>2. \/ UNCHANGED member
        \/ member' = [member EXCEPT ![hand.who] =
             IF member[hand.who] = "NEEDS_PROFILE" THEN "INTERVIEWING" ELSE member[hand.who]]
    BY <1>3 DEF EndExtraction
  <2>. QED BY <1>0, <2>1, <2>2 DEF MembersKept, MemberStates, IntakeStates, Suppressed
<1>4. CASE Qualify
  <2>1. stage = "qualifying" /\ hand.who \in People
    BY <1>4, InHand DEF Qualify, Handling
  <2>2. \/ UNCHANGED member
        \/ /\ member[hand.who] \in AllowedStates
           /\ member' = [member EXCEPT ![hand.who] = "ACTIVE"]
    BY <1>4 DEF Qualify
  <2>. QED BY <1>0, <2>1, <2>2 DEF MembersKept, MemberStates, AllowedStates, Suppressed
<1>5. CASE UNCHANGED member
  BY <1>0, <1>5 DEF MembersKept
<1>. QED
  BY <1>1, <1>2, <1>3, <1>4, <1>5
     DEF Next, Listen, Tick, Ingest, Debts, File, Attach, BeginTick, Take, TickThrows, Read,
         ReadBody, EndReading, Extract, Acknowledge, RequestLinkedIn, Settle, Speak,
         FailToSpeak, EndIngest, Bridge, Sweep, StartSweep, StartPaying, Forgive, Pay,
         ClearDebt, FailToPay, EndTick, Crash, Boot, deskRows

\* The listen loop files the next letter of the mailbox.
LEMMA StepKeepsFiled ==
  ASSUME IInv, Next
  PROVE  FiledInv' /\ seen \subseteq seen'
<1>0. /\ IsFiniteSet(seen) /\ Cardinality(seen) \in 0 .. Len(Post)
      /\ seen = {Post[i] : i \in 1 .. Cardinality(seen)}
      /\ listening \in [letter : Letters \cup {Nothing}, docs : SUBSET Documents]
      /\ carrier \in [Documents -> Letters \cup {Nothing}]
  BY DEF IInv, FiledInv
<1>1. CASE File
  <2> DEFINE n == Cardinality(seen)
             l == Post[n + 1]
  <2>1. /\ seen # Letters /\ seen' = seen \cup {l}
        /\ listening' = [letter |-> l, docs |-> Files[l]] /\ UNCHANGED carrier
    BY <1>1 DEF File
  <2>2. DOMAIN Post = 1 .. Len(Post) /\ Len(Post) \in Nat
    BY IntakeAssumption DEF IntakeAssumption
  <2>3. n # Len(Post)
    BY <1>0, <2>1, <2>2 DEF Letters
  <2>4. n \in Nat /\ n + 1 \in DOMAIN Post
    BY <1>0, <2>2, <2>3
  <2>5. l \in Letters
    BY <2>4 DEF Letters
  <2>6. l \notin seen
    <3>1. \A i \in 1 .. n : i \in DOMAIN Post /\ i # n + 1
      BY <1>0, <2>2
    <3>2. \A i \in 1 .. n : Post[i] # l
      BY <2>4, <3>1, IntakeAssumption DEF IntakeAssumption
    <3>. QED BY <1>0, <3>2
  <2>7. IsFiniteSet(seen') /\ Cardinality(seen') = n + 1
    BY <1>0, <2>1, <2>6, FS_AddElement
  <2>8. seen' = {Post[i] : i \in 1 .. (n + 1)}
    <3>1. 1 .. (n + 1) = (1 .. n) \cup {n + 1}
      BY <2>4
    <3>. QED BY <1>0, <2>1, <3>1
  <2>9. Files[l] \in SUBSET Documents
    BY <2>5, IntakeAssumption DEF IntakeAssumption
  <2>10. FiledInv'
    <3>1. Cardinality(seen') \in 0 .. Len(Post)
      BY <2>2, <2>4, <2>7
    <3>2. seen' = {Post[i] : i \in 1 .. Cardinality(seen')}
      BY <2>7, <2>8
    <3> HIDE DEF l, n
    <3>3. listening' \in [letter : Letters \cup {Nothing}, docs : SUBSET Documents]
      BY <2>1, <2>5, <2>9
    <3>. QED BY <1>0, <2>1, <2>7, <3>1, <3>2, <3>3 DEF FiledInv
  <2>. QED BY <2>1, <2>10
<1>2. ASSUME NEW d \in Documents, Attach(d) PROVE FiledInv' /\ seen \subseteq seen'
  <2>1. /\ listening' = [listening EXCEPT !.docs = listening.docs \ {d}] /\ UNCHANGED seen
        /\ \/ carrier' = [carrier EXCEPT ![d] =
                            IF carrier[d] = Nothing THEN listening.letter ELSE carrier[d]]
           \/ UNCHANGED carrier
    BY <1>2 DEF Attach
  <2>2. listening' \in [letter : Letters \cup {Nothing}, docs : SUBSET Documents]
    BY <1>0, <2>1
  <2>3. carrier' \in [Documents -> Letters \cup {Nothing}]
    BY <1>0, <2>1
  <2>. QED BY <1>0, <2>1, <2>2, <2>3 DEF FiledInv
<1>3. CASE Crash
  <2>1. listening' = [letter |-> Nothing, docs |-> {}] /\ UNCHANGED <<seen, carrier>>
    BY <1>3 DEF Crash, NotListening
  <2>. QED BY <1>0, <2>1 DEF FiledInv
<1>4. CASE UNCHANGED graphVars
  BY <1>0, <1>4 DEF FiledInv, graphVars
<1>. QED
  BY <1>1, <1>2, <1>3, <1>4
     DEF Next, Listen, Tick, Ingest, Debts, BeginTick, Take, Suppress, TickThrows, Join, Read,
         ReadBody, EndReading, EndExtraction, Qualify, Extract, Acknowledge, RequestLinkedIn,
         Settle, Speak, FailToSpeak, EndIngest, Bridge, Sweep, StartSweep, StartPaying,
         Forgive, Pay, ClearDebt, FailToPay, EndTick, Boot

\* Sources and facts are of documents, for the one in hand.
LEMMA StepKeepsEvidence ==
  ASSUME IInv, Next
  PROVE  sources' \in [People -> SUBSET Documents] /\ facts' \in [People -> SUBSET Fields]
<1> DEFINE Kept == sources' \in [People -> SUBSET Documents] /\ facts' \in [People -> SUBSET Fields]
<1>0. sources \in [People -> SUBSET Documents] /\ facts \in [People -> SUBSET Fields]
  BY DEF IInv, RowsInv
<1>1. ASSUME NEW d \in Documents, Read(d) PROVE Kept
  BY <1>0, <1>1 DEF Read, SaveSource
<1>2. CASE ReadBody
  <2>1. hand.letter \in Letters
    BY <1>2, Shelved DEF ReadBody, IInv, HandInv, RowsInv, Handling
  <2>2. Body[hand.letter] \in Documents
    BY <1>2, <2>1, IntakeAssumption DEF ReadBody, IntakeAssumption
  <2>. QED BY <1>0, <1>2, <2>2 DEF ReadBody, SaveSource
<1>3. ASSUME NEW d \in Documents, Extract(d) PROVE Kept
  <2>1. PICK quoted \in SUBSET Holds[d] :
          facts' = [facts EXCEPT ![hand.who] = facts[hand.who] \cup quoted]
    BY <1>3 DEF Extract, Verified
  <2>2. quoted \in SUBSET Fields
    BY <2>1 DEF Fields
  <2>3. UNCHANGED sources
    BY <1>3 DEF Extract
  <2>. QED BY <1>0, <2>1, <2>2, <2>3
<1>4. CASE UNCHANGED <<sources, facts>>
  BY <1>0, <1>4
<1>. QED
  BY <1>1, <1>2, <1>3, <1>4
     DEF Next, Listen, Tick, Ingest, Debts, File, Attach, BeginTick, Take, Suppress, TickThrows,
         Join, EndReading, EndExtraction, Qualify, Acknowledge, RequestLinkedIn,
         Settle, Speak, FailToSpeak, EndIngest, Bridge, Sweep, StartSweep, StartPaying,
         Forgive, Pay, ClearDebt, FailToPay, EndTick, Crash, Boot, deskRows

\* The rows about letters only ever name letters on record.
LettersKept ==
  /\ messages \subseteq messages' /\ messages' \subseteq seen
  /\ owed' \subseteq messages' /\ answered' \subseteq messages' /\ cut' \subseteq messages'
  /\ answered \subseteq answered' /\ cut \subseteq cut' /\ bridged' \subseteq People

LEMMA StepKeepsLetters ==
  ASSUME IInv, Next
  PROVE  LettersKept
<1>0. /\ messages \subseteq seen /\ owed \subseteq messages /\ answered \subseteq messages
      /\ cut \subseteq messages /\ bridged \subseteq People /\ qualified \subseteq People
      /\ batch \subseteq seen
  BY DEF IInv, RowsInv, TickInv
<1>1. ASSUME NEW l \in Letters, Take(l) PROVE LettersKept
  BY <1>0, <1>1 DEF Take, LettersKept, lifeVars
<1>2. CASE Settle
  <2>1. hand.letter \in messages
    BY <1>2 DEF Settle, IInv, HandInv, Handling
  <2>. QED BY <1>0, <1>2, <2>1 DEF Settle, LettersKept, deskRows, lifeVars
<1>3. CASE FailToSpeak
  <2>1. hand.letter \in messages
    BY <1>3 DEF FailToSpeak, IInv, HandInv, Handling
  <2>. QED BY <1>0, <1>3, <2>1 DEF FailToSpeak, Owe, LettersKept, deskRows, lifeVars
<1>4. ASSUME NEW l \in Letters, Forgive(l) PROVE LettersKept
  BY <1>0, <1>4 DEF Forgive, LettersKept, deskRows, lifeVars
<1>5. CASE ClearDebt
  BY <1>0, <1>5 DEF ClearDebt, LettersKept, deskRows, lifeVars
<1>6. CASE Crash
  <2>1. {hand.letter} \ {Nothing} \subseteq messages
    BY DEF IInv, HandInv
  <2>. QED BY <1>0, <1>6, <2>1 DEF Crash, LettersKept, deskRows, lifeVars
<1>7. CASE Boot
  BY <1>0, <1>7 DEF Boot, LettersKept, deskRows, lifeVars
<1>8. ASSUME NEW p \in People, Bridge(p) PROVE LettersKept
  BY <1>0, <1>8 DEF Bridge, LettersKept, deskRows, lifeVars
<1>9. CASE UNCHANGED <<messages, owed, answered, cut, bridged>>
  BY <1>0, <1>9 DEF LettersKept
<1>. QED
  BY <1>1, <1>2, <1>3, <1>4, <1>5, <1>6, <1>7, <1>8, <1>9
     DEF Next, Listen, Tick, Ingest, Debts, File, Attach, BeginTick, Suppress, TickThrows,
         Join, Read, ReadBody, EndReading, EndExtraction, Qualify, Extract, Acknowledge,
         RequestLinkedIn, Speak, EndIngest, Sweep, StartSweep, StartPaying,
         Pay, FailToPay, StillOwed, EndTick, deskRows, lifeVars
-------------------------------------------------------------------------------
(***************************************************************************)
(* The tick, and the letter in hand.                                       *)
(***************************************************************************)

LEMMA StepKeepsTick ==
  ASSUME IInv, Next
  PROVE  TickInv'
<1>0. /\ processed \subseteq Letters \cup Documents
      /\ batch \subseteq seen /\ folded \subseteq Documents
      /\ qualified \subseteq People /\ due \subseteq People \cup Letters
      /\ stage \in Stages /\ up \in BOOLEAN /\ restarts \in 0 .. MaxRestarts
  BY DEF IInv, TickInv
<1>1. seen \subseteq seen' /\ seen \subseteq Letters /\ owed \subseteq Letters
  BY StepKeepsFiled, Shelved DEF IInv, RowsInv
<1>2. up' \in BOOLEAN /\ restarts' \in 0 .. MaxRestarts
  <2>1. MaxRestarts \in Nat
    BY IntakeAssumption DEF IntakeAssumption
  <2>2. CASE Crash
    <3>1. restarts < MaxRestarts /\ restarts' = restarts + 1 /\ up' = FALSE
      BY <2>2 DEF Crash
    <3>2. restarts' \in 0 .. MaxRestarts
      BY <1>0, <2>1, <3>1
    <3>. QED BY <3>1, <3>2
  <2>3. CASE Boot
    BY <1>0, <2>3 DEF Boot
  <2>4. CASE UNCHANGED <<up, restarts>>
    BY <1>0, <2>4
  <2>. QED
    BY <2>2, <2>3, <2>4
       DEF Next, Listen, Tick, Ingest, Debts, File, Attach, BeginTick, Take, Suppress,
           TickThrows, Join, Read, ReadBody, EndReading, EndExtraction, Qualify, Extract,
           Acknowledge, RequestLinkedIn, Settle, Speak, FailToSpeak, EndIngest, Bridge, Sweep,
           StartSweep, StartPaying, Forgive, Pay, ClearDebt, FailToPay, EndTick, lifeVars
<1>3. stage' \in Stages
  BY <1>0
     DEF Next, Listen, Tick, Ingest, Debts, File, Attach, BeginTick, Take, Suppress,
         TickThrows, Join, Read, ReadBody, EndReading, EndExtraction, Qualify, Extract,
         Acknowledge, RequestLinkedIn, Settle, Speak, FailToSpeak, EndIngest, Bridge, Sweep,
         StartSweep, StartPaying, Forgive, Pay, ClearDebt, FailToPay, EndTick, Crash, Boot,
         Drop, Report, Continue, AfterQualifying, Stages
<1>4. CASE UNCHANGED tickVars
  BY <1>0, <1>1, <1>2, <1>3, <1>4 DEF TickInv, tickVars
<1>5. CASE BeginTick
  BY <1>0, <1>1, <1>2, <1>3, <1>5 DEF BeginTick, TickInv
<1>6. ASSUME NEW l \in Letters, Take(l) PROVE TickInv'
  <2>1. Folded(l) \subseteq Documents
    BY <1>0 DEF Folded
  <2>2. UNCHANGED <<folded, qualified, due>> /\ batch' = batch \ {l}
        /\ processed' = processed \cup {l} \cup Folded(l)
    BY <1>6 DEF Take
  <2>. QED BY <1>0, <1>1, <1>2, <1>3, <2>1, <2>2 DEF TickInv
<1>7. CASE TickThrows
  BY <1>0, <1>1, <1>2, <1>3, <1>7 DEF TickThrows, TickInv
<1>8. CASE Settle \/ Speak \/ FailToSpeak
  <2>1. stage = "settling"
    BY <1>8 DEF Settle, Speak, FailToSpeak
  <2>2. hand.who \in People
    BY <2>1, InHand DEF Handling
  <2>3. UNCHANGED <<processed, batch, folded, due>> /\ qualified' \subseteq qualified \cup {hand.who}
    BY <1>8 DEF Settle, Speak, FailToSpeak, Report
  <2>. QED BY <1>0, <1>1, <1>2, <1>3, <2>2, <2>3 DEF TickInv
<1>9. ASSUME NEW p \in People, Bridge(p) \/ Sweep(p) PROVE TickInv'
  <2>1. /\ UNCHANGED <<processed, batch, folded>>
        /\ qualified' \subseteq qualified /\ due' \subseteq due
    BY <1>9 DEF Bridge, Sweep
  <2>. QED BY <1>0, <1>1, <1>2, <1>3, <2>1 DEF TickInv
<1>10. CASE StartSweep \/ StartPaying
  <2>1. /\ UNCHANGED <<processed, batch, folded, qualified>>
        /\ due' \subseteq People \cup Letters
    BY <1>1, <1>10 DEF StartSweep, StartPaying
  <2>. QED BY <1>0, <1>1, <1>2, <1>3, <2>1 DEF TickInv
<1>11. ASSUME NEW l \in Letters, Forgive(l) \/ FailToPay(l) PROVE TickInv'
  <2>1. UNCHANGED <<processed, batch, folded, qualified>> /\ due' \subseteq due
    BY <1>11 DEF Forgive, FailToPay
  <2>. QED BY <1>0, <1>1, <1>2, <1>3, <2>1 DEF TickInv
<1>12. CASE ClearDebt \/ EndTick
  <2>1. /\ UNCHANGED <<processed, batch, qualified>> /\ due' \subseteq due
        /\ folded' \subseteq folded
    BY <1>12 DEF ClearDebt, EndTick
  <2>. QED BY <1>0, <1>1, <1>2, <1>3, <2>1 DEF TickInv
<1>13. CASE Crash
  BY <1>0, <1>1, <1>2, <1>3, <1>13 DEF Crash, TickInv
<1>. QED
  BY <1>4, <1>5, <1>6, <1>7, <1>8, <1>9, <1>10, <1>11, <1>12, <1>13
     DEF Next, Listen, Tick, Ingest, Debts, File, Attach, Suppress, Join, Read, ReadBody,
         EndReading, EndExtraction, Qualify, Extract, Acknowledge, RequestLinkedIn, EndIngest,
         Pay, Boot

\* The hand is empty, or changes in what it still has to read and mine.
SameHand ==
  /\ hand' = [letter |-> hand'.letter, who |-> hand'.who, files |-> hand'.files,
              mine |-> hand'.mine, found |-> hand'.found, passed |-> hand'.passed,
              depth |-> hand'.depth]
  /\ hand'.letter = hand.letter /\ hand'.who = hand.who
  /\ hand'.files \subseteq Documents /\ hand'.mine \subseteq Documents

\* Who is handled stays in hand until the letter settles.
LEMMA HandKept ==
  ASSUME IInv, Next, stage \in Handling, SameHand, stage' \in Handling,
         hand.letter = Nothing =>
           stage' \in {"qualifying", "acknowledging"} /\ ~hand'.found
  PROVE  HandInv'
<1>1. hand'.letter \in messages' \cup {Nothing}
  BY StepKeepsLetters DEF SameHand, LettersKept, IInv, HandInv
<1>. QED BY <1>1 DEF SameHand, IInv, HandInv, Handling

\* An empty hand needs nobody.
LEMMA HandEmptied ==
  ASSUME hand' = NoHand, stage' \notin Handling \cup {"paid"}
  PROVE  HandInv'
BY DEF HandInv, NoHand

\* What is between two letters has an empty hand.
LEMMA HandIdle ==
  ASSUME IInv, UNCHANGED hand, stage \notin Handling \cup {"paid"},
         stage' \notin Handling \cup {"paid"}
  PROVE  HandInv'
BY DEF IInv, HandInv

LEMMA HandUntouched ==
  ASSUME IInv, Next, UNCHANGED <<stage, hand>>
  PROVE  HandInv'
<1>1. messages \subseteq messages' /\ outbox \subseteq outbox'
  BY StepKeepsLetters, StepQueuesOne, OutboxGrows DEF LettersKept
<1>. QED BY <1>1 DEF IInv, HandInv

LEMMA StepKeepsHand ==
  ASSUME IInv, Next
  PROVE  HandInv'
<1>0. HandInv
  BY DEF IInv
<1>1. CASE UNCHANGED <<stage, hand>>
  BY <1>1, HandUntouched
<1>2. CASE BeginTick \/ EndIngest \/ StartSweep \/ EndTick
  BY <1>2, HandIdle DEF BeginTick, EndIngest, StartSweep, EndTick, Handling
<1>3. ASSUME NEW l \in Letters, Take(l), ~UNCHANGED <<stage, hand>> PROVE HandInv'
  <2>1. /\ stage' = "recorded" /\ l \in messages'
        /\ hand' = [NoHand EXCEPT !.letter = l, !.who = From[l], !.files = Folded(l),
                                  !.depth = Cardinality(outbox)]
    BY <1>3 DEF Take
  <2> DEFINE n == Cardinality(outbox)
             fs == Folded(l)
             w == From[l]
  <2>2. fs \subseteq Documents /\ w \in People /\ l # Nothing
    BY IntakeAssumption DEF IntakeAssumption, Folded, IInv, TickInv
  <2> HIDE DEF n, fs, w
  <2>3. hand' = [letter |-> l, who |-> w, files |-> fs, mine |-> {}, found |-> FALSE,
                 passed |-> FALSE, depth |-> n]
    BY <2>1 DEF NoHand, n, fs, w
  <2>4. /\ hand'.letter = l /\ hand'.who = w /\ hand'.files = fs /\ hand'.mine = {}
    BY <2>3
  <2>5. hand' = [letter |-> hand'.letter, who |-> hand'.who, files |-> hand'.files,
                 mine |-> hand'.mine, found |-> hand'.found, passed |-> hand'.passed,
                 depth |-> hand'.depth]
    BY <2>3
  <2>. QED BY <2>1, <2>2, <2>4, <2>5 DEF HandInv, Handling, w
<1>4. CASE Suppress \/ TickThrows \/ Settle \/ Speak \/ FailToSpeak \/ ClearDebt \/ StartPaying
           \/ Crash
  BY <1>4, HandEmptied DEF Suppress, TickThrows, Settle, Speak, FailToSpeak, ClearDebt,
     StartPaying, Crash, Drop, Report, Handling
<1>5. CASE Join
  <2>1. CASE Drop
    BY <2>1, HandEmptied DEF Drop, Handling
  <2>2. CASE stage' = "reading" /\ UNCHANGED hand
    <3>1. stage = "recorded"
      BY <1>5 DEF Join
    <3>. QED BY <1>0, <2>2, <3>1, HandKept DEF SameHand, HandInv, Handling
  <2>. QED BY <1>5, <2>1, <2>2 DEF Join
<1>6. ASSUME NEW d \in Documents, Read(d) PROVE HandInv'
  <2>1. /\ stage = "reading" /\ UNCHANGED stage
        /\ \/ hand' = [hand EXCEPT !.files = hand.files \ {d}, !.mine = hand.mine \cup {d}]
           \/ hand' = [hand EXCEPT !.files = hand.files \ {d}]
    BY <1>6 DEF Read
  <2>2. SameHand
    BY <1>0, <2>1 DEF SameHand, HandInv
  <2>. QED BY <1>0, <2>1, <2>2, HandKept DEF HandInv, Handling
<1>7. CASE ReadBody
  <2>1. /\ stage = "reading" /\ stage' = "extracting" /\ Body[hand.letter] # Nothing
        /\ hand' = [hand EXCEPT !.mine = {Body[hand.letter]}]
    BY <1>7 DEF ReadBody
  <2>2. hand.letter \in Letters
    BY <2>1, Shelved DEF IInv, HandInv, Handling
  <2>3. Body[hand.letter] \in Documents
    BY <2>1, <2>2, IntakeAssumption DEF IntakeAssumption
  <2>4. SameHand
    BY <1>0, <2>1, <2>3 DEF SameHand, HandInv
  <2>. QED BY <1>0, <2>1, <2>4, HandKept DEF HandInv, Handling
<1>8. CASE EndReading
  <2>1. /\ stage = "reading" /\ stage' \in {"extracting", "qualifying", "settling"}
        /\ UNCHANGED hand
    BY <1>8 DEF EndReading, Continue
  <2>. QED BY <1>0, <2>1, HandKept DEF SameHand, HandInv, Handling
<1>9. ASSUME NEW d \in Documents, Extract(d) PROVE HandInv'
  <2>1. PICK f : hand' = [hand EXCEPT !.mine = hand.mine \ {d}, !.found = f]
    BY <1>9 DEF Extract
  <2>2. stage = "extracting" /\ UNCHANGED stage
    BY <1>9 DEF Extract
  <2>3. SameHand
    BY <1>0, <2>1 DEF SameHand, HandInv
  <2>. QED BY <1>0, <2>2, <2>3, HandKept DEF HandInv, Handling
<1>10. CASE EndExtraction
  <2>1. /\ stage = "extracting" /\ stage' \in {"qualifying", "settling"}
        /\ UNCHANGED hand
    BY <1>10 DEF EndExtraction
  <2>. QED BY <1>0, <2>1, HandKept DEF SameHand, HandInv, Handling
<1>11. CASE Qualify
  <2>1. /\ stage = "qualifying" /\ stage' \in {"acknowledging", AfterQualifying}
        /\ UNCHANGED hand \/ hand' = [hand EXCEPT !.passed = TRUE]
        /\ stage' = AfterQualifying => UNCHANGED hand
    BY <1>11 DEF Qualify, AfterQualifying
  <2>2. SameHand /\ hand'.found = hand.found
    BY <1>0, <2>1 DEF SameHand, HandInv
  <2>3. CASE stage' = "sweeping"
    <3>1. hand.letter = Nothing /\ UNCHANGED hand
      BY <2>1, <2>3 DEF AfterQualifying
    <3>. QED BY <1>0, <2>3, <3>1 DEF HandInv, Handling
  <2>4. CASE stage' # "sweeping"
    <3>1. /\ stage' \in {"acknowledging", "linking", "settling"}
          /\ stage' \in {"linking", "settling"} => hand.found \/ hand.letter # Nothing
      BY <2>1, <2>4 DEF AfterQualifying
    <3>. QED BY <1>0, <2>1, <2>2, <3>1, HandKept DEF HandInv, Handling
  <2>. QED BY <2>3, <2>4
<1>12. CASE Acknowledge
  <2>1. stage = "acknowledging" /\ stage' = AfterQualifying /\ UNCHANGED hand
    BY <1>12 DEF Acknowledge
  <2>2. CASE stage' = "sweeping"
    <3>1. hand.letter = Nothing
      BY <2>1, <2>2 DEF AfterQualifying
    <3>. QED BY <1>0, <2>1, <2>2, <3>1 DEF HandInv, Handling
  <2>3. CASE stage' # "sweeping"
    <3>1. stage' \in {"linking", "settling"} /\ (hand.found \/ hand.letter # Nothing)
      BY <2>1, <2>3 DEF AfterQualifying
    <3>. QED BY <1>0, <2>1, <3>1, HandKept DEF SameHand, HandInv, Handling
  <2>. QED BY <2>2, <2>3
<1>13. CASE RequestLinkedIn
  <2>1. stage = "linking" /\ stage' = "settling" /\ UNCHANGED hand
    BY <1>13 DEF RequestLinkedIn
  <2>. QED BY <1>0, <2>1, HandKept DEF SameHand, HandInv, Handling
<1>14. ASSUME NEW p \in People, Sweep(p), ~UNCHANGED <<stage, hand>> PROVE HandInv'
  <2>1. stage' = "qualifying" /\ hand' = [NoHand EXCEPT !.who = p]
    BY <1>14 DEF Sweep
  <2>2. hand' = [letter |-> Nothing, who |-> p, files |-> {}, mine |-> {}, found |-> FALSE,
                 passed |-> FALSE, depth |-> 0]
    BY <2>1 DEF NoHand
  <2>3. /\ hand'.letter = Nothing /\ hand'.who = p /\ hand'.files = {} /\ hand'.mine = {}
        /\ ~hand'.found
    BY <2>2
  <2>4. hand' = [letter |-> hand'.letter, who |-> hand'.who, files |-> hand'.files,
                 mine |-> hand'.mine, found |-> hand'.found, passed |-> hand'.passed,
                 depth |-> hand'.depth]
    BY <2>2
  <2>. QED BY <2>1, <2>3, <2>4 DEF HandInv, Handling
<1>15. ASSUME NEW l \in Letters, Pay(l) PROVE HandInv'
  <2>1. /\ stage' = "paid" /\ hand' = [NoHand EXCEPT !.letter = l] /\ UNCHANGED messages
        /\ Reply(l) \in outbox'
    BY <1>15, Recipients DEF Pay, Queue, deskRows
  <2>2. hand' = [letter |-> l, who |-> Nothing, files |-> {}, mine |-> {}, found |-> FALSE,
                 passed |-> FALSE, depth |-> 0]
    BY <2>1 DEF NoHand
  <2>3. l \in messages
    BY <1>15 DEF Pay, IInv, DebtsInv
  <2>4. l # Nothing
    BY IntakeAssumption DEF IntakeAssumption
  <2>5. hand'.letter = l /\ hand'.files = {} /\ hand'.mine = {}
    BY <2>2
  <2>6. hand' = [letter |-> hand'.letter, who |-> hand'.who, files |-> hand'.files,
                 mine |-> hand'.mine, found |-> hand'.found, passed |-> hand'.passed,
                 depth |-> hand'.depth]
    BY <2>2
  <2>. QED BY <2>1, <2>3, <2>4, <2>5, <2>6 DEF HandInv, Handling
<1>. QED
  BY <1>1, <1>2, <1>3, <1>4, <1>5, <1>6, <1>7, <1>8, <1>9, <1>10, <1>11, <1>12, <1>13, <1>14,
     <1>15
     DEF Next, Listen, Tick, Ingest, Debts, File, Attach, Bridge, Forgive, FailToPay, Boot

LEMMA StepKeepsDebts ==
  ASSUME IInv, Next
  PROVE  DebtsInv'
<1>1. messages \subseteq messages' /\ owed \subseteq messages
  BY StepKeepsLetters DEF LettersKept, IInv, RowsInv
<1>2. CASE StartPaying
  BY <1>1, <1>2 DEF StartPaying, DebtsInv
<1>3. CASE stage' \in {"paying", "paid"} => stage \in {"paying", "paid"} /\ due' \subseteq due
  BY <1>1, <1>3 DEF IInv, DebtsInv
<1>. QED
  BY <1>2, <1>3
     DEF Next, Listen, Tick, Ingest, Debts, File, Attach, BeginTick, Take, Suppress,
         TickThrows, Join, Read, ReadBody, EndReading, EndExtraction, Qualify, Extract,
         Acknowledge, RequestLinkedIn, Settle, Speak, FailToSpeak, EndIngest, Bridge, Sweep,
         StartSweep, Forgive, Pay, ClearDebt, FailToPay, EndTick, Crash, Boot,
         Drop, Report, Continue, AfterQualifying, tickVars
-------------------------------------------------------------------------------
(***************************************************************************)
(* Every letter is answered, or owed an answer.                            *)
(***************************************************************************)

\* Something came of l.
Settled(l) == l \in answered \cup owed \/ Reply(l) \in outbox

\* Nothing has to: a crash cut it, or it is not to be answered.
Exempt(l) == l \in cut \/ Intent[l] # "message" \/ member[From[l]] \in Suppressed

\* A letter is through with when it leaves the hand, and settled or exempt
\* then; neither is undone, but by a debt that is paid or forgiven.
LEMMA AnswersKept ==
  ASSUME IInv, Next,
         \A l \in messages' : l \in messages \/ l = hand'.letter,
         \A l \in owed : l \in owed' \/ Reply(l) \in outbox' \/ member'[From[l]] \in Suppressed,
         \A l \in Letters : l = hand.letter =>
           hand'.letter = l \/ Settled(l)' \/ Exempt(l)'
  PROVE  EveryLetterIsAnsweredOrOwed'
<1>1. /\ answered \subseteq answered' /\ cut \subseteq cut' /\ outbox \subseteq outbox'
      /\ \A p \in People : member[p] \in Suppressed => member'[p] \in Suppressed
  BY StepKeepsLetters, StepQueuesOne, OutboxGrows, StepKeepsMembers
     DEF LettersKept, MembersKept
<1>2. \A l \in Letters : From[l] \in People
  BY IntakeAssumption DEF IntakeAssumption
<1>3. \A l \in Letters : l \in messages /\ l # hand.letter => Settled(l) \/ Exempt(l)
  BY DEF IInv, EveryLetterIsAnsweredOrOwed, Handled, CanReceive, Settled, Exempt
<1>4. \A l \in Letters : l \in messages /\ l # hand.letter => Settled(l)' \/ Exempt(l)'
  BY <1>1, <1>2, <1>3 DEF Settled, Exempt
<1>5. \A l \in Letters : l \in messages' /\ l # hand'.letter => Settled(l)' \/ Exempt(l)'
  BY <1>4
<1>. QED BY <1>5 DEF EveryLetterIsAnsweredOrOwed, Handled, CanReceive, Settled, Exempt

\* The hand is what it was, or was empty.
LEMMA AnswersSame ==
  ASSUME IInv, Next, UNCHANGED <<messages, owed>>,
         hand.letter \in Letters => hand'.letter = hand.letter
  PROVE  EveryLetterIsAnsweredOrOwed'
BY AnswersKept

LEMMA StepKeepsAnswers ==
  ASSUME IInv, Next
  PROVE  EveryLetterIsAnsweredOrOwed'
<1>0. HandInv /\ Nothing \notin Letters
  BY IntakeAssumption DEF IInv, IntakeAssumption
<1>1. CASE UNCHANGED <<messages, owed, hand>>
  BY <1>1, AnswersSame
<1>2. ASSUME NEW l \in Letters, Take(l), ~UNCHANGED hand
      PROVE  EveryLetterIsAnsweredOrOwed'
  <2>1. /\ stage = "ingest" /\ UNCHANGED owed /\ messages' = messages \cup {l}
        /\ hand' = [NoHand EXCEPT !.letter = l, !.who = From[l], !.files = Folded(l),
                                  !.depth = Cardinality(outbox)]
    BY <1>2 DEF Take
  <2>2. hand'.letter = l
    BY <2>1 DEF NoHand
  <2>3. hand.letter \notin Letters
    BY <1>0, <2>1 DEF HandInv, Handling
  <2>. QED BY <2>1, <2>2, <2>3, AnswersKept
<1>3. ASSUME NEW l \in Letters, Take(l), UNCHANGED hand
      PROVE  EveryLetterIsAnsweredOrOwed'
  <2>1. stage = "ingest" /\ UNCHANGED owed /\ messages' = messages \cup {l}
    BY <1>3 DEF Take
  <2>2. hand.letter \notin Letters
    BY <1>0, <2>1 DEF HandInv, Handling
  <2>3. l \in messages
    <3>1. ASSUME l \notin messages PROVE hand' = [NoHand EXCEPT !.letter = l, !.who = From[l],
                 !.files = Folded(l), !.depth = Cardinality(outbox)]
      BY <1>3, <3>1 DEF Take
    <3>2. l \notin messages => hand'.letter = l
      BY <3>1 DEF NoHand
    <3>. QED BY <1>3, <2>2, <3>2
  <2>. QED BY <1>3, <2>1, <2>3, AnswersSame
<1>4. CASE Suppress \/ TickThrows
  <2>1. Intent[hand.letter] # "message" /\ UNCHANGED <<messages, owed>>
    BY <1>4 DEF Suppress, TickThrows, deskRows
  <2>. QED BY <2>1, AnswersKept DEF Exempt
<1>5. CASE Join
  <2>1. stage = "recorded" /\ UNCHANGED <<messages, owed>> /\ hand.who \in People
    BY <1>5, InHand DEF Join, Handling
  <2>2. hand.letter \in Letters => hand.who = From[hand.letter]
    BY <1>0, <2>1 DEF HandInv, Handling
  <2>3. \/ UNCHANGED hand
        \/ member[hand.who] \in Suppressed \/ Intent[hand.letter] # "message"
    BY <1>5 DEF Join, CanReceive
  <2>4. member[hand.who] \in Suppressed => member'[hand.who] \in Suppressed
    BY <2>1, StepKeepsMembers DEF MembersKept
  <2>. QED BY <2>1, <2>2, <2>3, <2>4, AnswersKept DEF Exempt
<1>6. ASSUME NEW d \in Documents, Read(d) PROVE EveryLetterIsAnsweredOrOwed'
  <2>1. /\ UNCHANGED <<messages, owed>>
        /\ \/ hand' = [hand EXCEPT !.files = hand.files \ {d}, !.mine = hand.mine \cup {d}]
           \/ hand' = [hand EXCEPT !.files = hand.files \ {d}]
    BY <1>6 DEF Read
  <2>2. hand'.letter = hand.letter
    BY <1>0, <2>1 DEF HandInv
  <2>. QED BY <2>1, <2>2, AnswersSame
<1>7. CASE ReadBody
  <2>1. UNCHANGED <<messages, owed>> /\ hand' = [hand EXCEPT !.mine = {Body[hand.letter]}]
    BY <1>7 DEF ReadBody
  <2>2. hand'.letter = hand.letter
    BY <1>0, <2>1 DEF HandInv
  <2>. QED BY <2>1, <2>2, AnswersSame
<1>8. ASSUME NEW d \in Documents, Extract(d) PROVE EveryLetterIsAnsweredOrOwed'
  <2>1. UNCHANGED <<messages, owed>>
    BY <1>8 DEF Extract
  <2>2. PICK f : hand' = [hand EXCEPT !.mine = hand.mine \ {d}, !.found = f]
    BY <1>8 DEF Extract
  <2>3. hand'.letter = hand.letter
    BY <1>0, <2>2 DEF HandInv
  <2>. QED BY <2>1, <2>3, AnswersSame
<1>9. CASE Qualify
  <2>1. UNCHANGED <<messages, owed>> /\ (UNCHANGED hand \/ hand' = [hand EXCEPT !.passed = TRUE])
    BY <1>9 DEF Qualify
  <2>2. hand'.letter = hand.letter
    BY <1>0, <2>1 DEF HandInv
  <2>. QED BY <2>1, <2>2, AnswersSame
<1>10. CASE Settle
  <2>1. UNCHANGED <<messages, owed>> /\ hand.letter \in answered'
    BY <1>10 DEF Settle, deskRows
  <2>. QED BY <2>1, AnswersKept DEF Settled
<1>11. CASE Speak
  <2>1. UNCHANGED <<messages, owed, member, cut>> /\ Queue(Reply(hand.letter))
    BY <1>11 DEF Speak, deskRows, lifeVars
  <2>2. Reply(hand.letter) \in outbox' \/ member'[From[hand.letter]] \in Suppressed
    BY <2>1, Recipients DEF Queue, CanReceive
  <2>. QED BY <2>1, <2>2, AnswersKept DEF Settled, Exempt
<1>12. CASE FailToSpeak
  <2>1. UNCHANGED messages /\ owed' = owed \cup {hand.letter}
    BY <1>12 DEF FailToSpeak, Owe, deskRows
  <2>. QED BY <2>1, AnswersKept DEF Settled
<1>13. ASSUME NEW p \in People, Sweep(p) PROVE EveryLetterIsAnsweredOrOwed'
  <2>1. stage = "sweeping" /\ UNCHANGED <<messages, owed>>
    BY <1>13 DEF Sweep, deskRows
  <2>2. hand.letter \notin Letters
    BY <1>0, <2>1 DEF HandInv, Handling
  <2>. QED BY <2>1, <2>2, AnswersSame
<1>14. CASE StartPaying
  <2>1. stage = "sweeping" /\ UNCHANGED <<messages, owed>>
    BY <1>14 DEF StartPaying, deskRows
  <2>2. hand.letter \notin Letters
    BY <1>0, <2>1 DEF HandInv, Handling
  <2>. QED BY <2>1, <2>2, AnswersSame
<1>15. ASSUME NEW l \in Letters, Forgive(l) PROVE EveryLetterIsAnsweredOrOwed'
  <2>1. /\ UNCHANGED <<messages, hand, member>> /\ owed' = owed \ {l}
        /\ member[From[l]] \in Suppressed
    BY <1>15 DEF Forgive, CanReceive, deskRows
  <2>. QED BY <2>1, AnswersKept
<1>16. ASSUME NEW l \in Letters, Pay(l) PROVE EveryLetterIsAnsweredOrOwed'
  <2>1. stage = "paying" /\ UNCHANGED <<messages, owed>>
    BY <1>16 DEF Pay, deskRows
  <2>2. hand.letter \notin Letters
    BY <1>0, <2>1 DEF HandInv, Handling
  <2>. QED BY <2>1, <2>2, AnswersSame
<1>17. CASE ClearDebt
  <2>1. /\ stage = "paid" /\ UNCHANGED <<messages, outbox>>
        /\ owed' = owed \ {hand.letter}
    BY <1>17 DEF ClearDebt, deskRows
  <2>2. Reply(hand.letter) \in outbox'
    BY <1>0, <2>1 DEF HandInv
  <2>. QED BY <2>1, <2>2, AnswersKept DEF Settled
<1>18. CASE Crash
  <2>1. UNCHANGED <<messages, owed>> /\ cut' = cut \cup ({hand.letter} \ {Nothing})
    BY <1>18 DEF Crash, deskRows
  <2>2. hand.letter \in Letters => hand.letter \in cut'
    BY <1>0, <2>1
  <2>. QED BY <2>1, <2>2, AnswersKept DEF Exempt
<1>. QED
  BY <1>1, <1>2, <1>3, <1>4, <1>5, <1>6, <1>7, <1>8, <1>9, <1>10, <1>11, <1>12, <1>13, <1>14,
     <1>15, <1>16, <1>17, <1>18
     DEF Next, Listen, Tick, Ingest, Debts, File, Attach, BeginTick, EndReading, EndExtraction,
         Acknowledge, RequestLinkedIn, EndIngest, Bridge, StartSweep, FailToPay, StillOwed,
         EndTick, Boot, deskRows
-------------------------------------------------------------------------------
(***************************************************************************)
(* The theorems.                                                           *)
(***************************************************************************)

LEMMA InitHolds == ASSUME Init PROVE IInv
<1>1. FiledInv
  <2>1. seen = {} /\ IsFiniteSet(seen) /\ Cardinality(seen) = 0
    BY FS_EmptySet DEF Init
  <2>2. Len(Post) \in Nat
    BY IntakeAssumption DEF IntakeAssumption
  <2>3. Cardinality(seen) \in 0 .. Len(Post)
    BY <2>1, <2>2
  <2>4. {Post[i] : i \in 1 .. Cardinality(seen)} = {}
    BY <2>1
  <2>5. listening \in [letter : Letters \cup {Nothing}, docs : SUBSET Documents]
    BY DEF Init, NotListening
  <2>6. carrier \in [Documents -> Letters \cup {Nothing}]
    BY DEF Init
  <2>. QED BY <2>1, <2>3, <2>4, <2>5, <2>6 DEF FiledInv
<1>2. RowsInv
  BY DEF Init, RowsInv, MemberStates
<1>3. TickInv
  BY IntakeAssumption DEF Init, TickInv, Stages, IntakeAssumption
<1>4. HandInv /\ DebtsInv
  BY DEF Init, HandInv, NoHand, Handling, DebtsInv
<1>5. EveryLetterIsAnsweredOrOwed
  BY DEF Init, EveryLetterIsAnsweredOrOwed, Handled
<1>. QED BY <1>1, <1>2, <1>3, <1>4, <1>5 DEF IInv

LEMMA StepKeeps == ASSUME IInv, [Next]_vars PROVE IInv'
<1>1. CASE Next
  <2>1. RowsInv'
    BY <1>1, StepKeepsMembers, StepKeepsFiled, StepKeepsEvidence, StepKeepsLetters,
       StepQueuesOne, OutboxGrows
       DEF RowsInv, MembersKept, LettersKept
  <2>. QED BY <1>1, <2>1, StepKeepsFiled, StepKeepsTick, StepKeepsHand, StepKeepsDebts,
              StepKeepsAnswers DEF IInv
<1>2. CASE UNCHANGED vars
  <2>1. FiledInv' /\ RowsInv' /\ TickInv'
    BY <1>2 DEF vars, graphVars, deskRows, tickVars, lifeVars, IInv, FiledInv, RowsInv, TickInv
  <2>2. HandInv' /\ DebtsInv'
    BY <1>2 DEF vars, graphVars, deskRows, tickVars, lifeVars, IInv, HandInv, DebtsInv
  <2>3. EveryLetterIsAnsweredOrOwed'
    BY <1>2 DEF vars, graphVars, deskRows, tickVars, lifeVars, IInv, EveryLetterIsAnsweredOrOwed,
       Handled, CanReceive
  <2>. QED BY <2>1, <2>2, <2>3 DEF IInv
<1>. QED BY <1>1, <1>2

LEMMA Invariance == Spec => []IInv
<1>1. Init => IInv
  BY InitHolds
<1>2. IInv /\ [Next]_vars => IInv'
  BY StepKeeps
<1>. QED BY <1>1, <1>2, PTL DEF Spec

\* However the voice fails, the model quotes nothing, the tick throws and the
\* process dies: a letter of a live person that the desk is through with queued
\* something, was replied to, or is owed a reply; and the rows have their shapes.
THEOREM LettersAreAnsweredOrOwed == Spec => []Consistent
<1>1. IInv => TypeOK
  <2> SUFFICES ASSUME IInv PROVE TypeOK
    OBVIOUS
  <2>1. listening.letter \in Letters \cup {Nothing} /\ listening.docs \subseteq Documents
    BY DEF IInv, FiledInv
  <2>. QED BY <2>1, Shelved DEF TypeOK, IInv, FiledInv, RowsInv, TickInv
<1>2. IInv => Consistent
  BY <1>1 DEF IInv, Consistent
<1>. QED BY <1>2, Invariance, PTL

\* NeverAskedAgain: while facts are on file nobody is sent the profile request or
\* the no-facts letter, by the pipeline, a retry of it, or the sweep.  Nothing is
\* claimed of the LinkedIn question.
THEOREM NoProfileIsAskedForAgain == Spec => NeverAskedAgain
<1> DEFINE Asks == \A p \in People : Known(p) =>
                     {Profile(p), NoFacts(p)} \cap (outbox' \ outbox) = {}
<1>1. ASSUME IInv, [Next]_vars PROVE Asks
  <2>1. CASE Next
    BY <1>1, <2>1, StepQueuesOne, OutboxGrows DEF Proper
  <2>2. CASE UNCHANGED vars
    BY <2>2 DEF vars
  <2>. QED BY <1>1, <2>1, <2>2
<1>2. IInv /\ [Next]_vars => [Asks]_vars
  BY <1>1
<1>. QED BY <1>2, Invariance, PTL DEF Spec, NeverAskedAgain

\* Whoever is suppressed stays so, and nothing more is queued for them.
LetBe ==
  \A p \in People : ~CanReceive(p) =>
    ~CanReceive(p)' /\ \A k \in outbox' \ outbox : Recipient(k) # p

\* INV-9 in intake: no letter, sweep, debt or crash writes to who stopped or
\* was erased, or makes them a member again.
THEOREM TheSuppressedAreLetBe == Spec => [][LetBe]_vars
<1>1. ASSUME IInv, [Next]_vars PROVE LetBe
  <2>1. CASE Next
    BY <1>1, <2>1, StepQueuesOne, OutboxGrows, StepKeepsMembers
       DEF LetBe, MembersKept, CanReceive
  <2>2. CASE UNCHANGED vars
    BY <2>2 DEF vars, deskRows, LetBe, CanReceive
  <2>. QED BY <1>1, <2>1, <2>2
<1>2. IInv /\ [Next]_vars => [LetBe]_vars
  BY <1>1
<1>. QED BY <1>2, Invariance, PTL DEF Spec
==================================================================================
