-------------------------------- MODULE Consent --------------------------------
(***************************************************************************)
(* The graph arm's consent round, as the process runs it by default: the   *)
(* match rows of src/store/graph.js, the consent drain of                  *)
(* src/graph/consent.js, the introduction drain of                         *)
(* src/graph/introductions.js, and the operator of src/graph/manager.js.   *)
(*                                                                         *)
(* One thread, but two kinds of entrant: the connect loop, and the hook    *)
(* every confirm click runs.  The consent drain is latched, so whoever     *)
(* comes second joins the run in progress; the introduction drain is not.  *)
(* Rows are read and written synchronously, so entrants, requests and mail *)
(* interleave at the awaits only: of a letter, and of a verdict.  A crash  *)
(* may come anywhere.                                                      *)
(*                                                                         *)
(* Yente's own wait for a failed introduction is one unit of a coarse      *)
(* clock, however long the backoff has grown.                              *)
(***************************************************************************)
EXTENDS Integers, FiniteSets, Sequences

CONSTANTS
  Matches,      \* proposals the scorer or the operator may make
  Sides,        \* Sides[m] = <<seeker, offerer>>, two people with an address
  Senders,      \* From headers that messages come under
  Carries,      \* Carries[s]: the parties whose address occurs in that header
  Hooks,        \* confirm requests that may be in progress at once
  Texts,        \* what replies say: "yes", "no" (control words) or "words"
  MaxLive,      \* MAX_LIVE_INTRODUCTIONS
  MaxReplies,   \* bound: replies in all
  MaxRestarts,  \* bound: how often the process may die
  MaxLost,      \* bound: sends that throw though the server took the letter
  Nothing       \* no visit, no reply, no match in hand

ASSUME ConsentAssumption ==
  /\ DOMAIN Sides = Matches
  /\ \A m \in Matches : Len(Sides[m]) = 2 /\ Sides[m][1] # Sides[m][2]
  /\ Texts \subseteq {"yes", "no", "words"}
  /\ MaxLive \in Nat
  /\ MaxReplies \in Nat
  /\ MaxRestarts \in Nat
  /\ MaxLost \in Nat
  /\ Nothing \notin Matches

Parties(m) == {Sides[m][1], Sides[m][2]}
People == UNION {Parties(m) : m \in Matches}

\* A header may carry several addresses: joann@x.com has ann@x.com in it.
ASSUME SenderAssumption == Carries \in [Senders -> SUBSET People]

Entrants == Hooks \cup {"tick"}

VARIABLES
  match,        \* the MATCHES rows: durable
  replies,      \* the evidence ledger's messages from parties: durable
  drain,        \* the consent drain: "off", "visit", "sending", "accepted",
                \* "reading"
  visits,       \* <<match, side>> this drain has not come to
  at,           \* the <<match, side>> whose letter or reply is awaited
  unread,       \* replies of that side, still to be read
  reading,      \* the reply whose verdict is awaited
  fresh,        \* what it has noted for the seeker of the match it is at: the
                \* consentSeen it read before lacks it
  entrant,      \* where each entrant is
  told,         \* told[m][p]: copies of p's preview the server has taken
  introduced,   \* copies of the introduction the server has taken
  up,           \* is the process running?
  lost,         \* acknowledgements lost so far (bounded)
  restarts      \* crashes so far (bounded)

drainVars == <<drain, visits, at, unread, reading, fresh>>
vars == <<match, replies, drainVars, entrant, told, introduced, up, lost, restarts>>

LiveStates == {"AWAITING_PARTIES", "CONFIRMED", "INTRODUCTION_SENDING"}
MatchStates == LiveStates \cup {"ABSENT", "PROPOSED", "INTRODUCED", "REJECTED"}

Idle == [pc |-> "idle", ready |-> {}, holds |-> Nothing]
Pcs == {"idle", "consent", "consented", "claiming", "sending", "accepted"}
-------------------------------------------------------------------------------
(* The rows.                                                               *)

NewRow(m) ==
  [state |-> "ABSENT", due |-> TRUE, seen |-> {},
   preview  |-> [p \in Parties(m) |-> "none"],
   decision |-> [p \in Parties(m) |-> "none"],
   basis    |-> [p \in Parties(m) |-> Nothing]]

\* Slip: the first approval confirms.
OneYesIsEnough(row, p, d, r) ==
  LET next == [row EXCEPT !.decision[p] = d, !.basis[p] = r]
  IN IF d = "decline" THEN [next EXCEPT !.state = "REJECTED"]
                      ELSE [next EXCEPT !.state = "CONFIRMED", !.due = TRUE]

\* Slip: a refusal is noted and the round goes on.
DeclineIsNoted(row, p, d, r) ==
  LET next == [row EXCEPT !.decision[p] = d, !.basis[p] = r]
  IN IF \A q \in DOMAIN row.decision : next.decision[q] # "none"
       THEN [next EXCEPT !.state = "CONFIRMED", !.due = TRUE] ELSE next

\* recordPartyDecision: one no rejects, the second yes confirms, due at once.
RecordPartyDecision(row, p, d, r) ==
  LET next == [row EXCEPT !.decision[p] = d, !.basis[p] = r]
  IN CASE row.state # "AWAITING_PARTIES" -> row
       [] row.state = "AWAITING_PARTIES" /\ d = "decline" ->
            [next EXCEPT !.state = "REJECTED"]
       [] row.state = "AWAITING_PARTIES" /\ d = "approve" ->
            IF \A q \in DOMAIN row.decision : next.decision[q] = "approve"
              THEN [next EXCEPT !.state = "CONFIRMED", !.due = TRUE] ELSE next

\* Slip: a confirmed match may be taken while another entrant is sending it.
ClaimableWhileSending(row) ==
  row.state \in {"CONFIRMED", "INTRODUCTION_SENDING"} /\ row.due

\* confirmedReady and claimIntroduction ask the same of a row.
Claimable(row) == row.state = "CONFIRMED" /\ row.due

\* Slip: the letter that left decides, whatever the operator said meanwhile.
IntroducedRegardless(row) == [row EXCEPT !.state = "INTRODUCED"]

\* markIntroduced and failIntroduction leave a row alone that is not SENDING.
MarkIntroduced(row) ==
  IF row.state = "INTRODUCTION_SENDING" THEN [row EXCEPT !.state = "INTRODUCED"] ELSE row
FailIntroduction(row) ==
  IF row.state = "INTRODUCTION_SENDING"
    THEN [row EXCEPT !.state = "CONFIRMED", !.due = FALSE] ELSE row

\* Slip: boot looks only at the introductions.
NoPreviewReleased(row) == row

\* Slip: boot releases every preview slot of an open round, sent ones too.
EveryPreviewReleased(row) ==
  IF row.state = "AWAITING_PARTIES"
    THEN [row EXCEPT !.preview = [p \in DOMAIN @ |-> "none"]] ELSE row

\* releaseStrandedPartyPreviews: a claim with no send behind it is dropped.
Released(row) ==
  IF row.state = "AWAITING_PARTIES"
    THEN [row EXCEPT !.preview =
            [p \in DOMAIN @ |-> IF @[p] = "claimed" THEN "none" ELSE @[p]]]
    ELSE row

\* requeueStrandedIntroductions: SENDING is confirmed again, and every
\* confirmed match is due now.
Requeued(row) ==
  IF row.state \in {"INTRODUCTION_SENDING", "CONFIRMED"}
    THEN [row EXCEPT !.state = "CONFIRMED", !.due = TRUE] ELSE row
-------------------------------------------------------------------------------
Init ==
  /\ match = [m \in Matches |-> NewRow(m)]
  /\ replies = <<>>
  /\ drain = "off" /\ visits = {} /\ at = Nothing
  /\ unread = {} /\ reading = Nothing /\ fresh = {}
  /\ entrant = [e \in Entrants |-> Idle]
  /\ told = [m \in Matches |-> [p \in Parties(m) |-> 0]]
  /\ introduced = [m \in Matches |-> 0]
  /\ up = TRUE
  /\ lost = 0
  /\ restarts = 0

\* Nobody is between two awaits.
Free == drain # "visit" /\ \A e \in Entrants : entrant[e].pc # "claiming"

\* The event loop takes a new event once every settled promise is dealt with.
NextEvent == up /\ Free /\ \A e \in Entrants : entrant[e].pc # "consented"

\* propose: a match beyond PROPOSED is never re-opened, and proposing one that
\* is PROPOSED refreshes its score, which no step here looks at.
Propose(m) ==
  /\ NextEvent
  /\ match[m].state = "ABSENT"
  /\ match' = [match EXCEPT ![m].state = "PROPOSED"]
  /\ UNCHANGED <<replies, drainVars, entrant, told, introduced, up, lost, restarts>>

\* drainPartyConsent: the first entrant starts a drain over the rows that await
\* their parties, everybody after it shares the run.
EnterConsent(e, rows) ==
  /\ entrant' = [entrant EXCEPT ![e].pc = "consent"]
  /\ IF drain = "off"
       THEN /\ drain' = "visit"
            /\ visits' = {m \in Matches : rows[m].state = "AWAITING_PARTIES"} \X {1, 2}
       ELSE UNCHANGED <<drain, visits>>
  /\ UNCHANGED <<at, unread, reading, fresh>>

Live(p) == {m \in Matches : p \in Parties(m) /\ match[m].state \in LiveStates}

HasRoom(m) == \A p \in Parties(m) : Cardinality(Live(p)) < MaxLive

\* confirmMatch -> awaitParties, and the hook of the request that asked for it.
Confirm(e, m) ==
  /\ NextEvent
  /\ e \in Hooks /\ entrant[e].pc = "idle"
  /\ match[m].state = "PROPOSED"
  /\ HasRoom(m)
  /\ match' = [match EXCEPT ![m] = [NewRow(m) EXCEPT !.state = "AWAITING_PARTIES"]]
  /\ EnterConsent(e, match')
  /\ UNCHANGED <<replies, told, introduced, up, lost, restarts>>

\* rejectMatch -> decide, which asks nothing of the row but that it exists.
Reject(m) ==
  /\ NextEvent
  /\ match[m].state \notin {"ABSENT", "REJECTED"}
  /\ match' = [match EXCEPT ![m].state = "REJECTED"]
  /\ UNCHANGED <<replies, drainVars, entrant, told, introduced, up, lost, restarts>>

\* One pass of the connect loop, after its scan.
ConnectPass ==
  /\ NextEvent
  /\ entrant["tick"].pc = "idle"
  /\ EnterConsent("tick", match)
  /\ UNCHANGED <<match, replies, told, introduced, up, lost, restarts>>

\* The listen loop files a message.  It can answer the previews that were marked
\* sent, before it was received, to an address its From header carries.
Hear(s, t) ==
  /\ NextEvent
  /\ Len(replies) < MaxReplies
  /\ replies' = Append(replies, [from |-> s, text |-> t,
       after |-> {v \in Matches \X Carries[s] :
                    v[2] \in Parties(v[1]) /\ match[v[1]].preview[v[2]] = "sent"}])
  /\ UNCHANGED <<match, drainVars, entrant, told, introduced, up, lost, restarts>>
-------------------------------------------------------------------------------
(* The consent drain.  It works from the rows as they were when it began.  *)
(* Nobody else writes their previews, decisions or consentSeen, so what it *)
(* holds goes stale in two ways: the state, which it does not look at      *)
(* again, and consentSeen, which lacks what it has itself noted for the    *)
(* other side of the match.                                                *)

\* Seeker before offerer, and one match after the other.
NextVisits ==
  LET half == {v \in visits : v[2] = 2 /\ <<v[1], 1>> \notin visits}
  IN IF half # {} THEN half ELSE {v \in visits : v[2] = 1}

Visited(v) == visits' = visits \ {v}
Person(v) == Sides[v[1]][v[2]]

Unsent(v) == match[v[1]].preview[Person(v)] = "none"

\* Whether the sender is this side is asked of the raw header: does it contain
\* the side's address?
IsFrom(r, v) == Person(v) \in Carries[replies[r].from]
IsReply(r, v) == IsFrom(r, v) /\ <<v[1], Person(v)>> \in replies[r].after

\* consentSeen of the row as this drain read it.
Noted(v) == match[v[1]].seen \ fresh

\* Slip: only a message that came before the preview is an answer to it.
RepliesBefore(v) ==
  {r \in DOMAIN replies : IsFrom(r, v) /\ ~IsReply(r, v) /\ r \notin Noted(v)}

\* What has come under the side's address since its preview and was not noted
\* when the drain began, as long as the side has not answered.
Unread(v) ==
  {r \in DOMAIN replies :
     /\ IsReply(r, v)
     /\ r \notin Noted(v)
     /\ match[v[1]].decision[Person(v)] = "none"}

AtVisit(v) == drain = "visit" /\ unread = {} /\ v \in NextVisits

\* The slot is claimed before the server is spoken to.
ClaimPreview(v) ==
  /\ AtVisit(v)
  /\ Unsent(v)
  /\ match' = [match EXCEPT ![v[1]].preview[Person(v)] = "claimed"]
  /\ drain' = "sending"
  /\ at' = v
  /\ fresh' = {}
  /\ Visited(v)
  /\ UNCHANGED <<replies, unread, reading, entrant, told, introduced, up, lost, restarts>>

FindReplies(v) ==
  /\ AtVisit(v)
  /\ ~Unsent(v)
  /\ unread' = Unread(v)
  /\ fresh' = {}
  /\ at' = v
  /\ Visited(v)
  /\ UNCHANGED <<match, replies, drain, reading, entrant, told, introduced, up, lost, restarts>>

PreviewTaken ==
  /\ drain = "sending"
  /\ told' = [told EXCEPT ![at[1]][Person(at)] = @ + 1]
  /\ drain' = "accepted"
  /\ UNCHANGED <<match, replies, visits, at, unread, reading, fresh, entrant,
                 introduced, up, lost, restarts>>

MarkPreviewSent ==
  /\ Free /\ drain = "accepted"
  /\ match' = [match EXCEPT ![at[1]].preview[Person(at)] = "sent"]
  /\ drain' = "visit"
  /\ at' = Nothing
  /\ UNCHANGED <<replies, visits, unread, reading, fresh, entrant, told, introduced,
                 up, lost, restarts>>

\* A send throws: the server has no copy, or it has one and could not say so.
Throws(copies) ==
  /\ lost + copies <= MaxLost
  /\ lost' = lost + copies

\* releasePartyPreview: the next drain tries again.
PreviewFails(copies) ==
  /\ Free /\ drain = "sending"
  /\ Throws(copies)
  /\ told' = [told EXCEPT ![at[1]][Person(at)] = @ + copies]
  /\ match' = [match EXCEPT ![at[1]].preview[Person(at)] = "none"]
  /\ drain' = "visit"
  /\ at' = Nothing
  /\ UNCHANGED <<replies, visits, unread, reading, fresh, entrant, introduced, up, restarts>>

\* noteConsentEvidence comes before the verdict is known.
ReadReply(r) ==
  /\ drain = "visit"
  /\ r \in unread
  /\ match' = [match EXCEPT ![at[1]].seen = @ \cup {r}]
  /\ unread' = unread \ {r}
  /\ fresh' = (IF at[2] = 1 THEN fresh \cup {r} ELSE fresh)
  /\ reading' = r
  /\ drain' = "reading"
  /\ UNCHANGED <<replies, visits, at, entrant, told, introduced, up, lost, restarts>>

\* interpretConsent: control words by rule; the model may read anything, or
\* nothing, into free text.
Verdicts(t) ==
  CASE t = "yes" -> {"approve"}
    [] t = "no"  -> {"decline"}
    [] OTHER     -> {"approve", "decline", "unclear"}

\* The first legible answer of a side is its answer; what it wrote besides
\* stays unread.
TakeVerdict(d) ==
  /\ Free /\ drain = "reading"
  /\ d \in Verdicts(replies[reading].text)
  /\ IF d = "unclear"
       THEN UNCHANGED <<match, unread>>
       ELSE /\ match' = [match EXCEPT ![at[1]] =
                           RecordPartyDecision(@, Person(at), d, reading)]
            /\ unread' = {}
  /\ reading' = Nothing
  /\ drain' = "visit"
  /\ UNCHANGED <<replies, visits, at, fresh, entrant, told, introduced, up, lost, restarts>>

\* The latch opens and everybody who shared the run goes on.
EndConsent ==
  /\ drain = "visit" /\ unread = {} /\ visits = {}
  /\ drain' = "off"
  /\ fresh' = {}
  /\ at' = Nothing
  /\ entrant' = [e \in Entrants |->
       IF entrant[e].pc = "consent" THEN [entrant[e] EXCEPT !.pc = "consented"]
                                    ELSE entrant[e]]
  /\ UNCHANGED <<match, replies, visits, unread, reading, told, introduced, up, lost, restarts>>
-------------------------------------------------------------------------------
(* drainConfirmedIntroductions, one run per entrant.                       *)

ReadReady(e) ==
  /\ Free /\ entrant[e].pc = "consented"
  /\ entrant' = [entrant EXCEPT ![e] =
       [pc |-> "claiming", ready |-> {m \in Matches : Claimable(match[m])},
        holds |-> Nothing]]
  /\ UNCHANGED <<match, replies, drainVars, told, introduced, up, lost, restarts>>

\* The row decides, not the list: what another entrant took is passed over.
ClaimIntroduction(e, m) ==
  /\ entrant[e].pc = "claiming"
  /\ m \in entrant[e].ready
  /\ IF Claimable(match[m])
       THEN /\ match' = [match EXCEPT ![m].state = "INTRODUCTION_SENDING"]
            /\ entrant' = [entrant EXCEPT ![e] =
                 [pc |-> "sending", ready |-> @.ready \ {m}, holds |-> m]]
       ELSE /\ entrant' = [entrant EXCEPT ![e].ready = @ \ {m}]
            /\ UNCHANGED match
  /\ UNCHANGED <<replies, drainVars, told, introduced, up, lost, restarts>>

IntroductionTaken(e) ==
  /\ entrant[e].pc = "sending"
  /\ introduced' = [introduced EXCEPT ![entrant[e].holds] = @ + 1]
  /\ entrant' = [entrant EXCEPT ![e].pc = "accepted"]
  /\ UNCHANGED <<match, replies, drainVars, told, up, lost, restarts>>

NextOf(e) ==
  entrant' = [entrant EXCEPT ![e] = [@ EXCEPT !.pc = "claiming", !.holds = Nothing]]

RecordIntroduced(e) ==
  /\ Free /\ entrant[e].pc = "accepted"
  /\ match' = [match EXCEPT ![entrant[e].holds] = MarkIntroduced(@)]
  /\ NextOf(e)
  /\ UNCHANGED <<replies, drainVars, told, introduced, up, lost, restarts>>

\* Writing the letter or sending it fails.
IntroductionFails(e, copies) ==
  /\ Free /\ entrant[e].pc = "sending"
  /\ Throws(copies)
  /\ introduced' = [introduced EXCEPT ![entrant[e].holds] = @ + copies]
  /\ match' = [match EXCEPT ![entrant[e].holds] = FailIntroduction(@)]
  /\ NextOf(e)
  /\ UNCHANGED <<replies, drainVars, told, up, restarts>>

Leave(e) ==
  /\ entrant[e].pc = "claiming" /\ entrant[e].ready = {}
  /\ entrant' = [entrant EXCEPT ![e] = Idle]
  /\ UNCHANGED <<match, replies, drainVars, told, introduced, up, lost, restarts>>
-------------------------------------------------------------------------------
ClockTick ==
  /\ \E m \in Matches : ~match[m].due
  /\ match' = [m \in Matches |-> [match[m] EXCEPT !.due = TRUE]]
  /\ UNCHANGED <<replies, drainVars, entrant, told, introduced, up, lost, restarts>>

Crash ==
  /\ up
  /\ restarts < MaxRestarts
  /\ up' = FALSE
  /\ restarts' = restarts + 1
  /\ drain' = "off" /\ visits' = {} /\ at' = Nothing
  /\ unread' = {} /\ reading' = Nothing /\ fresh' = {}
  /\ entrant' = [e \in Entrants |-> Idle]
  /\ UNCHANGED <<match, replies, told, introduced, lost>>

\* Boot repairs the rows before any loop runs.
Boot ==
  /\ ~up
  /\ up' = TRUE
  /\ match' = [m \in Matches |-> Released(Requeued(match[m]))]
  /\ UNCHANGED <<replies, drainVars, entrant, told, introduced, lost, restarts>>

Drain ==
  \/ \E v \in visits : ClaimPreview(v) \/ FindReplies(v)
  \/ PreviewTaken \/ MarkPreviewSent
  \/ \E c \in {0, 1} : PreviewFails(c)
  \/ \E r \in unread : ReadReply(r)
  \/ \E d \in {"approve", "decline", "unclear"} : TakeVerdict(d)
  \/ EndConsent

Deliver(e) ==
  \/ ReadReady(e)
  \/ \E m \in Matches : ClaimIntroduction(e, m)
  \/ IntroductionTaken(e) \/ RecordIntroduced(e)
  \/ \E c \in {0, 1} : IntroductionFails(e, c)
  \/ Leave(e)

Operator ==
  \/ \E m \in Matches : Propose(m) \/ Reject(m)
  \/ \E e \in Hooks, m \in Matches : Confirm(e, m)

Next ==
  \/ Operator
  \/ ConnectPass
  \/ \E s \in Senders, t \in Texts : Hear(s, t)
  \/ Drain
  \/ \E e \in Entrants : Deliver(e)
  \/ ClockTick \/ Crash \/ Boot

Spec == Init /\ [][Next]_vars

\* The connect loop comes round forever, awaited sends and verdicts settle, time
\* passes, and a dead process is started again.  The event loop is a queue: what
\* waits for the thread gets it, hence the strong fairness.  Nobody has to
\* confirm, reject or reply, and no server has to accept.
Fairness ==
  /\ SF_vars(ConnectPass)
  /\ SF_vars(Drain)
  /\ \A e \in Entrants : SF_vars(Deliver(e))
  /\ WF_vars(ClockTick)
  /\ WF_vars(Boot)

FairSpec == Spec /\ Fairness
-------------------------------------------------------------------------------
Ids == 1..MaxReplies
Visits == Matches \X {1, 2}

Rows(m) ==
  [state: MatchStates, due: BOOLEAN, seen: SUBSET Ids,
   preview: [Parties(m) -> {"none", "claimed", "sent"}],
   decision: [Parties(m) -> {"none", "approve", "decline"}],
   basis: [Parties(m) -> Ids \cup {Nothing}]]

TypeOK ==
  /\ DOMAIN match = Matches /\ \A m \in Matches : match[m] \in Rows(m)
  /\ replies \in Seq([from: Senders, text: Texts, after: SUBSET (Matches \X People)])
  /\ Len(replies) <= MaxReplies
  /\ drain \in {"off", "visit", "sending", "accepted", "reading"}
  /\ visits \subseteq Visits
  /\ at \in Visits \cup {Nothing}
  /\ unread \subseteq Ids
  /\ reading \in Ids \cup {Nothing}
  /\ fresh \subseteq Ids
  /\ entrant \in [Entrants -> [pc: Pcs, ready: SUBSET Matches,
                               holds: Matches \cup {Nothing}]]
  /\ DOMAIN told = Matches /\ \A m \in Matches : told[m] \in [Parties(m) -> Nat]
  /\ introduced \in [Matches -> Nat]
  /\ up \in BOOLEAN
  /\ lost \in 0..MaxLost
  /\ restarts \in 0..MaxRestarts

\* The ground of p's approval of m: a message whose From header contains p's
\* address, received after p's preview, that does not say no.
SaidYes(m, p) ==
  LET r == replies[match[m].basis[p]]
  IN p \in Carries[r.from] /\ <<m, p>> \in r.after /\ r.text # "no"

\* "The introduction goes out only when BOTH reply yes", as far as the code can
\* tell who replies: a match that is being introduced, or a copy of whose
\* introduction has left, has both previews on record as sent and a ground for
\* each side's approval.  Interleaved drains, crashes and the operator change
\* nothing of it.  One message may be the ground of both sides, when its header
\* contains both addresses.
BothSaidYes ==
  \A m \in Matches :
    (match[m].state \in {"CONFIRMED", "INTRODUCTION_SENDING", "INTRODUCED"}
       \/ introduced[m] > 0) =>
      \A p \in Parties(m) :
        /\ told[m][p] > 0 /\ match[m].preview[p] = "sent"
        /\ match[m].decision[p] = "approve"
        /\ SaidYes(m, p)

\* "One no is a no": a recorded decline leaves the match rejected, with no
\* introduction gone or on its way.
OneNoIsANo ==
  \A m \in Matches : (\E p \in Parties(m) : match[m].decision[p] = "decline") =>
    /\ match[m].state = "REJECTED"
    /\ introduced[m] = 0
    /\ \A e \in Entrants : entrant[e].holds # m

\* claimIntroduction keeps entrants apart: no two hold the same letter, and the
\* row of a letter that is held says so, unless the operator has rejected it.
OneHandPerLetter ==
  \A e \in Entrants : entrant[e].holds # Nothing =>
    /\ match[entrant[e].holds].state \in {"INTRODUCTION_SENDING", "REJECTED"}
    /\ \A f \in Entrants \ {e} : entrant[f].holds # entrant[e].holds

\* The rows have their shapes, and those of a match fit who is at work on it.
Consistent == TypeOK /\ OneHandPerLetter

\* What the parties said decides, a yes of both or a no of either.
PartiesDecide == BothSaidYes /\ OneNoIsANo

\* Copies of a letter beyond the first.
Extra(n) == IF n > 0 THEN n - 1 ELSE 0

\* "A crash between sends costs one resend of one side at most": the previews
\* and the introduction of a match are together sent at most one time too often
\* per crash and per lost acknowledgement, however the entrants interleave.
ResendsAreMishaps ==
  \A m \in Matches :
    Extra(told[m][Sides[m][1]]) + Extra(told[m][Sides[m][2]]) + Extra(introduced[m])
      <= restarts + lost

\* A refusal is durable: no drain that was under way, no retry and no boot moves
\* a rejected match again, and none of its introductions is claimed.  An
\* introduced match is left to the operator alone.
RulingsStand ==
  [][\A m \in Matches :
       /\ match[m].state = "REJECTED" => match'[m].state = "REJECTED"
       /\ match[m].state = "INTRODUCED" => match'[m].state \in {"INTRODUCED", "REJECTED"}
    ]_match

\* A claim is never left behind: a preview that is claimed in an open round is
\* sent or released, over any number of restarts.
ClaimsResolve ==
  \A m \in Matches : \A p \in Parties(m) :
    match[m].preview[p] = "claimed" ~>
      (match[m].preview[p] # "claimed" \/ match[m].state # "AWAITING_PARTIES")

\* No introduction stays in INTRODUCTION_SENDING, over any number of restarts.
SendingResolves ==
  \A m \in Matches :
    match[m].state = "INTRODUCTION_SENDING" ~> match[m].state # "INTRODUCTION_SENDING"

\* A confirmed match is tried, whatever failed before.
ConfirmedIsTried ==
  \A m \in Matches : match[m].state = "CONFIRMED" ~> match[m].state # "CONFIRMED"

\* Neither a preview nor an introduction is left where no entrant moves it.
NothingIsStranded == ClaimsResolve /\ SendingResolves /\ ConfirmedIsTried

\* A control word answers p's preview and p's answer is not on record.  It no
\* longer waits once it is noted as the other party's, whose address its header
\* contains too: consentSeen is kept per match.
AnswerWaits(m, p) ==
  /\ match[m].state = "AWAITING_PARTIES" /\ match[m].decision[p] = "none"
  /\ \E r \in DOMAIN replies :
       /\ <<m, p>> \in replies[r].after /\ replies[r].text # "words"
       /\ r \in match[m].seen => \A q \in Parties(m) \ {p} : <<m, q>> \notin replies[r].after

\* A control word that answers a preview is read, unless the process dies.
AnswersAreRead ==
  \A m \in Matches : \A p \in Parties(m) :
    AnswerWaits(m, p) ~> (~AnswerWaits(m, p) \/ restarts > 0)

\* The parties' side of the round, in the words of DoubleBlind.
Promise == INSTANCE DoubleBlind WITH
  told <- [m \in Matches |-> {p \in Parties(m) : told[m][p] > 0}],
  objected <- [m \in Matches |-> \E p \in Parties(m) : match[m].decision[p] = "decline"],
  met <- [m \in Matches |-> introduced[m] > 0],
  Sides <- [m \in Matches |-> Parties(m)]

\* The graph arm keeps the promise the desk keeps.
KeepsDoubleBlind == Promise!Spec
=============================================================================
