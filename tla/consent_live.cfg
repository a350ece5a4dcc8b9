\* One match through a crash and a lost acknowledgement.  The mail is bob's,
\* whose header contains ann's address too.
CONSTANTS
  ann = ann
  bob = bob
  cid = cid
  m1 = m1
  m2 = m2
  Matches = {m1}
  Sides <- OneMatch
  Senders = {bob}
  Carries <- OneAlike
  Hooks = {h1}
  Texts = {"yes", "words"}
  MaxLive = 1
  MaxReplies = 2
  MaxRestarts = 1
  MaxLost = 1
  Nothing = Nothing
SPECIFICATION FairSpec
INVARIANT ResendsAreMishaps
PROPERTIES NothingIsStranded AnswersAreRead
