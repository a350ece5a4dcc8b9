\* Two matches that share a person, both live at once, the connect loop beside
\* a confirm click, and two replies.  bob's address occurs in cid's.
CONSTANTS
  ann = ann
  bob = bob
  cid = cid
  m1 = m1
  m2 = m2
  Matches = {m1, m2}
  Sides <- Shared
  Senders = {ann, bob, cid}
  Carries <- SharedAlike
  Hooks = {h1}
  Texts = {"yes", "no"}
  MaxLive = 2
  MaxReplies = 2
  MaxRestarts = 0
  MaxLost = 0
  Nothing = Nothing
SPECIFICATION Spec
INVARIANTS Consistent PartiesDecide
PROPERTIES RulingsStand KeepsDoubleBlind
