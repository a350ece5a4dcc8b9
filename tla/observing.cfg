\* One letter, two jobs that resolve to it, a voice, and one slot between them.
CONSTANTS
  note = note
  person = person
  fact = fact
  invention = invention
  Readers = {r1, r2}
  Letters = {note}
  Reads <- OneLetter
  Voices = {v}
  Claims = {person, fact, invention}
  Says <- Lines
  Misshapen = {}
  Invented = {invention}
  About <- Subjects
  Group <- Groups
  Line <- Places
  MaxInflight = 1
  Attempts = 2
  Rounds = 1
  MaxAsks = 2
  MaxCalls = 1
  Nothing = Nothing
SPECIFICATION FairSpec
INVARIANTS Consistent NothingAcceptedIsLost
PROPERTY EveryAskSettles
CHECK_DEADLOCK FALSE
\* Once everybody is answered nobody is left to ask.
