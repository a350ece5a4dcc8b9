\* A letter with a page and an old document, and one lane; the process stopped
\* twice, on two prompt versions, one mishap.
CONSTANTS
  a = a
  b = b
  bad = bad
  cv = cv
  page = page
  ann = ann
  bob = bob
  eve = eve
  Messages = {a}
  Garbled = {}
  From <- Senders
  Subject <- Subjects
  FileNames <- Names
  Docs <- Attached
  Links <- Linked
  Historical = {cv}
  BatchSize = 2
  Workers = {w1}
  Lanes = TRUE
  SeatLimit = 1
  MaxEpoch = 1
  MaxPrompt = 2
  MaxRestarts = 2
  MaxMishaps = 1
  Nothing = Nothing
SPECIFICATION FairSpec
INVARIANTS ReadUnderThisPrompt ReadOncePerPrompt AttemptsAreEarned
PROPERTY EveryLetterIsRead
