\* Two letters that share a document, one that does not parse, read in batches
\* of two by two workers; the mailbox renumbered once, one stop, one mishap.
CONSTANTS
  a = a
  b = b
  bad = bad
  cv = cv
  page = page
  ann = ann
  bob = bob
  eve = eve
  Messages = {a, b, bad}
  Garbled = {bad}
  From <- Senders
  Subject <- Subjects
  FileNames <- Names
  Docs <- Attached
  Links <- NoLinks
  Historical = {}
  BatchSize = 2
  Workers = {w1, w2}
  Lanes = FALSE
  SeatLimit = 1
  MaxEpoch = 2
  MaxPrompt = 1
  MaxRestarts = 1
  MaxMishaps = 1
  Nothing = Nothing
SYMMETRY Crew
SPECIFICATION Spec
INVARIANTS Consistent NothingSkipped WholeLetter
