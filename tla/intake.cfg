\* One person, four letters, three documents, a crash.
CONSTANTS
  ann = ann
  cv = cv
  pdf = pdf
  note = note
  resume = resume
  followup = followup
  delete = delete
  stop = stop
  Nothing = Nothing
  People = {ann}
  Documents = {cv, pdf, note}
  Formatted = {pdf}
  Post <- Arrival
  From <- Senders
  Intent <- Intents
  Files <- Attached
  Body <- Bodies
  Holds <- Evidence
  Required <- Policy
  MaxRestarts = 1
SPECIFICATION FairSpec
INVARIANT Consistent
PROPERTIES NeverAskedAgain EveryDebtIsPaid TheSweepFindsThem
