\* One preview waits for its retry while the other's reader answers PASS.
CONSTANTS
  ann = ann
  bob = bob
  Members = {ann, bob}
  Eligible <- OnePair
  Enrolled = {ann}
  Intents = {"pass"}
  VetoWindow = 1
  MaxLive = 1
  MaxMail = 1
  MaxAttempts = 2
  BaseDelay = 1
  MaxDelay = 1
  ClaimLimit = 50
  AckLoss = FALSE
  MaxRestarts = 0
  NoLetter = NoLetter
  NoMail = NoMail
SPECIFICATION FairSpec
PROPERTY PassIsHeard
