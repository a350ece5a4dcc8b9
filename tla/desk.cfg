\* One pair, with a crash and two messages of any kind.
CONSTANTS
  ann = ann
  bob = bob
  Members = {ann, bob}
  Eligible <- OnePair
  Enrolled = {ann}
  Intents <- AllIntents
  VetoWindow = 1
  MaxLive = 1
  MaxMail = 2
  MaxAttempts = 2
  BaseDelay = 1
  MaxDelay = 1
  ClaimLimit = 50
  AckLoss = FALSE
  MaxRestarts = 1
  NoLetter = NoLetter
  NoMail = NoMail
SPECIFICATION FairSpec
INVARIANTS Consistent HonestRows IntroductionIsEarned
PROPERTIES KeepsPromise StopIsFinal KeepsDoubleBlind MatchesMoveOn StopsLand
