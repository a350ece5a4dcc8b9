\* The outbox as it ships, with one letter and one crash.
CONSTANTS
  Letters = {k1}
  NoLetter = NoLetter
  MaxAttempts = 2
  BaseDelay = 1
  MaxDelay = 2
  ClaimLimit = 50
  AckLoss = FALSE
  RecoveryCalled = FALSE
  HaltChoices = {FALSE}
  MaxRestarts = 1
SPECIFICATION FairSpec
PROPERTY LettersSettleAcrossRestarts
CHECK_DEADLOCK FALSE
