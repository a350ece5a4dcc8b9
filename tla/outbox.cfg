\* Everything that may befall an outbox: acknowledgements get lost, the operator
\* may have halted outbound mail at any boot, and somebody may or may not run
\* recoverStalledSend between drains.
CONSTANTS
  Letters = {k1, k2}
  NoLetter = NoLetter
  MaxAttempts = 3
  BaseDelay = 1
  MaxDelay = 3
  ClaimLimit = 50
  AckLoss = TRUE
  RecoveryCalled = TRUE
  HaltChoices = {TRUE, FALSE}
  MaxRestarts = 2
SPECIFICATION FairSpec
INVARIANTS CopiesWithinAttempts DrainHoldsFreshRows
PROPERTIES TerminalIsForever LettersSettle
\* A halted desk with every letter written has nothing left to do.
CHECK_DEADLOCK FALSE
