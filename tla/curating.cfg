\* Ada and Ben as MCCurating has them, an organisation, and two moves of the
\* operator around the scans, the bridge and a restart.
CONSTANTS
  Subjects = {1, 2, 3}
  Mailed = {1, 2}
  Readings <- Said
  Artifacts = {"resume", "intro", "cv"}
  MinClaims = 3
  MaxLive = 1
  Curated = {1, 3}
  Levers = {"received", "declined"}
  MaxMoves = 2
  MaxBridges = 1
  MaxRestarts = 1
SPECIFICATION FairSpec
INVARIANTS Consistent QueueIsSubstantial
PROPERTIES RulingsAreFinal NoIsNo EveryClaimIsScanned StrangersAreQualified
CHECK_DEADLOCK FALSE
\* A process that cannot boot stays down, and everything else is bounded.
