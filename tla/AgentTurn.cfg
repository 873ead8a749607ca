SPECIFICATION Spec
CONSTANTS
  Manifest <- MCManifest
  Registry <- MCRegistry
  Proposals <- MCProposals
  MaxRounds = 2
  MaxInvocations = 3
INVARIANTS TypeOK ReportsAreTrue EveryCallHasAResult
  VerifiedMeansVerified
PROPERTIES TurnEnds
