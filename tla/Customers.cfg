SPECIFICATION Spec
CONSTANTS
  Requests = {r1, r2, r3}
  Enrolled = {"ann", "bob"}
  Homes = {"home", "shop"}
  InitialCustomer <- MCInitialCustomer
  InitialAuth <- MCInitialAuth
  Names <- MCNames
  MaxFailedAttempts = 2
  Calls <- MCCalls
  Unset = Unset
  NULL = NULL
SYMMETRY Interchangeable
INVARIANTS TypeOK FailuresAreCounted SessionsAreVerified
PROPERTIES DirectorySpec LockNeedsOverlap
