SPECIFICATION Spec
CONSTANTS
  Requests = {r1, r2, r3, r4}
  Customers = {"ann"}
  Codes = {1, 2}
  MaxAttempts = 2
  Calls <- AnyCalls
  NoOtp = NoOtp
SYMMETRY Interchangeable
INVARIANTS TypeOK PendingHasAttemptsLeft NewCodeReplacesOld AcceptedIsSpent LockoutIsEarned
