SPECIFICATION PaymentsSpec
CONSTANTS
  Requests = {r1, r2}
  OtpRequests = {s1, s2}
  Accounts = {1, 2}
  Customers = {"ann", "bob"}
  Owner <- MCOwner
  CurrencyOf <- MCCurrencyOf
  InitialRow <- MCInitialRow
  Limit = 10
  Calls <- PaymentCalls
  NoOne = NoOne
  Codes = {1, 2}
  MaxAttempts = 2
  OtpCalls <- MCOtpCalls
  NoOtp = NoOtp
INVARIANTS ChangesAreApproved
SYMMETRY Interchangeable
