SPECIFICATION PaymentsSpec
CONSTANTS
  Requests = {r1, r2}
  OtpRequests = {s1}
  Accounts = {1, 2}
  Customers = {"ann", "bob"}
  Owner <- MCOwner
  CurrencyOf <- MCCurrencyOf
  InitialRow <- MCInitialRow
  Limit = 10
  Calls <- RetryCalls
  NoOne = NoOne
  Codes = {1, 2}
  MaxAttempts = 2
  OtpCalls <- RetryOtpCalls
  NoOtp = NoOtp
INVARIANTS OneChangePerCode
