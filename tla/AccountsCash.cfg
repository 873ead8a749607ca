SPECIFICATION Spec
CONSTANTS
  Requests = {r1, r2}
  Accounts = {1, 2}
  Customers = {"ann", "bob"}
  Owner <- MCOwner
  CurrencyOf <- MCCurrencyOf
  InitialRow <- MCInitialRow
  Limit = 10
  Calls <- CashCalls
  NoOne = NoOne
INVARIANTS NeverOverdrawn
