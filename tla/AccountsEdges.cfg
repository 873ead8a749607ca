SPECIFICATION Spec
CONSTANTS
  Requests = {r1, r2}
  Accounts = {1, 2, 4}
  Customers = {"ann", "bob"}
  Owner <- MCOwner
  CurrencyOf <- MCCurrencyOf
  InitialRow <- MCInitialRow
  Limit = 10
  Calls <- EdgeCalls
  NoOne = NoOne
INVARIANTS TypeOK
PROPERTIES WritesItsOwnColumn RoundingStaysInACent
