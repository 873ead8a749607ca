SPECIFICATION Spec
CONSTANTS
  Requests = {r1, r2, r3}
  Accounts = {1, 2, 3, 4}
  Customers = {"ann", "bob"}
  Owner <- MCOwner
  CurrencyOf <- MCCurrencyOf
  InitialRow <- MCInitialRow
  Limit = 10
  Calls <- TransferCalls
  NoOne = NoOne
INVARIANTS DecidesUnderBothLocks Reconciled OrderedLocking
PROPERTIES BankSpec Answered
