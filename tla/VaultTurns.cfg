SPECIFICATION Spec
CONSTANTS
  Turns = {t1, t2}
  Sessions = {s1, s2}
  v1 = v1
  v2 = v2
  Values = {v1, v2}
  Tokens = {k1, k2, k3}
  Messages <- MCMessages
  NoStore = NoStore
  NoValue = NoValue
SYMMETRY Interchangeable
INVARIANTS TypeOK IndexMatchesRecords UndisturbedTokensResolve SessionsAreApart
