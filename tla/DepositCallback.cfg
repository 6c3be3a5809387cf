CONSTANTS
  c1 = c1  c2 = c2  c3 = c3  a1 = a1  a2 = a2
  own = own  other = other  eur = eur  t1 = t1  t2 = t2  t3 = t3
  Callback = {c1, c2, c3}
  Address = {a1, a2}
  Company = {own, other}
  Currency = {eur}
  Txid = {t1, t2, t3}
  Body <- MCBodies
  DefaultCompany = own
  MaxBalance = 4
  NoCompany = NoCompany  NoBody = NoBody  NoRow = NoRow
SPECIFICATION Spec
SYMMETRY Deliveries
PROPERTY ImplementsRegistry
INVARIANTS TypeOK OneDepositPerTransaction OneCompanyPerCallback CreditFollowsDeposit NoUnbackedCredit MemoryAgreesWithTables
