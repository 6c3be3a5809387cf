CONSTANTS
  c1 = c1  c2 = c2  r1 = r1  r2 = r2  ann = ann  eve = eve  a1 = a1  a2 = a2
  own = own  other = other  eur = eur  t1 = t1  t2 = t2
  Callback = {c1, c2}
  Request = {r1, r2}
  User = {ann, eve}
  Address = {a1, a2}
  Company = {own, other}
  Currency = {eur}
  Txid = {t1, t2}
  Body <- MCBodies
  CompanyOf <- MCCompanyOf
  CurrencyOf <- MCCurrencyOf
  DefaultCompany = own
  MaxBalance = 4
  NoCompany = NoCompany  NoBody = NoBody  NoRow = NoRow  NoUser = NoUser  NoAddress = NoAddress
SPECIFICATION FlowSpec
SYMMETRY Interchangeable
INVARIANTS RowAgreesWithProvider ToldThenBooked
PROPERTY FirstRowDecides
