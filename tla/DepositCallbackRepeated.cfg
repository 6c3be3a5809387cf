CONSTANTS
  c1 = c1  c2 = c2  c3 = c3  a1 = a1  a2 = a2
  own = own  other = other  eur = eur  t1 = t1  t2 = t2  t3 = t3
  Callback = {c1, c2}
  Address = {a1}
  Company = {own, other}
  Currency = {eur}
  Txid = {t1, t2, t3}
  Body <- MCRepeated
  DefaultCompany = own
  MaxBalance = 9
  NoCompany = NoCompany  NoBody = NoBody  NoRow = NoRow
SPECIFICATION Spec
INVARIANT CreditedByDeposits
