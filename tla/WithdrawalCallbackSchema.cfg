CONSTANTS
  c1 = c1  c2 = c2  c3 = c3  q1 = q1  q2 = q2  p1 = p1  p2 = p2
  own = own  other = other  eur = eur  usd = usd  t1 = t1  t2 = t2  b1 = b1  b2 = b2  b3 = b3
  Callback = {c1}
  RequestId = {q1, q2}
  Payout = {p1, p2}
  Company = {own, other}
  Currency = {eur, usd}
  Txid = {t1, t2}
  Body <- MCBodies
  Row = {b1, b2, b3}
  InitialBalances <- MCBalances
  CompanyRequired = TRUE
  NoRequest = NoRequest  NoCompany = NoCompany  NoKey = NoKey  NoBody = NoBody  NoRow = NoRow
SPECIFICATION CalmSpec
CHECK_DEADLOCK FALSE
INVARIANT AnsweredIsLogged
