CONSTANTS
  d1 = d1  d2 = d2  w1 = w1  a1 = a1  a2 = a2  own = own  other = other
  eur = eur  t1 = t1  t2 = t2  q1 = q1  p1 = p1
  Callback = {d1, d2}
  WithdrawalDelivery = {w1}
  Body <- MCDeposits
  WithdrawalBody <- MCWithdrawals
  Address = {a1, a2}
  Company = {own, other}
  Currency = {eur}
  Txid = {t1, t2}
  RequestId = {q1}
  Payout = {p1}
  DefaultCompany = own
  MaxBalance = 6
  CompanyRequired = FALSE
  NoCompany = NoCompany  NoBody = NoBody  NoRow = NoRow  NoRequest = NoRequest  NoKey = NoKey
SPECIFICATION GatewaySpec
INVARIANTS BalanceWithinCredits CreditsStaySound
PROPERTIES EveryCallbackEnds ConfirmedIsSettled
