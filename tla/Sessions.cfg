CONSTANTS
  r1 = r1  r2 = r2  r3 = r3  r4 = r4  ann = ann  root = root  own = own
  Request = {r1, r2, r3, r4}
  User = {ann, root}
  Merchant = {ann}
  Company = {own}
  CompanyOf <- MCCompanyOf
  Invented <- MCInvented
  AccessLife = 1
  RefreshLife = 1
  Digits = 1
  MaxTime = 1
  NoCompany = NoCompany  NoToken = NoToken  NoTask = NoTask  NotHeld = NotHeld
SPECIFICATION SessionSpec
SYMMETRY Requests
INVARIANTS SessionTypeOK LoggedOutStaysOut SessionsAreCounted ServedUntilRefreshed
