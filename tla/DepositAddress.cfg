CONSTANTS
  r1 = r1  r2 = r2  ann = ann  eve = eve  joe = joe
  a1 = a1  a2 = a2  a3 = a3  own = own  other = other  btc = btc  eth = eth
  Request = {r1, r2}
  User = {ann, eve, joe}
  Address = {a1, a2, a3}
  Company = {own, other}
  Currency = {btc, eth}
  CompanyOf <- MCCompanyOf
  CurrencyOf <- MCCurrencyOf
  DefaultCompany = own
  NoCompany = NoCompany  NoUser = NoUser  NoAddress = NoAddress
SPECIFICATION AddressSpec
INVARIANTS AddressTypeOK ToldAddressIsOwned
PROPERTIES RowsAreStable OnlyProviderHoldsUp
