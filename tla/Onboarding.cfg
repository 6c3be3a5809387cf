CONSTANTS
  r1 = r1  r2 = r2  r3 = r3  o1 = o1
  e1 = e1  e2 = e2  e3 = e3  n1 = n1  n2 = n2
  Request = {r1, r2, r3}
  Old = {o1}
  Email = {e1, e2, e3}
  Name = {n1, n2}
  Password = {1, 2}
  Code = {1}
  Registration <- MCRegistrations
  Change <- MCChanges
  Earlier <- MCEarlier
  NoRow = NoRow
SPECIFICATION AccountSpec
INVARIANTS AccountTypeOK UniqueAccounts VerifiedByOtp ActiveIsVerified
PROPERTIES VerificationIsKept EveryAccountRequestEnds
