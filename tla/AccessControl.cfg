CONSTANTS
  r1 = r1  r2 = r2  r3 = r3  root = root  ann = ann  adm = adm  mrc = mrc  new = new
  super = super  merchant = merchant  rm = rm
  p1 = p1  p2 = p2  p3 = p3  m1 = m1  m2 = m2  k1 = k1  k2 = k2  k3 = k3
  Request = {r1, r2, r3}
  User = {root, ann}
  Role = {adm, mrc, new}
  RoleName = {super, merchant, rm}
  Permission = {p1, p2, p3}
  Menu = {m1, m2}
  Key = {k1, k2, k3}
  Needed <- MCNeeded
  Task <- MCTask
  FirstRoles <- MCRoles
  FirstKeys <- MCKeys
  FirstUsers <- MCUsers
  SuperAdmin = super
  Merchant = merchant
  NoRow = NoRow  NoRole = NoRole  NoKey = NoKey  NoName = NoName  NoToken = NoToken
  NoTask = NoTask  NoEntry = NoEntry
SPECIFICATION AccessSpec
SYMMETRY Requests
INVARIANTS AccessTypeOK ReferencesHold GrantsWereAsked AdmittedByGrant
PROPERTY NeededRolesStay
