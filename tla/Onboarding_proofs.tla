-------------------------- MODULE Onboarding_proofs --------------------------
(***************************************************************************)
(* Theorems about Onboarding, for every set of requests, earlier merchants *)
(* and bodies.                                                             *)
(***************************************************************************)
EXTENDS Onboarding, TLAPS

Creating  == {"findExisting", "saveUser", "saveCompany", "sendMail", "commit"}
Verifying == {"findOtp", "findCompany", "saveOtp", "saveVerified"}
Approving == {"findVerified", "saveApproved", "saveActive"}

-----------------------------------------------------------------------------
(* The inductive invariant. *)

\* A user has a company and a company a user.
RowsPaired == \A i \in Id : users[i] = NoRow <=> companies[i] = NoRow

\* The unique columns of the committed rows.
Distinct ==
  \A i, j \in Id : i # j =>
    /\ users[i] # NoRow /\ users[j] # NoRow => users[i].email # users[j].email
    /\ companies[i] # NoRow /\ companies[j] # NoRow =>
         companies[i].email # companies[j].email /\ companies[i].name # companies[j].name

\* What open transactions have inserted collides neither with committed rows
\* nor with what other open transactions have inserted.
Reserved ==
  /\ \A q \in OpenUsers : LET b == task[q].body IN
       UserFree(q, b.email) /\ UserUnlocked(q, b.email)
  /\ \A q \in OpenCompanies : LET b == task[q].body IN
       CompanyFree(q, b.name, b.email) /\ CompanyUnlocked(q, b.name, b.email)

TablesOK == RowsPaired /\ Distinct /\ Reserved /\ VerifiedByOtp /\ ActiveIsVerified

\* What a request at each stage asks.
TaskOK(r) ==
  /\ stage[r] \in Creating => task[r] \in Task /\ task[r].kind = "create"
  /\ stage[r] \in Verifying => task[r].kind = "verify"
  /\ stage[r] \in Approving => task[r].kind = "approve"
  /\ stage[r] \in {"findUpdated", "saveUpdated"} => task[r].kind = "update"
  /\ stage[r] \in {"findRemoved", "saveRemoved"} => task[r].kind = "remove"
  /\ stage[r] = "saveForgot" => task[r].kind = "forgot"
  /\ stage[r] \in {"findUser", "savePassword"} => task[r].kind = "reset"
  /\ stage[r] \in Working \ Creating =>
       task[r] \in Task /\ task[r].on \in Id /\ users[task[r].on] # NoRow

\* What the handler of r has read is stale only in what it will not write.
HeldOK(r) ==
  LET i == task[r].on  h == held[r] IN
  /\ stage[r] \in {"findCompany", "saveOtp", "saveVerified"} =>
       h.otp \in Id /\ otps[h.otp] \in OtpRow /\ otps[h.otp].user = i
  /\ stage[r] \in {"saveOtp", "saveVerified", "saveApproved"} => h.company \in CompanyRow
  /\ stage[r] = "saveVerified" => otps[h.otp].used
  /\ stage[r] = "saveApproved" => h.company.verified
  /\ stage[r] \in {"saveApproved", "saveActive"} => companies[i].verified
  /\ stage[r] \in {"saveApproved", "saveActive", "savePassword"} =>
       h.user \in UserRow /\ h.user.email = users[i].email
  /\ stage[r] = "savePassword" => (h.user.active => companies[i].verified)

\* The rows named by r are there only when r has returned.
OwnRows(r) ==
  /\ users[r] # NoRow => stage[r] = "returned" /\ task[r] \in Task /\ task[r].kind = "create"
  /\ stage[r] # "returned" => otps[r] = NoRow

HandlersAgree == \A r \in Request : TaskOK(r) /\ HeldOK(r) /\ OwnRows(r)

IInv == AccountTypeOK /\ TablesOK /\ HandlersAgree

-----------------------------------------------------------------------------
(* Steps. *)

\* Rows stay, with the columns the handlers rely on.
Kept ==
  /\ \A i \in Id : users[i] # NoRow => users'[i] # NoRow /\ users'[i].email = users[i].email
  /\ \A i \in Id : companies[i] # NoRow =>
       companies'[i] # NoRow /\ (companies[i].verified => companies'[i].verified)
  /\ \A o \in Id : otps[o] # NoRow => /\ otps'[o] \in OtpRow /\ otps'[o].user = otps[o].user
                                      /\ otps[o].used => otps'[o].used

\* No transaction is opened or inserts another row, and a request does not
\* change what it asks.
Frame ==
  /\ OpenUsers' \subseteq OpenUsers /\ OpenCompanies' \subseteq OpenCompanies
  /\ \A q \in Request : stage[q] # "idle" => task'[q] = task[q]

\* The handler of r, and the rows it names, stay as they are.
Untouched(r) == /\ task'[r] = task[r] /\ held'[r] = held[r] /\ stage'[r] = stage[r]
                /\ users[r] = NoRow => users'[r] = NoRow
                /\ otps[r] = NoRow => otps'[r] = NoRow

\* A request for something is typed.
LEMMA TaskFields ==
  ASSUME NEW t \in Task
  PROVE  /\ t.kind = "create" => t.body \in BodyType
         /\ t.kind # "create" => t.on \in Id
         /\ t.kind = "update" => t.to.email \in Email /\ t.to.name \in Name
         /\ t.kind = "reset" => t.password \in Password
         /\ t.kind \in {"create", "verify", "approve", "remove", "forgot", "update", "reset"}
  BY BodyAssumption DEF Task

\* The rows create inserts are typed.
LEMMA NewRows ==
  ASSUME NEW b \in BodyType, NEW i \in Id, NEW code \in Code,
         NEW type \in {"CREATE_ACCOUNT", "FORGOT_PASSWORD"}
  PROVE  NewUser(b) \in UserRow /\ NewCompany(b) \in CompanyRow /\ NewOtp(i, code, type) \in OtpRow
  BY DEF NewUser, NewCompany, NewOtp, BodyType, UserRow, CompanyRow, OtpRow

\* Rows that are there are typed.
LEMMA RowTypes ==
  ASSUME AccountTypeOK, NEW i \in Id
  PROVE  /\ users[i] # NoRow => users[i] \in UserRow
         /\ companies[i] # NoRow => companies[i] \in CompanyRow
         /\ otps[i] # NoRow => otps[i] \in OtpRow
  BY DEF AccountTypeOK

\* A handler that goes on to an await outside an open transaction.
LEMMA FrameStep ==
  ASSUME IInv, NEW r \in Request, NEW s, GoOn(r, s), task' = task,
         \/ s \notin {"saveCompany", "sendMail", "commit"}
         \/ stage[r] = "sendMail" /\ s = "commit"
  PROVE  Frame
  BY DEF IInv, AccountTypeOK, GoOn, Frame, OpenUsers, OpenCompanies

-----------------------------------------------------------------------------
\* At first there are only the earlier merchants.
LEMMA AccountInitOK == AccountInit => IInv
<1> SUFFICES ASSUME AccountInit PROVE IInv
  OBVIOUS
<1>0. PICK code \in Code :
        /\ users     = [i \in Id |-> IF i \in Old THEN NewUser(Earlier[i]) ELSE NoRow]
        /\ companies = [i \in Id |-> IF i \in Old THEN NewCompany(Earlier[i]) ELSE NoRow]
        /\ otps = [i \in Id |-> IF i \in Old /\ ~Earlier[i].admin
                                THEN NewOtp(i, code, "CREATE_ACCOUNT") ELSE NoRow]
        /\ task  = [r \in Request |-> NoRow]
        /\ held  = [r \in Request |-> NotHeld]
        /\ stage = [r \in Request |-> "idle"]
  BY DEF AccountInit
<1>1. ASSUME NEW i \in Old
      PROVE  /\ Earlier[i] \in BodyType /\ i \in Id /\ i \notin Request
             /\ NewUser(Earlier[i]) \in UserRow
             /\ NewCompany(Earlier[i]) \in CompanyRow
             /\ NewOtp(i, code, "CREATE_ACCOUNT") \in OtpRow
  BY BodyAssumption, RowAssumption, NewRows DEF Id
<1>2. AccountTypeOK
  BY <1>0, <1>1 DEF AccountTypeOK, NotHeld
<1>3. RowsPaired
  BY <1>0, <1>1, NoneAssumption DEF RowsPaired
<1>4. Distinct
  BY <1>0, <1>1, EarlierAssumption DEF Distinct, NewUser, NewCompany
<1>5. Reserved
  BY <1>0 DEF Reserved, OpenUsers, OpenCompanies
<1>6. VerifiedByOtp
  BY <1>0, <1>1 DEF VerifiedByOtp, Accounts
<1>7. ActiveIsVerified
  BY <1>0, <1>1 DEF ActiveIsVerified, Accounts, NewUser, NewCompany
<1>8. HandlersAgree
  BY <1>0, RowAssumption
     DEF HandlersAgree, TaskOK, HeldOK, OwnRows, Creating, Verifying, Approving, Working, Id
<1> QED BY <1>2, <1>3, <1>4, <1>5, <1>6, <1>7, <1>8 DEF IInv, TablesOK

-----------------------------------------------------------------------------
(* What a step writes, by the table it writes to. *)

\* Nothing is written.
LEMMA NothingWritten ==
  ASSUME IInv, UNCHANGED accountTables, Frame
  PROVE  Kept /\ TablesOK'
<1> USE DEF IInv, TablesOK, accountTables
<1>1. Kept
  BY RowTypes DEF Kept
<1>2. RowsPaired' /\ Distinct' /\ ActiveIsVerified'
  BY DEF RowsPaired, Distinct, ActiveIsVerified, Accounts
<1>3. Reserved'
  BY DEF Reserved, Frame, UserFree, CompanyFree, UserUnlocked, CompanyUnlocked, OpenUsers, OpenCompanies
<1>4. VerifiedByOtp'
  BY DEF VerifiedByOtp, Accounts, Frame, HandlersAgree, OwnRows
<1> QED BY <1>1, <1>2, <1>3, <1>4

\* A row of users is written with the email it has.
LEMMA UserWritten ==
  ASSUME IInv, Frame, NEW i \in Id, users[i] # NoRow, NEW row \in UserRow,
         row.email = users[i].email, row.active => companies[i].verified,
         users' = [users EXCEPT ![i] = row], UNCHANGED <<companies, otps>>
  PROVE  Kept /\ TablesOK'
<1> USE DEF IInv, TablesOK
<1>0. users'[i] = row /\ row # NoRow /\ \A j \in Id \ {i} : users'[j] = users[j]
  BY NoneAssumption DEF AccountTypeOK
<1>a. \A j \in Id : /\ users'[j] = NoRow <=> users[j] = NoRow
                    /\ users[j] # NoRow => users'[j].email = users[j].email
  BY <1>0
<1>1. Kept
  BY <1>a, RowTypes DEF Kept
<1>2. RowsPaired' /\ Distinct'
  BY <1>a DEF RowsPaired, Distinct
<1>3. ActiveIsVerified'
  BY <1>0 DEF ActiveIsVerified, Accounts
<1>4. Reserved'
  BY <1>a DEF Reserved, Frame, UserFree, CompanyFree, UserUnlocked, CompanyUnlocked, OpenUsers, OpenCompanies
<1>5. VerifiedByOtp'
  BY <1>a DEF VerifiedByOtp, Accounts, Frame, HandlersAgree, OwnRows
<1> QED BY <1>1, <1>2, <1>3, <1>4, <1>5

\* A row of otp is inserted, or keeps its user and that it was used.
LEMMA OtpWritten ==
  ASSUME IInv, Frame, NEW o \in Id, NEW row \in OtpRow,
         otps[o] # NoRow => row.user = otps[o].user /\ (otps[o].used => row.used),
         otps' = [otps EXCEPT ![o] = row], UNCHANGED <<users, companies>>
  PROVE  Kept /\ TablesOK'
<1> USE DEF IInv, TablesOK
<1>0. otps'[o] = row /\ row # NoRow /\ \A p \in Id \ {o} : otps'[p] = otps[p]
  BY NoneAssumption DEF AccountTypeOK
<1>1. Kept
  BY <1>0, RowTypes DEF Kept
<1>2. RowsPaired' /\ Distinct' /\ ActiveIsVerified'
  BY DEF RowsPaired, Distinct, ActiveIsVerified, Accounts
<1>3. Reserved'
  BY DEF Reserved, Frame, UserFree, CompanyFree, UserUnlocked, CompanyUnlocked, OpenUsers, OpenCompanies
<1>4. VerifiedByOtp'
  BY <1>0 DEF VerifiedByOtp, Accounts, Frame, HandlersAgree, OwnRows
<1> QED BY <1>1, <1>2, <1>3, <1>4

\* A row of companies is written with free, unlocked values and without losing a
\* verification, or gaining one that no OTP stands for.
LEMMA CompanyWritten ==
  ASSUME IInv, Frame, NEW i \in Id, companies[i] # NoRow, NEW row \in CompanyRow,
         companies[i].verified => row.verified,
         row.verified => \/ companies[i].verified
                         \/ \E o \in Id : otps[o] # NoRow /\ otps[o].user = i /\ otps[o].used,
         row.status = "APPROVED" => row.verified,
         CompanyFree(i, row.name, row.email), CompanyUnlocked(i, row.name, row.email),
         companies' = [companies EXCEPT ![i] = row], UNCHANGED <<users, otps>>
  PROVE  Kept /\ TablesOK'
<1> USE DEF IInv, TablesOK
<1>0. companies'[i] = row /\ row # NoRow /\ \A j \in Id \ {i} : companies'[j] = companies[j]
  BY NoneAssumption DEF AccountTypeOK
<1>1. Kept
  BY <1>0, RowTypes DEF Kept
<1>2. RowsPaired'
  BY <1>0 DEF RowsPaired
<1>3. Distinct'
  BY <1>0 DEF Distinct, CompanyFree
<1>4. ActiveIsVerified'
  BY <1>0 DEF ActiveIsVerified, Accounts
<1>5. Reserved'
  <2>1. ASSUME NEW q \in OpenCompanies
        PROVE  q # i /\ q \in Request /\ q \in Id
    BY <2>1 DEF OpenCompanies, HandlersAgree, OwnRows, RowsPaired, Id
  <2>2. ASSUME NEW q \in OpenCompanies'
        PROVE  /\ CompanyFree(q, task[q].body.name, task[q].body.email)'
               /\ CompanyUnlocked(q, task[q].body.name, task[q].body.email)'
    <3>1. q \in OpenCompanies /\ task'[q] = task[q]
      BY <2>2 DEF Frame, OpenCompanies
    <3>2. CompanyFree(q, task[q].body.name, task[q].body.email)
      BY <3>1 DEF Reserved
    <3>3. row.email # task[q].body.email /\ row.name # task[q].body.name
      BY <3>1, <2>1 DEF CompanyUnlocked
    <3>4. CompanyFree(q, task[q].body.name, task[q].body.email)'
      BY <1>0, <3>1, <3>2, <3>3 DEF CompanyFree
    <3>5. CompanyUnlocked(q, task[q].body.name, task[q].body.email)'
      BY <3>1 DEF Reserved, Frame, CompanyUnlocked, OpenCompanies
    <3> QED BY <3>4, <3>5
  <2>3. ASSUME NEW q \in OpenUsers'
        PROVE  UserFree(q, task[q].body.email)' /\ UserUnlocked(q, task[q].body.email)'
    BY <2>3 DEF Reserved, Frame, UserFree, UserUnlocked, OpenUsers
  <2> QED BY <2>2, <2>3 DEF Reserved
<1>6. VerifiedByOtp'
  BY <1>0 DEF VerifiedByOtp, Accounts, Frame, HandlersAgree, OwnRows
<1> QED BY <1>1, <1>2, <1>3, <1>4, <1>5, <1>6

\* WriteBack writes such a row, or throws.
LEMMA WriteBackOK ==
  ASSUME IInv, NEW r \in Request, NEW i \in Id, companies[i] # NoRow, NEW row \in CompanyRow,
         NEW next, next \in {"returned", "saveActive"},
         companies[i].verified => row.verified,
         row.verified => \/ companies[i].verified
                         \/ \E o \in Id : otps[o] # NoRow /\ otps[o].user = i /\ otps[o].used,
         row.status = "APPROVED" => row.verified,
         WriteBack(r, i, row, next)
  PROVE  Kept /\ TablesOK'
<1>1. CASE CompanyFree(i, row.name, row.email)
  <2>1. /\ companies' = [companies EXCEPT ![i] = row] /\ GoOn(r, next)
        /\ CompanyUnlocked(i, row.name, row.email) /\ UNCHANGED <<users, otps, task>>
    BY <1>1 DEF WriteBack
  <2>2. Frame
    BY <2>1, FrameStep
  <2> QED BY <1>1, <2>1, <2>2, CompanyWritten
<1>2. CASE ~CompanyFree(i, row.name, row.email)
  <2>1. Throw(r)
    BY <1>2 DEF WriteBack
  <2>2. Frame
    BY <2>1, FrameStep DEF Throw
  <2> QED BY <2>1, <2>2, NothingWritten DEF Throw
<1> QED BY <1>1, <1>2

\* An insert of create reserves its values.
LEMMA UserReserved ==
  ASSUME IInv, NEW r \in Request, SaveUser(r) PROVE Kept /\ TablesOK'
<1>1. CASE ~UserFree(r, task[r].body.email)
  <2>1. Throw(r)
    BY <1>1 DEF SaveUser
  <2>2. Frame
    BY <2>1, FrameStep DEF Throw
  <2> QED BY <2>1, <2>2, NothingWritten DEF Throw
<1>2. CASE UserFree(r, task[r].body.email)
  <2> USE DEF IInv, TablesOK
  <2>1. /\ stage[r] = "saveUser" /\ UserUnlocked(r, task[r].body.email)
        /\ stage' = [stage EXCEPT ![r] = "saveCompany"]
        /\ UNCHANGED <<accountTables, task, held>>
    BY <1>2 DEF SaveUser, GoOn
  <2>2. OpenUsers' = OpenUsers \cup {r} /\ OpenCompanies' = OpenCompanies /\ r \notin OpenUsers
    BY <2>1 DEF OpenUsers, OpenCompanies, AccountTypeOK
  <2>3. Kept
    BY <2>1, RowTypes DEF Kept, accountTables
  <2>4. RowsPaired' /\ Distinct' /\ ActiveIsVerified' /\ VerifiedByOtp'
    BY <2>1 DEF RowsPaired, Distinct, ActiveIsVerified, VerifiedByOtp, Accounts, accountTables
  <2>5. ASSUME NEW q \in OpenUsers'
        PROVE  UserFree(q, task[q].body.email)' /\ UserUnlocked(q, task[q].body.email)'
    BY <1>2, <2>1, <2>2, <2>5 DEF Reserved, UserFree, UserUnlocked, accountTables
  <2>6. Reserved'
    BY <2>1, <2>2, <2>5 DEF Reserved, CompanyFree, CompanyUnlocked, accountTables
  <2> QED BY <2>3, <2>4, <2>6
<1> QED BY <1>1, <1>2

\* SaveCompany locks a name and an email that no committed or open row has.
LEMMA CompanyReserved ==
  ASSUME IInv, NEW r \in Request, SaveCompany(r) PROVE Kept /\ TablesOK'
<1> DEFINE b == task[r].body
<1>1. CASE ~CompanyFree(r, b.name, b.email)
  <2>1. Throw(r)
    BY <1>1 DEF SaveCompany
  <2>2. Frame
    BY <2>1, FrameStep DEF Throw
  <2> QED BY <2>1, <2>2, NothingWritten DEF Throw
<1>2. CASE CompanyFree(r, b.name, b.email)
  <2> USE DEF IInv, TablesOK
  <2>1. /\ stage[r] = "saveCompany" /\ CompanyUnlocked(r, b.name, b.email)
        /\ stage' = [stage EXCEPT ![r] = IF b.admin THEN "commit" ELSE "sendMail"]
        /\ UNCHANGED <<accountTables, task, held>>
    BY <1>2 DEF SaveCompany, GoOn
  <2>2. OpenUsers' = OpenUsers /\ OpenCompanies' = OpenCompanies \cup {r}
    BY <2>1 DEF OpenUsers, OpenCompanies, AccountTypeOK
  <2>3. Kept
    BY <2>1, RowTypes DEF Kept, accountTables
  <2>4. RowsPaired' /\ Distinct' /\ ActiveIsVerified' /\ VerifiedByOtp'
    BY <2>1 DEF RowsPaired, Distinct, ActiveIsVerified, VerifiedByOtp, Accounts, accountTables
  <2>5. ASSUME NEW q \in OpenCompanies'
        PROVE  /\ CompanyFree(q, task[q].body.name, task[q].body.email)'
               /\ CompanyUnlocked(q, task[q].body.name, task[q].body.email)'
    BY <1>2, <2>1, <2>2, <2>5 DEF Reserved, CompanyFree, CompanyUnlocked, accountTables
  <2>6. Reserved'
    BY <2>1, <2>2, <2>5 DEF Reserved, UserFree, UserUnlocked, accountTables
  <2> QED BY <2>3, <2>4, <2>6
<1> QED BY <1>1, <1>2

\* A transaction that commits turns what it has reserved into rows.
LEMMA Committed ==
  ASSUME IInv, NEW r \in Request, Commit(r) PROVE Kept /\ TablesOK'
<1> USE DEF IInv, TablesOK
<1> DEFINE b == task[r].body
<1>1. /\ stage[r] = "commit" /\ b \in BodyType /\ r \in Id
      /\ users[r] = NoRow /\ companies[r] = NoRow /\ otps[r] = NoRow
  BY TaskFields DEF Commit, HandlersAgree, TaskOK, OwnRows, RowsPaired, Creating, Id
<1>2. /\ users' = [users EXCEPT ![r] = NewUser(b)]
      /\ companies' = [companies EXCEPT ![r] = NewCompany(b)]
      /\ stage' = [stage EXCEPT ![r] = "returned"] /\ task' = task
  BY DEF Commit, GoOn
<1>3. /\ users'[r] = NewUser(b) /\ companies'[r] = NewCompany(b)
      /\ NewUser(b) \in UserRow /\ NewCompany(b) \in CompanyRow
      /\ \A i \in Id \ {r} : users'[i] = users[i] /\ companies'[i] = companies[i]
  BY <1>1, <1>2 DEF AccountTypeOK, NewUser, NewCompany, BodyType, UserRow, CompanyRow
<1>4. users'[r] # NoRow /\ companies'[r] # NoRow
  BY <1>3, NoneAssumption
<1>5. \A o \in Id : otps[o] # NoRow => otps'[o] = otps[o]
  BY <1>1 DEF Commit, AccountTypeOK
<1>6. /\ OpenUsers' = OpenUsers \ {r} /\ OpenCompanies' = OpenCompanies \ {r}
      /\ r \in OpenUsers /\ r \in OpenCompanies
  BY <1>1, <1>2 DEF OpenUsers, OpenCompanies, AccountTypeOK
<1>7. /\ UserFree(r, b.email) /\ UserUnlocked(r, b.email)
      /\ CompanyFree(r, b.name, b.email) /\ CompanyUnlocked(r, b.name, b.email)
  BY <1>6 DEF Reserved
<1>8. /\ users'[r].email = b.email
      /\ companies'[r].email = b.email /\ companies'[r].name = b.name
  BY <1>3 DEF NewUser, NewCompany
<1>9. Kept
  BY <1>1, <1>3, <1>5, RowTypes DEF Kept
<1>10. RowsPaired'
  BY <1>3, <1>4 DEF RowsPaired
<1>11. Distinct'
  BY <1>3, <1>7, <1>8 DEF Distinct, UserFree, CompanyFree
<1>12. Reserved'
  <2>1. ASSUME NEW q \in OpenUsers'
        PROVE  UserFree(q, task[q].body.email)' /\ UserUnlocked(q, task[q].body.email)'
    <3>1. q \in OpenUsers \ {r} /\ task[q].body.email # b.email
      BY <1>6, <1>7, <2>1 DEF UserUnlocked
    <3>2. UserFree(q, task[q].body.email)'
      BY <1>2, <1>3, <1>8, <3>1 DEF Reserved, UserFree
    <3>3. UserUnlocked(q, task[q].body.email)'
      BY <1>2, <1>6, <3>1 DEF Reserved, UserUnlocked
    <3> QED BY <3>2, <3>3
  <2>2. ASSUME NEW q \in OpenCompanies'
        PROVE  /\ CompanyFree(q, task[q].body.name, task[q].body.email)'
               /\ CompanyUnlocked(q, task[q].body.name, task[q].body.email)'
    <3>1. /\ q \in OpenCompanies \ {r}
          /\ task[q].body.email # b.email /\ task[q].body.name # b.name
      BY <1>6, <1>7, <2>2 DEF CompanyUnlocked
    <3>2. CompanyFree(q, task[q].body.name, task[q].body.email)'
      BY <1>2, <1>3, <1>8, <3>1 DEF Reserved, CompanyFree
    <3>3. CompanyUnlocked(q, task[q].body.name, task[q].body.email)'
      BY <1>2, <1>6, <3>1 DEF Reserved, CompanyUnlocked
    <3> QED BY <3>2, <3>3
  <2> QED BY <2>1, <2>2 DEF Reserved
<1>13. ActiveIsVerified'
  BY <1>1, <1>3 DEF ActiveIsVerified, Accounts, NewUser, NewCompany, BodyType
<1>14. VerifiedByOtp'
  <2> SUFFICES ASSUME NEW i \in Request, users'[i] # NoRow, companies'[i].verified
               PROVE  \/ task[i].body.admin
                      \/ \E o \in Id : otps'[o] # NoRow /\ otps'[o].user = i /\ otps'[o].used
    BY <1>2 DEF VerifiedByOtp, Accounts
  <2>1. CASE i = r
    BY <2>1, <1>3 DEF NewCompany
  <2>2. CASE i # r
    BY <2>2, <1>3, <1>5 DEF VerifiedByOtp, Accounts, Id
  <2> QED BY <2>1, <2>2
<1> QED BY <1>9, <1>10, <1>11, <1>12, <1>13, <1>14

-----------------------------------------------------------------------------
(* The actions. *)

\* Actions that write nothing, but for SaveUser and SaveCompany.
Reads(r) == \/ FindExisting(r) \/ SendMail(r) \/ FindOtp(r) \/ FindCompany(r) \/ FindVerified(r)
            \/ FindUpdated(r) \/ FindRemoved(r) \/ FindUser(r) \/ Error(r)

\* The tables stay sound in every step.
LEMMA TablesStep ==
  ASSUME IInv, [AccountNext]_accountVars PROVE Kept /\ TablesOK'
<1>1. ASSUME NEW r \in Request, NEW t \in Askable, Ask(r, t) PROVE Kept /\ TablesOK'
  <2>1. t \in Task
    BY DEF Askable
  <2>2. FirstStage[t.kind] \notin {"saveCompany", "sendMail", "commit"}
    BY <2>1, TaskFields DEF FirstStage
  <2>3. Frame
    BY <1>1, <2>2 DEF Ask, GoOn, Frame, OpenUsers, OpenCompanies, IInv, AccountTypeOK
  <2> QED BY <1>1, <2>3, NothingWritten DEF Ask
<1>2. ASSUME NEW r \in Request, Reads(r) PROVE Kept /\ TablesOK'
  <2>1. /\ UNCHANGED <<accountTables, task>>
        /\ \/ \E s \in {"saveUser", "rejected", "findCompany", "saveOtp", "saveApproved",
                        "saveUpdated", "saveRemoved", "savePassword"} : GoOn(r, s)
           \/ stage[r] = "sendMail" /\ GoOn(r, "commit")
    BY <1>2 DEF Reads, FindExisting, SendMail, FindOtp, FindCompany, FindVerified, FindUpdated,
                FindRemoved, FindUser, Error, Throw
  <2>2. Frame
    BY <2>1, FrameStep
  <2> QED BY <2>1, <2>2, NothingWritten
<1>3. ASSUME NEW r \in Request, SaveOtp(r) PROVE Kept /\ TablesOK'
  <2> DEFINE o == held[r].otp
  <2>1. o \in Id /\ otps[o] \in OtpRow
    BY <1>3 DEF SaveOtp, IInv, HandlersAgree, HeldOK
  <2>2. [otps[o] EXCEPT !.used = TRUE] \in OtpRow
    BY <2>1 DEF OtpRow
  <2>3. Frame /\ UNCHANGED <<users, companies>>
    BY <1>3, FrameStep DEF SaveOtp
  <2>4. otps' = [otps EXCEPT ![o] = [otps[o] EXCEPT !.used = TRUE]]
    BY <1>3 DEF SaveOtp
  <2>5. /\ [otps[o] EXCEPT !.used = TRUE].user = otps[o].user
        /\ [otps[o] EXCEPT !.used = TRUE].used = TRUE
    BY <2>1 DEF OtpRow
  <2> QED BY <2>1, <2>2, <2>3, <2>4, <2>5, OtpWritten
<1>4. ASSUME NEW r \in Request, SaveForgot(r) PROVE Kept /\ TablesOK'
  <2>1. task[r].on \in Id /\ otps[r] = NoRow /\ r \in Id
    BY <1>4 DEF SaveForgot, IInv, HandlersAgree, TaskOK, OwnRows, Working, Creating, Id
  <2>2. PICK code \in Code : otps' = [otps EXCEPT ![r] = NewOtp(task[r].on, code, "FORGOT_PASSWORD")]
    BY <1>4 DEF SaveForgot
  <2>3. NewOtp(task[r].on, code, "FORGOT_PASSWORD") \in OtpRow
    BY <2>1 DEF NewOtp, OtpRow
  <2>4. Frame /\ UNCHANGED <<users, companies>>
    BY <1>4, FrameStep DEF SaveForgot
  <2> QED BY <2>1, <2>2, <2>3, <2>4, OtpWritten
<1>5. ASSUME NEW o \in Id, Expire(o) PROVE Kept /\ TablesOK'
  <2>1. otps[o] \in OtpRow
    BY <1>5, RowTypes DEF Expire, IInv
  <2>2. /\ [otps[o] EXCEPT !.expired = TRUE] \in OtpRow
        /\ [otps[o] EXCEPT !.expired = TRUE].user = otps[o].user
        /\ [otps[o] EXCEPT !.expired = TRUE].used = otps[o].used
    BY <2>1 DEF OtpRow
  <2>3. otps' = [otps EXCEPT ![o] = [otps[o] EXCEPT !.expired = TRUE]]
    BY <1>5 DEF Expire
  <2>4. Frame /\ UNCHANGED <<users, companies>>
    BY <1>5 DEF Expire, accountHandlers, Frame, OpenUsers, OpenCompanies
  <2> QED BY <2>1, <2>2, <2>3, <2>4, OtpWritten
<1>6. ASSUME NEW r \in Request, SaveActive(r) \/ SavePassword(r) PROVE Kept /\ TablesOK'
  <2> DEFINE i == task[r].on
             h == held[r].user
  <2>1. /\ i \in Id /\ users[i] # NoRow /\ h \in UserRow /\ h.email = users[i].email
        /\ SaveActive(r) => companies[i].verified
        /\ SavePassword(r) => (h.active => companies[i].verified) /\ task[r].password \in Password
    BY <1>6, TaskFields
       DEF SaveActive, SavePassword, IInv, HandlersAgree, TaskOK, HeldOK, Working, Creating, Verifying, Approving
  <2>2. PICK row \in UserRow : /\ users' = [users EXCEPT ![i] = row]
                               /\ row.email = h.email
                               /\ row.active => companies[i].verified
    <3>1. /\ [h EXCEPT !.active = TRUE] \in UserRow
          /\ [h EXCEPT !.active = TRUE].email = h.email
      BY <2>1 DEF UserRow
    <3>2. ASSUME SavePassword(r)
          PROVE  /\ [h EXCEPT !.password = task[r].password] \in UserRow
                 /\ [h EXCEPT !.password = task[r].password].email = h.email
                 /\ [h EXCEPT !.password = task[r].password].active = h.active
      BY <2>1, <3>2 DEF UserRow
    <3>3. CASE SaveActive(r)
      BY <2>1, <3>1, <3>3 DEF SaveActive
    <3>4. CASE SavePassword(r)
      BY <2>1, <3>2, <3>4 DEF SavePassword
    <3> QED BY <1>6, <3>3, <3>4
  <2>3. Frame /\ UNCHANGED <<companies, otps>>
    BY <1>6, FrameStep DEF SaveActive, SavePassword
  <2> QED BY <2>1, <2>2, <2>3, UserWritten
<1>7. ASSUME NEW r \in Request, SaveVerified(r) \/ SaveApproved(r) \/ SaveUpdated(r)
      PROVE  Kept /\ TablesOK'
  <2> DEFINE i == task[r].on
             h == held[r].company
  <2>1. i \in Id /\ users[i] # NoRow /\ task[r] \in Task
    BY <1>7 DEF SaveVerified, SaveApproved, SaveUpdated, IInv, HandlersAgree, TaskOK, Working, Creating
  <2>2. companies[i] # NoRow /\ companies[i] \in CompanyRow
    BY <2>1, RowTypes DEF IInv, TablesOK, RowsPaired
  <2>3. CASE SaveVerified(r)
    <3>1. /\ h \in CompanyRow
          /\ held[r].otp \in Id /\ otps[held[r].otp] \in OtpRow
          /\ otps[held[r].otp].user = i /\ otps[held[r].otp].used
      BY <2>3 DEF SaveVerified, IInv, HandlersAgree, HeldOK
    <3>2. otps[held[r].otp] # NoRow
      BY <3>1, NoneAssumption
    <3>3. [h EXCEPT !.verified = TRUE] \in CompanyRow /\ [h EXCEPT !.verified = TRUE].verified = TRUE
      BY <3>1 DEF CompanyRow
    <3>4. WriteBack(r, i, [h EXCEPT !.verified = TRUE], "returned")
      BY <2>3 DEF SaveVerified
    <3> HIDE DEF i, h
    <3> QED BY <2>1, <2>2, <3>1, <3>2, <3>3, <3>4, WriteBackOK
  <2>4. CASE SaveApproved(r)
    <3>1. h \in CompanyRow /\ h.verified /\ companies[i].verified
      BY <2>4 DEF SaveApproved, IInv, HandlersAgree, HeldOK
    <3>2. /\ [h EXCEPT !.status = "APPROVED"] \in CompanyRow
          /\ [h EXCEPT !.status = "APPROVED"].verified
      BY <3>1 DEF CompanyRow
    <3>3. WriteBack(r, i, [h EXCEPT !.status = "APPROVED"], "saveActive")
      BY <2>4 DEF SaveApproved
    <3> HIDE DEF i, h
    <3> QED BY <2>1, <2>2, <3>1, <3>2, <3>3, WriteBackOK
  <2>5. CASE SaveUpdated(r)
    <3> DEFINE row == [companies[i] EXCEPT !.name = task[r].to.name, !.email = task[r].to.email]
    <3>1. task[r].to.email \in Email /\ task[r].to.name \in Name
      BY <2>1, <2>5, TaskFields DEF SaveUpdated, IInv, HandlersAgree, TaskOK
    <3>2. row \in CompanyRow /\ row.verified = companies[i].verified /\ row.status = companies[i].status
      BY <2>2, <3>1 DEF CompanyRow
    <3>3. WriteBack(r, i, row, "returned")
      BY <2>5 DEF SaveUpdated
    <3>4. companies[i].status = "APPROVED" => companies[i].verified
      BY <2>1 DEF IInv, TablesOK, ActiveIsVerified, Accounts
    <3> HIDE DEF i, row
    <3> QED BY <2>1, <2>2, <3>2, <3>3, <3>4, WriteBackOK
  <2> QED BY <1>7, <2>3, <2>4, <2>5
<1>8. ASSUME NEW r \in Request, SaveRemoved(r) PROVE Kept /\ TablesOK'
  <2> DEFINE i == task[r].on
             row == [companies[i] EXCEPT !.deleted = TRUE]
  <2>1. i \in Id /\ users[i] # NoRow
    BY <1>8 DEF SaveRemoved, IInv, HandlersAgree, TaskOK, Working, Creating
  <2>2. companies[i] # NoRow /\ companies[i] \in CompanyRow
    BY <2>1, RowTypes DEF IInv, TablesOK, RowsPaired
  <2>3. /\ row \in CompanyRow /\ row.verified = companies[i].verified
        /\ row.status = companies[i].status
        /\ row.name = companies[i].name /\ row.email = companies[i].email
    BY <2>2 DEF CompanyRow
  <2>4. CompanyFree(i, row.name, row.email)
    BY <2>1, <2>2, <2>3 DEF CompanyFree, IInv, TablesOK, Distinct
  <2>5. CompanyUnlocked(i, row.name, row.email)
    BY <2>1, <2>2, <2>3 DEF CompanyUnlocked, IInv, TablesOK, Reserved, CompanyFree
  <2>6. companies[i].status = "APPROVED" => companies[i].verified
    BY <2>1 DEF IInv, TablesOK, ActiveIsVerified, Accounts
  <2>7. Frame /\ companies' = [companies EXCEPT ![i] = row] /\ UNCHANGED <<users, otps>>
    BY <1>8, FrameStep DEF SaveRemoved
  <2> HIDE DEF i, row
  <2> QED BY <2>1, <2>2, <2>3, <2>4, <2>5, <2>6, <2>7, CompanyWritten
<1>9. CASE Stop \/ UNCHANGED accountVars
  <2>1. Frame /\ UNCHANGED accountTables
    BY <1>9 DEF Stop, accountVars, accountTables, Frame, OpenUsers, OpenCompanies, Working
  <2> QED BY <2>1, NothingWritten
<1> QED BY <1>1, <1>2, <1>3, <1>4, <1>5, <1>6, <1>7, <1>8, <1>9, UserReserved, CompanyReserved, Committed
        DEF AccountNext, Serve, Reads

\* A handler that goes on, with tables and memory typed, leaves them typed.
LEMMA TypesKept ==
  ASSUME AccountTypeOK, NEW r \in Request, NEW s \in {"returned", "rejected"} \cup Working,
         GoOn(r, s), UNCHANGED <<accountTables, task, held>>
  PROVE  AccountTypeOK'
  BY DEF AccountTypeOK, GoOn, accountTables

\* The types are preserved by each action.
LEMMA TypeStep == ASSUME IInv, [AccountNext]_accountVars PROVE AccountTypeOK'
<1> USE DEF IInv, AccountTypeOK
<1>a. ASSUME NEW r \in Request, Throw(r) PROVE AccountTypeOK'
  BY <1>a, TypesKept DEF Throw
<1>b. ASSUME NEW r \in Request, NEW i \in Id, NEW row \in CompanyRow,
             NEW next \in {"returned", "saveActive"}, WriteBack(r, i, row, next)
      PROVE  AccountTypeOK'
  <2>1. CASE ~CompanyFree(i, row.name, row.email)
    BY <1>b, <2>1, <1>a DEF WriteBack
  <2>2. CASE CompanyFree(i, row.name, row.email)
    BY <1>b, <2>2 DEF WriteBack, GoOn, Working
  <2> QED BY <2>1, <2>2
<1>c. ASSUME NEW r \in Request, stage[r] \in Working \ Creating
      PROVE  /\ task[r] \in Task /\ task[r].on \in Id /\ users[task[r].on] \in UserRow
             /\ companies[task[r].on] \in CompanyRow
  BY <1>c DEF HandlersAgree, TaskOK, TablesOK, RowsPaired
<1>1. ASSUME NEW r \in Request, NEW t \in Askable, Ask(r, t) PROVE AccountTypeOK'
  <2>1. t \in Task
    BY DEF Askable
  <2>2. FirstStage[t.kind] \in Working
    BY <2>1, TaskFields DEF FirstStage, Working
  <2> QED BY <1>1, <2>1, <2>2 DEF Ask, GoOn, accountTables
<1>2. ASSUME NEW r \in Request,
             FindExisting(r) \/ SaveUser(r) \/ SaveCompany(r) \/ SendMail(r) \/ FindUpdated(r) \/ Error(r)
      PROVE  AccountTypeOK'
  <2>1. \/ Throw(r)
        \/ /\ UNCHANGED <<accountTables, task, held>>
           /\ \E s \in {"saveUser", "saveCompany", "sendMail", "commit", "saveUpdated"} : GoOn(r, s)
    BY <1>2 DEF FindExisting, SaveUser, SaveCompany, SendMail, FindUpdated, Error
  <2> QED BY <2>1, <1>a, TypesKept DEF Working
<1>3. ASSUME NEW r \in Request, Commit(r) PROVE AccountTypeOK'
  <2> DEFINE b == task[r].body
  <2>1. b \in BodyType /\ r \in Id
    BY <1>3, TaskFields DEF Commit, HandlersAgree, TaskOK, Creating, Id
  <2>2. /\ NewUser(b) \in UserRow /\ NewCompany(b) \in CompanyRow
        /\ \A code \in Code : NewOtp(r, code, "CREATE_ACCOUNT") \in OtpRow
    BY <2>1 DEF NewUser, NewCompany, NewOtp, BodyType, UserRow, CompanyRow, OtpRow
  <2> HIDE DEF b
  <2> QED BY <1>3, <2>1, <2>2 DEF Commit, GoOn, b
<1>4. ASSUME NEW r \in Request,
             FindOtp(r) \/ FindCompany(r) \/ FindVerified(r) \/ FindRemoved(r) \/ FindUser(r)
      PROVE  AccountTypeOK'
  <2>1. stage[r] \in Working \ Creating
    BY <1>4 DEF FindOtp, FindCompany, FindVerified, FindRemoved, FindUser, Working, Creating
  <2>2. CASE Throw(r)
    BY <2>2, <1>a
  <2>3. CASE ~Throw(r)
    <3>1. /\ \/ \E o \in Id : held' = [held EXCEPT ![r].otp = o]
             \/ held' = [held EXCEPT ![r].company = companies[task[r].on]]
             \/ held' = [held EXCEPT ![r].company = companies[task[r].on], ![r].user = users[task[r].on]]
             \/ held' = [held EXCEPT ![r].user = users[task[r].on]]
          /\ UNCHANGED <<accountTables, task>>
          /\ \E s \in Working : GoOn(r, s)
      BY <1>4, <2>3 DEF FindOtp, FindCompany, FindVerified, FindRemoved, FindUser, Matching, Working
    <3>2. held' \in [Request -> [user: UserRow \cup {NoRow}, company: CompanyRow \cup {NoRow},
                                 otp: Id \cup {NoRow}]]
      BY <2>1, <3>1, <1>c
    <3> QED BY <3>1, <3>2 DEF GoOn, accountTables
  <2> QED BY <2>2, <2>3
<1>5. ASSUME NEW r \in Request, SaveOtp(r) PROVE AccountTypeOK'
  <2>1. held[r].otp \in Id /\ otps[held[r].otp] \in OtpRow
    BY <1>5 DEF SaveOtp, HandlersAgree, HeldOK
  <2>2. [otps[held[r].otp] EXCEPT !.used = TRUE] \in OtpRow
    BY <2>1 DEF OtpRow
  <2> QED BY <1>5, <2>1, <2>2 DEF SaveOtp, GoOn, Working
<1>6. ASSUME NEW r \in Request, SaveVerified(r) PROVE AccountTypeOK'
  <2>1. held[r].company \in CompanyRow /\ task[r].on \in Id
    BY <1>6 DEF SaveVerified, HandlersAgree, HeldOK, TaskOK, Working, Creating
  <2>2. [held[r].company EXCEPT !.verified = TRUE] \in CompanyRow
    BY <2>1 DEF CompanyRow
  <2> QED BY <1>6, <2>1, <2>2, <1>b DEF SaveVerified
<1>7. ASSUME NEW r \in Request, SaveApproved(r) PROVE AccountTypeOK'
  <2>1. held[r].company \in CompanyRow /\ task[r].on \in Id
    BY <1>7 DEF SaveApproved, HandlersAgree, HeldOK, TaskOK, Working, Creating
  <2>2. [held[r].company EXCEPT !.status = "APPROVED"] \in CompanyRow
    BY <2>1 DEF CompanyRow
  <2> QED BY <1>7, <2>1, <2>2, <1>b DEF SaveApproved
<1>8. ASSUME NEW r \in Request, SaveUpdated(r) PROVE AccountTypeOK'
  <2>1. /\ companies[task[r].on] \in CompanyRow /\ task[r].on \in Id
        /\ task[r].to.email \in Email /\ task[r].to.name \in Name
    BY <1>8, <1>c, TaskFields DEF SaveUpdated, HandlersAgree, TaskOK, Working, Creating
  <2>2. [companies[task[r].on] EXCEPT !.name = task[r].to.name, !.email = task[r].to.email] \in CompanyRow
    BY <2>1 DEF CompanyRow
  <2> QED BY <1>8, <2>1, <2>2, <1>b DEF SaveUpdated
<1>9. ASSUME NEW r \in Request, SaveRemoved(r) PROVE AccountTypeOK'
  <2>1. companies[task[r].on] \in CompanyRow /\ task[r].on \in Id
    BY <1>9, <1>c DEF SaveRemoved, Working, Creating
  <2>2. [companies[task[r].on] EXCEPT !.deleted = TRUE] \in CompanyRow
    BY <2>1 DEF CompanyRow
  <2> QED BY <1>9, <2>1, <2>2 DEF SaveRemoved, GoOn
<1>10. ASSUME NEW r \in Request, SaveForgot(r) PROVE AccountTypeOK'
  <2>1. task[r].on \in Id
    BY <1>10, <1>c DEF SaveForgot, Working, Creating
  <2>2. \A code \in Code : NewOtp(task[r].on, code, "FORGOT_PASSWORD") \in OtpRow
    BY <2>1 DEF NewOtp, OtpRow
  <2> QED BY <1>10, <2>2 DEF SaveForgot, GoOn
<1>11. ASSUME NEW r \in Request, SaveActive(r) PROVE AccountTypeOK'
  <2>1. held[r].user \in UserRow
    BY <1>11 DEF SaveActive, HandlersAgree, HeldOK
  <2>2. [held[r].user EXCEPT !.active = TRUE] \in UserRow
    BY <2>1 DEF UserRow
  <2> QED BY <1>11, <2>2 DEF SaveActive, GoOn
<1>12. ASSUME NEW r \in Request, SavePassword(r) PROVE AccountTypeOK'
  <2>1. held[r].user \in UserRow /\ task[r].password \in Password
    BY <1>12, TaskFields DEF SavePassword, HandlersAgree, HeldOK, TaskOK, Working, Creating
  <2>2. [held[r].user EXCEPT !.password = task[r].password] \in UserRow
    BY <2>1 DEF UserRow
  <2> QED BY <1>12, <2>2 DEF SavePassword, GoOn
<1>13. ASSUME NEW o \in Id, Expire(o) PROVE AccountTypeOK'
  <2>1. [otps[o] EXCEPT !.expired = TRUE] \in OtpRow
    BY <1>13, RowTypes DEF Expire, OtpRow
  <2> QED BY <1>13, <2>1 DEF Expire, accountHandlers
<1>14. CASE Stop \/ UNCHANGED accountVars
  BY <1>14 DEF Stop, accountVars, accountTables
<1> QED BY <1>1, <1>2, <1>3, <1>4, <1>5, <1>6, <1>7, <1>8, <1>9, <1>10, <1>11, <1>12, <1>13, <1>14
        DEF AccountNext, Serve

-----------------------------------------------------------------------------
\* A handler that does not move keeps what it relies on.
LEMMA HandlerStays ==
  ASSUME IInv, Kept, NEW r \in Request, Untouched(r)
  PROVE  TaskOK(r)' /\ HeldOK(r)' /\ OwnRows(r)'
<1>1. TaskOK(r) /\ HeldOK(r) /\ OwnRows(r)
  BY DEF IInv, HandlersAgree
<1>2. TaskOK(r)'
  BY <1>1 DEF TaskOK, Kept, Untouched
<1>3. stage[r] \in Working \ Creating =>
        /\ task[r].on \in Id /\ users'[task[r].on].email = users[task[r].on].email
        /\ companies[task[r].on].verified => companies'[task[r].on].verified
  BY <1>1 DEF TaskOK, Kept, IInv, TablesOK, RowsPaired
<1>4. HeldOK(r)'
  BY <1>1, <1>3, NoneAssumption DEF HeldOK, Kept, Untouched, Working, Creating
<1>5. OwnRows(r)'
  BY <1>1 DEF OwnRows, Untouched
<1> QED BY <1>2, <1>4, <1>5

\* Only r moves, and at most rows it may write are new.
Moves(r, s) ==
  /\ stage' = [stage EXCEPT ![r] = s]
  /\ \A q \in Request \ {r} : /\ task'[q] = task[q] /\ held'[q] = held[q]
                              /\ users[q] = NoRow => users'[q] = NoRow
                              /\ otps[q] = NoRow => otps'[q] = NoRow

\* It is enough to look at the handler that moves.
LEMMA OneMoves ==
  ASSUME IInv, Kept, NEW r \in Request, NEW s, Moves(r, s), TaskOK(r)', HeldOK(r)', OwnRows(r)'
  PROVE  HandlersAgree'
<1>1. \A q \in Request \ {r} : Untouched(q)
  BY DEF Moves, Untouched, IInv, AccountTypeOK
<1> QED BY <1>1, HandlerStays DEF HandlersAgree

\* A handler that has ended relies on nothing but its own rows.
LEMMA Ends ==
  ASSUME IInv, Kept, NEW r \in Request, NEW s \in {"returned", "rejected"}, Moves(r, s),
         stage[r] \in Working, s = "rejected" => otps'[r] = otps[r],
         task' = task, users'[r] # NoRow => task[r].kind = "create" /\ s = "returned" /\ task[r] \in Task
  PROVE  HandlersAgree'
<1>1. stage'[r] = s /\ OwnRows(r)
  BY DEF Moves, IInv, AccountTypeOK, HandlersAgree
<1>2. TaskOK(r)' /\ HeldOK(r)'
  BY <1>1 DEF TaskOK, HeldOK, Creating, Verifying, Approving, Working
<1>3. OwnRows(r)'
  BY <1>1 DEF OwnRows, Working
<1> QED BY <1>2, <1>3, OneMoves

\* Each handler's next await finds what the one before has established.
LEMMA HandlersStep == ASSUME IInv, [AccountNext]_accountVars PROVE HandlersAgree'
<1>0. Kept /\ AccountTypeOK /\ HandlersAgree
  BY TablesStep DEF IInv
<1>a. ASSUME NEW r \in Request, stage[r] \in Working
      PROVE  /\ TaskOK(r) /\ HeldOK(r) /\ OwnRows(r)
             /\ users[r] = NoRow /\ otps[r] = NoRow
  BY <1>a, <1>0 DEF HandlersAgree, OwnRows, Working
<1>b. ASSUME NEW r \in Request, stage[r] \in Working, Throw(r) PROVE HandlersAgree'
  <2>1. Moves(r, "rejected") /\ task' = task /\ otps' = otps /\ users' = users
    BY <1>b DEF Throw, GoOn, Moves, accountTables
  <2> QED BY <1>a, <1>b, <2>1, <1>0, Ends
<1>1. ASSUME NEW r \in Request, NEW t \in Askable, Ask(r, t) PROVE HandlersAgree'
  <2>1. /\ t \in Task /\ stage[r] = "idle" /\ OwnRows(r)
        /\ t.kind # "create" => t.on \in Id /\ users[t.on] # NoRow
    BY <1>1, <1>0, TaskFields DEF Askable, Ask, HandlersAgree
  <2>2. /\ Moves(r, FirstStage[t.kind]) /\ task'[r] = t /\ stage'[r] = FirstStage[t.kind]
        /\ UNCHANGED accountTables
    BY <1>1, <1>0 DEF Ask, GoOn, Moves, accountTables, AccountTypeOK
  <2>3. TaskOK(r)' /\ HeldOK(r)' /\ OwnRows(r)'
    BY <2>1, <2>2, TaskFields
       DEF FirstStage, TaskOK, HeldOK, OwnRows, Creating, Verifying, Approving, Working, accountTables
  <2> QED BY <2>2, <2>3, <1>0, OneMoves
<1>2. ASSUME NEW r \in Request, FindExisting(r) \/ SaveUser(r) \/ SaveCompany(r) \/ SendMail(r)
      PROVE  HandlersAgree'
  <2>1. stage[r] \in Creating /\ stage[r] \in Working
    BY <1>2 DEF FindExisting, SaveUser, SaveCompany, SendMail, Creating, Working
  <2>2. CASE Throw(r)
    BY <2>1, <2>2, <1>b
  <2>3. CASE ~Throw(r)
    <3>1. PICK s \in {"saveUser", "saveCompany", "sendMail", "commit"} :
            Moves(r, s) /\ UNCHANGED <<accountTables, task, held>>
      BY <1>2, <2>3
         DEF FindExisting, SaveUser, SaveCompany, SendMail, GoOn, Moves, accountTables
    <3>2. stage'[r] = s
      BY <3>1, <1>0 DEF Moves, AccountTypeOK
    <3>3. TaskOK(r)' /\ HeldOK(r)' /\ OwnRows(r)'
      BY <2>1, <3>1, <3>2, <1>a
         DEF TaskOK, HeldOK, OwnRows, Creating, Verifying, Approving, Working, accountTables
    <3> QED BY <3>1, <3>3, <1>0, OneMoves
  <2> QED BY <2>2, <2>3
<1>3. ASSUME NEW r \in Request, Commit(r) PROVE HandlersAgree'
  <2>1. stage[r] \in Working /\ task[r] \in Task /\ task[r].kind = "create"
    BY <1>3, <1>0 DEF Commit, Working, Creating, HandlersAgree, TaskOK
  <2>2. Moves(r, "returned") /\ task' = task
    BY <1>3, <1>0 DEF Commit, GoOn, Moves, AccountTypeOK, Id
  <2> QED BY <2>1, <2>2, <1>0, Ends
<1>4. ASSUME NEW r \in Request, FindOtp(r) \/ FindCompany(r) \/ SaveOtp(r) PROVE HandlersAgree'
  <2>1. stage[r] \in Verifying /\ stage[r] \in Working
    BY <1>4 DEF FindOtp, FindCompany, SaveOtp, Verifying, Working
  <2>2. CASE Throw(r)
    BY <2>1, <2>2, <1>b
  <2>3. CASE ~Throw(r)
    <3>0. /\ TaskOK(r) /\ HeldOK(r) /\ OwnRows(r) /\ task[r].on \in Id /\ users[task[r].on] # NoRow
          /\ companies[task[r].on] \in CompanyRow
      BY <2>1, <1>a, RowTypes DEF TaskOK, Working, Verifying, Creating, IInv, TablesOK, RowsPaired
    <3> DEFINE o == held[r].otp
               used == [otps[o] EXCEPT !.used = TRUE]
    <3>a. ASSUME SaveOtp(r)
          PROVE  /\ o \in Id /\ otps[o] \in OtpRow /\ otps[o] # NoRow
                 /\ used \in OtpRow /\ used.used = TRUE /\ used.user = otps[o].user
                 /\ otps' = [otps EXCEPT ![o] = used]
      <4>1. o \in Id /\ otps[o] \in OtpRow
        BY <3>a, <3>0 DEF SaveOtp, HeldOK
      <4>2. used \in OtpRow /\ used.used = TRUE /\ used.user = otps[o].user
        BY <4>1 DEF OtpRow
      <4>3. otps' = [otps EXCEPT ![o] = used]
        BY <3>a DEF SaveOtp
      <4> QED BY <4>1, <4>2, <4>3, NoneAssumption
    <3> HIDE DEF used
    <3>b. \A i \in Id : otps[i] = NoRow => otps'[i] = NoRow
      <4>1. CASE SaveOtp(r)
        BY <4>1, <3>a, <1>0 DEF AccountTypeOK
      <4>2. CASE ~SaveOtp(r)
        BY <1>4, <4>2, <2>3 DEF FindOtp, FindCompany, accountTables
      <4> QED BY <4>1, <4>2
    <3>1. /\ \E s \in {"findCompany", "saveOtp", "saveVerified"} : Moves(r, s) /\ stage'[r] = s
          /\ UNCHANGED <<users, companies, task>>
          /\ otps[r] = NoRow => otps'[r] = NoRow
      <4>1. PICK s \in {"findCompany", "saveOtp", "saveVerified"} :
              /\ GoOn(r, s) /\ UNCHANGED <<users, companies, task>>
              /\ \A q \in Request \ {r} : held'[q] = held[q]
        BY <1>4, <2>3, <1>0 DEF FindOtp, FindCompany, SaveOtp, accountTables, AccountTypeOK
      <4> QED BY <4>1, <3>b, <1>0 DEF GoOn, Moves, AccountTypeOK, Id
    <3>2. TaskOK(r)' /\ OwnRows(r)'
      BY <2>1, <3>0, <3>1, <1>a DEF TaskOK, OwnRows, Creating, Verifying, Approving, Working
    <3>3. HeldOK(r)'
      <4>1. CASE FindOtp(r)
        BY <2>3, <4>1, <1>0, <3>0, RowTypes DEF FindOtp, Matching, HeldOK, GoOn, accountTables, AccountTypeOK
      <4>2. CASE FindCompany(r)
        BY <4>2, <1>0, <3>0 DEF FindCompany, HeldOK, GoOn, accountTables, AccountTypeOK
      <4>3. CASE SaveOtp(r)
        <5>1. held' = held /\ task' = task /\ stage'[r] = "saveVerified"
          BY <4>3, <1>0 DEF SaveOtp, GoOn, AccountTypeOK
        <5>2. otps'[o] = used
          BY <4>3, <3>a, <1>0 DEF AccountTypeOK
        <5> QED BY <4>3, <5>1, <5>2, <3>a, <3>0 DEF SaveOtp, HeldOK
      <4> QED BY <1>4, <4>1, <4>2, <4>3
    <3> QED BY <3>1, <3>2, <3>3, <1>0, OneMoves
  <2> QED BY <2>2, <2>3
<1>5. ASSUME NEW r \in Request, FindVerified(r) \/ FindUpdated(r) \/ FindRemoved(r) \/ FindUser(r)
      PROVE  HandlersAgree'
  <2>1. stage[r] \in Working \ Creating
    BY <1>5 DEF FindVerified, FindUpdated, FindRemoved, FindUser, Creating, Working
  <2>2. CASE Throw(r)
    BY <2>1, <2>2, <1>b
  <2>3. CASE ~Throw(r)
    <3>0. /\ TaskOK(r) /\ OwnRows(r) /\ task[r].on \in Id /\ users[task[r].on] \in UserRow
          /\ companies[task[r].on] \in CompanyRow
          /\ users[task[r].on].active => companies[task[r].on].verified
      BY <2>1, <1>a, RowTypes DEF TaskOK, IInv, TablesOK, RowsPaired, ActiveIsVerified, Accounts
    <3>1. /\ \E s \in {"saveApproved", "saveUpdated", "saveRemoved", "savePassword"} :
               Moves(r, s) /\ stage'[r] = s
          /\ UNCHANGED <<accountTables, task>>
      BY <1>5, <2>3, <1>0
         DEF FindVerified, FindUpdated, FindRemoved, FindUser, GoOn, Moves, accountTables, AccountTypeOK
    <3>2. TaskOK(r)'
      BY <1>5, <2>3, <3>0, <3>1, <1>0
         DEF FindVerified, FindUpdated, FindRemoved, FindUser, GoOn, accountTables, AccountTypeOK,
             TaskOK, Creating, Verifying, Approving, Working
    <3>3. HeldOK(r)'
      BY <1>5, <2>3, <3>0, <3>1, <1>0
         DEF FindVerified, FindUpdated, FindRemoved, FindUser, GoOn, accountTables, AccountTypeOK, HeldOK
    <3>4. OwnRows(r)'
      BY <2>1, <3>0, <3>1 DEF OwnRows, accountTables, Working
    <3> QED BY <3>1, <3>2, <3>3, <3>4, <1>0, OneMoves
  <2> QED BY <2>2, <2>3
<1>6. ASSUME NEW r \in Request, SaveApproved(r) PROVE HandlersAgree'
  <2>1. stage[r] = "saveApproved" /\ stage[r] \in Working
    BY <1>6 DEF SaveApproved, Working
  <2>2. CASE Throw(r)
    BY <2>1, <2>2, <1>b
  <2>3. CASE ~Throw(r)
    <3>0. TaskOK(r) /\ HeldOK(r) /\ OwnRows(r) /\ task[r].on \in Id /\ companies[task[r].on] # NoRow
      BY <2>1, <1>a DEF TaskOK, Creating, Working, IInv, TablesOK, RowsPaired
    <3>1. /\ Moves(r, "saveActive") /\ stage'[r] = "saveActive"
          /\ UNCHANGED <<users, otps, task, held>>
      BY <1>6, <2>3, <1>0 DEF SaveApproved, WriteBack, GoOn, Moves, AccountTypeOK
    <3>2. TaskOK(r)' /\ OwnRows(r)'
      BY <2>1, <3>0, <3>1 DEF TaskOK, OwnRows, Creating, Verifying, Approving, Working
    <3>3. HeldOK(r)'
      BY <2>1, <3>0, <3>1, <1>0 DEF HeldOK, Kept
    <3> QED BY <3>1, <3>2, <3>3, <1>0, OneMoves
  <2> QED BY <2>2, <2>3
<1>7. ASSUME NEW r \in Request,
             \/ SaveVerified(r) \/ SaveActive(r) \/ SaveUpdated(r) \/ SaveRemoved(r)
             \/ SaveForgot(r) \/ SavePassword(r)
      PROVE  HandlersAgree'
  <2>1. stage[r] \in Working \ Creating
    BY <1>7 DEF SaveVerified, SaveActive, SaveUpdated, SaveRemoved, SaveForgot, SavePassword,
                Working, Creating
  <2>2. CASE Throw(r)
    BY <2>1, <2>2, <1>b
  <2>3. CASE ~Throw(r)
    <3>0. users[task[r].on] # NoRow /\ users[r] = NoRow
      BY <2>1, <1>a DEF TaskOK
    <3>1. /\ stage' = [stage EXCEPT ![r] = "returned"] /\ UNCHANGED <<task, held>>
          /\ \A i \in Id : users[i] = NoRow => users'[i] = NoRow
          /\ \A i \in Id \ {r} : otps[i] = NoRow => otps'[i] = NoRow
      BY <1>7, <2>3, <3>0, <1>0
         DEF SaveVerified, SaveActive, SaveUpdated, SaveRemoved, SaveForgot, SavePassword, WriteBack,
             GoOn, AccountTypeOK
    <3>2. Moves(r, "returned") /\ users'[r] = NoRow
      BY <3>0, <3>1 DEF Moves, Id
    <3> QED BY <2>1, <3>1, <3>2, <1>0, Ends
  <2> QED BY <2>2, <2>3
<1>8. ASSUME NEW r \in Request, Error(r) PROVE HandlersAgree'
  BY <1>8, <1>b DEF Error
<1>9. ASSUME NEW o \in Id, Expire(o) PROVE HandlersAgree'
  <2>1. \A r \in Request : Untouched(r)
    BY <1>9, <1>0 DEF Expire, accountHandlers, Untouched, AccountTypeOK
  <2> QED BY <2>1, <1>0, HandlerStays DEF HandlersAgree
<1>10. CASE Stop
  <2> SUFFICES ASSUME NEW r \in Request PROVE TaskOK(r)' /\ HeldOK(r)' /\ OwnRows(r)'
    BY DEF HandlersAgree
  <2>1. CASE stage[r] \in Working
    BY <1>10, <2>1, <1>a
       DEF Stop, TaskOK, HeldOK, OwnRows, accountTables, Creating, Verifying, Approving, Working
  <2>2. CASE stage[r] \notin Working
    BY <1>10, <2>2, <1>0, HandlerStays DEF Stop, Untouched, accountTables
  <2> QED BY <2>1, <2>2
<1>11. CASE UNCHANGED accountVars
  BY <1>11, <1>0, HandlerStays DEF accountVars, Untouched, HandlersAgree
<1> QED BY <1>1, <1>2, <1>3, <1>4, <1>5, <1>6, <1>7, <1>8, <1>9, <1>10, <1>11 DEF AccountNext, Serve

\* IInv is inductive.
LEMMA Invariance == AccountSpec => []IInv
<1>1. IInv /\ [AccountNext]_accountVars => IInv'
  BY TypeStep, TablesStep, HandlersStep DEF IInv
<1> QED BY AccountInitOK, <1>1, PTL DEF AccountSpec

-----------------------------------------------------------------------------
\* Type correctness, for every number of requests.
THEOREM AccountTypeCorrect == AccountSpec => []AccountTypeOK
  BY Invariance, PTL DEF IInv

\* However registrations and updates interleave, no two merchants share an email
\* and no two companies a name or an email.
THEOREM Accounts_AreUnique == AccountSpec => []UniqueAccounts
<1>1. IInv => UniqueAccounts
  BY DEF IInv, TablesOK, RowsPaired, Distinct, UniqueAccounts, Accounts
<1> QED BY <1>1, Invariance, PTL

\* A company is verified by an administrator's registration or by a used OTP.
THEOREM Verified_ByOtp == AccountSpec => []VerifiedByOtp
  BY Invariance, PTL DEF IInv, TablesOK

\* Active merchants and approved companies are verified.
THEOREM Active_IsVerified == AccountSpec => []ActiveIsVerified
  BY Invariance, PTL DEF IInv, TablesOK

\* No save of a stale company undoes a verification.
THEOREM Verification_IsKept == AccountSpec => VerificationIsKept
<1> DEFINE Stays == \A i \in Accounts : companies[i].verified => companies'[i].verified
<1>1. IInv /\ [AccountNext]_accountVars => Stays
  BY TablesStep DEF Kept, Accounts, IInv, TablesOK, RowsPaired
<1>2. IInv /\ [AccountNext]_accountVars => [Stays]_accountVars
  BY <1>1
<1> QED BY <1>2, Invariance, PTL DEF AccountSpec, VerificationIsKept
==============================================================================
