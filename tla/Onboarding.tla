----------------------------- MODULE Onboarding -----------------------------
(***************************************************************************)
(* Merchants and their companies: CompanyService.create, verifyOtp,        *)
(* approveCompany, update and remove, and AuthService.forgotPassword and   *)
(* resetPassword, which share the tables users, companies and otp.         *)
(*                                                                         *)
(* create runs in one database transaction: nobody sees its rows before it *)
(* commits, but the unique columns make other inserts of the same values   *)
(* wait for its end.  The other handlers await one query after the other.  *)
(* Their `save' writes back all columns of an entity read earlier, and     *)
(* `update' only the columns it names.                                     *)
(***************************************************************************)
EXTENDS Naturals

CONSTANTS
  Request,       \* HTTP requests; the rows a request inserts are named by it
  Old,           \* rows of merchants that registered earlier
  Email, Name, Password, Code,
  Registration,  \* bodies of POST /companies, with the caller's role
  Change,        \* new names and emails a PUT /companies/:id may carry
  Earlier,       \* [Old -> BodyType]: what the earlier merchants registered
  NoRow

Id       == Request \cup Old
BodyType == [email: Email, name: Name, password: Password, admin: BOOLEAN]

ASSUME RowAssumption  == Request \cap Old = {}
ASSUME BodyAssumption == /\ Registration \subseteq BodyType
                         /\ Change \subseteq [email: Email, name: Name]
                         /\ Earlier \in [Old -> BodyType]
ASSUME EarlierAssumption ==
  \A i, j \in Old : i # j => Earlier[i].email # Earlier[j].email /\ Earlier[i].name # Earlier[j].name

VARIABLES
  users,      \* users: the committed rows
  companies,  \* companies: the committed rows; row i belongs to user i
  otps,       \* otp: the committed rows
  task,       \* what each request asks
  held,       \* the entities in the memory of each handler
  stage       \* where the handler of each request is

accountTables   == <<users, companies, otps>>
accountHandlers == <<task, held, stage>>
accountVars     == <<users, companies, otps, task, held, stage>>

UserRow    == [email: Email, password: Password, active: BOOLEAN]
CompanyRow == [email: Email, name: Name, verified: BOOLEAN,
               status: {"PENDING", "APPROVED"}, deleted: BOOLEAN]
OtpRow     == [user: Id, code: Code, type: {"CREATE_ACCOUNT", "FORGOT_PASSWORD"},
               used: BOOLEAN, expired: BOOLEAN]

ASSUME NoneAssumption == NoRow \notin UserRow \cup CompanyRow \cup OtpRow

Task == [kind: {"create"}, body: Registration]
        \cup [kind: {"verify"}, on: Id, code: Code, type: {"CREATE_ACCOUNT", "FORGOT_PASSWORD"}]
        \cup [kind: {"approve", "remove", "forgot"}, on: Id]
        \cup [kind: {"update"}, on: Id, to: Change]
        \cup [kind: {"reset"}, on: Id, password: Password]

\* The first await of the handler of each kind of request.
FirstStage == [create |-> "findExisting", verify |-> "findOtp", approve |-> "findVerified",
               update |-> "findUpdated", remove |-> "findRemoved",
               forgot |-> "saveForgot", reset |-> "findUser"]

Working == {"findExisting", "saveUser", "saveCompany", "sendMail", "commit", "findOtp",
            "findCompany", "saveOtp", "saveVerified", "findVerified", "saveApproved",
            "saveActive", "findUpdated", "saveUpdated", "findRemoved", "saveRemoved",
            "saveForgot", "findUser", "savePassword"}

-----------------------------------------------------------------------------
(* Rows. *)

\* What create inserts for body b.
NewUser(b)     == [email |-> b.email, password |-> b.password, active |-> b.admin]
NewCompany(b)  == [email |-> b.email, name |-> b.name, verified |-> b.admin,
                   status |-> IF b.admin THEN "APPROVED" ELSE "PENDING", deleted |-> FALSE]
\* Mutant: the code is left out.
NewOtpNoCode(i, code, type) ==
  [user |-> i, code |-> NoRow, type |-> type, used |-> FALSE, expired |-> FALSE]
NewOtp(i, code, type) ==
  [user |-> i, code |-> code, type |-> type, used |-> FALSE, expired |-> FALSE]

NotHeld == [user |-> NoRow, company |-> NoRow, otp |-> NoRow]

\* Mutant: an exception does not roll the transaction back.
OpenCompaniesKept ==
  {q \in Request : \/ stage[q] \in {"sendMail", "commit"}
                   \/ stage[q] = "rejected" /\ task[q].kind = "create"}

\* Transactions that have inserted their user, or their company, and are open.
OpenUsers     == {q \in Request : stage[q] \in {"saveCompany", "sendMail", "commit"}}
OpenCompanies == {q \in Request : stage[q] \in {"sendMail", "commit"}}

\* Unique columns: row i may have this email, or this company name and email.
UserFree(i, email) ==
  \A j \in Id \ {i} : users[j] # NoRow => users[j].email # email
CompanyFree(i, name, email) ==
  \A j \in Id \ {i} : companies[j] # NoRow =>
    companies[j].email # email /\ companies[j].name # name

\* No open transaction holds the values: the statement need not wait.
UserUnlocked(i, email) == \A q \in OpenUsers \ {i} : task[q].body.email # email
CompanyUnlocked(i, name, email) ==
  \A q \in OpenCompanies \ {i} : task[q].body.email # email /\ task[q].body.name # name

-----------------------------------------------------------------------------
AccountInit ==
  \E code \in Code :
    /\ users     = [i \in Id |-> IF i \in Old THEN NewUser(Earlier[i]) ELSE NoRow]
    /\ companies = [i \in Id |-> IF i \in Old THEN NewCompany(Earlier[i]) ELSE NoRow]
    /\ otps = [i \in Id |-> IF i \in Old /\ ~Earlier[i].admin
                            THEN NewOtp(i, code, "CREATE_ACCOUNT") ELSE NoRow]
    /\ task  = [r \in Request |-> NoRow]
    /\ held  = [r \in Request |-> NotHeld]
    /\ stage = [r \in Request |-> "idle"]

GoOn(r, s) == stage' = [stage EXCEPT ![r] = s]

\* An exception: the handler ends, an open transaction is rolled back.
Throw(r) == GoOn(r, "rejected") /\ UNCHANGED <<accountTables, task, held>>

\* Requests that name an id have it from an answer or a list.
Askable == {t \in Task : t.kind = "create" \/ users[t.on] # NoRow}

\* A request arrives.
Ask(r, t) ==
  /\ stage[r] = "idle"
  /\ GoOn(r, FirstStage[t.kind])
  /\ task' = [task EXCEPT ![r] = t]
  /\ UNCHANGED <<accountTables, held>>

(* POST /companies *)

\* manager.findOne(Company) and manager.findOne(User), of committed rows
FindExisting(r) ==
  LET b == task[r].body IN
  /\ stage[r] = "findExisting"
  /\ \/ /\ CompanyFree(r, b.name, b.email) /\ UserFree(r, b.email)
        /\ GoOn(r, "saveUser")
        /\ UNCHANGED <<accountTables, task, held>>
     \/ ~(CompanyFree(r, b.name, b.email) /\ UserFree(r, b.email)) /\ Throw(r)

\* manager.save(user)
SaveUser(r) ==
  LET b == task[r].body IN
  /\ stage[r] = "saveUser"
  /\ UserUnlocked(r, b.email)
  /\ \/ /\ UserFree(r, b.email)
        /\ GoOn(r, "saveCompany")
        /\ UNCHANGED <<accountTables, task, held>>
     \/ ~UserFree(r, b.email) /\ Throw(r)

\* Mutant: companies.name and companies.email are not unique.
SaveCompanyUnchecked(r) ==
  /\ stage[r] = "saveCompany"
  /\ GoOn(r, IF task[r].body.admin THEN "commit" ELSE "sendMail")
  /\ UNCHANGED <<accountTables, task, held>>

\* manager.save(company), its link from the user, and the OTP of a merchant
SaveCompany(r) ==
  LET b == task[r].body IN
  /\ stage[r] = "saveCompany"
  /\ CompanyUnlocked(r, b.name, b.email)
  /\ \/ /\ CompanyFree(r, b.name, b.email)
        /\ GoOn(r, IF b.admin THEN "commit" ELSE "sendMail")
        /\ UNCHANGED <<accountTables, task, held>>
     \/ ~CompanyFree(r, b.name, b.email) /\ Throw(r)

\* The OTP is sent by mail or SMS while the transaction is open.
SendMail(r) ==
  /\ stage[r] = "sendMail"
  /\ GoOn(r, "commit")
  /\ UNCHANGED <<accountTables, task, held>>

\* commitTransaction
Commit(r) ==
  LET b == task[r].body IN
  /\ stage[r] = "commit"
  /\ users' = [users EXCEPT ![r] = NewUser(b)]
  /\ companies' = [companies EXCEPT ![r] = NewCompany(b)]
  /\ \/ b.admin /\ UNCHANGED otps
     \/ ~b.admin /\ \E code \in Code :
          otps' = [otps EXCEPT ![r] = NewOtp(r, code, "CREATE_ACCOUNT")]
  /\ GoOn(r, "returned")
  /\ UNCHANGED <<task, held>>

(* POST /companies/verify-otp *)

Matching(t) == {o \in Id : /\ otps[o] # NoRow /\ ~otps[o].used
                           /\ otps[o].user = t.on /\ otps[o].code = t.code
                           /\ otps[o].type = t.type}

\* otpRepo.findOne, then the test of expireAt
FindOtp(r) ==
  LET found == Matching(task[r]) IN
  /\ stage[r] = "findOtp"
  /\ \/ \E o \in found : /\ ~otps[o].expired
                         /\ held' = [held EXCEPT ![r].otp = o]
                         /\ GoOn(r, "findCompany")
                         /\ UNCHANGED <<accountTables, task>>
     \/ (found = {} \/ \E o \in found : otps[o].expired) /\ Throw(r)

\* companyRepo.findOne of the user's company
FindCompany(r) ==
  /\ stage[r] = "findCompany"
  /\ held' = [held EXCEPT ![r].company = companies[task[r].on]]
  /\ GoOn(r, "saveOtp")
  /\ UNCHANGED <<accountTables, task>>

\* Mutant: the OTP is not used up.
SaveOtpUnused(r) ==
  /\ stage[r] = "saveOtp"
  /\ GoOn(r, "saveVerified")
  /\ UNCHANGED <<accountTables, task, held>>

\* otpRepo.save(otp)
SaveOtp(r) ==
  /\ stage[r] = "saveOtp"
  /\ otps' = [otps EXCEPT ![held[r].otp].used = TRUE]
  /\ GoOn(r, "saveVerified")
  /\ UNCHANGED <<users, companies, task, held>>

\* companyRepo.save of row i as it is held, changed to `row'.
WriteBack(r, i, row, next) ==
  /\ CompanyUnlocked(i, row.name, row.email)
  /\ \/ /\ CompanyFree(i, row.name, row.email)
        /\ companies' = [companies EXCEPT ![i] = row]
        /\ GoOn(r, next)
        /\ UNCHANGED <<users, otps, task, held>>
     \/ ~CompanyFree(i, row.name, row.email) /\ Throw(r)

\* companyRepo.save(company)
SaveVerified(r) ==
  /\ stage[r] = "saveVerified"
  /\ WriteBack(r, task[r].on, [held[r].company EXCEPT !.verified = TRUE], "returned")

(* PATCH /companies/:id/approve *)

\* Mutant: without isOtpVerified in the look-up.
FindAnyCompany(r) ==
  /\ stage[r] = "findVerified"
  /\ held' = [held EXCEPT ![r].company = companies[task[r].on],
                          ![r].user = users[task[r].on]]
  /\ GoOn(r, "saveApproved")
  /\ UNCHANGED <<accountTables, task>>

\* companyRepo.findOne with isOtpVerified, and the company's user
FindVerified(r) ==
  LET i == task[r].on IN
  /\ stage[r] = "findVerified"
  /\ \/ /\ companies[i].verified
        /\ held' = [held EXCEPT ![r].company = companies[i], ![r].user = users[i]]
        /\ GoOn(r, "saveApproved")
        /\ UNCHANGED <<accountTables, task>>
     \/ ~companies[i].verified /\ Throw(r)

\* companyRepo.save(company)
SaveApproved(r) ==
  /\ stage[r] = "saveApproved"
  /\ WriteBack(r, task[r].on, [held[r].company EXCEPT !.status = "APPROVED"], "saveActive")

\* userRepo.save(company.user)
SaveActive(r) ==
  /\ stage[r] = "saveActive"
  /\ users' = [users EXCEPT ![task[r].on] = [held[r].user EXCEPT !.active = TRUE]]
  /\ GoOn(r, "returned")
  /\ UNCHANGED <<companies, otps, task, held>>

(* PUT and DELETE /companies/:id *)

\* findOne; the entity is not used any more
FindUpdated(r) ==
  /\ stage[r] = "findUpdated"
  /\ GoOn(r, "saveUpdated")
  /\ UNCHANGED <<accountTables, task, held>>

\* companyRepo.update(id, dto)
SaveUpdated(r) ==
  /\ stage[r] = "saveUpdated"
  /\ WriteBack(r, task[r].on, [companies[task[r].on] EXCEPT !.name = task[r].to.name,
                                                          !.email = task[r].to.email], "returned")

FindRemoved(r) ==
  /\ stage[r] = "findRemoved"
  /\ held' = [held EXCEPT ![r].company = companies[task[r].on]]
  /\ GoOn(r, "saveRemoved")
  /\ UNCHANGED <<accountTables, task>>

\* Mutant: the entity is saved instead of the column updated.
SaveRemovedEntity(r) ==
  /\ stage[r] = "saveRemoved"
  /\ companies' = [companies EXCEPT ![task[r].on] = [held[r].company EXCEPT !.deleted = TRUE]]
  /\ GoOn(r, "returned")
  /\ UNCHANGED <<users, otps, task, held>>

\* companyRepo.update(id, { softDelete: true })
SaveRemoved(r) ==
  /\ stage[r] = "saveRemoved"
  /\ companies' = [companies EXCEPT ![task[r].on].deleted = TRUE]
  /\ GoOn(r, "returned")
  /\ UNCHANGED <<users, otps, task, held>>

(* POST /auth/forgot-password and /auth/reset-password *)

\* otpRepo.save of a new row; the mail that follows changes nothing
SaveForgot(r) ==
  /\ stage[r] = "saveForgot"
  /\ \E code \in Code :
       otps' = [otps EXCEPT ![r] = NewOtp(task[r].on, code, "FORGOT_PASSWORD")]
  /\ GoOn(r, "returned")
  /\ UNCHANGED <<users, companies, task, held>>

\* userRepo.findOne; the new password must differ
FindUser(r) ==
  LET user == users[task[r].on] IN
  /\ stage[r] = "findUser"
  /\ \/ /\ user.password # task[r].password
        /\ held' = [held EXCEPT ![r].user = user]
        /\ GoOn(r, "savePassword")
        /\ UNCHANGED <<accountTables, task>>
     \/ user.password = task[r].password /\ Throw(r)

\* userRepo.save(user)
SavePassword(r) ==
  /\ stage[r] = "savePassword"
  /\ users' = [users EXCEPT ![task[r].on] = [held[r].user EXCEPT !.password = task[r].password]]
  /\ GoOn(r, "returned")
  /\ UNCHANGED <<companies, otps, task, held>>

-----------------------------------------------------------------------------
\* A query or the mail server fails, or a field of the body is refused.
Error(r) == stage[r] \in Working /\ Throw(r)

\* Ten minutes pass.
Expire(o) ==
  /\ otps[o] # NoRow /\ ~otps[o].expired
  /\ otps' = [otps EXCEPT ![o].expired = TRUE]
  /\ UNCHANGED <<users, companies, accountHandlers>>

\* The process stops; the database rolls open transactions back.
Stop ==
  /\ stage' = [r \in Request |-> IF stage[r] \in Working THEN "lost" ELSE stage[r]]
  /\ UNCHANGED <<accountTables, task, held>>

Serve(r) ==
  \/ FindExisting(r) \/ SaveUser(r) \/ SaveCompany(r) \/ SendMail(r) \/ Commit(r)
  \/ FindOtp(r) \/ FindCompany(r) \/ SaveOtp(r) \/ SaveVerified(r)
  \/ FindVerified(r) \/ SaveApproved(r) \/ SaveActive(r)
  \/ FindUpdated(r) \/ SaveUpdated(r) \/ FindRemoved(r) \/ SaveRemoved(r)
  \/ SaveForgot(r) \/ FindUser(r) \/ SavePassword(r)

AccountNext ==
  \/ \E r \in Request : (\E t \in Askable : Ask(r, t)) \/ Serve(r) \/ Error(r)
  \/ \E o \in Id : Expire(o)
  \/ Stop

\* Queries settle and resume their handler; statements that wait for another
\* transaction are resumed when it ends.  That a mail or an SMS settles too is
\* assumed of the environment: an SMS is posted without a timeout.
AccountSpec == /\ AccountInit /\ [][AccountNext]_accountVars
               /\ \A r \in Request : WF_accountVars(Serve(r))

-----------------------------------------------------------------------------
(* Properties. *)

Accounts == {i \in Id : users[i] # NoRow}

AccountTypeOK ==
  /\ users \in [Id -> UserRow \cup {NoRow}]
  /\ companies \in [Id -> CompanyRow \cup {NoRow}]
  /\ otps \in [Id -> OtpRow \cup {NoRow}]
  /\ task \in [Request -> Task \cup {NoRow}]
  /\ held \in [Request -> [user: UserRow \cup {NoRow}, company: CompanyRow \cup {NoRow},
                           otp: Id \cup {NoRow}]]
  /\ stage \in [Request -> {"idle", "returned", "rejected", "lost"} \cup Working]

\* Although create looks for existing rows in one query and inserts in others,
\* and update and the saves of stale entities write names and emails too, no
\* two merchants share an email and no two companies a name or an email.
UniqueAccounts ==
  \A i, j \in Accounts : i # j =>
    /\ users[i].email # users[j].email
    /\ companies[i].email # companies[j].email
    /\ companies[i].name # companies[j].name

\* A company counts as verified only if an administrator created it or one of
\* its merchant's OTPs has been used up, whatever the handlers' entities say.
VerifiedByOtp ==
  \A i \in Request \cap Accounts :
    companies[i].verified =>
      task[i].body.admin \/ \E o \in Id : otps[o] # NoRow /\ otps[o].user = i /\ otps[o].used

\* Only merchants of verified companies may log in, and only verified companies
\* are approved: two rows saved in separate queries, from entities of one read.
ActiveIsVerified ==
  \A i \in Accounts :
    users[i].active \/ companies[i].status = "APPROVED" => companies[i].verified

\* A verification is never lost, although approvals, removals and updates of the
\* same row, which may have been read before it, are written afterwards.
VerificationIsKept ==
  [][\A i \in Accounts : companies[i].verified => companies'[i].verified]_accountVars

\* Every request is answered or lost, as long as each mail and SMS settles: the
\* transactions that wait for each other's unique values never wait in a circle.
EveryAccountRequestEnds ==
  \A r \in Request : stage[r] \in Working ~> stage[r] \notin Working
=============================================================================
