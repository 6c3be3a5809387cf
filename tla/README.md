# A verification of the AlphaPo gateway server

This directory holds TLA+ specifications of the gateway server (NestJS,
TypeORM 0.3, PostgreSQL, Redis), TLC configurations that model-check them on
small instances, and TLAPS proofs of what matters most for instances of every
size. Paths such as `src/transactions/...` are those of the repository.

## 1. The system

One Node.js process serves HTTP requests. Merchants ask it for deposit
addresses; the payment provider AlphaPo issues them, and reports deposits and
withdrawals by webhook; the server books these on companies and keeps their
balances. Around this core are the onboarding of merchants, sessions, roles and
permissions, and a catalogue of currencies.

| Component | State it keeps | Operations |
|---|---|---|
| Deposit callbacks (`transaction-callback.service.ts` 82-169, 268-283) | `crypto_addresses`, `callback_logs`, `deposits` with `deposit_transactions` and `deposit_fees`, `balances` | `POST` webhook of type `deposit` |
| Withdrawal callbacks (same file, 172-266, 284-302) | `callback_logs`, `withdrawals` with their transactions and fees, `balances`; reads `deposit_transactions` | webhook of type `withdrawal` |
| Deposit addresses (`deposit.service.ts`, `alphapo.service.ts`) | `crypto_addresses`; at the provider, the addresses issued to a `foreign_id` | create an address, set its status, `POST /create-address` |
| Merchant onboarding (`company.service.ts`, `auth.service.ts` 206-278) | `users`, `companies`, `otp` | register, verify an OTP, approve, update, remove, forget and reset a password |
| Sessions (`auth.service.ts` 40-204, `refresh-token.service.ts`, `jwt-auth.guard.ts`, `optional-jwt-auth.guard.ts`) | `refresh_tokens`, the blacklist in Redis | login, refresh, logout |
| Roles, permissions, menus | `roles`, `permissions`, `menus`, their join tables, the permission cache in Redis | create, update, delete, assign; the guards read |
| Currencies | `currencies` | synchronise (every 6 hours, and on an empty list), set the visibility |
| Generic queries (`generic-query.service.ts`) | none | builds the SELECT of every list from its filters, search, order and page |
| Seeding (`scripts/seeds`) | all tables of an empty database | `npm run seed`, `npm run seed:reset` |
| Provider proxy, upload, mail, SMS, filters, interceptors, configuration | none of their own | pass data on |

How they interact: handlers never call each other; they share tables. Deposit
addresses and deposit callbacks both insert into `crypto_addresses`. Both kinds
of callbacks read and write `balances`, and withdrawal callbacks look for known
transactions in the table of the deposits. Onboarding handlers, and
`AuthService`, read, change in memory and save rows of `users` and `companies`.

What is hard: every `await` lets other handlers run, and almost no handler uses
a transaction (`CompanyService.create` is the only one). A handler decides on
what it read one or more awaits ago, and `save` writes back the entity it holds.
Each query may fail and end the handler halfway. The webhook answers 200 even
then, so that the provider does not repeat what was lost, but may repeat what
was done. The process may stop between any two queries. The hazards this
leads to are listed, with their lines, in `PROJECT.json`.

What makes each component correct, in short:

* deposit callbacks: a blockchain transaction is booked once; everything a
  callback writes names one company; no credit without a deposit, no more
  credited than was announced; a confirmed callback is booked and credited
  unless something fails;
* withdrawal callbacks: a processed log names a saved withdrawal; the status of a
  withdrawal was reported for it; only recorded, confirmed withdrawals debit;
* deposit addresses: a merchant is only told an address that is on record for
  its company; rows are never moved; nothing but the provider holds a request up;
* deposit addresses and callbacks together: a row names the company of the user the
  provider issued the address to, unless a callback saved it first, under company 1;
  who is told an address gets the deposits to it;
* onboarding: accounts are unique, only verified companies are approved or
  active, a verification is never lost, transactions never wait in a circle;
* roles and permissions: nothing refers to a row that is gone, no role holds what
  it was not given, roles in use stay, and nobody is admitted with a permission
  that was never granted to a role of theirs, though it may have been revoked;
* sessions: after its logout `JwtAuthGuard` keeps a token out if one blank precedes
  it in the header (other headers, and `OptionalJwtAuthGuard`, do not, see section 3);
  a request ends one session at most, one like the refresh token it carries, which a
  logout only decodes; whoever has just logged in is served;
* currencies: what staff decide stands, fees come to agree with the provider,
  and reading a list page by page misses nothing that stays on it;
* generic queries: a list that sets `filters.companyId` shows only rows of that
  company; an enforced filter holds unless the caller filters by its column; in one
  order of the rows, each is on exactly one page;
* seeding: a run that completes leaves everything seeded.

## 2. Modules

| Module | Models |
|---|---|
| `TransactionRegistry` | the abstract promise of the deposit tables: a write-once registry of transactions |
| `DepositCallback` | `handleAlphapoCallback` and `handleDepositCallback`, `increaseBalance` |
| `WithdrawalCallback` | `handleWithdrawalCallback`, `decreaseBalance` |
| `CallbackGateway` | both callback handlers over shared `balances` |
| `DepositAddress` | `createAddressForUser`, `updateAddressStatus`, `POST /create-address`, the provider's books |
| `DepositFlow` | address requests and deposit callbacks over shared `crypto_addresses` |
| `Onboarding` | registration, verification, approval, update, removal, passwords |
| `AccessControl` | roles, permissions, menus, the guards of `RoleController`, the permission cache |
| `Sessions` | login, refresh, logout, `JwtAuthGuard`, `OptionalJwtAuthGuard`, `refresh_tokens` and the blacklist |
| `GenericQuery` | which rows a list shows: operators without state |
| `CurrencyCatalogue` | synchronisation, the job, `updateCurrencyStatus`, a client that reads the list through `GenericQuery` |
| `Seeding` | the seed script, interrupted and run again |
| `..._proofs` | theorems about a module, with their proofs: `DepositCallback`, `CallbackGateway`, `WithdrawalCallback`, `Onboarding`, `AccessControl`, `Sessions`; `DepositFlow_proofs` is about `DepositAddress` and `DepositFlow`, `ReferenceData_proofs` about `CurrencyCatalogue`, `GenericQuery` and `Seeding` |
| `MC...` | instances of these for TLC |

### The common shape

A handler is a sequence of awaited queries. Each module has a variable (`pc` or
`stage`) that says at which await the handler of each delivery or request is,
variables for the entities in its memory (`owner`, `loaded`, `entity`, `held`),
and one variable per table. **One action is one awaited query together with the
synchronous code up to the next await**; this is the granularity at which
Node.js and PostgreSQL interleave handlers. `findOne` over several matching
rows returns any of them (there is no `ORDER BY`). A `save` that cascades is one
database transaction, hence one action. A `save` of a loaded entity writes all
the columns as loaded. TypeORM in fact reads the row once more and updates the columns
that differ from it; what another handler writes between these two queries
survives in a column that did not differ. Only `CurrencyCatalogue` takes the two apart,
where what is lost depends on it. Elsewhere (`WriteBack` in `Onboarding`, for one) they
are one action that overwrites more than the code may; the properties stated there do
not depend on which column survives. Unique indexes make an insert throw; `Reject` and `Throw`
end the handler and leave what was written before. Every await may also fail for
a reason outside the model (`Fail`, `Error`), and the process may stop at any
time (`Crash`, `Stop`, `StopAll`): handlers in flight are `lost`, tables stay.
Rows inserted by a request are named by it, in place of a generated id.

Abstractions: amounts are naturals, so roundings of binary floating point are
left out; contents of messages, wording, logging and the layout of rows are
left out; times are left out, except that an OTP may expire at any moment.
Signatures match or do not match.

### DepositCallback

`FindAddress` and `SaveAddress` are lines 82-96 of the service, `SaveLog` the
log row and the status test (98-110), `FindTx` and `SaveDeposit` the known
transactions and the cascaded insert (111-160), `FindBalance` and `SaveBalance`
are `increaseBalance` (162-167, 268-283). `balances[..].credits` is a history
variable: the deliveries summed up in a row. No action reads it.

### WithdrawalCallback

`SaveLog` (172-181), `FindWithdrawal` with the status map (183-211), `FindTx`
(212-238), `SaveWithdrawal` (239-249), `UpdateLog` (250-257), `FindBalance` and
`SaveBalance` are `decreaseBalance` (284-302). `where: { requestId: undefined }`
and `where: { companyId: undefined }` match every row in TypeORM 0.3, which
`Matching` and `RowsFor` model. Transactions and fees of a withdrawal require a
`companyId` (`withdrawal-transaction.entity.ts` 16-17, `withdrawal-fee.entity.ts` 13-15)
that the handler never sets, so a save that cascades to a new one is rolled back
(`Savable`): both tables stay empty and are no variables. What can be saved is a
withdrawal whose body brings no fees, and no transactions or some of which one is a
deposit's, in which case none is attached.

The constant `CompanyRequired` chooses the schema. The entities declare
`callback_logs.companyId` NOT NULL, and the handler does not set it; with this
schema the first query fails always, and nothing else of the handler is
reachable. The run `withdrawal_schema` shows just that. All other runs take this one
column as nullable, to say something of the rest of the handler.

### CallbackGateway

It extends `DepositCallback`, whose variables the deposit handlers keep, and has an
instance `W` of `WithdrawalCallback` with variables of its own except `balances`.
The withdrawals' `depositTxids` are the transactions of saved deposits, and their
balance rows those the deposits inserted. One process serves both: `StopBoth` stops
all handlers at once.

### DepositAddress and DepositFlow

`Lookup`, `FindExisting`, `Take` and `SaveNew` are the four steps the comments
in `createAddressForUser` number. The provider is external and modelled from its
use: it issues an address nobody has, or one the same `foreign_id` already has
(`Issuable`). The other writer of `crypto_addresses`, a deposit callback for an address
without a row, is one step of `DepositAddress` (`InsertByCallback`). `DepositFlow` has its
handler in place of it: `DepositFlow` extends `DepositAddress` and has an instance `D` of
`DepositCallback` over the same `addresses`; a deposit is reported only to an address
that has been issued.

### Onboarding

`create` runs in one transaction: `FindExisting`, `SaveUser`, `SaveCompany`
(with the link and the OTP row, which no one else can see or collide with),
`SendMail`, `Commit`. Rows become visible with `Commit`; until then their
unique values are locked (`OpenUsers`, `OpenCompanies`), and another insert or
update of an equal value waits. A failure and a crash roll back. The other
handlers have no transaction.

### AccessControl

Permissions and menus are rows of two tables that work alike, so one set of
actions serves both; the differences are in `CheckItem` (only the slug of a
permission is looked for), and in `UpdatePermission` and `SaveMenu`: the first is
an UPDATE of an existing row, the second a `save` of the menu with the roles it
was loaded with. A role is one record with what `role_permissions` and
`role_menus` hold for it. `save` of a role writes back all the relations it was
loaded with: both lists and, in `updateRole`, its users (`RolesWith`); a row that
was deleted meanwhile is inserted again, which is how TypeORM treats an entity
with an id it does not find. Join rows have foreign keys that delete with their
row (the TypeORM default), `users.roleId` has one that refuses.

A request to `RoleController` passes `RolesGuard` (in `Ask`, by the role name
that login put into the token), `InjectPermissionsGuard` (`Inject`, `LoadGrants`,
`FillCache`) and `PermissionsGuard`, which runs in the same step as the last
await before it. The permission and menu controllers have only `JwtAuthGuard`.
What the guard loads on a cache miss lands in an inner variable, so `FillCache`
ends in a refusal, and only a list that an earlier request of the user has stored
admits one (`Inject`). Every request has a token of its own, signed at some earlier
login (`LogIn`), so two requests of one user may name different roles. `GET role/:id`
is the task `viewRole`; the list of roles reads likewise and is left out. Titles and descriptions are left out.

### Sessions

The access and the refresh token of one answer are signed in the same second for
the same user; one record stands for both. `FindUser`, `ComparePassword` and
`SaveRow` are login; `GetBlacklist` and `Verify` are `JwtAuthGuard` in front of
`FindValid`, `FindActive`, `Revoke` and `SaveRow` (refresh), `Blacklist`,
`FindValid` and `Revoke` (logout), and of a merchant's list. A row keeps the
bcrypt hash of its token, and bcrypt reads 72 bytes: `LooksLike` says which tokens
`findValid` cannot tell apart, all those of one user and company, or, without a
company, all those whose second of issue begins with the same digits. The clock
moves at any time (`Tick`), also between the computation of a ttl and the `SET`
that uses it.

A request carries an access token that was answered (`Known`), whose signature
passport verifies. Its refresh token (`Carried`) was answered too if `refresh` is to
verify it; `logout` only decodes it, so there it may also be one of `Invented`, which
nobody was given. `JwtAuthGuard` looks up what follows the first blank of the header
(`split(' ')[1]`), passport verifies what follows all of them: `blanks` says that
there are several, and then `GetBlacklist` finds no entry, and a logout throws because
it has nothing to decode. `OptionalJwtAuthGuard`, in front of `POST /companies`
(`create`), reads no blacklist and goes on unauthenticated with a token that is not
valid. The handler behind it is in `Onboarding`; here the request ends with the guard.

### GenericQuery and CurrencyCatalogue

`GenericQuery` translates `query` into operators: `SafeFilters` and `Enforced` are
the two groups of filters, `Parameter` the value their shared parameter is bound
to, `Matches` the WHERE clause, `Rankings` the orders the database may choose
(rows equal in the column of ORDER BY may come in any order, and in another one
with the next query), `Skipped`, `Limit` and `OnPage` the page. `Items` is the set
of answers the query can give. Left out are the columns hidden by
`excludedFields`, numeric strings in filters, and the total, which a second
query counts.

`CurrencyCatalogue` uses it for `GET /currencies`. A synchronisation fetches the
provider's list (`Fetch`) and then upserts currency by currency (`Upsert`). One fee stands for the columns it writes. `save` in
`updateCurrencyStatus` reads the row once more (`LoadForSave`) and writes the
columns in which the entity differs from it (`SaveStatus`): here the two queries
are two steps, because what the synchronisation writes between them decides
what is lost. `List` is a client that asks for page after page until one
is empty; an empty answer makes the service synchronise and ask once more. A negative
limit, which `query` passes on, is refused by the database, and the list fails.

### Seeding

`step` is the step of `seed.ts` that comes next. Roles, menus and permissions are
written as a whole; `mapPermissionsToRolesAndMenus` adds and then removes, role by
role, permissions and then menus. `Interrupt` ends a run before any step;
`StartReset` truncates the three tables with what refers to them, but for those that
can not be truncated, which `reset-and-seed.ts` passes over.

## 3. Runs

Passing runs (every property has a mutant of the code under which TLC finds it
violated):

| Run | Bounds | Shows |
|---|---|---|
| `deposit_callbacks` | 3 deliveries, 4 bodies, 2 addresses and companies | types, `OneDepositPerTransaction`, `OneCompanyPerCallback`, `CreditFollowsDeposit`, `NoUnbackedCredit`, the inductive invariant, and that the tables implement `TransactionRegistry` |
| `withdrawal_callbacks` | 3 deliveries, 6 bodies of all statuses, with and without request id, with transactions (one a deposit's) and with fees | `ProcessedIsSaved`, `StatusWasReported`, `DebitIsOnRecord` |
| `callback_gateway` | 2 deposits, 1 withdrawal | balances within their credits, soundness and total of credits under foreign writes; every callback ends, confirmed ones are settled |
| `deposit_addresses` | 2 requests, 3 users (of two companies, one the default, and of none), 3 addresses of 2 currencies, rows inserted by callbacks | told addresses are owned, rows are stable, nothing but the provider holds a request up |
| `deposit_flow` | 2 deliveries, 2 requests, 2 companies of which one is the default | `RowAgreesWithProvider`, `ToldThenBooked`, `FirstRowDecides` |
| `onboarding` | 3 requests around one earlier merchant, 2 registrations and 1 update that collide | unique accounts, verification before approval and activity, verification kept, requests end |
| `access_control` | 3 requests with 18 tasks, 3 roles, 3 permissions, 2 menus, a merchant who registers meanwhile, a cold or a warm cache | references, grants, needed roles, `AdmittedByGrant` |
| `sessions` | 4 requests, a merchant and a user without a company, tokens of one second, a clock of 1, one refresh token nobody was given | `LoggedOutStaysOut`, sessions are counted, who logs in is served |
| `catalogue` | 2 currencies, 2 fees, 1 status request, pages of one row of 2 lists and a limit of -1, 1 change of the offer, 1 failure or crash | decisions of staff stand, a walk through the pages misses nothing, fees catch up |

Why these bounds are enough: a race between look-up and write needs two
handlers; the third delivery (or request) gives a repeated call, or a writer
that changes the row in between. Bodies are chosen to collide: they share an
address, a transaction, or a request id, and one shares transactions with two
others. The tokens in `sessions` live for one second to leave room for four
requests of four kinds; that the entry of a logout lasts as long as any token,
whatever its life, is what the proof adds. Two companies are needed for a wrong attribution, and two addresses or
currencies for a wrong row. `MaxBalance` lets the largest sums overflow.
Four requests to `Sessions` are a login, another login or a refresh with the same
token, a logout, and a request that arrives late. Three requests to `AccessControl`
are one that makes the cache stale, one that stores or uses a list, and one more
writer. In `catalogue` a single status
request and a single change already meet two synchronisations (the job's and that
of an empty list), which is where a stale write comes from. Deliveries and
requests are interchangeable, so safety runs use symmetry; runs with liveness do
not.

Violated runs state what a comment or a type of the repository says, and TLC
shows how the code departs from it:

| Run | What happens |
|---|---|
| `deposit_repeated` | a confirmed deposit delivered twice is credited twice: the credit follows the `if/else` on known transactions instead of being part of it |
| `withdrawal_schema` | with the entities' schema no withdrawal callback is ever logged or processed |
| `seeding_interrupted` | the README calls the seeding idempotent; a run that stops after the roles leaves later runs nothing to do, since they only ask whether there is a role, and there are no permissions, menus and super admin |

Deadlock is checked in all passing runs. A passing system never stops because a
crash is always possible, or, in `DepositCallback`, because `Finished` says
that all deliveries have ended. `withdrawal_schema`, which leaves failures out,
and `seeding_interrupted` switch the test off: there all handlers, or the runs of the
script, simply end.

### Comments the code does not keep

Besides the three lines that runs refute, the models follow the code, and not the
comment or message, at these:

* `deposit.service.ts` 66, "Check if address already exists for this company and
  currency": two requests can both look before either has saved, and the company
  then has two addresses in the currency;
* `permission.service.ts` 63, "Cannot delete permission that is assigned to
  roles.": one assigned after `remove` looked at its roles is deleted all the same,
  with its assignment (menus alike);
* `auth.service.ts` 216, "Save OTP (overwrite if already exists for user)": `save`
  without an id inserts a further row, and the older OTPs stay valid;
* `auth.service.ts` 258, "Check if OTP is for correct user": `resetPassword` reads no
  OTP (`FindUser` and `SavePassword` in `Onboarding` have none either);
* `generic-query.service.ts` 20, "Hard-coded filters to always apply": a caller's filter
  by an enforced column shares its parameter and is bound last. Both lists that
  set `enforcedFilters` (`currency.service.ts` 48, `company.service.ts` 191) set no
  `allowedFilterColumns`, so they do not prevent it. `EnforcedOrReplaced` states what is
  left;
* `transaction-callback.service.ts` 212, "Attach tx & fees": with either, the withdrawal
  can not be saved, since the children get no `companyId`. Even with
  `callback_logs.companyId` nullable, a callback with fees, or with transactions none of
  which is a deposit's, leaves a log row that is never marked processed and nothing else.

### Other observations

Of addresses and callbacks: a callback that arrives before the row of its address is
saved books the deposit on company 1, and the request that had the address issued then
fails (`RowAgreesWithProvider`, `ToldThenBooked` and `FirstRowDecides` say what can be
relied on); two concurrent credits of one company read the same balance, and
one is lost (`transaction-callback.service.ts` 281); a withdrawal created by a
callback has no company, and its debit hits some company's balance in the currency
(259); a callback without `request_id` updates any withdrawal.

Of onboarding: `verifyOtp` and `approveCompany` write back companies and
users they read earlier, so that an approval, a soft delete, a new name or a new
password can be undone by a concurrent handler (the properties of `Onboarding`
say what survives: uniqueness, verification, and verification before approval).

Of roles: saving a role with the lists and users it was loaded with undoes assignments,
and takes the role from a merchant who registered in between; a revoked permission is
used from the cache for up to an hour, and longer if a guard that had loaded it before
stores it again; the cache has one entry per user, filled for the role in the token of
whichever request missed; and a request that finds no cached permissions is refused
and only the next one passes.

Of sessions: a logged out token is kept out only by `JwtAuthGuard`, and only if one blank
precedes it: the guard looks up what follows the first blank (`jwt-auth.guard.ts` 18), and
`OptionalJwtAuthGuard` looks up nothing. `logout` does not verify the refresh token it
is given, so the session it ends need not be one the caller was given a token of
(`SessionsAreCounted` bounds how many end, not whose). A refresh loads the user
with its role only, so its tokens name no
company and a merchant's lists answer 500 from then on (`ServedUntilRefreshed` says
that nothing else causes this); it needs an access token that has not expired; two
concurrent refreshes with one token both succeed, and a failure between the delete
and the insert ends the session; two logins in one second yield equal tokens, so
that logging out one logs out both; `expiresAt` is never read and rows are never
cleaned up.

Of lists: flat results of joined tables ignore `skip` and `take`, so that
`getMerchantBalances` is not paginated; `limit=0` returns all rows and `page=0` is an
error of the database; an order by a column that is not unique may repeat or skip
rows between pages. Of currencies: any empty answer, be it a search without a hit
or a page past the end, starts a synchronisation; currencies no longer offered
keep their rows; a status request can put back an old fee until the next
synchronisation. The seed gives merchants no `deposit_address_list`, although
`getDepositAddressList` has a branch for them.

### Fairness

Liveness is checked with weak fairness of single handlers' steps and of nothing else: an
awaited query settles, successfully or not, and the event loop resumes its handler.
There is no fairness for arrivals, failures, crashes or the passing of time. What each
run assumes:

* `callback_gateway` (`Step(c)`, `W!Step(w)`) and `deposit_addresses` (`Query(r)`): database
  queries only. The call of the provider (`Take`) has no fairness: `alphapo.service.ts`
  49 posts without a timeout, so nothing in the code makes it settle.
  `OnlyProviderHoldsUp` says just that nothing else keeps a request from ending.
* `onboarding` (`Serve(r)`): database queries, and that sending a mail or an SMS settles
  (`SendMail`). nodemailer gives up by itself after a while; `sms.service.ts` 35 posts
  without a timeout, so for SMS this is an assumption about the environment and
  not a consequence of the code. What the property is about are the locks: a
  statement that waits for one is disabled until the other transaction ends, and
  weak fairness then suffices because a handler that holds a lock is itself fair.
* `catalogue`: the scheduler starts the synchronisation every six hours (`@Cron` in
  `currency.scheduler.ts`) and the steps of `"cron"` settle (`Fetch`, `Upsert`, `Synced`).
  `Fetch` is a call of the provider without a timeout: that it is answered is an
  assumption about the environment. The offer changes at most `MaxChange` times and
  at most `MaxTrouble` queries fail: the property is about what happens once they
  have stopped.

## 4. Proofs

A module with theorems is proved for every value of its constants; the
assumptions used are the named ASSUMEs of the module it is about, which TLC evaluates
in its runs. In each, a theorem `Spec => []Inv` has the same shape: the properties are
not inductive by themselves, because handlers write what they read earlier; an
inductive invariant adds what every handler may rely on at the await it is at.
The step lemma has one step per action. A relation `Kept` between two states (rows
are only added, verified companies stay verified, and so on) carries every
handler that is not the one moving across the step.

* `DepositCallback_proofs`. `IInv` is `TypeOK` and `MemoryAgreesWithTables`:
  `OneCompanyPerCallback`, for example, is preserved by `SaveLog` only if the copy
  `owner[c]` agrees with the address table, and `CreditFollowsDeposit` by
  `SaveBalance` only if the credits in the stale `loaded[c].row` are still backed. It
  gives types, `OneDepositPerTransaction`, `OneCompanyPerCallback` and
  `CreditFollowsDeposit`. `Refinement` proves that the tables implement
  `TransactionRegistry`: `RecordedByUnique` makes the owner of a transaction unique,
  `RegistryStep` maps `SaveDeposit` to `Register` and all other steps to a stutter.
* There too, `CreditIsBacked` proves `NoUnbackedCredit`, which compares two sums over sets
  of deliveries. `Ledger` adds to `IInv` that each copy of a row, in the table or in the
  memory of a handler, has an amount within the sum of its own credits (`CopyOK`), and
  that a delivery is credited in the copies of one row only. The sums of several rows of
  one account are then one sum over disjoint sets (`SumOfSums`). The community modules
  define sums by a fold and state nothing of it, and an induction theorem can not be
  instantiated here; the lemmas about sums (`SumAdds`, `SumRemove`, `SumMonotone`,
  `SumOfSums`) are therefore proved from the least cardinality at which they would
  fail.
* `CallbackGateway_proofs` extends them to both types of callbacks. `GatewayInv` is
  `IInv`, `Ledger` and `WithdrawalMemory`: a withdrawal handler writes back a copy of a
  row that was in the table, less the debit. A step of a deposit handler, or of a
  withdrawal handler that writes no balance, is a step of `DepositCallback` or a
  stutter (`DepositHalf`), so that the earlier lemmas carry over; only the withdrawals'
  `SaveBalance` needs an argument of its own. It gives `BalanceWithinCredits`,
  `CreditsStaySound` and that the composed system still implements `TransactionRegistry`
  (`GatewayRefinement`).
* `DepositFlow_proofs`, about `DepositAddress`: the address a handler holds after the look-up
  or the insert is on record for its company and currency, and the one it has taken is
  issued to its user (`HandlersAgree`). It gives types, `ToldAddressIsOwned` and
  `RowsAreStable`. `FlowImplementsAddress` proves that `DepositFlow` implements
  `DepositAddress`: the callback's `SaveAddress` is `InsertByCallback`, its other steps are
  stutters. About `DepositFlow`: both kinds of handler agree with the row of the address
  (`RequestOK`, `CallbackOK`), whichever of them inserted it. It gives
  `RowAgreesWithProvider`, `ToldThenBooked` and `FirstRowDecides`.
* `WithdrawalCallback_proofs`: the entity of a handler that has saved is on record
  (`SavedFor`), a loaded balance is of the account it will be written to (`LoadedOK`).
  It gives types, `ProcessedIsSaved`, `StatusWasReported` and
  `DebitIsOnRecord`, for both schemas.
* `Onboarding_proofs`: users and companies come in pairs (`RowsPaired`), committed
  rows are unique (`Distinct`), what open transactions have inserted collides
  with nothing (`Reserved`), and stale entities differ from their rows only in
  what does not matter (`HeldOK`: who has read a verified company will write a
  verified one). It gives types, `UniqueAccounts`, `VerifiedByOtp`, `ActiveIsVerified`
  and `VerificationIsKept`.
* `AccessControl_proofs`: what a stale row would give a role is something a request
  that passed the guards asked for (`HeldOK`), all copies of a role's row agree on
  whether it is predefined (`PredefinedAgrees`), and a handler at an await has a task
  that leads there (`TaskOK`). It gives types, `ReferencesHold`, `GrantsWereAsked`,
  `NeededRolesStay`, and `AdmittedByGrant`: what is in the cache, or loaded to be stored in
  it, was granted to a role the user has had.
* `Sessions_proofs`: a logout that has been answered has left an entry on the blacklist
  that lasts as long as the token, and one that is under way holds a ttl that is
  long enough whenever it is used; the guard of a late request with one blank reads it.
  It gives types, `LoggedOutStaysOut` and
  `ServedUntilRefreshed`. `Sessions_Counted` proves `SessionsAreCounted`: of the answered
  sessions that look like a token, those without a row (`Gone`) are at most as many as
  the requests that carried such a token, given or invented, and are past their delete (`Past`). Only
  `Revoke` adds to `Gone`, one session at most, and it takes its own request past the
  delete; that this session looks like the token carried is `HeldOK`.
* `ReferenceData_proofs`, about `CurrencyCatalogue`: the UPDATE of a status request contains the visible
  column unless the row has the value it asks for, and when all requests for a
  currency agree, one that is settled has its way (`RowAsAsked`). It gives
  `VisibilityAsAsked`. `Walk_MissesNothing` proves `WalkMissesNothing` for every page size
  and every filter: the place of a row in the list is the number of rows shown that were
  inserted after it (`PlaceIsAhead`), which a write only increases while the walk is
  steady (`WalkWrites`), so that a row not yet seen is behind the pages already read
  (`StillAhead` in `WalkOK`), and on an empty page there is none (`PageStep`).
* There too, about `GenericQuery`: `OwnRowsOnly` (the lists that set `filters.companyId` show a merchant
  only rows of its company), `EnforcedOrReplaced` (a row shown satisfies an enforced filter
  or the value the caller gave for its column, which must then be an allowed one) and
  `EachRowOnOnePage`: the pages the query may answer for one order of the rows hold every
  row its WHERE clause admits exactly once.
* And about `Seeding`: `Completed_IsSeeded`, the half of the promise in the README of the
  repository that holds. `Progress` says what a run has done by each step, whatever
  was there before it.

These are all the safety properties of the passing runs. Only model-checked is all
liveness (`EveryCallbackEnds`, `ConfirmedIsSettled`, `OnlyProviderHoldsUp`,
`EveryAccountRequestEnds`, `CatalogueCatchesUp`): fairness and
ENABLED are beyond the prover.

## 5. Not modelled, and what is left

Not modelled because nothing is kept: the proxy endpoints of
`AlphapoController`, uploads, filters, interceptors, configuration, generated
migrations. Exchange and invoice callbacks are placeholders that answer 501 or
nothing. Mail and SMS appear only as a step that may fail. Of the modelled
components, `getCurrencyById` and the plain reads of one row are left out: they
neither write nor are combined with another read.

What could be added: the total and the hidden columns of `GenericQuery`; and a
composition of `Sessions` with `AccessControl`, where a token carries the role its user
had at login.

## 6. Running

In this directory, `tlc -config X.cfg M` for the module and configuration of a
run in `PROJECT.json`, and `tlapm M.tla` for each module whose name ends in
`_proofs`.
