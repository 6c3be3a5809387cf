------------------------------ MODULE Sessions ------------------------------
(***************************************************************************)
(* Sessions: login, refresh and logout of AuthService, the table           *)
(* refresh_tokens of RefreshTokenService, the blacklist in redis,          *)
(* JwtAuthGuard in front of refresh, of logout and of a merchant's lists,  *)
(* and OptionalJwtAuthGuard in front of POST /companies.                   *)
(*                                                                         *)
(* An access token and a refresh token are signed in the same second from  *)
(* the same user and company; one record stands for the pair.  Two logins  *)
(* of a user in one second give the same tokens.  A row keeps the bcrypt   *)
(* hash of its refresh token, and bcrypt reads the first 72 bytes of it:   *)
(* the header, the user and, if there is one, the company, or else the     *)
(* leading digits of the second of issue.                                  *)
(***************************************************************************)
EXTENDS Naturals, FiniteSets

CONSTANTS
  Request,            \* HTTP requests; a row is named by the request that inserts it
  User, Merchant,     \* users, and those of userType MERCHANT
  Company, CompanyOf, \* users.company of each user, or NoCompany
  Invented,           \* refresh tokens that nobody was given
  AccessLife,         \* seconds until an access token expires
  RefreshLife,        \* seconds until a refresh token expires
  Digits,             \* seconds of issue whose visible digits are the same
  MaxTime,            \* the clock stops here, to keep the instance finite
  NoCompany, NoToken, NoTask, NotHeld

ASSUME LifeAssumption == /\ AccessLife \in Nat \ {0} /\ RefreshLife \in Nat \ {0}
                         /\ Digits \in Nat \ {0} /\ MaxTime \in Nat
ASSUME RequestAssumption == IsFiniteSet(Request)
ASSUME OwnerAssumption == /\ CompanyOf \in [User -> Company \cup {NoCompany}]
                          /\ Merchant \subseteq User
                          /\ \A u \in Merchant : CompanyOf[u] # NoCompany

VARIABLES
  now,        \* the clock, in seconds
  active,     \* users.isActive
  rows,       \* refresh_tokens; `created' ranks them by createdAt
  blacklist,  \* redis, blacklist:<token>: the second its entry expires, or 0
  task,       \* what each request asks
  answer,     \* the tokens a handler has signed
  held,       \* what a handler holds: a ttl, or the row it has found
  stage       \* where the handler of each request is

tokenStores    == <<active, rows, blacklist>>
sessionVars    == <<now, active, rows, blacklist, task, answer, held, stage>>

Token == [user: User, company: Company \cup {NoCompany}, iat: 0..MaxTime]
ASSUME InventedAssumption == Invented \subseteq Token
Row   == [by: Request, token: Token, created: Nat]

Login  == [kind: {"login"}, user: User]
\* `blanks': more than one blank follows the word Bearer in the header.
Bearer == [kind: {"refresh", "logout", "list", "create"}, blanks: BOOLEAN, access: Token,
           refresh: Token \cup {NoToken}, late: BOOLEAN]

ASSUME NullAssumption == NoToken \notin Token /\ NoTask \notin Login \cup Bearer

Expiry(t) == t.iat + AccessLife

Admitted == {"blacklist", "findValid", "findActive", "revoke", "saveRow", "returned", "unserved"}
Working  == {"findUser", "compare", "guard", "verify"} \cup (Admitted \ {"returned", "unserved"})

-----------------------------------------------------------------------------
SessionInit ==
  /\ now = 0
  /\ active \in {f \in [User -> BOOLEAN] : \A u \in User \ Merchant : f[u]}
  /\ rows = {}
  /\ blacklist = [t \in Token |-> 0]
  /\ task   = [r \in Request |-> NoTask]
  /\ answer = [r \in Request |-> NoToken]
  /\ held   = [r \in Request |-> NotHeld]
  /\ stage  = [r \in Request |-> "idle"]

\* The handler of request r resumes and runs to its next await.
GoOn(r, s) == stage' = [stage EXCEPT ![r] = s]

\* An exception: the request ends in an HTTP error.
Throw(r) ==
  /\ held' = [held EXCEPT ![r] = NotHeld]
  /\ GoOn(r, "rejected")
  /\ UNCHANGED <<now, tokenStores, task, answer>>

\* A second passes; redis drops what expires.
Tick ==
  /\ now < MaxTime
  /\ now' = now + 1
  /\ UNCHANGED <<tokenStores, task, answer, held, stage>>

\* CompanyService.approveCompany activates a merchant.
Activate(u) ==
  /\ ~active[u]
  /\ active' = [active EXCEPT ![u] = TRUE]
  /\ UNCHANGED <<now, rows, blacklist, task, answer, held, stage>>

-----------------------------------------------------------------------------
(* POST /auth/login *)

AskLogin(r, u) ==
  /\ stage[r] = "idle"
  /\ task' = [task EXCEPT ![r] = [kind |-> "login", user |-> u]]
  /\ GoOn(r, "findUser")
  /\ UNCHANGED <<now, tokenStores, answer, held>>

\* userRepo.findOne by email or phone, and isActive, or 401
FindUser(r) ==
  /\ stage[r] = "findUser"
  /\ \/ active[task[r].user] /\ GoOn(r, "compare") /\ UNCHANGED <<now, tokenStores, task, answer, held>>
     \/ ~active[task[r].user] /\ Throw(r)

\* Mutant: login loads the user without the company.
ComparePasswordNoCompany(r) ==
  /\ stage[r] = "compare"
  /\ answer' = [answer EXCEPT ![r] =
       [user |-> task[r].user, company |-> NoCompany, iat |-> now]]
  /\ GoOn(r, "saveRow")
  /\ UNCHANGED <<now, tokenStores, task, held>>

\* bcrypt.compare of the password (a mismatch is an Error); both tokens are signed.
ComparePassword(r) ==
  /\ stage[r] = "compare"
  /\ answer' = [answer EXCEPT ![r] =
       [user |-> task[r].user, company |-> CompanyOf[task[r].user], iat |-> now]]
  /\ GoOn(r, "saveRow")
  /\ UNCHANGED <<now, tokenStores, task, held>>

\* The rank of a row inserted now: above all others.
NextRank(n) == /\ \A w \in rows : w.created < n
               /\ n = 1 \/ \E w \in rows : w.created = n - 1

\* refreshTokenService.create; the tokens are answered.
SaveRow(r) ==
  /\ stage[r] = "saveRow"
  /\ \E n \in 1..Cardinality(Request) :
       NextRank(n) /\ rows' = rows \cup {[by |-> r, token |-> answer[r], created |-> n]}
  /\ GoOn(r, "returned")
  /\ UNCHANGED <<now, active, blacklist, task, answer, held>>

-----------------------------------------------------------------------------
(* JwtAuthGuard and OptionalJwtAuthGuard *)

\* Tokens clients have: those of answered logins and refreshes.
Known == {answer[q] : q \in {p \in Request : stage[p] = "returned"}} \ {NoToken}

\* The logout of access token a has been answered.
LoggedOut(a) == \E q \in Request : /\ stage[q] = "returned"
                                   /\ task[q] \in Bearer /\ task[q].kind = "logout"
                                   /\ task[q].access = a

\* The refresh tokens a request of kind k may carry in its body.  refresh
\* verifies the signature (another one is an Error); logout only decodes the token,
\* so there it may be one that nobody was given.
Carried(k) == CASE k = "refresh" -> Known
                [] k = "logout"  -> Known \cup Invented \cup {NoToken}
                [] OTHER         -> {NoToken}

\* A request arrives with an access token; OptionalJwtAuthGuard, in front of
\* create, asks no blacklist, so that blanks make no difference there.  `late'
\* remembers that the access token had been logged out by then.
Present(r, k, b, a, t) ==
  /\ stage[r] = "idle"
  /\ k = "create" => ~b
  /\ task' = [task EXCEPT ![r] =
       [kind |-> k, blanks |-> b, access |-> a, refresh |-> t, late |-> LoggedOut(a)]]
  /\ GoOn(r, IF k = "create" THEN "verify" ELSE "guard")
  /\ UNCHANGED <<now, tokenStores, answer, held>>

\* redis.get of what follows the first blank: with two of them, an empty string,
\* for which there is no entry.
GetBlacklist(r) ==
  /\ stage[r] = "guard"
  /\ \/ /\ task[r].blanks \/ now >= blacklist[task[r].access]
        /\ GoOn(r, "verify")
        /\ UNCHANGED <<now, tokenStores, task, answer, held>>
     \/ ~task[r].blanks /\ now < blacklist[task[r].access] /\ Throw(r)

\* Mutant: ignoreExpiration is true.
IsCurrentIgnored(t) == TRUE

\* ignoreExpiration is false: jwt.verify rejects a token from its exp on.
IsCurrent(t) == now < Expiry(t)

\* What AuthController.logout passes on: decoded.exp - now.
Ttl(t) == Expiry(t) - now

\* A merchant's list reads user.companyId.toString(): a TypeError without one.
Servable(a) == a.user \in Merchant => a.company # NoCompany

\* passport verifies the access token, whatever blanks precede it; the handler
\* runs to its first await: refresh verifies the refresh token, logout decodes
\* what follows the first blank (a TypeError if that is empty) and computes the
\* ttl.  create goes on unauthenticated with a token that is not valid.
Verify(r) ==
  LET q == task[r] IN
  /\ stage[r] = "verify"
  /\ \/ ~IsCurrent(q.access) /\ q.kind # "create" /\ Throw(r)
     \/ /\ q.kind = "create"
        /\ GoOn(r, IF IsCurrent(q.access) THEN "returned" ELSE "anonymous")
        /\ UNCHANGED <<now, tokenStores, task, answer, held>>
     \/ IsCurrent(q.access) /\ q.kind = "logout" /\ q.blanks /\ Throw(r)
     \/ /\ IsCurrent(q.access) /\ q.kind = "refresh"
        /\ \/ now < q.refresh.iat + RefreshLife /\ GoOn(r, "findValid")
           \/ now >= q.refresh.iat + RefreshLife /\ GoOn(r, "rejected")
        /\ UNCHANGED <<now, tokenStores, task, answer, held>>
     \/ /\ IsCurrent(q.access) /\ q.kind = "logout" /\ ~q.blanks
        /\ held' = [held EXCEPT ![r] = Ttl(q.access)]
        /\ GoOn(r, "blacklist")
        /\ UNCHANGED <<now, tokenStores, task, answer>>
     \/ /\ IsCurrent(q.access) /\ q.kind = "list"
        /\ GoOn(r, IF Servable(q.access) THEN "returned" ELSE "unserved")
        /\ UNCHANGED <<now, tokenStores, task, answer, held>>

-----------------------------------------------------------------------------
(* POST /auth/logout and POST /auth/refresh *)

\* Mutant: without a refresh token logout returns before it sets the entry.
BlacklistWithRefresh(r) ==
  /\ stage[r] = "blacklist"
  /\ blacklist' = IF task[r].refresh = NoToken THEN blacklist
                  ELSE [blacklist EXCEPT ![task[r].access] = now + held[r]]
  /\ held' = [held EXCEPT ![r] = NotHeld]
  /\ GoOn(r, IF task[r].refresh = NoToken THEN "returned" ELSE "findValid")
  /\ UNCHANGED <<now, active, rows, task, answer>>

\* redis.set with EX
Blacklist(r) ==
  /\ stage[r] = "blacklist"
  /\ blacklist' = [blacklist EXCEPT ![task[r].access] = now + held[r]]
  /\ held' = [held EXCEPT ![r] = NotHeld]
  /\ GoOn(r, IF task[r].refresh = NoToken THEN "returned" ELSE "findValid")
  /\ UNCHANGED <<now, active, rows, task, answer>>

\* bcrypt.compare sees the same 72 bytes.
LooksLike(t, u) ==
  /\ t.user = u.user /\ t.company = u.company
  /\ t.company = NoCompany => t.iat \div Digits = u.iat \div Digits

\* The rows of the user whose hash matches the token.
Matching(t) == {w \in rows : LooksLike(w.token, t)}

\* findValid: the newest row that matches; without one a refresh ends in 401
\* and a logout is done.
FindValid(r) ==
  LET found == Matching(task[r].refresh) IN
  /\ stage[r] = "findValid"
  /\ \/ /\ \E w \in found : /\ \A v \in found : v.created <= w.created
                              /\ held' = [held EXCEPT ![r] = w.by]
        /\ GoOn(r, IF task[r].kind = "refresh" THEN "findActive" ELSE "revoke")
        /\ UNCHANGED <<now, tokenStores, task, answer>>
     \/ /\ found = {}
        /\ GoOn(r, IF task[r].kind = "refresh" THEN "rejected" ELSE "returned")
        /\ UNCHANGED <<now, tokenStores, task, answer, held>>

\* refresh: userRepo.findOne, and isActive, or 401
FindActive(r) ==
  /\ stage[r] = "findActive"
  /\ \/ active[task[r].refresh.user] /\ GoOn(r, "revoke") /\ UNCHANGED <<now, tokenStores, task, answer, held>>
     \/ ~active[task[r].refresh.user] /\ Throw(r)

\* Mutant: revokeAllForUser in place of revokeById.
WithoutUser(by) == {w \in rows : w.token.user # answer[by].user}

\* delete({ id }); a row that is gone already is no error.
Without(by) == {w \in rows : w.by # by}

\* revokeById; refresh then signs tokens for the user it has loaded, with its
\* role but without its company.
Revoke(r) ==
  /\ stage[r] = "revoke"
  /\ rows' = Without(held[r])
  /\ \/ /\ task[r].kind = "refresh"
        /\ answer' = [answer EXCEPT ![r] =
             [user |-> task[r].refresh.user, company |-> NoCompany, iat |-> now]]
        /\ GoOn(r, "saveRow")
     \/ /\ task[r].kind = "logout"
        /\ GoOn(r, "returned")
        /\ UNCHANGED answer
  /\ held' = [held EXCEPT ![r] = NotHeld]
  /\ UNCHANGED <<now, active, blacklist, task>>

\* A query, redis or bcrypt fails, or a password does not match.
Error(r) == stage[r] \in Working /\ Throw(r)

\* The process stops: no request in flight is answered, which ends it like an
\* error does.  The database and redis stay.
Stop ==
  /\ stage' = [r \in Request |-> IF stage[r] \in Working THEN "rejected" ELSE stage[r]]
  /\ held' = [r \in Request |-> NotHeld]
  /\ UNCHANGED <<now, tokenStores, task, answer>>

Serve(r) == \/ FindUser(r) \/ ComparePassword(r) \/ SaveRow(r) \/ GetBlacklist(r) \/ Verify(r)
            \/ Blacklist(r) \/ FindValid(r) \/ FindActive(r) \/ Revoke(r)

SessionNext ==
  \/ Tick \/ Stop
  \/ \E u \in User : Activate(u)
  \/ \E r \in Request : \/ \E u \in User : AskLogin(r, u)
                        \/ \E k \in {"refresh", "logout", "list", "create"}, b \in BOOLEAN,
                              a \in Known : \E t \in Carried(k) : Present(r, k, b, a, t)
                        \/ Serve(r) \/ Error(r)

SessionSpec == SessionInit /\ [][SessionNext]_sessionVars

-----------------------------------------------------------------------------
(* Properties. *)

SessionTypeOK ==
  /\ now \in 0..MaxTime
  /\ active \in [User -> BOOLEAN]
  /\ rows \subseteq Row
  /\ blacklist \in [Token -> Nat]
  /\ task \in [Request -> Login \cup Bearer \cup {NoTask}]
  /\ answer \in [Request -> Token \cup {NoToken}]
  /\ held \in [Request -> (Nat \ {0}) \cup Request \cup {NotHeld}]
  /\ stage \in [Request -> {"idle", "rejected", "returned", "unserved", "anonymous"}
                       \cup Working]

\* What a logout guarantees, and no more.  A request that arrives after the
\* logout of its access token was answered is not let through by JwtAuthGuard if
\* a single blank precedes the token in its header: the blacklist entry, whose
\* ttl is computed before the SET reaches redis, does not expire before the token
\* does, and the guard reads it before passport looks at the expiry.  With more
\* blanks the guard looks up another key than the token passport verifies, and
\* OptionalJwtAuthGuard (create) looks up none: there the token is good until it
\* expires.
LoggedOutStaysOut ==
  \A r \in Request :
    (task[r] \in Bearer /\ task[r].late /\ task[r].kind # "create" /\ ~task[r].blanks) =>
      stage[r] \notin Admitted

\* A request ends one session at most, and only one like the refresh token it
\* carries: of the refresh tokens that look alike and were answered, a row is
\* left for each but as many as there were requests that carried a token like
\* them, whatever other requests, failures and crashes do between look-up, delete
\* and insert.  The token of a logout need not have been given to anyone.
SessionsAreCounted ==
  \A t \in Known :
    LET given     == {q \in Request : stage[q] = "returned" /\ answer[q] # NoToken
                                       /\ LooksLike(answer[q], t)}
        presented == {q \in Request : /\ task[q] \in Bearer /\ task[q].refresh # NoToken
                                       /\ LooksLike(task[q].refresh, t)}
    IN Cardinality(given) <= Cardinality(Matching(t)) + Cardinality(presented)

\* A merchant's list fails for want of a company only with tokens that a refresh
\* has signed: whoever has just logged in is served, and no refresh of another
\* request changes that.
ServedUntilRefreshed ==
  \A r \in Request : stage[r] = "unserved" =>
    \E q \in Request : /\ task[q] \in Bearer /\ task[q].kind = "refresh"
                       /\ answer[q] = task[r].access
=============================================================================
