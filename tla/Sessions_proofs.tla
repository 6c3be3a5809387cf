--------------------------- MODULE Sessions_proofs ---------------------------
(***************************************************************************)
(* Theorems about Sessions, for every set of requests, users and           *)
(* companies and all lifetimes of the tokens.                              *)
(***************************************************************************)
EXTENDS Sessions, FiniteSetTheorems, TLAPS

\* Stages before the tokens of a login or refresh are signed, or after.
Signed == {"saveRow", "returned", "rejected"}

\* The requests that present an access token.
Kind == {"refresh", "logout", "list", "create"}

\* What the stage of a handler says about its task and its tokens: a token is
\* signed once, and a login's names the user's company.
HandlerOK(r) ==
  /\ stage[r] \in {"findUser", "compare"} => task[r] \in Login
  /\ stage[r] \in {"guard", "verify", "blacklist", "findValid", "findActive", "revoke", "unserved"} =>
       task[r] \in Bearer
  /\ stage[r] = "blacklist" => held[r] \in Nat
  /\ stage[r] = "saveRow" => answer[r] \in Token
  /\ (task[r] \in Bearer /\ task[r].kind = "refresh") => task[r].refresh \in Token
  /\ stage[r] = "findActive" => task[r].kind = "refresh"
  /\ stage[r] \in {"findValid", "findActive"} => task[r].refresh \in Token
  /\ answer[r] # NoToken => stage[r] \in Signed
  /\ answer[r] # NoToken => \/ task[r] \in Login /\ answer[r].company = CompanyOf[answer[r].user]
                            \/ task[r] \in Bearer /\ task[r].kind = "refresh"

\* The blacklist entry of a token outlives it.
Outlives(a) == blacklist[a] >= Expiry(a)

\* A logout holds a ttl that reaches the expiry of its token, and once it has
\* set the entry, the entry does; so it stays for requests that came later.
LogoutOK(r) ==
  /\ stage[r] = "blacklist" => now + held[r] >= Expiry(task[r].access)
  /\ (task[r] \in Bearer /\ task[r].kind = "logout" /\ stage[r] \in {"findValid", "revoke", "returned"}) =>
       Outlives(task[r].access)
  /\ (task[r] \in Bearer /\ task[r].late) =>
       /\ Outlives(task[r].access)
       /\ (task[r].kind # "create" /\ ~task[r].blanks) =>
            /\ stage[r] \in {"guard", "verify", "rejected"}
            /\ stage[r] = "verify" => now >= Expiry(task[r].access)

\* A token that is presented was signed by a request; one that is not served
\* has no company.
BearerOK(r) ==
  /\ task[r] \in Bearer => \E q \in Request : answer[q] = task[r].access
  /\ stage[r] = "unserved" => ~Servable(task[r].access)

SessionIInv == /\ SessionTypeOK
               /\ \A r \in Request : HandlerOK(r) /\ LogoutOK(r) /\ BearerOK(r)

\* Known tokens are tokens, and a signed one is not NoToken.
LEMMA KnownTokens == SessionTypeOK => Known \subseteq Token
  BY DEF SessionTypeOK, Known

\* The task of a request that presents known tokens.
LEMMA Presented ==
  ASSUME SessionTypeOK, NEW kd \in Kind, NEW b \in BOOLEAN, NEW a \in Known,
         NEW t \in Carried(kd)
  PROVE  /\ [kind |-> kd, blanks |-> b, access |-> a, refresh |-> t, late |-> LoggedOut(a)] \in Bearer
         /\ kd = "refresh" => t \in Token
  <1>1. LoggedOut(a) \in BOOLEAN
    BY DEF LoggedOut
  <1>2. a \in Token /\ t \in Token \cup {NoToken} /\ (kd = "refresh" => t \in Token)
    BY KnownTokens, InventedAssumption DEF Carried, Kind
  <1>3. QED BY <1>1, <1>2 DEF Bearer, Kind

\* The ttl of a token that is current is positive and reaches its expiry.
LEMMA TtlReaches ==
  ASSUME now \in 0..MaxTime, NEW t \in Token, IsCurrent(t)
  PROVE  Ttl(t) \in Nat \ {0} /\ now + Ttl(t) = Expiry(t)
  <1>1. now \in Nat /\ t.iat \in Nat
    BY LifeAssumption DEF Token
  <1>2. QED BY <1>1, LifeAssumption DEF Ttl, IsCurrent, Expiry

\* Every step keeps the types.
LEMMA SessionTypeStep == SessionIInv /\ [SessionNext]_sessionVars => SessionTypeOK'
  <1> SUFFICES ASSUME SessionIInv, [SessionNext]_sessionVars PROVE SessionTypeOK'
    OBVIOUS
  <1> USE DEF SessionIInv, SessionTypeOK, Working, Admitted, GoOn, Throw, tokenStores
  <1>1. ASSUME Tick PROVE SessionTypeOK'
    BY <1>1, LifeAssumption DEF Tick
  <1>2. ASSUME Stop PROVE SessionTypeOK'
    BY <1>2 DEF Stop
  <1>3. ASSUME NEW u \in User, Activate(u) PROVE SessionTypeOK'
    BY <1>3 DEF Activate
  <1>4. ASSUME NEW r \in Request, NEW u \in User, AskLogin(r, u) PROVE SessionTypeOK'
    BY <1>4 DEF AskLogin, Login
  <1>5. ASSUME NEW r \in Request, NEW kd \in Kind, NEW b \in BOOLEAN, NEW a \in Known,
               NEW t \in Carried(kd), Present(r, kd, b, a, t) PROVE SessionTypeOK'
    BY <1>5, Presented DEF Present
  <1>6. ASSUME NEW r \in Request, FindUser(r) PROVE SessionTypeOK'
    BY <1>6 DEF FindUser
  <1>7. ASSUME NEW r \in Request, ComparePassword(r) PROVE SessionTypeOK'
    BY <1>7, OwnerAssumption DEF ComparePassword, Token, Login, HandlerOK
  <1>8. ASSUME NEW r \in Request, SaveRow(r) PROVE SessionTypeOK'
    BY <1>8, RequestAssumption, FS_CardinalityType DEF SaveRow, Row, HandlerOK
  <1>9. ASSUME NEW r \in Request, GetBlacklist(r) PROVE SessionTypeOK'
    BY <1>9 DEF GetBlacklist
  <1>10. ASSUME NEW r \in Request, Verify(r) PROVE SessionTypeOK'
    <2>1. task[r] \in Bearer
      BY <1>10 DEF Verify, HandlerOK
    <2>2. task[r].access \in Token
      BY <2>1 DEF Bearer
    <2>3. IsCurrent(task[r].access) => Ttl(task[r].access) \in Nat \ {0}
      BY <2>2, TtlReaches
    <2>4. QED BY <1>10, <2>3 DEF Verify
  <1>11. ASSUME NEW r \in Request, Blacklist(r) PROVE SessionTypeOK'
    <2>1. now + held[r] \in Nat
      BY <1>11, LifeAssumption DEF Blacklist, HandlerOK
    <2>2. QED BY <1>11, <2>1 DEF Blacklist
  <1>12. ASSUME NEW r \in Request, FindValid(r) PROVE SessionTypeOK'
    BY <1>12 DEF FindValid, Matching, Row
  <1>13. ASSUME NEW r \in Request, FindActive(r) PROVE SessionTypeOK'
    BY <1>13 DEF FindActive
  <1>14. ASSUME NEW r \in Request, Revoke(r) PROVE SessionTypeOK'
    BY <1>14 DEF Revoke, Without, Token, HandlerOK
  <1>15. ASSUME NEW r \in Request, Error(r) PROVE SessionTypeOK'
    BY <1>15 DEF Error
  <1>16. CASE UNCHANGED sessionVars
    BY <1>16 DEF sessionVars
  <1>17. QED
    BY <1>1, <1>2, <1>3, <1>4, <1>5, <1>6, <1>7, <1>8, <1>9, <1>10, <1>11, <1>12, <1>13, <1>14, <1>15, <1>16
    DEF SessionNext, Serve, Kind

\* Every handler is where its task leads it.
LEMMA HandlerStep ==
  SessionIInv /\ [SessionNext]_sessionVars => \A k \in Request : HandlerOK(k)'
  <1> SUFFICES ASSUME SessionIInv, [SessionNext]_sessionVars, NEW k \in Request
               PROVE  HandlerOK(k)'
    OBVIOUS
  <1> USE NullAssumption DEF SessionIInv, SessionTypeOK, HandlerOK, Working, Admitted, GoOn, Throw,
          tokenStores, Signed
  <1>1. ASSUME Tick PROVE HandlerOK(k)'
    BY <1>1 DEF Tick
  <1>2. ASSUME Stop PROVE HandlerOK(k)'
    BY <1>2 DEF Stop
  <1>3. ASSUME NEW u \in User, Activate(u) PROVE HandlerOK(k)'
    BY <1>3 DEF Activate
  <1>4. ASSUME NEW r \in Request, NEW u \in User, AskLogin(r, u) PROVE HandlerOK(k)'
    BY <1>4 DEF AskLogin, Login
  <1>5. ASSUME NEW r \in Request, NEW kd \in Kind, NEW b \in BOOLEAN, NEW a \in Known,
               NEW t \in Carried(kd), Present(r, kd, b, a, t) PROVE HandlerOK(k)'
    <2>1. task'[r] = [kind |-> kd, blanks |-> b, access |-> a, refresh |-> t, late |-> LoggedOut(a)]
      BY <1>5 DEF Present
    <2>2. task'[r] \in Bearer
      BY <1>5, <2>1, Presented
    <2>3. kd = "refresh" => t \in Token
      BY <1>5, Presented
    <2>4. QED BY <1>5, <2>1, <2>2, <2>3 DEF Present
  <1>6. ASSUME NEW r \in Request, FindUser(r) PROVE HandlerOK(k)'
    BY <1>6 DEF FindUser
  <1>7. ASSUME NEW r \in Request, ComparePassword(r) PROVE HandlerOK(k)'
    BY <1>7, OwnerAssumption DEF ComparePassword, Token, Login
  <1>8. ASSUME NEW r \in Request, SaveRow(r) PROVE HandlerOK(k)'
    BY <1>8 DEF SaveRow
  <1>9. ASSUME NEW r \in Request, GetBlacklist(r) PROVE HandlerOK(k)'
    BY <1>9 DEF GetBlacklist
  <1>10. ASSUME NEW r \in Request, Verify(r) PROVE HandlerOK(k)'
    <2>1. task[r] \in Bearer
      BY <1>10 DEF Verify
    <2>2. task[r].access \in Token /\ task[r].refresh \in Token \cup {NoToken}
      BY <2>1 DEF Bearer
    <2>3. IsCurrent(task[r].access) => Ttl(task[r].access) \in Nat \ {0}
      BY <2>2, TtlReaches
    <2>4. QED BY <1>10, <2>1, <2>2, <2>3 DEF Verify
  <1>11. ASSUME NEW r \in Request, Blacklist(r) PROVE HandlerOK(k)'
    BY <1>11 DEF Blacklist, Bearer
  <1>12. ASSUME NEW r \in Request, FindValid(r) PROVE HandlerOK(k)'
    BY <1>12 DEF FindValid, Bearer
  <1>13. ASSUME NEW r \in Request, FindActive(r) PROVE HandlerOK(k)'
    BY <1>13 DEF FindActive
  <1>14. ASSUME NEW r \in Request, Revoke(r) PROVE HandlerOK(k)'
    BY <1>14 DEF Revoke, Token, Bearer
  <1>15. ASSUME NEW r \in Request, Error(r) PROVE HandlerOK(k)'
    BY <1>15 DEF Error
  <1>16. CASE UNCHANGED sessionVars
    BY <1>16 DEF sessionVars
  <1>17. QED
    BY <1>1, <1>2, <1>3, <1>4, <1>5, <1>6, <1>7, <1>8, <1>9, <1>10, <1>11, <1>12, <1>13, <1>14, <1>15, <1>16
    DEF SessionNext, Serve, Kind

\* A logout in flight, or answered, keeps what it needs on the blacklist.
LEMMA LogoutStep ==
  SessionIInv /\ [SessionNext]_sessionVars => \A k \in Request : LogoutOK(k)'
  <1> SUFFICES ASSUME SessionIInv, [SessionNext]_sessionVars, NEW k \in Request
               PROVE  LogoutOK(k)'
    OBVIOUS
  <1> USE NullAssumption DEF SessionIInv, SessionTypeOK, LogoutOK, Outlives, Expiry, Working, Admitted,
          GoOn, Throw, tokenStores
  <1>1. ASSUME Tick PROVE LogoutOK(k)'
    BY <1>1, LifeAssumption DEF Tick, Token, Bearer, HandlerOK
  <1>2. ASSUME Stop PROVE LogoutOK(k)'
    BY <1>2 DEF Stop
  <1>3. ASSUME NEW u \in User, Activate(u) PROVE LogoutOK(k)'
    BY <1>3 DEF Activate
  <1>4. ASSUME NEW r \in Request, NEW u \in User, AskLogin(r, u) PROVE LogoutOK(k)'
    BY <1>4 DEF AskLogin, Login, Bearer
  <1>5. ASSUME NEW r \in Request, NEW kd \in Kind, NEW b \in BOOLEAN, NEW a \in Known,
               NEW t \in Carried(kd), Present(r, kd, b, a, t) PROVE LogoutOK(k)'
    <2>1. task'[r] = [kind |-> kd, blanks |-> b, access |-> a, refresh |-> t, late |-> LoggedOut(a)]
      BY <1>5 DEF Present
    <2>2. LoggedOut(a) => blacklist[a] >= Expiry(a)
      <3>1. SUFFICES ASSUME NEW q \in Request, stage[q] = "returned", task[q] \in Bearer,
                            task[q].kind = "logout", task[q].access = a
                     PROVE  blacklist[a] >= Expiry(a)
        BY DEF LoggedOut
      <3>2. QED BY <3>1
    <2>3. QED BY <1>5, <2>1, <2>2 DEF Present
  <1>6. ASSUME NEW r \in Request, FindUser(r) PROVE LogoutOK(k)'
    BY <1>6 DEF FindUser
  <1>7. ASSUME NEW r \in Request, ComparePassword(r) PROVE LogoutOK(k)'
    BY <1>7 DEF ComparePassword
  <1>8. ASSUME NEW r \in Request, SaveRow(r) PROVE LogoutOK(k)'
    <2>1. stage[r] = "saveRow" /\ ~(task[r] \in Bearer /\ task[r].kind = "logout")
      BY <1>8 DEF SaveRow, HandlerOK, Login
    <2>2. QED BY <1>8, <2>1 DEF SaveRow
  <1>9. ASSUME NEW r \in Request, GetBlacklist(r) PROVE LogoutOK(k)'
    <2>1. task[r] \in Bearer
      BY <1>9 DEF GetBlacklist, HandlerOK
    <2>2. task[r].access \in Token
      BY <2>1 DEF Bearer
    <2>3. blacklist[task[r].access] \in Nat /\ now \in Nat
      BY <2>2, LifeAssumption
    <2>4. Expiry(task[r].access) \in Nat
      BY <2>2, LifeAssumption DEF Token
    <2>5. QED BY <1>9, <2>1, <2>3, <2>4 DEF GetBlacklist
  <1>10. ASSUME NEW r \in Request, Verify(r) PROVE LogoutOK(k)'
    <2>1. task[r] \in Bearer
      BY <1>10 DEF Verify, HandlerOK
    <2>2. task[r].access \in Token
      BY <2>1 DEF Bearer
    <2>3. now \in Nat /\ Expiry(task[r].access) \in Nat
      BY <2>2, LifeAssumption DEF Token
    <2>4. IsCurrent(task[r].access) =>
            /\ now < Expiry(task[r].access)
            /\ now + Ttl(task[r].access) = Expiry(task[r].access)
      BY <2>2, TtlReaches DEF IsCurrent
    <2>5. QED BY <1>10, <2>1, <2>3, <2>4 DEF Verify
  <1>11. ASSUME NEW r \in Request, Blacklist(r) PROVE LogoutOK(k)'
    BY <1>11, LifeAssumption DEF Blacklist, Bearer, Token, HandlerOK
  <1>12. ASSUME NEW r \in Request, FindValid(r) PROVE LogoutOK(k)'
    BY <1>12 DEF FindValid
  <1>13. ASSUME NEW r \in Request, FindActive(r) PROVE LogoutOK(k)'
    BY <1>13 DEF FindActive, HandlerOK
  <1>14. ASSUME NEW r \in Request, Revoke(r) PROVE LogoutOK(k)'
    BY <1>14 DEF Revoke
  <1>15. ASSUME NEW r \in Request, Error(r) PROVE LogoutOK(k)'
    BY <1>15 DEF Error
  <1>16. CASE UNCHANGED sessionVars
    BY <1>16 DEF sessionVars
  <1>17. QED
    BY <1>1, <1>2, <1>3, <1>4, <1>5, <1>6, <1>7, <1>8, <1>9, <1>10, <1>11, <1>12, <1>13, <1>14, <1>15, <1>16
    DEF SessionNext, Serve, Kind

\* Whoever presents a token was given it.
LEMMA BearerStep ==
  SessionIInv /\ [SessionNext]_sessionVars => \A k \in Request : BearerOK(k)'
  <1> SUFFICES ASSUME SessionIInv, [SessionNext]_sessionVars, NEW k \in Request
               PROVE  BearerOK(k)'
    OBVIOUS
  <1> USE NullAssumption DEF SessionIInv, SessionTypeOK, BearerOK, Servable, Working, Admitted, GoOn, Throw,
          tokenStores
  <1>1. ASSUME Tick PROVE BearerOK(k)'
    BY <1>1 DEF Tick
  <1>2. ASSUME Stop PROVE BearerOK(k)'
    BY <1>2 DEF Stop
  <1>3. ASSUME NEW u \in User, Activate(u) PROVE BearerOK(k)'
    BY <1>3 DEF Activate
  <1>4. ASSUME NEW r \in Request, NEW u \in User, AskLogin(r, u) PROVE BearerOK(k)'
    BY <1>4 DEF AskLogin, Login, Bearer
  <1>5. ASSUME NEW r \in Request, NEW kd \in Kind, NEW b \in BOOLEAN, NEW a \in Known,
               NEW t \in Carried(kd), Present(r, kd, b, a, t) PROVE BearerOK(k)'
    <2>1. task'[r] = [kind |-> kd, blanks |-> b, access |-> a, refresh |-> t, late |-> LoggedOut(a)]
      BY <1>5 DEF Present
    <2>2. \E q \in Request : answer[q] = a
      BY DEF Known
    <2>3. QED BY <1>5, <2>1, <2>2 DEF Present
  <1>6. ASSUME NEW r \in Request, FindUser(r) PROVE BearerOK(k)'
    BY <1>6 DEF FindUser
  <1>7. ASSUME NEW r \in Request, ComparePassword(r) PROVE BearerOK(k)'
    BY <1>7 DEF ComparePassword, HandlerOK, Signed, Bearer
  <1>8. ASSUME NEW r \in Request, SaveRow(r) PROVE BearerOK(k)'
    BY <1>8 DEF SaveRow
  <1>9. ASSUME NEW r \in Request, GetBlacklist(r) PROVE BearerOK(k)'
    BY <1>9 DEF GetBlacklist
  <1>10. ASSUME NEW r \in Request, Verify(r) PROVE BearerOK(k)'
    BY <1>10 DEF Verify, Bearer
  <1>11. ASSUME NEW r \in Request, Blacklist(r) PROVE BearerOK(k)'
    BY <1>11 DEF Blacklist
  <1>12. ASSUME NEW r \in Request, FindValid(r) PROVE BearerOK(k)'
    BY <1>12 DEF FindValid
  <1>13. ASSUME NEW r \in Request, FindActive(r) PROVE BearerOK(k)'
    BY <1>13 DEF FindActive
  <1>14. ASSUME NEW r \in Request, Revoke(r) PROVE BearerOK(k)'
    BY <1>14 DEF Revoke, HandlerOK, Signed, Bearer
  <1>15. ASSUME NEW r \in Request, Error(r) PROVE BearerOK(k)'
    BY <1>15 DEF Error
  <1>16. CASE UNCHANGED sessionVars
    BY <1>16 DEF sessionVars
  <1>17. QED
    BY <1>1, <1>2, <1>3, <1>4, <1>5, <1>6, <1>7, <1>8, <1>9, <1>10, <1>11, <1>12, <1>13, <1>14, <1>15, <1>16
    DEF SessionNext, Serve, Kind

\* Nothing is asked and nothing stored.
LEMMA SessionInitOK == SessionInit => SessionIInv
  <1> SUFFICES ASSUME SessionInit PROVE SessionIInv
    OBVIOUS
  <1>1. SessionTypeOK
    BY LifeAssumption DEF SessionInit, SessionTypeOK, Token
  <1>2. ASSUME NEW r \in Request PROVE HandlerOK(r) /\ LogoutOK(r) /\ BearerOK(r)
    BY NullAssumption DEF SessionInit, HandlerOK, LogoutOK, BearerOK
  <1>3. QED BY <1>1, <1>2 DEF SessionIInv

\* The invariant of all theorems but the one that counts.
LEMMA Invariance == SessionSpec => []SessionIInv
  <1>1. SessionIInv /\ [SessionNext]_sessionVars => SessionIInv'
    BY SessionTypeStep, HandlerStep, LogoutStep, BearerStep DEF SessionIInv
  <1>2. QED BY SessionInitOK, <1>1, PTL DEF SessionSpec

\* Type correctness, for any number of requests: in particular a logout, which
\* signs no token, never reaches the insert, and a ttl is never zero or negative.
THEOREM SessionTypeCorrect == SessionSpec => []SessionTypeOK
  <1>1. SessionIInv => SessionTypeOK
    BY DEF SessionIInv
  <1>2. QED BY <1>1, Invariance, PTL

\* Whatever the lifetimes and the number of requests, a request that arrives
\* after the logout of its access token was answered is turned away, if it passes
\* JwtAuthGuard and one blank precedes the token.
THEOREM LoggedOut_Stays == SessionSpec => []LoggedOutStaysOut
  <1>1. SessionIInv => LoggedOutStaysOut
    BY DEF SessionIInv, LogoutOK, LoggedOutStaysOut, Admitted
  <1>2. QED BY <1>1, Invariance, PTL

\* A list that fails for want of a company was asked for with a token signed by
\* a refresh: the tokens of a login name the company of every merchant.
THEOREM Served == SessionSpec => []ServedUntilRefreshed
  <1>1. SessionIInv => ServedUntilRefreshed
    <2>1. SUFFICES ASSUME SessionIInv, NEW r \in Request, stage[r] = "unserved"
                   PROVE  \E q \in Request : /\ task[q] \in Bearer /\ task[q].kind = "refresh"
                                             /\ answer[q] = task[r].access
      BY DEF ServedUntilRefreshed
    <2>2. task[r] \in Bearer /\ ~Servable(task[r].access)
      BY <2>1 DEF SessionIInv, HandlerOK, BearerOK
    <2>3. PICK q \in Request : answer[q] = task[r].access
      BY <2>1, <2>2 DEF SessionIInv, BearerOK
    <2>4. answer[q] # NoToken
      BY <2>2, <2>3, NullAssumption DEF Bearer
    <2>5. answer[q].company # CompanyOf[answer[q].user]
      BY <2>2, <2>3, OwnerAssumption DEF Servable
    <2>6. QED BY <2>1, <2>3, <2>4, <2>5 DEF SessionIInv, HandlerOK
  <1>2. QED BY <1>1, Invariance, PTL

-----------------------------------------------------------------------------
(* Counting.  A session that has no row left is charged to the request that  *)
(* deleted its row: each deletes one row, and one that its token looks like. *)

\* Requests whose tokens were answered, those of them that look like t and have
\* no row any more, the requests that present a token like t, and those of
\* them that are past the delete.
Answers       == {q \in Request : stage[q] = "returned" /\ answer[q] # NoToken}
HasRow(q)     == \E w \in rows : w.by = q
Gone(t)       == {q \in Answers : LooksLike(answer[q], t) /\ ~HasRow(q)}
BeforeRevoke  == {"guard", "verify", "blacklist", "findValid", "findActive", "revoke"}
Presenting(t) == {q \in Request : /\ task[q] \in Bearer /\ task[q].refresh # NoToken
                                  /\ LooksLike(task[q].refresh, t)}
Past(t)       == {q \in Presenting(t) : stage[q] \notin BeforeRevoke}

\* The row a handler will delete is that of an answered token like its own.
HeldOK(r) ==
  /\ stage[r] = "idle" => task[r] = NoTask
  /\ stage[r] \in {"findActive", "revoke"} =>
       /\ held[r] \in Request /\ stage[held[r]] = "returned"
       /\ LooksLike(answer[held[r]], task[r].refresh)
       /\ task[r].refresh # NoToken

CountInv ==
  /\ IsFiniteSet(rows)
  /\ \A w \in rows : stage[w.by] = "returned" /\ w.token = answer[w.by]
  /\ \A r \in Request : HeldOK(r)
  /\ \A t \in Token : Cardinality(Gone(t)) <= Cardinality(Past(t))

\* To look alike is to have the same 72 bytes.
LEMMA LooksAlike ==
  ASSUME NEW t, NEW u, NEW v
  PROVE  /\ LooksLike(t, u) => LooksLike(u, t)
         /\ LooksLike(t, u) /\ LooksLike(u, v) => LooksLike(t, v)
  BY DEF LooksLike

\* What is done stays done: an answered request keeps its tokens, a request its
\* task, and one that is past the delete does not come back to it.
Done(q) ==
  /\ stage[q] = "returned" => stage'[q] = "returned" /\ answer'[q] = answer[q]
  /\ task[q] \in Bearer =>
       /\ task'[q] = task[q]
       /\ stage[q] \notin BeforeRevoke => stage'[q] \notin BeforeRevoke
  /\ stage'[q] = "idle" => stage[q] = "idle" /\ task'[q] = task[q]

\* Every step leaves done what was done.
LEMMA DoneStep ==
  ASSUME SessionIInv, CountInv, [SessionNext]_sessionVars, NEW q \in Request
  PROVE  Done(q)
  <1> USE NullAssumption DEF SessionIInv, SessionTypeOK, HandlerOK, CountInv, HeldOK, Done,
          BeforeRevoke, Working, Admitted, GoOn, Throw, tokenStores
  <1>1. CASE Tick \/ Stop \/ (\E u \in User : Activate(u)) \/ UNCHANGED sessionVars
    BY <1>1 DEF Tick, Stop, Activate, sessionVars
  <1>2. ASSUME NEW r \in Request, NEW u \in User, AskLogin(r, u) PROVE Done(q)
    BY <1>2 DEF AskLogin
  <1>3. ASSUME NEW r \in Request, NEW kd \in Kind, NEW b \in BOOLEAN, NEW a \in Known,
               NEW t \in Carried(kd), Present(r, kd, b, a, t) PROVE Done(q)
    BY <1>3 DEF Present
  <1>4. ASSUME NEW r \in Request, FindUser(r) \/ ComparePassword(r) \/ SaveRow(r) PROVE Done(q)
    BY <1>4 DEF FindUser, ComparePassword, SaveRow
  <1>5. ASSUME NEW r \in Request, GetBlacklist(r) \/ Verify(r) \/ Blacklist(r) PROVE Done(q)
    BY <1>5 DEF GetBlacklist, Verify, Blacklist
  <1>6. ASSUME NEW r \in Request, FindValid(r) \/ FindActive(r) \/ Revoke(r) PROVE Done(q)
    BY <1>6 DEF FindValid, FindActive, Revoke
  <1>7. ASSUME NEW r \in Request, Error(r) PROVE Done(q)
    BY <1>7 DEF Error
  <1>8. QED
    BY <1>1, <1>2, <1>3, <1>4, <1>5, <1>6, <1>7 DEF SessionNext, Serve, Kind

\* A row is inserted for an answered token and, but for revokeById, never
\* deleted; a token is answered when its row is inserted.
LEMMA RowsStep ==
  ASSUME SessionIInv, CountInv, [SessionNext]_sessionVars
  PROVE  /\ IsFiniteSet(rows')
         /\ \A w \in rows' : w \in rows \/ (stage'[w.by] = "returned" /\ w.token = answer'[w.by])
         /\ rows \subseteq rows' \/ \E r \in Request : Revoke(r)
         /\ \A q \in Answers' : q \in Answers \/ \E w \in rows' : w.by = q
  <1>f. IsFiniteSet(rows)
    BY DEF CountInv
  <1> USE DEF SessionIInv, SessionTypeOK, HandlerOK, CountInv, Answers, HasRow, Signed,
          Working, Admitted, GoOn, Throw, tokenStores
  <1>1. ASSUME NEW r \in Request, SaveRow(r)
        PROVE  /\ IsFiniteSet(rows')
               /\ \A w \in rows' : w \in rows \/ (stage'[w.by] = "returned" /\ w.token = answer'[w.by])
               /\ rows \subseteq rows'
               /\ \A q \in Answers' : q \in Answers \/ \E w \in rows' : w.by = q
    <2>1. PICK n \in Nat : rows' = rows \cup {[by |-> r, token |-> answer[r], created |-> n]}
      BY <1>1, RequestAssumption, FS_CardinalityType DEF SaveRow
    <2>2. IsFiniteSet(rows')
      BY <2>1, FS_AddElement
    <2>3. /\ answer' = answer /\ stage' = [stage EXCEPT ![r] = "returned"]
      BY <1>1 DEF SaveRow
    <2>4. \A w \in rows' : w \in rows \/ (stage'[w.by] = "returned" /\ w.token = answer'[w.by])
      BY <2>1, <2>3
    <2>5. \E w \in rows' : w.by = r
      <3>1. [by |-> r, token |-> answer[r], created |-> n].by = r
        OBVIOUS
      <3>2. QED BY ONLY <2>1, <3>1
    <2>6. \A q \in Answers' : q \in Answers \/ q = r
      BY <2>3
    <2>7. QED BY <2>1, <2>2, <2>4, <2>5, <2>6
  <1>2. ASSUME NEW r \in Request, Revoke(r)
        PROVE  /\ IsFiniteSet(rows')
               /\ rows' \subseteq rows
               /\ \A q \in Answers' : q \in Answers \/ \E w \in rows' : w.by = q
    <2>1. rows' \subseteq rows
      BY <1>2 DEF Revoke, Without
    <2>2. IsFiniteSet(rows')
      BY <2>1, FS_Subset
    <2>3. QED BY <1>2, <2>1, <2>2 DEF Revoke
  <1>4. ASSUME Tick \/ Stop \/ (\E u \in User : Activate(u)) \/ UNCHANGED sessionVars
        PROVE  rows' = rows /\ Answers' \subseteq Answers
    BY <1>4 DEF Tick, Stop, Activate, sessionVars
  <1>5. ASSUME NEW r \in Request, NEW u \in User, AskLogin(r, u)
        PROVE  rows' = rows /\ Answers' \subseteq Answers
    BY <1>5 DEF AskLogin
  <1>6. ASSUME NEW r \in Request, NEW kd \in Kind, NEW b \in BOOLEAN, NEW a \in Known,
               NEW t \in Carried(kd), Present(r, kd, b, a, t)
        PROVE  rows' = rows /\ Answers' \subseteq Answers
    BY <1>6 DEF Present
  <1>7. ASSUME NEW r \in Request,
               \/ FindUser(r) \/ ComparePassword(r) \/ GetBlacklist(r) \/ Verify(r)
               \/ Blacklist(r) \/ FindValid(r) \/ FindActive(r) \/ Error(r)
        PROVE  rows' = rows /\ Answers' \subseteq Answers
    BY <1>7 DEF FindUser, ComparePassword, GetBlacklist, Verify, Blacklist, FindValid,
       FindActive, Error
  <1> HIDE DEF Answers, HasRow, SessionTypeOK, HandlerOK, SessionIInv, CountInv
  <1>8. CASE \E r \in Request : SaveRow(r)
    BY <1>1, <1>8
  <1>9. CASE \E r \in Request : Revoke(r)
    BY <1>2, <1>9
  <1>10. CASE rows' = rows /\ Answers' \subseteq Answers
    BY <1>f, <1>10
  <1>11. QED
    BY <1>4, <1>5, <1>6, <1>7, <1>8, <1>9, <1>10 DEF SessionNext, Serve, Kind

\* What findValid has found stays an answered token like the one presented.
LEMMA HeldStep ==
  ASSUME SessionIInv, CountInv, [SessionNext]_sessionVars, NEW k \in Request
  PROVE  HeldOK(k)'
  <1>d. \A q \in Request : Done(q)
    BY DoneStep
  <1> USE NullAssumption DEF SessionIInv, SessionTypeOK, HandlerOK, CountInv, HeldOK,
          Working, Admitted, GoOn, Throw, tokenStores
  <1>1. ASSUME NEW r \in Request, FindValid(r) PROVE HeldOK(k)'
    <2>1. task[r].refresh \in Token
      BY <1>1 DEF FindValid
    <2>2. \A w \in Matching(task[r].refresh) :
             /\ w.by \in Request /\ stage[w.by] = "returned"
             /\ LooksLike(answer[w.by], task[r].refresh)
      BY DEF Matching, Row
    <2>3. QED BY <1>1, <2>1, <2>2 DEF FindValid
  <1>2. CASE Tick \/ Stop \/ (\E u \in User : Activate(u)) \/ UNCHANGED sessionVars
    BY <1>2 DEF Tick, Stop, Activate, sessionVars
  <1>3. ASSUME NEW r \in Request, NEW u \in User, AskLogin(r, u) PROVE HeldOK(k)'
    BY <1>3 DEF AskLogin
  <1>4. ASSUME NEW r \in Request, NEW kd \in Kind, NEW b \in BOOLEAN, NEW a \in Known,
               NEW t \in Carried(kd), Present(r, kd, b, a, t) PROVE HeldOK(k)'
    BY <1>4 DEF Present
  <1>5. ASSUME NEW r \in Request, FindUser(r) \/ ComparePassword(r) \/ SaveRow(r) PROVE HeldOK(k)'
    BY <1>5 DEF FindUser, ComparePassword, SaveRow
  <1>6. ASSUME NEW r \in Request, GetBlacklist(r) \/ Verify(r) \/ Blacklist(r) PROVE HeldOK(k)'
    BY <1>6 DEF GetBlacklist, Verify, Blacklist
  <1>7. ASSUME NEW r \in Request, FindActive(r) \/ Revoke(r) PROVE HeldOK(k)'
    BY <1>7 DEF FindActive, Revoke
  <1>8. ASSUME NEW r \in Request, Error(r) PROVE HeldOK(k)'
    BY <1>8 DEF Error
  <1>9. QED
    BY <1>1, <1>2, <1>3, <1>4, <1>5, <1>6, <1>7, <1>8 DEF SessionNext, Serve, Kind

\* At each step the sessions without a row grow by one at most, and only when a
\* request that presents a token like theirs passes the delete.
LEMMA CountStep ==
  ASSUME SessionIInv, CountInv, [SessionNext]_sessionVars, NEW t \in Token
  PROVE  (Cardinality(Gone(t)) <= Cardinality(Past(t)))'
  <1>1. /\ \A q \in Request : Done(q)
        /\ rows \subseteq rows' \/ \E r \in Request : Revoke(r)
        /\ \A q \in Answers' : q \in Answers \/ \E w \in rows' : w.by = q
    BY DoneStep, RowsStep
  <1>2. /\ IsFiniteSet(Gone(t)) /\ IsFiniteSet(Past(t))
        /\ IsFiniteSet(Gone(t)') /\ IsFiniteSet(Past(t)')
    BY RequestAssumption, FS_Subset DEF Gone, Answers, Past, Presenting
  <1>3. /\ Cardinality(Gone(t)) \in Nat /\ Cardinality(Past(t)) \in Nat
        /\ Cardinality(Gone(t)') \in Nat /\ Cardinality(Past(t)') \in Nat
        /\ Cardinality(Gone(t)) <= Cardinality(Past(t))
    BY <1>2, FS_CardinalityType DEF CountInv
  <1>4. Past(t) \subseteq Past(t)'
    BY <1>1 DEF Done, Past, Presenting
  <1>5. ASSUME Gone(t)' \subseteq Gone(t) PROVE Cardinality(Gone(t)') <= Cardinality(Past(t)')
    <2>1. Cardinality(Gone(t)') <= Cardinality(Gone(t)) /\ Cardinality(Past(t)) <= Cardinality(Past(t)')
      BY <1>2, <1>4, <1>5, FS_Subset
    <2>2. QED BY <1>3, <2>1
  <1>6. CASE rows \subseteq rows'
    <2>1. Gone(t)' \subseteq Gone(t)
      BY <1>1, <1>6 DEF Gone, Answers, HasRow, Done
    <2>2. QED BY <1>5, <2>1
  <1>7. ASSUME NEW r \in Request, Revoke(r) PROVE Cardinality(Gone(t)') <= Cardinality(Past(t)')
    <2>1. Gone(t)' \subseteq Gone(t) \cup {held[r]}
      BY <1>1, <1>7 DEF Gone, Answers, HasRow, Done, Revoke, Without
    <2>2. CASE Gone(t)' \subseteq Gone(t)
      BY <1>5, <2>2
    <2>3. CASE held[r] \in Gone(t)'
      <3>1. /\ stage[r] = "revoke" /\ task[r] \in Bearer /\ task[r].refresh # NoToken
            /\ stage'[r] \notin BeforeRevoke /\ task'[r] = task[r]
            /\ held[r] \in Request /\ stage[held[r]] = "returned"
            /\ LooksLike(answer[held[r]], task[r].refresh)
        BY <1>7 DEF Revoke, GoOn, SessionIInv, SessionTypeOK, HandlerOK, CountInv, HeldOK,
           BeforeRevoke
      <3>2. LooksLike(answer[held[r]], t)
        BY <1>1, <2>3, <3>1 DEF Gone, Done
      <3>3. LooksLike(task[r].refresh, t)
        BY <3>1, <3>2, LooksAlike
      <3>4. r \notin Past(t) /\ r \in Past(t)'
        BY <3>1, <3>3 DEF Past, Presenting, BeforeRevoke
      <3>5. Cardinality(Gone(t) \cup {held[r]}) <= Cardinality(Gone(t)) + 1
        <4>1. Cardinality(Gone(t) \cup {held[r]}) =
                IF held[r] \in Gone(t) THEN Cardinality(Gone(t)) ELSE Cardinality(Gone(t)) + 1
          BY <1>2, FS_AddElement
        <4>2. QED BY <1>3, <4>1
      <3>6. Cardinality(Gone(t)') <= Cardinality(Gone(t) \cup {held[r]})
        BY <1>2, <2>1, FS_AddElement, FS_Subset
      <3>7. Cardinality(Past(t) \cup {r}) = Cardinality(Past(t)) + 1
        BY <1>2, <3>4, FS_AddElement
      <3>8. Cardinality(Past(t) \cup {r}) <= Cardinality(Past(t)')
        BY <1>2, <1>4, <3>4, FS_Subset
      <3>9. Cardinality(Gone(t) \cup {held[r]}) \in Nat
        BY <1>2, FS_AddElement, FS_CardinalityType
      <3>10. QED BY <1>3, <3>5, <3>6, <3>7, <3>8, <3>9
    <2>4. QED BY <2>1, <2>2, <2>3
  <1>8. QED BY <1>1, <1>6, <1>7

\* The invariant that counts.
LEMMA CountInvariance == SessionSpec => []CountInv
  <1>1. SessionInit => CountInv
    <2> SUFFICES ASSUME SessionInit PROVE CountInv
      OBVIOUS
    <2>1. rows = {} /\ IsFiniteSet(rows) /\ \A r \in Request : HeldOK(r)
      BY FS_EmptySet DEF SessionInit, HeldOK
    <2>2. ASSUME NEW t \in Token PROVE Cardinality(Gone(t)) <= Cardinality(Past(t))
      <3>1. Gone(t) = {} /\ Past(t) = {}
        BY NullAssumption DEF SessionInit, Gone, Answers, Past, Presenting
      <3>2. QED BY <3>1, FS_EmptySet
    <2>3. QED BY <2>1, <2>2 DEF CountInv
  <1>2. SessionIInv /\ CountInv /\ [SessionNext]_sessionVars => CountInv'
    <2> SUFFICES ASSUME SessionIInv, CountInv, [SessionNext]_sessionVars PROVE CountInv'
      OBVIOUS
    <2>1. \A q \in Request : Done(q)
      BY DoneStep
    <2>2. \A w \in rows' : stage'[w.by] = "returned" /\ w.token = answer'[w.by]
      BY <2>1, RowsStep DEF CountInv, Done, SessionIInv, SessionTypeOK, Row
    <2>3. QED BY <2>2, RowsStep, HeldStep, CountStep DEF CountInv
  <1>3. QED BY <1>1, <1>2, Invariance, PTL DEF SessionSpec

\* revokeById never ends more sessions than there were requests that carried a
\* refresh token like theirs, given or invented, for any number of requests.
THEOREM Sessions_Counted == SessionSpec => []SessionsAreCounted
  <1>1. SessionIInv /\ CountInv => SessionsAreCounted
    <2> SUFFICES ASSUME SessionIInv, CountInv, NEW t \in Known
                 PROVE  LET given == {q \in Request : stage[q] = "returned" /\ answer[q] # NoToken
                                                       /\ LooksLike(answer[q], t)}
                        IN  Cardinality(given) <= Cardinality(Matching(t)) + Cardinality(Presenting(t))
      BY DEF SessionsAreCounted, Presenting
    <2> DEFINE given == {q \in Request : stage[q] = "returned" /\ answer[q] # NoToken
                                          /\ LooksLike(answer[q], t)}
               kept  == {w.by : w \in Matching(t)}
    <2>1. t \in Token
      BY KnownTokens DEF SessionIInv
    <2>2. given \subseteq kept \cup Gone(t)
      BY DEF CountInv, Gone, Answers, HasRow, Matching
    <2>3. IsFiniteSet(Matching(t)) /\ IsFiniteSet(Gone(t)) /\ IsFiniteSet(Presenting(t))
      BY RequestAssumption, FS_Subset DEF CountInv, Matching, Gone, Answers, Presenting
    <2>4. IsFiniteSet(kept) /\ Cardinality(kept) <= Cardinality(Matching(t))
      <3> DEFINE M == Matching(t)
                 f == [w \in M |-> w.by]
      <3>1. f \in Surjection(M, kept) /\ IsFiniteSet(M)
        BY <2>3 DEF Surjection
      <3> HIDE DEF f, M, kept
      <3>2. IsFiniteSet(kept) /\ Cardinality(kept) <= Cardinality(M)
        BY <3>1, FS_Surjection
      <3>3. QED BY <3>2 DEF M
    <2>5. Cardinality(Past(t)) <= Cardinality(Presenting(t))
      BY <2>3, FS_Subset DEF Past
    <2>6. Cardinality(Gone(t)) <= Cardinality(Past(t))
      BY <2>1 DEF CountInv
    <2>7. Cardinality(given) <= Cardinality(kept) + Cardinality(Gone(t))
      <3> HIDE DEF given, kept
      <3>1. /\ IsFiniteSet(kept \cup Gone(t))
            /\ Cardinality(kept \cup Gone(t)) =
                 Cardinality(kept) + Cardinality(Gone(t)) - Cardinality(kept \cap Gone(t))
        BY <2>3, <2>4, FS_Union
      <3>2. IsFiniteSet(given) /\ Cardinality(given) <= Cardinality(kept \cup Gone(t))
        BY <2>2, <3>1, FS_Subset
      <3>3. /\ Cardinality(given) \in Nat /\ Cardinality(kept) \in Nat
            /\ Cardinality(Gone(t)) \in Nat /\ Cardinality(kept \cap Gone(t)) \in Nat
        BY <2>3, <2>4, <3>2, FS_CardinalityType, FS_Intersection
      <3>4. QED BY <3>1, <3>2, <3>3
    <2> HIDE DEF given, kept
    <2>8. /\ Cardinality(kept) \in Nat /\ Cardinality(Gone(t)) \in Nat
          /\ Cardinality(Past(t)) \in Nat /\ Cardinality(Presenting(t)) \in Nat
          /\ Cardinality(Matching(t)) \in Nat /\ Cardinality(given) \in Nat
      <3>1. IsFiniteSet(Past(t)) /\ IsFiniteSet(given)
        BY <2>3, RequestAssumption, FS_Subset DEF Past, given
      <3>2. QED BY <2>3, <2>4, <3>1, FS_CardinalityType
    <2>9. Cardinality(given) <= Cardinality(Matching(t)) + Cardinality(Presenting(t))
      BY <2>4, <2>5, <2>6, <2>7, <2>8
    <2>10. QED BY <2>9 DEF given
  <1>2. QED BY <1>1, CountInvariance, Invariance, PTL
=============================================================================
