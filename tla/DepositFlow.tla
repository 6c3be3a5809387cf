----------------------------- MODULE DepositFlow -----------------------------
(***************************************************************************)
(* Deposit addresses and deposit callbacks over one crypto_addresses       *)
(* table: createAddressForUser saves the row of an address after the       *)
(* provider has issued it, and handleDepositCallback saves a row of its    *)
(* own when it meets an address without one.                               *)
(***************************************************************************)
EXTENDS DepositAddress

CONSTANTS Callback, Txid, Body,   \* the callbacks of DepositCallback
          MaxBalance, NoBody, NoRow

VARIABLES logs, deposits, balances, request, owner, loaded, pc   \* DepositCallback

\* The callback handlers, over the variable addresses of DepositAddress.
D == INSTANCE DepositCallback

ASSUME FlowAssumption == Body \subseteq D!BodyType /\ NoBody \notin Body

addressOnly  == <<active, issued, task, held, stage>>
callbackOnly == <<logs, deposits, balances, request, owner, loaded, pc>>
flowVars     == <<addresses, addressOnly, callbackOnly>>

FlowInit == AddressInit /\ D!Init

\* A step of an address request.
AddressStep ==
  /\ \/ \E r \in Request : \/ \E t \in Create \cup Status : Ask(r, t)
                           \/ Serve(r) \/ Error(r)
     \/ \E u \in User, cur \in Currency : TakeDirectly(u, cur)
  /\ UNCHANGED callbackOnly

\* The provider reports a deposit to an address only after it has issued it.
Notify(c, b) == issued[b.address] # NoUser /\ D!Receive(c, b)

\* A step of a callback handler.
CallbackStep ==
  /\ \E c \in Callback : \/ \E b \in Body : Notify(c, b)
                         \/ D!Refuse(c) \/ D!Step(c) \/ D!Fail(c)
  /\ UNCHANGED addressOnly

\* One process serves both: all handlers in flight stop together.
StopAll ==
  /\ stage' = [r \in Request |-> IF stage[r] \in Working THEN "lost" ELSE stage[r]]
  /\ pc' = [c \in Callback |-> IF pc[c] \in D!InFlight THEN "lost" ELSE pc[c]]
  /\ UNCHANGED <<addresses, active, issued, task, held,
                 logs, deposits, balances, request, owner, loaded>>

FlowNext == AddressStep \/ CallbackStep \/ StopAll

FlowSpec == FlowInit /\ [][FlowNext]_flowVars

-----------------------------------------------------------------------------
(* Properties. *)

\* A row names the company of the user the provider issued its address to, but for
\* one that was saved by a deposit callback: that names the default company, and a
\* callback for the address has come in.
RowAgreesWithProvider ==
  \A a \in Address :
    addresses[a] # NoCompany =>
      /\ issued[a] # NoUser
      /\ \/ addresses[a] = CompanyOf[issued[a]]
         \/ /\ addresses[a] = DefaultCompany
            /\ \E c \in Callback : request[c] # NoBody /\ request[c].address = a

\* A merchant who has been told an address gets the deposits to it, whichever
\* of the two handlers saved the address first, and also the deposits reported
\* before the answer was given.
ToldThenBooked ==
  \A r \in Request, c \in Callback :
    (/\ stage[r] = "returned" /\ task[r].kind = "create"
     /\ deposits[c] # NoCompany /\ request[c].address = held[r])
      => deposits[c] = CompanyOf[task[r].user]

\* Whichever handler saves an address first decides its company for good, and
\* no callback is on record under another one.
FirstRowDecides ==
  [][\A a \in Address :
       addresses[a] # NoCompany =>
         /\ addresses'[a] = addresses[a]
         /\ \A c \in Callback :
              (logs'[c] # NoCompany /\ request[c] # NoBody /\ request[c].address = a) =>
                logs'[c] = addresses[a]]_flowVars
=============================================================================
