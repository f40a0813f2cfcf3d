------------------------------ MODULE Wallets ------------------------------
(***************************************************************************)
(* Wallets (api/services/wallet-service.go): opening one, which inserts a  *)
(* row and opens the wallet's account in the ledger, and listing them with *)
(* their balances.  Any number of requests run at the same time, and money *)
(* arrives in the ledger meanwhile.  Each step is one call, to Postgres or *)
(* to TigerBeetle.                                                         *)
(***************************************************************************)
EXTENDS Integers, FiniteSets

CONSTANTS Users, Currencies,
          Ids,                   \* the wallets' ids, taken as they come
          Numbers,               \* account numbers (NewAccountNumber)
          Requests,              \* requests the API serves at the same time
          accountNumberAttempts, \* account_number.go:15
          MaxBalance,            \* bound on the deposits into one wallet
          MaxFaults              \* bound on failed calls and lost replies

ASSUME WalletsAssumption ==
  /\ Users # {} /\ Currencies # {}
  /\ IsFiniteSet(Requests)
  /\ accountNumberAttempts \in Nat \ {0}
  /\ MaxBalance \in Nat
  /\ MaxFaults \in Nat

VARIABLES rows,     \* the wallets table
          accounts, \* wallets with an account in the ledger
          balance,  \* the ledger's balance of each account
          deposit,  \* where the deposit into each wallet is
          refused,  \* deposits the ledger refused for want of an account
          req,      \* the requests in progress
          faults    \* faults so far

ledger == <<accounts, balance, deposit, refused>>
vars == <<rows, ledger, req, faults>>

Wallet == [id : Ids, owner : Users, currency : Currencies, number : Numbers]

(* A request: the call it makes next, who makes it and for which currency, *)
(* the numbers it has drawn, and the rows and balances it has read.        *)
Labels == {"idle", "find", "insert", "ensure", "list", "balances", "listed"}
Someone == CHOOSE u \in Users : TRUE
Some == CHOOSE c \in Currencies : TRUE
Nothing == [i \in Ids |-> 0]

Idle == [at |-> "idle", owner |-> Someone, currency |-> Some, attempt |-> 1,
         wallet |-> {}, shown |-> Nothing, rowsThen |-> {},
         balanceThen |-> Nothing]

At(r) == req[r].at

Init ==
  /\ rows = {}
  /\ accounts = {}
  /\ balance = Nothing
  /\ deposit = [i \in Ids |-> "none"]
  /\ refused = {}
  /\ req = [r \in Requests |-> Idle]
  /\ faults = 0

Fault == faults < MaxFaults /\ faults' = faults + 1

Return(r) == req' = [req EXCEPT ![r] = Idle]

(* A call fails without effect and the request returns its error, or the   *)
(* process dies.                                                           *)
RequestFails(r) ==
  /\ At(r) # "idle"
  /\ Return(r)
  /\ Fault
  /\ UNCHANGED <<rows, ledger>>

-----------------------------------------------------------------------------
(* CreateWallet.                                                           *)

Owned(u, c) == {w \in rows : w.owner = u /\ w.currency = c}
HasNumber(n) == \E w \in rows : w.number = n
HasId(i) == \E w \in rows : w.id = i

Create(r) ==
  /\ At(r) = "idle"
  /\ \E u \in Users, c \in Currencies :
       req' = [req EXCEPT ![r] = [Idle EXCEPT !.at = "find", !.owner = u,
                                              !.currency = c]]
  /\ UNCHANGED <<rows, ledger, faults>>

(* Mutant: an error of the lookup is taken for ErrNotFound.                *)
FindWalletLoosely(r) ==
  /\ At(r) = "find"
  /\ \/ /\ IF Owned(req[r].owner, req[r].currency) = {}
             THEN req' = [req EXCEPT ![r].at = "insert"] ELSE Return(r)
        /\ UNCHANGED faults
     \/ req' = [req EXCEPT ![r].at = "insert"] /\ Fault
  /\ UNCHANGED <<rows, ledger>>

(* GetWalletByUser: one wallet in the currency, if there is any.           *)
FindWallet(r) ==
  /\ At(r) = "find"
  /\ IF Owned(req[r].owner, req[r].currency) = {}
       THEN req' = [req EXCEPT ![r].at = "insert"] ELSE Return(r)
  /\ UNCHANGED <<rows, ledger, faults>>

New(r, i, n) == [id |-> i, owner |-> req[r].owner,
                 currency |-> req[r].currency, number |-> n]

(* Mutant: no unique index on wallets.account_number.                      *)
AdmitsAny(n) == TRUE

(* The unique index on account_number.                                     *)
Admits(n) == ~HasNumber(n)

(* Mutant: one attempt too many.                                           *)
MoreAttemptsOffByOne(r) == req[r].attempt <= accountNumberAttempts

MoreAttempts(r) == req[r].attempt < accountNumberAttempts

(* Mutant: any error of the insert is taken for a collision.               *)
InsertLostRetried(r) ==
  IF MoreAttempts(r) THEN req' = [req EXCEPT ![r].attempt = @ + 1]
                     ELSE Return(r)

(* The insert took effect and its reply was lost: the error is returned.   *)
InsertLost(r) == Return(r)

(* Repository.CreateWallet: a number is drawn; if the index refuses it,    *)
(* another one is, accountNumberAttempts times in all.                     *)
InsertWallet(r) ==
  /\ At(r) = "insert"
  /\ \E n \in Numbers, i \in Ids :
       LET w == New(r, i, n) IN
       /\ ~HasId(i)
       /\ \/ /\ Admits(n)
             /\ rows' = rows \union {w}
             /\ \/ /\ req' = [req EXCEPT ![r].at = "ensure",
                                         ![r].wallet = {w}]
                   /\ UNCHANGED faults
                \/ InsertLost(r) /\ Fault
          \/ /\ ~Admits(n)
             /\ IF MoreAttempts(r)
                  THEN req' = [req EXCEPT ![r].attempt = @ + 1]
                  ELSE Return(r)
             /\ UNCHANGED <<rows, faults>>
  /\ UNCHANGED ledger

(* ensureAccounts: an account that exists is answered like a new one.      *)
EnsureAccount(i) == accounts' = accounts \union {i}

(* ensureLedgerAccount: a failure is only logged.                          *)
EnsureLedgerAccount(r) ==
  /\ At(r) = "ensure"
  /\ \/ (\E w \in req[r].wallet : EnsureAccount(w.id)) /\ UNCHANGED faults
     \/ UNCHANGED accounts /\ Fault
  /\ Return(r)
  /\ UNCHANGED <<rows, balance, deposit, refused>>

-----------------------------------------------------------------------------
(* Ledger.Deposit, called by the task of a deposit (module Deposit).       *)

(* Mutant: the deposit relies on the account CreateWallet opened.          *)
StartDepositUnensured(i) ==
  /\ deposit[i] = "none"
  /\ balance[i] < MaxBalance
  /\ HasId(i)
  /\ deposit' = [deposit EXCEPT ![i] = "credit"]
  /\ UNCHANGED <<rows, accounts, balance, refused, req, faults>>

(* The accounts are ensured first.  The caller retries what fails.         *)
StartDeposit(i) ==
  /\ deposit[i] = "none"
  /\ balance[i] < MaxBalance
  /\ HasId(i)
  /\ EnsureAccount(i)
  /\ deposit' = [deposit EXCEPT ![i] = "credit"]
  /\ UNCHANGED <<rows, balance, refused, req, faults>>

Credit(i) ==
  /\ deposit[i] = "credit"
  /\ deposit' = [deposit EXCEPT ![i] = "none"]
  /\ IF i \in accounts
       THEN balance' = [balance EXCEPT ![i] = @ + 1] /\ UNCHANGED refused
       ELSE refused' = refused \union {i} /\ UNCHANGED balance
  /\ UNCHANGED <<rows, accounts, req, faults>>

-----------------------------------------------------------------------------
(* ListMyWallets.                                                          *)

List(r) ==
  /\ At(r) = "idle"
  /\ \E u \in Users :
       req' = [req EXCEPT ![r] = [Idle EXCEPT !.at = "list", !.owner = u,
                                              !.rowsThen = rows,
                                              !.balanceThen = balance]]
  /\ UNCHANGED <<rows, ledger, faults>>

(* ListWalletsByUser.                                                      *)
ListRows(r) ==
  /\ At(r) = "list"
  /\ req' = [req EXCEPT ![r].at = "balances",
                        ![r].wallet = {w \in rows : w.owner = req[r].owner}]
  /\ UNCHANGED <<rows, ledger, faults>>

(* Ledger.Balances: one lookup of all the accounts; a wallet without one   *)
(* has nothing.                                                            *)
Balances(r) == [i \in Ids |-> IF i \in accounts THEN balance[i] ELSE 0]

(* Mutant: balances that cannot be looked up are shown as nothing.         *)
WithBalancesLenient(r) ==
  /\ At(r) = "balances"
  /\ \/ /\ req' = [req EXCEPT ![r].at = "listed", ![r].shown = Balances(r)]
        /\ UNCHANGED faults
     \/ req' = [req EXCEPT ![r].at = "listed"] /\ Fault
  /\ UNCHANGED <<rows, ledger>>

WithBalances(r) ==
  /\ At(r) = "balances"
  /\ req' = [req EXCEPT ![r].at = "listed", ![r].shown = Balances(r)]
  /\ UNCHANGED <<rows, ledger, faults>>

AnswerList(r) ==
  /\ At(r) = "listed"
  /\ Return(r)
  /\ UNCHANGED <<rows, ledger, faults>>

RequestStep(r) ==
  \/ Create(r) \/ FindWallet(r) \/ InsertWallet(r) \/ EnsureLedgerAccount(r)
  \/ List(r) \/ ListRows(r) \/ WithBalances(r) \/ AnswerList(r)
  \/ RequestFails(r)

Next ==
  \/ \E r \in Requests : RequestStep(r)
  \/ \E i \in Ids : StartDeposit(i) \/ Credit(i)

Spec == Init /\ [][Next]_vars

-----------------------------------------------------------------------------
Request == [at : Labels, owner : Users, currency : Currencies,
            attempt : 1 .. accountNumberAttempts, wallet : SUBSET Wallet,
            shown : [Ids -> Nat], rowsThen : SUBSET Wallet,
            balanceThen : [Ids -> Nat]]

(* Type invariant.                                                         *)
TypeOK ==
  /\ rows \subseteq Wallet
  /\ accounts \subseteq Ids
  /\ balance \in [Ids -> 0 .. MaxBalance]
  /\ deposit \in [Ids -> {"none", "credit"}]
  /\ refused \subseteq Ids
  /\ req \in [Requests -> Request]
  /\ faults \in 0 .. MaxFaults

(* "A user holds at most one wallet per currency" (wallet-service.go:17).  *)
(* Looking for one and inserting one are two calls, so requests that       *)
(* overlap may leave one wallet each, but never more: served one at a      *)
(* time, they leave a single one, whatever replies are lost.               *)
OneWalletEach ==
  \A u \in Users, c \in Currencies :
    Cardinality(Owned(u, c)) <= Cardinality(Requests)

(* An account number names one wallet ("Every wallet is given a unique     *)
(* ten-digit account number, which is what other people use to send it     *)
(* money", docs.go:117), however often a number is drawn again.            *)
NumbersUnique ==
  \A v, w \in rows : v.number = w.number \/ v.id = w.id => v = w

(* "Deposit ensures the account again before crediting it"                 *)
(* (wallet-service.go:146-148): money never waits for an account that the  *)
(* creation of the wallet failed to open.                                  *)
DepositsFindAccount == refused = {}

(* docs.go:131: a list holds every wallet the user had when the request    *)
(* came, with balances that "include every settled deposit and transfer".  *)
(* Only deposits are modelled here: nothing takes money out of a wallet, so*)
(* a balance may only have grown since.                                    *)
ListIsCurrent ==
  \A r \in Requests : At(r) = "listed" =>
    \A w \in req[r].rowsThen : w.owner = req[r].owner =>
      w \in req[r].wallet /\ req[r].shown[w.id] >= req[r].balanceThen[w.id]
=============================================================================
