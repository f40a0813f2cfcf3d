---------------------------- MODULE WalletProofs ----------------------------
(***************************************************************************)
(* Theorems about Wallets, for any number of users, currencies, wallets,   *)
(* requests and faults.  The inductive invariant, SafeInv, counts the rows *)
(* of a user and currency with the requests that are about to insert one;  *)
(* it says that the table is finite, so that its rows can be counted.      *)
(***************************************************************************)
EXTENDS Wallets, FiniteSetTheorems, TLAPS

Ledger ==
  /\ DepositsFindAccount
  /\ \A i \in Ids : deposit[i] = "credit" \/ balance[i] > 0 => i \in accounts
  /\ \A i \in accounts : HasId(i)
  /\ \A i \in Ids : deposit[i] = "credit" => balance[i] < MaxBalance

Asked(r) == {w \in req[r].rowsThen : w.owner = req[r].owner}

RequestInv(r) ==
  /\ req[r].rowsThen \subseteq rows
  /\ req[r].wallet \subseteq rows
  /\ \A i \in Ids : req[r].balanceThen[i] <= balance[i]
  /\ At(r) \in {"balances", "listed"} => Asked(r) \subseteq req[r].wallet
  /\ At(r) = "listed" =>
       \A w \in Asked(r) : req[r].shown[w.id] >= req[r].balanceThen[w.id]

(* The requests that found no wallet and are about to insert one.          *)
Inserting(u, c) == {r \in Requests : At(r) = "insert" /\ req[r].owner = u
                                       /\ req[r].currency = c}

Counted(u, c) ==
  Cardinality(Owned(u, c)) + Cardinality(Inserting(u, c))
    <= Cardinality(Requests)

SafeInv ==
  /\ TypeOK
  /\ IsFiniteSet(rows)
  /\ NumbersUnique
  /\ Ledger
  /\ \A r \in Requests : RequestInv(r)
  /\ \A u \in Users, c \in Currencies : Counted(u, c)

LEMMA IdleTyped ==
  /\ Idle \in Request
  /\ Idle.at = "idle" /\ Idle.rowsThen = {} /\ Idle.wallet = {}
  /\ Idle.balanceThen = [i \in Ids |-> 0]
  BY WalletsAssumption
  DEF WalletsAssumption, Idle, Request, Labels, Someone, Some, Nothing

LEMMA Finite ==
  ASSUME SafeInv, NEW u \in Users, NEW c \in Currencies
  PROVE  /\ IsFiniteSet(Owned(u, c)) /\ IsFiniteSet(Inserting(u, c))
         /\ Cardinality(Owned(u, c)) \in Nat
         /\ Cardinality(Inserting(u, c)) \in Nat
         /\ Cardinality(Requests) \in Nat
<1>1. Owned(u, c) \subseteq rows /\ Inserting(u, c) \subseteq Requests
  BY DEF Owned, Inserting
<1>2. QED
  BY <1>1, WalletsAssumption, FS_Subset, FS_CardinalityType
  DEF SafeInv, WalletsAssumption

-----------------------------------------------------------------------------
(* What a step of a request does that changes neither the table nor the    *)
(* ledger.                                                                 *)
RequestAlone(r) ==
  /\ UNCHANGED <<rows, accounts, balance, deposit, refused>>
  /\ faults' \in 0 .. MaxFaults
  /\ req' = [req EXCEPT ![r] = req'[r]]

(* Such a step may make a request insert a wallet only if there is none.   *)
InsertsFirst(r) ==
  At(r)' = "insert" =>
    \/ /\ At(r) = "insert"
       /\ req'[r].owner = req[r].owner /\ req'[r].currency = req[r].currency
    \/ Owned(req'[r].owner, req'[r].currency) = {}

LEMMA AloneKeeps ==
  ASSUME SafeInv, NEW r \in Requests, RequestAlone(r), InsertsFirst(r),
         req'[r] \in Request, RequestInv(r)'
  PROVE  SafeInv'
<1>1. TypeOK'
  BY DEF SafeInv, RequestAlone, TypeOK
<1>2. ASSUME NEW s \in Requests PROVE RequestInv(s)'
  <2>1. CASE s = r
    BY <2>1
  <2>2. CASE s # r
    <3>1. req'[s] = req[s]
      BY <2>2 DEF SafeInv, RequestAlone, TypeOK
    <3>2. QED
      BY <3>1 DEF SafeInv, RequestAlone, RequestInv, Asked, At
  <2>3. QED
    BY <2>1, <2>2
<1>3. ASSUME NEW u \in Users, NEW c \in Currencies PROVE Counted(u, c)'
  <2>1. Owned(u, c)' = Owned(u, c)
    BY DEF RequestAlone, Owned
  <2>2. CASE Inserting(u, c)' \subseteq Inserting(u, c)
    <3>1. /\ IsFiniteSet(Inserting(u, c)')
          /\ Cardinality(Inserting(u, c)') <= Cardinality(Inserting(u, c))
      BY <2>2, Finite, FS_Subset
    <3>2. Cardinality(Inserting(u, c)') \in Nat
      BY <3>1, FS_CardinalityType
    <3>3. QED
      BY <2>1, <3>1, <3>2, Finite DEF SafeInv, Counted
  <2>3. CASE ~(Inserting(u, c)' \subseteq Inserting(u, c))
    <3>1. Owned(u, c) = {}
      BY <2>3 DEF SafeInv, RequestAlone, InsertsFirst, Inserting, At, TypeOK
    <3>2. Inserting(u, c)' \subseteq Requests
      BY DEF Inserting
    <3>3. /\ Cardinality(Inserting(u, c)') <= Cardinality(Requests)
          /\ Cardinality(Inserting(u, c)') \in Nat
      BY <3>2, WalletsAssumption, FS_Subset, FS_CardinalityType
      DEF WalletsAssumption
    <3>4. QED
      BY <2>1, <3>1, <3>3, FS_EmptySet DEF Counted
  <2>4. QED
    BY <2>2, <2>3
<1>4. QED
  BY <1>1, <1>2, <1>3
  DEF SafeInv, RequestAlone, NumbersUnique, Ledger, DepositsFindAccount, HasId

(* Steps that end a request, or that begin one.                            *)
LEMMA ReturnKeeps ==
  ASSUME SafeInv, NEW r \in Requests, Return(r),
         UNCHANGED <<rows, accounts, balance, deposit, refused>>,
         faults' \in 0 .. MaxFaults
  PROVE  SafeInv'
<1>1. req'[r] = Idle /\ RequestAlone(r)
  BY DEF SafeInv, TypeOK, Return, RequestAlone
<1>2. RequestInv(r)'
  BY <1>1, IdleTyped DEF RequestInv, Asked, At, RequestAlone, SafeInv, TypeOK
<1>3. QED
  BY <1>1, <1>2, IdleTyped, AloneKeeps DEF InsertsFirst, At

(* A request that fails, or has answered a list.                           *)
LEMMA EndKeeps ==
  ASSUME SafeInv, NEW r \in Requests, RequestFails(r) \/ AnswerList(r)
  PROVE  SafeInv'
<1>1. faults' \in 0 .. MaxFaults
  BY WalletsAssumption
  DEF RequestFails, AnswerList, Fault, SafeInv, TypeOK, WalletsAssumption
<1>2. Return(r) /\ UNCHANGED <<rows, accounts, balance, deposit, refused>>
  BY DEF RequestFails, AnswerList, ledger
<1>3. QED
  BY <1>1, <1>2, ReturnKeeps

(* A request for a new wallet arrives, or one for the list; what a list is *)
(* judged by is what there is now.                                         *)
LEMMA ArriveKeeps ==
  ASSUME SafeInv, NEW r \in Requests, Create(r) \/ List(r)
  PROVE  SafeInv'
<1>1. /\ UNCHANGED <<rows, accounts, balance, deposit, refused, faults>>
      /\ RequestAlone(r)
  BY DEF Create, List, ledger, RequestAlone, SafeInv, TypeOK
<1>2. CASE Create(r)
  <2>1. PICK u \in Users, c \in Currencies :
          req'[r] = [Idle EXCEPT !.at = "find", !.owner = u, !.currency = c]
    BY <1>2 DEF Create, SafeInv, TypeOK
  <2>2. req'[r] \in Request
    BY <2>1, IdleTyped DEF Request, Labels
  <2>3. RequestInv(r)'
    BY <1>1, <2>1, IdleTyped
    DEF RequestInv, Asked, At, Idle, Nothing, SafeInv, TypeOK
  <2>4. InsertsFirst(r)
    BY <2>1, IdleTyped DEF InsertsFirst, At, Idle
  <2>5. QED
    BY <1>1, <2>2, <2>3, <2>4, AloneKeeps
<1>3. CASE List(r)
  <2>1. PICK u \in Users :
          req'[r] = [Idle EXCEPT !.at = "list", !.owner = u,
                                 !.rowsThen = rows, !.balanceThen = balance]
    BY <1>3 DEF List, SafeInv, TypeOK
  <2>2. balance \in [Ids -> Nat]
    BY WalletsAssumption DEF SafeInv, TypeOK, WalletsAssumption
  <2>3. req'[r] \in Request
    BY <2>1, <2>2, IdleTyped DEF Request, Labels, SafeInv, TypeOK
  <2>4. RequestInv(r)'
    BY <1>1, <2>1, <2>2, IdleTyped DEF RequestInv, Asked, At, Idle
  <2>5. InsertsFirst(r)
    BY <2>1, IdleTyped DEF InsertsFirst, At, Idle
  <2>6. QED
    BY <1>1, <2>3, <2>4, <2>5, AloneKeeps
<1>4. QED
  BY <1>2, <1>3

(* Looking for a wallet: only a request that found none may insert one.    *)
LEMMA FindKeeps ==
  ASSUME SafeInv, NEW r \in Requests, FindWallet(r) PROVE SafeInv'
<1>1. /\ UNCHANGED <<rows, accounts, balance, deposit, refused, faults>>
      /\ faults' \in 0 .. MaxFaults
  BY DEF FindWallet, ledger, SafeInv, TypeOK
<1>2. CASE Owned(req[r].owner, req[r].currency) = {}
  <2>1. /\ RequestAlone(r)
        /\ req'[r] = [req[r] EXCEPT !.at = "insert"]
    BY <1>1, <1>2 DEF FindWallet, RequestAlone, SafeInv, TypeOK
  <2>2. req[r] \in Request
    BY DEF SafeInv, TypeOK
  <2>3. req'[r] \in Request /\ InsertsFirst(r)
    BY <1>2, <2>1, <2>2 DEF Request, Labels, InsertsFirst
  <2>4. RequestInv(r)'
    BY <1>1, <2>1, <2>2 DEF RequestInv, Asked, At, Request, SafeInv
  <2>5. QED
    BY <2>1, <2>3, <2>4, AloneKeeps
<1>3. CASE Owned(req[r].owner, req[r].currency) # {}
  BY <1>1, <1>3, ReturnKeeps DEF FindWallet
<1>4. QED
  BY <1>2, <1>3

(* The two reads of ListMyWallets: rows and balances only grow.            *)
LEMMA ReadKeeps ==
  ASSUME SafeInv, NEW r \in Requests, ListRows(r) \/ WithBalances(r)
  PROVE  SafeInv'
<1>1. /\ UNCHANGED <<rows, accounts, balance, deposit, refused, faults>>
      /\ RequestAlone(r)
      /\ req[r] \in Request
      /\ RequestInv(r)
  BY DEF ListRows, WithBalances, ledger, RequestAlone, SafeInv, TypeOK
<1>2. CASE ListRows(r)
  <2>1. req'[r] = [req[r] EXCEPT !.at = "balances",
                     !.wallet = {w \in rows : w.owner = req[r].owner}]
    BY <1>2 DEF ListRows, SafeInv, TypeOK
  <2>2. req'[r] \in Request
    BY <1>1, <2>1 DEF Request, Labels, SafeInv, TypeOK
  <2>3. RequestInv(r)'
    BY <1>1, <2>1 DEF RequestInv, Asked, At, Request
  <2>4. InsertsFirst(r)
    BY <1>1, <2>1 DEF InsertsFirst, At, Request
  <2>5. QED
    BY <1>1, <2>2, <2>3, <2>4, AloneKeeps
<1>3. CASE WithBalances(r)
  <2>1. req'[r] = [req[r] EXCEPT !.at = "listed", !.shown = Balances(r)]
    BY <1>3 DEF WithBalances, SafeInv, TypeOK
  <2>2. /\ Balances(r) \in [Ids -> Nat]
        /\ \A i \in Ids : Balances(r)[i] >= balance[i]
    BY WalletsAssumption
    DEF Balances, SafeInv, TypeOK, Ledger, WalletsAssumption
  <2>3. req'[r] \in Request
    BY <1>1, <2>1, <2>2 DEF Request, Labels
  <2>4. \A w \in Asked(r) : w.id \in Ids
    BY <1>1 DEF Asked, Request, Wallet
  <2>5. \A i \in Ids : /\ req[r].balanceThen[i] \in Nat
                       /\ Balances(r)[i] >= req[r].balanceThen[i]
    BY <1>1, <2>2, WalletsAssumption
    DEF RequestInv, Request, SafeInv, TypeOK, WalletsAssumption
  <2>6. /\ req[r].at = "balances"
        /\ req'[r].at = "listed"
        /\ req'[r].rowsThen = req[r].rowsThen
        /\ req'[r].wallet = req[r].wallet
        /\ req'[r].owner = req[r].owner
        /\ req'[r].balanceThen = req[r].balanceThen
        /\ req'[r].shown = Balances(r)
    <3>1. req[r].at = "balances"
      BY <1>3 DEF At, WithBalances
    <3>2. QED
      BY <1>1, <2>1, <3>1 DEF Request
  <2>7. Asked(r)' = Asked(r)
    BY <2>6 DEF Asked
  <2>8. RequestInv(r)'
    BY <1>1, <2>4, <2>5, <2>6, <2>7 DEF RequestInv, At
  <2>9. InsertsFirst(r)
    BY <1>1, <2>1 DEF InsertsFirst, At, Request
  <2>10. QED
    BY <1>1, <2>3, <2>8, <2>9, AloneKeeps
<1>4. QED
  BY <1>2, <1>3

(* The account of a new wallet is opened; a failure changes nothing.       *)
LEMMA EnsureKeeps ==
  ASSUME SafeInv, NEW r \in Requests, EnsureLedgerAccount(r)
  PROVE  SafeInv'
<1>1. /\ UNCHANGED <<rows, balance, deposit, refused>>
      /\ faults' \in 0 .. MaxFaults
      /\ req' = [req EXCEPT ![r] = Idle]
  BY WalletsAssumption
  DEF EnsureLedgerAccount, Return, Fault, SafeInv, TypeOK, WalletsAssumption
<1>2. /\ accounts \subseteq accounts'
      /\ \A i \in accounts' : i \in accounts \/ (i \in Ids /\ HasId(i))
  <2>1. \A w \in req[r].wallet : w \in rows /\ w.id \in Ids
    BY DEF SafeInv, RequestInv, TypeOK, Wallet
  <2>2. QED
    BY <2>1 DEF EnsureLedgerAccount, EnsureAccount, HasId
<1>3. TypeOK'
  BY <1>1, <1>2, IdleTyped DEF SafeInv, TypeOK
<1>4. Ledger'
  BY <1>1, <1>2 DEF SafeInv, Ledger, DepositsFindAccount, HasId
<1>5. ASSUME NEW s \in Requests PROVE RequestInv(s)'
  <2>1. CASE s = r
    BY <1>1, <2>1, IdleTyped DEF RequestInv, Asked, At, SafeInv, TypeOK
  <2>2. CASE s # r
    BY <1>1, <2>2 DEF RequestInv, Asked, At, SafeInv, TypeOK
  <2>3. QED
    BY <2>1, <2>2
<1>6. ASSUME NEW u \in Users, NEW c \in Currencies PROVE Counted(u, c)'
  <2>1. Inserting(u, c)' \subseteq Inserting(u, c)
    BY <1>1, IdleTyped DEF Inserting, At, SafeInv, TypeOK
  <2>2. /\ Cardinality(Inserting(u, c)') <= Cardinality(Inserting(u, c))
        /\ Cardinality(Inserting(u, c)') \in Nat
    BY <2>1, Finite, FS_Subset, FS_CardinalityType
  <2>3. Owned(u, c)' = Owned(u, c)
    BY <1>1 DEF Owned
  <2>4. QED
    BY <2>2, <2>3, Finite DEF SafeInv, Counted
<1>7. QED
  BY <1>1, <1>3, <1>4, <1>5, <1>6 DEF SafeInv, NumbersUnique

(* A row is inserted, whether its reply is lost or not: the request that   *)
(* inserted it no longer inserts one.                                      *)
LEMMA StoredKeeps ==
  ASSUME SafeInv, NEW r \in Requests, At(r) = "insert",
         NEW w \in Wallet, w.owner = req[r].owner,
         w.currency = req[r].currency, ~HasId(w.id), Admits(w.number),
         rows' = rows \union {w}, UNCHANGED ledger, faults' \in 0 .. MaxFaults,
         \/ req' = [req EXCEPT ![r].at = "ensure", ![r].wallet = {w}]
         \/ req' = [req EXCEPT ![r] = Idle]
  PROVE  SafeInv'
<1>1. UNCHANGED <<accounts, balance, deposit, refused>>
  BY DEF ledger
<1>2. req[r] \in Request /\ RequestInv(r)
  BY DEF SafeInv, TypeOK
<1>3. /\ \/ req'[r] = [req[r] EXCEPT !.at = "ensure", !.wallet = {w}]
         \/ req'[r] = Idle
      /\ \A s \in Requests \ {r} : req'[s] = req[s]
      /\ req' = [req EXCEPT ![r] = req'[r]]
  BY DEF SafeInv, TypeOK
<1>4. req'[r] \in Request
  <2>1. [req[r] EXCEPT !.at = "ensure", !.wallet = {w}] \in Request
    BY <1>2 DEF Request, Labels
  <2>2. QED
    BY <1>3, <2>1, IdleTyped
<1>5. TypeOK'
  BY <1>1, <1>3, <1>4 DEF SafeInv, TypeOK
<1>6. IsFiniteSet(rows')
  BY FS_AddElement DEF SafeInv
<1>7. NumbersUnique'
  BY DEF SafeInv, NumbersUnique, HasId, Admits, HasNumber
<1>8. Ledger'
  BY <1>1 DEF SafeInv, Ledger, DepositsFindAccount, HasId
<1>9. ASSUME NEW s \in Requests PROVE RequestInv(s)'
  <2>1. CASE s # r
    BY <1>1, <1>3, <2>1 DEF RequestInv, Asked, At, SafeInv
  <2>2. CASE s = r /\ req'[r] = Idle
    BY <1>1, <2>2, IdleTyped DEF RequestInv, Asked, At, SafeInv, TypeOK
  <2>3. CASE s = r /\ req'[r] = [req[r] EXCEPT !.at = "ensure", !.wallet = {w}]
    BY <1>1, <1>2, <2>3 DEF RequestInv, Asked, At, Request
  <2>4. QED
    BY <1>3, <2>1, <2>2, <2>3
<1>10. ASSUME NEW u \in Users, NEW c \in Currencies PROVE Counted(u, c)'
  <2>1. At(r)' # "insert"
    BY <1>2, <1>3, IdleTyped DEF At, Request
  <2>2. CASE u = w.owner /\ c = w.currency
    <3>1. Owned(u, c)' = Owned(u, c) \union {w} /\ w \notin Owned(u, c)
      BY <2>2 DEF Owned, HasId
    <3>2. Inserting(u, c)' = Inserting(u, c) \ {r} /\ r \in Inserting(u, c)
      BY <1>3, <2>1, <2>2 DEF Inserting, At
    <3>3. Cardinality(Owned(u, c)') = Cardinality(Owned(u, c)) + 1
      BY <3>1, Finite, FS_AddElement
    <3>4. Cardinality(Inserting(u, c)') = Cardinality(Inserting(u, c)) - 1
      BY <3>2, Finite, FS_RemoveElement
    <3>5. QED
      BY <3>3, <3>4, Finite DEF SafeInv, Counted
  <2>3. CASE ~(u = w.owner /\ c = w.currency)
    <3>1. Owned(u, c)' = Owned(u, c)
      BY <2>3 DEF Owned
    <3>2. Inserting(u, c)' = Inserting(u, c)
      BY <1>3, <2>1, <2>3 DEF Inserting, At
    <3>3. QED
      BY <3>1, <3>2 DEF SafeInv, Counted
  <2>4. QED
    BY <2>2, <2>3
<1>11. QED
  BY <1>5, <1>6, <1>7, <1>8, <1>9, <1>10 DEF SafeInv

LEMMA InsertKeeps ==
  ASSUME SafeInv, NEW r \in Requests, InsertWallet(r) PROVE SafeInv'
<1>1. PICK n \in Numbers, i \in Ids :
        /\ ~HasId(i)
        /\ \/ /\ Admits(n)
              /\ rows' = rows \union {New(r, i, n)}
              /\ \/ /\ req' = [req EXCEPT ![r].at = "ensure",
                                          ![r].wallet = {New(r, i, n)}]
                    /\ UNCHANGED faults
                 \/ Return(r) /\ Fault
           \/ /\ ~Admits(n)
              /\ IF MoreAttempts(r)
                   THEN req' = [req EXCEPT ![r].attempt = @ + 1]
                   ELSE Return(r)
              /\ UNCHANGED <<rows, faults>>
  BY DEF InsertWallet, InsertLost
<1>2. /\ At(r) = "insert" /\ UNCHANGED ledger
      /\ faults' \in 0 .. MaxFaults
      /\ req[r] \in Request /\ RequestInv(r)
  BY <1>1, WalletsAssumption
  DEF InsertWallet, Fault, SafeInv, TypeOK, WalletsAssumption
<1>3. CASE Admits(n) /\ rows' = rows \union {New(r, i, n)}
  <2> DEFINE w == New(r, i, n)
  <2>1. /\ w \in Wallet /\ w.owner = req[r].owner
        /\ w.currency = req[r].currency /\ w.id = i /\ w.number = n
    BY <1>2 DEF New, Wallet, Request
  <2>2. \/ req' = [req EXCEPT ![r].at = "ensure", ![r].wallet = {w}]
        \/ req' = [req EXCEPT ![r] = Idle]
    BY <1>1, <1>3 DEF Return
  <2>3. QED
    BY <1>1, <1>2, <1>3, <2>1, <2>2, StoredKeeps
<1>4. CASE ~Admits(n) /\ UNCHANGED rows
  <2>1. UNCHANGED <<rows, accounts, balance, deposit, refused>>
    BY <1>2, <1>4 DEF ledger
  <2>2. CASE Return(r)
    BY <1>2, <2>1, <2>2, ReturnKeeps
  <2>3. CASE MoreAttempts(r) /\ req' = [req EXCEPT ![r].attempt = @ + 1]
    <3>1. /\ req'[r] = [req[r] EXCEPT !.attempt = @ + 1]
          /\ RequestAlone(r)
      BY <1>2, <2>1, <2>3 DEF RequestAlone, SafeInv, TypeOK
    <3>2. req'[r] \in Request
      BY <1>2, <2>3, <3>1, WalletsAssumption
      DEF Request, MoreAttempts, WalletsAssumption
    <3>3. RequestInv(r)' /\ InsertsFirst(r)
      BY <1>2, <2>1, <3>1 DEF RequestInv, InsertsFirst, Asked, At, Request
    <3>4. QED
      BY <3>1, <3>2, <3>3, AloneKeeps
  <2>4. QED
    BY <1>1, <1>4, <2>2, <2>3
<1>5. QED
  BY <1>1, <1>3, <1>4

-----------------------------------------------------------------------------
(* Ledger.Deposit: the account is ensured in the call before the credit.   *)
LEMMA DepositKeeps ==
  ASSUME SafeInv, NEW i \in Ids, StartDeposit(i) \/ Credit(i)
  PROVE  SafeInv'
<1>1. UNCHANGED <<rows, req, faults>>
  BY DEF StartDeposit, Credit
<1>2. /\ accounts' \subseteq Ids
      /\ balance' \in [Ids -> 0 .. MaxBalance]
      /\ deposit' \in [Ids -> {"none", "credit"}]
      /\ refused' = refused
      /\ \A j \in Ids : balance[j] <= balance'[j]
  BY WalletsAssumption
  DEF StartDeposit, Credit, EnsureAccount, SafeInv, TypeOK, Ledger,
      WalletsAssumption
<1>3. TypeOK'
  BY <1>1, <1>2 DEF SafeInv, TypeOK
<1>4. Ledger'
  <2>1. CASE StartDeposit(i)
    BY <1>1, <1>2, <2>1 DEF StartDeposit, EnsureAccount, SafeInv, TypeOK,
       Ledger, DepositsFindAccount, HasId
  <2>2. CASE Credit(i)
    BY <1>1, <1>2, <2>2, WalletsAssumption DEF Credit, SafeInv, TypeOK, Ledger,
       DepositsFindAccount, HasId, WalletsAssumption
  <2>3. QED
    BY <2>1, <2>2
<1>5. ASSUME NEW r \in Requests PROVE RequestInv(r)'
  <2>1. \A j \in Ids : /\ req[r].balanceThen[j] \in Nat
                       /\ balance[j] \in Nat /\ balance'[j] \in Nat
    BY <1>2, WalletsAssumption DEF SafeInv, TypeOK, Request, WalletsAssumption
  <2>2. QED
    BY <1>1, <1>2, <2>1 DEF SafeInv, RequestInv, Asked, At
<1>6. QED
  BY <1>1, <1>3, <1>4, <1>5
  DEF SafeInv, NumbersUnique, Counted, Owned, Inserting, At

-----------------------------------------------------------------------------
(* The inductive invariant of CreateWallet, ListMyWallets and              *)
(* Ledger.Deposit, for any number of requests.                             *)
THEOREM SafeCorrect == Spec => []SafeInv
<1>1. Init => SafeInv
  <2> SUFFICES ASSUME Init PROVE SafeInv
    OBVIOUS
  <2>1. TypeOK
    BY WalletsAssumption, IdleTyped DEF Init, TypeOK, Nothing, WalletsAssumption
  <2>2. NumbersUnique /\ Ledger
    BY DEF Init, NumbersUnique, Ledger, DepositsFindAccount, Nothing
  <2>3. \A r \in Requests : RequestInv(r)
    BY IdleTyped DEF Init, RequestInv, Asked, At, Nothing
  <2>4. ASSUME NEW u \in Users, NEW c \in Currencies PROVE Counted(u, c)
    <3>1. Owned(u, c) = {} /\ Inserting(u, c) = {}
      BY IdleTyped DEF Init, Owned, Inserting, At
    <3>2. QED
      BY <3>1, FS_EmptySet, FS_CardinalityType, WalletsAssumption
      DEF Counted, WalletsAssumption
  <2>5. QED
    BY <2>1, <2>2, <2>3, <2>4, FS_EmptySet DEF SafeInv, Init
<1>2. SafeInv /\ [Next]_vars => SafeInv'
  <2> SUFFICES ASSUME SafeInv, [Next]_vars PROVE SafeInv'
    OBVIOUS
  <2>1. ASSUME NEW r \in Requests, RequestStep(r) PROVE SafeInv'
    BY <2>1, ArriveKeeps, FindKeeps, InsertKeeps, EnsureKeeps, ReadKeeps,
       EndKeeps DEF RequestStep
  <2>2. CASE UNCHANGED vars
    BY <2>2 DEF vars, ledger, SafeInv, TypeOK, NumbersUnique, Ledger,
       DepositsFindAccount, HasId, RequestInv, Asked, At, Counted, Owned,
       Inserting
  <2>3. QED
    BY <2>1, <2>2, DepositKeeps DEF Next
<1>3. QED
  BY <1>1, <1>2, PTL DEF Spec

(* Every variable keeps its type; an account number is drawn at most       *)
(* accountNumberAttempts times.                                            *)
THEOREM TypeCorrect == Spec => []TypeOK
<1>1. SafeInv => TypeOK
  BY DEF SafeInv
<1>2. QED
  BY <1>1, SafeCorrect, PTL

(* CreateWallet leaves at most one wallet of a user and currency for each  *)
(* request that the API serves at the same time.                           *)
THEOREM WalletsBounded == Spec => []OneWalletEach
<1>1. SafeInv => OneWalletEach
  BY Finite DEF SafeInv, OneWalletEach, Counted
<1>2. QED
  BY <1>1, SafeCorrect, PTL

(* An account number, and an id, names one wallet (the unique indexes and  *)
(* the retries of Repository.CreateWallet).                                *)
THEOREM NumbersCorrect == Spec => []NumbersUnique
<1>1. SafeInv => NumbersUnique
  BY DEF SafeInv
<1>2. QED
  BY <1>1, SafeCorrect, PTL

(* No deposit is refused for want of an account (ensureLedgerAccount,      *)
(* Ledger.Deposit).                                                        *)
THEOREM DepositsCorrect == Spec => []DepositsFindAccount
<1>1. SafeInv => DepositsFindAccount
  BY DEF SafeInv, Ledger
<1>2. QED
  BY <1>1, SafeCorrect, PTL

(* A list shows every wallet there was when the request came, with no less *)
(* money than there was (ListMyWallets, withBalances).                     *)
THEOREM ListCorrect == Spec => []ListIsCurrent
<1>1. SafeInv => ListIsCurrent
  BY DEF SafeInv, RequestInv, Asked, At, ListIsCurrent
<1>2. QED
  BY <1>1, SafeCorrect, PTL
=============================================================================
