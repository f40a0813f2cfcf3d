------------------------------ MODULE History ------------------------------
(***************************************************************************)
(* The transaction history of one user                                     *)
(* (api/services/transaction-history.go).  A request reads the movements   *)
(* of each of the user's wallets from the ledger, then the deposits and    *)
(* the transfers that Postgres does not hold as SUCCESS, merges them and   *)
(* cuts a page out.  Meanwhile the tasks of Deposit and Transfer settle    *)
(* more of them, in two steps: the ledger first and then the row.          *)
(*                                                                         *)
(* Every transaction touches one wallet of the user.  Amounts, providers   *)
(* and directions are copied and left out; what is listed is which         *)
(* transaction, with which status, at which time.                          *)
(***************************************************************************)
EXTENDS Integers, FiniteSets

CONSTANTS Deposits,             \* deposits into the user's wallets
          Transfers,            \* transfers the user sends or receives
          Wallets,              \* the user's wallets
          WalletOf,             \* the wallet each transaction touches
          MaxHistoryScan,       \* transaction-history.go:15
          DefaultActivityLimit, MaxActivityLimit,
          Limits, Offsets       \* what a request may ask for

Refs == Deposits \union Transfers

ASSUME HistoryAssumption ==
  /\ IsFiniteSet(Refs)
  /\ Deposits \intersect Transfers = {}
  /\ WalletOf \in [Refs -> Wallets]
  /\ MaxHistoryScan \in Nat \ {0}
  /\ DefaultActivityLimit \in 1 .. MaxActivityLimit
  /\ MaxActivityLimit \in Nat
  /\ Limits \subseteq Int /\ Offsets \subseteq Int

VARIABLES status,  \* of the row of each transaction
          created, \* created_at of the row
          moved,   \* the ledger's timestamp, 0 if it holds no such transfer
          clock,   \* the time of the last event
          page,    \* the request in progress
          merged,  \* the entries it has read
          stirred  \* the transactions settled while it reads

books == <<status, created, moved, clock>>
vars == <<books, page, merged, stirred>>

Asleep == [at |-> "idle", limit |-> DefaultActivityLimit, offset |-> 0,
           left |-> {}]

Init ==
  /\ status = [t \in Refs |-> "NONE"]
  /\ created = [t \in Refs |-> 0]
  /\ moved = [t \in Refs |-> 0]
  /\ clock = 0
  /\ page = Asleep
  /\ merged = {}
  /\ stirred = {}

-----------------------------------------------------------------------------
(* The life of a transaction, in the orders in which Deposit and Transfer  *)
(* take its steps.  FAILED stands for REFUNDING and REFUNDED too: the      *)
(* history only asks whether a row is SUCCESS.                             *)

(* A deposit is settled by several tasks, and late: one may credit it, or  *)
(* find it credited, after another gave it up.  A transfer has one task.   *)
Settleable(t) ==
  status[t] = "PENDING" \/ (t \in Deposits /\ status[t] = "FAILED")

Tick == clock' = clock + 1
Stir(t) == stirred' = IF page.at = "idle" THEN stirred ELSE stirred \union {t}

Record(t) ==
  /\ status[t] = "NONE"
  /\ status' = [status EXCEPT ![t] = "PENDING"]
  /\ created' = [created EXCEPT ![t] = clock + 1]
  /\ Tick /\ Stir(t)
  /\ UNCHANGED <<moved, page, merged>>

(* The ledger credits or moves the money.                                  *)
Move(t) ==
  /\ Settleable(t)
  /\ moved[t] = 0
  /\ moved' = [moved EXCEPT ![t] = clock + 1]
  /\ Tick /\ Stir(t)
  /\ UNCHANGED <<status, created, page, merged>>

Succeed(t) ==
  /\ Settleable(t)
  /\ moved[t] # 0
  /\ status' = [status EXCEPT ![t] = "SUCCESS"]
  /\ Stir(t)
  /\ UNCHANGED <<created, moved, clock, page, merged>>

(* The exhausted poll of a deposit does not ask the ledger; nor does a     *)
(* transfer's retry that finds a wallet frozen, or that the ledger refuses,*)
(* after a first attempt moved the money and its answer was lost.          *)
Fail(t) ==
  /\ status[t] = "PENDING"
  /\ status' = [status EXCEPT ![t] = "FAILED"]
  /\ Stir(t)
  /\ UNCHANGED <<created, moved, clock, page, merged>>

-----------------------------------------------------------------------------
(* Lists are sets of entries with distinct times; the newest has rank 0.   *)

Entry == [ref : Refs, status : {"PENDING", "SUCCESS", "FAILED"}, key : Nat]

Newer(S, e) == {f \in S : f.key > e.key}
Rank(S, e) == Cardinality(Newer(S, e))

(* ORDER BY ... DESC LIMIT n.                                              *)
Newest(S, n) == {e \in S : Rank(S, e) < n}

(* The slice of the merged list that starts at offset.                     *)
Slice(S, offset, limit) ==
  {e \in S : offset <= Rank(S, e) /\ Rank(S, e) < offset + limit}

Settled(w) == {[ref |-> t, status |-> "SUCCESS", key |-> moved[t]] :
                 t \in {u \in Refs : moved[u] # 0 /\ WalletOf[u] = w}}

(* Mutant: the rows that are still pending, only.                          *)
UnsettledPending(T) ==
  {[ref |-> t, status |-> status[t], key |-> created[t]] :
     t \in {u \in T : status[u] = "PENDING"}}

(* Mutant: the rows that are not SUCCESS are not singled out.              *)
UnsettledAll(T) ==
  {[ref |-> t, status |-> status[t], key |-> created[t]] :
     t \in {u \in T : status[u] # "NONE"}}

Unsettled(T) ==
  {[ref |-> t, status |-> status[t], key |-> created[t]] :
     t \in {u \in T : status[u] \notin {"NONE", "SUCCESS"}}}

(* Mutant: the limit has no upper bound.                                   *)
LimitUncapped(n) == IF n < 1 THEN DefaultActivityLimit ELSE n

(* Normalise.                                                              *)
Limit(n) == IF n < 1 THEN DefaultActivityLimit
            ELSE IF n > MaxActivityLimit THEN MaxActivityLimit ELSE n
Offset(n) == IF n > 0 THEN n ELSE 0

(* Mutant: each source is read up to the page's length only.               *)
ScanPage(p) == IF p.limit > MaxHistoryScan THEN MaxHistoryScan ELSE p.limit

(* How much of each source is read.                                        *)
Scan(p) == IF p.offset + p.limit > MaxHistoryScan
             THEN MaxHistoryScan ELSE p.offset + p.limit

Request ==
  /\ page.at = "idle"
  /\ \E limit \in Limits, offset \in Offsets :
       page' = [at |-> "movements", limit |-> Limit(limit),
                offset |-> Offset(offset), left |-> Wallets]
  /\ stirred' = {}
  /\ merged' = {}
  /\ UNCHANGED books

(* WalletMovements: one query for each wallet.                             *)
ReadMovements ==
  /\ page.at = "movements"
  /\ \E w \in page.left :
       /\ merged' = merged \union Newest(Settled(w), Scan(page))
       /\ page' = [page EXCEPT !.left = @ \ {w},
                               !.at = IF page.left = {w} THEN "intents" ELSE @]
  /\ UNCHANGED <<books, stirred>>

(* ListUnsettledIntents, then ListUnsettledTransfers.                      *)
ReadIntents ==
  /\ page.at = "intents"
  /\ merged' = merged \union Newest(Unsettled(Deposits), Scan(page))
  /\ page' = [page EXCEPT !.at = "transfers"]
  /\ UNCHANGED <<books, stirred>>

ReadTransfers ==
  /\ page.at = "transfers"
  /\ merged' = merged \union Newest(Unsettled(Transfers), Scan(page))
  /\ page' = [page EXCEPT !.at = "listed"]
  /\ UNCHANGED <<books, stirred>>

(* The answer; or an error, or the death of the process, on the way.       *)
Answer ==
  /\ page.at # "idle"
  /\ page' = Asleep
  /\ merged' = {}
  /\ stirred' = {}
  /\ UNCHANGED books

Settlement(t) == Record(t) \/ Move(t) \/ Succeed(t) \/ Fail(t)
Reading == Request \/ ReadMovements \/ ReadIntents \/ ReadTransfers \/ Answer

Next == Reading \/ \E t \in Refs : Settlement(t)

Spec == Init /\ [][Next]_vars

(* What the request answers, and what it should: the same slice of the     *)
(* whole history as the ledger and the rows hold it now.                   *)
Listed == Slice(merged, page.offset, page.limit)
Whole ==
  {[ref |-> t, status |-> "SUCCESS", key |-> moved[t]] :
     t \in {u \in Refs : moved[u] # 0}}
  \union {[ref |-> t, status |-> status[t], key |-> created[t]] :
            t \in {u \in Refs : status[u] \notin {"NONE", "SUCCESS"}}}
Done == page.at = "listed"
WithinScan == page.offset + page.limit <= MaxHistoryScan

(* GetTransaction, transferAsTransaction: the row behind a reference.      *)
HasRow(t) == status[t] # "NONE"

-----------------------------------------------------------------------------
(* Type invariant; page sizes stay within what Normalise allows.           *)
TypeOK ==
  /\ status \in [Refs -> {"NONE", "PENDING", "SUCCESS", "FAILED"}]
  /\ created \in [Refs -> Nat]
  /\ moved \in [Refs -> Nat]
  /\ clock \in Nat
  /\ page \in [at : {"idle", "movements", "intents", "transfers", "listed"},
               limit : 1 .. MaxActivityLimit, offset : Nat,
               left : SUBSET Wallets]
  /\ merged \subseteq Entry
  /\ stirred \subseteq Refs

(* While nothing settles, a page within the scan is exactly that slice of  *)
(* the whole history, although each source is cut off separately: pages    *)
(* neither overlap nor leave anything out.                                 *)
PageIsExact ==
  Done /\ WithinScan /\ stirred = {} =>
    Listed = Slice(Whole, page.offset, page.limit)

(* Half settled: the ledger moved the money and the row does not say so.   *)
HalfSettled(t) == moved[t] # 0 /\ status[t] # "SUCCESS"

(* A page long enough for the whole history lists each transaction that    *)
(* nobody settles while it is read as the ledger and its row have it,      *)
(* whatever happens to the others ("the authenticated user's money history *)
(* across every wallet they hold", docs.go:185): once, unless the          *)
(* transaction was left half settled, which both sources then list.        *)
StableListedOnce ==
  Done /\ WithinScan /\ page.offset = 0
       /\ 2 * Cardinality(Refs) <= page.limit =>
    \A t \in Refs \ stirred :
      /\ {e \in Listed : e.ref = t} = {e \in Whole : e.ref = t}
      /\ HasRow(t) /\ ~HalfSettled(t) =>
           \E e \in Listed : {f \in Listed : f.ref = t} = {e}

(* What was shown can be looked up (payment-service.go:212-214: no "404ing *)
(* on a row the client was just shown"), and what is shown as settled did  *)
(* move, at the time shown, whatever happened since it was read.           *)
ShownIsReal ==
  \A e \in merged : /\ HasRow(e.ref)
                    /\ e.status = "SUCCESS" => moved[e.ref] = e.key
                    /\ e.status # "SUCCESS" => created[e.ref] = e.key

=============================================================================
