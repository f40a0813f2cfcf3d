------------------------------ MODULE Transfer ------------------------------
(***************************************************************************)
(* Transfers between wallets: the API request that records one             *)
(* (transfer-service.go), the single background task that executes it and  *)
(* the hook that closes it when its retries run out (queues/transfer.go).  *)
(* Transfers share the wallets they debit and credit, and the operator may *)
(* freeze a wallet between any two calls.                                  *)
(*                                                                         *)
(* The ledger (balance, moved) is an external service, modelled by what    *)
(* the code relies on: a transfer is atomic, its id is taken once, and a   *)
(* wallet's debits never exceed its credits.                               *)
(***************************************************************************)
EXTENDS Integers, FiniteSets, FiniteSetsExt

CONSTANTS Transfers,        \* rows of the transfers table, also their tasks
          Wallets,
          Currency,         \* the currency of each wallet
          Funds,            \* what each wallet holds at first
          Orders,           \* what a request may ask for
          TransferMaxRetry,
          Concurrency,      \* ASYNC_REDIS_CONCURRENCY
          Refusals,         \* may a wallet be frozen, or the ledger refuse?
          MaxFaults         \* bound on failed calls, lost replies and crashes

ASSUME TransferAssumption ==
  /\ IsFiniteSet(Transfers)
  /\ Funds \in [Wallets -> Nat]
  /\ Orders \subseteq [from : Wallets, to : Wallets, amount : Nat \ {0}]
  /\ TransferMaxRetry \in Nat
  /\ Concurrency \in Nat \ {0}
  /\ Refusals \in BOOLEAN
  /\ MaxFaults \in Nat

VARIABLES order,   \* what each request asks for, fixed
          status,  \* transfers.status
          wallet,  \* wallets.status
          api,     \* progress of the request
          balance, \* the ledger's balance of each wallet
          moved,   \* the transfers the ledger holds
          notices, \* how often a party was told the outcome
          pc,      \* where each task is (TaskQueue)
          retried, \* failed attempts of each task (TaskQueue)
          faults   \* faults so far

Q == INSTANCE TaskQueue WITH
       Tasks <- Transfers,
       MaxRetry <- [t \in Transfers |-> TransferMaxRetry],
       Exhaustible <- Transfers

rows == <<order, status, wallet, api>>
ledger == <<balance, moved>>
queue == <<pc, retried>>
vars == <<rows, ledger, queue, notices, faults>>

From(t) == order[t].from
To(t) == order[t].to
Value(t) == order[t].amount

Init ==
  /\ order \in [Transfers -> Orders]
  /\ status = [t \in Transfers |-> "NONE"]
  /\ wallet = [w \in Wallets |-> "ACTIVE"]
  /\ api = [t \in Transfers |-> "new"]
  /\ balance = Funds
  /\ moved = {}
  /\ notices = [t \in Transfers |-> 0]
  /\ faults = 0
  /\ Q!QueueInit

Fault == faults < MaxFaults /\ faults' = faults + 1

-----------------------------------------------------------------------------
(* The request: InitiateTransfer.                                          *)

BothActive(t) == wallet[From(t)] = "ACTIVE" /\ wallet[To(t)] = "ACTIVE"
SameCurrency(t) == Currency[From(t)] = Currency[To(t)]

(* Both wallets are read and checked.                                      *)
Request(t) ==
  /\ api[t] = "new"
  /\ From(t) # To(t)
  /\ SameCurrency(t)
  /\ BothActive(t)
  /\ api' = [api EXCEPT ![t] = "check"]
  /\ UNCHANGED <<order, status, wallet, ledger, queue, notices, faults>>

(* checkSufficientBalance: a balance that cannot be read is let pass.      *)
CheckBalance(t) ==
  /\ api[t] = "check"
  /\ \/ /\ api' = [api EXCEPT ![t] = IF balance[From(t)] < Value(t)
                                       THEN "aborted" ELSE "create"]
        /\ UNCHANGED faults
     \/ api' = [api EXCEPT ![t] = "create"] /\ Fault
  /\ UNCHANGED <<order, status, wallet, ledger, queue, notices>>

CreateTransfer(t) ==
  /\ api[t] = "create"
  /\ \/ /\ status' = [status EXCEPT ![t] = "PENDING"]
        /\ api' = [api EXCEPT ![t] = "publish"]
        /\ UNCHANGED faults
     \/ /\ status' \in {status, [status EXCEPT ![t] = "PENDING"]}
        /\ api' = [api EXCEPT ![t] = "aborted"]
        /\ Fault
  /\ UNCHANGED <<order, wallet, ledger, queue, notices>>

(* The event's listener enqueues the task; if Redis refuses, that is only  *)
(* logged and the transfer stays pending.                                  *)
Publish(t) ==
  /\ api[t] = "publish"
  /\ api' = [api EXCEPT ![t] = "returned"]
  /\ \/ Q!Enqueue(t) /\ UNCHANGED faults
     \/ UNCHANGED queue /\ Fault
  /\ UNCHANGED <<order, status, wallet, ledger, notices>>

(* The API process dies in the middle of the request.                      *)
ApiCrash(t) ==
  /\ api[t] \in {"check", "create", "publish"}
  /\ api' = [api EXCEPT ![t] = "aborted"]
  /\ Fault
  /\ UNCHANGED <<order, status, wallet, ledger, queue, notices>>

Api(t) == Request(t) \/ CheckBalance(t) \/ CreateTransfer(t) \/ Publish(t)

SetWalletStatus(w) ==
  /\ Refusals
  /\ \E s \in {"ACTIVE", "FROZEN"} \ {wallet[w]} :
       wallet' = [wallet EXCEPT ![w] = s]
  /\ UNCHANGED <<order, status, api, ledger, queue, notices, faults>>

-----------------------------------------------------------------------------
(* The task: HandleTransferExecute.  Each step is one call.                *)

(* markTransfer: one UPDATE with the old status in its WHERE clause; a row *)
(* that is no longer pending is left alone and the caller goes on with B.  *)
MarkTransfer(t, outcome, A, B) ==
  /\ IF status[t] = "PENDING"
       THEN status' = [status EXCEPT ![t] = outcome] /\ A
       ELSE UNCHANGED <<status, faults>> /\ B
  /\ UNCHANGED <<order, wallet, api>>

(* The call answered and the handler goes on with A, or its answer was     *)
(* lost and the handler returns the error.                                 *)
Answered(t, A) == \/ A /\ UNCHANGED faults
                  \/ Q!Fail(t) /\ Fault

WorkerFree == Cardinality({u \in Transfers : Q!Active(u)}) < Concurrency

StartTask(t) ==
  /\ WorkerFree
  /\ Q!Start(t, "readTransfer")
  /\ UNCHANGED <<rows, ledger, notices, faults>>

(* The calls whose error the handler returns.                              *)
Calls == {"readTransfer", "loadWallets", "transfer", "markSucceeded",
          "markFailed", "markRejected"}

(* Mutant: the handler swallows the error.                                 *)
CallFailsSilently(t) ==
  /\ pc[t] \in Calls
  /\ Q!Complete(t)
  /\ Fault
  /\ UNCHANGED <<rows, ledger, notices>>

(* A call fails without effect, or the handler panics.                     *)
CallFails(t) ==
  /\ pc[t] \in Calls
  /\ Q!Fail(t)
  /\ Fault
  /\ UNCHANGED <<rows, ledger, notices>>

WorkerCrash(t) ==
  /\ Q!LeaseLost(t)
  /\ Fault
  /\ UNCHANGED <<rows, ledger, notices>>

ReadTransfer(t) ==
  /\ pc[t] = "readTransfer"
  /\ IF status[t] = "PENDING" THEN Q!Goto(t, "loadWallets") ELSE Q!Complete(t)
  /\ UNCHANGED <<rows, ledger, notices, faults>>

(* loadWallets: a transfer whose wallets may not move money is failed.     *)
LoadWallets(t) ==
  /\ pc[t] = "loadWallets"
  /\ Q!Goto(t, IF BothActive(t) /\ SameCurrency(t) THEN "transfer"
                                                   ELSE "markFailed")
  /\ UNCHANGED <<rows, ledger, notices, faults>>

(* Mutant: the ledger's transfer id is fresh on every call.                *)
MoveMoneyAgain(t) ==
  /\ pc[t] = "transfer"
  /\ balance[From(t)] >= Value(t)
  /\ balance' = [balance EXCEPT ![From(t)] = @ - Value(t),
                                ![To(t)] = @ + Value(t)]
  /\ moved' = moved \union {t}
  /\ Answered(t, Q!Goto(t, "markSucceeded"))
  /\ UNCHANGED <<rows, notices>>

(* Mutant: wallet accounts are created without DebitsMustNotExceedCredits. *)
MoveMoneyUnchecked(t) ==
  /\ pc[t] = "transfer"
  /\ \/ t \in moved /\ UNCHANGED ledger
     \/ /\ t \notin moved
        /\ balance' = [balance EXCEPT ![From(t)] = @ - Value(t),
                                      ![To(t)] = @ + Value(t)]
        /\ moved' = moved \union {t}
  /\ Answered(t, Q!Goto(t, "markSucceeded"))
  /\ UNCHANGED <<rows, notices>>

(* Ledger.Transfer: a transfer the ledger holds is answered like a new     *)
(* one, so a repeated call moves nothing.                                  *)
MoveMoney(t) ==
  /\ pc[t] = "transfer"
  /\ \/ t \in moved /\ UNCHANGED ledger
     \/ /\ t \notin moved
        /\ balance[From(t)] >= Value(t)
        /\ balance' = [balance EXCEPT ![From(t)] = @ - Value(t),
                                      ![To(t)] = @ + Value(t)]
        /\ moved' = moved \union {t}
  /\ Answered(t, Q!Goto(t, "markSucceeded"))
  /\ UNCHANGED <<rows, notices>>

(* Mutant: the ledger looks at the funds before the transfer's id.         *)
InsufficientFundsFirst(t) ==
  /\ pc[t] = "transfer"
  /\ balance[From(t)] < Value(t)
  /\ Q!Goto(t, "markFailed")
  /\ UNCHANGED <<rows, ledger, notices, faults>>

InsufficientFunds(t) ==
  /\ pc[t] = "transfer"
  /\ t \notin moved
  /\ balance[From(t)] < Value(t)
  /\ Q!Goto(t, "markFailed")
  /\ UNCHANGED <<rows, ledger, notices, faults>>

(* ErrRejected: the ledger refuses a transfer it does not hold for good.   *)
Rejected(t) ==
  /\ pc[t] = "transfer"
  /\ Refusals
  /\ t \notin moved
  /\ Q!Goto(t, "markRejected")
  /\ UNCHANGED <<rows, ledger, notices, faults>>

MarkTransferSucceeded(t) ==
  /\ pc[t] = "markSucceeded"
  /\ MarkTransfer(t, "SUCCESS", Answered(t, Q!Goto(t, "notify")),
                                Q!Complete(t))
  /\ UNCHANGED <<ledger, notices>>

(* finalizeFailed, after which the handler returns nil; or, for a transfer *)
(* the ledger rejected, SkipRetry, which archives the task.                *)
FinalizeFailed(t) ==
  /\ \/ /\ pc[t] = "markFailed"
        /\ MarkTransfer(t, "FAILED", Answered(t, Q!Goto(t, "notify")),
                                     Q!Complete(t))
     \/ /\ pc[t] = "markRejected"
        /\ MarkTransfer(t, "FAILED", Answered(t, Q!Goto(t, "notifyLast")),
                                     Q!Archive(t))
  /\ UNCHANGED <<ledger, notices>>

(* The parties are told; what cannot be queued is only logged.  Then the   *)
(* task ends, unless the worker dies first and it is redelivered.          *)
Notify(t) ==
  /\ pc[t] \in {"notify", "notifyLast"}
  /\ LET end == IF pc[t] = "notify" THEN Q!Complete(t) ELSE Q!Archive(t) IN
     \/ /\ notices' = [notices EXCEPT ![t] = @ + 1]
        /\ \/ end /\ UNCHANGED faults
           \/ Q!LeaseLost(t) /\ Fault
     \/ UNCHANGED notices /\ end /\ Fault
  /\ UNCHANGED <<rows, ledger>>

-----------------------------------------------------------------------------
(* HandleTransferExhausted: a hook whose errors are only logged, after     *)
(* which asynq archives the task whatever became of it.                    *)

HookCalls == {"exhausted", "hookLookup", "hookSucceed", "hookFail"}

(* Mutant: the parties are told although the row could not be updated.     *)
HookGivesUpTelling(t) ==
  /\ pc[t] \in HookCalls
  /\ Q!Goto(t, "notifyLast")
  /\ Fault
  /\ UNCHANGED <<rows, ledger, notices>>

HookGivesUp(t) ==
  /\ pc[t] \in HookCalls
  /\ Q!Archive(t)
  /\ Fault
  /\ UNCHANGED <<rows, ledger, notices>>

HookRead(t) ==
  /\ pc[t] = "exhausted"
  /\ IF status[t] = "PENDING" THEN Q!Goto(t, "hookLookup") ELSE Q!Archive(t)
  /\ UNCHANGED <<rows, ledger, notices, faults>>

(* Mutant: an exhausted transfer is taken to have moved its money.         *)
HookLookupAssumed(t) ==
  /\ pc[t] = "hookLookup"
  /\ Q!Goto(t, "hookSucceed")
  /\ UNCHANGED <<rows, ledger, notices, faults>>

(* Mutant: an exhausted transfer is failed without asking the ledger.      *)
HookLookupSkipped(t) ==
  /\ pc[t] = "hookLookup"
  /\ Q!Goto(t, "hookFail")
  /\ UNCHANGED <<rows, ledger, notices, faults>>

HookLookup(t) ==
  /\ pc[t] = "hookLookup"
  /\ Q!Goto(t, IF t \in moved THEN "hookSucceed" ELSE "hookFail")
  /\ UNCHANGED <<rows, ledger, notices, faults>>

HookClose(t) ==
  /\ \E outcome \in {"SUCCESS", "FAILED"} :
       /\ pc[t] = IF outcome = "SUCCESS" THEN "hookSucceed" ELSE "hookFail"
       /\ MarkTransfer(t, outcome,
            \/ Q!Goto(t, "notifyLast") /\ UNCHANGED faults
            \/ Q!Archive(t) /\ Fault,
            Q!Archive(t))
  /\ UNCHANGED <<ledger, notices>>

Handler(t) ==
  \/ ReadTransfer(t) \/ LoadWallets(t) \/ MoveMoney(t) \/ InsufficientFunds(t)
  \/ Rejected(t) \/ MarkTransferSucceeded(t) \/ FinalizeFailed(t) \/ Notify(t)
  \/ HookRead(t) \/ HookLookup(t) \/ HookClose(t)

TaskStep(t) ==
  \/ StartTask(t) \/ Handler(t)
  \/ CallFails(t) \/ WorkerCrash(t) \/ HookGivesUp(t)

Next ==
  \/ \E t \in Transfers : Api(t) \/ ApiCrash(t) \/ TaskStep(t)
  \/ \E w \in Wallets : SetWalletStatus(w)

Spec == Init /\ [][Next]_vars

(* A running handler does not stop by itself, and the queue hands a task   *)
(* out until a worker takes it (see Deposit).                              *)
Fairness == \A t \in Transfers : WF_vars(Handler(t)) /\ SF_vars(StartTask(t))

FairSpec == Spec /\ Fairness

-----------------------------------------------------------------------------
Labels == Q!Parked \union Calls \union HookCalls \union {"notify", "notifyLast"}

(* Type invariant.  A balance is a natural number: no interleaving of      *)
(* transfers overdraws a wallet, although every request's own balance      *)
(* check may be stale by the time its transfer runs.                       *)
TypeOK ==
  /\ order \in [Transfers -> Orders]
  /\ status \in [Transfers -> {"NONE", "PENDING", "SUCCESS", "FAILED"}]
  /\ wallet \in [Wallets -> {"ACTIVE", "FROZEN"}]
  /\ api \in [Transfers -> {"new", "check", "create", "publish",
                            "returned", "aborted"}]
  /\ balance \in [Wallets -> Nat]
  /\ moved \subseteq Transfers
  /\ notices \in [Transfers -> Nat]
  /\ pc \in [Transfers -> Labels]
  /\ retried \in [Transfers -> Nat]
  /\ faults \in 0 .. MaxFaults

(* A transfer reads SUCCESS only if the ledger moved its money, whichever  *)
(* of the handler or the exhaustion hook closed it.                        *)
SuccessIsMoved == \A t \in Transfers : status[t] = "SUCCESS" => t \in moved

(* ledger.go:367-370: the ledger holds "every settled deposit and          *)
(* transfer", and "nothing that has not settled is" there: a transfer that *)
(* reads FAILED moved nothing.                                             *)
FailedNeverMoved == \A t \in Transfers : status[t] = "FAILED" => t \notin moved

(* The parties hear of an outcome at most once, and only of the one on     *)
(* record: "a redelivered task finds no pending row" (the comment on       *)
(* MarkTransferSucceeded).                                                 *)
OneNotice ==
  \A t \in Transfers :
    /\ notices[t] <= 1
    /\ notices[t] > 0 => status[t] \in {"SUCCESS", "FAILED"}

(* What the transfers in S amount to.                                      *)
Total(S) == MapThenSumSet(Value, S)

(* A wallet holds exactly what the transfers in the ledger brought and     *)
(* took: retries, crashes and lost replies move no money twice.            *)
BalanceIsExact ==
  \A w \in Wallets :
    balance[w] = Funds[w] + Total({t \in moved : To(t) = w})
                          - Total({t \in moved : From(t) = w})

(* A transfer that reads PENDING keeps the task that was queued for it: no *)
(* handler ends it before the transfer is closed, and only when its last   *)
(* attempt died, or its hook failed, is it archived before                 *)
(* (HandleTransferExecute, HandleTransferExhausted).                       *)
TaskIsKept ==
  [][\A t \in Transfers :
       status'[t] = "PENDING" /\ pc[t] \notin {"idle", "archived"} =>
         /\ pc'[t] # "idle"
         /\ pc'[t] = "archived" => faults' > TransferMaxRetry]_vars

-----------------------------------------------------------------------------
(* What a task may still rely on at its next call, although wallets are    *)
(* frozen and other transfers run in between: each transfer has a single   *)
(* task, so nobody else settles it.                                        *)

Working == {"loadWallets", "transfer", "markSucceeded", "markFailed",
            "markRejected", "hookLookup", "hookSucceed", "hookFail"}

TaskKnows(t) ==
  /\ pc[t] \in Working => status[t] = "PENDING"
  /\ pc[t] \in {"markSucceeded", "hookSucceed"} => t \in moved
  /\ pc[t] \in {"notify", "notifyLast"} =>
       status[t] \in {"SUCCESS", "FAILED"} /\ notices[t] = 0

RequestKnows(t) ==
  /\ api[t] \in {"new", "check", "create"} => status[t] = "NONE"
  /\ api[t] = "publish" => status[t] = "PENDING"
  /\ api[t] # "returned" => pc[t] = "idle"
  /\ status[t] = "NONE" => pc[t] = "idle"
  /\ api[t] # "new" => From(t) # To(t) /\ SameCurrency(t)

(* The inductive invariant, for any number of workers: what each request   *)
(* and each task knows between two calls, and the books of every transfer. *)
BooksInv ==
  /\ \A t \in Transfers : TaskKnows(t) /\ RequestKnows(t)
  /\ \A t \in moved : status[t] # "NONE"
  /\ SuccessIsMoved
  /\ OneNotice

(* What keeps the task of an open transfer, inductively: it has not failed *)
(* more often than faults allow, and its hook runs only once they exceed   *)
(* its retries.                                                            *)
TaskInv ==
  \A t \in Transfers :
    status[t] \in {"NONE", "PENDING"} =>
      /\ retried[t] <= faults
      /\ pc[t] \in HookCalls => TransferMaxRetry < faults

(* While no wallet is frozen and the ledger refuses nothing, a task fails  *)
(* its transfer only when the ledger does not hold it.                     *)
CalmInv ==
  /\ \A w \in Wallets : wallet[w] = "ACTIVE"
  /\ \A t \in Transfers :
       pc[t] \in {"markFailed", "markRejected", "hookFail"} => t \notin moved
  /\ FailedNeverMoved

(* While no wallet is frozen and the ledger refuses nothing, the queue,    *)
(* the retries and the crashes do not show: transfers keep the promise of  *)
(* TransferPromise.                                                        *)
Promise == INSTANCE TransferPromise
KeepsPromise == Promise!Spec

(* A transfer whose task reached the queue is settled, one way or the      *)
(* other, unless more calls, replies or processes fail than the task has   *)
(* retries: only a worker that dies in the last attempt leaves it open.    *)
TransferResolves ==
  \A t \in Transfers :
    status[t] = "PENDING" /\ pc[t] = "queued"
      ~> status[t] \in {"SUCCESS", "FAILED"} \/ faults > TransferMaxRetry
=============================================================================
