------------------------------ MODULE Deposit ------------------------------
(***************************************************************************)
(* Deposits: the API request that opens a checkout at the payment provider *)
(* (payment-service.go), and the two kinds of background task that resolve *)
(* it (queues/payment.go): one poll per intent and any number of webhook   *)
(* deliveries.  Every database, ledger and provider call of a handler is   *)
(* one step, so handlers interleave exactly where the program lets them.   *)
(*                                                                         *)
(* The provider (charge, payment, refunded) and the ledger (credited) are  *)
(* external services, modelled by what the code relies on.                 *)
(***************************************************************************)
EXTENDS Integers, FiniteSets

CONSTANTS Intents,          \* transaction intents, also the references
          MaxHooks,         \* webhook tasks of one intent held at a time
          PollMaxRetry,     \* PAYMENT_POLL_MAX_RETRIES
          HookMaxRetry,     \* PaymentWebhookRetry
          Concurrency,      \* ASYNC_REDIS_CONCURRENCY
          Amount,           \* the amount of an intent
          Payments,         \* what a payer may be charged
          RetryableCharge,  \* may a charge that failed be paid afterwards?
          Refusals,         \* may a wallet be frozen, or the ledger refuse?
          MaxFaults         \* bound on failed calls, lost replies and crashes

NoPayment == [amount |-> 0, currency |-> "wallet"]

ASSUME DepositAssumption ==
  /\ IsFiniteSet(Intents)
  /\ MaxHooks \in Nat
  /\ PollMaxRetry \in Nat
  /\ HookMaxRetry \in Nat
  /\ Concurrency \in Nat \ {0}
  /\ Amount \in Nat \ {0}
  /\ Payments \subseteq [amount : Nat \ {0}, currency : {"wallet", "other"}]
  /\ RetryableCharge \in BOOLEAN
  /\ Refusals \in BOOLEAN
  /\ MaxFaults \in Nat

(* A task is the intent it is about and a number: 0 is the poll, whose     *)
(* TaskID is derived from the reference, the others are webhook tasks.     *)
Tasks == Intents \X (0 .. MaxHooks)

Ref(t) == t[1]

IsPoll(t) == t[2] = 0

Poll(i) == <<i, 0>>

VARIABLES status,   \* transaction_intents.status
          wallet,   \* wallets.status of the wallet the intent pays into
          api,      \* progress of the request that created the intent
          credited, \* what the ledger credited under the intent's id
          charge,   \* the provider's view of the payment
          payment,  \* what the payer was charged
          refunded, \* what the provider paid back
          receipts, \* receipts sent
          pc,       \* where each task is (TaskQueue)
          retried,  \* failed attempts of each task (TaskQueue)
          payload,  \* status carried by each webhook task
          faults    \* faults so far

Q == INSTANCE TaskQueue WITH
       MaxRetry <- [t \in Tasks |-> IF IsPoll(t) THEN PollMaxRetry
                                                 ELSE HookMaxRetry],
       Exhaustible <- {t \in Tasks : IsPoll(t)}

row == <<status, wallet, api>>
money == <<credited, charge, payment, refunded>>
queue == <<pc, retried, payload>>
vars == <<row, money, queue, receipts, faults>>

Init ==
  /\ status = [i \in Intents |-> "NONE"]
  /\ wallet = [i \in Intents |-> "ACTIVE"]
  /\ api = [i \in Intents |-> "new"]
  /\ credited = [i \in Intents |-> 0]
  /\ charge = [i \in Intents |-> "unknown"]
  /\ payment = [i \in Intents |-> NoPayment]
  /\ refunded = [i \in Intents |-> 0]
  /\ receipts = [i \in Intents |-> 0]
  /\ payload = [t \in Tasks |-> "none"]
  /\ faults = 0
  /\ Q!QueueInit

Fault == faults < MaxFaults /\ faults' = faults + 1

-----------------------------------------------------------------------------
(* The guarded updates of transaction_repository.go: each is one UPDATE    *)
(* with the old status in its WHERE clause, and tells whether it matched.  *)

Move(i, from, to) ==
  /\ status[i] \in from
  /\ status' = [status EXCEPT ![i] = to]
  /\ UNCHANGED <<wallet, api>>

(* Mutant: the WHERE clause of MarkIntentFailed also matches SUCCESS.      *)
MarkIntentFailedLate(i) == Move(i, {"PENDING", "SUCCESS"}, "FAILED")

MarkIntentFailed(i) == Move(i, {"PENDING"}, "FAILED")

(* Mutant: MarkIntentSucceeded matches an intent that already succeeded.   *)
MarkIntentSucceededAgain(i) ==
  Move(i, {"PENDING", "FAILED", "SUCCESS"}, "SUCCESS")

MarkIntentSucceeded(i) == Move(i, {"PENDING", "FAILED"}, "SUCCESS")
MarkIntentRefunding(i) == Move(i, {"FAILED", "REFUNDING"}, "REFUNDING")
MarkIntentRefunded(i) == Move(i, {"REFUNDING"}, "REFUNDED")

(* Mutant: the ledger's transfer id is fresh on every call.                *)
LedgerDepositAgain(i) ==
  credited' = [credited EXCEPT ![i] = @ + Amount]

(* The ledger: a transfer id it has seen is answered like a new one, so a  *)
(* repeated deposit changes nothing.                                       *)
LedgerDeposit(i) ==
  credited' = [credited EXCEPT ![i] = IF @ = 0 THEN Amount ELSE @]

TransferExists(i) == credited[i] > 0

(* The provider pays back at most what it charged.                         *)
CanRefund(i) == refunded[i] + Amount <= payment[i].amount

-----------------------------------------------------------------------------
(* The request: InitializeDeposit.                                         *)

(* The wallet is checked and the intent inserted.  A wallet frozen between *)
(* the two calls looks like one frozen right after them.                   *)
CreateIntent(i) ==
  /\ api[i] = "new"
  /\ wallet[i] = "ACTIVE"
  /\ status' = [status EXCEPT ![i] = "PENDING"]
  /\ api' = [api EXCEPT ![i] = "initialize"]
  /\ UNCHANGED <<wallet, money, queue, receipts, faults>>

(* The provider opens the checkout, or the call fails, before or after it  *)
(* took effect.                                                            *)
Initialize(i) ==
  /\ api[i] = "initialize"
  /\ \/ /\ charge' = [charge EXCEPT ![i] = "open"]
        /\ api' = [api EXCEPT ![i] = "publish"]
        /\ UNCHANGED faults
     \/ /\ charge' \in {charge, [charge EXCEPT ![i] = "open"]}
        /\ api' = [api EXCEPT ![i] = "giveUp"]
        /\ Fault
  /\ UNCHANGED <<status, wallet, credited, payment, refunded, queue, receipts>>

(* The checkout did not start: the intent is failed, and a database error  *)
(* is only logged.                                                         *)
GiveUp(i) ==
  /\ api[i] = "giveUp"
  /\ api' = [api EXCEPT ![i] = "aborted"]
  /\ \/ /\ status[i] = "PENDING"
        /\ status' = [status EXCEPT ![i] = "FAILED"]
        /\ UNCHANGED faults
     \/ UNCHANGED status /\ Fault
  /\ UNCHANGED <<wallet, money, queue, receipts>>

(* The event's listener enqueues the poll; if Redis refuses, that is only  *)
(* logged, and the payer gets the checkout's URL all the same.             *)
Publish(i) ==
  /\ api[i] = "publish"
  /\ api' = [api EXCEPT ![i] = "returned"]
  /\ \/ Q!Enqueue(Poll(i)) /\ UNCHANGED faults
     \/ UNCHANGED <<pc, retried>> /\ Fault
  /\ UNCHANGED <<status, wallet, money, payload, receipts>>

(* The API process dies in the middle of the request.                      *)
ApiCrash(i) ==
  /\ api[i] \in {"initialize", "publish", "giveUp"}
  /\ api' = [api EXCEPT ![i] = "aborted"]
  /\ Fault
  /\ UNCHANGED <<status, wallet, money, queue, receipts>>

Api(i) == CreateIntent(i) \/ Initialize(i) \/ GiveUp(i) \/ Publish(i)

-----------------------------------------------------------------------------
(* The payer, the provider and the operator.                               *)

Pay(i) ==
  /\ api[i] = "returned"
  /\ \/ charge[i] = "open"
     \/ charge[i] = "failed" /\ RetryableCharge
  /\ charge' = [charge EXCEPT ![i] = "success"]
  /\ payment' \in {[payment EXCEPT ![i] = p] : p \in Payments}
  /\ UNCHANGED <<row, credited, refunded, queue, receipts, faults>>

PayFails(i) ==
  /\ api[i] = "returned"
  /\ charge[i] = "open"
  /\ charge' = [charge EXCEPT ![i] = "failed"]
  /\ UNCHANGED <<row, credited, payment, refunded, queue, receipts, faults>>

(* Mutant: the provider's own word for the status is passed on.            *)
PaymentStatusRaw(i) == charge[i]

(* paystackStatus of the provider's view, as the code names it.            *)
PaymentStatus(i) ==
  CASE charge[i] = "success" -> "SUCCESS"
    [] charge[i] = "failed" -> "FAILED"
    [] OTHER -> "PENDING"

(* A signed webhook reaches the API, which queues it.  The provider may    *)
(* send any number of them, and none has a TaskID.                         *)
DeliverWebhook(t) ==
  /\ ~IsPoll(t)
  /\ pc[t] \in {"idle", "archived"}
  /\ charge[Ref(t)] # "unknown"
  /\ Q!Goto(t, "queued")
  /\ payload' = [payload EXCEPT ![t] = PaymentStatus(Ref(t))]
  /\ UNCHANGED <<row, money, receipts, faults>>

SetWalletStatus(i) ==
  /\ Refusals
  /\ \E s \in {"ACTIVE", "FROZEN"} \ {wallet[i]} :
       wallet' = [wallet EXCEPT ![i] = s]
  /\ UNCHANGED <<status, api, money, queue, receipts, faults>>

-----------------------------------------------------------------------------
(* The handlers.  Each step below is one call of the task t.               *)

(* The handler returns nil.  A webhook handler that resolved its deposit   *)
(* first removes the poll.                                                 *)
ReturnNil(t) == IF IsPoll(t) THEN Q!Complete(t) ELSE Q!Goto(t, "cancelPoll")

(* A call answered, after which the handler goes on with A, or its answer  *)
(* was lost and the handler returns the error.                             *)
Answered(t, A) == \/ A /\ UNCHANGED faults
                  \/ Q!Fail(t) /\ Fault

(* Mutant: one handler too many.                                           *)
WorkerFreeOffByOne == Cardinality({u \in Tasks : Q!Active(u)}) <= Concurrency

(* The server runs at most Concurrency handlers at the same time.          *)
WorkerFree == Cardinality({u \in Tasks : Q!Active(u)}) < Concurrency

StartTask(t) ==
  /\ WorkerFree
  /\ \/ IsPoll(t) /\ Q!Start(t, "readIntent")
     \/ payload[t] = "SUCCESS" /\ Q!Start(t, "settle")
     \/ payload[t] = "FAILED" /\ Q!Start(t, "markFailed")
     \/ payload[t] = "PENDING" /\ Q!Start(t, "ignore")
  /\ UNCHANGED <<row, money, receipts, faults>>

(* Mutant: a webhook that resolves nothing removes the poll all the same.  *)
IgnoreAndCancel(t) ==
  /\ pc[t] = "ignore"
  /\ ReturnNil(t)
  /\ UNCHANGED <<row, money, receipts, faults>>

(* The webhook does not resolve the payment: it is left to the poll.       *)
Ignore(t) ==
  /\ pc[t] = "ignore"
  /\ Q!Complete(t)
  /\ UNCHANGED <<row, money, receipts, faults>>

(* The calls whose error the handler returns.                              *)
Calls == {"readIntent", "verify", "settle", "loadWallet", "deposit",
          "markSucceeded", "transferExists", "markRefunding", "refund",
          "markRefunded", "markFailed"}

(* A call fails without effect, or the handler panics.                     *)
CallFails(t) ==
  /\ pc[t] \in Calls
  /\ Q!Fail(t)
  /\ Fault
  /\ UNCHANGED <<row, money, receipts>>

WorkerCrash(t) ==
  /\ Q!LeaseLost(t)
  /\ Fault
  /\ UNCHANGED <<row, money, receipts>>

(* HandlePaymentPoll                                                       *)
ReadIntent(t) ==
  /\ pc[t] = "readIntent"
  /\ IF status[Ref(t)] = "PENDING" THEN Q!Goto(t, "verify") ELSE ReturnNil(t)
  /\ UNCHANGED <<row, money, receipts, faults>>

Verify(t) ==
  /\ pc[t] = "verify"
  /\ CASE PaymentStatus(Ref(t)) = "SUCCESS" -> Q!Goto(t, "settle")
       [] PaymentStatus(Ref(t)) = "FAILED" -> Q!Goto(t, "markFailed")
       [] OTHER -> Q!RetryLater(t)
  /\ UNCHANGED <<row, money, receipts, faults>>

(* Mutant: settle does not compare the amounts.                            *)
SettleAnyAmount(t) ==
  /\ pc[t] = "settle"
  /\ \/ status[Ref(t)] = "PENDING" /\ Q!Goto(t, "loadWallet")
     \/ status[Ref(t)] = "FAILED" /\ Q!Goto(t, "transferExists")
     \/ status[Ref(t)] = "REFUNDING" /\ Q!Goto(t, "markRefunding")
     \/ status[Ref(t)] \in {"SUCCESS", "REFUNDED"} /\ ReturnNil(t)
  /\ UNCHANGED <<row, money, receipts, faults>>

(* settle: the intent is read, and its amount compared.                    *)
Settle(t) ==
  /\ pc[t] = "settle"
  /\ \/ /\ status[Ref(t)] = "PENDING"
        /\ IF payment[Ref(t)].amount = Amount THEN Q!Goto(t, "loadWallet")
                                              ELSE Q!Archive(t)
     \/ status[Ref(t)] = "FAILED" /\ Q!Goto(t, "transferExists")
     \/ status[Ref(t)] = "REFUNDING" /\ Q!Goto(t, "markRefunding")
     \/ status[Ref(t)] \in {"SUCCESS", "REFUNDED"} /\ ReturnNil(t)
  /\ UNCHANGED <<row, money, receipts, faults>>

(* Mutant: settle does not compare the currencies.                         *)
LoadWalletAnyCurrency(t) ==
  /\ pc[t] = "loadWallet"
  /\ IF wallet[Ref(t)] = "ACTIVE" THEN Q!Goto(t, "deposit") ELSE Q!Archive(t)
  /\ UNCHANGED <<row, money, receipts, faults>>

LoadWallet(t) ==
  /\ pc[t] = "loadWallet"
  /\ IF payment[Ref(t)].currency = "wallet" /\ wallet[Ref(t)] = "ACTIVE"
       THEN Q!Goto(t, "deposit")
       ELSE Q!Archive(t)
  /\ UNCHANGED <<row, money, receipts, faults>>

Deposit(t) ==
  /\ pc[t] = "deposit"
  /\ LedgerDeposit(Ref(t))
  /\ Answered(t, Q!Goto(t, "markSucceeded"))
  /\ UNCHANGED <<row, charge, payment, refunded, receipts>>

(* The ledger refuses the deposit for good: ErrRejected.                   *)
DepositRejected(t) ==
  /\ pc[t] = "deposit"
  /\ Refusals
  /\ ~TransferExists(Ref(t))
  /\ Q!Archive(t)
  /\ Fault
  /\ UNCHANGED <<row, money, receipts>>

(* Only the task whose update matched notifies the payer.                  *)
MarkSucceeded(t) ==
  /\ pc[t] = "markSucceeded"
  /\ \/ MarkIntentSucceeded(Ref(t)) /\ Answered(t, Q!Goto(t, "notify"))
     \/ /\ status[Ref(t)] \notin {"PENDING", "FAILED"}
        /\ ReturnNil(t)
        /\ UNCHANGED <<row, faults>>
  /\ UNCHANGED <<money, receipts>>

(* A receipt or an activity that cannot be queued is only logged.  Should  *)
(* the worker die after the receipt, the task is redelivered.              *)
Notify(t) ==
  /\ pc[t] = "notify"
  /\ \/ /\ receipts' = [receipts EXCEPT ![Ref(t)] = @ + 1]
        /\ \/ ReturnNil(t) /\ UNCHANGED faults
           \/ Q!LeaseLost(t) /\ Fault
     \/ UNCHANGED receipts /\ ReturnNil(t) /\ Fault
  /\ UNCHANGED <<row, money>>

(* Mutant: a failed intent is taken to be in the ledger.                   *)
LookupTransferAssumed(t) ==
  /\ pc[t] = "transferExists"
  /\ Q!Goto(t, "markSucceeded")
  /\ UNCHANGED <<row, money, receipts, faults>>

(* Mutant: a failed intent is refunded without asking the ledger.          *)
LookupTransferSkipped(t) ==
  /\ pc[t] = "transferExists"
  /\ Q!Goto(t, "markRefunding")
  /\ UNCHANGED <<row, money, receipts, faults>>

(* Mutant: the refund is not recorded before it is requested.              *)
LookupTransferUnrecorded(t) ==
  /\ pc[t] = "transferExists"
  /\ Q!Goto(t, IF TransferExists(Ref(t)) THEN "markSucceeded" ELSE "refund")
  /\ UNCHANGED <<row, money, receipts, faults>>

(* refundLatePayment: the ledger is asked before a failed intent is        *)
(* refunded.                                                               *)
LookupTransfer(t) ==
  /\ pc[t] = "transferExists"
  /\ Q!Goto(t, IF TransferExists(Ref(t)) THEN "markSucceeded"
                                         ELSE "markRefunding")
  /\ UNCHANGED <<row, money, receipts, faults>>

MarkRefunding(t) ==
  /\ pc[t] = "markRefunding"
  /\ \/ MarkIntentRefunding(Ref(t)) /\ Answered(t, Q!Goto(t, "refund"))
     \/ /\ status[Ref(t)] \notin {"FAILED", "REFUNDING"}
        /\ ReturnNil(t)
        /\ UNCHANGED <<row, faults>>
  /\ UNCHANGED <<money, receipts>>

(* Nothing in the request tells the provider that it is a repetition: a    *)
(* payer who was charged two amounts may be paid back twice.               *)
Refund(t) ==
  /\ pc[t] = "refund"
  /\ CanRefund(Ref(t))
  /\ refunded' = [refunded EXCEPT ![Ref(t)] = @ + Amount]
  /\ Answered(t, Q!Goto(t, "markRefunded"))
  /\ UNCHANGED <<row, credited, charge, payment, receipts>>

(* The provider refuses to pay back more than it charged.                  *)
RefundRefused(t) ==
  /\ pc[t] = "refund"
  /\ ~CanRefund(Ref(t))
  /\ Q!Fail(t)
  /\ UNCHANGED <<row, money, receipts, faults>>

MarkRefunded(t) ==
  /\ pc[t] = "markRefunded"
  /\ \/ MarkIntentRefunded(Ref(t)) /\ Answered(t, ReturnNil(t))
     \/ /\ status[Ref(t)] # "REFUNDING"
        /\ ReturnNil(t)
        /\ UNCHANGED <<row, faults>>
  /\ UNCHANGED <<money, receipts>>

(* fail: an intent that is no longer pending is left alone.                *)
MarkFailed(t) ==
  /\ pc[t] = "markFailed"
  /\ \/ MarkIntentFailed(Ref(t)) /\ Answered(t, ReturnNil(t))
     \/ /\ status[Ref(t)] # "PENDING"
        /\ ReturnNil(t)
        /\ UNCHANGED <<row, faults>>
  /\ UNCHANGED <<money, receipts>>

(* cancelPoll: every error is only logged.                                 *)
CancelPoll(t) ==
  /\ pc[t] = "cancelPoll"
  /\ \/ /\ Q!Remove({t} \union {u \in {Poll(Ref(t))} : Q!Deletable(u)})
        /\ UNCHANGED faults
     \/ Q!Complete(t) /\ Fault
  /\ UNCHANGED <<row, money, receipts>>

(* HandlePollExhausted: fail once more.  What became of that is only       *)
(* logged, and the poll ends as the queue decided.                         *)
PollExhausted(t) ==
  /\ pc[t] \in {"exhausted", "exhaustedLater"}
  /\ Q!HookReturns(t)
  /\ \/ MarkIntentFailed(Ref(t)) /\ UNCHANGED faults
     \/ status[Ref(t)] # "PENDING" /\ UNCHANGED <<row, faults>>
     \/ UNCHANGED row /\ Fault
  /\ UNCHANGED <<money, receipts>>

(* A task that left the queue takes its payload along.                     *)
DropPayload(t) ==
  payload' = [payload EXCEPT ![t] = IF pc'[t] \in {"idle", "archived"}
                                      THEN "none" ELSE @]

Handler(t) ==
  \/ Ignore(t) \/ ReadIntent(t) \/ Verify(t) \/ Settle(t) \/ LoadWallet(t)
  \/ Deposit(t) \/ MarkSucceeded(t) \/ Notify(t) \/ LookupTransfer(t)
  \/ MarkRefunding(t) \/ Refund(t) \/ RefundRefused(t) \/ MarkRefunded(t)
  \/ MarkFailed(t) \/ CancelPoll(t) \/ PollExhausted(t)

TaskStep(t) ==
  /\ \/ StartTask(t) \/ Handler(t)
     \/ CallFails(t) \/ DepositRejected(t) \/ WorkerCrash(t)
  /\ DropPayload(t)

Next ==
  \/ \E i \in Intents : \/ Api(i) \/ ApiCrash(i)
                        \/ Pay(i) \/ PayFails(i) \/ SetWalletStatus(i)
  \/ \E t \in Tasks : DeliverWebhook(t) \/ TaskStep(t)

Spec == Init /\ [][Next]_vars

(* A running handler or request does not stop by itself, and a queued task *)
(* is handed to a worker again and again until one takes it: Redis keeps   *)
(* the queue in order, so a task that keeps retrying cannot starve others. *)
Fairness ==
  /\ \A i \in Intents : WF_vars(Api(i))
  /\ \A t \in Tasks : /\ WF_vars(Handler(t) /\ DropPayload(t))
                      /\ SF_vars(StartTask(t) /\ DropPayload(t))

FairSpec == Spec /\ Fairness

-----------------------------------------------------------------------------
Statuses == {"NONE", "PENDING", "SUCCESS", "FAILED", "REFUNDING", "REFUNDED"}
Labels == Q!Parked \union Calls
            \union {"ignore", "notify", "cancelPoll", "exhausted",
                    "exhaustedLater"}

(* The books: what the database, the ledger and the provider hold.         *)
DataOK ==
  /\ status \in [Intents -> Statuses]
  /\ wallet \in [Intents -> {"ACTIVE", "FROZEN"}]
  /\ api \in [Intents -> {"new", "initialize", "publish", "giveUp",
                          "returned", "aborted"}]
  /\ credited \in [Intents -> Nat]
  /\ charge \in [Intents -> {"unknown", "open", "failed", "success"}]
  /\ payment \in [Intents -> Payments \union {NoPayment}]
  /\ refunded \in [Intents -> Nat]
  /\ receipts \in [Intents -> Nat]
  /\ faults \in 0 .. MaxFaults

(* The payment is what the intent asked for.                               *)
IsExact(i) == payment[i] = [amount |-> Amount, currency |-> "wallet"]

(* Type invariant: every variable keeps to the values its code can store.  *)
TypeOK ==
  /\ DataOK
  /\ pc \in [Tasks -> Labels]
  /\ retried \in [Tasks -> Nat]
  /\ payload \in [Tasks -> {"none", "SUCCESS", "FAILED", "PENDING"}]

(* A successful deposit was credited, and in full: SUCCESS is written only *)
(* after the ledger took the deposit, however many tasks resolve the same  *)
(* intent and whichever of their calls fail (settle, refundLatePayment).   *)
SuccessIsCredited ==
  \A i \in Intents : status[i] = "SUCCESS" => credited[i] = Amount

(* A wallet is credited at most once, with the intent's amount, and only   *)
(* for a payment the provider confirmed in that amount and currency: the   *)
(* checks of settle hold when Ledger.Deposit runs, several calls later.    *)
CreditIsPaid ==
  \A i \in Intents : credited[i] > 0 =>
    /\ credited[i] = Amount
    /\ charge[i] = "success"
    /\ payment[i] = [amount |-> Amount, currency |-> "wallet"]

(* Money the provider paid back is on record: the intent was moved to      *)
(* REFUNDING before the refund and never leaves the refund states, and an  *)
(* intent reads REFUNDED only once the provider accepted a refund.         *)
RefundIsRecorded ==
  \A i \in Intents :
    /\ refunded[i] > 0 => status[i] \in {"REFUNDING", "REFUNDED"}
    /\ status[i] = "REFUNDED" => refunded[i] > 0

(* One successful deposit sends at most one receipt, and only a successful *)
(* one does: MarkIntentSucceeded lets a single task notify.                *)
OneReceipt ==
  \A i \in Intents :
    /\ receipts[i] <= 1
    /\ receipts[i] > 0 => status[i] = "SUCCESS"

(* What the wallet gets and what the payer gets back never exceed what the *)
(* payer was charged: a deposit is credited or refunded, never both.       *)
PayoutCovered ==
  \A i \in Intents : credited[i] + refunded[i] <= payment[i].amount

(* An intent only moves along the transitions of the repository's guarded  *)
(* updates, so SUCCESS and REFUNDED are final.                             *)
StatusEdges ==
  [][\A i \in Intents : status'[i] # status[i] =>
       <<status[i], status'[i]>> \in
         {<<"NONE", "PENDING">>, <<"PENDING", "FAILED">>,
          <<"PENDING", "SUCCESS">>, <<"FAILED", "SUCCESS">>,
          <<"FAILED", "REFUNDING">>, <<"REFUNDING", "REFUNDED">>}]_status

(* A deposit that reads PENDING keeps the poll that was queued for it: no  *)
(* webhook's cancelPoll takes it away, and no handler and no hook ends it, *)
(* unless as many calls or processes failed as it has retries, the wallet  *)
(* is frozen, the ledger refuses the deposit for good, or the payment is   *)
(* not what was asked for (payment.go:236, 279).                           *)
PollIsKept ==
  [][\A i \in Intents :
       status'[i] = "PENDING" /\ pc[Poll(i)] \notin {"idle", "archived"} =>
         /\ pc'[Poll(i)] # "idle"
         /\ pc'[Poll(i)] = "archived" =>
              \/ faults' > PollMaxRetry
              \/ wallet[i] = "FROZEN"
              \/ Refusals /\ pc[Poll(i)] = "deposit"
              \/ charge[i] = "success" /\ ~IsExact(i)]_vars

-----------------------------------------------------------------------------
(* What a handler may still rely on when it makes its next call, although  *)
(* other tasks have run since it read the intent, the wallet or the        *)
(* provider: the facts that make the invariants above inductive.           *)

Settling == {"settle", "loadWallet", "deposit", "markSucceeded", "notify",
             "transferExists", "markRefunding", "refund", "markRefunded"}

HandlerKnows(t, i) ==
  /\ pc[t] \in Settling \/ payload[t] = "SUCCESS" => charge[i] = "success"
  /\ pc[t] = "loadWallet" => payment[i].amount = Amount
  /\ pc[t] = "deposit" => IsExact(i)
  /\ pc[t] = "markSucceeded" => credited[i] = Amount
  /\ pc[t] = "notify" => status[i] = "SUCCESS" /\ receipts[i] = 0
  /\ pc[t] \in {"refund", "markRefunded"} =>
       status[i] \in {"REFUNDING", "REFUNDED"}
  /\ pc[t] = "markRefunded" => refunded[i] > 0

OneNotifier ==
  \A t, u \in Tasks :
    Ref(t) = Ref(u) /\ pc[t] = "notify" /\ pc[u] = "notify" => t = u

(* Nobody pays before the request returned the checkout's URL, and nothing *)
(* is charged but by a payment.                                            *)
RequestFirst ==
  \A i \in Intents :
    /\ charge[i] \in {"failed", "success"} => api[i] = "returned"
    /\ charge[i] # "success" => payment[i] = NoPayment
    /\ api[i] = "new" <=> status[i] = "NONE"

(* The inductive invariant, for any number of workers: what each handler   *)
(* knows between two of its calls, and the books of every intent.          *)
BooksInv ==
  /\ \A t \in Tasks : HandlerKnows(t, Ref(t))
  /\ OneNotifier
  /\ RequestFirst
  /\ SuccessIsCredited
  /\ CreditIsPaid
  /\ RefundIsRecorded
  /\ OneReceipt

Open(i) == status[i] \in {"NONE", "PENDING"}

(* The inductive invariant that keeps the poll of a pending deposit: the   *)
(* count of its attempts is covered by faults, its hook runs only when     *)
(* they are used up, and whoever is about to remove it saw the deposit     *)
(* resolved.                                                               *)
PollInv ==
  /\ \A i \in Intents :
       /\ payload[Poll(i)] = "none" /\ pc[Poll(i)] # "ignore"
       /\ status[i] = "NONE" => charge[i] = "unknown"
       /\ Open(i) =>
            /\ retried[Poll(i)] <= faults
            /\ pc[Poll(i)] = "exhausted" => PollMaxRetry < faults
            /\ pc[Poll(i)] = "exhaustedLater" => PollMaxRetry <= retried[Poll(i)]
  /\ \A t \in Tasks :
       /\ status[Ref(t)] = "NONE" => pc[t] = "idle"
       /\ pc[t] \in {"cancelPoll", "transferExists", "markRefunding"} =>
            status[Ref(t)] # "PENDING"

(* With a single worker no other handler runs between two calls, so what   *)
(* settle read still holds when it credits and what refundLatePayment      *)
(* looked up still holds when it refunds.                                  *)
SerialKnows(t, i) ==
  /\ pc[t] \in {"loadWallet", "deposit"} => status[i] = "PENDING"
  /\ pc[t] = "markSucceeded" => status[i] \in {"PENDING", "FAILED"}
  /\ pc[t] = "transferExists" => status[i] = "FAILED"
  /\ pc[t] \in {"markRefunding", "refund", "markRefunded"} =>
       credited[i] = 0

(* The inductive invariant of a single worker: no deposit is both credited *)
(* and on its way back to the payer.                                       *)
SerialInv ==
  /\ \A t, u \in Tasks : Q!Active(t) /\ Q!Active(u) => t = u
  /\ \A t \in Tasks : SerialKnows(t, Ref(t))
  /\ \A i \in Intents :
       /\ status[i] \in {"REFUNDING", "REFUNDED"} => credited[i] = 0
       /\ refunded[i] <= payment[i].amount

(* Served one at a time, the tasks keep the promise of DepositPromise: an  *)
(* intent is credited only while pending and refunded only when the ledger *)
(* does not hold it, whatever fails or crashes in between.                 *)
Promise == INSTANCE DepositPromise
KeepsPromise == Promise!Spec

(* A payer who pays the amount asked for, while the poll still runs, ends  *)
(* up with a successful deposit even if no webhook ever arrives            *)
(* (EventPaymentInitialized's listener), unless more calls, replies or      *)
(* processes fail than the poll has retries.                               *)
PaidIsCredited ==
  \A i \in Intents :
    /\ status[i] = "PENDING"
    /\ pc[Poll(i)] \notin {"idle", "archived", "exhausted", "exhaustedLater"}
    /\ payment[i] = [amount |-> Amount, currency |-> "wallet"]
    ~> status[i] = "SUCCESS" \/ faults > PollMaxRetry
=============================================================================
