# A TLA+ model of DigitalWallet

DigitalWallet is a Go service for wallets that hold money in several
currencies. A user registers, verifies the account with a one-time code, opens
wallets, pays money in through a payment provider (Paystack), sends money to
other wallets and reads the history. Three stores matter: **Postgres** (users,
wallets, transaction intents, transfers, activities), **TigerBeetle** (the
double entry ledger that holds every balance) and **Redis** (asynq's task queue
and the one-time codes). No transaction spans two of them. Almost every
operation is a sequence of calls to these stores, to the provider or to the
queue, made by handlers that run at the same time, fail, are retried and crash.
That is what these modules are about.

## Inventory

| Component | Source | State it keeps | Operations | What makes it correct | Here |
|---|---|---|---|---|---|
| Deposit request | `services/payment-service.go`, `events/payment_listeners.go` | the intent's row | `InitializeDeposit`, `HandlePaymentWebhook` | an intent is failed if its checkout did not start; its poll is queued | `Deposit` |
| Deposit tasks | `queues/payment.go` | intent status, ledger entry, refund | `HandlePaymentPoll`, `HandlePaymentWebhook`, `HandlePollExhausted`, `settle`, `refundLatePayment`, `fail`, `notify`, `cancelPoll` | credited at most once, for what was paid, and never refunded as well | `Deposit`, `DepositPromise` |
| Transfer request | `services/transfer-service.go`, `events/transfer_listeners.go` | the transfer's row | `InitiateTransfer` | only active wallets of one currency; its task is queued | `Transfer` |
| Transfer task | `queues/transfer.go` | transfer status, ledger entry | `HandleTransferExecute`, `HandleTransferExhausted` | moves once, never overdraws, its status tells the truth | `Transfer`, `TransferPromise` |
| Queue and middleware | `queues/middleware.go`, `utils.go`, `worker.go`, asynq | state and retry count of each task | `EnqueueWithContext`, `OnRetriesExhausted`, `IsFinalAttempt`, `IsFailure`, `RecoverMiddleware` | attempts are counted; exhaustion is handled once | `TaskQueue` |
| Rows | `repository/transaction_repository.go`, `transfer_repository.go` | Postgres rows | `moveIntent`, `MarkIntent*`, `markTransfer`, `CreateWallet`, listings | final states stay final | `Deposit`, `Transfer`, `Wallets`, `History` |
| Ledger | `ledger/ledger.go` | accounts, transfers | `EnsureWalletAccount`, `Deposit`, `Transfer`, `TransferExists`, `Balances`, `WalletMovements` | idempotent by id, debits never exceed credits | `Deposit`, `Transfer`, `Wallets`, `History` |
| Provider client | `providers/paystack.go` | none (the provider's) | `Initialize`, `Verify`, `Refund`, `ParseWebhook` | statuses mean what the tasks think | `Deposit` |
| Wallets | `services/wallet-service.go` | wallet rows, ledger accounts | `CreateWallet`, `ListMyWallets` | one wallet per currency and request; unique numbers; money finds its account | `Wallets` |
| History | `services/transaction-history.go` | none | `ListMyTransactions` | each transaction listed once, pages do not overlap | `History` |
| Accounts | `services/user-service.go`, `repository/user_repository.go` | users | register, resend, verify, update, delete | verified only by a mailed code; deleted for ever | `Accounts`, `AccountPromise` |
| One-time codes | `otp/store.go` | code and attempts keys in Redis | `Generate`, `Verify` | bounded guesses; a code is used once and is not lost | `OtpStore` |
| Tokens | `services/jwt.go`, `routes/middelware.go` | none (signed tokens) | login, refresh, expiry | a deleted user gets no token; claims are current | `Sessions` |
| Money | `shared/money.go` | none | parse, format, store | what is shown is what was sent | `Money` |
| Event bus | `events/events.go` | subscribers | `Publish`, `dispatch` | one subscriber's failure stops no other | `Notices` |
| Activities and e-mail | `queues/activity.go`, `email.go`, `repository/activity.go`, `services/activity-service.go` | activity rows | the two tasks, `GetMyActivities` | mails are retried; the feed leaves nothing out | `Notices` |
| HTTP, API documentation | `routes/*.go` | none | decoding, answers | the documentation's promises | quoted by properties |
| Configuration, start-up, telemetry, templates | `config`, `cmd`, `telemetry`, `templates` | none | wiring | | constants of the models |

How they interact: a request writes a row, then publishes an event; the event
bus calls its listeners synchronously, and a listener enqueues a task. What a
listener cannot do is only logged. A worker process runs up to
`ASYNC_REDIS_CONCURRENCY` handlers (ten by default) out of one queue. A handler
reads the row, calls the provider or the ledger, and updates the row with a
guarded `UPDATE ... WHERE status IN (...)`; the update's row count tells whether
it won. An error sends the task back to the queue; when no retry is left a
middleware calls the task's exhaustion hook and asynq archives the task.

What is hard here: two tasks of one deposit (a poll and any number of webhooks)
interleave between their calls; a call can take effect and its reply be lost; a
worker can die between two calls, even in its last attempt, after which no hook
runs; the provider repeats webhooks or sends none; a wallet is frozen between a
check and its use; two verifications of a code interleave their Redis calls;
the history reads four sources while transactions move from one to another.
`PROJECT.json` lists each hazard at its line.

## Modules

Each module's state and actions carry the names of the code they model; one
action is one call to a store, the provider or the queue, with everything the
handler does up to the next call. `PROJECT.json` maps each definition to its
lines.

`TaskQueue` is the life of a task. `pc[t]` is `idle`, `queued`, `archived` or
the call the running handler makes next; `retried[t]` is asynq's count. Its
operators are the outcomes of an attempt: `Complete` (nil), `Fail` (an error:
requeue and count, or run the hook, or archive), `RetryLater` (an error that
`IsFailure` does not count), `Archive` (SkipRetry), `LeaseLost` (the worker
died), `Remove` (`Inspector.DeleteTask`). When a poll has used up its retries
and then only postpones itself, the middleware runs the hook and takes the task
for archived (`IsFinalAttempt`), but asynq, told that this is no failure, may
retry it; `HookReturns` allows both. `Enqueue` answers a TaskID conflict
as `EnqueueWithContext` does: with success. `Deposit`, `Transfer` and `Notices`
instantiate it as `Q`, so every handler runs under the same rules.

`Deposit` models one request and the tasks of each intent. A task is a pair
`<<intent, n>>`: 0 is the poll, whose TaskID allows one per intent, the others
are webhook tasks, which have no TaskID.

| Action | Code |
|---|---|
| `CreateIntent`, `Initialize`, `GiveUp`, `Publish`, `ApiCrash` | `InitializeDeposit` and its listener |
| `Pay`, `PayFails`, `DeliverWebhook` | the payer, the provider, `HandlePaymentWebhook` of the API |
| `ReadIntent`, `Verify` | `HandlePaymentPoll` |
| `Settle`, `LoadWallet`, `Deposit`, `DepositRejected`, `MarkSucceeded`, `Notify` | `settle`, `notify` |
| `LookupTransfer`, `MarkRefunding`, `Refund`, `RefundRefused`, `MarkRefunded` | `refundLatePayment` |
| `MarkFailed`, `CancelPoll`, `PollExhausted` | `fail`, `cancelPoll`, `HandlePollExhausted` |
| `CallFails`, `WorkerCrash`, and the second branch of `Answered` | an error or a panic, a dead process, a lost reply |

`status` is the intent's column, `wallet` the wallet's; `credited` is what the
ledger holds under the intent's id; `charge`, `payment` and `refunded` are the
provider's books; `receipts` counts what `notify` sent; `payload` is what a
webhook task carries.

`Transfer` models the requests and tasks of several transfers over shared
wallets. `order` is what each request asks for, `balance` and `moved` the
ledger, `notices` what the parties were told. `Request`, `CheckBalance`,
`CreateTransfer`, `Publish` are `InitiateTransfer`; `ReadTransfer`,
`LoadWallets`, `MoveMoney`, `InsufficientFunds`, `Rejected`,
`MarkTransferSucceeded`, `FinalizeFailed`, `Notify` are
`HandleTransferExecute`; `HookRead`, `HookLookup`, `HookClose`, `HookGivesUp`
are `HandleTransferExhausted`.

`Accounts` runs any number of requests of any kind for any number of addresses:
registration with the listener that issues and mails the code, a resend, a
verification, a change of profile, a deletion. A verification is the row, the
attempt counter (`INCR`), its time to live (`EXPIRE`), the code (`GET`), its
deletion (`DEL`) and the update, each a step of its own; `OtpStore` is what
those commands do to Redis, with keys that expire. `guesses`, `entered`, `uses`
and `proved` are history: what was compared with the latest code, what was
counted since it was issued, how often it was accepted, and whether a mailed
code ever was.

`Sessions` is login, renewal and deletion of one account, which may be verified
at any time. `Delete`, `SelectUser` and `SaveUser` are `DeleteUser`: the row is
read, and saved as a whole with `is_active` cleared, so that a verification in
between is undone. A token is never stored, so `tokens` is the set of those that
have not expired; `then` records the account as it was when the request came.

`Wallets` opens and lists wallets: `FindWallet`, the insert with up to
`accountNumberAttempts` numbers (a collision draws another, a lost reply ends
the request), `EnsureWalletAccount`, whose failure is only logged, and the two
calls of a listing, while deposits create the missing account and pay in.

`History` is a request that reads the movements of each wallet, then the
unsettled deposits, then the unsettled transfers, each cut off at the end of
the page, merges them and cuts the page. Meanwhile transactions settle in the
two steps that `Deposit` and `Transfer` allow, ledger first, row second. A row
can fail before or after the money moved; a deposit may still be settled then, a
transfer stays FAILED (`Settleable`).

`Notices` is the event bus, the two tasks of a login and a client that pages
through the activities; `Money` follows an amount from JSON through `NewMoney`,
the range check and the column to JSON and text, with floats of `P` significant
bits and exponents from `-Emin` to `Emax`, and integers of `W` bits.

`DepositPromise`, `TransferPromise` and `AccountPromise` say what three
components promise, without queues, handlers or failures: a deposit is credited
or paid back, each at most once; a transfer moves its money in one step out of
funds the sender has, and its status follows; an account is verified only after
a code was accepted and is never active again once deleted. `Deposit`,
`Transfer` and `Accounts` implement them under an identity mapping of the
shared variables (`KeepsPromise`), the first two in the conditions given below.

The `MC...` modules give the constants values for TLC; the `...Proofs` modules
hold the theorems. An operator whose comment starts with "Mutant:" is used by
no specification: it is a plausible wrong version of the definition next to
it, kept to show that the properties notice.

### What the actions leave out

- The wallet check and the insert of `InitializeDeposit` are one step, and so
  are the two wallet reads of a transfer: a wallet that changes between them
  looks the same to every later step as one that changes just after.
- Errors that only a corrupt payload, an unknown reference or a deleted wallet
  causes (they return SkipRetry and change nothing) and configuration errors
  (no ledger, no provider).
- A handler that outlives its lease and overlaps its own redelivery. asynq
  cancels the context of such a handler, so its database and provider calls
  fail.
- Chargebacks and reversals at the provider; a webhook without a currency; the
  currency check inside `Ledger.Transfer`, which the wallets' check before it
  makes unreachable.
- Passwords and signatures are taken to work, and two codes to differ.
- `History` lets a transaction touch one wallet of the user. `History` and
  `Notices` take the times of rows and ledger entries to be distinct and of one
  clock, so that lists have one order. The code orders by `created_at` alone
  (`activity.go:74` and the unsettled listings have no tie-breaker): two rows of
  one microsecond may change places between two pages, and nothing here says
  what becomes of them.
- `Wallets` has no transfers: balances grow only. What a list shows of money
  that leaves a wallet meanwhile is not modelled.
- `Money` takes the widths of floats and integers from its constants: the run
  scales them down together, the proofs hold for any that the amounts fit. A
  number beyond an integer becomes either what an amd64 or what an arm64 makes
  of it. Zero, infinities and denormal numbers are not among its floats: an
  amount is at least `MinMinor`. The texts sent are whole thousandths, so one
  that is nearer to a tie than that, such as 1.14499999999999999, is not tried.

## Runs

All configurations set `CHECK_DEADLOCK FALSE`: a request may abort, every task
may be archived, the bounds on faults and codes run out, and then the system
has stopped.

| Run | Question | Bounds |
|---|---|---|
| `DepositConcurrent` | What holds however the poll and two webhooks of one deposit interleave? | 3 workers, 1 retry each, 3 faults, payments that are exact, short, excessive, twice the amount or in another currency, wallets that freeze |
| `DepositSerial` | What does a single worker add, and is a paid deposit credited in the end? | 1 worker, a failed charge stays failed, no refusals |
| `TransferRefused` | What holds of transfers that compete for one balance, in spite of freezes and refusals? | 2 transfers, 3 wallets in 2 currencies, 2 workers, 1 retry, 3 faults |
| `TransferCalm` | Do transfers keep their promise, and settle, when nothing is frozen or refused? | as above, no refusals |
| `AccountsConcurrent` | What holds of accounts and codes however two requests interleave? | 2 requests, 2 attempts, 2 codes, 2 faults, keys that live for 2 ticks |
| `SessionsClaims` | What may a token say of a deleted or verified account? | 2 requests, 2 pairs of tokens |
| `WalletsConcurrent` | How many wallets and accounts do overlapping requests make? | 2 requests, 3 ids, 3 numbers, 2 faults |
| `HistoryRaces` | What does a page show of transactions that settle while it is read? | 2 deposits, 1 transfer, 2 wallets, pages of 1 and of 6, scan of 6 |
| `NoticesFaults` | Do events, mails and activities arrive, and does the feed show them? | 2 logins, 1 retry, 2 faults, pages of 1 |
| `MoneyTrip` | Is what is shown what was sent? | amounts around the limits and beyond an integer, in thousandths; 16 bits of float with exponents from -25 to 18, 18 bits of integer |

What they show. In `DepositConcurrent`: a successful deposit was credited in
full (`SuccessIsCredited`), a credit is exactly what the provider confirmed
(`CreditIsPaid`), money paid back is on record (`RefundIsRecorded`), one receipt is sent (`OneReceipt`), the status
moves only along the guarded updates (`StatusEdges`), and while a deposit is
pending nothing takes its poll away, not even a webhook that runs at the same
time, but more faults than it has retries or a payment that cannot be credited
(`PollIsKept`). `DepositSerial` adds that
nobody is credited and refunded (`PayoutCovered`), that the pipeline implements
`DepositPromise` and that a payment the poll looks for is credited in the end
(`PaidIsCredited`). `TransferRefused`: a successful transfer moved its money,
balances are exactly what the ledger's transfers make them, none is negative,
the parties hear of an outcome at most once, and an open transfer keeps its task
unless more calls or workers fail than the task has retries (`TaskIsKept`). `TransferCalm` adds that a
failed transfer moved nothing, that transfers implement `TransferPromise` and
that a queued one settles (`TransferResolves`).

`AccountsConcurrent`: nobody is verified without a mailed code
(`VerifiedByMail`), at most `MaxAttempts` guesses are compared with a code
(`GuessBound`), a code that is still stored was accepted only by requests that
have yet to delete it or whose deletion failed (`SingleUse`), a code goes away
only by its use, by too many tries, by time or by the late deletion of an older
one (`CodeIsKept`), and while nothing fails a used code has verified its account
(`UsedCodeVerifies`). `SessionsClaims`: a deleted account cannot log in
(`LoginRefusesDeleted`), and while the account is not deleted every token knows
a verification that came before the request for it and claims none that did not
happen, although deletions save old rows (`ClaimsAreCurrent`).
`WalletsConcurrent`: only overlapping requests open a second wallet, whatever
replies are lost; no deposit misses its account; a list is complete and shows no less money than there was. `HistoryRaces`: an undisturbed
page is exactly its slice of the history although each source is cut off
separately; a transaction that does not change meanwhile is listed with what
the ledger and its row hold, whatever the others do, and once unless it is half
settled; what was shown can be looked up. `NoticesFaults`: every
subscriber gets the event, a mail is given up only when all attempts failed and
is sent otherwise, and paging misses no activity although rows arrive out of
the order of their times. `MoneyTrip`: whole minor units survive the two
floats, others are rounded to a nearest one, nothing wraps into the range, and
text is parsed back.

Two runs end in a violation, each of a statement the repository makes:

| Run | Statement | What the code does |
|---|---|---|
| `DepositDouble` | failed and refunded intents "never reached the ledger" (`transfer_repository.go:163-165`) | `settle` credits on a status read several calls earlier. While it does, another task fails the intent and a third refunds it. Needs two workers. |
| `SessionsDeleted` | a user deleted since the token was issued "cannot keep renewing on stale data" (`user-service.go:241-243`) | the renewal loads deleted accounts too and never looks at `IsActive`. |

The model also shows these, which the runs above exclude by their bounds or
properties by their premises:

- An unpaid checkout returns `ErrRetryLater`, which is not counted, so its poll
  never gives up (`payment.go:24-26` says it does).
- The hook of an exhausted poll fails a credited intent without asking the
  ledger; without a webhook nothing corrects it.
- After a lost reply to a refund every repetition is refused and the intent
  stays REFUNDING. A payer charged at least twice the amount can be refunded
  twice, since the repetition is within what was charged:
  `paystack.go:237-239` says that a repeated call cannot pay out twice. No
  property bounds what is paid back; `PromiseKept` assumes that no payer is
  charged that much, and `DepositSerial` has no such payment.
- After a lost ledger reply the retry of a transfer looks at the wallets first,
  and fails a transfer that moved if one was frozen meanwhile. It stays FAILED,
  and the history lists it twice for ever, as settled and as failed.
- A wallet frozen between its only check and the ledger call is credited.
- A verification refused after too many tries, or accepted, deletes the code by a
  later call (`store.go:138`, `163`); if a resend came in between, that call
  deletes the new code and its counter.
- `DeleteUser` saves the row it read (`user_repository.go:143-148`), which may
  undo a verification; a renewal of the deleted account then says that it is not
  verified.
- Deleted addresses count: `repo_bug_test.go:100-105` ("BUG 4") says that
  `GetUserByEmail` and `UserEmailExists` do not find them, and both do
  (`user_repository.go:40-50`, `120-133` do not look at `is_active`). In
  `Accounts`, an address of a deleted account cannot be registered again.
- `docs.go:53` says of a login that "the account must already be verified".
  `LoginUser` does not look: in `Sessions` an unverified account gets tokens that
  say so.
- Overlapping requests can use a code twice and open two wallets in a currency.
- A verification answers success although the update of the row failed.
- A refresh token that was traded in is accepted until it expires.
- The history lists a half settled transaction twice, or misses one that
  settles between its reads, and serves pages with gaps past its scan cap.

### Why the bounds are enough

One intent suffices: intents share nothing but the worker pool, and a task
touches only its own intent's row, ledger entry and charge. Three tasks are what
the longest interleaving needs: one credits, one fails the intent, one refunds.
One retry gives each task a first, a last and an exhausted attempt. Three
faults allow a lost reply, the failure of its retry and a crash. Two
transfers suffice to compete for a balance, and the orders include a pair in
opposite directions, a cross-currency order and one to the same wallet.
`MaxHooks` bounds the webhook tasks held at the same time, not the deliveries:
a slot is used again when its task ends. Likewise a request of `Accounts`,
`Sessions` or `Wallets` is used again for the next one, so two of them make a
sequence of any length, and two codes are an old and a new one. In `History`
three transactions over two wallets put two into one source and one into each
other; a page of one cuts every source, one of six holds everything twice. Two
logins put rows into the table in the order of their times and in the other.
`P` and `W` keep the relation that matters: amounts within the limit are exact
in a float, numbers beyond an integer are not. The proofs lift all of these
bounds.

### Fairness

In `Deposit` and `Transfer` a running handler or request takes its next step in
the end (weak fairness of `Handler` and `Api`): each call has a timeout or a
deadline. A task that is queued again and again is started in the end (strong
fairness of `StartTask`): Redis keeps the queue in order and asynq takes the
oldest task, so no other task can pass it for ever. `Notices` assumes the same
of `Worker` and `Pickup`. Nothing else is fair: faults, crashes, payers,
webhooks, freezes, clients may or may not happen. `PaidIsCredited`,
`TransferResolves` and `MailIsSent` hold only while faults leave the task a
retry; a worker that dies in the last attempt leaves the row PENDING, as the
code does.

## Proofs

`tlapm` proves these for every value of the constants that the modules'
assumptions allow. The assumptions bound little but the types: finitely many
tasks, requests or transactions, at least one worker, limits that are positive,
deposits that are not transfers. Each `SafeInv`, `BooksInv`, `SerialInv`,
`SessionsInv` is an inductive invariant: none of the safety invariants is
inductive as it stands, because the fact that justifies a write was established
several steps earlier, and the missing part says what a handler still knows at
each call although others ran since. `PollInv` and `TaskInv` extend them for the
two action properties, `MoneyInv` describes an amount at each stage of its trip.
Being proved, they are not among the properties of the runs, and neither are
most type invariants.

- `DepositProofs`: `BooksCorrect`, for any number of workers. `HandlerKnows`
  says that a task about to credit has an exact payment behind it, a task about
  to write SUCCESS has a credit behind it, and so on; `OneNotifier` makes the
  receipt unique. `SuccessCorrect`, `CreditCorrect`, `RefundCorrect`,
  `ReceiptCorrect` follow; `StatusCorrect` is an action property.
  `PollCorrect` shows that `PollInv` is inductive: the attempts of a poll are
  covered by faults, its hook runs only when they exceed its retries, a webhook
  slot of an intent that does not exist yet is idle, and a handler that is about
  to delete the poll has a closed intent. Hence `PollKept`. For one worker,
  `SerialInv` (a handler runs alone, so what it read is still true) gives
  `PayoutCorrect` and, where no payer is charged twice the amount, the
  refinement `PromiseKept`. `DepositDouble` shows that
  two workers break `PayoutCovered`.
- `TransferProofs`: `BooksCorrect`, `SuccessCorrect` and `NoticeCorrect` for any
  number of workers and any refusals. `BalanceCorrect` is about a sum over a
  set, which induction would take apart; it is read instead as the number of
  units of money the transfers move, about which the library's theorems on
  cardinality say enough, and a smallest set on which the two differ is refuted.
  `TaskCorrect` shows that `TaskInv` is inductive, `TaskKept` that a task is
  kept. Without refusals `CalmCorrect`, `FailureCorrect` and the refinement
  `PromiseKept`.
- `MoneyProofs`: for any widths that the limits fit (`MoneyAssumption`).
  `RoundsCorrect`: what is stored is a nearest whole number of minor units, and
  what is beyond an integer is refused; `ShownCorrect`: whole minor units come
  back as they were sent, because two roundings with a relative error of
  `2^-P` leave less than half a unit within the limit; `ParsesBackCorrect`: the
  text of an amount is parsed to the same amount. The laws of powers of two are
  proved by counting: `2^n` is the number of subsets of `1 .. n`.
- `AccountProofs`: for any number of addresses, requests, codes and faults.
  `AccountInv` counts: the guesses compared with a code and the requests about
  to compare one never exceed the counter, and the uses of a code are covered
  by the requests that were accepted and the deletions that failed. From it
  `VerificationCorrect`, `GuessesCorrect`, `SingleUseCorrect`, `UseCorrect`, the
  action property `CodeKeptCorrect` (a request that found the counter past the
  limit knows whether its code is still the latest) and the refinement
  `PromiseKept`.
- `SessionProofs`: `LoginCorrect` and `ClaimsCorrect`. A row that is still active
  has forgotten nothing a request or a token has seen of it, since whoever saves
  an old row deletes the account with it; that is the invariant `SessionsInv`.
- `WalletProofs`: the rows of a user and currency, with the requests about to
  insert one, are no more than the requests: `WalletsBounded`. Also
  `NumbersCorrect`, `DepositsCorrect` and `ListCorrect`.
- `HistoryProofs`: `MergeLemma` says that a list that holds the n newest entries
  of the whole, and perhaps more of it, has the same first n; `PartLemma` that
  the n newest of each source contain the n newest of all. With the invariant,
  what a request has read so far, they give `PageCorrect`. `ListedOnce` needs no
  calm but that of the transaction it speaks of, `ShownCorrect` none.
- `NoticeProofs`: `EventCorrect`, `RetriedCorrect`, and for the feed
  `FeedCorrect` and `LastPageCorrect`: times are distinct (`Keys`), hence no
  rank is left out (`GapLemma`), an empty page means that nothing lies behind
  it, and a row that arrives late only moves others to later pages.

`TypeCorrect` is proved in each. A proof of a step has the same shape in all of
them: a step is classified by what it may change (`Moves`, `Quiet`, `Others`,
`Attempt`), then the invariant is shown for who acts and for the others.

Only model-checked: the liveness properties `PaidIsCredited`, `TransferResolves`
and `MailIsSent`, because the prover handles neither fairness nor ENABLED.
`PollIsKept` and `TaskIsKept` are the part of the first two that is safety: the
task that will close the row is not lost on the way. That account numbers are
unique (`NumbersUnique`) and that `Money` and other modules keep their types is
proved and not run.

## Not modelled

- `GetAllUsers`, `GetTransaction`, `GetTransfer`, `GetWallet` by id: reads of
  one table that change nothing; their rows are the ones modelled.
- HTTP decoding and answers, the OpenAPI document, configuration, start-up,
  telemetry, e-mail templates: wiring and formatting without state; the
  settings that matter are constants.
- Redis, Postgres and TigerBeetle themselves: each call is atomic and durable,
  as the code relies on.
- Deposits and transfers over one set of wallets in one module. They share the
  ledger's accounts, which `Transfer` starts with any funds and `Wallets` with
  any deposits; a deposit never reads a balance.
