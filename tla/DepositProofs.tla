--------------------------- MODULE DepositProofs ---------------------------
(***************************************************************************)
(* Theorems about Deposit, for every set of intents, every number of       *)
(* webhook tasks, workers, retries and faults, and every set of payments.  *)
(***************************************************************************)
EXTENDS Deposit, FiniteSetTheorems, TLAPS

(* What a step of the queue does to pc: the task t goes to one of the      *)
(* labels L, and at most a poll is removed besides.                        *)
Moves(t, L) ==
  /\ pc' \in [Tasks -> Labels]
  /\ retried' \in [Tasks -> Nat]
  /\ pc'[t] \in L
  /\ \A u \in Tasks \ {t} : pc'[u] \in {pc[u], "idle"}

Failed == {"queued", "archived", "exhausted", "exhaustedLater"}
Returned == {"idle", "cancelPoll"}

-----------------------------------------------------------------------------
(* The operations of the queue, as moves.                                  *)

LEMMA GotoMoves ==
  ASSUME TypeOK, NEW t \in Tasks, NEW l \in Labels, Q!Goto(t, l)
  PROVE  Moves(t, {l})
  BY DEF TypeOK, Q!Goto, Moves

LEMMA CompleteMoves ==
  ASSUME TypeOK, NEW t \in Tasks, Q!Complete(t)
  PROVE  Moves(t, {"idle"})
  BY DEF TypeOK, Q!Complete, Q!Remove, Moves, Labels, Q!Parked

LEMMA ArchiveMoves ==
  ASSUME TypeOK, NEW t \in Tasks, Q!Archive(t)
  PROVE  Moves(t, {"archived"})
  BY DEF TypeOK, Q!Archive, Moves, Labels, Q!Parked

LEMMA RequeueMoves ==
  ASSUME TypeOK, NEW t \in Tasks, Q!Requeue(t)
  PROVE  Moves(t, {"queued"})
  BY DEF TypeOK, Q!Requeue, Moves, Labels, Q!Parked

LEMMA ExhaustMoves ==
  ASSUME TypeOK, NEW t \in Tasks, Q!Exhaust(t)
  PROVE  Moves(t, {"archived", "exhausted"})
<1>1. CASE Q!Archive(t)
  BY <1>1, ArchiveMoves DEF Moves
<1>2. CASE Q!Goto(t, "exhausted")
  BY <1>2, GotoMoves DEF Moves, Labels
<1>3. QED
  BY <1>1, <1>2 DEF Q!Exhaust

LEMMA FailMoves ==
  ASSUME TypeOK, NEW t \in Tasks, Q!Fail(t)
  PROVE  Moves(t, Failed)
<1>1. CASE Q!Exhaust(t)
  BY <1>1, ExhaustMoves DEF Moves, Failed
<1>2. CASE Q!Requeue(t)
  BY <1>2, RequeueMoves DEF Moves, Failed
<1>3. QED
  BY <1>1, <1>2 DEF Q!Fail

LEMMA RetryLaterMoves ==
  ASSUME TypeOK, NEW t \in Tasks, Q!RetryLater(t)
  PROVE  Moves(t, Failed)
<1>1. PICK l \in {"exhaustedLater", "queued"} : Q!Goto(t, l)
  BY DEF Q!RetryLater
<1>2. Moves(t, {l})
  BY <1>1, GotoMoves DEF Labels, Q!Parked
<1>3. QED
  BY <1>2 DEF Moves, Failed

LEMMA HookMoves ==
  ASSUME TypeOK, NEW t \in Tasks, Q!HookReturns(t)
  PROVE  Moves(t, {"archived", "queued"})
<1>1. CASE Q!Archive(t)
  BY <1>1, ArchiveMoves DEF Moves
<1>2. CASE Q!Goto(t, "queued")
  BY <1>2, GotoMoves DEF Moves, Labels, Q!Parked
<1>3. QED
  BY <1>1, <1>2 DEF Q!HookReturns

LEMMA LeaseLostMoves ==
  ASSUME TypeOK, NEW t \in Tasks, Q!LeaseLost(t)
  PROVE  Moves(t, Failed)
<1>1. CASE Q!Archive(t)
  BY <1>1, ArchiveMoves DEF Moves, Failed
<1>2. CASE Q!Requeue(t)
  BY <1>2, RequeueMoves DEF Moves, Failed
<1>3. QED
  BY <1>1, <1>2 DEF Q!LeaseLost

LEMMA ReturnMoves ==
  ASSUME TypeOK, NEW t \in Tasks, ReturnNil(t)
  PROVE  Moves(t, Returned)
<1>1. CASE Q!Complete(t)
  BY <1>1, CompleteMoves DEF Moves, Returned
<1>2. CASE Q!Goto(t, "cancelPoll")
  BY <1>2, GotoMoves DEF Moves, Returned, Labels
<1>3. QED
  BY <1>1, <1>2 DEF ReturnNil

-----------------------------------------------------------------------------
(* The steps of a task, as moves: where each can lead, and what the code   *)
(* checked on the way.                                                     *)

LEMMA ReadMoves ==
  ASSUME TypeOK, NEW t \in Tasks
  PROVE  /\ Ignore(t) => Moves(t, {"idle"})
         /\ ReadIntent(t) => Moves(t, Returned \union {"verify"})
         /\ Verify(t) =>
              /\ Moves(t, Failed \union {"settle", "markFailed"})
              /\ pc'[t] = "settle" => charge[Ref(t)] = "success"
         /\ Settle(t) =>
              /\ Moves(t, Returned \union {"loadWallet", "archived",
                                           "transferExists", "markRefunding"})
              /\ pc'[t] = "loadWallet" => /\ status[Ref(t)] = "PENDING"
                                          /\ payment[Ref(t)].amount = Amount
              /\ pc'[t] = "transferExists" => status[Ref(t)] = "FAILED"
              /\ pc'[t] = "markRefunding" => status[Ref(t)] = "REFUNDING"
         /\ LoadWallet(t) =>
              /\ Moves(t, {"archived", "deposit"})
              /\ pc'[t] = "deposit" => payment[Ref(t)].currency = "wallet"
         /\ LookupTransfer(t) =>
              /\ Moves(t, {"markSucceeded", "markRefunding"})
              /\ pc'[t] = "markSucceeded" => credited[Ref(t)] > 0
              /\ pc'[t] = "markRefunding" => ~(credited[Ref(t)] > 0)
<1> USE DEF Labels, Calls, Q!Parked, Returned, Failed
<1>1. Ignore(t) => Moves(t, {"idle"})
  BY CompleteMoves DEF Ignore
<1>2. ReadIntent(t) => Moves(t, Returned \union {"verify"})
  BY GotoMoves, ReturnMoves DEF ReadIntent, Moves
<1>3. ASSUME Verify(t)
      PROVE  /\ Moves(t, Failed \union {"settle", "markFailed"})
             /\ pc'[t] = "settle" => charge[Ref(t)] = "success"
  <2>1. CASE PaymentStatus(Ref(t)) = "SUCCESS"
    <3>1. charge[Ref(t)] = "success"
      BY <2>1 DEF PaymentStatus
    <3>2. Moves(t, {"settle"})
      BY <2>1, <1>3, GotoMoves DEF Verify
    <3>3. QED
      BY <3>1, <3>2 DEF Moves
  <2>2. CASE PaymentStatus(Ref(t)) = "FAILED"
    <3>1. Moves(t, {"markFailed"})
      BY <2>2, <1>3, GotoMoves DEF Verify
    <3>2. QED
      BY <3>1 DEF Moves
  <2>3. CASE PaymentStatus(Ref(t)) \notin {"SUCCESS", "FAILED"}
    <3>1. Moves(t, Failed)
      BY <2>3, <1>3, RetryLaterMoves DEF Verify
    <3>2. QED
      BY <3>1 DEF Moves
  <2>4. QED
    BY <2>1, <2>2, <2>3
<1>4. ASSUME Settle(t)
      PROVE  /\ Moves(t, Returned \union {"loadWallet", "archived",
                                          "transferExists", "markRefunding"})
             /\ pc'[t] = "loadWallet" => /\ status[Ref(t)] = "PENDING"
                                         /\ payment[Ref(t)].amount = Amount
             /\ pc'[t] = "transferExists" => status[Ref(t)] = "FAILED"
             /\ pc'[t] = "markRefunding" => status[Ref(t)] = "REFUNDING"
  <2>1. CASE status[Ref(t)] = "PENDING" /\ payment[Ref(t)].amount = Amount
    <3>1. Moves(t, {"loadWallet"})
      BY <2>1, <1>4, GotoMoves DEF Settle
    <3>2. QED
      BY <2>1, <3>1 DEF Moves
  <2>2. CASE status[Ref(t)] = "PENDING" /\ payment[Ref(t)].amount # Amount
    <3>1. Moves(t, {"archived"})
      BY <2>2, <1>4, ArchiveMoves DEF Settle
    <3>2. QED
      BY <3>1 DEF Moves
  <2>3. CASE status[Ref(t)] = "FAILED"
    <3>1. Moves(t, {"transferExists"})
      BY <2>3, <1>4, GotoMoves DEF Settle
    <3>2. QED
      BY <2>3, <3>1 DEF Moves
  <2>4. CASE status[Ref(t)] = "REFUNDING"
    <3>1. Moves(t, {"markRefunding"})
      BY <2>4, <1>4, GotoMoves DEF Settle
    <3>2. QED
      BY <2>4, <3>1 DEF Moves
  <2>5. CASE status[Ref(t)] \in {"SUCCESS", "REFUNDED"}
    <3>1. Moves(t, Returned)
      BY <2>5, <1>4, ReturnMoves DEF Settle
    <3>2. QED
      BY <3>1 DEF Moves
  <2>6. QED
    BY <1>4, <2>1, <2>2, <2>3, <2>4, <2>5 DEF Settle
<1>5. ASSUME LoadWallet(t)
      PROVE  /\ Moves(t, {"archived", "deposit"})
             /\ pc'[t] = "deposit" => payment[Ref(t)].currency = "wallet"
  <2>1. CASE Q!Archive(t)
    BY <2>1, ArchiveMoves DEF Moves
  <2>2. CASE /\ Q!Goto(t, "deposit")
             /\ payment[Ref(t)].currency = "wallet"
    BY <2>2, GotoMoves DEF Moves
  <2>3. QED
    BY <1>5, <2>1, <2>2 DEF LoadWallet
<1>6. ASSUME LookupTransfer(t)
      PROVE  /\ Moves(t, {"markSucceeded", "markRefunding"})
             /\ pc'[t] = "markSucceeded" => credited[Ref(t)] > 0
             /\ pc'[t] = "markRefunding" => ~(credited[Ref(t)] > 0)
  <2>1. CASE TransferExists(Ref(t))
    <3>1. Moves(t, {"markSucceeded"})
      BY <2>1, <1>6, GotoMoves DEF LookupTransfer
    <3>2. QED
      BY <2>1, <3>1 DEF Moves, TransferExists
  <2>2. CASE ~TransferExists(Ref(t))
    <3>1. Moves(t, {"markRefunding"})
      BY <2>2, <1>6, GotoMoves DEF LookupTransfer
    <3>2. QED
      BY <2>2, <3>1 DEF Moves, TransferExists
  <2>3. QED
    BY <2>1, <2>2
<1>7. QED
  BY <1>1, <1>2, <1>3, <1>4, <1>5, <1>6

LEMMA WriteMoves ==
  ASSUME TypeOK, NEW t \in Tasks
  PROVE  /\ Deposit(t) => Moves(t, Failed \union {"markSucceeded"})
         /\ MarkSucceeded(t) =>
              /\ Moves(t, Failed \union Returned \union {"notify"})
              /\ pc'[t] = "notify" => MarkIntentSucceeded(Ref(t))
         /\ Notify(t) => Moves(t, Returned \union Failed)
         /\ MarkRefunding(t) =>
              /\ Moves(t, Failed \union Returned \union {"refund"})
              /\ pc'[t] = "refund" => MarkIntentRefunding(Ref(t))
         /\ Refund(t) => Moves(t, Failed \union {"markRefunded"})
         /\ RefundRefused(t) => Moves(t, Failed)
         /\ MarkRefunded(t) => Moves(t, Failed \union Returned)
         /\ MarkFailed(t) => Moves(t, Failed \union Returned)
         /\ PollExhausted(t) => Moves(t, {"archived", "queued"})
<1> USE DEF Labels, Calls, Q!Parked, Returned, Failed, Answered
<1>1. Deposit(t) => Moves(t, Failed \union {"markSucceeded"})
  BY GotoMoves, FailMoves DEF Deposit, Moves
<1>2. ASSUME MarkSucceeded(t)
      PROVE  /\ Moves(t, Failed \union Returned \union {"notify"})
             /\ pc'[t] = "notify" => MarkIntentSucceeded(Ref(t))
  <2>1. CASE MarkIntentSucceeded(Ref(t)) /\ Q!Goto(t, "notify")
    BY <2>1, GotoMoves DEF Moves
  <2>2. CASE Q!Fail(t)
    BY <2>2, FailMoves DEF Moves
  <2>3. CASE ReturnNil(t)
    BY <2>3, ReturnMoves DEF Moves
  <2>4. QED
    BY <1>2, <2>1, <2>2, <2>3 DEF MarkSucceeded
<1>3. Notify(t) => Moves(t, Returned \union Failed)
  BY ReturnMoves, LeaseLostMoves DEF Notify, Moves
<1>4. ASSUME MarkRefunding(t)
      PROVE  /\ Moves(t, Failed \union Returned \union {"refund"})
             /\ pc'[t] = "refund" => MarkIntentRefunding(Ref(t))
  <2>1. CASE MarkIntentRefunding(Ref(t)) /\ Q!Goto(t, "refund")
    BY <2>1, GotoMoves DEF Moves
  <2>2. CASE Q!Fail(t)
    BY <2>2, FailMoves DEF Moves
  <2>3. CASE ReturnNil(t)
    BY <2>3, ReturnMoves DEF Moves
  <2>4. QED
    BY <1>4, <2>1, <2>2, <2>3 DEF MarkRefunding
<1>5. Refund(t) => Moves(t, Failed \union {"markRefunded"})
  BY GotoMoves, FailMoves DEF Refund, Moves
<1>6. RefundRefused(t) => Moves(t, Failed)
  BY FailMoves DEF RefundRefused
<1>7. MarkRefunded(t) => Moves(t, Failed \union Returned)
  BY FailMoves, ReturnMoves DEF MarkRefunded, Moves
<1>8. MarkFailed(t) => Moves(t, Failed \union Returned)
  BY FailMoves, ReturnMoves DEF MarkFailed, Moves
<1>9. PollExhausted(t) => Moves(t, {"archived", "queued"})
  BY HookMoves DEF PollExhausted
<1>10. QED
  BY <1>1, <1>2, <1>3, <1>4, <1>5, <1>6, <1>7, <1>8, <1>9

LEMMA QueueMoves ==
  ASSUME TypeOK, NEW t \in Tasks
  PROVE  /\ StartTask(t) =>
              /\ Moves(t, {"readIntent", "settle", "markFailed", "ignore"})
              /\ pc'[t] = "settle" => payload[t] = "SUCCESS"
         /\ CallFails(t) => Moves(t, Failed)
         /\ DepositRejected(t) => Moves(t, {"archived"})
         /\ WorkerCrash(t) => Moves(t, Failed)
         /\ CancelPoll(t) => Moves(t, {"idle"})
<1> USE DEF Labels, Calls, Q!Parked
<1>1. ASSUME StartTask(t)
      PROVE  /\ Moves(t, {"readIntent", "settle", "markFailed", "ignore"})
             /\ pc'[t] = "settle" => payload[t] = "SUCCESS"
  <2>1. CASE payload[t] = "SUCCESS" /\ Q!Start(t, "settle")
    BY <2>1, GotoMoves DEF Moves, Q!Start
  <2>2. CASE \E l \in {"readIntent", "markFailed", "ignore"} : Q!Start(t, l)
    BY <2>2, GotoMoves DEF Moves, Q!Start
  <2>3. QED
    BY <1>1, <2>1, <2>2 DEF StartTask
<1>2. CallFails(t) => Moves(t, Failed)
  BY FailMoves DEF CallFails
<1>3. DepositRejected(t) => Moves(t, {"archived"})
  BY ArchiveMoves DEF DepositRejected
<1>4. WorkerCrash(t) => Moves(t, Failed)
  BY LeaseLostMoves DEF WorkerCrash
<1>5. CancelPoll(t) => Moves(t, {"idle"})
  <2>1. ASSUME NEW S, Q!Remove({t} \union S) PROVE Moves(t, {"idle"})
    BY <2>1 DEF Q!Remove, Moves, TypeOK
  <2>2. QED
    BY <2>1, CompleteMoves DEF CancelPoll
<1>6. QED
  BY <1>1, <1>2, <1>3, <1>4, <1>5

-----------------------------------------------------------------------------
(* Type correctness.                                                       *)

(* Every task is about an intent.                                          *)
LEMMA RefInIntents == \A t \in Tasks : Ref(t) \in Intents
  BY DEF Tasks, Ref

(* Every task's step leads to a label.                                     *)
LEMMA TaskMoves ==
  ASSUME TypeOK, NEW t \in Tasks, TaskStep(t)
  PROVE  Moves(t, Labels)
<1> USE DEF Moves, Labels, Calls, Q!Parked, Failed, Returned
<1>1. CASE StartTask(t) \/ CallFails(t) \/ DepositRejected(t)
             \/ WorkerCrash(t) \/ CancelPoll(t)
  BY <1>1, QueueMoves
<1>2. CASE Ignore(t) \/ ReadIntent(t) \/ Verify(t) \/ Settle(t)
             \/ LoadWallet(t) \/ LookupTransfer(t)
  BY <1>2, ReadMoves
<1>3. CASE \/ Deposit(t) \/ MarkSucceeded(t) \/ Notify(t) \/ MarkRefunding(t)
           \/ Refund(t) \/ RefundRefused(t) \/ MarkRefunded(t)
           \/ MarkFailed(t) \/ PollExhausted(t)
  BY <1>3, WriteMoves
<1>4. QED
  BY <1>1, <1>2, <1>3 DEF TaskStep, Handler

(* The steps that only move a task leave the books alone.                  *)
Reads(t) ==
  \/ StartTask(t) \/ CallFails(t) \/ DepositRejected(t) \/ WorkerCrash(t)
  \/ CancelPoll(t) \/ Ignore(t) \/ ReadIntent(t) \/ Verify(t) \/ Settle(t)
  \/ LoadWallet(t) \/ LookupTransfer(t) \/ RefundRefused(t)

LEMMA ReadsFrame ==
  ASSUME NEW t \in Tasks, Reads(t)
  PROVE  UNCHANGED <<row, money, receipts>> /\ (Fault \/ UNCHANGED faults)
  BY DEF Reads, StartTask, CallFails, DepositRejected, WorkerCrash, CancelPoll,
         Ignore, ReadIntent, Verify, Settle, LoadWallet, LookupTransfer,
         RefundRefused, row, money

LEMMA FaultType ==
  ASSUME DataOK, Fault \/ UNCHANGED faults
  PROVE  faults' \in 0 .. MaxFaults
  BY DepositAssumption DEF DepositAssumption, DataOK, Fault

LEMMA TaskData ==
  ASSUME TypeOK, NEW t \in Tasks, TaskStep(t)
  PROVE  DataOK'
<1> USE RefInIntents, FaultType DEF TypeOK
<1>1. CASE Reads(t)
  BY <1>1, ReadsFrame DEF DataOK, row, money
<1>2. CASE MarkSucceeded(t)
  BY <1>2 DEF MarkSucceeded, MarkIntentSucceeded, Move, Answered, DataOK, row,
              money, Statuses
<1>3. CASE MarkRefunding(t)
  BY <1>3 DEF MarkRefunding, MarkIntentRefunding, Move, Answered, DataOK, row,
              money, Statuses
<1>4. CASE MarkRefunded(t)
  BY <1>4 DEF MarkRefunded, MarkIntentRefunded, Move, Answered, DataOK, row,
              money, Statuses
<1>5. CASE MarkFailed(t)
  BY <1>5 DEF MarkFailed, MarkIntentFailed, Move, Answered, DataOK, row,
              money, Statuses
<1>6. CASE PollExhausted(t)
  BY <1>6 DEF PollExhausted, MarkIntentFailed, Move, DataOK, row, money,
              Statuses
<1>7. CASE Deposit(t)
  BY <1>7, DepositAssumption
  DEF Deposit, LedgerDeposit, Answered, DataOK, row, money, DepositAssumption
<1>8. CASE Refund(t)
  BY <1>8, DepositAssumption
  DEF Refund, Answered, DataOK, row, money, DepositAssumption
<1>9. CASE Notify(t)
  BY <1>9 DEF Notify, DataOK, row, money
<1>10. QED
  BY <1>1, <1>2, <1>3, <1>4, <1>5, <1>6, <1>7, <1>8, <1>9
  DEF TaskStep, Handler, Reads

(* Type correctness: whatever the queue, the provider, the payers and the  *)
(* faults do, every variable keeps to the values its code can store.       *)
THEOREM TypeCorrect == Spec => []TypeOK
<1>1. Init => TypeOK
  BY DepositAssumption DEF Init, Q!QueueInit, TypeOK, DataOK, Statuses, Labels, Q!Parked,
         NoPayment, DepositAssumption
<1>2. TypeOK /\ [Next]_vars => TypeOK'
  <2> SUFFICES ASSUME TypeOK, [Next]_vars PROVE TypeOK'
    OBVIOUS
  <2> USE DEF TypeOK
  <2>1. CASE UNCHANGED vars
    BY <2>1 DEF vars, row, money, queue, DataOK
  <2>2. ASSUME NEW i \in Intents, Api(i) PROVE TypeOK'
    <3>1. CASE Publish(i)
      <4>1. Poll(i) \in Tasks
        BY DepositAssumption DEF Poll, Tasks, DepositAssumption
      <4>2. pc' \in [Tasks -> Labels] /\ retried' \in [Tasks -> Nat]
        BY <3>1, <4>1, GotoMoves
        DEF Publish, Q!Enqueue, Moves, Labels, Q!Parked
      <4>3. DataOK'
        BY <3>1, FaultType DEF Publish, DataOK, money
      <4>4. QED
        BY <3>1, <4>2, <4>3 DEF Publish
    <3>2. CASE CreateIntent(i)
      BY <3>2 DEF CreateIntent, DataOK, money, queue, Statuses
    <3>3. CASE Initialize(i)
      BY <3>3, FaultType DEF Initialize, DataOK, money, queue
    <3>4. CASE GiveUp(i)
      BY <3>4, FaultType DEF GiveUp, DataOK, money, queue, Statuses
    <3>5. QED
      BY <2>2, <3>1, <3>2, <3>3, <3>4 DEF Api
  <2>3. ASSUME NEW i \in Intents, ApiCrash(i) PROVE TypeOK'
    BY <2>3, FaultType DEF ApiCrash, DataOK, money, queue
  <2>4. ASSUME NEW i \in Intents, Pay(i) PROVE TypeOK'
    BY <2>4 DEF Pay, DataOK, row, queue
  <2>5. ASSUME NEW i \in Intents, PayFails(i) PROVE TypeOK'
    BY <2>5 DEF PayFails, DataOK, row, queue
  <2>6. ASSUME NEW i \in Intents, SetWalletStatus(i) PROVE TypeOK'
    BY <2>6 DEF SetWalletStatus, DataOK, money, queue
  <2>7. ASSUME NEW t \in Tasks, DeliverWebhook(t) PROVE TypeOK'
    <3>1. pc' \in [Tasks -> Labels] /\ retried' \in [Tasks -> Nat]
      BY <2>7, GotoMoves DEF DeliverWebhook, Moves, Labels, Q!Parked
    <3>2. PaymentStatus(Ref(t)) \in {"SUCCESS", "FAILED", "PENDING"}
      BY DEF PaymentStatus
    <3>3. DataOK'
      BY <2>7 DEF DeliverWebhook, DataOK, row, money
    <3>4. QED
      BY <2>7, <3>1, <3>2, <3>3 DEF DeliverWebhook
  <2>8. ASSUME NEW t \in Tasks, TaskStep(t) PROVE TypeOK'
    BY <2>8, TaskMoves, TaskData DEF TaskStep, DropPayload, Moves
  <2>9. QED
    BY <2>1, <2>2, <2>3, <2>4, <2>5, <2>6, <2>7, <2>8 DEF Next
<1>3. QED
  BY <1>1, <1>2, PTL DEF Spec

-----------------------------------------------------------------------------
(* The books, with any number of workers.                                  *)

(* What no step of a task undoes, whichever task takes it.                 *)
Keeps(t) ==
  /\ UNCHANGED <<charge, payment, api>>
  /\ \A i \in Intents :
       /\ credited[i] = Amount => credited'[i] = Amount
       /\ status[i] = "SUCCESS" => status'[i] = "SUCCESS"
       /\ status[i] \in {"REFUNDING", "REFUNDED"} =>
            status'[i] \in {"REFUNDING", "REFUNDED"}
       /\ status[i] = "NONE" <=> status'[i] = "NONE"
       /\ refunded[i] <= refunded'[i]
       /\ receipts'[i] = receipts[i] \/ (Notify(t) /\ i = Ref(t))

LEMMA TaskKeeps ==
  ASSUME TypeOK, NEW t \in Tasks, TaskStep(t)
  PROVE  Keeps(t)
<1> USE RefInIntents DEF TypeOK, DataOK, row, money, Keeps
<1>1. CASE Reads(t)
  BY <1>1, ReadsFrame
<1>2. CASE MarkSucceeded(t)
  BY <1>2 DEF MarkSucceeded, MarkIntentSucceeded, Move
<1>3. CASE MarkRefunding(t)
  BY <1>3 DEF MarkRefunding, MarkIntentRefunding, Move
<1>4. CASE MarkRefunded(t)
  BY <1>4 DEF MarkRefunded, MarkIntentRefunded, Move
<1>5. CASE MarkFailed(t)
  BY <1>5 DEF MarkFailed, MarkIntentFailed, Move
<1>6. CASE PollExhausted(t)
  BY <1>6 DEF PollExhausted, MarkIntentFailed, Move
<1>7. CASE Deposit(t)
  BY <1>7, DepositAssumption DEF Deposit, LedgerDeposit, DepositAssumption
<1>8. CASE Refund(t)
  BY <1>8, DepositAssumption DEF Refund, DepositAssumption
<1>9. CASE Notify(t)
  BY <1>9 DEF Notify
<1>10. QED
  BY <1>1, <1>2, <1>3, <1>4, <1>5, <1>6, <1>7, <1>8, <1>9
  DEF TaskStep, Handler, Reads

(* A task leaves the other tasks' payloads alone, and at most drops its    *)
(* own.                                                                    *)
LEMMA PayloadKept ==
  ASSUME TypeOK, NEW t \in Tasks, TaskStep(t), NEW u \in Tasks
  PROVE  payload'[u] = payload[u] \/ payload'[u] = "none"
  BY DEF TypeOK, TaskStep, DropPayload

(* Only a matching MarkIntentSucceeded leads to a notification.            *)
LEMMA NotifyOnce ==
  ASSUME TypeOK, NEW t \in Tasks, TaskStep(t), pc'[t] = "notify"
  PROVE  MarkSucceeded(t) /\ MarkIntentSucceeded(Ref(t))
  BY ReadMoves, WriteMoves, QueueMoves
  DEF TaskStep, Handler, Moves, Failed, Returned

(* While a task steps, what the others know stays true.                    *)
LEMMA OthersKnow ==
  ASSUME TypeOK, BooksInv, NEW t \in Tasks, TaskStep(t), NEW u \in Tasks \ {t}
  PROVE  HandlerKnows(u, Ref(u))'
<1>1. pc'[u] = pc[u] \/ pc'[u] = "idle"
  BY TaskMoves DEF Moves
<1>2. payload'[u] = payload[u] \/ payload'[u] = "none"
  BY PayloadKept
<1>3. HandlerKnows(u, Ref(u))
  BY DEF BooksInv
<1>4. Keeps(t)
  BY TaskKeeps
<1>5. ~(pc[u] = "notify" /\ Notify(t) /\ Ref(u) = Ref(t))
  BY DEF BooksInv, OneNotifier, Notify
<1>6. Ref(u) \in Intents /\ refunded[Ref(u)] \in Nat /\ refunded'[Ref(u)] \in Nat
  BY RefInIntents, TaskData DEF TypeOK, DataOK
<1>7. QED
  BY <1>1, <1>2, <1>3, <1>4, <1>5, <1>6
  DEF HandlerKnows, Keeps, Settling, IsExact

(* The task itself knows, after its step, what its next call relies on.    *)
LEMMA SelfKnows ==
  ASSUME TypeOK, BooksInv, NEW t \in Tasks, TaskStep(t)
  PROVE  HandlerKnows(t, Ref(t))'
<1> DEFINE i == Ref(t)
<1>1. Keeps(t) /\ i \in Intents /\ HandlerKnows(t, i)
  BY TaskKeeps, RefInIntents DEF BooksInv
<1>2. pc'[t] \in Settling =>
        \/ pc[t] \in Settling
        \/ payload[t] = "SUCCESS"
        \/ charge[i] = "success"
  BY ReadMoves, WriteMoves, QueueMoves
  DEF TaskStep, Handler, Moves, Failed, Returned, Settling, Settle, LoadWallet,
      LookupTransfer, Deposit, MarkSucceeded, MarkRefunding, Refund
<1>3. pc'[t] \in Settling \/ payload'[t] = "SUCCESS" => charge'[i] = "success"
  BY <1>1, <1>2, PayloadKept DEF HandlerKnows, Keeps
<1>4. pc'[t] = "loadWallet" => payment'[i].amount = Amount
  BY <1>1, ReadMoves, WriteMoves, QueueMoves
  DEF TaskStep, Handler, Moves, Failed, Returned, Keeps
<1>5. ASSUME pc'[t] = "deposit" PROVE IsExact(i)'
  <2>1. LoadWallet(t) /\ payment[i].currency = "wallet"
    BY <1>5, ReadMoves, WriteMoves, QueueMoves
    DEF TaskStep, Handler, Moves, Failed, Returned
  <2>2. payment[i].amount = Amount
    BY <1>1, <2>1 DEF LoadWallet, HandlerKnows
  <2>3. payment[i] \in [amount : Nat, currency : {"wallet", "other"}]
    BY <1>1, DepositAssumption
    DEF TypeOK, DataOK, DepositAssumption, NoPayment
  <2>4. QED
    BY <1>1, <2>1, <2>2, <2>3 DEF IsExact, Keeps
<1>6. ASSUME pc'[t] = "markSucceeded" PROVE credited'[i] = Amount
  <2>1. Deposit(t) \/ (LookupTransfer(t) /\ credited[i] > 0)
    BY <1>6, ReadMoves, WriteMoves, QueueMoves
    DEF TaskStep, Handler, Moves, Failed, Returned
  <2>2. credited[i] = 0 \/ credited[i] = Amount
    BY <1>1 DEF BooksInv, CreditIsPaid, TypeOK, DataOK
  <2>3. CASE Deposit(t)
    BY <1>1, <2>2, <2>3 DEF Deposit, LedgerDeposit, TypeOK, DataOK
  <2>4. CASE credited[i] > 0
    BY <1>1, <2>2, <2>4, DepositAssumption DEF Keeps, DepositAssumption
  <2>5. QED
    BY <2>1, <2>3, <2>4
<1>7. ASSUME pc'[t] = "notify" PROVE status'[i] = "SUCCESS" /\ receipts'[i] = 0
  <2>1. MarkSucceeded(t) /\ MarkIntentSucceeded(i)
    BY <1>7, NotifyOnce
  <2>2. receipts[i] = 0
    BY <1>1, <2>1
    DEF MarkIntentSucceeded, Move, BooksInv, OneReceipt, TypeOK, DataOK
  <2>3. QED
    BY <1>1, <2>1, <2>2
    DEF MarkSucceeded, MarkIntentSucceeded, Move, TypeOK, DataOK
<1>8. ASSUME pc'[t] \in {"refund", "markRefunded"}
      PROVE  status'[i] \in {"REFUNDING", "REFUNDED"}
  <2>1. \/ MarkRefunding(t) /\ MarkIntentRefunding(i)
        \/ Refund(t)
    BY <1>8, ReadMoves, WriteMoves, QueueMoves
    DEF TaskStep, Handler, Moves, Failed, Returned
  <2>2. CASE MarkIntentRefunding(i)
    BY <1>1, <2>2 DEF MarkIntentRefunding, Move, TypeOK, DataOK
  <2>3. CASE Refund(t)
    BY <1>1, <2>3 DEF Refund, HandlerKnows, Keeps
  <2>4. QED
    BY <2>1, <2>2, <2>3
<1>9. ASSUME pc'[t] = "markRefunded" PROVE refunded'[i] > 0
  <2>1. Refund(t)
    BY <1>9, ReadMoves, WriteMoves, QueueMoves
    DEF TaskStep, Handler, Moves, Failed, Returned
  <2>2. QED
    BY <1>1, <2>1, DepositAssumption
    DEF Refund, TypeOK, DataOK, DepositAssumption
<1>10. QED
  BY <1>3, <1>4, <1>5, <1>6, <1>7, <1>8, <1>9
  DEF HandlerKnows, IsExact, Ref

(* The books stay consistent under every step of a task.                   *)
LEMMA TaskBooks ==
  ASSUME TypeOK, BooksInv, NEW t \in Tasks, TaskStep(t)
  PROVE  BooksInv'
<1> DEFINE r == Ref(t)
<1>1. Keeps(t) /\ r \in Intents /\ HandlerKnows(t, r) /\ DataOK'
  BY TaskKeeps, RefInIntents, TaskData DEF BooksInv
<1>2. (\A u \in Tasks : HandlerKnows(u, Ref(u)))'
  BY OthersKnow, SelfKnows DEF Tasks
<1>3. OneNotifier'
  <2> SUFFICES ASSUME NEW u \in Tasks, NEW v \in Tasks, Ref(u) = Ref(v),
                      pc'[u] = "notify", pc'[v] = "notify"
               PROVE  u = v
    BY DEF OneNotifier, Ref, Tasks
  <2>1. \A w \in Tasks \ {t} : pc'[w] = "notify" => pc[w] = "notify"
    BY TaskMoves DEF Moves
  <2>2. ASSUME pc'[t] = "notify", NEW w \in Tasks \ {t}, Ref(w) = r,
               pc[w] = "notify"
        PROVE  FALSE
    BY <2>2, NotifyOnce DEF BooksInv, HandlerKnows, MarkIntentSucceeded, Move
  <2>3. QED
    BY <2>1, <2>2 DEF BooksInv, OneNotifier
<1>4. RequestFirst'
  BY <1>1 DEF Keeps, BooksInv, RequestFirst
<1>5. SuccessIsCredited'
  <2> SUFFICES ASSUME NEW i \in Intents, status'[i] = "SUCCESS",
                      status[i] # "SUCCESS"
               PROVE  credited[i] = Amount
    BY <1>1 DEF SuccessIsCredited, Keeps, BooksInv
  <2>1. MarkSucceeded(t) /\ i = r
    BY <1>1, ReadsFrame
    DEF TaskStep, Handler, Reads, row, TypeOK, DataOK, Deposit, Refund, Notify,
        MarkSucceeded, MarkIntentSucceeded, MarkRefunding, MarkIntentRefunding,
        MarkRefunded, MarkIntentRefunded, MarkFailed, MarkIntentFailed,
        PollExhausted, Move
  <2>2. QED
    BY <1>1, <2>1 DEF MarkSucceeded, HandlerKnows
<1>6. CreditIsPaid'
  <2>1. CASE Deposit(t)
    BY <1>1, <2>1, DepositAssumption
    DEF Deposit, LedgerDeposit, CreditIsPaid, BooksInv, HandlerKnows, Settling,
        IsExact, TypeOK, DataOK, DepositAssumption
  <2>2. CASE ~Deposit(t)
    <3>1. UNCHANGED credited
      BY <2>2, ReadsFrame
      DEF TaskStep, Handler, Reads, money, Refund, Notify, MarkSucceeded,
          MarkRefunding, MarkRefunded, MarkFailed, PollExhausted
    <3>2. QED
      BY <1>1, <3>1 DEF CreditIsPaid, BooksInv, Keeps
  <2>3. QED
    BY <2>1, <2>2
<1>7. RefundIsRecorded'
  <2>1. CASE Refund(t)
    BY <1>1, <2>1, DepositAssumption
    DEF Refund, row, RefundIsRecorded, BooksInv, HandlerKnows, TypeOK, DataOK,
        DepositAssumption
  <2>2. CASE MarkRefunded(t)
    BY <1>1, <2>2
    DEF MarkRefunded, MarkIntentRefunded, Move, row, money, RefundIsRecorded,
        BooksInv, HandlerKnows, TypeOK, DataOK
  <2>3. CASE ~Refund(t) /\ ~MarkRefunded(t)
    <3>1. UNCHANGED refunded
      BY <2>3, ReadsFrame
      DEF TaskStep, Handler, Reads, money, Deposit, Notify, MarkSucceeded,
          MarkRefunding, MarkFailed, PollExhausted
    <3>2. \A i \in Intents : status'[i] = "REFUNDED" => status[i] = "REFUNDED"
      BY <1>1, <2>3, ReadsFrame
      DEF TaskStep, Handler, Reads, row, TypeOK, DataOK, Deposit, Notify,
          MarkSucceeded, MarkIntentSucceeded, MarkRefunding,
          MarkIntentRefunding, MarkFailed, MarkIntentFailed, PollExhausted, Move
    <3>3. QED
      BY <1>1, <3>1, <3>2 DEF RefundIsRecorded, BooksInv, Keeps
  <2>4. QED
    BY <2>1, <2>2, <2>3
<1>8. OneReceipt'
  <2>1. CASE Notify(t)
    BY <1>1, <2>1
    DEF Notify, row, OneReceipt, BooksInv, HandlerKnows, TypeOK, DataOK
  <2>2. CASE ~Notify(t)
    BY <1>1, <2>2 DEF OneReceipt, BooksInv, Keeps
  <2>3. QED
    BY <2>1, <2>2
<1>9. QED
  BY <1>2, <1>3, <1>4, <1>5, <1>6, <1>7, <1>8 DEF BooksInv

(* The steps of the requests, the payers, the provider and the operator.   *)
LEMMA OutsideBooks ==
  ASSUME TypeOK, BooksInv,
         \/ \E i \in Intents : \/ Api(i) \/ ApiCrash(i) \/ Pay(i)
                               \/ PayFails(i) \/ SetWalletStatus(i)
         \/ \E t \in Tasks : DeliverWebhook(t)
         \/ UNCHANGED vars
  PROVE  BooksInv'
<1> USE RefInIntents DEF TypeOK, DataOK, BooksInv, HandlerKnows, OneNotifier,
        RequestFirst, SuccessIsCredited, CreditIsPaid, RefundIsRecorded,
        OneReceipt, IsExact, Settling
<1>1. CASE UNCHANGED vars
  BY <1>1 DEF vars, row, money, queue, Ref
<1>2. ASSUME NEW i \in Intents, CreateIntent(i) PROVE BooksInv'
  BY <1>2 DEF CreateIntent, money, queue, Ref
<1>3. ASSUME NEW i \in Intents, Initialize(i) PROVE BooksInv'
  BY <1>3 DEF Initialize, queue, Ref
<1>4. ASSUME NEW i \in Intents, GiveUp(i) PROVE BooksInv'
  BY <1>4 DEF GiveUp, money, queue, Ref
<1>5. ASSUME NEW i \in Intents, Publish(i) PROVE BooksInv'
  <2>1. Poll(i) \in Tasks
    BY DepositAssumption DEF Poll, Tasks, DepositAssumption
  <2>2. \A t \in Tasks : pc'[t] = pc[t] \/ pc'[t] = "queued"
    BY <1>5, <2>1 DEF Publish, Q!Enqueue, Q!Goto
  <2>3. QED
    BY <1>5, <2>2 DEF Publish, money, Ref
<1>6. ASSUME NEW i \in Intents, ApiCrash(i) PROVE BooksInv'
  BY <1>6 DEF ApiCrash, money, queue, Ref
<1>7. ASSUME NEW i \in Intents, Pay(i) PROVE BooksInv'
  BY <1>7 DEF Pay, row, queue, Ref
<1>8. ASSUME NEW i \in Intents, PayFails(i) PROVE BooksInv'
  BY <1>8 DEF PayFails, row, queue, Ref
<1>9. ASSUME NEW i \in Intents, SetWalletStatus(i) PROVE BooksInv'
  BY <1>9 DEF SetWalletStatus, money, queue, Ref
<1>10. ASSUME NEW t \in Tasks, DeliverWebhook(t) PROVE BooksInv'
  <2>1. \A u \in Tasks : pc'[u] = pc[u] \/ pc'[u] = "queued"
    BY <1>10 DEF DeliverWebhook, Q!Goto
  <2>2. \A u \in Tasks : payload'[u] = "SUCCESS" =>
                           payload[u] = "SUCCESS" \/ charge[Ref(u)] = "success"
    BY <1>10 DEF DeliverWebhook, PaymentStatus
  <2>3. QED
    BY <1>10, <2>1, <2>2 DEF DeliverWebhook, row, money, Ref
<1>11. QED
  BY <1>1, <1>2, <1>3, <1>4, <1>5, <1>6, <1>7, <1>8, <1>9, <1>10 DEF Api

(* The books are consistent for any number of workers, retries, duplicate  *)
(* webhooks and faults: BooksInv is inductive.                             *)
THEOREM BooksCorrect == Spec => []BooksInv
<1>1. Init => BooksInv
  BY DepositAssumption
  DEF Init, Q!QueueInit, BooksInv, HandlerKnows, OneNotifier, RequestFirst,
      SuccessIsCredited, CreditIsPaid, RefundIsRecorded, OneReceipt, Settling,
      DepositAssumption, Tasks, Ref
<1>2. TypeOK /\ BooksInv /\ [Next]_vars => BooksInv'
  BY TaskBooks, OutsideBooks DEF Next
<1>3. QED
  BY <1>1, <1>2, TypeCorrect, PTL DEF Spec

(* Of a deposit that reads SUCCESS, the wallet holds the full amount.      *)
THEOREM SuccessCorrect == Spec => []SuccessIsCredited
<1>1. BooksInv => SuccessIsCredited
  BY DEF BooksInv
<1>2. QED
  BY <1>1, BooksCorrect, PTL

(* A wallet is credited once, for a payment of exactly the amount.         *)
THEOREM CreditCorrect == Spec => []CreditIsPaid
<1>1. BooksInv => CreditIsPaid
  BY DEF BooksInv
<1>2. QED
  BY <1>1, BooksCorrect, PTL

(* Every refund is on record, and REFUNDED is never claimed without one.   *)
THEOREM RefundCorrect == Spec => []RefundIsRecorded
<1>1. BooksInv => RefundIsRecorded
  BY DEF BooksInv
<1>2. QED
  BY <1>1, BooksCorrect, PTL

(* At most one receipt is sent for a deposit.                              *)
THEOREM ReceiptCorrect == Spec => []OneReceipt
<1>1. BooksInv => OneReceipt
  BY DEF BooksInv
<1>2. QED
  BY <1>1, BooksCorrect, PTL

(* The transitions of an intent's status.                                  *)
Edges == \A i \in Intents : status'[i] # status[i] =>
           <<status[i], status'[i]>> \in
             {<<"NONE", "PENDING">>, <<"PENDING", "FAILED">>,
              <<"PENDING", "SUCCESS">>, <<"FAILED", "SUCCESS">>,
              <<"FAILED", "REFUNDING">>, <<"REFUNDING", "REFUNDED">>}

LEMMA TaskEdges ==
  ASSUME TypeOK, NEW t \in Tasks, TaskStep(t)
  PROVE  Edges
<1> USE RefInIntents DEF TypeOK, DataOK, Edges, row, Move
<1>1. CASE Reads(t)
  BY <1>1, ReadsFrame
<1>2. CASE MarkSucceeded(t)
  BY <1>2 DEF MarkSucceeded, MarkIntentSucceeded
<1>3. CASE MarkRefunding(t)
  BY <1>3 DEF MarkRefunding, MarkIntentRefunding
<1>4. CASE MarkRefunded(t)
  BY <1>4 DEF MarkRefunded, MarkIntentRefunded
<1>5. CASE MarkFailed(t)
  BY <1>5 DEF MarkFailed, MarkIntentFailed
<1>6. CASE PollExhausted(t)
  BY <1>6 DEF PollExhausted, MarkIntentFailed
<1>7. CASE Deposit(t) \/ Refund(t) \/ Notify(t)
  BY <1>7 DEF Deposit, Refund, Notify
<1>8. QED
  BY <1>1, <1>2, <1>3, <1>4, <1>5, <1>6, <1>7 DEF TaskStep, Handler, Reads

(* Whatever tasks, requests and faults do, an intent's status moves along  *)
(* these transitions only: SUCCESS and REFUNDED are final.                 *)
THEOREM StatusCorrect == Spec => StatusEdges
<1>1. TypeOK /\ BooksInv /\ [Next]_vars => [Edges]_status
  <2> SUFFICES ASSUME TypeOK, BooksInv, [Next]_vars PROVE Edges \/ UNCHANGED status
    OBVIOUS
  <2>1. ASSUME NEW t \in Tasks, TaskStep(t) PROVE Edges
    BY <2>1, TaskEdges
  <2>2. ASSUME NEW i \in Intents, CreateIntent(i) PROVE Edges
    BY <2>2 DEF CreateIntent, BooksInv, RequestFirst, TypeOK, DataOK, Edges
  <2>3. ASSUME NEW i \in Intents, GiveUp(i) PROVE Edges
    BY <2>3 DEF GiveUp, TypeOK, DataOK, Edges
  <2>4. ASSUME NEW i \in Intents,
               \/ Initialize(i) \/ Publish(i) \/ ApiCrash(i) \/ Pay(i)
               \/ PayFails(i) \/ SetWalletStatus(i)
        PROVE  UNCHANGED status
    BY <2>4 DEF Initialize, Publish, ApiCrash, Pay, PayFails, SetWalletStatus,
                row
  <2>5. ASSUME NEW t \in Tasks, DeliverWebhook(t) PROVE UNCHANGED status
    BY <2>5 DEF DeliverWebhook, row
  <2>6. CASE UNCHANGED vars
    BY <2>6 DEF vars, row
  <2>7. QED
    BY <2>1, <2>2, <2>3, <2>4, <2>5, <2>6 DEF Next, Api
<1>2. QED
  BY <1>1, TypeCorrect, BooksCorrect, PTL DEF Spec, StatusEdges, Edges

-----------------------------------------------------------------------------
(* A pending deposit keeps its poll, with any number of workers.           *)

LEMMA PollTask ==
  ASSUME NEW i \in Intents
  PROVE  /\ Poll(i) \in Tasks /\ Ref(Poll(i)) = i /\ IsPoll(Poll(i))
         /\ \A t \in Tasks : IsPoll(t) => t = Poll(Ref(t))
  BY DepositAssumption DEF Poll, Tasks, Ref, IsPoll, DepositAssumption

(* An attempt of the poll that failed is one of the faults.                *)
LEMMA PollFails ==
  ASSUME TypeOK, NEW t \in Tasks, IsPoll(t), retried[t] <= faults, Fault
  PROVE  /\ Q!Fail(t) =>
              /\ pc'[t] \in {"queued", "exhausted"}
              /\ retried'[t] <= faults'
              /\ pc'[t] = "exhausted" => PollMaxRetry < faults'
         /\ Q!LeaseLost(t) =>
              /\ pc'[t] \in {"queued", "archived"}
              /\ retried'[t] <= faults'
              /\ pc'[t] = "archived" => PollMaxRetry < faults'
<1>1. /\ faults' = faults + 1 /\ faults \in Nat /\ retried[t] \in Nat
      /\ PollMaxRetry \in Nat
  BY DepositAssumption DEF Fault, TypeOK, DataOK, DepositAssumption
<1>2. Q!IsFinalAttempt(t) => PollMaxRetry <= retried[t]
  BY DEF Q!IsFinalAttempt
<1>3. ASSUME Q!Goto(t, "exhausted")
      PROVE  pc'[t] = "exhausted" /\ retried'[t] = retried[t]
  BY <1>3 DEF Q!Goto, TypeOK
<1>4. ASSUME Q!Archive(t) PROVE pc'[t] = "archived" /\ retried'[t] = 0
  BY <1>4 DEF Q!Archive, TypeOK
<1>5. ASSUME Q!Requeue(t)
      PROVE  pc'[t] = "queued" /\ retried'[t] = retried[t] + 1
  BY <1>5 DEF Q!Requeue, TypeOK
<1>6. ASSUME Q!Fail(t)
      PROVE  \/ Q!IsFinalAttempt(t) /\ Q!Goto(t, "exhausted")
             \/ Q!Requeue(t)
  BY <1>6 DEF Q!Fail, Q!Exhaust
<1>7. ASSUME Q!LeaseLost(t)
      PROVE  \/ Q!IsFinalAttempt(t) /\ Q!Archive(t)
             \/ Q!Requeue(t)
  BY <1>7 DEF Q!LeaseLost
<1>8. QED
  BY <1>1, <1>2, <1>3, <1>4, <1>5, <1>6, <1>7

(* Where a step leads the poll of a deposit that still reads PENDING.      *)
Lost(i) ==
  \/ faults' > PollMaxRetry
  \/ wallet[i] = "FROZEN"
  \/ Refusals /\ pc[Poll(i)] = "deposit"
  \/ charge[i] = "success" /\ ~IsExact(i)

PollGoes(i) ==
  /\ pc'[Poll(i)] \notin {"idle", "ignore"}
  /\ pc'[Poll(i)] = "archived" => Lost(i)
  /\ retried'[Poll(i)] <= faults'
  /\ pc'[Poll(i)] = "exhausted" => PollMaxRetry < faults'
  /\ pc'[Poll(i)] = "exhaustedLater" => PollMaxRetry <= retried'[Poll(i)]

LEMMA PollStep ==
  ASSUME TypeOK, BooksInv, PollInv, NEW i \in Intents, TaskStep(Poll(i)),
         status'[i] = "PENDING"
  PROVE  PollGoes(i)
<1> DEFINE p == Poll(i)
<1>1. p \in Tasks /\ Ref(p) = i /\ IsPoll(p)
  BY PollTask
<1>2. /\ status[i] = "PENDING" /\ payload[p] = "none" /\ pc[p] # "ignore"
      /\ retried[p] <= faults
      /\ pc[p] = "exhausted" => PollMaxRetry < faults
      /\ pc[p] = "exhaustedLater" => PollMaxRetry <= retried[p]
  <2>1. status[i] \in {"NONE", "PENDING"}
    BY <1>1, TaskEdges DEF Edges
  <2>2. status[i] # "NONE"
    BY <1>1, <2>1, TaskKeeps DEF Keeps
  <2>3. QED
    BY <2>1, <2>2 DEF PollInv, Open
<1>3. HandlerKnows(p, i) /\ pc[p] \notin {"cancelPoll", "transferExists", "markRefunding"}
  BY <1>1, <1>2 DEF BooksInv, PollInv
<1>4. /\ faults \in Nat /\ retried[p] \in Nat /\ PollMaxRetry \in Nat
      /\ pc \in [Tasks -> Labels] /\ retried \in [Tasks -> Nat]
      /\ status \in [Intents -> Statuses]
  BY <1>1, DepositAssumption DEF TypeOK, DataOK, DepositAssumption
<1> HIDE DEF p
<1>5. ASSUME Q!Fail(p) \/ Q!LeaseLost(p), Fault PROVE PollGoes(i)
  BY <1>1, <1>2, <1>5, PollFails DEF PollGoes, Lost, p
<1>6. ASSUME NEW l \in Labels \ {"idle", "ignore", "exhausted",
                                 "exhaustedLater", "archived"},
             Q!Goto(p, l), UNCHANGED faults
      PROVE  PollGoes(i)
  <2>1. pc'[p] = l /\ retried'[p] = retried[p]
    BY <1>1, <1>4, <1>6 DEF Q!Goto
  <2>2. QED
    BY <1>2, <1>4, <1>6, <2>1 DEF PollGoes, p
<1>7. ASSUME Q!Archive(p), Lost(i), faults' \in {faults, faults + 1}
      PROVE PollGoes(i)
  <2>1. pc'[p] = "archived" /\ retried'[p] = 0
    BY <1>1, <1>4, <1>7 DEF Q!Archive
  <2>2. QED
    BY <1>4, <1>7, <2>1 DEF PollGoes, p
<1>8. CASE StartTask(p)
  <2>1. Q!Goto(p, "readIntent") /\ UNCHANGED faults
    BY <1>1, <1>2, <1>8 DEF StartTask, Q!Start
  <2>2. QED
    BY <1>6, <2>1 DEF Labels, Calls
<1>9. CASE CallFails(p) \/ WorkerCrash(p)
  BY <1>5, <1>9 DEF CallFails, WorkerCrash
<1>10. CASE DepositRejected(p)
  <2>1. Q!Archive(p) /\ faults' = faults + 1 /\ Lost(i)
    BY <1>10 DEF DepositRejected, Lost, Fault, p
  <2>2. QED
    BY <1>7, <2>1
<1>11. CASE ReadIntent(p)
  <2>1. Q!Goto(p, "verify") /\ UNCHANGED faults
    BY <1>1, <1>2, <1>11 DEF ReadIntent
  <2>2. QED
    BY <1>6, <2>1 DEF Labels, Calls
<1>12. CASE Verify(p)
  <2>1. UNCHANGED faults
    BY <1>12 DEF Verify
  <2>2. CASE PaymentStatus(i) \in {"SUCCESS", "FAILED"}
    <3>1. Q!Goto(p, "settle") \/ Q!Goto(p, "markFailed")
      BY <1>1, <1>12, <2>2 DEF Verify
    <3>2. QED
      BY <1>6, <2>1, <3>1 DEF Labels, Calls
  <2>3. CASE PaymentStatus(i) \notin {"SUCCESS", "FAILED"}
    <3>1. Q!RetryLater(p)
      BY <1>1, <1>12, <2>3 DEF Verify
    <3>2. CASE Q!IsFinalAttempt(p)
      <4>1. PollMaxRetry <= retried[p]
        BY <1>1, <3>2 DEF Q!IsFinalAttempt
      <4>2. pc'[p] = "exhaustedLater" /\ retried'[p] = retried[p]
        BY <1>1, <1>4, <3>1, <3>2 DEF Q!RetryLater, Q!Goto
      <4>3. QED
        BY <1>2, <2>1, <4>1, <4>2 DEF PollGoes, p
    <3>3. CASE ~Q!IsFinalAttempt(p)
      <4>1. Q!Goto(p, "queued")
        BY <3>1, <3>3 DEF Q!RetryLater
      <4>2. QED
        BY <1>6, <2>1, <4>1 DEF Labels, Q!Parked
    <3>4. QED
      BY <3>2, <3>3
  <2>4. QED
    BY <2>2, <2>3
<1>13. CASE Settle(p)
  <2>1. charge[i] = "success"
    BY <1>3, <1>13 DEF Settle, HandlerKnows, Settling
  <2>2. CASE payment[i].amount = Amount
    <3>1. Q!Goto(p, "loadWallet") /\ UNCHANGED faults
      BY <1>1, <1>2, <1>13, <2>2 DEF Settle
    <3>2. QED
      BY <1>6, <3>1 DEF Labels, Calls
  <2>3. CASE payment[i].amount # Amount
    <3>1. Q!Archive(p) /\ UNCHANGED faults
      BY <1>1, <1>2, <1>13, <2>3 DEF Settle
    <3>2. Lost(i)
      BY <2>1, <2>3 DEF Lost, IsExact
    <3>3. QED
      BY <1>7, <3>1, <3>2
  <2>4. QED
    BY <2>2, <2>3
<1>14. CASE LoadWallet(p)
  <2>1. charge[i] = "success"
    BY <1>3, <1>14 DEF LoadWallet, HandlerKnows, Settling
  <2>2. CASE payment[i].currency = "wallet" /\ wallet[i] = "ACTIVE"
    <3>1. Q!Goto(p, "deposit") /\ UNCHANGED faults
      BY <1>1, <1>14, <2>2 DEF LoadWallet
    <3>2. QED
      BY <1>6, <3>1 DEF Labels, Calls
  <2>3. CASE payment[i].currency # "wallet" \/ wallet[i] # "ACTIVE"
    <3>1. Q!Archive(p) /\ UNCHANGED faults
      BY <1>1, <1>14, <2>3 DEF LoadWallet
    <3>2. wallet[i] \in {"ACTIVE", "FROZEN"}
      BY DEF TypeOK, DataOK
    <3>3. Lost(i)
      BY <2>1, <2>3, <3>2 DEF Lost, IsExact
    <3>4. QED
      BY <1>7, <3>1, <3>3
  <2>4. QED
    BY <2>2, <2>3
<1>15. CASE Deposit(p)
  <2>1. \/ Q!Goto(p, "markSucceeded") /\ UNCHANGED faults
        \/ Q!Fail(p) /\ Fault
    BY <1>15 DEF Deposit, Answered
  <2>2. QED
    BY <1>5, <1>6, <2>1 DEF Labels, Calls
<1>16. ASSUME \/ MarkSucceeded(p) \/ MarkRefunding(p) \/ MarkRefunded(p)
              \/ MarkFailed(p) \/ Notify(p) \/ Refund(p) \/ RefundRefused(p)
              \/ LookupTransfer(p) \/ CancelPoll(p) \/ Ignore(p)
       PROVE FALSE
  <2>1. ~(MarkRefunding(p) \/ LookupTransfer(p) \/ CancelPoll(p) \/ Ignore(p))
    BY <1>2, <1>3 DEF MarkRefunding, LookupTransfer, CancelPoll, Ignore
  <2>2. ~(Notify(p) \/ Refund(p) \/ RefundRefused(p) \/ MarkRefunded(p))
    BY <1>2, <1>3 DEF Notify, Refund, RefundRefused, MarkRefunded, HandlerKnows
  <2>3. ~(MarkSucceeded(p) \/ MarkFailed(p))
    BY <1>1, <1>2, <1>4
    DEF MarkSucceeded, MarkFailed, MarkIntentSucceeded, MarkIntentFailed, Move
  <2>4. QED
    BY <1>16, <2>1, <2>2, <2>3
<1>17. CASE PollExhausted(p)
  <2>1. Fault /\ pc[p] \in {"exhausted", "exhaustedLater"}
    BY <1>1, <1>2, <1>4, <1>17 DEF PollExhausted, MarkIntentFailed, Move
  <2>2. faults' = faults + 1 /\ PollMaxRetry < faults'
    BY <1>2, <1>4, <2>1 DEF Fault
  <2>3. CASE Q!Archive(p)
    BY <1>7, <2>2, <2>3 DEF Lost
  <2>4. CASE Q!Goto(p, "queued")
    <3>1. pc'[p] = "queued" /\ retried'[p] = retried[p]
      BY <1>1, <1>4, <2>4 DEF Q!Goto
    <3>2. QED
      BY <1>2, <1>4, <2>2, <3>1 DEF PollGoes, p
  <2>5. QED
    BY <1>17, <2>3, <2>4 DEF PollExhausted, Q!HookReturns
<1>18. QED
  BY <1>8, <1>9, <1>10, <1>11, <1>12, <1>13, <1>14, <1>15, <1>16, <1>17
  DEF TaskStep, Handler, p

(* Other tasks leave the poll alone.                                       *)
LEMMA PollOthers ==
  ASSUME TypeOK, BooksInv, PollInv, NEW i \in Intents, NEW t \in Tasks,
         t # Poll(i), TaskStep(t), status'[i] \in {"NONE", "PENDING"}
  PROVE  /\ pc'[Poll(i)] = pc[Poll(i)]
         /\ retried'[Poll(i)] = retried[Poll(i)]
         /\ payload'[Poll(i)] = payload[Poll(i)]
         /\ faults <= faults'
<1> DEFINE p == Poll(i)
<1>1. p \in Tasks /\ Ref(p) = i /\ t # p
  BY PollTask
<1>2. /\ pc \in [Tasks -> Labels] /\ retried \in [Tasks -> Nat]
      /\ payload \in [Tasks -> {"none", "SUCCESS", "FAILED", "PENDING"}]
      /\ faults \in Nat
  BY DepositAssumption DEF TypeOK, DataOK, DepositAssumption
<1>3. payload'[p] = payload[p]
  BY <1>1, <1>2 DEF TaskStep, DropPayload
<1>4. faults <= faults'
  BY <1>2
  DEF TaskStep, Handler, Fault, StartTask, CallFails, DepositRejected,
      WorkerCrash, Ignore, ReadIntent, Verify, Settle, LoadWallet, Deposit,
      MarkSucceeded, Notify, LookupTransfer, MarkRefunding, Refund, Answered,
      RefundRefused, MarkRefunded, MarkFailed, CancelPoll, PollExhausted
<1> HIDE DEF p
<1>5. ASSUME \/ Q!Fail(t) \/ Q!LeaseLost(t) \/ Q!Archive(t) \/ Q!Complete(t)
             \/ Q!RetryLater(t) \/ Q!HookReturns(t) \/ ReturnNil(t)
             \/ \E l \in Labels : Q!Goto(t, l) \/ Q!Start(t, l)
      PROVE  pc'[p] = pc[p] /\ retried'[p] = retried[p]
  BY <1>1, <1>2, <1>5
  DEF Q!Fail, Q!Exhaust, Q!Requeue, Q!LeaseLost, Q!Archive, Q!Complete,
      Q!Remove, Q!RetryLater, Q!HookReturns, Q!Goto, Q!Start, ReturnNil
<1>6. CASE CancelPoll(t)
  <2>1. Ref(t) # i
    <3>1. status[Ref(t)] \notin {"NONE", "PENDING"}
      BY <1>6 DEF CancelPoll, PollInv
    <3>2. Ref(t) \in Intents /\ Edges
      BY RefInIntents, TaskEdges
    <3>3. QED
      BY <3>1, <3>2 DEF Edges
  <2>2. p # Poll(Ref(t))
    BY <2>1 DEF Poll, p
  <2>3. QED
    BY <1>1, <1>2, <1>3, <1>4, <1>6, <2>2
    DEF CancelPoll, Q!Remove, Q!Complete, p
<1>7. CASE ~CancelPoll(t)
  <2>1. \/ Q!Fail(t) \/ Q!LeaseLost(t) \/ Q!Archive(t) \/ Q!Complete(t)
        \/ Q!RetryLater(t) \/ Q!HookReturns(t) \/ ReturnNil(t)
        \/ \E l \in Labels : Q!Goto(t, l) \/ Q!Start(t, l)
    BY <1>7
    DEF TaskStep, Handler, Labels, Calls, StartTask, CallFails, DepositRejected,
        WorkerCrash, Ignore, ReadIntent, Verify, Settle, LoadWallet, Deposit,
        MarkSucceeded, Notify, LookupTransfer, MarkRefunding, Refund, Answered,
        RefundRefused, MarkRefunded, MarkFailed, PollExhausted
  <2>2. QED
    BY <1>3, <1>4, <1>5, <2>1 DEF p
<1>8. QED
  BY <1>6, <1>7

(* A task that is about to remove a poll, or treats its intent as failed,  *)
(* saw it leave PENDING, and that is for good.                             *)
LEMMA TaskClosed ==
  ASSUME TypeOK, BooksInv, PollInv, NEW t \in Tasks, TaskStep(t),
         NEW u \in Tasks
  PROVE  /\ status'[Ref(u)] = "NONE" => pc'[u] = "idle"
         /\ pc'[u] \in {"cancelPoll", "transferExists", "markRefunding"} =>
              status'[Ref(u)] # "PENDING"
<1>1. /\ Ref(u) \in Intents /\ Ref(t) \in Intents /\ Keeps(t) /\ Edges
      /\ status \in [Intents -> Statuses]
  BY RefInIntents, TaskKeeps, TaskEdges DEF TypeOK, DataOK
<1>2. pc[t] # "idle"
  BY DEF TaskStep, Handler, StartTask, Q!Start, CallFails, DepositRejected,
         WorkerCrash, Q!LeaseLost, Q!Active, Q!Parked, Calls, Ignore,
         ReadIntent, Verify, Settle, LoadWallet, Deposit, MarkSucceeded,
         Notify, LookupTransfer, MarkRefunding, Refund, RefundRefused,
         MarkRefunded, MarkFailed, CancelPoll, PollExhausted
<1>3. status[Ref(t)] # "NONE"
  BY <1>2 DEF PollInv
<1>4. CASE u # t
  <2>1. pc'[u] = pc[u] \/ pc'[u] = "idle"
    BY <1>4, TaskMoves DEF Moves
  <2>2. /\ status'[Ref(u)] = "NONE" <=> status[Ref(u)] = "NONE"
        /\ status'[Ref(u)] = "PENDING" => status[Ref(u)] \in {"NONE", "PENDING"}
    BY <1>1 DEF Keeps, Edges
  <2>3. QED
    BY <2>1, <2>2 DEF PollInv
<1>5. CASE u = t
  <2>1. status'[Ref(u)] # "NONE"
    BY <1>1, <1>3, <1>5 DEF Keeps
  <2>2. ASSUME pc'[t] \in {"cancelPoll", "transferExists", "markRefunding"},
               status'[Ref(t)] = "PENDING"
        PROVE  FALSE
    <3>1. status[Ref(t)] = "PENDING"
      BY <1>1, <1>3, <2>2 DEF Edges
    <3>2. /\ HandlerKnows(t, Ref(t))
          /\ pc[t] \notin {"cancelPoll", "transferExists", "markRefunding"}
      BY <3>1 DEF BooksInv, PollInv
    <3>3. \/ ReadIntent(t) \/ Settle(t) \/ MarkSucceeded(t) \/ MarkFailed(t)
          \/ Notify(t) \/ MarkRefunded(t)
      <4>1. pc'[t] \notin Failed \union {"idle", "settle", "markFailed"}
        BY <2>2 DEF Failed
      <4>2. QED
        BY <2>2, <3>2, ReadMoves, WriteMoves, QueueMoves
        DEF TaskStep, Handler, Moves, Failed, Returned, LookupTransfer,
            MarkRefunding
    <3>4. ~(Notify(t) \/ MarkRefunded(t))
      BY <3>1, <3>2 DEF Notify, MarkRefunded, HandlerKnows
    <3>5. ~(MarkSucceeded(t) \/ MarkFailed(t))
      BY <1>1, <2>2, <3>1
      DEF MarkSucceeded, MarkFailed, MarkIntentSucceeded, MarkIntentFailed,
          Move
    <3>6. ASSUME ReadIntent(t) PROVE FALSE
      <4>1. Q!Goto(t, "verify")
        BY <3>1, <3>6 DEF ReadIntent
      <4>2. pc'[t] = "verify"
        BY <4>1 DEF Q!Goto, TypeOK
      <4>3. QED
        BY <2>2, <4>2
    <3>7. ASSUME Settle(t) PROVE FALSE
      <4>1. Q!Goto(t, "loadWallet") \/ Q!Archive(t)
        BY <3>1, <3>7 DEF Settle
      <4>2. pc'[t] \in {"loadWallet", "archived"}
        BY <4>1 DEF Q!Goto, Q!Archive, TypeOK
      <4>3. QED
        BY <2>2, <4>2
    <3>8. QED
      BY <3>3, <3>4, <3>5, <3>6, <3>7
  <2>3. QED
    BY <1>5, <2>1, <2>2
<1>6. QED
  BY <1>4, <1>5

LEMMA TaskPoll ==
  ASSUME TypeOK, BooksInv, PollInv, NEW t \in Tasks, TaskStep(t)
  PROVE  PollInv'
<1>1. ASSUME NEW i \in Intents
      PROVE  /\ payload'[Poll(i)] = "none" /\ pc'[Poll(i)] # "ignore"
             /\ status'[i] = "NONE" => charge'[i] = "unknown"
             /\ status'[i] \in {"NONE", "PENDING"} =>
                  /\ retried'[Poll(i)] <= faults'
                  /\ pc'[Poll(i)] = "exhausted" => PollMaxRetry < faults'
                  /\ pc'[Poll(i)] = "exhaustedLater" =>
                       PollMaxRetry <= retried'[Poll(i)]
  <2>1. Poll(i) \in Tasks /\ Ref(Poll(i)) = i /\ IsPoll(Poll(i))
    BY PollTask
  <2>2. payload[Poll(i)] = "none" /\ pc[Poll(i)] # "ignore"
    BY DEF PollInv
  <2>3. payload'[Poll(i)] = "none"
    BY <2>1, <2>2, PayloadKept
  <2>4. pc'[Poll(i)] # "ignore"
    <3>1. CASE t # Poll(i)
      BY <2>1, <2>2, <3>1, TaskMoves DEF Moves
    <3>2. CASE t = Poll(i) /\ ~StartTask(t)
      BY <3>2, ReadMoves, WriteMoves, QueueMoves
      DEF TaskStep, Handler, Moves, Failed, Returned
    <3>3. CASE t = Poll(i) /\ StartTask(t)
      <4>1. Q!Start(t, "readIntent")
        BY <2>2, <3>3 DEF StartTask
      <4>2. QED
        BY <2>1, <3>3, <4>1 DEF Q!Start, Q!Goto, TypeOK
    <3>4. QED
      BY <3>1, <3>2, <3>3
  <2>5. status'[i] = "NONE" => status[i] = "NONE" /\ charge'[i] = "unknown"
    BY TaskKeeps DEF Keeps, PollInv
  <2>6. ASSUME status'[i] \in {"NONE", "PENDING"}
        PROVE  /\ retried'[Poll(i)] <= faults'
               /\ pc'[Poll(i)] = "exhausted" => PollMaxRetry < faults'
               /\ pc'[Poll(i)] = "exhaustedLater" =>
                    PollMaxRetry <= retried'[Poll(i)]
    <3>1. CASE t = Poll(i)
      <4>1. status'[i] # "NONE"
        <5>1. pc'[t] = "idle" => status'[i] = "PENDING"
          <6>1. status[i] # "NONE"
            BY <2>1, <3>1
            DEF PollInv, TaskStep, Handler, StartTask, Q!Start, CallFails,
                DepositRejected, WorkerCrash, Q!LeaseLost, Q!Active, Q!Parked,
                Calls, Ignore, ReadIntent, Verify, Settle, LoadWallet, Deposit,
                MarkSucceeded, Notify, LookupTransfer, MarkRefunding, Refund,
                RefundRefused, MarkRefunded, MarkFailed, CancelPoll,
                PollExhausted
          <6>2. QED
            BY <2>5, <2>6, <6>1
        <5>2. QED
          BY <2>1, <3>1, <5>1, TaskClosed
      <4>2. PollGoes(i)
        BY <2>6, <3>1, <4>1, PollStep
      <4>3. QED
        BY <4>2 DEF PollGoes
    <3>2. CASE t # Poll(i)
      <4>1. /\ pc'[Poll(i)] = pc[Poll(i)]
            /\ retried'[Poll(i)] = retried[Poll(i)]
            /\ faults <= faults'
        BY <2>6, <3>2, PollOthers
      <4>2. Open(i)
        BY <2>6, TaskEdges DEF Edges, Open
      <4>3. /\ retried[Poll(i)] <= faults
            /\ pc[Poll(i)] = "exhausted" => PollMaxRetry < faults
            /\ pc[Poll(i)] = "exhaustedLater" => PollMaxRetry <= retried[Poll(i)]
        BY <4>2 DEF PollInv
      <4>4. /\ retried[Poll(i)] \in Nat /\ faults \in Nat /\ faults' \in Nat
            /\ PollMaxRetry \in Nat
        BY <2>1, TaskData, DepositAssumption
        DEF TypeOK, DataOK, DepositAssumption
      <4>5. QED
        BY <4>1, <4>3, <4>4
    <3>3. QED
      BY <3>1, <3>2
  <2>7. QED
    BY <2>3, <2>4, <2>5, <2>6
<1>2. QED
  BY <1>1, TaskClosed DEF PollInv, Open, Poll, Ref, Tasks

(* The steps of the requests, the payers, the provider and the operator.   *)
LEMMA OutsidePoll ==
  ASSUME TypeOK, BooksInv, PollInv,
         \/ \E i \in Intents : \/ Api(i) \/ ApiCrash(i) \/ Pay(i)
                               \/ PayFails(i) \/ SetWalletStatus(i)
         \/ \E t \in Tasks : DeliverWebhook(t)
         \/ UNCHANGED vars
  PROVE  PollInv' /\ \A i \in Intents :
                       pc[Poll(i)] \notin {"idle", "archived"} =>
                         pc'[Poll(i)] = pc[Poll(i)]
<1>1. /\ \A i \in Intents : Poll(i) \in Tasks /\ Ref(Poll(i)) = i
      /\ \A t \in Tasks : Ref(t) \in Intents
      /\ \A t \in Tasks : IsPoll(t) => t = Poll(Ref(t))
      /\ \A i \in Intents : api[i] = "new" <=> status[i] = "NONE"
      /\ faults \in Nat /\ PollMaxRetry \in Nat /\ retried \in [Tasks -> Nat]
  BY PollTask, RefInIntents, DepositAssumption
  DEF BooksInv, RequestFirst, TypeOK, DataOK, DepositAssumption
<1>2. ASSUME Fault \/ UNCHANGED faults PROVE faults' \in Nat /\ faults <= faults'
  BY <1>1, <1>2 DEF Fault
<1> DEFINE Calm == \A i \in Intents : pc[Poll(i)] \notin {"idle", "archived"} =>
                                        pc'[Poll(i)] = pc[Poll(i)]
<1>3. ASSUME UNCHANGED <<pc, retried, payload>>, Fault \/ UNCHANGED faults,
             \A i \in Intents :
               /\ status'[i] = "NONE" => status[i] = "NONE"
               /\ status'[i] = "PENDING" => status[i] \in {"NONE", "PENDING"}
               /\ status[i] = "NONE" => charge'[i] = charge[i]
      PROVE  PollInv' /\ Calm
  <2>1. faults' \in Nat /\ faults <= faults'
    BY <1>2, <1>3
  <2>2. ASSUME NEW i \in Intents
        PROVE  /\ payload'[Poll(i)] = "none" /\ pc'[Poll(i)] # "ignore"
               /\ status'[i] = "NONE" => charge'[i] = "unknown"
               /\ status'[i] \in {"NONE", "PENDING"} =>
                    /\ retried'[Poll(i)] <= faults'
                    /\ pc'[Poll(i)] = "exhausted" => PollMaxRetry < faults'
                    /\ pc'[Poll(i)] = "exhaustedLater" =>
                         PollMaxRetry <= retried'[Poll(i)]
    <3>1. retried[Poll(i)] \in Nat
      BY <1>1
    <3>2. QED
      BY <1>1, <1>3, <2>1, <3>1 DEF PollInv, Open
  <2>3. ASSUME NEW t \in Tasks
        PROVE  /\ status'[Ref(t)] = "NONE" => pc'[t] = "idle"
               /\ pc'[t] \in {"cancelPoll", "transferExists", "markRefunding"}
                    => status'[Ref(t)] # "PENDING"
    BY <1>1, <1>3 DEF PollInv
  <2>4. QED
    BY <1>3, <2>2, <2>3 DEF PollInv, Open, Poll, Ref, Tasks
<1>4. ASSUME NEW i \in Intents,
             \/ CreateIntent(i) \/ Initialize(i) \/ GiveUp(i) \/ ApiCrash(i)
             \/ Pay(i) \/ PayFails(i) \/ SetWalletStatus(i)
      PROVE  PollInv' /\ Calm
  <2>1. UNCHANGED <<pc, retried, payload>> /\ (Fault \/ UNCHANGED faults)
    BY <1>4 DEF CreateIntent, Initialize, GiveUp, ApiCrash, Pay, PayFails,
                SetWalletStatus, queue
  <2>2. ASSUME NEW j \in Intents
        PROVE  /\ status'[j] = "NONE" => status[j] = "NONE"
               /\ status'[j] = "PENDING" => status[j] \in {"NONE", "PENDING"}
    BY <1>1, <1>4
    DEF CreateIntent, Initialize, GiveUp, ApiCrash, Pay, PayFails,
        SetWalletStatus, row, TypeOK, DataOK
  <2>3. ASSUME NEW j \in Intents, status[j] = "NONE"
        PROVE  charge'[j] = charge[j]
    <3>1. api[j] = "new" /\ charge[j] = "unknown"
      BY <1>1, <2>3 DEF PollInv
    <3>2. QED
      BY <1>4, <3>1
      DEF CreateIntent, Initialize, GiveUp, ApiCrash, Pay, PayFails,
          SetWalletStatus, money, TypeOK, DataOK
  <2>4. QED
    BY <1>3, <2>1, <2>2, <2>3
<1>5. CASE UNCHANGED vars
  <2>1. UNCHANGED <<pc, retried, payload, faults, status, charge>>
    BY <1>5 DEF vars, row, money, queue
  <2>2. QED
    BY <1>3, <2>1
<1>6. ASSUME NEW t \in Tasks, status[Ref(t)] # "NONE", Q!Goto(t, "queued"),
             pc[t] \in {"idle", "archived"}, UNCHANGED <<status, charge>>,
             \A i \in Intents : payload'[Poll(i)] = payload[Poll(i)],
             Fault \/ UNCHANGED faults
      PROVE  PollInv' /\ Calm
  <2>1. faults' \in Nat /\ faults <= faults'
    BY <1>2, <1>6
  <2>2. /\ retried' = retried /\ pc'[t] = "queued"
        /\ \A u \in Tasks \ {t} : pc'[u] = pc[u]
    BY <1>6 DEF Q!Goto, TypeOK
  <2>3. ASSUME NEW i \in Intents
        PROVE  /\ payload'[Poll(i)] = "none" /\ pc'[Poll(i)] # "ignore"
               /\ status'[i] = "NONE" => charge'[i] = "unknown"
               /\ status'[i] \in {"NONE", "PENDING"} =>
                    /\ retried'[Poll(i)] <= faults'
                    /\ pc'[Poll(i)] = "exhausted" => PollMaxRetry < faults'
                    /\ pc'[Poll(i)] = "exhaustedLater" =>
                         PollMaxRetry <= retried'[Poll(i)]
    <3>1. retried[Poll(i)] \in Nat
      BY <1>1
    <3>2. pc'[Poll(i)] = pc[Poll(i)] \/ pc'[Poll(i)] = "queued"
      BY <1>1, <2>2
    <3>3. QED
      BY <1>1, <1>6, <2>1, <2>2, <3>1, <3>2 DEF PollInv, Open
  <2>4. ASSUME NEW u \in Tasks
        PROVE  /\ status'[Ref(u)] = "NONE" => pc'[u] = "idle"
               /\ pc'[u] \in {"cancelPoll", "transferExists", "markRefunding"}
                    => status'[Ref(u)] # "PENDING"
    BY <1>6, <2>2 DEF PollInv
  <2>5. Calm
    BY <1>1, <1>6, <2>2
  <2>6. QED
    BY <2>3, <2>4, <2>5 DEF PollInv, Open, Poll, Ref, Tasks
<1>7. ASSUME NEW i \in Intents, Publish(i) PROVE PollInv' /\ Calm
  <2>1. status[i] # "NONE" /\ UNCHANGED <<status, charge, payload>>
    BY <1>1, <1>7 DEF Publish, money
  <2>2. CASE UNCHANGED <<pc, retried>>
    BY <1>3, <1>7, <2>1, <2>2 DEF Publish
  <2>3. CASE Q!Goto(Poll(i), "queued") /\ pc[Poll(i)] = "idle" /\ UNCHANGED faults
    BY <1>1, <1>6, <2>1, <2>3
  <2>4. QED
    BY <1>7, <2>2, <2>3 DEF Publish, Q!Enqueue
<1>8. ASSUME NEW t \in Tasks, DeliverWebhook(t) PROVE PollInv' /\ Calm
  <2>1. /\ status[Ref(t)] # "NONE" /\ Q!Goto(t, "queued")
        /\ pc[t] \in {"idle", "archived"} /\ UNCHANGED <<status, charge, faults>>
    BY <1>1, <1>8 DEF DeliverWebhook, PollInv, row, money
  <2>2. ASSUME NEW i \in Intents PROVE payload'[Poll(i)] = payload[Poll(i)]
    <3>1. t # Poll(i)
      BY <1>8, PollTask DEF DeliverWebhook
    <3>2. QED
      BY <1>1, <1>8, <3>1 DEF DeliverWebhook, TypeOK
  <2>3. QED
    BY <1>6, <2>1, <2>2
<1>9. QED
  BY <1>4, <1>5, <1>7, <1>8 DEF Api

(* What keeps the poll holds for any number of workers, retries, duplicate *)
(* webhooks and faults: PollInv is inductive.                              *)
THEOREM PollCorrect == Spec => []PollInv
<1>1. Init => PollInv
  BY PollTask, RefInIntents, DepositAssumption
  DEF Init, Q!QueueInit, PollInv, Open, DepositAssumption
<1>2. TypeOK /\ BooksInv /\ PollInv /\ [Next]_vars => PollInv'
  BY TaskPoll, OutsidePoll DEF Next
<1>3. QED
  BY <1>1, <1>2, TypeCorrect, BooksCorrect, PTL DEF Spec

(* PollIsKept as a step. *)
Kept == \A i \in Intents :
          status'[i] = "PENDING" /\ pc[Poll(i)] \notin {"idle", "archived"} =>
            /\ pc'[Poll(i)] # "idle"
            /\ pc'[Poll(i)] = "archived" =>
                 \/ faults' > PollMaxRetry
                 \/ wallet[i] = "FROZEN"
                 \/ Refusals /\ pc[Poll(i)] = "deposit"
                 \/ charge[i] = "success" /\ ~IsExact(i)

(* The poll of a pending deposit is dropped only when its retries are used *)
(* up or the deposit cannot be credited: no webhook, no handler and no     *)
(* hook that runs at the same time takes it away.                          *)
THEOREM PollKept == Spec => PollIsKept
<1>1. TypeOK /\ BooksInv /\ PollInv /\ [Next]_vars => [Kept]_vars
  <2> SUFFICES ASSUME TypeOK, BooksInv, PollInv, [Next]_vars,
                      NEW i \in Intents, status'[i] = "PENDING",
                      pc[Poll(i)] \notin {"idle", "archived"}
               PROVE  /\ pc'[Poll(i)] # "idle"
                      /\ pc'[Poll(i)] = "archived" => Lost(i)
    BY DEF Kept, Lost
  <2>1. CASE TaskStep(Poll(i))
    BY <2>1, PollStep DEF PollGoes
  <2>2. ASSUME NEW t \in Tasks, t # Poll(i), TaskStep(t)
        PROVE  pc'[Poll(i)] = pc[Poll(i)]
    BY <2>2, PollOthers
  <2>3. ASSUME ~\E t \in Tasks : TaskStep(t)
        PROVE  pc'[Poll(i)] = pc[Poll(i)]
    BY <2>3, OutsidePoll DEF Next
  <2>4. QED
    BY <2>1, <2>2, <2>3
<1>2. QED
  BY <1>1, TypeCorrect, BooksCorrect, PollCorrect, PTL
  DEF Spec, PollIsKept, Kept

-----------------------------------------------------------------------------
(* A repeated refund, as long as no payer is charged two times the amount. *)

RefundUnit == \A i \in Intents : refunded[i] \in {0, Amount}

(* The provider refuses to pay back more than it charged, so a refund that *)
(* is repeated happens once, unless a payer was charged at least twice the *)
(* amount: DepositPromise, which pays back once, assumes that none was.    *)
LEMMA RefundUnitCorrect ==
  ASSUME \A p \in Payments : p.amount < 2 * Amount
  PROVE  Spec => []RefundUnit
<1>1. Init => RefundUnit
  BY DEF Init, RefundUnit
<1>2. TypeOK /\ RefundUnit /\ [Next]_vars => RefundUnit'
  <2> SUFFICES ASSUME TypeOK, RefundUnit, [Next]_vars PROVE RefundUnit'
    OBVIOUS
  <2>1. ASSUME NEW t \in Tasks, Refund(t) PROVE RefundUnit'
    <3>1. Ref(t) \in Intents
      BY RefInIntents
    <3>2. payment[Ref(t)].amount < 2 * Amount
      BY <3>1, DepositAssumption
      DEF TypeOK, DataOK, NoPayment, DepositAssumption
    <3>3. payment[Ref(t)].amount \in Nat
      BY <3>1, DepositAssumption
      DEF TypeOK, DataOK, NoPayment, DepositAssumption
    <3>4. refunded[Ref(t)] = 0
      BY <2>1, <3>1, <3>2, <3>3, DepositAssumption
      DEF Refund, CanRefund, RefundUnit, DepositAssumption
    <3>5. QED
      BY <2>1, <3>1, <3>4, DepositAssumption
      DEF Refund, RefundUnit, TypeOK, DataOK, DepositAssumption
  <2>2. ASSUME NEW t \in Tasks, TaskStep(t), ~Refund(t)
        PROVE  UNCHANGED refunded
    BY <2>2, ReadsFrame
    DEF TaskStep, Handler, Reads, money, Deposit, Notify, MarkSucceeded,
        MarkRefunding, MarkRefunded, MarkFailed, PollExhausted
  <2>3. ASSUME NEW i \in Intents,
               \/ Api(i) \/ ApiCrash(i) \/ Pay(i) \/ PayFails(i)
               \/ SetWalletStatus(i)
        PROVE  UNCHANGED refunded
    BY <2>3 DEF Api, CreateIntent, Initialize, GiveUp, Publish, ApiCrash, Pay,
                PayFails, SetWalletStatus, money
  <2>4. ASSUME NEW t \in Tasks, DeliverWebhook(t) PROVE UNCHANGED refunded
    BY <2>4 DEF DeliverWebhook, money
  <2>5. UNCHANGED vars => UNCHANGED refunded
    BY DEF vars, money
  <2>6. QED
    BY <2>1, <2>2, <2>3, <2>4, <2>5 DEF Next, RefundUnit
<1>3. QED
  BY <1>1, <1>2, TypeCorrect, PTL DEF Spec

-----------------------------------------------------------------------------
(* When the server runs one handler at a time, a deposit is never both     *)
(* credited and refunded, and the pipeline implements DepositPromise.      *)
(* With more workers both are false.                                       *)

(* Only an active task steps, except that a queued one may be started, and *)
(* it is started only when no other runs.                                  *)
LEMMA TasksFinite == IsFiniteSet(Tasks)
<1>1. IsFiniteSet(0 .. MaxHooks)
  BY DepositAssumption, FS_Interval DEF DepositAssumption
<1>2. QED
  BY <1>1, DepositAssumption, FS_Product DEF Tasks, DepositAssumption

LEMMA StartAlone ==
  ASSUME Concurrency = 1, TypeOK, NEW t \in Tasks, StartTask(t)
  PROVE  \A u \in Tasks : ~Q!Active(u)
<1> DEFINE busy == {u \in Tasks : Q!Active(u)}
<1>1. IsFiniteSet(busy)
  BY TasksFinite, FS_Subset
<1>2. Cardinality(busy) < 1
  BY DEF StartTask, WorkerFree
<1>3. Cardinality(busy) \in Nat
  BY <1>1, FS_CardinalityType
<1>4. busy = {}
  BY <1>1, <1>2, <1>3, FS_EmptySet
<1>5. QED
  BY <1>4

LEMMA StepActive ==
  ASSUME TypeOK, NEW t \in Tasks, TaskStep(t), ~StartTask(t)
  PROVE  Q!Active(t)
  BY DEF TaskStep, Handler, Q!Active, Q!Parked, Calls, CallFails,
         DepositRejected, WorkerCrash, Q!LeaseLost, Ignore, ReadIntent, Verify,
         Settle, LoadWallet, Deposit, MarkSucceeded, Notify, LookupTransfer,
         MarkRefunding, Refund, RefundRefused, MarkRefunded, MarkFailed,
         CancelPoll, PollExhausted

(* While a task steps, every other one is parked, and stays so.            *)
LEMMA OthersParked ==
  ASSUME Concurrency = 1, TypeOK, SerialInv, NEW t \in Tasks, TaskStep(t),
         NEW u \in Tasks \ {t}
  PROVE  ~Q!Active(u) /\ pc'[u] \in Q!Parked
<1>1. ~Q!Active(u)
  BY StartAlone, StepActive DEF SerialInv
<1>2. pc'[u] = pc[u] \/ pc'[u] = "idle"
  BY TaskMoves DEF Moves
<1>3. QED
  BY <1>1, <1>2 DEF Q!Active, Q!Parked

(* What the task read still holds at its next call.                        *)
LEMMA SelfSerial ==
  ASSUME TypeOK, BooksInv, SerialInv, NEW t \in Tasks, TaskStep(t)
  PROVE  SerialKnows(t, Ref(t))'
<1> DEFINE i == Ref(t)
<1>1. i \in Intents /\ SerialKnows(t, i) /\ HandlerKnows(t, i)
  BY RefInIntents DEF SerialInv, BooksInv
<1>2. ASSUME pc'[t] \in {"loadWallet", "deposit"}
      PROVE  status'[i] = "PENDING"
  <2>1. \/ Settle(t) /\ status[i] = "PENDING"
        \/ LoadWallet(t)
    BY <1>2, ReadMoves, WriteMoves, QueueMoves
    DEF TaskStep, Handler, Moves, Failed, Returned
  <2>2. QED
    BY <1>1, <2>1 DEF Settle, LoadWallet, SerialKnows, row
<1>3. ASSUME pc'[t] = "markSucceeded"
      PROVE  status'[i] \in {"PENDING", "FAILED"}
  <2>1. Deposit(t) \/ LookupTransfer(t)
    BY <1>3, ReadMoves, WriteMoves, QueueMoves
    DEF TaskStep, Handler, Moves, Failed, Returned
  <2>2. QED
    BY <1>1, <2>1 DEF Deposit, LookupTransfer, SerialKnows, row
<1>4. ASSUME pc'[t] = "transferExists" PROVE status'[i] = "FAILED"
  <2>1. Settle(t) /\ status[i] = "FAILED"
    BY <1>4, ReadMoves, WriteMoves, QueueMoves
    DEF TaskStep, Handler, Moves, Failed, Returned
  <2>2. QED
    BY <2>1 DEF Settle, row
<1>5. ASSUME pc'[t] \in {"markRefunding", "refund", "markRefunded"}
      PROVE  credited'[i] = 0
  <2>1. \/ Settle(t) /\ status[i] = "REFUNDING"
        \/ LookupTransfer(t) /\ ~(credited[i] > 0)
        \/ MarkRefunding(t)
        \/ Refund(t)
    BY <1>5, ReadMoves, WriteMoves, QueueMoves
    DEF TaskStep, Handler, Moves, Failed, Returned
  <2>2. credited[i] = 0
    BY <1>1, <2>1
    DEF LookupTransfer, MarkRefunding, Refund, SerialKnows, SerialInv, TypeOK,
        DataOK
  <2>3. QED
    BY <2>1, <2>2 DEF Settle, LookupTransfer, MarkRefunding, Refund, money
<1>6. QED
  BY <1>2, <1>3, <1>4, <1>5 DEF SerialKnows, Ref

LEMMA TaskSerial ==
  ASSUME Concurrency = 1, TypeOK, BooksInv, SerialInv,
         NEW t \in Tasks, TaskStep(t)
  PROVE  SerialInv'
<1> DEFINE r == Ref(t)
<1>1. /\ r \in Intents
      /\ SerialKnows(t, r)
      /\ HandlerKnows(t, r)
      /\ Keeps(t)
      /\ DataOK'
  BY RefInIntents, TaskKeeps, TaskData DEF SerialInv, BooksInv
<1>2. (\A u, v \in Tasks : Q!Active(u) /\ Q!Active(v) => u = v)'
  BY OthersParked DEF Q!Active, Tasks
<1>3. (\A u \in Tasks : SerialKnows(u, Ref(u)))'
  <2>1. ASSUME NEW u \in Tasks \ {t} PROVE SerialKnows(u, Ref(u))'
    BY OthersParked DEF SerialKnows, Q!Parked
  <2>2. QED
    BY <2>1, SelfSerial DEF Tasks
<1>4. \A i \in Intents :
        status'[i] \in {"REFUNDING", "REFUNDED"} => credited'[i] = 0
  <2>1. CASE Deposit(t)
    BY <1>1, <2>1 DEF Deposit, LedgerDeposit, row, SerialKnows, SerialInv,
                      TypeOK, DataOK
  <2>2. CASE MarkRefunding(t)
    BY <1>1, <2>2
    DEF MarkRefunding, MarkIntentRefunding, Move, row, money, SerialKnows,
        SerialInv, TypeOK, DataOK
  <2>3. CASE ~Deposit(t) /\ ~MarkRefunding(t)
    <3>1. UNCHANGED credited
      BY <2>3, ReadsFrame
      DEF TaskStep, Handler, Reads, money, Refund, Notify, MarkSucceeded,
          MarkRefunded, MarkFailed, PollExhausted
    <3>2. \A i \in Intents : status'[i] \in {"REFUNDING", "REFUNDED"} =>
                               status[i] \in {"REFUNDING", "REFUNDED"}
      BY <1>1, <2>3, ReadsFrame
      DEF TaskStep, Handler, Reads, row, TypeOK, DataOK, Refund, Notify, Move,
          MarkSucceeded, MarkIntentSucceeded, MarkRefunded, MarkIntentRefunded,
          MarkFailed, MarkIntentFailed, PollExhausted
    <3>3. QED
      BY <3>1, <3>2 DEF SerialInv
  <2>4. QED
    BY <2>1, <2>2, <2>3
<1>5. \A i \in Intents : refunded'[i] <= payment'[i].amount
  <2>1. CASE Refund(t)
    BY <1>1, <2>1 DEF Refund, CanRefund, SerialInv, TypeOK, DataOK
  <2>2. CASE ~Refund(t)
    <3>1. UNCHANGED refunded
      BY <2>2, ReadsFrame
      DEF TaskStep, Handler, Reads, money, Deposit, Notify, MarkSucceeded,
          MarkRefunding, MarkRefunded, MarkFailed, PollExhausted
    <3>2. QED
      BY <1>1, <3>1 DEF SerialInv, Keeps
  <2>3. QED
    BY <2>1, <2>2
<1>6. QED
  BY <1>2, <1>3, <1>4, <1>5 DEF SerialInv

LEMMA OutsideSerial ==
  ASSUME TypeOK, BooksInv, SerialInv,
         \/ \E i \in Intents : \/ Api(i) \/ ApiCrash(i) \/ Pay(i)
                               \/ PayFails(i) \/ SetWalletStatus(i)
         \/ \E t \in Tasks : DeliverWebhook(t)
         \/ UNCHANGED vars
  PROVE  SerialInv'
<1> USE RefInIntents DEF TypeOK, DataOK, SerialInv, SerialKnows, Q!Active,
        Q!Parked
<1>1. CASE UNCHANGED vars
  BY <1>1 DEF vars, row, money, queue, Ref
<1>2. ASSUME NEW i \in Intents, CreateIntent(i) PROVE SerialInv'
  BY <1>2 DEF CreateIntent, money, queue, Ref, BooksInv, RequestFirst
<1>3. ASSUME NEW i \in Intents, Initialize(i) PROVE SerialInv'
  BY <1>3 DEF Initialize, queue, Ref
<1>4. ASSUME NEW i \in Intents, GiveUp(i) PROVE SerialInv'
  <2>1. \A t \in Tasks : Ref(t) = i => pc[t] \notin Settling
    BY <1>4 DEF GiveUp, BooksInv, HandlerKnows, RequestFirst
  <2>2. QED
    BY <1>4, <2>1 DEF GiveUp, money, queue, Ref, Settling
<1>5. ASSUME NEW i \in Intents, Publish(i) PROVE SerialInv'
  <2>1. Poll(i) \in Tasks
    BY DepositAssumption DEF Poll, Tasks, DepositAssumption
  <2>2. \A t \in Tasks : pc'[t] = pc[t] \/ pc'[t] = "queued"
    BY <1>5, <2>1 DEF Publish, Q!Enqueue, Q!Goto
  <2>3. QED
    BY <1>5, <2>2 DEF Publish, money, Ref
<1>6. ASSUME NEW i \in Intents, ApiCrash(i) PROVE SerialInv'
  BY <1>6 DEF ApiCrash, money, queue, Ref
<1>7. ASSUME NEW i \in Intents, Pay(i) PROVE SerialInv'
  <2>1. payment[i] = NoPayment
    BY <1>7 DEF Pay, BooksInv, RequestFirst
  <2>2. refunded[i] = 0
    BY <2>1 DEF NoPayment
  <2>3. payment'[i].amount \in Nat
    BY <1>7, DepositAssumption DEF Pay, DepositAssumption
  <2>4. QED
    BY <1>7, <2>2, <2>3 DEF Pay, row, queue, Ref
<1>8. ASSUME NEW i \in Intents, PayFails(i) PROVE SerialInv'
  BY <1>8 DEF PayFails, row, queue, Ref
<1>9. ASSUME NEW i \in Intents, SetWalletStatus(i) PROVE SerialInv'
  BY <1>9 DEF SetWalletStatus, money, queue, Ref
<1>10. ASSUME NEW t \in Tasks, DeliverWebhook(t) PROVE SerialInv'
  <2>1. \A u \in Tasks : pc'[u] = pc[u] \/ pc'[u] = "queued"
    BY <1>10 DEF DeliverWebhook, Q!Goto
  <2>2. QED
    BY <1>10, <2>1 DEF DeliverWebhook, row, money, Ref
<1>11. QED
  BY <1>1, <1>2, <1>3, <1>4, <1>5, <1>6, <1>7, <1>8, <1>9, <1>10 DEF Api

(* With a single worker the facts a handler read stay true until it acts   *)
(* on them: SerialInv is inductive.                                        *)
THEOREM SerialCorrect ==
  ASSUME Concurrency = 1
  PROVE  Spec => []SerialInv
<1>1. Init => SerialInv
  BY DepositAssumption
  DEF Init, Q!QueueInit, SerialInv, SerialKnows, Q!Active, Q!Parked,
      DepositAssumption, Tasks, Ref, NoPayment
<1>2. TypeOK /\ BooksInv /\ SerialInv /\ [Next]_vars => SerialInv'
  BY TaskSerial, OutsideSerial DEF Next
<1>3. QED
  BY <1>1, <1>2, TypeCorrect, BooksCorrect, PTL DEF Spec

(* With a single worker, what the wallet gets and what the payer gets back *)
(* never exceed what the payer was charged, whatever fails in between.     *)
THEOREM PayoutCorrect ==
  ASSUME Concurrency = 1
  PROVE  Spec => []PayoutCovered
<1>1. TypeOK /\ BooksInv /\ SerialInv => PayoutCovered
  <2> SUFFICES ASSUME TypeOK, BooksInv, SerialInv, NEW i \in Intents
               PROVE  credited[i] + refunded[i] <= payment[i].amount
    BY DEF PayoutCovered
  <2>1. /\ credited[i] \in Nat
        /\ refunded[i] \in Nat
        /\ payment[i].amount \in Nat
        /\ refunded[i] <= payment[i].amount
    BY DepositAssumption
    DEF TypeOK, DataOK, SerialInv, NoPayment, DepositAssumption
  <2>2. CASE credited[i] > 0
    <3>1. refunded[i] = 0
      BY <2>1, <2>2 DEF BooksInv, RefundIsRecorded, SerialInv
    <3>2. credited[i] = Amount /\ payment[i].amount = Amount
      BY <2>2 DEF BooksInv, CreditIsPaid
    <3>3. QED
      BY <2>1, <3>1, <3>2
  <2>3. CASE ~(credited[i] > 0)
    BY <2>1, <2>3
  <2>4. QED
    BY <2>2, <2>3
<1>2. QED
  BY <1>1, TypeCorrect, BooksCorrect, SerialCorrect, PTL

-----------------------------------------------------------------------------
(* The refinement.                                                         *)

PBooks == <<status, credited, refunded>>

(* A step of a task is a step of the promise, or none.                     *)
LEMMA TaskPromise ==
  ASSUME TypeOK, BooksInv, SerialInv, RefundUnit,
         \A p \in Payments : p.amount < 2 * Amount,
         NEW t \in Tasks, TaskStep(t)
  PROVE  Promise!Next \/ UNCHANGED PBooks
<1> DEFINE r == Ref(t)
<1>1. /\ r \in Intents
      /\ SerialKnows(t, r)
      /\ HandlerKnows(t, r)
      /\ credited[r] \in {0, Amount}
  BY RefInIntents, DepositAssumption
  DEF SerialInv, BooksInv, CreditIsPaid, TypeOK, DataOK, DepositAssumption
<1>2. CASE Reads(t) \/ Notify(t)
  BY <1>2, ReadsFrame DEF Notify, row, money, PBooks
<1>3. CASE Deposit(t)
  <2>1. CASE credited[r] = 0
    <3>1. Promise!Credit(r)
      BY <1>1, <1>3, <2>1
      DEF Deposit, LedgerDeposit, row, SerialKnows, Promise!Credit, TypeOK,
          DataOK
    <3>2. QED
      BY <1>1, <3>1 DEF Promise!Next
  <2>2. CASE credited[r] # 0
    BY <1>3, <2>2 DEF Deposit, LedgerDeposit, row, PBooks, TypeOK, DataOK
  <2>3. QED
    BY <2>1, <2>2
<1>4. CASE MarkSucceeded(t)
  <2>1. CASE MarkIntentSucceeded(r)
    <3>1. Promise!Confirm(r)
      BY <1>1, <1>4, <2>1
      DEF MarkSucceeded, MarkIntentSucceeded, Move, money, HandlerKnows,
          Promise!Confirm, Promise!Become
    <3>2. QED
      BY <1>1, <3>1 DEF Promise!Next
  <2>2. CASE UNCHANGED row
    BY <1>4, <2>2 DEF MarkSucceeded, row, money, PBooks
  <2>3. QED
    BY <1>4, <2>1, <2>2 DEF MarkSucceeded
<1>5. CASE MarkRefunding(t)
  <2>1. CASE MarkIntentRefunding(r) /\ status[r] = "FAILED"
    <3>1. Promise!StartRefund(r)
      BY <1>1, <1>5, <2>1
      DEF MarkRefunding, MarkIntentRefunding, Move, money, SerialKnows,
          Promise!StartRefund, Promise!Become
    <3>2. QED
      BY <1>1, <3>1 DEF Promise!Next
  <2>2. CASE MarkIntentRefunding(r) /\ status[r] = "REFUNDING"
    BY <1>1, <1>5, <2>2
    DEF MarkRefunding, MarkIntentRefunding, Move, money, PBooks, TypeOK, DataOK
  <2>3. CASE UNCHANGED row
    BY <1>5, <2>3 DEF MarkRefunding, row, money, PBooks
  <2>4. QED
    BY <1>5, <2>1, <2>2, <2>3
    DEF MarkRefunding, MarkIntentRefunding, Move
<1>6. CASE Refund(t)
  <2>1. payment[r].amount \in Nat /\ payment[r].amount < 2 * Amount
    BY <1>1, DepositAssumption DEF TypeOK, DataOK, NoPayment, DepositAssumption
  <2>2. refunded[r] = 0
    BY <1>1, <1>6, <2>1, DepositAssumption
    DEF Refund, CanRefund, RefundUnit, DepositAssumption
  <2>3. status[r] = "REFUNDING"
    BY <1>1, <1>6, <2>2
    DEF Refund, HandlerKnows, BooksInv, RefundIsRecorded
  <2>4. Promise!PayBack(r)
    BY <1>1, <1>6, <2>2, <2>3, DepositAssumption
    DEF Refund, row, Promise!PayBack, TypeOK, DataOK, DepositAssumption
  <2>5. QED
    BY <1>1, <2>4 DEF Promise!Next
<1>7. CASE MarkRefunded(t)
  <2>1. CASE MarkIntentRefunded(r)
    <3>1. refunded[r] = Amount
      BY <1>1, <1>7 DEF MarkRefunded, HandlerKnows, RefundUnit
    <3>2. Promise!CloseRefund(r)
      BY <1>1, <1>7, <2>1, <3>1
      DEF MarkRefunded, MarkIntentRefunded, Move, money, Promise!CloseRefund,
          Promise!Become
    <3>3. QED
      BY <1>1, <3>2 DEF Promise!Next
  <2>2. CASE UNCHANGED row
    BY <1>7, <2>2 DEF MarkRefunded, row, money, PBooks
  <2>3. QED
    BY <1>7, <2>1, <2>2 DEF MarkRefunded
<1>8. CASE MarkFailed(t) \/ PollExhausted(t)
  <2>1. CASE MarkIntentFailed(r)
    <3>1. Promise!GiveUp(r)
      BY <1>8, <2>1
      DEF MarkFailed, PollExhausted, MarkIntentFailed, Move, money,
          Promise!GiveUp, Promise!Become
    <3>2. QED
      BY <1>1, <3>1 DEF Promise!Next
  <2>2. CASE UNCHANGED row
    BY <1>8, <2>2 DEF MarkFailed, PollExhausted, row, money, PBooks
  <2>3. QED
    BY <1>8, <2>1, <2>2 DEF MarkFailed, PollExhausted
<1>9. QED
  BY <1>2, <1>3, <1>4, <1>5, <1>6, <1>7, <1>8 DEF TaskStep, Handler, Reads

(* With a single worker, the deposit pipeline implements DepositPromise:   *)
(* its queue, handlers, faults and crashes never credit an intent that was *)
(* given up nor refund one that was credited.                              *)
THEOREM PromiseKept ==
  ASSUME Concurrency = 1,
         \A p \in Payments : p.amount < 2 * Amount
  PROVE  Spec => KeepsPromise
<1>1. Init => Promise!Init
  BY DEF Init, Promise!Init
<1>2. TypeOK /\ BooksInv /\ SerialInv /\ RefundUnit /\ [Next]_vars
        => [Promise!Next]_(Promise!books)
  <2> SUFFICES ASSUME TypeOK, BooksInv, SerialInv, RefundUnit, [Next]_vars
               PROVE  Promise!Next \/ UNCHANGED PBooks
    BY DEF PBooks, Promise!books
  <2>1. ASSUME NEW t \in Tasks, TaskStep(t)
        PROVE  Promise!Next \/ UNCHANGED PBooks
    BY <2>1, TaskPromise
  <2>2. ASSUME NEW i \in Intents, CreateIntent(i) PROVE Promise!Next
    <3>1. Promise!Open(i)
      BY <2>2 DEF CreateIntent, money, BooksInv, RequestFirst, Promise!Open,
                  Promise!Become
    <3>2. QED
      BY <3>1 DEF Promise!Next
  <2>3. ASSUME NEW i \in Intents, GiveUp(i)
        PROVE  Promise!Next \/ UNCHANGED PBooks
    <3>1. Promise!GiveUp(i) \/ UNCHANGED PBooks
      BY <2>3 DEF GiveUp, money, Promise!GiveUp, Promise!Become, PBooks
    <3>2. QED
      BY <3>1 DEF Promise!Next
  <2>4. ASSUME NEW i \in Intents,
               \/ Initialize(i) \/ Publish(i) \/ ApiCrash(i) \/ Pay(i)
               \/ PayFails(i) \/ SetWalletStatus(i)
        PROVE  UNCHANGED PBooks
    BY <2>4 DEF Initialize, Publish, ApiCrash, Pay, PayFails, SetWalletStatus,
                row, money, PBooks
  <2>5. ASSUME NEW t \in Tasks, DeliverWebhook(t) PROVE UNCHANGED PBooks
    BY <2>5 DEF DeliverWebhook, row, money, PBooks
  <2>6. UNCHANGED vars => UNCHANGED PBooks
    BY DEF vars, row, money, PBooks
  <2>7. QED
    BY <2>1, <2>2, <2>3, <2>4, <2>5, <2>6 DEF Next, Api
<1>3. QED
  BY <1>1, <1>2, TypeCorrect, BooksCorrect, SerialCorrect, RefundUnitCorrect,
     PTL DEF Spec, KeepsPromise, Promise!Spec
=============================================================================
