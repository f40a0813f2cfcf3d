--------------------------- MODULE TransferProofs ---------------------------
(***************************************************************************)
(* Theorems about Transfer, for every set of transfers and wallets, every  *)
(* set of orders, and any number of workers, retries and faults.           *)
(***************************************************************************)
EXTENDS Transfer, FiniteSetTheorems, WellFoundedInduction, TLAPS

(* What a step of the queue does: only the task t moves, to one of the     *)
(* labels L.                                                               *)
Moves(t, L) ==
  /\ pc' \in [Transfers -> Labels]
  /\ retried' \in [Transfers -> Nat]
  /\ pc'[t] \in L
  /\ \A u \in Transfers \ {t} : pc'[u] = pc[u] /\ retried'[u] = retried[u]

Failed == {"queued", "archived", "exhausted"}

-----------------------------------------------------------------------------
(* The operations of the queue, as moves.                                  *)

LEMMA GotoMoves ==
  ASSUME TypeOK, NEW t \in Transfers, NEW l \in Labels, Q!Goto(t, l)
  PROVE  Moves(t, {l})
  BY DEF TypeOK, Q!Goto, Moves

LEMMA CompleteMoves ==
  ASSUME TypeOK, NEW t \in Transfers, Q!Complete(t)
  PROVE  Moves(t, {"idle"})
  BY DEF TypeOK, Q!Complete, Q!Remove, Moves, Labels, Q!Parked

LEMMA ArchiveMoves ==
  ASSUME TypeOK, NEW t \in Transfers, Q!Archive(t)
  PROVE  Moves(t, {"archived"})
  BY DEF TypeOK, Q!Archive, Moves, Labels, Q!Parked

LEMMA RequeueMoves ==
  ASSUME TypeOK, NEW t \in Transfers, Q!Requeue(t)
  PROVE  Moves(t, {"queued"})
  BY DEF TypeOK, Q!Requeue, Moves, Labels, Q!Parked

LEMMA FailMoves ==
  ASSUME TypeOK, NEW t \in Transfers, Q!Fail(t)
  PROVE  Moves(t, Failed)
<1>1. CASE Q!Archive(t)
  BY <1>1, ArchiveMoves DEF Moves, Failed
<1>2. CASE Q!Requeue(t)
  BY <1>2, RequeueMoves DEF Moves, Failed
<1>3. CASE Q!Goto(t, "exhausted")
  BY <1>3, GotoMoves DEF Moves, Failed, Labels, HookCalls
<1>4. QED
  BY <1>1, <1>2, <1>3 DEF Q!Fail, Q!Exhaust

LEMMA LeaseLostMoves ==
  ASSUME TypeOK, NEW t \in Transfers, Q!LeaseLost(t)
  PROVE  Moves(t, Failed)
<1>1. CASE Q!Archive(t)
  BY <1>1, ArchiveMoves DEF Moves, Failed
<1>2. CASE Q!Requeue(t)
  BY <1>2, RequeueMoves DEF Moves, Failed
<1>3. QED
  BY <1>1, <1>2 DEF Q!LeaseLost

-----------------------------------------------------------------------------
(* The steps of a task, as moves: where each leads, and from where.        *)

LEMMA ReadMoves ==
  ASSUME TypeOK, NEW t \in Transfers
  PROVE  /\ StartTask(t) => Moves(t, {"readTransfer"})
         /\ ReadTransfer(t) =>
              /\ Moves(t, {"idle", "loadWallets"})
              /\ pc'[t] = "loadWallets" => status[t] = "PENDING"
         /\ LoadWallets(t) =>
              /\ Moves(t, {"transfer", "markFailed"})
              /\ pc'[t] = "markFailed" => ~(BothActive(t) /\ SameCurrency(t))
         /\ InsufficientFunds(t) => Moves(t, {"markFailed"})
         /\ Rejected(t) => Moves(t, {"markRejected"})
         /\ CallFails(t) => Moves(t, Failed)
         /\ WorkerCrash(t) => Moves(t, Failed)
         /\ HookGivesUp(t) => Moves(t, {"archived"})
         /\ HookRead(t) =>
              /\ Moves(t, {"hookLookup", "archived"})
              /\ pc'[t] = "hookLookup" => status[t] = "PENDING"
         /\ HookLookup(t) =>
              /\ Moves(t, {"hookSucceed", "hookFail"})
              /\ pc'[t] = "hookSucceed" => t \in moved
              /\ pc'[t] = "hookFail" => t \notin moved
<1> USE DEF Labels, Calls, HookCalls
<1>1. StartTask(t) => Moves(t, {"readTransfer"})
  BY GotoMoves DEF StartTask, Q!Start
<1>2. ASSUME ReadTransfer(t)
      PROVE  /\ Moves(t, {"idle", "loadWallets"})
             /\ pc'[t] = "loadWallets" => status[t] = "PENDING"
  BY <1>2, GotoMoves, CompleteMoves DEF ReadTransfer, Moves
<1>3. ASSUME LoadWallets(t)
      PROVE  /\ Moves(t, {"transfer", "markFailed"})
             /\ pc'[t] = "markFailed" => ~(BothActive(t) /\ SameCurrency(t))
  BY <1>3, GotoMoves DEF LoadWallets, Moves
<1>4. /\ InsufficientFunds(t) => Moves(t, {"markFailed"})
      /\ Rejected(t) => Moves(t, {"markRejected"})
  BY GotoMoves DEF InsufficientFunds, Rejected
<1>5. /\ CallFails(t) => Moves(t, Failed)
      /\ WorkerCrash(t) => Moves(t, Failed)
      /\ HookGivesUp(t) => Moves(t, {"archived"})
  BY FailMoves, LeaseLostMoves, ArchiveMoves
  DEF CallFails, WorkerCrash, HookGivesUp
<1>6. ASSUME HookRead(t)
      PROVE  /\ Moves(t, {"hookLookup", "archived"})
             /\ pc'[t] = "hookLookup" => status[t] = "PENDING"
  BY <1>6, GotoMoves, ArchiveMoves DEF HookRead, Moves
<1>7. ASSUME HookLookup(t)
      PROVE  /\ Moves(t, {"hookSucceed", "hookFail"})
             /\ pc'[t] = "hookSucceed" => t \in moved
             /\ pc'[t] = "hookFail" => t \notin moved
  BY <1>7, GotoMoves DEF HookLookup, Moves
<1>8. QED
  BY <1>1, <1>2, <1>3, <1>4, <1>5, <1>6, <1>7

(* Every operation that ends with the parties being told, or not, leaves   *)
(* the row settled.                                                        *)
LEMMA WriteMoves ==
  ASSUME TypeOK, NEW t \in Transfers
  PROVE  /\ MoveMoney(t) => Moves(t, Failed \union {"markSucceeded"})
         /\ MarkTransferSucceeded(t) =>
              Moves(t, Failed \union {"idle", "notify"})
         /\ FinalizeFailed(t) =>
              Moves(t, Failed \union {"idle", "notify", "notifyLast"})
         /\ Notify(t) => Moves(t, Failed \union {"idle"})
         /\ HookClose(t) => Moves(t, {"notifyLast", "archived"})
<1> USE DEF Labels, Answered
<1>1. MoveMoney(t) => Moves(t, Failed \union {"markSucceeded"})
  BY GotoMoves, FailMoves DEF MoveMoney, Moves, Calls
<1>2. MarkTransferSucceeded(t) => Moves(t, Failed \union {"idle", "notify"})
  BY GotoMoves, FailMoves, CompleteMoves
  DEF MarkTransferSucceeded, MarkTransfer, Moves
<1>3. FinalizeFailed(t) =>
        Moves(t, Failed \union {"idle", "notify", "notifyLast"})
  BY GotoMoves, FailMoves, CompleteMoves, ArchiveMoves
  DEF FinalizeFailed, MarkTransfer, Moves, Failed
<1>4. Notify(t) => Moves(t, Failed \union {"idle"})
  BY LeaseLostMoves, CompleteMoves, ArchiveMoves DEF Notify, Moves, Failed
<1>5. HookClose(t) => Moves(t, {"notifyLast", "archived"})
  BY GotoMoves, ArchiveMoves DEF HookClose, MarkTransfer, Moves
<1>6. QED
  BY <1>1, <1>2, <1>3, <1>4, <1>5

-----------------------------------------------------------------------------
(* What a step leaves alone.                                               *)

(* The steps of a task that change neither row, ledger nor notices.        *)
Reads(t) ==
  \/ StartTask(t) \/ ReadTransfer(t) \/ LoadWallets(t)
  \/ InsufficientFunds(t) \/ Rejected(t) \/ CallFails(t) \/ WorkerCrash(t)
  \/ HookGivesUp(t) \/ HookRead(t) \/ HookLookup(t)

(* The steps that may settle the row.                                      *)
Marks(t) == MarkTransferSucceeded(t) \/ FinalizeFailed(t) \/ HookClose(t)

LEMMA TaskCases ==
  ASSUME NEW t, TaskStep(t)
  PROVE  Reads(t) \/ Marks(t) \/ MoveMoney(t) \/ Notify(t)
  BY DEF TaskStep, Handler, Reads, Marks

LEMMA ReadsFrame ==
  ASSUME NEW t, Reads(t)
  PROVE  UNCHANGED <<rows, ledger, notices>> /\ (Fault \/ UNCHANGED faults)
  BY DEF Reads, StartTask, ReadTransfer, LoadWallets, InsufficientFunds,
         Rejected, CallFails, WorkerCrash, HookGivesUp, HookRead, HookLookup

LEMMA MarksFrame ==
  ASSUME NEW t, Marks(t)
  PROVE  /\ UNCHANGED <<order, wallet, api, ledger, notices>>
         /\ Fault \/ UNCHANGED faults
         /\ \/ UNCHANGED status
            \/ /\ status[t] = "PENDING"
               /\ \E o \in {"SUCCESS", "FAILED"} :
                    status' = [status EXCEPT ![t] = o]
  BY DEF Marks, MarkTransferSucceeded, FinalizeFailed, HookClose, MarkTransfer,
         Answered

LEMMA TaskMoves ==
  ASSUME TypeOK, NEW t \in Transfers, TaskStep(t)
  PROVE  Moves(t, Labels)
<1> USE DEF Moves, Labels, Calls, HookCalls, Q!Parked, Failed
<1>1. CASE Reads(t)
  BY <1>1, ReadMoves DEF Reads
<1>2. CASE Marks(t) \/ MoveMoney(t) \/ Notify(t)
  BY <1>2, WriteMoves DEF Marks
<1>3. QED
  BY <1>1, <1>2, TaskCases

LEMMA FaultType ==
  ASSUME TypeOK, Fault \/ UNCHANGED faults
  PROVE  faults' \in 0 .. MaxFaults
  BY TransferAssumption DEF TransferAssumption, TypeOK, Fault

LEMMA OrderType ==
  ASSUME TypeOK, NEW t \in Transfers
  PROVE  From(t) \in Wallets /\ To(t) \in Wallets /\ Value(t) \in Nat
  BY TransferAssumption DEF TransferAssumption, TypeOK, From, To, Value

-----------------------------------------------------------------------------
(* Type correctness.                                                       *)

LEMMA TaskType ==
  ASSUME TypeOK, NEW t \in Transfers, TaskStep(t)
  PROVE  TypeOK'
<1>1. /\ pc' \in [Transfers -> Labels]
      /\ retried' \in [Transfers -> Nat]
  BY TaskMoves DEF Moves
<1>2. CASE Reads(t)
  BY <1>1, <1>2, ReadsFrame, FaultType DEF TypeOK, rows, ledger
<1>3. CASE Marks(t)
  BY <1>1, <1>3, MarksFrame, FaultType DEF TypeOK, ledger
<1>4. CASE MoveMoney(t)
  <2>1. UNCHANGED <<rows, notices>> /\ (Fault \/ UNCHANGED faults)
    BY <1>4 DEF MoveMoney, Answered
  <2>2. balance' \in [Wallets -> Nat] /\ moved' \subseteq Transfers
    BY <1>4, OrderType DEF MoveMoney, TypeOK, ledger
  <2>3. QED
    BY <1>1, <2>1, <2>2, FaultType DEF TypeOK, rows
<1>5. CASE Notify(t)
  BY <1>1, <1>5, FaultType DEF Notify, TypeOK, rows, ledger
<1>6. QED
  BY <1>2, <1>3, <1>4, <1>5, TaskCases

LEMMA RequestType ==
  ASSUME TypeOK, NEW t \in Transfers, Api(t) \/ ApiCrash(t)
  PROVE  TypeOK'
<1>1. CASE Request(t)
  BY <1>1 DEF Request, TypeOK, ledger, queue
<1>2. CASE CheckBalance(t)
  BY <1>2, FaultType DEF CheckBalance, TypeOK, ledger, queue
<1>3. CASE CreateTransfer(t)
  BY <1>3, FaultType DEF CreateTransfer, TypeOK, ledger, queue
<1>4. CASE Publish(t)
  <2>1. /\ pc' \in [Transfers -> Labels]
        /\ retried' \in [Transfers -> Nat]
    BY <1>4 DEF Publish, Q!Enqueue, Q!Goto, Q!Parked, TypeOK, Labels, queue
  <2>2. QED
    BY <1>4, <2>1, FaultType DEF Publish, TypeOK, ledger
<1>5. CASE ApiCrash(t)
  BY <1>5, FaultType DEF ApiCrash, TypeOK, ledger, queue
<1>6. QED
  BY <1>1, <1>2, <1>3, <1>4, <1>5 DEF Api

(* Every variable keeps its type; in particular no wallet is overdrawn,    *)
(* however many transfers debit it at the same time.                       *)
THEOREM TypeCorrect == Spec => []TypeOK
<1>1. Init => TypeOK
  BY TransferAssumption
  DEF Init, TypeOK, TransferAssumption, Q!QueueInit, Labels, Q!Parked
<1>2. TypeOK /\ [Next]_vars => TypeOK'
  <2> SUFFICES ASSUME TypeOK, [Next]_vars PROVE TypeOK'
    OBVIOUS
  <2>1. ASSUME NEW w \in Wallets, SetWalletStatus(w) PROVE TypeOK'
    BY <2>1 DEF SetWalletStatus, TypeOK, ledger, queue
  <2>2. CASE UNCHANGED vars
    BY <2>2 DEF vars, rows, ledger, queue, TypeOK
  <2>3. QED
    BY <2>1, <2>2, TaskType, RequestType DEF Next
<1>3. QED
  BY <1>1, <1>2, PTL DEF Spec

-----------------------------------------------------------------------------
(* The books.  A step for t changes nothing another transfer's task or     *)
(* request relies on.                                                      *)

Local(t) ==
  /\ UNCHANGED order
  /\ \A u \in Transfers \ {t} :
       /\ status'[u] = status[u]
       /\ api'[u] = api[u]
       /\ notices'[u] = notices[u]
       /\ pc'[u] = pc[u]
       /\ retried'[u] = retried[u]
  /\ moved \subseteq moved'
  /\ moved' \ moved \subseteq {t}

LEMMA TaskLocal ==
  ASSUME TypeOK, NEW t \in Transfers, TaskStep(t)
  PROVE  Local(t)
<1>1. \A u \in Transfers \ {t} : pc'[u] = pc[u] /\ retried'[u] = retried[u]
  BY TaskMoves DEF Moves
<1>2. CASE Reads(t)
  BY <1>1, <1>2, ReadsFrame DEF Local, rows, ledger
<1>3. CASE Marks(t)
  BY <1>1, <1>3, MarksFrame DEF Local, ledger, TypeOK
<1>4. CASE MoveMoney(t)
  BY <1>1, <1>4 DEF MoveMoney, Local, rows, ledger
<1>5. CASE Notify(t)
  BY <1>1, <1>5 DEF Notify, Local, rows, ledger, TypeOK
<1>6. QED
  BY <1>2, <1>3, <1>4, <1>5, TaskCases

LEMMA RequestLocal ==
  ASSUME TypeOK, NEW t \in Transfers, Api(t) \/ ApiCrash(t)
  PROVE  Local(t) /\ UNCHANGED <<ledger, notices>>
<1>1. CASE Publish(t)
  BY <1>1 DEF Publish, Q!Enqueue, Q!Goto, Local, ledger, TypeOK, queue
<1>2. CASE Request(t) \/ CheckBalance(t) \/ CreateTransfer(t) \/ ApiCrash(t)
  BY <1>2 DEF Request, CheckBalance, CreateTransfer, ApiCrash, Local, ledger,
              TypeOK, queue
<1>3. QED
  BY <1>1, <1>2 DEF Api

Outcome(t) ==
  /\ status[t] = "SUCCESS" => t \in moved
  /\ t \in moved => status[t] # "NONE"
  /\ notices[t] <= 1
  /\ notices[t] > 0 => status[t] \in {"SUCCESS", "FAILED"}

(* The invariant, one transfer at a time.                                  *)
Knows(t) == TaskKnows(t) /\ RequestKnows(t) /\ Outcome(t)

LEMMA BooksByTransfer ==
  TypeOK => (BooksInv <=> \A t \in Transfers : Knows(t))
  BY DEF TypeOK, BooksInv, Knows, Outcome, SuccessIsMoved, OneNotice

LEMMA OthersKnow ==
  ASSUME NEW t \in Transfers, Local(t), NEW u \in Transfers \ {t}, Knows(u)
  PROVE  Knows(u)'
  BY DEF Local, Knows, TaskKnows, RequestKnows, Outcome, From, To,
         SameCurrency

LEMMA SelfBusy ==
  ASSUME NEW t \in Transfers, TaskStep(t)
  PROVE  pc[t] # "idle"
  BY DEF TaskStep, Handler, StartTask, Q!Start, ReadTransfer, LoadWallets,
         MoveMoney, InsufficientFunds, Rejected, MarkTransferSucceeded,
         FinalizeFailed, Notify, HookRead, HookLookup, HookClose, CallFails,
         Calls, WorkerCrash, Q!LeaseLost, Q!Active, Q!Parked, HookGivesUp,
         HookCalls

(* What the task itself knows after its step.                              *)
LEMMA SelfKnows ==
  ASSUME TypeOK, NEW t \in Transfers, TaskStep(t), Knows(t)
  PROVE  Knows(t)'
<1> USE DEF Knows, TaskKnows, RequestKnows, Outcome, Moves, Failed
<1>1. pc[t] # "idle"
  BY SelfBusy
<1>2. CASE Reads(t)
  <2>1. UNCHANGED <<order, status, api, notices, moved>>
    BY <1>2, ReadsFrame DEF rows, ledger
  <2>2. TaskKnows(t)'
    <3>1. pc'[t] \in Working => status[t] = "PENDING"
      BY <1>2, ReadMoves
      DEF Reads, Working, ReadTransfer, LoadWallets, InsufficientFunds,
          Rejected, HookRead, HookLookup
    <3>2. pc'[t] \in {"markSucceeded", "hookSucceed"} => t \in moved
      BY <1>2, ReadMoves DEF Reads
    <3>3. pc'[t] \notin {"notify", "notifyLast"}
      BY <1>2, ReadMoves DEF Reads
    <3>4. QED
      BY <2>1, <3>1, <3>2, <3>3
  <2>3. RequestKnows(t)'
    BY <1>1, <2>1 DEF From, To, SameCurrency
  <2>4. QED
    BY <2>1, <2>2, <2>3
<1>3. CASE Marks(t)
  <2>1. /\ UNCHANGED <<order, api, notices, moved>>
        /\ status'[t] # status[t] =>
             status[t] = "PENDING" /\ status'[t] \in {"SUCCESS", "FAILED"}
    BY <1>3, MarksFrame DEF TypeOK, ledger
  <2>2. status'[t] = "SUCCESS" => t \in moved
    BY <1>3 DEF Marks, MarkTransferSucceeded, FinalizeFailed, HookClose,
                MarkTransfer, TypeOK
  <2>3. pc'[t] \in {"notify", "notifyLast"} =>
          status[t] = "PENDING" /\ status'[t] \in {"SUCCESS", "FAILED"}
    <3>1. CASE status[t] = "PENDING"
      BY <1>3, <3>1 DEF Marks, MarkTransferSucceeded, FinalizeFailed,
                        HookClose, MarkTransfer, TypeOK
    <3>2. CASE status[t] # "PENDING"
      BY <1>3, <3>2, CompleteMoves, ArchiveMoves
      DEF Marks, MarkTransferSucceeded, FinalizeFailed, HookClose, MarkTransfer
    <3>3. QED
      BY <3>1, <3>2
  <2>4. pc'[t] \notin Working
    BY <1>3, WriteMoves DEF Marks, Working
  <2>5. TaskKnows(t)'
    BY <2>1, <2>3, <2>4, TypeOK DEF Working, TypeOK
  <2>6. RequestKnows(t)'
    BY <1>1, <2>1 DEF From, To, SameCurrency
  <2>7. QED
    BY <2>1, <2>2, <2>5, <2>6
<1>4. CASE MoveMoney(t)
  <2>1. /\ UNCHANGED <<order, status, api, notices>>
        /\ status[t] = "PENDING"
        /\ t \in moved'
    BY <1>4 DEF MoveMoney, rows, ledger, Working
  <2>2. pc'[t] \in {"markSucceeded"} \union Failed
    BY <1>4, WriteMoves
  <2>3. QED
    BY <1>1, <2>1, <2>2 DEF Working, From, To, SameCurrency
<1>5. CASE Notify(t)
  <2>1. /\ UNCHANGED <<order, status, api, moved>>
        /\ status[t] \in {"SUCCESS", "FAILED"}
        /\ notices[t] = 0
        /\ notices'[t] \in {0, 1}
    BY <1>5 DEF Notify, rows, ledger, TypeOK
  <2>2. pc'[t] \in {"idle"} \union Failed
    BY <1>5, WriteMoves
  <2>3. QED
    BY <1>1, <2>1, <2>2 DEF Working, From, To, SameCurrency
<1>6. QED
  BY <1>2, <1>3, <1>4, <1>5, TaskCases

LEMMA RequesterKnows ==
  ASSUME TypeOK, NEW t \in Transfers, Api(t) \/ ApiCrash(t), Knows(t)
  PROVE  Knows(t)'
<1> USE RequestLocal DEF Knows, TaskKnows, RequestKnows, Outcome, Local,
                         ledger, Working, From, To, SameCurrency
<1>1. CASE Publish(t)
  <2>1. pc'[t] \in {"idle", "queued"}
    BY <1>1 DEF Publish, Q!Enqueue, Q!Goto, TypeOK, queue
  <2>2. QED
    BY <1>1, <2>1 DEF Publish, TypeOK
<1>2. CASE Request(t)
  BY <1>2 DEF Request, TypeOK, queue
<1>3. CASE CheckBalance(t)
  BY <1>3 DEF CheckBalance, TypeOK, queue
<1>4. CASE CreateTransfer(t)
  BY <1>4 DEF CreateTransfer, TypeOK, queue
<1>5. CASE ApiCrash(t)
  BY <1>5 DEF ApiCrash, TypeOK, queue
<1>6. QED
  BY <1>1, <1>2, <1>3, <1>4, <1>5 DEF Api

(* Between two calls every task and request still knows what it read, and  *)
(* the rows agree with the ledger, whatever fails or is frozen meanwhile.  *)
THEOREM BooksCorrect == Spec => []BooksInv
<1>1. Init => BooksInv
  BY DEF Init, Q!QueueInit, BooksInv, TaskKnows, RequestKnows, Working,
         SuccessIsMoved, OneNotice
<1>2. TypeOK /\ TypeOK' /\ BooksInv /\ [Next]_vars => BooksInv'
  <2> SUFFICES ASSUME TypeOK, TypeOK', BooksInv, [Next]_vars PROVE BooksInv'
    OBVIOUS
  <2>1. \A t \in Transfers : Knows(t)
    BY BooksByTransfer
  <2>2. ASSUME NEW t \in Transfers, TaskStep(t)
        PROVE  \A u \in Transfers : Knows(u)'
    BY <2>1, <2>2, TaskLocal, OthersKnow, SelfKnows
  <2>3. ASSUME NEW t \in Transfers, Api(t) \/ ApiCrash(t)
        PROVE  \A u \in Transfers : Knows(u)'
    BY <2>1, <2>3, RequestLocal, OthersKnow, RequesterKnows
  <2>4. ASSUME UNCHANGED vars \/ \E w \in Wallets : SetWalletStatus(w)
        PROVE  UNCHANGED <<order, status, api, notices, moved, pc>>
    BY <2>4 DEF vars, rows, ledger, queue, SetWalletStatus
  <2>5. ASSUME UNCHANGED <<order, status, api, notices, moved, pc>>
        PROVE  \A u \in Transfers : Knows(u)'
    BY <2>1, <2>5 DEF Knows, TaskKnows, RequestKnows, Outcome, From, To,
                      SameCurrency
  <2>6. \A u \in Transfers : Knows(u)'
    BY <2>2, <2>3, <2>4, <2>5 DEF Next
  <2>7. QED
    BY <2>6 DEF TypeOK, BooksInv, Knows, Outcome, SuccessIsMoved, OneNotice
<1>3. QED
  BY <1>1, <1>2, TypeCorrect, PTL DEF Spec

(* A transfer that reads SUCCESS moved its money.                          *)
THEOREM SuccessCorrect == Spec => []SuccessIsMoved
<1>1. BooksInv => SuccessIsMoved
  BY DEF BooksInv
<1>2. QED
  BY <1>1, BooksCorrect, PTL

(* The parties hear of an outcome at most once, and of the right one.      *)
THEOREM NoticeCorrect == Spec => []OneNotice
<1>1. BooksInv => OneNotice
  BY DEF BooksInv
<1>2. QED
  BY <1>1, BooksCorrect, PTL

-----------------------------------------------------------------------------
(* What keeps the task of an open transfer: only faults use up its         *)
(* attempts, and no handler ends it before the transfer is closed.         *)

TaskGoes(t) ==
  /\ pc'[t] # "idle"
  /\ retried'[t] <= faults'
  /\ pc'[t] \in HookCalls \union {"archived"} => TransferMaxRetry < faults'

(* An attempt that fails, or whose worker dies, is a fault; when no retry  *)
(* was left there had been a fault for each before.                        *)
LEMMA AttemptGoes ==
  ASSUME TypeOK, NEW t \in Transfers, retried[t] <= faults, Fault,
         Q!Fail(t) \/ Q!LeaseLost(t)
  PROVE  TaskGoes(t)
<1>1. /\ retried[t] \in Nat /\ faults \in Nat /\ TransferMaxRetry \in Nat
      /\ faults' = faults + 1
  BY TransferAssumption DEF TypeOK, TransferAssumption, Fault
<1>2. Q!IsFinalAttempt(t) => TransferMaxRetry < faults'
  BY <1>1 DEF Q!IsFinalAttempt
<1>3. CASE Q!Requeue(t)
  BY <1>1, <1>3 DEF Q!Requeue, TaskGoes, HookCalls, TypeOK
<1>4. CASE Q!IsFinalAttempt(t) /\ Q!Archive(t)
  BY <1>1, <1>2, <1>4 DEF Q!Archive, TaskGoes, TypeOK
<1>5. CASE Q!IsFinalAttempt(t) /\ Q!Goto(t, "exhausted")
  BY <1>1, <1>2, <1>5 DEF Q!Goto, TaskGoes, TypeOK
<1>6. QED
  BY <1>3, <1>4, <1>5 DEF Q!Fail, Q!LeaseLost, Q!Exhaust

(* A call that answers leads the handler, or the hook, to its next call.   *)
LEMMA CallGoes ==
  ASSUME TypeOK, TaskInv, NEW t \in Transfers, NEW l, Q!Goto(t, l),
         status[t] = "PENDING", l \notin {"idle", "archived"},
         l \in HookCalls => pc[t] \in HookCalls,
         Fault \/ UNCHANGED faults
  PROVE  TaskGoes(t)
<1>1. pc'[t] = l /\ retried'[t] = retried[t]
  BY DEF Q!Goto, TypeOK
<1>2. /\ retried[t] \in Nat /\ faults \in Nat /\ TransferMaxRetry \in Nat
      /\ faults' \in Nat /\ faults <= faults'
  BY TransferAssumption DEF TypeOK, TransferAssumption, Fault
<1>3. QED
  BY <1>1, <1>2 DEF TaskInv, TaskGoes

(* The hook ends in vain: there had been more faults than retries.         *)
LEMMA HookGoes ==
  ASSUME TypeOK, TaskInv, NEW t \in Transfers, Q!Archive(t), pc[t] \in HookCalls,
         status[t] = "PENDING", Fault
  PROVE  TaskGoes(t)
<1>1. pc'[t] = "archived" /\ retried'[t] = 0
  BY DEF Q!Archive, TypeOK
<1>2. faults \in Nat /\ TransferMaxRetry \in Nat /\ faults' = faults + 1
  BY TransferAssumption DEF TypeOK, TransferAssumption, Fault
<1>3. QED
  BY <1>1, <1>2 DEF TaskInv, TaskGoes

(* A step of the task that leaves its transfer open keeps the task.        *)
LEMMA TaskStepGoes ==
  ASSUME TypeOK, BooksInv, TaskInv, NEW t \in Transfers, TaskStep(t),
         status'[t] = "PENDING"
  PROVE  TaskGoes(t)
<1>1. status[t] = "PENDING"
  <2>1. UNCHANGED status \/ Marks(t)
    BY TaskCases, ReadsFrame DEF MoveMoney, Notify, rows
  <2>2. QED
    BY <2>1, MarksFrame DEF TypeOK
<1>2. retried[t] <= faults
  BY <1>1 DEF TaskInv
<1>3. pc[t] \notin {"notify", "notifyLast"}
  BY <1>1 DEF BooksInv, TaskKnows
<1>4. CASE Reads(t)
  <2>1. Fault \/ UNCHANGED faults
    BY <1>4, ReadsFrame
  <2>2. CASE CallFails(t) \/ WorkerCrash(t)
    BY <1>2, <2>2, AttemptGoes DEF CallFails, WorkerCrash
  <2>3. CASE HookGivesUp(t)
    BY <1>1, <2>3, HookGoes DEF HookGivesUp
  <2>4. CASE StartTask(t)
    BY <1>1, <2>1, <2>4, CallGoes DEF StartTask, Q!Start, HookCalls
  <2>5. CASE ReadTransfer(t)
    BY <1>1, <2>1, <2>5, CallGoes DEF ReadTransfer, HookCalls
  <2>6. CASE LoadWallets(t)
    BY <1>1, <2>1, <2>6, CallGoes DEF LoadWallets, HookCalls
  <2>7. CASE InsufficientFunds(t) \/ Rejected(t)
    BY <1>1, <2>1, <2>7, CallGoes DEF InsufficientFunds, Rejected, HookCalls
  <2>8. CASE HookRead(t) \/ HookLookup(t)
    BY <1>1, <2>1, <2>8, CallGoes DEF HookRead, HookLookup, HookCalls
  <2>9. QED
    BY <1>4, <2>2, <2>3, <2>4, <2>5, <2>6, <2>7, <2>8 DEF Reads
<1>5. CASE Marks(t)
  <2>1. /\ ~(status' = [status EXCEPT ![t] = "SUCCESS"])
        /\ ~(status' = [status EXCEPT ![t] = "FAILED"])
    BY DEF TypeOK
  <2>2. QED
    BY <1>1, <1>5, <2>1
    DEF Marks, MarkTransferSucceeded, FinalizeFailed, HookClose, MarkTransfer
<1>6. CASE MoveMoney(t)
  <2>1. CASE Q!Fail(t) /\ Fault
    BY <1>2, <2>1, AttemptGoes
  <2>2. CASE Q!Goto(t, "markSucceeded") /\ UNCHANGED faults
    BY <1>1, <2>2, CallGoes DEF HookCalls
  <2>3. QED
    BY <1>6, <2>1, <2>2 DEF MoveMoney, Answered
<1>7. CASE Notify(t)
  BY <1>3, <1>7 DEF Notify
<1>8. QED
  BY <1>4, <1>5, <1>6, <1>7, TaskCases

(* A step of the request or of the operator takes no task away.            *)
LEMMA OutsideGoes ==
  ASSUME TypeOK, BooksInv, NEW t \in Transfers,
         \/ \E u \in Transfers : Api(u) \/ ApiCrash(u)
         \/ \E w \in Wallets : SetWalletStatus(w)
         \/ UNCHANGED vars
  PROVE  /\ retried'[t] = retried[t]
         /\ pc'[t] = pc[t] \/ (pc[t] = "idle" /\ pc'[t] = "queued")
         /\ status'[t] = "PENDING" => status[t] \in {"NONE", "PENDING"}
         /\ status'[t] = "NONE" => status[t] = "NONE"
         /\ Fault \/ UNCHANGED faults
<1>1. ASSUME NEW u \in Transfers, Publish(u)
      PROVE  /\ UNCHANGED <<status, retried>>
             /\ pc'[t] = pc[t] \/ (pc[t] = "idle" /\ pc'[t] = "queued")
             /\ Fault \/ UNCHANGED faults
  BY <1>1 DEF Publish, queue, Q!Enqueue, Q!Goto, TypeOK
<1>2. ASSUME NEW u \in Transfers, CreateTransfer(u)
      PROVE  /\ UNCHANGED <<pc, retried>>
             /\ status'[t] = status[t] \/ (u = t /\ status'[t] = "PENDING")
             /\ status[u] = "NONE"
             /\ Fault \/ UNCHANGED faults
  BY <1>2 DEF CreateTransfer, queue, TypeOK, BooksInv, RequestKnows
<1>3. ASSUME \/ \E u \in Transfers : \/ Request(u) \/ CheckBalance(u)
                                     \/ ApiCrash(u)
             \/ \E w \in Wallets : SetWalletStatus(w)
             \/ UNCHANGED vars
      PROVE  /\ UNCHANGED <<status, pc, retried>>
             /\ Fault \/ UNCHANGED faults
  BY <1>3 DEF Request, CheckBalance, ApiCrash, SetWalletStatus, vars, rows,
              queue
<1>4. QED
  BY <1>1, <1>2, <1>3 DEF Api

(* TaskInv is inductive, for any number of transfers, retries and faults.  *)
THEOREM TaskCorrect == Spec => []TaskInv
<1>1. Init => TaskInv
  BY DEF Init, Q!QueueInit, TaskInv, HookCalls
<1>2. TypeOK /\ BooksInv /\ BooksInv' /\ TaskInv /\ [Next]_vars => TaskInv'
  <2> SUFFICES ASSUME TypeOK, BooksInv, BooksInv', TaskInv, [Next]_vars,
                      NEW t \in Transfers, status'[t] \in {"NONE", "PENDING"}
               PROVE  /\ retried'[t] <= faults'
                      /\ pc'[t] \in HookCalls => TransferMaxRetry < faults'
    BY DEF TaskInv
  <2>1. /\ retried[t] \in Nat /\ faults \in Nat /\ TransferMaxRetry \in Nat
        /\ Fault \/ UNCHANGED faults => faults' \in Nat /\ faults <= faults'
    BY TransferAssumption DEF TypeOK, TransferAssumption, Fault
  <2>2. ASSUME NEW u \in Transfers, TaskStep(u), u # t
        PROVE  /\ pc'[t] = pc[t] /\ retried'[t] = retried[t]
               /\ status'[t] = status[t]
               /\ Fault \/ UNCHANGED faults
    <3>1. Fault \/ UNCHANGED faults
      BY <2>2, TaskCases, ReadsFrame, MarksFrame
      DEF MoveMoney, Notify, Answered
    <3>2. QED
      BY <2>2, <3>1, TaskLocal DEF Local
  <2>3. CASE TaskStep(t)
    <3>1. status'[t] # "NONE"
      <4>1. status[t] # "NONE"
        BY <2>3, SelfBusy DEF BooksInv, RequestKnows
      <4>2. UNCHANGED status \/ Marks(t)
        BY <2>3, TaskCases, ReadsFrame DEF MoveMoney, Notify, rows
      <4>3. QED
        BY <4>1, <4>2, MarksFrame DEF TypeOK
    <3>2. QED
      BY <2>3, <3>1, TaskStepGoes DEF TaskGoes
  <2>4. CASE \E u \in Transfers : TaskStep(u) /\ u # t
    BY <2>1, <2>2, <2>4 DEF TaskInv
  <2>5. CASE \/ \E u \in Transfers : Api(u) \/ ApiCrash(u)
             \/ \E w \in Wallets : SetWalletStatus(w)
             \/ UNCHANGED vars
    <3>1. /\ retried'[t] = retried[t]
          /\ pc'[t] \in HookCalls => pc[t] \in HookCalls
          /\ status[t] \in {"NONE", "PENDING"}
          /\ Fault \/ UNCHANGED faults
      BY <2>5, OutsideGoes DEF HookCalls
    <3>2. QED
      BY <2>1, <3>1 DEF TaskInv
  <2>6. QED
    BY <2>3, <2>4, <2>5 DEF Next
<1>3. QED
  BY <1>1, <1>2, TypeCorrect, BooksCorrect, PTL DEF Spec

(* TaskIsKept as a step. *)
Kept == \A t \in Transfers :
          status'[t] = "PENDING" /\ pc[t] \notin {"idle", "archived"} =>
            /\ pc'[t] # "idle"
            /\ pc'[t] = "archived" => faults' > TransferMaxRetry

(* The task of an open transfer is never lost, unless more calls, replies  *)
(* and workers have failed than it has retries.                            *)
THEOREM TaskKept == Spec => TaskIsKept
<1>1. TypeOK /\ BooksInv /\ TaskInv /\ [Next]_vars => [Kept]_vars
  <2> SUFFICES ASSUME TypeOK, BooksInv, TaskInv, [Next]_vars,
                      NEW t \in Transfers, status'[t] = "PENDING",
                      pc[t] \notin {"idle", "archived"}
               PROVE  /\ pc'[t] # "idle"
                      /\ pc'[t] = "archived" => TransferMaxRetry < faults'
    BY DEF Kept
  <2>1. CASE TaskStep(t)
    BY <2>1, TaskStepGoes DEF TaskGoes
  <2>2. CASE \E u \in Transfers : TaskStep(u) /\ u # t
    BY <2>2, TaskLocal DEF Local
  <2>3. CASE \/ \E u \in Transfers : Api(u) \/ ApiCrash(u)
             \/ \E w \in Wallets : SetWalletStatus(w)
             \/ UNCHANGED vars
    BY <2>3, OutsideGoes
  <2>4. QED
    BY <2>1, <2>2, <2>3 DEF Next
<1>2. QED
  BY <1>1, TypeCorrect, BooksCorrect, TaskCorrect, PTL
  DEF Spec, TaskIsKept, Kept

-----------------------------------------------------------------------------
(* What transfers amount to.  A sum over a set is a recursive function of  *)
(* its subsets; it is the number of units of money the transfers move,     *)
(* and about cardinalities the library has theorems.                       *)

(* The money that the transfers in S move, unit by unit.                   *)
Units(o, S) == UNION {{t} \X (1 .. o[t].amount) : t \in S}

LEMMA UnitsOfOne ==
  ASSUME NEW t, NEW n \in Nat
  PROVE  IsFiniteSet({t} \X (1 .. n)) /\ Cardinality({t} \X (1 .. n)) = n
<1>1. IsFiniteSet({t}) /\ Cardinality({t}) = 1
  BY FS_Singleton
<1>2. IsFiniteSet(1 .. n) /\ Cardinality(1 .. n) = n
  <2>1. /\ IsFiniteSet(1 .. n)
        /\ Cardinality(1 .. n) = IF 1 > n THEN 0 ELSE n - 1 + 1
    BY FS_Interval
  <2>2. QED
    BY <2>1
<1>3. /\ IsFiniteSet({t} \X (1 .. n))
      /\ Cardinality({t} \X (1 .. n)) = Cardinality({t}) * Cardinality(1 .. n)
  BY <1>1, <1>2, FS_Product, Zenon
<1>4. QED
  BY <1>1, <1>2, <1>3

LEMMA UnitsFinite ==
  ASSUME NEW o \in [Transfers -> Orders], NEW S \in SUBSET Transfers
  PROVE  IsFiniteSet(Units(o, S))
<1> DEFINE part(t) == {t} \X (1 .. o[t].amount)
<1>1. IsFiniteSet(S)
  BY TransferAssumption, FS_Subset DEF TransferAssumption
<1>2. ASSUME NEW t \in S PROVE IsFiniteSet(part(t))
  <2>1. o[t].amount \in Nat
    BY TransferAssumption DEF TransferAssumption
  <2>2. QED
    BY <2>1, UnitsOfOne
<1> DEFINE parts == {part(t) : t \in S}
<1>3. IsFiniteSet(parts)
  <2> DEFINE f == [t \in S |-> part(t)]
  <2>1. f \in Surjection(S, parts)
    BY DEF Surjection
  <2> HIDE DEF f, parts
  <2>2. QED
    BY <1>1, <2>1, FS_Surjection
<1>4. \A T \in parts : IsFiniteSet(T)
  BY <1>2
<1>5. IsFiniteSet(UNION parts)
  <2> HIDE DEF parts
  <2>1. QED
    BY <1>3, <1>4, FS_UNION
<1>6. QED
  BY <1>5 DEF Units

LEMMA UnitsAdd ==
  ASSUME NEW o \in [Transfers -> Orders], NEW S \in SUBSET Transfers,
         NEW t \in Transfers \ S
  PROVE  Cardinality(Units(o, S \union {t})) =
           Cardinality(Units(o, S)) + o[t].amount
<1> DEFINE new == {t} \X (1 .. o[t].amount)
<1>1. o[t].amount \in Nat
  BY TransferAssumption DEF TransferAssumption
<1>2. IsFiniteSet(new) /\ Cardinality(new) = o[t].amount
  BY <1>1, UnitsOfOne
<1>3. Units(o, S \union {t}) = Units(o, S) \union new
  BY DEF Units
<1>4. Units(o, S) \intersect new = {}
  BY DEF Units
<1> HIDE DEF new
<1>5. Cardinality(Units(o, S)) \in Nat /\ Cardinality({}) = 0
  BY UnitsFinite, FS_CardinalityType, FS_EmptySet
<1>6. Cardinality(Units(o, S) \union new) =
        Cardinality(Units(o, S)) + Cardinality(new)
          - Cardinality(Units(o, S) \intersect new)
  BY <1>2, UnitsFinite, FS_Union
<1>7. Cardinality(Units(o, S) \intersect new) = 0
  BY <1>4, <1>5
<1> DEFINE before == Cardinality(Units(o, S))
           after == Cardinality(Units(o, S) \union new)
<1>8. after = before + o[t].amount
  <2>1. after = before + o[t].amount - 0
    BY <1>2, <1>6, <1>7
  <2> HIDE DEF after, before
  <2>2. before \in Nat
    BY <1>5 DEF before
  <2>3. QED
    BY <1>1, <2>1, <2>2
<1>9. QED
  BY <1>3, <1>8

LEMMA SumIsCount ==
  ASSUME NEW o \in [Transfers -> Orders], NEW S \in SUBSET Transfers
  PROVE  MapThenSumSet(LAMBDA t : o[t].amount, S) = Cardinality(Units(o, S))
<1> DEFINE one(s) == CHOOSE x \in s : TRUE
           next(g) == [s \in SUBSET S |->
                         IF s = {} THEN 0
                                   ELSE o[one(s)].amount + g[s \ {one(s)}]]
           count == [s \in SUBSET S |-> Cardinality(Units(o, s))]
           iter == CHOOSE g : g = next(g)
<1>1. MapThenSumSet(LAMBDA t : o[t].amount, S) = iter[S]
  BY DEF MapThenSumSet, MapThenFoldSet
<1>2. ASSUME NEW s \in SUBSET S
      PROVE  count[s] = IF s = {} THEN 0
                                  ELSE o[one(s)].amount + count[s \ {one(s)}]
  <2>1. CASE s = {}
    <3>1. Units(o, {}) = {}
      BY DEF Units
    <3>2. QED
      BY <2>1, <3>1, FS_EmptySet
  <2>2. CASE s # {}
    <3> DEFINE t == one(s)
    <3>1. t \in s /\ t \in Transfers \ (s \ {t})
      BY <2>2
    <3> HIDE DEF t
    <3>2. (s \ {t}) \union {t} = s
      BY <3>1
    <3>3. o[t].amount \in Nat /\ Cardinality(Units(o, s \ {t})) \in Nat
      BY <3>1, TransferAssumption, UnitsFinite, FS_CardinalityType
      DEF TransferAssumption
    <3>4. Cardinality(Units(o, s)) =
            o[t].amount + Cardinality(Units(o, s \ {t}))
      BY <3>1, <3>2, <3>3, UnitsAdd
    <3>5. QED
      BY <2>2, <3>4 DEF t
  <2>3. QED
    BY <2>1, <2>2
<1>3. count = next(count)
  BY <1>2
<1>4. iter = next(iter)
  BY <1>3
<1>5. ASSUME NEW s \in SUBSET S
      PROVE  iter[s] = IF s = {} THEN 0
                                 ELSE o[one(s)].amount + iter[s \ {one(s)}]
  BY <1>4
<1> HIDE DEF count, iter, next
<1> DEFINE wrong == {s \in SUBSET S : iter[s] # count[s]}
<1>6. ASSUME NEW s \in wrong PROVE \E r \in wrong : r \in SUBSET s /\ r # s
  <2>1. s # {}
    BY <1>2, <1>5, <1>6
  <2>2. one(s) \in s
    BY <2>1
  <2>3. iter[s \ {one(s)}] # count[s \ {one(s)}]
    BY <1>2, <1>5, <1>6, <2>1
  <2>4. QED
    BY <2>2, <2>3
<1>7. IsFiniteSet(S)
  BY TransferAssumption, FS_Subset DEF TransferAssumption
<1>8. wrong = {}
  <2> SUFFICES ASSUME wrong # {} PROVE FALSE
    OBVIOUS
  <2>1. wrong \subseteq FiniteSubsetsOf(S)
    BY <1>7, FS_FiniteSubsetsOfFinite
  <2>2. PICK s \in wrong :
          \A r \in wrong : ~(<<r, s>> \in StrictSubsetOrdering(S))
    <3> HIDE DEF wrong
    <3>1. QED
      BY <2>1, FS_StrictSubsetOrderingWellFounded, WFMin
  <2>3. QED
    BY <1>6, <2>2 DEF StrictSubsetOrdering
<1>9. S \notin wrong
  BY <1>8
<1>10. QED
  BY <1>1, <1>9 DEF count

(* What a wallet received and what it sent, in the ledger.                 *)
In(w) == {t \in moved : To(t) = w}
Out(w) == {t \in moved : From(t) = w}

BalanceByUnit ==
  \A w \in Wallets :
    balance[w] = Funds[w] + Cardinality(Units(order, In(w)))
                          - Cardinality(Units(order, Out(w)))

LEMMA ExactByUnit ==
  ASSUME TypeOK, BalanceByUnit
  PROVE  BalanceIsExact
<1>1. ASSUME NEW S \in SUBSET Transfers
      PROVE  Total(S) = Cardinality(Units(order, S))
  BY SumIsCount DEF TypeOK, Total, Value
<1>2. ASSUME NEW w \in Wallets
      PROVE  In(w) \in SUBSET Transfers /\ Out(w) \in SUBSET Transfers
  BY DEF TypeOK, In, Out
<1>3. QED
  BY <1>1, <1>2 DEF BalanceByUnit, BalanceIsExact, In, Out

(* The ledger changes only when a transfer moves, and then by its amount.  *)
LEMMA MoveByUnit ==
  ASSUME TypeOK, TypeOK', BooksInv, BalanceByUnit,
         NEW t \in Transfers, MoveMoney(t)
  PROVE  BalanceByUnit'
<1>1. order' = order /\ order \in [Transfers -> Orders]
  BY DEF MoveMoney, rows, TypeOK
<1>2. CASE UNCHANGED ledger
  BY <1>1, <1>2 DEF ledger, BalanceByUnit, In, Out, From, To
<1>3. CASE t \notin moved /\ ~UNCHANGED ledger
  <2>1. /\ balance' = [balance EXCEPT ![From(t)] = @ - Value(t),
                                      ![To(t)] = @ + Value(t)]
        /\ moved' = moved \union {t}
    BY <1>3 DEF MoveMoney
  <2>2. /\ From(t) # To(t)
        /\ From(t) \in Wallets /\ To(t) \in Wallets
        /\ Value(t) \in Nat /\ Value(t) = order[t].amount
    BY OrderType DEF MoveMoney, BooksInv, RequestKnows, Value
  <2> SUFFICES ASSUME NEW w \in Wallets
               PROVE  balance'[w] = Funds[w]
                        + Cardinality(Units(order, In(w)'))
                        - Cardinality(Units(order, Out(w)'))
    BY <1>1 DEF BalanceByUnit
  <2>3. /\ In(w)' = IF To(t) = w THEN In(w) \union {t} ELSE In(w)
        /\ Out(w)' = IF From(t) = w THEN Out(w) \union {t} ELSE Out(w)
    BY <1>1, <2>1 DEF In, Out, From, To
  <2>4. /\ In(w) \in SUBSET Transfers /\ t \in Transfers \ In(w)
        /\ Out(w) \in SUBSET Transfers /\ t \in Transfers \ Out(w)
    BY <1>3 DEF TypeOK, In, Out
  <2> DEFINE units(S) == Cardinality(Units(order, S))
  <2>5. /\ units(In(w) \union {t}) = units(In(w)) + Value(t)
        /\ units(Out(w) \union {t}) = units(Out(w)) + Value(t)
    BY <1>1, <2>2, <2>4, UnitsAdd
  <2>6. units(In(w)) \in Nat /\ units(Out(w)) \in Nat
    BY <1>1, <2>4, UnitsFinite, FS_CardinalityType
  <2>7. balance[w] = Funds[w] + units(In(w)) - units(Out(w))
    BY DEF BalanceByUnit
  <2>8. Funds[w] \in Nat /\ balance \in [Wallets -> Nat]
    BY TransferAssumption DEF TransferAssumption, TypeOK
  <2>9. balance'[w] = IF w = From(t) THEN balance[w] - Value(t)
                      ELSE IF w = To(t) THEN balance[w] + Value(t)
                      ELSE balance[w]
    BY <2>1, <2>2, <2>8
  <2> HIDE DEF units
  <2>10. balance'[w] = Funds[w] + units(In(w)') - units(Out(w)')
    BY <2>2, <2>3, <2>5, <2>6, <2>7, <2>8, <2>9
  <2>11. QED
    BY <2>10 DEF units
<1>4. QED
  BY <1>2, <1>3 DEF MoveMoney

(* A wallet holds exactly what the transfers in the ledger brought and     *)
(* took, whatever is repeated, refused or frozen.                          *)
THEOREM BalanceCorrect == Spec => []BalanceIsExact
<1>1. Init => BalanceByUnit
  <2> SUFFICES ASSUME Init, NEW w \in Wallets
               PROVE  balance[w] = Funds[w] + Cardinality(Units(order, In(w)))
                                     - Cardinality(Units(order, Out(w)))
    BY DEF BalanceByUnit
  <2>1. Units(order, In(w)) = {} /\ Units(order, Out(w)) = {}
    BY DEF Init, In, Out, Units
  <2>2. QED
    BY <2>1, FS_EmptySet, TransferAssumption DEF Init, TransferAssumption
<1>2. TypeOK /\ TypeOK' /\ BooksInv /\ BalanceByUnit /\ [Next]_vars
        => BalanceByUnit'
  <2> SUFFICES ASSUME TypeOK, TypeOK', BooksInv, BalanceByUnit, [Next]_vars
               PROVE  BalanceByUnit'
    OBVIOUS
  <2>1. ASSUME UNCHANGED <<order, balance, moved>> PROVE BalanceByUnit'
    BY <2>1 DEF BalanceByUnit, In, Out, From, To
  <2>2. ASSUME NEW t \in Transfers, TaskStep(t) PROVE BalanceByUnit'
    BY <2>1, <2>2, TaskCases, ReadsFrame, MarksFrame, MoveByUnit
    DEF rows, ledger, Notify
  <2>3. ASSUME NEW t \in Transfers, Api(t) \/ ApiCrash(t)
        PROVE  BalanceByUnit'
    BY <2>1, <2>3, RequestLocal DEF Local, ledger
  <2>4. ASSUME UNCHANGED vars \/ \E w \in Wallets : SetWalletStatus(w)
        PROVE  BalanceByUnit'
    BY <2>1, <2>4 DEF vars, rows, ledger, SetWalletStatus
  <2>5. QED
    BY <2>2, <2>3, <2>4 DEF Next
<1>3. TypeOK /\ BalanceByUnit => BalanceIsExact
  BY ExactByUnit
<1>4. QED
  BY <1>1, <1>2, <1>3, TypeCorrect, BooksCorrect, PTL DEF Spec

-----------------------------------------------------------------------------
(* Without frozen wallets and refusals of the ledger.                      *)

Doomed == {"markFailed", "markRejected", "hookFail"}

LEMMA TaskCalm ==
  ASSUME ~Refusals, TypeOK, BooksInv, CalmInv,
         NEW t \in Transfers, TaskStep(t)
  PROVE  CalmInv'
<1>1. /\ \A u \in Transfers \ {t} : pc'[u] = pc[u] /\ status'[u] = status[u]
      /\ moved' \ moved \subseteq {t}
  BY TaskLocal DEF Local
<1>2. UNCHANGED wallet
  BY TaskCases, ReadsFrame, MarksFrame DEF MoveMoney, Notify, rows
<1>3. pc'[t] \in Doomed => t \notin moved'
  <2>1. CASE Reads(t)
    <3>1. UNCHANGED moved
      BY <2>1, ReadsFrame DEF ledger
    <3>2. ~LoadWallets(t) \/ pc'[t] # "markFailed"
      BY ReadMoves, OrderType
      DEF CalmInv, BooksInv, TaskKnows, RequestKnows, BothActive, LoadWallets
    <3>3. ~Rejected(t)
      BY DEF Rejected
    <3>4. InsufficientFunds(t) => t \notin moved
      BY DEF InsufficientFunds
    <3>5. QED
      BY <2>1, <3>1, <3>2, <3>3, <3>4, ReadMoves
      DEF Reads, Moves, Failed, Doomed
  <2>2. CASE Marks(t) \/ MoveMoney(t) \/ Notify(t)
    BY <2>2, WriteMoves DEF Marks, Moves, Failed, Doomed
  <2>3. QED
    BY <2>1, <2>2, TaskCases
<1>4. status'[t] = "FAILED" => t \notin moved'
  <2>1. CASE Reads(t)
    BY <2>1, ReadsFrame DEF rows, ledger, CalmInv, FailedNeverMoved
  <2>2. CASE Marks(t)
    <3>1. UNCHANGED moved
      BY <2>2, MarksFrame DEF ledger
    <3>2. status'[t] = "FAILED" /\ status[t] # "FAILED" => pc[t] \in Doomed
      BY <2>2 DEF Marks, MarkTransferSucceeded, FinalizeFailed, HookClose,
                  MarkTransfer, TypeOK, Doomed
    <3>3. QED
      BY <3>1, <3>2 DEF CalmInv, FailedNeverMoved, Doomed
  <2>3. CASE MoveMoney(t)
    BY <2>3 DEF MoveMoney, rows, BooksInv, TaskKnows, Working
  <2>4. CASE Notify(t)
    BY <2>4 DEF Notify, rows, ledger, CalmInv, FailedNeverMoved
  <2>5. QED
    BY <2>1, <2>2, <2>3, <2>4, TaskCases
<1>5. QED
  BY <1>1, <1>2, <1>3, <1>4 DEF CalmInv, FailedNeverMoved, Doomed

LEMMA RequestCalm ==
  ASSUME ~Refusals, TypeOK, BooksInv, CalmInv,
         NEW t \in Transfers, Api(t) \/ ApiCrash(t)
  PROVE  CalmInv'
<1>1. /\ \A u \in Transfers \ {t} : pc'[u] = pc[u] /\ status'[u] = status[u]
      /\ UNCHANGED moved
  BY RequestLocal DEF Local, ledger
<1>2. UNCHANGED wallet
  BY DEF Api, Request, CheckBalance, CreateTransfer, Publish, ApiCrash
<1>3. pc'[t] \in Doomed => pc[t] \in Doomed
  BY DEF Api, Request, CheckBalance, CreateTransfer, Publish, ApiCrash, queue,
         Q!Enqueue, Q!Goto, TypeOK, Doomed
<1>4. status'[t] = "FAILED" => status[t] = "FAILED"
  BY DEF Api, Request, CheckBalance, CreateTransfer, Publish, ApiCrash, TypeOK
<1>5. QED
  BY <1>1, <1>2, <1>3, <1>4 DEF CalmInv, FailedNeverMoved, Doomed

(* Unless a wallet is frozen or the ledger refuses a transfer, whatever    *)
(* fails or is retried, a task fails only a transfer that moved nothing.   *)
THEOREM CalmCorrect ==
  ASSUME ~Refusals
  PROVE  Spec => []CalmInv
<1>1. Init => CalmInv
  BY DEF Init, Q!QueueInit, CalmInv, FailedNeverMoved
<1>2. TypeOK /\ BooksInv /\ CalmInv /\ [Next]_vars => CalmInv'
  <2> SUFFICES ASSUME TypeOK, BooksInv, CalmInv, [Next]_vars PROVE CalmInv'
    OBVIOUS
  <2>1. CASE UNCHANGED vars
    BY <2>1 DEF vars, rows, ledger, queue, CalmInv, FailedNeverMoved
  <2>2. ~\E w \in Wallets : SetWalletStatus(w)
    BY DEF SetWalletStatus
  <2>3. QED
    BY <2>1, <2>2, TaskCalm, RequestCalm DEF Next
<1>3. QED
  BY <1>1, <1>2, TypeCorrect, BooksCorrect, PTL DEF Spec

(* So a transfer that reads FAILED left the money where it was.            *)
THEOREM FailureCorrect ==
  ASSUME ~Refusals
  PROVE  Spec => []FailedNeverMoved
<1>1. CalmInv => FailedNeverMoved
  BY DEF CalmInv
<1>2. QED
  BY <1>1, CalmCorrect, PTL

-----------------------------------------------------------------------------
(* The refinement.                                                         *)

PBooks == <<order, status, balance, moved>>

LEMMA TaskPromise ==
  ASSUME ~Refusals, TypeOK, BooksInv, CalmInv,
         NEW t \in Transfers, TaskStep(t)
  PROVE  Promise!Next \/ UNCHANGED PBooks
<1>1. CASE Reads(t)
  BY <1>1, ReadsFrame DEF rows, ledger, PBooks
<1>2. CASE Marks(t)
  <2>1. UNCHANGED <<order, balance, moved>>
    BY <1>2, MarksFrame DEF ledger
  <2>2. CASE UNCHANGED status
    BY <2>1, <2>2 DEF PBooks
  <2>3. CASE /\ status[t] = "PENDING"
             /\ status' = [status EXCEPT ![t] = "SUCCESS"]
    <3>1. t \in moved
      BY <1>2, <2>3
      DEF Marks, MarkTransferSucceeded, FinalizeFailed, HookClose,
          MarkTransfer, BooksInv, TaskKnows, TypeOK
    <3>2. Promise!Succeed(t)
      BY <2>1, <2>3, <3>1 DEF Promise!Succeed
    <3>3. QED
      BY <3>2 DEF Promise!Next
  <2>4. CASE /\ status[t] = "PENDING"
             /\ status' = [status EXCEPT ![t] = "FAILED"]
    <3>1. t \notin moved
      BY <1>2, <2>4
      DEF Marks, MarkTransferSucceeded, FinalizeFailed, HookClose,
          MarkTransfer, CalmInv, TypeOK
    <3>2. Promise!Refuse(t)
      BY <2>1, <2>4, <3>1 DEF Promise!Refuse
    <3>3. QED
      BY <3>2 DEF Promise!Next
  <2>5. QED
    BY <1>2, <2>2, <2>3, <2>4, MarksFrame
<1>3. CASE MoveMoney(t)
  <2>1. status[t] = "PENDING"
    BY <1>3 DEF MoveMoney, BooksInv, TaskKnows, Working
  <2>2. CASE UNCHANGED ledger
    BY <1>3, <2>2 DEF MoveMoney, rows, ledger, PBooks
  <2>3. CASE t \notin moved
    <3>1. Promise!Transact(t)
      BY <1>3, <2>1, <2>3
      DEF MoveMoney, rows, From, To, Value, Promise!Transact
    <3>2. QED
      BY <3>1 DEF Promise!Next
  <2>4. QED
    BY <1>3, <2>2, <2>3 DEF MoveMoney
<1>4. CASE Notify(t)
  BY <1>4 DEF Notify, rows, ledger, PBooks
<1>5. QED
  BY <1>1, <1>2, <1>3, <1>4, TaskCases

LEMMA RequestPromise ==
  ASSUME TypeOK, BooksInv, NEW t \in Transfers, Api(t) \/ ApiCrash(t)
  PROVE  Promise!Next \/ UNCHANGED PBooks
<1>1. CASE Request(t) \/ CheckBalance(t) \/ Publish(t) \/ ApiCrash(t)
  BY <1>1 DEF Request, CheckBalance, Publish, ApiCrash, ledger, PBooks
<1>2. CASE CreateTransfer(t)
  <2>1. CASE UNCHANGED status
    BY <1>2, <2>1 DEF CreateTransfer, ledger, PBooks
  <2>2. CASE status' = [status EXCEPT ![t] = "PENDING"]
    <3>1. Promise!Open(t)
      BY <1>2, <2>2
      DEF CreateTransfer, ledger, BooksInv, RequestKnows, From, To,
          SameCurrency, Promise!Open
    <3>2. QED
      BY <3>1 DEF Promise!Next
  <2>3. QED
    BY <1>2, <2>1, <2>2 DEF CreateTransfer
<1>3. QED
  BY <1>1, <1>2 DEF Api

(* Unless a wallet is frozen or the ledger refuses a transfer, the queue,  *)
(* the retries and the crashes do not show: transfers implement            *)
(* TransferPromise, for any number of workers.                             *)
THEOREM PromiseKept ==
  ASSUME ~Refusals
  PROVE  Spec => KeepsPromise
<1>1. Init => Promise!Init
  BY DEF Init, Promise!Init
<1>2. TypeOK /\ BooksInv /\ CalmInv /\ [Next]_vars
        => [Promise!Next]_(Promise!books)
  <2> SUFFICES ASSUME TypeOK, BooksInv, CalmInv, [Next]_vars
               PROVE  Promise!Next \/ UNCHANGED PBooks
    BY DEF PBooks, Promise!books
  <2>1. CASE UNCHANGED vars
    BY <2>1 DEF vars, rows, ledger, PBooks
  <2>2. ~\E w \in Wallets : SetWalletStatus(w)
    BY DEF SetWalletStatus
  <2>3. QED
    BY <2>1, <2>2, TaskPromise, RequestPromise DEF Next
<1>3. QED
  BY <1>1, <1>2, TypeCorrect, BooksCorrect, CalmCorrect,
     PTL DEF Spec, KeepsPromise, Promise!Spec
=============================================================================
