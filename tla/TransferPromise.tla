-------------------------- MODULE TransferPromise --------------------------
(***************************************************************************)
(* What a transfer promises, without queues, handlers or failures: its     *)
(* money moves at most once, in one step, out of funds the sender has, and *)
(* its status tells whether it did.                                        *)
(***************************************************************************)
EXTENDS Integers

CONSTANTS Transfers, Wallets, Currency, Funds, Orders

VARIABLES order, status, balance, moved

books == <<order, status, balance, moved>>

Init ==
  /\ order \in [Transfers -> Orders]
  /\ status = [t \in Transfers |-> "NONE"]
  /\ balance = Funds
  /\ moved = {}

Open(t) ==
  /\ status[t] = "NONE"
  /\ order[t].from # order[t].to
  /\ Currency[order[t].from] = Currency[order[t].to]
  /\ status' = [status EXCEPT ![t] = "PENDING"]
  /\ UNCHANGED <<order, balance, moved>>

Transact(t) ==
  /\ status[t] = "PENDING"
  /\ t \notin moved
  /\ LET o == order[t] IN
     /\ balance[o.from] >= o.amount
     /\ balance' = [balance EXCEPT ![o.from] = @ - o.amount,
                                   ![o.to] = @ + o.amount]
  /\ moved' = moved \union {t}
  /\ UNCHANGED <<order, status>>

Succeed(t) ==
  /\ status[t] = "PENDING"
  /\ t \in moved
  /\ status' = [status EXCEPT ![t] = "SUCCESS"]
  /\ UNCHANGED <<order, balance, moved>>

Refuse(t) ==
  /\ status[t] = "PENDING"
  /\ t \notin moved
  /\ status' = [status EXCEPT ![t] = "FAILED"]
  /\ UNCHANGED <<order, balance, moved>>

Next == \E t \in Transfers :
          Open(t) \/ Transact(t) \/ Succeed(t) \/ Refuse(t)

Spec == Init /\ [][Next]_books
=============================================================================
