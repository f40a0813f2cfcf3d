--------------------------- MODULE DepositPromise ---------------------------
(***************************************************************************)
(* What the deposit pipeline promises, without queues, handlers or         *)
(* failures: every intent is at most once credited or at most once paid    *)
(* back, and its status follows what happened to the money.                *)
(***************************************************************************)
EXTENDS Naturals

CONSTANTS Intents, Amount

VARIABLES status, credited, refunded

books == <<status, credited, refunded>>

Init ==
  /\ status = [i \in Intents |-> "NONE"]
  /\ credited = [i \in Intents |-> 0]
  /\ refunded = [i \in Intents |-> 0]

Become(i, from, to) ==
  /\ status[i] \in from
  /\ status' = [status EXCEPT ![i] = to]

Open(i) == Become(i, {"NONE"}, "PENDING") /\ UNCHANGED <<credited, refunded>>

GiveUp(i) ==
  Become(i, {"PENDING"}, "FAILED") /\ UNCHANGED <<credited, refunded>>

Credit(i) ==
  /\ status[i] = "PENDING"
  /\ credited[i] = 0
  /\ credited' = [credited EXCEPT ![i] = Amount]
  /\ UNCHANGED <<status, refunded>>

(* Giving up comes undone when the ledger turns out to hold the deposit.   *)
Confirm(i) ==
  /\ credited[i] = Amount
  /\ Become(i, {"PENDING", "FAILED"}, "SUCCESS")
  /\ UNCHANGED <<credited, refunded>>

(* Only a deposit the ledger does not hold is paid back.                   *)
StartRefund(i) ==
  /\ credited[i] = 0
  /\ Become(i, {"FAILED"}, "REFUNDING")
  /\ UNCHANGED <<credited, refunded>>

PayBack(i) ==
  /\ status[i] = "REFUNDING"
  /\ refunded[i] = 0
  /\ refunded' = [refunded EXCEPT ![i] = Amount]
  /\ UNCHANGED <<status, credited>>

CloseRefund(i) ==
  /\ refunded[i] = Amount
  /\ Become(i, {"REFUNDING"}, "REFUNDED")
  /\ UNCHANGED <<credited, refunded>>

Next == \E i \in Intents :
  \/ Open(i) \/ GiveUp(i) \/ Credit(i) \/ Confirm(i)
  \/ StartRefund(i) \/ PayBack(i) \/ CloseRefund(i)

Spec == Init /\ [][Next]_books
=============================================================================
