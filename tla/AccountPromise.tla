--------------------------- MODULE AccountPromise ---------------------------
(***************************************************************************)
(* What the users table promises, without requests, codes or failures: an  *)
(* address has one account for ever, it is verified only once a code was   *)
(* accepted and stays verified until it is deleted, and it is never        *)
(* active again after that.                                                *)
(***************************************************************************)
EXTENDS Naturals

CONSTANTS Emails, Profiles

VARIABLES users, proved

NoRow == [exists |-> FALSE, active |-> FALSE, verified |-> FALSE,
          profile |-> 0]

Init ==
  /\ users = [e \in Emails |-> NoRow]
  /\ proved = [e \in Emails |-> FALSE]

Open(e) ==
  /\ ~users[e].exists
  /\ users' = [users EXCEPT ![e] = [exists |-> TRUE, active |-> TRUE,
                                    verified |-> FALSE, profile |-> 0]]
  /\ UNCHANGED proved

(* A code that was mailed to the address is accepted.                      *)
Prove(e) ==
  /\ users[e].exists
  /\ proved' = [proved EXCEPT ![e] = TRUE]
  /\ UNCHANGED users

Verify(e) ==
  /\ proved[e]
  /\ users' = [users EXCEPT ![e].verified = TRUE]
  /\ UNCHANGED proved

Change(e) ==
  /\ users[e].exists
  /\ \E p \in Profiles : users' = [users EXCEPT ![e].profile = p]
  /\ UNCHANGED proved

(* A deletion may undo changes made while it ran.                          *)
Delete(e) ==
  /\ users[e].exists
  /\ \E v \in BOOLEAN, p \in Profiles \union {0} :
       /\ v => proved[e]
       /\ users' = [users EXCEPT ![e] = [exists |-> TRUE, active |-> FALSE,
                                         verified |-> v, profile |-> p]]
  /\ UNCHANGED proved

Next == \E e \in Emails :
          Open(e) \/ Prove(e) \/ Verify(e) \/ Change(e) \/ Delete(e)

Spec == Init /\ [][Next]_<<users, proved>>
=============================================================================
