--------------------------- MODULE AccountProofs ---------------------------
(***************************************************************************)
(* Theorems about Accounts, for any number of addresses, requests, codes   *)
(* and faults, and for every limit on attempts and every time to live: the *)
(* inductive invariant, what follows from it, and that the users table     *)
(* keeps the promise of AccountPromise.                                    *)
(***************************************************************************)
EXTENDS Accounts, FiniteSetTheorems, TLAPS

SafeInv ==
  /\ TypeOK
  /\ AccountInv
  /\ \A e \in Emails : uses[e] > 0 => users[e].exists

LEMMA IdleTyped ==
  /\ NoRow \in Row
  /\ Idle \in Request
  /\ Idle.at = "idle" /\ Idle.asOf = 0
  BY AccountsAssumption
  DEF AccountsAssumption, Idle, Request, Labels, NoRow, Row

(* The counts the invariant compares are natural numbers.                  *)
LEMMA Finite ==
  ASSUME NEW e \in Emails
  PROVE  /\ IsFiniteSet(Pending(e)) /\ IsFiniteSet(Pending(e)')
         /\ IsFiniteSet(Accepted(e)) /\ IsFiniteSet(Accepted(e)')
         /\ Cardinality(Pending(e)) \in Nat /\ Cardinality(Pending(e)') \in Nat
         /\ Cardinality(Accepted(e)) \in Nat
         /\ Cardinality(Accepted(e)') \in Nat
<1>1. /\ Pending(e) \subseteq Requests /\ Pending(e)' \subseteq Requests
      /\ Accepted(e) \subseteq Requests /\ Accepted(e)' \subseteq Requests
  BY DEF Pending, Accepted
<1>2. IsFiniteSet(Requests)
  BY AccountsAssumption DEF AccountsAssumption
<1>3. /\ IsFiniteSet(Pending(e)) /\ IsFiniteSet(Pending(e)')
      /\ IsFiniteSet(Accepted(e)) /\ IsFiniteSet(Accepted(e)')
  BY <1>1, <1>2, FS_Subset
<1>4. QED
  BY <1>3, FS_CardinalityType

(* A request that no longer has to compare its entry, or was not accepted, *)
(* makes room for one that does.                                           *)
LEMMA Shrinks ==
  ASSUME NEW e \in Emails
  PROVE  /\ Pending(e)' \subseteq Pending(e) =>
              Cardinality(Pending(e)') <= Cardinality(Pending(e))
         /\ Accepted(e) \subseteq Accepted(e)' =>
              Cardinality(Accepted(e)) <= Cardinality(Accepted(e)')
         /\ \A r : r \in Accepted(e) /\ Accepted(e) \ {r} \subseteq Accepted(e)'
              => Cardinality(Accepted(e)) <= Cardinality(Accepted(e)') + 1
<1>1. Pending(e)' \subseteq Pending(e) =>
        Cardinality(Pending(e)') <= Cardinality(Pending(e))
  BY Finite, FS_Subset
<1>2. Accepted(e) \subseteq Accepted(e)' =>
        Cardinality(Accepted(e)) <= Cardinality(Accepted(e)')
  BY Finite, FS_Subset
<1>3. ASSUME NEW r, r \in Accepted(e), Accepted(e) \ {r} \subseteq Accepted(e)'
      PROVE  Cardinality(Accepted(e)) <= Cardinality(Accepted(e)') + 1
  <2>1. /\ IsFiniteSet(Accepted(e) \ {r})
        /\ Cardinality(Accepted(e) \ {r}) = Cardinality(Accepted(e)) - 1
    BY <1>3, Finite, FS_RemoveElement
  <2>2. Cardinality(Accepted(e) \ {r}) <= Cardinality(Accepted(e)')
    BY <1>3, Finite, FS_Subset
  <2>3. QED
    BY <2>1, <2>2, Finite
<1>4. QED
  BY <1>1, <1>2, <1>3

(* Only a new code takes back what was counted for the one before.         *)
GrowsOnly(e) ==
  (uses[e] > 0 => uses'[e] > 0)
  /\ (entered[e] > MaxAttempts => entered'[e] > MaxAttempts)

(* What a step leaves to the requests that do not make it.                 *)
LEMMA OthersKeep ==
  ASSUME SafeInv, NEW r \in Requests, req' = [req EXCEPT ![r] = req'[r]],
         issued' \in [Emails -> Nat],
         \A e \in Emails : /\ users[e].exists => users'[e].exists
                           /\ issued[e] <= issued'[e]
                           /\ mailed[e] \subseteq mailed'[e]
                           /\ proved[e] => proved'[e]
                           /\ issued'[e] = issued[e] => GrowsOnly(e),
         NEW s \in Requests \ {r}
  PROVE  RequestInv(s)'
<1>1. /\ req'[s] = req[s] /\ req[s] \in Request
      /\ RequestInv(s)
  BY DEF SafeInv, TypeOK, AccountInv
<1>2. /\ Who(s) \in Emails /\ req[s].asOf \in Nat /\ req[s].entry \in Nat
      /\ issued[Who(s)] \in Nat /\ issued'[Who(s)] \in Nat
      /\ issued[Who(s)] <= issued'[Who(s)]
  BY <1>1 DEF SafeInv, TypeOK, Who, Request
<1>3. QED
  BY <1>1, <1>2 DEF RequestInv, At, Who, GrowsOnly

-----------------------------------------------------------------------------
(* A step that leaves the codes and their counters alone, and begins or    *)
(* ends no comparison.                                                     *)
RowsKeep ==
  \A e \in Emails : /\ users[e].exists => users'[e].exists
                    /\ users'[e].verified => proved[e]
                    /\ mailed[e] \subseteq mailed'[e]
                    /\ mailed'[e] \subseteq 1 .. issued[e]

Quiet(r) ==
  /\ UNCHANGED <<code, codeLeft, attempts, attemptsLeft, issued, proved,
                 uses, guesses, entered>>
  /\ users' \in [Emails -> Row]
  /\ mailed' \in [Emails -> SUBSET Nat]
  /\ req' = [req EXCEPT ![r] = req'[r]]
  /\ req'[r] \in Request
  /\ RequestInv(r)'
  /\ faults' \in faults .. MaxFaults
  /\ At(r)' \notin {"expire", "get", "forget"}
  /\ At(r) = "forget" => faults' = faults + 1
  /\ RowsKeep

LEMMA QuietKeeps ==
  ASSUME SafeInv, NEW r \in Requests, Quiet(r), UsedCodeVerifies'
  PROVE  SafeInv'
<1>1. faults \in Nat /\ faults' \in Nat /\ faults <= faults'
      /\ faults' \in 0 .. MaxFaults
  BY AccountsAssumption DEF Quiet, SafeInv, TypeOK, AccountsAssumption
<1>2. TypeOK'
  BY <1>1 DEF Quiet, SafeInv, TypeOK, Otp!StoreTypeOK
<1>3. ASSUME NEW s \in Requests PROVE RequestInv(s)'
  <2>1. CASE s = r
    BY <2>1 DEF Quiet
  <2>2. CASE s # r
    <3>1. issued' \in [Emails -> Nat]
      BY DEF Quiet, SafeInv, TypeOK
    <3>2. \A e \in Emails : /\ users[e].exists => users'[e].exists
                            /\ issued[e] <= issued'[e]
                            /\ mailed[e] \subseteq mailed'[e]
                            /\ proved[e] => proved'[e]
                            /\ GrowsOnly(e)
      BY DEF Quiet, RowsKeep, SafeInv, TypeOK, GrowsOnly
    <3>3. QED
      BY <2>2, <3>1, <3>2, OthersKeep DEF Quiet
  <2>3. QED
    BY <2>1, <2>2
<1>4. ASSUME NEW e \in Emails
      PROVE  CountInv(e)' /\ UseInv(e)' /\ CodesInv(e)'
  <2>1. /\ CountInv(e) /\ UseInv(e) /\ CodesInv(e)
        /\ guesses[e] \in Nat /\ attempts[e] \in Nat /\ uses[e] \in Nat
    BY DEF SafeInv, AccountInv, TypeOK, Otp!StoreTypeOK
  <2>2. Pending(e)' \subseteq Pending(e)
    BY DEF Quiet, Pending, At, Who, SafeInv, TypeOK
  <2>3. Cardinality(Pending(e)') <= Cardinality(Pending(e))
    BY <2>2, Shrinks
  <2>4. CountInv(e)'
    BY <2>1, <2>3, Finite, AccountsAssumption
    DEF Quiet, CountInv, Otp!CounterOutlivesCode, AccountsAssumption
  <2>5. UseInv(e)'
    <3>1. CASE At(r) = "forget"
      <4>1. Accepted(e) \ {r} \subseteq Accepted(e)'
        BY DEF Quiet, Accepted, At, Who, SafeInv, TypeOK
      <4>2. Cardinality(Accepted(e)) <= Cardinality(Accepted(e)') + 1
        <5>1. CASE r \in Accepted(e)
          BY <4>1, <5>1, Shrinks
        <5>2. CASE r \notin Accepted(e)
          <6>1. Accepted(e) \subseteq Accepted(e)'
            BY <4>1, <5>2
          <6>2. QED
            BY <6>1, Shrinks, Finite
        <5>3. QED
          BY <5>1, <5>2
      <4>3. QED
        BY <1>1, <2>1, <3>1, <4>2, Finite DEF Quiet, UseInv
    <3>2. CASE At(r) # "forget"
      <4>1. Accepted(e) \subseteq Accepted(e)'
        BY <3>2 DEF Quiet, Accepted, At, Who, SafeInv, TypeOK
      <4>2. Cardinality(Accepted(e)) <= Cardinality(Accepted(e)')
        BY <4>1, Shrinks
      <4>3. QED
        BY <1>1, <2>1, <4>2, Finite DEF Quiet, UseInv
    <3>3. QED
      BY <3>1, <3>2
  <2>6. CodesInv(e)'
    BY <2>1 DEF Quiet, RowsKeep, CodesInv
  <2>7. QED
    BY <2>4, <2>5, <2>6
<1>5. GuessBound'
  BY DEF Quiet, SafeInv, AccountInv, GuessBound
<1>6. \A e \in Emails : uses'[e] > 0 => users'[e].exists
  BY DEF Quiet, RowsKeep, SafeInv
<1>7. QED
  BY <1>2, <1>3, <1>4, <1>5, <1>6 DEF SafeInv, AccountInv

(* A code that was used up still verifies its account after a step of a    *)
(* request that was not about to do so, or that failed.                    *)
LEMMA UsedKeeps ==
  ASSUME SafeInv, NEW r \in Requests, req' = [req EXCEPT ![r] = req'[r]],
         faults' \in faults .. MaxFaults,
         At(r) \in {"forget", "confirm"} => faults' = faults + 1,
         \A e \in Emails : uses'[e] > 0 /\ users'[e].active =>
            /\ uses[e] > 0 /\ users[e].active
            /\ users[e].verified => users'[e].verified
  PROVE  UsedCodeVerifies'
<1> SUFFICES ASSUME NEW e \in Emails, faults' = 0, uses'[e] > 0,
                    users'[e].active, ~users'[e].verified
             PROVE  \E s \in Requests : At(s)' \in {"forget", "confirm"}
                                         /\ Who(s)' = e
  BY DEF UsedCodeVerifies
<1>1. faults = 0 /\ At(r) \notin {"forget", "confirm"}
  BY AccountsAssumption DEF SafeInv, TypeOK, AccountsAssumption
<1>2. PICK s \in Requests : At(s) \in {"forget", "confirm"} /\ Who(s) = e
  BY <1>1 DEF SafeInv, AccountInv, UsedCodeVerifies
<1>3. req'[s] = req[s]
  BY <1>1, <1>2 DEF SafeInv, TypeOK
<1>4. QED
  BY <1>2, <1>3 DEF At, Who

(* A request that ends.                                                    *)
LEMMA ReturnKeeps ==
  ASSUME SafeInv, NEW r \in Requests, Return(r),
         UNCHANGED <<users, store, issued, history>>,
         \/ Fault
         \/ UNCHANGED faults /\ At(r) \notin {"forget", "confirm"}
  PROVE  SafeInv'
<1>1. /\ req' = [req EXCEPT ![r] = req'[r]] /\ req'[r] = Idle
      /\ faults' \in faults .. MaxFaults
      /\ At(r) \in {"forget", "confirm"} => faults' = faults + 1
  BY AccountsAssumption
  DEF Return, Fault, SafeInv, TypeOK, AccountsAssumption
<1>2. UNCHANGED <<users, code, codeLeft, attempts, attemptsLeft, issued,
                  mailed, proved, uses, guesses, entered>>
  BY DEF store, history
<1>3. RequestInv(r)'
  BY <1>1, <1>2, IdleTyped DEF RequestInv, At, Who, SafeInv, TypeOK, Request
<1>4. UsedCodeVerifies'
  BY <1>1, <1>2, UsedKeeps
<1>5. RowsKeep
  BY <1>2 DEF RowsKeep, SafeInv, AccountInv, CodesInv
<1>6. Quiet(r)
  BY <1>1, <1>2, <1>3, <1>5, IdleTyped DEF Quiet, At, SafeInv, TypeOK
<1>7. QED
  BY <1>4, <1>6, QuietKeeps

LEMMA ArriveKeeps ==
  ASSUME SafeInv, NEW r \in Requests, NEW e \in Emails, NEW entry \in Nat,
         NEW label \in {"insert", "issue", "count", "update", "select"},
         Arrive(r, label, e, entry),
         label # "insert" => users[e].exists,
         label = "count" => entry \in mailed[e] \union {0},
         label = "update" => entry \in Profiles
  PROVE  SafeInv'
<1>1. /\ req' = [req EXCEPT ![r] = req'[r]]
      /\ req'[r] = [Idle EXCEPT !.at = label, !.who = e, !.entry = entry]
      /\ At(r) = "idle"
  BY DEF Arrive, SafeInv, TypeOK
<1>2. UNCHANGED <<users, code, codeLeft, attempts, attemptsLeft, issued,
                  mailed, proved, uses, guesses, entered, faults>>
  BY DEF Arrive, store, history
<1>3. req'[r] \in Request /\ At(r)' = label /\ Who(r)' = e
      /\ req'[r].entry = entry /\ req'[r].asOf = 0
  BY <1>1, IdleTyped DEF At, Who, Request, Labels
<1>4. RequestInv(r)'
  BY <1>2, <1>3 DEF RequestInv, SafeInv, TypeOK
<1>5. faults' \in faults .. MaxFaults
  BY <1>2, AccountsAssumption DEF SafeInv, TypeOK, AccountsAssumption
<1>6. UsedCodeVerifies'
  BY <1>1, <1>2, <1>5, UsedKeeps
<1>7. RowsKeep
  BY <1>2 DEF RowsKeep, SafeInv, AccountInv, CodesInv
<1>8. Quiet(r)
  BY <1>1, <1>2, <1>3, <1>4, <1>5, <1>7 DEF Quiet, SafeInv, TypeOK
<1>9. QED
  BY <1>6, <1>8, QuietKeeps

(* The five kinds of requests.                                             *)
LEMMA NewRequestKeeps ==
  ASSUME SafeInv, NEW r \in Requests, NEW e \in Emails, NewRequest(r, e)
  PROVE  SafeInv'
<1>1. CASE Register(r, e)
  BY <1>1, ArriveKeeps DEF Register
<1>2. CASE Resend(r, e)
  BY <1>2, ArriveKeeps DEF Resend, UserEmailExists
<1>3. CASE Verify(r, e)
  <2>1. PICK entry \in mailed[e] \union {0} : Arrive(r, "count", e, entry)
    BY <1>3 DEF Verify
  <2>2. entry \in Nat
    BY DEF SafeInv, TypeOK
  <2>3. QED
    BY <1>3, <2>1, <2>2, ArriveKeeps DEF Verify, UserEmailExists
<1>4. CASE Update(r, e)
  <2>1. PICK p \in Profiles : Arrive(r, "update", e, p)
    BY <1>4 DEF Update
  <2>2. p \in Nat
    BY AccountsAssumption DEF AccountsAssumption
  <2>3. QED
    BY <1>4, <2>1, <2>2, ArriveKeeps DEF Update, UserEmailExists
<1>5. CASE Delete(r, e)
  BY <1>5, ArriveKeeps DEF Delete, UserEmailExists
<1>6. QED
  BY <1>1, <1>2, <1>3, <1>4, <1>5 DEF NewRequest

-----------------------------------------------------------------------------
(* The steps that touch neither the codes nor their counters.              *)
LEMMA InsertUserKeeps ==
  ASSUME SafeInv, NEW r \in Requests, InsertUser(r) PROVE SafeInv'
<1> DEFINE e == Who(r)
<1>1. /\ UNCHANGED <<store, issued, history>>
      /\ UNCHANGED <<code, codeLeft, attempts, attemptsLeft, issued, mailed,
                     proved, uses, guesses, entered>>
      /\ At(r) = "insert" /\ req[r] \in Request /\ e \in Emails
      /\ RequestInv(r)
  BY DEF InsertUser, store, history, SafeInv, TypeOK, AccountInv, Who, Request
<1>2. CASE CreateUser(e) /\ OkOrLost(Goto(r, "issue"), Return(r))
  <2>1. /\ ~users[e].exists
        /\ users' = [users EXCEPT ![e] =
             [exists |-> TRUE, active |-> TRUE, verified |-> FALSE,
              profile |-> 0]]
        /\ users' \in [Emails -> Row]
    BY <1>1, <1>2 DEF CreateUser, UserEmailExists, SafeInv, TypeOK, Row
  <2>2. /\ req' = [req EXCEPT ![r] = req'[r]]
        /\ \/ req'[r] = [req[r] EXCEPT !.at = "issue"]
           \/ req'[r] = Idle
        /\ faults' \in faults .. MaxFaults
    BY <1>2, AccountsAssumption
    DEF OkOrLost, Goto, Return, Fault, SafeInv, TypeOK, AccountsAssumption
  <2>3. /\ req'[r] \in Request
        /\ At(r)' \in {"issue", "idle"}
        /\ At(r)' = "issue" => Who(r)' = e
        /\ req'[r].asOf \in {0, req[r].asOf}
        /\ Who(r)' \in Emails
    BY <1>1, <2>2, IdleTyped DEF Request, Labels, At, Who
  <2>4. RequestInv(r)'
    <3>1. CASE req'[r] = Idle
      BY <1>1, <2>3, <3>1, IdleTyped DEF RequestInv, At, SafeInv, TypeOK
    <3>2. CASE req'[r] = [req[r] EXCEPT !.at = "issue"]
      <4>1. At(r)' = "issue" /\ Who(r)' = e /\ req'[r].asOf = req[r].asOf
        BY <1>1, <3>2 DEF At, Who, Request
      <4>2. users'[e].exists
        BY <1>1, <2>1 DEF SafeInv, TypeOK
      <4>3. QED
        BY <1>1, <4>1, <4>2 DEF RequestInv
    <3>3. QED
      BY <2>2, <3>1, <3>2
  <2>5. RowsKeep
    BY <1>1, <2>1 DEF RowsKeep, SafeInv, TypeOK, AccountInv, CodesInv
  <2>6. UsedCodeVerifies'
    BY <1>1, <2>1, <2>2, UsedKeeps DEF SafeInv, TypeOK
  <2>7. Quiet(r)
    BY <1>1, <2>1, <2>2, <2>3, <2>4, <2>5 DEF Quiet, SafeInv, TypeOK
  <2>8. QED
    BY <2>6, <2>7, QuietKeeps
<1>3. CASE Return(r) /\ UNCHANGED <<users, faults>>
  BY <1>1, <1>3, ReturnKeeps
<1>4. QED
  BY <1>2, <1>3 DEF InsertUser

LEMMA MailCodeKeeps ==
  ASSUME SafeInv, NEW r \in Requests, MailCode(r) PROVE SafeInv'
<1>1. /\ UNCHANGED <<users, code, codeLeft, attempts, attemptsLeft, issued,
                     proved, uses, guesses, entered, faults>>
      /\ At(r) = "mail" /\ req[r] \in Request /\ Who(r) \in Emails
      /\ RequestInv(r)
      /\ mailed' = [mailed EXCEPT ![Who(r)] = @ \union {req[r].entry}]
      /\ req' = [req EXCEPT ![r] = req'[r]] /\ req'[r] = Idle
  BY DEF MailCode, Return, store, SafeInv, TypeOK, AccountInv, Who, Request
<1>2. req[r].entry \in 1 .. issued[Who(r)] /\ req[r].entry \in Nat
  BY <1>1 DEF RequestInv, Request
<1>3. mailed' \in [Emails -> SUBSET Nat]
  BY <1>1, <1>2 DEF SafeInv, TypeOK
<1>4. RequestInv(r)'
  BY <1>1, IdleTyped DEF RequestInv, At, Who, SafeInv, TypeOK, Request
<1>5. RowsKeep
  BY <1>1, <1>2 DEF RowsKeep, SafeInv, TypeOK, AccountInv, CodesInv
<1>6. faults' \in faults .. MaxFaults
  BY <1>1, AccountsAssumption DEF SafeInv, TypeOK, AccountsAssumption
<1>7. UsedCodeVerifies'
  BY <1>1, <1>6, UsedKeeps
<1>8. Quiet(r)
  BY <1>1, <1>3, <1>4, <1>5, <1>6, IdleTyped DEF Quiet, At, SafeInv, TypeOK
<1>9. QED
  BY <1>7, <1>8, QuietKeeps

(* ConfirmUser: a code was accepted, so the account may be marked.         *)
LEMMA ConfirmUserKeeps ==
  ASSUME SafeInv, NEW r \in Requests, ConfirmUser(r) PROVE SafeInv'
<1> DEFINE e == Who(r)
<1>1. /\ UNCHANGED <<code, codeLeft, attempts, attemptsLeft, issued, mailed,
                     proved, uses, guesses, entered>>
      /\ At(r) = "confirm" /\ req[r] \in Request /\ e \in Emails
      /\ RequestInv(r)
      /\ req' = [req EXCEPT ![r] = req'[r]]
      /\ req'[r] = [req[r] EXCEPT !.at = "verified"]
      /\ faults' \in faults .. MaxFaults
      /\ \/ /\ users' = [users EXCEPT ![e].verified = TRUE]
            /\ UNCHANGED faults
         \/ UNCHANGED users /\ Fault
  BY AccountsAssumption
  DEF ConfirmUser, OkOrLost, Goto, Fault, store, history, SafeInv, TypeOK,
      AccountInv, Who, Request, AccountsAssumption
<1>2. /\ req'[r] \in Request
      /\ At(r)' = "verified" /\ Who(r)' = e /\ req'[r].asOf = req[r].asOf
  BY <1>1 DEF Request, Labels, At, Who
<1>3. /\ users' \in [Emails -> Row]
      /\ \A a \in Emails :
           /\ users'[a].exists = users[a].exists
           /\ users'[a].active = users[a].active
           /\ users[a].verified => users'[a].verified
           /\ users'[a].verified => users[a].verified \/ a = e
      /\ faults' = faults => users'[e].verified
  <2>1. CASE users' = [users EXCEPT ![e].verified = TRUE]
    <3>1. users \in [Emails -> Row]
      BY DEF SafeInv, TypeOK
    <3>2. /\ users'[e] = [users[e] EXCEPT !.verified = TRUE]
          /\ \A a \in Emails \ {e} : users'[a] = users[a]
          /\ users[e] \in Row
      BY <1>1, <2>1, <3>1
    <3>3. /\ users'[e] \in Row /\ users'[e].verified
          /\ users'[e].exists = users[e].exists
          /\ users'[e].active = users[e].active
      BY <3>2 DEF Row
    <3>4. QED
      BY <1>1, <2>1, <3>1, <3>2, <3>3
  <2>2. CASE UNCHANGED users /\ Fault
    BY <2>2, AccountsAssumption
    DEF SafeInv, TypeOK, Fault, AccountsAssumption
  <2>3. QED
    BY <1>1, <2>1, <2>2
<1>4. proved[e] /\ users[e].exists
  BY <1>1 DEF RequestInv
<1>5. RequestInv(r)'
  BY <1>1, <1>2, <1>3, <1>4 DEF RequestInv
<1>6. RowsKeep
  BY <1>1, <1>3, <1>4 DEF RowsKeep, SafeInv, AccountInv, CodesInv
<1>7. UsedCodeVerifies'
  <2> SUFFICES ASSUME NEW a \in Emails, faults' = 0, uses[a] > 0,
                      users'[a].active, ~users'[a].verified
               PROVE  \E s \in Requests :
                        At(s)' \in {"forget", "confirm"} /\ Who(s)' = a
    BY <1>1 DEF UsedCodeVerifies
  <2>1. faults = 0 /\ a # e
    BY <1>1, <1>3, AccountsAssumption DEF SafeInv, TypeOK, AccountsAssumption
  <2>2. users[a].active /\ ~users[a].verified
    BY <1>3
  <2>3. PICK s \in Requests : At(s) \in {"forget", "confirm"} /\ Who(s) = a
    BY <2>1, <2>2 DEF SafeInv, AccountInv, UsedCodeVerifies
  <2>4. s # r /\ req'[s] = req[s]
    BY <1>1, <2>1, <2>3 DEF SafeInv, TypeOK
  <2>5. QED
    BY <2>3, <2>4 DEF At, Who
<1>8. Quiet(r)
  BY <1>1, <1>2, <1>3, <1>5, <1>6 DEF Quiet, SafeInv, TypeOK
<1>9. QED
  BY <1>7, <1>8, QuietKeeps

(* UpdateUser and the two calls of DeleteUser, which may write back an     *)
(* older row, but an inactive one.                                         *)
LEMMA UpdateUserKeeps ==
  ASSUME SafeInv, NEW r \in Requests, UpdateUser(r) PROVE SafeInv'
<1> DEFINE e == Who(r)
<1>1. /\ UNCHANGED <<code, codeLeft, attempts, attemptsLeft, issued, mailed,
                     proved, uses, guesses, entered, faults>>
      /\ At(r) = "update" /\ req[r] \in Request /\ e \in Emails
      /\ RequestInv(r)
      /\ req' = [req EXCEPT ![r] = req'[r]] /\ req'[r] = Idle
      /\ users' = [users EXCEPT ![e].profile = req[r].entry]
      /\ faults' \in faults .. MaxFaults
  BY AccountsAssumption
  DEF UpdateUser, Return, store, history, SafeInv, TypeOK, AccountInv, Who,
      Request, AccountsAssumption
<1>2. /\ users' \in [Emails -> Row]
      /\ \A a \in Emails : /\ users'[a].exists = users[a].exists
                           /\ users'[a].active = users[a].active
                           /\ users'[a].verified = users[a].verified
  BY <1>1 DEF SafeInv, TypeOK, Row, RequestInv
<1>3. RequestInv(r)'
  BY <1>1, IdleTyped DEF RequestInv, At, Who, SafeInv, TypeOK, Request
<1>4. RowsKeep
  BY <1>1, <1>2 DEF RowsKeep, SafeInv, AccountInv, CodesInv
<1>5. UsedCodeVerifies'
  BY <1>1, <1>2, UsedKeeps
<1>6. Quiet(r)
  BY <1>1, <1>2, <1>3, <1>4, IdleTyped DEF Quiet, At, SafeInv, TypeOK
<1>7. QED
  BY <1>5, <1>6, QuietKeeps

LEMMA SelectUserKeeps ==
  ASSUME SafeInv, NEW r \in Requests, SelectUser(r) PROVE SafeInv'
<1>1. /\ UNCHANGED <<users, code, codeLeft, attempts, attemptsLeft, issued,
                     mailed, proved, uses, guesses, entered, faults>>
      /\ At(r) = "select" /\ req[r] \in Request /\ Who(r) \in Emails
      /\ RequestInv(r)
      /\ req' = [req EXCEPT ![r].at = "save", ![r].seen = users[Who(r)]]
      /\ faults' \in faults .. MaxFaults
      /\ users[Who(r)] \in Row
  BY AccountsAssumption
  DEF SelectUser, store, history, SafeInv, TypeOK, AccountInv, Who, Request,
      AccountsAssumption
<1>2. /\ req' = [req EXCEPT ![r] = req'[r]]
      /\ req'[r] = [req[r] EXCEPT !.at = "save", !.seen = users[Who(r)]]
  BY <1>1 DEF SafeInv, TypeOK
<1>3. /\ req'[r] \in Request
      /\ At(r)' = "save" /\ Who(r)' = Who(r) /\ req'[r].asOf = req[r].asOf
      /\ req'[r].seen = users[Who(r)]
  <2> DEFINE q == req[r]
             row == users[Who(r)]
  <2>1. [q EXCEPT !.at = "save", !.seen = row] \in Request
    <3>1. q \in Request /\ row \in Row
      BY <1>1
    <3> HIDE DEF row, q
    <3>2. QED
      BY <3>1 DEF Request, Labels
  <2>2. /\ req'[r].at = "save" /\ req'[r].who = q.who
        /\ req'[r].asOf = q.asOf /\ req'[r].seen = row
    <3>1. q \in Request /\ req'[r] = [q EXCEPT !.at = "save", !.seen = row]
      BY <1>1, <1>2
    <3> HIDE DEF row, q
    <3>2. QED
      BY <3>1 DEF Request
  <2>3. QED
    BY <1>2, <2>1, <2>2 DEF At, Who
<1>4. RequestInv(r)'
  <2>1. users[Who(r)].verified => proved[Who(r)]
    BY <1>1 DEF SafeInv, AccountInv, CodesInv
  <2>2. QED
    BY <1>1, <1>3, <2>1 DEF RequestInv
<1>5. RowsKeep
  BY <1>1, <1>2 DEF RowsKeep, SafeInv, AccountInv, CodesInv
<1>6. UsedCodeVerifies'
  BY <1>1, <1>2, UsedKeeps
<1>7. Quiet(r)
  BY <1>1, <1>2, <1>3, <1>4, <1>5 DEF Quiet, SafeInv, TypeOK
<1>8. QED
  BY <1>6, <1>7, QuietKeeps

LEMMA SaveUserKeeps ==
  ASSUME SafeInv, NEW r \in Requests, SaveUser(r) PROVE SafeInv'
<1> DEFINE e == Who(r)
<1>1. /\ UNCHANGED <<code, codeLeft, attempts, attemptsLeft, issued, mailed,
                     proved, uses, guesses, entered, faults>>
      /\ At(r) = "save" /\ req[r] \in Request /\ e \in Emails
      /\ RequestInv(r)
      /\ req' = [req EXCEPT ![r] = req'[r]] /\ req'[r] = Idle
      /\ users' = [users EXCEPT ![e] = [req[r].seen EXCEPT !.active = FALSE]]
      /\ faults' \in faults .. MaxFaults
  BY AccountsAssumption
  DEF SaveUser, Return, store, history, SafeInv, TypeOK, AccountInv, Who,
      Request, AccountsAssumption
<1>2. /\ req[r].seen \in Row /\ req[r].seen.exists
      /\ req[r].seen.verified => proved[e]
  BY <1>1 DEF RequestInv, Request
<1>3. /\ users' \in [Emails -> Row]
      /\ users'[e].exists /\ ~users'[e].active
      /\ users'[e].verified = req[r].seen.verified
      /\ \A a \in Emails \ {e} : users'[a] = users[a]
  BY <1>1, <1>2 DEF SafeInv, TypeOK, Row
<1>4. RequestInv(r)'
  BY <1>1, IdleTyped DEF RequestInv, At, Who, SafeInv, TypeOK, Request
<1>5. RowsKeep
  BY <1>1, <1>2, <1>3 DEF RowsKeep, SafeInv, AccountInv, CodesInv
<1>6. UsedCodeVerifies'
  BY <1>1, <1>3, UsedKeeps
<1>7. Quiet(r)
  BY <1>1, <1>3, <1>4, <1>5, IdleTyped DEF Quiet, At, SafeInv, TypeOK
<1>8. QED
  BY <1>6, <1>7, QuietKeeps

(* A request that fails, or says that the account is verified.             *)
LEMMA EndKeeps ==
  ASSUME SafeInv, NEW r \in Requests, RequestFails(r) \/ AnswerVerified(r)
  PROVE  SafeInv'
  BY ReturnKeeps DEF RequestFails, AnswerVerified

-----------------------------------------------------------------------------
(* The steps that touch the codes: each changes one account's code, its    *)
(* counters and the request that makes it.                                 *)
SameCode(e) ==
  /\ code'[e] = code[e] /\ codeLeft'[e] = codeLeft[e]
  /\ attempts'[e] = attempts[e] /\ attemptsLeft'[e] = attemptsLeft[e]
  /\ issued'[e] = issued[e] /\ proved'[e] = proved[e]
  /\ uses'[e] = uses[e] /\ guesses'[e] = guesses[e]
  /\ entered'[e] = entered[e]

CodeStep(r, e) ==
  /\ e = Who(r)
  /\ TypeOK'
  /\ UNCHANGED <<users, mailed>>
  /\ \A a \in Emails \ {e} : SameCode(a)
  /\ issued[e] <= issued'[e]
  /\ proved[e] => proved'[e]
  /\ faults <= faults'
  /\ issued'[e] = issued[e] => GrowsOnly(e)
  /\ req' = [req EXCEPT ![r] = req'[r]]
  /\ At(r) \notin {"idle", "insert"}
  /\ At(r)' \in {"expire", "get", "forget"} => Who(r)' = e
  /\ RequestInv(r)'

AccountKept(e) ==
  CountInv(e) /\ UseInv(e) /\ CodesInv(e) /\ guesses[e] <= MaxAttempts

LEMMA CodeKeeps ==
  ASSUME SafeInv, NEW r \in Requests, NEW e \in Emails, CodeStep(r, e),
         AccountKept(e)', UsedCodeVerifies'
  PROVE  SafeInv'
<1>1. /\ users[e].exists
      /\ \A a \in Emails : issued[a] \in Nat /\ uses[a] \in Nat
      /\ faults \in Nat /\ faults' \in Nat /\ faults <= faults'
      /\ TypeOK' /\ issued' \in [Emails -> Nat]
  BY DEF CodeStep, SafeInv, TypeOK, Request, AccountInv, RequestInv, Who
<1>2. ASSUME NEW s \in Requests PROVE RequestInv(s)'
  <2>1. CASE s = r
    BY <2>1 DEF CodeStep
  <2>2. CASE s # r
    <3>1. \A a \in Emails : /\ users[a].exists => users'[a].exists
                            /\ issued[a] <= issued'[a]
                            /\ mailed[a] \subseteq mailed'[a]
                            /\ proved[a] => proved'[a]
                            /\ issued'[a] = issued[a] => GrowsOnly(a)
      BY <1>1 DEF CodeStep, SameCode, GrowsOnly
    <3>2. QED
      BY <1>1, <2>2, <3>1, OthersKeep DEF CodeStep
  <2>3. QED
    BY <2>1, <2>2
<1>3. ASSUME NEW a \in Emails, a # e PROVE AccountKept(a)'
  <2>1. Pending(a)' = Pending(a) /\ Accepted(a)' = Accepted(a)
    BY <1>3 DEF CodeStep, SameCode, Pending, Accepted, At, Who, SafeInv, TypeOK
  <2>2. AccountKept(a)
    BY DEF SafeInv, AccountInv, AccountKept, GuessBound
  <2>3. SameCode(a) /\ UNCHANGED <<users, mailed>>
    BY <1>3 DEF CodeStep
  <2>4. CountInv(a)'
    BY <2>1, <2>2, <2>3
    DEF AccountKept, CountInv, Otp!CounterOutlivesCode, SameCode
  <2>5. UseInv(a)'
    BY <1>1, <2>1, <2>2, <2>3, Finite DEF AccountKept, UseInv, SameCode
  <2>6. CodesInv(a)'
    BY <2>2, <2>3 DEF AccountKept, CodesInv, SameCode
  <2>7. QED
    BY <2>2, <2>3, <2>4, <2>5, <2>6 DEF AccountKept, SameCode
<1>4. ASSUME NEW a \in Emails PROVE AccountKept(a)'
  BY <1>3
<1>5. GuessBound'
  BY <1>4 DEF AccountKept, GuessBound
<1>6. \A a \in Emails : uses'[a] > 0 => users'[a].exists
  BY <1>1 DEF CodeStep, SameCode, SafeInv
<1>7. QED
  BY <1>1, <1>2, <1>4, <1>5, <1>6 DEF SafeInv, AccountInv, AccountKept

(* What is known of the account and of the request before such a step.     *)
LEMMA Before ==
  ASSUME SafeInv, NEW r \in Requests, At(r) \notin {"idle", "insert"}
  PROVE  /\ \E e \in Emails : e = Who(r)
         /\ req[r] \in Request /\ RequestInv(r)
         /\ AccountKept(Who(r)) /\ users[Who(r)].exists
  BY DEF SafeInv, TypeOK, Request, AccountInv, RequestInv, Who, AccountKept,
     GuessBound

LEMMA Types ==
  ASSUME SafeInv
  PROVE  /\ code \in [Emails -> Nat] /\ codeLeft \in [Emails -> 0 .. TTL]
         /\ attempts \in [Emails -> Nat]
         /\ attemptsLeft \in [Emails -> 0 .. TTL]
         /\ issued \in [Emails -> Nat] /\ uses \in [Emails -> Nat]
         /\ guesses \in [Emails -> Nat]
         /\ entered \in [Emails -> 0 .. MaxAttempts + 1]
         /\ proved \in [Emails -> BOOLEAN]
         /\ req \in [Requests -> Request]
         /\ faults \in Nat /\ faults <= MaxFaults
         /\ MaxAttempts \in Nat \ {0} /\ TTL \in Nat \ {0} /\ MaxFaults \in Nat
  BY AccountsAssumption
  DEF SafeInv, TypeOK, Otp!StoreTypeOK, AccountsAssumption

(* Listener of UserCreated: nothing entered earlier counts against a new   *)
(* code.                                                                   *)
LEMMA IssueCodeKeeps ==
  ASSUME SafeInv, NEW r \in Requests, IssueCode(r) PROVE SafeInv'
<1>1. At(r) = "issue" /\ req[r] \in Request /\ RequestInv(r)
  BY Before DEF IssueCode
<1>2. PICK e \in Emails : e = Who(r)
  BY <1>1, Before
<1>3. PICK n \in Nat \ {0} : n = issued[e] + 1
  BY Types
<1> DEFINE q == [req[r] EXCEPT !.at = "mail", !.entry = n]
<1>4. /\ UNCHANGED <<users, mailed, proved>>
      /\ code' = [code EXCEPT ![e] = n]
      /\ codeLeft' = [codeLeft EXCEPT ![e] = TTL]
      /\ attempts' = [attempts EXCEPT ![e] = 0]
      /\ attemptsLeft' = [attemptsLeft EXCEPT ![e] = 0]
      /\ issued' = [issued EXCEPT ![e] = n]
      /\ uses' = [uses EXCEPT ![e] = 0]
      /\ guesses' = [guesses EXCEPT ![e] = 0]
      /\ entered' = [entered EXCEPT ![e] = 0]
      /\ \/ /\ req' = [req EXCEPT ![r].at = "mail", ![r].entry = n]
            /\ UNCHANGED faults
         \/ Return(r) /\ Fault
  BY <1>2, <1>3 DEF IssueCode, Otp!Generate, OkOrLost
<1>5. faults' \in 0 .. MaxFaults /\ faults <= faults'
  BY <1>4, Types DEF Fault
<1>6. req' = [req EXCEPT ![r] = req'[r]] /\ (req'[r] = q \/ req'[r] = Idle)
  <2>1. CASE req' = [req EXCEPT ![r].at = "mail", ![r].entry = n]
    BY <2>1, Types
  <2>2. CASE Return(r)
    BY <2>2, Types DEF Return
  <2>3. QED
    BY <1>4, <2>1, <2>2
<1>7. /\ q \in Request /\ q.at = "mail" /\ q.who = e /\ q.entry = n
      /\ q.asOf = req[r].asOf
  BY <1>1, <1>2, <1>3 DEF Request, Labels, Who
<1>8. req'[r] \in Request /\ At(r)' \in {"mail", "idle"}
  BY <1>6, <1>7, IdleTyped DEF At
<1>9. /\ code'[e] = n /\ codeLeft'[e] = TTL /\ attempts'[e] = 0
      /\ attemptsLeft'[e] = 0 /\ issued'[e] = n /\ uses'[e] = 0
      /\ guesses'[e] = 0 /\ entered'[e] = 0
  BY <1>4, Types
<1>10. RequestInv(r)'
  <2>1. CASE req'[r] = Idle
    <3>1. issued' \in [Emails -> Nat] /\ Who(r)' \in Emails
      BY <1>4, <2>1, IdleTyped, Types DEF Who, Request
    <3>2. QED
      BY <2>1, <3>1, IdleTyped DEF RequestInv, At
  <2>2. CASE req'[r] = q
    <3>1. At(r)' = "mail" /\ Who(r)' = e /\ req'[r].entry = n
          /\ req'[r].asOf = req[r].asOf
      BY <1>7, <2>2 DEF At, Who
    <3>2. /\ req[r].asOf <= issued[e] /\ req[r].asOf \in Nat
          /\ issued[e] \in Nat /\ users[e].exists
      BY <1>1, <1>2, Types DEF RequestInv, Request
    <3>3. QED
      BY <1>3, <1>4, <1>9, <3>1, <3>2 DEF RequestInv
  <2>3. QED
    BY <1>6, <2>1, <2>2
<1>11. TypeOK'
  BY <1>3, <1>4, <1>5, <1>6, <1>8, Types DEF SafeInv, TypeOK, Otp!StoreTypeOK
<1>12. CodeStep(r, e)
  BY <1>1, <1>2, <1>3, <1>4, <1>5, <1>6, <1>8, <1>9, <1>10, <1>11, Types
  DEF CodeStep, SameCode, GrowsOnly
<1>13. Pending(e)' = {}
  <2>1. \A s \in Requests : req[s].asOf <= issued[Who(s)]
    BY DEF SafeInv, AccountInv, RequestInv
  <2>2. \A s \in Requests \ {r} : req'[s] = req[s] /\ req[s].asOf \in Nat
    BY <1>6, Types DEF Request
  <2>3. issued[e] \in Nat /\ issued'[e] = issued[e] + 1
    BY <1>3, <1>9, Types
  <2> HIDE DEF q
  <2>4. ASSUME NEW s \in Pending(e)' PROVE FALSE
    <3>1. s \in Requests /\ s # r
      BY <1>8, <2>4 DEF Pending
    <3>2. req'[s].asOf = issued'[e] /\ req'[s].who = e
      BY <2>4 DEF Pending, Who
    <3>3. QED
      BY <2>1, <2>2, <2>3, <3>1, <3>2 DEF Who
  <2>5. QED
    BY <2>4
<1>14. CountInv(e)'
  BY <1>3, <1>9, <1>13, FS_EmptySet, Types
  DEF CountInv, Otp!CounterOutlivesCode
<1>15. UseInv(e)'
  BY <1>5, <1>9, Finite, Types DEF UseInv
<1>16. CodesInv(e)'
  <2>1. mailed[e] \subseteq 1 .. issued[e] /\ (users[e].verified => proved[e])
    BY DEF SafeInv, AccountInv, CodesInv
  <2>2. QED
    BY <1>3, <1>4, <1>9, <2>1, Types DEF CodesInv
<1>17. UsedCodeVerifies'
  BY <1>1, <1>4, <1>5, <1>6, <1>9, UsedKeeps, Types
<1>18. AccountKept(e)'
  BY <1>9, <1>14, <1>15, <1>16, Types DEF AccountKept
<1>19. QED
  BY <1>12, <1>17, <1>18, CodeKeeps

(* An attempt is counted: the entry is compared later only if its number   *)
(* is within the limit.                                                    *)
LEMMA CountAttemptKeeps ==
  ASSUME SafeInv, NEW r \in Requests, CountAttempt(r) PROVE SafeInv'
<1>1. At(r) = "count" /\ req[r] \in Request /\ RequestInv(r)
  BY Before DEF CountAttempt
<1>2. PICK e \in Emails : e = Who(r)
  BY <1>1, Before
<1>3. PICK next \in {"expire", "lockOut", "get"} :
        next = AfterCount(attempts[e] + 1)
  BY DEF AfterCount
<1> DEFINE q == [req[r] EXCEPT !.at = next, !.asOf = issued[e]]
<1>4. /\ UNCHANGED <<users, mailed, proved, code, codeLeft, attemptsLeft,
                     issued, uses, guesses>>
      /\ attempts' = [attempts EXCEPT ![e] = @ + 1]
      /\ entered' = [entered EXCEPT ![e] = IF @ > MaxAttempts THEN @ ELSE @ + 1]
      /\ \/ /\ req' = [req EXCEPT ![r].at = next, ![r].asOf = issued[e]]
            /\ UNCHANGED faults
         \/ Return(r) /\ Fault
  BY <1>2, <1>3 DEF CountAttempt, Otp!CountAttempt, Otp!codeKey, OkOrLost
<1>5. faults' \in 0 .. MaxFaults /\ faults <= faults'
  BY <1>4, Types DEF Fault
<1>6. req' = [req EXCEPT ![r] = req'[r]] /\ (req'[r] = q \/ req'[r] = Idle)
  <2>1. CASE req' = [req EXCEPT ![r].at = next, ![r].asOf = issued[e]]
    BY <2>1, Types
  <2>2. CASE Return(r)
    BY <2>2, Types DEF Return
  <2>3. QED
    BY <1>4, <2>1, <2>2
<1>7. /\ q \in Request /\ q.at = next /\ q.who = e /\ q.asOf = issued[e]
      /\ q.entry = req[r].entry
  BY <1>1, <1>2, Types DEF Request, Labels, Who
<1> HIDE DEF q
<1>8. /\ req'[r] \in Request
      /\ \/ At(r)' = "idle"
         \/ At(r)' = next /\ Who(r)' = e
  BY <1>6, <1>7, IdleTyped DEF At, Who
<1>9. RequestInv(r)'
  <2>1. CASE req'[r] = Idle
    <3>1. issued' \in [Emails -> Nat] /\ Who(r)' \in Emails
      BY <1>4, <2>1, IdleTyped, Types DEF Who, Request
    <3>2. QED
      BY <2>1, <3>1, IdleTyped DEF RequestInv, At
  <2>2. CASE req'[r] = q
    <3>1. /\ At(r)' = next /\ Who(r)' = e /\ req'[r].entry = req[r].entry
          /\ req'[r].asOf = issued[e]
      BY <1>7, <2>2 DEF At, Who
    <3>2. /\ req[r].entry \in mailed[e] \union {0} /\ users[e].exists
          /\ issued[e] \in Nat
      BY <1>1, <1>2, Types DEF RequestInv
    <3>3. next = "lockOut" => entered'[e] > MaxAttempts
      <4>1. next = "lockOut" => attempts[e] + 1 > MaxAttempts
        BY <1>3 DEF AfterCount
      <4>2. /\ attempts[e] <= entered[e] \/ entered[e] > MaxAttempts
            /\ entered'[e] = IF entered[e] > MaxAttempts THEN entered[e]
                                                        ELSE entered[e] + 1
            /\ attempts[e] \in Nat /\ entered[e] \in Nat /\ MaxAttempts \in Nat
        BY <1>1, <1>2, <1>4, Before, Types DEF AccountKept, CountInv
      <4>3. QED
        BY <4>1, <4>2
    <3>4. QED
      BY <1>4, <3>1, <3>2, <3>3 DEF RequestInv
  <2>3. QED
    BY <1>6, <2>1, <2>2
<1>10. /\ attempts'[e] = attempts[e] + 1 /\ attempts[e] \in Nat
       /\ entered'[e] = IF entered[e] > MaxAttempts THEN entered[e]
                                                    ELSE entered[e] + 1
       /\ entered[e] \in 0 .. MaxAttempts + 1
       /\ entered'[e] \in 0 .. MaxAttempts + 1
       /\ \A a \in Emails \ {e} : /\ attempts'[a] = attempts[a]
                                  /\ entered'[a] = entered[a]
       /\ attempts' \in [Emails -> Nat]
       /\ entered' \in [Emails -> 0 .. MaxAttempts + 1]
  BY <1>4, Types
<1>11. TypeOK'
  BY <1>4, <1>5, <1>6, <1>8, <1>10, Types
  DEF SafeInv, TypeOK, Otp!StoreTypeOK
<1>12. CodeStep(r, e)
  BY <1>1, <1>2, <1>4, <1>5, <1>6, <1>8, <1>9, <1>10, <1>11, Types
  DEF CodeStep, SameCode, GrowsOnly
<1>13. CountInv(e) /\ UseInv(e) /\ CodesInv(e) /\ guesses[e] <= MaxAttempts
  BY <1>1, <1>2, Before DEF AccountKept
<1>14. /\ Cardinality(Pending(e)') <= Cardinality(Pending(e)) + 1
       /\ next = "lockOut" => Cardinality(Pending(e)') <= Cardinality(Pending(e))
  <2>1. Pending(e)' \subseteq Pending(e) \union {r} /\ r \notin Pending(e)
    BY <1>1, <1>4, <1>6, Types DEF Pending, At, Who
  <2>2. CASE r \in Pending(e)'
    <3>1. next # "lockOut"
      BY <1>8, <2>2 DEF Pending, At
    <3>2. /\ IsFiniteSet(Pending(e) \union {r})
          /\ Cardinality(Pending(e) \union {r}) = Cardinality(Pending(e)) + 1
      BY <2>1, Finite, FS_AddElement
    <3>3. Cardinality(Pending(e)') <= Cardinality(Pending(e) \union {r})
      BY <2>1, <3>2, FS_Subset
    <3>4. QED
      BY <3>1, <3>2, <3>3
  <2>3. CASE r \notin Pending(e)'
    <3>1. Pending(e)' \subseteq Pending(e)
      BY <2>1, <2>3
    <3>2. Cardinality(Pending(e)') <= Cardinality(Pending(e))
      BY <3>1, Shrinks
    <3>3. QED
      BY <3>2, Finite
  <2>4. QED
    BY <2>2, <2>3
<1>15. next # "lockOut" => attempts[e] + 1 <= MaxAttempts
  BY <1>3, Types DEF AfterCount
<1>16. CountInv(e)'
  <2>1. /\ code'[e] = code[e] /\ codeLeft'[e] = codeLeft[e]
        /\ attemptsLeft'[e] = attemptsLeft[e] /\ guesses'[e] = guesses[e]
        /\ guesses[e] \in Nat
    BY <1>4, Types
  <2>2. Otp!CounterOutlivesCode(e)'
    BY <1>10, <1>13, <2>1 DEF CountInv, Otp!CounterOutlivesCode
  <2>3. code'[e] # 0 =>
          /\ guesses'[e] + Cardinality(Pending(e)') <= attempts'[e]
          /\ guesses'[e] + Cardinality(Pending(e)') <= MaxAttempts
    BY <1>3, <1>10, <1>13, <1>14, <1>15, <2>1, Finite, Types DEF CountInv
  <2>4. attempts'[e] <= entered'[e] \/ entered'[e] > MaxAttempts
    BY <1>10, <1>13, Types DEF CountInv
  <2>5. QED
    BY <2>2, <2>3, <2>4 DEF CountInv
<1>17. UseInv(e)'
  <2>1. Accepted(e) \subseteq Accepted(e)'
    BY <1>1, <1>4, <1>6, Types DEF Accepted, At, Who
  <2>2. Cardinality(Accepted(e)) <= Cardinality(Accepted(e)')
    BY <2>1, Shrinks
  <2>3. QED
    BY <1>4, <1>5, <1>13, <2>2, Finite, Types DEF UseInv
<1>18. CodesInv(e)'
  BY <1>4, <1>13 DEF CodesInv
<1>19. UsedCodeVerifies'
  BY <1>1, <1>4, <1>5, <1>6, UsedKeeps, Types
<1>20. AccountKept(e)'
  BY <1>4, <1>13, <1>16, <1>17, <1>18, Types DEF AccountKept
<1>21. QED
  BY <1>12, <1>19, <1>20, CodeKeeps

(* The counter gets its time to live, or EXPIRE fails.                     *)
LEMMA ExpireAttemptsKeeps ==
  ASSUME SafeInv, NEW r \in Requests, ExpireAttempts(r) PROVE SafeInv'
<1>1. At(r) = "expire" /\ req[r] \in Request /\ RequestInv(r)
  BY Before DEF ExpireAttempts
<1>2. PICK e \in Emails : e = Who(r)
  BY <1>1, Before
<1>3. /\ UNCHANGED <<users, mailed, proved, code, codeLeft, attempts,
                     issued, uses, guesses, entered>>
      /\ \/ /\ attemptsLeft' = [attemptsLeft EXCEPT ![e] =
                                  IF attempts[e] = 0 THEN 0 ELSE TTL]
            /\ UNCHANGED faults
         \/ UNCHANGED attemptsLeft /\ Fault
      /\ req' = [req EXCEPT ![r].at = "get"]
  BY <1>2
  DEF ExpireAttempts, Otp!ExpireAttempts, Otp!codeKey, OkOrLost, Goto, store,
      history
<1>4. faults' \in 0 .. MaxFaults /\ faults <= faults'
  BY <1>3, Types DEF Fault
<1>5. /\ req' = [req EXCEPT ![r] = req'[r]]
      /\ req'[r] = [req[r] EXCEPT !.at = "get"]
  BY <1>3, Types
<1>6. /\ req'[r] \in Request /\ At(r)' = "get" /\ Who(r)' = e
      /\ req'[r].asOf = req[r].asOf /\ req'[r].entry = req[r].entry
  BY <1>1, <1>2, <1>5 DEF Request, Labels, At, Who
<1>7. RequestInv(r)'
  BY <1>1, <1>2, <1>3, <1>6 DEF RequestInv
<1>8. /\ attemptsLeft' \in [Emails -> 0 .. TTL]
      /\ \A a \in Emails \ {e} : attemptsLeft'[a] = attemptsLeft[a]
      /\ \/ attemptsLeft'[e] = attemptsLeft[e]
         \/ attemptsLeft'[e] = IF attempts[e] = 0 THEN 0 ELSE TTL
  BY <1>3, Types
<1>9. TypeOK'
  BY <1>3, <1>4, <1>5, <1>6, <1>8, Types DEF SafeInv, TypeOK, Otp!StoreTypeOK
<1>10. CodeStep(r, e)
  BY <1>1, <1>2, <1>3, <1>4, <1>5, <1>6, <1>7, <1>8, <1>9, Types
  DEF CodeStep, SameCode, GrowsOnly
<1>11. CountInv(e) /\ UseInv(e) /\ CodesInv(e) /\ guesses[e] <= MaxAttempts
  BY <1>1, <1>2, Before DEF AccountKept
<1>12. Pending(e)' = Pending(e) /\ Accepted(e)' = Accepted(e)
  BY <1>1, <1>2, <1>3, <1>5, <1>6, Types DEF Pending, Accepted, At, Who
<1>13. CountInv(e)'
  <2>1. Otp!CounterOutlivesCode(e)'
    BY <1>3, <1>8, <1>11, Types DEF CountInv, Otp!CounterOutlivesCode
  <2>2. QED
    BY <1>3, <1>11, <1>12, <2>1 DEF CountInv
<1>14. UseInv(e)'
  BY <1>3, <1>4, <1>11, <1>12, Finite, Types DEF UseInv
<1>15. CodesInv(e)'
  BY <1>3, <1>11 DEF CodesInv
<1>16. UsedCodeVerifies'
  <2>1. faults' \in faults .. MaxFaults
    BY <1>4, Types
  <2>2. UNCHANGED <<users, uses>>
    BY <1>3
  <2>3. QED
    BY <1>1, <1>5, <2>1, <2>2, UsedKeeps
<1>17. AccountKept(e)'
  BY <1>3, <1>11, <1>13, <1>14, <1>15 DEF AccountKept
<1>18. QED
  BY <1>10, <1>16, <1>17, CodeKeeps

(* Too many attempts: the code and the counter go, or DEL fails.           *)
LEMMA LockOutKeeps ==
  ASSUME SafeInv, NEW r \in Requests, LockOut(r) PROVE SafeInv'
<1>1. At(r) = "lockOut" /\ req[r] \in Request /\ RequestInv(r)
  BY Before DEF LockOut
<1>2. PICK e \in Emails : e = Who(r)
  BY <1>1, Before
<1>3. /\ UNCHANGED <<users, mailed, proved, issued, uses, guesses, entered>>
      /\ \/ /\ code' = [code EXCEPT ![e] = 0]
            /\ codeLeft' = [codeLeft EXCEPT ![e] = 0]
            /\ attempts' = [attempts EXCEPT ![e] = 0]
            /\ attemptsLeft' = [attemptsLeft EXCEPT ![e] = 0]
            /\ UNCHANGED faults
         \/ UNCHANGED <<code, codeLeft, attempts, attemptsLeft>> /\ Fault
      /\ req' = [req EXCEPT ![r] = Idle]
  BY <1>2 DEF LockOut, Otp!Forget, OkOrLost, Return, store, history
<1>4. /\ faults' \in 0 .. MaxFaults /\ faults' \in faults .. MaxFaults
      /\ faults <= faults'
  BY <1>3, Types DEF Fault
<1>5. req' = [req EXCEPT ![r] = req'[r]] /\ req'[r] = Idle
  BY <1>3, Types
<1>6. RequestInv(r)'
  <2>1. issued' \in [Emails -> Nat] /\ Who(r)' \in Emails
    BY <1>3, <1>5, IdleTyped, Types DEF Who, Request
  <2>2. QED
    BY <1>5, <2>1, IdleTyped DEF RequestInv, At
<1>7. /\ code' \in [Emails -> Nat] /\ codeLeft' \in [Emails -> 0 .. TTL]
      /\ attempts' \in [Emails -> Nat]
      /\ attemptsLeft' \in [Emails -> 0 .. TTL]
      /\ \A a \in Emails \ {e} :
           /\ code'[a] = code[a] /\ codeLeft'[a] = codeLeft[a]
           /\ attempts'[a] = attempts[a] /\ attemptsLeft'[a] = attemptsLeft[a]
      /\ \/ /\ code'[e] = 0 /\ codeLeft'[e] = 0
            /\ attempts'[e] = 0 /\ attemptsLeft'[e] = 0
         \/ /\ code'[e] = code[e] /\ codeLeft'[e] = codeLeft[e]
            /\ attempts'[e] = attempts[e] /\ attemptsLeft'[e] = attemptsLeft[e]
  BY <1>3, Types
<1>8. TypeOK'
  BY <1>3, <1>4, <1>5, <1>7, IdleTyped, Types
  DEF SafeInv, TypeOK, Otp!StoreTypeOK
<1>9. CodeStep(r, e)
  BY <1>1, <1>2, <1>3, <1>4, <1>5, <1>6, <1>7, <1>8, IdleTyped, Types
  DEF CodeStep, SameCode, At, GrowsOnly
<1>10. CountInv(e) /\ UseInv(e) /\ CodesInv(e) /\ guesses[e] <= MaxAttempts
  BY <1>1, <1>2, Before DEF AccountKept
<1>11. Pending(e)' \subseteq Pending(e) /\ Accepted(e) \subseteq Accepted(e)'
  BY <1>1, <1>3, <1>5, IdleTyped, Types DEF Pending, Accepted, At, Who
<1>12. /\ Cardinality(Pending(e)') <= Cardinality(Pending(e))
       /\ Cardinality(Accepted(e)) <= Cardinality(Accepted(e)')
  BY <1>11, Shrinks
<1>13. CountInv(e)'
  <2>1. Otp!CounterOutlivesCode(e)'
    BY <1>7, <1>10 DEF CountInv, Otp!CounterOutlivesCode
  <2>2. code'[e] # 0 => code'[e] = code[e] /\ attempts'[e] = attempts[e]
    BY <1>7
  <2>3. attempts'[e] <= entered'[e] \/ entered'[e] > MaxAttempts
    BY <1>3, <1>7, <1>10, Types DEF CountInv
  <2>4. guesses'[e] = guesses[e] /\ guesses[e] \in Nat /\ attempts[e] \in Nat
    BY <1>3, Types
  <2>5. QED
    BY <1>10, <1>12, <2>1, <2>2, <2>3, <2>4, Finite, Types DEF CountInv
<1>14. UseInv(e)'
  <2>1. code'[e] # 0 => code[e] # 0
    BY <1>7
  <2>2. uses'[e] = uses[e] /\ uses[e] \in Nat
    BY <1>3, Types
  <2>3. QED
    BY <1>4, <1>10, <1>12, <2>1, <2>2, Finite, Types DEF UseInv
<1>15. CodesInv(e)'
  BY <1>3, <1>7, <1>10 DEF CodesInv
<1>16. UsedCodeVerifies'
  <2>1. UNCHANGED <<users, uses>>
    BY <1>3
  <2>2. QED
    BY <1>1, <1>4, <1>5, <2>1, UsedKeeps
<1>17. AccountKept(e)'
  BY <1>3, <1>10, <1>13, <1>14, <1>15 DEF AccountKept
<1>18. QED
  BY <1>9, <1>16, <1>17, CodeKeeps

(* The comparison.  A code that is accepted was mailed to its account.     *)
LEMMA CheckCodeKeeps ==
  ASSUME SafeInv, NEW r \in Requests, CheckCode(r) PROVE SafeInv'
<1>1. At(r) = "get" /\ req[r] \in Request /\ RequestInv(r)
  BY Before DEF CheckCode
<1>2. PICK e \in Emails : e = Who(r)
  BY <1>1, Before
<1>3. /\ UNCHANGED <<users, mailed, code, codeLeft, attempts, attemptsLeft,
                     issued, entered, faults>>
      /\ guesses' = [guesses EXCEPT ![e] =
                       IF code[e] # 0 /\ req[r].asOf = issued[e]
                         THEN @ + 1 ELSE @]
      /\ IF code[e] # 0 /\ req[r].entry = code[e]
           THEN /\ uses' = [uses EXCEPT ![e] = @ + 1]
                /\ proved' = [proved EXCEPT ![e] =
                                @ \/ req[r].entry \in mailed[e]]
                /\ req' = [req EXCEPT ![r].at = "forget"]
           ELSE UNCHANGED <<uses, proved>> /\ req' = [req EXCEPT ![r] = Idle]
  BY <1>2 DEF CheckCode, Otp!Matches, Goto, Return, store
<1> DEFINE accepted == code[e] # 0 /\ req[r].entry = code[e]
           q == [req[r] EXCEPT !.at = "forget"]
<1>4. /\ q \in Request /\ q.at = "forget" /\ q.who = e
      /\ q.asOf = req[r].asOf /\ q.entry = req[r].entry
  BY <1>1, <1>2 DEF Request, Labels, Who
<1>5. /\ req' = [req EXCEPT ![r] = req'[r]]
      /\ accepted => req'[r] = q
      /\ ~accepted => req'[r] = Idle
  BY <1>3, Types
<1> HIDE DEF q
<1>6. accepted => req[r].entry \in mailed[e]
  BY <1>1, <1>2 DEF RequestInv
<1>7. /\ guesses' \in [Emails -> Nat] /\ uses' \in [Emails -> Nat]
      /\ proved' \in [Emails -> BOOLEAN]
      /\ \A a \in Emails \ {e} : /\ guesses'[a] = guesses[a]
                                 /\ uses'[a] = uses[a]
                                 /\ proved'[a] = proved[a]
  <2>1. guesses' \in [Emails -> Nat] /\ uses' \in [Emails -> Nat]
    BY <1>3, Types
  <2>2. \A a \in Emails \ {e} : guesses'[a] = guesses[a] /\ uses'[a] = uses[a]
    BY <1>3, Types
  <2>3. PICK b \in BOOLEAN : b = (proved[e] \/ req[r].entry \in mailed[e])
    OBVIOUS
  <2>4. proved' = [proved EXCEPT ![e] = b] \/ proved' = proved
    BY <1>3, <2>3, Zenon
  <2>5. /\ proved' \in [Emails -> BOOLEAN]
        /\ \A a \in Emails \ {e} : proved'[a] = proved[a]
    BY <2>4, Types
  <2>6. QED
    BY <2>1, <2>2, <2>5
<1>8. guesses'[e] = IF code[e] # 0 /\ req[r].asOf = issued[e]
                      THEN guesses[e] + 1 ELSE guesses[e]
  BY <1>3, Types
<1>9. /\ accepted => uses'[e] = uses[e] + 1
      /\ ~accepted => uses'[e] = uses[e]
  BY <1>3, Types
<1>10. /\ accepted => proved'[e]
       /\ proved[e] => proved'[e]
  BY <1>3, <1>6, Types
<1> HIDE DEF accepted
<1>11. RequestInv(r)'
  <2>1. CASE accepted
    <3>1. At(r)' = "forget" /\ Who(r)' = e /\ req'[r].asOf = req[r].asOf
      BY <1>4, <1>5, <2>1 DEF At, Who
    <3>2. req[r].asOf <= issued[e] /\ users[e].exists
      BY <1>1, <1>2 DEF RequestInv
    <3>3. uses'[e] > 0
      BY <1>9, <2>1, Types
    <3>4. QED
      BY <1>3, <1>10, <2>1, <3>1, <3>2, <3>3 DEF RequestInv
  <2>2. CASE ~accepted
    <3>1. issued' \in [Emails -> Nat] /\ Who(r)' \in Emails /\ req'[r] = Idle
      BY <1>3, <1>5, <2>2, IdleTyped, Types DEF Who, Request
    <3>2. QED
      BY <3>1, IdleTyped DEF RequestInv, At
  <2>3. QED
    BY <2>1, <2>2
<1>12. /\ req'[r] \in Request
       /\ At(r)' \in {"forget", "idle"}
       /\ At(r)' = "forget" => accepted /\ Who(r)' = e
       /\ accepted => At(r)' = "forget" /\ Who(r)' = e
  BY <1>4, <1>5, IdleTyped DEF At, Who
<1>13. TypeOK'
  BY <1>3, <1>5, <1>7, <1>12, Types DEF SafeInv, TypeOK, Otp!StoreTypeOK
<1>14. CodeStep(r, e)
  BY <1>1, <1>2, <1>3, <1>5, <1>7, <1>10, <1>11, <1>12, <1>13, Types
  DEF CodeStep, SameCode, GrowsOnly
<1>15. CountInv(e) /\ UseInv(e) /\ CodesInv(e) /\ guesses[e] <= MaxAttempts
  BY <1>1, <1>2, Before DEF AccountKept
<1>16. /\ Pending(e)' = Pending(e) \ {r}
       /\ r \in Pending(e) <=> req[r].asOf = issued[e]
  BY <1>1, <1>2, <1>3, <1>5, <1>12, Types DEF Pending, At, Who
<1>17. Cardinality(Pending(e)') =
         IF req[r].asOf = issued[e] THEN Cardinality(Pending(e)) - 1
                                    ELSE Cardinality(Pending(e))
  <2>1. CASE r \in Pending(e)
    BY <1>16, <2>1, Finite, FS_RemoveElement
  <2>2. CASE r \notin Pending(e)
    <3>1. Pending(e)' = Pending(e)
      BY <1>16, <2>2
    <3>2. QED
      BY <1>16, <2>2, <3>1
  <2>3. QED
    BY <2>1, <2>2
<1>18. code[e] # 0 =>
         guesses'[e] + Cardinality(Pending(e)')
           = guesses[e] + Cardinality(Pending(e))
  BY <1>8, <1>17, Finite, Types
<1>19. CountInv(e)'
  BY <1>3, <1>15, <1>18 DEF CountInv, Otp!CounterOutlivesCode
<1>20. Accepted(e)' = IF accepted THEN Accepted(e) \union {r} ELSE Accepted(e)
  <2>1. accepted => req'[r].entry = issued[e]
    BY <1>4, <1>5, <1>15 DEF CodesInv, accepted
  <2>2. QED
    BY <1>1, <1>3, <1>5, <1>12, <2>1, Types DEF Accepted, At, Who
<1>21. Cardinality(Accepted(e)') =
         IF accepted THEN Cardinality(Accepted(e)) + 1
                     ELSE Cardinality(Accepted(e))
  <2>1. r \notin Accepted(e)
    BY <1>1 DEF Accepted
  <2>2. CASE accepted
    BY <1>20, <2>1, <2>2, Finite, FS_AddElement
  <2>3. CASE ~accepted
    BY <1>20, <2>3
  <2>4. QED
    BY <2>2, <2>3
<1>22. UseInv(e)'
  BY <1>3, <1>9, <1>15, <1>21, Finite, Types DEF UseInv
<1>23. CodesInv(e)'
  BY <1>3, <1>10, <1>15 DEF CodesInv
<1>24. UsedCodeVerifies'
  <2> SUFFICES ASSUME NEW a \in Emails, faults' = 0, uses'[a] > 0,
                      users'[a].active, ~users'[a].verified
               PROVE  \E s \in Requests :
                        At(s)' \in {"forget", "confirm"} /\ Who(s)' = a
    BY DEF UsedCodeVerifies
  <2>1. CASE a = e /\ accepted
    BY <1>12, <2>1
  <2>2. CASE ~(a = e /\ accepted)
    <3>1. uses[a] > 0
      BY <1>7, <1>9, <2>2
    <3>2. PICK s \in Requests : At(s) \in {"forget", "confirm"} /\ Who(s) = a
      BY <1>3, <3>1 DEF SafeInv, AccountInv, UsedCodeVerifies
    <3>3. s # r /\ req'[s] = req[s]
      BY <1>1, <1>5, <3>2, Types
    <3>4. QED
      BY <3>2, <3>3 DEF At, Who
  <2>3. QED
    BY <2>1, <2>2
<1>25. guesses'[e] <= MaxAttempts
  <2>1. CASE code[e] # 0
    BY <1>7, <1>15, <1>18, <2>1, Finite, Types DEF CountInv
  <2>2. CASE code[e] = 0
    BY <1>8, <1>15, <2>2
  <2>3. QED
    BY <2>1, <2>2
<1>26. AccountKept(e)'
  BY <1>19, <1>22, <1>23, <1>25 DEF AccountKept
<1>27. QED
  BY <1>14, <1>24, <1>26, CodeKeeps

(* The code is deleted after it was accepted, or DEL fails and it can be   *)
(* accepted once more.                                                     *)
LEMMA ForgetCodeKeeps ==
  ASSUME SafeInv, NEW r \in Requests, ForgetCode(r) PROVE SafeInv'
<1>1. At(r) = "forget" /\ req[r] \in Request /\ RequestInv(r)
  BY Before DEF ForgetCode
<1>2. PICK e \in Emails : e = Who(r)
  BY <1>1, Before
<1>3. /\ UNCHANGED <<users, mailed, proved, issued, uses, guesses, entered>>
      /\ \/ /\ code' = [code EXCEPT ![e] = 0]
            /\ codeLeft' = [codeLeft EXCEPT ![e] = 0]
            /\ attempts' = [attempts EXCEPT ![e] = 0]
            /\ attemptsLeft' = [attemptsLeft EXCEPT ![e] = 0]
            /\ UNCHANGED faults
         \/ UNCHANGED <<code, codeLeft, attempts, attemptsLeft>> /\ Fault
      /\ req' = [req EXCEPT ![r].at = "confirm"]
  BY <1>2 DEF ForgetCode, Otp!Forget, OkOrLost, Goto, store, history
<1>4. /\ faults' \in 0 .. MaxFaults /\ faults' \in faults .. MaxFaults
      /\ faults <= faults'
  BY <1>3, Types DEF Fault
<1>5. /\ req' = [req EXCEPT ![r] = req'[r]]
      /\ req'[r] = [req[r] EXCEPT !.at = "confirm"]
  BY <1>3, Types
<1>6. /\ req'[r] \in Request /\ At(r)' = "confirm" /\ Who(r)' = e
      /\ req'[r].asOf = req[r].asOf
  BY <1>1, <1>2, <1>5 DEF Request, Labels, At, Who
<1>7. RequestInv(r)'
  BY <1>1, <1>2, <1>3, <1>6 DEF RequestInv
<1>8. /\ code' \in [Emails -> Nat] /\ codeLeft' \in [Emails -> 0 .. TTL]
      /\ attempts' \in [Emails -> Nat]
      /\ attemptsLeft' \in [Emails -> 0 .. TTL]
      /\ \A a \in Emails \ {e} :
           /\ code'[a] = code[a] /\ codeLeft'[a] = codeLeft[a]
           /\ attempts'[a] = attempts[a] /\ attemptsLeft'[a] = attemptsLeft[a]
      /\ \/ /\ code'[e] = 0 /\ codeLeft'[e] = 0
            /\ attempts'[e] = 0 /\ attemptsLeft'[e] = 0
         \/ /\ code'[e] = code[e] /\ codeLeft'[e] = codeLeft[e]
            /\ attempts'[e] = attempts[e] /\ attemptsLeft'[e] = attemptsLeft[e]
            /\ faults' = faults + 1
  BY <1>3, Types DEF Fault
<1>9. TypeOK'
  BY <1>3, <1>4, <1>5, <1>6, <1>8, Types DEF SafeInv, TypeOK, Otp!StoreTypeOK
<1>10. CodeStep(r, e)
  BY <1>1, <1>2, <1>3, <1>4, <1>5, <1>6, <1>7, <1>8, <1>9, Types
  DEF CodeStep, SameCode, GrowsOnly
<1>11. CountInv(e) /\ UseInv(e) /\ CodesInv(e) /\ guesses[e] <= MaxAttempts
  BY <1>1, <1>2, Before DEF AccountKept
<1>12. /\ Pending(e)' = Pending(e)
       /\ Accepted(e) \ {r} \subseteq Accepted(e)'
  BY <1>1, <1>2, <1>3, <1>5, <1>6, Types DEF Pending, Accepted, At, Who
<1>13. Cardinality(Accepted(e)) <= Cardinality(Accepted(e)') + 1
  <2>1. CASE r \in Accepted(e)
    BY <1>12, <2>1, Shrinks
  <2>2. CASE r \notin Accepted(e)
    <3>1. Accepted(e) \subseteq Accepted(e)'
      BY <1>12, <2>2
    <3>2. QED
      BY <3>1, Shrinks, Finite
  <2>3. QED
    BY <2>1, <2>2
<1>14. CountInv(e)'
  <2>1. Otp!CounterOutlivesCode(e)'
    BY <1>8, <1>11 DEF CountInv, Otp!CounterOutlivesCode
  <2>2. code'[e] # 0 => code'[e] = code[e] /\ attempts'[e] = attempts[e]
    BY <1>8
  <2>3. attempts'[e] <= entered'[e] \/ entered'[e] > MaxAttempts
    BY <1>3, <1>8, <1>11, Types DEF CountInv
  <2>4. guesses'[e] = guesses[e]
    BY <1>3
  <2>5. QED
    BY <1>11, <1>12, <2>1, <2>2, <2>3, <2>4 DEF CountInv
<1>15. UseInv(e)'
  <2>1. code'[e] # 0 => code[e] # 0 /\ faults' = faults + 1
    BY <1>8
  <2>2. uses'[e] = uses[e] /\ uses[e] \in Nat
    BY <1>3, Types
  <2>3. QED
    BY <1>11, <1>13, <2>1, <2>2, Finite, Types DEF UseInv
<1>16. CodesInv(e)'
  BY <1>3, <1>8, <1>11 DEF CodesInv
<1>17. UsedCodeVerifies'
  <2> SUFFICES ASSUME NEW a \in Emails, faults' = 0, uses'[a] > 0,
                      users'[a].active, ~users'[a].verified
               PROVE  \E s \in Requests :
                        At(s)' \in {"forget", "confirm"} /\ Who(s)' = a
    BY DEF UsedCodeVerifies
  <2>1. faults = 0
    BY <1>4, Types
  <2>2. PICK s \in Requests : At(s) \in {"forget", "confirm"} /\ Who(s) = a
    BY <1>3, <2>1 DEF SafeInv, AccountInv, UsedCodeVerifies
  <2>3. CASE s = r
    BY <1>2, <1>6, <2>2, <2>3
  <2>4. CASE s # r
    <3>1. req'[s] = req[s]
      BY <1>5, <2>4, Types
    <3>2. QED
      BY <2>2, <3>1 DEF At, Who
  <2>5. QED
    BY <2>3, <2>4
<1>18. AccountKept(e)'
  BY <1>3, <1>11, <1>14, <1>15, <1>16 DEF AccountKept
<1>19. QED
  BY <1>10, <1>17, <1>18, CodeKeeps

(* Time passes: a counter that will expire does so no earlier than the     *)
(* code beside it.                                                         *)
LEMMA ClockKeeps ==
  ASSUME SafeInv, Clock PROVE SafeInv'
<1>1. UNCHANGED <<users, req, issued, mailed, proved, uses, guesses, entered,
                  faults>>
  BY DEF Clock, history
<1>2. ASSUME NEW e \in Emails
      PROVE  /\ code'[e] = IF codeLeft[e] = 1 THEN 0 ELSE code[e]
             /\ codeLeft'[e] = IF codeLeft[e] = 0 THEN 0 ELSE codeLeft[e] - 1
             /\ attempts'[e] = IF attemptsLeft[e] = 1 THEN 0 ELSE attempts[e]
             /\ attemptsLeft'[e] =
                  IF attemptsLeft[e] = 0 THEN 0 ELSE attemptsLeft[e] - 1
  BY DEF Clock, Otp!Tick, Otp!Survivors, Otp!Age
<1>3. /\ code' \in [Emails -> Nat] /\ codeLeft' \in [Emails -> 0 .. TTL]
      /\ attempts' \in [Emails -> Nat]
      /\ attemptsLeft' \in [Emails -> 0 .. TTL]
  BY Types DEF Clock, Otp!Tick, Otp!Survivors, Otp!Age
<1>4. TypeOK'
  BY <1>1, <1>3 DEF SafeInv, TypeOK, Otp!StoreTypeOK
<1>5. ASSUME NEW e \in Emails
      PROVE  CountInv(e)' /\ UseInv(e)' /\ CodesInv(e)'
  <2>1. CountInv(e) /\ UseInv(e) /\ CodesInv(e)
    BY DEF SafeInv, AccountInv
  <2>2. Pending(e)' = Pending(e) /\ Accepted(e)' = Accepted(e)
    BY <1>1 DEF Pending, Accepted, At, Who
  <2>3. /\ codeLeft[e] \in Nat /\ attemptsLeft[e] \in Nat
        /\ attempts[e] \in Nat /\ entered[e] \in Nat
    BY Types
  <2>4. Otp!CounterOutlivesCode(e)'
    BY <1>2, <2>1, <2>3 DEF CountInv, Otp!CounterOutlivesCode
  <2>5. code'[e] # 0 => code'[e] = code[e] /\ attempts'[e] = attempts[e]
    BY <1>2, <2>1, <2>3 DEF CountInv, Otp!CounterOutlivesCode
  <2>6. attempts'[e] <= entered'[e] \/ entered'[e] > MaxAttempts
    BY <1>1, <1>2, <2>1, <2>3 DEF CountInv
  <2>7. CountInv(e)'
    BY <1>1, <2>1, <2>2, <2>4, <2>5, <2>6 DEF CountInv
  <2>8. UseInv(e)'
    BY <1>1, <2>1, <2>2, <2>5 DEF UseInv
  <2>9. CodesInv(e)'
    BY <1>1, <1>2, <2>1 DEF CodesInv
  <2>10. QED
    BY <2>7, <2>8, <2>9
<1>6. \A r \in Requests : RequestInv(r)'
  BY <1>1 DEF SafeInv, AccountInv, RequestInv, At, Who
<1>7. GuessBound' /\ UsedCodeVerifies'
  BY <1>1 DEF SafeInv, AccountInv, GuessBound, UsedCodeVerifies, At, Who
<1>8. QED
  BY <1>1, <1>4, <1>5, <1>6, <1>7 DEF SafeInv, AccountInv

LEMMA NextKeeps ==
  ASSUME SafeInv, [Next]_vars PROVE SafeInv'
<1>1. ASSUME NEW r \in Requests, Step(r) PROVE SafeInv'
  BY <1>1, InsertUserKeeps, IssueCodeKeeps, MailCodeKeeps, CountAttemptKeeps,
     ExpireAttemptsKeeps, LockOutKeeps, CheckCodeKeeps, ForgetCodeKeeps,
     ConfirmUserKeeps, EndKeeps, UpdateUserKeeps, SelectUserKeeps,
     SaveUserKeeps DEF Step
<1>2. CASE UNCHANGED vars
  <2>1. UNCHANGED <<users, code, codeLeft, attempts, attemptsLeft, req, issued,
                    mailed, proved, uses, guesses, entered, faults>>
    BY <1>2 DEF vars, store, history
  <2>2. TypeOK'
    BY <2>1 DEF SafeInv, TypeOK, Otp!StoreTypeOK
  <2>3. AccountInv'
    BY <2>1 DEF SafeInv, AccountInv, CountInv, UseInv, CodesInv, RequestInv,
       Pending, Accepted, Otp!CounterOutlivesCode, GuessBound,
       UsedCodeVerifies, At, Who
  <2>4. QED
    BY <2>1, <2>2, <2>3 DEF SafeInv
<1>3. QED
  BY <1>1, <1>2, NewRequestKeeps, EndKeeps, ClockKeeps DEF Next

-----------------------------------------------------------------------------
(* The inductive invariant of registering, verifying, changing and         *)
(* deleting accounts, and of the codes between these requests.             *)
THEOREM SafeCorrect == Spec => []SafeInv
<1>1. Init => SafeInv
  <2> SUFFICES ASSUME Init PROVE SafeInv
    OBVIOUS
  <2>1. /\ users = [e \in Emails |-> NoRow]
        /\ code = [e \in Emails |-> 0] /\ codeLeft = [e \in Emails |-> 0]
        /\ attempts = [e \in Emails |-> 0]
        /\ attemptsLeft = [e \in Emails |-> 0]
        /\ req = [r \in Requests |-> Idle]
        /\ issued = [e \in Emails |-> 0] /\ mailed = [e \in Emails |-> {}]
        /\ proved = [e \in Emails |-> FALSE]
        /\ uses = [e \in Emails |-> 0] /\ guesses = [e \in Emails |-> 0]
        /\ entered = [e \in Emails |-> 0] /\ faults = 0
        /\ MaxAttempts \in Nat /\ TTL \in Nat /\ MaxFaults \in Nat
    BY AccountsAssumption DEF Init, Otp!StoreInit, AccountsAssumption
  <2>2. TypeOK
    BY <2>1, IdleTyped DEF TypeOK, Otp!StoreTypeOK
  <2>3. ASSUME NEW e \in Emails PROVE CountInv(e) /\ UseInv(e) /\ CodesInv(e)
    <3>1. code[e] = 0 /\ issued[e] = 0 /\ mailed[e] = {} /\ ~users[e].verified
      BY <2>1 DEF NoRow
    <3>2. CountInv(e) /\ UseInv(e)
      BY <2>1, <3>1 DEF CountInv, UseInv, Otp!CounterOutlivesCode
    <3>3. QED
      BY <3>1, <3>2 DEF CodesInv
  <2>4. \A r \in Requests : RequestInv(r)
    BY <2>1, IdleTyped DEF RequestInv, At, Who, Request
  <2>5. GuessBound /\ UsedCodeVerifies
    BY <2>1 DEF GuessBound, UsedCodeVerifies
  <2>6. QED
    BY <2>1, <2>2, <2>3, <2>4, <2>5 DEF SafeInv, AccountInv
<1>2. SafeInv /\ [Next]_vars => SafeInv'
  BY NextKeeps
<1>3. QED
  BY <1>1, <1>2, PTL DEF Spec

(* Every variable keeps its type: the code and the counter never have more *)
(* time to live than OTP_TTL_MINUTES (store.go).                           *)
THEOREM TypeCorrect == Spec => []TypeOK
<1>1. SafeInv => TypeOK
  BY DEF SafeInv
<1>2. QED
  BY <1>1, SafeCorrect, PTL

(* An account is marked verified only after a code that was mailed to it   *)
(* was entered (VerifyOtp).                                                *)
THEOREM VerificationCorrect == Spec => []VerifiedByMail
<1>1. SafeInv => VerifiedByMail
  BY DEF SafeInv, AccountInv, CodesInv, VerifiedByMail
<1>2. QED
  BY <1>1, SafeCorrect, PTL

(* A stored code is compared with MaxAttempts entries at most, however     *)
(* many requests count and compare at the same time (Store.Verify).        *)
THEOREM GuessesCorrect == Spec => []GuessBound
<1>1. SafeInv => GuessBound
  BY DEF SafeInv, AccountInv
<1>2. QED
  BY <1>1, SafeCorrect, PTL

(* A step deletes a stored code as CodeIsKept allows.                      *)
CodeKept ==
  \A e \in Emails :
    code[e] # 0 /\ code'[e] = 0 =>
      \/ codeLeft[e] = 1 /\ UNCHANGED req
      \/ uses[e] > 0
      \/ entered[e] > MaxAttempts
      \/ \E r \in Requests : /\ At(r) \in {"forget", "lockOut"}
                             /\ Who(r) = e /\ req[r].asOf < issued[e]
                             /\ req'[r] # req[r]

LEMMA DeletionIsDue ==
  ASSUME SafeInv, NEW r \in Requests, LockOut(r) \/ ForgetCode(r)
  PROVE  CodeKept
<1>1. /\ At(r) \in {"lockOut", "forget"} /\ Who(r) \in Emails
      /\ RequestInv(r)
      /\ req[r].asOf \in Nat /\ issued[Who(r)] \in Nat
  BY Before, Types DEF LockOut, ForgetCode, Request, Who
<1>2. At(r)' \in {"idle", "confirm"}
  <2>1. CASE LockOut(r)
    BY <2>1, IdleTyped, Types DEF LockOut, Return, At
  <2>2. CASE ForgetCode(r)
    BY <2>2, Types DEF ForgetCode, Goto, At, Request
  <2>3. QED
    BY <2>1, <2>2
<1>3. req'[r] # req[r]
  BY <1>1, <1>2 DEF At
<1>4. \A e \in Emails : code'[e] # code[e] => e = Who(r)
  BY Types DEF LockOut, ForgetCode, Otp!Forget, OkOrLost, store
<1>5. req[r].asOf = issued[Who(r)] \/ req[r].asOf < issued[Who(r)]
  BY <1>1 DEF RequestInv
<1>6. req[r].asOf = issued[Who(r)] =>
        uses[Who(r)] > 0 \/ entered[Who(r)] > MaxAttempts
  BY <1>1 DEF RequestInv
<1>7. QED
  BY <1>1, <1>3, <1>4, <1>5, <1>6 DEF CodeKept

(* A new code is lost to what was entered on the one before only by a DEL  *)
(* that was already under way (Store.Generate, Store.Verify).              *)
THEOREM CodeKeptCorrect == Spec => CodeIsKept
<1>1. SafeInv /\ [Next]_vars => [CodeKept]_vars
  <2> SUFFICES ASSUME SafeInv, Next PROVE CodeKept
    OBVIOUS
  <2>1. CASE UNCHANGED code
    BY <2>1 DEF CodeKept
  <2>2. ASSUME NEW r \in Requests, Step(r) PROVE CodeKept
    <3>1. CASE IssueCode(r)
      <4>1. \A e \in Emails : code'[e] = 0 => code[e] = 0
        BY <3>1, Types DEF IssueCode, Otp!Generate
      <4>2. QED
        BY <4>1 DEF CodeKept
    <3>2. CASE UNCHANGED code
      BY <3>2 DEF CodeKept
    <3>3. QED
      BY <2>2, <3>1, <3>2, DeletionIsDue
      DEF Step, InsertUser, MailCode, CountAttempt, ExpireAttempts, CheckCode,
          ConfirmUser, AnswerVerified, UpdateUser, SelectUser, SaveUser,
          Otp!CountAttempt, Otp!ExpireAttempts, Otp!codeKey, OkOrLost, store
  <2>3. ASSUME NEW r \in Requests, RequestFails(r) PROVE UNCHANGED code
    BY <2>3 DEF RequestFails, store
  <2>4. ASSUME NEW r \in Requests, NEW e \in Emails, NewRequest(r, e)
        PROVE  UNCHANGED code
    BY <2>4 DEF NewRequest, Register, Resend, Verify, Update, Delete, Arrive,
                store
  <2>5. CASE Clock
    BY <2>5, Types DEF Clock, Otp!Tick, Otp!Survivors, CodeKept
  <2>6. QED
    BY <2>1, <2>2, <2>3, <2>4, <2>5 DEF Next
<1>2. QED
  BY <1>1, SafeCorrect, PTL DEF Spec, CodeIsKept, CodeKept

(* A code that is still stored was accepted only from requests that are    *)
(* about to delete it, or whose deletion failed (Store.Verify).            *)
THEOREM SingleUseCorrect == Spec => []SingleUse
<1>1. SafeInv => SingleUse
  BY DEF SafeInv, AccountInv, SingleUse
<1>2. QED
  BY <1>1, SafeCorrect, PTL

(* A code that is used up verifies its account while nothing fails         *)
(* (VerifyOtp).                                                            *)
THEOREM UseCorrect == Spec => []UsedCodeVerifies
<1>1. SafeInv => UsedCodeVerifies
  BY DEF SafeInv, AccountInv
<1>2. QED
  BY <1>1, SafeCorrect, PTL

-----------------------------------------------------------------------------
(* Each step of a request changes the users table as the promise allows.   *)
LEMMA StepKeepsPromise ==
  ASSUME SafeInv, NEW r \in Requests, Step(r)
  PROVE  Promise!Next \/ UNCHANGED <<users, proved>>
<1> DEFINE e == Who(r)
<1>1. CASE InsertUser(r)
  <2>1. CASE CreateUser(e)
    <3>1. e \in Emails /\ UNCHANGED proved
      BY <1>1 DEF InsertUser, history, SafeInv, TypeOK, Request, Who
    <3>2. Promise!Open(e)
      BY <2>1, <3>1 DEF CreateUser, UserEmailExists, Promise!Open
    <3>3. QED
      BY <3>1, <3>2 DEF Promise!Next
  <2>2. CASE UNCHANGED users
    BY <1>1, <2>2 DEF InsertUser, history
  <2>3. QED
    BY <1>1, <2>1, <2>2 DEF InsertUser
<1>2. CASE CheckCode(r)
  <2>1. /\ e \in Emails /\ users[e].exists /\ UNCHANGED users
        /\ req[r].entry \in mailed[e] \union {0}
    BY <1>2 DEF CheckCode, SafeInv, TypeOK, Request, Who, AccountInv,
       RequestInv
  <2>2. CASE Otp!Matches(e, req[r].entry)
    <3>1. req[r].entry \in mailed[e]
      BY <2>1, <2>2 DEF Otp!Matches
    <3>2. proved' = [proved EXCEPT ![e] = @ \/ req[r].entry \in mailed[e]]
      BY <1>2, <2>2 DEF CheckCode
    <3>3. (proved[e] \/ req[r].entry \in mailed[e]) = TRUE
      BY <3>1
    <3>4. proved' = [proved EXCEPT ![e] = TRUE]
      BY <3>2, <3>3, Zenon
    <3>5. QED
      BY <2>1, <3>4 DEF Promise!Prove, Promise!Next
  <2>3. CASE ~Otp!Matches(e, req[r].entry)
    BY <1>2, <2>3 DEF CheckCode
  <2>4. QED
    BY <2>2, <2>3
<1>3. CASE ConfirmUser(r)
  <2>1. e \in Emails /\ proved[e] /\ UNCHANGED proved
    BY <1>3 DEF ConfirmUser, history, SafeInv, TypeOK, Request, Who,
       AccountInv, RequestInv
  <2>2. QED
    BY <1>3, <2>1 DEF ConfirmUser, OkOrLost, Promise!Verify, Promise!Next
<1>4. CASE UpdateUser(r)
  <2>1. /\ e \in Emails /\ users[e].exists /\ req[r].entry \in Profiles
        /\ UNCHANGED proved
    BY <1>4 DEF UpdateUser, history, SafeInv, TypeOK, Request, Who,
       AccountInv, RequestInv
  <2>2. QED
    BY <1>4, <2>1 DEF UpdateUser, Promise!Change, Promise!Next
<1>5. CASE SaveUser(r)
  <2>1. /\ e \in Emails /\ users[e].exists /\ UNCHANGED proved
        /\ req[r].seen \in Row /\ req[r].seen.exists
        /\ req[r].seen.verified => proved[e]
        /\ users' = [users EXCEPT ![e] = [req[r].seen EXCEPT !.active = FALSE]]
    BY <1>5 DEF SaveUser, history, SafeInv, TypeOK, Request, Who,
       AccountInv, RequestInv
  <2>2. PICK row \in Row : row = req[r].seen
    BY <2>1
  <2>3. [row EXCEPT !.active = FALSE] =
          [exists |-> TRUE, active |-> FALSE, verified |-> row.verified,
           profile |-> row.profile]
    <3> DEFINE saved == [row EXCEPT !.active = FALSE]
    <3>1. row.exists = TRUE
      BY <2>1, <2>2 DEF Row
    <3>2. /\ saved \in Row
          /\ saved.exists = row.exists /\ saved.active = FALSE
          /\ saved.verified = row.verified /\ saved.profile = row.profile
      BY DEF Row
    <3> HIDE DEF saved
    <3>3. saved = [exists |-> saved.exists, active |-> saved.active,
                   verified |-> saved.verified, profile |-> saved.profile]
      BY <3>2 DEF Row
    <3>4. saved = [exists |-> TRUE, active |-> FALSE,
                   verified |-> row.verified, profile |-> row.profile]
      BY <3>1, <3>2, <3>3, Zenon
    <3>5. QED
      BY <3>4 DEF saved
  <2>4. Promise!Delete(e)
    <3>1. /\ row.verified \in BOOLEAN /\ row.profile \in Profiles \union {0}
          /\ row.verified => proved[e]
      BY <2>1, <2>2 DEF Row
    <3>2. users' = [users EXCEPT ![e] =
            [exists |-> TRUE, active |-> FALSE, verified |-> row.verified,
             profile |-> row.profile]]
      BY <2>1, <2>2, <2>3, Zenon
    <3>3. users[e].exists /\ UNCHANGED proved
      BY <2>1
    <3>4. QED
      BY <3>1, <3>2, <3>3, Zenon DEF Promise!Delete
  <2>5. QED
    BY <2>1, <2>4 DEF Promise!Next
<1>6. CASE ~(\/ InsertUser(r) \/ CheckCode(r) \/ ConfirmUser(r)
             \/ UpdateUser(r) \/ SaveUser(r))
  BY <1>6 DEF Step, IssueCode, MailCode, CountAttempt, ExpireAttempts, LockOut,
     ForgetCode, AnswerVerified, SelectUser, history
<1>7. QED
  BY <1>1, <1>2, <1>3, <1>4, <1>5, <1>6

(* The users table, under any interleaving and failure of requests, is one *)
(* that AccountPromise allows: deletion is final, a verification is not    *)
(* lost while the account is active, and only a code makes one.            *)
THEOREM PromiseKept == Spec => KeepsPromise
<1>1. Init => Promise!Init
  BY DEF Init, NoRow, Promise!Init, Promise!NoRow
<1>2. SafeInv /\ [Next]_vars => [Promise!Next]_<<users, proved>>
  <2> SUFFICES ASSUME SafeInv, [Next]_vars
               PROVE  Promise!Next \/ UNCHANGED <<users, proved>>
    OBVIOUS
  <2>1. ASSUME NEW r \in Requests, RequestFails(r)
        PROVE  UNCHANGED <<users, proved>>
    BY <2>1 DEF RequestFails, history
  <2>2. ASSUME NEW r \in Requests, NEW a \in Emails, NewRequest(r, a)
        PROVE  UNCHANGED <<users, proved>>
    BY <2>2 DEF NewRequest, Register, Resend, Verify, Update, Delete, Arrive,
       history
  <2>3. Clock \/ UNCHANGED vars => UNCHANGED <<users, proved>>
    BY DEF Clock, vars, history
  <2>4. QED
    BY <2>1, <2>2, <2>3, StepKeepsPromise DEF Next
<1>3. QED
  BY <1>1, <1>2, SafeCorrect, PTL DEF Spec, KeepsPromise, Promise!Spec
=============================================================================
