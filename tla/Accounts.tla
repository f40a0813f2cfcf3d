------------------------------ MODULE Accounts ------------------------------
(***************************************************************************)
(* User accounts (api/services/user-service.go): registration, sending a   *)
(* one-time code again, verifying an account with it, changing the profile *)
(* and deleting the account, with the listener that issues and mails the   *)
(* codes (api/events/email_listeners.go) and the store they live in        *)
(* (OtpStore).  Any number of requests for one account run at the same     *)
(* time.  Each step of a request is one call, to Postgres, to Redis or to  *)
(* the task queue.                                                         *)
(***************************************************************************)
EXTENDS Naturals, FiniteSets

CONSTANTS Emails,      \* a user's row is found by its e-mail address or id
          Requests,    \* requests the API serves at the same time
          Profiles,    \* what else a row holds
          MaxAttempts, \* OTP_MAX_ATTEMPTS
          TTL,         \* OTP_TTL_MINUTES, in ticks of the clock
          MaxIssues,   \* bound on the codes issued for one address
          MaxFaults    \* bound on failed calls, lost replies and crashes

ASSUME AccountsAssumption ==
  /\ Emails # {}
  /\ IsFiniteSet(Requests)
  /\ Profiles \subseteq Nat
  /\ MaxAttempts \in Nat \ {0}
  /\ TTL \in Nat \ {0}
  /\ MaxIssues \in Nat
  /\ MaxFaults \in Nat

VARIABLES users,                                 \* the users table
          code, codeLeft, attempts, attemptsLeft,\* Redis (OtpStore)
          req,     \* the requests in progress
          issued,  \* number of codes issued for each address
          mailed,  \* the codes whose e-mail was queued
          proved,  \* has a code that was mailed been accepted?
          uses,    \* how often the latest code was accepted
          guesses, \* entries made since the latest issue and compared with it
          entered, \* entries counted since the latest issue, up to the limit
          faults   \* faults so far

Otp == INSTANCE OtpStore WITH Identifiers <- Emails

store == <<code, codeLeft, attempts, attemptsLeft>>
history == <<mailed, proved, uses, guesses, entered>>
vars == <<users, store, req, issued, history, faults>>

Row == [exists : BOOLEAN, active : BOOLEAN, verified : BOOLEAN,
        profile : Profiles \union {0}]
NoRow == [exists |-> FALSE, active |-> FALSE, verified |-> FALSE,
          profile |-> 0]

(* at is the call the request makes next; entry is the code the user       *)
(* entered, the code to mail or the new profile; seen the row it read;     *)
(* asOf the issue in force when its entry was counted.                     *)
Idle == [at |-> "idle", who |-> CHOOSE e \in Emails : TRUE,
         entry |-> 0, seen |-> NoRow, asOf |-> 0]

At(r) == req[r].at
Who(r) == req[r].who

Init ==
  /\ users = [e \in Emails |-> NoRow]
  /\ Otp!StoreInit
  /\ req = [r \in Requests |-> Idle]
  /\ issued = [e \in Emails |-> 0]
  /\ mailed = [e \in Emails |-> {}]
  /\ proved = [e \in Emails |-> FALSE]
  /\ uses = [e \in Emails |-> 0]
  /\ guesses = [e \in Emails |-> 0]
  /\ entered = [e \in Emails |-> 0]
  /\ faults = 0

Fault == faults < MaxFaults /\ faults' = faults + 1

(* The call answered, or it took effect and its answer was lost.           *)
OkOrLost(A, B) == (A /\ UNCHANGED faults) \/ (B /\ Fault)

Goto(r, label) == req' = [req EXCEPT ![r].at = label]
Return(r) == req' = [req EXCEPT ![r] = Idle]

Arrive(r, label, e, entry) ==
  /\ At(r) = "idle"
  /\ req' = [req EXCEPT ![r] = [Idle EXCEPT !.at = label, !.who = e,
                                            !.entry = entry]]
  /\ UNCHANGED <<users, store, issued, history, faults>>

-----------------------------------------------------------------------------
(* CreateUser and ResendUserOtp.                                           *)

UserEmailExists(e) == users[e].exists

(* An address that is taken, by a deleted account too, is refused here.    *)
Register(r, e) == ~UserEmailExists(e) /\ Arrive(r, "insert", e, 0)

Resend(r, e) == UserEmailExists(e) /\ Arrive(r, "issue", e, 0)

(* Mutant: no unique index on users.email, the newer row is found.         *)
CreateUserAgain(e) ==
  users' = [users EXCEPT ![e] = [exists |-> TRUE, active |-> TRUE,
                                 verified |-> FALSE, profile |-> 0]]

(* CreateUser: the unique index admits one row for an address.             *)
CreateUser(e) ==
  /\ ~UserEmailExists(e)
  /\ users' = [users EXCEPT ![e] = [exists |-> TRUE, active |-> TRUE,
                                    verified |-> FALSE, profile |-> 0]]

InsertUser(r) ==
  /\ At(r) = "insert"
  /\ \/ CreateUser(Who(r)) /\ OkOrLost(Goto(r, "issue"), Return(r))
     \/ UserEmailExists(Who(r)) /\ Return(r) /\ UNCHANGED <<users, faults>>
  /\ UNCHANGED <<store, issued, history>>

(* The listener of UserCreated stores a new code ...                       *)
IssueCode(r) ==
  /\ At(r) = "issue"
  /\ issued[Who(r)] < MaxIssues
  /\ LET e == Who(r)
         n == issued[e] + 1 IN
     /\ Otp!Generate(e, n)
     /\ issued' = [issued EXCEPT ![e] = n]
     /\ uses' = [uses EXCEPT ![e] = 0]
     /\ guesses' = [guesses EXCEPT ![e] = 0]
     /\ entered' = [entered EXCEPT ![e] = 0]
     /\ OkOrLost(req' = [req EXCEPT ![r].at = "mail", ![r].entry = n],
                 Return(r))
  /\ UNCHANGED <<users, mailed, proved>>

(* ... and queues the e-mail that carries it.                              *)
MailCode(r) ==
  /\ At(r) = "mail"
  /\ mailed' = [mailed EXCEPT ![Who(r)] = @ \union {req[r].entry}]
  /\ Return(r)
  /\ UNCHANGED <<users, store, issued, proved, uses, guesses, entered, faults>>

-----------------------------------------------------------------------------
(* VerifyOtp.  A user enters a code from any e-mail they were sent, in     *)
(* whatever order these arrive, or something else (0).                     *)

Verify(r, e) ==
  /\ UserEmailExists(e)
  /\ \E entry \in mailed[e] \union {0} : Arrive(r, "count", e, entry)

(* Mutant: the limit is compared before the attempt is counted.            *)
AfterCountOffByOne(n) ==
  IF n = 1 THEN "expire" ELSE IF n > MaxAttempts + 1 THEN "lockOut" ELSE "get"

AfterCount(n) ==
  IF n = 1 THEN "expire" ELSE IF n > MaxAttempts THEN "lockOut" ELSE "get"

CountAttempt(r) ==
  /\ At(r) = "count"
  /\ LET e == Who(r) IN
     /\ Otp!CountAttempt(e)
     /\ entered' = [entered EXCEPT ![e] = IF @ > MaxAttempts THEN @ ELSE @ + 1]
     /\ OkOrLost(req' = [req EXCEPT ![r].at = AfterCount(attempts[e] + 1),
                                    ![r].asOf = issued[e]],
                 Return(r))
  /\ UNCHANGED <<users, issued, mailed, proved, uses, guesses>>

(* The error of EXPIRE is ignored.                                         *)
ExpireAttempts(r) ==
  /\ At(r) = "expire"
  /\ OkOrLost(Otp!ExpireAttempts(Who(r)), UNCHANGED store)
  /\ Goto(r, "get")
  /\ UNCHANGED <<users, issued, history>>

(* ErrTooManyTries; the error of DEL is ignored.                           *)
LockOut(r) ==
  /\ At(r) = "lockOut"
  /\ OkOrLost(Otp!Forget(Who(r)), UNCHANGED store)
  /\ Return(r)
  /\ UNCHANGED <<users, issued, history>>

(* The code is read and compared: ErrNotFound, ErrMismatch or accepted.    *)
CheckCode(r) ==
  /\ At(r) = "get"
  /\ LET e == Who(r)
         entry == req[r].entry IN
     /\ guesses' = [guesses EXCEPT ![e] =
                      IF code[e] # 0 /\ req[r].asOf = issued[e]
                        THEN @ + 1 ELSE @]
     /\ IF Otp!Matches(e, entry)
          THEN /\ uses' = [uses EXCEPT ![e] = @ + 1]
               /\ proved' = [proved EXCEPT ![e] = @ \/ entry \in mailed[e]]
               /\ Goto(r, "forget")
          ELSE UNCHANGED <<uses, proved>> /\ Return(r)
  /\ UNCHANGED <<users, store, issued, mailed, entered, faults>>

(* Mutant: a DEL that finds no key is taken for another request's use.     *)
ForgetCodeOnce(r) ==
  /\ At(r) = "forget"
  /\ OkOrLost(Otp!Forget(Who(r)), UNCHANGED store)
  /\ IF code[Who(r)] = 0 THEN Return(r) ELSE Goto(r, "confirm")
  /\ UNCHANGED <<users, issued, history>>

(* The code is deleted; the error of DEL is ignored.                       *)
ForgetCode(r) ==
  /\ At(r) = "forget"
  /\ OkOrLost(Otp!Forget(Who(r)), UNCHANGED store)
  /\ Goto(r, "confirm")
  /\ UNCHANGED <<users, issued, history>>

(* UpdateUser sets is_verified; its error is not looked at.                *)
ConfirmUser(r) ==
  /\ At(r) = "confirm"
  /\ OkOrLost(users' = [users EXCEPT ![Who(r)].verified = TRUE],
              UNCHANGED users)
  /\ Goto(r, "verified")
  /\ UNCHANGED <<store, issued, history>>

(* "Account Verified Successfully".                                        *)
AnswerVerified(r) ==
  /\ At(r) = "verified"
  /\ Return(r)
  /\ UNCHANGED <<users, store, issued, history, faults>>

-----------------------------------------------------------------------------
(* UpdateUser and DeleteUser, by the owner (ValidatOwner): whoever has an  *)
(* access token of the account, which outlives a deletion.                 *)

Update(r, e) ==
  UserEmailExists(e) /\ \E p \in Profiles : Arrive(r, "update", e, p)

(* One UPDATE of the columns that change.                                  *)
UpdateUser(r) ==
  /\ At(r) = "update"
  /\ users' = [users EXCEPT ![Who(r)].profile = req[r].entry]
  /\ Return(r)
  /\ UNCHANGED <<store, issued, history, faults>>

Delete(r, e) == UserEmailExists(e) /\ Arrive(r, "select", e, 0)

SelectUser(r) ==
  /\ At(r) = "select"
  /\ req' = [req EXCEPT ![r].at = "save", ![r].seen = users[Who(r)]]
  /\ UNCHANGED <<users, store, issued, history, faults>>

(* DeleteUser saves the whole row it read, with is_active cleared.         *)
SaveUser(r) ==
  /\ At(r) = "save"
  /\ users' = [users EXCEPT ![Who(r)] = [req[r].seen EXCEPT !.active = FALSE]]
  /\ Return(r)
  /\ UNCHANGED <<store, issued, history, faults>>

-----------------------------------------------------------------------------
(* A call fails without effect and the request returns its error, or the   *)
(* process dies.                                                           *)
RequestFails(r) ==
  /\ At(r) # "idle"
  /\ Return(r)
  /\ Fault
  /\ UNCHANGED <<users, store, issued, history>>

Clock == Otp!Tick /\ UNCHANGED <<users, req, issued, history, faults>>

NewRequest(r, e) ==
  Register(r, e) \/ Resend(r, e) \/ Verify(r, e) \/ Update(r, e) \/ Delete(r, e)

Step(r) ==
  \/ InsertUser(r) \/ IssueCode(r) \/ MailCode(r)
  \/ CountAttempt(r) \/ ExpireAttempts(r) \/ LockOut(r) \/ CheckCode(r)
  \/ ForgetCode(r) \/ ConfirmUser(r) \/ AnswerVerified(r)
  \/ UpdateUser(r) \/ SelectUser(r) \/ SaveUser(r)

Next ==
  \/ \E r \in Requests : Step(r) \/ RequestFails(r)
  \/ \E r \in Requests, e \in Emails : NewRequest(r, e)
  \/ Clock

Spec == Init /\ [][Next]_vars

-----------------------------------------------------------------------------
Labels == {"idle", "insert", "issue", "mail", "count", "expire", "lockOut",
           "get", "forget", "confirm", "verified", "update", "select", "save"}

Request == [at : Labels, who : Emails, entry : Nat, seen : Row, asOf : Nat]

(* Type invariant.                                                         *)
TypeOK ==
  /\ users \in [Emails -> Row]
  /\ Otp!StoreTypeOK
  /\ req \in [Requests -> Request]
  /\ issued \in [Emails -> Nat]
  /\ mailed \in [Emails -> SUBSET Nat]
  /\ proved \in [Emails -> BOOLEAN]
  /\ uses \in [Emails -> Nat]
  /\ guesses \in [Emails -> Nat]
  /\ entered \in [Emails -> 0 .. MaxAttempts + 1]
  /\ faults \in 0 .. MaxFaults

(* Nobody is verified who did not enter a code that was mailed to them,    *)
(* and that the store still held when it was compared: "Confirms the       *)
(* emailed code" (docs.go:89), whatever resends, expiries, lockouts and    *)
(* deletions happen between the calls.                                     *)
VerifiedByMail == \A e \in Emails : users[e].verified => proved[e]

(* store.go:137: a code is compared with at most MaxAttempts of the        *)
(* entries made after it was issued, although the counter expires on its   *)
(* own, EXPIRE may fail and the calls of several requests interleave.      *)
GuessBound == \A e \in Emails : guesses[e] <= MaxAttempts

(* A stored code goes only because its time is up, because it was accepted *)
(* or because more than MaxAttempts entries were counted since it was      *)
(* issued (store.go:137-140,163): Generate forgets the attempts made on    *)
(* the one before.  One thing else deletes it, the late DEL of a request   *)
(* that was accepted or locked out on an older code.                       *)
CodeIsKept ==
  [][\A e \in Emails :
       code[e] # 0 /\ code'[e] = 0 =>
         \/ codeLeft[e] = 1 /\ UNCHANGED req
         \/ uses[e] > 0
         \/ entered[e] > MaxAttempts
         \/ \E r \in Requests : /\ At(r) \in {"forget", "lockOut"}
                                /\ Who(r) = e /\ req[r].asOf < issued[e]
                                /\ req'[r] # req[r]]_vars

(* The requests that were accepted on the latest code and have not deleted *)
(* it yet.                                                                 *)
Accepted(e) == {r \in Requests : At(r) = "forget" /\ Who(r) = e
                                  /\ req[r].entry = issued[e]}

(* "The code is single use" (docs.go:89).  Reading and deleting it are two *)
(* calls, so requests that overlap may each be accepted, and so may others *)
(* when a deletion failed; but a code that is still stored was accepted    *)
(* from such requests only.                                                *)
UseInv(e) ==
  code[e] # 0 => uses[e] <= Cardinality(Accepted(e)) + faults

SingleUse == \A e \in Emails : UseInv(e)

(* While no call failed, a code is not used up for nothing: its account is *)
(* verified, or about to be, or was deleted meanwhile, so that "Account    *)
(* Verified Successfully" (user-service.go:174) is true.                   *)
UsedCodeVerifies ==
  \A e \in Emails :
    faults = 0 /\ uses[e] > 0 /\ users[e].active =>
      \/ users[e].verified
      \/ \E r \in Requests : At(r) \in {"forget", "confirm"} /\ Who(r) = e

-----------------------------------------------------------------------------
(* The entries that were counted after the latest issue and are yet to be  *)
(* compared with it.                                                       *)
Pending(e) == {r \in Requests : At(r) \in {"expire", "get"} /\ Who(r) = e
                                 /\ req[r].asOf = issued[e]}

(* Every entry that was or will be compared with a stored code has a       *)
(* number of its own, up to the limit, on the counter beside it.           *)
CountInv(e) ==
  /\ Otp!CounterOutlivesCode(e)
  /\ code[e] # 0 => guesses[e] + Cardinality(Pending(e)) <= attempts[e]
  /\ code[e] # 0 => guesses[e] + Cardinality(Pending(e)) <= MaxAttempts
  /\ attempts[e] <= entered[e] \/ entered[e] > MaxAttempts

CodesInv(e) ==
  /\ code[e] \in {0, issued[e]}
  /\ mailed[e] \subseteq 1 .. issued[e]
  /\ users[e].verified => proved[e]

RequestInv(r) ==
  /\ At(r) \notin {"idle", "insert"} => users[Who(r)].exists
  /\ At(r) = "mail" => req[r].entry \in 1 .. issued[Who(r)]
  /\ At(r) \in {"count", "expire", "get"} =>
       req[r].entry \in mailed[Who(r)] \union {0}
  /\ req[r].asOf <= issued[Who(r)]
  /\ At(r) \in {"forget", "confirm"} => proved[Who(r)]
  /\ At(r) = "forget" /\ req[r].asOf = issued[Who(r)] => uses[Who(r)] > 0
  /\ At(r) = "lockOut" /\ req[r].asOf = issued[Who(r)] =>
       entered[Who(r)] > MaxAttempts
  /\ At(r) = "update" => req[r].entry \in Profiles
  /\ At(r) = "save" =>
       req[r].seen.exists /\ (req[r].seen.verified => proved[Who(r)])

(* The inductive invariant.                                                *)
AccountInv ==
  /\ \A e \in Emails : CountInv(e) /\ UseInv(e) /\ CodesInv(e)
  /\ \A r \in Requests : RequestInv(r)
  /\ GuessBound
  /\ UsedCodeVerifies

(* However requests interleave and fail, the users table keeps the promise *)
(* of AccountPromise: deletion is final, a verification is not lost while  *)
(* the account is active, and only a code makes one.                       *)
Promise == INSTANCE AccountPromise
KeepsPromise == Promise!Spec
=============================================================================
