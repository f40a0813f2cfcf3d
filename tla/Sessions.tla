------------------------------ MODULE Sessions ------------------------------
(***************************************************************************)
(* Tokens (api/services/jwt.go, LoginUser and RefreshUserToken of          *)
(* user-service.go, api/routes/middelware.go) of one account.  A token is  *)
(* signed and never stored: nothing but its expiry ends it.  A login or a  *)
(* renewal reads the account's row and answers with a pair of tokens       *)
(* later; a deletion reads the row and saves it whole later; the account   *)
(* may be verified at any time between the two.                            *)
(***************************************************************************)
EXTENDS Naturals

CONSTANTS Requests, \* requests the API serves at the same time
          MaxPairs  \* bound on the pairs of tokens issued

ASSUME SessionsAssumption == MaxPairs \in Nat

VARIABLES row,    \* the account's row
          tokens, \* the tokens that have not expired
          pairs,  \* number of pairs issued
          req     \* the requests in progress

vars == <<row, tokens, pairs, req>>

Row == [active : BOOLEAN, verified : BOOLEAN]

(* A token's claims: its kind (token_type) and is_verified.  The rest is   *)
(* history: the request it answers, and the account's row when that        *)
(* request came.                                                           *)
Token == [pair : 1 .. MaxPairs, kind : {"access", "refresh"},
          verified : BOOLEAN, op : {"login", "refresh"}, then : Row]

(* claim is what the presented token says, seen the row the service read.  *)
Request == [at : {"idle", "load", "answer", "select", "save"},
            op : {"login", "refresh", "delete"},
            pair : 0 .. MaxPairs, claim : BOOLEAN, seen : Row, then : Row]

Nobody == [active |-> FALSE, verified |-> FALSE]

Idle == [at |-> "idle", op |-> "login", pair |-> 0, claim |-> FALSE,
         seen |-> Nobody, then |-> Nobody]

(* An account that has just been registered; CreateUser signs its first    *)
(* tokens as LoginUser does.                                               *)
Init ==
  /\ row = [active |-> TRUE, verified |-> FALSE]
  /\ tokens = {}
  /\ pairs = 0
  /\ req = [r \in Requests |-> Idle]

Return(r) == req' = [req EXCEPT ![r] = Idle]

(* A login with the right password; a wrong one changes nothing.           *)
Login(r) ==
  /\ req[r].at = "idle"
  /\ req' = [req EXCEPT ![r] = [Idle EXCEPT !.at = "load", !.then = row]]
  /\ UNCHANGED <<row, tokens, pairs>>

(* ParseRefreshToken: the token is alive and a refresh token.              *)
ParseRefreshToken(t) == t \in tokens /\ t.kind = "refresh"

(* A renewal, with any token that was sent to the client.                  *)
Refresh(r) ==
  /\ req[r].at = "idle"
  /\ \E t \in tokens :
       /\ ParseRefreshToken(t)
       /\ req' = [req EXCEPT ![r] =
            [Idle EXCEPT !.at = "load", !.op = "refresh", !.pair = t.pair,
                         !.claim = t.verified, !.then = row]]
  /\ UNCHANGED <<row, tokens, pairs>>

(* Mutant: the account is loaded as RefreshUserToken loads it.             *)
LoadAnyAccount(r) ==
  /\ req[r].at = "load"
  /\ req[r].op = "login"
  /\ req' = [req EXCEPT ![r].at = "answer", ![r].seen = row]
  /\ UNCHANGED <<row, tokens, pairs>>

(* LoginUser: only an active account is found (GetUserCredentialsByEmail), *)
(* so the service's own check of IsActive never fails.                     *)
LoadCredentials(r) ==
  /\ req[r].at = "load"
  /\ req[r].op = "login"
  /\ IF row.active
       THEN req' = [req EXCEPT ![r].at = "answer", ![r].seen = row]
       ELSE Return(r)
  /\ UNCHANGED <<row, tokens, pairs>>

(* Mutant: the account is taken from the token's claims.                   *)
TrustClaims(r) ==
  /\ req[r].at = "load"
  /\ req[r].op = "refresh"
  /\ req' = [req EXCEPT ![r].at = "answer",
                        ![r].seen = [row EXCEPT !.verified = req[r].claim]]
  /\ UNCHANGED <<row, tokens, pairs>>

(* RefreshUserToken: the row is found by its id, active or not.            *)
Reload(r) ==
  /\ req[r].at = "load"
  /\ req[r].op = "refresh"
  /\ req' = [req EXCEPT ![r].at = "answer", ![r].seen = row]
  /\ UNCHANGED <<row, tokens, pairs>>

(* Mutant: the tokens do not say which is which.                           *)
PairUntyped(n, q) ==
  [pair : {n}, kind : {"none"}, verified : {q.seen.verified},
   op : {q.op}, then : {q.then}]

(* GenerateAccessToken and GenerateRefreshToken.                           *)
Pair(n, q) ==
  [pair : {n}, kind : {"access", "refresh"}, verified : {q.seen.verified},
   op : {q.op}, then : {q.then}]

Answer(r) ==
  /\ req[r].at = "answer"
  /\ pairs < MaxPairs
  /\ pairs' = pairs + 1
  /\ tokens' = tokens \union Pair(pairs + 1, req[r])
  /\ Return(r)
  /\ UNCHANGED row

(* A call fails, or the process dies.                                      *)
RequestFails(r) ==
  /\ req[r].at # "idle"
  /\ Return(r)
  /\ UNCHANGED <<row, tokens, pairs>>

(* AuthMiddleWare: a route of the account takes an access token.           *)
Authenticated == \E t \in tokens : t.kind = "access"

(* DeleteUser, by the owner (ValidatOwner); an access token may outlive    *)
(* the account it was signed for.                                          *)
Delete(r) ==
  /\ req[r].at = "idle"
  /\ Authenticated
  /\ req' = [req EXCEPT ![r] = [Idle EXCEPT !.at = "select",
                                            !.op = "delete"]]
  /\ UNCHANGED <<row, tokens, pairs>>

SelectUser(r) ==
  /\ req[r].at = "select"
  /\ req' = [req EXCEPT ![r].at = "save", ![r].seen = row]
  /\ UNCHANGED <<row, tokens, pairs>>

(* The whole row is saved as it was read, with is_active cleared: what was *)
(* written in between, a verification too, is undone.                      *)
SaveUser(r) ==
  /\ req[r].at = "save"
  /\ row' = [req[r].seen EXCEPT !.active = FALSE]
  /\ Return(r)
  /\ UNCHANGED <<tokens, pairs>>

(* VerifyOtp sets is_verified alone (Accounts.ConfirmUser).                *)
VerifyUser ==
  /\ row' = [row EXCEPT !.verified = TRUE]
  /\ UNCHANGED <<tokens, pairs, req>>

Expire ==
  /\ \E t \in tokens : tokens' = tokens \ {t}
  /\ UNCHANGED <<row, pairs, req>>

RequestStep(r) ==
  \/ Login(r) \/ Refresh(r) \/ LoadCredentials(r) \/ Reload(r)
  \/ Answer(r) \/ Delete(r) \/ SelectUser(r) \/ SaveUser(r)
  \/ RequestFails(r)

Next == (\E r \in Requests : RequestStep(r)) \/ VerifyUser \/ Expire

Spec == Init /\ [][Next]_vars

-----------------------------------------------------------------------------
(* Type invariant.                                                         *)
TypeOK ==
  /\ row \in Row
  /\ tokens \subseteq Token
  /\ pairs \in 0 .. MaxPairs
  /\ req \in [Requests -> Request]

(* A login that came after the account was deleted yields no token         *)
(* (user-service.go:201-208), however long the deletion took to show.      *)
LoginRefusesDeleted ==
  \A t \in tokens : t.op = "login" => t.then.active

(* user-service.go:241-243: the account "is reloaded rather than trusted   *)
(* from the token's claims".  While the account is not deleted, a token    *)
(* that answers a request made after the verification says so, whatever    *)
(* the token presented claims and whichever row was read in between, and   *)
(* none says so of an account that is not verified.  Once the account is   *)
(* deleted its row may forget the verification (SaveUser), and a renewal   *)
(* then repeats that.                                                      *)
ClaimsAreCurrent ==
  \A t \in tokens :
    row.active => /\ t.then.verified => t.verified
                  /\ t.verified => row.verified

(* user-service.go:241-243: "one deleted or changed since the token was    *)
(* issued cannot keep renewing".                                           *)
RenewalRefusesDeleted ==
  \A t \in tokens : t.op = "refresh" => t.then.active

(* A request has what its answer will be judged by: a row never forgets a  *)
(* deletion, nor, while it is active, a verification.                      *)
RequestInv(r) ==
  LET q == req[r] IN
  /\ q.at \in {"load", "answer"} => q.op # "delete"
  /\ q.at = "load" /\ row.active =>
       /\ q.then.active
       /\ q.then.verified => row.verified
  /\ q.at = "answer" /\ row.active =>
       /\ q.then.verified => q.seen.verified
       /\ q.seen.verified => row.verified
  /\ q.at = "answer" /\ q.op = "login" => q.then.active
  /\ q.at # "idle" /\ q.op = "refresh" => q.pair \in 1 .. pairs

(* The inductive invariant.                                                *)
SessionsInv ==
  /\ \A r \in Requests : RequestInv(r)
  /\ \A t \in tokens : t.pair <= pairs
  /\ LoginRefusesDeleted
  /\ ClaimsAreCurrent
=============================================================================
