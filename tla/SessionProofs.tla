--------------------------- MODULE SessionProofs ---------------------------
(***************************************************************************)
(* Theorems about Sessions, for any number of requests and of tokens.      *)
(* Types and the inductive invariant are proved together.                  *)
(***************************************************************************)
EXTENDS Sessions, TLAPS

SafeInv == TypeOK /\ SessionsInv

LEMMA IdleTyped == Idle \in Request /\ Idle.at = "idle"
  BY SessionsAssumption DEF SessionsAssumption, Idle, Request, Nobody, Row

(* What every step of a request but the answer does: the request alone     *)
(* changes.                                                                *)
RequestAlone(r) ==
  /\ UNCHANGED <<row, tokens, pairs>>
  /\ req' = [req EXCEPT ![r] = req'[r]]

LEMMA AloneKeeps ==
  ASSUME SafeInv, NEW r \in Requests, RequestAlone(r),
         req'[r] \in Request, RequestInv(r)'
  PROVE  SafeInv'
<1>1. TypeOK'
  BY DEF SafeInv, RequestAlone, TypeOK
<1>2. ASSUME NEW s \in Requests \ {r} PROVE RequestInv(s)'
  BY DEF SafeInv, RequestAlone, TypeOK, SessionsInv, RequestInv
<1>3. QED
  BY <1>1, <1>2
  DEF SafeInv, RequestAlone, SessionsInv, LoginRefusesDeleted, ClaimsAreCurrent

-----------------------------------------------------------------------------
LEMMA LoginKeeps ==
  ASSUME SafeInv, NEW r \in Requests, Login(r) PROVE SafeInv'
<1>1. req'[r] = [Idle EXCEPT !.at = "load", !.then = row] /\ RequestAlone(r)
  BY DEF SafeInv, TypeOK, Login, RequestAlone
<1>2. req'[r] \in Request
  BY <1>1, IdleTyped DEF SafeInv, TypeOK, Request, Idle
<1>3. RequestInv(r)'
  BY <1>1, <1>2 DEF RequestInv, RequestAlone, Idle
<1>4. QED
  BY <1>1, <1>2, <1>3, AloneKeeps

LEMMA RefreshKeeps ==
  ASSUME SafeInv, NEW r \in Requests, Refresh(r) PROVE SafeInv'
<1>1. PICK t \in tokens : req' = [req EXCEPT ![r] =
        [Idle EXCEPT !.at = "load", !.op = "refresh", !.pair = t.pair,
                     !.claim = t.verified, !.then = row]]
  BY DEF Refresh
<1>2. /\ RequestAlone(r)
      /\ req'[r] = [at |-> "load", op |-> "refresh", pair |-> t.pair,
                    claim |-> t.verified, seen |-> Nobody, then |-> row]
  BY <1>1 DEF SafeInv, TypeOK, Refresh, RequestAlone, Idle
<1>3. t \in Token /\ t.pair <= pairs
  BY DEF SafeInv, TypeOK, SessionsInv
<1>4. t.pair \in 1 .. pairs /\ t.verified \in BOOLEAN
  BY <1>3, SessionsAssumption DEF Token, SafeInv, TypeOK, SessionsAssumption
<1>5. req'[r] \in Request
  BY <1>2, <1>4, SessionsAssumption
  DEF Request, Row, Nobody, SafeInv, TypeOK, SessionsAssumption
<1>6. RequestInv(r)'
  BY <1>2, <1>4 DEF RequestInv, RequestAlone
<1>7. QED
  BY <1>2, <1>5, <1>6, AloneKeeps

(* Loading the account: it may have been deleted or verified since the     *)
(* request came, never the reverse while it is active.                     *)
LEMMA LoadKeeps ==
  ASSUME SafeInv, NEW r \in Requests, LoadCredentials(r) \/ Reload(r)
  PROVE  SafeInv'
<1>1. RequestAlone(r)
  BY DEF SafeInv, TypeOK, LoadCredentials, Reload, Return, RequestAlone
<1>2. CASE req'[r] = Idle
  BY <1>1, <1>2, IdleTyped, AloneKeeps DEF RequestInv
<1>3. CASE /\ req'[r] = [req[r] EXCEPT !.at = "answer", !.seen = row]
           /\ req[r].at = "load"
           /\ req[r].op = "login" => row.active
  <2>1. req'[r] \in Request
    BY <1>3 DEF SafeInv, TypeOK, Request
  <2>2. RequestInv(r)
    BY DEF SafeInv, SessionsInv
  <2>3. RequestInv(r)'
    BY <1>1, <1>3, <2>1, <2>2 DEF RequestInv, RequestAlone, SafeInv, TypeOK, Request
  <2>4. QED
    BY <1>1, <2>1, <2>3, AloneKeeps
<1>4. QED
  BY <1>2, <1>3 DEF SafeInv, TypeOK, LoadCredentials, Reload, Return

LEMMA AnswerKeeps ==
  ASSUME SafeInv, NEW r \in Requests, Answer(r) PROVE SafeInv'
<1> DEFINE q == req[r]
           new == Pair(pairs + 1, q)
<1>1. /\ pairs \in 0 .. MaxPairs /\ pairs' = pairs + 1 /\ pairs' \in 1 .. MaxPairs
      /\ tokens' = tokens \union new
      /\ q \in Request /\ q.at = "answer"
      /\ q.op \in {"login", "refresh"}
      /\ RequestInv(r)
  BY SessionsAssumption
  DEF Request, RequestInv, Answer, SafeInv, TypeOK, SessionsInv, SessionsAssumption
<1>2. /\ req'[r] = Idle /\ row' = row
      /\ \A s \in Requests \ {r} : req'[s] = req[s]
      /\ req' \in [Requests -> Request]
  BY IdleTyped DEF Answer, Return, SafeInv, TypeOK
<1>3. \A t \in new : /\ t \in Token /\ t.pair = pairs'
                     /\ t.op = q.op /\ t.then = q.then
                     /\ t.verified = q.seen.verified
  BY <1>1 DEF Pair, Token, Request, Row
<1>4. TypeOK'
  BY <1>1, <1>2, <1>3 DEF SafeInv, TypeOK
<1>5. ASSUME NEW s \in Requests PROVE RequestInv(s)'
  <2>1. CASE s = r
    BY <1>2, <2>1, IdleTyped DEF RequestInv
  <2>2. CASE s # r
    BY <1>1, <1>2, <2>2 DEF RequestInv, SafeInv, SessionsInv
  <2>3. QED
    BY <2>1, <2>2
<1>6. \A t \in tokens' : t.pair <= pairs'
  BY <1>1, <1>3 DEF SafeInv, SessionsInv, TypeOK, Token
<1>7. LoginRefusesDeleted' /\ ClaimsAreCurrent'
  BY <1>1, <1>2, <1>3
  DEF SafeInv, SessionsInv, LoginRefusesDeleted, ClaimsAreCurrent, RequestInv
<1>8. QED
  BY <1>4, <1>5, <1>6, <1>7 DEF SafeInv, SessionsInv

LEMMA RequestFailsKeeps ==
  ASSUME SafeInv, NEW r \in Requests, RequestFails(r) PROVE SafeInv'
<1>1. RequestAlone(r) /\ req'[r] = Idle
  BY DEF SafeInv, TypeOK, RequestFails, Return, RequestAlone
<1>2. QED
  BY <1>1, IdleTyped, AloneKeeps DEF RequestInv

(* A deletion comes, and reads the row.                                    *)
LEMMA DeleteKeeps ==
  ASSUME SafeInv, NEW r \in Requests, Delete(r) PROVE SafeInv'
<1>1. /\ RequestAlone(r)
      /\ req'[r] = [Idle EXCEPT !.at = "select", !.op = "delete"]
  BY DEF SafeInv, TypeOK, Delete, RequestAlone
<1>2. req'[r] \in Request
  BY <1>1, IdleTyped DEF Request, Idle
<1>3. RequestInv(r)'
  BY <1>1 DEF RequestInv, Idle
<1>4. QED
  BY <1>1, <1>2, <1>3, AloneKeeps

LEMMA SelectUserKeeps ==
  ASSUME SafeInv, NEW r \in Requests, SelectUser(r) PROVE SafeInv'
<1>1. /\ RequestAlone(r)
      /\ req'[r] = [req[r] EXCEPT !.at = "save", !.seen = row]
      /\ req[r] \in Request
      /\ RequestInv(r)
      /\ req[r].at = "select"
  BY DEF SafeInv, TypeOK, SelectUser, RequestAlone, SessionsInv
<1>2. /\ req'[r] \in Request /\ req'[r].at = "save"
      /\ req'[r].op = req[r].op /\ req'[r].pair = req[r].pair
      /\ pairs' = pairs
  BY <1>1 DEF SafeInv, TypeOK, Request, RequestAlone
<1>3. RequestInv(r)'
  BY <1>1, <1>2 DEF RequestInv
<1>4. QED
  BY <1>1, <1>2, <1>3, AloneKeeps

(* Once the row is saved the account is not active, and what depends on    *)
(* its verification no longer matters.                                     *)
LEMMA SaveUserKeeps ==
  ASSUME SafeInv, NEW r \in Requests, SaveUser(r) PROVE SafeInv'
<1>1. /\ row' \in Row /\ ~row'.active
      /\ UNCHANGED <<tokens, pairs>>
      /\ req'[r] = Idle
      /\ \A s \in Requests \ {r} : req'[s] = req[s]
      /\ req' \in [Requests -> Request]
  BY IdleTyped DEF SaveUser, Return, SafeInv, TypeOK, Request, Row
<1>2. TypeOK'
  BY <1>1 DEF SafeInv, TypeOK
<1>3. ASSUME NEW s \in Requests PROVE RequestInv(s)'
  BY <1>1, IdleTyped DEF SafeInv, SessionsInv, RequestInv
<1>4. QED
  BY <1>1, <1>2, <1>3
  DEF SafeInv, SessionsInv, LoginRefusesDeleted, ClaimsAreCurrent

(* A verification takes nothing back.                                      *)
LEMMA VerifyUserKeeps ==
  ASSUME SafeInv, VerifyUser PROVE SafeInv'
<1>1. /\ row' \in Row /\ row'.active = row.active /\ row'.verified
      /\ UNCHANGED <<tokens, pairs, req>>
  BY DEF VerifyUser, SafeInv, TypeOK, Row
<1>2. TypeOK'
  BY <1>1 DEF SafeInv, TypeOK
<1>3. \A r \in Requests : RequestInv(r)'
  BY <1>1 DEF SafeInv, SessionsInv, RequestInv
<1>4. QED
  BY <1>1, <1>2, <1>3
  DEF SafeInv, SessionsInv, LoginRefusesDeleted, ClaimsAreCurrent

-----------------------------------------------------------------------------
(* Every variable keeps its type, and requests and tokens keep what        *)
(* SessionsInv says, for any number of logins (LoginUser), renewals        *)
(* (RefreshUserToken) and deletions (DeleteUser, which saves an old row)   *)
(* that overlap, and an account that is verified at any time.              *)
THEOREM SessionsCorrect == Spec => [](TypeOK /\ SessionsInv)
<1>1. Init => SafeInv
  BY SessionsAssumption, IdleTyped
  DEF Init, SafeInv, TypeOK, Row, SessionsAssumption, SessionsInv, RequestInv,
      LoginRefusesDeleted, ClaimsAreCurrent
<1>2. SafeInv /\ [Next]_vars => SafeInv'
  <2> SUFFICES ASSUME SafeInv, [Next]_vars PROVE SafeInv'
    OBVIOUS
  <2>1. ASSUME NEW r \in Requests, RequestStep(r) PROVE SafeInv'
    BY <2>1, LoginKeeps, RefreshKeeps, LoadKeeps, AnswerKeeps, DeleteKeeps,
       SelectUserKeeps, SaveUserKeeps, RequestFailsKeeps DEF RequestStep
  <2>2. CASE Expire
    BY <2>2 DEF Expire, SafeInv, TypeOK, SessionsInv, RequestInv,
                LoginRefusesDeleted, ClaimsAreCurrent
  <2>3. CASE UNCHANGED vars
    BY <2>3 DEF vars, SafeInv, TypeOK, SessionsInv, RequestInv,
                LoginRefusesDeleted, ClaimsAreCurrent
  <2>4. QED
    BY <2>1, <2>2, <2>3, VerifyUserKeeps DEF Next
<1>3. QED
  BY <1>1, <1>2, PTL DEF Spec, SafeInv

(* Every variable keeps its type.                                          *)
THEOREM TypeCorrect == Spec => []TypeOK
  BY SessionsCorrect, PTL

(* An account deleted before a login came gets no token from it            *)
(* (GetUserCredentialsByEmail).                                            *)
THEOREM LoginCorrect == Spec => []LoginRefusesDeleted
<1>1. SessionsInv => LoginRefusesDeleted
  BY DEF SessionsInv
<1>2. QED
  BY <1>1, SessionsCorrect, PTL

(* While the account is not deleted, what a token claims of its            *)
(* verification is what its row said when the request that it answers came *)
(* or later, whatever token that request presented (LoginUser and          *)
(* RefreshUserToken, user-service.go:241-243).                             *)
THEOREM ClaimsCorrect == Spec => []ClaimsAreCurrent
<1>1. SessionsInv => ClaimsAreCurrent
  BY DEF SessionsInv
<1>2. QED
  BY <1>1, SessionsCorrect, PTL
=============================================================================
