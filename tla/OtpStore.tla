------------------------------ MODULE OtpStore ------------------------------
(***************************************************************************)
(* The one-time codes in Redis (internal/otp/store.go): for every          *)
(* identifier a key that holds the code and a key that counts the attempts *)
(* to enter it.  Each operator is one call to Redis; who makes the calls,  *)
(* and what happens between them, is the caller's business (Accounts).     *)
(*                                                                         *)
(* A code is the number of its issue: two issues are taken to differ.  A   *)
(* key's life is counted in ticks.  A key without a code is 0; a counter   *)
(* may live on without a time to live (attemptsLeft = 0).                  *)
(***************************************************************************)
EXTENDS Naturals

CONSTANTS Identifiers, \* e-mail addresses
          MaxAttempts, \* OTP_MAX_ATTEMPTS
          TTL          \* OTP_TTL_MINUTES, in ticks

VARIABLES code, codeLeft,        \* the code and its time to live
          attempts, attemptsLeft \* the counter and its time to live

codeKey == <<code, codeLeft>>
attemptKey == <<attempts, attemptsLeft>>
keys == <<codeKey, attemptKey>>

StoreInit ==
  /\ code = [i \in Identifiers |-> 0]
  /\ codeLeft = [i \in Identifiers |-> 0]
  /\ attempts = [i \in Identifiers |-> 0]
  /\ attemptsLeft = [i \in Identifiers |-> 0]

(* Mutant: a new code does not reset the counter.                          *)
GenerateKeepingAttempts(i, c) ==
  /\ code' = [code EXCEPT ![i] = c]
  /\ codeLeft' = [codeLeft EXCEPT ![i] = TTL]
  /\ UNCHANGED attemptKey

(* Generate: one transaction stores the code and forgets the attempts made *)
(* on the one before.                                                      *)
Generate(i, c) ==
  /\ code' = [code EXCEPT ![i] = c]
  /\ codeLeft' = [codeLeft EXCEPT ![i] = TTL]
  /\ attempts' = [attempts EXCEPT ![i] = 0]
  /\ attemptsLeft' = [attemptsLeft EXCEPT ![i] = 0]

(* INCR, which keeps the time to live of a counter that has one.           *)
CountAttempt(i) ==
  /\ attempts' = [attempts EXCEPT ![i] = @ + 1]
  /\ UNCHANGED <<codeKey, attemptsLeft>>

(* Mutant: EXPIRE takes another unit of time than SET.                     *)
ExpireAttemptsUnit(i) ==
  /\ attemptsLeft' = [attemptsLeft EXCEPT ![i] =
                        IF attempts[i] = 0 THEN 0 ELSE TTL * 60]
  /\ UNCHANGED <<codeKey, attempts>>

(* EXPIRE, which does nothing when the key is gone.                        *)
ExpireAttempts(i) ==
  /\ attemptsLeft' = [attemptsLeft EXCEPT ![i] =
                        IF attempts[i] = 0 THEN 0 ELSE TTL]
  /\ UNCHANGED <<codeKey, attempts>>

(* Mutant: DEL names the counter only.                                     *)
ForgetAttempts(i) ==
  /\ attempts' = [attempts EXCEPT ![i] = 0]
  /\ attemptsLeft' = [attemptsLeft EXCEPT ![i] = 0]
  /\ UNCHANGED codeKey

(* DEL of both keys, after a match or too many attempts.                   *)
Forget(i) ==
  /\ code' = [code EXCEPT ![i] = 0]
  /\ codeLeft' = [codeLeft EXCEPT ![i] = 0]
  /\ attempts' = [attempts EXCEPT ![i] = 0]
  /\ attemptsLeft' = [attemptsLeft EXCEPT ![i] = 0]

(* Mutant: a missing code is taken for an empty one.                       *)
MatchesEmpty(i, entry) == entry = code[i]

(* GET and the comparison of the hashes.                                   *)
Matches(i, entry) == code[i] # 0 /\ entry = code[i]

(* Time passes, and Redis drops the keys whose time is up.                 *)
Age(left) == [i \in Identifiers |-> IF left[i] = 0 THEN 0 ELSE left[i] - 1]
Survivors(key, left) ==
  [i \in Identifiers |-> IF left[i] = 1 THEN 0 ELSE key[i]]

Tick ==
  /\ code' = Survivors(code, codeLeft)
  /\ codeLeft' = Age(codeLeft)
  /\ attempts' = Survivors(attempts, attemptsLeft)
  /\ attemptsLeft' = Age(attemptsLeft)

StoreTypeOK ==
  /\ code \in [Identifiers -> Nat]
  /\ codeLeft \in [Identifiers -> 0 .. TTL]
  /\ attempts \in [Identifiers -> Nat]
  /\ attemptsLeft \in [Identifiers -> 0 .. TTL]

(* A code is stored exactly while it has time to live.                     *)
(* A counter that will expire outlives the code it protects.               *)
CounterOutlivesCode(i) ==
  /\ code[i] = 0 <=> codeLeft[i] = 0
  /\ attempts[i] = 0 => attemptsLeft[i] = 0
  /\ attemptsLeft[i] > 0 => attemptsLeft[i] >= codeLeft[i]
=============================================================================
