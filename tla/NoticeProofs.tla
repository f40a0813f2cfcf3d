---------------------------- MODULE NoticeProofs ----------------------------
(***************************************************************************)
(* Theorems about Notices, for any number of logins, retries, faults and   *)
(* any page length.  The tasks and the table they fill need little; that   *)
(* paging misses nothing rests on ranks: rows have distinct times, so that *)
(* an empty page means that no row is ranked behind it (GapLemma), and a   *)
(* row that arrives late only moves others to later pages.                 *)
(***************************************************************************)
EXTENDS Notices, FiniteSetTheorems, WellFoundedInduction, TLAPS

(* A worker is about to insert the row.                                    *)
Inserting(l) == Q!Active(Log(l))

(* The e-mail was queued, or its subscriber failed; likewise the activity. *)
Mailed(l) == published[l] \in {"activity", "answered"} =>
  Mail(l) \in undelivered \/ pc[Mail(l)] # "idle" \/ sent[l] > 0
Logged(l) == published[l] = "answered" =>
  Log(l) \in undelivered \/ pc[Log(l)] # "idle" \/ \E e \in rows : e.login = l

(* Every failed attempt cost a fault.                                      *)
Retried(l) == /\ retried[Mail(l)] <= faults
              /\ pc[Mail(l)] = "archived" => faults > MailRetry

(* Rows have distinct times, those about to be inserted included.          *)
Keys ==
  /\ IsFiniteSet(rows)
  /\ \A e \in rows : e.key \in 1 .. clock
  /\ \A e, f \in rows : e.key = f.key => e = f
  /\ \A l \in Logins : Inserting(l) => stamp[l] \in 1 .. clock
  /\ \A l \in Logins, e \in rows :
       Inserting(l) /\ e.key = stamp[l] => e.login = l
  /\ \A l, m \in Logins :
       Inserting(l) /\ Inserting(m) /\ stamp[l] = stamp[m] => l = m

(* How far the client has read.                                            *)
Depth == IF feed.at = "page" THEN feed.offset + Limit ELSE feed.offset

Feed ==
  /\ feed.before \subseteq rows
  /\ \A e \in feed.before \ feed.seen : Newer(e) >= Depth
  /\ FeedIsComplete
  /\ feed.at \in {"find", "page"} /\ rows = feed.before
       => feed.total = Cardinality(rows)

SafeInv ==
  /\ TypeOK
  /\ \A l \in Logins : Mailed(l) /\ Logged(l) /\ Retried(l)
  /\ Keys
  /\ Feed

-----------------------------------------------------------------------------
(* Tasks and what the queue does with one of them.                         *)
LEMMA TaskFacts ==
  /\ \A l \in Logins : /\ Mail(l) \in Tasks /\ Mail(l)[1] = "email"
                       /\ Log(l) \in Tasks /\ Log(l)[1] = "activity"
                       /\ Mail(l)[2] = l /\ Log(l)[2] = l
  /\ \A l, m \in Logins : /\ Mail(l) # Log(m)
                          /\ Mail(l) = Mail(m) => l = m
                          /\ Log(l) = Log(m) => l = m
  /\ \A k \in Kinds, l \in Logins :
       <<k, l>> = IF k = "email" THEN Mail(l) ELSE Log(l)
  /\ \A t \in Tasks : /\ t[2] \in Logins
                      /\ t[1] = "email" => t = Mail(t[2])
                      /\ t[1] = "activity" => t = Log(t[2])
                      /\ t[1] \in {"email", "activity"}
  BY DEF Tasks, Kinds, Mail, Log

(* Every other task stays as it is.                                        *)
Others(t) ==
  /\ pc' \in [Tasks -> Labels]
  /\ retried' \in [Tasks -> 0 .. MailRetry]
  /\ \A u \in Tasks \ {t} : pc'[u] = pc[u] /\ retried'[u] = retried[u]

LEMMA CompleteEffect ==
  ASSUME TypeOK, NEW t \in Tasks, Q!Complete(t)
  PROVE  Others(t) /\ pc'[t] = "idle" /\ retried'[t] = 0
  BY NoticesAssumption
  DEF NoticesAssumption, TypeOK, Labels, Others, Q!Complete, Q!Remove

LEMMA ArchiveEffect ==
  ASSUME TypeOK, NEW t \in Tasks, Q!Archive(t)
  PROVE  Others(t) /\ pc'[t] = "archived" /\ retried'[t] = 0
  BY NoticesAssumption
  DEF NoticesAssumption, TypeOK, Labels, Others, Q!Archive

LEMMA StartEffect ==
  ASSUME TypeOK, NEW t \in Tasks, NEW label \in Labels, Q!Start(t, label)
  PROVE  Others(t) /\ pc'[t] = label /\ retried'[t] = retried[t]
  BY DEF TypeOK, Labels, Others, Q!Start, Q!Goto

LEMMA EnqueueEffect ==
  ASSUME TypeOK, NEW t \in Tasks, Q!Enqueue(t)
  PROVE  /\ Others(t) /\ retried'[t] = retried[t]
         /\ pc'[t] = IF pc[t] = "idle" THEN "queued" ELSE pc[t]
  BY DEF TypeOK, Labels, Others, Q!Enqueue, Q!Goto

LEMMA FailEffect ==
  ASSUME TypeOK, NEW t \in Tasks, Q!Fail(t) \/ Q!LeaseLost(t)
  PROVE  /\ Others(t) /\ retried'[t] <= retried[t] + 1
         /\ pc'[t] \in {"queued", "archived"}
         /\ pc'[t] = "archived" => retried[t] = MailRetry
<1>1. /\ retried[t] \in 0 .. MailRetry /\ MailRetry \in Nat
      /\ Q!IsFinalAttempt(t) <=> retried[t] = MailRetry
  BY NoticesAssumption DEF NoticesAssumption, TypeOK, Q!IsFinalAttempt
<1>2. CASE Q!Archive(t) /\ Q!IsFinalAttempt(t)
  BY <1>1, <1>2, ArchiveEffect
<1>3. CASE Q!Requeue(t) /\ ~Q!IsFinalAttempt(t)
  BY <1>1, <1>3 DEF TypeOK, Labels, Others, Q!Requeue
<1>4. QED
  BY <1>2, <1>3 DEF Q!Fail, Q!Exhaust, Q!LeaseLost

-----------------------------------------------------------------------------
(* Rows and the feed.                                                      *)
LEMMA KeysSame ==
  ASSUME Keys, UNCHANGED <<rows, stamp, clock>>,
         \A l \in Logins : Inserting(l)' => Inserting(l)
  PROVE  Keys'
  BY DEF Keys

LEMMA KeysInsert ==
  ASSUME TypeOK, Keys, NEW l \in Logins, Inserting(l),
         rows' = rows \union {Row(l)}, UNCHANGED <<stamp, clock>>,
         \A m \in Logins : Inserting(m)' => Inserting(m)
  PROVE  /\ Keys' /\ rows' \subseteq Entry
         /\ \E e \in rows' : e.login = l
<1>1. Row(l).key = stamp[l] /\ Row(l).login = l /\ Row(l) \in Entry
  BY DEF TypeOK, Row, Entry
<1>2. rows' \subseteq Entry
  BY <1>1 DEF TypeOK
<1>3. IsFiniteSet(rows')
  BY FS_AddElement DEF Keys
<1>4. \A e \in rows' : e.key \in 1 .. clock
  BY <1>1 DEF Keys
<1>5. \A e \in rows : e.key = stamp[l] => e = Row(l)
  BY DEF TypeOK, Keys, Row, Entry
<1>6. \A e, f \in rows' : e.key = f.key => e = f
  BY <1>1, <1>5 DEF Keys
<1>7. ASSUME NEW m \in Logins, NEW e \in rows', Inserting(m)', e.key = stamp[m]
      PROVE  e.login = m
  BY <1>1, <1>7 DEF Keys
<1>8. QED
  BY <1>1, <1>2, <1>3, <1>4, <1>6, <1>7 DEF Keys

LEMMA RankFacts ==
  ASSUME TypeOK, Keys, NEW e \in rows
  PROVE  /\ Newer(e) \in Nat
         /\ IsFiniteSet({f \in rows : f.key > e.key})
         /\ Newer(e) < Cardinality(rows) /\ Cardinality(rows) \in Nat
<1> DEFINE S == {f \in rows : f.key > e.key}
<1>1. e.key \in Nat /\ IsFiniteSet(rows)
  BY DEF TypeOK, Keys, Entry
<1>2. S \subseteq rows \ {e}
  BY <1>1
<1>3. /\ IsFiniteSet(rows \ {e})
      /\ Cardinality(rows \ {e}) = Cardinality(rows) - 1
  BY <1>1, FS_RemoveElement
<1>4. IsFiniteSet(S) /\ Cardinality(S) <= Cardinality(rows \ {e})
  BY <1>2, <1>3, FS_Subset
<1>5. Cardinality(S) \in Nat /\ Cardinality(rows) \in Nat
  BY <1>1, <1>4, FS_CardinalityType
<1>6. QED
  BY <1>3, <1>4, <1>5 DEF Newer

(* One of the sets that a finite set's elements are mapped to is minimal.  *)
LEMMA MinimalSet ==
  ASSUME NEW W, IsFiniteSet(W), NEW X, X # {}, NEW f \in [X -> SUBSET W]
  PROVE  \E g \in X : \A h \in X : ~(f[h] \subseteq f[g] /\ f[h] # f[g])
<1> DEFINE B == {f[h] : h \in X}
<1>1. B \subseteq FiniteSubsetsOf(W) /\ B # {}
  BY FS_Subset DEF FiniteSubsetsOf
<1>2. PICK b \in B : \A c \in B : ~(<<c, b>> \in StrictSubsetOrdering(W))
  <2> HIDE DEF B
  <2>1. IsWellFoundedOn(StrictSubsetOrdering(W), FiniteSubsetsOf(W))
    BY FS_StrictSubsetOrderingWellFounded
  <2>2. QED
    BY <1>1, <2>1, WFMin
<1>3. PICK g \in X : b = f[g]
  BY <1>2
<1>4. ASSUME NEW h \in X, f[h] \subseteq f[g], f[h] # f[g] PROVE FALSE
  <2>1. f[h] \in FiniteSubsetsOf(W) /\ f[g] \in FiniteSubsetsOf(W)
    BY <1>1
  <2>2. <<f[h], f[g]>> \in StrictSubsetOrdering(W)
    BY <1>4, <2>1, FS_Subset DEF StrictSubsetOrdering, FiniteSubsetsOf
  <2>3. QED
    BY <1>2, <1>3, <2>2
<1>5. QED
  BY <1>4

LEMMA Extremes ==
  ASSUME TypeOK, Keys, NEW X, X \subseteq rows, X # {}
  PROVE  /\ \E g \in X : \A h \in X : h.key <= g.key
         /\ \E g \in X : \A h \in X : g.key <= h.key
<1> DEFINE above == [h \in X |-> {e \in rows : e.key > h.key}]
           below == [h \in X |-> {e \in rows : e.key < h.key}]
<1>1. IsFiniteSet(rows) /\ \A e \in rows : e.key \in Nat
  BY DEF TypeOK, Keys, Entry
<1>2. above \in [X -> SUBSET rows] /\ below \in [X -> SUBSET rows]
  OBVIOUS
<1>3. PICK g \in X : \A h \in X : ~(above[h] \subseteq above[g]
                                      /\ above[h] # above[g])
  <2> HIDE DEF above
  <2>1. QED
    BY <1>1, <1>2, MinimalSet
<1>4. PICK f \in X : \A h \in X : ~(below[h] \subseteq below[f]
                                      /\ below[h] # below[f])
  <2> HIDE DEF below
  <2>1. QED
    BY <1>1, <1>2, MinimalSet
<1>5. ASSUME NEW h \in X PROVE h.key <= g.key
  <2> SUFFICES ASSUME h.key > g.key PROVE FALSE
    BY <1>1
  <2>1. above[h] \subseteq above[g]
    BY <1>1
  <2>2. h \in above[g] /\ h \notin above[h]
    BY <1>1
  <2>3. QED
    BY <1>3, <2>1, <2>2
<1>6. ASSUME NEW h \in X PROVE f.key <= h.key
  <2> SUFFICES ASSUME h.key < f.key PROVE FALSE
    BY <1>1
  <2>1. below[h] \subseteq below[f]
    BY <1>1
  <2>2. h \in below[f] /\ h \notin below[h]
    BY <1>1
  <2>3. QED
    BY <1>4, <2>1, <2>2
<1>7. QED
  BY <1>5, <1>6

(* No rank is left out.                                                    *)
LEMMA GapLemma ==
  ASSUME TypeOK, Keys, NEW n \in Nat, NEW e \in rows, Newer(e) >= n
  PROVE  \E f \in rows : Newer(f) = n
<1> DEFINE Above(f) == {g \in rows : g.key > f.key}
           X == {g \in rows : Newer(g) >= n}
<1>1. \A f \in rows : /\ Newer(f) = Cardinality(Above(f)) /\ Newer(f) \in Nat
                      /\ IsFiniteSet(Above(f)) /\ f.key \in Nat
  BY RankFacts DEF Newer, TypeOK, Entry
<1>2. PICK f \in X : \A g \in X : g.key <= f.key
  <2>1. X \subseteq rows /\ X # {}
    OBVIOUS
  <2>2. QED
    <3> HIDE DEF X
    <3>1. QED
      BY <2>1, Extremes
<1>3. CASE Above(f) = {}
  <2>1. Cardinality(Above(f)) = 0
    BY <1>3, FS_EmptySet
  <2>2. QED
    BY <1>1, <1>2, <2>1
<1>4. CASE Above(f) # {}
  <2>1. PICK g \in Above(f) : \A h \in Above(f) : g.key <= h.key
    <3>1. Above(f) \subseteq rows
      OBVIOUS
    <3>2. QED
      <4> HIDE DEF Above
      <4>1. QED
        BY <1>4, <3>1, Extremes
  <2>2. /\ f \in rows /\ g \in rows /\ g.key > f.key
        /\ Newer(f) \in Nat /\ Newer(g) \in Nat /\ Newer(f) >= n
    <3>1. f \in rows /\ g \in rows /\ g.key > f.key /\ Newer(f) >= n
      BY <1>2, <2>1
    <3>2. QED
      BY <3>1, RankFacts
  <2>3. \A h \in rows : h.key \in Nat /\ (h.key = g.key => h = g)
    BY <2>2 DEF Keys, TypeOK, Entry
  <2>4. Above(f) = Above(g) \union {g} /\ g \notin Above(g)
    <3>1. f.key \in Nat /\ g.key \in Nat
      BY <2>2, <2>3
    <3>2. \A h \in rows : h.key > f.key => h.key > g.key \/ h = g
      BY <2>1, <2>2, <2>3, <3>1
    <3>3. \A h \in rows : h.key > g.key => h.key > f.key
      BY <2>2, <2>3, <3>1
    <3>4. QED
      BY <2>2, <2>3, <3>1, <3>2, <3>3
  <2>5. Newer(f) = Newer(g) + 1
    <3> HIDE DEF Above
    <3>1. QED
      BY <1>1, <2>2, <2>4, FS_AddElement
  <2>6. Newer(g) < n
    <3>1. ~(g.key <= f.key)
      BY <2>2, <2>3
    <3>2. ~(Newer(g) >= n)
      BY <1>2, <2>2, <3>1
    <3>3. QED
      BY <2>2, <3>2
  <2>7. Newer(f) = n
    BY <2>2, <2>5, <2>6
  <2>8. QED
    BY <2>2, <2>7
<1>5. QED
  BY <1>3, <1>4

(* A row that arrives moves others to later pages, and none to an earlier  *)
(* one.                                                                    *)
LEMMA FeedGrows ==
  ASSUME SafeInv, rows \subseteq rows', Keys', UNCHANGED feed PROVE Feed'
<1>1. TypeOK /\ Keys /\ Feed /\ IsFiniteSet(rows')
  BY DEF SafeInv, Keys
<1>2. feed.before \subseteq rows'
  BY <1>1 DEF Feed
<1>3. ASSUME NEW e \in feed.before \ feed.seen PROVE Newer(e)' >= Depth'
  <2>1. e \in rows /\ Newer(e) >= Depth /\ Newer(e) \in Nat
    BY <1>1, RankFacts DEF Feed
  <2> DEFINE S == {f \in rows : f.key > e.key}
             T == {f \in rows' : f.key > e.key}
  <2>2. IsFiniteSet(T)
    BY <1>1, FS_Subset
  <2>3. S \subseteq T
    OBVIOUS
  <2>4. Cardinality(S) <= Cardinality(T) /\ Cardinality(T) \in Nat
    BY <2>2, <2>3, FS_Subset, FS_CardinalityType
  <2>5. Newer(e) = Cardinality(S) /\ Newer(e)' = Cardinality(T)
    BY DEF Newer
  <2>6. Depth' = Depth /\ Depth \in Nat
    BY <1>1, NoticesAssumption DEF Depth, TypeOK, NoticesAssumption
  <2>7. QED
    BY <2>1, <2>4, <2>5, <2>6
<1>4. rows' = feed.before => rows' = rows
  BY <1>1 DEF Feed
<1>5. QED
  BY <1>1, <1>2, <1>3, <1>4 DEF Feed, FeedIsComplete

LEMMA RowsSame ==
  ASSUME SafeInv, UNCHANGED <<rows, stamp, clock, feed>>,
         \A l \in Logins : Inserting(l)' => Inserting(l)
  PROVE  Keys' /\ Feed'
<1>1. Keys'
  BY KeysSame DEF SafeInv
<1>2. QED
  BY <1>1, FeedGrows

-----------------------------------------------------------------------------
(* The request that publishes a login.                                     *)
LEMMA DispatchKeeps ==
  ASSUME SafeInv, NEW l \in Logins, NEW k \in Kinds, Dispatch(l, k)
  PROVE  SafeInv'
<1> DEFINE t == <<k, l>>
<1>1. TypeOK /\ t \in Tasks /\ k \in {"email", "activity"}
  BY DEF SafeInv, Tasks, Kinds
<1>2. /\ Others(t) /\ retried'[t] = retried[t]
      /\ pc'[t] = IF pc[t] = "idle" THEN "queued" ELSE pc[t]
  BY <1>1, EnqueueEffect DEF Dispatch
<1>3. /\ published[l] = k
      /\ published' = [published EXCEPT ![l] = After(k)]
      /\ UNCHANGED <<undelivered, sent, stamp, rows, clock, feed, faults>>
  BY DEF Dispatch, work
<1>4. TypeOK'
  BY <1>1, <1>2, <1>3 DEF TypeOK, Others, After, Kinds
<1>5. /\ t = IF k = "email" THEN Mail(l) ELSE Log(l)
      /\ \A u \in Tasks : /\ pc'[u] = "idle" <=> pc[u] = "idle" /\ u # t
                          /\ Q!Active(u)' => Q!Active(u)
                          /\ pc'[u] = "archived" => pc[u] = "archived"
                          /\ retried'[u] = retried[u]
  BY <1>1, <1>2, TaskFacts DEF Others, Q!Active, Q!Parked
<1>6. ASSUME NEW m \in Logins PROVE Mailed(m)' /\ Logged(m)' /\ Retried(m)'
  <2>1. Mail(m) \in Tasks /\ Log(m) \in Tasks
    BY TaskFacts
  <2>2. Mailed(m) /\ Logged(m) /\ Retried(m)
    BY DEF SafeInv
  <2>3. published'[m] = IF m = l THEN After(k) ELSE published[m]
    BY <1>1, <1>3 DEF TypeOK
  <2>4. Retried(m)'
    BY <1>3, <1>5, <2>1, <2>2 DEF Retried
  <2>5. Mailed(m)'
    BY <1>1, <1>3, <1>5, <2>1, <2>2, <2>3 DEF Mailed, After
  <2>6. Logged(m)'
    BY <1>1, <1>3, <1>5, <2>1, <2>2, <2>3 DEF Logged, After
  <2>7. QED
    BY <2>4, <2>5, <2>6
<1>7. Keys' /\ Feed'
  BY <1>3, <1>5, TaskFacts, RowsSame DEF Inserting, Q!Active, Q!Parked
<1>8. QED
  BY <1>4, <1>6, <1>7 DEF SafeInv

LEMMA SubscriberKeeps ==
  ASSUME SafeInv, NEW l \in Logins, NEW k \in Kinds,
         SubscriberFails(l, k) \/ ApiCrash(l)
  PROVE  SafeInv'
<1>1. /\ TypeOK /\ k \in {"email", "activity"} /\ <<k, l>> \in Tasks
      /\ <<k, l>> = IF k = "email" THEN Mail(l) ELSE Log(l)
  BY TaskFacts DEF SafeInv, Tasks, Kinds
<1>2. /\ UNCHANGED <<pc, retried, sent, stamp, rows, clock, feed>>
      /\ undelivered \subseteq undelivered'
      /\ faults' = faults + 1 /\ faults < MaxFaults
      /\ \/ /\ published[l] = k
            /\ published' = [published EXCEPT ![l] = After(k)]
            /\ undelivered' = undelivered \union {<<k, l>>}
         \/ /\ published' = [published EXCEPT ![l] = "died"]
            /\ undelivered' = undelivered
  BY DEF SubscriberFails, ApiCrash, queue, work, Fault
<1>3. TypeOK'
  BY <1>1, <1>2, NoticesAssumption
  DEF TypeOK, After, Kinds, NoticesAssumption
<1>4. ASSUME NEW m \in Logins PROVE Mailed(m)' /\ Logged(m)' /\ Retried(m)'
  <2>1. Mailed(m) /\ Logged(m) /\ Retried(m)
    BY DEF SafeInv
  <2>2. \/ published'[m] = published[m]
        \/ m = l /\ published'[m] = "died"
        \/ /\ m = l /\ published[m] = k /\ published'[m] = After(k)
           /\ <<k, m>> \in undelivered'
    BY <1>1, <1>2 DEF TypeOK
  <2>3. Retried(m)'
    <3>1. retried[Mail(m)] \in 0 .. MailRetry /\ faults \in 0 .. MaxFaults
      BY <1>1, TaskFacts DEF TypeOK
    <3>2. QED
      BY <1>2, <2>1, <3>1, NoticesAssumption DEF Retried, NoticesAssumption
  <2>4. Mailed(m)'
    BY <1>1, <1>2, <2>1, <2>2 DEF Mailed, After
  <2>5. Logged(m)'
    BY <1>1, <1>2, <2>1, <2>2 DEF Logged, After
  <2>6. QED
    BY <2>3, <2>4, <2>5
<1>5. Keys' /\ Feed'
  BY <1>2, RowsSame DEF Inserting, Q!Active, Q!Parked
<1>6. QED
  BY <1>3, <1>4, <1>5 DEF SafeInv

-----------------------------------------------------------------------------
(* A step of one task, whatever it is, that leaves the task attempted,     *)
(* loses no row and pays for a failed attempt.                             *)
Attempt(t) ==
  /\ Others(t)
  /\ UNCHANGED <<published, undelivered, feed>>
  /\ rows \subseteq rows' /\ rows' \subseteq Entry
  /\ sent' \in [Logins -> Nat] /\ stamp' \in [Logins -> Nat] /\ clock' \in Nat
  /\ \A l \in Logins : sent[l] <= sent'[l]
  /\ faults' \in faults .. MaxFaults
  /\ \A l \in Logins :
       /\ t = Mail(l) => /\ pc'[t] # "idle" \/ sent'[l] > 0
                         /\ retried'[t] <= faults'
                         /\ pc'[t] = "archived" => faults' > MailRetry
       /\ t = Log(l) => pc'[t] # "idle" \/ \E e \in rows' : e.login = l

LEMMA AttemptKeeps ==
  ASSUME SafeInv, NEW t \in Tasks, Attempt(t), Keys' PROVE SafeInv'
<1>1. TypeOK /\ faults \in 0 .. MaxFaults /\ MaxFaults \in Nat
  BY NoticesAssumption DEF SafeInv, TypeOK, NoticesAssumption
<1>2. faults' \in 0 .. MaxFaults /\ faults' >= faults
  BY <1>1 DEF Attempt
<1>3. TypeOK'
  BY <1>1, <1>2 DEF TypeOK, Attempt, Others
<1>4. ASSUME NEW l \in Logins PROVE Mailed(l)' /\ Logged(l)' /\ Retried(l)'
  <2>1. /\ Mail(l) \in Tasks /\ Log(l) \in Tasks
        /\ Mailed(l) /\ Logged(l) /\ Retried(l)
    BY TaskFacts DEF SafeInv
  <2>2. /\ sent[l] \in Nat /\ sent'[l] \in Nat /\ sent[l] <= sent'[l]
        /\ retried[Mail(l)] \in Nat /\ MailRetry \in Nat
    BY <1>1, <2>1, NoticesAssumption DEF TypeOK, Attempt, NoticesAssumption
  <2>3. Mailed(l)'
    <3>1. CASE t = Mail(l)
      BY <3>1 DEF Attempt, Mailed
    <3>2. CASE t # Mail(l)
      BY <2>1, <2>2, <3>2 DEF Attempt, Others, Mailed
    <3>3. QED
      BY <3>1, <3>2
  <2>4. Logged(l)'
    <3>1. CASE t = Log(l)
      BY <3>1 DEF Attempt, Logged
    <3>2. CASE t # Log(l)
      BY <2>1, <3>2 DEF Attempt, Others, Logged
    <3>3. QED
      BY <3>1, <3>2
  <2>5. Retried(l)'
    <3>1. CASE t = Mail(l)
      BY <3>1 DEF Attempt, Retried
    <3>2. CASE t # Mail(l)
      BY <1>1, <1>2, <2>1, <2>2, <3>2 DEF Attempt, Others, Retried
    <3>3. QED
      BY <3>1, <3>2
  <2>6. QED
    BY <2>3, <2>4, <2>5
<1>5. Feed'
  BY FeedGrows DEF Attempt
<1>6. QED
  BY <1>3, <1>4, <1>5 DEF SafeInv

LEMMA Numbers ==
  ASSUME SafeInv
  PROVE  /\ TypeOK /\ Keys /\ MailRetry \in Nat /\ MaxFaults \in Nat
         /\ faults \in 0 .. MaxFaults
         /\ \A l \in Logins : /\ sent[l] \in Nat
                              /\ retried[Mail(l)] \in 0 .. MailRetry
                              /\ retried[Mail(l)] <= faults
                              /\ retried[Log(l)] \in 0 .. MailRetry
         /\ Fault => faults' = faults + 1 /\ faults' \in faults .. MaxFaults
  BY NoticesAssumption, TaskFacts
  DEF SafeInv, TypeOK, Retried, Fault, NoticesAssumption

LEMMA PickupKeeps ==
  ASSUME SafeInv, NEW l \in Logins, Pickup(l) PROVE SafeInv'
<1>1. CASE StartMail(l)
  <2>1. Mail(l) \in Tasks /\ "send" \in Labels /\ TypeOK
    BY TaskFacts, Numbers DEF Labels
  <2>2. /\ Others(Mail(l)) /\ pc'[Mail(l)] = "send"
        /\ retried'[Mail(l)] = retried[Mail(l)]
    BY <1>1, <2>1, StartEffect DEF StartMail
  <2>3. UNCHANGED <<published, undelivered, feed, faults, sent, stamp, rows,
                    clock>>
    BY <1>1 DEF Pickup, StartMail, work
  <2>4. Attempt(Mail(l))
    BY <2>1, <2>2, <2>3, Numbers, TaskFacts DEF Attempt, TypeOK
  <2>5. \A m \in Logins : Inserting(m)' => Inserting(m)
    BY <2>2, TaskFacts DEF Others, Inserting, Q!Active, Q!Parked
  <2>6. QED
    BY <2>1, <2>3, <2>4, <2>5, AttemptKeeps, RowsSame
<1>2. CASE StartLog(l)
  <2>1. Log(l) \in Tasks /\ "insert" \in Labels /\ TypeOK /\ Keys
    BY TaskFacts, Numbers DEF Labels
  <2>2. /\ Others(Log(l)) /\ pc'[Log(l)] = "insert"
        /\ retried'[Log(l)] = retried[Log(l)]
    BY <1>2, <2>1, StartEffect DEF StartLog
  <2>3. /\ UNCHANGED <<published, undelivered, feed, faults, sent, rows>>
        /\ clock' = clock + 1 /\ stamp' = [stamp EXCEPT ![l] = clock + 1]
    BY <1>2 DEF Pickup, StartLog
  <2>4. Attempt(Log(l))
    BY <2>1, <2>2, <2>3, Numbers, TaskFacts DEF Attempt, TypeOK
  <2>5. \A m \in Logins \ {l} : /\ Inserting(m)' <=> Inserting(m)
                               /\ stamp'[m] = stamp[m]
    BY <2>1, <2>2, <2>3, TaskFacts
    DEF Others, Inserting, Q!Active, Q!Parked, TypeOK
  <2>6. stamp'[l] = clock + 1 /\ clock \in Nat
    BY <2>1, <2>3 DEF TypeOK
  <2>7. Keys'
    <3>1. \A e \in rows : e.key \in 1 .. clock' /\ e.key # stamp'[l]
      BY <2>1, <2>3, <2>6 DEF Keys
    <3>2. \A m \in Logins :
            Inserting(m)' => /\ stamp'[m] \in 1 .. clock'
                             /\ stamp'[m] = stamp'[l] => m = l
      BY <2>1, <2>3, <2>5, <2>6 DEF Keys
    <3>3. \A m \in Logins, e \in rows :
            Inserting(m)' /\ e.key = stamp'[m] => e.login = m
      BY <2>1, <2>5, <3>1 DEF Keys
    <3>4. ASSUME NEW m \in Logins, NEW n \in Logins, Inserting(m)',
                 Inserting(n)', stamp'[m] = stamp'[n]
          PROVE  m = n
      BY <2>1, <2>5, <3>2, <3>4 DEF Keys
    <3>5. QED
      BY <2>1, <2>3, <3>1, <3>2, <3>3, <3>4 DEF Keys
  <2>8. QED
    BY <2>1, <2>4, <2>7, AttemptKeeps
<1>3. QED
  BY <1>1, <1>2 DEF Pickup, Started

LEMMA WorkerKeeps ==
  ASSUME SafeInv, NEW l \in Logins, Worker(l) PROVE SafeInv'
<1>1. /\ Mail(l) \in Tasks /\ Log(l) \in Tasks /\ TypeOK /\ Keys
      /\ UNCHANGED <<published, undelivered, feed>>
      /\ rows \subseteq Entry /\ clock \in Nat
      /\ sent \in [Logins -> Nat] /\ stamp \in [Logins -> Nat]
  BY TaskFacts, Numbers DEF Worker, TypeOK
<1>2. CASE SendMail(l)
  <2>1. Others(Mail(l)) /\ pc'[Mail(l)] = "idle" /\ retried'[Mail(l)] = 0
    BY <1>1, <1>2, CompleteEffect DEF SendMail
  <2>2. /\ sent' = [sent EXCEPT ![l] = @ + 1]
        /\ UNCHANGED <<stamp, rows, clock, faults>>
    BY <1>2 DEF SendMail
  <2>3. Attempt(Mail(l))
    BY <1>1, <2>1, <2>2, Numbers, TaskFacts DEF Attempt
  <2>4. \A m \in Logins : Inserting(m)' => Inserting(m)
    BY <2>1, TaskFacts DEF Others, Inserting, Q!Active, Q!Parked
  <2>5. QED
    BY <1>1, <2>2, <2>3, <2>4, AttemptKeeps, RowsSame
<1>3. CASE SendLost(l)
  <2>1. /\ Others(Mail(l)) /\ pc'[Mail(l)] \in {"queued", "archived"}
        /\ retried'[Mail(l)] <= retried[Mail(l)] + 1
        /\ pc'[Mail(l)] = "archived" => retried[Mail(l)] = MailRetry
    BY <1>1, <1>3, FailEffect DEF SendLost, SendFails
  <2>2. /\ \/ sent' = [sent EXCEPT ![l] = @ + 1]
           \/ sent' = sent
        /\ UNCHANGED <<stamp, rows, clock>> /\ Fault
    BY <1>3 DEF SendLost
  <2>3. Attempt(Mail(l))
    <3>1. retried'[Mail(l)] \in Nat
      BY <1>1, <2>1, Numbers DEF Others
    <3>2. QED
      BY <1>1, <2>1, <2>2, <3>1, Numbers, TaskFacts DEF Attempt
  <2>4. \A m \in Logins : Inserting(m)' => Inserting(m)
    BY <2>1, TaskFacts DEF Others, Inserting, Q!Active, Q!Parked
  <2>5. QED
    BY <1>1, <2>2, <2>3, <2>4, AttemptKeeps, RowsSame
<1>4. CASE InsertLog(l)
  <2>1. Others(Log(l)) /\ pc'[Log(l)] = "idle"
    BY <1>1, <1>4, CompleteEffect DEF InsertLog
  <2>2. /\ rows' = rows \union {Row(l)} /\ Inserting(l)
        /\ UNCHANGED <<sent, stamp, clock, faults>>
    BY <1>4 DEF InsertLog, Inserting, Q!Active, Q!Parked
  <2>3. \A m \in Logins : Inserting(m)' => Inserting(m)
    BY <2>1, TaskFacts DEF Others, Inserting, Q!Active, Q!Parked
  <2>4. Keys' /\ rows' \subseteq Entry /\ \E e \in rows' : e.login = l
    BY <1>1, <2>2, <2>3, KeysInsert
  <2>5. Attempt(Log(l))
    BY <1>1, <2>1, <2>2, <2>4, Numbers, TaskFacts DEF Attempt
  <2>6. QED
    BY <1>1, <2>4, <2>5, AttemptKeeps
<1>5. CASE InsertLost(l)
  <2>1. Others(Log(l)) /\ pc'[Log(l)] = "archived"
    BY <1>1, <1>5, ArchiveEffect DEF InsertLost, InsertFails
  <2>2. /\ \/ rows' = rows \union {Row(l)}
           \/ rows' = rows
        /\ Inserting(l) /\ UNCHANGED <<sent, stamp, clock>> /\ Fault
    BY <1>5 DEF InsertLost, Inserting, Q!Active, Q!Parked
  <2>3. \A m \in Logins : Inserting(m)' => Inserting(m)
    BY <2>1, TaskFacts DEF Others, Inserting, Q!Active, Q!Parked
  <2>4. Keys' /\ rows' \subseteq Entry
    BY <1>1, <2>2, <2>3, KeysInsert, KeysSame
  <2>5. Attempt(Log(l))
    BY <1>1, <2>1, <2>2, <2>4, Numbers, TaskFacts DEF Attempt
  <2>6. QED
    BY <1>1, <2>4, <2>5, AttemptKeeps
<1>6. QED
  BY <1>2, <1>3, <1>4, <1>5 DEF Worker, Handler, HandlerFails

LEMMA CrashKeeps ==
  ASSUME SafeInv, NEW t \in Tasks, Crash(t) PROVE SafeInv'
<1>1. /\ UNCHANGED <<published, undelivered, feed, stamp, clock>> /\ Fault
      /\ TypeOK /\ Keys /\ Q!LeaseLost(t)
      /\ rows \subseteq Entry /\ clock \in Nat
      /\ sent \in [Logins -> Nat] /\ stamp \in [Logins -> Nat]
  BY Numbers DEF Crash, WorkerCrash, TypeOK
<1>2. PICK l \in Logins : l = t[2]
  BY TaskFacts
<1>3. /\ Others(t) /\ retried'[t] <= retried[t] + 1
      /\ pc'[t] \in {"queued", "archived"}
      /\ pc'[t] = "archived" => retried[t] = MailRetry
  BY <1>1, FailEffect
<1>4. retried'[t] \in Nat
  BY <1>3, Numbers DEF Others
<1>5. \A m \in Logins : Inserting(m)' => Inserting(m)
  BY <1>3, TaskFacts DEF Others, Inserting, Q!Active, Q!Parked
<1>6. CASE rows' = rows /\ (sent' = sent
                             \/ sent' = [sent EXCEPT ![l] = @ + 1])
  <2>1. Attempt(t)
    BY <1>1, <1>3, <1>4, <1>6, Numbers, TaskFacts DEF Attempt
  <2>2. QED
    BY <1>1, <1>5, <1>6, <2>1, AttemptKeeps, RowsSame
<1>7. CASE t[1] = "activity" /\ rows' = rows \union {Row(l)} /\ sent' = sent
  <2>1. t = Log(l)
    BY <1>2, <1>7, TaskFacts
  <2>2. Inserting(l)
    BY <1>1, <2>1 DEF Inserting, Q!LeaseLost
  <2>3. Keys' /\ rows' \subseteq Entry
    BY <1>1, <1>5, <1>7, <2>2, KeysInsert
  <2>4. Attempt(t)
    BY <1>1, <1>3, <1>4, <1>7, <2>1, <2>3, Numbers, TaskFacts DEF Attempt
  <2>5. QED
    BY <2>3, <2>4, AttemptKeeps
<1>8. QED
  BY <1>2, <1>6, <1>7 DEF Crash, WorkerCrash

-----------------------------------------------------------------------------
(* The client.                                                             *)
LEMMA ReadingKeeps ==
  ASSUME SafeInv, Reading PROVE SafeInv'
<1>1. /\ UNCHANGED <<published, undelivered, pc, retried, sent, stamp, rows,
                     clock, faults>>
      /\ TypeOK /\ Keys /\ Feed /\ Limit \in Nat \ {0}
  BY NoticesAssumption
  DEF Reading, queue, work, SafeInv, NoticesAssumption
<1>2. (\A l \in Logins : Mailed(l) /\ Logged(l) /\ Retried(l))' /\ Keys'
  <2>1. Keys'
    BY <1>1, KeysSame DEF Inserting, Q!Active, Q!Parked
  <2>2. QED
    BY <1>1, <2>1 DEF SafeInv, Mailed, Logged, Retried
<1>3. \A e \in rows : Newer(e)' = Newer(e) /\ Newer(e) \in Nat
  BY <1>1, RankFacts DEF Newer
<1>4. /\ feed.offset \in Nat /\ feed.total \in Nat /\ rows \subseteq Entry
      /\ feed.before \subseteq rows /\ feed.seen \subseteq Entry
      /\ \A e \in feed.before \ feed.seen : Newer(e) >= Depth
      /\ Cardinality(rows) \in Nat
  BY <1>1, FS_CardinalityType DEF TypeOK, Feed, Keys
<1>5. /\ NoFeed.at = "idle" /\ NoFeed.offset = 0 /\ NoFeed.before = {}
      /\ NoFeed.empty = FALSE
      /\ NoFeed \in [at : {"idle", "count", "find", "page"}, offset : Nat,
                     total : Nat, empty : BOOLEAN, seen : SUBSET Entry,
                     before : SUBSET Entry]
  BY DEF NoFeed
<1> DEFINE Type == feed' \in
      [at : {"idle", "count", "find", "page"}, offset : Nat, total : Nat,
       empty : BOOLEAN, seen : SUBSET Entry, before : SUBSET Entry]
<1>6. Type /\ Feed' => SafeInv'
  BY <1>1, <1>2 DEF SafeInv, TypeOK
<1>7. CASE Browse
  <2>1. /\ feed'.at = "count" /\ feed'.before = rows /\ feed'.offset = 0
        /\ feed' \in [at : {"idle", "count", "find", "page"}, offset : Nat,
                      total : Nat, empty : BOOLEAN, seen : SUBSET Entry,
                      before : SUBSET Entry]
    BY <1>4, <1>5, <1>7 DEF Browse, NoFeed
  <2>2. Feed'
    BY <1>1, <1>3, <2>1 DEF Feed, Depth, FeedIsComplete
  <2>3. QED
    BY <1>6, <2>1, <2>2
<1>8. CASE Count
  <2>1. /\ feed.at = "count" /\ feed'.at = "find"
        /\ feed'.before = feed.before /\ feed'.offset = feed.offset
        /\ feed'.seen = feed.seen /\ feed'.total = Cardinality(rows)
        /\ Type
    BY <1>1, <1>4, <1>8 DEF Count, TypeOK
  <2>2. Feed'
    BY <1>1, <1>3, <1>4, <2>1 DEF Feed, Depth, FeedIsComplete
  <2>3. QED
    BY <1>6, <2>1, <2>2
<1>9. CASE Find
  <2>1. /\ feed.at = "find" /\ feed'.at = "page"
        /\ feed'.before = feed.before /\ feed'.offset = feed.offset
        /\ feed'.seen = feed.seen \union PageRows
        /\ feed'.total = feed.total
        /\ feed'.empty = (PageRows = {})
    BY <1>1, <1>9 DEF Find, TypeOK
  <2>2. PageRows \subseteq rows
    BY DEF PageRows
  <2>3. Type
    BY <1>1, <1>4, <1>9, <2>2 DEF Find, TypeOK
  <2>4. ASSUME NEW e \in feed'.before \ feed'.seen
        PROVE  /\ e \in rows /\ Newer(e) >= feed.offset + Limit
               /\ Newer(e) \in Nat /\ Newer(e)' = Newer(e)
    <3>1. /\ e \in rows /\ e \notin PageRows
          /\ Newer(e) >= feed.offset
      BY <1>4, <2>1 DEF Depth
    <3>2. QED
      BY <1>1, <1>3, <1>4, <3>1 DEF PageRows
  <2>5. ASSUME PageRows = {} PROVE feed'.before \subseteq feed'.seen
    <3> SUFFICES ASSUME NEW e \in feed'.before \ feed'.seen PROVE FALSE
      OBVIOUS
    <3>1. e \in rows /\ Newer(e) >= feed.offset
      BY <1>1, <1>4, <2>4
    <3>2. PICK f \in rows : Newer(f) = feed.offset
      BY <1>1, <1>4, <3>1, GapLemma
    <3>3. f \in PageRows
      BY <1>1, <1>4, <3>2 DEF PageRows
    <3>4. QED
      BY <2>5, <3>3
  <2>6. Feed'
    <3>1. Depth' = feed.offset + Limit
      BY <2>1 DEF Depth
    <3>2. FeedIsComplete'
      BY <2>1, <2>5 DEF FeedIsComplete
    <3>3. QED
      BY <1>1, <2>1, <2>4, <3>1, <3>2 DEF Feed
  <2>7. QED
    BY <1>6, <2>3, <2>6
<1>10. CASE TurnPage
  <2>1. /\ feed.at = "page" /\ feed'.at = "count"
        /\ feed'.before = feed.before /\ feed'.seen = feed.seen
        /\ feed'.offset = feed.offset + Limit /\ Type
    <3>1. /\ feed \in [at : {"idle", "count", "find", "page"}, offset : Nat,
                       total : Nat, empty : BOOLEAN, seen : SUBSET Entry,
                       before : SUBSET Entry]
          /\ feed.offset + Limit \in Nat
      BY <1>1, <1>4 DEF TypeOK
    <3>2. /\ feed.at = "page"
          /\ feed' = [feed EXCEPT !.at = "count", !.offset = @ + Limit]
      BY <1>10 DEF TurnPage
    <3>3. QED
      BY <3>1, <3>2
  <2>2. Feed'
    BY <1>1, <1>3, <1>4, <2>1 DEF Feed, Depth, FeedIsComplete
  <2>3. QED
    BY <1>6, <2>1, <2>2
<1>11. CASE Close
  <2>1. feed' = NoFeed
    BY <1>11 DEF Close
  <2>2. Feed'
    BY <1>5, <2>1 DEF Feed, FeedIsComplete
  <2>3. QED
    BY <1>5, <1>6, <2>1, <2>2
<1>12. QED
  BY <1>7, <1>8, <1>9, <1>10, <1>11 DEF Reading, Page

-----------------------------------------------------------------------------
LEMMA SafeInit == Init => SafeInv
<1> SUFFICES ASSUME Init PROVE SafeInv
  OBVIOUS
<1>1. /\ MailRetry \in Nat /\ MaxFaults \in Nat
      /\ NoFeed \in [at : {"idle", "count", "find", "page"}, offset : Nat,
                     total : Nat, empty : BOOLEAN, seen : SUBSET Entry,
                     before : SUBSET Entry]
  BY NoticesAssumption DEF NoticesAssumption, NoFeed
<1>2. TypeOK
  BY <1>1 DEF Init, TypeOK, Q!QueueInit, Kinds, Labels
<1>3. \A l \in Logins : /\ published[l] = "email" /\ pc[Mail(l)] = "idle"
                        /\ pc[Log(l)] = "idle" /\ retried[Mail(l)] = 0
  BY TaskFacts DEF Init, Q!QueueInit
<1>4. \A l \in Logins : Mailed(l) /\ Logged(l) /\ Retried(l) /\ ~Inserting(l)
  BY <1>1, <1>3
  DEF Mailed, Logged, Retried, Inserting, Q!Active, Q!Parked, Init
<1>5. Keys
  BY <1>4, FS_EmptySet DEF Init, Keys
<1>6. Feed
  BY DEF Init, NoFeed, Feed, FeedIsComplete
<1>7. QED
  BY <1>2, <1>4, <1>5, <1>6 DEF SafeInv

LEMMA SafeNext == SafeInv /\ [Next]_vars => SafeInv'
<1> SUFFICES ASSUME SafeInv, [Next]_vars PROVE SafeInv'
  OBVIOUS
<1>1. ASSUME NEW l \in Logins, Request(l) PROVE SafeInv'
  BY <1>1, DispatchKeeps DEF Request
<1>2. ASSUME NEW l \in Logins, ApiCrash(l) PROVE SafeInv'
  BY <1>2, SubscriberKeeps DEF Kinds
<1>3. ASSUME NEW l \in Logins, NEW k \in Kinds, SubscriberFails(l, k)
      PROVE  SafeInv'
  BY <1>3, SubscriberKeeps
<1>4. ASSUME NEW l \in Logins, Worker(l) PROVE SafeInv'
  BY <1>4, WorkerKeeps
<1>5. ASSUME NEW l \in Logins, Pickup(l) PROVE SafeInv'
  BY <1>5, PickupKeeps
<1>6. ASSUME NEW t \in Tasks, Crash(t) PROVE SafeInv'
  BY <1>6, CrashKeeps
<1>7. CASE Reading
  BY <1>7, ReadingKeeps
<1>8. CASE UNCHANGED vars
  <2>1. UNCHANGED <<published, undelivered, pc, retried, sent, stamp, rows,
                    clock, feed, faults>>
    BY <1>8 DEF vars, queue, work
  <2>2. Keys' /\ Feed'
    BY <2>1, RowsSame DEF Inserting, Q!Active, Q!Parked
  <2>3. QED
    BY <2>1, <2>2 DEF SafeInv, TypeOK, Mailed, Logged, Retried
<1>9. QED
  BY <1>1, <1>2, <1>3, <1>4, <1>5, <1>6, <1>7, <1>8 DEF Next

THEOREM SafeCorrect == Spec => []SafeInv
  BY SafeInit, SafeNext, PTL DEF Spec

(* The type invariant.                                                     *)
THEOREM TypeCorrect == Spec => []TypeOK
<1>1. SafeInv => TypeOK
  BY DEF SafeInv
<1>2. QED
  BY <1>1, SafeCorrect, PTL

(* A subscriber that panics or fails keeps the event from no other.        *)
THEOREM EventCorrect == Spec => []EventReachesAll
<1>1. ASSUME SafeInv PROVE EventReachesAll
  <2> SUFFICES ASSUME NEW l \in Logins, published[l] = "answered",
                      NEW k \in Kinds
               PROVE  <<k, l>> \in undelivered \/ Attempted(<<k, l>>)
    BY DEF EventReachesAll
  <2>1. Mailed(l) /\ Logged(l)
    BY <1>1 DEF SafeInv
  <2>2. CASE k = "email"
    BY <2>1, <2>2 DEF Mailed, Mail, Attempted
  <2>3. CASE k = "activity"
    BY <2>1, <2>3 DEF Logged, Log, Attempted
  <2>4. QED
    BY <2>2, <2>3 DEF Kinds
<1>2. QED
  BY <1>1, SafeCorrect, PTL

(* An e-mail is given up only when every attempt failed.                   *)
THEOREM RetriedCorrect == Spec => []MailIsRetried
<1>1. SafeInv => MailIsRetried
  BY DEF SafeInv, Retried, MailIsRetried
<1>2. QED
  BY <1>1, SafeCorrect, PTL

(* Who turns pages until one is empty has seen every activity there was.   *)
THEOREM FeedCorrect == Spec => []FeedIsComplete
<1>1. SafeInv => FeedIsComplete
  BY DEF SafeInv, Feed
<1>2. QED
  BY <1>1, SafeCorrect, PTL

(* Who turns pages up to the total has seen every activity, while no other *)
(* is recorded.                                                            *)
THEOREM LastPageCorrect == Spec => []LastPageIsLast
<1>1. ASSUME SafeInv PROVE LastPageIsLast
  <2> SUFFICES ASSUME feed.at = "page", rows = feed.before,
                      feed.offset + Limit >= feed.total,
                      NEW e \in feed.before, e \notin feed.seen
               PROVE  FALSE
    BY DEF LastPageIsLast
  <2>1. /\ TypeOK /\ Keys /\ e \in rows
        /\ feed.total = Cardinality(rows) /\ Newer(e) >= feed.offset + Limit
    BY <1>1 DEF SafeInv, Feed, Depth
  <2>2. /\ Newer(e) \in Nat /\ Newer(e) < Cardinality(rows)
        /\ Cardinality(rows) \in Nat
    BY <2>1, RankFacts
  <2>3. feed.offset + Limit \in Nat
    BY <2>1, NoticesAssumption DEF TypeOK, NoticesAssumption
  <2>4. QED
    BY <2>1, <2>2, <2>3
<1>2. QED
  BY <1>1, SafeCorrect, PTL
=============================================================================
