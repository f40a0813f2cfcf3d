--------------------------- MODULE HistoryProofs ---------------------------
(***************************************************************************)
(* Theorems about History, for any transactions, wallets and page sizes.   *)
(* Cutting each source off before the lists are merged loses nothing of a  *)
(* page within the cut (MergeLemma); and whatever is settled while a       *)
(* request reads, it shows nothing untrue and misses nothing else.         *)
(***************************************************************************)
EXTENDS History, FiniteSetTheorems, WellFoundedInduction, TLAPS

LEMMA RankFacts ==
  ASSUME NEW S, IsFiniteSet(S), NEW e
  PROVE  /\ Newer(S, e) \subseteq S
         /\ IsFiniteSet(Newer(S, e)) /\ Rank(S, e) \in Nat
         /\ \A T : Newer(S, e) \subseteq T /\ IsFiniteSet(T)
                     => Rank(S, e) <= Cardinality(T)
<1>1. Newer(S, e) \subseteq S
  BY DEF Newer
<1>2. IsFiniteSet(Newer(S, e))
  BY <1>1, FS_Subset
<1>3. Rank(S, e) \in Nat
  BY <1>2, FS_CardinalityType DEF Rank
<1>4. ASSUME NEW T, Newer(S, e) \subseteq T, IsFiniteSet(T)
      PROVE  Rank(S, e) <= Cardinality(T)
  BY <1>4, FS_Subset DEF Rank
<1>5. QED
  BY <1>1, <1>2, <1>3, <1>4

(* An entry among the n newest of a list is among the n newest of every    *)
(* part of it that it belongs to.                                          *)
LEMMA PartLemma ==
  ASSUME NEW W, IsFiniteSet(W), NEW P, P \subseteq W, NEW n \in Nat,
         NEW e \in P, Rank(W, e) < n
  PROVE  e \in Newest(P, n)
<1>1. IsFiniteSet(P) /\ IsFiniteSet(Newer(W, e))
  BY FS_Subset, RankFacts
<1>2. Newer(P, e) \subseteq Newer(W, e)
  BY DEF Newer
<1>3. Rank(P, e) <= Cardinality(Newer(W, e)) /\ Rank(P, e) \in Nat
  BY <1>1, <1>2, RankFacts
<1>4. Cardinality(Newer(W, e)) = Rank(W, e) /\ Rank(W, e) \in Nat
  BY RankFacts DEF Rank
<1>5. QED
  BY <1>3, <1>4 DEF Newest

(* The newest of the entries of a list that another list lacks.            *)
LEMMA NewestMissing ==
  ASSUME NEW W, IsFiniteSet(W), W \subseteq Entry, NEW X, X \subseteq W, X # {}
  PROVE  \E f \in X : \A g \in X : ~(g.key > f.key)
<1> DEFINE B == {Newer(W, f) : f \in X}
<1>1. B \subseteq FiniteSubsetsOf(W) /\ B # {}
  BY RankFacts DEF FiniteSubsetsOf
<1>2. PICK b \in B : \A c \in B : ~(<<c, b>> \in StrictSubsetOrdering(W))
  <2> HIDE DEF B
  <2>1. IsWellFoundedOn(StrictSubsetOrdering(W), FiniteSubsetsOf(W))
    BY FS_StrictSubsetOrderingWellFounded
  <2>2. QED
    BY <1>1, <2>1, WFMin
<1>3. PICK f \in X : b = Newer(W, f)
  BY <1>2
<1>4. ASSUME NEW g \in X, g.key > f.key PROVE FALSE
  <2>1. f.key \in Nat /\ g.key \in Nat
    BY DEF Entry
  <2>2. \A h \in W : h.key \in Nat
    BY DEF Entry
  <2>3. Newer(W, g) \subseteq Newer(W, f)
    BY <1>4, <2>1, <2>2 DEF Newer
  <2>4. g \in Newer(W, f) /\ g \notin Newer(W, g)
    BY <1>4, <2>1 DEF Newer
  <2>5. <<Newer(W, g), Newer(W, f)>> \in StrictSubsetOrdering(W)
    BY <2>3, <2>4, RankFacts DEF StrictSubsetOrdering
  <2>6. QED
    BY <1>2, <1>3, <2>5
<1>5. QED
  BY <1>4

(* A list that holds the n newest entries of the whole, and perhaps more   *)
(* of it, has the same pages within the first n.                           *)
LEMMA MergeLemma ==
  ASSUME NEW W, IsFiniteSet(W), W \subseteq Entry, NEW M, M \subseteq W,
         NEW n \in Nat, Newest(W, n) \subseteq M,
         NEW offset \in Nat, NEW limit \in Nat, offset + limit <= n
  PROVE  Slice(M, offset, limit) = Slice(W, offset, limit)
<1>1. IsFiniteSet(M)
  BY FS_Subset
<1>2. \A e \in W : e.key \in Nat /\ Rank(W, e) \in Nat /\ Rank(M, e) \in Nat
  BY <1>1, RankFacts DEF Entry
<1>3. ASSUME NEW e \in W, Rank(W, e) < n
      PROVE  e \in M /\ Rank(M, e) = Rank(W, e)
  <2>1. e \in M
    BY <1>3 DEF Newest
  <2>2. ASSUME NEW f \in Newer(W, e) PROVE f \in M
    <3>1. f \in W /\ f.key > e.key
      BY DEF Newer
    <3>2. Newer(W, f) \subseteq Newer(W, e)
      BY <1>2, <3>1 DEF Newer
    <3>3. Rank(W, f) <= Rank(W, e)
      BY <3>2, RankFacts DEF Rank
    <3>4. QED
      BY <1>2, <1>3, <3>1, <3>3 DEF Newest
  <2>3. Newer(M, e) = Newer(W, e)
    BY <2>2 DEF Newer
  <2>4. QED
    BY <2>1, <2>3 DEF Rank
<1>4. ASSUME NEW e \in M, Rank(M, e) < n PROVE Rank(W, e) < n
  <2> SUFFICES ASSUME n <= Rank(W, e) PROVE FALSE
    BY <1>2
  <2> DEFINE X == Newer(W, e) \ M
  <2>1. X \subseteq W /\ X \subseteq Newer(W, e)
    BY DEF Newer
  <2>2. X # {}
    <3> SUFFICES ASSUME X = {} PROVE FALSE
      OBVIOUS
    <3>1. Newer(W, e) = Newer(M, e)
      BY DEF Newer
    <3>2. QED
      BY <1>2, <1>4, <3>1 DEF Rank
  <2>3. PICK f \in X : \A g \in X : ~(g.key > f.key)
    <3> HIDE DEF X
    <3>1. QED
      BY <2>1, <2>2, NewestMissing
  <2>4. f \in W /\ f.key > e.key /\ f \notin M
    BY DEF Newer
  <2>5. Newer(W, f) \subseteq Newer(M, e)
    <3> SUFFICES ASSUME NEW g \in W, g.key > f.key
                 PROVE  g \in M /\ g.key > e.key
      BY DEF Newer
    <3>1. g.key > e.key
      BY <1>2, <2>4
    <3>2. g \in Newer(W, e)
      BY <3>1 DEF Newer
    <3>3. QED
      BY <2>3, <3>1, <3>2
  <2>6. Rank(W, f) <= Rank(M, e)
    BY <1>1, <2>5, RankFacts DEF Rank
  <2>7. Rank(W, f) < n
    BY <1>2, <1>4, <2>4, <2>6
  <2>8. QED
    BY <2>4, <2>7 DEF Newest
<1>5. ASSUME NEW e PROVE e \in Slice(M, offset, limit)
                           <=> e \in Slice(W, offset, limit)
  <2>1. CASE e \in M /\ Rank(M, e) < n
    <3>1. Rank(W, e) < n
      BY <1>4, <2>1
    <3>2. Rank(M, e) = Rank(W, e)
      BY <1>3, <2>1, <3>1
    <3>3. QED
      BY <2>1, <3>2 DEF Slice
  <2>2. CASE e \in W /\ Rank(W, e) < n
    <3>1. e \in M /\ Rank(M, e) = Rank(W, e)
      BY <1>3, <2>2
    <3>2. QED
      BY <2>2, <3>1 DEF Slice
  <2>3. CASE ~(e \in M /\ Rank(M, e) < n) /\ ~(e \in W /\ Rank(W, e) < n)
    <3>1. e \notin Slice(M, offset, limit)
      BY <1>2, <2>3 DEF Slice
    <3>2. e \notin Slice(W, offset, limit)
      BY <1>2, <2>3 DEF Slice
    <3>3. QED
      BY <3>1, <3>2
  <2>4. QED
    BY <2>1, <2>2, <2>3
<1>6. QED
  BY <1>5

-----------------------------------------------------------------------------
(* The entries of one transaction, and whether its source of unsettled     *)
(* rows was read.                                                          *)
SettledEntry(t) == [ref |-> t, status |-> "SUCCESS", key |-> moved[t]]
UnsettledEntry(t) == [ref |-> t, status |-> status[t], key |-> created[t]]

SourceRead(t) == \/ t \in Deposits /\ page.at \in {"transfers", "listed"}
                 \/ t \in Transfers /\ page.at = "listed"

(* What an undisturbed request has read so far.                            *)
Read(n) ==
  (UNION {Newest(Settled(w), n) : w \in Wallets \ page.left})
    \union (IF page.at \in {"transfers", "listed"}
              THEN Newest(Unsettled(Deposits), n) ELSE {})
    \union (IF page.at = "listed" THEN Newest(Unsettled(Transfers), n) ELSE {})

(* What a request with room for everything has read of one transaction     *)
(* that nobody settles meanwhile.                                          *)
Roomy == WithinScan /\ 2 * Cardinality(Refs) <= page.limit
OfRef(t) == {e \in merged : e.ref = t}
SeenOf(t) ==
  {e \in {SettledEntry(t)} : moved[t] # 0 /\ WalletOf[t] \notin page.left}
    \union {e \in {UnsettledEntry(t)} :
              status[t] \notin {"NONE", "SUCCESS"} /\ SourceRead(t)}

(* What has moved has a row, and what is closed has moved.                 *)
RowsInv == \A t \in Refs : /\ moved[t] # 0 => HasRow(t)
                           /\ status[t] = "SUCCESS" => moved[t] # 0

(* A reader has at most one unsettled entry of a transaction.              *)
MergedInv ==
  /\ page.at = "idle" => merged = {}
  /\ page.at \notin {"idle", "movements"} => page.left = {}
  /\ ShownIsReal
  /\ \A e \in merged : IF e.status = "SUCCESS" THEN e.key # 0
                                               ELSE SourceRead(e.ref)
  /\ \A e, f \in merged : /\ e.status # "SUCCESS" /\ f.status # "SUCCESS"
                          /\ e.ref = f.ref
                          => e = f

ReaderInv ==
  page.at # "idle" =>
    /\ stirred = {} => merged = Read(Scan(page))
    /\ Roomy => \A t \in Refs \ stirred : OfRef(t) = SeenOf(t)

SafeInv == TypeOK /\ RowsInv /\ MergedInv /\ ReaderInv

-----------------------------------------------------------------------------
(* What is recorded or settled changes nothing that was read truthfully,   *)
(* and stirs the transaction for the request that reads.                   *)
LEMMA SettlementKeeps ==
  ASSUME SafeInv, NEW t \in Refs, Settlement(t) PROVE SafeInv'
<1>1. /\ UNCHANGED <<page, merged>>
      /\ stirred' = IF page.at = "idle" THEN stirred ELSE stirred \union {t}
  BY DEF Settlement, Record, Move, Succeed, Fail, Stir
<1>2. /\ status' \in [Refs -> {"NONE", "PENDING", "SUCCESS", "FAILED"}]
      /\ created' \in [Refs -> Nat] /\ moved' \in [Refs -> Nat]
      /\ clock' \in Nat
      /\ \A u \in Refs \ {t} : /\ status'[u] = status[u]
                               /\ created'[u] = created[u]
                               /\ moved'[u] = moved[u]
      /\ HasRow(t)'
      /\ moved[t] # 0 => moved'[t] = moved[t]
      /\ HasRow(t) => created'[t] = created[t]
      /\ status'[t] = "SUCCESS" => moved'[t] # 0
  <2>1. /\ status \in [Refs -> {"NONE", "PENDING", "SUCCESS", "FAILED"}]
        /\ created \in [Refs -> Nat] /\ moved \in [Refs -> Nat]
        /\ clock \in Nat
        /\ moved[t] # 0 => HasRow(t)
        /\ status[t] = "SUCCESS" => moved[t] # 0
    BY DEF SafeInv, TypeOK, RowsInv
  <2>2. CASE Record(t)
    BY <2>1, <2>2 DEF Record, Tick, HasRow
  <2>3. CASE Move(t)
    BY <2>1, <2>3 DEF Move, Settleable, Tick, HasRow
  <2>4. CASE Succeed(t)
    BY <2>1, <2>4 DEF Succeed, Settleable, HasRow
  <2>5. CASE Fail(t)
    BY <2>1, <2>5 DEF Fail, HasRow
  <2>6. QED
    BY <2>2, <2>3, <2>4, <2>5 DEF Settlement
<1>3. TypeOK'
  BY <1>1, <1>2 DEF SafeInv, TypeOK
<1>4. RowsInv'
  BY <1>2 DEF SafeInv, RowsInv, HasRow
<1>5. ShownIsReal'
  <2> SUFFICES ASSUME NEW e \in merged
               PROVE  /\ HasRow(e.ref)'
                      /\ e.status = "SUCCESS" => moved'[e.ref] = e.key
                      /\ e.status # "SUCCESS" => created'[e.ref] = e.key
    BY <1>1 DEF ShownIsReal
  <2>1. /\ e.ref \in Refs /\ HasRow(e.ref)
        /\ e.status = "SUCCESS" => moved[e.ref] = e.key /\ e.key # 0
        /\ e.status # "SUCCESS" => created[e.ref] = e.key
    BY DEF SafeInv, MergedInv, ShownIsReal, TypeOK, Entry
  <2>2. QED
    BY <1>2, <2>1 DEF HasRow
<1>6. MergedInv'
  BY <1>1, <1>5 DEF SafeInv, MergedInv, SourceRead
<1>7. ReaderInv'
  <2> SUFFICES ASSUME page.at # "idle"
               PROVE  /\ stirred' # {}
                      /\ Roomy => \A u \in Refs \ stirred' :
                                    OfRef(u)' = SeenOf(u)'
    BY <1>1 DEF ReaderInv, Roomy, WithinScan
  <2>1. stirred' = stirred \union {t}
    BY <1>1
  <2>2. ASSUME Roomy, NEW u \in Refs \ stirred' PROVE OfRef(u)' = SeenOf(u)'
    <3>1. u \in Refs \ stirred /\ u # t
      BY <2>1
    <3>2. OfRef(u) = SeenOf(u)
      BY <2>2, <3>1 DEF SafeInv, ReaderInv
    <3>3. OfRef(u)' = OfRef(u)
      BY <1>1 DEF OfRef
    <3>4. SettledEntry(u)' = SettledEntry(u)
      BY <1>2, <3>1 DEF SettledEntry
    <3>5. UnsettledEntry(u)' = UnsettledEntry(u)
      BY <1>2, <3>1 DEF UnsettledEntry
    <3>6. SourceRead(u)' = SourceRead(u)
      BY <1>1 DEF SourceRead
    <3>7. SeenOf(u)' = SeenOf(u)
      BY <1>1, <1>2, <3>1, <3>4, <3>5, <3>6 DEF SeenOf
    <3>8. QED
      BY <3>2, <3>3, <3>7
  <2>3. QED
    BY <2>1, <2>2
<1>8. QED
  BY <1>3, <1>4, <1>6, <1>7 DEF SafeInv

LEMMA LimitTyped ==
  ASSUME NEW limit \in Limits, NEW offset \in Offsets
  PROVE  Limit(limit) \in 1 .. MaxActivityLimit /\ Offset(offset) \in Nat
  BY HistoryAssumption DEF HistoryAssumption, Limit, Offset

LEMMA RequestKeeps ==
  ASSUME SafeInv, Request PROVE SafeInv'
<1>1. PICK limit \in Limits, offset \in Offsets :
        page' = [at |-> "movements", limit |-> Limit(limit),
                 offset |-> Offset(offset), left |-> Wallets]
  BY DEF Request
<1>2. /\ stirred' = {} /\ merged' = {}
      /\ UNCHANGED <<status, created, moved, clock>>
  BY DEF Request, books
<1>3. TypeOK'
  BY <1>1, <1>2, LimitTyped DEF SafeInv, TypeOK
<1>4. RowsInv' /\ MergedInv'
  BY <1>1, <1>2 DEF SafeInv, RowsInv, HasRow, MergedInv, ShownIsReal
<1>5. ASSUME NEW t \in Refs \ stirred'
      PROVE  OfRef(t)' = {} /\ SeenOf(t)' = {}
  <2>1. WalletOf[t] \in Wallets
    BY HistoryAssumption DEF HistoryAssumption
  <2>2. OfRef(t)' = {}
    BY <1>2, <1>5 DEF OfRef
  <2>3. ~SourceRead(t)'
    BY <1>1 DEF SourceRead
  <2>4. SeenOf(t)' = {}
    BY <1>1, <2>1, <2>3 DEF SeenOf
  <2>5. QED
    BY <2>2, <2>4
<1>6. Read(Scan(page))' = {}
  BY <1>1 DEF Read
<1>7. QED
  BY <1>2, <1>3, <1>4, <1>5, <1>6 DEF SafeInv, ReaderInv

LEMMA AnswerKeeps ==
  ASSUME SafeInv, Answer PROVE SafeInv'
<1>1. Asleep \in [at : {"idle", "movements", "intents", "transfers", "listed"},
                  limit : 1 .. MaxActivityLimit, offset : Nat,
                  left : SUBSET Wallets]
  BY HistoryAssumption DEF Asleep, HistoryAssumption
<1>2. page'.at = "idle" /\ merged' = {} /\ UNCHANGED books
  BY DEF Answer, Asleep
<1>3. QED
  BY <1>1, <1>2 DEF Answer, SafeInv, TypeOK, RowsInv, HasRow, MergedInv,
     ShownIsReal, ReaderInv, books

-----------------------------------------------------------------------------
(* The sources a request reads: parts of the whole history, each with an   *)
(* entry for a transaction at most.                                        *)
LEMMA SettledFacts ==
  ASSUME TypeOK, NEW w \in Wallets
  PROVE  /\ Settled(w) \subseteq Entry /\ Settled(w) \subseteq Whole
         /\ IsFiniteSet(Settled(w))
         /\ Cardinality(Settled(w)) <= Cardinality(Refs)
         /\ \A e \in Settled(w) : /\ moved[e.ref] # 0 /\ WalletOf[e.ref] = w
                                  /\ e = SettledEntry(e.ref)
         /\ \A t \in Refs : moved[t] # 0 /\ WalletOf[t] = w
                              => SettledEntry(t) \in Settled(w)
<1> DEFINE D == {u \in Refs : moved[u] # 0 /\ WalletOf[u] = w}
           f == [u \in D |-> SettledEntry(u)]
<1>1. IsFiniteSet(D) /\ Cardinality(D) <= Cardinality(Refs)
  BY HistoryAssumption, FS_Subset DEF HistoryAssumption
<1>2. f \in Surjection(D, Settled(w))
  BY DEF Surjection, Settled, SettledEntry
<1>3. IsFiniteSet(Settled(w)) /\ Cardinality(Settled(w)) <= Cardinality(D)
  <2> HIDE DEF D, f
  <2>1. QED
    BY <1>1, <1>2, FS_Surjection
<1>4. /\ Cardinality(D) \in Nat /\ Cardinality(Refs) \in Nat
      /\ Cardinality(Settled(w)) \in Nat
  BY <1>1, <1>3, FS_CardinalityType, HistoryAssumption DEF HistoryAssumption
<1>5. Settled(w) \subseteq Entry /\ Settled(w) \subseteq Whole
  BY DEF TypeOK, Settled, Entry, Whole
<1>6. /\ \A e \in Settled(w) : /\ moved[e.ref] # 0 /\ WalletOf[e.ref] = w
                               /\ e = SettledEntry(e.ref)
      /\ \A t \in Refs : moved[t] # 0 /\ WalletOf[t] = w
                           => SettledEntry(t) \in Settled(w)
  BY DEF Settled, SettledEntry
<1>7. Cardinality(Settled(w)) <= Cardinality(Refs)
  BY <1>1, <1>3, <1>4
<1>8. QED
  BY <1>3, <1>5, <1>6, <1>7

LEMMA UnsettledFacts ==
  ASSUME TypeOK, NEW T, T \subseteq Refs
  PROVE  /\ Unsettled(T) \subseteq Entry /\ Unsettled(T) \subseteq Whole
         /\ IsFiniteSet(Unsettled(T))
         /\ Cardinality(Unsettled(T)) <= Cardinality(Refs)
         /\ \A e \in Unsettled(T) : /\ e.ref \in T
                                    /\ status[e.ref] \notin {"NONE", "SUCCESS"}
                                    /\ e = UnsettledEntry(e.ref)
                                    /\ e.status # "SUCCESS"
         /\ \A t \in T : status[t] \notin {"NONE", "SUCCESS"}
                           => UnsettledEntry(t) \in Unsettled(T)
<1> DEFINE D == {u \in T : status[u] \notin {"NONE", "SUCCESS"}}
           f == [u \in D |-> UnsettledEntry(u)]
<1>1. IsFiniteSet(D) /\ Cardinality(D) <= Cardinality(Refs)
  BY HistoryAssumption, FS_Subset DEF HistoryAssumption
<1>2. f \in Surjection(D, Unsettled(T))
  BY DEF Surjection, Unsettled, UnsettledEntry
<1>3. IsFiniteSet(Unsettled(T)) /\ Cardinality(Unsettled(T)) <= Cardinality(D)
  <2> HIDE DEF D, f
  <2>1. QED
    BY <1>1, <1>2, FS_Surjection
<1>4. /\ Cardinality(D) \in Nat /\ Cardinality(Refs) \in Nat
      /\ Cardinality(Unsettled(T)) \in Nat
  BY <1>1, <1>3, FS_CardinalityType, HistoryAssumption DEF HistoryAssumption
<1>5. Unsettled(T) \subseteq Entry /\ Unsettled(T) \subseteq Whole
  BY DEF TypeOK, Unsettled, Entry, Whole
<1>6. /\ \A e \in Unsettled(T) : /\ e.ref \in T
                                 /\ status[e.ref] \notin {"NONE", "SUCCESS"}
                                 /\ e = UnsettledEntry(e.ref)
                                 /\ e.status # "SUCCESS"
      /\ \A t \in T : status[t] \notin {"NONE", "SUCCESS"}
                        => UnsettledEntry(t) \in Unsettled(T)
  BY DEF Unsettled, UnsettledEntry
<1>7. Cardinality(Unsettled(T)) <= Cardinality(Refs)
  BY <1>1, <1>3, <1>4
<1>8. QED
  BY <1>3, <1>5, <1>6, <1>7

(* A request with room for everything reads a source whole.                *)
LEMMA RoomForAll ==
  ASSUME TypeOK, Roomy, Refs # {}, NEW S, IsFiniteSet(S),
         Cardinality(S) <= Cardinality(Refs)
  PROVE  Newest(S, Scan(page)) = S
<1>1. /\ Cardinality(Refs) \in Nat /\ Cardinality(Refs) # 0
      /\ Cardinality(S) \in Nat
  BY HistoryAssumption, FS_CardinalityType, FS_EmptySet DEF HistoryAssumption
<1>2. page.limit \in Nat /\ page.offset \in Nat
  BY DEF TypeOK
<1>3. MaxHistoryScan \in Nat
  BY HistoryAssumption DEF HistoryAssumption
<1>4. Cardinality(Refs) < Scan(page) /\ Scan(page) \in Int
  BY <1>1, <1>2, <1>3 DEF Roomy, WithinScan, Scan
<1>5. \A e \in S : Rank(S, e) \in Nat /\ Rank(S, e) <= Cardinality(S)
  BY RankFacts
<1>6. QED
  BY <1>1, <1>4, <1>5 DEF Newest

(* One wallet's movements are read.                                        *)
LEMMA ReadMovementsKeeps ==
  ASSUME SafeInv, ReadMovements PROVE SafeInv'
<1>1. PICK w \in page.left :
        /\ merged' = merged \union Newest(Settled(w), Scan(page))
        /\ page' = [page EXCEPT !.left = @ \ {w},
                                !.at = IF page.left = {w} THEN "intents" ELSE @]
  BY DEF ReadMovements
<1>2. /\ page.at = "movements" /\ UNCHANGED <<books, stirred>>
      /\ UNCHANGED <<status, created, moved, clock>>
      /\ w \in Wallets /\ page.left \subseteq Wallets /\ TypeOK
  BY <1>1 DEF ReadMovements, books, SafeInv, TypeOK
<1>3. /\ page'.limit = page.limit /\ page'.offset = page.offset
      /\ page'.left = page.left \ {w}
      /\ page'.at = IF page.left = {w} THEN "intents" ELSE "movements"
      /\ page' \in [at : {"idle", "movements", "intents", "transfers",
                          "listed"},
                    limit : 1 .. MaxActivityLimit, offset : Nat,
                    left : SUBSET Wallets]
  BY <1>1, <1>2 DEF TypeOK
<1> DEFINE N == Newest(Settled(w), Scan(page))
<1>4. \A e \in N : /\ e \in Entry /\ e.status = "SUCCESS"
                   /\ moved[e.ref] # 0 /\ WalletOf[e.ref] = w
                   /\ e = SettledEntry(e.ref) /\ e.key = moved[e.ref]
  BY <1>2, SettledFacts DEF Newest, SettledEntry
<1>5. TypeOK'
  BY <1>1, <1>2, <1>3, <1>4 DEF TypeOK
<1>6. \A e \in merged : e.status = "SUCCESS"
  BY <1>2 DEF SafeInv, MergedInv, SourceRead
<1>7. MergedInv'
  <2>1. ShownIsReal'
    BY <1>1, <1>2, <1>4 DEF SafeInv, MergedInv, ShownIsReal, HasRow, RowsInv,
       Entry
  <2>2. \A e \in merged' : e.status = "SUCCESS" /\ e.key # 0
    BY <1>1, <1>4, <1>6 DEF SafeInv, MergedInv
  <2>3. QED
    BY <1>3, <2>1, <2>2 DEF MergedInv
<1>8. Scan(page)' = Scan(page)
  BY <1>3 DEF Scan
<1>9. ASSUME stirred = {} PROVE merged' = Read(Scan(page))'
  <2>1. merged = UNION {Newest(Settled(v), Scan(page)) :
                          v \in Wallets \ page.left}
    BY <1>2, <1>9 DEF SafeInv, ReaderInv, Read
  <2>2. Read(Scan(page))' = UNION {Newest(Settled(v), Scan(page)) :
                                     v \in Wallets \ page'.left}
    BY <1>2, <1>3, <1>8 DEF Read, Newest, Settled, Rank, Newer
  <2>3. Wallets \ page'.left = (Wallets \ page.left) \union {w}
    BY <1>1, <1>2, <1>3
  <2> DEFINE F(v) == Newest(Settled(v), Scan(page))
  <2>4. /\ merged = UNION {F(v) : v \in Wallets \ page.left}
        /\ Read(Scan(page))' = UNION {F(v) : v \in Wallets \ page'.left}
        /\ merged' = merged \union F(w)
    BY <1>1, <2>1, <2>2
  <2>5. QED
    <3> HIDE DEF F
    <3>1. QED
      BY <2>3, <2>4
<1>10. ASSUME Roomy, NEW t \in Refs \ stirred PROVE OfRef(t)' = SeenOf(t)'
  <2>1. OfRef(t) = SeenOf(t)
    BY <1>2, <1>10 DEF SafeInv, ReaderInv
  <2>2. N = Settled(w)
    BY <1>2, <1>10, SettledFacts, RoomForAll
  <2>3. OfRef(t)' = OfRef(t) \union {e \in Settled(w) : e.ref = t}
    BY <1>1, <2>2 DEF OfRef
  <2>4. {e \in Settled(w) : e.ref = t} =
          {e \in {SettledEntry(t)} : moved[t] # 0 /\ WalletOf[t] = w}
    <3>1. SettledEntry(t).ref = t
      BY DEF SettledEntry
    <3>2. QED
      BY <1>2, <3>1, SettledFacts
  <2>5. WalletOf[t] \in Wallets
    BY HistoryAssumption DEF HistoryAssumption
  <2>6. ~SourceRead(t) /\ ~SourceRead(t)'
    BY <1>2, <1>3 DEF SourceRead
  <2>7. SettledEntry(t)' = SettledEntry(t)
    BY <1>2 DEF SettledEntry
  <2>8. SeenOf(t)' = SeenOf(t) \union
          {e \in {SettledEntry(t)} : moved[t] # 0 /\ WalletOf[t] = w}
    BY <1>1, <1>2, <1>3, <2>5, <2>6, <2>7 DEF SeenOf
  <2>9. QED
    BY <2>1, <2>3, <2>4, <2>8
<1>11. ReaderInv'
  <2>1. Roomy' = Roomy
    BY <1>3 DEF Roomy, WithinScan
  <2>2. QED
    BY <1>2, <1>9, <1>10, <2>1 DEF ReaderInv
<1>12. RowsInv'
  BY <1>2 DEF SafeInv, RowsInv, HasRow
<1>13. QED
  BY <1>5, <1>7, <1>11, <1>12 DEF SafeInv

(* The rows of one of the two tables that are not SUCCESS are read.        *)
LEMMA ReadRowsKeeps ==
  ASSUME SafeInv, NEW T, NEW next,
         \/ T = Deposits /\ page.at = "intents" /\ next = "transfers"
         \/ T = Transfers /\ page.at = "transfers" /\ next = "listed",
         merged' = merged \union Newest(Unsettled(T), Scan(page)),
         page' = [page EXCEPT !.at = next],
         UNCHANGED <<books, stirred>>
  PROVE  SafeInv'
<1>1. /\ UNCHANGED <<status, created, moved, clock, stirred>>
      /\ T \subseteq Refs /\ TypeOK /\ page.left = {}
      /\ page.at \notin {"idle", "movements"}
  BY DEF books, Refs, SafeInv, MergedInv
<1>2. /\ page'.limit = page.limit /\ page'.offset = page.offset
      /\ page'.left = page.left /\ page'.at = next
      /\ next \notin {"idle", "movements"}
      /\ page' \in [at : {"idle", "movements", "intents", "transfers",
                          "listed"},
                    limit : 1 .. MaxActivityLimit, offset : Nat,
                    left : SUBSET Wallets]
  BY <1>1 DEF TypeOK
<1> DEFINE N == Newest(Unsettled(T), Scan(page))
<1>3. \A e \in N : /\ e \in Entry /\ e.status # "SUCCESS" /\ e.ref \in T
                   /\ status[e.ref] \notin {"NONE", "SUCCESS"}
                   /\ e = UnsettledEntry(e.ref) /\ e.key = created[e.ref]
  BY <1>1, UnsettledFacts DEF Newest, UnsettledEntry
<1>4. ASSUME NEW t \in Refs
      PROVE  /\ SourceRead(t)' <=> SourceRead(t) \/ t \in T
             /\ t \in T => ~SourceRead(t)
  BY <1>2, HistoryAssumption DEF SourceRead, HistoryAssumption, Refs
<1>5. TypeOK'
  BY <1>1, <1>2, <1>3 DEF TypeOK
<1>6. \A e \in merged : e.ref \in Refs
  BY <1>1 DEF TypeOK, Entry
<1>7. MergedInv'
  <2>1. ShownIsReal'
    BY <1>1, <1>3 DEF SafeInv, MergedInv, ShownIsReal, HasRow
  <2>2. \A e \in merged' : IF e.status = "SUCCESS" THEN e.key # 0
                                                   ELSE SourceRead(e.ref)'
    BY <1>1, <1>3, <1>4, <1>6 DEF SafeInv, MergedInv
  <2>3. ASSUME NEW e \in merged', NEW f \in merged', e.status # "SUCCESS",
               f.status # "SUCCESS", e.ref = f.ref
        PROVE  e = f
    <3>1. CASE e \in merged /\ f \in merged
      BY <2>3, <3>1 DEF SafeInv, MergedInv
    <3>2. CASE e \in N /\ f \in N
      BY <1>3, <2>3, <3>2
    <3>3. CASE e \in merged /\ f \in N
      BY <1>1, <1>3, <1>4, <2>3, <3>3 DEF SafeInv, MergedInv
    <3>4. CASE e \in N /\ f \in merged
      BY <1>1, <1>3, <1>4, <2>3, <3>4 DEF SafeInv, MergedInv
    <3>5. QED
      BY <3>1, <3>2, <3>3, <3>4
  <2>4. QED
    BY <1>1, <1>2, <2>1, <2>2, <2>3 DEF MergedInv
<1>8. Scan(page)' = Scan(page)
  BY <1>2 DEF Scan
<1>9. ASSUME stirred = {} PROVE merged' = Read(Scan(page))'
  <2>1. merged = Read(Scan(page))
    BY <1>1, <1>9 DEF SafeInv, ReaderInv
  <2> DEFINE K == Scan(page)
             Moves == UNION {Newest(Settled(v), K) : v \in Wallets \ page.left}
             Rows(D) == Newest(Unsettled(D), K)
  <2>2. Read(K) = Moves
          \union (IF page.at \in {"transfers", "listed"}
                    THEN Rows(Deposits) ELSE {})
          \union (IF page.at = "listed" THEN Rows(Transfers) ELSE {})
    BY DEF Read
  <2>3. Read(Scan(page))' = Moves
          \union (IF next \in {"transfers", "listed"}
                    THEN Rows(Deposits) ELSE {})
          \union (IF next = "listed" THEN Rows(Transfers) ELSE {})
    <3>1. Newest(Unsettled(Deposits), Scan(page))' = Rows(Deposits)
      BY <1>1, <1>8 DEF Newest, Unsettled, Rank, Newer
    <3>2. Newest(Unsettled(Transfers), Scan(page))' = Rows(Transfers)
      BY <1>1, <1>8 DEF Newest, Unsettled, Rank, Newer
    <3>3. (UNION {Newest(Settled(v), Scan(page)) :
                    v \in Wallets \ page.left})' = Moves
      <4>1. (UNION {Newest(Settled(v), Scan(page)) :
                      v \in Wallets \ page.left})' =
            UNION {Newest(Settled(v), Scan(page)) : v \in Wallets \ page'.left}
        BY <1>1, <1>8 DEF Newest, Settled, Rank, Newer
      <4>2. QED
        BY <1>2, <4>1
    <3>4. QED
      BY <1>2, <3>1, <3>2, <3>3 DEF Read
  <2>4. merged' = Read(K) \union Rows(T)
    BY <2>1
  <2>5. QED
    <3> HIDE DEF K, Moves, Rows
    <3>1. CASE T = Deposits /\ page.at = "intents" /\ next = "transfers"
      BY <2>2, <2>3, <2>4, <3>1
    <3>2. CASE T = Transfers /\ page.at = "transfers" /\ next = "listed"
      BY <2>2, <2>3, <2>4, <3>2
    <3>3. QED
      BY <3>1, <3>2
<1>10. ASSUME Roomy, NEW t \in Refs \ stirred PROVE OfRef(t)' = SeenOf(t)'
  <2>1. OfRef(t) = SeenOf(t)
    BY <1>1, <1>10 DEF SafeInv, ReaderInv
  <2>2. N = Unsettled(T)
    BY <1>1, <1>10, UnsettledFacts, RoomForAll
  <2> DEFINE New == {e \in {UnsettledEntry(t)} :
                       status[t] \notin {"NONE", "SUCCESS"} /\ t \in T}
  <2>3. OfRef(t)' = OfRef(t) \union {e \in Unsettled(T) : e.ref = t}
    BY <2>2 DEF OfRef
  <2>4. {e \in Unsettled(T) : e.ref = t} = New
    <3>1. UnsettledEntry(t).ref = t
      BY DEF UnsettledEntry
    <3>2. QED
      BY <1>1, <3>1, UnsettledFacts
  <2>5. SettledEntry(t)' = SettledEntry(t)
    BY <1>1 DEF SettledEntry
  <2>6. UnsettledEntry(t)' = UnsettledEntry(t)
    BY <1>1 DEF UnsettledEntry
  <2>7. SeenOf(t)' = SeenOf(t) \union New
    BY <1>1, <1>2, <1>4, <2>5, <2>6 DEF SeenOf
  <2>8. QED
    BY <2>1, <2>3, <2>4, <2>7
<1>11. ReaderInv'
  <2>1. Roomy' = Roomy
    BY <1>2 DEF Roomy, WithinScan
  <2>2. QED
    BY <1>1, <1>9, <1>10, <2>1 DEF ReaderInv
<1>12. RowsInv'
  BY <1>1 DEF SafeInv, RowsInv, HasRow
<1>13. QED
  BY <1>5, <1>7, <1>11, <1>12 DEF SafeInv

LEMMA SafeInit == Init => SafeInv
<1> SUFFICES ASSUME Init PROVE SafeInv
  OBVIOUS
<1>1. Asleep \in [at : {"idle", "movements", "intents", "transfers", "listed"},
                  limit : 1 .. MaxActivityLimit, offset : Nat,
                  left : SUBSET Wallets]
  BY HistoryAssumption DEF Asleep, HistoryAssumption
<1>2. TypeOK
  BY <1>1 DEF Init, TypeOK
<1>3. QED
  BY <1>2 DEF Init, Asleep, SafeInv, RowsInv, MergedInv, ShownIsReal, ReaderInv

LEMMA SafeNext == SafeInv /\ [Next]_vars => SafeInv'
<1> SUFFICES ASSUME SafeInv, [Next]_vars PROVE SafeInv'
  OBVIOUS
<1>1. CASE Request
  BY <1>1, RequestKeeps
<1>2. CASE ReadMovements
  BY <1>2, ReadMovementsKeeps
<1>3. CASE ReadIntents
  BY <1>3, ReadRowsKeeps DEF ReadIntents
<1>4. CASE ReadTransfers
  BY <1>4, ReadRowsKeeps DEF ReadTransfers
<1>5. CASE Answer
  BY <1>5, AnswerKeeps
<1>6. ASSUME NEW t \in Refs, Settlement(t) PROVE SafeInv'
  BY <1>6, SettlementKeeps
<1>7. CASE UNCHANGED vars
  <2>1. UNCHANGED <<status, created, moved, clock, page, merged, stirred>>
    BY <1>7 DEF vars, books
  <2>2. TypeOK'
    BY <2>1 DEF SafeInv, TypeOK
  <2>3. RowsInv' /\ MergedInv'
    BY <2>1 DEF SafeInv, RowsInv, HasRow, MergedInv, ShownIsReal, SourceRead
  <2>4. Read(Scan(page))' = Read(Scan(page))
    BY <2>1 DEF Read, Scan, Newest, Rank, Newer, Settled, Unsettled
  <2>5. \A t : OfRef(t)' = OfRef(t) /\ SeenOf(t)' = SeenOf(t)
    BY <2>1 DEF OfRef, SeenOf, SettledEntry, UnsettledEntry, SourceRead
  <2>6. Roomy' <=> Roomy
    BY <2>1 DEF Roomy, WithinScan
  <2>7. ReaderInv'
    BY <2>1, <2>4, <2>5, <2>6 DEF SafeInv, ReaderInv
  <2>8. QED
    BY <2>2, <2>3, <2>7 DEF SafeInv
<1>8. QED
  BY <1>1, <1>2, <1>3, <1>4, <1>5, <1>6, <1>7 DEF Next, Reading

THEOREM SafeCorrect == Spec => []SafeInv
  BY SafeInit, SafeNext, PTL DEF Spec

-----------------------------------------------------------------------------
(* What a request has read is part of the whole history, when nothing was  *)
(* settled meanwhile, and the whole history is finite.                     *)
LEMMA WholeFacts ==
  ASSUME TypeOK
  PROVE  /\ Whole \subseteq Entry /\ IsFiniteSet(Whole)
         /\ \A e \in Whole :
              \/ moved[e.ref] # 0 /\ e = SettledEntry(e.ref)
              \/ /\ status[e.ref] \notin {"NONE", "SUCCESS"}
                 /\ e = UnsettledEntry(e.ref)
         /\ \A t \in Refs : /\ moved[t] # 0 => SettledEntry(t) \in Whole
                            /\ status[t] \notin {"NONE", "SUCCESS"}
                                 => UnsettledEntry(t) \in Whole
<1> DEFINE D == {u \in Refs : moved[u] # 0}
           f == [u \in D |-> SettledEntry(u)]
           S == {SettledEntry(u) : u \in D}
<1>1. IsFiniteSet(D)
  BY HistoryAssumption, FS_Subset DEF HistoryAssumption
<1>2. f \in Surjection(D, S)
  BY DEF Surjection
<1>3. IsFiniteSet(S)
  <2> HIDE DEF D, f, S
  <2>1. QED
    BY <1>1, <1>2, FS_Surjection
<1>4. Whole = S \union Unsettled(Refs)
  BY DEF Whole, SettledEntry, Unsettled
<1>5. IsFiniteSet(Whole)
  BY <1>3, <1>4, UnsettledFacts, FS_Union
<1>6. Whole \subseteq Entry
  BY DEF TypeOK, Whole, Entry
<1>7. \A e \in S : moved[e.ref] # 0 /\ e = SettledEntry(e.ref)
  BY DEF SettledEntry
<1>8. \A t \in Refs : moved[t] # 0 => SettledEntry(t) \in S
  OBVIOUS
<1>9. QED
  <2> HIDE DEF S
  <2>1. QED
    BY <1>4, <1>5, <1>6, <1>7, <1>8, UnsettledFacts

LEMMA ReadAll ==
  ASSUME SafeInv, Done, WithinScan, stirred = {}
  PROVE  LET n == page.offset + page.limit
         IN  merged \subseteq Whole /\ Newest(Whole, n) \subseteq merged
<1> DEFINE n == page.offset + page.limit
<1>1. /\ TypeOK /\ page.left = {} /\ page.at = "listed"
      /\ merged = Read(Scan(page))
  BY DEF SafeInv, MergedInv, ReaderInv, Done
<1>2. n \in Nat /\ MaxHistoryScan \in Nat
  BY <1>1, HistoryAssumption DEF TypeOK, HistoryAssumption
<1>3. Scan(page) = n
  BY <1>2 DEF WithinScan, Scan
<1> DEFINE F(w) == Newest(Settled(w), n)
<1>4. merged = (UNION {F(w) : w \in Wallets})
                 \union Newest(Unsettled(Deposits), n)
                 \union Newest(Unsettled(Transfers), n)
  BY <1>1, <1>3 DEF Read
<1> HIDE DEF n
<1>5. Deposits \subseteq Refs /\ Transfers \subseteq Refs
  BY DEF Refs
<1>6. merged \subseteq Whole
  <2>1. \A w \in Wallets : F(w) \subseteq Whole
    BY <1>1, SettledFacts DEF Newest
  <2>2. /\ Newest(Unsettled(Deposits), n) \subseteq Whole
        /\ Newest(Unsettled(Transfers), n) \subseteq Whole
    BY <1>1, <1>5, UnsettledFacts DEF Newest
  <2>3. QED
    <3> HIDE DEF F
    <3>1. QED
      BY <1>4, <2>1, <2>2
<1>7. ASSUME NEW e \in Newest(Whole, n) PROVE e \in merged
  <2>1. e \in Whole /\ Rank(Whole, e) < n /\ IsFiniteSet(Whole)
    BY <1>1, WholeFacts DEF Newest
  <2>2. e.ref \in Refs
    BY <1>1, <2>1, WholeFacts DEF Entry
  <2>3. CASE moved[e.ref] # 0 /\ e = SettledEntry(e.ref)
    <3>1. PICK w \in Wallets : w = WalletOf[e.ref]
      BY <2>2, HistoryAssumption DEF HistoryAssumption
    <3>2. e \in Settled(w) /\ Settled(w) \subseteq Whole
      BY <1>1, <2>2, <2>3, <3>1, SettledFacts
    <3>3. e \in F(w)
      BY <1>2, <2>1, <3>2, PartLemma
    <3>4. QED
      <4> HIDE DEF F
      <4>1. QED
        BY <1>4, <3>3
  <2>4. CASE /\ status[e.ref] \notin {"NONE", "SUCCESS"}
             /\ e = UnsettledEntry(e.ref)
    <3>1. PICK T \in {Deposits, Transfers} : e.ref \in T
      BY <2>2 DEF Refs
    <3>2. e \in Unsettled(T) /\ Unsettled(T) \subseteq Whole
      BY <1>1, <1>5, <2>4, <3>1, UnsettledFacts
    <3>3. e \in Newest(Unsettled(T), n)
      BY <1>2, <2>1, <3>2, PartLemma
    <3>4. QED
      BY <1>4, <3>1, <3>3
  <2>5. QED
    BY <1>1, <2>1, <2>3, <2>4, WholeFacts
<1>8. QED
  BY <1>6, <1>7 DEF n

-----------------------------------------------------------------------------
(* The type invariant.                                                     *)
THEOREM TypeCorrect == Spec => []TypeOK
<1>1. SafeInv => TypeOK
  BY DEF SafeInv
<1>2. QED
  BY <1>1, SafeCorrect, PTL

(* What was shown can be looked up, and what is shown as settled did move  *)
(* at the time shown, whatever is settled while and after it is read.      *)
THEOREM ShownCorrect == Spec => []ShownIsReal
<1>1. SafeInv => ShownIsReal
  BY DEF SafeInv, MergedInv
<1>2. QED
  BY <1>1, SafeCorrect, PTL

(* A page within the scan, read while nothing settles, is exactly its      *)
(* slice of the whole history.                                             *)
THEOREM PageCorrect == Spec => []PageIsExact
<1>1. ASSUME SafeInv PROVE PageIsExact
  <2> SUFFICES ASSUME Done, WithinScan, stirred = {}
               PROVE  Listed = Slice(Whole, page.offset, page.limit)
    BY DEF PageIsExact
  <2> DEFINE n == page.offset + page.limit
  <2>1. TypeOK /\ page.offset \in Nat /\ page.limit \in Nat
    BY <1>1 DEF SafeInv, TypeOK
  <2>2. IsFiniteSet(Whole) /\ Whole \subseteq Entry
    BY <2>1, WholeFacts
  <2>3. merged \subseteq Whole /\ Newest(Whole, n) \subseteq merged
    BY <1>1, ReadAll
  <2>4. n \in Nat /\ page.offset + page.limit <= n
    BY <2>1
  <2>5. QED
    <3> HIDE DEF n
    <3>1. QED
      BY <2>1, <2>2, <2>3, <2>4, MergeLemma DEF Listed
<1>2. QED
  BY <1>1, SafeCorrect, PTL

(* A reader has two entries of a transaction at most.                      *)
LEMMA FewEntries ==
  ASSUME SafeInv
  PROVE  /\ IsFiniteSet(merged)
         /\ Cardinality(merged) <= 2 * Cardinality(Refs)
<1> DEFINE B == Refs \X {0, 1}
           g == [e \in merged |->
                   <<e.ref, IF e.status = "SUCCESS" THEN 1 ELSE 0>>]
<1>1. merged \subseteq Entry
  BY DEF SafeInv, TypeOK
<1>2. \A e \in merged : /\ e = [ref |-> e.ref, status |-> e.status,
                                key |-> e.key]
                        /\ e.ref \in Refs
  BY <1>1 DEF Entry
<1>3. ASSUME NEW e \in merged, NEW f \in merged, g[e] = g[f] PROVE e = f
  <2>1. e.ref = f.ref /\ (e.status = "SUCCESS" <=> f.status = "SUCCESS")
    BY <1>3
  <2>2. CASE e.status = "SUCCESS"
    BY <1>2, <2>1, <2>2 DEF SafeInv, MergedInv, ShownIsReal
  <2>3. CASE e.status # "SUCCESS"
    BY <2>1, <2>3 DEF SafeInv, MergedInv
  <2>4. QED
    BY <2>2, <2>3
<1>4. g \in Injection(merged, B)
  <2>1. g \in [merged -> B]
    BY <1>2
  <2>2. QED
    BY <1>3, <2>1 DEF Injection, IsInjective
<1>5. IsFiniteSet(Refs) /\ Cardinality(Refs) \in Nat
  BY HistoryAssumption, FS_CardinalityType DEF HistoryAssumption
<1>6. IsFiniteSet({0, 1}) /\ Cardinality({0, 1}) = 2
  <2>1. IsFiniteSet({0}) /\ Cardinality({0}) = 1
    BY FS_Singleton
  <2>2. /\ IsFiniteSet({0} \union {1})
        /\ Cardinality({0} \union {1}) = Cardinality({0}) + 1
    BY <2>1, FS_AddElement
  <2>3. {0} \union {1} = {0, 1}
    OBVIOUS
  <2>4. QED
    BY <2>1, <2>2, <2>3
<1>7. IsFiniteSet(B) /\ Cardinality(B) = Cardinality(Refs) * 2
  BY <1>5, <1>6, FS_Product
<1>8. QED
  <2> HIDE DEF B, g
  <2>1. QED
    BY <1>4, <1>5, <1>7, FS_Injection

(* A page long enough for everything lists each transaction that nobody    *)
(* settles while it is read as the ledger and its row have it, and once    *)
(* unless it was left half settled (ListMyTransactions).                   *)
THEOREM ListedOnce == Spec => []StableListedOnce
<1>1. ASSUME SafeInv PROVE StableListedOnce
  <2> SUFFICES ASSUME Done, WithinScan, page.offset = 0,
                      2 * Cardinality(Refs) <= page.limit,
                      NEW t \in Refs \ stirred
               PROVE  /\ {e \in Listed : e.ref = t} = {e \in Whole : e.ref = t}
                      /\ HasRow(t) /\ ~HalfSettled(t) =>
                           \E e \in Listed : {f \in Listed : f.ref = t} = {e}
    BY DEF StableListedOnce
  <2>1. TypeOK /\ page.left = {} /\ page.at = "listed" /\ page.limit \in Nat
    BY <1>1 DEF SafeInv, MergedInv, TypeOK, Done
  <2>2. OfRef(t) = SeenOf(t)
    BY <1>1, <2>1 DEF SafeInv, ReaderInv, Roomy
  <2>3. Listed = merged
    <3> SUFFICES ASSUME NEW e \in merged
                 PROVE  Rank(merged, e) \in Nat /\ Rank(merged, e) < page.limit
      BY <2>1 DEF Listed, Slice
    <3>1. /\ IsFiniteSet(merged) /\ IsFiniteSet(Refs)
          /\ Cardinality(merged) <= 2 * Cardinality(Refs)
      BY <1>1, FewEntries, HistoryAssumption DEF HistoryAssumption
    <3>2. /\ IsFiniteSet(merged \ {e})
          /\ Cardinality(merged \ {e}) = Cardinality(merged) - 1
      BY <3>1, FS_RemoveElement
    <3>3. e \notin Newer(merged, e)
      BY <2>1 DEF Newer, TypeOK, Entry
    <3>4. Newer(merged, e) \subseteq merged \ {e} /\ Rank(merged, e) \in Nat
      BY <3>1, <3>3, RankFacts
    <3>5. Rank(merged, e) <= Cardinality(merged \ {e})
      BY <3>1, <3>2, <3>4, RankFacts
    <3>6. Cardinality(merged) \in Nat /\ Cardinality(Refs) \in Nat
      BY <3>1, FS_CardinalityType
    <3>7. QED
      BY <2>1, <3>1, <3>2, <3>4, <3>5, <3>6
  <2>4. SeenOf(t) = {e \in {SettledEntry(t)} : moved[t] # 0}
                      \union {e \in {UnsettledEntry(t)} :
                                status[t] \notin {"NONE", "SUCCESS"}}
    BY <2>1 DEF SeenOf, SourceRead, Refs
  <2>5. {e \in Whole : e.ref = t} = SeenOf(t)
    <3>1. SettledEntry(t).ref = t /\ UnsettledEntry(t).ref = t
      BY DEF SettledEntry, UnsettledEntry
    <3>2. QED
      BY <2>1, <2>4, <3>1, WholeFacts
  <2>6. ASSUME HasRow(t), ~HalfSettled(t)
        PROVE  \E e : SeenOf(t) = {e}
    <3>1. CASE status[t] = "SUCCESS"
      <4>1. moved[t] # 0
        BY <1>1, <3>1 DEF SafeInv, RowsInv
      <4>2. SeenOf(t) = {SettledEntry(t)}
        BY <2>4, <3>1, <4>1
      <4>3. QED
        BY <4>2
    <3>2. CASE status[t] # "SUCCESS"
      <4>1. moved[t] = 0 /\ status[t] # "NONE"
        BY <2>6, <3>2 DEF HasRow, HalfSettled
      <4>2. SeenOf(t) = {UnsettledEntry(t)}
        BY <2>4, <3>2, <4>1
      <4>3. QED
        BY <4>2
    <3>3. QED
      BY <3>1, <3>2
  <2>7. {e \in Listed : e.ref = t} = SeenOf(t)
    BY <2>2, <2>3 DEF OfRef
  <2>8. QED
    BY <2>5, <2>6, <2>7
<1>2. QED
  BY <1>1, SafeCorrect, PTL
=============================================================================
