---------------------------- MODULE Rechain_proofs ----------------------------
(***************************************************************************)
(* No repair and no retention run makes an altered row verify, and no      *)
(* chain that verifies is relinked, for every number of writers, runs,     *)
(* forks and alterations.                                                  *)
(***************************************************************************)
EXTENDS Rechain, Retention_proofs

(* The inductive strengthening of AlteredStaysVisible.                     *)

\* The row's digest was computed over a content that nobody altered.
Sealed(r) == r.ev \in Events /\ \E e \in Events \ Forgeries : r.hash = RowHash(r.prev, e)

\* So is every row in a table, in a transaction, in a run's hands and in the
\* archive, and what is still to be written is not altered.
SealInv ==
    /\ \A t \in Tables : \A r \in table[t] \cup Catalogued(t) : Sealed(r)
    /\ \A w \in Writers, t \in Tables : \A r \in pend[w][t] : Sealed(r)
    /\ \A w \in Writers : EventsIn(batch[w]) \cap Forgeries = {}
    /\ \A j \in Jobs : \A r \in run[j].left \cup UNION Range(run[j].out) : Sealed(r)

FixStates == {"idle", "verify", "lock", "relink", "verify_after", "commit", "mark"}

\* The links that a repair has computed are over contents that it has checked.
FixInv ==
    /\ fix \in [at : FixStates, t : Tables, anchor : Digests, new : SUBSET Rows(Contents)]
    /\ \A n \in fix.new : Sealed(n)
    /\ overlapped \subseteq repaired /\ repaired \subseteq Tables

\* What retention and the writers keep although rows are forked, altered and
\* linked anew under them.
RecordInv == TypeInv /\ RecordsOK /\ IdInv /\ SeqAhead /\ \A j \in Jobs : OnTable(j)

RechainInv == RecordInv /\ SealInv /\ FixInv

-----------------------------------------------------------------------------
(* What relinking computes.                                                *)

\* head, up to the seq m.
HeadsTo(S, a, m, f) ==
    f = [n \in 0..m |->
           IF n = 0 THEN a
           ELSE IF n - 1 \in Seqs(S)
                THEN RowHash(f[n-1], (CHOOSE r \in S : r.seq = n - 1).ev)
                ELSE f[n-1]]

LEMMA HeadsExist ==
    ASSUME NEW S, NEW a, NEW n \in Nat
    PROVE  \E f : HeadsTo(S, a, n, f)
<1> DEFINE After(m, h) == IF m \in Seqs(S)
                          THEN RowHash(h, (CHOOSE r \in S : r.seq = m).ev) ELSE h
           N == {m \in Nat : \E f : HeadsTo(S, a, m, f)}
<1>1. 0 \in N
  <2>1. HeadsTo(S, a, 0, [n0 \in 0..0 |-> a])
    BY DEF HeadsTo
  <2>2. QED
    BY <2>1
<1>2. ASSUME NEW m \in Nat, m \in N PROVE m + 1 \in N
  <2>1. PICK f : HeadsTo(S, a, m, f)
    BY <1>2
  <2> DEFINE g == [k \in 0..m+1 |-> IF k = m + 1 THEN After(m, f[m]) ELSE f[k]]
  <2>2. f = [k \in 0..m |-> IF k = 0 THEN a ELSE After(k - 1, f[k-1])]
    BY <2>1 DEF HeadsTo
  <2> HIDE DEF After
  <2>3. ASSUME NEW k \in 0..m+1 PROVE g[k] = IF k = 0 THEN a ELSE After(k - 1, g[k-1])
    <3>1. CASE k = m + 1
      BY <3>1
    <3>2. CASE k # m + 1
      BY <2>2, <3>2
    <3>3. QED
      BY <3>1, <3>2
  <2>4. g = [k \in 0..m+1 |-> IF k = 0 THEN a ELSE After(k - 1, g[k-1])]
    BY <2>3
  <2>5. HeadsTo(S, a, m + 1, g)
    BY <2>4 DEF HeadsTo, After
  <2>6. QED
    BY <2>5
<1>3. Nat \subseteq N
  <2> HIDE DEF N
  <2>1. QED
    BY <1>1, <1>2, SetInduction
<1>4. QED
  BY <1>3

\* Every head is a digest.
LEMMA HeadsType ==
    ASSUME NEW S \in SUBSET Rows(Contents), NEW a \in Digests, NEW m \in Nat, NEW f,
           HeadsTo(S, a, m, f)
    PROVE  \A n \in 0..m : f[n] \in Digests
<1> DEFINE N == {n \in Nat : n <= m => f[n] \in Digests}
<1>0. /\ f[0] = a
      /\ \A n \in 1..m : \/ f[n] = f[n-1]
                         \/ \E r \in S : f[n] = RowHash(f[n-1], r.ev)
  <2>1. f[0] = a
    BY DEF HeadsTo
  <2>2. ASSUME NEW n \in 1..m, n - 1 \in Seqs(S)
        PROVE  \E r \in S : f[n] = RowHash(f[n-1], r.ev)
    <3>1. PICK x : x = CHOOSE r \in S : r.seq = n - 1
      OBVIOUS
    <3>2. x \in S
      BY <2>2, <3>1 DEF Seqs
    <3>3. f[n] = RowHash(f[n-1], x.ev)
      BY <2>2, <3>1 DEF HeadsTo
    <3>4. QED
      BY <3>2, <3>3
  <2>3. ASSUME NEW n \in 1..m, n - 1 \notin Seqs(S) PROVE f[n] = f[n-1]
    BY <2>3 DEF HeadsTo
  <2>4. QED
    BY <2>1, <2>2, <2>3
<1>1. 0 \in N
  BY <1>0
<1>2. ASSUME NEW n \in Nat, n \in N PROVE n + 1 \in N
  <2>1. SUFFICES ASSUME n + 1 <= m PROVE f[n+1] \in Digests
    OBVIOUS
  <2>2. f[n] \in Digests /\ n + 1 \in 1..m /\ (n + 1) - 1 = n
    BY <1>2, <2>1
  <2>3. \A r \in S : RowHash(f[n], r.ev) \in Digests
    BY <2>2 DEF RowHash, Digests, Rows
  <2>4. QED
    BY <1>0, <2>2, <2>3
<1>3. Nat \subseteq N
  <2> HIDE DEF N
  <2>1. QED
    BY <1>1, <1>2, SetInduction
<1>4. QED
  BY <1>3

\* The links that a repair computes are the heads before each seq.
LEMMA RelinkedHeads ==
    ASSUME NEW S \in SUBSET Rows(Contents), NEW k \in Nat, \A r \in S : r.seq < k, NEW a
    PROVE  \E m \in Nat : \E f : /\ HeadsTo(S, a, m, f)
                                 /\ \A r \in S : r.seq \in 0..m
                                 /\ Relinked(S, a) = {RowOf(r.seq, r.ev, f[r.seq]) : r \in S}
<1> DEFINE m == Max({0} \cup Seqs(S))
           f == CHOOSE g : HeadsTo(S, a, m, g)
<1>1. Seqs(S) \subseteq 0..k /\ \A r \in S : r.seq \in Seqs(S) /\ r.seq \in Nat
  BY DEF Seqs, Rows
<1>2. m \in Nat /\ \A n \in Seqs(S) : n <= m
  <2> DEFINE D == {0} \cup Seqs(S)
  <2>1. D \subseteq 0..k /\ D # {} /\ D \in SUBSET Int
    BY <1>1
  <2>2. IsFiniteSet(D)
    <3>1. IsFiniteSet(0..k)
      BY FS_Interval
    <3> HIDE DEF D
    <3>2. QED
      BY <2>1, <3>1, FS_Subset
  <2>3. Max(D) \in D /\ \A y \in D : y <= Max(D)
    <3> HIDE DEF D
    <3>1. QED
      BY <2>1, <2>2, MaxFacts
  <2>4. QED
    BY <2>1, <2>3
<1>3. Relinked(S, a) = {RowOf(r.seq, r.ev, f[r.seq]) : r \in S}
  BY DEF Relinked, HeadsTo
<1>4. HeadsTo(S, a, m, f)
  <2> HIDE DEF m
  <2>1. QED
    BY <1>2, HeadsExist
<1> HIDE DEF m, f
<1>5. \A r \in S : r.seq \in 0..m
  BY <1>1, <1>2
<1>6. QED
  BY <1>2, <1>3, <1>4, <1>5

-----------------------------------------------------------------------------
(* The rows of the parts and of the archive.                               *)

\* An altered row with its seal does not verify.
LEMMA SealedVisible ==
    ASSUME NEW r \in Rows(Contents), Sealed(r), r.ev \in Forgeries
    PROVE  ~HashOK(r)
<1>1. PICK e \in Events \ Forgeries : r.hash = RowHash(r.prev, e)
  BY DEF Sealed
<1>2. r.prev \in Seq(Contents) /\ e \in Contents /\ r.ev \in Contents
  BY DEF Rows, Contents
<1>3. SUFFICES ASSUME Append(r.prev, e) = Append(r.prev, r.ev) PROVE FALSE
  BY <1>1 DEF HashOK, RowHash
<1>4. /\ Append(r.prev, e)[Len(r.prev) + 1] = e
      /\ Append(r.prev, r.ev)[Len(r.prev) + 1] = r.ev
  BY <1>2
<1>5. QED
  BY <1>1, <1>3, <1>4

\* A row that is built over a content nobody altered is sealed.
LEMMA SealedRow ==
    ASSUME NEW e \in Events \ Forgeries, NEW n, NEW h
    PROVE  Sealed(RowOf(n, e, h))
BY DEF Sealed, RowOf

\* A sealed row that verifies has the content that it was sealed over.
LEMMA VerifiedContent ==
    ASSUME NEW r \in Rows(Contents), Sealed(r), HashOK(r)
    PROVE  r.ev \in Events \ Forgeries
BY SealedVisible DEF Sealed

-----------------------------------------------------------------------------
(* The steps of the writers and of retention.                              *)

LEMMA WriterSeals ==
    ASSUME TypeOK, SealInv, NEW w \in WriterJobs, WriterNext(w),
           CallNext(w) \/ EventsIn(batch'[w]) \cap Forgeries = {}
    PROVE  SealInv'
<1>0. /\ w \in Writers /\ UNCHANGED <<run, catalog>>
      /\ pend \in [Writers -> [Tables -> SUBSET Rows(Contents)]]
      /\ batch \in [Writers -> Seq(Events)]
      /\ table \in [Tables -> SUBSET Rows(Contents)]
  BY WriterMoves DEF WriterJobs, TypeOK, rvars
<1> DEFINE Goal ==
        /\ \A t \in Tables : \A r \in table'[t] : Sealed(r)
        /\ \A v \in Writers, t \in Tables : \A r \in pend'[v][t] : Sealed(r)
        /\ \A v \in Writers : EventsIn(batch'[v]) \cap Forgeries = {}
<1>1. ASSUME NEW b \in Batches, Call(w, b), EventsIn(batch'[w]) \cap Forgeries = {} PROVE Goal
  <2>1. UNCHANGED <<table, pend>> /\ batch' = [batch EXCEPT ![w] = b]
    BY <1>1 DEF Call, db
  <2>2. \A v \in Writers : batch'[v] = IF v = w THEN b ELSE batch[v]
    BY <1>0, <2>1
  <2>3. EventsIn(b) \cap Forgeries = {}
    BY <1>0, <1>1, <2>2
  <2>4. QED
    BY <2>1, <2>2, <2>3 DEF SealInv
<1>2. ASSUME UNCHANGED <<table, pend, batch>> PROVE Goal
  BY <1>2 DEF SealInv
<1>3. ASSUME LockPartition(w) \/ FindPartition(w) \/ CreatePartition(w) \/ LockChain(w) \/ SeedHead(w)
      PROVE  UNCHANGED <<table, pend, batch>>
  BY <1>3 DEF LockPartition, FindPartition, CreatePartition, LockChain, SeedHead, db, tx
<1>4. ASSUME InsertRow(w) PROVE Goal
  <2> DEFINE e == Head(batch[w])
             k == KeyOf[e]
             u == Parent[k]
             row == RowOf(nextseq[u], e, heads[w][k])
  <2>1. /\ batch[w] # <<>> /\ UNCHANGED table /\ batch' = [batch EXCEPT ![w] = Tail(@)]
        /\ InsertFresh(w, e, k, u) \/ AdoptDuplicate(w, e, k, u)
    BY <1>4 DEF InsertRow
  <2>2. /\ e \in EventsIn(batch[w]) /\ EventsIn(batch[w]) \subseteq Events
        /\ EventsIn(Tail(batch[w])) \subseteq EventsIn(batch[w])
    BY <1>0, <2>1, TailEvents
  <2>3. e \in Events \ Forgeries
    BY <1>0, <2>2 DEF SealInv
  <2>4. u \in Tables /\ Sealed(row)
    BY <2>3, SealedRow, WriterConstants
  <2>5. UNCHANGED pend \/ pend' = [pend EXCEPT ![w][u] = @ \cup {row}]
    BY <2>1 DEF InsertFresh, AdoptDuplicate
  <2> HIDE DEF u, row
  <2>6. \A v \in Writers, t \in Tables : pend'[v][t] \subseteq pend[v][t] \cup {row}
    <3>1. CASE UNCHANGED pend
      BY <3>1
    <3>2. CASE pend' = [pend EXCEPT ![w][u] = @ \cup {row}]
      <4>1. \A v \in Writers, t \in Tables :
               pend'[v][t] = IF v = w /\ t = u THEN pend[v][t] \cup {row} ELSE pend[v][t]
        BY <1>0, <2>4, <3>2
      <4>2. QED
        BY <4>1
    <3>3. QED
      BY <2>5, <3>1, <3>2
  <2>7. \A v \in Writers : EventsIn(batch'[v]) \subseteq EventsIn(batch[v])
    <3>1. \A v \in Writers : batch'[v] = IF v = w THEN Tail(batch[v]) ELSE batch[v]
      BY <1>0, <2>1
    <3>2. QED
      BY <2>2, <3>1
  <2>8. QED
    BY <2>1, <2>4, <2>6, <2>7 DEF SealInv
<1>5. ASSUME Commit(w) \/ Abort(w) PROVE Goal
  <2>1. /\ table' = table \/ table' = [t \in Tables |-> table[t] \cup pend[w][t]]
        /\ pend' = [pend EXCEPT ![w] = NoRows] /\ batch' = [batch EXCEPT ![w] = <<>>]
    BY <1>5 DEF Commit, Abort, EndTransaction
  <2>2. \A v \in Writers, t \in Tables : pend'[v][t] \subseteq pend[v][t]
    BY <1>0, <2>1 DEF NoRows
  <2>3. \A t \in Tables : table'[t] \subseteq table[t] \cup pend[w][t]
    BY <1>0, <2>1
  <2>4. \A v \in Writers : batch'[v] = IF v = w THEN <<>> ELSE batch[v]
    BY <1>0, <2>1
  <2>5. QED
    BY <1>0, <2>2, <2>3, <2>4, EmptyBatch DEF SealInv
<1> HIDE DEF Goal
<1>6. Goal
  <2>1. CASE CallNext(w)
    BY <1>2, <1>3, <1>4, <1>5, <2>1 DEF CallNext, RetInsert
  <2>2. CASE ~CallNext(w)
    BY <1>1, <2>2 DEF WriterNext, RetCall
  <2>3. QED
    BY <2>1, <2>2
<1>7. QED
  BY <1>0, <1>6 DEF Goal, SealInv, Catalogued, SegmentRows

\* A run archives rows as they are.
LEMMA RunSeals ==
    ASSUME TypeOK, RecordsOK, SealInv, NEW j \in Jobs, OnTable(j), RunNext(j)
    PROVE  SealInv'
<1>0. UNCHANGED <<pend, batch>>
  BY RunMoves DEF tx, call
<1>1. \A t \in Tables : \A r \in table'[t] : Sealed(r)
  BY RunNoEntry DEF SealInv
<1>2. ASSUME NEW t \in Tables, NEW s \in catalog'[t]
      PROVE  \A r \in SegmentRows(s) : Sealed(r)
  <2>1. CASE s \in catalog[t]
    BY <2>1 DEF SealInv, Catalogued
  <2>2. CASE s \notin catalog[t]
    <3>1. CommitRun(j)
      BY <1>2, <2>2, RunMoves
    <3>2. s.parts = run[j].out
      BY <1>2, <2>2, <3>1, RecordedRows
    <3>3. QED
      BY <3>2 DEF SealInv, SegmentRows
  <2>3. QED
    BY <2>1, <2>2
<1>3. \A i \in Jobs \ {j} : run'[i] = run[i]
  BY RunSteps DEF RunKept
<1>4. PICK x, y : x = run[j] /\ y = run'[j]
  OBVIOUS
<1> DEFINE Out(o) == UNION Range(o)
<1>5. ASSUME NEW r \in y.left \cup Out(y.out) PROVE Sealed(r)
  <2>0. \A q \in x.left \cup Out(x.out) : Sealed(q)
    BY <1>4 DEF SealInv
  <2>0a. Out(<<>>) = {}
    BY DEF Out, Range
  <2> HIDE DEF Out
  <2>1. ASSUME y.left = x.left, y.out = x.out PROVE Sealed(r)
    BY <1>5, <2>0, <2>1
  <2>2. ASSUME NEW t \in Tables, BeginRun(j, t) PROVE Sealed(r)
    <3>1. y.left = {} /\ y.out = <<>>
      BY <1>4, <2>2, BeginMove
    <3>2. QED
      BY <1>5, <2>0a, <3>1
  <2>3. ASSUME ReleaseLocks(j) PROVE Sealed(r)
    <3>1. y.left = {} /\ y.out = <<>>
      BY <1>4, <2>3, EndMove, NoRunType
    <3>2. QED
      BY <1>5, <2>0a, <3>1
  <2>4. ASSUME LockAged(j) PROVE Sealed(r)
    BY <1>4, <2>1, <2>4, LockedMove
  <2>5. ASSUME Relist(j) PROVE Sealed(r)
    BY <1>4, <2>1, <2>5, RelistMove
  <2>6. ASSUME Select(j) PROVE Sealed(r)
    BY <1>4, <2>1, <2>6, SelectMove
  <2>7. ASSUME OpenStream(j) PROVE Sealed(r)
    <3>1. x.at = "open" /\ y.left \in SUBSET table[x.t] /\ y.out = x.out
      BY <1>4, <2>7, OpenMove
    <3>2. x.t \in Tables
      BY <1>4, <3>1 DEF OnTable
    <3>3. \A q \in table[x.t] : Sealed(q)
      BY <3>2 DEF SealInv
    <3>4. QED
      BY <1>5, <2>0, <3>1, <3>3
  <2>8. ASSUME PutPart(j) PROVE Sealed(r)
    <3>1. x.at = "archive"
      BY <1>4, <2>8, PartOutcome
    <3>2. ASSUME NEW body \in SUBSET x.left, Parted(j, body) PROVE Sealed(r)
      <4>1. y.left = x.left \ body /\ y.out = Append(x.out, body)
        BY <1>4, <3>1, <3>2, PartMove
      <4>2. x.out \in Seq(SUBSET Rows(Contents)) /\ x.left \in SUBSET Rows(Contents)
        BY <1>4 DEF RecordsOK, RunRecords
      <4> DEFINE T == SUBSET Rows(Contents)
      <4>3. x.out \in Seq(T) /\ body \in T
        BY <3>2, <4>2
      <4> HIDE DEF T
      <4>4. Out(Append(x.out, body)) = Out(x.out) \cup body
        <5>1. UnionGrows(x.out, body)
          BY <4>3, UnionAppend
        <5>2. QED
          BY <5>1 DEF Out, UnionGrows
      <4>5. r \in x.left \cup Out(x.out)
        BY <1>5, <3>2, <4>1, <4>4
      <4>6. QED
        BY <2>0, <4>5
    <3>3. QED
      BY <1>4, <2>3, <2>8, <3>2, PartOutcome
  <2>9. ASSUME NEW to \in {"drop", "commit"}, Staged(j, to), x.at # "idle" PROVE Sealed(r)
    BY <1>4, <2>1, <2>9, StageMove
  <2>10. ASSUME PutManifest(j) PROVE Sealed(r)
    BY <1>4, <2>3, <2>9, <2>10, ManifestOutcome
  <2>11. ASSUME DropPartitions(j) PROVE Sealed(r)
    <3>1. Staged(j, "commit") /\ x.at # "idle"
      BY <1>4, <2>11 DEF DropPartitions, Staged
    <3>2. QED
      BY <2>9, <3>1
  <2>12. ASSUME RunEnds(j) \/ CommitRun(j) PROVE ReleaseLocks(j)
    BY <2>12 DEF RunEnds, EndRun, CommitRun
  <2>13. QED
    BY <2>2, <2>3, <2>4, <2>5, <2>6, <2>7, <2>8, <2>10, <2>11, <2>12 DEF RunNext
<1>6. ASSUME NEW i \in Jobs
      PROVE  \A r \in run'[i].left \cup UNION Range(run'[i].out) : Sealed(r)
  <2>1. CASE i = j
    BY <1>4, <1>5, <2>1
  <2>2. CASE i # j
    BY <1>3, <2>2 DEF SealInv
  <2>3. QED
    BY <2>1, <2>2
<1>7. QED
  BY <1>0, <1>1, <1>2, <1>6 DEF SealInv, Catalogued

-----------------------------------------------------------------------------
(* The steps of the repair, of the writer without a lock and of the one    *)
(* who alters rows.  They change tables, sequences and the locks on them.  *)

LEMMA RecordKept ==
    ASSUME RecordInv, UNCHANGED <<anchor, parts, plock, xlock, tx, call, rvars>>,
           table' \in [Tables -> SUBSET Rows(Contents)], nextseq' \in [Tables -> Nat],
           \A t \in Tables : nextseq[t] <= nextseq'[t],
           \A t \in Tables : \A r \in table'[t] : r.seq < nextseq'[t],
           clock' \in [Keys -> Owners], slock' \in [Tables -> SUBSET Writers]
    PROVE  RecordInv'
<1>0. /\ TypeOK /\ RecordsOK /\ IdInv /\ SeqAhead /\ \A j \in Jobs : OnTable(j)
  BY DEF RecordInv, TypeInv
<1>1. UNCHANGED <<pend, run, catalog, store, today, runs>>
  BY DEF tx, rvars
<1>2. TypeOK'
  BY <1>0 DEF TypeOK, tx, call
<1>3. RecordsOK' /\ IdInv' /\ \A j \in Jobs : OnTable(j)'
  BY <1>0, <1>1 DEF RecordsOK, IdInv, OnTable
<1>4. /\ \A t \in Tables : nextseq[t] \in Nat /\ nextseq'[t] \in Nat
      /\ \A w \in Writers, t \in Tables : pend[w][t] \in SUBSET Rows(Contents)
  BY <1>0 DEF TypeOK
<1>5. ASSUME NEW t \in Tables, NEW S \in SUBSET Rows(Contents), \A r \in S : r.seq < nextseq[t]
      PROVE  \A r \in S : r.seq < nextseq'[t]
  BY <1>4, <1>5, StaysAhead
<1>6. ASSUME NEW w \in Writers, NEW t \in Tables PROVE \A r \in pend[w][t] : r.seq < nextseq'[t]
  <2>1. \A r \in pend[w][t] : r.seq < nextseq[t]
    BY <1>0 DEF SeqAhead
  <2>2. QED
    BY <1>4, <1>5, <2>1
<1>7. ASSUME NEW t \in Tables, NEW s \in catalog[t]
      PROVE  \A r \in SegmentRows(s) : r.seq < nextseq'[t]
  <2>1. s \in Segments
    BY <1>0 DEF RecordsOK
  <2>2. SegmentRows(s) \in SUBSET Rows(Contents)
    BY <2>1, PartsType DEF SegmentRows, Segments
  <2>3. \A r \in SegmentRows(s) : r.seq < nextseq[t]
    BY <1>0 DEF SeqAhead
  <2>4. QED
    BY <1>5, <2>2, <2>3
<1>8. ASSUME NEW j \in Jobs, run[j].at # "idle"
      PROVE  \A r \in run[j].left \cup UNION Range(run[j].out) : r.seq < nextseq'[run[j].t]
  <2>1. PICK S : S = run[j].left \cup UNION Range(run[j].out)
    OBVIOUS
  <2>2. run[j].out \in Seq(SUBSET Rows(Contents)) /\ run[j].left \in SUBSET Rows(Contents)
    BY <1>0 DEF RecordsOK, RunRecords
  <2>3. S \in SUBSET Rows(Contents) /\ run[j].t \in Tables
    BY <1>0, <1>8, <2>1, <2>2, PartsType DEF OnTable
  <2>4. \A r \in S : r.seq < nextseq[run[j].t]
    BY <1>0, <1>8, <2>1 DEF SeqAhead
  <2>5. QED
    BY <1>5, <2>1, <2>3, <2>4
<1>9. SeqAhead'
  BY <1>1, <1>6, <1>7, <1>8 DEF SeqAhead, SegmentRows
<1>10. TailInv'
  <2>1. ASSUME NEW t \in Tables PROVE HasTail(table'[t])
    BY <1>4, BoundedTail
  <2>2. ASSUME NEW t \in Tables, NEW w \in Writers PROVE HasTail(pend'[w][t])
    BY <1>1, <1>4, <1>6, BoundedTail
  <2>3. QED
    BY <2>1, <2>2 DEF TailInv
<1>11. QED
  BY <1>2, <1>3, <1>9, <1>10 DEF RecordInv, TypeInv

LEMMA SealKept ==
    ASSUME SealInv, UNCHANGED <<tx, call, rvars>>,
           \A t \in Tables : \A r \in table'[t] : Sealed(r)
    PROVE  SealInv'
<1>1. UNCHANGED <<pend, batch, run, catalog>>
  BY DEF tx, call, rvars
<1>2. QED
  BY <1>1 DEF SealInv, Catalogued, SegmentRows

\* The tables, the sequences and the locks stay as they are, or a lock of the
\* repair comes or goes.
LEMMA StandingKept ==
    ASSUME RecordInv, SealInv, UNCHANGED <<table, nextseq, anchor, parts, plock, xlock, tx, call, rvars>>,
           clock' \in [Keys -> Owners], slock' \in [Tables -> SUBSET Writers]
    PROVE  RecordInv' /\ SealInv'
<1>1. /\ table \in [Tables -> SUBSET Rows(Contents)] /\ nextseq \in [Tables -> Nat]
      /\ \A t \in Tables : \A r \in table[t] : r.seq < nextseq[t]
  BY DEF RecordInv, TypeInv, TypeOK, SeqAhead
<1>2. \A t \in Tables : nextseq[t] <= nextseq'[t]
  BY <1>1
<1>3. RecordInv'
  BY <1>1, <1>2, RecordKept
<1>4. \A t \in Tables : \A r \in table'[t] : Sealed(r)
  BY DEF SealInv
<1>5. QED
  BY <1>3, <1>4, SealKept

LEMMA ForkKeeps ==
    ASSUME RecordInv, SealInv, NEW e \in Events, Fork(e)
    PROVE  RecordInv' /\ SealInv'
<1>0. /\ table \in [Tables -> SUBSET Rows(Contents)] /\ nextseq \in [Tables -> Nat]
      /\ clock \in [Keys -> Owners] /\ slock \in [Tables -> SUBSET Writers]
      /\ \A t \in Tables : \A r \in table[t] : r.seq < nextseq[t]
  BY DEF RecordInv, TypeInv, TypeOK, SeqAhead
<1>1. PICK t : t = TableOf(e)
  OBVIOUS
<1>2. /\ Ordinary(<<e>>) /\ nextseq' = [nextseq EXCEPT ![t] = @ + 1]
      /\ UNCHANGED <<anchor, parts, locks, tx, call, rvars>>
      /\ \E q \in table[t] : table' = [table EXCEPT ![t] = @ \cup {RowOf(nextseq[t], e, q.prev)}]
  BY <1>1 DEF Fork
<1>3. t \in Tables
  BY <1>1, WriterConstants DEF TableOf
<1>4. PICK q \in table[t] : table' = [table EXCEPT ![t] = @ \cup {RowOf(nextseq[t], e, q.prev)}]
  BY <1>2
<1>5. e \in Events \ Forgeries
  <2>1. <<e>>[1] = e /\ Len(<<e>>) = 1
    OBVIOUS
  <2>2. e \in EventsIn(<<e>>)
    BY <2>1 DEF EventsIn
  <2>3. QED
    BY <1>2, <2>2 DEF Ordinary
<1>6. PICK row : row = RowOf(nextseq[t], e, q.prev)
  OBVIOUS
<1>7. q.prev \in Seq(Contents) /\ e \in Contents /\ nextseq[t] \in Nat
  BY <1>0, <1>3, <1>4 DEF Rows, Contents
<1>8. row \in Rows(Contents) /\ row.seq = nextseq[t] /\ Sealed(row)
  BY <1>5, <1>6, <1>7, RowOfType, SealedRow DEF RowOf
<1>9. \A u \in Tables : table'[u] = IF u = t THEN table[u] \cup {row} ELSE table[u]
  BY <1>0, <1>3, <1>4, <1>6
<1>10. table' \in [Tables -> SUBSET Rows(Contents)]
  BY <1>0, <1>3, <1>4, <1>6, <1>8
<1>11. /\ nextseq' \in [Tables -> Nat]
       /\ \A u \in Tables : nextseq'[u] = IF u = t THEN nextseq[u] + 1 ELSE nextseq[u]
  BY <1>0, <1>2, <1>3
<1>12. \A u \in Tables : nextseq[u] <= nextseq'[u]
  BY <1>0, <1>11
<1>13. \A u \in Tables : \A r \in table'[u] : r.seq < nextseq'[u]
  <2>1. ASSUME NEW u \in Tables, NEW r \in table'[u] PROVE r.seq < nextseq'[u]
    <3>1. CASE r \in table[u]
      <4>1. r.seq < nextseq[u] /\ r.seq \in Nat
        BY <1>0, <3>1 DEF Rows
      <4>2. QED
        BY <1>0, <1>11, <4>1
    <3>2. CASE u = t /\ r = row
      BY <1>8, <1>7, <1>11, <3>2
    <3>3. QED
      BY <1>9, <2>1, <3>1, <3>2
  <2>2. QED
    BY <2>1
<1>14. UNCHANGED <<plock, clock, xlock, slock>>
  BY <1>2 DEF locks
<1>15. RecordInv'
  BY <1>0, <1>2, <1>10, <1>11, <1>12, <1>13, <1>14, RecordKept
<1>16. \A u \in Tables : \A r \in table'[u] : Sealed(r)
  BY <1>8, <1>9 DEF SealInv
<1>17. QED
  BY <1>2, <1>15, <1>16, SealKept

\* An altered row keeps its digest, and with it its seal.
LEMMA TamperKeeps ==
    ASSUME RecordInv, SealInv, NEW t \in Tables, NEW q \in table[t], Tamper(t, q)
    PROVE  RecordInv' /\ SealInv'
<1>0. /\ table \in [Tables -> SUBSET Rows(Contents)] /\ nextseq \in [Tables -> Nat]
      /\ clock \in [Keys -> Owners] /\ slock \in [Tables -> SUBSET Writers]
      /\ \A u \in Tables : \A r \in table[u] : r.seq < nextseq[u]
  BY DEF RecordInv, TypeInv, TypeOK, SeqAhead
<1>1. q \in Rows(Contents) /\ Sealed(q) /\ q.seq < nextseq[t]
  BY <1>0 DEF SealInv
<1>2. PICK row : row = [q EXCEPT !.ev = Forged[q.ev]]
  OBVIOUS
<1>3. Forged[q.ev] \in Events
  BY <1>1, RechainConstants DEF Sealed
<1>4. /\ row \in Rows(Contents) /\ row.seq = q.seq /\ row.ev = Forged[q.ev]
      /\ row.prev = q.prev /\ row.hash = q.hash
  BY <1>1, <1>2, <1>3 DEF Rows, Contents
<1>5. Sealed(row)
  BY <1>1, <1>3, <1>4 DEF Sealed
<1>6. /\ table' = [table EXCEPT ![t] = (@ \ {q}) \cup {row}]
      /\ UNCHANGED <<nextseq, anchor, parts, locks, tx, call, rvars>>
  BY <1>2 DEF Tamper
<1>7. \A u \in Tables : table'[u] \subseteq table[u] \cup (IF u = t THEN {row} ELSE {})
  BY <1>0, <1>6
<1>8. table' \in [Tables -> SUBSET Rows(Contents)]
  BY <1>0, <1>4, <1>6
<1>9. \A u \in Tables : \A r \in table'[u] : r.seq < nextseq'[u]
  BY <1>0, <1>1, <1>4, <1>6, <1>7
<1>10. \A u \in Tables : nextseq[u] <= nextseq'[u]
  BY <1>0, <1>6
<1>11. UNCHANGED <<plock, clock, xlock, slock>>
  BY <1>6 DEF locks
<1>12. RecordInv'
  BY <1>0, <1>6, <1>8, <1>9, <1>10, <1>11, RecordKept
<1>13. \A u \in Tables : \A r \in table'[u] : Sealed(r)
  BY <1>5, <1>7 DEF SealInv
<1>14. QED
  BY <1>6, <1>12, <1>13, SealKept

\* The UPDATE replaces links by links, each with the digest that belongs to it.
LEMMA NewLinks ==
    ASSUME NEW S \in SUBSET Rows(Contents), NEW new \in SUBSET Rows(Contents),
           new = fix.new, \A n \in new : Sealed(n), NEW r \in S, Sealed(r)
    PROVE  /\ WithNewLinks(r) \in Rows(Contents) /\ WithNewLinks(r).seq = r.seq
           /\ WithNewLinks(r).ev = r.ev /\ Sealed(WithNewLinks(r))
<1>1. CASE \E n \in new : n.seq = r.seq
  <2>1. PICK n : n = CHOOSE x \in new : x.seq = r.seq
    OBVIOUS
  <2>2. n \in new /\ n.seq = r.seq
    BY <1>1, <2>1
  <2>3. WithNewLinks(r) = [r EXCEPT !.prev = n.prev, !.hash = n.hash]
    BY <1>1, <2>1 DEF WithNewLinks
  <2>4. /\ WithNewLinks(r) \in Rows(Contents) /\ WithNewLinks(r).seq = r.seq
        /\ WithNewLinks(r).ev = r.ev /\ WithNewLinks(r).prev = n.prev
        /\ WithNewLinks(r).hash = n.hash
    BY <2>2, <2>3 DEF Rows
  <2>5. Sealed(n)
    BY <2>2
  <2>6. QED
    BY <2>4, <2>5 DEF Sealed
<1>2. CASE ~\E n \in new : n.seq = r.seq
  BY <1>2 DEF WithNewLinks
<1>3. QED
  BY <1>1, <1>2

\* The new links, computed from rows that verify one by one.
LEMMA RelinkSeals ==
    ASSUME NEW S \in SUBSET Rows(Contents), NEW k \in Nat, \A r \in S : r.seq < k,
           NEW a \in Digests, \A r \in S : Sealed(r), SelfConsistent(S)
    PROVE  Relinked(S, a) \subseteq Rows(Contents) /\ \A n \in Relinked(S, a) : Sealed(n)
<1>0. PICK m \in Nat : \E f : /\ HeadsTo(S, a, m, f)
                              /\ \A r \in S : r.seq \in 0..m
                              /\ Relinked(S, a) = {RowOf(r.seq, r.ev, f[r.seq]) : r \in S}
  BY RelinkedHeads
<1>1. PICK f : /\ HeadsTo(S, a, m, f)
               /\ \A r \in S : r.seq \in 0..m
               /\ Relinked(S, a) = {RowOf(r.seq, r.ev, f[r.seq]) : r \in S}
  BY <1>0
<1>2. \A n \in 0..m : f[n] \in Digests
  BY <1>1, HeadsType
<1>3. ASSUME NEW r \in S PROVE RowOf(r.seq, r.ev, f[r.seq]) \in Rows(Contents) /\ Sealed(RowOf(r.seq, r.ev, f[r.seq]))
  <2>1. r.ev \in Events \ Forgeries
    BY VerifiedContent DEF SelfConsistent
  <2>2. r.seq \in Nat /\ r.ev \in Contents /\ f[r.seq] \in Seq(Contents)
    BY <1>1, <1>2 DEF Rows, Digests
  <2>3. QED
    BY <2>1, <2>2, RowOfType, SealedRow
<1>4. QED
  BY <1>1, <1>3

-----------------------------------------------------------------------------
(* The steps of the repair.                                                *)

LEMMA NoFixType ==
    /\ NoFix \in [at : FixStates, t : Tables, anchor : Digests, new : SUBSET Rows(Contents)]
    /\ NoFix.new = {}
<1>1. (CHOOSE t \in Tables : TRUE) \in Tables
  BY RechainConstants
<1>2. NoHash \in Digests
  BY DEF NoHash, Digests
<1>3. QED
  BY <1>1, <1>2 DEF NoFix, FixStates

\* The locks of a repair that ends.
LEMMA FixEndsType ==
    ASSUME TypeOK, FixEnds
    PROVE  clock' \in [Keys -> Owners] /\ slock' \in [Tables -> SUBSET Writers]
BY DEF TypeOK, FixEnds, Owners

\* The links of a repaired table.
LEMMA CommitRepairKeeps ==
    ASSUME RechainInv, CommitRepair
    PROVE  RecordInv' /\ SealInv'
<1>0. /\ table \in [Tables -> SUBSET Rows(Contents)] /\ nextseq \in [Tables -> Nat]
      /\ \A u \in Tables : \A r \in table[u] : r.seq < nextseq[u]
      /\ \A u \in Tables : \A r \in table[u] : Sealed(r)
      /\ RecordInv /\ SealInv /\ TypeOK
  BY DEF RechainInv, RecordInv, TypeInv, TypeOK, SeqAhead, SealInv
<1>1. PICK t : t = fix.t
  OBVIOUS
<1>2. /\ t \in Tables /\ fix.new \in SUBSET Rows(Contents) /\ \A n \in fix.new : Sealed(n)
  BY <1>1 DEF RechainInv, FixInv
<1>3. /\ table' = [table EXCEPT ![t] = Updated(t)] /\ FixEnds
      /\ UNCHANGED <<nextseq, anchor, parts, plock, xlock, tx, call, rvars>>
  BY <1>1 DEF CommitRepair, FixLeaves
<1>4. ASSUME NEW r \in table[t]
      PROVE  /\ WithNewLinks(r) \in Rows(Contents) /\ WithNewLinks(r).seq = r.seq
             /\ Sealed(WithNewLinks(r))
  <2>1. table[t] \in SUBSET Rows(Contents) /\ Sealed(r)
    BY <1>0, <1>2
  <2>2. QED
    BY <1>2, <2>1, NewLinks
<1>5. /\ Updated(t) \in SUBSET Rows(Contents)
      /\ \A q \in Updated(t) : Sealed(q) /\ q.seq < nextseq[t]
  BY <1>0, <1>2, <1>4 DEF Updated
<1>6. \A u \in Tables : table'[u] = IF u = t THEN Updated(t) ELSE table[u]
  BY <1>0, <1>2, <1>3
<1>7. table' \in [Tables -> SUBSET Rows(Contents)]
  BY <1>0, <1>2, <1>3, <1>5
<1>8. \A u \in Tables : \A r \in table'[u] : r.seq < nextseq'[u] /\ Sealed(r)
  BY <1>0, <1>3, <1>5, <1>6
<1>9. \A u \in Tables : nextseq[u] <= nextseq'[u]
  BY <1>0, <1>3
<1>10. RecordInv'
  BY <1>0, <1>3, <1>7, <1>8, <1>9, FixEndsType, RecordKept
<1>11. QED
  BY <1>0, <1>3, <1>8, <1>10, SealKept

\* What the repair has in hand.
LEMMA RepairKeepsFix ==
    ASSUME RechainInv, RepairNext
    PROVE  FixInv'
<1> DEFINE F == [at : FixStates, t : Tables, anchor : Digests, new : SUBSET Rows(Contents)]
<1>0. /\ fix \in F /\ NoFix \in F /\ NoFix.new = {} /\ \A n \in fix.new : Sealed(n)
      /\ overlapped \subseteq repaired /\ repaired \subseteq Tables
      /\ TypeOK /\ SeqAhead /\ SealInv /\ \A t \in Tables : anchor[t] \in Digests
  BY NoFixType DEF RechainInv, FixInv, RecordInv, TypeInv, TypeOK
<1>1. ASSUME NEW t \in Tables, BeginRepair(t) PROVE FixInv'
  <2>1. /\ fix' = [NoFix EXCEPT !.at = "verify", !.t = t, !.anchor = anchor[t]]
        /\ UNCHANGED <<repaired, overlapped>>
    BY <1>1 DEF BeginRepair, CatalogAnchor
  <2>2. fix' \in F /\ fix'.new = {}
    BY <1>0, <1>1, <2>1 DEF FixStates
  <2>3. QED
    BY <1>0, <2>1, <2>2 DEF FixInv
<1>2. ASSUME NEW at \in FixStates, fix' = [fix EXCEPT !.at = at], UNCHANGED <<repaired, overlapped>>
      PROVE  FixInv'
  <2>1. fix' \in F /\ fix'.new = fix.new
    BY <1>0, <1>2
  <2>2. QED
    BY <1>0, <1>2, <2>1 DEF FixInv
<1>3. ASSUME fix' = NoFix, UNCHANGED <<repaired, overlapped>> PROVE FixInv'
  BY <1>0, <1>3 DEF FixInv
<1>4. ASSUME VerifyBefore \/ LockForRepair \/ VerifyAfter PROVE FixInv'
  <2>1. /\ UNCHANGED <<repaired, overlapped>>
        /\ fix' = NoFix \/ \E at \in {"lock", "relink", "commit"} : fix' = [fix EXCEPT !.at = at]
    BY <1>4 DEF VerifyBefore, LockForRepair, VerifyAfter
  <2>2. QED
    BY <1>2, <1>3, <2>1 DEF FixStates
<1>5. ASSUME Relink PROVE FixInv'
  <2>1. PICK t : t = fix.t
    OBVIOUS
  <2>2. PICK new : new = Relinked(table[t], anchor[t])
    OBVIOUS
  <2>3. /\ SelfConsistent(table[t]) /\ UNCHANGED <<repaired, overlapped>>
        /\ fix' = [fix EXCEPT !.at = "verify_after", !.new = new]
    BY <1>5, <2>1, <2>2 DEF Relink, CatalogAnchor
  <2>4. t \in Tables
    BY <1>0, <2>1
  <2>5. /\ table[t] \in SUBSET Rows(Contents) /\ nextseq[t] \in Nat /\ anchor[t] \in Digests
        /\ \A r \in table[t] : r.seq < nextseq[t] /\ Sealed(r)
    BY <1>0, <2>4 DEF TypeOK, SeqAhead, SealInv
  <2>6. new \subseteq Rows(Contents) /\ \A n \in new : Sealed(n)
    BY <2>2, <2>3, <2>5, RelinkSeals
  <2>7. fix' \in F /\ fix'.new = new
    BY <1>0, <2>3, <2>6 DEF FixStates
  <2>8. QED
    BY <1>0, <2>3, <2>6, <2>7 DEF FixInv
<1>6. ASSUME CommitRepair PROVE FixInv'
  <2>1. PICK t : t = fix.t
    OBVIOUS
  <2>2. /\ repaired' = repaired \cup {t}
        /\ overlapped' = overlapped \/ overlapped' = overlapped \cup {t}
        /\ fix' = [NoFix EXCEPT !.at = "mark", !.t = t] \/ fix' = NoFix
    BY <1>6, <2>1 DEF CommitRepair
  <2>3. t \in Tables
    BY <1>0, <2>1
  <2>4. fix' \in F /\ fix'.new = {}
    BY <1>0, <2>2, <2>3 DEF FixStates
  <2>5. overlapped' \subseteq repaired' /\ repaired' \subseteq Tables
    BY <1>0, <2>2, <2>3
  <2>6. QED
    BY <2>4, <2>5 DEF FixInv
<1>7. ASSUME RepairEnds \/ MarkRepair PROVE FixInv'
  BY <1>3, <1>7 DEF RepairEnds, MarkRepair
<1>8. QED
  BY <1>1, <1>4, <1>5, <1>6, <1>7 DEF RepairNext

-----------------------------------------------------------------------------
\* A call, of a writer or for the marker, and the steps of a call.
LEMMA WriterKeeps ==
    ASSUME RecordInv, SealInv, NEW w \in WriterJobs, WriterNext(w),
           CallNext(w) \/ EventsIn(batch'[w]) \cap Forgeries = {}
    PROVE  RecordInv' /\ SealInv'
<1>0. /\ TypeInv /\ TypeOK /\ RecordsOK /\ IdInv /\ SeqAhead /\ \A j \in Jobs : OnTable(j)
  BY DEF RecordInv, TypeInv
<1>1. UNCHANGED <<today, run, runs, store, catalog>> /\ Next
  BY WriterMoves DEF rvars
<1>2. TypeInv'
  BY <1>0, <1>1, TypeStep
<1>3. RecordsOK' /\ IdInv' /\ \A j \in Jobs : OnTable(j)'
  BY <1>0, <1>1 DEF RecordsOK, IdInv, OnTable
<1>4. SeqAhead'
  BY <1>0, SeqAheadWriter
<1>5. SealInv'
  BY <1>0, WriterSeals
<1>6. QED
  BY <1>2, <1>3, <1>4, <1>5 DEF RecordInv

\* A call whose events nobody altered.
LEMMA CallKeeps ==
    ASSUME RecordInv, SealInv, NEW w \in WriterJobs, NEW b \in Batches, RetCall(w, b),
           EventsIn(b) \cap Forgeries = {}
    PROVE  RecordInv' /\ SealInv'
<1>1. batch' = [batch EXCEPT ![w] = b] /\ w \in Writers
  BY DEF RetCall, Call, WriterJobs
<1>2. batch'[w] = b
  BY <1>1 DEF RecordInv, TypeInv, TypeOK
<1>3. WriterNext(w)
  BY DEF WriterNext
<1>4. QED
  BY <1>2, <1>3, WriterKeeps

LEMMA MarkKeeps ==
    ASSUME RechainInv, MarkRepair
    PROVE  RecordInv' /\ SealInv'
<1>1. PICK e : e = Marker[fix.t]
  OBVIOUS
<1>2. e \in Events \ Forgeries
  <2>1. fix.t \in Tables
    BY DEF RechainInv, FixInv
  <2>2. QED
    BY <1>1, <2>1, RechainConstants DEF Forgeries
<1>3. /\ <<e>> \in Batches /\ EventsIn(<<e>>) = {e}
  <2>1. <<e>> \in Seq(Events) /\ Len(<<e>>) = 1 /\ <<e>>[1] = e
    BY <1>2
  <2>2. <<e>> \in [1..1 -> Events] /\ 1 \in 1..MaxBatch
    BY <1>2, <2>1, RechainConstants, WriterConstants
  <2>3. <<e>> \in Batches
    BY <2>2 DEF Batches
  <2>4. EventsIn(<<e>>) = {e}
    BY <2>1 DEF EventsIn
  <2>5. QED
    BY <2>3, <2>4
<1>4. Fixer \in WriterJobs /\ RetCall(Fixer, <<e>>)
  BY <1>1, RechainConstants DEF MarkRepair, WriterJobs
<1>5. QED
  BY <1>2, <1>3, <1>4, CallKeeps DEF RechainInv

LEMMA RepairKeeps ==
    ASSUME RechainInv, RepairNext
    PROVE  RecordInv' /\ SealInv'
<1>0. RecordInv /\ SealInv /\ TypeOK /\ fix.t \in Tables
  BY DEF RechainInv, RecordInv, TypeInv, FixInv
<1>1. clock \in [Keys -> Owners] /\ slock \in [Tables -> SUBSET Writers]
  BY <1>0 DEF TypeOK
<1>2. ASSUME UNCHANGED <<table, clock, slock>>, FixLeaves PROVE RecordInv' /\ SealInv'
  BY <1>0, <1>1, <1>2, StandingKept DEF FixLeaves
<1>3. ASSUME NEW t \in Tables, BeginRepair(t) PROVE RecordInv' /\ SealInv'
  BY <1>2, <1>3 DEF BeginRepair
<1>4. ASSUME VerifyBefore PROVE RecordInv' /\ SealInv'
  <2>1. /\ UNCHANGED <<table, clock>> /\ FixLeaves
        /\ UNCHANGED slock \/ slock' = [slock EXCEPT ![fix.t] = @ \cup {Fixer}]
    BY <1>4 DEF VerifyBefore
  <2>2. slock' \in [Tables -> SUBSET Writers]
    BY <1>0, <1>1, <2>1, RechainConstants
  <2>3. QED
    BY <1>0, <1>1, <2>1, <2>2, StandingKept DEF FixLeaves
<1>5. ASSUME LockForRepair PROVE RecordInv' /\ SealInv'
  <2>1. /\ UNCHANGED <<table, slock>> /\ FixLeaves
        /\ clock' = [clock EXCEPT ![ChainKey(fix.t)] = Fixer]
    BY <1>5 DEF LockForRepair
  <2>2. clock' \in [Keys -> Owners]
    BY <1>1, <2>1, RechainConstants DEF Owners
  <2>3. QED
    BY <1>0, <1>1, <2>1, <2>2, StandingKept DEF FixLeaves
<1>6. ASSUME Relink \/ VerifyAfter PROVE RecordInv' /\ SealInv'
  BY <1>2, <1>6 DEF Relink, VerifyAfter
<1>7. ASSUME RepairEnds PROVE RecordInv' /\ SealInv'
  <2>1. UNCHANGED table /\ FixLeaves /\ FixEnds
    BY <1>7 DEF RepairEnds
  <2>2. clock' \in [Keys -> Owners] /\ slock' \in [Tables -> SUBSET Writers]
    BY <1>0, <2>1, FixEndsType
  <2>3. QED
    BY <1>0, <2>1, <2>2, StandingKept DEF FixLeaves
<1>8. QED
  BY <1>3, <1>4, <1>5, <1>6, <1>7, CommitRepairKeeps, MarkKeeps DEF RepairNext

LEMMA RunKeeps ==
    ASSUME RecordInv, SealInv, NEW j \in Jobs, RunNext(j)
    PROVE  RecordInv' /\ SealInv'
<1>0. /\ TypeInv /\ TypeOK /\ RecordsOK /\ IdInv /\ SeqAhead /\ \A i \in Jobs : OnTable(i)
  BY DEF RecordInv, TypeInv
<1>1. TypeInv' /\ RecordsOK'
  BY <1>0, RunTypeStep, RecordsStep
<1>2. IdInv' /\ SeqAhead'
  BY <1>0, IdStep, SeqAheadRun
<1>3. SealInv'
  BY <1>0, RunSeals
<1>4. RunKept(j) /\ RunGoes(j)
  BY <1>0, RunSteps
<1>5. \A i \in Jobs : OnTable(i)'
  BY <1>0, <1>4 DEF OnTable, RunKept, RunGoes, SameRun
<1>6. QED
  BY <1>1, <1>2, <1>3, <1>5 DEF RecordInv

\* The month turns, or nothing happens.
LEMMA IdleKeeps ==
    ASSUME RecordInv, SealInv, UNCHANGED <<vars, run, runs, store, catalog>>, today' \in Int
    PROVE  RecordInv' /\ SealInv'
<1>1. UNCHANGED <<table, nextseq, pend, batch>>
  BY DEF vars, db, tx, call
<1>2. TypeInv'
  BY TypeStep DEF RecordInv
<1>3. RecordsOK' /\ IdInv' /\ \A j \in Jobs : OnTable(j)'
  BY DEF RecordInv, RecordsOK, IdInv, OnTable
<1>4. SeqAhead'
  BY <1>1 DEF RecordInv, SeqAhead, SegmentRows
<1>5. SealInv'
  BY <1>1 DEF SealInv, Catalogued, SegmentRows
<1>6. QED
  BY <1>2, <1>3, <1>4, <1>5 DEF RecordInv

-----------------------------------------------------------------------------
LEMMA RechainInvInit == RechainInit => RechainInv
<1> SUFFICES ASSUME RechainInit PROVE RechainInv
  OBVIOUS
<1>0. RetentionInit /\ fix = NoFix /\ repaired = {} /\ overlapped = {}
  BY DEF RechainInit
<1>1. TypeInv /\ RetentionInv
  BY <1>0, RetentionInvInit
<1>2. RecordInv
  BY <1>1 DEF RecordInv, RetentionInv, RunInv, RunLockInv, OnTable
<1>3. FixInv
  BY <1>0, NoFixType DEF FixInv
<1>4. /\ \A t \in Tables : table[t] = {} /\ catalog[t] = {}
      /\ \A w \in Writers, t \in Tables : pend[w][t] = {}
      /\ \A w \in Writers : batch[w] = <<>>
  BY <1>0 DEF RetentionInit, Init, NoRows
<1>5. \A j \in Jobs : run[j].left = {} /\ run[j].out = <<>>
  BY <1>0, NoRunType DEF RetentionInit
<1>6. UNION Range(<<>>) = {}
  BY DEF Range
<1>7. SealInv
  BY <1>4, <1>5, <1>6, EmptyBatch DEF SealInv, Catalogued
<1>8. QED
  BY <1>2, <1>3, <1>7 DEF RechainInv

LEMMA RechainInvStep == RechainInv /\ [RechainNext]_everything => RechainInv'
<1> SUFFICES ASSUME RechainInv, [RechainNext]_everything PROVE RechainInv'
  OBVIOUS
<1>0. RecordInv /\ SealInv /\ FixInv /\ today \in Int
  BY DEF RechainInv, RecordInv, RecordsOK
<1>1. ASSUME UNCHANGED <<fix, repaired, overlapped>> PROVE FixInv'
  BY <1>0, <1>1 DEF FixInv
<1>2. ASSUME UNCHANGED fvars PROVE FixInv'
  BY <1>1, <1>2 DEF fvars
<1>3. ASSUME NEW w \in Others, NEW b \in Batches, RetCall(w, b), Ordinary(b), UNCHANGED fvars
      PROVE  RechainInv'
  <2>1. w \in WriterJobs /\ EventsIn(b) \cap Forgeries = {}
    BY <1>3 DEF Others, Ordinary
  <2>2. QED
    BY <1>0, <1>2, <1>3, <2>1, CallKeeps DEF RechainInv
<1>4. ASSUME NEW w \in WriterJobs, CallNext(w), UNCHANGED fvars PROVE RechainInv'
  <2>1. WriterNext(w)
    BY <1>4 DEF WriterNext
  <2>2. QED
    BY <1>0, <1>2, <1>4, <2>1, WriterKeeps DEF RechainInv
<1>5. ASSUME NEW j \in Jobs, RunNext(j), UNCHANGED fvars PROVE RechainInv'
  BY <1>0, <1>2, <1>5, RunKeeps DEF RechainInv
<1>6. ASSUME NextMonth, UNCHANGED fvars PROVE RechainInv'
  <2>1. UNCHANGED <<vars, run, runs, store, catalog>> /\ today' \in Int
    BY <1>0, <1>6 DEF NextMonth
  <2>2. QED
    BY <1>0, <1>2, <1>6, <2>1, IdleKeeps DEF RechainInv
<1>7. ASSUME RepairNext PROVE RechainInv'
  BY <1>7, RepairKeeps, RepairKeepsFix DEF RechainInv
<1>8. ASSUME NEW e \in Events, Fork(e) PROVE RechainInv'
  <2>1. UNCHANGED <<fix, repaired, overlapped>>
    BY <1>8 DEF Fork
  <2>2. QED
    BY <1>0, <1>1, <1>8, <2>1, ForkKeeps DEF RechainInv
<1>9. ASSUME NEW t \in Tables, NEW r \in table[t], Tamper(t, r) PROVE RechainInv'
  <2>1. UNCHANGED <<fix, repaired, overlapped>>
    BY <1>9 DEF Tamper
  <2>2. QED
    BY <1>0, <1>1, <1>9, <2>1, TamperKeeps DEF RechainInv
<1>10. ASSUME UNCHANGED everything PROVE RechainInv'
  <2>1. UNCHANGED <<vars, run, runs, store, catalog>> /\ today' \in Int /\ UNCHANGED fvars
    BY <1>0, <1>10 DEF everything, allVars, rvars
  <2>2. QED
    BY <1>0, <1>2, <2>1, IdleKeeps DEF RechainInv
<1>11. QED
  BY <1>3, <1>4, <1>5, <1>6, <1>7, <1>8, <1>9, <1>10 DEF RechainNext

\* The repair in progress is what its steps take it for (rechain.repair).
THEOREM RechainTypeCorrect == RechainSpec => []RechainTypeOK
<1>1. RechainInv => RechainTypeOK
  BY DEF RechainInv, FixInv, FixStates, RechainTypeOK
<1>2. QED
  BY <1>1, RechainInvInit, RechainInvStep, PTL DEF RechainSpec

\* No repair and no retention run makes an altered row verify, in the table or
\* in the archive, however many rows were forked and altered, before, during or
\* after the repair: relinking digests only contents that recompute under the
\* link they carry (rechain.repair's IntegrityMismatch), and the UPDATE leaves
\* the contents alone.
THEOREM AlteredStaysVisibleHolds == RechainSpec => []AlteredStaysVisible
<1>1. RechainInv => AlteredStaysVisible
  <2> SUFFICES ASSUME RechainInv, NEW t \in Tables, NEW r \in table[t] \cup Catalogued(t),
                      r.ev \in Forgeries
               PROVE  ~HashOK(r)
    BY DEF AlteredStaysVisible
  <2>1. Sealed(r)
    BY DEF RechainInv, SealInv
  <2>2. ASSUME NEW s \in catalog[t] PROVE SegmentRows(s) \in SUBSET Rows(Contents)
    <3>1. s \in Segments
      BY <2>2 DEF RechainInv, RecordInv, RecordsOK
    <3>2. QED
      BY <3>1, PartsType DEF SegmentRows, Segments
  <2>3. r \in Rows(Contents)
    BY <2>2 DEF RechainInv, RecordInv, TypeInv, TypeOK, Catalogued
  <2>4. QED
    BY <2>1, <2>3, SealedVisible
<1>2. QED
  BY <1>1, RechainInvInit, RechainInvStep, PTL DEF RechainSpec

-----------------------------------------------------------------------------
(* A sound chain is left alone.                                            *)

\* On a linked chain the head before a row is the digest that the row links to.
LEMMA HeadsOfLinked ==
    ASSUME NEW S \in SUBSET Rows(Contents), NEW a, Linked(S, a),
           \A r, q \in S : r.seq = q.seq => r = q,
           NEW m \in Nat, NEW f, HeadsTo(S, a, m, f), \A r \in S : r.seq \in 0..m
    PROVE  \A r \in S : f[r.seq] = r.prev
<1> DEFINE HeadIs(n) == /\ (\A q \in S : n <= q.seq) => f[n] = a
                      /\ \A p \in S : p.seq < n /\ (\A q \in S : q.seq < n => q.seq <= p.seq)
                                          => f[n] = p.hash
           N == {n \in Nat : n <= m => HeadIs(n)}
<1>0. /\ \A r \in S : r.seq \in Nat
      /\ f = [n \in 0..m |->
                IF n = 0 THEN a
                ELSE IF n - 1 \in Seqs(S)
                     THEN RowHash(f[n-1], (CHOOSE r \in S : r.seq = n - 1).ev)
                     ELSE f[n-1]]
  BY DEF Rows, HeadsTo
<1>1. ASSUME NEW r \in S, HeadIs(r.seq) PROVE f[r.seq] = r.prev
  <2>1. CASE (\A q \in S : r.seq <= q.seq) /\ r.prev = a
    BY <1>1, <2>1
  <2>2. CASE \E p \in S : IsPredecessor(p, r, S) /\ r.prev = p.hash
    BY <1>1, <2>2 DEF IsPredecessor
  <2>3. LinkOK(r, S, a)
    BY DEF Linked
  <2>4. QED
    BY <2>1, <2>2, <2>3 DEF LinkOK
<1>2. 0 \in N
  <2>1. f[0] = a
    BY <1>0
  <2>2. \A p \in S : ~(p.seq < 0)
    BY <1>0
  <2>3. QED
    BY <2>1, <2>2
<1>3. ASSUME NEW n \in Nat, n \in N PROVE n + 1 \in N
  <2>1. SUFFICES ASSUME n + 1 <= m PROVE HeadIs(n + 1)
    OBVIOUS
  <2>2. /\ HeadIs(n) /\ n + 1 \in 0..m /\ n + 1 # 0 /\ (n + 1) - 1 = n
        /\ \A q \in S : (n + 1 <= q.seq <=> (n <= q.seq /\ q.seq # n))
        /\ \A q \in S : (q.seq < n + 1 <=> (q.seq < n \/ q.seq = n))
    <3>1. n <= m /\ n + 1 \in 0..m /\ n + 1 # 0 /\ (n + 1) - 1 = n
      BY <2>1
    <3>2. HeadIs(n)
      <4> HIDE DEF HeadIs
      <4>1. QED
        BY <1>3, <3>1
    <3>3. \A i \in Nat : /\ n + 1 <= i <=> (n <= i /\ i # n)
                         /\ i < n + 1 <=> (i < n \/ i = n)
      OBVIOUS
    <3> HIDE DEF HeadIs
    <3>4. QED
      BY <1>0, <3>1, <3>2, <3>3
  <2>3. CASE n \in Seqs(S)
    <3>1. PICK x : x = CHOOSE r \in S : r.seq = n
      OBVIOUS
    <3>2. x \in S /\ x.seq = n
      BY <2>3, <3>1 DEF Seqs
    <3>3. f[n + 1] = RowHash(f[n], x.ev)
      BY <1>0, <2>2, <2>3, <3>1
    <3>4. f[n] = x.prev
      BY <1>1, <2>2, <3>2
    <3>5. f[n + 1] = x.hash
      BY <3>2, <3>3, <3>4 DEF Linked, HashOK
    <3>6. ~(\A q \in S : n + 1 <= q.seq)
      BY <2>2, <3>2
    <3>7. ASSUME NEW p \in S, p.seq < n + 1, \A q \in S : q.seq < n + 1 => q.seq <= p.seq
          PROVE  p = x
      BY <1>0, <2>2, <3>2, <3>7
    <3>8. QED
      BY <3>5, <3>6, <3>7
  <2>4. CASE n \notin Seqs(S)
    <3>1. f[n + 1] = f[n]
      BY <1>0, <2>2, <2>4
    <3>2. \A q \in S : q.seq # n
      BY <2>4 DEF Seqs
    <3>3. /\ (\A q \in S : n + 1 <= q.seq) => \A q \in S : n <= q.seq
          /\ \A q \in S : q.seq < n + 1 <=> q.seq < n
      BY <2>2, <3>2
    <3>4. QED
      BY <2>2, <3>1, <3>3
  <2>5. QED
    BY <2>3, <2>4
<1>4. Nat \subseteq N
  <2> HIDE DEF N
  <2>1. QED
    BY <1>2, <1>3, SetInduction
<1>5. ASSUME NEW r \in S PROVE HeadIs(r.seq)
  <2> HIDE DEF HeadIs
  <2>1. r.seq \in Nat /\ r.seq \in 0..m
    BY <1>0
  <2>2. r.seq \in N
    <3> HIDE DEF N
    <3>1. QED
      BY <1>4, <2>1
  <2>3. QED
    BY <2>1, <2>2
<1> HIDE DEF HeadIs
<1>6. QED
  BY <1>1, <1>5

\* Relinking a linked chain finds the links that are there.
LEMMA RelinkedLinked ==
    ASSUME NEW S \in SUBSET Rows(Contents), NEW k \in Nat, \A r \in S : r.seq < k,
           \A r, q \in S : r.seq = q.seq => r = q, NEW a, Linked(S, a)
    PROVE  Relinked(S, a) = S
<1>0. PICK m \in Nat : \E f : /\ HeadsTo(S, a, m, f)
                              /\ \A r \in S : r.seq \in 0..m
                              /\ Relinked(S, a) = {RowOf(r.seq, r.ev, f[r.seq]) : r \in S}
  BY RelinkedHeads
<1>1. PICK f : /\ HeadsTo(S, a, m, f)
               /\ \A r \in S : r.seq \in 0..m
               /\ Relinked(S, a) = {RowOf(r.seq, r.ev, f[r.seq]) : r \in S}
  BY <1>0
<1>2. \A r \in S : f[r.seq] = r.prev
  BY <1>1, HeadsOfLinked
<1>3. \A r \in S : RowOf(r.seq, r.ev, f[r.seq]) = r
  <2>1. ASSUME NEW r \in S PROVE RowOf(r.seq, r.ev, r.prev) = r
    <3>1. r.hash = RowHash(r.prev, r.ev)
      BY DEF Linked, HashOK
    <3>2. r = [seq |-> r.seq, ev |-> r.ev, prev |-> r.prev, hash |-> r.hash]
      BY DEF Rows
    <3>3. QED
      BY <3>1, <3>2 DEF RowOf
  <2>2. QED
    BY <1>2, <2>1
<1>4. QED
  BY <1>1, <1>3

\* Digests of verifying rows with the same links are over the same contents.
LEMMA SameContent ==
    ASSUME NEW r \in Rows(Contents), NEW q \in Rows(Contents), HashOK(r), HashOK(q),
           r.seq = q.seq, r.prev = q.prev, r.hash = q.hash
    PROVE  r = q
<1>1. Append(r.prev, r.ev) = Append(r.prev, q.ev)
  BY DEF HashOK, RowHash
<1>2. r.prev \in Seq(Contents) /\ r.ev \in Contents /\ q.ev \in Contents
  BY DEF Rows
<1>3. /\ Append(r.prev, r.ev)[Len(r.prev) + 1] = r.ev
      /\ Append(r.prev, q.ev)[Len(r.prev) + 1] = q.ev
  BY <1>2
<1>4. r.ev = q.ev
  BY <1>1, <1>3
<1>5. QED
  BY <1>4 DEF Rows

(* The inductive strengthening of RepairOnlyBroken.                        *)

\* A writer between two transactions has no uncommitted rows.
IdleInv == \A w \in Writers : pc[w] = "idle" => pend[w] = NoRows

\* What the locks keep for writers, runs and the repair alike.
SerialInv == LockInv /\ SeqInv /\ ParentInv /\ CountInv /\ IdleInv

\* The repair's transaction is open in no call of write_batch, and has the table
\* open from its first reading and the chain locked from _lock_chain on.
FixHolds ==
    /\ fix.at # "idle" => pc[Fixer] = "idle"
    /\ fix.at \in {"lock", "relink", "verify_after", "commit"} => Fixer \in slock[fix.t]
    /\ fix.at \in {"relink", "verify_after", "commit"} =>
          \A k \in Keys : Parent[k] = fix.t => clock[k] = Fixer

\* The links of rows, whatever their contents.
LinksOf(S) == {<<r.seq, r.prev, r.hash>> : r \in S}

\* The new links were computed from rows that verified, one by one, and whose
\* links are still those of the table.
FixLinks ==
    fix.at \in {"verify_after", "commit"} =>
        \E S \in SUBSET Rows(Contents) :
            /\ SelfConsistent(S) /\ LinksOf(S) = LinksOf(table[fix.t])
            /\ fix.new = Relinked(S, anchor[fix.t])

\* From the reading of the rows to the commit nobody moves the chain's links but
\* the repair itself (rechain.repair, _lock_chain).
RepairInv == RechainInv /\ SerialInv /\ FixHolds /\ FixLinks

-----------------------------------------------------------------------------
(* The writers' and the runs' part of it.                                  *)

\* The chain locks of everybody else survive a writer's step.
LEMMA ChainLocksKept ==
    ASSUME TypeOK, NEW w \in WriterJobs, WriterNext(w), NEW v \in Writers \ {w}, NEW k \in Keys,
           clock[k] = v
    PROVE  clock'[k] = v
<1>0. clock \in [Keys -> Owners] /\ v # NoOwner /\ v # w
  BY WriterConstants DEF TypeOK
<1>1. ASSUME NEW b \in Batches, Call(w, b) PROVE UNCHANGED clock
  BY <1>1 DEF Call, locks
<1>2. ASSUME LockPartition(w) \/ FindPartition(w) \/ CreatePartition(w) \/ SeedHead(w) \/ InsertRow(w)
      PROVE  UNCHANGED clock
  BY <1>2 DEF LockPartition, FindPartition, CreatePartition, SeedHead, InsertRow, locks
<1>3. ASSUME LockChain(w) PROVE clock'[k] = v
  <2>1. PICK i \in needK[w] : clock[i] \in {NoOwner, w} /\ clock' = [clock EXCEPT ![i] = w]
    BY <1>3 DEF LockChain
  <2>2. QED
    BY <1>0, <2>1
<1>4. ASSUME Commit(w) \/ Abort(w) PROVE clock'[k] = v
  BY <1>0, <1>4 DEF Commit, Abort, EndTransaction
<1>5. QED
  BY <1>1, <1>2, <1>3, <1>4, WriterMoves

\* A transaction that ends leaves no rows of its own.
LEMMA IdleWriter ==
    ASSUME TypeOK, IdleInv, NEW w \in WriterJobs, WriterNext(w)
    PROVE  IdleInv'
<1>0. w \in Writers /\ pc \in [Writers -> {"idle", "locking", "ensure", "create", "seed", "rows", "open"}]
      /\ pend \in [Writers -> [Tables -> SUBSET Rows(Contents)]]
  BY DEF WriterJobs, TypeOK
<1>1. ASSUME NEW b \in Batches, Call(w, b) PROVE pc'[w] # "idle"
  BY <1>0, <1>1 DEF Call
<1>2. ASSUME LockPartition(w) \/ FindPartition(w) \/ CreatePartition(w) \/ LockChain(w)
             \/ SeedHead(w) \/ InsertRow(w)
      PROVE  pc'[w] # "idle"
  BY <1>0, <1>2 DEF LockPartition, FindPartition, CreatePartition, LockChain, SeedHead, InsertRow
<1>3. ASSUME Commit(w) \/ Abort(w) PROVE pend'[w] = NoRows
  BY <1>0, <1>3 DEF Commit, Abort, EndTransaction
<1>4. pc'[w] = "idle" => pend'[w] = NoRows
  BY <1>1, <1>2, <1>3, WriterMoves
<1>5. \A v \in Writers \ {w} : pc'[v] = pc[v] /\ pend'[v] = pend[v]
  BY OthersKept
<1>6. QED
  BY <1>4, <1>5 DEF IdleInv

LEMMA SerialWriter ==
    ASSUME NoAliasing, RecordInv, SerialInv, NEW w \in WriterJobs, WriterNext(w)
    PROVE  SerialInv'
<1>1. /\ TypeInv /\ TypeOK /\ \A j \in Jobs : OnTable(j)
      /\ LockInv /\ SeqInv /\ ParentInv /\ CountInv /\ IdleInv
  BY DEF RecordInv, TypeInv, SerialInv
<1>2. [Next]_vars
  BY WriterMoves
<1>3. LockInv' /\ SeqInv'
  BY <1>1, <1>2, LockStep, SeqStep
<1>4. ParentInv' /\ CountInv' /\ IdleInv'
  BY <1>1, ParentWriter, CountWriter, IdleWriter
<1>5. QED
  BY <1>3, <1>4 DEF SerialInv

LEMMA SerialRun ==
    ASSUME RecordInv, SerialInv, NEW j \in Jobs, RunNext(j)
    PROVE  SerialInv'
<1>1. /\ TypeOK /\ RecordsOK /\ \A i \in Jobs : OnTable(i)
      /\ LockInv /\ SeqInv /\ ParentInv /\ CountInv /\ IdleInv
  BY DEF RecordInv, TypeInv, SerialInv
<1>2. LockInv' /\ SeqInv'
  BY <1>1, CallsRun
<1>3. ParentInv' /\ CountInv'
  BY <1>1, ParentRun, CountRun
<1>4. IdleInv'
  BY <1>1, RunMoves DEF IdleInv, tx, call
<1>5. QED
  BY <1>2, <1>3, <1>4 DEF SerialInv

\* The calls are as they were, and who has called keeps his chain locks.
LEMMA CallsKept ==
    ASSUME TypeOK, LockInv, IdleInv, pc[Fixer] = "idle", UNCHANGED <<tx, call>>,
           \A v \in Writers \ {Fixer}, k \in Keys : clock[k] = v => clock'[k] = v
    PROVE  LockInv'
<1>1. UNCHANGED <<pend, pc, batch, needK>> /\ Fixer \in Writers
  BY RechainConstants DEF tx, call
<1>2. batch[Fixer] = <<>> /\ pend[Fixer] = NoRows
  BY <1>1 DEF LockInv, CallInv, IdleInv
<1>3. ASSUME NEW v \in Writers, v # Fixer PROVE CallInv(v)'
  <2>1. needK[v] \subseteq Keys /\ batch[v] \in Seq(Events)
    BY DEF TypeOK
  <2>2. QED
    BY <1>1, <1>3, <2>1, OthersCall DEF LockInv
<1>4. CallInv(Fixer)'
  <2>1. ReadKeys(Fixer)' = {}
    BY <1>1, <1>2, EmptyBatch DEF ReadKeys
  <2>2. QED
    BY <1>1, <1>2, <2>1 DEF CallInv
<1>5. PendInv'
  <2>1. SUFFICES ASSUME NEW v \in Writers, NEW t \in Tables, pend[v][t] # {}
                 PROVE  \E k \in Keys : Parent[k] = t /\ clock'[k] = v
    BY <1>1 DEF PendInv
  <2>2. v # Fixer
    BY <1>2, <2>1 DEF NoRows
  <2>3. PICK k \in Keys : Parent[k] = t /\ clock[k] = v
    BY <2>1 DEF LockInv, PendInv
  <2>4. QED
    BY <2>2, <2>3
<1>6. QED
  BY <1>3, <1>4, <1>5 DEF LockInv

\* The repair opens a table, or closes it.
LEMMA ParentsKept ==
    ASSUME TypeOK, LockInv, IdleInv, ParentInv, \A j \in Jobs : OnTable(j),
           pc[Fixer] = "idle", UNCHANGED <<tx, call, run>>, ParentLocks', OpenKept(Fixer)
    PROVE  ParentInv'
<1>1. UNCHANGED <<pend, batch, needK>> /\ Fixer \in Writers /\ Fixer \notin Jobs
  BY RechainConstants DEF tx, call
<1>2. batch[Fixer] = <<>> /\ pend[Fixer] = NoRows
  BY <1>1 DEF LockInv, CallInv, IdleInv
<1>4. ASSUME NEW v \in Writers PROVE WriterHolds(v)'
  <2>1. ReadKeys(v)' = ReadKeys(v)
    BY <1>1 DEF ReadKeys
  <2>2. CASE v = Fixer
    <3>1. ReadKeys(v)' = {}
      BY <1>2, <2>1, <2>2, EmptyBatch DEF ReadKeys
    <3>2. QED
      BY <1>1, <1>2, <2>2, <3>1 DEF WriterHolds, NoRows
  <2>3. CASE v # Fixer
    BY <1>1, <2>1, <2>3, HoldsUndisturbed DEF ParentInv
  <2>4. QED
    BY <2>2, <2>3
<1>5. ASSUME NEW j \in Jobs PROVE JobHolds(j)'
  BY <1>1, JobUndisturbed DEF ParentInv
<1>6. QED
  BY <1>4, <1>5 DEF ParentInv

\* The repair takes or frees its locks, and no row changes.
LEMMA LocksMove ==
    ASSUME RecordInv, SerialInv, pc[Fixer] = "idle", UNCHANGED <<table, nextseq, tx, call, run>>,
           ParentLocks', OpenKept(Fixer),
           \A v \in Writers \ {Fixer}, k \in Keys : clock[k] = v => clock'[k] = v
    PROVE  SerialInv'
<1>1. /\ TypeOK /\ \A j \in Jobs : OnTable(j)
      /\ LockInv /\ SeqInv /\ ParentInv /\ CountInv /\ IdleInv
      /\ UNCHANGED <<table, nextseq, pend, pc>>
  BY DEF RecordInv, TypeInv, SerialInv, tx, call
<1>2. LockInv'
  BY <1>1, CallsKept
<1>3. ParentInv'
  BY <1>1, ParentsKept
<1>4. SeqInv' /\ CountInv' /\ IdleInv'
  BY <1>1 DEF SeqInv, CountInv, SeqSet, Visible, IdleInv
<1>5. QED
  BY <1>2, <1>3, <1>4 DEF SerialInv

\* A repair that ends frees its locks and nobody else's.
LEMMA FixEndsLocks ==
    ASSUME TypeOK, ParentInv, FixEnds, UNCHANGED xlock
    PROVE  /\ ParentLocks' /\ OpenKept(Fixer)
           /\ \A v \in Writers \ {Fixer}, k \in Keys : clock[k] = v => clock'[k] = v
<1>1. slock \in [Tables -> SUBSET Writers] /\ clock \in [Keys -> Owners] /\ ParentLocks
  BY DEF TypeOK, ParentInv
<1>2. \A t \in Tables : slock'[t] = slock[t] \ {Fixer}
  BY DEF FixEnds
<1>3. QED
  BY <1>1, <1>2 DEF FixEnds, ParentLocks, OpenKept

\* The steps of the repair up to its commit, and its failure.
LEMMA SerialRepair ==
    ASSUME RechainInv, SerialInv, FixHolds, RepairNext, ~CommitRepair, ~MarkRepair
    PROVE  SerialInv'
<1>1. /\ RecordInv /\ TypeOK /\ LockInv /\ ParentInv /\ fix.t \in Tables
      /\ xlock \in [Tables -> Owners] /\ slock \in [Tables -> SUBSET Writers]
      /\ clock \in [Keys -> Owners] /\ Fixer \in Writers /\ NoOwner \notin Writers
  BY RechainConstants, WriterConstants
     DEF RechainInv, RecordInv, TypeInv, TypeOK, SerialInv, FixInv
<1>2. ASSUME FixLeaves, UNCHANGED table, pc[Fixer] = "idle", ParentLocks', OpenKept(Fixer),
             \A v \in Writers \ {Fixer}, k \in Keys : clock[k] = v => clock'[k] = v
      PROVE  SerialInv'
  <2>1. UNCHANGED <<table, nextseq, tx, call, run>>
    BY <1>2 DEF FixLeaves, rvars
  <2>2. QED
    BY <1>1, <1>2, <2>1, LocksMove
<1>3. ASSUME UNCHANGED <<clock, slock, xlock>>
      PROVE  /\ ParentLocks' /\ OpenKept(Fixer)
             /\ \A v \in Writers \ {Fixer}, k \in Keys : clock[k] = v => clock'[k] = v
  BY <1>1, <1>3 DEF ParentInv, ParentLocks, OpenKept
<1>4. ASSUME NEW t \in Tables, BeginRepair(t) PROVE SerialInv'
  <2>1. FixLeaves /\ UNCHANGED <<table, clock, slock, xlock>> /\ pc[Fixer] = "idle"
    BY <1>4 DEF BeginRepair, FixLeaves
  <2>2. QED
    BY <1>2, <1>3, <2>1
<1>5. ASSUME VerifyBefore PROVE SerialInv'
  <2>1. /\ FixLeaves /\ UNCHANGED <<table, clock, xlock>> /\ pc[Fixer] = "idle"
        /\ xlock[fix.t] = NoOwner
        /\ UNCHANGED slock \/ slock' = [slock EXCEPT ![fix.t] = @ \cup {Fixer}]
    BY <1>5 DEF VerifyBefore, FixLeaves, FixHolds
  <2>2. UNCHANGED <<xlock, slock>> \/ OneParent(Fixer, fix.t)
    BY <2>1 DEF OneParent
  <2>3. ParentLocks' /\ OpenKept(Fixer)
    BY <1>1, <2>2, ParentsStep DEF ParentsMove, ParentInv
  <2>4. QED
    BY <1>2, <2>1, <2>3
<1>6. ASSUME LockForRepair PROVE SerialInv'
  <2>1. /\ FixLeaves /\ UNCHANGED <<table, slock, xlock>> /\ pc[Fixer] = "idle"
        /\ clock[ChainKey(fix.t)] = NoOwner
        /\ clock' = [clock EXCEPT ![ChainKey(fix.t)] = Fixer]
    BY <1>6 DEF LockForRepair, FixLeaves, FixHolds
  <2>2. \A v \in Writers \ {Fixer}, k \in Keys : clock[k] = v => clock'[k] = v
    BY <1>1, <2>1
  <2>3. ParentLocks' /\ OpenKept(Fixer)
    BY <1>1, <2>1 DEF ParentInv, ParentLocks, OpenKept
  <2>4. QED
    BY <1>2, <2>1, <2>2, <2>3
<1>7. ASSUME Relink \/ VerifyAfter PROVE SerialInv'
  <2>1. FixLeaves /\ UNCHANGED <<table, clock, slock, xlock>> /\ pc[Fixer] = "idle"
    BY <1>7 DEF Relink, VerifyAfter, FixLeaves, FixHolds
  <2>2. QED
    BY <1>2, <1>3, <2>1
<1>8. ASSUME RepairEnds PROVE SerialInv'
  <2>1. FixLeaves /\ FixEnds /\ UNCHANGED <<table, xlock>> /\ pc[Fixer] = "idle"
    BY <1>8 DEF RepairEnds, FixLeaves, FixHolds
  <2>2. QED
    BY <1>1, <1>2, <2>1, FixEndsLocks
<1>9. QED
  BY <1>4, <1>5, <1>6, <1>7, <1>8 DEF RepairNext

\* What depends on the rows, when the rest stays.
LEMMA RowsMove ==
    ASSUME SerialInv, UNCHANGED <<xlock, clock, slock, tx, call, run>>, SeqInv', CountInv'
    PROVE  SerialInv'
<1>1. UNCHANGED <<pend, pc, batch, needK>>
  BY DEF tx, call
<1>2. LockInv' /\ ParentInv' /\ IdleInv'
  BY <1>1 DEF SerialInv, LockInv, CallInv, PendInv, ReadKeys, EventsIn, ParentInv,
              ParentLocks, WriterHolds, JobHolds, IdleInv
<1>3. QED
  BY <1>2 DEF SerialInv

\* A forked row has a seq of its own, and nobody holds the chain.
LEMMA SerialFork ==
    ASSUME NoAliasing, RecordInv, SerialInv, NEW e \in Events, Fork(e)
    PROVE  SerialInv'
<1>0. /\ TypeOK /\ LockInv /\ SeqInv /\ CountInv /\ e \in Contents /\ NoOwner \notin Writers
      /\ table \in [Tables -> SUBSET Rows(Contents)] /\ nextseq \in [Tables -> Nat]
      /\ KeyOf[e] \in Keys
  BY WriterConstants DEF RecordInv, TypeInv, TypeOK, SerialInv, Contents
<1>1. PICK t : t = TableOf(e)
  OBVIOUS
<1>2. /\ clock[KeyOf[e]] = NoOwner /\ nextseq' = [nextseq EXCEPT ![t] = @ + 1]
      /\ UNCHANGED <<xlock, clock, slock, tx, call, run, pend>>
      /\ \E q \in table[t] : table' = [table EXCEPT ![t] = @ \cup {RowOf(nextseq[t], e, q.prev)}]
  BY <1>1 DEF Fork, locks, rvars, tx
<1>3. t \in Tables /\ Parent[KeyOf[e]] = t
  BY <1>0, <1>1, WriterConstants DEF TableOf
<1>4. PICK q \in table[t] : table' = [table EXCEPT ![t] = @ \cup {RowOf(nextseq[t], e, q.prev)}]
  BY <1>2
<1>5. PICK row : row = RowOf(nextseq[t], e, q.prev)
  OBVIOUS
<1>6. /\ row.seq = nextseq[t] /\ nextseq[t] \in Nat
      /\ \A u \in Tables : table'[u] = IF u = t THEN table[u] \cup {row} ELSE table[u]
      /\ \A u \in Tables : nextseq'[u] = IF u = t THEN nextseq[u] + 1 ELSE nextseq[u]
  BY <1>0, <1>2, <1>3, <1>4, <1>5 DEF RowOf
<1>7. ASSUME NEW w \in Writers, pend[w][t] # {} PROVE FALSE
  <2>1. PICK k \in Keys : Parent[k] = t /\ clock[k] = w
    BY <1>3, <1>7, <1>0 DEF LockInv, PendInv
  <2>2. k = KeyOf[e]
    BY <1>0, <1>3, <2>1 DEF NoAliasing
  <2>3. QED
    BY <1>0, <1>2, <2>1, <2>2
<1>8. \A w \in Writers, u \in Tables : \A r \in Visible(w, u) : r.seq \in Nat /\ r.seq < nextseq[u]
  BY <1>0 DEF Visible, SeqInv, TypeOK, Rows
<1>9. SeqInv'
  <2>1. ASSUME NEW u \in Tables, u # t
        PROVE  /\ \A r \in table'[u] : r.seq < nextseq'[u]
               /\ \A w \in Writers : \A r \in pend'[w][u] :
                     r.seq < nextseq'[u] /\ \A p \in table'[u] : p.seq < r.seq
    BY <1>0, <1>2, <1>6, <2>1 DEF SeqInv
  <2>2. \A r \in table'[t] : r.seq < nextseq'[t]
    <3>1. \A r \in table[t] : r.seq \in Nat /\ r.seq < nextseq[t]
      BY <1>0, <1>3 DEF SeqInv, Rows
    <3>2. nextseq'[t] = nextseq[t] + 1 /\ table'[t] = table[t] \cup {row}
      BY <1>3, <1>6
    <3>3. \A r \in table[t] : r.seq < nextseq[t] + 1
      BY <1>6, <3>1
    <3>4. row.seq < nextseq[t] + 1
      BY <1>6
    <3>5. QED
      BY <3>2, <3>3, <3>4
  <2>3. \A w \in Writers : pend'[w][t] = {}
    BY <1>2, <1>7
  <2>4. QED
    BY <2>1, <2>2, <2>3 DEF SeqInv
<1>10. CountInv'
  <2>1. ASSUME NEW w \in Writers, NEW u \in Tables PROVE SeqSet(Visible(w, u)')
    <3>1. CASE u # t
      <4>1. Visible(w, u)' = Visible(w, u)
        BY <1>2, <1>6, <3>1 DEF Visible
      <4>2. QED
        BY <1>0, <4>1 DEF CountInv
    <3>2. CASE u = t
      <4>1. Visible(w, u)' = Visible(w, u) \cup {row}
        BY <1>2, <1>6, <3>2 DEF Visible
      <4>2. \A r \in Visible(w, u) : r.seq # row.seq
        <5>1. \A r \in Visible(w, t) : r.seq \in Nat /\ r.seq < nextseq[t]
          BY <1>3, <1>8
        <5>2. QED
          BY <1>6, <3>2, <5>1
      <4>3. QED
        BY <1>0, <4>1, <4>2, SeqAdd DEF CountInv
    <3>3. QED
      BY <3>1, <3>2
  <2>2. QED
    BY <2>1 DEF CountInv, SeqSet
<1>11. QED
  BY <1>2, <1>9, <1>10, RowsMove

\* An altered row keeps its place.
LEMMA SerialTamper ==
    ASSUME RecordInv, SerialInv, NEW t \in Tables, NEW q \in table[t], Tamper(t, q)
    PROVE  /\ SerialInv'
           /\ \A u \in Tables : LinksOf(table'[u]) = LinksOf(table[u])
<1>0. /\ TypeOK /\ SeqInv /\ CountInv
      /\ table \in [Tables -> SUBSET Rows(Contents)]
  BY DEF RecordInv, TypeInv, TypeOK, SerialInv
<1>1. PICK row : row = [q EXCEPT !.ev = Forged[q.ev]]
  OBVIOUS
<1>2. /\ table' = [table EXCEPT ![t] = (@ \ {q}) \cup {row}]
      /\ UNCHANGED <<nextseq, xlock, clock, slock, tx, call, run, pend>>
  BY <1>1 DEF Tamper, locks, rvars, tx
<1>3. row.seq = q.seq /\ row.prev = q.prev /\ row.hash = q.hash
  BY <1>0, <1>1 DEF Rows
<1>4. \A u \in Tables : table'[u] = IF u = t THEN (table[u] \ {q}) \cup {row} ELSE table[u]
  BY <1>0, <1>2
<1>5. SeqInv'
  <2>1. \A u \in Tables : \A r \in table'[u] : \E p \in table[u] : p.seq = r.seq
    BY <1>3, <1>4
  <2>2. QED
    BY <1>0, <1>2, <2>1 DEF SeqInv
<1>6. CountInv'
  <2>1. ASSUME NEW w \in Writers, NEW u \in Tables PROVE SeqSet(Visible(w, u)')
    <3>1. CASE u # t
      <4>1. Visible(w, u)' = Visible(w, u)
        BY <1>2, <1>4, <3>1 DEF Visible
      <4>2. QED
        BY <1>0, <4>1 DEF CountInv
    <3>2. CASE u = t
      <4>1. q \notin pend[w][t]
        <5>1. q \in Rows(Contents)
          BY <1>0
        <5>2. q.seq \in Nat
          BY <5>1 DEF Rows
        <5>3. \A r \in pend[w][t] : q.seq < r.seq
          BY <1>0 DEF SeqInv
        <5>4. QED
          BY <5>2, <5>3
      <4>2. Visible(w, u)' = (Visible(w, u) \ {q}) \cup {row}
        BY <1>2, <1>4, <3>2, <4>1 DEF Visible
      <4>3. SeqSet(Visible(w, u)) /\ q \in Visible(w, u)
        BY <1>0, <3>2 DEF CountInv, Visible
      <4>4. SeqSet(Visible(w, u) \ {q})
        BY <4>3, SeqSubset
      <4>5. \A r \in Visible(w, u) \ {q} : r.seq # row.seq
        BY <1>3, <4>3 DEF SeqSet
      <4>6. QED
        BY <4>2, <4>4, <4>5, SeqAdd
    <3>3. QED
      BY <3>1, <3>2
  <2>2. QED
    BY <2>1 DEF CountInv, SeqSet
<1>7. ASSUME NEW u \in Tables PROVE LinksOf(table'[u]) = LinksOf(table[u])
  <2>1. CASE u # t
    BY <1>4, <2>1
  <2>2. CASE u = t
    <3>1. LinksOf(table'[t]) = LinksOf(table[t] \ {q}) \cup {<<row.seq, row.prev, row.hash>>}
      BY <1>4, <2>2 DEF LinksOf
    <3>2. LinksOf(table[t]) = LinksOf(table[t] \ {q}) \cup {<<q.seq, q.prev, q.hash>>}
      BY DEF LinksOf
    <3>3. QED
      BY <1>3, <2>2, <3>1, <3>2
  <2>3. QED
    BY <2>1, <2>2
<1>8. QED
  BY <1>2, <1>5, <1>6, <1>7, RowsMove

-----------------------------------------------------------------------------
(* The repair's own part.                                                  *)

\* Under the repair's chain lock nobody has uncommitted rows in the table.
LEMMA NobodyWrites ==
    ASSUME RechainInv, SerialInv, FixHolds, fix.at \in {"relink", "verify_after", "commit"},
           NEW w \in Writers
    PROVE  pend[w][fix.t] = {}
<1>1. fix.t \in Tables /\ pc[Fixer] = "idle" /\ Fixer \in Writers
  BY RechainConstants DEF RechainInv, FixInv, FixHolds
<1>2. pend[Fixer][fix.t] = {}
  BY <1>1 DEF SerialInv, IdleInv, NoRows
<1>3. ASSUME pend[w][fix.t] # {} PROVE w = Fixer
  <2>1. PICK k \in Keys : Parent[k] = fix.t /\ clock[k] = w
    BY <1>1, <1>3 DEF SerialInv, LockInv, PendInv
  <2>2. QED
    BY <2>1 DEF FixHolds
<1>4. QED
  BY <1>2, <1>3

\* The links and the anchor of a table that a repair has locked stay.
LEMMA LinksStay ==
    ASSUME FixLinks, UNCHANGED fix,
           fix.at \in {"verify_after", "commit"} =>
              LinksOf(table'[fix.t]) = LinksOf(table[fix.t]) /\ anchor'[fix.t] = anchor[fix.t]
    PROVE  FixLinks'
BY DEF FixLinks

\* A writer takes no lock from the repair, and adds no row behind it.
LEMMA FixWriter ==
    ASSUME RechainInv, SerialInv, FixHolds, FixLinks, NEW w \in WriterJobs, WriterNext(w),
           w = Fixer => fix.at = "idle", UNCHANGED fix
    PROVE  FixHolds' /\ FixLinks'
<1>0. /\ TypeOK /\ ParentInv /\ w \in Writers /\ Fixer \in Writers /\ fix.t \in Tables
      /\ slock \in [Tables -> SUBSET Writers]
  BY RechainConstants DEF RechainInv, RecordInv, TypeInv, TypeOK, SerialInv, FixInv, WriterJobs
<1>1. CASE fix.at = "idle"
  BY <1>1 DEF FixHolds, FixLinks
<1>2. CASE fix.at # "idle"
  <2>1. w # Fixer /\ Fixer \in Writers \ {w}
    BY <1>0, <1>2
  <2>2. pc'[Fixer] = "idle"
    BY <1>0, <1>2, <2>1, OthersKept DEF FixHolds
  <2>3. OpenKept(w)
    BY <1>0, WriterParents, ParentsStep DEF ParentInv
  <2>4. Fixer \in slock[fix.t] => Fixer \in slock'[fix.t]
    BY <1>0, <2>1, <2>3 DEF OpenKept
  <2>5. \A k \in Keys : clock[k] = Fixer => clock'[k] = Fixer
    BY <1>0, <2>1, ChainLocksKept
  <2>6. FixHolds'
    BY <2>2, <2>4, <2>5 DEF FixHolds
  <2>7. ASSUME fix.at \in {"verify_after", "commit"} PROVE table'[fix.t] = table[fix.t]
    <3>1. pend[w][fix.t] = {}
      BY <1>0, <2>7, NobodyWrites
    <3>2. table'[fix.t] \subseteq table[fix.t] \cup pend[w][fix.t]
      BY <1>0, WriterRows
    <3>3. table[fix.t] \subseteq table'[fix.t]
      BY <1>0, WriterAppends
    <3>4. QED
      BY <3>1, <3>2, <3>3
  <2>8. UNCHANGED anchor
    BY WriterMoves, StepKinds DEF InsertRow, Commit, Abort, EndTransaction
  <2>9. FixLinks'
    BY <2>7, <2>8, LinksStay
  <2>10. QED
    BY <2>6, <2>9
<1>3. QED
  BY <1>1, <1>2

\* No run drops from a table that the repair has open.
LEMMA FixRun ==
    ASSUME RechainInv, SerialInv, FixHolds, FixLinks, NEW j \in Jobs, RunNext(j), UNCHANGED fix
    PROVE  FixHolds' /\ FixLinks'
<1>0. /\ TypeOK /\ ParentInv /\ OnTable(j) /\ Fixer \in Writers \ {j} /\ j \in Writers
      /\ fix.t \in Tables
  BY RechainConstants, RetentionConstants
     DEF RechainInv, RecordInv, TypeInv, SerialInv, FixInv
<1>1. UNCHANGED <<pc, clock>>
  BY RunMoves DEF call
<1>2. OpenKept(j)
  BY <1>0, RunParents, ParentsStep DEF ParentInv
<1>3. Fixer \in slock[fix.t] => Fixer \in slock'[fix.t]
  BY <1>0, <1>2 DEF OpenKept
<1>4. FixHolds'
  BY <1>1, <1>3 DEF FixHolds
<1>5. ASSUME fix.at \in {"verify_after", "commit"}
      PROVE  table'[fix.t] = table[fix.t] /\ anchor'[fix.t] = anchor[fix.t]
  <2>1. CASE CommitRun(j)
    <3>1. PICK t : t = run[j].t
      OBVIOUS
    <3>2. t \in Tables /\ run[j].at = "commit"
      BY <1>0, <2>1, <3>1 DEF CommitRun, OnTable
    <3>3. slock[t] \subseteq {j}
      BY <1>0, <3>1, <3>2, AloneFacts
    <3>4. fix.t # t
      BY <1>0, <1>5, <3>3 DEF FixHolds
    <3>5. /\ table' = [table EXCEPT ![t] = @ \ RowsIn(t, run[j].drop)]
          /\ \E a : anchor' = [anchor EXCEPT ![t] = a]
      BY <2>1, <3>1 DEF CommitRun
    <3>6. table \in [Tables -> SUBSET Rows(Contents)] /\ anchor \in [Tables -> Digests]
      BY <1>0 DEF TypeOK
    <3>7. QED
      BY <1>0, <3>4, <3>5, <3>6
  <2>2. QED
    BY <2>1, RunMoves
<1>6. FixLinks'
  BY <1>5, LinksStay
<1>7. QED
  BY <1>4, <1>6

\* The commit of a repair changes the links of one table, in which nobody else
\* has a row to commit.
LEMMA SerialCommitRepair ==
    ASSUME RechainInv, SerialInv, FixHolds, CommitRepair
    PROVE  SerialInv'
<1>0. /\ RecordInv /\ TypeOK /\ \A j \in Jobs : OnTable(j)
      /\ LockInv /\ SeqInv /\ ParentInv /\ CountInv /\ IdleInv
      /\ table \in [Tables -> SUBSET Rows(Contents)] /\ Fixer \in Writers
      /\ fix.t \in Tables /\ fix.new \in SUBSET Rows(Contents) /\ \A n \in fix.new : Sealed(n)
      /\ \A t \in Tables : \A r \in table[t] : Sealed(r)
  BY RechainConstants
     DEF RechainInv, RecordInv, TypeInv, TypeOK, SerialInv, FixInv, SealInv
<1>1. PICK t : t = fix.t
  OBVIOUS
<1>2. /\ fix.at = "commit" /\ table' = [table EXCEPT ![t] = Updated(t)] /\ FixEnds
      /\ UNCHANGED <<nextseq, xlock, tx, call, run, pend, pc>> /\ pc[Fixer] = "idle"
  BY <1>1 DEF CommitRepair, FixLeaves, FixHolds, rvars, tx, call
<1>3. \A w \in Writers : pend[w][t] = {}
  BY <1>1, <1>2, NobodyWrites
<1>4. \A u \in Tables : table'[u] = IF u = t THEN Updated(t) ELSE table[u]
  BY <1>0, <1>1, <1>2
<1>5. \A r \in table[t] : WithNewLinks(r).seq = r.seq
  BY <1>0, <1>1, NewLinks
<1>6. SeqInv'
  <2>1. ASSUME NEW u \in Tables, NEW r \in table'[u] PROVE \E p \in table[u] : p.seq = r.seq
    <3>1. CASE u # t
      BY <1>4, <2>1, <3>1
    <3>2. CASE u = t
      <4>1. r \in Updated(t)
        BY <1>4, <2>1, <3>2
      <4>2. PICK x \in table[t] : r = WithNewLinks(x)
        BY <4>1 DEF Updated
      <4>3. QED
        BY <1>5, <3>2, <4>2
    <3>3. QED
      BY <3>1, <3>2
  <2>2. SeqInv /\ nextseq' = nextseq /\ pend' = pend
    BY <1>0, <1>2
  <2>3. QED
    BY <2>1, <2>2 DEF SeqInv
<1>7. CountInv'
  <2>1. ASSUME NEW w \in Writers, NEW u \in Tables PROVE SeqSet(Visible(w, u)')
    <3>1. SeqSet(Visible(w, u))
      BY <1>0 DEF CountInv
    <3>2. CASE u # t
      <4>1. Visible(w, u)' = Visible(w, u)
        BY <1>2, <1>4, <3>2 DEF Visible
      <4>2. QED
        BY <3>1, <4>1
    <3>3. CASE u = t
      <4>1. Visible(w, u)' = Updated(t) /\ SeqSet(table[t])
        BY <1>2, <1>3, <1>4, <3>1, <3>3 DEF Visible
      <4>2. IsFiniteSet(Updated(t))
        <5>1. PICK g : g = [r \in table[t] |-> WithNewLinks(r)]
          OBVIOUS
        <5>2. \A r \in table[t] : g[r] = WithNewLinks(r)
          BY <5>1
        <5>3. Updated(t) = {g[r] : r \in table[t]}
          BY <5>2 DEF Updated
        <5>4. g \in [table[t] -> Updated(t)]
          BY <5>1, <5>2, <5>3
        <5>5. g \in Surjection(table[t], Updated(t))
          BY <5>3, <5>4 DEF Surjection
        <5>6. QED
          BY <4>1, <5>5, FS_Surjection DEF SeqSet
      <4>3. ASSUME NEW r \in Updated(t), NEW q \in Updated(t), r.seq = q.seq PROVE r = q
        <5>0. r \in Updated(t) /\ q \in Updated(t)
          BY <4>3
        <5>1. PICK x \in table[t], y \in table[t] : r = WithNewLinks(x) /\ q = WithNewLinks(y)
          <6>1. \E x \in table[t] : r = WithNewLinks(x)
            BY <5>0 DEF Updated
          <6>2. \E y \in table[t] : q = WithNewLinks(y)
            BY <5>0 DEF Updated
          <6>3. QED
            BY <6>1, <6>2
        <5>2. x.seq = y.seq
          BY <1>5, <4>3, <5>1
        <5>3. x = y
          BY <4>1, <5>2 DEF SeqSet
        <5>4. QED
          BY <5>1, <5>3
      <4>4. SeqSet(Updated(t))
        BY <4>2, <4>3 DEF SeqSet
      <4>5. QED
        BY <4>1, <4>4
    <3>4. QED
      BY <3>2, <3>3
  <2>2. QED
    BY <2>1 DEF CountInv, SeqSet
<1>8. /\ ParentLocks' /\ OpenKept(Fixer)
      /\ \A v \in Writers \ {Fixer}, k \in Keys : clock[k] = v => clock'[k] = v
  BY <1>0, <1>2, FixEndsLocks
<1>9. LockInv' /\ ParentInv'
  BY <1>0, <1>2, <1>8, CallsKept, ParentsKept
<1>10. IdleInv'
  BY <1>0, <1>2 DEF IdleInv
<1>11. QED
  BY <1>6, <1>7, <1>9, <1>10 DEF SerialInv

\* A repair opens the table with its reading, locks the chain before it relinks,
\* and computes the new links from the rows under those locks.
LEMMA FixRepair ==
    ASSUME NoAliasing, RechainInv, FixHolds, FixLinks, RepairNext
    PROVE  FixHolds' /\ FixLinks'
<1>0. /\ TypeOK /\ fix.t \in Tables /\ Fixer \in Writers
      /\ table \in [Tables -> SUBSET Rows(Contents)]
      /\ slock \in [Tables -> SUBSET Writers] /\ clock \in [Keys -> Owners]
      /\ fix \in [at : FixStates, t : Tables, anchor : Digests, new : SUBSET Rows(Contents)]
      /\ NoFix.at = "idle"
  BY RechainConstants, NoFixType DEF RechainInv, RecordInv, TypeInv, TypeOK, FixInv, NoFix
<1>1. ASSUME fix' = NoFix PROVE FixHolds' /\ FixLinks'
  BY <1>0, <1>1 DEF FixHolds, FixLinks
<1>2. ASSUME NEW t \in Tables, BeginRepair(t) PROVE FixHolds' /\ FixLinks'
  <2>1. fix'.at = "verify" /\ pc'[Fixer] = "idle"
    BY <1>2, NoFixType DEF BeginRepair, FixLeaves, call
  <2>2. QED
    BY <2>1 DEF FixHolds, FixLinks
<1>3. ASSUME VerifyBefore, fix' # NoFix PROVE FixHolds' /\ FixLinks'
  <2>1. /\ fix.at = "verify" /\ fix' = [fix EXCEPT !.at = "lock"] /\ UNCHANGED pc
        /\ slock' = [slock EXCEPT ![fix.t] = @ \cup {Fixer}]
    BY <1>3 DEF VerifyBefore, FixLeaves, call
  <2>2. fix'.at = "lock" /\ fix'.t = fix.t /\ Fixer \in slock'[fix.t] /\ pc'[Fixer] = "idle"
    BY <1>0, <2>1 DEF FixHolds
  <2>3. QED
    BY <2>2 DEF FixHolds, FixLinks
<1>4. ASSUME LockForRepair PROVE FixHolds' /\ FixLinks'
  <2>1. /\ fix.at = "lock" /\ fix' = [fix EXCEPT !.at = "relink"] /\ UNCHANGED <<pc, slock>>
        /\ clock' = [clock EXCEPT ![ChainKey(fix.t)] = Fixer]
    BY <1>4 DEF LockForRepair, FixLeaves, call
  <2>2. fix'.at = "relink" /\ fix'.t = fix.t /\ Fixer \in slock'[fix.t] /\ pc'[Fixer] = "idle"
    BY <1>0, <2>1 DEF FixHolds
  <2>3. ASSUME NEW k \in Keys, Parent[k] = fix.t PROVE clock'[k] = Fixer
    <3>1. ChainKey(fix.t) \in Keys /\ Parent[ChainKey(fix.t)] = fix.t
      BY <2>3 DEF ChainKey
    <3>2. ChainKey(fix.t) = k
      BY <2>3, <3>1 DEF NoAliasing
    <3>3. QED
      BY <1>0, <2>1, <2>3, <3>2
  <2>4. QED
    BY <2>2, <2>3 DEF FixHolds, FixLinks
<1>5. ASSUME Relink PROVE FixHolds' /\ FixLinks'
  <2>1. PICK S : S = table[fix.t]
    OBVIOUS
  <2>2. /\ fix.at = "relink" /\ SelfConsistent(S)
        /\ fix' = [fix EXCEPT !.at = "verify_after", !.new = Relinked(S, anchor[fix.t])]
        /\ UNCHANGED <<table, anchor, clock, slock, pc>>
    BY <1>5, <2>1 DEF Relink, CatalogAnchor, FixLeaves, call
  <2>3. /\ fix'.at = "verify_after" /\ fix'.t = fix.t
        /\ fix'.new = Relinked(S, anchor[fix.t])
    BY <1>0, <2>2
  <2>4. FixHolds'
    BY <2>2, <2>3 DEF FixHolds
  <2>5. S \in SUBSET Rows(Contents) /\ LinksOf(S) = LinksOf(table'[fix'.t])
    BY <1>0, <2>1, <2>2, <2>3
  <2>6. FixLinks'
    BY <2>2, <2>3, <2>5 DEF FixLinks
  <2>7. QED
    BY <2>4, <2>6
<1>6. ASSUME VerifyAfter PROVE FixHolds' /\ FixLinks'
  <2>1. /\ fix.at = "verify_after" /\ fix' = [fix EXCEPT !.at = "commit"]
        /\ UNCHANGED <<table, anchor, clock, slock, pc>>
    BY <1>6 DEF VerifyAfter, FixLeaves, call
  <2>2. fix'.at = "commit" /\ fix'.t = fix.t /\ fix'.new = fix.new
    BY <1>0, <2>1
  <2>3. QED
    BY <2>1, <2>2 DEF FixHolds, FixLinks
<1>7. ASSUME CommitRepair PROVE FixHolds' /\ FixLinks'
  <2>1. fix'.at \in {"idle", "mark"} /\ pc'[Fixer] = "idle"
    BY <1>0, <1>7 DEF CommitRepair, FixLeaves, FixHolds, call, NoFix
  <2>2. QED
    BY <2>1 DEF FixHolds, FixLinks
<1>8. ASSUME RepairEnds \/ MarkRepair PROVE fix' = NoFix
  BY <1>8 DEF RepairEnds, MarkRepair
<1>9. QED
  BY <1>1, <1>2, <1>3, <1>4, <1>5, <1>6, <1>7, <1>8 DEF RepairNext

-----------------------------------------------------------------------------
LEMMA RepairInvInit == RechainInit => RepairInv
<1> SUFFICES ASSUME RechainInit PROVE RepairInv
  OBVIOUS
<1>1. RechainInv
  BY RechainInvInit
<1>2. Init /\ run = [j \in Jobs |-> NoRun] /\ fix.at = "idle"
  BY DEF RechainInit, RetentionInit, NoFix
<1>3. /\ table = NoRows /\ pend = [w \in Writers |-> NoRows]
      /\ xlock = [t \in Tables |-> NoOwner] /\ batch = [w \in Writers |-> <<>>]
  BY <1>2 DEF Init
<1>4. \A j \in Jobs : run[j].at = "idle" /\ j \in Writers
  BY <1>2, NoRunType, RetentionConstants
<1>5. \A w \in Writers : pend[w] = NoRows /\ ReadKeys(w) = {}
  BY <1>3, EmptyBatch DEF ReadKeys
<1>6. \A w \in Writers, t \in Tables : pend[w][t] = {} /\ Visible(w, t) = {}
  BY <1>3 DEF Visible, NoRows
<1>7. LockInv /\ SeqInv
  BY <1>2, LockInit, SeqInit
<1>8. ParentInv
  BY <1>3, <1>4, <1>5, <1>6 DEF ParentInv, ParentLocks, WriterHolds, JobHolds, ChosenStates
<1>9. SeqSet({})
  BY FS_EmptySet DEF SeqSet
<1>10. CountInv
  BY <1>6, <1>9 DEF CountInv
<1>11. SerialInv
  BY <1>5, <1>7, <1>8, <1>10 DEF SerialInv, IdleInv
<1>12. FixHolds /\ FixLinks
  BY <1>2 DEF FixHolds, FixLinks
<1>13. QED
  BY <1>1, <1>11, <1>12 DEF RepairInv

\* The months turn, or nothing happens.
LEMMA RepairStands ==
    ASSUME SerialInv, FixHolds, FixLinks, UNCHANGED <<vars, run, fix>>
    PROVE  SerialInv' /\ FixHolds' /\ FixLinks'
<1>1. UNCHANGED <<table, nextseq, anchor, xlock, clock, slock, tx, call, run, pend, pc>>
  BY DEF vars, db, locks, tx, call
<1>2. SeqInv' /\ CountInv'
  BY <1>1 DEF SerialInv, SeqInv, CountInv, SeqSet, Visible
<1>3. SerialInv'
  BY <1>1, <1>2, RowsMove
<1>4. FixHolds'
  BY <1>1 DEF FixHolds
<1>5. FixLinks'
  BY <1>1, LinksStay
<1>6. QED
  BY <1>3, <1>4, <1>5

\* The marker is appended like any batch.
LEMMA SerialMark ==
    ASSUME NoAliasing, RechainInv, SerialInv, MarkRepair
    PROVE  SerialInv'
<1>1. PICK e : e = Marker[fix.t]
  OBVIOUS
<1>2. e \in Events
  BY <1>1, RechainConstants DEF RechainInv, FixInv
<1>3. <<e>> \in Batches
  <2>1. <<e>> \in [1..1 -> Events] /\ 1 \in 1..MaxBatch
    BY <1>2, RechainConstants, WriterConstants
  <2>2. QED
    BY <2>1 DEF Batches
<1>4. Fixer \in WriterJobs /\ RetCall(Fixer, <<e>>)
  BY <1>1, RechainConstants DEF MarkRepair, WriterJobs
<1>5. WriterNext(Fixer)
  BY <1>3, <1>4 DEF WriterNext
<1>6. QED
  BY <1>4, <1>5, SerialWriter DEF RechainInv

LEMMA RepairInvStep ==
    ASSUME NoAliasing, RepairInv, [RechainNext]_everything
    PROVE  RepairInv'
<1>0. RechainInv /\ RecordInv /\ SerialInv /\ FixHolds /\ FixLinks
  BY DEF RepairInv, RechainInv
<1>1. RechainInv'
  BY <1>0, RechainInvStep
<1> SUFFICES SerialInv' /\ FixHolds' /\ FixLinks'
  BY <1>1 DEF RepairInv
<1>2. ASSUME NEW w \in WriterJobs, WriterNext(w), w = Fixer => fix.at = "idle", UNCHANGED fvars
      PROVE  SerialInv' /\ FixHolds' /\ FixLinks'
  <2>1. UNCHANGED fix
    BY <1>2 DEF fvars
  <2>2. QED
    BY <1>0, <1>2, <2>1, SerialWriter, FixWriter
<1>3. ASSUME NEW w \in Others, NEW b \in Batches, RetCall(w, b), UNCHANGED fvars
      PROVE  SerialInv' /\ FixHolds' /\ FixLinks'
  <2>1. w \in WriterJobs /\ w # Fixer /\ WriterNext(w)
    BY <1>3 DEF Others, WriterNext
  <2>2. QED
    BY <1>2, <1>3, <2>1
<1>4. ASSUME NEW w \in WriterJobs, CallNext(w), UNCHANGED fvars
      PROVE  SerialInv' /\ FixHolds' /\ FixLinks'
  <2>1. WriterNext(w)
    BY <1>4 DEF WriterNext
  <2>2. pc[w] # "idle"
    BY <1>4 DEF CallNext, RetInsert, LockPartition, FindPartition, CreatePartition, LockChain,
                SeedHead, InsertRow, Commit, Abort
  <2>3. w = Fixer => fix.at = "idle"
    BY <1>0, <2>2 DEF FixHolds
  <2>4. QED
    BY <1>2, <1>4, <2>1, <2>3
<1>5. ASSUME NEW j \in Jobs, RunNext(j), UNCHANGED fvars
      PROVE  SerialInv' /\ FixHolds' /\ FixLinks'
  <2>1. UNCHANGED fix
    BY <1>5 DEF fvars
  <2>2. QED
    BY <1>0, <1>5, <2>1, SerialRun, FixRun
<1>6. ASSUME RepairNext PROVE SerialInv' /\ FixHolds' /\ FixLinks'
  BY <1>0, <1>6, SerialRepair, SerialCommitRepair, SerialMark, FixRepair
<1>7. ASSUME NEW e \in Events, Fork(e) PROVE SerialInv' /\ FixHolds' /\ FixLinks'
  <2>1. fix.at = "idle" /\ UNCHANGED <<fix, pc>>
    BY <1>7 DEF Fork, call
  <2>2. FixHolds' /\ FixLinks'
    BY <2>1 DEF FixHolds, FixLinks
  <2>3. QED
    BY <1>0, <1>7, <2>2, SerialFork
<1>8. ASSUME NEW t \in Tables, NEW r \in table[t], Tamper(t, r)
      PROVE  SerialInv' /\ FixHolds' /\ FixLinks'
  <2>1. UNCHANGED <<fix, pc, slock, clock, anchor>>
    BY <1>8 DEF Tamper, call, locks
  <2>2. SerialInv' /\ \A u \in Tables : LinksOf(table'[u]) = LinksOf(table[u])
    BY <1>0, <1>8, SerialTamper
  <2>3. FixHolds'
    BY <1>0, <2>1 DEF FixHolds
  <2>4. fix.t \in Tables
    BY <1>0 DEF RechainInv, FixInv
  <2>5. FixLinks'
    BY <1>0, <2>1, <2>2, <2>4, LinksStay
  <2>6. QED
    BY <2>2, <2>3, <2>5
<1>9. ASSUME NextMonth, UNCHANGED fvars PROVE SerialInv' /\ FixHolds' /\ FixLinks'
  <2>1. UNCHANGED <<vars, run, fix>>
    BY <1>9 DEF NextMonth, fvars
  <2>2. QED
    BY <1>0, <2>1, RepairStands
<1>10. ASSUME UNCHANGED everything PROVE SerialInv' /\ FixHolds' /\ FixLinks'
  <2>1. UNCHANGED <<vars, run, fix>>
    BY <1>10 DEF everything, allVars, rvars, fvars
  <2>2. QED
    BY <1>0, <2>1, RepairStands
<1>11. QED
  BY <1>3, <1>4, <1>5, <1>6, <1>7, <1>8, <1>9, <1>10 DEF RechainNext

-----------------------------------------------------------------------------
(* RepairOnlyBroken, step by step.                                         *)

\* What one step does to the chains that verify.
LinkStep ==
    \A t \in Tables : Linked(table[t], anchor[t]) =>
        \A r \in table[t], q \in table'[t] :
            r.seq = q.seq => r.prev = q.prev /\ r.hash = q.hash

\* A chain has one row of each seq.
LEMMA OneRow ==
    ASSUME SerialInv, NEW t \in Tables
    PROVE  \A r, q \in table[t] : r.seq = q.seq => r = q
<1>1. Fixer \in Writers
  BY RechainConstants
<1>2. SeqSet(Visible(Fixer, t)) /\ table[t] \subseteq Visible(Fixer, t)
  BY <1>1 DEF SerialInv, CountInv, Visible
<1>3. QED
  BY <1>2 DEF SeqSet

\* Rows that go, and rows that come with a seq of their own, relink nothing.
LEMMA FreshRows ==
    ASSUME SerialInv,
           \A t \in Tables : \A q \in table'[t] :
              q \in table[t] \/ \A r \in table[t] : r.seq # q.seq
    PROVE  LinkStep
BY OneRow DEF LinkStep

LEMMA LinkWriter ==
    ASSUME RechainInv, SerialInv, NEW w \in WriterJobs, WriterNext(w)
    PROVE  LinkStep
<1>0. TypeOK /\ SeqInv /\ w \in Writers /\ table \in [Tables -> SUBSET Rows(Contents)]
  BY DEF RechainInv, RecordInv, TypeInv, TypeOK, SerialInv, WriterJobs
<1>1. ASSUME NEW t \in Tables, NEW q \in table'[t], q \notin table[t], NEW r \in table[t]
      PROVE  r.seq # q.seq
  <2>1. q \in pend[w][t]
    BY <1>0, <1>1, WriterRows
  <2>2. r.seq < q.seq /\ r.seq \in Nat
    BY <1>0, <1>1, <2>1 DEF SeqInv, Rows
  <2>3. QED
    BY <2>2
<1>2. QED
  BY <1>1, FreshRows

LEMMA LinkFork ==
    ASSUME RechainInv, SerialInv, NEW e \in Events, Fork(e)
    PROVE  LinkStep
<1>0. /\ SeqInv /\ table \in [Tables -> SUBSET Rows(Contents)]
  BY DEF RechainInv, RecordInv, TypeInv, TypeOK, SerialInv
<1>1. PICK t : t = TableOf(e)
  OBVIOUS
<1>2. PICK n : n = nextseq[t]
  OBVIOUS
<1>3. PICK p \in table[t] : table' = [table EXCEPT ![t] = @ \cup {RowOf(n, e, p.prev)}]
  BY <1>1, <1>2 DEF Fork
<1>4. RowOf(n, e, p.prev).seq = n
  BY DEF RowOf
<1>5. ASSUME NEW u \in Tables, NEW q \in table'[u], q \notin table[u], NEW r \in table[u]
      PROVE  r.seq # q.seq
  <2>1. u = t /\ q.seq = n
    BY <1>0, <1>3, <1>4, <1>5
  <2>2. r.seq \in Nat /\ r.seq < n
    BY <1>0, <1>2, <1>5, <2>1 DEF SeqInv, Rows
  <2>3. QED
    BY <2>1, <2>2
<1>6. QED
  BY <1>5, FreshRows

LEMMA LinkTamper ==
    ASSUME RechainInv, SerialInv, NEW t \in Tables, NEW x \in table[t], Tamper(t, x)
    PROVE  LinkStep
<1>0. table \in [Tables -> SUBSET Rows(Contents)]
  BY DEF RechainInv, RecordInv, TypeInv, TypeOK
<1>1. PICK row : row = [x EXCEPT !.ev = Forged[x.ev]]
  OBVIOUS
<1>2. table' = [table EXCEPT ![t] = (@ \ {x}) \cup {row}]
  BY <1>1 DEF Tamper
<1>3. row.seq = x.seq /\ row.prev = x.prev /\ row.hash = x.hash
  BY <1>0, <1>1 DEF Rows
<1>4. ASSUME NEW u \in Tables, NEW r \in table[u], NEW q \in table'[u], r.seq = q.seq
      PROVE  r.prev = q.prev /\ r.hash = q.hash
  <2>1. CASE q \in table[u]
    BY <1>4, <2>1, OneRow
  <2>2. CASE q \notin table[u]
    <3>1. u = t /\ q = row
      BY <1>0, <1>2, <1>4, <2>2
    <3>2. r = x
      BY <1>3, <1>4, <3>1, OneRow
    <3>3. QED
      BY <1>3, <3>1, <3>2
  <2>3. QED
    BY <2>1, <2>2
<1>5. QED
  BY <1>4 DEF LinkStep

\* Links computed from rows that verify, over a chain that verifies with the
\* same links, are the links that are there: the UPDATE changes nothing.
LEMMA SoundUnchanged ==
    ASSUME RechainInv, SerialInv, FixLinks, fix.at = "commit",
           Linked(table[fix.t], anchor[fix.t])
    PROVE  Updated(fix.t) = table[fix.t]
<1>0. /\ fix.t \in Tables /\ table \in [Tables -> SUBSET Rows(Contents)]
      /\ nextseq \in [Tables -> Nat]
      /\ \A u \in Tables : \A r \in table[u] : r.seq < nextseq[u]
  BY DEF RechainInv, RecordInv, TypeInv, TypeOK, FixInv, SeqAhead
<1>1. PICK T : T = table[fix.t]
  OBVIOUS
<1>2. /\ T \in SUBSET Rows(Contents) /\ Linked(T, anchor[fix.t])
      /\ \A r \in T : r.seq < nextseq[fix.t]
      /\ nextseq[fix.t] \in Nat
      /\ \A r, q \in T : r.seq = q.seq => r = q
  BY <1>0, <1>1, OneRow
<1>3. PICK S \in SUBSET Rows(Contents) :
         /\ SelfConsistent(S) /\ LinksOf(S) = LinksOf(T)
         /\ fix.new = Relinked(S, anchor[fix.t])
  BY <1>1 DEF FixLinks
<1>4. ASSUME NEW A \in SUBSET Rows(Contents), NEW B \in SUBSET Rows(Contents),
             LinksOf(A) = LinksOf(B), \A r \in A : HashOK(r), \A r \in B : HashOK(r)
      PROVE  A \subseteq B
  <2>1. SUFFICES ASSUME NEW r \in A PROVE r \in B
    OBVIOUS
  <2>2. <<r.seq, r.prev, r.hash>> \in LinksOf(B)
    BY <1>4 DEF LinksOf
  <2>3. PICK q \in B : <<r.seq, r.prev, r.hash>> = <<q.seq, q.prev, q.hash>>
    BY <2>2 DEF LinksOf
  <2>4. r.seq = q.seq /\ r.prev = q.prev /\ r.hash = q.hash
    BY <2>3
  <2>5. r = q
    BY <1>4, <2>4, SameContent
  <2>6. QED
    BY <2>5
<1>5. S = T
  <2>1. (\A r \in S : HashOK(r)) /\ \A r \in T : HashOK(r)
    BY <1>2, <1>3 DEF SelfConsistent, Linked
  <2>2. QED
    BY <1>2, <1>3, <1>4, <2>1
<1>6. fix.new = T
  BY <1>2, <1>3, <1>5, RelinkedLinked
<1>7. ASSUME NEW r \in T PROVE WithNewLinks(r) = r
  <2>1. PICK n : n = CHOOSE x \in fix.new : x.seq = r.seq
    OBVIOUS
  <2>2. n = r
    BY <1>2, <1>6, <2>1
  <2>3. WithNewLinks(r) = [r EXCEPT !.prev = n.prev, !.hash = n.hash]
    BY <1>6, <2>1 DEF WithNewLinks
  <2>4. QED
    BY <1>2, <2>2, <2>3 DEF Rows
<1>8. QED
  BY <1>1, <1>7 DEF Updated

LEMMA LinkCommit ==
    ASSUME RechainInv, SerialInv, FixLinks, CommitRepair
    PROVE  LinkStep
<1>1. PICK t : t = fix.t
  OBVIOUS
<1>2. /\ t \in Tables /\ fix.at = "commit" /\ table' = [table EXCEPT ![t] = Updated(t)]
      /\ table \in [Tables -> SUBSET Rows(Contents)]
  BY <1>1 DEF CommitRepair, RechainInv, RecordInv, TypeInv, TypeOK, FixInv
<1>3. ASSUME NEW u \in Tables, Linked(table[u], anchor[u]) PROVE table'[u] = table[u]
  BY <1>1, <1>2, <1>3, SoundUnchanged
<1>4. QED
  BY <1>3, OneRow DEF LinkStep

LEMMA LinkStays ==
    ASSUME RepairInv, [RechainNext]_everything
    PROVE  LinkStep
<1>0. RechainInv /\ SerialInv /\ FixLinks /\ TypeOK
  BY DEF RepairInv, RechainInv, RecordInv, TypeInv
<1>1. ASSUME UNCHANGED table PROVE LinkStep
  BY <1>0, <1>1, FreshRows
<1>2. ASSUME NEW w \in Others, NEW b \in Batches, RetCall(w, b) PROVE LinkStep
  <2>1. w \in WriterJobs /\ WriterNext(w)
    BY <1>2 DEF Others, WriterNext
  <2>2. QED
    BY <1>0, <2>1, LinkWriter
<1>3. ASSUME NEW w \in WriterJobs, CallNext(w) PROVE LinkStep
  BY <1>0, <1>3, LinkWriter DEF WriterNext
<1>4. ASSUME NEW j \in Jobs, RunNext(j) PROVE LinkStep
  BY <1>0, <1>4, RunNoEntry, FreshRows
<1>5. ASSUME RepairNext PROVE LinkStep
  <2>1. CASE CommitRepair
    BY <1>0, <2>1, LinkCommit
  <2>2. CASE ~CommitRepair
    <3>1. ASSUME MarkRepair PROVE UNCHANGED table
      BY <3>1 DEF MarkRepair, RetCall, Call, db
    <3>2. ASSUME VerifyBefore \/ LockForRepair \/ Relink \/ VerifyAfter \/ RepairEnds
          PROVE  UNCHANGED table
      BY <3>2 DEF VerifyBefore, LockForRepair, Relink, VerifyAfter, RepairEnds
    <3>3. ASSUME NEW t \in Tables, BeginRepair(t) PROVE UNCHANGED table
      BY <3>3 DEF BeginRepair
    <3>4. QED
      BY <1>1, <1>5, <2>2, <3>1, <3>2, <3>3 DEF RepairNext
  <2>3. QED
    BY <2>1, <2>2
<1>6. ASSUME NextMonth \/ UNCHANGED everything PROVE UNCHANGED table
  BY <1>6 DEF NextMonth, everything, allVars, vars, db
<1>7. QED
  BY <1>0, <1>1, <1>2, <1>3, <1>4, <1>5, <1>6, LinkFork, LinkTamper DEF RechainNext

\* A chain that verifies is never rewritten, by a repair or by anybody else,
\* although verify_chain reads the anchor and the rows in two statements and
\* retention may move both between them: what a repair computes under the chain
\* lock, from rows that verify, are the links of the chain if it is sound
\* (rechain.repair).
THEOREM RepairOnlyBrokenHolds == NoAliasing => (RechainSpec => RepairOnlyBroken)
<1> SUFFICES ASSUME NoAliasing PROVE RechainSpec => RepairOnlyBroken
  OBVIOUS
<1>1. RepairInv /\ [RechainNext]_everything => RepairInv'
  BY RepairInvStep
<1>2. RepairInv /\ [RechainNext]_everything => [LinkStep]_everything
  BY LinkStays
<1>3. RechainSpec => [][LinkStep]_everything
  BY <1>1, <1>2, RepairInvInit, PTL DEF RechainSpec
<1>4. QED
  BY <1>3 DEF RepairOnlyBroken, LinkStep
=============================================================================
