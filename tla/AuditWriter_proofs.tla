------------------------- MODULE AuditWriter_proofs -------------------------
(***************************************************************************)
(* Proofs about AuditWriter for every number of writers, tables, days and  *)
(* events and every batch and bound.  First type correctness and the race  *)
(* for a partition; then the guarantees of the chain lock.  ChainInv is    *)
(* their inductive invariant, taken apart into LockInv (who holds what),   *)
(* SeqInv (seq order), FreshInv (what is not stored yet) and HeadInv (the  *)
(* links), each preserved by every step given the ones before it.  Last,   *)
(* what holds however often events are delivered.                          *)
(***************************************************************************)
EXTENDS AuditWriter, SequenceTheorems, FiniteOrder_proofs, TLAPS

\* The inductive strengthening of NoDuplicateTable: a partition that a call is
\* looking up or creating, and every one its transaction has created, is locked
\* by its writer, so nobody else's commit brings it into being.
PartInv ==
    /\ \A w \in Writers : pc[w] \in {"ensure", "create"} =>
          \A p \in needP[w] : FirstPart(p, needP[w]) => plock[p] = w
    /\ \A w \in Writers : \A p \in made[w] : plock[p] = w
    /\ NoDuplicateTable

-----------------------------------------------------------------------------
\* The row a writer builds is a row, and its hash recomputes.
LEMMA RowOfType ==
    ASSUME NEW C, NEW n \in Nat, NEW e \in C, NEW h \in Seq(C)
    PROVE  RowOf(n, e, h) \in Rows(C) /\ HashOK(RowOf(n, e, h))
BY DEF RowOf, Rows, RowHash, HashOK

\* The head read from a table that has a tail is a digest.
LEMMA TailHashType ==
    ASSUME NEW C, NEW S \in SUBSET Rows(C), NEW a \in Seq(C), HasTail(S)
    PROVE  TailHash(S, a) \in Seq(C)
<1>1. CASE S = {}
  BY <1>1 DEF TailHash
<1>2. CASE S # {}
  <2>1. PICK r \in S : IsTail(r, S)
    BY <1>2 DEF HasTail
  <2>2. (CHOOSE q \in S : IsTail(q, S)) \in S
    BY <2>1
  <2>3. QED
    BY <1>2, <2>2 DEF TailHash, Rows
<1>3. QED
  BY <1>1, <1>2

\* Every batch a caller may pass is a non-empty sequence of events.
LEMMA BatchType ==
    ASSUME NEW b \in Batches
    PROVE  b \in Seq(Events) /\ b # <<>>
<1>1. PICK n \in 1..MaxBatch : b \in [1..n -> Events]
  BY DEF Batches
<1>2. n \in Nat /\ n > 0
  BY <1>1, WriterConstants
<1>3. b \in Seq(Events)
  BY <1>1, <1>2
<1>4. Len(b) = n
  BY <1>1, <1>2, <1>3
<1>5. QED
  BY <1>2, <1>3, <1>4

\* A table with a tail keeps one when rows with a tail are added to it.
LEMMA TailOfUnion ==
    ASSUME NEW C, NEW S \in SUBSET Rows(C), NEW T \in SUBSET Rows(C),
           HasTail(S), HasTail(T)
    PROVE  HasTail(S \cup T)
<1>1. CASE S = {} \/ T = {}
  BY <1>1 DEF HasTail, IsTail
<1>2. CASE S # {} /\ T # {}
  <2>1. PICK r \in S : \A q \in S : q.seq <= r.seq
    BY <1>2 DEF HasTail, IsTail
  <2>2. PICK x \in T : \A q \in T : q.seq <= x.seq
    BY <1>2 DEF HasTail, IsTail
  <2>3. \A y \in S \cup T : y.seq \in Nat
    BY DEF Rows
  <2>4. CASE r.seq <= x.seq
    <3>1. \A q \in S \cup T : q.seq <= x.seq
      BY <2>1, <2>2, <2>3, <2>4
    <3>2. QED
      BY <3>1 DEF HasTail, IsTail
  <2>5. CASE x.seq <= r.seq
    <3>1. \A q \in S \cup T : q.seq <= r.seq
      BY <2>1, <2>2, <2>3, <2>5
    <3>2. QED
      BY <3>1 DEF HasTail, IsTail
  <2>6. QED
    BY <2>3, <2>4, <2>5
<1>3. QED
  BY <1>1, <1>2

\* A single row is a tail of its own.
LEMMA TailOfOne ==
    ASSUME NEW C, NEW r \in Rows(C)
    PROVE  HasTail({r})
BY DEF HasTail, IsTail, Rows

-----------------------------------------------------------------------------
\* A table always has a tail to read: rows are added one at a time or by the
\* union of two sets that have one.
TailInv ==
    \A t \in Tables : HasTail(table[t]) /\ \A w \in Writers : HasTail(pend[w][t])

TypeInv == TypeOK /\ TailInv

\* The types, and the tails that _seed_head looks for, at the start.
LEMMA TypeInit == Init => TypeInv
<1> SUFFICES ASSUME Init PROVE TypeInv
  OBVIOUS
<1>1. TypeOK
  <2>1. InitialAnchors \subseteq Digests
    BY WriterConstants DEF Digests, Contents
  <2>2. QED
    BY <2>1, WriterConstants DEF Init, TypeOK, NoRows, Partitions, Owners, Digests, NoHash
<1>2. TailInv
  BY DEF Init, TailInv, NoRows, HasTail
<1>3. QED
  BY <1>1, <1>2 DEF TypeInv

\* What EndTransaction assigns is well typed.
LEMMA EndType ==
    ASSUME TypeOK, NEW w \in Writers, EndTransaction(w)
    PROVE  /\ plock' \in [Partitions -> Owners]
           /\ clock' \in [Keys -> Owners]
           /\ xlock' \in [Tables -> Owners]
           /\ slock' \in [Tables -> SUBSET Writers]
           /\ pend' \in [Writers -> [Tables -> SUBSET Rows(Contents)]]
           /\ made' \in [Writers -> SUBSET Partitions]
           /\ calls' \in [Writers -> Nat]
           /\ pc' \in [Writers -> {"idle", "locking", "ensure", "create", "seed", "rows", "open"}]
           /\ batch' \in [Writers -> Seq(Events)]
           /\ needP' \in [Writers -> SUBSET Partitions]
           /\ needK' \in [Writers -> SUBSET Keys]
           /\ nextseq' = nextseq /\ anchor' = anchor
<1>1. /\ plock' \in [Partitions -> Owners] /\ clock' \in [Keys -> Owners]
      /\ xlock' \in [Tables -> Owners] /\ slock' \in [Tables -> SUBSET Writers]
  BY DEF EndTransaction, TypeOK, Owners
<1>2. /\ pend' \in [Writers -> [Tables -> SUBSET Rows(Contents)]]
      /\ made' \in [Writers -> SUBSET Partitions] /\ calls' \in [Writers -> Nat]
  BY DEF EndTransaction, TypeOK, NoRows
<1>3. /\ pc' \in [Writers -> {"idle", "locking", "ensure", "create", "seed", "rows", "open"}]
      /\ batch' \in [Writers -> Seq(Events)]
      /\ needP' \in [Writers -> SUBSET Partitions] /\ needK' \in [Writers -> SUBSET Keys]
  BY DEF EndTransaction, TypeOK
<1>4. QED
  BY <1>1, <1>2, <1>3 DEF EndTransaction

\* Every step of write_batch and of its callers keeps types and tails.
LEMMA TypeStep == TypeInv /\ [Next]_vars => TypeInv'
<1> SUFFICES ASSUME TypeInv, [Next]_vars PROVE TypeInv'
  OBVIOUS
<1> USE DEF TypeInv
<1>1. ASSUME NEW w \in Writers, NEW b \in Batches, Call(w, b) PROVE TypeInv'
  <2>1. b \in Seq(Events)
    BY BatchType
  <2>2. {PartOf(e) : e \in EventsIn(b)} \subseteq Partitions
    BY <2>1, WriterConstants DEF PartOf, EventsIn, Partitions, TableOf
  <2>3. {KeyOf[e] : e \in EventsIn(b)} \subseteq Keys
    BY <2>1, WriterConstants DEF EventsIn
  <2>4. TypeOK'
    BY <1>1, <2>1, <2>2, <2>3 DEF Call, TypeOK, db, locks
  <2>5. TailInv'
    BY <1>1 DEF Call, TailInv, db
  <2>6. QED
    BY <2>4, <2>5
<1>2. ASSUME NEW w \in Writers, LockPartition(w) PROVE TypeInv'
  <2>1. PICK p \in needP[w] : plock' = [plock EXCEPT ![p] = w]
    BY <1>2 DEF LockPartition
  <2>2. plock' \in [Partitions -> Owners]
    BY <2>1 DEF TypeOK, Owners
  <2>3. TypeOK'
    BY <1>2, <2>2 DEF LockPartition, TypeOK, db, tx
  <2>4. TailInv'
    BY <1>2 DEF LockPartition, TailInv, db, tx
  <2>5. QED
    BY <2>3, <2>4
<1>3. ASSUME NEW w \in Writers, FindPartition(w) PROVE TypeInv'
  <2>1. /\ needP' \in [Writers -> SUBSET Partitions]
        /\ pc' \in [Writers -> {"idle", "locking", "ensure", "create", "seed", "rows", "open"}]
    <3>1. PICK p \in needP[w] :
             \/ /\ needP' = [needP EXCEPT ![w] = @ \ {p}]
                /\ pc' = [pc EXCEPT ![w] = "locking"]
             \/ needP' = needP /\ pc' = [pc EXCEPT ![w] = "create"]
      BY <1>3 DEF FindPartition
    <3>2. needP[w] \ {p} \in SUBSET Partitions
      BY DEF TypeOK
    <3>3. needP' \in [Writers -> SUBSET Partitions]
      BY <3>1, <3>2 DEF TypeOK
    <3>4. QED
      BY <3>1, <3>3 DEF TypeOK
  <2>2. TypeOK'
    BY <1>3, <2>1 DEF FindPartition, TypeOK, db, tx, locks
  <2>3. TailInv'
    BY <1>3 DEF FindPartition, TailInv, db, tx
  <2>4. QED
    BY <2>2, <2>3
<1>4. ASSUME NEW w \in Writers, CreatePartition(w) PROVE TypeInv'
  <2>1. PICK p \in needP[w] :
           /\ xlock' = [xlock EXCEPT ![p[1]] = w]
           /\ made' = [made EXCEPT ![w] = @ \cup {p}]
           /\ needP' = [needP EXCEPT ![w] = @ \ {p}]
    BY <1>4 DEF CreatePartition
  <2>2. needP[w] \ {p} \in SUBSET Partitions /\ made[w] \cup {p} \in SUBSET Partitions
    BY DEF TypeOK
  <2>3. /\ xlock' \in [Tables -> Owners]
        /\ made' \in [Writers -> SUBSET Partitions]
        /\ needP' \in [Writers -> SUBSET Partitions]
    BY <2>1, <2>2 DEF TypeOK, Owners
  <2>4. TypeOK'
    BY <1>4, <2>3 DEF CreatePartition, TypeOK, db
  <2>5. TailInv'
    BY <1>4 DEF CreatePartition, TailInv, db
  <2>6. QED
    BY <2>4, <2>5
<1>5. ASSUME NEW w \in Writers, LockChain(w) PROVE TypeInv'
  <2>1. TypeOK'
    BY <1>5 DEF LockChain, TypeOK, db, tx, Owners
  <2>2. TailInv'
    BY <1>5 DEF LockChain, TailInv, db, tx
  <2>3. QED
    BY <2>1, <2>2
<1>6. ASSUME NEW w \in Writers, SeedHead(w) PROVE TypeInv'
  <2>1. PICK k \in needK[w] :
          /\ slock' = [slock EXCEPT ![Parent[k]] = @ \cup {w}]
          /\ heads' = [heads EXCEPT ![w][k] =
                          TailHash(Visible(w, Parent[k]), anchor[Parent[k]])]
          /\ needK' = [needK EXCEPT ![w] = @ \ {k}]
          /\ pc' = [pc EXCEPT ![w] = IF needK[w] = {k} THEN "rows" ELSE "locking"]
    BY <1>6 DEF SeedHead
  <2>2. k \in Keys /\ Parent[k] \in Tables
    BY WriterConstants DEF TypeOK
  <2>3. TailHash(Visible(w, Parent[k]), anchor[Parent[k]]) \in Digests
    <3>1. /\ table[Parent[k]] \in SUBSET Rows(Contents)
          /\ pend[w][Parent[k]] \in SUBSET Rows(Contents)
          /\ anchor[Parent[k]] \in Seq(Contents)
      BY <2>2 DEF TypeOK, Digests
    <3>2. HasTail(Visible(w, Parent[k]))
      BY <2>2, <3>1, TailOfUnion DEF TailInv, Visible
    <3>3. Visible(w, Parent[k]) \in SUBSET Rows(Contents)
      BY <3>1 DEF Visible
    <3>4. QED
      BY <3>1, <3>2, <3>3, TailHashType DEF Digests
  <2>4. TypeOK'
    BY <1>6, <2>1, <2>2, <2>3 DEF SeedHead, TypeOK, db, tx
  <2>5. TailInv'
    BY <1>6 DEF SeedHead, TailInv, db, tx
  <2>6. QED
    BY <2>4, <2>5
<1>7. ASSUME NEW w \in Writers, InsertRow(w) PROVE TypeInv'
  <2> DEFINE e == Head(batch[w])
             k == KeyOf[e]
             t == Parent[k]
             row == RowOf(nextseq[t], e, heads[w][k])
  <2>1. batch[w] \in Seq(Events) /\ batch[w] # <<>>
    BY <1>7 DEF InsertRow, TypeOK
  <2>2. e \in Events /\ k \in Keys /\ t \in Tables
    BY <2>1, WriterConstants
  <2>3. row \in Rows(Contents) /\ row.hash \in Digests
    <3>1. nextseq[t] \in Nat /\ e \in Contents /\ heads[w][k] \in Seq(Contents)
      BY <2>2 DEF TypeOK, Contents, Digests
    <3>2. row \in Rows(Contents)
      BY <3>1, RowOfType
    <3>3. row.hash \in Digests
      BY <3>2 DEF Rows, Digests
    <3>4. QED
      BY <3>2, <3>3
  <2> HIDE DEF row
  <2>4. /\ pend' \in [Writers -> [Tables -> SUBSET Rows(Contents)]]
        /\ heads' \in [Writers -> [Keys -> Digests]]
        /\ \A u \in Tables, v \in Writers :
              pend'[v][u] = pend[v][u] \/ pend'[v][u] = pend[v][u] \cup {row}
    <3>1. InsertFresh(w, e, k, t) \/ AdoptDuplicate(w, e, k, t)
      BY <1>7 DEF InsertRow
    <3>2. CASE InsertFresh(w, e, k, t)
      <4>1. /\ pend' = [pend EXCEPT ![w][t] = @ \cup {row}]
            /\ heads' = [heads EXCEPT ![w][k] = row.hash]
        BY <3>2 DEF InsertFresh, row
      <4>2. QED
        BY <4>1, <2>2, <2>3 DEF TypeOK
    <3>3. CASE AdoptDuplicate(w, e, k, t)
      <4>1. PICK r \in Visible(w, t) :
               heads' = [heads EXCEPT ![w][k] = r.hash] /\ pend' = pend
        BY <3>3 DEF AdoptDuplicate
      <4>2. r.hash \in Digests
        BY <2>2 DEF TypeOK, Visible, Rows, Digests
      <4>3. QED
        BY <4>1, <4>2, <2>2 DEF TypeOK
    <3>4. QED
      BY <3>1, <3>2, <3>3
  <2>5. nextseq' \in [Tables -> Nat]
    BY <1>7, <2>2 DEF InsertRow, TypeOK
  <2>6. batch' \in [Writers -> Seq(Events)]
    BY <1>7, <2>1 DEF InsertRow, TypeOK
  <2>7. TypeOK'
    BY <1>7, <2>4, <2>5, <2>6 DEF InsertRow, TypeOK, locks
  <2>8. TailInv'
    <3>1. SUFFICES ASSUME NEW u \in Tables, NEW v \in Writers
                   PROVE  HasTail(table'[u]) /\ HasTail(pend'[v][u])
      BY DEF TailInv
    <3>2. table' = table
      BY <1>7 DEF InsertRow
    <3>3. HasTail(pend[v][u]) /\ pend[v][u] \in SUBSET Rows(Contents)
      BY DEF TailInv, TypeOK
    <3>4. HasTail(pend[v][u] \cup {row})
      BY <2>3, <3>3, TailOfOne, TailOfUnion
    <3>5. QED
      BY <2>4, <3>2, <3>3, <3>4 DEF TailInv
  <2>9. QED
    BY <2>7, <2>8
<1>8. ASSUME NEW w \in Writers, Commit(w) PROVE TypeInv'
  <2>1. TypeOK'
    BY <1>8, EndType DEF Commit, TypeOK
  <2>2. TailInv'
    <3>1. SUFFICES ASSUME NEW u \in Tables, NEW v \in Writers
                   PROVE  HasTail(table'[u]) /\ HasTail(pend'[v][u])
      BY DEF TailInv
    <3>2. HasTail(table[u] \cup pend[w][u])
      <4>1. /\ HasTail(table[u]) /\ HasTail(pend[w][u])
            /\ table[u] \in SUBSET Rows(Contents) /\ pend[w][u] \in SUBSET Rows(Contents)
        BY DEF TailInv, TypeOK
      <4>2. QED
        BY <4>1, TailOfUnion
    <3>3. HasTail({})
      BY DEF HasTail
    <3>4. table'[u] = table[u] \cup pend[w][u]
      BY <1>8 DEF Commit
    <3>5. pend'[v][u] = pend[v][u] \/ pend'[v][u] = {}
      BY <1>8 DEF Commit, EndTransaction, TypeOK, NoRows
    <3>6. QED
      BY <3>2, <3>3, <3>4, <3>5 DEF TailInv
  <2>3. QED
    BY <2>1, <2>2
<1>9. ASSUME NEW w \in Writers, Abort(w) PROVE TypeInv'
  <2>1. NoHash \in Digests
    BY DEF NoHash, Digests
  <2>2. TypeOK'
    BY <1>9, <2>1, EndType DEF Abort, TypeOK
  <2>3. TailInv'
    <3>1. SUFFICES ASSUME NEW u \in Tables, NEW v \in Writers
                   PROVE  HasTail(table'[u]) /\ HasTail(pend'[v][u])
      BY DEF TailInv
    <3>2. pend'[v][u] = pend[v][u] \/ pend'[v][u] = {}
      BY <1>9 DEF Abort, EndTransaction, TypeOK, NoRows
    <3>3. HasTail({}) /\ table' = table
      BY <1>9 DEF HasTail, Abort
    <3>4. QED
      BY <3>2, <3>3 DEF TailInv
  <2>4. QED
    BY <2>2, <2>3
<1>10. CASE UNCHANGED vars
  BY <1>10 DEF vars, db, locks, tx, call, TypeOK, TailInv
<1>11. QED
  BY <1>1, <1>2, <1>3, <1>4, <1>5, <1>6, <1>7, <1>8, <1>9, <1>10 DEF Next

\* Type correctness: every committed or pending row, lock owner, partition
\* name and cached head is what writer.py takes it for, for any batches,
\* duplicates, aborts and interleavings.
THEOREM TypeCorrect == Spec => []TypeOK
<1>1. TypeInv => TypeOK
  BY DEF TypeInv
<1>2. QED
  BY <1>1, TypeInit, TypeStep, PTL DEF Spec

-----------------------------------------------------------------------------
\* sorted(partitions) has one first element.
LEMMA OneFirstPart ==
    ASSUME NEW S \in SUBSET Partitions, NEW p \in S, NEW q \in S,
           FirstPart(p, S), FirstPart(q, S)
    PROVE  p = q
<1>1. /\ p[1] \in Tables /\ q[1] \in Tables /\ p[2] \in Int /\ q[2] \in Int
      /\ p = <<p[1], p[2]>> /\ q = <<q[1], q[2]>>
  <2>1. PICK t \in Tables, d \in Days : p = <<t, d>>
    BY DEF Partitions
  <2>2. PICK u \in Tables, c \in Days : q = <<u, c>>
    BY DEF Partitions
  <2>3. QED
    BY <2>1, <2>2, WriterConstants
<1>2. TableRank[p[1]] \in Int /\ TableRank[q[1]] \in Int
  BY <1>1, WriterConstants
<1>3. /\ TableRank[p[1]] < TableRank[q[1]] \/ (TableRank[p[1]] = TableRank[q[1]] /\ p[2] <= q[2])
      /\ TableRank[q[1]] < TableRank[p[1]] \/ (TableRank[q[1]] = TableRank[p[1]] /\ q[2] <= p[2])
  BY DEF FirstPart
<1>4. TableRank[p[1]] = TableRank[q[1]] /\ p[2] = q[2]
  BY <1>1, <1>2, <1>3
<1>5. QED
  BY <1>1, <1>4, WriterConstants

\* Every step keeps the partition locks with the calls that need them.
LEMMA PartStep == TypeInv /\ PartInv /\ [Next]_vars => PartInv'
<1> SUFFICES ASSUME TypeInv, PartInv, [Next]_vars PROVE PartInv'
  OBVIOUS
<1> USE DEF TypeInv
<1> DEFINE Locked(w) ==
             pc[w] \in {"ensure", "create"} =>
                \A p \in needP[w] : FirstPart(p, needP[w]) => plock[p] = w
           Missing(w) ==
             pc[w] = "create" =>
                \A p \in needP[w] : FirstPart(p, needP[w]) => p \notin parts
           Mine(w) == \A p \in made[w] : plock[p] = w
<1>0. \A w \in Writers : Locked(w) /\ Missing(w) /\ Mine(w)
  BY DEF PartInv, NoDuplicateTable
<1>1. SUFFICES ASSUME NEW v \in Writers PROVE (Locked(v) /\ Missing(v) /\ Mine(v))'
  BY DEF PartInv, NoDuplicateTable
<1>2. needP[v] \subseteq Partitions /\ made[v] \subseteq Partitions
  BY DEF TypeOK
<1>3. ASSUME NEW w \in Writers, NEW b \in Batches, Call(w, b)
      PROVE  (Locked(v) /\ Missing(v) /\ Mine(v))'
  <2>1. plock' = plock /\ made' = made /\ parts' = parts
    BY <1>3 DEF Call, db, locks
  <2>2. CASE v = w
    BY <1>0, <1>3, <2>1, <2>2 DEF Call, TypeOK
  <2>3. CASE v # w
    BY <1>0, <1>3, <2>1, <2>3 DEF Call, TypeOK
  <2>4. QED
    BY <2>2, <2>3
<1>4. ASSUME NEW w \in Writers, LockPartition(w)
      PROVE  (Locked(v) /\ Missing(v) /\ Mine(v))'
  <2>1. PICK p \in needP[w] :
           /\ FirstPart(p, needP[w])
           /\ plock[p] \in {NoOwner, w}
           /\ plock' = [plock EXCEPT ![p] = w]
    BY <1>4 DEF LockPartition
  <2>2. /\ pc' = [pc EXCEPT ![w] = "ensure"]
        /\ needP' = needP /\ made' = made /\ parts' = parts
    BY <1>4 DEF LockPartition, db, tx
  <2>3. p \in Partitions /\ needP[w] \in SUBSET Partitions
    BY DEF TypeOK
  <2>4. \A q \in Partitions : plock[q] = v => plock'[q] = v
    BY <2>1, <2>3, WriterConstants DEF TypeOK
  <2>5. CASE v = w
    <3>1. \A q \in needP[v] : FirstPart(q, needP[v]) => q = p
      BY <2>1, <2>3, <2>5, OneFirstPart
    <3>2. plock'[p] = w
      BY <2>1, <2>3 DEF TypeOK
    <3>3. QED
      BY <1>0, <1>2, <2>2, <2>4, <2>5, <3>1, <3>2 DEF TypeOK
  <2>6. CASE v # w
    BY <1>0, <1>2, <2>2, <2>4, <2>6 DEF TypeOK
  <2>7. QED
    BY <2>5, <2>6
<1>5. ASSUME NEW w \in Writers, FindPartition(w)
      PROVE  (Locked(v) /\ Missing(v) /\ Mine(v))'
  <2>1. PICK p \in needP[w] :
           /\ FirstPart(p, needP[w])
           /\ IF p \in parts \cup made[w]
              THEN /\ needP' = [needP EXCEPT ![w] = @ \ {p}]
                   /\ pc' = [pc EXCEPT ![w] = "locking"]
              ELSE /\ pc' = [pc EXCEPT ![w] = "create"]
                   /\ needP' = needP
    BY <1>5 DEF FindPartition
  <2>2. plock' = plock /\ made' = made /\ parts' = parts /\ pc[w] = "ensure"
    BY <1>5 DEF FindPartition, db, locks, tx
  <2>3. CASE v = w
    <3>1. \A q \in needP[v] : FirstPart(q, needP[v]) => q = p
      BY <1>2, <2>1, <2>3, OneFirstPart
    <3>2. QED
      BY <1>0, <2>1, <2>2, <2>3, <3>1 DEF TypeOK
  <2>4. CASE v # w
    BY <1>0, <2>1, <2>2, <2>4 DEF TypeOK
  <2>5. QED
    BY <2>3, <2>4
<1>6. ASSUME NEW w \in Writers, CreatePartition(w)
      PROVE  (Locked(v) /\ Missing(v) /\ Mine(v))'
  <2>1. PICK p \in needP[w] :
           /\ FirstPart(p, needP[w])
           /\ made' = [made EXCEPT ![w] = @ \cup {p}]
           /\ needP' = [needP EXCEPT ![w] = @ \ {p}]
    BY <1>6 DEF CreatePartition
  <2>2. /\ plock' = plock /\ parts' = parts /\ pc[w] = "create"
        /\ pc' = [pc EXCEPT ![w] = "locking"]
    BY <1>6 DEF CreatePartition, db
  <2>3. plock[p] = w
    BY <1>0, <2>1, <2>2
  <2>4. QED
    BY <1>0, <2>1, <2>2, <2>3 DEF TypeOK
<1>7. ASSUME NEW w \in Writers, EndTransaction(w),
             parts' = parts \/ parts' = parts \cup made[w]
      PROVE  (Locked(v) /\ Missing(v) /\ Mine(v))'
  <2>1. CASE v = w
    BY <1>7, <2>1 DEF EndTransaction, TypeOK
  <2>2. CASE v # w
    <3>1. pc'[v] = pc[v] /\ needP'[v] = needP[v] /\ made'[v] = made[v]
      BY <1>7, <2>2 DEF EndTransaction, TypeOK
    <3>2. \A q \in Partitions : plock[q] = v => plock'[q] = v
      BY <1>7, <2>2 DEF EndTransaction
    <3>3. \A q \in Partitions : plock[q] = v => q \notin made[w]
      BY <1>0, <2>2
    <3>4. QED
      BY <1>0, <1>2, <1>7, <3>1, <3>2, <3>3
  <2>3. QED
    BY <2>1, <2>2
<1>8. CASE pc' = pc /\ needP' = needP /\ made' = made /\ plock' = plock /\ parts' = parts
  BY <1>0, <1>8
<1>9. ASSUME NEW w \in Writers, LockChain(w) \/ SeedHead(w) \/ InsertRow(w)
      PROVE  (Locked(v) /\ Missing(v) /\ Mine(v))'
  <2>1. /\ needP' = needP /\ made' = made /\ plock' = plock /\ parts' = parts
        /\ pc'[v] = pc[v] \/ pc'[v] \in {"locking", "seed", "rows", "open"}
    BY <1>9 DEF LockChain, SeedHead, InsertRow, db, tx, locks, TypeOK
  <2>2. QED
    BY <1>0, <2>1
<1>10. QED
  <2>1. \/ \E w \in Writers, b \in Batches : Call(w, b)
        \/ \E w \in Writers :
              \/ LockPartition(w) \/ FindPartition(w) \/ CreatePartition(w)
              \/ LockChain(w) \/ SeedHead(w) \/ InsertRow(w)
              \/ EndTransaction(w) /\ (parts' = parts \/ parts' = parts \cup made[w])
        \/ pc' = pc /\ needP' = needP /\ made' = made /\ plock' = plock /\ parts' = parts
    BY DEF Next, Commit, Abort, vars, db, locks, tx, call
  <2> HIDE DEF Locked, Missing, Mine
  <2>2. QED
    BY <1>3, <1>4, <1>5, <1>6, <1>7, <1>8, <1>9, <2>1

\* The race that _ensure_partition's advisory lock exists for is never lost:
\* between CREATE TABLE IF NOT EXISTS looking a partition up and creating it,
\* no other writer's commit brings that partition into being.
THEOREM NoDuplicateTableHolds == Spec => []NoDuplicateTable
<1>1. Init => TypeInv /\ PartInv
  <2>1. Init => PartInv
    BY DEF Init, PartInv, NoDuplicateTable
  <2>2. QED
    BY <2>1, TypeInit
<1>2. (TypeInv /\ PartInv) /\ [Next]_vars => (TypeInv /\ PartInv)'
  BY TypeStep, PartStep
<1>3. PartInv => NoDuplicateTable
  BY DEF PartInv
<1>4. QED
  BY <1>1, <1>2, <1>3, PTL DEF Spec

-----------------------------------------------------------------------------
\* The events left in a batch after its first one was inserted.
LEMMA TailEvents ==
    ASSUME NEW s \in Seq(Events), s # <<>>
    PROVE  /\ Head(s) \in EventsIn(s)
           /\ EventsIn(Tail(s)) \subseteq EventsIn(s)
           /\ Tail(s) \in Seq(Events)
           /\ EventsIn(s) \subseteq Events
           /\ (\A i, j \in 1..Len(s) : s[i] = s[j] => i = j)
                 => /\ \A i, j \in 1..Len(Tail(s)) : Tail(s)[i] = Tail(s)[j] => i = j
                    /\ Head(s) \notin EventsIn(Tail(s))
<1>1. /\ Len(s) \in Nat /\ Len(s) >= 1 /\ Head(s) = s[1]
      /\ Len(Tail(s)) = Len(s) - 1
      /\ \A i \in 1..Len(Tail(s)) : Tail(s)[i] = s[i+1] /\ i+1 \in 1..Len(s)
  OBVIOUS
<1>2. Head(s) \in EventsIn(s)
  BY <1>1 DEF EventsIn
<1>3. EventsIn(Tail(s)) \subseteq EventsIn(s)
  BY <1>1 DEF EventsIn
<1>4. Tail(s) \in Seq(Events) /\ EventsIn(s) \subseteq Events
  BY DEF EventsIn
<1>5. ASSUME \A i, j \in 1..Len(s) : s[i] = s[j] => i = j
      PROVE  /\ \A i, j \in 1..Len(Tail(s)) : Tail(s)[i] = Tail(s)[j] => i = j
             /\ Head(s) \notin EventsIn(Tail(s))
  <2>1. \A i, j \in 1..Len(Tail(s)) : Tail(s)[i] = Tail(s)[j] => i = j
    BY <1>1, <1>5
  <2>2. \A i \in 1..Len(Tail(s)) : Tail(s)[i] # Head(s)
    BY <1>1, <1>5
  <2>3. QED
    BY <2>1, <2>2 DEF EventsIn
<1>6. QED
  BY <1>2, <1>3, <1>4, <1>5

\* A call that has inserted its last row holds no event.
LEMMA EmptyBatch == EventsIn(<<>>) = {}
BY DEF EventsIn

\* What InsertRow does, with the row it may add named.
LEMMA InsertFacts ==
    ASSUME TypeOK, LockInv, NEW w \in Writers, InsertRow(w)
    PROVE  LET e == Head(batch[w])
               k == KeyOf[e]
               t == Parent[k]
               row == RowOf(nextseq[t], e, heads[w][k])
           IN  /\ e \in Events /\ k \in Keys /\ t \in Tables
               /\ batch[w] \in Seq(Events) /\ batch[w] # <<>>
               /\ k \in ReadKeys(w) /\ clock[k] = w /\ needK[w] = {}
               /\ row \in Rows(Contents) /\ HashOK(row)
               /\ row.seq = nextseq[t] /\ row.ev = e /\ row.prev = heads[w][k]
               /\ table' = table /\ anchor' = anchor /\ clock' = clock
               /\ needK' = needK /\ needP' = needP
               /\ batch' = [batch EXCEPT ![w] = Tail(@)]
               /\ nextseq' = [nextseq EXCEPT ![t] = @ + 1]
               /\ \/ /\ pend' = [pend EXCEPT ![w][t] = @ \cup {row}]
                     /\ heads' = [heads EXCEPT ![w][k] = row.hash]
                  \/ /\ pend' = pend
                     /\ \E r \in Visible(w, t) : r.ev = e
<1> DEFINE e == Head(batch[w])
           k == KeyOf[e]
           t == Parent[k]
           row == RowOf(nextseq[t], e, heads[w][k])
<1>1. batch[w] \in Seq(Events) /\ batch[w] # <<>> /\ pc[w] = "rows"
  BY DEF InsertRow, TypeOK
<1>2. e \in EventsIn(batch[w]) /\ e \in Events
  BY <1>1, TailEvents
<1>3. k \in Keys /\ t \in Tables
  BY <1>2, WriterConstants
<1>4. needK[w] = {} /\ k \in ReadKeys(w) /\ clock[k] = w
  BY <1>1, <1>2 DEF LockInv, CallInv, ReadKeys
<1>5. row \in Rows(Contents) /\ HashOK(row)
  <2>1. nextseq[t] \in Nat /\ e \in Contents /\ heads[w][k] \in Seq(Contents)
    BY <1>2, <1>3 DEF TypeOK, Contents, Digests
  <2>2. QED
    BY <2>1, RowOfType
<1>6. row.seq = nextseq[t] /\ row.ev = e /\ row.prev = heads[w][k]
  BY DEF RowOf
<1>7. /\ table' = table /\ anchor' = anchor /\ clock' = clock
      /\ needK' = needK /\ needP' = needP
      /\ batch' = [batch EXCEPT ![w] = Tail(@)]
      /\ nextseq' = [nextseq EXCEPT ![t] = @ + 1]
      /\ InsertFresh(w, e, k, t) \/ AdoptDuplicate(w, e, k, t)
  BY DEF InsertRow, locks
<1>8. \/ /\ pend' = [pend EXCEPT ![w][t] = @ \cup {row}]
         /\ heads' = [heads EXCEPT ![w][k] = row.hash]
      \/ /\ pend' = pend
         /\ \E r \in Visible(w, t) : r.ev = e
  BY <1>7 DEF InsertFresh, AdoptDuplicate
<1>9. QED
  BY <1>1, <1>2, <1>3, <1>4, <1>5, <1>6, <1>7, <1>8

\* Two keys of one table are one key, so a chain lock guards a whole table.
LEMMA OneWriterPerTable ==
    ASSUME TypeOK, NoAliasing, LockInv, NEW v \in Writers, NEW w \in Writers,
           NEW k \in Keys, clock[k] = w, pend[v][Parent[k]] # {}
    PROVE  v = w
<1>1. Parent[k] \in Tables
  BY WriterConstants
<1>2. PICK j \in Keys : Parent[j] = Parent[k] /\ clock[j] = v
  BY <1>1 DEF LockInv, PendInv
<1>3. QED
  BY <1>2 DEF NoAliasing

-----------------------------------------------------------------------------
\* A writer is not disturbed by a step of another that leaves its call alone
\* and does not take or free a chain lock that it holds.
LEMMA OthersCall ==
    ASSUME NEW v \in Writers, CallInv(v),
           pc'[v] = pc[v], batch'[v] = batch[v], needK'[v] = needK[v],
           \A k \in Keys : clock[k] = v => clock'[k] = v,
           needK[v] \subseteq Keys, batch[v] \in Seq(Events)
    PROVE  CallInv(v)'
<1>1. ReadKeys(v)' = ReadKeys(v)
  BY DEF ReadKeys
<1>2. ReadKeys(v) \subseteq Keys
  BY WriterConstants DEF ReadKeys, EventsIn
<1>3. \A k \in ReadKeys(v)' : clock'[k] = v
  BY <1>1, <1>2 DEF CallInv
<1>4. pc'[v] = "seed" =>
         \A k \in needK'[v] : FirstKey(k, needK'[v]) => clock'[k] = v
  BY DEF CallInv
<1>5. QED
  BY <1>3, <1>4 DEF CallInv

\* Nobody holds a lock or a call at the start.
LEMMA LockInit == Init => LockInv
<1> SUFFICES ASSUME Init PROVE LockInv
  OBVIOUS
<1>1. \A w \in Writers : CallInv(w)
  BY EmptyBatch DEF Init, CallInv, ReadKeys
<1>2. PendInv
  BY DEF Init, PendInv, NoRows
<1>3. QED
  BY <1>1, <1>2 DEF LockInv

\* Every step keeps a call's progress in line with the locks it holds.
LEMMA LockStep == TypeInv /\ LockInv /\ [Next]_vars => LockInv'
<1> SUFFICES ASSUME TypeInv, LockInv, [Next]_vars PROVE LockInv'
  OBVIOUS
<1> USE DEF TypeInv
<1>0. /\ \A w \in Writers : CallInv(w)
      /\ PendInv
      /\ \A v \in Writers : needK[v] \subseteq Keys /\ batch[v] \in Seq(Events)
  BY DEF LockInv, TypeOK
<1>1. ASSUME NEW w \in Writers, NEW b \in Batches, Call(w, b) PROVE LockInv'
  <2>1. b \in Seq(Events) /\ b # <<>>
    BY BatchType
  <2>2. ReadKeys(w)' = {}
    BY <1>1 DEF Call, ReadKeys, TypeOK
  <2>3. CallInv(w)'
    BY <1>1, <2>1, <2>2 DEF CallInv, Call, TypeOK
  <2>4. ASSUME NEW v \in Writers, v # w PROVE CallInv(v)'
    BY <1>0, <1>1, <2>4, OthersCall DEF Call, TypeOK, locks
  <2>5. PendInv'
    BY <1>0, <1>1 DEF PendInv, Call, locks
  <2>6. QED
    BY <2>3, <2>4, <2>5 DEF LockInv
<1>2. ASSUME NEW w \in Writers, LockPartition(w) PROVE LockInv'
  <2>1. ReadKeys(w)' = ReadKeys(w)
    BY <1>2 DEF LockPartition, ReadKeys
  <2>2. CallInv(w)'
    <3>1. pc'[w] = "ensure" /\ batch'[w] # <<>> /\ clock' = clock
      BY <1>0, <1>2 DEF CallInv, LockPartition, TypeOK
    <3>2. QED
      BY <1>0, <2>1, <3>1 DEF CallInv
  <2>3. ASSUME NEW v \in Writers, v # w PROVE CallInv(v)'
    BY <1>0, <1>2, <2>3, OthersCall DEF LockPartition, TypeOK
  <2>4. PendInv'
    BY <1>0, <1>2 DEF PendInv, LockPartition, tx
  <2>5. QED
    BY <2>2, <2>3, <2>4 DEF LockInv
<1>3. ASSUME NEW w \in Writers, FindPartition(w) PROVE LockInv'
  <2>1. ReadKeys(w)' = ReadKeys(w) /\ clock' = clock
    BY <1>3 DEF FindPartition, ReadKeys, locks
  <2>2. pc'[w] \in {"locking", "create"} /\ \A v \in Writers \ {w} : pc'[v] = pc[v]
    BY <1>3 DEF FindPartition, TypeOK
  <2>3. CallInv(w)'
    <3>1. batch'[w] # <<>>
      BY <1>0, <1>3 DEF CallInv, FindPartition
    <3>2. QED
      BY <1>0, <2>1, <2>2, <3>1 DEF CallInv
  <2>4. ASSUME NEW v \in Writers, v # w PROVE CallInv(v)'
    BY <1>0, <1>3, <2>2, <2>4, OthersCall DEF FindPartition, locks
  <2>5. PendInv'
    BY <1>0, <1>3 DEF PendInv, FindPartition, tx, locks
  <2>6. QED
    BY <2>3, <2>4, <2>5 DEF LockInv
<1>4. ASSUME NEW w \in Writers, CreatePartition(w) PROVE LockInv'
  <2>1. ReadKeys(w)' = ReadKeys(w)
    BY <1>4 DEF CreatePartition, ReadKeys
  <2>2. CallInv(w)'
    <3>1. pc'[w] = "locking" /\ batch'[w] # <<>> /\ clock' = clock
      BY <1>0, <1>4 DEF CallInv, CreatePartition, TypeOK
    <3>2. QED
      BY <1>0, <2>1, <3>1 DEF CallInv
  <2>3. ASSUME NEW v \in Writers, v # w PROVE CallInv(v)'
    BY <1>0, <1>4, <2>3, OthersCall DEF CreatePartition, TypeOK
  <2>4. PendInv'
    BY <1>0, <1>4 DEF PendInv, CreatePartition
  <2>5. QED
    BY <2>2, <2>3, <2>4 DEF LockInv
<1>5. ASSUME NEW w \in Writers, LockChain(w) PROVE LockInv'
  <2>1. PICK k \in needK[w] :
           /\ FirstKey(k, needK[w])
           /\ clock[k] \in {NoOwner, w}
           /\ clock' = [clock EXCEPT ![k] = w]
    BY <1>5 DEF LockChain
  <2>2. k \in Keys /\ ReadKeys(w)' = ReadKeys(w) /\ needK' = needK /\ pend' = pend
    BY <1>0, <1>5 DEF LockChain, ReadKeys, tx
  <2>3. \A v \in Writers : \A j \in Keys : clock[j] = v => clock'[j] = v
    BY <2>1, <2>2, WriterConstants DEF TypeOK
  <2>4. \A j \in needK[w] : FirstKey(j, needK[w]) => j = k
    <3>1. SUFFICES ASSUME NEW j \in needK[w], FirstKey(j, needK[w]) PROVE j = k
      OBVIOUS
    <3>2. KeyRank[j] <= KeyRank[k] /\ KeyRank[k] <= KeyRank[j]
      BY <2>1, <3>1 DEF FirstKey
    <3>3. j \in Keys /\ KeyRank[j] \in Int /\ KeyRank[k] \in Int
      BY <1>0, <2>2, WriterConstants
    <3>4. KeyRank[j] = KeyRank[k]
      BY <3>2, <3>3
    <3>5. QED
      BY <2>2, <3>3, <3>4, WriterConstants
  <2>5. CallInv(w)'
    <3>1. \A j \in needK'[w] : FirstKey(j, needK'[w]) => clock'[j] = w
      BY <2>1, <2>2, <2>4 DEF TypeOK
    <3>2. \A j \in ReadKeys(w)' : clock'[j] = w
      <4>1. ReadKeys(w) \subseteq Keys
        BY <1>0, WriterConstants DEF ReadKeys, EventsIn
      <4>2. QED
        BY <1>0, <2>2, <2>3, <4>1 DEF CallInv
    <3>3. pc'[w] = "seed" /\ batch'[w] # <<>>
      BY <1>0, <1>5 DEF CallInv, LockChain, TypeOK
    <3>4. QED
      BY <3>1, <3>2, <3>3 DEF CallInv
  <2>6. ASSUME NEW v \in Writers, v # w PROVE CallInv(v)'
    <3>1. pc'[v] = pc[v] /\ batch'[v] = batch[v] /\ needK'[v] = needK[v]
      BY <1>5, <2>6 DEF LockChain, TypeOK
    <3>2. QED
      BY <1>0, <2>3, <3>1, OthersCall
  <2>7. PendInv'
    BY <1>0, <2>2, <2>3 DEF PendInv
  <2>8. QED
    BY <2>5, <2>6, <2>7 DEF LockInv
<1>6. ASSUME NEW w \in Writers, SeedHead(w) PROVE LockInv'
  <2>1. PICK k \in needK[w] :
           /\ FirstKey(k, needK[w])
           /\ needK' = [needK EXCEPT ![w] = @ \ {k}]
           /\ pc' = [pc EXCEPT ![w] = IF needK[w] = {k} THEN "rows" ELSE "locking"]
    BY <1>6 DEF SeedHead
  <2>2. clock[k] = w /\ clock' = clock /\ batch' = batch /\ pend' = pend
    BY <1>0, <1>6, <2>1 DEF CallInv, SeedHead, tx
  <2>3. ReadKeys(w)' \subseteq ReadKeys(w) \cup {k}
    BY <2>1, <2>2 DEF ReadKeys, TypeOK
  <2>4. CallInv(w)'
    <3>1. \A j \in ReadKeys(w)' : clock'[j] = w
      BY <1>0, <2>2, <2>3 DEF CallInv
    <3>2. batch[w] # <<>>
      BY <1>0, <1>6 DEF CallInv, SeedHead
    <3>3. CASE needK[w] = {k}
      BY <3>1, <3>2, <3>3, <2>1, <2>2 DEF CallInv, TypeOK
    <3>4. CASE needK[w] # {k}
      BY <3>1, <3>2, <3>4, <2>1, <2>2 DEF CallInv, TypeOK
    <3>5. QED
      BY <3>3, <3>4
  <2>5. ASSUME NEW v \in Writers, v # w PROVE CallInv(v)'
    <3>1. pc'[v] = pc[v] /\ batch'[v] = batch[v] /\ needK'[v] = needK[v]
      BY <2>1, <2>2, <2>5 DEF TypeOK
    <3>2. QED
      BY <1>0, <2>2, <3>1, OthersCall
  <2>6. PendInv'
    BY <1>0, <2>2 DEF PendInv
  <2>7. QED
    BY <2>4, <2>5, <2>6 DEF LockInv
<1>7. ASSUME NEW w \in Writers, InsertRow(w) PROVE LockInv'
  <2> DEFINE e == Head(batch[w])
             k == KeyOf[e]
             t == Parent[k]
             row == RowOf(nextseq[t], e, heads[w][k])
  <2>1. /\ k \in Keys /\ t \in Tables
        /\ batch[w] \in Seq(Events) /\ batch[w] # <<>>
        /\ clock[k] = w /\ needK[w] = {}
        /\ clock' = clock /\ needK' = needK
        /\ batch' = [batch EXCEPT ![w] = Tail(@)]
        /\ \/ pend' = [pend EXCEPT ![w][t] = @ \cup {row}]
           \/ pend' = pend
    BY <1>7, InsertFacts
  <2>2. pc' = [pc EXCEPT ![w] = IF Len(batch[w]) = 1 THEN "open" ELSE "rows"]
    BY <1>7 DEF InsertRow
  <2>3. CallInv(w)'
    <3>1. batch'[w] = Tail(batch[w])
      BY <2>1 DEF TypeOK
    <3>2. Tail(batch[w]) = <<>> <=> Len(batch[w]) = 1
      <4>1. Tail(batch[w]) \in Seq(Events) /\ Len(Tail(batch[w])) = Len(batch[w]) - 1
        BY <2>1
      <4>2. Tail(batch[w]) = <<>> <=> Len(Tail(batch[w])) = 0
        BY <4>1, EmptySeq
      <4>3. Len(batch[w]) \in Nat
        BY <2>1
      <4>4. QED
        BY <4>1, <4>2, <4>3
    <3>3. pc'[w] = IF Len(batch[w]) = 1 THEN "open" ELSE "rows"
      BY <2>2 DEF TypeOK
    <3>4. \A j \in ReadKeys(w)' : clock'[j] = w
      <4>1. EventsIn(batch'[w]) \subseteq EventsIn(batch[w])
        BY <2>1, <3>1, TailEvents
      <4>2. ReadKeys(w)' \subseteq ReadKeys(w)
        BY <2>1, <4>1 DEF ReadKeys
      <4>3. QED
        BY <1>0, <2>1, <4>2 DEF CallInv
    <3>5. CASE Len(batch[w]) = 1
      BY <3>1, <3>2, <3>3, <3>4, <3>5 DEF CallInv
    <3>6. CASE Len(batch[w]) # 1
      BY <2>1, <3>1, <3>2, <3>3, <3>4, <3>6 DEF CallInv
    <3>7. QED
      BY <3>5, <3>6
  <2>4. ASSUME NEW v \in Writers, v # w PROVE CallInv(v)'
    <3>1. pc'[v] = pc[v] /\ batch'[v] = batch[v] /\ needK'[v] = needK[v]
      BY <2>1, <2>2, <2>4 DEF TypeOK
    <3>2. QED
      BY <1>0, <2>1, <3>1, OthersCall
  <2>5. PendInv'
    <3>1. SUFFICES ASSUME NEW v \in Writers, NEW u \in Tables, pend'[v][u] # {}
                   PROVE  \E j \in Keys : Parent[j] = u /\ clock'[j] = v
      BY DEF PendInv
    <3>2. CASE v = w /\ u = t
      BY <2>1, <3>2
    <3>3. CASE ~(v = w /\ u = t)
      <4>1. pend'[v][u] = pend[v][u]
        BY <2>1, <3>3 DEF TypeOK
      <4>2. QED
        BY <1>0, <2>1, <3>1, <4>1 DEF PendInv
    <3>4. QED
      BY <3>2, <3>3
  <2>6. QED
    BY <2>3, <2>4, <2>5 DEF LockInv
<1>8. ASSUME NEW w \in Writers, EndTransaction(w) PROVE LockInv'
  <2>1. /\ pc'[w] = "idle" /\ batch'[w] = <<>> /\ pend'[w] = NoRows
        /\ \A v \in Writers \ {w} :
              /\ pc'[v] = pc[v] /\ batch'[v] = batch[v] /\ needK'[v] = needK[v]
              /\ pend'[v] = pend[v]
    BY <1>8 DEF EndTransaction, TypeOK
  <2>2. \A v \in Writers \ {w} : \A k \in Keys : clock[k] = v => clock'[k] = v
    BY <1>8 DEF EndTransaction
  <2>3. CallInv(w)'
    BY <2>1, EmptyBatch DEF CallInv, ReadKeys
  <2>4. ASSUME NEW v \in Writers, v # w PROVE CallInv(v)'
    BY <1>0, <2>1, <2>2, <2>4, OthersCall
  <2>5. PendInv'
    <3>1. SUFFICES ASSUME NEW v \in Writers, NEW u \in Tables, pend'[v][u] # {}
                   PROVE  \E j \in Keys : Parent[j] = u /\ clock'[j] = v
      BY DEF PendInv
    <3>2. v # w
      BY <2>1, <3>1 DEF NoRows
    <3>3. QED
      BY <1>0, <2>1, <2>2, <3>1, <3>2 DEF PendInv
  <2>6. QED
    BY <2>3, <2>4, <2>5 DEF LockInv
<1>9. CASE UNCHANGED vars
  BY <1>0, <1>9 DEF vars, db, locks, tx, call, LockInv, CallInv, PendInv, ReadKeys
<1>10. QED
  BY <1>1, <1>2, <1>3, <1>4, <1>5, <1>6, <1>7, <1>8, <1>9 DEF Next, Commit, Abort

-----------------------------------------------------------------------------
\* A step either inserts one row, ends a transaction or leaves every row alone.
LEMMA StepKinds ==
    ASSUME [Next]_vars
    PROVE  \/ \E w \in Writers : InsertRow(w)
           \/ \E w \in Writers : Commit(w)
           \/ \E w \in Writers : Abort(w)
           \/ /\ table' = table /\ pend' = pend /\ nextseq' = nextseq
              /\ anchor' = anchor
BY DEF Next, vars, db, locks, tx, call, Call, LockPartition, FindPartition,
       CreatePartition, LockChain, SeedHead

\* There are no rows at the start.
LEMMA SeqInit == Init => SeqInv
BY DEF Init, SeqInv, NoRows

\* Rows draw increasing seqs, and only the chain lock holder has any to commit.
LEMMA SeqStep ==
    ASSUME NoAliasing, TypeOK, LockInv, SeqInv, [Next]_vars
    PROVE  SeqInv'
<1>0. \A t \in Tables :
         /\ nextseq[t] \in Nat
         /\ \A r \in table[t] : r.seq \in Nat
         /\ \A w \in Writers : \A r \in pend[w][t] : r.seq \in Nat
  BY DEF TypeOK, Rows
<1>1. ASSUME NEW w \in Writers, InsertRow(w) PROVE SeqInv'
  <2> DEFINE e == Head(batch[w])
             k == KeyOf[e]
             t == Parent[k]
             row == RowOf(nextseq[t], e, heads[w][k])
  <2>1. /\ k \in Keys /\ t \in Tables /\ row.seq = nextseq[t]
        /\ table' = table /\ nextseq' = [nextseq EXCEPT ![t] = @ + 1]
        /\ \/ pend' = [pend EXCEPT ![w][t] = @ \cup {row}]
           \/ pend' = pend
    BY <1>1, InsertFacts
  <2> HIDE DEF t, row
  <2>2. SUFFICES ASSUME NEW u \in Tables
                 PROVE  /\ \A r \in table'[u] : r.seq < nextseq'[u]
                        /\ \A v \in Writers : \A r \in pend'[v][u] :
                              r.seq < nextseq'[u] /\ \A q \in table'[u] : q.seq < r.seq
    BY DEF SeqInv
  <2>3. nextseq[u] <= nextseq'[u] /\ nextseq'[u] \in Nat
    BY <1>0, <2>1 DEF TypeOK
  <2>4. \A r \in table'[u] : r.seq < nextseq'[u]
    BY <1>0, <2>1, <2>3 DEF SeqInv
  <2>5. ASSUME NEW v \in Writers, NEW r \in pend'[v][u]
        PROVE  r.seq < nextseq'[u] /\ \A q \in table'[u] : q.seq < r.seq
    <3>1. CASE r \in pend[v][u]
      BY <1>0, <2>1, <2>3, <3>1 DEF SeqInv
    <3>2. CASE r \notin pend[v][u]
      <4>1. u = t /\ r = row
        <5>1. pend' = [pend EXCEPT ![w][t] = @ \cup {row}]
          BY <2>1, <2>5, <3>2
        <5>2. \A x \in Writers, y \in Tables :
                 pend'[x][y] = IF x = w /\ y = t THEN pend[x][y] \cup {row} ELSE pend[x][y]
          BY <5>1 DEF TypeOK
        <5>3. QED
          BY <2>5, <3>2, <5>2
      <4>2. nextseq'[t] = nextseq[t] + 1
        BY <2>1 DEF TypeOK
      <4>3. QED
        BY <1>0, <2>1, <4>1, <4>2 DEF SeqInv
    <3>3. QED
      BY <3>1, <3>2
  <2>6. QED
    BY <2>4, <2>5
<1>2. ASSUME NEW w \in Writers, Commit(w) PROVE SeqInv'
  <2>1. /\ nextseq' = nextseq
        /\ \A u \in Tables : table'[u] = table[u] \cup pend[w][u]
        /\ pend' = [pend EXCEPT ![w] = NoRows]
    BY <1>2 DEF Commit, EndTransaction
  <2>2. SUFFICES ASSUME NEW u \in Tables
                 PROVE  /\ \A r \in table'[u] : r.seq < nextseq'[u]
                        /\ \A v \in Writers : \A r \in pend'[v][u] :
                              r.seq < nextseq'[u] /\ \A q \in table'[u] : q.seq < r.seq
    BY DEF SeqInv
  <2>3. \A r \in table'[u] : r.seq < nextseq'[u]
    BY <2>1 DEF SeqInv
  <2>4. ASSUME NEW v \in Writers, NEW r \in pend'[v][u]
        PROVE  r.seq < nextseq'[u] /\ \A q \in table'[u] : q.seq < r.seq
    <3>1. v # w /\ r \in pend[v][u]
      BY <2>1, <2>4 DEF TypeOK, NoRows
    <3>2. pend[w][u] = {}
      <4>1. PICK j \in Keys : Parent[j] = u /\ clock[j] = v
        BY <3>1 DEF LockInv, PendInv
      <4>2. QED
        BY <3>1, <4>1, OneWriterPerTable
    <3>3. QED
      BY <2>1, <3>1, <3>2 DEF SeqInv
  <2>5. QED
    BY <2>3, <2>4
<1>3. ASSUME NEW w \in Writers, Abort(w) PROVE SeqInv'
  <2>1. /\ nextseq' = nextseq /\ table' = table
        /\ \A v \in Writers, u \in Tables : pend'[v][u] \subseteq pend[v][u]
    BY <1>3 DEF Abort, EndTransaction, TypeOK, NoRows
  <2>2. QED
    BY <2>1 DEF SeqInv
<1>4. CASE table' = table /\ pend' = pend /\ nextseq' = nextseq
  BY <1>4 DEF SeqInv
<1>5. QED
  BY <1>1, <1>2, <1>3, <1>4, StepKinds

\* The step that AppendOnly allows.
AppendStep ==
    \A t \in Tables :
        /\ table[t] \subseteq table'[t]
        /\ \A r \in table'[t] \ table[t], q \in table[t] : q.seq < r.seq

\* One step of the writers, seen at the committed rows alone.
LEMMA AppendOnlyStep ==
    ASSUME TypeOK, LockInv, SeqInv, [Next]_vars
    PROVE  AppendStep
<1>1. ASSUME NEW w \in Writers, Commit(w) PROVE AppendStep
  <2>1. \A t \in Tables : table'[t] = table[t] \cup pend[w][t]
    BY <1>1 DEF Commit
  <2>2. QED
    BY <2>1 DEF AppendStep, SeqInv
<1>2. CASE table' = table
  BY <1>2 DEF AppendStep
<1>3. QED
  BY <1>1, <1>2, StepKinds DEF InsertRow, Abort

\* The tables are append-only in seq order, for any redelivery, any number of
\* calls in a transaction and any aborts, as long as no two tenants share a
\* schema: the chain lock makes seq order the commit order (_lock_chain).
THEOREM AppendOnlyHolds == NoAliasing => (Spec => AppendOnly)
<1> SUFFICES ASSUME NoAliasing PROVE Spec => AppendOnly
  OBVIOUS
<1> DEFINE I == TypeInv /\ LockInv /\ SeqInv
<1>1. Init => I
  BY TypeInit, LockInit, SeqInit
<1>2. I /\ [Next]_vars => I'
  BY TypeStep, LockStep, SeqStep DEF TypeInv
<1>3. I /\ [Next]_vars => [AppendStep]_vars
  BY AppendOnlyStep DEF TypeInv
<1>4. Spec => [][AppendStep]_vars
  <2> HIDE DEF I
  <2>1. QED
    BY <1>1, <1>2, <1>3, PTL DEF Spec
<1>5. QED
  BY <1>4 DEF AppendOnly, AppendStep

-----------------------------------------------------------------------------
\* No writer has a batch at the start.
LEMMA FreshInit == Init => FreshInv
BY EmptyBatch DEF Init, FreshInv

\* Ending calls, dropping pending rows and committing them store nothing new.
LEMMA FreshKept ==
    ASSUME TypeOK, FreshInv,
           \A v \in Writers : batch'[v] = batch[v] \/ batch'[v] = <<>>,
           \A u \in Tables : \A r \in table'[u] :
              r \in table[u] \/ \E v \in Writers : r \in pend[v][u],
           \A v \in Writers, u \in Tables : pend'[v][u] \subseteq pend[v][u]
    PROVE  FreshInv'
<1>1. SUFFICES ASSUME NEW w \in Writers
               PROVE  /\ \A i, j \in 1..Len(batch'[w]) : batch'[w][i] = batch'[w][j] => i = j
                      /\ \A e \in EventsIn(batch'[w]) :
                            /\ \A r \in table'[TableOf(e)] : r.ev # e
                            /\ \A v \in Writers : \A r \in pend'[v][TableOf(e)] : r.ev # e
                            /\ \A v \in Writers \ {w} : e \notin EventsIn(batch'[v])
  BY DEF FreshInv
<1>2. \A v \in Writers : EventsIn(batch'[v]) \subseteq EventsIn(batch[v])
  BY EmptyBatch
<1>3. \A i, j \in 1..Len(batch'[w]) : batch'[w][i] = batch'[w][j] => i = j
  <2>1. CASE batch'[w] = batch[w]
    BY <2>1 DEF FreshInv
  <2>2. CASE batch'[w] = <<>>
    BY <2>2
  <2>3. QED
    BY <2>1, <2>2
<1>4. ASSUME NEW e \in EventsIn(batch'[w])
      PROVE  /\ \A r \in table'[TableOf(e)] : r.ev # e
             /\ \A v \in Writers : \A r \in pend'[v][TableOf(e)] : r.ev # e
             /\ \A v \in Writers \ {w} : e \notin EventsIn(batch'[v])
  <2>1. e \in EventsIn(batch[w]) /\ TableOf(e) \in Tables
    BY <1>2, WriterConstants DEF EventsIn, TypeOK, TableOf
  <2>2. QED
    BY <1>2, <2>1 DEF FreshInv
<1>5. QED
  BY <1>3, <1>4

\* Without re-delivery a batch stays disjoint from what is stored or in hand.
LEMMA FreshStep ==
    ASSUME ~Redelivery, TypeOK, LockInv, FreshInv, [Next]_vars
    PROVE  FreshInv'
<1>1. ASSUME NEW w \in Writers, NEW b \in Batches, Call(w, b) PROVE FreshInv'
  <2>1. /\ b \in Seq(Events) /\ FreshBatch(w, b)
        /\ table' = table /\ pend' = pend
        /\ batch'[w] = b /\ \A v \in Writers \ {w} : batch'[v] = batch[v]
    BY <1>1, BatchType DEF Call, db, TypeOK
  <2>2. SUFFICES ASSUME NEW v \in Writers
                 PROVE  /\ \A i, j \in 1..Len(batch'[v]) : batch'[v][i] = batch'[v][j] => i = j
                        /\ \A e \in EventsIn(batch'[v]) :
                              /\ \A r \in table'[TableOf(e)] : r.ev # e
                              /\ \A u \in Writers : \A r \in pend'[u][TableOf(e)] : r.ev # e
                              /\ \A u \in Writers \ {v} : e \notin EventsIn(batch'[u])
    BY DEF FreshInv
  <2>3. CASE v = w
    BY <2>1, <2>3 DEF FreshBatch, Stored
  <2>4. CASE v # w
    <3>1. \A e \in EventsIn(batch[v]) : e \notin EventsIn(b)
      BY <2>1 DEF FreshBatch
    <3>2. QED
      BY <2>1, <2>4, <3>1 DEF FreshInv
  <2>5. QED
    BY <2>3, <2>4
<1>2. ASSUME NEW w \in Writers, InsertRow(w) PROVE FreshInv'
  <2> DEFINE e == Head(batch[w])
             t == Parent[KeyOf[e]]
             row == RowOf(nextseq[t], e, heads[w][KeyOf[e]])
  <2>1. /\ t \in Tables /\ row.ev = e
        /\ batch[w] \in Seq(Events) /\ batch[w] # <<>>
        /\ table' = table /\ batch' = [batch EXCEPT ![w] = Tail(@)]
        /\ \/ pend' = [pend EXCEPT ![w][t] = @ \cup {row}]
           \/ pend' = pend
    BY <1>2, InsertFacts
  <2> HIDE DEF t, row
  <2>2. \A v \in Writers, u \in Tables : \A r \in pend'[v][u] :
           r \in pend[v][u] \/ r.ev = e
    <3>1. CASE pend' = pend
      BY <3>1
    <3>2. CASE pend' = [pend EXCEPT ![w][t] = @ \cup {row}]
      <4>1. \A v \in Writers, u \in Tables :
               pend'[v][u] = IF v = w /\ u = t THEN pend[v][u] \cup {row} ELSE pend[v][u]
        BY <3>2 DEF TypeOK
      <4>2. QED
        BY <2>1, <4>1
    <3>3. QED
      BY <2>1, <3>1, <3>2
  <2>3. /\ e \in EventsIn(batch[w]) /\ e \notin EventsIn(Tail(batch[w]))
        /\ EventsIn(Tail(batch[w])) \subseteq EventsIn(batch[w])
        /\ \A i, j \in 1..Len(Tail(batch[w])) : Tail(batch[w])[i] = Tail(batch[w])[j] => i = j
    BY <2>1, TailEvents DEF FreshInv
  <2>4. batch'[w] = Tail(batch[w]) /\ \A v \in Writers \ {w} : batch'[v] = batch[v]
    BY <2>1 DEF TypeOK
  <2> HIDE DEF e
  <2>5. SUFFICES ASSUME NEW v \in Writers
                 PROVE  /\ \A i, j \in 1..Len(batch'[v]) : batch'[v][i] = batch'[v][j] => i = j
                        /\ \A x \in EventsIn(batch'[v]) :
                              /\ \A r \in table'[TableOf(x)] : r.ev # x
                              /\ \A u \in Writers : \A r \in pend'[u][TableOf(x)] : r.ev # x
                              /\ \A u \in Writers \ {v} : x \notin EventsIn(batch'[u])
    BY DEF FreshInv
  <2>6. \A i, j \in 1..Len(batch'[v]) : batch'[v][i] = batch'[v][j] => i = j
    <3>1. CASE v = w
      BY <2>3, <2>4, <3>1
    <3>2. CASE v # w
      BY <2>4, <3>2 DEF FreshInv
    <3>3. QED
      BY <3>1, <3>2
  <2>7. ASSUME NEW x \in EventsIn(batch'[v])
        PROVE  /\ \A r \in table'[TableOf(x)] : r.ev # x
               /\ \A u \in Writers : \A r \in pend'[u][TableOf(x)] : r.ev # x
               /\ \A u \in Writers \ {v} : x \notin EventsIn(batch'[u])
    <3>1. \A u \in Writers : EventsIn(batch'[u]) \subseteq EventsIn(batch[u])
      BY <2>3, <2>4
    <3>2. x \in EventsIn(batch[v]) /\ TableOf(x) \in Tables
      <4>1. x \in EventsIn(batch[v])
        BY <3>1
      <4>2. x \in Events
        BY <4>1 DEF EventsIn, TypeOK
      <4>3. QED
        BY <4>1, <4>2, WriterConstants DEF TableOf
    <3>3. x # e
      <4>1. CASE v = w
        BY <2>3, <2>4, <4>1
      <4>2. CASE v # w
        BY <2>3, <3>2, <4>2 DEF FreshInv
      <4>3. QED
        BY <4>1, <4>2
    <3>4. \A r \in table'[TableOf(x)] : r.ev # x
      BY <2>1, <3>2 DEF FreshInv
    <3>5. \A u \in Writers : \A r \in pend[u][TableOf(x)] : r.ev # x
      BY <3>2 DEF FreshInv
    <3>6. \A u \in Writers : \A r \in pend'[u][TableOf(x)] : r.ev # x
      BY <2>2, <3>2, <3>3, <3>5
    <3>7. \A u \in Writers \ {v} : x \notin EventsIn(batch'[u])
      BY <3>1, <3>2 DEF FreshInv
    <3>8. QED
      BY <3>4, <3>6, <3>7
  <2>8. QED
    BY <2>6, <2>7
<1>3. ASSUME NEW w \in Writers, Commit(w) PROVE FreshInv'
  <2>1. /\ \A v \in Writers : batch'[v] = batch[v] \/ batch'[v] = <<>>
        /\ \A v \in Writers, u \in Tables : pend'[v][u] \subseteq pend[v][u]
    BY <1>3 DEF Commit, EndTransaction, TypeOK, NoRows
  <2>2. \A u \in Tables : table'[u] = table[u] \cup pend[w][u]
    BY <1>3 DEF Commit
  <2>3. QED
    BY <2>1, <2>2, FreshKept
<1>4. ASSUME NEW w \in Writers, Abort(w) PROVE FreshInv'
  <2>1. /\ \A v \in Writers : batch'[v] = batch[v] \/ batch'[v] = <<>>
        /\ \A v \in Writers, u \in Tables : pend'[v][u] \subseteq pend[v][u]
        /\ table' = table
    BY <1>4 DEF Abort, EndTransaction, TypeOK, NoRows
  <2>2. QED
    BY <2>1, FreshKept
<1>5. CASE table' = table /\ pend' = pend /\ batch' = batch
  BY <1>5, FreshKept
<1>6. QED
  <2>1. \/ \E w \in Writers, b \in Batches : Call(w, b)
        \/ \E w \in Writers : InsertRow(w) \/ Commit(w) \/ Abort(w)
        \/ table' = table /\ pend' = pend /\ batch' = batch
    BY DEF Next, vars, db, locks, tx, call, LockPartition, FindPartition,
           CreatePartition, LockChain, SeedHead
  <2>2. QED
    BY <1>1, <1>2, <1>3, <1>4, <1>5, <2>1

-----------------------------------------------------------------------------
\* Adding a row after the last one, chained onto the tail, keeps a linked
\* chain linked and makes the row the tail.
LEMMA AppendLinked ==
    ASSUME NEW C, NEW S \in SUBSET Rows(C), NEW a \in Seq(C), NEW row \in Rows(C),
           Linked(S, a), HasTail(S), HashOK(row),
           \A q \in S : q.seq < row.seq,
           row.prev = TailHash(S, a)
    PROVE  /\ Linked(S \cup {row}, a)
           /\ HasTail(S \cup {row})
           /\ TailHash(S \cup {row}, a) = row.hash
<1> DEFINE T == S \cup {row}
<1>0. \A q \in T : q.seq \in Nat
  BY DEF Rows
<1>1. \A q \in T : IsTail(q, T) <=> q = row
  BY <1>0 DEF IsTail
<1>2. HasTail(T) /\ TailHash(T, a) = row.hash
  BY <1>1 DEF HasTail, TailHash
<1>3. ASSUME NEW r \in S PROVE LinkOK(r, T, a) /\ HashOK(r)
  <2>1. LinkOK(r, S, a) /\ HashOK(r)
    BY DEF Linked
  <2>2. CASE (\A q \in S : r.seq <= q.seq) /\ r.prev = a
    BY <1>0, <2>1, <2>2 DEF LinkOK
  <2>3. CASE \E p \in S : IsPredecessor(p, r, S) /\ r.prev = p.hash
    <3>1. PICK p \in S : IsPredecessor(p, r, S) /\ r.prev = p.hash
      BY <2>3
    <3>2. IsPredecessor(p, r, T)
      BY <1>0, <3>1 DEF IsPredecessor
    <3>3. QED
      BY <2>1, <3>1, <3>2 DEF LinkOK
  <2>4. QED
    BY <2>1, <2>2, <2>3 DEF LinkOK
<1>4. LinkOK(row, T, a)
  <2>1. CASE S = {}
    BY <1>0, <2>1 DEF LinkOK, TailHash
  <2>2. CASE S # {}
    <3>1. \E q \in S : IsTail(q, S)
      BY <2>2 DEF HasTail
    <3>2. PICK p \in S : IsTail(p, S) /\ TailHash(S, a) = p.hash
      BY <2>2, <3>1 DEF TailHash
    <3>3. IsPredecessor(p, row, T)
      BY <1>0, <3>2 DEF IsPredecessor, IsTail
    <3>4. QED
      BY <3>2, <3>3 DEF LinkOK
  <2>3. QED
    BY <2>1, <2>2
<1>5. QED
  BY <1>2, <1>3, <1>4 DEF Linked

\* Empty tables are linked and no head has been read.
LEMMA HeadInit == Init => HeadInv
<1> SUFFICES ASSUME Init PROVE HeadInv
  OBVIOUS
<1>1. \A w \in Writers, t \in Tables : Visible(w, t) = {} /\ table[t] = {}
  BY DEF Init, Visible, NoRows
<1>2. \A w \in Writers : ReadKeys(w) = {}
  BY EmptyBatch DEF Init, ReadKeys
<1>3. \A t \in Tables : table[t] = {}
  BY DEF Init, NoRows
<1>4. QED
  BY <1>1, <1>2, <1>3 DEF HeadInv, Linked, HasTail

\* The keys a call has read are keys, and the tables behind them tables.
LEMMA ReadKeysType ==
    ASSUME TypeOK, NEW w \in Writers, NEW k \in ReadKeys(w)
    PROVE  k \in Keys /\ Parent[k] \in Tables
BY WriterConstants DEF TypeOK, ReadKeys, EventsIn

\* HeadInv for one table: what the step of a writer leaves of it does not
\* depend on the other tables.
HeadAt(u) ==
    /\ Linked(table[u], anchor[u]) /\ HasTail(table[u])
    /\ \A w \in Writers : Linked(Visible(w, u), anchor[u]) /\ HasTail(Visible(w, u))
    /\ \A w \in Writers : \A k \in ReadKeys(w) :
          Parent[k] = u => heads[w][k] = TailHash(Visible(w, u), anchor[u])

\* The head a writer read under the chain lock is the tail until it is used.
LEMMA HeadStepAt ==
    ASSUME NoAliasing, ~Redelivery, TypeOK, LockInv, SeqInv, FreshInv,
           NEW u \in Tables, HeadAt(u), [Next]_vars
    PROVE  HeadAt(u)'
<1>0. \A w \in Writers :
         /\ Visible(w, u) \in SUBSET Rows(Contents)
         /\ anchor[u] \in Seq(Contents)
  BY DEF TypeOK, Visible, Digests
<1>1. ASSUME NEW w \in Writers, InsertRow(w) PROVE HeadAt(u)'
  <2> DEFINE e == Head(batch[w])
             k == KeyOf[e]
             t == Parent[k]
             row == RowOf(nextseq[t], e, heads[w][k])
  <2>1. /\ e \in Events /\ k \in Keys /\ t \in Tables
        /\ batch[w] \in Seq(Events) /\ batch[w] # <<>>
        /\ k \in ReadKeys(w) /\ clock[k] = w /\ needK[w] = {}
        /\ row \in Rows(Contents) /\ HashOK(row)
        /\ row.seq = nextseq[t] /\ row.ev = e /\ row.prev = heads[w][k]
        /\ table' = table /\ anchor' = anchor /\ needK' = needK
        /\ batch' = [batch EXCEPT ![w] = Tail(@)]
        /\ \/ /\ pend' = [pend EXCEPT ![w][t] = @ \cup {row}]
              /\ heads' = [heads EXCEPT ![w][k] = row.hash]
           \/ /\ pend' = pend
              /\ \E r \in Visible(w, t) : r.ev = e
    BY <1>1, InsertFacts
  <2>2. \A r \in Visible(w, t) : r.ev # e
    <3>1. e \in EventsIn(batch[w]) /\ TableOf(e) = t
      BY <2>1, TailEvents DEF TableOf
    <3>2. QED
      BY <3>1 DEF FreshInv, Visible
  <2> HIDE DEF row, t, k, e
  <2>3. /\ pend' = [pend EXCEPT ![w][t] = @ \cup {row}]
        /\ heads' = [heads EXCEPT ![w][k] = row.hash]
    BY <2>1, <2>2
  <2>4. \A v \in Writers :
           Visible(v, u)' = IF v = w /\ u = t THEN Visible(v, u) \cup {row} ELSE Visible(v, u)
    BY <2>1, <2>3 DEF Visible, TypeOK
  <2>5. ASSUME u = t
        PROVE  /\ Linked(Visible(w, u) \cup {row}, anchor[u])
               /\ HasTail(Visible(w, u) \cup {row})
               /\ TailHash(Visible(w, u) \cup {row}, anchor[u]) = row.hash
    <3>1. row.prev = TailHash(Visible(w, u), anchor[u])
      BY <2>1, <2>5 DEF HeadAt, t
    <3>2. \A q \in Visible(w, u) : q.seq < row.seq
      BY <2>1, <2>5 DEF SeqInv, Visible
    <3>3. Linked(Visible(w, u), anchor[u]) /\ HasTail(Visible(w, u))
      BY DEF HeadAt
    <3>4. Visible(w, u) \in SUBSET Rows(Contents) /\ anchor[u] \in Seq(Contents)
      BY <1>0
    <3>5. row \in Rows(Contents) /\ HashOK(row)
      BY <2>1
    <3>6. QED
      BY <3>1, <3>2, <3>3, <3>4, <3>5, AppendLinked
  <2>6. \A v \in Writers :
           Linked(Visible(v, u)', anchor'[u]) /\ HasTail(Visible(v, u)')
    BY <2>1, <2>4, <2>5 DEF HeadAt
  <2>7. ASSUME NEW v \in Writers, NEW j \in ReadKeys(v)', Parent[j] = u
        PROVE  heads'[v][j] = TailHash(Visible(v, u)', anchor'[u])
    <3>1. j \in ReadKeys(v)
      <4>1. EventsIn(batch'[v]) \subseteq EventsIn(batch[v])
        <5>1. CASE v = w
          BY <2>1, <5>1, TailEvents DEF TypeOK
        <5>2. CASE v # w
          BY <2>1, <5>2 DEF TypeOK
        <5>3. QED
          BY <5>1, <5>2
      <4>2. QED
        BY <2>1, <4>1 DEF ReadKeys
    <3>2. j \in Keys
      BY <3>1, ReadKeysType
    <3>3. heads[v][j] = TailHash(Visible(v, u), anchor[u])
      BY <2>7, <3>1 DEF HeadAt
    <3>4. CASE v = w /\ j = k
      <4>1. heads'[v][j] = row.hash
        BY <2>1, <2>3, <3>4 DEF TypeOK
      <4>2. u = t
        BY <2>7, <3>4 DEF t
      <4>3. QED
        BY <2>1, <2>4, <2>5, <3>4, <4>1, <4>2
    <3>5. CASE ~(v = w /\ j = k)
      <4>1. heads'[v][j] = heads[v][j]
        BY <2>1, <2>3, <3>2, <3>5 DEF TypeOK
      <4>2. ~(v = w /\ u = t)
        BY <2>1, <2>7, <3>2, <3>5 DEF NoAliasing, t
      <4>3. Visible(v, u)' = Visible(v, u)
        BY <2>4, <4>2
      <4>4. QED
        BY <2>1, <3>3, <4>1, <4>3
    <3>6. QED
      BY <3>4, <3>5
  <2>8. QED
    BY <2>1, <2>6, <2>7 DEF HeadAt
<1>2. ASSUME NEW w \in Writers, Commit(w) PROVE HeadAt(u)'
  <2>1. /\ anchor' = anchor /\ heads' = heads
        /\ batch' = [batch EXCEPT ![w] = <<>>] /\ needK' = [needK EXCEPT ![w] = {}]
        /\ table'[u] = table[u] \cup pend[w][u]
        /\ pend' = [pend EXCEPT ![w] = NoRows]
    BY <1>2 DEF Commit, EndTransaction
  <2>2. table'[u] = Visible(w, u)
    BY <2>1 DEF Visible
  <2>3. \A v \in Writers : Visible(v, u)' = Visible(v, u) \/ Visible(v, u)' = Visible(w, u)
    <3>1. SUFFICES ASSUME NEW v \in Writers
                   PROVE  Visible(v, u)' = Visible(v, u) \/ Visible(v, u)' = Visible(w, u)
      OBVIOUS
    <3>2. CASE v = w
      BY <2>1, <3>2 DEF Visible, NoRows, TypeOK
    <3>3. CASE v # w /\ pend[v][u] = {}
      BY <2>1, <3>3 DEF Visible, TypeOK
    <3>4. CASE v # w /\ pend[v][u] # {}
      <4>1. PICK j \in Keys : Parent[j] = u /\ clock[j] = v
        BY <3>4 DEF LockInv, PendInv
      <4>2. pend[w][u] = {}
        BY <3>4, <4>1, OneWriterPerTable
      <4>3. QED
        BY <2>1, <3>4, <4>2 DEF Visible, TypeOK
    <3>5. QED
      BY <3>2, <3>3, <3>4
  <2>4. Linked(table'[u], anchor'[u]) /\ HasTail(table'[u])
    BY <2>1, <2>2 DEF HeadAt
  <2>5. \A v \in Writers : Linked(Visible(v, u)', anchor'[u]) /\ HasTail(Visible(v, u)')
    BY <2>1, <2>3 DEF HeadAt
  <2>6. ASSUME NEW v \in Writers, NEW j \in ReadKeys(v)', Parent[j] = u
        PROVE  heads'[v][j] = TailHash(Visible(v, u)', anchor'[u])
    <3>1. v # w /\ j \in ReadKeys(v)
      BY <2>1, EmptyBatch DEF ReadKeys, TypeOK
    <3>2. j \in Keys /\ clock[j] = v
      BY <3>1, ReadKeysType DEF LockInv, CallInv
    <3>3. pend[w][u] = {}
      BY <2>6, <3>1, <3>2, OneWriterPerTable
    <3>4. Visible(v, u)' = Visible(v, u)
      BY <2>1, <3>1, <3>3 DEF Visible, TypeOK
    <3>5. QED
      BY <2>1, <2>6, <3>1, <3>4 DEF HeadAt
  <2>7. QED
    BY <2>4, <2>5, <2>6 DEF HeadAt
<1>3. ASSUME NEW w \in Writers, Abort(w) PROVE HeadAt(u)'
  <2>1. /\ anchor' = anchor /\ table' = table
        /\ batch' = [batch EXCEPT ![w] = <<>>] /\ needK' = [needK EXCEPT ![w] = {}]
        /\ pend' = [pend EXCEPT ![w] = NoRows]
        /\ heads' = [heads EXCEPT ![w] = [k \in Keys |-> NoHash]]
    BY <1>3 DEF Abort, EndTransaction
  <2>2. \A v \in Writers : Visible(v, u)' = IF v = w THEN table[u] ELSE Visible(v, u)
    BY <2>1 DEF Visible, NoRows, TypeOK
  <2>3. \A v \in Writers : Linked(Visible(v, u)', anchor'[u]) /\ HasTail(Visible(v, u)')
    BY <2>1, <2>2 DEF HeadAt
  <2>4. ASSUME NEW v \in Writers, NEW j \in ReadKeys(v)', Parent[j] = u
        PROVE  heads'[v][j] = TailHash(Visible(v, u)', anchor'[u])
    <3>1. v # w /\ j \in ReadKeys(v)
      BY <2>1, EmptyBatch DEF ReadKeys, TypeOK
    <3>2. heads'[v][j] = heads[v][j] /\ Visible(v, u)' = Visible(v, u)
      BY <2>1, <2>2, <3>1 DEF TypeOK
    <3>3. QED
      BY <2>1, <2>4, <3>1, <3>2 DEF HeadAt
  <2>5. QED
    BY <2>1, <2>3, <2>4 DEF HeadAt
<1>4. ASSUME NEW w \in Writers, SeedHead(w) PROVE HeadAt(u)'
  <2>1. PICK k \in needK[w] :
          /\ heads' = [heads EXCEPT ![w][k] =
                          TailHash(Visible(w, Parent[k]), anchor[Parent[k]])]
          /\ needK' = [needK EXCEPT ![w] = @ \ {k}]
    BY <1>4 DEF SeedHead
  <2>2. table' = table /\ pend' = pend /\ anchor' = anchor /\ batch' = batch
    BY <1>4 DEF SeedHead, db, tx
  <2>3. \A v \in Writers : Visible(v, u)' = Visible(v, u)
    BY <2>2 DEF Visible
  <2>4. ASSUME NEW v \in Writers, NEW j \in ReadKeys(v)', Parent[j] = u
        PROVE  heads'[v][j] = TailHash(Visible(v, u)', anchor'[u])
    <3>1. j \in Keys
      <4>1. PICK x \in EventsIn(batch[v]) : j = KeyOf[x]
        BY <2>2 DEF ReadKeys
      <4>2. x \in Events
        BY DEF EventsIn, TypeOK
      <4>3. QED
        BY <4>1, <4>2, WriterConstants
    <3>2. CASE v = w /\ j = k
      BY <2>1, <2>2, <2>3, <2>4, <3>1, <3>2 DEF TypeOK
    <3>3. CASE ~(v = w /\ j = k)
      <4>1. j \in ReadKeys(v)
        BY <2>1, <2>2, <3>3 DEF ReadKeys, TypeOK
      <4>2. heads'[v][j] = heads[v][j]
        BY <2>1, <3>1, <3>3 DEF TypeOK
      <4>3. QED
        BY <2>2, <2>3, <2>4, <4>1, <4>2 DEF HeadAt
    <3>4. QED
      BY <3>2, <3>3
  <2>5. QED
    BY <2>2, <2>3, <2>4 DEF HeadAt
<1>5. ASSUME NEW w \in Writers, NEW b \in Batches, Call(w, b) PROVE HeadAt(u)'
  <2>1. /\ table' = table /\ pend' = pend /\ anchor' = anchor /\ heads' = heads
        /\ batch' = [batch EXCEPT ![w] = b]
        /\ needK' = [needK EXCEPT ![w] = {KeyOf[e] : e \in EventsIn(b)}]
    BY <1>5 DEF Call, db
  <2>2. \A v \in Writers : ReadKeys(v)' \subseteq ReadKeys(v)
    BY <2>1 DEF ReadKeys, TypeOK
  <2>3. QED
    BY <2>1, <2>2 DEF HeadAt, Visible
<1>6. CASE /\ table' = table /\ pend' = pend /\ anchor' = anchor
           /\ heads' = heads /\ batch' = batch /\ needK' = needK
  BY <1>6 DEF HeadAt, Visible, ReadKeys
<1>7. QED
  <2>1. \/ \E w \in Writers, b \in Batches : Call(w, b)
        \/ \E w \in Writers : SeedHead(w) \/ InsertRow(w) \/ Commit(w) \/ Abort(w)
        \/ /\ table' = table /\ pend' = pend /\ anchor' = anchor
           /\ heads' = heads /\ batch' = batch /\ needK' = needK
    BY DEF Next, vars, db, locks, tx, call, LockPartition, FindPartition,
           CreatePartition, LockChain
  <2>2. QED
    BY <1>1, <1>2, <1>3, <1>4, <1>5, <1>6, <2>1

LEMMA HeadStep ==
    ASSUME NoAliasing, ~Redelivery, TypeInv, LockInv, SeqInv, FreshInv,
           HeadInv, [Next]_vars
    PROVE  HeadInv'
<1>1. TypeOK /\ TypeOK'
  BY TypeStep DEF TypeInv
<1>2. \A u \in Tables : HeadAt(u)
  BY DEF HeadInv, HeadAt
<1>3. \A u \in Tables : HeadAt(u)'
  BY <1>1, <1>2, HeadStepAt
<1>4. ASSUME NEW w \in Writers, NEW k \in ReadKeys(w)' PROVE Parent[k] \in Tables
  <2>1. PICK x \in EventsIn(batch'[w]) : k = KeyOf[x]
    BY DEF ReadKeys
  <2>2. x \in Events
    BY <1>1 DEF EventsIn, TypeOK
  <2>3. QED
    BY <2>1, <2>2, WriterConstants
<1>5. \A w \in Writers : \A k \in ReadKeys(w)' :
         heads'[w][k] = TailHash(Visible(w, Parent[k])', anchor'[Parent[k]])
  <2>1. SUFFICES ASSUME NEW w \in Writers, NEW k \in ReadKeys(w)'
                 PROVE  heads'[w][k] = TailHash(Visible(w, Parent[k])', anchor'[Parent[k]])
    OBVIOUS
  <2>2. PICK u \in Tables : u = Parent[k]
    BY <1>4
  <2>3. heads'[w][k] = TailHash(Visible(w, u)', anchor'[u])
    BY <1>3, <2>2 DEF HeadAt
  <2>4. Visible(w, u)' = Visible(w, Parent[k])'
    BY <2>2 DEF Visible
  <2>5. QED
    BY <2>2, <2>3, <2>4
<1>6. /\ \A t \in Tables : Linked(table'[t], anchor'[t]) /\ HasTail(table'[t])
      /\ \A w \in Writers, t \in Tables :
            Linked(Visible(w, t)', anchor'[t]) /\ HasTail(Visible(w, t)')
  BY <1>3 DEF HeadAt
<1>7. QED
  BY <1>5, <1>6 DEF HeadInv

\* The four parts of ChainInv are kept together by every step.
LEMMA ChainStep ==
    ASSUME NoAliasing, ~Redelivery, TypeInv, ChainInv, [Next]_vars
    PROVE  TypeInv' /\ ChainInv'
<1>1. TypeInv'
  BY TypeStep
<1>2. LockInv'
  BY LockStep DEF ChainInv
<1>3. SeqInv' /\ FreshInv'
  BY SeqStep, FreshStep DEF ChainInv, TypeInv
<1>4. HeadInv'
  BY HeadStep DEF ChainInv
<1>5. QED
  BY <1>1, <1>2, <1>3, <1>4 DEF ChainInv

\* What TLC checks on a small instance holds for all: while no event is
\* delivered twice and no two tenants share a schema, the locks, the seqs and
\* the heads that write_batch works with stay consistent in every interleaving.
THEOREM ChainInvHolds == NoAliasing /\ ~Redelivery => (Spec => []ChainInv)
<1> SUFFICES ASSUME NoAliasing, ~Redelivery PROVE Spec => []ChainInv
  OBVIOUS
<1> DEFINE I == TypeInv /\ ChainInv
<1>1. Init => I
  BY TypeInit, LockInit, SeqInit, FreshInit, HeadInit DEF ChainInv
<1>2. I /\ [Next]_vars => I'
  BY ChainStep
<1>3. I => ChainInv
  OBVIOUS
<1>4. QED
  <2> HIDE DEF I
  <2>1. QED
    BY <1>1, <1>2, <1>3, PTL DEF Spec

\* The tamper-evidence chain of every table verifies at every moment, however
\* many writers append to it, call write_batch repeatedly in one transaction,
\* create partitions, fail and start over (writer.py).
THEOREM ChainLinkedHolds == NoAliasing /\ ~Redelivery => (Spec => []ChainLinked)
<1>1. ChainInv => ChainLinked
  BY DEF ChainInv, HeadInv, ChainLinked
<1>2. QED
  BY <1>1, ChainInvHolds, PTL

-----------------------------------------------------------------------------
(* The refinement of AuditLogSpec: a table's newest digest is the history  *)
(* the table commits to, and a transaction grows it by its own rows.       *)

\* s is the digest l followed by events that l does not hold, each once.
Grown(s, l) ==
    /\ Len(s) >= Len(l)
    /\ \A i \in 1..Len(l) : s[i] = l[i]
    /\ \A i \in Len(l)+1..Len(s) :
          /\ s[i] \in Events \ EventsIn(l)
          /\ \A j \in Len(l)+1..Len(s) : s[i] = s[j] => i = j

\* What the newest digest of the rows S commits to was archived or is in S.
Backed(S, t) ==
    EventsIn(TailHash(S, anchor[t])) \subseteq Archived \cup {r.ev : r \in S}

\* What a transaction sees of a table is the committed history with the
\* transaction's own new events after it.
LogInv ==
    /\ anchor \in [Tables -> Seq(Archived)]
    /\ \A t \in Tables : Backed(table[t], t)
    /\ \A w \in Writers, t \in Tables :
          /\ Backed(Visible(w, t), t)
          /\ Grown(TailHash(Visible(w, t), anchor[t]), TailHash(table[t], anchor[t]))

\* A history has grown by nothing, and grows by an event it does not hold.
LEMMA GrownFacts ==
    ASSUME NEW l \in Seq(Contents)
    PROVE  /\ Grown(l, l)
           /\ \A s \in Seq(Contents), e \in Events :
                 Grown(s, l) /\ e \notin EventsIn(s) => Grown(Append(s, e), l)
<1>1. Grown(l, l)
  BY DEF Grown
<1>2. ASSUME NEW s \in Seq(Contents), NEW e \in Events, Grown(s, l), e \notin EventsIn(s)
      PROVE  Grown(Append(s, e), l)
  <2> DEFINE x == Append(s, e)
  <2>1. /\ Len(x) = Len(s) + 1 /\ Len(s) \in Nat /\ Len(l) \in Nat
        /\ x[Len(s) + 1] = e /\ \A i \in 1..Len(s) : x[i] = s[i]
    OBVIOUS
  <2> HIDE DEF x
  <2>2. Len(x) >= Len(l) /\ \A i \in 1..Len(l) : x[i] = l[i]
    BY <1>2, <2>1 DEF Grown
  <2>3. \A i \in 1..Len(s) : s[i] # e
    BY <1>2 DEF EventsIn
  <2>4. e \notin EventsIn(l)
    <3>1. Len(l) <= Len(s) /\ \A i \in 1..Len(l) : s[i] = l[i]
      BY <1>2 DEF Grown
    <3>2. \A i \in 1..Len(l) : l[i] # e
      BY <2>1, <2>3, <3>1
    <3>3. QED
      BY <3>2 DEF EventsIn
  <2>5. ASSUME NEW i \in Len(l)+1..Len(x)
        PROVE  /\ x[i] \in Events \ EventsIn(l)
               /\ \A j \in Len(l)+1..Len(x) : x[i] = x[j] => i = j
    <3>1. Len(l) <= Len(s)
      BY <1>2 DEF Grown
    <3>2. \A j \in Len(l)+1..Len(x) :
             (j = Len(s) + 1 /\ x[j] = e) \/ (j \in Len(l)+1..Len(s) /\ j \in 1..Len(s) /\ x[j] = s[j])
      BY <2>1
    <3>3. x[i] \in Events \ EventsIn(l)
      BY <1>2, <2>4, <3>2 DEF Grown
    <3>4. ASSUME NEW j \in Len(l)+1..Len(x), x[i] = x[j] PROVE i = j
      <4>1. CASE i = Len(s) + 1 \/ j = Len(s) + 1
        <5>1. (i = Len(s) + 1 => x[i] = e) /\ (j = Len(s) + 1 => x[j] = e)
          BY <2>1
        <5>2. (i # Len(s) + 1 => x[i] # e) /\ (j # Len(s) + 1 => x[j] # e)
          BY <2>3, <3>2
        <5>3. QED
          BY <3>4, <4>1, <5>1, <5>2
      <4>2. CASE i # Len(s) + 1 /\ j # Len(s) + 1
        BY <1>2, <3>2, <3>4, <4>2 DEF Grown
      <4>3. QED
        BY <4>1, <4>2
    <3>5. QED
      BY <3>3, <3>4
  <2>6. QED
    BY <2>2, <2>5 DEF Grown, x
<1>3. QED
  BY <1>1, <1>2

\* How a step changes what transactions see: one row is appended to what one
\* of them sees of one table, or what each sees is as before or what is
\* committed, and what is committed is what one of them saw.
LEMMA VisibleStep ==
    ASSUME NoAliasing, ~Redelivery, TypeOK, TailInv, LockInv, SeqInv, FreshInv,
           HeadInv, [Next]_vars
    PROVE  /\ anchor' = anchor
           /\ \/ /\ table' = table
                 /\ \E w \in Writers, e \in Events, row \in Rows(Contents) :
                       LET t == TableOf(e) IN
                       /\ row.ev = e /\ t \in Tables
                       /\ \A r \in Visible(w, t) : r.ev # e
                       /\ \A v \in Writers, u \in Tables :
                             Visible(v, u)' = IF v = w /\ u = t THEN Visible(v, u) \cup {row}
                                              ELSE Visible(v, u)
                       /\ TailHash(Visible(w, t) \cup {row}, anchor[t])
                             = Append(TailHash(Visible(w, t), anchor[t]), e)
              \/ \A u \in Tables :
                    \/ /\ table'[u] = table[u]
                       /\ \A v \in Writers :
                             Visible(v, u)' = Visible(v, u) \/ Visible(v, u)' = table'[u]
                    \/ /\ \E w \in Writers : table'[u] = Visible(w, u)
                       /\ \A v \in Writers : Visible(v, u)' = table'[u]
<1>1. ASSUME NEW w \in Writers, InsertRow(w)
      PROVE  /\ anchor' = anchor /\ table' = table
             /\ \E e \in Events, row \in Rows(Contents) :
                   LET t == TableOf(e) IN
                   /\ row.ev = e /\ t \in Tables
                   /\ \A r \in Visible(w, t) : r.ev # e
                   /\ \A v \in Writers, u \in Tables :
                         Visible(v, u)' = IF v = w /\ u = t THEN Visible(v, u) \cup {row}
                                          ELSE Visible(v, u)
                   /\ TailHash(Visible(w, t) \cup {row}, anchor[t])
                         = Append(TailHash(Visible(w, t), anchor[t]), e)
  <2> DEFINE e == Head(batch[w])
             k == KeyOf[e]
             t == Parent[k]
             row == RowOf(nextseq[t], e, heads[w][k])
  <2>1. /\ e \in Events /\ k \in Keys /\ t \in Tables
        /\ batch[w] \in Seq(Events) /\ batch[w] # <<>>
        /\ k \in ReadKeys(w)
        /\ row \in Rows(Contents) /\ HashOK(row)
        /\ row.seq = nextseq[t] /\ row.ev = e /\ row.prev = heads[w][k]
        /\ table' = table /\ anchor' = anchor
        /\ \/ pend' = [pend EXCEPT ![w][t] = @ \cup {row}]
           \/ pend' = pend /\ \E r \in Visible(w, t) : r.ev = e
    BY <1>1, InsertFacts
  <2>2. t = TableOf(e) /\ \A r \in Visible(w, t) : r.ev # e
    <3>1. e \in EventsIn(batch[w])
      <4>1. batch[w] \in Seq(Events) /\ batch[w] # <<>>
        BY <1>1 DEF InsertRow, TypeOK
      <4>2. QED
        BY <4>1, TailEvents
    <3>2. TableOf(e) = t
      BY DEF TableOf
    <3>3. QED
      BY <3>1, <3>2 DEF FreshInv, Visible
  <2> HIDE DEF row, t, k, e
  <2>3. \A v \in Writers, u \in Tables :
           Visible(v, u)' = IF v = w /\ u = t THEN Visible(v, u) \cup {row} ELSE Visible(v, u)
    BY <2>1, <2>2 DEF Visible, TypeOK
  <2>4. /\ Visible(w, t) \in SUBSET Rows(Contents) /\ anchor[t] \in Seq(Contents)
        /\ Linked(Visible(w, t), anchor[t]) /\ HasTail(Visible(w, t))
        /\ row.prev = TailHash(Visible(w, t), anchor[t])
        /\ \A q \in Visible(w, t) : q.seq < row.seq
    <3>1. row.prev = TailHash(Visible(w, t), anchor[t])
      BY <2>1 DEF HeadInv, t
    <3>2. \A q \in Visible(w, t) : q.seq < row.seq
      BY <2>1 DEF SeqInv, Visible
    <3>3. Linked(Visible(w, t), anchor[t]) /\ HasTail(Visible(w, t))
      BY <2>1 DEF HeadInv
    <3>4. Visible(w, t) \in SUBSET Rows(Contents) /\ anchor[t] \in Seq(Contents)
      BY <2>1 DEF TypeOK, Visible, Digests
    <3>5. QED
      BY <3>1, <3>2, <3>3, <3>4
  <2>5. TailHash(Visible(w, t) \cup {row}, anchor[t]) = row.hash
    <3>1. row \in Rows(Contents) /\ HashOK(row)
      BY <2>1
    <3>2. /\ Visible(w, t) \in SUBSET Rows(Contents) /\ anchor[t] \in Seq(Contents)
          /\ Linked(Visible(w, t), anchor[t]) /\ HasTail(Visible(w, t))
      BY <2>4
    <3>3. row.prev = TailHash(Visible(w, t), anchor[t])
      BY <2>4
    <3>4. \A q \in Visible(w, t) : q.seq < row.seq
      BY <2>4
    <3>5. QED
      BY <3>1, <3>2, <3>3, <3>4, AppendLinked
  <2>6. row.hash = Append(TailHash(Visible(w, t), anchor[t]), e)
    BY <2>1, <2>4 DEF HashOK, RowHash
  <2>7. e \in Events /\ row \in Rows(Contents) /\ row.ev = e /\ t \in Tables
    BY <2>1
  <2>8. \A r \in Visible(w, TableOf(e)) : r.ev # e
    BY <2>2
  <2>9. \A v \in Writers, u \in Tables :
           Visible(v, u)' = IF v = w /\ u = TableOf(e) THEN Visible(v, u) \cup {row}
                            ELSE Visible(v, u)
    BY <2>2, <2>3
  <2>10. TailHash(Visible(w, TableOf(e)) \cup {row}, anchor[TableOf(e)])
            = Append(TailHash(Visible(w, TableOf(e)), anchor[TableOf(e)]), e)
    BY <2>2, <2>5, <2>6
  <2>11. QED
    BY <2>1, <2>2, <2>7, <2>8, <2>9, <2>10
<1>2. ASSUME NEW w \in Writers, Commit(w), NEW u \in Tables
      PROVE  /\ anchor' = anchor
             /\ \/ /\ table'[u] = table[u]
                   /\ \A v \in Writers :
                         Visible(v, u)' = Visible(v, u) \/ Visible(v, u)' = table'[u]
                \/ /\ table'[u] = Visible(w, u)
                   /\ \A v \in Writers : Visible(v, u)' = table'[u]
  <2>1. /\ anchor' = anchor
        /\ table'[u] = table[u] \cup pend[w][u]
        /\ pend' = [pend EXCEPT ![w] = NoRows]
    BY <1>2 DEF Commit, EndTransaction
  <2>2. CASE pend[w][u] = {}
    BY <2>1, <2>2 DEF Visible, NoRows, TypeOK
  <2>3. CASE pend[w][u] # {}
    <3>1. PICK j \in Keys : Parent[j] = u /\ clock[j] = w
      BY <2>3 DEF LockInv, PendInv
    <3>2. \A v \in Writers \ {w} : pend[v][u] = {}
      BY <3>1, OneWriterPerTable
    <3>3. \A v \in Writers : pend'[v][u] = {}
      BY <2>1, <3>2 DEF NoRows, TypeOK
    <3>4. QED
      BY <2>1, <3>3 DEF Visible
  <2>4. QED
    BY <2>2, <2>3
<1>3. ASSUME NEW w \in Writers, Abort(w), NEW u \in Tables
      PROVE  /\ anchor' = anchor /\ table'[u] = table[u]
             /\ \A v \in Writers :
                   Visible(v, u)' = Visible(v, u) \/ Visible(v, u)' = table'[u]
  BY <1>3 DEF Abort, EndTransaction, Visible, NoRows, TypeOK
<1>4. ASSUME table' = table, pend' = pend, NEW u \in Tables
      PROVE  /\ table'[u] = table[u]
             /\ \A v \in Writers : Visible(v, u)' = Visible(v, u)
  BY <1>4 DEF Visible
<1>5. anchor' = anchor
  BY StepKinds DEF InsertRow, Commit, Abort, EndTransaction
<1>6. CASE \E w \in Writers : InsertRow(w)
  BY <1>1, <1>6
<1>7. CASE \E w \in Writers : Commit(w)
  BY <1>2, <1>5, <1>7
<1>8. CASE \E w \in Writers : Abort(w)
  BY <1>3, <1>5, <1>8
<1>9. CASE table' = table /\ pend' = pend
  BY <1>4, <1>5, <1>9
<1>10. QED
  BY <1>6, <1>7, <1>8, <1>9, StepKinds

\* Tables are empty at the start and their anchors hold archived events.
LEMMA LogInit == Init => LogInv
<1> SUFFICES ASSUME Init PROVE LogInv
  OBVIOUS
<1>1. anchor \in [Tables -> Seq(Archived)]
  BY WriterConstants DEF Init
<1>2. \A w \in Writers, t \in Tables : Visible(w, t) = {}
  BY DEF Init, Visible, NoRows
<1>3. \A t \in Tables : table[t] = {}
  BY DEF Init, NoRows
<1>4. \A t \in Tables : EventsIn(anchor[t]) \subseteq Archived /\ anchor[t] \in Seq(Contents)
  BY <1>1 DEF EventsIn, Contents
<1>5. \A t \in Tables : TailHash({}, anchor[t]) = anchor[t]
  BY DEF TailHash
<1>6. \A t \in Tables : Backed({}, t) /\ Grown(anchor[t], anchor[t])
  BY <1>4, <1>5, GrownFacts DEF Backed
<1>7. QED
  BY <1>1, <1>2, <1>3, <1>5, <1>6 DEF LogInv

\* Every step keeps what a transaction sees a continuation of what is committed.
LEMMA LogStep ==
    ASSUME NoAliasing, ~Redelivery, TypeInv, ChainInv, LogInv, [Next]_vars
    PROVE  LogInv'
<1> USE DEF TypeInv, ChainInv
<1>1. anchor' = anchor
  BY VisibleStep
<1>2. anchor' \in [Tables -> Seq(Archived)]
  BY <1>1 DEF LogInv
<1>3. \A w \in Writers, t \in Tables :
         /\ TailHash(Visible(w, t), anchor[t]) \in Seq(Contents)
         /\ TailHash(table[t], anchor[t]) \in Seq(Contents)
  <2>1. \A w \in Writers, t \in Tables :
           /\ Visible(w, t) \in SUBSET Rows(Contents) /\ HasTail(Visible(w, t))
           /\ table[t] \in SUBSET Rows(Contents) /\ HasTail(table[t])
           /\ anchor[t] \in Seq(Contents)
    <3>1. \A w \in Writers, t \in Tables : HasTail(Visible(w, t)) /\ HasTail(table[t])
      BY DEF HeadInv
    <3>2. \A w \in Writers, t \in Tables :
             /\ Visible(w, t) \in SUBSET Rows(Contents)
             /\ table[t] \in SUBSET Rows(Contents) /\ anchor[t] \in Seq(Contents)
      BY DEF TypeOK, Visible, Digests
    <3>3. QED
      BY <3>1, <3>2
  <2>2. QED
    BY <2>1, TailHashType
<1>4. CASE /\ table' = table
           /\ \E w \in Writers, e \in Events, row \in Rows(Contents) :
                 LET t == TableOf(e) IN
                 /\ row.ev = e /\ t \in Tables
                 /\ \A r \in Visible(w, t) : r.ev # e
                 /\ \A v \in Writers, u \in Tables :
                       Visible(v, u)' = IF v = w /\ u = t THEN Visible(v, u) \cup {row}
                                        ELSE Visible(v, u)
                 /\ TailHash(Visible(w, t) \cup {row}, anchor[t])
                       = Append(TailHash(Visible(w, t), anchor[t]), e)
  <2>1. PICK w \in Writers, e \in Events, row \in Rows(Contents) :
           LET t == TableOf(e) IN
           /\ row.ev = e /\ t \in Tables
           /\ \A r \in Visible(w, t) : r.ev # e
           /\ \A v \in Writers, u \in Tables :
                 Visible(v, u)' = IF v = w /\ u = t THEN Visible(v, u) \cup {row}
                                  ELSE Visible(v, u)
           /\ TailHash(Visible(w, t) \cup {row}, anchor[t])
                 = Append(TailHash(Visible(w, t), anchor[t]), e)
    BY <1>4
  <2> DEFINE t == TableOf(e)
             V == TailHash(Visible(w, t), anchor[t])
             L == TailHash(table[t], anchor[t])
  <2>2. V \in Seq(Contents) /\ L \in Seq(Contents)
    BY <1>3, <2>1
  <2>3. e \notin EventsIn(V)
    <3>1. EventsIn(V) \subseteq Archived \cup {r.ev : r \in Visible(w, t)}
      BY <2>1 DEF LogInv, Backed
    <3>2. e \notin Archived /\ e \notin {r.ev : r \in Visible(w, t)}
      BY <2>1, WriterConstants
    <3>3. QED
      BY <3>1, <3>2
  <2>4. Grown(Append(V, e), L)
    BY <2>1, <2>2, <2>3, GrownFacts DEF LogInv
  <2>5. EventsIn(Append(V, e)) \subseteq Archived \cup {r.ev : r \in Visible(w, t) \cup {row}}
    <3>1. EventsIn(Append(V, e)) \subseteq EventsIn(V) \cup {e}
      BY <2>2 DEF EventsIn
    <3>2. EventsIn(V) \subseteq Archived \cup {r.ev : r \in Visible(w, t)}
      BY <2>1 DEF LogInv, Backed
    <3>3. QED
      BY <2>1, <3>1, <3>2
  <2>6. ASSUME NEW v \in Writers, NEW u \in Tables
        PROVE  /\ EventsIn(TailHash(Visible(v, u)', anchor[u]))
                     \subseteq Archived \cup {r.ev : r \in Visible(v, u)'}
               /\ Grown(TailHash(Visible(v, u)', anchor[u]), TailHash(table[u], anchor[u]))
    <3>1. CASE v = w /\ u = t
      <4>1. Visible(v, u)' = Visible(w, t) \cup {row}
        BY <2>1, <3>1
      <4>2. TailHash(Visible(w, t) \cup {row}, anchor[t]) = Append(V, e)
        BY <2>1
      <4>3. QED
        BY <2>4, <2>5, <3>1, <4>1, <4>2
    <3>2. CASE ~(v = w /\ u = t)
      <4>1. Visible(v, u)' = Visible(v, u)
        BY <2>1, <3>2
      <4>2. QED
        BY <4>1 DEF LogInv, Backed
    <3>3. QED
      BY <3>1, <3>2
  <2>7. QED
    BY <1>1, <1>2, <1>4, <2>6 DEF LogInv, Backed
<1>5. CASE \A u \in Tables :
             \/ /\ table'[u] = table[u]
                /\ \A v \in Writers :
                      Visible(v, u)' = Visible(v, u) \/ Visible(v, u)' = table'[u]
             \/ /\ \E w \in Writers : table'[u] = Visible(w, u)
                /\ \A v \in Writers : Visible(v, u)' = table'[u]
  <2>1. ASSUME NEW u \in Tables
        PROVE  /\ EventsIn(TailHash(table'[u], anchor[u]))
                     \subseteq Archived \cup {r.ev : r \in table'[u]}
               /\ \A v \in Writers :
                    /\ EventsIn(TailHash(Visible(v, u)', anchor[u]))
                          \subseteq Archived \cup {r.ev : r \in Visible(v, u)'}
                    /\ Grown(TailHash(Visible(v, u)', anchor[u]), TailHash(table'[u], anchor[u]))
    <3>1. CASE /\ table'[u] = table[u]
               /\ \A v \in Writers :
                     Visible(v, u)' = Visible(v, u) \/ Visible(v, u)' = table'[u]
      <4>1. ASSUME NEW v \in Writers PROVE Grown(TailHash(table[u], anchor[u]), TailHash(table[u], anchor[u]))
        BY <1>3, GrownFacts
      <4>2. QED
        BY <3>1, <4>1 DEF LogInv, Backed
    <3>2. CASE /\ \E w \in Writers : table'[u] = Visible(w, u)
               /\ \A v \in Writers : Visible(v, u)' = table'[u]
      <4>1. PICK w \in Writers : table'[u] = Visible(w, u)
        BY <3>2
      <4>2. Grown(TailHash(Visible(w, u), anchor[u]), TailHash(Visible(w, u), anchor[u]))
        BY <1>3, GrownFacts
      <4>3. QED
        BY <3>2, <4>1, <4>2 DEF LogInv, Backed
    <3>3. QED
      BY <1>5, <3>1, <3>2
  <2>2. QED
    BY <1>1, <1>2, <2>1 DEF LogInv, Backed
<1>6. QED
  BY <1>4, <1>5, VisibleStep

\* Seen through the newest digest of each table, the writers' transactions are
\* atomic appends to a log: a commit adds new events behind everything that was
\* recorded, each once, and nothing else changes it (writer.py's promise to
\* verify_chain and to every reader of the audit tables).
THEOREM ImplementsAuditLogHolds ==
    NoAliasing /\ ~Redelivery => (Spec => ImplementsAuditLog)
<1> SUFFICES ASSUME NoAliasing, ~Redelivery PROVE Spec => ImplementsAuditLog
  OBVIOUS
<1> DEFINE I == TypeInv /\ ChainInv /\ LogInv
           digest == [t \in Tables |-> TailHash(table[t], anchor[t])]
<1>1. Init => I
  BY TypeInit, LockInit, SeqInit, FreshInit, HeadInit, LogInit DEF ChainInv
<1>2. I /\ [Next]_vars => I'
  <2> SUFFICES ASSUME I, [Next]_vars PROVE I'
    OBVIOUS
  <2>1. TypeInv' /\ ChainInv'
    BY ChainStep
  <2>2. LogInv'
    BY LogStep
  <2>3. QED
    BY <2>1, <2>2
<1>3. Init => AuditLog!Init
  <2> SUFFICES ASSUME Init PROVE AuditLog!Init
    OBVIOUS
  <2>1. \A t \in Tables : TailHash(table[t], anchor[t]) = anchor[t]
    BY DEF Init, NoRows, TailHash
  <2>2. QED
    BY <2>1 DEF Init, AuditLog!Init
<1>4. I /\ I' /\ [Next]_vars => [AuditLog!Next]_digest
  <2> SUFFICES ASSUME I, I', [Next]_vars PROVE AuditLog!Next
    OBVIOUS
  <2>1. \A t \in Tables : Grown(TailHash(table'[t], anchor'[t]), TailHash(table[t], anchor[t]))
    <3>1. SUFFICES ASSUME NEW t \in Tables
                   PROVE  Grown(TailHash(table'[t], anchor[t]), TailHash(table[t], anchor[t]))
      BY VisibleStep DEF TypeInv, ChainInv
    <3>2. \/ table'[t] = table[t]
          \/ \E w \in Writers : table'[t] = Visible(w, t)
      BY VisibleStep DEF TypeInv, ChainInv
    <3>3. TailHash(table[t], anchor[t]) \in Seq(Contents)
      <4>1. /\ table[t] \in SUBSET Rows(Contents) /\ HasTail(table[t])
            /\ anchor[t] \in Seq(Contents)
        BY DEF TypeInv, TypeOK, TailInv, Digests
      <4>2. QED
        BY <4>1, TailHashType
    <3>4. QED
      BY <3>2, <3>3, GrownFacts DEF LogInv
  <2>2. QED
    BY <2>1 DEF Grown, EventsIn, AuditLog!Next, AuditLog!CommitRows, AuditLog!Extends,
                AuditLog!Recorded
<1>5. QED
  <2> HIDE DEF I
  <2>1. QED
    BY <1>1, <1>2, <1>3, <1>4, PTL DEF Spec, ImplementsAuditLog, AuditLog!Spec
-----------------------------------------------------------------------------
(***************************************************************************)
(* What at-least-once delivery may not break, with any duplicates and any  *)
(* tenants sharing a schema: no event is stored twice, no row chains onto  *)
(* a digest that the table does not hold, and writers whose partitions     *)
(* exist never wait for one another in a circle.                           *)
(***************************************************************************)

(* The inductive strengthening of OnceOnly and Rooted, which hold however  *)
(* often events are delivered and whichever tenants share a schema.        *)

\* No event is stored twice, committed or not.
StoredOnce == \A t \in Tables : \A r, q \in Stored(t) : r.ev = q.ev => r = q

\* A row is rooted in what its own transaction sees, and so is every head
\* that a call has read.
RootInv ==
    /\ \A t \in Tables : \A r \in Stored(t) : r.seq < nextseq[t]
    /\ Rooted
    /\ \A w \in Writers, t \in Tables :
          \A r \in pend[w][t] : RootedIn(r, Visible(w, t), anchor[t])
    /\ \A w \in Writers : \A k \in ReadKeys(w) :
          \/ heads[w][k] = anchor[Parent[k]]
          \/ \E q \in Visible(w, Parent[k]) : q.hash = heads[w][k]

-----------------------------------------------------------------------------
\* Nothing is stored at the start.
LEMMA OnceInit == Init => StoredOnce
BY DEF Init, StoredOnce, Stored, NoRows

\* An insert waits for every transaction that holds the same key, so the row
\* it adds is new to all of them; the end of a transaction adds none.
LEMMA OnceStep ==
    ASSUME TypeOK, LockInv, StoredOnce, [Next]_vars
    PROVE  StoredOnce'
<1>1. ASSUME NEW w \in Writers, InsertRow(w) PROVE StoredOnce'
  <2> DEFINE e == Head(batch[w])
             k == KeyOf[e]
             t == Parent[k]
             row == RowOf(nextseq[t], e, heads[w][k])
  <2>1. t \in Tables /\ row.ev = e /\ table' = table
    BY <1>1, InsertFacts
  <2>2. /\ \A v \in Writers \ {w} : \A r \in pend[v][t] : r.ev # e
        /\ InsertFresh(w, e, k, t) \/ AdoptDuplicate(w, e, k, t)
    BY <1>1 DEF InsertRow
  <2>3. CASE AdoptDuplicate(w, e, k, t)
    <3>1. pend' = pend
      BY <2>3 DEF AdoptDuplicate
    <3>2. QED
      BY <2>1, <3>1 DEF StoredOnce, Stored
  <2>4. CASE InsertFresh(w, e, k, t)
    <3>1. /\ \A r \in Visible(w, t) : r.ev # e
          /\ pend' = [pend EXCEPT ![w][t] = @ \cup {row}]
      BY <2>4 DEF InsertFresh
    <3> HIDE DEF row, t, k, e
    <3>2. \A r \in Stored(t) : r.ev # e
      BY <2>2, <3>1 DEF Stored, Visible
    <3>3. \A u \in Tables : Stored(u)' \subseteq IF u = t THEN Stored(u) \cup {row} ELSE Stored(u)
      <4>1. \A v \in Writers, u \in Tables :
               pend'[v][u] \subseteq IF u = t THEN pend[v][u] \cup {row} ELSE pend[v][u]
        BY <2>1, <3>1 DEF TypeOK
      <4>2. QED
        BY <2>1, <4>1 DEF Stored
    <3>4. QED
      BY <2>1, <3>2, <3>3 DEF StoredOnce
  <2>5. QED
    BY <2>2, <2>3, <2>4
<1>2. ASSUME NEW w \in Writers, Commit(w) PROVE StoredOnce'
  <2>1. /\ \A u \in Tables : table'[u] = table[u] \cup pend[w][u]
        /\ \A v \in Writers, u \in Tables : pend'[v][u] \subseteq pend[v][u]
    BY <1>2 DEF Commit, EndTransaction, NoRows, TypeOK
  <2>2. \A u \in Tables : Stored(u)' \subseteq Stored(u)
    BY <2>1 DEF Stored
  <2>3. QED
    BY <2>2 DEF StoredOnce
<1>3. ASSUME NEW w \in Writers, Abort(w) PROVE StoredOnce'
  <2>1. /\ table' = table
        /\ \A v \in Writers, u \in Tables : pend'[v][u] \subseteq pend[v][u]
    BY <1>3 DEF Abort, EndTransaction, NoRows, TypeOK
  <2>2. \A u \in Tables : Stored(u)' \subseteq Stored(u)
    BY <2>1 DEF Stored
  <2>3. QED
    BY <2>2 DEF StoredOnce
<1>4. CASE table' = table /\ pend' = pend
  BY <1>4 DEF StoredOnce, Stored
<1>5. QED
  BY <1>1, <1>2, <1>3, <1>4, StepKinds

\* A re-delivered event is never recorded twice, by any number of writers that
\* hold it at the same time (ON CONFLICT (event_id, ts) DO NOTHING).
THEOREM OnceOnlyHolds == Spec => []OnceOnly
<1> DEFINE I == TypeInv /\ LockInv /\ StoredOnce
<1>1. Init => I
  BY TypeInit, LockInit, OnceInit
<1>2. I /\ [Next]_vars => I'
  BY TypeStep, LockStep, OnceStep DEF TypeInv
<1>3. I => OnceOnly
  BY DEF StoredOnce, Stored, OnceOnly
<1>4. QED
  <2> HIDE DEF I
  <2>1. QED
    BY <1>1, <1>2, <1>3, PTL DEF Spec

-----------------------------------------------------------------------------
\* No row and no head at the start.
LEMMA RootInit == Init => RootInv
<1> SUFFICES ASSUME Init PROVE RootInv
  OBVIOUS
<1>1. \A t \in Tables : table[t] = {} /\ Stored(t) = {}
  BY DEF Init, Stored, NoRows
<1>2. \A w \in Writers, t \in Tables : pend[w][t] = {}
  BY DEF Init, NoRows
<1>3. \A w \in Writers : ReadKeys(w) = {}
  BY EmptyBatch DEF Init, ReadKeys
<1>4. QED
  BY <1>1, <1>2, <1>3 DEF RootInv, Rooted

\* A row stays rooted when rows are added around it.
LEMMA RootedMore ==
    ASSUME NEW r, NEW S, NEW T, NEW a, RootedIn(r, S, a), S \subseteq T
    PROVE  RootedIn(r, T, a)
BY DEF RootedIn

\* The head read from a table that has a tail is the anchor or a row's hash.
LEMMA TailHashIsAHash ==
    ASSUME NEW S, NEW a, HasTail(S)
    PROVE  TailHash(S, a) = a \/ \E q \in S : q.hash = TailHash(S, a)
<1>1. CASE S = {}
  BY <1>1 DEF TailHash
<1>2. CASE S # {}
  <2>1. PICK r \in S : IsTail(r, S)
    BY <1>2 DEF HasTail
  <2>2. (CHOOSE q \in S : IsTail(q, S)) \in S
    BY <2>1
  <2>3. TailHash(S, a) = (CHOOSE q \in S : IsTail(q, S)).hash
    BY <1>2 DEF TailHash
  <2>4. PICK c \in S : c = CHOOSE q \in S : IsTail(q, S)
    BY <2>2, Zenon
  <2>5. TailHash(S, a) = c.hash
    BY <2>3, <2>4
  <2>6. QED
    BY <2>5
<1>3. QED
  BY <1>1, <1>2

\* Whatever a row is chained onto, its own transaction sees; a commit shows it
\* to everyone together with the row, and an abort removes both.
LEMMA RootStep ==
    ASSUME TypeOK, TailInv, LockInv, RootInv, [Next]_vars
    PROVE  RootInv'
<1> DEFINE HeadOK(v, j) ==
             \/ heads[v][j] = anchor[Parent[j]]
             \/ \E q \in Visible(v, Parent[j]) : q.hash = heads[v][j]
<1>0. /\ \A t \in Tables : nextseq[t] \in Nat /\ \A r \in Stored(t) : r.seq \in Nat
      /\ \A v \in Writers : \A j \in ReadKeys(v) : HeadOK(v, j)
  BY DEF TypeOK, Stored, Rows, RootInv
<1>1. ASSUME NEW w \in Writers, InsertRow(w) PROVE RootInv'
  <2> DEFINE e == Head(batch[w])
             k == KeyOf[e]
             t == Parent[k]
             row == RowOf(nextseq[t], e, heads[w][k])
  <2>1. /\ k \in Keys /\ t \in Tables /\ k \in ReadKeys(w)
        /\ batch[w] \in Seq(Events) /\ batch[w] # <<>>
        /\ HashOK(row) /\ row.seq = nextseq[t] /\ row.prev = heads[w][k]
        /\ table' = table /\ anchor' = anchor /\ needK' = needK
        /\ batch' = [batch EXCEPT ![w] = Tail(@)]
        /\ nextseq' = [nextseq EXCEPT ![t] = @ + 1]
    BY <1>1, InsertFacts
  <2>2. \/ /\ pend' = [pend EXCEPT ![w][t] = @ \cup {row}]
           /\ heads' = [heads EXCEPT ![w][k] = row.hash]
        \/ /\ pend' = pend
           /\ \E r \in Visible(w, t) : heads' = [heads EXCEPT ![w][k] = r.hash]
    BY <1>1 DEF InsertRow, InsertFresh, AdoptDuplicate
  <2>3. t = Parent[k]
    OBVIOUS
  <2> HIDE DEF row, t, k, e
  <2>4. \A v \in Writers, u \in Tables :
           /\ pend[v][u] \subseteq pend'[v][u]
           /\ pend'[v][u] \subseteq pend[v][u] \cup {row}
           /\ ~(v = w /\ u = t) => pend'[v][u] = pend[v][u]
    BY <2>1, <2>2 DEF TypeOK
  <2>5. RootedIn(row, Visible(w, t), anchor[t])
    <3>1. HeadOK(w, k)
      BY <1>0, <2>1
    <3>2. \A q \in Visible(w, t) : q.seq < row.seq
      BY <2>1 DEF RootInv, Stored, Visible
    <3>3. QED
      BY <2>1, <2>3, <3>1, <3>2 DEF RootedIn
  <2>6. \A u \in Tables : \A r \in Stored(u)' : r.seq < nextseq'[u]
    <3>1. SUFFICES ASSUME NEW u \in Tables, NEW r \in Stored(u)'
                   PROVE  r.seq < nextseq'[u]
      OBVIOUS
    <3>2. r \in Stored(u) \/ (r = row /\ u = t)
      BY <2>1, <2>4 DEF Stored
    <3>3. nextseq'[u] = IF u = t THEN nextseq[u] + 1 ELSE nextseq[u]
      BY <2>1 DEF TypeOK
    <3>4. CASE r \in Stored(u)
      BY <1>0, <3>3, <3>4 DEF RootInv
    <3>5. CASE r = row /\ u = t
      BY <1>0, <2>1, <3>3, <3>5
    <3>6. QED
      BY <3>2, <3>4, <3>5
  <2>7. Rooted'
    BY <2>1 DEF RootInv, Rooted
  <2>8. ASSUME NEW v \in Writers, NEW u \in Tables, NEW r \in pend'[v][u]
        PROVE  RootedIn(r, Visible(v, u)', anchor'[u])
    <3>1. Visible(v, u) \subseteq Visible(v, u)'
      BY <2>1, <2>4 DEF Visible
    <3>2. RootedIn(r, Visible(v, u), anchor[u])
      <4>1. r \in pend[v][u] \/ (r = row /\ v = w /\ u = t)
        BY <2>4
      <4>2. QED
        BY <2>5, <4>1 DEF RootInv
    <3>3. QED
      BY <2>1, <3>1, <3>2, RootedMore
  <2>9. ASSUME NEW v \in Writers, NEW j \in ReadKeys(v)' PROVE HeadOK(v, j)'
    <3>1. j \in ReadKeys(v)
      <4>1. EventsIn(batch'[v]) \subseteq EventsIn(batch[v])
        <5>1. CASE v = w
          BY <2>1, <5>1, TailEvents DEF TypeOK
        <5>2. CASE v # w
          BY <2>1, <5>2 DEF TypeOK
        <5>3. QED
          BY <5>1, <5>2
      <4>2. QED
        BY <2>1, <4>1 DEF ReadKeys
    <3>2. j \in Keys /\ Parent[j] \in Tables /\ HeadOK(v, j)
      BY <1>0, <3>1, ReadKeysType
    <3>3. Visible(v, Parent[j]) \subseteq Visible(v, Parent[j])'
      BY <2>1, <2>4, <3>2 DEF Visible
    <3>4. CASE v = w /\ j = k
      <4>1. \E q \in table'[t] \cup pend'[w][t] : heads' = [heads EXCEPT ![w][k] = q.hash]
        <5>1. CASE /\ pend' = [pend EXCEPT ![w][t] = @ \cup {row}]
                   /\ heads' = [heads EXCEPT ![w][k] = row.hash]
          BY <2>1, <5>1 DEF Visible, TypeOK
        <5>2. CASE /\ pend' = pend
                   /\ \E r \in Visible(w, t) : heads' = [heads EXCEPT ![w][k] = r.hash]
          BY <2>1, <5>2 DEF Visible
        <5>3. QED
          BY <2>2, <5>1, <5>2
      <4>2. PICK q \in table'[t] \cup pend'[w][t] : heads'[v][j] = q.hash
        BY <2>1, <3>4, <4>1 DEF TypeOK
      <4>3. QED
        BY <2>3, <3>4, <4>2 DEF Visible
    <3>5. CASE ~(v = w /\ j = k)
      <4>1. heads'[v][j] = heads[v][j]
        BY <2>1, <2>2, <3>2, <3>5 DEF TypeOK
      <4>2. QED
        BY <2>1, <3>2, <3>3, <4>1
    <3>6. QED
      BY <3>4, <3>5
  <2>10. QED
    BY <2>6, <2>7, <2>8, <2>9 DEF RootInv
<1>2. ASSUME NEW w \in Writers, Commit(w) PROVE RootInv'
  <2>1. /\ anchor' = anchor /\ heads' = heads /\ nextseq' = nextseq
        /\ batch' = [batch EXCEPT ![w] = <<>>] /\ needK' = [needK EXCEPT ![w] = {}]
        /\ pend' = [pend EXCEPT ![w] = NoRows]
        /\ \A u \in Tables : table'[u] = table[u] \cup pend[w][u]
    BY <1>2 DEF Commit, EndTransaction
  <2>2. /\ \A v \in Writers, u \in Tables : pend'[v][u] \subseteq pend[v][u]
        /\ \A v \in Writers \ {w} : pend'[v] = pend[v]
        /\ \A u \in Tables : pend'[w][u] = {}
    BY <2>1 DEF NoRows, TypeOK
  <2>3. \A u \in Tables : Stored(u)' \subseteq Stored(u)
    BY <2>1, <2>2 DEF Stored
  <2>4. Rooted'
    <3>1. SUFFICES ASSUME NEW u \in Tables, NEW r \in table'[u]
                   PROVE  RootedIn(r, table'[u], anchor[u])
      BY <2>1 DEF Rooted
    <3>2. CASE r \in table[u]
      <4>1. RootedIn(r, table[u], anchor[u]) /\ table[u] \subseteq table'[u]
        BY <2>1, <3>2 DEF RootInv, Rooted
      <4>2. QED
        BY <4>1, RootedMore
    <3>3. CASE r \in pend[w][u]
      BY <2>1, <3>3 DEF RootInv, Visible
    <3>4. QED
      BY <2>1, <3>2, <3>3
  <2>5. ASSUME NEW v \in Writers, NEW u \in Tables, NEW r \in pend'[v][u]
        PROVE  RootedIn(r, Visible(v, u)', anchor'[u])
    <3>1. v # w /\ r \in pend[v][u]
      BY <2>2
    <3>2. Visible(v, u) \subseteq Visible(v, u)'
      BY <2>1, <2>2, <3>1 DEF Visible
    <3>3. RootedIn(r, Visible(v, u), anchor[u])
      BY <3>1 DEF RootInv
    <3>4. QED
      BY <2>1, <3>2, <3>3, RootedMore
  <2>6. ASSUME NEW v \in Writers, NEW j \in ReadKeys(v)' PROVE HeadOK(v, j)'
    <3>1. v # w /\ j \in ReadKeys(v)
      BY <2>1, EmptyBatch DEF ReadKeys, TypeOK
    <3>2. Parent[j] \in Tables /\ HeadOK(v, j)
      BY <1>0, <3>1, ReadKeysType
    <3>3. Visible(v, Parent[j]) \subseteq Visible(v, Parent[j])'
      BY <2>1, <2>2, <3>1, <3>2 DEF Visible
    <3>4. QED
      BY <2>1, <3>2, <3>3
  <2>7. \A u \in Tables : \A r \in Stored(u)' : r.seq < nextseq'[u]
    BY <2>1, <2>3 DEF RootInv
  <2>8. QED
    BY <2>4, <2>5, <2>6, <2>7 DEF RootInv
<1>3. ASSUME NEW w \in Writers, Abort(w) PROVE RootInv'
  <2>1. /\ anchor' = anchor /\ table' = table /\ nextseq' = nextseq
        /\ batch' = [batch EXCEPT ![w] = <<>>] /\ needK' = [needK EXCEPT ![w] = {}]
        /\ pend' = [pend EXCEPT ![w] = NoRows]
        /\ heads' = [heads EXCEPT ![w] = [k \in Keys |-> NoHash]]
    BY <1>3 DEF Abort, EndTransaction
  <2>2. /\ \A v \in Writers, u \in Tables : pend'[v][u] \subseteq pend[v][u]
        /\ \A v \in Writers \ {w} : pend'[v] = pend[v] /\ heads'[v] = heads[v]
        /\ \A u \in Tables : pend'[w][u] = {}
    BY <2>1 DEF NoRows, TypeOK
  <2>3. \A u \in Tables : Stored(u)' \subseteq Stored(u)
    BY <2>1, <2>2 DEF Stored
  <2>4. \A v \in Writers \ {w}, u \in Tables : Visible(v, u)' = Visible(v, u)
    BY <2>1, <2>2 DEF Visible
  <2>5. ASSUME NEW v \in Writers, NEW u \in Tables, NEW r \in pend'[v][u]
        PROVE  RootedIn(r, Visible(v, u)', anchor'[u])
    <3>1. v # w /\ r \in pend[v][u]
      BY <2>2
    <3>2. QED
      BY <2>1, <2>4, <3>1 DEF RootInv
  <2>6. ASSUME NEW v \in Writers, NEW j \in ReadKeys(v)' PROVE HeadOK(v, j)'
    <3>1. v # w /\ j \in ReadKeys(v)
      BY <2>1, EmptyBatch DEF ReadKeys, TypeOK
    <3>2. Parent[j] \in Tables /\ HeadOK(v, j)
      BY <1>0, <3>1, ReadKeysType
    <3>3. QED
      BY <2>1, <2>2, <2>4, <3>1, <3>2
  <2>7. \A u \in Tables : \A r \in Stored(u)' : r.seq < nextseq'[u]
    BY <2>1, <2>3 DEF RootInv
  <2>8. Rooted'
    BY <2>1 DEF RootInv, Rooted
  <2>9. QED
    BY <2>5, <2>6, <2>7, <2>8 DEF RootInv
<1>4. ASSUME NEW w \in Writers, SeedHead(w) PROVE RootInv'
  <2>1. PICK k \in needK[w] :
          /\ heads' = [heads EXCEPT ![w][k] =
                          TailHash(Visible(w, Parent[k]), anchor[Parent[k]])]
          /\ needK' = [needK EXCEPT ![w] = @ \ {k}]
    BY <1>4 DEF SeedHead
  <2>2. /\ table' = table /\ pend' = pend /\ anchor' = anchor /\ batch' = batch
        /\ nextseq' = nextseq
    BY <1>4 DEF SeedHead, db, tx
  <2>3. ASSUME NEW v \in Writers, NEW j \in ReadKeys(v)' PROVE HeadOK(v, j)'
    <3>1. j \in Keys /\ Parent[j] \in Tables
      <4>1. PICK x \in EventsIn(batch[v]) : j = KeyOf[x]
        BY <2>2 DEF ReadKeys
      <4>2. x \in Events
        BY DEF EventsIn, TypeOK
      <4>3. QED
        BY <4>1, <4>2, WriterConstants
    <3>2. CASE v = w /\ j = k
      <4>1. HasTail(Visible(w, Parent[k]))
        <5>1. /\ HasTail(table[Parent[k]]) /\ HasTail(pend[w][Parent[k]])
              /\ table[Parent[k]] \in SUBSET Rows(Contents)
              /\ pend[w][Parent[k]] \in SUBSET Rows(Contents)
          BY <3>1, <3>2 DEF TailInv, TypeOK
        <5>2. QED
          BY <5>1, TailOfUnion DEF Visible
      <4>2. heads'[v][j] = TailHash(Visible(w, Parent[k]), anchor[Parent[k]])
        BY <2>1, <3>1, <3>2 DEF TypeOK
      <4>3. QED
        BY <2>2, <3>2, <4>1, <4>2, TailHashIsAHash DEF Visible
    <3>3. CASE ~(v = w /\ j = k)
      <4>1. j \in ReadKeys(v)
        BY <2>1, <2>2, <3>3 DEF ReadKeys, TypeOK
      <4>2. heads'[v][j] = heads[v][j]
        BY <2>1, <3>1, <3>3 DEF TypeOK
      <4>3. QED
        BY <1>0, <2>2, <4>1, <4>2 DEF Visible
    <3>4. QED
      BY <3>2, <3>3
  <2>4. QED
    BY <2>2, <2>3 DEF RootInv, Rooted, Visible, Stored
<1>5. ASSUME NEW w \in Writers, NEW b \in Batches, Call(w, b) PROVE RootInv'
  <2>1. /\ table' = table /\ pend' = pend /\ anchor' = anchor /\ heads' = heads
        /\ nextseq' = nextseq /\ batch' = [batch EXCEPT ![w] = b]
        /\ needK' = [needK EXCEPT ![w] = {KeyOf[e] : e \in EventsIn(b)}]
    BY <1>5 DEF Call, db
  <2>2. \A v \in Writers : ReadKeys(v)' \subseteq ReadKeys(v)
    BY <2>1 DEF ReadKeys, TypeOK
  <2>3. ASSUME NEW v \in Writers, NEW j \in ReadKeys(v)' PROVE HeadOK(v, j)'
    BY <1>0, <2>1, <2>2 DEF Visible
  <2>4. /\ Rooted'
        /\ \A u \in Tables : \A r \in Stored(u)' : r.seq < nextseq'[u]
    BY <2>1 DEF RootInv, Rooted, Stored
  <2>5. \A v \in Writers, u \in Tables :
           \A r \in pend'[v][u] : RootedIn(r, Visible(v, u)', anchor'[u])
    BY <2>1 DEF RootInv, Visible
  <2>6. QED
    BY <2>3, <2>4, <2>5 DEF RootInv
<1>6. CASE /\ table' = table /\ pend' = pend /\ anchor' = anchor /\ nextseq' = nextseq
           /\ heads' = heads /\ batch' = batch /\ needK' = needK
  BY <1>6 DEF RootInv, Rooted, Visible, Stored, ReadKeys
<1>7. QED
  <2>1. \/ \E w \in Writers, b \in Batches : Call(w, b)
        \/ \E w \in Writers : SeedHead(w) \/ InsertRow(w) \/ Commit(w) \/ Abort(w)
        \/ /\ table' = table /\ pend' = pend /\ anchor' = anchor /\ nextseq' = nextseq
           /\ heads' = heads /\ batch' = batch /\ needK' = needK
    BY DEF Next, vars, db, locks, tx, call, LockPartition, FindPartition,
           CreatePartition, LockChain
  <2>2. QED
    BY <1>1, <1>2, <1>3, <1>4, <1>5, <1>6, <2>1

\* No committed row chains onto a row that was rolled back or never stored,
\* whatever is re-delivered and whichever writers fail (write_batch with
\* _reset_conn): its digest is over the archive or over a committed row.
THEOREM RootedHolds == Spec => []Rooted
<1> DEFINE I == TypeInv /\ LockInv /\ RootInv
<1>1. Init => I
  BY TypeInit, LockInit, RootInit
<1>2. I /\ [Next]_vars => I'
  BY TypeStep, LockStep, RootStep DEF TypeInv
<1>3. I => Rooted
  BY DEF RootInv
<1>4. QED
  <2> HIDE DEF I
  <2>1. QED
    BY <1>1, <1>2, <1>3, PTL DEF Spec

-----------------------------------------------------------------------------
(* HeadOnTail: the head in a writer's hands, with re-delivery.             *)

\* A head that a call has read is the tail of the chain or a stored digest.
HeldInv ==
    \A w \in Writers : \A k \in ReadKeys(w) :
        OnTail(w, k) \/ \E r \in Visible(w, Parent[k]) : r.hash = heads[w][k]

\* What HeadOnTail says of one step, one writer and one chain.
TailOrSkipped(w, k) ==
    \/ OnTail(w, k)'
    \/ /\ k \in ReadKeys(w) /\ pend'[w][Parent[k]] = pend[w][Parent[k]]
       /\ ~OnTail(w, k) \/ SkipsRow(w, k)
       /\ \E r \in Visible(w, Parent[k])' : r.hash = heads'[w][k]

\* A row after all others is the tail.
LEMMA AppendTail ==
    ASSUME NEW S, NEW a, NEW row, row.seq \in Nat,
           \A q \in S : q.seq \in Nat /\ q.seq < row.seq
    PROVE  TailHash(S \cup {row}, a) = row.hash
<1> DEFINE T == S \cup {row}
<1>1. \A q \in T : q.seq \in Nat
  OBVIOUS
<1>2. \A q \in T : IsTail(q, T) <=> q = row
  BY <1>1 DEF IsTail
<1>3. QED
  BY <1>2 DEF TailHash

\* A step that leaves a head and what its writer sees of the chain alone.
LEMMA HeadKept ==
    ASSUME HeldInv, NEW v \in Writers, NEW j \in ReadKeys(v),
           heads'[v][j] = heads[v][j], anchor' = anchor,
           table'[Parent[j]] = table[Parent[j]],
           pend'[v][Parent[j]] = pend[v][Parent[j]]
    PROVE  TailOrSkipped(v, j)
<1>1. Visible(v, Parent[j])' = Visible(v, Parent[j])
  BY DEF Visible
<1>2. CASE OnTail(v, j)
  BY <1>1, <1>2 DEF OnTail, TailOrSkipped, Visible
<1>3. CASE ~OnTail(v, j)
  <2>1. \E r \in Visible(v, Parent[j]) : r.hash = heads[v][j]
    BY <1>3 DEF HeldInv
  <2>2. \E r \in Visible(v, Parent[j])' : r.hash = heads'[v][j]
    BY <1>1, <2>1
  <2>3. QED
    BY <1>3, <2>2 DEF TailOrSkipped
<1>4. QED
  BY <1>2, <1>3

\* The chain lock keeps what others do away from the head that a call has read.
LEMMA HeadOnTailStep ==
    ASSUME NoAliasing, TypeOK, LockInv, SeqInv, HeldInv, [Next]_vars,
           NEW v \in Writers, NEW j \in ReadKeys(v)'
    PROVE  TailOrSkipped(v, j)
<1>1. ASSUME NEW w \in Writers, InsertRow(w) PROVE TailOrSkipped(v, j)
  <2> DEFINE e == Head(batch[w])
             k == KeyOf[e]
             t == Parent[k]
             row == RowOf(nextseq[t], e, heads[w][k])
  <2>1. /\ k \in Keys /\ t \in Tables /\ k \in ReadKeys(w)
        /\ batch[w] \in Seq(Events) /\ batch[w] # <<>>
        /\ row \in Rows(Contents) /\ row.seq = nextseq[t]
        /\ table' = table /\ anchor' = anchor /\ needK' = needK
        /\ batch' = [batch EXCEPT ![w] = Tail(@)]
    BY <1>1, InsertFacts
  <2>2. \/ /\ pend' = [pend EXCEPT ![w][t] = @ \cup {row}]
           /\ heads' = [heads EXCEPT ![w][k] = row.hash]
        \/ /\ pend' = pend
           /\ \E r \in Visible(w, t) : heads' = [heads EXCEPT ![w][k] = r.hash]
    <3>1. InsertFresh(w, e, k, t) \/ AdoptDuplicate(w, e, k, t)
      BY <1>1 DEF InsertRow
    <3>2. CASE InsertFresh(w, e, k, t)
      BY <3>2 DEF InsertFresh
    <3>3. CASE AdoptDuplicate(w, e, k, t)
      BY <3>3 DEF AdoptDuplicate
    <3>4. QED
      BY <3>1, <3>2, <3>3
  <2>3. t = Parent[k] /\ k = KeyOf[Head(batch[w])]
    OBVIOUS
  <2> HIDE DEF row, t, k, e
  <2>4. j \in ReadKeys(v)
    <3>1. EventsIn(batch'[v]) \subseteq EventsIn(batch[v])
      <4>1. CASE v = w
        BY <2>1, <4>1, TailEvents DEF TypeOK
      <4>2. CASE v # w
        BY <2>1, <4>2 DEF TypeOK
      <4>3. QED
        BY <4>1, <4>2
    <3>2. QED
      BY <2>1, <3>1 DEF ReadKeys
  <2>5. j \in Keys /\ Parent[j] \in Tables
    BY <2>4, ReadKeysType
  <2>6. CASE v = w /\ j = k
    <3>1. ASSUME pend' = [pend EXCEPT ![w][t] = @ \cup {row}],
                 heads' = [heads EXCEPT ![w][k] = row.hash]
          PROVE  TailOrSkipped(v, j)
      <4>1. heads'[v][j] = row.hash
        BY <2>1, <2>6, <3>1 DEF TypeOK
      <4>2. Visible(v, Parent[j])' = Visible(w, t) \cup {row}
        BY <2>1, <2>3, <2>6, <3>1 DEF Visible, TypeOK
      <4>3. row.seq \in Nat /\ \A q \in Visible(w, t) : q.seq \in Nat /\ q.seq < row.seq
        BY <2>1 DEF SeqInv, Visible, TypeOK, Rows
      <4>4. TailHash(Visible(w, t) \cup {row}, anchor[t]) = row.hash
        BY <4>3, AppendTail
      <4>5. OnTail(v, j)'
        BY <2>1, <2>3, <2>6, <4>1, <4>2, <4>4 DEF OnTail
      <4>6. QED
        BY <4>5 DEF TailOrSkipped
    <3>2. ASSUME pend' = pend, NEW r \in Visible(w, t),
                 heads' = [heads EXCEPT ![w][k] = r.hash]
          PROVE  TailOrSkipped(v, j)
      <4>1. heads'[v][j] = r.hash
        BY <2>1, <2>6, <3>2 DEF TypeOK
      <4>2. r \in Visible(v, Parent[j])'
        BY <2>1, <2>3, <2>6, <3>2 DEF Visible
      <4>3. SkipsRow(v, j)
        BY <2>1, <2>3, <2>6, <3>2 DEF SkipsRow, TypeOK
      <4>4. QED
        BY <2>4, <3>2, <4>1, <4>2, <4>3 DEF TailOrSkipped
    <3>3. QED
      BY <2>2, <3>1, <3>2
  <2>7. CASE ~(v = w /\ j = k)
    <3>1. heads'[v][j] = heads[v][j]
      BY <2>1, <2>2, <2>5, <2>7 DEF TypeOK
    <3>2. ~(v = w /\ Parent[j] = t)
      BY <2>1, <2>3, <2>5, <2>7 DEF NoAliasing
    <3>3. pend'[v][Parent[j]] = pend[v][Parent[j]]
      BY <2>1, <2>2, <2>5, <3>2 DEF TypeOK
    <3>4. QED
      BY <2>1, <2>4, <3>1, <3>3, HeadKept
  <2>8. QED
    BY <2>6, <2>7
<1>2. ASSUME NEW w \in Writers, Commit(w) PROVE TailOrSkipped(v, j)
  <2>1. /\ anchor' = anchor /\ heads' = heads
        /\ batch' = [batch EXCEPT ![w] = <<>>] /\ needK' = [needK EXCEPT ![w] = {}]
        /\ \A u \in Tables : table'[u] = table[u] \cup pend[w][u]
        /\ pend' = [pend EXCEPT ![w] = NoRows]
    BY <1>2 DEF Commit, EndTransaction
  <2>2. v # w /\ j \in ReadKeys(v)
    BY <2>1, EmptyBatch DEF ReadKeys, TypeOK
  <2>3. j \in Keys /\ Parent[j] \in Tables /\ clock[j] = v
    BY <2>2, ReadKeysType DEF LockInv, CallInv
  <2>4. pend[w][Parent[j]] = {}
    BY <2>2, <2>3, OneWriterPerTable
  <2>5. table'[Parent[j]] = table[Parent[j]] /\ pend'[v] = pend[v]
    BY <2>1, <2>2, <2>3, <2>4 DEF TypeOK
  <2>6. QED
    BY <2>1, <2>2, <2>5, HeadKept
<1>3. ASSUME NEW w \in Writers, Abort(w) PROVE TailOrSkipped(v, j)
  <2>1. /\ anchor' = anchor /\ table' = table
        /\ batch' = [batch EXCEPT ![w] = <<>>] /\ needK' = [needK EXCEPT ![w] = {}]
        /\ pend' = [pend EXCEPT ![w] = NoRows]
        /\ heads' = [heads EXCEPT ![w] = [k \in Keys |-> NoHash]]
    BY <1>3 DEF Abort, EndTransaction
  <2>2. v # w /\ j \in ReadKeys(v)
    BY <2>1, EmptyBatch DEF ReadKeys, TypeOK
  <2>3. heads'[v] = heads[v] /\ pend'[v] = pend[v]
    BY <2>1, <2>2 DEF TypeOK
  <2>4. QED
    BY <2>1, <2>2, <2>3, HeadKept
<1>4. ASSUME NEW w \in Writers, SeedHead(w) PROVE TailOrSkipped(v, j)
  <2>1. PICK k \in needK[w] :
          /\ heads' = [heads EXCEPT ![w][k] =
                          TailHash(Visible(w, Parent[k]), anchor[Parent[k]])]
          /\ needK' = [needK EXCEPT ![w] = @ \ {k}]
    BY <1>4 DEF SeedHead
  <2>2. table' = table /\ pend' = pend /\ anchor' = anchor /\ batch' = batch
    BY <1>4 DEF SeedHead, db, tx
  <2>3. j \in Keys
    <3>1. PICK x \in EventsIn(batch[v]) : j = KeyOf[x]
      BY <2>2 DEF ReadKeys
    <3>2. x \in Events
      BY DEF EventsIn, TypeOK
    <3>3. QED
      BY <3>1, <3>2, WriterConstants
  <2>4. CASE v = w /\ j = k
    <3>1. heads'[v][j] = TailHash(Visible(v, Parent[j]), anchor[Parent[j]])
      BY <2>1, <2>3, <2>4 DEF TypeOK
    <3>2. QED
      BY <2>2, <3>1 DEF TailOrSkipped, OnTail, Visible
  <2>5. CASE ~(v = w /\ j = k)
    <3>1. j \in ReadKeys(v)
      BY <2>1, <2>2, <2>5 DEF ReadKeys, TypeOK
    <3>2. heads'[v][j] = heads[v][j]
      BY <2>1, <2>3, <2>5 DEF TypeOK
    <3>3. QED
      BY <2>2, <3>1, <3>2, HeadKept
  <2>6. QED
    BY <2>4, <2>5
<1>5. ASSUME NEW w \in Writers, NEW b \in Batches, Call(w, b) PROVE TailOrSkipped(v, j)
  <2>1. /\ table' = table /\ pend' = pend /\ anchor' = anchor /\ heads' = heads
        /\ batch' = [batch EXCEPT ![w] = b]
        /\ needK' = [needK EXCEPT ![w] = {KeyOf[e] : e \in EventsIn(b)}]
    BY <1>5 DEF Call, db
  <2>2. j \in ReadKeys(v)
    BY <2>1 DEF ReadKeys, TypeOK
  <2>3. QED
    BY <2>1, <2>2, HeadKept
<1>6. CASE /\ table' = table /\ pend' = pend /\ anchor' = anchor
           /\ heads' = heads /\ batch' = batch /\ needK' = needK
  <2>1. j \in ReadKeys(v)
    BY <1>6 DEF ReadKeys
  <2>2. QED
    BY <1>6, <2>1, HeadKept
<1>7. QED
  <2>1. \/ \E w \in Writers, b \in Batches : Call(w, b)
        \/ \E w \in Writers : SeedHead(w) \/ InsertRow(w) \/ Commit(w) \/ Abort(w)
        \/ /\ table' = table /\ pend' = pend /\ anchor' = anchor
           /\ heads' = heads /\ batch' = batch /\ needK' = needK
    BY DEF Next, vars, db, locks, tx, call, LockPartition, FindPartition,
           CreatePartition, LockChain
  <2>2. QED
    BY <1>1, <1>2, <1>3, <1>4, <1>5, <1>6, <2>1

\* Whatever is re-delivered, inserted, committed or rolled back by others, the
\* head a call has read of a chain is the chain's tail until the call meets its
\* own duplicate there, and a stored row's digest from then to its next new row
\* (write_batch with _lock_chain, _seed_head and _stored_hash).
THEOREM HeadOnTailHolds == NoAliasing => (Spec => HeadOnTail)
<1> SUFFICES ASSUME NoAliasing PROVE Spec => HeadOnTail
  OBVIOUS
<1> DEFINE I == TypeInv /\ LockInv /\ SeqInv /\ HeldInv
           A == \A w \in Writers : \A k \in ReadKeys(w)' : TailOrSkipped(w, k)
<1>1. Init => I
  <2> SUFFICES ASSUME Init PROVE I
    OBVIOUS
  <2>1. \A w \in Writers : ReadKeys(w) = {}
    BY EmptyBatch DEF Init, ReadKeys
  <2>2. HeldInv
    BY <2>1 DEF HeldInv
  <2>3. QED
    BY <2>2, TypeInit, LockInit, SeqInit
<1>2. I /\ [Next]_vars => A
  BY HeadOnTailStep DEF TypeInv
<1>3. A => HeldInv'
  <2> SUFFICES ASSUME A, NEW w \in Writers, NEW k \in ReadKeys(w)'
               PROVE  OnTail(w, k)' \/ \E r \in Visible(w, Parent[k])' : r.hash = heads'[w][k]
    BY DEF HeldInv
  <2>1. QED
    BY DEF TailOrSkipped
<1>4. I /\ [Next]_vars => I'
  BY <1>2, <1>3, TypeStep, LockStep, SeqStep DEF TypeInv
<1>5. Spec => [][A]_vars
  <2> HIDE DEF I, A
  <2>1. QED
    BY <1>1, <1>2, <1>4, PTL DEF Spec
<1>6. QED
  BY <1>5 DEF HeadOnTail, TailOrSkipped

-----------------------------------------------------------------------------
(* SortedNeverCircular: writers that each take one sorted sequence of      *)
(* locks do not wait for one another, whatever the other writers do.       *)

\* p comes before q in sorted(partitions).
Before(p, q) ==
    \/ TableRank[p[1]] < TableRank[q[1]]
    \/ TableRank[p[1]] = TableRank[q[1]] /\ p[2] < q[2]

\* Every lock w holds comes before the ones it still needs, or is the one it
\* has just taken, and it holds no chain and has no table open while it needs a
\* partition.
LocksSorted(w) ==
    /\ needP[w] # {} => /\ \A k \in Keys : clock[k] # w
                        /\ \A t \in Tables : w \notin slock[t]
    /\ \A p \in Partitions : plock[p] = w => \A q \in needP[w] :
          \/ Before(p, q)
          \/ pc[w] \in {"ensure", "create"} /\ p = q /\ FirstPart(p, needP[w])
    /\ \A k \in Keys : clock[k] = w => \A j \in needK[w] :
          \/ KeyRank[k] < KeyRank[j]
          \/ pc[w] = "seed" /\ k = j /\ FirstKey(k, needK[w])

\* A writer between transactions holds nothing, one that holds a parent has
\* created a partition of it, one with an uncommitted row holds its chain, and
\* one that takes a single sequence of locks has them sorted.
WaitOK(w) ==
    /\ pc[w] # "idle" => calls[w] >= 1
    /\ pc[w] = "idle" => /\ \A p \in Partitions : plock[p] # w
                         /\ \A k \in Keys : clock[k] # w
                         /\ \A t \in Tables : w \notin slock[t]
    /\ \A t \in Tables : xlock[t] = w => made[w] # {}
    /\ \A t \in Tables : \A r \in pend[w][t] :
          r.ev \in Events /\ clock[KeyOf[r.ev]] = w
    /\ OneSequence(w) => LocksSorted(w)

WaitInv == \A w \in Writers : WaitOK(w)

\* The first of the needed partitions comes before the others.
LEMMA FirstBefore ==
    ASSUME NEW S \in SUBSET Partitions, NEW p \in S, FirstPart(p, S), NEW q \in S, q # p
    PROVE  Before(p, q)
<1>1. PICK t \in Tables, d \in Days : p = <<t, d>>
  BY DEF Partitions
<1>2. PICK u \in Tables, c \in Days : q = <<u, c>>
  BY DEF Partitions
<1>3. TableRank[t] \in Int /\ TableRank[u] \in Int /\ d \in Int /\ c \in Int
  BY WriterConstants
<1>4. TableRank[t] < TableRank[u] \/ (TableRank[t] = TableRank[u] /\ d <= c)
  BY <1>1, <1>2 DEF FirstPart
<1>5. TableRank[t] = TableRank[u] => d # c
  BY <1>1, <1>2, WriterConstants
<1>6. QED
  BY <1>1, <1>2, <1>3, <1>4, <1>5 DEF Before

\* The first of the needed chains comes before the others.
LEMMA FirstKeyBefore ==
    ASSUME NEW S \in SUBSET Keys, NEW k \in S, FirstKey(k, S), NEW j \in S, j # k
    PROVE  KeyRank[k] < KeyRank[j]
<1>1. KeyRank[k] \in Int /\ KeyRank[j] \in Int /\ KeyRank[k] # KeyRank[j]
  BY WriterConstants
<1>2. KeyRank[k] <= KeyRank[j]
  BY DEF FirstKey
<1>3. QED
  BY <1>1, <1>2

\* A writer is not disturbed by a step of another that leaves its call, its
\* locks and its rows alone.
LEMMA OthersWait ==
    ASSUME NEW v \in Writers, WaitOK(v),
           pc'[v] = pc[v], calls'[v] = calls[v], needP'[v] = needP[v],
           needK'[v] = needK[v], pend'[v] = pend[v], made'[v] = made[v],
           \A p \in Partitions : plock'[p] = v <=> plock[p] = v,
           \A k \in Keys : clock'[k] = v <=> clock[k] = v,
           \A t \in Tables : xlock'[t] = v => xlock[t] = v,
           \A t \in Tables : v \in slock'[t] => v \in slock[t],
           \A t \in Tables : \A r \in pend[v][t] : r.ev \in Events
    PROVE  WaitOK(v)'
<1>1. \A t \in Tables : \A r \in pend'[v][t] : r.ev \in Events /\ clock'[KeyOf[r.ev]] = v
  BY WriterConstants DEF WaitOK
<1>2. ASSUME OneSequence(v)' PROVE LocksSorted(v)'
  <2>0. LocksSorted(v)
    BY <1>2 DEF WaitOK, OneSequence
  <2>1. \A p \in Partitions : plock'[p] = v => \A q \in needP'[v] :
           \/ Before(p, q)
           \/ pc'[v] \in {"ensure", "create"} /\ p = q /\ FirstPart(p, needP'[v])
    BY <2>0 DEF LocksSorted
  <2>2. \A k \in Keys : clock'[k] = v => \A j \in needK'[v] :
           KeyRank[k] < KeyRank[j] \/ (pc'[v] = "seed" /\ k = j /\ FirstKey(k, needK'[v]))
    BY <2>0 DEF LocksSorted
  <2>3. needP'[v] # {} => /\ \A k \in Keys : clock'[k] # v
                          /\ \A t \in Tables : v \notin slock'[t]
    BY <2>0 DEF LocksSorted
  <2>4. QED
    BY <2>1, <2>2, <2>3 DEF LocksSorted, Before, FirstPart, FirstKey
<1>3. /\ pc'[v] # "idle" => calls'[v] >= 1
      /\ pc'[v] = "idle" => /\ \A p \in Partitions : plock'[p] # v
                            /\ \A k \in Keys : clock'[k] # v
                            /\ \A t \in Tables : v \notin slock'[t]
      /\ \A t \in Tables : xlock'[t] = v => made'[v] # {}
  BY DEF WaitOK
<1>4. QED
  BY <1>1, <1>2, <1>3 DEF WaitOK

\* Every step keeps the locks sorted.
LEMMA WaitStep ==
    ASSUME TypeOK, LockInv, WaitInv, [Next]_vars
    PROVE  WaitInv'
<1>0. /\ \A v \in Writers : WaitOK(v)
      /\ \A v \in Writers : \A t \in Tables : \A r \in pend[v][t] : r.ev \in Events
      /\ \A v \in Writers : needP[v] \in SUBSET Partitions /\ needK[v] \in SUBSET Keys
      /\ \A v \in Writers : calls[v] \in Nat
  BY DEF WaitInv, WaitOK, TypeOK
<1>1. ASSUME NEW w \in Writers, NEW b \in Batches, Call(w, b) PROVE WaitInv'
  <2>1. /\ plock' = plock /\ clock' = clock /\ pend' = pend /\ xlock' = xlock
        /\ slock' = slock /\ made' = made
        /\ pc' = [pc EXCEPT ![w] = "locking"] /\ calls' = [calls EXCEPT ![w] = @ + 1]
        /\ pc[w] \in {"idle", "open"}
    BY <1>1 DEF Call, locks
  <2>2. pc'[w] = "locking" /\ calls'[w] = calls[w] + 1
    BY <2>1 DEF TypeOK
  <2>3. ASSUME OneSequence(w)' PROVE LocksSorted(w)'
    <3>1. pc[w] = "idle"
      <4>1. calls[w] \in Nat /\ calls[w] + 1 <= 1
        BY <1>0, <2>2, <2>3 DEF OneSequence
      <4>2. calls[w] = 0
        BY <4>1
      <4>3. QED
        BY <1>0, <4>2 DEF WaitOK
    <3>2. /\ \A p \in Partitions : plock'[p] # w
          /\ \A k \in Keys : clock'[k] # w
          /\ \A t \in Tables : w \notin slock'[t]
      <4>1. /\ \A p \in Partitions : plock[p] # w
            /\ \A k \in Keys : clock[k] # w
            /\ \A t \in Tables : w \notin slock[t]
        <5>1. WaitOK(w)
          BY <1>0
        <5>2. QED
          BY <3>1, <5>1 DEF WaitOK
      <4>2. plock' = plock /\ clock' = clock /\ slock' = slock
        BY <2>1
      <4>3. QED
        BY <4>1, <4>2
    <3>3. QED
      BY <3>2 DEF LocksSorted
  <2>4. WaitOK(w)'
    <3>1. calls'[w] >= 1
      BY <1>0, <2>2
    <3>2. /\ \A t \in Tables : xlock'[t] = w => made'[w] # {}
          /\ \A t \in Tables : \A r \in pend'[w][t] : r.ev \in Events /\ clock'[KeyOf[r.ev]] = w
      BY <1>0, <2>1 DEF WaitOK
    <3>3. QED
      BY <2>2, <2>3, <3>1, <3>2 DEF WaitOK
  <2>5. ASSUME NEW v \in Writers, v # w PROVE WaitOK(v)'
    <3>1. /\ pc'[v] = pc[v] /\ calls'[v] = calls[v] /\ needP'[v] = needP[v]
          /\ needK'[v] = needK[v] /\ pend'[v] = pend[v] /\ made'[v] = made[v]
      BY <1>1, <2>1, <2>5 DEF Call, TypeOK
    <3>2. QED
      BY <1>0, <2>1, <3>1, OthersWait
  <2>6. QED
    BY <2>4, <2>5 DEF WaitInv
<1>2. ASSUME NEW w \in Writers, LockPartition(w) PROVE WaitInv'
  <2>1. PICK p \in needP[w] :
           /\ FirstPart(p, needP[w])
           /\ plock[p] \in {NoOwner, w}
           /\ plock' = [plock EXCEPT ![p] = w]
    BY <1>2 DEF LockPartition
  <2>2. /\ clock' = clock /\ pend' = pend /\ xlock' = xlock /\ slock' = slock
        /\ made' = made
        /\ pc' = [pc EXCEPT ![w] = "ensure"] /\ calls' = calls /\ needP' = needP
        /\ needK' = needK /\ pc[w] = "locking"
    BY <1>2 DEF LockPartition, db, tx
  <2>3. p \in Partitions
    BY <1>0
  <2>4. \A q \in needP[w] : Before(p, q) \/ p = q
    BY <1>0, <2>1, FirstBefore
  <2>5. pc'[w] = "ensure"
    BY <2>2 DEF TypeOK
  <2>6. ASSUME OneSequence(w)' PROVE LocksSorted(w)'
    <3>0. LocksSorted(w)
      BY <1>0, <2>2, <2>6 DEF WaitOK, OneSequence
    <3>1. \A q \in Partitions : plock'[q] = w => \A x \in needP[w] :
             Before(q, x) \/ (q = x /\ FirstPart(q, needP[w]))
      <4>1. SUFFICES ASSUME NEW q \in Partitions, plock'[q] = w, NEW x \in needP[w]
                     PROVE  Before(q, x) \/ (q = x /\ FirstPart(q, needP[w]))
        OBVIOUS
      <4>2. CASE q = p
        BY <2>1, <2>4, <4>2
      <4>3. CASE q # p
        <5>1. plock[q] = w
          BY <2>1, <2>3, <4>1, <4>3 DEF TypeOK
        <5>2. QED
          BY <2>2, <3>0, <5>1 DEF LocksSorted
      <4>4. QED
        BY <4>2, <4>3
    <3>2. (\A k \in Keys : clock[k] # w) /\ (\A t \in Tables : w \notin slock[t])
      BY <2>1, <3>0 DEF LocksSorted
    <3>3. QED
      BY <2>2, <2>5, <3>1, <3>2 DEF LocksSorted, Before, FirstPart
  <2>7. WaitOK(w)'
    BY <1>0, <2>2, <2>5, <2>6 DEF WaitOK
  <2>8. ASSUME NEW v \in Writers, v # w PROVE WaitOK(v)'
    <3>1. /\ pc'[v] = pc[v] /\ calls'[v] = calls[v] /\ needP'[v] = needP[v]
          /\ needK'[v] = needK[v] /\ pend'[v] = pend[v] /\ made'[v] = made[v]
      BY <2>2, <2>8 DEF TypeOK
    <3>2. \A q \in Partitions : plock'[q] = v <=> plock[q] = v
      BY <2>1, <2>3, <2>8, WriterConstants DEF TypeOK
    <3>3. QED
      BY <1>0, <2>2, <3>1, <3>2, OthersWait
  <2>9. QED
    BY <2>7, <2>8 DEF WaitInv
<1>3. ASSUME NEW w \in Writers, FindPartition(w) PROVE WaitInv'
  <2>1. PICK p \in needP[w] :
           /\ FirstPart(p, needP[w])
           /\ \/ /\ needP' = [needP EXCEPT ![w] = @ \ {p}]
                 /\ pc' = [pc EXCEPT ![w] = "locking"]
              \/ /\ needP' = needP
                 /\ pc' = [pc EXCEPT ![w] = "create"]
    BY <1>3 DEF FindPartition
  <2>2. /\ clock' = clock /\ plock' = plock /\ pend' = pend /\ xlock' = xlock
        /\ slock' = slock /\ made' = made
        /\ calls' = calls /\ needK' = needK /\ pc[w] = "ensure"
    BY <1>3 DEF FindPartition, db, locks, tx
  <2>3. \/ pc'[w] = "locking" /\ needP'[w] = needP[w] \ {p}
        \/ pc'[w] = "create" /\ needP'[w] = needP[w]
    BY <2>1 DEF TypeOK
  <2>4. ASSUME OneSequence(w)' PROVE LocksSorted(w)'
    <3>0. LocksSorted(w)
      BY <1>0, <2>2, <2>4 DEF WaitOK, OneSequence
    <3>1. /\ \A k \in Keys : clock[k] # w
          /\ \A t \in Tables : w \notin slock[t]
      BY <2>1, <3>0 DEF LocksSorted
    <3>2. CASE pc'[w] = "locking" /\ needP'[w] = needP[w] \ {p}
      <4>1. \A q \in Partitions : plock[q] = w => \A x \in needP[w] \ {p} : Before(q, x)
        <5>1. SUFFICES ASSUME NEW q \in Partitions, plock[q] = w, NEW x \in needP[w], x # p
                       PROVE  Before(q, x)
          OBVIOUS
        <5>2. CASE q = x /\ FirstPart(q, needP[w])
          BY <1>0, <2>1, <5>1, <5>2, OneFirstPart
        <5>3. CASE ~(q = x /\ FirstPart(q, needP[w]))
          BY <3>0, <5>1, <5>3 DEF LocksSorted
        <5>4. QED
          BY <5>2, <5>3
      <4>2. QED
        BY <2>2, <3>1, <3>2, <4>1 DEF LocksSorted, Before
    <3>3. CASE pc'[w] = "create" /\ needP'[w] = needP[w]
      <4>1. \A q \in Partitions : plock[q] = w => \A x \in needP[w] :
               Before(q, x) \/ (q = x /\ FirstPart(q, needP[w]))
        BY <3>0 DEF LocksSorted
      <4>2. QED
        BY <2>2, <3>1, <3>3, <4>1 DEF LocksSorted, Before, FirstPart
    <3>4. QED
      BY <2>3, <3>2, <3>3
  <2>5. WaitOK(w)'
    BY <1>0, <2>2, <2>3, <2>4 DEF WaitOK
  <2>6. ASSUME NEW v \in Writers, v # w PROVE WaitOK(v)'
    <3>1. /\ pc'[v] = pc[v] /\ calls'[v] = calls[v] /\ needP'[v] = needP[v]
          /\ needK'[v] = needK[v] /\ pend'[v] = pend[v] /\ made'[v] = made[v]
      BY <2>1, <2>2, <2>6 DEF TypeOK
    <3>2. QED
      BY <1>0, <2>2, <3>1, OthersWait
  <2>7. QED
    BY <2>5, <2>6 DEF WaitInv
<1>4. ASSUME NEW w \in Writers, CreatePartition(w) PROVE WaitInv'
  <2>1. PICK p \in needP[w] :
           /\ xlock' = [xlock EXCEPT ![p[1]] = w]
           /\ made' = [made EXCEPT ![w] = @ \cup {p}]
           /\ needP' = [needP EXCEPT ![w] = @ \ {p}]
    BY <1>4 DEF CreatePartition
  <2>2. /\ plock' = plock /\ clock' = clock /\ slock' = slock /\ pend' = pend
        /\ calls' = calls /\ needK' = needK /\ pc[w] = "create"
        /\ pc' = [pc EXCEPT ![w] = "locking"]
    BY <1>4 DEF CreatePartition, db
  <2>3. pc'[w] = "locking" /\ p \in made'[w]
    BY <2>1, <2>2 DEF TypeOK
  <2>4. WaitOK(w)'
    BY <1>0, <2>2, <2>3 DEF WaitOK, OneSequence
  <2>5. ASSUME NEW v \in Writers, v # w PROVE WaitOK(v)'
    <3>1. /\ pc'[v] = pc[v] /\ calls'[v] = calls[v] /\ needP'[v] = needP[v]
          /\ needK'[v] = needK[v] /\ pend'[v] = pend[v] /\ made'[v] = made[v]
      BY <2>1, <2>2, <2>5 DEF TypeOK
    <3>2. \A t \in Tables : xlock'[t] = v => xlock[t] = v
      BY <2>1, <2>5 DEF TypeOK
    <3>3. QED
      BY <1>0, <2>2, <3>1, <3>2, OthersWait
  <2>6. QED
    BY <2>4, <2>5 DEF WaitInv
<1>5. ASSUME NEW w \in Writers, LockChain(w) PROVE WaitInv'
  <2>1. PICK k \in needK[w] :
           /\ FirstKey(k, needK[w])
           /\ clock[k] \in {NoOwner, w}
           /\ clock' = [clock EXCEPT ![k] = w]
    BY <1>5 DEF LockChain
  <2>2. /\ plock' = plock /\ pend' = pend /\ xlock' = xlock /\ slock' = slock
        /\ made' = made
        /\ pc' = [pc EXCEPT ![w] = "seed"] /\ calls' = calls /\ needP' = needP
        /\ needK' = needK /\ pc[w] = "locking" /\ needP[w] = {}
    BY <1>5 DEF LockChain, db, tx
  <2>3. k \in Keys /\ pc'[w] = "seed"
    BY <1>0, <2>2 DEF TypeOK
  <2>4. ASSUME OneSequence(w)' PROVE LocksSorted(w)'
    <3>0. LocksSorted(w)
      BY <1>0, <2>2, <2>4 DEF WaitOK, OneSequence
    <3>1. \A j \in Keys : clock'[j] = w => \A x \in needK[w] :
             KeyRank[j] < KeyRank[x] \/ (j = x /\ FirstKey(j, needK[w]))
      <4>1. SUFFICES ASSUME NEW j \in Keys, clock'[j] = w, NEW x \in needK[w]
                     PROVE  KeyRank[j] < KeyRank[x] \/ (j = x /\ FirstKey(j, needK[w]))
        OBVIOUS
      <4>2. CASE j = k
        BY <1>0, <2>1, <4>2, FirstKeyBefore
      <4>3. CASE j # k
        <5>1. clock[j] = w
          BY <2>1, <2>3, <4>1, <4>3 DEF TypeOK
        <5>2. QED
          BY <2>2, <3>0, <5>1 DEF LocksSorted
      <4>4. QED
        BY <4>2, <4>3
    <3>2. QED
      BY <2>2, <2>3, <3>1 DEF LocksSorted, FirstKey
  <2>5. \A t \in Tables : \A r \in pend'[w][t] : r.ev \in Events /\ clock'[KeyOf[r.ev]] = w
    <3>1. SUFFICES ASSUME NEW t \in Tables, NEW r \in pend[w][t]
                   PROVE  r.ev \in Events /\ clock'[KeyOf[r.ev]] = w
      BY <2>2
    <3>2. r.ev \in Events /\ clock[KeyOf[r.ev]] = w
      BY <1>0 DEF WaitOK
    <3>3. KeyOf[r.ev] \in Keys
      BY <3>2, WriterConstants
    <3>4. QED
      BY <2>1, <2>3, <3>2, <3>3 DEF TypeOK
  <2>6. WaitOK(w)'
    BY <1>0, <2>2, <2>3, <2>4, <2>5 DEF WaitOK
  <2>7. ASSUME NEW v \in Writers, v # w PROVE WaitOK(v)'
    <3>1. /\ pc'[v] = pc[v] /\ calls'[v] = calls[v] /\ needP'[v] = needP[v]
          /\ needK'[v] = needK[v] /\ pend'[v] = pend[v] /\ made'[v] = made[v]
      BY <2>2, <2>7 DEF TypeOK
    <3>2. \A j \in Keys : clock'[j] = v <=> clock[j] = v
      BY <2>1, <2>3, <2>7, WriterConstants DEF TypeOK
    <3>3. QED
      BY <1>0, <2>2, <3>1, <3>2, OthersWait
  <2>8. QED
    BY <2>6, <2>7 DEF WaitInv
<1>6. ASSUME NEW w \in Writers, SeedHead(w) PROVE WaitInv'
  <2>1. PICK k \in needK[w] :
           /\ FirstKey(k, needK[w])
           /\ needK' = [needK EXCEPT ![w] = @ \ {k}]
           /\ slock' = [slock EXCEPT ![Parent[k]] = @ \cup {w}]
           /\ pc' = [pc EXCEPT ![w] = IF needK[w] = {k} THEN "rows" ELSE "locking"]
    BY <1>6 DEF SeedHead
  <2>2. /\ plock' = plock /\ clock' = clock /\ pend' = pend /\ xlock' = xlock
        /\ made' = made /\ calls' = calls /\ needP' = needP /\ pc[w] = "seed"
    BY <1>6 DEF SeedHead, db, tx
  <2>3. pc'[w] \in {"rows", "locking"} /\ needK'[w] = needK[w] \ {k}
    BY <2>1 DEF TypeOK
  <2>4. k \in Keys /\ clock[k] = w
    BY <1>0, <2>1, <2>2 DEF LockInv, CallInv
  <2>5. ASSUME OneSequence(w)' PROVE LocksSorted(w)'
    <3>0. LocksSorted(w)
      BY <1>0, <2>2, <2>5 DEF WaitOK, OneSequence
    <3>1. needP[w] = {}
      BY <2>4, <3>0 DEF LocksSorted
    <3>2. \A j \in Keys : clock[j] = w => \A x \in needK[w] \ {k} : KeyRank[j] < KeyRank[x]
      <4>1. SUFFICES ASSUME NEW j \in Keys, clock[j] = w, NEW x \in needK[w], x # k
                     PROVE  KeyRank[j] < KeyRank[x]
        OBVIOUS
      <4>2. CASE j = x /\ FirstKey(j, needK[w])
        <5>1. KeyRank[k] < KeyRank[x] /\ KeyRank[x] < KeyRank[k]
          BY <1>0, <2>1, <4>1, <4>2, FirstKeyBefore
        <5>2. KeyRank[k] \in Int /\ KeyRank[x] \in Int
          BY <1>0, WriterConstants
        <5>3. QED
          BY <5>1, <5>2
      <4>3. CASE ~(j = x /\ FirstKey(j, needK[w]))
        BY <3>0, <4>1, <4>3 DEF LocksSorted
      <4>4. QED
        BY <4>2, <4>3
    <3>3. QED
      BY <2>2, <2>3, <3>1, <3>2 DEF LocksSorted
  <2>6. WaitOK(w)'
    BY <1>0, <2>2, <2>3, <2>5 DEF WaitOK
  <2>7. ASSUME NEW v \in Writers, v # w PROVE WaitOK(v)'
    <3>1. /\ pc'[v] = pc[v] /\ calls'[v] = calls[v] /\ needP'[v] = needP[v]
          /\ needK'[v] = needK[v] /\ pend'[v] = pend[v] /\ made'[v] = made[v]
      BY <2>1, <2>2, <2>7 DEF TypeOK
    <3>2. \A t \in Tables : v \in slock'[t] => v \in slock[t]
      BY <2>1, <2>7 DEF TypeOK
    <3>3. QED
      BY <1>0, <2>2, <3>1, <3>2, OthersWait
  <2>8. QED
    BY <2>6, <2>7 DEF WaitInv
<1>7. ASSUME NEW w \in Writers, InsertRow(w) PROVE WaitInv'
  <2> DEFINE e == Head(batch[w])
             k == KeyOf[e]
             t == Parent[k]
             row == RowOf(nextseq[t], e, heads[w][k])
  <2>1. /\ e \in Events /\ k \in Keys /\ t \in Tables
        /\ clock[k] = w /\ needK[w] = {} /\ row.ev = e
        /\ clock' = clock /\ needK' = needK /\ needP' = needP
        /\ \/ pend' = [pend EXCEPT ![w][t] = @ \cup {row}]
           \/ pend' = pend
    BY <1>7, InsertFacts
  <2>2. /\ plock' = plock /\ xlock' = xlock /\ slock' = slock /\ made' = made
        /\ calls' = calls /\ pc[w] = "rows"
        /\ pc' = [pc EXCEPT ![w] = IF Len(batch[w]) = 1 THEN "open" ELSE "rows"]
    BY <1>7 DEF InsertRow, locks
  <2>3. pc'[w] \in {"open", "rows"} /\ needK'[w] = {}
    BY <2>1, <2>2 DEF TypeOK
  <2>4. k = KeyOf[e]
    OBVIOUS
  <2> HIDE DEF e, k, t, row
  <2>5. ASSUME NEW u \in Tables, NEW r \in pend'[w][u]
        PROVE  r.ev \in Events /\ clock[KeyOf[r.ev]] = w
    <3>1. CASE r \in pend[w][u]
      BY <1>0, <3>1 DEF WaitOK
    <3>2. CASE r \notin pend[w][u]
      <4>1. pend' = [pend EXCEPT ![w][t] = @ \cup {row}]
        BY <2>1, <2>5, <3>2
      <4>2. pend'[w][u] = IF u = t THEN pend[w][u] \cup {row} ELSE pend[w][u]
        BY <4>1 DEF TypeOK
      <4>3. r = row
        BY <2>5, <3>2, <4>2
      <4>4. QED
        BY <2>1, <2>4, <4>3
    <3>3. QED
      BY <3>1, <3>2
  <2>6. ASSUME OneSequence(w)' PROVE LocksSorted(w)'
    <3>0. LocksSorted(w)
      BY <1>0, <2>2, <2>6 DEF WaitOK, OneSequence
    <3>1. \A p \in Partitions : plock[p] = w => \A q \in needP[w] : Before(p, q)
      BY <2>2, <3>0 DEF LocksSorted
    <3>2. QED
      BY <2>1, <2>2, <2>3, <3>0, <3>1 DEF LocksSorted, Before
  <2>7. WaitOK(w)'
    <3>1. /\ calls'[w] >= 1 /\ pc'[w] # "idle"
          /\ \A u \in Tables : xlock'[u] = w => made'[w] # {}
      BY <1>0, <2>2, <2>3 DEF WaitOK
    <3>2. \A u \in Tables : \A r \in pend'[w][u] : r.ev \in Events /\ clock'[KeyOf[r.ev]] = w
      BY <2>1, <2>5
    <3>3. QED
      BY <2>6, <3>1, <3>2 DEF WaitOK
  <2>8. ASSUME NEW v \in Writers, v # w PROVE WaitOK(v)'
    <3>1. /\ pc'[v] = pc[v] /\ calls'[v] = calls[v] /\ needP'[v] = needP[v]
          /\ needK'[v] = needK[v] /\ pend'[v] = pend[v] /\ made'[v] = made[v]
      BY <2>1, <2>2, <2>8 DEF TypeOK
    <3>2. QED
      BY <1>0, <2>1, <2>2, <3>1, OthersWait
  <2>9. QED
    BY <2>7, <2>8 DEF WaitInv
<1>8. ASSUME NEW w \in Writers, EndTransaction(w) PROVE WaitInv'
  <2>1. WaitOK(w)'
    <3>1. /\ pc'[w] = "idle" /\ needP'[w] = {} /\ needK'[w] = {} /\ pend'[w] = NoRows
          /\ \A p \in Partitions : plock'[p] # w
          /\ \A k \in Keys : clock'[k] # w
          /\ \A t \in Tables : xlock'[t] # w /\ w \notin slock'[t]
      BY <1>8, WriterConstants DEF EndTransaction, TypeOK
    <3>2. LocksSorted(w)'
      BY <3>1 DEF LocksSorted
    <3>3. QED
      BY <3>1, <3>2 DEF WaitOK, NoRows
  <2>2. ASSUME NEW v \in Writers, v # w PROVE WaitOK(v)'
    <3>1. /\ pc'[v] = pc[v] /\ calls'[v] = calls[v] /\ needP'[v] = needP[v]
          /\ needK'[v] = needK[v] /\ pend'[v] = pend[v] /\ made'[v] = made[v]
      BY <1>8, <2>2 DEF EndTransaction, TypeOK
    <3>2. /\ \A p \in Partitions : plock'[p] = v <=> plock[p] = v
          /\ \A k \in Keys : clock'[k] = v <=> clock[k] = v
          /\ \A t \in Tables : xlock'[t] = v => xlock[t] = v
          /\ \A t \in Tables : v \in slock'[t] => v \in slock[t]
      BY <1>8, <2>2, WriterConstants DEF EndTransaction
    <3>3. QED
      BY <1>0, <3>1, <3>2, OthersWait
  <2>3. QED
    BY <2>1, <2>2 DEF WaitInv
<1>9. CASE UNCHANGED vars
  BY <1>9 DEF vars, db, locks, tx, call, WaitInv, WaitOK, OneSequence, LocksSorted
<1>10. QED
  <2>1. \/ \E w \in Writers, b \in Batches : Call(w, b)
        \/ \E w \in Writers :
              \/ LockPartition(w) \/ FindPartition(w) \/ CreatePartition(w)
              \/ LockChain(w) \/ SeedHead(w) \/ InsertRow(w) \/ EndTransaction(w)
        \/ UNCHANGED vars
    BY DEF Next, Commit, Abort
  <2>2. QED
    BY <1>1, <1>2, <1>3, <1>4, <1>5, <1>6, <1>7, <1>8, <1>9, <2>1

\* A call waits for one that takes a single sequence of locks only while it is
\* taking locks itself: for a partition's lock, for the parent of a partition it
\* creates, which the other has open to read its chain, or, once every partition
\* is ensured, for a chain's lock.
LEMMA BlockersAre ==
    ASSUME TypeOK, LockInv, WaitInv, NEW w \in Writers, NEW v \in Blockers(w),
           OneSequence(v)
    PROVE  /\ v \in Writers /\ v # w
           /\ \/ /\ pc[w] = "locking"
                 /\ \E p \in needP[w] : FirstPart(p, needP[w]) /\ plock[p] = v
              \/ /\ pc[w] = "locking" /\ needP[w] = {}
                 /\ \E k \in needK[w] : FirstKey(k, needK[w]) /\ clock[k] = v
              \/ needP[w] # {} /\ needP[v] = {}
<1>1. v \in Writers /\ v # w /\ WaitOK(v) /\ LocksSorted(v)
  BY DEF Blockers, WaitInv, WaitOK
<1>2. \A t \in Tables : xlock[t] # v
  BY <1>1 DEF WaitOK, OneSequence
<1>3. ~(pc[w] = "seed" /\ \E k \in needK[w] : FirstKey(k, needK[w]) /\ xlock[Parent[k]] = v)
  <2>1. SUFFICES ASSUME NEW k \in needK[w], xlock[Parent[k]] = v PROVE FALSE
    OBVIOUS
  <2>2. Parent[k] \in Tables
    BY WriterConstants DEF TypeOK
  <2>3. QED
    BY <1>2, <2>1, <2>2
<1>4. ~(pc[w] = "rows" /\ \E r \in pend[v][TableOf(Head(batch[w]))] : r.ev = Head(batch[w]))
  <2>1. SUFFICES ASSUME pc[w] = "rows",
                        NEW r \in pend[v][TableOf(Head(batch[w]))], r.ev = Head(batch[w])
                 PROVE  FALSE
    OBVIOUS
  <2>2. batch[w] \in Seq(Events) /\ batch[w] # <<>> /\ needK[w] = {}
    BY <2>1 DEF LockInv, CallInv, TypeOK
  <2>3. Head(batch[w]) \in EventsIn(batch[w]) /\ Head(batch[w]) \in Events
    BY <2>2, TailEvents
  <2>4. clock[KeyOf[Head(batch[w])]] = w
    BY <2>2, <2>3 DEF LockInv, CallInv, ReadKeys
  <2>5. TableOf(Head(batch[w])) \in Tables
    BY <2>3, WriterConstants DEF TableOf
  <2>6. clock[KeyOf[Head(batch[w])]] = v
    BY <1>1, <2>1, <2>5 DEF WaitOK
  <2>7. QED
    BY <1>1, <2>4, <2>6
<1>5. ASSUME NEW p \in needP[w], xlock[p[1]] = v \/ v \in slock[p[1]]
      PROVE  needP[w] # {} /\ needP[v] = {}
  <2>1. p[1] \in Tables
    BY DEF TypeOK, Partitions
  <2>2. v \in slock[p[1]]
    BY <1>2, <1>5, <2>1
  <2>3. QED
    BY <1>1, <2>1, <2>2 DEF LocksSorted
<1>6. QED
  BY <1>1, <1>3, <1>4, <1>5 DEF Blockers

\* Among writers that all wait for a chain lock, one waits for nobody of them:
\* the one that wants the last chain in the sorted order.
LEMMA SomeChainFree ==
    ASSUME TypeOK, LockInv, WaitInv, NEW S \in SUBSET Writers, IsFiniteSet(S), S # {},
           \A w \in S : OneSequence(w) /\ pc[w] = "locking" /\ needP[w] = {} /\
              \E k \in needK[w] : FirstKey(k, needK[w]) /\ clock[k] \in S \ {w}
    PROVE  FALSE
<1> DEFINE Wants(w) == CHOOSE k \in needK[w] : FirstKey(k, needK[w])
           Later == {p \in S \X S : KeyRank[Wants(p[1])] < KeyRank[Wants(p[2])]}
<1>1. \A w \in S : Wants(w) \in needK[w] /\ FirstKey(Wants(w), needK[w])
  OBVIOUS
<1>2. \A w \in S : Wants(w) \in Keys /\ KeyRank[Wants(w)] \in Int
  <2> HIDE DEF Wants
  <2>1. \A w \in S : needK[w] \subseteq Keys
    BY DEF TypeOK
  <2>2. QED
    BY <1>1, <2>1, WriterConstants
<1>3. ASSUME NEW w \in S PROVE \E v \in S : <<w, v>> \in Later
  <2>1. PICK k \in needK[w] : FirstKey(k, needK[w]) /\ clock[k] \in S \ {w}
    BY <1>3
  <2>2. k \in Keys /\ KeyRank[k] \in Int
    BY WriterConstants DEF TypeOK
  <2>3. KeyRank[Wants(w)] = KeyRank[k]
    <3> HIDE DEF Wants
    <3>1. KeyRank[Wants(w)] <= KeyRank[k] /\ KeyRank[k] <= KeyRank[Wants(w)]
      BY <1>1, <2>1 DEF FirstKey
    <3>2. QED
      BY <1>2, <2>2, <3>1
  <2>4. PICK v \in S : clock[k] = v
    BY <2>1
  <2>5. KeyRank[Wants(w)] < KeyRank[Wants(v)]
    <3>1. Wants(v) \in needK[v] /\ pc[v] = "locking" /\ LocksSorted(v)
      BY <1>1 DEF WaitInv, WaitOK
    <3> HIDE DEF Wants
    <3>2. QED
      BY <2>2, <2>3, <2>4, <3>1 DEF LocksSorted
  <2> HIDE DEF Wants
  <2>6. QED
    BY <2>5
<1>4. /\ \A x \in S : <<x, x>> \notin Later
      /\ \A x, y, z \in S : <<x, y>> \in Later /\ <<y, z>> \in Later => <<x, z>> \in Later
  <2> HIDE DEF Wants
  <2>1. QED
    BY <1>2
<1>5. \E x \in S : \A y \in S : <<x, y>> \notin Later
  <2> HIDE DEF Later
  <2>1. QED
    BY <1>4, FiniteMaximal
<1>6. QED
  BY <1>3, <1>5

\* ... and the same among writers that all wait for a partition's lock.
LEMMA SomePartFree ==
    ASSUME TypeOK, WaitInv, NEW S \in SUBSET Writers, IsFiniteSet(S), S # {},
           \A w \in S : OneSequence(w) /\ pc[w] = "locking" /\
              \E p \in needP[w] : FirstPart(p, needP[w]) /\ plock[p] \in S \ {w}
    PROVE  FALSE
<1> DEFINE Wants(w) == CHOOSE p \in needP[w] : FirstPart(p, needP[w])
           Later == {p \in S \X S : Before(Wants(p[1]), Wants(p[2]))}
<1>1. \A w \in S : Wants(w) \in needP[w] /\ FirstPart(Wants(w), needP[w])
  OBVIOUS
<1>2. \A w \in S : needP[w] \in SUBSET Partitions /\ Wants(w) \in Partitions
  BY <1>1 DEF TypeOK
<1>3. ASSUME NEW w \in S PROVE \E v \in S : <<w, v>> \in Later
  <2>1. PICK p \in needP[w] : FirstPart(p, needP[w]) /\ plock[p] \in S \ {w}
    BY <1>3
  <2>2. p = Wants(w)
    BY <1>1, <1>2, <2>1, OneFirstPart
  <2>3. PICK v \in S : plock[p] = v
    BY <2>1
  <2>4. p \in Partitions /\ v \in Writers /\ pc[v] = "locking" /\ LocksSorted(v)
    BY <1>2 DEF WaitInv, WaitOK
  <2>5. Before(p, Wants(v))
    BY <1>1, <2>3, <2>4 DEF LocksSorted
  <2>6. QED
    BY <2>2, <2>5
<1>4. /\ \A x \in S : <<x, x>> \notin Later
      /\ \A x, y, z \in S : <<x, y>> \in Later /\ <<y, z>> \in Later => <<x, z>> \in Later
  <2> HIDE DEF Wants
  <2>1. \A w \in S : TableRank[Wants(w)[1]] \in Int /\ Wants(w)[2] \in Int
    <3>1. SUFFICES ASSUME NEW w \in S PROVE TableRank[Wants(w)[1]] \in Int /\ Wants(w)[2] \in Int
      OBVIOUS
    <3>2. PICK t \in Tables, d \in Days : Wants(w) = <<t, d>>
      BY <1>2 DEF Partitions
    <3>3. QED
      BY <3>2, WriterConstants
  <2>2. QED
    BY <2>1 DEF Before
<1>5. \E x \in S : \A y \in S : <<x, y>> \notin Later
  <2> HIDE DEF Later
  <2>1. QED
    BY <1>4, FiniteMaximal
<1>6. QED
  BY <1>3, <1>5

\* Any number of writers, chains, days, calls in a transaction, missing
\* partitions, tenants that share a schema and re-delivered events: a circular
\* wait has a member that is in a later call or has created a partition
\* (_lock_chain's and _ensure_partition's sorted order).
THEOREM SortedNeverCircularHolds ==
    IsFiniteSet(Writers) => (Spec => []SortedNeverCircular)
<1> SUFFICES ASSUME IsFiniteSet(Writers) PROVE Spec => []SortedNeverCircular
  OBVIOUS
<1> DEFINE I == TypeInv /\ LockInv /\ WaitInv
<1>1. Init => I
  <2> SUFFICES ASSUME Init PROVE I
    OBVIOUS
  <2>1. \A w \in Writers : LocksSorted(w)
    BY WriterConstants DEF Init, LocksSorted
  <2>2. \A w \in Writers : WaitOK(w)
    BY <2>1, WriterConstants DEF Init, WaitOK, NoRows
  <2>3. QED
    BY <2>2, TypeInit, LockInit DEF WaitInv
<1>2. I /\ [Next]_vars => I'
  BY TypeStep, LockStep, WaitStep DEF TypeInv
<1>3. I => SortedNeverCircular
  <2> SUFFICES ASSUME I, NEW S \in SUBSET Writers, Circular(S), \A w \in S : OneSequence(w)
               PROVE  FALSE
    BY DEF SortedNeverCircular
  <2> USE DEF TypeInv
  <2>0. IsFiniteSet(S) /\ S # {}
    BY FS_Subset DEF Circular
  <2>1. ASSUME NEW w \in S
        PROVE  \/ /\ pc[w] = "locking"
                  /\ \E p \in needP[w] : FirstPart(p, needP[w]) /\ plock[p] \in S \ {w}
               \/ /\ pc[w] = "locking" /\ needP[w] = {}
                  /\ \E k \in needK[w] : FirstKey(k, needK[w]) /\ clock[k] \in S \ {w}
               \/ needP[w] # {} /\ \E v \in S : needP[v] = {}
    <3>1. PICK v \in Blockers(w) : v \in S
      BY <2>1 DEF Circular
    <3>2. QED
      BY <3>1, BlockersAre
  <2> DEFINE C == {w \in S : needP[w] = {}}
  <2>2. CASE C = {}
    <3>1. \A w \in S : OneSequence(w) /\ pc[w] = "locking" /\
             \E p \in needP[w] : FirstPart(p, needP[w]) /\ plock[p] \in S \ {w}
      BY <2>1, <2>2
    <3>2. QED
      BY <2>0, <3>1, SomePartFree
  <2>3. CASE C # {}
    <3>1. ASSUME NEW w \in C
          PROVE  /\ OneSequence(w) /\ pc[w] = "locking" /\ needP[w] = {}
                 /\ \E k \in needK[w] : FirstKey(k, needK[w]) /\ clock[k] \in C \ {w}
      <4>1. PICK k \in needK[w] : FirstKey(k, needK[w]) /\ clock[k] \in S \ {w}
        BY <2>1, <3>1
      <4>2. k \in Keys
        BY DEF TypeOK
      <4>3. LocksSorted(clock[k])
        BY <4>1 DEF WaitInv, WaitOK
      <4>4. needP[clock[k]] = {}
        BY <4>2, <4>3 DEF LocksSorted
      <4>5. QED
        BY <2>1, <3>1, <4>1, <4>4
    <3>2. C \in SUBSET Writers /\ IsFiniteSet(C)
      BY <2>0, FS_Subset
    <3> HIDE DEF C
    <3>3. QED
      BY <2>3, <3>1, <3>2, SomeChainFree
  <2>4. QED
    BY <2>2, <2>3
<1>4. QED
  <2> HIDE DEF I
  <2>1. QED
    BY <1>1, <1>2, <1>3, PTL DEF Spec
=============================================================================
