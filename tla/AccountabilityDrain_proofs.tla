--------------------- MODULE AccountabilityDrain_proofs ---------------------
(***************************************************************************)
(* The consumer and the poller drain the core's chains without skipping,   *)
(* repeating or inventing a record, for every number of chains, records    *)
(* and messages, every page and batch size and every interleaving, crash,  *)
(* tampering and lagging read.  DrainInv is the inductive invariant.       *)
(* PrecedenceInv adds that queue events follow the core's records, and     *)
(* IntactInv that only tampering halts a chain.                            *)
(***************************************************************************)
EXTENDS AccountabilityDrain, SequenceTheorems, FiniteOrder_proofs

(* The inductive strengthening of NothingSkipped, CursorBacked and         *)
(* AckedIsDurable.                                                         *)

\* What p's transaction sees of chain k.
View(p, k) == log[k] \o pend[p][k]

\* Uncommitted rows are written under the chain's lock.
LockInv == \A p \in Procs, k \in Keys : pend[p][k] # <<>> => chainLock[k] = p

\* What a transaction sees, and so what it may commit, is in sequence.
SequenceInv == NothingSkipped /\ \A p \in Procs, k \in Keys : InSequence(View(p, k), AnchorSeq[k])

\* The positions a transaction has staged, and the one its drain stands at,
\* are backed by rows that it sees; a verified page goes on from there.
PositionInv ==
    /\ CursorBacked
    /\ \A p \in Procs, k \in Keys : staged[p][k] # 0 => staged[p][k] \in CoreSeqs(View(p, k))
    /\ \A p \in Procs : pc[p] \in {"fetch", "write", "stage"} =>
          LET k == Head(todo[p]) IN
          /\ st[p].last \in CoreSeqs(View(p, k)) \cup {AnchorSeq[k]}
          /\ st[p].pages > 0 => st[p].last \in CoreSeqs(View(p, k))
    /\ \A p \in Procs : pc[p] = "write" => \A i \in 1..Len(st[p].page) :
          st[p].page[i] = [src |-> "core", n |-> st[p].last + i, status |-> "ok"]

\* The batch in hand is in the transaction before it is committed, and in the
\* log before it is acked.
BatchInv ==
    /\ AckedIsDurable
    /\ \A m \in queue.inHand :
          /\ pc[Consumer] = "commit" => Has(View(Consumer, MsgKey[m]), <<"queue", m>>)
          /\ pc[Consumer] = "ack" => Has(log[MsgKey[m]], <<"queue", m>>)

DrainInv == LockInv /\ SequenceInv /\ PositionInv /\ BatchInv

(* The inductive strengthening of Precedence, and its premises.            *)

\* A drain can reach the core's last record: reads are served by the primary
\* and a pass has pages enough for any backlog.
ReadsAll ==
    /\ ~Lagging
    /\ \A k \in Keys : MaxRecs[k] <= AnchorSeq[k] + PageSize * MaxPages

\* No chain is halted: the consumer passes a halted chain over and records on.
NoHalt == \A k \in Keys : cursor[k].halt = 0

\* rows have the records of chain k up to seq top, but for those now gone.
Covers(k, recs, rows, top) ==
    \A n \in AnchorSeq[k] + 1 .. top : recs[n] = "gone" \/ n \in CoreSeqs(rows)

\* Every queue event among rows was published and follows the records that
\* there were then.
EventsAfter(k, recs, rows, tops, published) ==
    \A i \in 1..Len(rows) : rows[i].item.src = "queue" =>
        /\ rows[i].item.n \in 1..published /\ MsgKey[rows[i].item.n] = k
        /\ Covers(k, recs, SubSeq(rows, 1, i - 1), tops[rows[i].item.n])

SeenInv ==
    seen \in [1..MaxMsgs -> Nat] /\ \A m \in 1..MaxMsgs : seen[m] <= Len(core[MsgKey[m]])

EventsInv ==
    \A k \in Keys : /\ EventsAfter(k, core[k], log[k], seen, queue.published)
                    /\ \A p \in Procs : EventsAfter(k, core[k], View(p, k), seen, queue.published)

\* The chain of a message in hand is still to be drained, or what precedes the
\* message is in the consumer's view; a last page leaves nothing unread.
CoveredInv ==
    \A m \in queue.inHand : \A k \in Keys : k = MsgKey[m] =>
        LET covered == Covers(k, core[k], View(Consumer, k), seen[m]) IN
        /\ pc[Consumer] \in Draining => covered \/ k \in ToSet(todo[Consumer])
        /\ pc[Consumer] = "record" => covered
        /\ pc[Consumer] = "stage" /\ k = Head(todo[Consumer]) => covered
        /\ pc[Consumer] = "write" /\ k = Head(todo[Consumer]) /\ ~st[Consumer].more =>
              \A n \in st[Consumer].last + Len(st[Consumer].page) + 1 .. seen[m] :
                 core[k][n] = "gone"

\* Pages are full while there are more, so their number tells how far a drain is.
PagesInv ==
    /\ pc[Consumer] \in {"fetch", "write"} =>
          /\ st[Consumer].pages < MaxPages
          /\ AnchorSeq[Head(todo[Consumer])] + PageSize * st[Consumer].pages <= st[Consumer].last
    /\ pc[Consumer] = "write" /\ st[Consumer].more => Len(st[Consumer].page) = PageSize

PrecedenceInv == SeenInv /\ EventsInv /\ CoveredInv /\ PagesInv

\* A core that nobody tampered with: every record after the archived ones is
\* there and recomputes, and no drain has found a break.
IntactInv ==
    /\ budget.tampers = 0
    /\ \A k \in Keys : /\ AnchorSeq[k] <= Len(core[k])
                       /\ \A n \in AnchorSeq[k] + 1..Len(core[k]) : core[k][n] = "ok"
    /\ \A p \in Procs : pc[p] # "halt"
    /\ NoHalt

-----------------------------------------------------------------------------
(* sorted(S).                                                              *)

\* The rank of an element of a finite set of numbers.
LEMMA RankFacts ==
    ASSUME NEW S \in SUBSET Nat, IsFiniteSet(S), NEW n \in S
    PROVE  /\ Cardinality(S) \in Nat /\ Rank(S, n) \in 0..Cardinality(S) - 1
           /\ \A m \in S : m < n => Rank(S, m) < Rank(S, n)
<1> DEFINE Below(x) == {m \in S : m < x}
<1>1. \A x \in S : /\ IsFiniteSet(Below(x)) /\ Cardinality(Below(x)) \in Nat
                   /\ Below(x) \in SUBSET S
  BY FS_Subset, FS_CardinalityType
<1>2. ASSUME NEW T, IsFiniteSet(T), NEW x \in T, NEW A \in SUBSET T, x \notin A
      PROVE  Cardinality(A) < Cardinality(T) /\ Cardinality(A) \in Nat /\ Cardinality(T) \in Nat
  <2>1. Cardinality(T) \in Nat /\ Cardinality(T \ {x}) = Cardinality(T) - 1 /\ IsFiniteSet(T \ {x})
    BY <1>2, FS_RemoveElement, FS_CardinalityType
  <2>2. A \in SUBSET (T \ {x})
    BY <1>2
  <2>3. Cardinality(A) <= Cardinality(T \ {x}) /\ IsFiniteSet(A)
    BY <2>1, <2>2, FS_Subset
  <2>4. Cardinality(A) \in Nat
    BY <2>3, FS_CardinalityType
  <2>5. QED
    BY <2>1, <2>3, <2>4
<1>3. Cardinality(Below(n)) < Cardinality(S) /\ Cardinality(S) \in Nat
  <2>1. n \notin Below(n)
    OBVIOUS
  <2> HIDE DEF Below
  <2>2. QED
    BY <1>1, <1>2, <2>1
<1>4. ASSUME NEW m \in S, m < n PROVE Cardinality(Below(m)) < Cardinality(Below(n))
  <2>1. m \in Below(n) /\ m \notin Below(m)
    BY <1>4
  <2>a. ASSUME NEW x \in Below(m) PROVE x \in Below(n)
    <3>1. x \in S /\ x < m /\ x \in Int /\ m \in Int /\ n \in Int
      OBVIOUS
    <3>2. x < n
      BY <1>4, <3>1
    <3>3. QED
      BY <3>1, <3>2
  <2>b. Below(m) \in SUBSET Below(n)
    BY <2>a
  <2> HIDE DEF Below
  <2>2. QED
    BY <1>1, <1>2, <2>1, <2>b
<1>5. QED
  BY <1>1, <1>3, <1>4 DEF Rank

\* InOrder lists every element once.
LEMMA InOrderFacts ==
    ASSUME NEW S \in SUBSET Nat, IsFiniteSet(S)
    PROVE  /\ Cardinality(S) \in Nat /\ Len(InOrder(S)) = Cardinality(S)
           /\ InOrder(S) \in Seq(S)
           /\ \A i \in 1..Cardinality(S) :
                 InOrder(S)[i] \in S /\ Rank(S, InOrder(S)[i]) = i - 1
           /\ \A n \in S : \E i \in 1..Cardinality(S) : InOrder(S)[i] = n
<1> DEFINE c == Cardinality(S)
           f == [n \in S |-> Rank(S, n)]
<1>0. c \in Nat
  BY FS_CardinalityType
<1>1. \A n \in S : Rank(S, n) \in 0..c - 1
  BY RankFacts
<1>2. \A m, n \in S : Rank(S, m) = Rank(S, n) => m = n
  <2>1. SUFFICES ASSUME NEW m \in S, NEW n \in S, m < n PROVE Rank(S, m) # Rank(S, n)
    OBVIOUS
  <2>2. Rank(S, m) \in Int /\ Rank(S, n) \in Int /\ Rank(S, m) < Rank(S, n)
    BY <1>0, <1>1, <2>1, RankFacts
  <2>3. QED
    BY <2>2
<1>3. \A i \in 0..c - 1 : \E n \in S : Rank(S, n) = i
  <2> DEFINE T == {Rank(S, n) : n \in S}
  <2>1. T \in SUBSET (0..c - 1)
    BY <1>1
  <2>2. f \in Bijection(S, T)
    <3>1. f \in [S -> T] /\ \A m, n \in S : f[m] = f[n] => m = n
      BY <1>2
    <3>2. \A t \in T : \E n \in S : f[n] = t
      OBVIOUS
    <3> HIDE DEF f, T
    <3>3. QED
      BY <3>1, <3>2 DEF Bijection, Injection, Surjection, IsInjective
  <2>3. IsFiniteSet(T) /\ Cardinality(T) = c
    <3> HIDE DEF f, T
    <3>1. QED
      BY <2>2, FS_Bijection DEF ExistsBijection
  <2>4. IsFiniteSet(0..c - 1) /\ Cardinality(0..c - 1) = c
    <3>1. 0 \in Int /\ c - 1 \in Int /\ (IF 0 > c - 1 THEN 0 ELSE c - 1 - 0 + 1) = c
      BY <1>0
    <3> HIDE DEF c
    <3>2. QED
      BY <3>1, FS_Interval
  <2>5. T = 0..c - 1
    <3> HIDE DEF T, c
    <3>1. QED
      BY <2>1, <2>3, <2>4, FS_Subset
  <2>6. QED
    BY <2>5
<1>4. ASSUME NEW i \in 1..c PROVE InOrder(S)[i] \in S /\ Rank(S, InOrder(S)[i]) = i - 1
  <2>1. i - 1 \in 0..c - 1
    BY <1>0
  <2>2. \E n \in S : Rank(S, n) = i - 1
    BY <1>3, <2>1
  <2>3. InOrder(S)[i] = CHOOSE n \in S : Rank(S, n) = i - 1
    BY DEF InOrder
  <2>4. QED
    BY <2>2, <2>3
<1>5. ASSUME NEW n \in S PROVE \E i \in 1..c : InOrder(S)[i] = n
  <2>1. Rank(S, n) + 1 \in 1..c
    BY <1>0, <1>1
  <2>2. InOrder(S)[Rank(S, n) + 1] \in S /\ Rank(S, InOrder(S)[Rank(S, n) + 1]) = Rank(S, n)
    <3> DEFINE r == Rank(S, n) + 1
    <3>1. r \in 1..c /\ r - 1 = Rank(S, n)
      BY <1>0, <1>1
    <3> HIDE DEF r, c
    <3>2. InOrder(S)[r] \in S /\ Rank(S, InOrder(S)[r]) = r - 1
      BY <1>4, <3>1
    <3>3. QED
      BY <3>1, <3>2 DEF r
  <2>3. InOrder(S)[Rank(S, n) + 1] = n
    BY <1>2, <2>2
  <2>4. QED
    BY <2>1, <2>3
<1>6. InOrder(S) \in Seq(S) /\ Len(InOrder(S)) = c
  <2>1. InOrder(S) \in [1..c -> S]
    <3>1. InOrder(S) = [i \in 1..c |-> InOrder(S)[i]]
      BY DEF InOrder
    <3>2. QED
      BY <1>4, <3>1
  <2>2. QED
    BY <1>0, <2>1, SeqDef
<1>7. QED
  BY <1>0, <1>4, <1>5, <1>6

\* Sorting an interval counts through it.
LEMMA IntervalInOrder ==
    ASSUME NEW a \in Nat, NEW b \in Nat, a <= b
    PROVE  /\ Cardinality(a + 1..b) = b - a
           /\ \A i \in 1..b - a : InOrder(a + 1..b)[i] = a + i
<1> DEFINE S == a + 1..b
<1>1. S \in SUBSET Nat /\ IsFiniteSet(S) /\ Cardinality(S) = b - a
  <2>1. a + 1 \in Int /\ b \in Int /\ (IF a + 1 > b THEN 0 ELSE b - (a + 1) + 1) = b - a
    OBVIOUS
  <2>2. IsFiniteSet(S) /\ Cardinality(S) = b - a
    BY <2>1, FS_Interval
  <2>3. QED
    BY <2>2
<1>2. ASSUME NEW n \in S PROVE Rank(S, n) = n - a - 1
  <2>1. {m \in S : m < n} = a + 1..n - 1
    OBVIOUS
  <2>2. Cardinality(a + 1..n - 1) = n - a - 1
    <3>1. n - 1 \in Int /\ a + 1 \in Int
      OBVIOUS
    <3>2. Cardinality(a + 1..n - 1) = IF a + 1 > n - 1 THEN 0 ELSE (n - 1) - (a + 1) + 1
      BY <3>1, FS_Interval
    <3>3. QED
      BY <3>2
  <2>3. QED
    BY <2>1, <2>2 DEF Rank
<1>3. ASSUME NEW i \in 1..b - a PROVE InOrder(S)[i] = a + i
  <2> HIDE DEF S
  <2>1. InOrder(S)[i] \in S /\ Rank(S, InOrder(S)[i]) = i - 1
    BY <1>1, InOrderFacts
  <2>2. InOrder(S)[i] - a - 1 = i - 1 /\ InOrder(S)[i] \in Nat
    BY <1>1, <1>2, <2>1
  <2>3. QED
    BY <2>2
<1>4. QED
  BY <1>1, <1>3

-----------------------------------------------------------------------------
(* write_batch.                                                            *)

\* The loop of write_batch, row by row.
LEMMA WrittenFacts ==
    ASSUME NEW rows, NEW items, Len(items) \in Nat
    PROVE  /\ Written(rows, items)[0] = [rows |-> rows, head |-> TailId(rows)]
           /\ \A i \in 1..Len(items) :
                 Written(rows, items)[i] = AppendRow(Written(rows, items)[i - 1], items[i])
<1> DEFINE base == [rows |-> rows, head |-> TailId(rows)]
           Is(f, n) == f = [i \in 0..n |-> IF i = 0 THEN base
                                           ELSE AppendRow(f[i - 1], items[i])]
           S == {n \in Nat : \E f : Is(f, n)}
<1>1. 0 \in S
  <2>1. Is([i \in 0..0 |-> base], 0)
    OBVIOUS
  <2>2. QED
    BY <2>1
<1>2. ASSUME NEW n \in Nat, n \in S PROVE n + 1 \in S
  <2>1. PICK f : Is(f, n)
    BY <1>2
  <2> DEFINE last == AppendRow(f[n], items[n + 1])
             g == [i \in 0..n + 1 |-> IF i = n + 1 THEN last ELSE f[i]]
  <2>2. ASSUME NEW i \in 0..n + 1
        PROVE  g[i] = IF i = 0 THEN base ELSE AppendRow(g[i - 1], items[i])
    <3> HIDE DEF base
    <3>1. CASE i = n + 1
      <4>1. g[i] = AppendRow(f[n], items[n + 1]) /\ i - 1 = n /\ i # 0
        BY <3>1
      <4>2. g[n] = f[n]
        OBVIOUS
      <4>3. QED
        BY <3>1, <4>1, <4>2
    <3>2. CASE i # n + 1 /\ i # 0
      <4>1. i \in 0..n /\ i - 1 \in 0..n
        BY <3>2
      <4>2. g[i] = f[i] /\ g[i - 1] = f[i - 1]
        BY <3>2, <4>1
      <4>3. f[i] = AppendRow(f[i - 1], items[i])
        BY <2>1, <3>2, <4>1
      <4>4. QED
        BY <3>2, <4>2, <4>3
    <3>3. CASE i # n + 1 /\ i = 0
      <4>1. g[0] = f[0]
        OBVIOUS
      <4>2. f[0] = base
        BY <2>1
      <4>3. QED
        BY <3>3, <4>1, <4>2
    <3>4. QED
      BY <3>1, <3>2, <3>3
  <2>3. Is(g, n + 1)
    <3>1. g = [i \in 0..n + 1 |-> g[i]]
      OBVIOUS
    <3> HIDE DEF g, base
    <3>2. QED
      BY <2>2, <3>1
  <2> HIDE DEF Is, g
  <2>4. QED
    BY <2>3
<1>3. Nat \subseteq S
  <2> HIDE DEF S
  <2>1. QED
    BY <1>1, <1>2, SetInduction
<1>4. \E f : Is(f, Len(items))
  BY <1>3
<1>5. Is(Written(rows, items), Len(items))
  <2>1. Written(rows, items) = CHOOSE f : Is(f, Len(items))
    BY DEF Written
  <2> HIDE DEF Is
  <2>2. QED
    BY <1>4, <2>1
<1> DEFINE W == Written(rows, items)
<1>6. W = [i \in 0..Len(items) |-> IF i = 0 THEN base ELSE AppendRow(W[i - 1], items[i])]
  BY <1>5
<1>7. W[0] = base
  <2> HIDE DEF W, base
  <2>1. QED
    BY <1>6
<1>8. ASSUME NEW i \in 1..Len(items) PROVE W[i] = AppendRow(W[i - 1], items[i])
  <2> HIDE DEF W, base
  <2>1. QED
    BY <1>6
<1>9. QED
  BY <1>7, <1>8

\* rows goes on from the rows that were there before.
GoesOn(rows, before) ==
    Len(before) <= Len(rows) /\ \A i \in 1..Len(before) : rows[i] = before[i]

\* What is stored stays stored.
LEMMA GoesOnFacts ==
    ASSUME NEW before \in Seq(Rows), NEW rows \in Seq(Rows), GoesOn(rows, before)
    PROVE  /\ \A id : Has(before, id) => Has(rows, id)
           /\ CoreSeqs(before) \subseteq CoreSeqs(rows)
<1>1. Len(before) \in Nat /\ Len(rows) \in Nat /\ 1..Len(before) \subseteq 1..Len(rows)
  BY DEF GoesOn
<1>2. ASSUME NEW id, Has(before, id) PROVE Has(rows, id)
  BY <1>1, <1>2 DEF GoesOn, Has
<1>3. ASSUME NEW n \in CoreSeqs(before) PROVE n \in CoreSeqs(rows)
  <2>1. PICK i \in 1..Len(before) : before[i].item.src = "core" /\ n = before[i].item.n
    BY DEF CoreSeqs
  <2>2. i \in 1..Len(rows) /\ rows[i] = before[i]
    BY <1>1 DEF GoesOn
  <2>3. QED
    BY <2>1, <2>2 DEF CoreSeqs
<1>4. QED
  BY <1>2, <1>3

\* A core record is stored when its id is (the key absorbs the duplicate).
LEMMA HasCore ==
    ASSUME NEW rows \in Seq(Rows), NEW n
    PROVE  n \in CoreSeqs(rows) <=> Has(rows, <<"core", n>>)
<1>1. ASSUME n \in CoreSeqs(rows) PROVE Has(rows, <<"core", n>>)
  <2>1. PICK i \in 1..Len(rows) : rows[i].item.src = "core" /\ n = rows[i].item.n
    BY <1>1 DEF CoreSeqs
  <2>2. QED
    BY <2>1 DEF Has, Id
<1>2. ASSUME Has(rows, <<"core", n>>) PROVE n \in CoreSeqs(rows)
  <2>1. PICK i \in 1..Len(rows) : Id(rows[i].item) = <<"core", n>>
    BY <1>2 DEF Has
  <2>2. rows[i].item.src = "core" /\ rows[i].item.n = n
    BY <2>1 DEF Id
  <2>3. QED
    BY <2>2 DEF CoreSeqs
<1>3. QED
  BY <1>1, <1>2

\* The head that a batch starts from is the last row's id.
LEMMA TailIdType == \A rows \in Seq(Rows) : TailId(rows) \in Heads
<1> SUFFICES ASSUME NEW rows \in Seq(Rows) PROVE TailId(rows) \in Heads
  OBVIOUS
<1>1. CASE rows = <<>>
  BY <1>1 DEF TailId, Heads
<1>2. CASE rows # <<>>
  <2>1. rows[Len(rows)] \in Rows
    BY <1>2
  <2>2. Id(rows[Len(rows)].item) \in Heads
    BY <2>1 DEF Rows, Items, Id, Heads
  <2>3. QED
    BY <1>2, <2>2 DEF TailId, Last
<1>3. QED
  BY <1>1, <1>2

\* One row of write_batch: afterwards the table has it, and at most it is new.
LEMMA AppendRowFacts ==
    ASSUME NEW acc, acc.rows \in Seq(Rows), acc.head \in Heads, NEW item \in Items
    PROVE  LET new == AppendRow(acc, item) IN
           /\ new.rows \in Seq(Rows) /\ new.head \in Heads
           /\ GoesOn(new.rows, acc.rows) /\ Has(new.rows, Id(item))
           /\ \/ new.rows = acc.rows
              \/ /\ ~Has(acc.rows, Id(item))
                 /\ new.rows = Append(acc.rows, [item |-> item, prev |-> acc.head])
<1> DEFINE row == [item |-> item, prev |-> acc.head]
           new == AppendRow(acc, item)
<1>1. /\ new.head = Id(item)
      /\ new.rows = IF Has(acc.rows, Id(item)) THEN acc.rows ELSE Append(acc.rows, row)
  BY DEF AppendRow
<1>2. Id(item) \in Heads /\ row \in Rows
  BY DEF Id, Heads, Items, Rows
<1>3. CASE Has(acc.rows, Id(item))
  BY <1>1, <1>2, <1>3 DEF GoesOn
<1>4. CASE ~Has(acc.rows, Id(item))
  <2>1. new.rows = Append(acc.rows, row)
    BY <1>1, <1>4
  <2> HIDE DEF row, new
  <2>2. /\ new.rows \in Seq(Rows) /\ Len(new.rows) = Len(acc.rows) + 1
        /\ Len(acc.rows) \in Nat
        /\ new.rows[Len(acc.rows) + 1] = row
        /\ \A i \in 1..Len(acc.rows) : new.rows[i] = acc.rows[i]
    BY <1>2, <2>1
  <2>3. GoesOn(new.rows, acc.rows)
    BY <2>2 DEF GoesOn
  <2>4. Has(new.rows, Id(item))
    <3>1. Id(new.rows[Len(acc.rows) + 1].item) = Id(item)
      BY <2>2 DEF row
    <3>2. QED
      BY <2>2, <3>1 DEF Has
  <2>5. QED
    BY <1>1, <1>2, <1>4, <2>1, <2>2, <2>3, <2>4 DEF new, row
<1>5. QED
  BY <1>3, <1>4

\* GoesOn is transitive.
LEMMA GoesOnTrans ==
    ASSUME NEW a \in Seq(Rows), NEW b \in Seq(Rows), NEW c \in Seq(Rows),
           GoesOn(b, a), GoesOn(c, b)
    PROVE  GoesOn(c, a)
BY DEF GoesOn

\* After write_batch the table goes on from what it was and has every row of
\* the batch, the duplicates among them only once more.
LEMMA BatchFacts ==
    ASSUME NEW rows \in Seq(Rows), NEW items \in Seq(Items)
    PROVE  /\ WriteBatch(rows, items) \in Seq(Rows)
           /\ GoesOn(WriteBatch(rows, items), rows)
           /\ \A i \in 1..Len(items) : Has(WriteBatch(rows, items), Id(items[i]))
           /\ items = <<>> => WriteBatch(rows, items) = rows
           /\ \A i \in 0..Len(items) : Written(rows, items)[i].rows \in Seq(Rows)
                                       /\ Written(rows, items)[i].head \in Heads
<1> DEFINE W == Written(rows, items)
           Good(i) == /\ W[i].rows \in Seq(Rows) /\ W[i].head \in Heads
                      /\ GoesOn(W[i].rows, rows)
                      /\ \A j \in 1..i : Has(W[i].rows, Id(items[j]))
           S == {i \in Nat : i <= Len(items) => Good(i)}
<1>0. Len(items) \in Nat /\ \A i \in 1..Len(items) : items[i] \in Items
  OBVIOUS
<1>1. /\ W[0] = [rows |-> rows, head |-> TailId(rows)]
      /\ \A i \in 1..Len(items) : W[i] = AppendRow(W[i - 1], items[i])
  BY <1>0, WrittenFacts
<1> HIDE DEF W
<1>2. 0 \in S
  <2>1. W[0].rows = rows /\ W[0].head = TailId(rows)
    BY <1>1
  <2>2. TailId(rows) \in Heads
    BY TailIdType
  <2>3. QED
    BY <2>1, <2>2 DEF GoesOn
<1>3. ASSUME NEW n \in Nat, n \in S PROVE n + 1 \in S
  <2>1. SUFFICES ASSUME n + 1 <= Len(items) PROVE Good(n + 1)
    BY <1>3
  <2>2. Good(n)
    BY <1>0, <1>3, <2>1
  <2>3. n + 1 \in 1..Len(items) /\ items[n + 1] \in Items /\ n + 1 - 1 = n
    BY <1>0, <2>1
  <2>4. W[n + 1] = AppendRow(W[n], items[n + 1])
    BY <1>1, <2>3
  <2>5. /\ W[n + 1].rows \in Seq(Rows) /\ W[n + 1].head \in Heads
        /\ GoesOn(W[n + 1].rows, W[n].rows) /\ Has(W[n + 1].rows, Id(items[n + 1]))
    BY <2>2, <2>3, <2>4, AppendRowFacts
  <2>6. GoesOn(W[n + 1].rows, rows)
    BY <2>2, <2>5, GoesOnTrans
  <2>7. ASSUME NEW j \in 1..n + 1 PROVE Has(W[n + 1].rows, Id(items[j]))
    <3>1. CASE j = n + 1
      BY <2>5, <3>1
    <3>2. CASE j # n + 1
      <4>1. Has(W[n].rows, Id(items[j]))
        BY <2>2, <3>2
      <4>2. QED
        BY <2>2, <2>5, <4>1, GoesOnFacts
    <3>3. QED
      BY <3>1, <3>2
  <2>8. QED
    BY <2>5, <2>6, <2>7
<1>4. Nat \subseteq S
  <2> HIDE DEF S
  <2>1. QED
    BY <1>2, <1>3, SetInduction
<1>5. \A i \in 0..Len(items) : Good(i)
  BY <1>0, <1>4
<1>6. WriteBatch(rows, items) = W[Len(items)].rows
  BY DEF WriteBatch, W
<1>7. items = <<>> => W[Len(items)].rows = rows
  BY <1>1
<1>8. QED
  BY <1>0, <1>5, <1>6, <1>7 DEF W

\* The next record in sequence, or a queue event, may follow rows that are in
\* sequence.
LEMMA SequenceAppend ==
    ASSUME NEW rows \in Seq(Rows), NEW a \in Nat, InSequence(rows, a), NEW r \in Rows,
           \/ r.item.src = "queue"
           \/ /\ r.item.src = "core" /\ r.item.status = "ok"
              /\ r.item.n - 1 \in CoreSeqs(rows) \cup {a}
              /\ r.item.n \notin CoreSeqs(rows)
    PROVE  InSequence(Append(rows, r), a)
<1> DEFINE new == Append(rows, r)
           l == Len(rows)
<1>0. /\ l \in Nat /\ new \in Seq(Rows) /\ Len(new) = l + 1 /\ new[l + 1] = r
      /\ \A i \in 1..l : new[i] = rows[i]
  OBVIOUS
<1>1. \A i \in 1..l + 1 : SubSeq(new, 1, i - 1) = SubSeq(rows, 1, i - 1)
  OBVIOUS
<1>2. SubSeq(rows, 1, l) = rows
  OBVIOUS
<1>3. ASSUME NEW i \in 1..l, new[i].item.src = "core"
      PROVE  /\ new[i].item.status = "ok" /\ new[i].item.n > a
             /\ CoreSeqs(SubSeq(new, 1, i - 1)) = a + 1 .. new[i].item.n - 1
  <2> HIDE DEF new
  <2>1. rows[i] = new[i] /\ SubSeq(new, 1, i - 1) = SubSeq(rows, 1, i - 1)
    BY <1>0, <1>1
  <2>2. QED
    BY <1>3, <2>1 DEF InSequence
<1>4. ASSUME r.item.src = "core"
      PROVE  /\ r.item.status = "ok" /\ r.item.n > a
             /\ CoreSeqs(rows) = a + 1 .. r.item.n - 1
  <2> DEFINE n == r.item.n
  <2>0. r.item.src # "queue"
    BY <1>4
  <2>1. r.item.status = "ok" /\ n - 1 \in CoreSeqs(rows) \cup {a} /\ n \notin CoreSeqs(rows)
    BY <2>0
  <2>2. n \in Nat /\ \A i \in 1..l : rows[i].item.n \in Nat
    <3>1. \A q \in Rows : q.item.n \in Nat
      BY DEF Rows, Items
    <3>2. \A i \in 1..l : rows[i] \in Rows
      OBVIOUS
    <3>3. QED
      BY <3>1, <3>2
  <2>3. ASSUME NEW m \in CoreSeqs(rows)
        PROVE  m \in Nat /\ m > a /\ a + 1..m - 1 \subseteq CoreSeqs(rows)
    <3>1. PICK i \in 1..l : rows[i].item.src = "core" /\ m = rows[i].item.n
      BY DEF CoreSeqs
    <3>2. m > a /\ CoreSeqs(SubSeq(rows, 1, i - 1)) = a + 1..m - 1
      BY <3>1 DEF InSequence
    <3>3. CoreSeqs(SubSeq(rows, 1, i - 1)) \subseteq CoreSeqs(rows)
      <4>1. SubSeq(rows, 1, i - 1) \in Seq(Rows) /\ GoesOn(rows, SubSeq(rows, 1, i - 1))
        BY <1>0 DEF GoesOn
      <4>2. QED
        BY <4>1, GoesOnFacts
    <3>4. QED
      BY <2>2, <3>1, <3>2, <3>3
  <2> HIDE DEF n
  <2>4. n - 1 >= a /\ a + 1..n - 1 \subseteq CoreSeqs(rows)
    <3>1. CASE n - 1 = a
      BY <2>2, <3>1
    <3>2. CASE n - 1 \in CoreSeqs(rows)
      <4>1. n - 1 > a /\ a + 1..n - 1 - 1 \subseteq CoreSeqs(rows)
        BY <2>3, <3>2
      <4>2. QED
        BY <2>2, <3>2, <4>1
    <3>3. QED
      BY <2>1, <3>1, <3>2
  <2>5. ASSUME NEW m \in CoreSeqs(rows) PROVE m \in a + 1..n - 1
    <3>1. m \in Nat /\ m > a /\ a + 1..m - 1 \subseteq CoreSeqs(rows) /\ m # n
      BY <2>1, <2>3
    <3>2. ~(m > n)
      BY <2>1, <2>2, <2>4, <3>1
    <3>3. QED
      BY <2>2, <3>1, <3>2
  <2>6. n > a /\ CoreSeqs(rows) = a + 1..n - 1
    <3>1. n > a
      BY <2>2, <2>4
    <3>2. CoreSeqs(rows) \subseteq a + 1..n - 1
      BY <2>5
    <3>3. QED
      BY <2>4, <3>1, <3>2
  <2>7. QED
    BY <2>1, <2>6 DEF n
<1>5. SubSeq(new, 1, l + 1 - 1) = rows
  BY <1>0, <1>1, <1>2
<1> HIDE DEF new, l
<1>6. QED
  <2>1. SUFFICES ASSUME NEW i \in 1..l + 1, new[i].item.src = "core"
                 PROVE  /\ new[i].item.status = "ok" /\ new[i].item.n > a
                        /\ CoreSeqs(SubSeq(new, 1, i - 1)) = a + 1 .. new[i].item.n - 1
    BY <1>0 DEF InSequence, new
  <2>2. CASE i = l + 1
    <3>1. new[i] = r /\ SubSeq(new, 1, i - 1) = rows
      BY <1>0, <1>5, <2>2
    <3>2. QED
      BY <1>4, <2>1, <3>1
  <2>3. CASE i # l + 1
    BY <1>0, <1>3, <2>1, <2>3
  <2>4. QED
    BY <2>2, <2>3

\* write_batch keeps the core's records in sequence when it is given queue
\* events, and when it is given a verified page that goes on from a record that
\* is stored, however much of the page another drainer has stored meanwhile.
LEMMA SequenceBatch ==
    ASSUME NEW rows \in Seq(Rows), NEW a \in Nat, InSequence(rows, a), NEW items \in Seq(Items),
           \/ \A i \in 1..Len(items) : items[i].src = "queue"
           \/ \E last \in CoreSeqs(rows) \cup {a} : \A i \in 1..Len(items) :
                 items[i] = [src |-> "core", n |-> last + i, status |-> "ok"]
    PROVE  InSequence(WriteBatch(rows, items), a)
<1> DEFINE W == Written(rows, items)
           S == {i \in Nat : i <= Len(items) => InSequence(W[i].rows, a)}
<1>0. Len(items) \in Nat /\ \A i \in 1..Len(items) : items[i] \in Items
  OBVIOUS
<1>1. /\ W[0] = [rows |-> rows, head |-> TailId(rows)]
      /\ \A i \in 1..Len(items) : W[i] = AppendRow(W[i - 1], items[i])
  BY <1>0, WrittenFacts
<1>2. \A i \in 0..Len(items) : W[i].rows \in Seq(Rows) /\ W[i].head \in Heads
  BY BatchFacts
<1> HIDE DEF W
<1>3. 0 \in S
  BY <1>1
<1>4. ASSUME NEW n \in Nat, n \in S PROVE n + 1 \in S
  <2>1. SUFFICES ASSUME n + 1 <= Len(items) PROVE InSequence(W[n + 1].rows, a)
    BY <1>4
  <2>2. InSequence(W[n].rows, a) /\ n \in 0..Len(items) /\ n + 1 \in 1..Len(items)
    BY <1>0, <1>4, <2>1
  <2> DEFINE item == items[n + 1]
             row == [item |-> item, prev |-> W[n].head]
  <2>3. W[n + 1] = AppendRow(W[n], item)
    <3>1. n + 1 - 1 = n
      OBVIOUS
    <3>2. QED
      BY <1>1, <2>2, <3>1
  <2>4. item \in Items /\ W[n].rows \in Seq(Rows) /\ W[n].head \in Heads
    BY <1>0, <1>2, <2>2
  <2> HIDE DEF item
  <2>5. \/ W[n + 1].rows = W[n].rows
        \/ ~Has(W[n].rows, Id(item)) /\ W[n + 1].rows = Append(W[n].rows, row)
    BY <2>3, <2>4, AppendRowFacts
  <2>6. CASE ~Has(W[n].rows, Id(item)) /\ W[n + 1].rows = Append(W[n].rows, row)
    <3>1. row \in Rows /\ row.item = item
      BY <2>4 DEF Rows
    <3>2. \/ item.src = "queue"
          \/ /\ item.src = "core" /\ item.status = "ok"
             /\ item.n - 1 \in CoreSeqs(W[n].rows) \cup {a}
             /\ item.n \notin CoreSeqs(W[n].rows)
      <4>1. CASE \A i \in 1..Len(items) : items[i].src = "queue"
        BY <2>2, <4>1 DEF item
      <4>2. ASSUME NEW last \in CoreSeqs(rows) \cup {a},
                   \A i \in 1..Len(items) :
                       items[i] = [src |-> "core", n |-> last + i, status |-> "ok"]
            PROVE  /\ item.src = "core" /\ item.status = "ok"
                   /\ item.n - 1 \in CoreSeqs(W[n].rows) \cup {a}
                   /\ item.n \notin CoreSeqs(W[n].rows)
        <5>1. item = [src |-> "core", n |-> last + (n + 1), status |-> "ok"]
          BY <2>2, <4>2 DEF item
        <5>2. item.src = "core" /\ item.status = "ok" /\ item.n = last + (n + 1)
          BY <5>1
        <5>3. last \in Nat
          <6>1. \A i \in 1..Len(rows) : rows[i] \in Rows
            OBVIOUS
          <6>2. \A q \in Rows : q.item.n \in Nat
            BY DEF Rows, Items
          <6>3. QED
            BY <6>1, <6>2 DEF CoreSeqs
        <5>4. item.n \notin CoreSeqs(W[n].rows)
          BY <2>4, <2>6, <5>2, HasCore DEF Id
        <5>5. last + n \in CoreSeqs(W[n].rows) \cup {a}
          <6>1. CASE n = 0
            BY <1>1, <5>3, <6>1
          <6>2. CASE n # 0
            <7>1. n \in 1..Len(items) /\ n - 1 \in 0..Len(items)
              BY <1>0, <2>2, <6>2
            <7>2. W[n] = AppendRow(W[n - 1], items[n]) /\ items[n] \in Items
              BY <1>0, <1>1, <7>1
            <7>3. Has(W[n].rows, Id(items[n]))
              BY <1>2, <7>1, <7>2, AppendRowFacts
            <7>4. Id(items[n]) = <<"core", last + n>>
              <8>1. items[n] = [src |-> "core", n |-> last + n, status |-> "ok"]
                BY <4>2, <7>1
              <8>2. items[n].src = "core" /\ items[n].n = last + n
                BY <8>1
              <8>3. QED
                BY <8>2 DEF Id
            <7>5. QED
              BY <2>4, <7>3, <7>4, HasCore
          <6>3. QED
            BY <6>1, <6>2
        <5>6. item.n - 1 = last + n
          BY <5>2, <5>3
        <5>7. QED
          BY <5>2, <5>4, <5>5, <5>6
      <4>3. QED
        BY <4>1, <4>2
    <3> HIDE DEF row
    <3>3. InSequence(Append(W[n].rows, row), a)
      BY <2>2, <2>4, <3>1, <3>2, SequenceAppend
    <3>4. QED
      BY <2>6, <3>3
  <2>7. QED
    BY <2>2, <2>5, <2>6
<1>5. Nat \subseteq S
  <2> HIDE DEF S
  <2>1. QED
    BY <1>3, <1>4, SetInduction
<1>6. InSequence(W[Len(items)].rows, a)
  BY <1>0, <1>5
<1>7. QED
  BY <1>6 DEF WriteBatch, W

\* A transaction sees the committed rows and its own.
LEMMA ViewFacts ==
    ASSUME NEW old \in Seq(Rows), NEW mine \in Seq(Rows)
    PROVE  /\ old \o mine \in Seq(Rows) /\ GoesOn(old \o mine, old)
           /\ mine = <<>> => old \o mine = old
BY DEF GoesOn

\* write_batch's own rows are what it added to the committed ones.
LEMMA OwnRows ==
    ASSUME NEW old \in Seq(Rows), NEW rows \in Seq(Rows), GoesOn(rows, old)
    PROVE  /\ SubSeq(rows, Len(old) + 1, Len(rows)) \in Seq(Rows)
           /\ old \o SubSeq(rows, Len(old) + 1, Len(rows)) = rows
<1> DEFINE own == SubSeq(rows, Len(old) + 1, Len(rows))
<1>1. Len(old) \in Nat /\ Len(rows) \in Nat /\ Len(old) <= Len(rows)
  BY DEF GoesOn
<1>2. own \in Seq(Rows) /\ Len(own) = Len(rows) - Len(old)
      /\ \A i \in 1..Len(own) : own[i] = rows[Len(old) + i]
  BY <1>1
<1> HIDE DEF own
<1>3. old \o own \in Seq(Rows) /\ Len(old \o own) = Len(rows)
      /\ \A i \in 1..Len(rows) : (old \o own)[i] = IF i <= Len(old) THEN old[i] ELSE own[i - Len(old)]
  BY <1>1, <1>2
<1>4. \A i \in 1..Len(rows) : (old \o own)[i] = rows[i]
  <2>1. SUFFICES ASSUME NEW i \in 1..Len(rows) PROVE (old \o own)[i] = rows[i]
    OBVIOUS
  <2>2. CASE i <= Len(old)
    BY <1>1, <1>3, <2>2 DEF GoesOn
  <2>3. CASE ~(i <= Len(old))
    <3>1. i - Len(old) \in 1..Len(own) /\ Len(old) + (i - Len(old)) = i
      BY <1>1, <1>2, <2>3
    <3>2. own[i - Len(old)] = rows[i]
      BY <1>2, <3>1
    <3>3. QED
      BY <1>3, <2>3, <3>2
  <2>4. QED
    BY <2>2, <2>3
<1>5. old \o own = rows
  BY <1>3, <1>4, SeqEqual
<1>6. QED
  BY <1>2, <1>5 DEF own

-----------------------------------------------------------------------------
(* Types.                                                                  *)

\* The bounds are numbers.
LEMMA Consts ==
    /\ AnchorSeq \in [Keys -> Nat] /\ MaxRecs \in [Keys -> Nat]
    /\ \A k \in Keys : AnchorSeq[k] <= MaxRecs[k] /\ AnchorSeq[k] \in Nat /\ MaxRecs[k] \in Nat
    /\ PageSize \in Nat \ {0} /\ MaxPages \in Nat \ {0} /\ ReadCount \in Nat \ {0}
    /\ MaxMsgs \in Nat /\ MaxTampers \in Nat /\ MaxAcks \in Nat /\ MaxFails \in Nat
    /\ MaxHints \in Nat
    /\ Procs = {"poller", "consumer"} /\ Poller = "poller" /\ Consumer = "consumer"
    /\ NoOwner = "none" /\ NoOwner \notin Procs
BY DrainConstants DEF Procs, Poller, Consumer, NoOwner

\* Nothing is running at the start.
LEMMA TypeInit == Init => TypeOK
<1> SUFFICES ASSUME Init PROVE TypeOK
  OBVIOUS
<1>1. CoreOK
  <2>1. core = [k \in Keys |-> [n \in 1..AnchorSeq[k] |-> "gone"]]
    BY DEF Init
  <2>2. ASSUME NEW k \in Keys
        PROVE  core[k] \in Seq({"ok", "altered", "gone"}) /\ Len(core[k]) <= MaxRecs[k]
    <3>1. AnchorSeq[k] \in Nat /\ MaxRecs[k] \in Nat /\ AnchorSeq[k] <= MaxRecs[k]
      BY Consts
    <3>2. core[k] \in [1..AnchorSeq[k] -> {"ok", "altered", "gone"}]
      BY <2>1
    <3>3. core[k] \in Seq({"ok", "altered", "gone"})
      BY <3>1, <3>2, SeqDef
    <3>4. Len(core[k]) = AnchorSeq[k]
      BY <3>1, <3>2, <3>3
    <3>5. QED
      BY <3>1, <3>3, <3>4
  <2>3. QED
    BY <2>1, <2>2 DEF CoreOK
<1>2. DbOK
  <2>1. /\ log = NoRows /\ cursor = [k \in Keys |-> [last |-> 0, halt |-> 0]]
    BY DEF Init
  <2>2. QED
    BY <2>1, Consts DEF DbOK, NoRows
<1>3. TxOK
  <2>1. /\ chainLock = [k \in Keys |-> NoOwner] /\ rowLock = [k \in Keys |-> NoOwner]
        /\ pend = [p \in Procs |-> NoRows] /\ staged = [p \in Procs |-> NoStage]
    BY DEF Init
  <2>2. failed \in [Procs -> BOOLEAN]
    BY Zenon DEF Init
  <2>3. pend \in [Procs -> [Keys -> Seq(Rows)]]
    BY <2>1 DEF NoRows
  <2>4. QED
    BY <2>1, <2>2, <2>3, Consts DEF TxOK, NoStage
<1>4. ProcOK
  <2>1. /\ pc = [p \in Procs |-> "idle"] /\ todo = [p \in Procs |-> <<>>]
        /\ st = [p \in Procs |-> NoDrain] /\ hint = [k \in Keys |-> 0]
    BY DEF Init
  <2>2. hinted \in BOOLEAN
    BY Zenon DEF Init
  <2>3. NoDrain \in DrainState
    BY DEF NoDrain, DrainState
  <2> HIDE DEF NoDrain, DrainState
  <2>4. QED
    BY <2>1, <2>2, <2>3 DEF ProcOK, Draining, Procs, Poller
<1>5. QueueOK
  BY Consts DEF Init, QueueOK
<1>6. budget \in [tampers : Nat, acks : Nat, fails : Nat, hints : Nat]
  BY Consts DEF Init
<1>7. QED
  BY <1>1, <1>2, <1>3, <1>4, <1>5, <1>6 DEF TypeOK

\* What a step leaves alone keeps its type.
LEMMA Untouched ==
    /\ CoreOK /\ core' = core => CoreOK'
    /\ DbOK /\ UNCHANGED dbVars => DbOK'
    /\ TxOK /\ UNCHANGED <<lockVars, txVars>> => TxOK'
    /\ ProcOK /\ UNCHANGED procVars => ProcOK'
    /\ QueueOK /\ queue' = queue => QueueOK'
<1>1. CoreOK /\ core' = core => CoreOK'
  BY DEF CoreOK
<1>2. DbOK /\ UNCHANGED dbVars => DbOK'
  BY DEF DbOK, dbVars
<1>3. TxOK /\ UNCHANGED <<lockVars, txVars>> => TxOK'
  BY DEF TxOK, lockVars, txVars
<1>4. ProcOK /\ UNCHANGED procVars => ProcOK'
  BY DEF ProcOK, procVars
<1>5. QueueOK /\ queue' = queue => QueueOK'
  BY DEF QueueOK
<1>6. QED
  BY <1>1, <1>2, <1>3, <1>4, <1>5

\* The end of a transaction, by commit, rollback or an error.
LEMMA DropType ==
    ASSUME TxOK, NEW p \in Procs, Drop(p), failed' \in [Procs -> BOOLEAN]
    PROVE  TxOK'
<1>1. pend' \in [Procs -> [Keys -> Seq(Rows)]]
  BY DEF TxOK, Drop, NoRows
<1>2. staged' \in [Procs -> [Keys -> Nat]] /\ \A q \in Procs, k \in Keys : staged'[q][k] <= MaxRecs[k]
  BY Consts DEF TxOK, Drop, NoStage
<1>3. chainLock' \in [Keys -> Procs \cup {NoOwner}] /\ rowLock' \in [Keys -> Procs \cup {NoOwner}]
  BY DEF TxOK, Drop
<1>4. QED
  BY <1>1, <1>2, <1>3 DEF TxOK

\* Commit and rollback leave the locks and the transactions typed.
LEMMA ReleaseType ==
    ASSUME TxOK, NEW p \in Procs, Release(p) \/ Abort(p)
    PROVE  TxOK'
<1>1. Drop(p)
  BY DEF Release, Abort
<1>2. failed' \in [Procs -> BOOLEAN]
  <2>1. failed \in [Procs -> BOOLEAN]
    BY DEF TxOK
  <2>2. failed' = [failed EXCEPT ![p] = FALSE] \/ failed' = [failed EXCEPT ![p] = TRUE]
    BY DEF Release, Abort
  <2>3. QED
    BY <2>1, <2>2
<1>3. QED
  BY <1>1, <1>2, DropType

\* A process goes to another statement, with a drain that has its type.
LEMMA ProcMove ==
    ASSUME ProcOK, NEW p \in Procs, NEW at \in Draining \cup {"idle", "record", "commit", "ack"},
           NEW chains \in Seq(Keys), NEW d \in DrainState,
           pc' = [pc EXCEPT ![p] = at], todo' = [todo EXCEPT ![p] = chains],
           st' = [st EXCEPT ![p] = d],
           at \in Draining => chains # <<>> /\ DrainOK(d, MaxRecs[Head(chains)]),
           at \notin Draining => d = NoDrain,
           at = "write" => d.page # <<>>,
           p = Poller => at \notin {"record", "ack"},
           hint' \in [Keys -> Nat], hinted' \in BOOLEAN
    PROVE  ProcOK'
<1>1. todo' \in [Procs -> Seq(Keys)]
  BY DEF ProcOK
<1>2. st' \in [Procs -> DrainState]
  BY DEF ProcOK
<1>3. pc' \in [Procs -> Draining \cup {"idle", "record", "commit", "ack"}]
  BY DEF ProcOK
<1>4. pc'[Poller] \notin {"record", "ack"}
  BY Consts DEF ProcOK
<1>5. ASSUME NEW q \in Procs
      PROVE  /\ pc'[q] \in Draining => todo'[q] # <<>> /\ DrainOK(st'[q], MaxRecs[Head(todo'[q])])
             /\ pc'[q] \notin Draining => st'[q] = NoDrain
             /\ pc'[q] = "write" => st'[q].page # <<>>
  <2>1. CASE q = p
    <3>1. pc'[q] = at /\ todo'[q] = chains /\ st'[q] = d
      BY <2>1 DEF ProcOK
    <3>2. QED
      BY <3>1
  <2>2. CASE q # p
    <3>1. pc'[q] = pc[q] /\ todo'[q] = todo[q] /\ st'[q] = st[q]
      BY <2>2 DEF ProcOK
    <3>2. QED
      BY <3>1 DEF ProcOK
  <2>3. QED
    BY <2>1, <2>2
<1>6. QED
  BY <1>1, <1>2, <1>3, <1>4, <1>5 DEF ProcOK

\* A drain that has not begun.
LEMMA NoDrainType == NoDrain \in DrainState /\ \A m \in Nat : DrainOK(NoDrain, m)
BY DEF NoDrain, DrainState, DrainOK

\* The drain goes on with the next chain, or the process with what follows.
LEMMA NextChainType ==
    ASSUME ProcOK, NEW p \in Procs, pc[p] \in Draining, NextChain(p), UNCHANGED <<hint, hinted>>
    PROVE  ProcOK'
<1> DEFINE at == IF Len(todo[p]) = 1 THEN AfterDrains(p) ELSE "get"
           chains == Tail(todo[p])
<1>1. /\ todo' = [todo EXCEPT ![p] = chains] /\ st' = [st EXCEPT ![p] = NoDrain]
      /\ pc' = [pc EXCEPT ![p] = at]
  BY DEF NextChain, ProcOK
<1>2. todo[p] \in Seq(Keys) /\ todo[p] # <<>> /\ chains \in Seq(Keys)
  BY DEF ProcOK
<1>3. at \in Draining => chains # <<>> /\ DrainOK(NoDrain, MaxRecs[Head(chains)])
  <2>1. at \in Draining => Len(todo[p]) # 1
    BY DEF AfterDrains, Draining
  <2>2. Len(todo[p]) \in Nat \ {0} /\ Len(chains) = Len(todo[p]) - 1
    BY <1>2, EmptySeq, HeadTailProperties
  <2>3. Len(<<>>) = 0
    BY EmptySeq
  <2>4. Len(todo[p]) # 1 => Len(chains) # 0
    BY <2>2
  <2>5. at \in Draining => chains # <<>>
    BY <2>1, <2>3, <2>4
  <2> HIDE DEF at, chains
  <2>6. chains # <<>> => Head(chains) \in Keys
    BY <1>2
  <2>7. QED
    BY <2>5, <2>6, NoDrainType, Consts
<1>4. at \in {"get", "record", "commit"} /\ (p = Poller => at # "record")
  BY DEF AfterDrains
<1>5. hint' \in [Keys -> Nat] /\ hinted' \in BOOLEAN
  BY DEF ProcOK
<1> HIDE DEF at, chains
<1>6. QED
  BY <1>1, <1>2, <1>3, <1>4, <1>5, NoDrainType, ProcMove DEF Draining

\* A process that gives its pass or its batch up.
LEMMA GoIdleType ==
    ASSUME ProcOK, QueueOK, NEW p \in Procs, GoIdle(p)
    PROVE  ProcOK' /\ QueueOK'
<1>1. /\ pc' = [pc EXCEPT ![p] = "idle"] /\ todo' = [todo EXCEPT ![p] = <<>>]
      /\ st' = [st EXCEPT ![p] = NoDrain]
  BY DEF GoIdle
<1>2. hint' \in [Keys -> Nat] /\ hinted' \in BOOLEAN
  <2>1. hint' = [k \in Keys |-> 0] \/ hint' = hint
    BY Zenon DEF GoIdle
  <2>2. hinted' \in BOOLEAN
    BY Zenon DEF GoIdle, ProcOK
  <2>3. QED
    BY <2>1, <2>2 DEF ProcOK
<1>3. <<>> \in Seq(Keys) /\ "idle" \notin Draining
  BY DEF Draining
<1>4. ProcOK'
  BY <1>1, <1>2, <1>3, NoDrainType, ProcMove
<1>5. QueueOK'
  <2>1. queue' = queue \/ queue' = [queue EXCEPT !.inHand = {}]
    BY DEF GoIdle
  <2>2. CASE queue' = [queue EXCEPT !.inHand = {}]
    BY <2>2 DEF QueueOK
  <2>3. QED
    BY <2>1, <2>2, Untouched
<1>6. QED
  BY <1>4, <1>5

\* What the callers of drain do with an exception.
LEMMA RaiseType ==
    ASSUME DbOK, TxOK, ProcOK, QueueOK, NEW p \in Procs,
           \/ Reset(p)
           \/ pc[p] \in Draining /\ (RaiseRefusal(p) \/ RaiseError(p) \/ SqlError(p))
    PROVE  DbOK' /\ TxOK' /\ ProcOK' /\ QueueOK'
<1>1. CASE Reset(p)
  BY <1>1, ReleaseType, GoIdleType, Untouched DEF Reset
<1>2. CASE /\ pc[p] \in Draining /\ NextChain(p) /\ UNCHANGED <<dbVars, hint, hinted, queue>>
           /\ Release(p) \/ Abort(p) \/ UNCHANGED <<lockVars, txVars>>
  <2>1. TxOK'
    BY <1>2, ReleaseType, Untouched
  <2>2. QED
    BY <1>2, <2>1, NextChainType, Untouched
<1>3. QED
  BY <1>1, <1>2 DEF RaiseRefusal, RaiseError, SqlError

-----------------------------------------------------------------------------
(* The page that fetch returns.                                            *)

\* A page is a finite set of the core's seqs after last.
LEMMA PageFacts ==
    ASSUME CoreOK, NEW k \in Keys, NEW last \in Nat, NEW h \in 0..Len(core[k])
    PROVE  LET page == PageOf(Survivors(k, last, h)) IN
           /\ page \in SUBSET Nat /\ IsFiniteSet(page)
           /\ \A n \in page : n > last /\ n \in 1..Len(core[k]) /\ n <= MaxRecs[k]
                              /\ core[k][n] \in {"ok", "altered"}
<1> DEFINE page == PageOf(Survivors(k, last, h))
<1>0. Len(core[k]) \in Nat /\ core[k] \in Seq({"ok", "altered", "gone"})
      /\ MaxRecs[k] \in Nat /\ Len(core[k]) <= MaxRecs[k]
  BY Consts DEF CoreOK
<1>1. page \subseteq last + 1..h /\ \A n \in page : core[k][n] # "gone"
  BY DEF PageOf, Survivors
<1>2. IsFiniteSet(last + 1..h)
  <2>1. last + 1 \in Int /\ h \in Int
    BY <1>0
  <2>2. QED
    BY <2>1, FS_Interval
<1> HIDE DEF page
<1>3. IsFiniteSet(page)
  BY <1>1, <1>2, FS_Subset
<1>4. ASSUME NEW n \in page
      PROVE  n > last /\ n \in 1..Len(core[k]) /\ n <= MaxRecs[k] /\ core[k][n] \in {"ok", "altered"}
  <2>1. n \in 1..Len(core[k]) /\ n > last /\ n <= MaxRecs[k]
    BY <1>0, <1>1
  <2>2. core[k][n] \in {"ok", "altered", "gone"}
    BY <1>0, <2>1
  <2>3. QED
    BY <1>1, <2>1, <2>2
<1>5. page \in SUBSET Nat
  BY <1>4
<1>6. QED
  BY <1>3, <1>4, <1>5 DEF page

\* The rows of a page, in the order of their seqs.
PageItems(k, page) == [i \in 1..Cardinality(page) |-> CoreRow(k, InOrder(page)[i])]

\* The rows of a page, and of one that verify_batch accepts: the records right
\* after last, unaltered.
LEMMA PageRows ==
    ASSUME CoreOK, NEW k \in Keys, NEW last \in Nat, NEW h \in 0..Len(core[k]),
           NEW page, page = PageOf(Survivors(k, last, h)),
           NEW rows, rows = PageItems(k, page)
    PROVE  /\ rows \in Seq(Items) /\ \A i \in 1..Len(rows) : rows[i].n <= MaxRecs[k]
           /\ page # {} => rows # <<>>
           /\ Breaks(k, last, page) = {} => \A i \in 1..Len(rows) :
                 rows[i] = [src |-> "core", n |-> last + i, status |-> "ok"]
<1> DEFINE c == Cardinality(page)
<1> USE DEF PageItems
<1>0. /\ page \in SUBSET Nat /\ IsFiniteSet(page)
      /\ \A n \in page : n > last /\ n \in 1..Len(core[k]) /\ n <= MaxRecs[k]
                         /\ core[k][n] \in {"ok", "altered"}
  BY PageFacts
<1>1. c \in Nat /\ \A i \in 1..c : InOrder(page)[i] \in page
  BY <1>0, InOrderFacts
<1>2. ASSUME NEW i \in 1..c PROVE rows[i] \in Items /\ rows[i].n <= MaxRecs[k]
  <2> DEFINE n == InOrder(page)[i]
  <2>1. n \in page
    BY <1>1
  <2>2. rows[i] = [src |-> "core", n |-> n, status |-> core[k][n]]
    BY DEF CoreRow
  <2> HIDE DEF n
  <2>3. n \in Nat \ {0} /\ n <= MaxRecs[k] /\ core[k][n] \in {"ok", "altered", "gone"}
    BY <1>0, <2>1
  <2>4. QED
    BY <2>2, <2>3 DEF Items
<1>3. rows \in Seq(Items) /\ Len(rows) = c
  <2>1. rows \in [1..c -> Items]
    BY <1>2
  <2>2. rows \in Seq(Items)
    BY <1>1, <2>1, SeqDef
  <2>3. QED
    BY <1>1, <2>1, <2>2
<1>4. page # {} => rows # <<>>
  <2>1. page # {} => c # 0
    BY <1>0, FS_EmptySet
  <2>2. Len(<<>>) = 0
    BY EmptySeq
  <2>3. QED
    BY <1>3, <2>1, <2>2
<1>5. ASSUME Breaks(k, last, page) = {}, NEW i \in 1..c
      PROVE  rows[i] = [src |-> "core", n |-> last + i, status |-> "ok"]
  <2>1. \A n \in page : core[k][n] # "altered" /\ (n - 1 = last \/ n - 1 \in page)
    BY <1>5 DEF Breaks
  <2>2. \A n \in page : n = last + 1 \/ n - 1 \in page
    BY <1>0, <2>1
  <2>3. \A n \in page : last + 1..n \subseteq page
    <3>1. page \in SUBSET Int
      BY <1>0
    <3>2. QED
      BY <1>0, <2>2, <3>1, Gapless
  <2>4. page # {}
    BY <1>1, <1>5
  <2> DEFINE m == Max(page)
  <2>5. m \in page /\ \A n \in page : n <= m
    BY <1>0, <2>4, MaxFacts
  <2> HIDE DEF m
  <2>6. page = last + 1..m /\ m \in Nat /\ last <= m
    <3>1. m \in Nat /\ last <= m
      BY <1>0, <2>5
    <3>2. last + 1..m \subseteq page
      BY <2>3, <2>5
    <3>3. \A n \in page : n \in last + 1..m
      BY <1>0, <2>5, <3>1
    <3>4. QED
      BY <3>1, <3>2, <3>3
  <2>7. c = m - last /\ InOrder(page)[i] = last + i
    <3>1. c = m - last
      BY <2>6, IntervalInOrder
    <3>2. i \in 1..m - last
      BY <3>1
    <3>3. QED
      BY <2>6, <3>1, <3>2, IntervalInOrder
  <2>8. last + i \in page
    BY <1>1, <2>7
  <2>9. core[k][last + i] = "ok"
    BY <1>0, <2>1, <2>8
  <2>10. QED
    BY <2>7, <2>9 DEF CoreRow
<1>6. QED
  BY <1>2, <1>3, <1>4, <1>5

-----------------------------------------------------------------------------
(* The type invariant, action by action.                                   *)

\* The environment.
LEMMA EnvironmentType == TypeOK /\ Environment => TypeOK'
<1> SUFFICES ASSUME TypeOK, Environment PROVE TypeOK'
  OBVIOUS
<1>0. CoreOK /\ DbOK /\ TxOK /\ ProcOK /\ QueueOK
      /\ budget \in [tampers : Nat, acks : Nat, fails : Nat, hints : Nat]
  BY DEF TypeOK
<1>1. ASSUME NEW k \in Keys, CoreAppend(k) PROVE TypeOK'
  <2>1. CoreOK'
    <3>1. core' = [core EXCEPT ![k] = Append(@, "ok")] /\ Len(core[k]) < MaxRecs[k]
      BY <1>1 DEF CoreAppend
    <3>2. core[k] \in Seq({"ok", "altered", "gone"}) /\ MaxRecs[k] \in Nat
      BY <1>0, Consts DEF CoreOK
    <3>3. /\ Append(core[k], "ok") \in Seq({"ok", "altered", "gone"})
          /\ Len(Append(core[k], "ok")) <= MaxRecs[k]
      BY <3>1, <3>2
    <3>4. QED
      BY <1>0, <3>1, <3>3 DEF CoreOK
  <2>2. QED
    BY <1>0, <1>1, <2>1, Untouched DEF CoreAppend, TypeOK
<1>2. ASSUME NEW k \in Keys, Acknowledge(k) PROVE TypeOK'
  <2>1. DbOK'
    <3>1. cursor' = [cursor EXCEPT ![k].halt = 0] /\ log' = log
      BY <1>2 DEF Acknowledge
    <3> DEFINE x == [cursor[k] EXCEPT !.halt = 0]
    <3>2. cursor' = [cursor EXCEPT ![k] = x]
      BY <1>0, <3>1 DEF DbOK
    <3>3. x \in [last : Nat, halt : Nat] /\ x.last <= MaxRecs[k] /\ x.halt <= MaxRecs[k]
      <4>1. cursor[k] \in [last : Nat, halt : Nat] /\ cursor[k].last <= MaxRecs[k]
            /\ MaxRecs[k] \in Nat
        BY <1>0, Consts DEF DbOK
      <4>2. QED
        BY <4>1
    <3> HIDE DEF x
    <3>4. QED
      BY <1>0, <3>1, <3>2, <3>3 DEF DbOK
  <2>2. budget' \in [tampers : Nat, acks : Nat, fails : Nat, hints : Nat]
    BY <1>0, <1>2 DEF Acknowledge
  <2>3. QED
    BY <1>0, <1>2, <2>1, <2>2, Untouched DEF Acknowledge, coreVars, TypeOK
<1>3. ASSUME NEW k \in Keys, NEW n, NEW how \in {"altered", "gone"}, Tamper(k, n, how)
      PROVE  TypeOK'
  <2>1. CoreOK'
    <3>1. core' = [core EXCEPT ![k][n] = how] /\ n \in 1..Len(core[k])
      BY <1>3 DEF Tamper
    <3>2. core[k] \in Seq({"ok", "altered", "gone"})
      BY <1>0 DEF CoreOK
    <3>3. /\ [core[k] EXCEPT ![n] = how] \in Seq({"ok", "altered", "gone"})
          /\ Len([core[k] EXCEPT ![n] = how]) = Len(core[k])
      BY <3>1, <3>2, ExceptSeq
    <3>4. core' = [core EXCEPT ![k] = [core[k] EXCEPT ![n] = how]]
      BY <1>0, <3>1 DEF CoreOK
    <3>5. QED
      BY <1>0, <3>3, <3>4 DEF CoreOK
  <2>2. budget' \in [tampers : Nat, acks : Nat, fails : Nat, hints : Nat]
    BY <1>0, <1>3 DEF Tamper
  <2>3. QED
    BY <1>0, <1>3, <2>1, <2>2, Untouched DEF Tamper, TypeOK
<1>4. CASE Publish
  <2>1. QueueOK'
    <3>1. queue' = [queue EXCEPT !.published = @ + 1] /\ queue.published < MaxMsgs
      BY <1>4 DEF Publish
    <3>2. queue.published + 1 \in 0..MaxMsgs /\ queue.delivered <= queue.published + 1
      BY <1>0, <3>1, Consts DEF QueueOK
    <3>3. QED
      BY <1>0, <3>1, <3>2 DEF QueueOK
  <2>2. QED
    BY <1>0, <1>4, <2>1, Untouched DEF Publish, TypeOK
<1>5. QED
  BY <1>1, <1>2, <1>3, <1>4 DEF Environment

\* The chains of S in order are chains, some if S has the global one.
LEMMA OrderedType ==
    ASSUME NEW S, Global \in S
    PROVE  Ordered(S) \in Seq(Keys) /\ Ordered(S) # <<>>
<1> DEFINE I == {i \in 1..Len(Order) : Order[i] \in S}
           at == InOrder(I)
           chains == [i \in 1..Len(at) |-> Order[at[i]]]
<1>1. Order \in Seq(Keys) /\ Len(Order) \in Nat
  BY DrainConstants
<1>2. I \in SUBSET Nat /\ IsFiniteSet(I)
  <2>1. IsFiniteSet(1..Len(Order))
    BY <1>1, FS_Interval
  <2>2. I \subseteq 1..Len(Order)
    OBVIOUS
  <2> HIDE DEF I
  <2>3. IsFiniteSet(I)
    BY <2>1, <2>2, FS_Subset
  <2>4. QED
    BY <1>1, <2>2, <2>3
<1>3. I # {}
  <2>1. Global \in ToSet(Order)
    BY DrainConstants
  <2>2. PICK i \in DOMAIN Order : Order[i] = Global
    BY <2>1 DEF ToSet
  <2>3. i \in I
    BY <1>1, <2>2
  <2>4. QED
    BY <2>3
<1>4. /\ Len(at) = Cardinality(I) /\ Cardinality(I) \in Nat
      /\ \A i \in 1..Cardinality(I) : at[i] \in I
  <2> HIDE DEF I
  <2>1. QED
    BY <1>2, InOrderFacts
<1>5. Cardinality(I) # 0
  <2> HIDE DEF I
  <2>1. QED
    BY <1>2, <1>3, FS_EmptySet
<1>6. chains \in [1..Len(at) -> Keys]
  <2>1. \A i \in I : Order[i] \in Keys
    BY <1>1
  <2> HIDE DEF I, at
  <2>2. QED
    BY <1>4, <2>1
<1> HIDE DEF at, chains
<1>7. chains \in Seq(Keys)
  BY <1>4, <1>6, SeqDef
<1>8. Len(chains) # 0
  BY <1>4, <1>5, <1>6, <1>7
<1>9. Ordered(S) = chains
  BY DEF Ordered, chains, at
<1>10. Len(<<>>) = 0
  BY EmptySeq
<1>11. QED
  BY <1>7, <1>8, <1>9, <1>10

\* An idle process begins to drain chains.
BeginsDrain(p, chains) ==
    /\ chains \in Seq(Keys) /\ chains # <<>>
    /\ pc' = [pc EXCEPT ![p] = "get"] /\ todo' = [todo EXCEPT ![p] = chains]
    /\ st' = [st EXCEPT ![p] = NoDrain]

\* A process that begins to drain has its type.
LEMMA BeginType ==
    ASSUME ProcOK, NEW p \in Procs, NEW chains, BeginsDrain(p, chains),
           hint' \in [Keys -> Nat], hinted' \in BOOLEAN
    PROVE  ProcOK'
<1>1. chains \in Seq(Keys) /\ chains # <<>> /\ Head(chains) \in Keys
  BY DEF BeginsDrain
<1>2. DrainOK(NoDrain, MaxRecs[Head(chains)])
  BY <1>1, NoDrainType, Consts
<1>3. QED
  BY <1>1, <1>2, NoDrainType, ProcMove DEF BeginsDrain, Draining

\* The consumer reads a batch and begins to drain, or the poller begins a pass.
LEMMA ReadType == TypeOK /\ Read => TypeOK'
<1> SUFFICES ASSUME TypeOK, Read PROVE TypeOK'
  OBVIOUS
<1> DEFINE upper == Min({queue.published, queue.delivered + ReadCount})
           got == queue.delivered + 1 .. upper
           valid == got \ Poison
<1>0. CoreOK /\ DbOK /\ TxOK /\ ProcOK /\ QueueOK
  BY DEF TypeOK
<1>1. /\ got # {}
      /\ queue' = [queue EXCEPT !.delivered = Max(got), !.acked = @ \cup (got \cap Poison),
                                !.inHand = valid]
      /\ \/ UNCHANGED <<pc, todo>>
         \/ /\ pc' = [pc EXCEPT ![Consumer] = "get"]
            /\ todo' = [todo EXCEPT ![Consumer] = ChainsFirst(valid)]
      /\ UNCHANGED <<coreVars, dbVars, lockVars, txVars, st, hint, hinted, budget>>
      /\ pc[Consumer] = "idle"
  BY DEF Read
<1>2. /\ queue.published \in Nat /\ queue.delivered \in Nat /\ queue.published <= MaxMsgs
      /\ queue.delivered <= queue.published /\ MaxMsgs \in Nat /\ ReadCount \in Nat
  BY <1>0, Consts DEF QueueOK
<1>3. upper \in Int /\ upper <= queue.published
  <2>1. queue.published \in Int /\ queue.delivered + ReadCount \in Int
    BY <1>2
  <2>2. upper \in {queue.published, queue.delivered + ReadCount} /\ upper <= queue.published
    BY <2>1, MinOfTwo
  <2>3. QED
    BY <2>1, <2>2
<1> HIDE DEF upper
<1>4. Max(got) = upper /\ upper \in queue.delivered + 1..MaxMsgs
  <2>1. got \in SUBSET Int /\ upper \in got
    BY <1>1, <1>2, <1>3
  <2>2. IsFiniteSet(got)
    <3>1. queue.delivered + 1 \in Int /\ upper \in Int
      BY <1>2, <1>3
    <3>2. QED
      BY <3>1, FS_Interval
  <2>3. Max(got) \in got /\ \A y \in got : y <= Max(got)
    <3> HIDE DEF got
    <3>1. QED
      BY <1>1, <2>1, <2>2, MaxFacts
  <2>4. Max(got) = upper
    BY <1>2, <1>3, <2>1, <2>3
  <2>5. QED
    BY <1>2, <1>3, <2>1, <2>4
<1>5. QueueOK'
  <2>1. got \subseteq 1..upper /\ 1..queue.delivered \subseteq 1..upper /\ 1..upper \subseteq 1..MaxMsgs
        /\ upper \in 0..MaxMsgs
    BY <1>2, <1>3, <1>4
  <2>2. /\ queue'.delivered = upper /\ queue'.published = queue.published
        /\ queue'.acked = queue.acked \cup (got \cap Poison) /\ queue'.inHand = valid
        /\ queue' = [published |-> queue.published, delivered |-> upper,
                     acked |-> queue.acked \cup (got \cap Poison), inHand |-> valid]
    BY <1>0, <1>1, <1>4 DEF QueueOK
  <2> HIDE DEF got
  <2>3. QED
    BY <1>0, <1>3, <2>1, <2>2 DEF QueueOK
<1>6. ProcOK'
  <2>1. CASE UNCHANGED <<pc, todo>>
    BY <1>0, <1>1, <2>1, Untouched DEF procVars
  <2>2. CASE /\ pc' = [pc EXCEPT ![Consumer] = "get"]
             /\ todo' = [todo EXCEPT ![Consumer] = ChainsFirst(valid)]
    <3> HIDE DEF valid
    <3>1. st[Consumer] = NoDrain /\ st' = [st EXCEPT ![Consumer] = NoDrain]
      BY <1>0, <1>1, Consts DEF ProcOK, Draining
    <3>2. ChainsFirst(valid) \in Seq(Keys) /\ ChainsFirst(valid) # <<>>
      BY OrderedType DEF ChainsFirst
    <3>3. BeginsDrain(Consumer, ChainsFirst(valid))
      BY <1>1, <2>2, <3>1, <3>2 DEF BeginsDrain
    <3>4. hint' \in [Keys -> Nat] /\ hinted' \in BOOLEAN
      BY <1>0, <1>1 DEF ProcOK
    <3>5. QED
      BY <1>0, <3>3, <3>4, BeginType, Consts
  <2>3. QED
    BY <1>1, <2>1, <2>2
<1>7. QED
  BY <1>0, <1>1, <1>5, <1>6, Untouched DEF TypeOK, coreVars

\* The poller begins a scheduled pass, or one that hints asked for.
LEMMA PassType ==
    ASSUME TypeOK,
           \/ StartPass
           \/ \E ks \in ChainLists : \E h \in [Keys -> 0..Max({MaxRecs[k] : k \in Keys})] :
                 StartHinted(ks, h)
    PROVE  TypeOK'
<1>0. CoreOK /\ DbOK /\ TxOK /\ ProcOK /\ QueueOK
      /\ budget \in [tampers : Nat, acks : Nat, fails : Nat, hints : Nat]
      /\ hint \in [Keys -> Nat] /\ hinted \in BOOLEAN
  BY DEF TypeOK, ProcOK
<1>1. CASE StartPass
  <2>1. st' = [st EXCEPT ![Poller] = NoDrain]
    BY <1>0, <1>1, Consts DEF StartPass, ProcOK, Draining
  <2>2. DrainOrder \in Seq(Keys) /\ DrainOrder # <<>>
    BY OrderedType DEF DrainOrder
  <2>3. BeginsDrain(Poller, DrainOrder)
    BY <1>1, <2>1, <2>2 DEF StartPass, BeginsDrain
  <2>4. ProcOK'
    BY <1>0, <1>1, <2>3, BeginType, Consts DEF StartPass
  <2>5. QED
    BY <1>0, <1>1, <2>4, Untouched DEF StartPass, coreVars, TypeOK
<1>2. ASSUME NEW ks \in ChainLists, NEW h \in [Keys -> 0..Max({MaxRecs[k] : k \in Keys})],
             StartHinted(ks, h)
      PROVE  TypeOK'
  <2>1. st' = [st EXCEPT ![Poller] = NoDrain]
    BY <1>0, <1>2, Consts DEF StartHinted, ProcOK, Draining
  <2>2. ks \in Seq(Keys) /\ ks # <<>>
    <3>1. PICK n \in 1..Cardinality(Keys) : ks \in [1..n -> Keys]
      BY DEF ChainLists
    <3>2. n \in Nat \ {0}
      OBVIOUS
    <3>3. ks \in Seq(Keys) /\ Len(ks) = n
      BY <3>1, <3>2, SeqDef
    <3>4. Len(<<>>) = 0
      BY EmptySeq
    <3>5. QED
      BY <3>2, <3>3, <3>4
  <2>3. BeginsDrain(Poller, ks)
    BY <1>2, <2>1, <2>2 DEF StartHinted, BeginsDrain
  <2>4. hint' \in [Keys -> Nat]
    <3>1. hint' = h /\ \A k \in Keys : h[k] \in 0..Len(core[k])
      BY <1>2 DEF StartHinted
    <3>2. \A k \in Keys : h[k] \in Nat
      BY <3>1
    <3>3. h = [k \in Keys |-> h[k]]
      OBVIOUS
    <3>4. QED
      BY <3>1, <3>2, <3>3
  <2>5. hinted' \in BOOLEAN
    BY <1>2, Zenon DEF StartHinted
  <2>6. ProcOK'
    BY <1>0, <2>3, <2>4, <2>5, BeginType, Consts
  <2>7. budget' \in [tampers : Nat, acks : Nat, fails : Nat, hints : Nat]
    <3>1. budget' = [budget EXCEPT !.hints = @ - 1] /\ budget.hints > 0
      BY <1>2 DEF StartHinted
    <3>2. QED
      BY <1>0, <3>1
  <2>8. QED
    BY <1>0, <1>2, <2>6, <2>7, Untouched DEF StartHinted, coreVars, TypeOK
<1>3. QED
  BY <1>1, <1>2

\* A process moves on within the drain of a chain.
LEMMA DrainMove ==
    ASSUME ProcOK, NEW p \in Procs, pc[p] \in Draining, NEW at \in Draining, NEW d \in DrainState,
           pc' = [pc EXCEPT ![p] = at], st' = [st EXCEPT ![p] = d],
           DrainOK(d, MaxRecs[Head(todo[p])]), at = "write" => d.page # <<>>,
           UNCHANGED <<todo, hint, hinted>>
    PROVE  ProcOK'
<1>1. todo[p] \in Seq(Keys) /\ todo[p] # <<>> /\ todo' = [todo EXCEPT ![p] = todo[p]]
  BY DEF ProcOK
<1>2. hint' \in [Keys -> Nat] /\ hinted' \in BOOLEAN
  BY DEF ProcOK
<1>3. at \notin {"record", "ack"}
  BY DEF Draining
<1>4. QED
  BY <1>1, <1>2, <1>3, ProcMove

\* The drain reads its cursor, or passes the chain over.
LEMMA GetCursorType ==
    ASSUME TypeOK, NEW p \in Procs, GetCursor(p)
    PROVE  TypeOK'
<1>0. CoreOK /\ DbOK /\ TxOK /\ ProcOK /\ QueueOK /\ pc[p] = "get" /\ pc[p] \in Draining
      /\ UNCHANGED <<coreVars, budget>>
  BY DEF TypeOK, GetCursor, Draining
<1> DEFINE k == Head(todo[p])
           d == [NoDrain EXCEPT !.last = Position(p, k)]
<1>1. k \in Keys
  BY <1>0 DEF ProcOK
<1>2. CASE SqlError(p)
  BY <1>0, <1>2, RaiseType, Untouched DEF TypeOK, coreVars
<1>3. CASE NextChain(p) /\ UNCHANGED <<dbVars, lockVars, txVars, hint, hinted, queue>>
  BY <1>0, <1>3, NextChainType, Untouched DEF TypeOK, coreVars
<1>4. CASE /\ pc' = [pc EXCEPT ![p] = "fetch"] /\ st' = [st EXCEPT ![p] = d]
           /\ UNCHANGED <<dbVars, lockVars, txVars, todo, hint, hinted, queue>>
  <2> HIDE DEF k
  <2>1. Position(p, k) \in Nat /\ Position(p, k) <= MaxRecs[k]
    BY <1>0, <1>1, Consts DEF Position, TxOK, DbOK
  <2>2. d \in DrainState /\ DrainOK(d, MaxRecs[k])
    <3> DEFINE l == Position(p, k)
    <3>1. d = [NoDrain EXCEPT !.last = l]
      OBVIOUS
    <3> HIDE DEF d, l
    <3>2. l \in Nat /\ l <= MaxRecs[k]
      BY <2>1 DEF l
    <3>3. NoDrain \in DrainState /\ NoDrain.page = <<>> /\ NoDrain.brk = 0
      BY NoDrainType DEF NoDrain
    <3>4. d \in DrainState /\ d.last = l /\ d.page = <<>> /\ d.brk = 0
      BY <3>1, <3>2, <3>3 DEF DrainState
    <3>5. QED
      BY <1>1, <3>2, <3>4, Consts, EmptySeq DEF DrainOK
  <2> HIDE DEF d
  <2>3. ProcOK'
    BY <1>0, <1>4, <2>2, DrainMove DEF Draining, k
  <2>4. QED
    BY <1>0, <1>4, <2>3, Untouched DEF TypeOK, coreVars
<1>5. QED
  BY <1>2, <1>3, <1>4 DEF GetCursor

\* What fetch and verify_batch leave: a break, a stale read, or a page to write.
LEMMA FetchType ==
    ASSUME TypeOK, NEW p \in Procs, Fetch(p)
    PROVE  TypeOK'
<1>0. CoreOK /\ DbOK /\ TxOK /\ ProcOK /\ QueueOK /\ pc[p] = "fetch" /\ pc[p] \in Draining
      /\ UNCHANGED <<coreVars, budget>>
  BY DEF TypeOK, Fetch, Draining
<1> DEFINE k == Head(todo[p])
           last == st[p].last
           asserted == IF p = Poller /\ st[p].pages = 0 THEN hint[k] ELSE 0
<1>1. PICK h \in (IF Lagging THEN 0..Len(core[k]) ELSE {Len(core[k])}) :
          LET all == Survivors(k, last, h)
              page == PageOf(all)
              breaks == Breaks(k, last, page)
              more == page # all IN
          \/ /\ breaks # {}
             /\ pc' = [pc EXCEPT ![p] = "halt"]
             /\ st' = [st EXCEPT ![p].brk = Min(breaks)]
             /\ UNCHANGED <<dbVars, lockVars, txVars, todo, hint, hinted, queue>>
          \/ /\ breaks = {} /\ Stale(last, page, more, asserted)
             /\ RaiseRefusal(p)
          \/ /\ breaks = {} /\ ~Stale(last, page, more, asserted)
             /\ pc' = [pc EXCEPT ![p] = IF page = {} THEN "stage" ELSE "write"]
             /\ st' = [st EXCEPT ![p].page = [i \in 1..Cardinality(page) |->
                                                 CoreRow(k, InOrder(page)[i])],
                                 ![p].more = more]
             /\ UNCHANGED <<dbVars, lockVars, txVars, todo, hint, hinted, queue>>
  BY DEF Fetch
<1> DEFINE page == PageOf(Survivors(k, last, h))
           more == page # Survivors(k, last, h)
           rows == [i \in 1..Cardinality(page) |-> CoreRow(k, InOrder(page)[i])]
           breaks == Breaks(k, last, page)
<1>2. /\ k \in Keys /\ todo[p] # <<>> /\ st[p] \in DrainState /\ last \in Nat
      /\ DrainOK(st[p], MaxRecs[k])
  BY <1>0 DEF ProcOK, DrainState
<1>3. h \in 0..Len(core[k])
  BY <1>0, <1>2 DEF CoreOK
<1>4. \/ /\ breaks # {}
         /\ pc' = [pc EXCEPT ![p] = "halt"]
         /\ st' = [st EXCEPT ![p].brk = Min(breaks)]
         /\ UNCHANGED <<dbVars, lockVars, txVars, todo, hint, hinted, queue>>
      \/ RaiseRefusal(p)
      \/ /\ pc' = [pc EXCEPT ![p] = IF page = {} THEN "stage" ELSE "write"]
         /\ st' = [st EXCEPT ![p].page = rows, ![p].more = more]
         /\ UNCHANGED <<dbVars, lockVars, txVars, todo, hint, hinted, queue>>
  BY <1>1
<1>5. /\ page \in SUBSET Nat /\ IsFiniteSet(page)
      /\ \A n \in page : n > last /\ n \in 1..Len(core[k]) /\ n <= MaxRecs[k]
  BY <1>0, <1>2, <1>3, PageFacts
<1>6. /\ rows \in Seq(Items) /\ \A i \in 1..Len(rows) : rows[i].n <= MaxRecs[k]
      /\ page # {} => rows # <<>>
  <2>1. page = PageOf(Survivors(k, last, h)) /\ rows = PageItems(k, page)
    BY DEF PageItems
  <2> HIDE DEF page, rows, k, last
  <2>2. QED
    BY <1>0, <1>2, <1>3, <2>1, PageRows
<1>7. more \in BOOLEAN
  BY Zenon
<1> HIDE DEF k, last, page, more, rows
<1>8. CASE /\ breaks # {}
           /\ pc' = [pc EXCEPT ![p] = "halt"]
           /\ st' = [st EXCEPT ![p].brk = Min(breaks)]
           /\ UNCHANGED <<dbVars, lockVars, txVars, todo, hint, hinted, queue>>
  <2> DEFINE b == Min(breaks)
             d == [st[p] EXCEPT !.brk = b]
  <2>1. breaks \subseteq page
    BY DEF Breaks
  <2>2. IsFiniteSet(breaks)
    BY <1>5, <2>1, FS_Subset
  <2>3. breaks \in SUBSET Int
    <3> HIDE DEF breaks
    <3>1. QED
      BY <1>5, <2>1
  <2>4. b \in breaks
    BY <1>8, <2>2, <2>3, MinFacts
  <2>5. b \in Nat /\ b <= MaxRecs[k]
    BY <1>5, <2>1, <2>4
  <2>6. st' = [st EXCEPT ![p] = d]
    BY <1>0, <1>8 DEF ProcOK
  <2> HIDE DEF breaks, b
  <2>7. d \in DrainState /\ d.last = st[p].last /\ d.page = st[p].page /\ d.brk = b
    BY <1>2, <2>5 DEF DrainState
  <2>8. DrainOK(d, MaxRecs[k])
    BY <1>2, <2>5, <2>7 DEF DrainOK
  <2> HIDE DEF d
  <2>9. ProcOK'
    BY <1>0, <1>8, <2>6, <2>7, <2>8, DrainMove DEF Draining, k
  <2>10. QED
    BY <1>0, <1>8, <2>9, Untouched DEF TypeOK, coreVars
<1>9. CASE RaiseRefusal(p)
  BY <1>0, <1>9, RaiseType, Untouched DEF TypeOK, coreVars
<1>10. CASE /\ pc' = [pc EXCEPT ![p] = IF page = {} THEN "stage" ELSE "write"]
            /\ st' = [st EXCEPT ![p].page = rows, ![p].more = more]
            /\ UNCHANGED <<dbVars, lockVars, txVars, todo, hint, hinted, queue>>
  <2> DEFINE d == [st[p] EXCEPT !.page = rows, !.more = more]
             at == IF page = {} THEN "stage" ELSE "write"
  <2>1. st' = [st EXCEPT ![p] = d]
    BY <1>0, <1>10 DEF ProcOK
  <2>2. d \in DrainState /\ d.last = st[p].last /\ d.page = rows /\ d.brk = st[p].brk
    BY <1>2, <1>6, <1>7 DEF DrainState
  <2>3. DrainOK(d, MaxRecs[k])
    BY <1>2, <1>6, <2>2 DEF DrainOK
  <2>4. at \in Draining /\ (at = "write" => d.page # <<>>)
    BY <1>6, <2>2 DEF Draining
  <2> HIDE DEF d, at
  <2>5. pc' = [pc EXCEPT ![p] = at] /\ UNCHANGED <<todo, hint, hinted>>
    BY <1>10 DEF at
  <2>6. ProcOK'
    BY <1>0, <2>1, <2>2, <2>3, <2>4, <2>5, DrainMove DEF k
  <2>7. QED
    BY <1>0, <1>10, <2>6, Untouched DEF TypeOK, coreVars
<1>11. QED
  BY <1>4, <1>8, <1>9, <1>10

\* The halt is kept, or lost, and the break is raised.
LEMMA HaltType ==
    ASSUME TypeOK, NEW p \in Procs, PersistHalt(p) \/ LoseHalt(p) \/ RaiseBreak(p)
    PROVE  TypeOK'
<1>0. CoreOK /\ DbOK /\ TxOK /\ ProcOK /\ QueueOK
  BY DEF TypeOK
<1>1. CASE RaiseBreak(p)
  <2>1. pc[p] \in Draining
    BY <1>1 DEF RaiseBreak, Draining
  <2>2. QED
    BY <1>0, <1>1, <2>1, RaiseType, Untouched DEF RaiseBreak, TypeOK, coreVars
<1>2. ASSUME PersistHalt(p) \/ LoseHalt(p) PROVE ProcOK' /\ pc[p] = "halt"
  <2>1. /\ pc[p] = "halt" /\ pc[p] \in Draining /\ pc' = [pc EXCEPT ![p] = "raise"]
        /\ UNCHANGED <<todo, st, hint, hinted>>
    BY <1>2 DEF PersistHalt, LoseHalt, Draining
  <2>2. st[p] \in DrainState /\ DrainOK(st[p], MaxRecs[Head(todo[p])]) /\ st' = [st EXCEPT ![p] = st[p]]
    BY <1>0, <2>1 DEF ProcOK
  <2>3. QED
    BY <1>0, <2>1, <2>2, DrainMove DEF Draining
<1>3. CASE LoseHalt(p)
  BY <1>0, <1>2, <1>3, Untouched DEF LoseHalt, TypeOK, coreVars
<1>4. CASE PersistHalt(p)
  <2> DEFINE k == Head(todo[p])
             x == [cursor[k] EXCEPT !.halt = IF @ = 0 THEN st[p].brk ELSE @]
  <2>1. k \in Keys /\ st[p].brk \in Nat /\ st[p].brk <= MaxRecs[k]
    BY <1>0, <1>2, <1>4 DEF ProcOK, Draining, DrainState, DrainOK
  <2> HIDE DEF k
  <2>2. cursor' = [cursor EXCEPT ![k] = x] /\ log' = log
    BY <1>0, <1>4, <2>1 DEF PersistHalt, DbOK, k
  <2>3. x \in [last : Nat, halt : Nat] /\ x.last <= MaxRecs[k] /\ x.halt <= MaxRecs[k]
    BY <1>0, <2>1 DEF DbOK
  <2> HIDE DEF x
  <2>4. DbOK'
    BY <1>0, <2>1, <2>2, <2>3 DEF DbOK
  <2>5. QED
    BY <1>0, <1>2, <1>4, <2>4, Untouched DEF PersistHalt, TypeOK, coreVars
<1>5. QED
  BY <1>1, <1>3, <1>4

\* What write_batch does to the rows and the locks of the chains.
Wrote(p, items) ==
    /\ \A k \in Keys : log[k] \o pend'[p][k] = WriteBatch(View(p, k), items[k])
    /\ \A q \in Procs : q # p => pend'[q] = pend[q]
    /\ \A k \in Keys : items[k] = <<>> /\ pend[p][k] = <<>> => pend'[p][k] = <<>>
    /\ \A k \in Keys : items[k] # <<>> => chainLock[k] \in {NoOwner, p} /\ chainLock'[k] = p
    /\ \A k \in Keys : items[k] = <<>> => chainLock'[k] = chainLock[k]

\* write_batch extends what the transaction sees of a chain by the batch's rows
\* for it, and takes the locks of the chains that it has rows for.
LEMMA WriteRowsFacts ==
    ASSUME DbOK, TxOK, NEW p \in Procs, NEW items \in [Keys -> Seq(Items)], WriteRows(p, items)
    PROVE  /\ pend' \in [Procs -> [Keys -> Seq(Rows)]]
           /\ chainLock' \in [Keys -> Procs \cup {NoOwner}]
           /\ Wrote(p, items)
<1>0. log \in [Keys -> Seq(Rows)] /\ pend \in [Procs -> [Keys -> Seq(Rows)]]
  BY DEF DbOK, TxOK
<1> DEFINE W(k) == WriteBatch(log[k] \o pend[p][k], items[k])
           own(k) == SubSeq(W(k), Len(log[k]) + 1, Len(W(k)))
           mine == [k \in Keys |-> own(k)]
<1>1. pend' = [pend EXCEPT ![p] = mine]
  BY <1>0 DEF WriteRows
<1>2. ASSUME NEW k \in Keys
      PROVE  /\ own(k) \in Seq(Rows) /\ log[k] \o own(k) = W(k)
             /\ items[k] = <<>> /\ pend[p][k] = <<>> => own(k) = <<>>
  <2> DEFINE old == log[k]
             view == log[k] \o pend[p][k]
             w == WriteBatch(view, items[k])
  <2>1. old \in Seq(Rows) /\ pend[p][k] \in Seq(Rows) /\ items[k] \in Seq(Items)
    BY <1>0
  <2>2. view \in Seq(Rows) /\ GoesOn(view, old) /\ (pend[p][k] = <<>> => view = old)
    BY <2>1, ViewFacts
  <2> HIDE DEF view
  <2>3. w \in Seq(Rows) /\ GoesOn(w, view) /\ (items[k] = <<>> => w = view)
    BY <2>1, <2>2, BatchFacts
  <2> HIDE DEF w, old
  <2>4. GoesOn(w, old)
    BY <2>1, <2>2, <2>3, GoesOnTrans
  <2>5. /\ SubSeq(w, Len(old) + 1, Len(w)) \in Seq(Rows)
        /\ old \o SubSeq(w, Len(old) + 1, Len(w)) = w
    BY <2>1, <2>3, <2>4, OwnRows
  <2>6. items[k] = <<>> /\ pend[p][k] = <<>> => SubSeq(w, Len(old) + 1, Len(w)) = <<>>
    <3>1. SUFFICES ASSUME w = old PROVE SubSeq(w, Len(old) + 1, Len(w)) = <<>>
      BY <2>2, <2>3
    <3>2. Len(SubSeq(w, Len(old) + 1, Len(w))) = 0
      BY <2>1, <3>1
    <3>3. QED
      BY <2>5, <3>2, EmptySeq
  <2>7. QED
    BY <2>5, <2>6 DEF w, view, old
<1>3. mine \in [Keys -> Seq(Rows)] /\ \A k \in Keys : mine[k] = own(k)
  BY <1>2
<1>4. ASSUME NEW k \in Keys
      PROVE  /\ log[k] \o mine[k] = WriteBatch(View(p, k), items[k])
             /\ items[k] = <<>> /\ pend[p][k] = <<>> => mine[k] = <<>>
  BY <1>2, <1>3 DEF View
<1> HIDE DEF mine
<1>5. /\ pend' \in [Procs -> [Keys -> Seq(Rows)]] /\ pend'[p] = mine
      /\ \A q \in Procs : q # p => pend'[q] = pend[q]
  BY <1>0, <1>1, <1>3
<1>6. /\ chainLock' \in [Keys -> Procs \cup {NoOwner}]
      /\ \A k \in Keys : items[k] # <<>> => chainLock[k] \in {NoOwner, p} /\ chainLock'[k] = p
      /\ \A k \in Keys : items[k] = <<>> => chainLock'[k] = chainLock[k]
  BY DEF WriteRows, Targets, TxOK
<1>7. QED
  BY <1>4, <1>5, <1>6 DEF Wrote

\* The items of a page go to the chain that the process drains.
LEMMA PageItemsType ==
    ASSUME ProcOK, NEW p \in Procs, pc[p] = "write"
    PROVE  LET k == Head(todo[p])
               items == [NoRows EXCEPT ![k] = st[p].page] IN
           /\ k \in Keys /\ items \in [Keys -> Seq(Items)] /\ items[k] = st[p].page
           /\ \A j \in Keys : j # k => items[j] = <<>>
<1> DEFINE k == Head(todo[p])
<1>1. k \in Keys /\ st[p].page \in Seq(Items)
  BY DEF ProcOK, Draining, DrainState
<1> HIDE DEF k
<1> DEFINE items == [NoRows EXCEPT ![k] = st[p].page]
<1>2. NoRows \in [Keys -> Seq(Items)] /\ \A j \in Keys : NoRows[j] = <<>>
  BY DEF NoRows
<1>3. /\ items \in [Keys -> Seq(Items)] /\ items[k] = st[p].page
      /\ \A j \in Keys : j # k => items[j] = <<>>
  BY <1>1, <1>2
<1>4. QED
  BY <1>1, <1>3 DEF k

\* A page is written, and the drain goes on from its last record.
LEMMA WritePageType ==
    ASSUME TypeOK, NEW p \in Procs, WritePage(p)
    PROVE  TypeOK'
<1>0. CoreOK /\ DbOK /\ TxOK /\ ProcOK /\ QueueOK /\ pc[p] = "write" /\ pc[p] \in Draining
      /\ UNCHANGED <<coreVars, budget>>
  BY DEF TypeOK, WritePage, Draining
<1>1. CASE SqlError(p)
  BY <1>0, <1>1, RaiseType, Untouched DEF TypeOK, coreVars
<1> DEFINE k == Head(todo[p])
           items == [NoRows EXCEPT ![k] = st[p].page]
           l == Last(st[p].page).n
           d == [st[p] EXCEPT !.last = l, !.pages = @ + 1]
           at == IF st[p].more /\ st[p].pages + 1 < MaxPages THEN "fetch" ELSE "stage"
<1>2. CASE /\ WriteRows(p, items)
           /\ st' = [st EXCEPT ![p].last = l, ![p].pages = @ + 1]
           /\ pc' = [pc EXCEPT ![p] = at]
           /\ UNCHANGED <<dbVars, rowLock, staged, failed, todo, hint, hinted, queue>>
  <2>1. k \in Keys /\ items \in [Keys -> Seq(Items)]
    BY <1>0, PageItemsType
  <2>2. /\ st[p] \in DrainState /\ st[p].page \in Seq(Items) /\ st[p].page # <<>>
        /\ DrainOK(st[p], MaxRecs[k]) /\ st[p].pages \in Nat
    BY <1>0 DEF ProcOK, DrainState
  <2> HIDE DEF k, items
  <2>3. TxOK'
    BY <1>0, <1>2, <2>1, WriteRowsFacts DEF TxOK
  <2>4. l \in Nat /\ l <= MaxRecs[k]
    <3>1. Len(st[p].page) \in 1..Len(st[p].page)
      BY <2>2, EmptySeq
    <3>2. st[p].page[Len(st[p].page)] \in Items
      BY <2>2, <3>1
    <3>3. l = st[p].page[Len(st[p].page)].n
      BY DEF Last
    <3>4. QED
      BY <2>2, <3>1, <3>2, <3>3 DEF Items, DrainOK
  <2>5. st' = [st EXCEPT ![p] = d]
    BY <1>0, <1>2 DEF ProcOK
  <2> HIDE DEF l
  <2>6. d \in DrainState /\ d.last = l /\ d.page = st[p].page /\ d.brk = st[p].brk
    <3> DEFINE e == st[p]
               n == e.pages + 1
    <3>1. d = [e EXCEPT !.last = l, !.pages = n] /\ e \in DrainState /\ n \in Nat /\ l \in Nat
      BY <2>2, <2>4
    <3> HIDE DEF d, e, n
    <3>2. d \in DrainState /\ d.last = l /\ d.page = e.page /\ d.brk = e.brk
      BY <3>1 DEF DrainState
    <3>3. QED
      BY <3>2 DEF e
  <2>7. DrainOK(d, MaxRecs[k])
    BY <2>2, <2>4, <2>6 DEF DrainOK
  <2>8. at \in Draining /\ at # "write"
    BY DEF Draining
  <2> HIDE DEF d, at
  <2>9. pc' = [pc EXCEPT ![p] = at] /\ UNCHANGED <<todo, hint, hinted>>
    BY <1>2
  <2>10. ProcOK'
    BY <1>0, <2>5, <2>6, <2>7, <2>8, <2>9, DrainMove DEF k
  <2>11. QED
    BY <1>0, <1>2, <2>3, <2>10, Untouched DEF TypeOK, coreVars
<1>3. QED
  BY <1>1, <1>2 DEF WritePage

\* The cursor's new position is staged and the drain goes on.
LEMMA StageCursorType ==
    ASSUME TypeOK, NEW p \in Procs, StageCursor(p)
    PROVE  TypeOK'
<1>0. CoreOK /\ DbOK /\ TxOK /\ ProcOK /\ QueueOK /\ pc[p] = "stage" /\ pc[p] \in Draining
      /\ UNCHANGED <<coreVars, budget>>
  BY DEF TypeOK, StageCursor, Draining
<1> DEFINE k == Head(todo[p])
           x == IF st[p].pages > 0 THEN st[p].last ELSE staged[p][k]
<1>1. k \in Keys /\ st[p].last \in Nat /\ st[p].last <= MaxRecs[k]
  BY <1>0 DEF ProcOK, DrainState, DrainOK
<1> HIDE DEF k
<1>2. /\ NextChain(p) /\ UNCHANGED <<dbVars, chainLock, pend, failed, hint, hinted, queue>>
      /\ rowLock' = [rowLock EXCEPT ![k] = p]
      /\ staged' = [staged EXCEPT ![p][k] = IF st[p].pages > 0 THEN st[p].last ELSE @]
  BY DEF StageCursor, k
<1>3. staged' = [staged EXCEPT ![p] = [staged[p] EXCEPT ![k] = x]]
  BY <1>0, <1>1, <1>2 DEF TxOK
<1>4. x \in Nat /\ x <= MaxRecs[k]
  BY <1>0, <1>1 DEF TxOK
<1> HIDE DEF x
<1>5. staged' \in [Procs -> [Keys -> Nat]] /\ \A q \in Procs, j \in Keys : staged'[q][j] <= MaxRecs[j]
  BY <1>0, <1>1, <1>3, <1>4 DEF TxOK
<1>6. TxOK'
  BY <1>0, <1>1, <1>2, <1>5 DEF TxOK
<1>7. QED
  BY <1>0, <1>2, <1>6, NextChainType, Untouched DEF TypeOK, coreVars

\* The rows of a batch: one for each of its messages, on the chain it names.
LEMMA QueueRowsFacts ==
    ASSUME QueueOK
    PROVE  /\ QueueRows \in [Keys -> Seq(Items)]
           /\ \A k \in Keys : \A i \in 1..Len(QueueRows[k]) : QueueRows[k][i].src = "queue"
           /\ \A m \in queue.inHand : /\ MsgKey[m] \in Keys
                 /\ \E i \in 1..Len(QueueRows[MsgKey[m]]) :
                       Id(QueueRows[MsgKey[m]][i]) = <<"queue", m>>
<1> DEFINE ms(k) == {m \in queue.inHand : MsgKey[m] = k}
           row(k) == [i \in 1..Len(InOrder(ms(k))) |-> QueueRow(InOrder(ms(k))[i])]
<1>0. queue.inHand \subseteq 1..MaxMsgs /\ MaxMsgs \in Nat /\ MsgKey \in [1..MaxMsgs -> Keys]
  BY DrainConstants, Consts DEF QueueOK
<1>1. QueueRows = [k \in Keys |-> row(k)]
  BY DEF QueueRows
<1>2. ASSUME NEW k \in Keys
      PROVE  /\ row(k) \in Seq(Items)
             /\ \A i \in 1..Len(row(k)) : row(k)[i].src = "queue"
             /\ \A m \in ms(k) : \E i \in 1..Len(row(k)) : Id(row(k)[i]) = <<"queue", m>>
  <2> DEFINE S == ms(k)
             o == InOrder(S)
             r == row(k)
  <2>1. S \in SUBSET Nat /\ S \subseteq 1..MaxMsgs
    BY <1>0
  <2>2. IsFiniteSet(S)
    <3>1. IsFiniteSet(1..MaxMsgs)
      BY <1>0, FS_Interval
    <3> HIDE DEF S
    <3>2. QED
      BY <2>1, <3>1, FS_Subset
  <2>3. r = [i \in 1..Len(o) |-> QueueRow(o[i])]
    OBVIOUS
  <2> HIDE DEF S, r
  <2>4. /\ Cardinality(S) \in Nat /\ Len(o) = Cardinality(S)
        /\ \A i \in 1..Len(o) : o[i] \in S
        /\ \A n \in S : \E i \in 1..Len(o) : o[i] = n
    BY <2>1, <2>2, InOrderFacts
  <2> HIDE DEF o
  <2>5. \A i \in 1..Len(o) : /\ r[i] \in Items /\ r[i].src = "queue"
                             /\ Id(r[i]) = <<"queue", o[i]>>
    <3> SUFFICES ASSUME NEW i \in 1..Len(o)
                 PROVE  r[i] \in Items /\ r[i].src = "queue" /\ Id(r[i]) = <<"queue", o[i]>>
      OBVIOUS
    <3>1. o[i] \in Nat \ {0}
      <4>1. o[i] \in 1..MaxMsgs
        BY <2>1, <2>4
      <4>2. QED
        BY <1>0, <4>1
    <3>2. r[i] = [src |-> "queue", n |-> o[i], status |-> "ok"]
      BY <2>3 DEF QueueRow
    <3>3. r[i] \in Items
      BY <3>1, <3>2 DEF Items
    <3>4. r[i].src = "queue" /\ r[i].n = o[i]
      BY <3>2
    <3>5. QED
      BY <3>3, <3>4 DEF Id
  <2>6. r \in [1..Len(o) -> Items]
    BY <2>3, <2>5
  <2>7. r \in Seq(Items)
    BY <2>4, <2>6, SeqDef
  <2>8. Len(r) = Len(o)
    BY <2>4, <2>6, <2>7
  <2>9. \A m \in S : \E i \in 1..Len(r) : Id(r[i]) = <<"queue", m>>
    BY <2>4, <2>5, <2>8
  <2>10. QED
    BY <2>5, <2>7, <2>8, <2>9 DEF S, r
<1>3. ASSUME NEW k \in Keys PROVE QueueRows[k] = row(k)
  BY <1>1
<1> HIDE DEF row
<1>4. QueueRows \in [Keys -> Seq(Items)]
  BY <1>1, <1>2
<1>5. \A k \in Keys : \A i \in 1..Len(QueueRows[k]) : QueueRows[k][i].src = "queue"
  BY <1>2, <1>3
<1>6. ASSUME NEW m \in queue.inHand
      PROVE  /\ MsgKey[m] \in Keys
             /\ \E i \in 1..Len(QueueRows[MsgKey[m]]) : Id(QueueRows[MsgKey[m]][i]) = <<"queue", m>>
  <2>1. MsgKey[m] \in Keys /\ m \in ms(MsgKey[m])
    BY <1>0
  <2>2. QED
    BY <1>2, <1>3, <2>1
<1>7. QED
  BY <1>4, <1>5, <1>6

\* The consumer records its batch, or gives it up.
LEMMA RecordQueueType == TypeOK /\ RecordQueue => TypeOK'
<1> SUFFICES ASSUME TypeOK, RecordQueue PROVE TypeOK'
  OBVIOUS
<1>0. CoreOK /\ DbOK /\ TxOK /\ ProcOK /\ QueueOK /\ UNCHANGED <<coreVars, budget>>
      /\ pc[Consumer] = "record" /\ Consumer \in Procs
  BY Consts DEF TypeOK, RecordQueue
<1>1. CASE Reset(Consumer)
  BY <1>0, <1>1, RaiseType, Untouched DEF TypeOK, coreVars
<1>2. CASE /\ WriteRows(Consumer, QueueRows)
           /\ pc' = [pc EXCEPT ![Consumer] = "commit"]
           /\ UNCHANGED <<dbVars, rowLock, staged, failed, todo, st, hint, hinted, queue>>
  <2>1. QueueRows \in [Keys -> Seq(Items)]
    BY <1>0, QueueRowsFacts
  <2>2. TxOK'
    BY <1>0, <1>2, <2>1, WriteRowsFacts DEF TxOK
  <2>3. ProcOK'
    BY <1>0, <1>2, Consts DEF ProcOK, Draining
  <2>4. QED
    BY <1>0, <1>2, <2>2, <2>3, Untouched DEF TypeOK, coreVars
<1>3. QED
  BY <1>1, <1>2 DEF RecordQueue

\* A commit makes the transaction's rows and positions the database's.
LEMMA CommitType ==
    ASSUME TypeOK, NEW p \in Procs, Commit(p)
    PROVE  TypeOK'
<1>0. CoreOK /\ DbOK /\ TxOK /\ ProcOK /\ QueueOK /\ UNCHANGED <<coreVars, budget>>
      /\ pc[p] = "commit" /\ Release(p)
  BY DEF TypeOK, Commit
<1>1. DbOK'
  <2>1. log' \in [Keys -> Seq(Rows)]
    <3>1. \A k \in Keys : log[k] \o pend[p][k] \in Seq(Rows)
      BY <1>0 DEF DbOK, TxOK
    <3>2. QED
      BY <3>1 DEF Commit
  <2>2. ASSUME NEW k \in Keys
        PROVE  /\ CursorAfter(p, k) \in [last : Nat, halt : Nat]
               /\ CursorAfter(p, k).last <= MaxRecs[k] /\ CursorAfter(p, k).halt <= MaxRecs[k]
    <3>1. staged[p][k] \in Nat /\ staged[p][k] <= MaxRecs[k]
      BY <1>0 DEF TxOK
    <3>2. /\ cursor[k] \in [last : Nat, halt : Nat]
          /\ cursor[k].last <= MaxRecs[k] /\ cursor[k].halt <= MaxRecs[k]
      BY <1>0 DEF DbOK
    <3>3. QED
      BY <3>1, <3>2 DEF CursorAfter
  <2>3. cursor' = [k \in Keys |-> CursorAfter(p, k)]
    BY DEF Commit
  <2>4. cursor' \in [Keys -> [last : Nat, halt : Nat]]
        /\ \A k \in Keys : cursor'[k].last <= MaxRecs[k] /\ cursor'[k].halt <= MaxRecs[k]
    BY <2>2, <2>3
  <2>5. QED
    BY <2>1, <2>4 DEF DbOK
<1>2. TxOK'
  BY <1>0, ReleaseType
<1>3. CASE GoIdle(p)
  BY <1>0, <1>1, <1>2, <1>3, GoIdleType, Untouched DEF TypeOK, coreVars
<1>4. CASE p # Poller /\ pc' = [pc EXCEPT ![p] = "ack"] /\ UNCHANGED <<todo, st, hint, hinted, queue>>
  <2>1. ProcOK'
    BY <1>0, <1>4, Consts DEF ProcOK, Draining
  <2>2. QED
    BY <1>0, <1>1, <1>2, <1>4, <2>1, Untouched DEF TypeOK, coreVars
<1>5. QED
  BY <1>3, <1>4 DEF Commit

\* The batch is acked.
LEMMA AckType == TypeOK /\ Ack => TypeOK'
<1> SUFFICES ASSUME TypeOK, Ack PROVE TypeOK'
  OBVIOUS
<1>0. CoreOK /\ DbOK /\ TxOK /\ ProcOK /\ QueueOK /\ Consumer \in Procs
  BY Consts DEF TypeOK
<1>1. /\ pc[Consumer] = "ack" /\ pc' = [pc EXCEPT ![Consumer] = "idle"]
      /\ queue' = [queue EXCEPT !.acked = @ \cup queue.inHand, !.inHand = {}]
      /\ UNCHANGED <<coreVars, dbVars, lockVars, txVars, todo, st, hint, hinted, budget>>
  BY DEF Ack
<1>2. ProcOK'
  BY <1>0, <1>1, Consts DEF ProcOK, Draining
<1>3. QueueOK'
  BY <1>0, <1>1 DEF QueueOK
<1>4. QED
  BY <1>0, <1>1, <1>2, <1>3, Untouched DEF TypeOK, coreVars

\* A waiting statement waits within a drain, or to record a batch, which only
\* the consumer does.
LEMMA WaitFailsKind ==
    ASSUME ProcOK, NEW p \in Procs, WaitFails(p)
    PROVE  Reset(p) \/ (pc[p] \in Draining /\ SqlError(p))
<1>1. pc[p] \in {"write", "stage", "record"}
  BY DEF WaitFails, BlockedBy
<1>2. CASE pc[p] = "record"
  <2>1. p # Poller
    BY <1>2 DEF ProcOK
  <2>2. QED
    BY <2>1 DEF WaitFails, SqlError
<1>3. QED
  BY <1>1, <1>2 DEF WaitFails, Draining

\* A process, its connection or a call to the core fails.
LEMMA FailType ==
    ASSUME TypeOK, NEW p \in Procs, FetchFails(p) \/ Fail(p) \/ WaitFails(p)
    PROVE  TypeOK'
<1>0. CoreOK /\ DbOK /\ TxOK /\ ProcOK /\ QueueOK
      /\ budget \in [tampers : Nat, acks : Nat, fails : Nat, hints : Nat]
  BY DEF TypeOK
<1>1. core' = core
  BY DEF FetchFails, Fail, WaitFails, coreVars
<1>2. budget' \in [tampers : Nat, acks : Nat, fails : Nat, hints : Nat]
  <2>1. budget' = budget \/ (budget.fails > 0 /\ budget' = [budget EXCEPT !.fails = @ - 1])
    BY DEF FetchFails, Fail, WaitFails
  <2>2. QED
    BY <1>0, <2>1
<1>3. Reset(p) \/ (pc[p] \in Draining /\ (RaiseError(p) \/ SqlError(p)))
  BY <1>0, WaitFailsKind DEF FetchFails, Fail, Draining
<1>4. QED
  BY <1>0, <1>1, <1>2, <1>3, RaiseType, Untouched DEF TypeOK

\* No step of the system breaks the types.
LEMMA TypeStep == TypeOK /\ [Next]_vars => TypeOK'
<1> SUFFICES ASSUME TypeOK, [Next]_vars PROVE TypeOK'
  OBVIOUS
<1>1. CASE Environment
  BY <1>1, EnvironmentType
<1>2. CASE Read \/ RecordQueue \/ Ack
  BY <1>2, ReadType, RecordQueueType, AckType
<1>3. CASE \/ StartPass
           \/ \E ks \in ChainLists : \E h \in [Keys -> 0..Max({MaxRecs[k] : k \in Keys})] :
                 StartHinted(ks, h)
  BY <1>3, PassType
<1>4. ASSUME NEW p \in Procs, Proceed(p) \/ FetchFails(p) \/ Fail(p) PROVE TypeOK'
  BY <1>4, GetCursorType, FetchType, HaltType, WritePageType, StageCursorType, CommitType,
     FailType DEF Proceed
<1>5. CASE UNCHANGED vars
  <2>1. CoreOK' /\ DbOK' /\ TxOK' /\ ProcOK' /\ QueueOK'
    BY <1>5, Untouched DEF TypeOK, vars, dbVars, lockVars, txVars, procVars
  <2>2. QED
    BY <1>5, <2>1 DEF TypeOK, vars
<1>6. QED
  BY <1>1, <1>2, <1>3, <1>4, <1>5 DEF Next

\* The state of the drains, the transactions and the queue is always well
\* formed, and no position, halt or page goes beyond what the core ever had.
THEOREM TypeCorrect == Spec => []TypeOK
<1>1. Init => TypeOK
  BY TypeInit
<1>2. TypeOK /\ [Next]_vars => TypeOK'
  BY TypeStep
<1>3. QED
  BY <1>1, <1>2, PTL DEF Spec

-----------------------------------------------------------------------------
(* The inductive invariant.  What one process does to its own transaction  *)
(* never takes rows from what the other one sees.                          *)

\* The part of PositionInv that is about process q.
Positions(q) ==
    /\ \A k \in Keys : staged[q][k] # 0 => staged[q][k] \in CoreSeqs(View(q, k))
    /\ \A k \in Keys : pc[q] \in {"fetch", "write", "stage"} /\ k = Head(todo[q]) =>
          /\ st[q].last \in CoreSeqs(View(q, k)) \cup {AnchorSeq[k]}
          /\ st[q].pages > 0 => st[q].last \in CoreSeqs(View(q, k))
    /\ pc[q] = "write" => \A i \in 1..Len(st[q].page) :
          st[q].page[i] = [src |-> "core", n |-> st[q].last + i, status |-> "ok"]

\* PositionInv is about the cursors and about each process.
LEMMA PositionParts ==
    /\ TypeOK /\ PositionInv => CursorBacked /\ \A q \in Procs : Positions(q)
    /\ TypeOK' /\ CursorBacked' /\ (\A q \in Procs : Positions(q)') => PositionInv'
<1>1. ASSUME TypeOK, PositionInv PROVE CursorBacked /\ \A q \in Procs : Positions(q)
  BY <1>1, Zenon DEF PositionInv, Positions
<1>2. ASSUME TypeOK', CursorBacked', \A q \in Procs : Positions(q)' PROVE PositionInv'
  <2>1. \A q \in Procs : pc'[q] \in {"fetch", "write", "stage"} => Head(todo'[q]) \in Keys
    BY <1>2 DEF TypeOK, ProcOK, Draining
  <2>2. QED
    BY <1>2, <2>1, Zenon DEF PositionInv, Positions, View
<1>3. QED
  BY <1>1, <1>2

\* What a transaction sees is a sequence of rows.
LEMMA ViewType ==
    TypeOK => \A q \in Procs, k \in Keys : /\ log[k] \in Seq(Rows) /\ pend[q][k] \in Seq(Rows)
                                           /\ View(q, k) \in Seq(Rows)
                                           /\ GoesOn(View(q, k), log[k])
                                           /\ pend[q][k] = <<>> => View(q, k) = log[k]
<1> SUFFICES ASSUME TypeOK, NEW q \in Procs, NEW k \in Keys
             PROVE  /\ log[k] \in Seq(Rows) /\ pend[q][k] \in Seq(Rows)
                    /\ View(q, k) \in Seq(Rows) /\ GoesOn(View(q, k), log[k])
                    /\ pend[q][k] = <<>> => View(q, k) = log[k]
  OBVIOUS
<1>1. log[k] \in Seq(Rows) /\ pend[q][k] \in Seq(Rows)
  BY DEF TypeOK, DbOK, TxOK
<1>2. QED
  BY <1>1, ViewFacts DEF View

\* Every sequence of rows goes on from itself.
LEMMA GoesOnSelf == \A rows \in Seq(Rows) : GoesOn(rows, rows)
BY DEF GoesOn

\* A process that does not move keeps its positions while its view grows.
LEMMA PositionsKeep ==
    ASSUME TypeOK, TypeOK', NEW q \in Procs, Positions(q),
           \A k \in Keys : GoesOn(View(q, k)', View(q, k)),
           staged'[q] = staged[q], pc'[q] = pc[q], todo'[q] = todo[q], st'[q] = st[q]
    PROVE  Positions(q)'
<1>1. \A k \in Keys : CoreSeqs(View(q, k)) \subseteq CoreSeqs(View(q, k)')
  <2> SUFFICES ASSUME NEW k \in Keys PROVE CoreSeqs(View(q, k)) \subseteq CoreSeqs(View(q, k)')
    OBVIOUS
  <2>1. View(q, k) \in Seq(Rows) /\ View(q, k)' \in Seq(Rows)
    <3>1. View(q, k) \in Seq(Rows)
      BY ViewType
    <3>2. View(q, k)' \in Seq(Rows)
      <4>1. log'[k] \in Seq(Rows) /\ pend'[q][k] \in Seq(Rows)
        BY DEF TypeOK, DbOK, TxOK
      <4>2. QED
        BY <4>1 DEF View
    <3>3. QED
      BY <3>1, <3>2
  <2>2. QED
    BY <2>1, GoesOnFacts
<1>2. \A k \in Keys : staged'[q][k] # 0 => staged'[q][k] \in CoreSeqs(View(q, k)')
  BY <1>1 DEF Positions
<1>3. \A k \in Keys : pc'[q] \in {"fetch", "write", "stage"} /\ k = Head(todo'[q]) =>
          /\ st'[q].last \in CoreSeqs(View(q, k)') \cup {AnchorSeq[k]}
          /\ st'[q].pages > 0 => st'[q].last \in CoreSeqs(View(q, k)')
  BY <1>1 DEF Positions
<1>4. pc'[q] = "write" => \A i \in 1..Len(st'[q].page) :
          st'[q].page[i] = [src |-> "core", n |-> st'[q].last + i, status |-> "ok"]
  BY DEF Positions
<1>5. QED
  BY <1>2, <1>3, <1>4, Zenon DEF Positions

\* A process that leaves a drain, or its transaction, has only the positions it
\* staged before.
LEMMA PositionsRest ==
    ASSUME TypeOK, TypeOK', NEW q \in Procs, Positions(q),
           pc'[q] \notin {"fetch", "write", "stage"},
           \/ staged'[q] = NoStage
           \/ staged'[q] = staged[q] /\ \A k \in Keys : View(q, k)' = View(q, k)
    PROVE  Positions(q)'
<1>1. ASSUME NEW k \in Keys, staged'[q][k] # 0
      PROVE  staged'[q][k] \in CoreSeqs(View(q, k)')
  <2>1. staged'[q] # NoStage
    BY <1>1 DEF NoStage
  <2>2. staged'[q] = staged[q] /\ View(q, k)' = View(q, k)
    BY <2>1
  <2>3. staged[q][k] # 0 => staged[q][k] \in CoreSeqs(View(q, k))
    BY DEF Positions
  <2>4. QED
    BY <1>1, <2>2, <2>3
<1>2. ~(pc'[q] \in {"fetch", "write", "stage"}) /\ pc'[q] # "write"
  OBVIOUS
<1>3. QED
  BY <1>1, <1>2, Zenon DEF Positions

\* Rolling a transaction back, or leaving it alone, keeps the chains' locks
\* right and what everyone sees in sequence.
LEMMA SequenceKeep ==
    ASSUME TypeOK, TypeOK', LockInv, SequenceInv, log' = log, NEW p \in Procs,
           UNCHANGED <<chainLock, pend>> \/ Drop(p)
    PROVE  LockInv' /\ SequenceInv' /\ \A q \in Procs, k \in Keys :
              \/ pend'[q] = pend[q] /\ View(q, k)' = View(q, k)
              \/ q = p /\ pend'[q] = NoRows /\ View(q, k)' = log[k]
<1>1. ASSUME NEW q \in Procs, NEW k \in Keys
      PROVE  /\ pend'[q][k] # <<>> => chainLock'[k] = q
             /\ \/ pend'[q] = pend[q] /\ View(q, k)' = View(q, k)
                \/ q = p /\ pend'[q] = NoRows /\ View(q, k)' = log[k]
             /\ InSequence(View(q, k)', AnchorSeq[k])
  <2>0. InSequence(View(q, k), AnchorSeq[k]) /\ InSequence(log[k], AnchorSeq[k])
    BY DEF SequenceInv, NothingSkipped
  <2>1. CASE UNCHANGED <<chainLock, pend>>
    <3>1. View(q, k)' = View(q, k)
      BY <2>1 DEF View
    <3>2. QED
      BY <2>0, <2>1, <3>1 DEF LockInv
  <2>2. CASE Drop(p) /\ q = p
    <3>1. pend'[q] = NoRows /\ pend'[q][k] = <<>>
      BY <2>2 DEF Drop, NoRows, TypeOK, TxOK
    <3>2. View(q, k)' = log[k]
      <4>1. log[k] \in Seq(Rows)
        BY ViewType
      <4>2. log[k] \o <<>> = log[k]
        BY <4>1
      <4>3. QED
        BY <3>1, <4>2 DEF View
    <3>3. QED
      BY <2>0, <2>2, <3>1, <3>2
  <2>3. CASE Drop(p) /\ q # p
    <3>1. pend'[q] = pend[q]
      BY <2>3 DEF Drop, TypeOK, TxOK
    <3>2. View(q, k)' = View(q, k)
      BY <3>1 DEF View
    <3>3. pend[q][k] # <<>> => chainLock'[k] = q
      BY <2>3 DEF LockInv, Drop
    <3>4. QED
      BY <2>0, <3>1, <3>2, <3>3
  <2>4. QED
    BY <2>1, <2>2, <2>3
<1>2. LockInv'
  BY <1>1 DEF LockInv
<1>3. SequenceInv'
  BY <1>1 DEF SequenceInv, NothingSkipped
<1>4. QED
  BY <1>1, <1>2, <1>3

\* The cursors stay backed while the log grows and no position is committed.
LEMMA CursorKeep ==
    ASSUME TypeOK, TypeOK', CursorBacked, \A k \in Keys : GoesOn(log'[k], log[k]),
           \A k \in Keys : cursor'[k].last = cursor[k].last
    PROVE  CursorBacked'
<1>1. \A k \in Keys : CoreSeqs(log[k]) \subseteq CoreSeqs(log'[k])
  <2>1. \A k \in Keys : log[k] \in Seq(Rows) /\ log'[k] \in Seq(Rows)
    BY DEF TypeOK, DbOK
  <2>2. QED
    BY <2>1, GoesOnFacts
<1>2. QED
  BY <1>1 DEF CursorBacked, Recorded

\* Acked messages stay in the log, and so does the batch in hand, unless the
\* consumer is about to record it.
LEMMA BatchKeep ==
    ASSUME TypeOK, TypeOK', BatchInv, \A k \in Keys : GoesOn(log'[k], log[k]),
           queue'.acked \ Poison \subseteq queue.acked,
           \/ pc'[Consumer] \notin {"commit", "ack"}
           \/ /\ pc'[Consumer] = pc[Consumer] /\ queue'.inHand = queue.inHand
              /\ \A k \in Keys : GoesOn(View(Consumer, k)', View(Consumer, k))
    PROVE  BatchInv'
<1>0. \A m \in 1..MaxMsgs : MsgKey[m] \in Keys
  BY DrainConstants
<1>1. \A k \in Keys : log[k] \in Seq(Rows) /\ log'[k] \in Seq(Rows)
  BY DEF TypeOK, DbOK
<1>2. \A k \in Keys : \A id : Has(log[k], id) => Has(log'[k], id)
  BY <1>1, GoesOnFacts
<1>3. AckedIsDurable'
  <2>1. ASSUME NEW m \in queue'.acked \ Poison PROVE Has(log'[MsgKey[m]], <<"queue", m>>)
    <3>1. m \in queue.acked \ Poison
      BY <2>1
    <3>2. queue.acked \subseteq 1..MaxMsgs
      BY DEF TypeOK, QueueOK
    <3>3. MsgKey[m] \in Keys
      BY <1>0, <3>1, <3>2
    <3>4. Has(log[MsgKey[m]], <<"queue", m>>)
      BY <3>1 DEF BatchInv, AckedIsDurable
    <3>5. QED
      BY <1>2, <3>3, <3>4
  <2>2. QED
    BY <2>1, Zenon DEF AckedIsDurable
<1>4. ASSUME NEW m \in queue'.inHand
      PROVE  /\ pc'[Consumer] = "commit" => Has(View(Consumer, MsgKey[m])', <<"queue", m>>)
             /\ pc'[Consumer] = "ack" => Has(log'[MsgKey[m]], <<"queue", m>>)
  <2>1. CASE pc'[Consumer] \notin {"commit", "ack"}
    BY <2>1
  <2>2. CASE /\ pc'[Consumer] = pc[Consumer] /\ queue'.inHand = queue.inHand
             /\ \A k \in Keys : GoesOn(View(Consumer, k)', View(Consumer, k))
    <3>1. MsgKey[m] \in Keys
      BY <1>0, <2>2 DEF TypeOK, QueueOK
    <3> DEFINE k == MsgKey[m]
    <3>2. View(Consumer, k) \in Seq(Rows) /\ View(Consumer, k)' \in Seq(Rows)
      <4>1. Consumer \in Procs
        BY Consts
      <4>2. View(Consumer, k) \in Seq(Rows)
        BY <3>1, <4>1, ViewType
      <4>3. log'[k] \in Seq(Rows) /\ pend'[Consumer][k] \in Seq(Rows)
        BY <3>1, <4>1 DEF TypeOK, DbOK, TxOK
      <4>4. QED
        BY <4>2, <4>3 DEF View
    <3>3. \A id : Has(View(Consumer, k), id) => Has(View(Consumer, k)', id)
      BY <2>2, <3>1, <3>2, GoesOnFacts
    <3>4. /\ pc[Consumer] = "commit" => Has(View(Consumer, k), <<"queue", m>>)
          /\ pc[Consumer] = "ack" => Has(log[k], <<"queue", m>>)
      BY <2>2 DEF BatchInv
    <3>5. QED
      BY <1>2, <2>2, <3>1, <3>3, <3>4
  <2>3. QED
    BY <2>1, <2>2
<1>5. QED
  BY <1>3, <1>4 DEF BatchInv

\* A step of p that writes no row and commits nothing: it moves on, or rests
\* with what it staged or with a transaction rolled back.
LEMMA LocalStep ==
    ASSUME TypeOK, TypeOK', DrainInv, NEW p \in Procs, log' = log,
           \A k \in Keys : cursor'[k].last = cursor[k].last,
           UNCHANGED <<chainLock, pend, staged>> \/ Drop(p),
           \A q \in Procs : q # p => pc'[q] = pc[q] /\ todo'[q] = todo[q] /\ st'[q] = st[q],
           pc'[p] \in {"fetch", "write", "stage"} => Positions(p)',
           p = Consumer => pc'[p] \notin {"commit", "ack"},
           p # Consumer => queue'.inHand = queue.inHand,
           queue'.acked \ Poison \subseteq queue.acked
    PROVE  DrainInv'
<1>0. LockInv /\ SequenceInv /\ CursorBacked /\ BatchInv /\ \A q \in Procs : Positions(q)
  BY PositionParts DEF DrainInv
<1>1. LockInv' /\ SequenceInv' /\ \A q \in Procs, k \in Keys :
         \/ pend'[q] = pend[q] /\ View(q, k)' = View(q, k)
         \/ q = p /\ pend'[q] = NoRows /\ View(q, k)' = log[k]
  BY <1>0, SequenceKeep
<1>2. \A k \in Keys : GoesOn(log'[k], log[k])
  <2>1. \A k \in Keys : log[k] \in Seq(Rows)
    BY DEF TypeOK, DbOK
  <2>2. QED
    BY <2>1, GoesOnSelf
<1>3. CursorBacked'
  BY <1>0, <1>2, CursorKeep
<1>4. ASSUME NEW q \in Procs, q # p
      PROVE  Positions(q)' /\ \A k \in Keys : GoesOn(View(q, k)', View(q, k))
  <2>1. \A k \in Keys : GoesOn(View(q, k)', View(q, k))
    <3> SUFFICES ASSUME NEW k \in Keys PROVE GoesOn(View(q, k)', View(q, k))
      OBVIOUS
    <3>1. View(q, k)' = View(q, k) /\ View(q, k) \in Seq(Rows)
      BY <1>1, <1>4, ViewType
    <3>2. QED
      BY <3>1, GoesOnSelf
  <2>2. staged'[q] = staged[q]
    BY <1>4 DEF Drop, TypeOK, TxOK
  <2>3. QED
    BY <1>0, <1>4, <2>1, <2>2, PositionsKeep
<1>5. Positions(p)'
  <2>1. CASE pc'[p] \in {"fetch", "write", "stage"}
    BY <2>1
  <2>2. CASE pc'[p] \notin {"fetch", "write", "stage"}
    <3>1. \/ staged'[p] = NoStage
          \/ staged'[p] = staged[p] /\ \A k \in Keys : View(p, k)' = View(p, k)
      <4>1. CASE Drop(p)
        BY <4>1 DEF Drop, TypeOK, TxOK
      <4>2. CASE UNCHANGED <<chainLock, pend, staged>>
        BY <4>2 DEF View
      <4>3. QED
        BY <4>1, <4>2
    <3>2. QED
      BY <1>0, <2>2, <3>1, PositionsRest
  <2>3. QED
    BY <2>1, <2>2
<1>6. BatchInv'
  <2>1. CASE p = Consumer
    BY <1>0, <1>2, <2>1, BatchKeep
  <2>2. CASE p # Consumer
    <3>1. Consumer \in Procs
      BY Consts
    <3>2. pc'[Consumer] = pc[Consumer] /\ \A k \in Keys : GoesOn(View(Consumer, k)', View(Consumer, k))
      BY <1>4, <2>2, <3>1
    <3>3. QED
      BY <1>0, <1>2, <2>2, <3>2, BatchKeep
  <2>3. QED
    BY <2>1, <2>2
<1>7. PositionInv'
  BY <1>3, <1>4, <1>5, PositionParts
<1>8. QED
  BY <1>1, <1>6, <1>7 DEF DrainInv

\* The environment moves no process.
LEMMA StillStep ==
    ASSUME TypeOK, TypeOK', DrainInv, UNCHANGED <<log, chainLock, pend, staged, pc, todo, st>>,
           \A k \in Keys : cursor'[k].last = cursor[k].last,
           queue'.inHand = queue.inHand, queue'.acked = queue.acked
    PROVE  DrainInv'
<1>0. LockInv /\ SequenceInv /\ CursorBacked /\ BatchInv /\ \A q \in Procs : Positions(q)
  BY PositionParts DEF DrainInv
<1>1. Poller \in Procs /\ Consumer \in Procs
  BY Consts
<1>2. LockInv' /\ SequenceInv'
  BY <1>0, <1>1, SequenceKeep
<1>3. \A k \in Keys : GoesOn(log'[k], log[k])
  <2>1. \A k \in Keys : log[k] \in Seq(Rows)
    BY DEF TypeOK, DbOK
  <2>2. QED
    BY <2>1, GoesOnSelf
<1>4. \A q \in Procs, k \in Keys : GoesOn(View(q, k)', View(q, k))
  <2> SUFFICES ASSUME NEW q \in Procs, NEW k \in Keys PROVE GoesOn(View(q, k)', View(q, k))
    OBVIOUS
  <2>1. View(q, k)' = View(q, k)
    BY DEF View
  <2>2. View(q, k) \in Seq(Rows)
    BY ViewType
  <2>3. QED
    BY <2>1, <2>2, GoesOnSelf
<1>5. CursorBacked'
  BY <1>0, <1>3, CursorKeep
<1>6. ASSUME NEW q \in Procs PROVE Positions(q)'
  BY <1>0, <1>4, PositionsKeep
<1>7. BatchInv'
  BY <1>0, <1>1, <1>3, <1>4, BatchKeep
<1>8. PositionInv'
  BY <1>5, <1>6, PositionParts
<1>9. QED
  BY <1>2, <1>7, <1>8 DEF DrainInv

\* The rows of a batch go on from what p sees of their chains.
Continues(p, items) ==
    \A k \in Keys :
        \/ \A i \in 1..Len(items[k]) : items[k][i].src = "queue"
        \/ \E last \in CoreSeqs(View(p, k)) \cup {AnchorSeq[k]} : \A i \in 1..Len(items[k]) :
              items[k][i] = [src |-> "core", n |-> last + i, status |-> "ok"]

\* write_batch under the chain's lock keeps what everyone sees in sequence.
LEMMA WriteStep ==
    ASSUME TypeOK, TypeOK', LockInv, SequenceInv, log' = log, NEW p \in Procs,
           NEW items \in [Keys -> Seq(Items)], WriteRows(p, items),
           Continues(p, items)
    PROVE  /\ LockInv' /\ SequenceInv'
           /\ \A q \in Procs, k \in Keys : GoesOn(View(q, k)', View(q, k))
           /\ \A k \in Keys : \A i \in 1..Len(items[k]) : Has(View(p, k)', Id(items[k][i]))
<1>0. DbOK /\ TxOK
  BY DEF TypeOK
<1>1. /\ \A k \in Keys : log[k] \o pend'[p][k] = WriteBatch(View(p, k), items[k])
      /\ \A q \in Procs : q # p => pend'[q] = pend[q]
      /\ \A k \in Keys : items[k] = <<>> /\ pend[p][k] = <<>> => pend'[p][k] = <<>>
      /\ \A k \in Keys : items[k] # <<>> => chainLock[k] \in {NoOwner, p} /\ chainLock'[k] = p
      /\ \A k \in Keys : items[k] = <<>> => chainLock'[k] = chainLock[k]
  <2>1. Wrote(p, items)
    BY <1>0, WriteRowsFacts
  <2>2. QED
    BY <2>1 DEF Wrote
<1>2. LockInv'
  <2>1. ASSUME NEW q \in Procs, NEW k \in Keys, pend'[q][k] # <<>> PROVE chainLock'[k] = q
    <3>1. CASE q = p
      BY <1>1, <2>1, <3>1 DEF LockInv
    <3>2. CASE q # p
      <4>1. pend[q][k] # <<>>
        BY <1>1, <2>1, <3>2
      <4>2. chainLock[k] = q
        BY <4>1 DEF LockInv
      <4>3. items[k] = <<>>
        BY <1>1, <3>2, <4>2, Consts
      <4>4. QED
        BY <1>1, <4>2, <4>3
    <3>3. QED
      BY <3>1, <3>2
  <2>2. QED
    BY <2>1 DEF LockInv
<1>3. ASSUME NEW k \in Keys
      PROVE  /\ View(p, k)' = WriteBatch(View(p, k), items[k])
             /\ \A q \in Procs : q # p => View(q, k)' = View(q, k)
  BY <1>1 DEF View
<1>4. ASSUME NEW k \in Keys
      PROVE  /\ GoesOn(View(p, k)', View(p, k)) /\ InSequence(View(p, k)', AnchorSeq[k])
             /\ \A i \in 1..Len(items[k]) : Has(View(p, k)', Id(items[k][i]))
  <2> DEFINE v == View(p, k)
             x == items[k]
  <2>1. v \in Seq(Rows) /\ x \in Seq(Items) /\ InSequence(v, AnchorSeq[k]) /\ AnchorSeq[k] \in Nat
    BY ViewType, Consts DEF SequenceInv
  <2>2. \/ \A i \in 1..Len(x) : x[i].src = "queue"
        \/ \E last \in CoreSeqs(v) \cup {AnchorSeq[k]} : \A i \in 1..Len(x) :
              x[i] = [src |-> "core", n |-> last + i, status |-> "ok"]
    BY DEF Continues
  <2>3. View(p, k)' = WriteBatch(v, x)
    BY <1>3
  <2> HIDE DEF v, x
  <2>4. InSequence(WriteBatch(v, x), AnchorSeq[k])
    BY <2>1, <2>2, SequenceBatch
  <2>5. GoesOn(WriteBatch(v, x), v) /\ \A i \in 1..Len(x) : Has(WriteBatch(v, x), Id(x[i]))
    BY <2>1, BatchFacts
  <2>6. QED
    BY <2>3, <2>4, <2>5 DEF v, x
<1>5. ASSUME NEW q \in Procs, NEW k \in Keys
      PROVE  GoesOn(View(q, k)', View(q, k)) /\ InSequence(View(q, k)', AnchorSeq[k])
  <2>1. CASE q = p
    BY <1>4, <2>1
  <2>2. CASE q # p
    <3>1. View(q, k)' = View(q, k)
      BY <1>3, <2>2
    <3>2. View(q, k) \in Seq(Rows) /\ InSequence(View(q, k), AnchorSeq[k])
      BY ViewType DEF SequenceInv
    <3>3. QED
      BY <3>1, <3>2, GoesOnSelf
  <2>3. QED
    BY <2>1, <2>2
<1>6. SequenceInv'
  <2>1. NothingSkipped'
    BY DEF SequenceInv, NothingSkipped
  <2>2. QED
    BY <1>5, <2>1 DEF SequenceInv
<1>7. QED
  BY <1>2, <1>4, <1>5, <1>6

-----------------------------------------------------------------------------
(* DrainInv, action by action.                                             *)

\* Nothing has been written or staged at the start.
LEMMA DrainInit == Init => DrainInv
<1> SUFFICES ASSUME Init PROVE DrainInv
  OBVIOUS
<1>1. /\ log = NoRows /\ pend = [p \in Procs |-> NoRows] /\ staged = [p \in Procs |-> NoStage]
      /\ pc = [p \in Procs |-> "idle"] /\ cursor = [k \in Keys |-> [last |-> 0, halt |-> 0]]
      /\ queue.acked = {} /\ queue.inHand = {}
  BY DEF Init
<1>2. \A p \in Procs, k \in Keys : log[k] = <<>> /\ pend[p][k] = <<>> /\ View(p, k) = <<>>
  BY <1>1, EmptySeq, Consts DEF NoRows, View
<1>3. \A a : InSequence(<<>>, a)
  <2>1. Len(<<>>) = 0
    BY EmptySeq
  <2>2. 1..Len(<<>>) = {}
    BY <2>1
  <2>3. QED
    BY <2>2, Zenon DEF InSequence
<1>4. LockInv /\ SequenceInv
  <2>1. \A k \in Keys : log[k] = <<>>
    BY <1>1 DEF NoRows
  <2>2. NothingSkipped
    BY <1>3, <2>1 DEF NothingSkipped
  <2>3. QED
    BY <1>2, <1>3, <2>2 DEF LockInv, SequenceInv
<1>5. PositionInv
  <2>1. CursorBacked
    BY <1>1 DEF CursorBacked
  <2>2. \A p \in Procs, k \in Keys : staged[p][k] = 0
    BY <1>1 DEF NoStage
  <2>3. \A p \in Procs : pc[p] \notin {"fetch", "write", "stage"}
    BY <1>1
  <2>4. QED
    BY <2>1, <2>2, <2>3 DEF PositionInv
<1>6. BatchInv
  BY <1>1 DEF BatchInv, AckedIsDurable
<1>7. QED
  BY <1>4, <1>5, <1>6 DEF DrainInv

\* The core, the producers and the operator touch no row and no position.
LEMMA EnvironmentInv == TypeOK /\ TypeOK' /\ DrainInv /\ Environment => DrainInv'
<1> SUFFICES ASSUME TypeOK, TypeOK', DrainInv, Environment PROVE DrainInv'
  OBVIOUS
<1>1. /\ UNCHANGED <<log, chainLock, pend, staged, pc, todo, st>>
      /\ cursor' = cursor \/ \E k \in Keys : cursor' = [cursor EXCEPT ![k].halt = 0]
      /\ queue' = queue \/ queue' = [queue EXCEPT !.published = @ + 1]
  BY DEF Environment, CoreAppend, Acknowledge, Tamper, Publish, dbVars, lockVars, txVars, procVars
<1>2. \A k \in Keys : cursor'[k].last = cursor[k].last
  <2>1. cursor \in [Keys -> [last : Nat, halt : Nat]]
    BY DEF TypeOK, DbOK
  <2>2. QED
    BY <1>1, <2>1
<1>3. queue'.inHand = queue.inHand /\ queue'.acked = queue.acked
  BY <1>1 DEF TypeOK, QueueOK
<1>4. QED
  BY <1>1, <1>2, <1>3, StillStep

\* Only the process p moves.
Moves(p) ==
    \A q \in Procs : q # p => pc'[q] = pc[q] /\ todo'[q] = todo[q] /\ st'[q] = st[q]

\* A process that rolls back, or passes a chain over, keeps the invariant.
LEMMA RaiseInv ==
    ASSUME TypeOK, TypeOK', DrainInv, NEW p \in Procs,
           \/ Reset(p)
           \/ pc[p] \in Draining /\ (RaiseRefusal(p) \/ RaiseError(p) \/ SqlError(p))
    PROVE  DrainInv'
<1>0. /\ pc \in [Procs -> Draining \cup {"idle", "record", "commit", "ack"}]
      /\ todo \in [Procs -> Seq(Keys)] /\ st \in [Procs -> DrainState]
  BY DEF TypeOK, ProcOK
<1>1. UNCHANGED dbVars
  BY DEF Reset, RaiseRefusal, RaiseError, SqlError
<1>2. log' = log /\ \A k \in Keys : cursor'[k].last = cursor[k].last
  BY <1>1 DEF dbVars
<1>3. UNCHANGED <<chainLock, pend, staged>> \/ Drop(p)
  BY DEF Reset, RaiseRefusal, RaiseError, SqlError, Release, Abort, lockVars, txVars
<1>4. CASE GoIdle(p)
  <2>1. Moves(p) /\ pc'[p] = "idle"
    BY <1>0, <1>4 DEF GoIdle, Moves
  <2>2. queue'.acked = queue.acked /\ (p # Consumer => queue'.inHand = queue.inHand)
    <3>1. p # Consumer => p = Poller
      BY Consts
    <3>2. QED
      BY <1>4, <3>1 DEF GoIdle, TypeOK, QueueOK
  <2>3. QED
    BY <1>2, <1>3, <2>1, <2>2, LocalStep DEF Moves
<1>5. CASE p = Poller /\ NextChain(p) /\ queue' = queue
  <2>1. Moves(p) /\ pc'[p] \in {"get", "commit"}
    BY <1>0, <1>5 DEF NextChain, AfterDrains, Moves
  <2>2. p # Consumer
    BY <1>5, Consts
  <2>3. QED
    BY <1>2, <1>3, <1>5, <2>1, <2>2, LocalStep DEF Moves
<1>6. QED
  BY <1>4, <1>5 DEF Reset, RaiseRefusal, RaiseError, SqlError

\* A process that begins to drain, or reads poison only.
LEMMA BeginInv ==
    ASSUME TypeOK, TypeOK', DrainInv,
           \/ Read \/ StartPass
           \/ \E ks \in ChainLists : \E h \in [Keys -> 0..Max({MaxRecs[k] : k \in Keys})] :
                 StartHinted(ks, h)
    PROVE  DrainInv'
<1>0. /\ pc \in [Procs -> Draining \cup {"idle", "record", "commit", "ack"}]
      /\ todo \in [Procs -> Seq(Keys)] /\ Procs = {"poller", "consumer"}
      /\ Poller \in Procs /\ Consumer \in Procs /\ Poller # Consumer
  BY Consts DEF TypeOK, ProcOK
<1>1. /\ UNCHANGED <<log, chainLock, pend, staged, st>>
      /\ \A k \in Keys : cursor'[k].last = cursor[k].last
  BY DEF Read, StartPass, StartHinted, dbVars, lockVars, txVars
<1>2. CASE Read
  <2>1. Moves(Consumer) /\ pc'[Consumer] \in {"get", "idle"}
    BY <1>0, <1>1, <1>2 DEF Read, Moves
  <2>2. queue'.acked \ Poison \subseteq queue.acked
    BY <1>2 DEF Read, TypeOK, QueueOK
  <2>3. QED
    BY <1>0, <1>1, <2>1, <2>2, LocalStep DEF Moves
<1>3. CASE \/ StartPass
           \/ \E ks \in ChainLists : \E h \in [Keys -> 0..Max({MaxRecs[k] : k \in Keys})] :
                 StartHinted(ks, h)
  <2>1. Moves(Poller) /\ pc'[Poller] = "get" /\ queue' = queue
    BY <1>0, <1>1, <1>3 DEF StartPass, StartHinted, Moves
  <2>2. QED
    BY <1>0, <1>1, <2>1, LocalStep DEF Moves
<1>4. QED
  BY <1>2, <1>3

\* The position a drain starts from is backed: staged by this transaction,
\* committed, or the archive's.
LEMMA GetCursorInv ==
    ASSUME TypeOK, TypeOK', DrainInv, NEW p \in Procs, GetCursor(p)
    PROVE  DrainInv'
<1>0. /\ pc \in [Procs -> Draining \cup {"idle", "record", "commit", "ack"}]
      /\ todo \in [Procs -> Seq(Keys)] /\ st \in [Procs -> DrainState]
      /\ pc[p] = "get" /\ pc[p] \in Draining
  BY DEF TypeOK, ProcOK, GetCursor, Draining
<1>1. CASE SqlError(p)
  BY <1>0, <1>1, RaiseInv
<1>2. CASE NextChain(p) /\ UNCHANGED <<dbVars, lockVars, txVars, hint, hinted, queue>>
  <2>1. Moves(p) /\ pc'[p] \in {"get", AfterDrains(p)}
    BY <1>0, <1>2 DEF NextChain, Moves
  <2>2. /\ pc'[p] \notin {"fetch", "write", "stage"}
        /\ p = Consumer => pc'[p] \notin {"commit", "ack"}
    BY <2>1, Consts DEF AfterDrains
  <2>3. /\ UNCHANGED <<log, chainLock, pend, staged, queue>>
        /\ \A k \in Keys : cursor'[k].last = cursor[k].last
    BY <1>2 DEF dbVars, lockVars, txVars
  <2>4. QED
    BY <2>1, <2>2, <2>3, LocalStep DEF Moves
<1>3. CASE /\ pc' = [pc EXCEPT ![p] = "fetch"]
           /\ st' = [st EXCEPT ![p] = [NoDrain EXCEPT !.last = Position(p, Head(todo[p]))]]
           /\ UNCHANGED <<dbVars, lockVars, txVars, todo, hint, hinted, queue>>
  <2>1. /\ UNCHANGED <<log, cursor, chainLock, pend, staged, queue, todo>>
        /\ Moves(p) /\ pc'[p] = "fetch"
    BY <1>0, <1>3 DEF dbVars, lockVars, txVars, Moves
  <2>2. \A k \in Keys : View(p, k)' = View(p, k)
    BY <2>1 DEF View
  <2>3. Positions(p) /\ CursorBacked
    BY PositionParts DEF DrainInv
  <2>4. ASSUME NEW k \in Keys, k = Head(todo[p])
        PROVE  /\ st'[p].last \in CoreSeqs(View(p, k)) \cup {AnchorSeq[k]}
               /\ st'[p].pages = 0
    <3>1. st'[p].last = Position(p, k) /\ st'[p].pages = 0
      BY <1>0, <1>3, <2>4 DEF NoDrain
    <3>2. staged[p][k] # 0 => staged[p][k] \in CoreSeqs(View(p, k))
      BY <2>3 DEF Positions
    <3>3. cursor[k].last # 0 => cursor[k].last \in CoreSeqs(View(p, k))
      <4>1. cursor[k].last # 0 => cursor[k].last \in CoreSeqs(log[k])
        BY <2>3 DEF CursorBacked, Recorded
      <4>2. CoreSeqs(log[k]) \subseteq CoreSeqs(View(p, k))
        BY ViewType, GoesOnFacts
      <4>3. QED
        BY <4>1, <4>2
    <3>4. QED
      BY <3>1, <3>2, <3>3 DEF Position
  <2>5. Positions(p)'
    <3>1. \A k \in Keys : staged'[p][k] # 0 => staged'[p][k] \in CoreSeqs(View(p, k)')
      BY <2>1, <2>2, <2>3 DEF Positions
    <3>2. \A k \in Keys : pc'[p] \in {"fetch", "write", "stage"} /\ k = Head(todo'[p]) =>
             /\ st'[p].last \in CoreSeqs(View(p, k)') \cup {AnchorSeq[k]}
             /\ st'[p].pages > 0 => st'[p].last \in CoreSeqs(View(p, k)')
      BY <2>1, <2>2, <2>4
    <3>3. pc'[p] # "write"
      BY <2>1
    <3>4. QED
      BY <3>1, <3>2, <3>3, Zenon DEF Positions
  <2>6. QED
    BY <2>1, <2>5, LocalStep DEF Moves
<1>4. QED
  BY <1>1, <1>2, <1>3 DEF GetCursor

\* A verified page goes on from the drain's position.
LEMMA FetchInv ==
    ASSUME TypeOK, TypeOK', DrainInv, NEW p \in Procs, Fetch(p)
    PROVE  DrainInv'
<1>0. /\ CoreOK /\ pc \in [Procs -> Draining \cup {"idle", "record", "commit", "ack"}]
      /\ st \in [Procs -> DrainState] /\ pc[p] = "fetch" /\ pc[p] \in Draining
      /\ Head(todo[p]) \in Keys /\ st[p] \in DrainState
  BY DEF TypeOK, ProcOK, Fetch, Draining
<1>1. PICK k \in Keys : k = Head(todo[p])
  BY <1>0
<1> DEFINE last == st[p].last
<1>2. PICK h \in (IF Lagging THEN 0..Len(core[k]) ELSE {Len(core[k])}) :
          LET page == PageOf(Survivors(k, last, h)) IN
          \/ /\ pc' = [pc EXCEPT ![p] = "halt"]
             /\ st' = [st EXCEPT ![p].brk = Min(Breaks(k, last, page))]
             /\ UNCHANGED <<dbVars, lockVars, txVars, todo, hint, hinted, queue>>
          \/ RaiseRefusal(p)
          \/ /\ Breaks(k, last, page) = {}
             /\ pc' = [pc EXCEPT ![p] = IF page = {} THEN "stage" ELSE "write"]
             /\ st' = [st EXCEPT ![p].page = PageItems(k, page),
                                 ![p].more = page # Survivors(k, last, h)]
             /\ UNCHANGED <<dbVars, lockVars, txVars, todo, hint, hinted, queue>>
  BY <1>1 DEF Fetch, PageItems
<1> DEFINE page == PageOf(Survivors(k, last, h))
           rows == PageItems(k, page)
<1>3. h \in 0..Len(core[k])
  <2>1. Len(core[k]) \in Nat
    BY <1>0 DEF CoreOK
  <2>2. QED
    BY <2>1
<1>4. CASE RaiseRefusal(p)
  BY <1>0, <1>4, RaiseInv
<1>5. ASSUME UNCHANGED <<dbVars, lockVars, txVars, todo, hint, hinted, queue>>
      PROVE  /\ UNCHANGED <<log, cursor, chainLock, pend, staged, queue, todo>>
             /\ \A j \in Keys : View(p, j)' = View(p, j)
  BY <1>5 DEF dbVars, lockVars, txVars, View
<1>6. CASE /\ pc' = [pc EXCEPT ![p] = "halt"]
           /\ st' = [st EXCEPT ![p].brk = Min(Breaks(k, last, page))]
           /\ UNCHANGED <<dbVars, lockVars, txVars, todo, hint, hinted, queue>>
  <2>1. UNCHANGED <<log, cursor, chainLock, pend, staged, queue, todo>>
    BY <1>5, <1>6
  <2> HIDE DEF page
  <2>2. Moves(p) /\ pc'[p] = "halt"
    BY <1>0, <1>6, <2>1 DEF Moves
  <2>3. QED
    BY <2>1, <2>2, LocalStep DEF Moves
<1>7. CASE /\ Breaks(k, last, page) = {}
           /\ pc' = [pc EXCEPT ![p] = IF page = {} THEN "stage" ELSE "write"]
           /\ st' = [st EXCEPT ![p].page = rows, ![p].more = page # Survivors(k, last, h)]
           /\ UNCHANGED <<dbVars, lockVars, txVars, todo, hint, hinted, queue>>
  <2>1. /\ UNCHANGED <<log, cursor, chainLock, pend, staged, queue, todo>>
        /\ \A j \in Keys : View(p, j)' = View(p, j)
    BY <1>5, <1>7
  <2>2. \A i \in 1..Len(rows) : rows[i] = [src |-> "core", n |-> last + i, status |-> "ok"]
    <3>1. last \in Nat
      BY <1>0 DEF DrainState
    <3>2. page = PageOf(Survivors(k, last, h)) /\ rows = PageItems(k, page)
      OBVIOUS
    <3>3. CoreOK /\ Breaks(k, last, page) = {}
      BY <1>0, <1>7
    <3> HIDE DEF page, rows, last
    <3>4. QED
      BY <1>3, <3>1, <3>2, <3>3, PageRows
  <2>3. Positions(p)
    BY PositionParts DEF DrainInv
  <2> DEFINE more == page # Survivors(k, last, h)
             d == [st[p] EXCEPT !.page = rows, !.more = more]
  <2>4. st' = [st EXCEPT ![p] = d]
    BY <1>0, <1>7
  <2>5. pc' = [pc EXCEPT ![p] = "stage"] \/ pc' = [pc EXCEPT ![p] = "write"]
    BY <1>7
  <2> HIDE DEF rows, more, page
  <2>6. d.last = last /\ d.pages = st[p].pages /\ d.page = rows
    BY <1>0 DEF DrainState
  <2> HIDE DEF d
  <2>7. Moves(p) /\ st'[p] = d /\ pc'[p] \in {"stage", "write"}
    BY <1>0, <2>1, <2>4, <2>5 DEF Moves
  <2>8. Positions(p)'
    <3>1. \A j \in Keys : staged'[p][j] # 0 => staged'[p][j] \in CoreSeqs(View(p, j)')
      BY <2>1, <2>3 DEF Positions
    <3>2. \A j \in Keys : j = Head(todo[p]) =>
             /\ st[p].last \in CoreSeqs(View(p, j)) \cup {AnchorSeq[j]}
             /\ st[p].pages > 0 => st[p].last \in CoreSeqs(View(p, j))
      BY <1>0, <2>3 DEF Positions
    <3>3. \A j \in Keys : pc'[p] \in {"fetch", "write", "stage"} /\ j = Head(todo'[p]) =>
             /\ st'[p].last \in CoreSeqs(View(p, j)') \cup {AnchorSeq[j]}
             /\ st'[p].pages > 0 => st'[p].last \in CoreSeqs(View(p, j)')
      BY <2>1, <2>6, <2>7, <3>2
    <3>4. \A i \in 1..Len(st'[p].page) :
             st'[p].page[i] = [src |-> "core", n |-> st'[p].last + i, status |-> "ok"]
      BY <2>2, <2>6, <2>7
    <3>5. QED
      BY <3>1, <3>3, <3>4, Zenon DEF Positions
  <2>9. p = Consumer => pc'[p] \notin {"commit", "ack"}
    BY <2>7
  <2>10. QED
    BY <2>1, <2>7, <2>8, <2>9, LocalStep DEF Moves
<1>8. QED
  BY <1>2, <1>4, <1>6, <1>7

\* A halt moves no position.
LEMMA HaltInv ==
    ASSUME TypeOK, TypeOK', DrainInv, NEW p \in Procs,
           PersistHalt(p) \/ LoseHalt(p) \/ RaiseBreak(p)
    PROVE  DrainInv'
<1>0. pc \in [Procs -> Draining \cup {"idle", "record", "commit", "ack"}]
      /\ cursor \in [Keys -> [last : Nat, halt : Nat]]
  BY DEF TypeOK, ProcOK, DbOK
<1>1. CASE RaiseBreak(p)
  <2>1. pc[p] \in Draining
    BY <1>1 DEF RaiseBreak, Draining
  <2>2. QED
    BY <1>1, <2>1, RaiseInv DEF RaiseBreak
<1>2. CASE PersistHalt(p) \/ LoseHalt(p)
  <2>1. /\ UNCHANGED <<log, chainLock, pend, staged, queue, todo, st>>
        /\ pc' = [pc EXCEPT ![p] = "raise"]
    BY <1>2 DEF PersistHalt, LoseHalt, dbVars, lockVars, txVars
  <2>2. \A k \in Keys : cursor'[k].last = cursor[k].last
    <3>1. CASE LoseHalt(p)
      BY <3>1 DEF LoseHalt, dbVars
    <3>2. CASE PersistHalt(p)
      BY <1>0, <3>2 DEF PersistHalt
    <3>3. QED
      BY <1>2, <3>1, <3>2
  <2>3. Moves(p) /\ pc'[p] = "raise"
    BY <1>0, <2>1 DEF Moves
  <2>4. QED
    BY <2>1, <2>2, <2>3, LocalStep DEF Moves
<1>3. QED
  BY <1>1, <1>2

\* After a write the log, the cursors and the other process are where they were.
LEMMA AfterWrite ==
    ASSUME TypeOK, TypeOK', DrainInv, NEW p \in Procs, LockInv', SequenceInv',
           \A q \in Procs, k \in Keys : GoesOn(View(q, k)', View(q, k)),
           UNCHANGED <<log, cursor, staged, queue>>, Moves(p), Positions(p)',
           p = Consumer => pc'[p] \notin {"commit", "ack"}
    PROVE  DrainInv'
<1>0. CursorBacked /\ BatchInv /\ \A q \in Procs : Positions(q)
  BY PositionParts DEF DrainInv
<1>1. \A k \in Keys : GoesOn(log'[k], log[k])
  <2>1. \A k \in Keys : log[k] \in Seq(Rows)
    BY DEF TypeOK, DbOK
  <2>2. QED
    BY <2>1, GoesOnSelf
<1>2. CursorBacked'
  BY <1>0, <1>1, CursorKeep
<1>3. \A q \in Procs : Positions(q)'
  <2>1. ASSUME NEW q \in Procs, q # p PROVE Positions(q)'
    BY <1>0, <2>1, PositionsKeep DEF Moves
  <2>2. QED
    BY <2>1
<1>4. BatchInv'
  <2>1. CASE p = Consumer
    BY <1>0, <1>1, <2>1, BatchKeep
  <2>2. CASE p # Consumer
    <3>1. Consumer \in Procs
      BY Consts
    <3>2. pc'[Consumer] = pc[Consumer]
      BY <2>2, <3>1 DEF Moves
    <3>3. QED
      BY <1>0, <1>1, <3>1, <3>2, BatchKeep
  <2>3. QED
    BY <2>1, <2>2
<1>5. QED
  BY <1>2, <1>3, <1>4, PositionParts DEF DrainInv

\* A page is written and the drain stands at its last record, which it sees.
LEMMA WritePageInv ==
    ASSUME TypeOK, TypeOK', DrainInv, NEW p \in Procs, WritePage(p)
    PROVE  DrainInv'
<1>0. /\ ProcOK /\ pc \in [Procs -> Draining \cup {"idle", "record", "commit", "ack"}]
      /\ st \in [Procs -> DrainState] /\ pc[p] = "write" /\ pc[p] \in Draining
      /\ st[p].page \in Seq(Items) /\ st[p].page # <<>> /\ st[p] \in DrainState
      /\ Head(todo[p]) \in Keys
  <2>1. pc[p] = "write" /\ pc[p] \in Draining /\ ProcOK
    BY DEF TypeOK, WritePage, Draining
  <2>2. todo[p] \in Seq(Keys) /\ todo[p] # <<>> /\ st[p] \in DrainState /\ st[p].page # <<>>
    BY <2>1 DEF ProcOK
  <2>3. st[p].page \in Seq(Items)
    BY <2>2 DEF DrainState
  <2>4. QED
    BY <2>1, <2>2, <2>3 DEF ProcOK
<1>1. CASE SqlError(p)
  BY <1>0, <1>1, RaiseInv
<1>2. PICK k \in Keys : k = Head(todo[p])
  BY <1>0
<1> DEFINE page == st[p].page
           items == [NoRows EXCEPT ![k] = page]
           l == Last(page).n
           at == IF st[p].more /\ st[p].pages + 1 < MaxPages THEN "fetch" ELSE "stage"
<1>3. CASE /\ WriteRows(p, items)
           /\ st' = [st EXCEPT ![p].last = l, ![p].pages = @ + 1]
           /\ pc' = [pc EXCEPT ![p] = at]
           /\ UNCHANGED <<dbVars, rowLock, staged, failed, todo, hint, hinted, queue>>
  <2>0. LockInv /\ SequenceInv /\ Positions(p)
    BY PositionParts DEF DrainInv
  <2>1. /\ UNCHANGED <<log, cursor, staged, queue, todo>> /\ Moves(p)
        /\ pc'[p] \in {"fetch", "stage"}
    BY <1>0, <1>3 DEF dbVars, Moves
  <2>2. /\ items \in [Keys -> Seq(Items)] /\ items[k] = page
        /\ \A j \in Keys : j # k => items[j] = <<>>
    BY <1>0, <1>2, PageItemsType
  <2> HIDE DEF items
  <2>3. /\ \A i \in 1..Len(page) : page[i] = [src |-> "core", n |-> st[p].last + i, status |-> "ok"]
        /\ st[p].last \in CoreSeqs(View(p, k)) \cup {AnchorSeq[k]}
    BY <1>0, <1>2, <2>0 DEF Positions
  <2>4. Continues(p, items)
    <3>1. ASSUME NEW j \in Keys
          PROVE  \/ \A i \in 1..Len(items[j]) : items[j][i].src = "queue"
                 \/ \E last \in CoreSeqs(View(p, j)) \cup {AnchorSeq[j]} :
                       \A i \in 1..Len(items[j]) :
                          items[j][i] = [src |-> "core", n |-> last + i, status |-> "ok"]
      <4>1. CASE j = k
        <5>1. items[j] = page
          BY <2>2, <4>1
        <5> DEFINE last == st[p].last
        <5>2. /\ last \in CoreSeqs(View(p, j)) \cup {AnchorSeq[j]}
              /\ \A i \in 1..Len(items[j]) :
                    items[j][i] = [src |-> "core", n |-> last + i, status |-> "ok"]
          BY <2>3, <4>1, <5>1
        <5> HIDE DEF last
        <5>3. QED
          BY <5>2, Zenon
      <4>2. CASE j # k
        <5>1. Len(items[j]) = 0
          BY <2>2, <4>2, EmptySeq
        <5>2. QED
          BY <5>1
      <4>3. QED
        BY <4>1, <4>2
    <3>2. QED
      BY <3>1 DEF Continues
  <2>5. /\ LockInv' /\ SequenceInv'
        /\ \A q \in Procs, j \in Keys : GoesOn(View(q, j)', View(q, j))
        /\ \A j \in Keys : \A i \in 1..Len(items[j]) : Has(View(p, j)', Id(items[j][i]))
    BY <1>3, <2>0, <2>1, <2>2, <2>4, WriteStep
  <2>6. \A j \in Keys : View(p, j) \in Seq(Rows) /\ View(p, j)' \in Seq(Rows)
    <3>1. \A j \in Keys : log'[j] \in Seq(Rows) /\ pend'[p][j] \in Seq(Rows)
      BY DEF TypeOK, DbOK, TxOK
    <3>2. \A j \in Keys : View(p, j)' \in Seq(Rows)
      BY <3>1 DEF View
    <3>3. QED
      BY <3>2, ViewType
  <2>7. l \in CoreSeqs(View(p, k)')
    <3>1. Len(page) \in 1..Len(page)
      BY <1>0, EmptySeq
    <3>2. l = page[Len(page)].n
      BY DEF Last
    <3>3. Id(page[Len(page)]) = <<"core", l>>
      <4>1. page[Len(page)].src = "core"
        <5> HIDE DEF page
        <5> DEFINE n == Len(page)
        <5>1. n \in 1..Len(page)
          BY <3>1
        <5> HIDE DEF n
        <5>2. page[n] = [src |-> "core", n |-> st[p].last + n, status |-> "ok"]
          BY <2>3, <5>1
        <5>3. page[n].src = "core"
          BY <5>2
        <5>4. QED
          BY <5>3 DEF n
      <4>2. QED
        BY <3>2, <4>1 DEF Id
    <3>4. Has(View(p, k)', <<"core", l>>)
      BY <2>2, <2>5, <3>1, <3>3
    <3>5. QED
      BY <2>6, <3>4, HasCore
  <2>8. st'[p].last = l
    BY <1>0, <1>3 DEF DrainState
  <2>9. Positions(p)'
    <3>1. \A j \in Keys : staged'[p][j] # 0 => staged'[p][j] \in CoreSeqs(View(p, j)')
      <4>1. \A j \in Keys : CoreSeqs(View(p, j)) \subseteq CoreSeqs(View(p, j)')
        BY <2>5, <2>6, GoesOnFacts
      <4>2. QED
        BY <2>0, <2>1, <4>1 DEF Positions
    <3>2. \A j \in Keys : pc'[p] \in {"fetch", "write", "stage"} /\ j = Head(todo'[p]) =>
             /\ st'[p].last \in CoreSeqs(View(p, j)') \cup {AnchorSeq[j]}
             /\ st'[p].pages > 0 => st'[p].last \in CoreSeqs(View(p, j)')
      BY <1>2, <2>1, <2>7, <2>8
    <3>3. pc'[p] # "write"
      BY <2>1
    <3>4. QED
      BY <3>1, <3>2, <3>3, Zenon DEF Positions
  <2>10. p = Consumer => pc'[p] \notin {"commit", "ack"}
    BY <2>1
  <2>11. QED
    BY <2>1, <2>5, <2>9, <2>10, AfterWrite
<1>4. QED
  BY <1>1, <1>2, <1>3 DEF WritePage

\* The position that is staged is one that the transaction sees.
LEMMA StageCursorInv ==
    ASSUME TypeOK, TypeOK', DrainInv, NEW p \in Procs, StageCursor(p)
    PROVE  DrainInv'
<1>0. /\ pc \in [Procs -> Draining \cup {"idle", "record", "commit", "ack"}]
      /\ todo \in [Procs -> Seq(Keys)] /\ st \in [Procs -> DrainState]
      /\ staged \in [Procs -> [Keys -> Nat]] /\ pc[p] = "stage" /\ Head(todo[p]) \in Keys
  BY DEF TypeOK, ProcOK, TxOK, StageCursor, Draining
<1>1. PICK k \in Keys : k = Head(todo[p])
  BY <1>0
<1>2. /\ UNCHANGED <<log, cursor, chainLock, pend, queue>> /\ NextChain(p)
      /\ staged' = [staged EXCEPT ![p][k] = IF st[p].pages > 0 THEN st[p].last ELSE @]
  BY <1>1 DEF StageCursor, dbVars
<1>3. Moves(p) /\ pc'[p] \in {"get", AfterDrains(p)}
  BY <1>0, <1>2 DEF NextChain, Moves
<1>4. /\ pc'[p] \notin {"fetch", "write", "stage"}
      /\ p = Consumer => pc'[p] \notin {"commit", "ack"}
  BY <1>3, Consts DEF AfterDrains
<1>5. \A q \in Procs, j \in Keys : View(q, j)' = View(q, j)
  BY <1>2 DEF View
<1>6. LockInv /\ SequenceInv /\ CursorBacked /\ BatchInv /\ \A q \in Procs : Positions(q)
  BY PositionParts DEF DrainInv
<1>7. LockInv' /\ SequenceInv'
  BY <1>2, <1>6, SequenceKeep
<1>8. \A q \in Procs, j \in Keys : GoesOn(View(q, j)', View(q, j))
  BY <1>5, ViewType, GoesOnSelf
<1>9. Positions(p)'
  <2>1. ASSUME NEW j \in Keys, staged'[p][j] # 0
        PROVE  staged'[p][j] \in CoreSeqs(View(p, j)')
    <3>1. st[p].pages > 0 => st[p].last \in CoreSeqs(View(p, k))
      BY <1>0, <1>1, <1>6 DEF Positions
    <3>2. staged'[p][j] = IF j = k /\ st[p].pages > 0 THEN st[p].last ELSE staged[p][j]
      BY <1>0, <1>2
    <3>3. staged[p][j] # 0 => staged[p][j] \in CoreSeqs(View(p, j))
      BY <1>6 DEF Positions
    <3>4. staged'[p][j] \in CoreSeqs(View(p, j))
      BY <2>1, <3>1, <3>2, <3>3
    <3>5. QED
      BY <1>5, <3>4
  <2>2. pc'[p] # "write"
    BY <1>4
  <2>3. QED
    BY <1>4, <2>1, <2>2, Zenon DEF Positions
<1>10. \A j \in Keys : GoesOn(log'[j], log[j])
  BY <1>2, GoesOnSelf DEF TypeOK, DbOK
<1>11. CursorBacked'
  BY <1>2, <1>6, <1>10, CursorKeep
<1>12. ASSUME NEW q \in Procs, q # p PROVE Positions(q)'
  <2>1. staged'[q] = staged[q]
    BY <1>0, <1>2, <1>12
  <2>2. QED
    BY <1>3, <1>6, <1>8, <1>12, <2>1, PositionsKeep DEF Moves
<1>13. BatchInv'
  <2>1. CASE p = Consumer
    BY <1>2, <1>4, <1>6, <1>10, <2>1, BatchKeep
  <2>2. CASE p # Consumer
    <3>1. Consumer \in Procs
      BY Consts
    <3>2. pc'[Consumer] = pc[Consumer]
      BY <1>3, <2>2, <3>1 DEF Moves
    <3>3. QED
      BY <1>2, <1>6, <1>8, <1>10, <3>1, <3>2, BatchKeep
  <2>3. QED
    BY <2>1, <2>2
<1>14. PositionInv'
  BY <1>9, <1>11, <1>12, PositionParts
<1>15. QED
  BY <1>7, <1>13, <1>14 DEF DrainInv

\* The consumer's batch is in its transaction before it is committed.
LEMMA RecordQueueInv == TypeOK /\ TypeOK' /\ DrainInv /\ RecordQueue => DrainInv'
<1> SUFFICES ASSUME TypeOK, TypeOK', DrainInv, RecordQueue PROVE DrainInv'
  OBVIOUS
<1>0. /\ QueueOK /\ pc \in [Procs -> Draining \cup {"idle", "record", "commit", "ack"}]
      /\ pc[Consumer] = "record" /\ Consumer \in Procs
  BY Consts DEF TypeOK, ProcOK, RecordQueue
<1>1. CASE Reset(Consumer)
  BY <1>0, <1>1, RaiseInv
<1>2. CASE /\ WriteRows(Consumer, QueueRows)
           /\ pc' = [pc EXCEPT ![Consumer] = "commit"]
           /\ UNCHANGED <<dbVars, rowLock, staged, failed, todo, st, hint, hinted, queue>>
  <2>0. LockInv /\ SequenceInv /\ CursorBacked /\ BatchInv /\ \A q \in Procs : Positions(q)
    BY PositionParts DEF DrainInv
  <2>1. /\ UNCHANGED <<log, cursor, staged, queue, todo, st>> /\ Moves(Consumer)
        /\ pc'[Consumer] = "commit"
    BY <1>0, <1>2 DEF dbVars, Moves
  <2>2. /\ QueueRows \in [Keys -> Seq(Items)]
        /\ \A k \in Keys : \A i \in 1..Len(QueueRows[k]) : QueueRows[k][i].src = "queue"
        /\ \A m \in queue.inHand : /\ MsgKey[m] \in Keys
              /\ \E i \in 1..Len(QueueRows[MsgKey[m]]) : Id(QueueRows[MsgKey[m]][i]) = <<"queue", m>>
    BY <1>0, QueueRowsFacts
  <2>3. Continues(Consumer, QueueRows)
    BY <2>2, Zenon DEF Continues
  <2>4. /\ LockInv' /\ SequenceInv'
        /\ \A q \in Procs, k \in Keys : GoesOn(View(q, k)', View(q, k))
        /\ \A k \in Keys : \A i \in 1..Len(QueueRows[k]) : Has(View(Consumer, k)', Id(QueueRows[k][i]))
    <3>1. PICK items \in [Keys -> Seq(Items)] : items = QueueRows
      BY <2>2
    <3>2. WriteRows(Consumer, items) /\ Continues(Consumer, items)
      BY <1>2, <2>3, <3>1
    <3>3. /\ LockInv' /\ SequenceInv'
          /\ \A q \in Procs, k \in Keys : GoesOn(View(q, k)', View(q, k))
          /\ \A k \in Keys : \A i \in 1..Len(items[k]) : Has(View(Consumer, k)', Id(items[k][i]))
      BY <1>0, <2>0, <2>1, <3>2, WriteStep
    <3>4. QED
      BY <3>1, <3>3
  <2>5. \A k \in Keys : GoesOn(log'[k], log[k])
    BY <2>1, GoesOnSelf DEF TypeOK, DbOK
  <2>6. CursorBacked'
    BY <2>0, <2>1, <2>5, CursorKeep
  <2>7. ASSUME NEW q \in Procs PROVE Positions(q)'
    <3>1. CASE q # Consumer
      BY <2>0, <2>1, <2>4, <3>1, PositionsKeep DEF Moves
    <3>2. CASE q = Consumer
      <4>1. \A k \in Keys : CoreSeqs(View(q, k)) \subseteq CoreSeqs(View(q, k)')
        <5>1. \A k \in Keys : log'[k] \in Seq(Rows) /\ pend'[q][k] \in Seq(Rows)
          BY DEF TypeOK, DbOK, TxOK
        <5>2. \A k \in Keys : View(q, k)' \in Seq(Rows)
          BY <5>1 DEF View
        <5>3. QED
          BY <2>4, <5>2, ViewType, GoesOnFacts
      <4>2. \A k \in Keys : staged'[q][k] # 0 => staged'[q][k] \in CoreSeqs(View(q, k)')
        BY <2>0, <2>1, <4>1 DEF Positions
      <4>3. pc'[q] \notin {"fetch", "write", "stage"} /\ pc'[q] # "write"
        BY <2>1, <3>2
      <4>4. QED
        BY <4>2, <4>3, Zenon DEF Positions
    <3>3. QED
      BY <3>1, <3>2
  <2>8. BatchInv'
    <3>1. AckedIsDurable'
      <4>1. AckedIsDurable /\ queue'.acked = queue.acked /\ log' = log
        BY <2>0, <2>1 DEF BatchInv
      <4>2. QED
        BY <4>1, Zenon DEF AckedIsDurable
    <3>2. ASSUME NEW m \in queue'.inHand PROVE Has(View(Consumer, MsgKey[m])', <<"queue", m>>)
      <4>1. m \in queue.inHand
        BY <2>1, <3>2
      <4>2. PICK k \in Keys : k = MsgKey[m]
        BY <2>2, <4>1
      <4>3. PICK i \in 1..Len(QueueRows[k]) : Id(QueueRows[k][i]) = <<"queue", m>>
        BY <2>2, <4>1, <4>2
      <4>4. Has(View(Consumer, k)', Id(QueueRows[k][i]))
        BY <2>4
      <4>5. QED
        BY <4>2, <4>3, <4>4
    <3>3. pc'[Consumer] # "ack"
      BY <2>1
    <3>4. QED
      BY <3>1, <3>2, <3>3, Zenon DEF BatchInv
  <2>9. QED
    BY <2>4, <2>6, <2>7, <2>8, PositionParts DEF DrainInv
<1>3. QED
  BY <1>1, <1>2 DEF RecordQueue

\* A commit: the log becomes what the transaction saw.  The other process has
\* no rows of its own in the chains that grow, so what it sees grows as well.
LEMMA CommitViews ==
    ASSUME TypeOK, TypeOK', LockInv, SequenceInv, NEW p \in Procs, Commit(p)
    PROVE  /\ LockInv' /\ SequenceInv'
           /\ \A k \in Keys : log'[k] = View(p, k) /\ GoesOn(log'[k], log[k])
           /\ \A q \in Procs : q # p => pend'[q] = pend[q] /\ staged'[q] = staged[q]
           /\ \A q \in Procs, k \in Keys : q # p => GoesOn(View(q, k)', View(q, k))
           /\ \A q \in Procs, k \in Keys : View(q, k)' = View(p, k) \/ View(q, k)' = View(q, k)
           /\ staged'[p] = NoStage
<1>0. Drop(p) /\ \A k \in Keys : log'[k] = View(p, k)
  BY DEF Commit, Release, View
<1>1. \A k \in Keys : GoesOn(log'[k], log[k])
  BY <1>0, ViewType
<1>2. /\ \A q \in Procs : q # p => pend'[q] = pend[q] /\ staged'[q] = staged[q]
      /\ staged'[p] = NoStage /\ pend'[p] = NoRows
  BY <1>0 DEF Drop, TypeOK, TxOK
<1>3. LockInv'
  <2>1. ASSUME NEW q \in Procs, NEW k \in Keys, pend'[q][k] # <<>> PROVE chainLock'[k] = q
    <3>1. q # p
      BY <1>2, <2>1 DEF NoRows
    <3>2. pend[q][k] # <<>>
      BY <1>2, <2>1, <3>1
    <3>3. chainLock[k] = q
      BY <3>2 DEF LockInv
    <3>4. QED
      BY <1>0, <3>1, <3>3 DEF Drop
  <2>2. QED
    BY <2>1 DEF LockInv
<1>4. ASSUME NEW q \in Procs, NEW k \in Keys
      PROVE  /\ InSequence(View(q, k)', AnchorSeq[k])
             /\ q # p => GoesOn(View(q, k)', View(q, k))
             /\ View(q, k)' = View(p, k) \/ View(q, k)' = View(q, k)
  <2>0. /\ InSequence(View(p, k), AnchorSeq[k]) /\ InSequence(View(q, k), AnchorSeq[k])
        /\ View(p, k) \in Seq(Rows) /\ View(q, k) \in Seq(Rows) /\ log[k] \in Seq(Rows)
        /\ GoesOn(View(p, k), log[k])
    BY ViewType DEF SequenceInv
  <2>1. ASSUME pend'[q][k] = <<>> PROVE View(q, k)' = View(p, k)
    <3>1. View(q, k)' = View(p, k) \o <<>>
      BY <1>0, <2>1 DEF View
    <3>2. QED
      BY <2>0, <3>1
  <2>2. CASE q = p
    <3>1. pend'[q][k] = <<>>
      BY <1>2, <2>2 DEF NoRows
    <3>2. QED
      BY <2>0, <2>1, <2>2, <3>1
  <2>3. CASE q # p /\ pend[q][k] = <<>>
    <3>1. View(q, k)' = View(p, k)
      BY <1>2, <2>1, <2>3
    <3>2. View(q, k) = log[k]
      BY <2>3, ViewType
    <3>3. QED
      BY <2>0, <3>1, <3>2
  <2>4. CASE q # p /\ pend[q][k] # <<>>
    <3>1. pend[p][k] = <<>>
      BY <2>4 DEF LockInv
    <3>2. log'[k] = log[k]
      BY <1>0, <3>1, ViewType
    <3>3. View(q, k)' = View(q, k)
      BY <1>2, <2>4, <3>2 DEF View
    <3>4. QED
      BY <2>0, <3>3, GoesOnSelf
  <2>5. QED
    BY <2>2, <2>3, <2>4
<1>5. NothingSkipped'
  BY <1>0 DEF NothingSkipped, SequenceInv
<1>6. SequenceInv'
  BY <1>4, <1>5 DEF SequenceInv
<1>7. QED
  BY <1>0, <1>1, <1>2, <1>3, <1>4, <1>6

\* Rows and cursor are committed together.
LEMMA CommitInv ==
    ASSUME TypeOK, TypeOK', DrainInv, NEW p \in Procs, Commit(p)
    PROVE  DrainInv'
<1>0. /\ LockInv /\ SequenceInv /\ CursorBacked /\ BatchInv /\ \A q \in Procs : Positions(q)
      /\ pc \in [Procs -> Draining \cup {"idle", "record", "commit", "ack"}]
      /\ todo \in [Procs -> Seq(Keys)] /\ st \in [Procs -> DrainState] /\ pc[p] = "commit"
  BY PositionParts DEF DrainInv, TypeOK, ProcOK, Commit
<1>1. /\ LockInv' /\ SequenceInv'
      /\ \A k \in Keys : log'[k] = View(p, k) /\ GoesOn(log'[k], log[k])
      /\ \A q \in Procs : q # p => pend'[q] = pend[q] /\ staged'[q] = staged[q]
      /\ \A q \in Procs, k \in Keys : q # p => GoesOn(View(q, k)', View(q, k))
      /\ staged'[p] = NoStage
  BY <1>0, CommitViews
<1>2. /\ Moves(p) /\ pc'[p] \in {"idle", "ack"} /\ (p = Poller <=> pc'[p] = "idle")
      /\ queue' = queue
  <2>1. CASE p = Poller
    <3>1. GoIdle(p)
      BY <2>1 DEF Commit
    <3>2. QED
      BY <1>0, <2>1, <3>1 DEF GoIdle, Moves
  <2>2. CASE p # Poller
    <3>1. pc' = [pc EXCEPT ![p] = "ack"] /\ UNCHANGED <<todo, st, queue>>
      BY <2>2 DEF Commit
    <3>2. QED
      BY <1>0, <2>2, <3>1 DEF Moves
  <2>3. QED
    BY <2>1, <2>2
<1>3. CursorBacked'
  <2>1. ASSUME NEW k \in Keys, cursor'[k].last # 0 PROVE cursor'[k].last \in CoreSeqs(log'[k])
    <3>1. cursor[k] \in [last : Nat, halt : Nat] /\ cursor'[k] = CursorAfter(p, k)
      BY DEF TypeOK, DbOK, Commit
    <3>2. cursor'[k].last = IF staged[p][k] # 0 THEN staged[p][k] ELSE cursor[k].last
      BY <3>1 DEF CursorAfter
    <3>3. staged[p][k] # 0 => staged[p][k] \in CoreSeqs(log'[k])
      BY <1>0, <1>1 DEF Positions
    <3>4. cursor[k].last # 0 => cursor[k].last \in CoreSeqs(log'[k])
      <4>1. CoreSeqs(log[k]) \subseteq CoreSeqs(log'[k])
        <5>1. log[k] \in Seq(Rows) /\ log'[k] \in Seq(Rows)
          BY DEF TypeOK, DbOK
        <5>2. QED
          BY <1>1, <5>1, GoesOnFacts
      <4>2. QED
        BY <1>0, <4>1 DEF CursorBacked, Recorded
    <3>5. QED
      BY <2>1, <3>2, <3>3, <3>4
  <2>2. QED
    BY <2>1 DEF CursorBacked, Recorded
<1>4. ASSUME NEW q \in Procs PROVE Positions(q)'
  <2>1. CASE q = p
    <3>1. pc'[p] \notin {"fetch", "write", "stage"}
      BY <1>2
    <3>2. QED
      BY <1>0, <1>1, <2>1, <3>1, PositionsRest
  <2>2. CASE q # p
    BY <1>0, <1>1, <1>2, <2>2, PositionsKeep DEF Moves
  <2>3. QED
    BY <2>1, <2>2
<1>5. BatchInv'
  <2>0. Consumer \in Procs /\ Poller # Consumer /\ (p # Poller => p = Consumer)
    BY Consts
  <2>1. CASE p = Poller
    <3>1. /\ pc'[Consumer] = pc[Consumer]
          /\ \A k \in Keys : GoesOn(View(Consumer, k)', View(Consumer, k))
      BY <1>1, <1>2, <2>0, <2>1 DEF Moves
    <3>2. QED
      BY <1>0, <1>1, <1>2, <3>1, BatchKeep
  <2>2. CASE p # Poller
    <3>1. p = Consumer /\ pc'[Consumer] = "ack"
      BY <1>2, <2>0, <2>2
    <3>2. ASSUME NEW m \in queue'.inHand PROVE Has(log'[MsgKey[m]], <<"queue", m>>)
      <4>1. m \in queue.inHand /\ m \in 1..MaxMsgs
        BY <1>2, <3>2 DEF TypeOK, QueueOK
      <4>2. PICK k \in Keys : k = MsgKey[m]
        BY <4>1, DrainConstants
      <4>3. Has(View(Consumer, k), <<"queue", m>>)
        BY <1>0, <3>1, <4>1, <4>2 DEF BatchInv
      <4>4. QED
        BY <1>1, <3>1, <4>2, <4>3
    <3>3. AckedIsDurable'
      <4>1. ASSUME NEW m \in queue'.acked \ Poison PROVE Has(log'[MsgKey[m]], <<"queue", m>>)
        <5>1. m \in queue.acked \ Poison /\ m \in 1..MaxMsgs
          BY <1>2, <4>1 DEF TypeOK, QueueOK
        <5>2. PICK k \in Keys : k = MsgKey[m]
          BY <5>1, DrainConstants
        <5>3. Has(log[k], <<"queue", m>>)
          BY <1>0, <5>1, <5>2 DEF BatchInv, AckedIsDurable
        <5>4. log[k] \in Seq(Rows) /\ log'[k] \in Seq(Rows)
          BY DEF TypeOK, DbOK
        <5>5. QED
          BY <1>1, <5>2, <5>3, <5>4, GoesOnFacts
      <4>2. QED
        BY <4>1, Zenon DEF AckedIsDurable
    <3>4. pc'[Consumer] # "commit"
      BY <3>1
    <3>5. QED
      BY <3>2, <3>3, <3>4, Zenon DEF BatchInv
  <2>3. QED
    BY <2>1, <2>2
<1>6. PositionInv'
  BY <1>3, <1>4, PositionParts
<1>7. QED
  BY <1>1, <1>5, <1>6 DEF DrainInv

\* What is acked has been committed.
LEMMA AckInv == TypeOK /\ TypeOK' /\ DrainInv /\ Ack => DrainInv'
<1> SUFFICES ASSUME TypeOK, TypeOK', DrainInv, Ack PROVE DrainInv'
  OBVIOUS
<1>0. /\ LockInv /\ SequenceInv /\ CursorBacked /\ BatchInv /\ \A q \in Procs : Positions(q)
      /\ pc \in [Procs -> Draining \cup {"idle", "record", "commit", "ack"}]
      /\ Consumer \in Procs
  BY PositionParts, Consts DEF DrainInv, TypeOK, ProcOK
<1>1. /\ pc[Consumer] = "ack" /\ pc' = [pc EXCEPT ![Consumer] = "idle"]
      /\ queue' = [queue EXCEPT !.acked = @ \cup queue.inHand, !.inHand = {}]
      /\ UNCHANGED <<log, cursor, chainLock, pend, staged, todo, st>>
  BY DEF Ack, dbVars, lockVars, txVars
<1>2. queue'.acked = queue.acked \cup queue.inHand /\ queue'.inHand = {}
  BY <1>1 DEF TypeOK, QueueOK
<1>3. \A q \in Procs, k \in Keys : View(q, k)' = View(q, k)
  BY <1>1 DEF View
<1>4. LockInv' /\ SequenceInv'
  BY <1>0, <1>1, SequenceKeep
<1>5. CursorBacked'
  <2>1. \A k \in Keys : GoesOn(log'[k], log[k])
    BY <1>1, GoesOnSelf DEF TypeOK, DbOK
  <2>2. QED
    BY <1>0, <1>1, <2>1, CursorKeep
<1>6. ASSUME NEW q \in Procs PROVE Positions(q)'
  <2>1. CASE q = Consumer
    <3>1. pc'[q] \notin {"fetch", "write", "stage"}
      BY <1>0, <1>1, <2>1
    <3>2. QED
      BY <1>0, <1>1, <1>3, <3>1, PositionsRest
  <2>2. CASE q # Consumer
    <3>1. pc'[q] = pc[q]
      BY <1>0, <1>1, <2>2
    <3>2. \A k \in Keys : GoesOn(View(q, k)', View(q, k))
      BY <1>3, ViewType, GoesOnSelf
    <3>3. QED
      BY <1>0, <1>1, <3>1, <3>2, PositionsKeep
  <2>3. QED
    BY <2>1, <2>2
<1>7. BatchInv'
  <2>1. ASSUME NEW m \in queue'.acked \ Poison PROVE Has(log'[MsgKey[m]], <<"queue", m>>)
    <3>1. CASE m \in queue.acked
      BY <1>0, <1>1, <2>1, <3>1 DEF BatchInv, AckedIsDurable
    <3>2. CASE m \in queue.inHand
      BY <1>0, <1>1, <3>2 DEF BatchInv
    <3>3. QED
      BY <1>2, <2>1, <3>1, <3>2
  <2>2. AckedIsDurable'
    BY <2>1, Zenon DEF AckedIsDurable
  <2>3. QED
    BY <1>2, <2>2, Zenon DEF BatchInv
<1>8. PositionInv'
  BY <1>5, <1>6, PositionParts
<1>9. QED
  BY <1>4, <1>7, <1>8 DEF DrainInv

\* No step of the system breaks the invariant.
LEMMA DrainStep == TypeOK /\ TypeOK' /\ DrainInv /\ [Next]_vars => DrainInv'
<1> SUFFICES ASSUME TypeOK, TypeOK', DrainInv, [Next]_vars PROVE DrainInv'
  OBVIOUS
<1>1. CASE Environment
  BY <1>1, EnvironmentInv
<1>2. CASE RecordQueue \/ Ack
  BY <1>2, RecordQueueInv, AckInv
<1>3. CASE \/ Read \/ StartPass
           \/ \E ks \in ChainLists : \E h \in [Keys -> 0..Max({MaxRecs[k] : k \in Keys})] :
                 StartHinted(ks, h)
  BY <1>3, BeginInv
<1>4. ASSUME NEW p \in Procs, FetchFails(p) \/ Fail(p) \/ WaitFails(p) PROVE DrainInv'
  <2>1. Reset(p) \/ (pc[p] \in Draining /\ (RaiseError(p) \/ SqlError(p)))
    BY <1>4, WaitFailsKind DEF TypeOK, FetchFails, Fail, Draining
  <2>2. QED
    BY <2>1, RaiseInv
<1>5. ASSUME NEW p \in Procs, Proceed(p) PROVE DrainInv'
  BY <1>4, <1>5, GetCursorInv, FetchInv, HaltInv, WritePageInv, StageCursorInv, CommitInv DEF Proceed
<1>6. CASE UNCHANGED vars
  BY <1>6, StillStep DEF vars
<1>7. QED
  BY <1>1, <1>2, <1>3, <1>4, <1>5, <1>6 DEF Next

\* Rows are written under the chain's lock, every transaction's view of a chain
\* is in sequence, every position it holds is backed by that view, and the batch
\* in hand is written before it is committed and committed before it is acked.
THEOREM DrainInvariant == Spec => []DrainInv
<1>1. Init => DrainInv
  BY DrainInit
<1>2. TypeOK /\ TypeOK' /\ DrainInv /\ [Next]_vars => DrainInv'
  BY DrainStep
<1>3. QED
  BY <1>1, <1>2, TypeCorrect, PTL DEF Spec

\* The audit log has the core's records from the archive on, verified, each
\* once, in order and without a gap, whoever drained them (drain, write_batch).
THEOREM NothingSkippedHolds == Spec => []NothingSkipped
<1>1. DrainInv => NothingSkipped
  BY DEF DrainInv, SequenceInv
<1>2. QED
  BY <1>1, DrainInvariant, PTL

\* A committed cursor never claims a record that was not recorded (cursors.stage
\* in the rows' transaction), whatever crashes or is rolled back.
THEOREM CursorBackedHolds == Spec => []CursorBacked
<1>1. DrainInv => CursorBacked
  BY DEF DrainInv, PositionInv
<1>2. QED
  BY <1>1, DrainInvariant, PTL

\* A message that was acked is in the log, unless it was poison (Consumer.process
\* acks after the commit).
THEOREM AckedIsDurableHolds == Spec => []AckedIsDurable
<1>1. DrainInv => AckedIsDurable
  BY DEF DrainInv, BatchInv
<1>2. QED
  BY <1>1, DrainInvariant, PTL

\* What a step does to a halt: kept, or cleared by an operator.
HaltKeptAt(k) ==
    \/ cursor'[k].halt = cursor[k].halt
    \/ cursor'[k].halt = 0 /\ budget'.acks < budget.acks

\* A step that is not an acknowledgement leaves a halt as it is.
LEMMA HaltStep ==
    ASSUME TypeOK, [Next]_vars, NEW k \in Keys, cursor[k].halt # 0
    PROVE  HaltKeptAt(k)
<1>0. /\ cursor \in [Keys -> [last : Nat, halt : Nat]]
      /\ budget \in [tampers : Nat, acks : Nat, fails : Nat, hints : Nat]
  BY DEF TypeOK, DbOK
<1>1. CASE cursor' = cursor
  BY <1>1 DEF HaltKeptAt
<1>2. ASSUME NEW j \in Keys, Acknowledge(j) PROVE HaltKeptAt(k)
  <2>1. /\ budget' = [budget EXCEPT !.acks = @ - 1] /\ cursor' = [cursor EXCEPT ![j].halt = 0]
    BY <1>2 DEF Acknowledge
  <2>2. budget'.acks < budget.acks
    BY <1>0, <2>1
  <2>3. cursor'[k].halt = cursor[k].halt \/ cursor'[k].halt = 0
    BY <1>0, <2>1
  <2>4. QED
    BY <2>2, <2>3 DEF HaltKeptAt
<1>3. CASE Environment
  BY <1>1, <1>2, <1>3 DEF Environment, CoreAppend, Tamper, Publish, dbVars
<1>4. ASSUME NEW p \in Procs,
             Reset(p) \/ RaiseRefusal(p) \/ RaiseError(p) \/ SqlError(p) \/ UNCHANGED dbVars
      PROVE  HaltKeptAt(k)
  <2>1. cursor' = cursor
    BY <1>4 DEF Reset, RaiseRefusal, RaiseError, SqlError, dbVars
  <2>2. QED
    BY <1>1, <2>1
<1>5. CASE Read \/ RecordQueue \/ Ack \/ StartPass
  BY <1>4, <1>5, Consts DEF Read, RecordQueue, Ack, StartPass
<1>6. CASE \E ks \in ChainLists : \E h \in [Keys -> 0..Max({MaxRecs[j] : j \in Keys})] :
              StartHinted(ks, h)
  BY <1>1, <1>6 DEF StartHinted, dbVars
<1>7. ASSUME NEW p \in Procs, PersistHalt(p) PROVE HaltKeptAt(k)
  <2> DEFINE j == Head(todo[p])
  <2>1. cursor' = [cursor EXCEPT ![j].halt = IF @ = 0 THEN st[p].brk ELSE @]
    BY <1>7 DEF PersistHalt
  <2> HIDE DEF j
  <2>2. cursor'[k].halt = cursor[k].halt
    BY <1>0, <2>1
  <2>3. QED
    BY <2>2 DEF HaltKeptAt
<1>8. ASSUME NEW p \in Procs, Commit(p) PROVE HaltKeptAt(k)
  <2>1. cursor'[k] = CursorAfter(p, k) /\ cursor[k] \in [last : Nat, halt : Nat]
    BY <1>0, <1>8 DEF Commit
  <2>2. cursor'[k].halt = cursor[k].halt
    BY <2>1 DEF CursorAfter
  <2>3. QED
    BY <2>2 DEF HaltKeptAt
<1>9. ASSUME NEW p \in Procs, Proceed(p) \/ FetchFails(p) \/ Fail(p) PROVE HaltKeptAt(k)
  BY <1>4, <1>7, <1>8, <1>9 DEF Proceed, GetCursor, Fetch, LoseHalt, RaiseBreak, WritePage,
     StageCursor, WaitFails, FetchFails, Fail
<1>10. CASE UNCHANGED vars
  BY <1>1, <1>10 DEF vars
<1>11. QED
  BY <1>3, <1>5, <1>6, <1>9, <1>10 DEF Next

\* A halt names the first break until an operator acknowledges it, whatever the
\* two drainers find or commit in the meantime (cursors.halt, cursors.stage).
THEOREM HaltKeptHolds == Spec => HaltKept
<1>1. TypeOK /\ [Next]_vars => [\A k \in Keys : cursor[k].halt # 0 =>
          \/ cursor'[k].halt = cursor[k].halt
          \/ cursor'[k].halt = 0 /\ budget'.acks < budget.acks]_vars
  BY HaltStep DEF HaltKeptAt
<1>2. QED
  BY <1>1, TypeCorrect, PTL DEF Spec, HaltKept

-----------------------------------------------------------------------------
(* Queue events follow the core's records.  PrecedenceInv is inductive as  *)
(* long as no chain is halted.                                             *)

\* A page that leaves records behind is full.
LEMMA FullPage ==
    ASSUME NEW S \in SUBSET Nat, IsFiniteSet(S), PageOf(S) # S
    PROVE  Cardinality(PageOf(S)) = PageSize
<1> DEFINE T == PageOf(S)
           f == [n \in T |-> Rank(S, n)]
<1>0. PageSize \in Nat \ {0} /\ Cardinality(S) \in Nat
  BY Consts, FS_CardinalityType
<1>1. T \subseteq S /\ \A n \in S : Rank(S, n) \in 0..Cardinality(S) - 1
  BY RankFacts DEF PageOf
<1>2. PageSize <= Cardinality(S)
  <2>1. PICK n \in S : ~(Rank(S, n) < PageSize)
    BY DEF PageOf
  <2>2. Rank(S, n) \in 0..Cardinality(S) - 1
    BY <1>1
  <2>3. QED
    BY <1>0, <2>1, <2>2
<1>3. \A m, n \in S : Rank(S, m) = Rank(S, n) => m = n
  <2>1. SUFFICES ASSUME NEW m \in S, NEW n \in S, m < n PROVE Rank(S, m) # Rank(S, n)
    OBVIOUS
  <2>2. Rank(S, m) \in Int /\ Rank(S, n) \in Int /\ Rank(S, m) < Rank(S, n)
    BY <1>0, <1>1, <2>1, RankFacts
  <2>3. QED
    BY <2>2
<1>4. ASSUME NEW r \in 0..PageSize - 1 PROVE \E n \in T : f[n] = r
  <2>1. PICK i \in 1..Cardinality(S) : i - 1 = r
    <3>1. r + 1 \in 1..Cardinality(S) /\ (r + 1) - 1 = r
      BY <1>0, <1>2
    <3>2. QED
      BY <3>1
  <2>2. PICK n \in S : Rank(S, n) = r
    <3>1. InOrder(S)[i] \in S /\ Rank(S, InOrder(S)[i]) = i - 1
      BY InOrderFacts
    <3>2. QED
      BY <2>1, <3>1
  <2>3. n \in T
    BY <1>0, <2>2 DEF PageOf
  <2>4. QED
    BY <2>2, <2>3
<1>5. f \in Bijection(T, 0..PageSize - 1)
  <2>1. f \in [T -> 0..PageSize - 1]
    <3>1. \A n \in T : Rank(S, n) \in 0..PageSize - 1
      BY <1>0, <1>1 DEF PageOf
    <3> HIDE DEF T
    <3>2. QED
      BY <3>1
  <2>2. \A m, n \in T : f[m] = f[n] => m = n
    <3> HIDE DEF T
    <3>1. QED
      BY <1>1, <1>3
  <2> HIDE DEF f, T
  <2>3. QED
    BY <1>4, <2>1, <2>2 DEF Bijection, Injection, Surjection, IsInjective
<1>6. IsFiniteSet(0..PageSize - 1) /\ Cardinality(0..PageSize - 1) = PageSize
  <2>1. 0 \in Int /\ PageSize - 1 \in Int /\ (IF 0 > PageSize - 1 THEN 0 ELSE PageSize - 1 - 0 + 1) = PageSize
    BY <1>0
  <2>2. QED
    BY <2>1, FS_Interval
<1>7. IsFiniteSet(T)
  <2> HIDE DEF T
  <2>1. QED
    BY <1>1, FS_Subset
<1>8. Cardinality(T) = Cardinality(0..PageSize - 1)
  <2> HIDE DEF f, T
  <2>1. ExistsBijection(T, 0..PageSize - 1)
    BY <1>5 DEF ExistsBijection
  <2>2. QED
    BY <1>6, <1>7, <2>1, FS_Bijection
<1>9. QED
  BY <1>6, <1>8

\* Rows that are in sequence up to a seq have every record up to it.
LEMMA SeqsBelow ==
    ASSUME NEW rows \in Seq(Rows), NEW a \in Nat, InSequence(rows, a),
           NEW last \in CoreSeqs(rows) \cup {a}
    PROVE  last \in Nat /\ a <= last /\ a + 1..last \subseteq CoreSeqs(rows)
<1>1. CASE last = a
  BY <1>1
<1>2. CASE last \in CoreSeqs(rows)
  <2>1. PICK i \in 1..Len(rows) : rows[i].item.src = "core" /\ last = rows[i].item.n
    BY <1>2 DEF CoreSeqs
  <2> DEFINE before == SubSeq(rows, 1, i - 1)
  <2>2. last > a /\ CoreSeqs(before) = a + 1..last - 1
    BY <2>1 DEF InSequence
  <2>3. last \in Nat
    <3>1. rows[i] \in Rows
      OBVIOUS
    <3>2. QED
      BY <2>1, <3>1 DEF Rows, Items
  <2>4. before \in Seq(Rows) /\ GoesOn(rows, before)
    BY DEF GoesOn
  <2> HIDE DEF before
  <2>5. CoreSeqs(before) \subseteq CoreSeqs(rows)
    BY <2>4, GoesOnFacts
  <2>6. ASSUME NEW n \in a + 1..last PROVE n \in CoreSeqs(rows)
    BY <1>2, <2>2, <2>3, <2>5
  <2>7. QED
    BY <2>2, <2>3, <2>6
<1>3. QED
  BY <1>1, <1>2

\* What rows cover, more rows cover.
LEMMA CoversMore ==
    ASSUME NEW k, NEW recs, NEW top, NEW before \in Seq(Rows), NEW rows \in Seq(Rows),
           GoesOn(rows, before), Covers(k, recs, before, top)
    PROVE  Covers(k, recs, rows, top)
BY GoesOnFacts DEF Covers

\* An event may follow rows.
EventOK(k, recs, rows, tops, published, item) ==
    item.src = "queue" => /\ item.n \in 1..published /\ MsgKey[item.n] = k
                          /\ Covers(k, recs, rows, tops[item.n])

\* One more row after the records that precede it.
LEMMA EventsAppend ==
    ASSUME NEW k \in Keys, NEW recs, NEW tops, NEW pub, NEW rows \in Seq(Rows),
           EventsAfter(k, recs, rows, tops, pub), NEW r \in Rows,
           EventOK(k, recs, rows, tops, pub, r.item)
    PROVE  EventsAfter(k, recs, Append(rows, r), tops, pub)
<1> DEFINE new == Append(rows, r)
           l == Len(rows)
<1>0. /\ l \in Nat /\ new \in Seq(Rows) /\ Len(new) = l + 1 /\ new[l + 1] = r
      /\ \A i \in 1..l : new[i] = rows[i]
  OBVIOUS
<1>1. \A i \in 1..l + 1 : SubSeq(new, 1, i - 1) = SubSeq(rows, 1, i - 1)
  OBVIOUS
<1>2. SubSeq(rows, 1, l) = rows
  OBVIOUS
<1> HIDE DEF new
<1>3. ASSUME NEW i \in 1..l + 1, new[i].item.src = "queue"
      PROVE  /\ new[i].item.n \in 1..pub /\ MsgKey[new[i].item.n] = k
             /\ Covers(k, recs, SubSeq(new, 1, i - 1), tops[new[i].item.n])
  <2>1. CASE i <= l
    <3>1. i \in 1..l /\ new[i] = rows[i] /\ SubSeq(new, 1, i - 1) = SubSeq(rows, 1, i - 1)
      BY <1>0, <1>1, <2>1
    <3>2. QED
      BY <1>3, <3>1 DEF EventsAfter
  <2>2. CASE i = l + 1
    <3>1. new[i] = r /\ SubSeq(new, 1, i - 1) = rows
      <4>1. i - 1 = l
        BY <1>0, <2>2
      <4>2. QED
        BY <1>0, <1>1, <1>2, <2>2, <4>1
    <3>2. QED
      BY <1>3, <3>1 DEF EventOK
  <2>3. QED
    BY <1>0, <2>1, <2>2
<1>4. QED
  BY <1>0, <1>3 DEF EventsAfter, new

\* A batch whose events may follow the rows that are there.
LEMMA EventsBatch ==
    ASSUME NEW k \in Keys, NEW recs, NEW tops, NEW pub, NEW rows \in Seq(Rows),
           EventsAfter(k, recs, rows, tops, pub), NEW items \in Seq(Items),
           \A i \in 1..Len(items) : EventOK(k, recs, rows, tops, pub, items[i])
    PROVE  EventsAfter(k, recs, WriteBatch(rows, items), tops, pub)
<1> DEFINE W == Written(rows, items)
           S == {i \in Nat : i <= Len(items) => /\ EventsAfter(k, recs, W[i].rows, tops, pub)
                                               /\ GoesOn(W[i].rows, rows)}
<1>0. Len(items) \in Nat /\ \A i \in 1..Len(items) : items[i] \in Items
  OBVIOUS
<1>1. /\ W[0] = [rows |-> rows, head |-> TailId(rows)]
      /\ \A i \in 1..Len(items) : W[i] = AppendRow(W[i - 1], items[i])
  BY <1>0, WrittenFacts
<1>2. \A i \in 0..Len(items) : W[i].rows \in Seq(Rows) /\ W[i].head \in Heads
  BY BatchFacts
<1> HIDE DEF W
<1>3. 0 \in S
  BY <1>1, GoesOnSelf
<1>4. ASSUME NEW n \in Nat, n \in S PROVE n + 1 \in S
  <2>1. SUFFICES ASSUME n + 1 <= Len(items)
                 PROVE  EventsAfter(k, recs, W[n + 1].rows, tops, pub) /\ GoesOn(W[n + 1].rows, rows)
    BY <1>4
  <2>2. /\ EventsAfter(k, recs, W[n].rows, tops, pub) /\ GoesOn(W[n].rows, rows)
        /\ n \in 0..Len(items) /\ n + 1 \in 1..Len(items)
    BY <1>0, <1>4, <2>1
  <2> DEFINE item == items[n + 1]
             row == [item |-> item, prev |-> W[n].head]
  <2>3. W[n + 1] = AppendRow(W[n], item)
    <3>1. n + 1 - 1 = n
      OBVIOUS
    <3>2. QED
      BY <1>1, <2>2, <3>1
  <2>4. item \in Items /\ W[n].rows \in Seq(Rows) /\ W[n].head \in Heads /\ W[n + 1].rows \in Seq(Rows)
    BY <1>0, <1>2, <2>2
  <2>5. EventOK(k, recs, W[n].rows, tops, pub, item)
    <3>1. EventOK(k, recs, rows, tops, pub, item)
      BY <2>2
    <3> HIDE DEF item
    <3>2. QED
      BY <2>2, <2>4, <3>1, CoversMore DEF EventOK
  <2> HIDE DEF item
  <2>6. /\ GoesOn(W[n + 1].rows, W[n].rows)
        /\ W[n + 1].rows = W[n].rows \/ W[n + 1].rows = Append(W[n].rows, row)
    BY <2>3, <2>4, AppendRowFacts
  <2>7. row \in Rows /\ row.item = item
    BY <2>4 DEF Rows
  <2> HIDE DEF row
  <2>8. EventsAfter(k, recs, Append(W[n].rows, row), tops, pub)
    BY <2>2, <2>4, <2>5, <2>7, EventsAppend
  <2>9. GoesOn(W[n + 1].rows, rows)
    BY <2>2, <2>4, <2>6, GoesOnTrans
  <2>10. QED
    BY <2>2, <2>6, <2>8, <2>9
<1>5. Nat \subseteq S
  <2> HIDE DEF S
  <2>1. QED
    BY <1>3, <1>4, SetInduction
<1>6. EventsAfter(k, recs, W[Len(items)].rows, tops, pub)
  BY <1>0, <1>5
<1>7. QED
  BY <1>6 DEF WriteBatch, W

\* No record, no publication: what a process does.
Quiet == core' = core /\ seen' = seen /\ queue'.published = queue.published

\* A rollback, or a step that writes nothing, leaves the views as they are or
\* as the log is.
LEMMA EventsKeep ==
    ASSUME TypeOK, TypeOK', DrainInv, EventsInv, Quiet, log' = log, NEW p \in Procs,
           UNCHANGED <<chainLock, pend>> \/ Drop(p)
    PROVE  EventsInv'
<1>1. \A q \in Procs, k \in Keys : View(q, k)' = View(q, k) \/ View(q, k)' = log[k]
  BY SequenceKeep DEF DrainInv
<1>2. ASSUME NEW k \in Keys
      PROVE  /\ EventsAfter(k, core'[k], log'[k], seen', queue'.published)
             /\ \A q \in Procs : EventsAfter(k, core'[k], View(q, k)', seen', queue'.published)
  <2>1. /\ EventsAfter(k, core[k], log[k], seen, queue.published)
        /\ \A q \in Procs : EventsAfter(k, core[k], View(q, k), seen, queue.published)
    BY DEF EventsInv
  <2>2. ASSUME NEW q \in Procs PROVE EventsAfter(k, core'[k], View(q, k)', seen', queue'.published)
    <3>1. View(q, k)' = View(q, k) \/ View(q, k)' = log[k]
      BY <1>1
    <3>2. QED
      BY <2>1, <3>1 DEF Quiet
  <2>3. QED
    BY <2>1, <2>2 DEF Quiet
<1>3. QED
  BY <1>2 DEF EventsInv

\* write_batch keeps events after their records if the batch's events are.
LEMMA EventsWrite ==
    ASSUME TypeOK, TypeOK', EventsInv, Quiet, log' = log, NEW p \in Procs,
           NEW items \in [Keys -> Seq(Items)], WriteRows(p, items),
           \A k \in Keys : \A i \in 1..Len(items[k]) :
               EventOK(k, core[k], View(p, k), seen, queue.published, items[k][i])
    PROVE  EventsInv'
<1>1. /\ \A k \in Keys : log[k] \o pend'[p][k] = WriteBatch(View(p, k), items[k])
      /\ \A q \in Procs : q # p => pend'[q] = pend[q]
  BY WriteRowsFacts DEF TypeOK, Wrote
<1>2. ASSUME NEW k \in Keys
      PROVE  /\ EventsAfter(k, core'[k], log'[k], seen', queue'.published)
             /\ \A q \in Procs : EventsAfter(k, core'[k], View(q, k)', seen', queue'.published)
  <2>1. /\ EventsAfter(k, core[k], log[k], seen, queue.published)
        /\ \A q \in Procs : EventsAfter(k, core[k], View(q, k), seen, queue.published)
    BY DEF EventsInv
  <2>2. ASSUME NEW q \in Procs PROVE EventsAfter(k, core'[k], View(q, k)', seen', queue'.published)
    <3>1. CASE q # p
      <4>1. View(q, k)' = View(q, k)
        BY <1>1, <3>1 DEF View
      <4>2. QED
        BY <2>1, <4>1 DEF Quiet
    <3>2. CASE q = p
      <4>1. View(q, k)' = WriteBatch(View(p, k), items[k])
        BY <1>1, <3>2 DEF View
      <4>2. PICK rows \in Seq(Rows) : rows = View(p, k)
        BY ViewType
      <4>3. PICK its \in Seq(Items) : its = items[k]
        OBVIOUS
      <4>4. EventsAfter(k, core[k], rows, seen, queue.published)
        BY <2>1, <4>2
      <4>5. \A i \in 1..Len(its) : EventOK(k, core[k], rows, seen, queue.published, its[i])
        BY <4>2, <4>3
      <4>6. EventsAfter(k, core[k], WriteBatch(rows, its), seen, queue.published)
        BY <4>4, <4>5, EventsBatch
      <4>7. QED
        BY <4>1, <4>2, <4>3, <4>6 DEF Quiet
    <3>3. QED
      BY <3>1, <3>2
  <2>3. QED
    BY <2>1, <2>2 DEF Quiet
<1>3. QED
  BY <1>2 DEF EventsInv

\* A commit makes the log and the views what the transaction saw.
LEMMA EventsCommit ==
    ASSUME TypeOK, TypeOK', DrainInv, EventsInv, Quiet, NEW p \in Procs, Commit(p)
    PROVE  EventsInv'
<1>1. /\ \A k \in Keys : log'[k] = View(p, k)
      /\ \A q \in Procs, k \in Keys : View(q, k)' = View(p, k) \/ View(q, k)' = View(q, k)
  BY CommitViews DEF DrainInv
<1>2. ASSUME NEW k \in Keys
      PROVE  /\ EventsAfter(k, core'[k], log'[k], seen', queue'.published)
             /\ \A q \in Procs : EventsAfter(k, core'[k], View(q, k)', seen', queue'.published)
  <2>1. \A q \in Procs : EventsAfter(k, core[k], View(q, k), seen, queue.published)
    BY DEF EventsInv
  <2>2. ASSUME NEW q \in Procs PROVE EventsAfter(k, core'[k], View(q, k)', seen', queue'.published)
    <3>1. View(q, k)' = View(p, k) \/ View(q, k)' = View(q, k)
      BY <1>1
    <3>2. QED
      BY <2>1, <3>1 DEF Quiet
  <2>3. EventsAfter(k, core'[k], log'[k], seen', queue'.published)
    BY <1>1, <2>1 DEF Quiet
  <2>4. QED
    BY <2>2, <2>3
<1>3. QED
  BY <1>2 DEF EventsInv

\* The records before m, a message in hand on chain k, are in the consumer's view.
Covered(m, k) == Covers(k, core[k], View(Consumer, k), seen[m])

\* What CoveredInv says of a message m in hand on chain k.
CoveredAt(m, k) ==
    /\ pc[Consumer] \in Draining => Covered(m, k) \/ k \in ToSet(todo[Consumer])
    /\ pc[Consumer] = "record" => Covered(m, k)
    /\ pc[Consumer] = "stage" /\ k = Head(todo[Consumer]) => Covered(m, k)
    /\ pc[Consumer] = "write" /\ k = Head(todo[Consumer]) /\ ~st[Consumer].more =>
          \A n \in st[Consumer].last + Len(st[Consumer].page) + 1 .. seen[m] : core[k][n] = "gone"

\* CoveredInv, message by message.
LEMMA CoveredParts ==
    /\ CoveredInv => \A m \in queue.inHand, k \in Keys : k = MsgKey[m] => CoveredAt(m, k)
    /\ (\A m \in queue'.inHand, k \in Keys : k = MsgKey[m] => CoveredAt(m, k)') => CoveredInv'
<1>1. ASSUME CoveredInv, NEW m \in queue.inHand, NEW k \in Keys, k = MsgKey[m] PROVE CoveredAt(m, k)
  BY <1>1, Zenon DEF CoveredInv, CoveredAt, Covered
<1>2. ASSUME \A m \in queue'.inHand, k \in Keys : k = MsgKey[m] => CoveredAt(m, k)' PROVE CoveredInv'
  BY <1>2, Zenon DEF CoveredInv, CoveredAt, Covered
<1>3. QED
  BY <1>1, <1>2

\* Views grow, and what they cover stays covered.
LEMMA CoveredMore ==
    ASSUME TypeOK, TypeOK', Quiet, NEW m, NEW k \in Keys, Covered(m, k),
           GoesOn(View(Consumer, k)', View(Consumer, k))
    PROVE  Covered(m, k)'
<1>1. View(Consumer, k) \in Seq(Rows) /\ View(Consumer, k)' \in Seq(Rows)
  <2>1. View(Consumer, k) \in Seq(Rows)
    BY ViewType, Consts
  <2>2. log'[k] \in Seq(Rows) /\ pend'[Consumer][k] \in Seq(Rows)
    BY Consts DEF TypeOK, DbOK, TxOK
  <2>3. QED
    BY <2>1, <2>2 DEF View
<1>2. PICK a \in Seq(Rows), b \in Seq(Rows) : a = View(Consumer, k) /\ b = View(Consumer, k)'
  BY <1>1
<1>3. Covers(k, core[k], b, seen[m])
  BY <1>2, CoversMore DEF Covered
<1>4. QED
  BY <1>2, <1>3 DEF Covered, Quiet

\* A consumer that does not move keeps what it has covered.
LEMMA ConsumerKeep ==
    ASSUME TypeOK, TypeOK', CoveredInv, PagesInv, Quiet, queue'.inHand = queue.inHand,
           pc'[Consumer] = pc[Consumer], todo'[Consumer] = todo[Consumer],
           st'[Consumer] = st[Consumer],
           \A k \in Keys : GoesOn(View(Consumer, k)', View(Consumer, k))
    PROVE  CoveredInv' /\ PagesInv'
<1>1. ASSUME NEW m \in queue'.inHand, NEW k \in Keys, k = MsgKey[m] PROVE CoveredAt(m, k)'
  <2>1. CoveredAt(m, k)
    BY <1>1, CoveredParts
  <2>2. Covered(m, k) => Covered(m, k)'
    BY CoveredMore
  <2>3. QED
    BY <2>1, <2>2, Zenon DEF CoveredAt, Quiet
<1>2. PagesInv'
  BY Zenon DEF PagesInv
<1>3. QED
  BY <1>1, <1>2, CoveredParts

\* A consumer that is not draining has nothing to cover.
LEMMA ConsumerRest ==
    ASSUME pc'[Consumer] \notin Draining \cup {"record"}
    PROVE  CoveredInv' /\ PagesInv'
<1>1. pc'[Consumer] \notin Draining /\ pc'[Consumer] \notin {"record", "stage", "write", "fetch"}
  BY DEF Draining
<1>2. CoveredInv'
  BY <1>1, Zenon DEF CoveredInv
<1>3. PagesInv'
  BY <1>1, Zenon DEF PagesInv
<1>4. QED
  BY <1>2, <1>3

\* What there is to read stays covered while records are added or removed.
LEMMA CoversLater ==
    ASSUME NEW k, NEW recs, NEW later, NEW rows, NEW top \in Nat, NEW len \in Nat, top <= len,
           AnchorSeq[k] \in Nat, \A n \in 1..len : recs[n] = "gone" => later[n] = "gone",
           Covers(k, recs, rows, top)
    PROVE  Covers(k, later, rows, top)
<1>1. ASSUME NEW n \in AnchorSeq[k] + 1..top PROVE later[n] = "gone" \/ n \in CoreSeqs(rows)
  <2>1. n \in 1..len
    OBVIOUS
  <2>2. recs[n] = "gone" \/ n \in CoreSeqs(rows)
    BY DEF Covers
  <2>3. QED
    BY <2>1, <2>2
<1>2. QED
  BY <1>1 DEF Covers

\* The environment adds records and messages and may remove records; no process
\* moves and no row is written.
LEMMA EnvironmentKeep ==
    ASSUME TypeOK, TypeOK', PrecedenceInv, SeenInv', UNCHANGED <<log, pend, pc, todo, st>>,
           queue'.inHand = queue.inHand, queue.published <= queue'.published,
           \A m \in 1..queue.published : seen'[m] = seen[m],
           \A k \in Keys : \A n \in 1..Len(core[k]) : core[k][n] = "gone" => core'[k][n] = "gone"
    PROVE  PrecedenceInv'
<1>0. /\ queue.published \in 0..MaxMsgs /\ queue'.published \in 0..MaxMsgs
      /\ queue.inHand \subseteq 1..queue.published /\ MaxMsgs \in Nat
      /\ \A k \in Keys : Len(core[k]) \in Nat /\ AnchorSeq[k] \in Nat
      /\ \A m \in 1..MaxMsgs : seen[m] \in Nat /\ seen[m] <= Len(core[MsgKey[m]])
  <2>1. MaxMsgs \in Nat /\ \A k \in Keys : AnchorSeq[k] \in Nat
    BY Consts
  <2>2. queue.published \in 0..MaxMsgs /\ queue'.published \in 0..MaxMsgs
    BY DEF TypeOK, QueueOK
  <2>3. queue.inHand \subseteq 1..queue.published
    BY <2>1 DEF TypeOK, QueueOK
  <2>4. \A k \in Keys : Len(core[k]) \in Nat
    BY DEF TypeOK, CoreOK
  <2>5. \A m \in 1..MaxMsgs : seen[m] \in Nat /\ seen[m] <= Len(core[MsgKey[m]])
    BY DEF PrecedenceInv, SeenInv
  <2>6. QED
    BY <2>1, <2>2, <2>3, <2>4, <2>5
<1>1. ASSUME NEW k \in Keys, NEW rows, NEW m \in 1..queue.published, MsgKey[m] = k,
             Covers(k, core[k], rows, seen[m])
      PROVE  Covers(k, core'[k], rows, seen'[m])
  <2>1. m \in 1..MaxMsgs /\ seen'[m] = seen[m] /\ seen[m] \in Nat /\ seen[m] <= Len(core[k])
    BY <1>0, <1>1
  <2>2. Covers(k, core'[k], rows, seen[m])
    BY <1>0, <1>1, <2>1, CoversLater
  <2>3. QED
    BY <2>1, <2>2
<1>2. ASSUME NEW k \in Keys, NEW rows, EventsAfter(k, core[k], rows, seen, queue.published)
      PROVE  EventsAfter(k, core'[k], rows, seen', queue'.published)
  <2>1. ASSUME NEW i \in 1..Len(rows), rows[i].item.src = "queue"
        PROVE  /\ rows[i].item.n \in 1..queue'.published /\ MsgKey[rows[i].item.n] = k
               /\ Covers(k, core'[k], SubSeq(rows, 1, i - 1), seen'[rows[i].item.n])
    <3>1. /\ rows[i].item.n \in 1..queue.published /\ MsgKey[rows[i].item.n] = k
          /\ Covers(k, core[k], SubSeq(rows, 1, i - 1), seen[rows[i].item.n])
      BY <1>2, <2>1 DEF EventsAfter
    <3>2. rows[i].item.n \in 1..queue'.published
      BY <1>0, <3>1
    <3>3. QED
      BY <1>1, <3>1, <3>2
  <2>2. QED
    BY <2>1 DEF EventsAfter
<1>3. \A p \in Procs, k \in Keys : View(p, k)' = View(p, k)
  BY DEF View
<1>4. EventsInv'
  <2>1. ASSUME NEW k \in Keys
        PROVE  /\ EventsAfter(k, core'[k], log'[k], seen', queue'.published)
               /\ \A p \in Procs : EventsAfter(k, core'[k], View(p, k)', seen', queue'.published)
    <3>1. /\ EventsAfter(k, core[k], log[k], seen, queue.published)
          /\ \A p \in Procs : EventsAfter(k, core[k], View(p, k), seen, queue.published)
      BY DEF PrecedenceInv, EventsInv
    <3>2. EventsAfter(k, core'[k], log[k], seen', queue'.published)
      BY <1>2, <3>1
    <3>3. ASSUME NEW p \in Procs PROVE EventsAfter(k, core'[k], View(p, k), seen', queue'.published)
      BY <1>2, <3>1
    <3>4. QED
      BY <1>3, <3>2, <3>3
  <2>2. QED
    BY <2>1 DEF EventsInv
<1>5. CoveredInv'
  <2>1. ASSUME NEW m \in queue'.inHand, NEW k \in Keys, k = MsgKey[m] PROVE CoveredAt(m, k)'
    <3>1. CoveredAt(m, k) /\ m \in 1..queue.published
      BY <1>0, <2>1, CoveredParts DEF PrecedenceInv
    <3>2. Covered(m, k) => Covered(m, k)'
      <4>1. Consumer \in Procs
        BY Consts
      <4>2. ASSUME Covered(m, k) PROVE Covers(k, core'[k], View(Consumer, k), seen'[m])
        BY <1>1, <2>1, <3>1, <4>2 DEF Covered
      <4>3. QED
        BY <1>3, <4>1, <4>2 DEF Covered
    <3>3. ASSUME pc[Consumer] = "write", k = Head(todo[Consumer]), ~st[Consumer].more,
                 NEW n \in st[Consumer].last + Len(st[Consumer].page) + 1 .. seen'[m]
          PROVE  core'[k][n] = "gone"
      <4>1. seen'[m] = seen[m] /\ seen[m] \in Nat /\ seen[m] <= Len(core[k])
        BY <1>0, <2>1, <3>1
      <4>2. core[k][n] = "gone"
        BY <3>1, <3>3, <4>1 DEF CoveredAt
      <4>3. st[Consumer].last \in Nat /\ Len(st[Consumer].page) \in Nat
        BY Consts DEF TypeOK, ProcOK, DrainState
      <4>4. n \in 1..Len(core[k])
        BY <1>0, <4>1, <4>3
      <4>5. QED
        BY <4>2, <4>4
    <3>4. QED
      BY <3>1, <3>2, <3>3, Zenon DEF CoveredAt
  <2>2. QED
    BY <2>1, CoveredParts
<1>6. PagesInv'
  BY Zenon DEF PrecedenceInv, PagesInv
<1>7. QED
  BY <1>4, <1>5, <1>6 DEF PrecedenceInv

\* The core, the producers and the operator.
LEMMA EnvironmentPrecedence ==
    ASSUME TypeOK, TypeOK', PrecedenceInv, Environment PROVE PrecedenceInv'
<1>0. /\ core \in [Keys -> Seq({"ok", "altered", "gone"})]
      /\ seen \in [1..MaxMsgs -> Nat] /\ \A m \in 1..MaxMsgs : seen[m] <= Len(core[MsgKey[m]])
      /\ MsgKey \in [1..MaxMsgs -> Keys] /\ queue.published \in 0..MaxMsgs /\ MaxMsgs \in Nat
      /\ queue \in [published : 0..MaxMsgs, delivered : 0..MaxMsgs,
                    acked : SUBSET (1..MaxMsgs), inHand : SUBSET (1..MaxMsgs)]
  BY DrainConstants, Consts DEF TypeOK, CoreOK, QueueOK, PrecedenceInv, SeenInv
<1>1. UNCHANGED <<log, pend, pc, todo, st>>
  BY DEF Environment, CoreAppend, Acknowledge, Tamper, Publish, dbVars, txVars, procVars
<1>2. ASSUME UNCHANGED <<queue, seen>>,
             \A k \in Keys : Len(core'[k]) >= Len(core[k]) /\ Len(core'[k]) \in Nat,
             \A k \in Keys : \A n \in 1..Len(core[k]) : core[k][n] = "gone" => core'[k][n] = "gone"
      PROVE  PrecedenceInv'
  <2>1. ASSUME NEW m \in 1..MaxMsgs PROVE seen'[m] <= Len(core'[MsgKey[m]])
    <3>1. PICK k \in Keys : k = MsgKey[m]
      BY <1>0
    <3>2. Len(core[k]) \in Nat /\ Len(core'[k]) \in Nat /\ Len(core'[k]) >= Len(core[k])
          /\ seen[m] \in Nat /\ seen[m] <= Len(core[k])
      BY <1>0, <1>2, <3>1
    <3>3. QED
      BY <1>2, <3>1, <3>2
  <2>2. SeenInv'
    BY <1>0, <1>2, <2>1 DEF SeenInv
  <2>3. QED
    BY <1>0, <1>1, <1>2, <2>2, EnvironmentKeep
<1>3. ASSUME NEW k \in Keys, CoreAppend(k) PROVE PrecedenceInv'
  <2>1. core' = [core EXCEPT ![k] = Append(core[k], "ok")] /\ UNCHANGED <<queue, seen>>
    BY <1>3 DEF CoreAppend
  <2>2. ASSUME NEW j \in Keys
        PROVE  /\ Len(core'[j]) >= Len(core[j]) /\ Len(core'[j]) \in Nat
               /\ \A n \in 1..Len(core[j]) : core'[j][n] = core[j][n]
    BY <1>0, <2>1
  <2>3. QED
    BY <1>2, <2>1, <2>2
<1>4. ASSUME NEW k \in Keys, NEW n \in 1..MaxRecs[k], NEW how \in {"altered", "gone"}, Tamper(k, n, how)
      PROVE  PrecedenceInv'
  <2>1. /\ core' = [core EXCEPT ![k] = [core[k] EXCEPT ![n] = how]] /\ UNCHANGED <<queue, seen>>
        /\ n \in 1..Len(core[k]) /\ core[k][n] # "gone"
    BY <1>0, <1>4 DEF Tamper
  <2>2. ASSUME NEW j \in Keys
        PROVE  /\ Len(core'[j]) = Len(core[j]) /\ Len(core[j]) \in Nat
               /\ \A i \in 1..Len(core[j]) : core[j][i] = "gone" => core'[j][i] = "gone"
    <3>1. CASE j # k
      BY <1>0, <2>1, <3>1
    <3>2. CASE j = k
      BY <1>0, <2>1, <3>2
    <3>3. QED
      BY <3>1, <3>2
  <2>3. QED
    BY <1>2, <2>1, <2>2
<1>5. ASSUME NEW k \in Keys, Acknowledge(k) PROVE PrecedenceInv'
  <2>1. UNCHANGED <<core, queue, seen>>
    BY <1>5 DEF Acknowledge, coreVars
  <2>2. \A j \in Keys : Len(core[j]) \in Nat
    BY <1>0
  <2>3. QED
    BY <1>2, <2>1, <2>2
<1>6. CASE Publish
  <2> DEFINE new == queue.published + 1
  <2>1. /\ new \in 1..MaxMsgs /\ core' = core /\ queue' = [queue EXCEPT !.published = new]
        /\ seen' = [seen EXCEPT ![new] = Len(core[MsgKey[new]])]
    BY <1>0, <1>6 DEF Publish
  <2>2. new \notin 1..queue.published /\ queue.published <= new
    BY <1>0
  <2> HIDE DEF new
  <2>3. MsgKey[new] \in Keys /\ Len(core[MsgKey[new]]) \in Nat
    BY <1>0, <2>1
  <2>4. \A m \in 1..queue.published : seen'[m] = seen[m]
    BY <1>0, <2>1, <2>2
  <2>5. SeenInv'
    <3>1. seen' \in [1..MaxMsgs -> Nat]
      BY <1>0, <2>1, <2>3
    <3>2. ASSUME NEW m \in 1..MaxMsgs PROVE seen'[m] <= Len(core'[MsgKey[m]])
      BY <1>0, <2>1, <2>3
    <3>3. QED
      BY <3>1, <3>2 DEF SeenInv
  <2>6. queue'.inHand = queue.inHand /\ queue.published <= queue'.published
    BY <1>0, <2>1, <2>2
  <2>7. QED
    BY <1>1, <2>1, <2>4, <2>5, <2>6, EnvironmentKeep
<1>7. QED
  BY <1>3, <1>4, <1>5, <1>6 DEF Environment

\* What a fetch from the primary leaves unread: nothing, or the page is full.
LEMMA PageReach ==
    ASSUME CoreOK, NEW k \in Keys, NEW last \in Nat,
           NEW all, all = Survivors(k, last, Len(core[k])),
           NEW page, page = PageOf(all), Breaks(k, last, page) = {},
           NEW rows, rows = PageItems(k, page)
    PROVE  /\ page # all => Len(rows) = PageSize
           /\ page = all => \A n \in last + Len(rows) + 1 .. Len(core[k]) : core[k][n] = "gone"
           /\ page = {} => page = all /\ Len(rows) = 0
<1>0. Len(core[k]) \in Nat /\ Len(core[k]) \in 0..Len(core[k])
  BY DEF CoreOK
<1>1. /\ page \in SUBSET Nat /\ IsFiniteSet(page)
  BY <1>0, PageFacts
<1>2. all \subseteq last + 1..Len(core[k]) /\ IsFiniteSet(all) /\ all \in SUBSET Nat
  <2>1. all \subseteq last + 1..Len(core[k])
    BY DEF Survivors
  <2>2. last + 1 \in Int /\ Len(core[k]) \in Int
    BY <1>0
  <2>3. IsFiniteSet(all)
    BY <2>1, <2>2, FS_Interval, FS_Subset
  <2>4. QED
    BY <2>1, <2>3
<1>3. rows \in Seq(Items) /\ \A i \in 1..Len(rows) : rows[i] = [src |-> "core", n |-> last + i, status |-> "ok"]
  BY <1>0, PageRows
<1>4. Len(rows) = Cardinality(page) /\ Cardinality(page) \in Nat
  <2>1. Cardinality(page) \in Nat
    BY <1>1, FS_CardinalityType
  <2>2. DOMAIN rows = 1..Cardinality(page)
    BY DEF PageItems
  <2>3. QED
    BY <1>3, <2>1, <2>2
<1>5. page # all => Len(rows) = PageSize
  BY <1>2, <1>4, FullPage
<1>6. ASSUME page = all, NEW n \in last + Len(rows) + 1 .. Len(core[k]), core[k][n] # "gone"
      PROVE  FALSE
  <2>1. n \in page
    <3>1. n \in last + 1..Len(core[k])
      BY <1>0, <1>4
    <3>2. QED
      BY <1>6, <3>1 DEF Survivors
  <2>2. PICK i \in 1..Cardinality(page) : InOrder(page)[i] = n
    BY <1>1, <2>1, InOrderFacts
  <2>3. rows[i].n = n
    BY <2>2 DEF PageItems, CoreRow
  <2>4. rows[i].n = last + i /\ i \in 1..Len(rows)
    <3>1. i \in 1..Len(rows)
      BY <1>4
    <3>2. rows[i] = [src |-> "core", n |-> last + i, status |-> "ok"]
      BY <1>3, <3>1
    <3>3. QED
      BY <3>1, <3>2
  <2>5. QED
    BY <1>4, <2>3, <2>4
<1>7. ASSUME page = {} PROVE page = all /\ Len(rows) = 0
  <2>1. Cardinality(page) = 0
    BY <1>7, FS_EmptySet
  <2>2. PageSize # 0
    BY Consts
  <2>3. QED
    BY <1>4, <1>5, <2>1, <2>2
<1>8. QED
  BY <1>5, <1>6, <1>7

\* The chains that are drained first have those of the batch.
LEMMA ChainsFirstHas ==
    ASSUME NEW ms \in SUBSET (1..MaxMsgs), NEW m \in ms
    PROVE  MsgKey[m] \in ToSet(ChainsFirst(ms))
<1> DEFINE S == {Global} \cup {MsgKey[x] : x \in ms}
           I == {i \in 1..Len(Order) : Order[i] \in S}
           at == InOrder(I)
           chains == [i \in 1..Len(at) |-> Order[at[i]]]
<1>1. Order \in Seq(Keys) /\ Len(Order) \in Nat
  BY DrainConstants
<1>2. I \in SUBSET Nat /\ IsFiniteSet(I)
  <2>1. IsFiniteSet(1..Len(Order))
    BY <1>1, FS_Interval
  <2>2. I \subseteq 1..Len(Order)
    OBVIOUS
  <2> HIDE DEF I
  <2>3. IsFiniteSet(I)
    BY <2>1, <2>2, FS_Subset
  <2>4. QED
    BY <1>1, <2>2, <2>3
<1>3. PICK j \in I : Order[j] = MsgKey[m]
  <2>1. MsgKey[m] \in ToSet(Order)
    BY DrainConstants
  <2>2. PICK i \in DOMAIN Order : Order[i] = MsgKey[m]
    BY <2>1 DEF ToSet
  <2>3. i \in I
    BY <1>1, <2>2
  <2>4. QED
    BY <2>2, <2>3
<1> HIDE DEF I
<1>4. PICK i \in 1..Len(at) : at[i] = j
  BY <1>2, InOrderFacts
<1>5. ChainsFirst(ms) = chains
  BY DEF ChainsFirst, Ordered, I
<1> HIDE DEF at
<1>6. chains[i] = MsgKey[m] /\ i \in DOMAIN chains
  BY <1>3, <1>4
<1> HIDE DEF chains
<1>7. QED
  BY <1>5, <1>6 DEF ToSet

\* The rows of a batch are its messages, each on the chain that it names.
LEMMA QueueRowsOf ==
    ASSUME QueueOK, NEW k \in Keys, NEW i \in 1..Len(QueueRows[k])
    PROVE  QueueRows[k][i].n \in queue.inHand /\ MsgKey[QueueRows[k][i].n] = k
<1> DEFINE S == {m \in queue.inHand : MsgKey[m] = k}
           o == InOrder(S)
           r == [j \in 1..Len(o) |-> QueueRow(o[j])]
<1>1. QueueRows[k] = r
  BY DEF QueueRows
<1>2. S \in SUBSET Nat /\ IsFiniteSet(S)
  <2>1. S \subseteq 1..MaxMsgs /\ MaxMsgs \in Nat
    BY Consts DEF QueueOK
  <2>2. IsFiniteSet(1..MaxMsgs)
    BY <2>1, FS_Interval
  <2> HIDE DEF S
  <2>3. IsFiniteSet(S)
    BY <2>1, <2>2, FS_Subset
  <2>4. QED
    BY <2>1, <2>3
<1>3. /\ Cardinality(S) \in Nat /\ Len(o) = Cardinality(S) /\ \A j \in 1..Len(o) : o[j] \in S
  <2> HIDE DEF S
  <2>1. QED
    BY <1>2, InOrderFacts
<1>4. i \in 1..Len(o)
  <2>1. QueueRows[k] \in Seq(Items)
    BY QueueRowsFacts
  <2>2. r \in Seq(Items) /\ Len(r) \in Nat /\ DOMAIN r = 1..Len(r)
    BY <1>1, <2>1
  <2>3. DOMAIN r = 1..Len(o)
    OBVIOUS
  <2>4. QED
    BY <1>1, <2>2, <2>3
<1>5. QueueRows[k][i] = QueueRow(o[i])
  BY <1>1, <1>4
<1>6. o[i] \in S
  BY <1>3, <1>4
<1>7. QueueRow(o[i]).n = o[i]
  BY DEF QueueRow
<1> HIDE DEF o
<1>8. QED
  BY <1>5, <1>6, <1>7

\* write_batch only adds to what a transaction sees.
LEMMA WroteGrows ==
    ASSUME TypeOK, log' = log, NEW p \in Procs, NEW items \in [Keys -> Seq(Items)],
           WriteRows(p, items)
    PROVE  \A q \in Procs, k \in Keys : GoesOn(View(q, k)', View(q, k))
<1>1. /\ \A k \in Keys : log[k] \o pend'[p][k] = WriteBatch(View(p, k), items[k])
      /\ \A q \in Procs : q # p => pend'[q] = pend[q]
  BY WriteRowsFacts DEF TypeOK, Wrote
<1>2. ASSUME NEW q \in Procs, NEW k \in Keys PROVE GoesOn(View(q, k)', View(q, k))
  <2>1. View(q, k) \in Seq(Rows)
    BY ViewType
  <2>2. CASE q # p
    <3>1. View(q, k)' = View(q, k)
      BY <1>1, <2>2 DEF View
    <3>2. QED
      BY <2>1, <3>1, GoesOnSelf
  <2>3. CASE q = p
    <3>1. View(q, k)' = WriteBatch(View(q, k), items[k])
      BY <1>1, <2>3 DEF View
    <3>2. items[k] \in Seq(Items)
      OBVIOUS
    <3>3. QED
      BY <2>1, <3>1, <3>2, BatchFacts
  <2>4. QED
    BY <2>2, <2>3
<1>3. QED
  BY <1>2

\* A step of p that writes no row and commits nothing.
LEMMA LocalPrecedence ==
    ASSUME TypeOK, TypeOK', DrainInv, PrecedenceInv, Quiet, NEW p \in Procs, log' = log,
           UNCHANGED <<chainLock, pend>> \/ Drop(p), Moves(p),
           p # Consumer => queue'.inHand = queue.inHand,
           p = Consumer => CoveredInv' /\ PagesInv'
    PROVE  PrecedenceInv'
<1>1. SeenInv' /\ EventsInv'
  BY EventsKeep DEF PrecedenceInv, SeenInv, Quiet
<1>2. CASE p # Consumer
  <2>1. Consumer \in Procs
    BY Consts
  <2>2. \A k \in Keys : View(Consumer, k)' = View(Consumer, k)
    BY <1>2, <2>1, SequenceKeep DEF DrainInv
  <2>3. \A k \in Keys : GoesOn(View(Consumer, k)', View(Consumer, k))
    BY <2>1, <2>2, ViewType, GoesOnSelf
  <2>4. pc'[Consumer] = pc[Consumer] /\ todo'[Consumer] = todo[Consumer] /\ st'[Consumer] = st[Consumer]
    BY <1>2, <2>1 DEF Moves
  <2>5. CoveredInv' /\ PagesInv'
    BY <1>2, <2>3, <2>4, ConsumerKeep DEF PrecedenceInv
  <2>6. QED
    BY <1>1, <2>5 DEF PrecedenceInv
<1>3. QED
  BY <1>1, <1>2 DEF PrecedenceInv

\* A process that rolls back, or passes a chain over.
LEMMA RaisePrecedence ==
    ASSUME TypeOK, TypeOK', DrainInv, PrecedenceInv, NEW p \in Procs, UNCHANGED coreVars,
           \/ Reset(p)
           \/ pc[p] \in Draining /\ (RaiseRefusal(p) \/ RaiseError(p) \/ SqlError(p))
    PROVE  PrecedenceInv'
<1>0. /\ pc \in [Procs -> Draining \cup {"idle", "record", "commit", "ack"}]
      /\ todo \in [Procs -> Seq(Keys)] /\ st \in [Procs -> DrainState]
  BY DEF TypeOK, ProcOK
<1>1. log' = log /\ core' = core /\ seen' = seen
  BY DEF Reset, RaiseRefusal, RaiseError, SqlError, dbVars, coreVars
<1>2. UNCHANGED <<chainLock, pend>> \/ Drop(p)
  BY DEF Reset, RaiseRefusal, RaiseError, SqlError, Release, Abort, lockVars, txVars
<1>3. CASE GoIdle(p)
  <2>1. Moves(p) /\ pc'[p] = "idle"
    BY <1>0, <1>3 DEF GoIdle, Moves
  <2>2. queue'.published = queue.published /\ (p # Consumer => queue'.inHand = queue.inHand)
    <3>1. p # Consumer => p = Poller
      BY Consts
    <3>2. QED
      BY <1>3, <3>1 DEF GoIdle, TypeOK, QueueOK
  <2>3. p = Consumer => CoveredInv' /\ PagesInv'
    <3>1. "idle" \notin Draining \cup {"record"}
      BY DEF Draining
    <3>2. QED
      BY <2>1, <3>1, ConsumerRest
  <2>4. QED
    BY <1>1, <1>2, <2>1, <2>2, <2>3, LocalPrecedence DEF Quiet
<1>4. CASE p = Poller /\ NextChain(p) /\ queue' = queue
  <2>1. Moves(p) /\ p # Consumer
    BY <1>0, <1>4, Consts DEF NextChain, Moves
  <2>2. QED
    BY <1>1, <1>2, <1>4, <2>1, LocalPrecedence DEF Quiet
<1>5. QED
  BY <1>3, <1>4 DEF Reset, RaiseRefusal, RaiseError, SqlError

\* A process begins to drain: the consumer every chain that its batch names.
LEMMA BeginPrecedence ==
    ASSUME TypeOK, TypeOK', DrainInv, PrecedenceInv, ReadsAll,
           \/ Read \/ StartPass
           \/ \E ks \in ChainLists : \E h \in [Keys -> 0..Max({MaxRecs[k] : k \in Keys})] :
                 StartHinted(ks, h)
    PROVE  PrecedenceInv'
<1>0. /\ pc \in [Procs -> Draining \cup {"idle", "record", "commit", "ack"}]
      /\ todo \in [Procs -> Seq(Keys)] /\ Procs = {"poller", "consumer"}
      /\ Poller \in Procs /\ Consumer \in Procs /\ Poller # Consumer
      /\ queue \in [published : 0..MaxMsgs, delivered : 0..MaxMsgs,
                    acked : SUBSET (1..MaxMsgs), inHand : SUBSET (1..MaxMsgs)]
  BY Consts DEF TypeOK, ProcOK, QueueOK
<1>1. UNCHANGED <<log, chainLock, pend, st, core, seen>>
  BY DEF Read, StartPass, StartHinted, dbVars, lockVars, txVars, coreVars
<1>2. CASE Read
  <2> DEFINE got == queue.delivered + 1 .. Min({queue.published, queue.delivered + ReadCount})
             valid == got \ Poison
  <2>1. /\ queue' = [queue EXCEPT !.delivered = Max(got), !.acked = @ \cup (got \cap Poison),
                                  !.inHand = valid]
        /\ \/ valid = {} /\ UNCHANGED <<pc, todo>>
           \/ /\ pc' = [pc EXCEPT ![Consumer] = "get"]
              /\ todo' = [todo EXCEPT ![Consumer] = ChainsFirst(valid)]
        /\ pc[Consumer] = "idle"
    BY <1>2 DEF Read
  <2> HIDE DEF valid, got
  <2>2. queue'.published = queue.published /\ queue'.inHand = valid
    BY <1>0, <2>1
  <2>3. Moves(Consumer) /\ pc'[Consumer] \in {"get", "idle"}
    BY <1>0, <1>1, <2>1 DEF Moves
  <2>4. CASE pc'[Consumer] = "idle"
    <3>1. "idle" \notin Draining \cup {"record"}
      BY DEF Draining
    <3>2. CoveredInv' /\ PagesInv'
      BY <2>4, <3>1, ConsumerRest
    <3>3. QED
      BY <1>0, <1>1, <2>2, <2>3, <3>2, LocalPrecedence DEF Quiet
  <2>5. CASE pc'[Consumer] = "get"
    <3>1. todo'[Consumer] = ChainsFirst(valid)
      BY <1>0, <2>1, <2>5
    <3>2. ASSUME NEW m \in queue'.inHand, NEW k \in Keys, k = MsgKey[m] PROVE CoveredAt(m, k)'
      <4>1. valid \in SUBSET (1..MaxMsgs) /\ m \in valid
        BY <2>2 DEF TypeOK, QueueOK
      <4>2. k \in ToSet(todo'[Consumer])
        BY <3>1, <3>2, <4>1, ChainsFirstHas
      <4>3. pc'[Consumer] \notin {"record", "stage", "write"}
        BY <2>5
      <4>4. QED
        BY <4>2, <4>3, Zenon DEF CoveredAt
    <3>3. CoveredInv'
      BY <3>2, CoveredParts
    <3>4. PagesInv'
      <4>1. pc'[Consumer] \notin {"fetch", "write"}
        BY <2>5
      <4>2. QED
        BY <4>1, Zenon DEF PagesInv
    <3>5. QED
      BY <1>0, <1>1, <2>2, <2>3, <3>3, <3>4, LocalPrecedence DEF Quiet
  <2>6. QED
    BY <2>3, <2>4, <2>5
<1>3. CASE \/ StartPass
           \/ \E ks \in ChainLists : \E h \in [Keys -> 0..Max({MaxRecs[k] : k \in Keys})] :
                 StartHinted(ks, h)
  <2>1. Moves(Poller) /\ queue' = queue
    BY <1>0, <1>1, <1>3 DEF StartPass, StartHinted, Moves
  <2>2. QED
    BY <1>0, <1>1, <2>1, LocalPrecedence DEF Quiet
<1>4. QED
  BY <1>2, <1>3

\* A drain that stands somewhere has read all before.
LEMMA DrainReach ==
    ASSUME TypeOK, DrainInv, NEW p \in Procs, pc[p] \in {"fetch", "write", "stage"}, NEW k \in Keys,
           k = Head(todo[p])
    PROVE  /\ st[p].last \in Nat /\ AnchorSeq[k] <= st[p].last
           /\ AnchorSeq[k] + 1..st[p].last \subseteq CoreSeqs(View(p, k))
<1>1. st[p].last \in CoreSeqs(View(p, k)) \cup {AnchorSeq[k]}
  BY PositionParts DEF DrainInv, Positions
<1>2. InSequence(View(p, k), AnchorSeq[k]) /\ View(p, k) \in Seq(Rows) /\ AnchorSeq[k] \in Nat
  BY ViewType, Consts DEF DrainInv, SequenceInv
<1>3. QED
  BY <1>1, <1>2, SeqsBelow

\* The same after a step.
LEMMA DrainReachNext ==
    ASSUME TypeOK', DrainInv', NEW p \in Procs, pc'[p] \in {"fetch", "write", "stage"}, NEW k \in Keys,
           k = Head(todo'[p])
    PROVE  /\ st'[p].last \in Nat /\ AnchorSeq[k] <= st'[p].last
           /\ AnchorSeq[k] + 1..st'[p].last \subseteq CoreSeqs(View(p, k)')
<1>1. st'[p].last \in CoreSeqs(View(p, k)') \cup {AnchorSeq[k]}
  BY DEF DrainInv, PositionInv, View
<1>2. InSequence(View(p, k)', AnchorSeq[k]) /\ View(p, k)' \in Seq(Rows) /\ AnchorSeq[k] \in Nat
  <2>1. log'[k] \in Seq(Rows) /\ pend'[p][k] \in Seq(Rows)
    BY DEF TypeOK, DbOK, TxOK
  <2>2. QED
    BY <2>1, Consts DEF DrainInv, SequenceInv, View
<1>3. QED
  BY <1>1, <1>2, SeqsBelow

\* A drain begins at the first page.
LEMMA GetCursorPrecedence ==
    ASSUME TypeOK, TypeOK', DrainInv, DrainInv', PrecedenceInv, NoHalt, NEW p \in Procs, GetCursor(p)
    PROVE  PrecedenceInv'
<1>0. /\ pc \in [Procs -> Draining \cup {"idle", "record", "commit", "ack"}]
      /\ todo \in [Procs -> Seq(Keys)] /\ st \in [Procs -> DrainState]
      /\ pc[p] = "get" /\ pc[p] \in Draining /\ Head(todo[p]) \in Keys /\ UNCHANGED coreVars
  BY DEF TypeOK, ProcOK, GetCursor, Draining
<1>1. CASE SqlError(p)
  BY <1>0, <1>1, RaisePrecedence
<1>2. CASE /\ pc' = [pc EXCEPT ![p] = "fetch"]
           /\ st' = [st EXCEPT ![p] = [NoDrain EXCEPT !.last = Position(p, Head(todo[p]))]]
           /\ UNCHANGED <<dbVars, lockVars, txVars, todo, hint, hinted, queue>>
  <2>1. /\ UNCHANGED <<log, chainLock, pend, queue, todo>> /\ Quiet
        /\ Moves(p) /\ pc'[p] = "fetch" /\ st'[p].pages = 0
    BY <1>0, <1>2 DEF dbVars, lockVars, txVars, coreVars, Quiet, Moves, NoDrain
  <2>2. ASSUME p = Consumer PROVE CoveredInv' /\ PagesInv'
    <3>1. \A k \in Keys : View(Consumer, k)' = View(Consumer, k)
      BY <2>1 DEF View
    <3>2. ASSUME NEW m \in queue'.inHand, NEW k \in Keys, k = MsgKey[m] PROVE CoveredAt(m, k)'
      <4>1. CoveredAt(m, k)
        BY <2>1, <3>2, CoveredParts DEF PrecedenceInv
      <4>2. Covered(m, k) \/ k \in ToSet(todo[Consumer])
        BY <1>0, <2>2, <4>1 DEF CoveredAt
      <4>3. Covered(m, k) => Covered(m, k)'
        BY <2>1, <3>1 DEF Covered, Quiet
      <4>4. pc'[Consumer] \notin {"record", "stage", "write"}
        BY <2>1, <2>2
      <4>5. QED
        BY <2>1, <4>2, <4>3, <4>4, Zenon DEF CoveredAt
    <3>3. PagesInv'
      <4>1. PICK k \in Keys : k = Head(todo[p])
        BY <1>0
      <4>2. AnchorSeq[k] <= st'[p].last /\ AnchorSeq[k] \in Nat /\ 0 < MaxPages /\ PageSize * 0 = 0
        BY <2>1, <4>1, DrainReachNext, Consts
      <4>3. pc'[Consumer] # "write"
        BY <2>1, <2>2
      <4>4. st'[Consumer].pages = 0 /\ Head(todo'[Consumer]) = k
        BY <2>1, <2>2, <4>1
      <4>5. AnchorSeq[Head(todo'[Consumer])] + PageSize * st'[Consumer].pages <= st'[Consumer].last
        BY <2>2, <4>2, <4>4
      <4>6. QED
        BY <4>2, <4>3, <4>4, <4>5 DEF PagesInv
    <3>4. QED
      BY <3>2, <3>3, CoveredParts
  <2>3. QED
    BY <2>1, <2>2, LocalPrecedence
<1>3. QED
  BY <1>0, <1>1, <1>2 DEF GetCursor, NoHalt

\* A page is fetched: the last one leaves nothing unread, any other is full.
LEMMA FetchPrecedence ==
    ASSUME TypeOK, TypeOK', DrainInv, DrainInv', PrecedenceInv, ReadsAll, NEW p \in Procs, Fetch(p)
    PROVE  PrecedenceInv'
<1>0. /\ CoreOK /\ pc \in [Procs -> Draining \cup {"idle", "record", "commit", "ack"}]
      /\ st \in [Procs -> DrainState] /\ pc[p] = "fetch" /\ pc[p] \in Draining
      /\ Head(todo[p]) \in Keys /\ st[p] \in DrainState /\ UNCHANGED coreVars
  BY DEF TypeOK, ProcOK, Fetch, Draining
<1>1. PICK k \in Keys : k = Head(todo[p])
  BY <1>0
<1> DEFINE last == st[p].last
           all == Survivors(k, last, Len(core[k]))
           page == PageOf(all)
           rows == PageItems(k, page)
           more == page # all
<1>2. \/ /\ pc' = [pc EXCEPT ![p] = "halt"]
         /\ st' = [st EXCEPT ![p].brk = Min(Breaks(k, last, page))]
         /\ UNCHANGED <<dbVars, lockVars, txVars, todo, hint, hinted, queue>>
      \/ RaiseRefusal(p)
      \/ /\ Breaks(k, last, page) = {}
         /\ pc' = [pc EXCEPT ![p] = IF page = {} THEN "stage" ELSE "write"]
         /\ st' = [st EXCEPT ![p].page = rows, ![p].more = more]
         /\ UNCHANGED <<dbVars, lockVars, txVars, todo, hint, hinted, queue>>
  BY <1>1 DEF Fetch, PageItems, ReadsAll
<1>3. CASE RaiseRefusal(p)
  BY <1>0, <1>3, RaisePrecedence
<1>4. ASSUME UNCHANGED <<dbVars, lockVars, txVars, todo, hint, hinted, queue>>
      PROVE  /\ UNCHANGED <<log, chainLock, pend, queue, todo>> /\ Quiet
             /\ \A j \in Keys : View(Consumer, j)' = View(Consumer, j)
  BY <1>0, <1>4 DEF dbVars, lockVars, txVars, coreVars, Quiet, View
<1>5. ASSUME p = Consumer, UNCHANGED <<dbVars, lockVars, txVars, todo, hint, hinted, queue>>,
             NEW m \in queue'.inHand, NEW j \in Keys, j = MsgKey[m]
      PROVE  (Covered(m, j)' \/ j \in ToSet(todo'[Consumer])) /\ m \in queue.inHand
  <2>1. CoveredAt(m, j) /\ UNCHANGED <<todo, queue>> /\ Quiet
        /\ View(Consumer, j)' = View(Consumer, j)
    BY <1>4, <1>5, CoveredParts DEF PrecedenceInv
  <2>2. Covered(m, j) \/ j \in ToSet(todo[Consumer])
    BY <1>0, <1>5, <2>1 DEF CoveredAt
  <2>3. QED
    BY <1>5, <2>1, <2>2 DEF Covered, Quiet
<1>6. CASE /\ pc' = [pc EXCEPT ![p] = "halt"]
           /\ st' = [st EXCEPT ![p].brk = Min(Breaks(k, last, page))]
           /\ UNCHANGED <<dbVars, lockVars, txVars, todo, hint, hinted, queue>>
  <2> HIDE DEF page
  <2>1. /\ UNCHANGED <<log, chainLock, pend, queue, todo>> /\ Quiet
        /\ Moves(p) /\ pc'[p] = "halt"
    BY <1>0, <1>4, <1>6 DEF Moves
  <2>2. ASSUME p = Consumer PROVE CoveredInv' /\ PagesInv'
    <3>1. pc'[Consumer] \notin {"record", "stage", "write", "fetch"}
      BY <2>1, <2>2
    <3>2. ASSUME NEW m \in queue'.inHand, NEW j \in Keys, j = MsgKey[m] PROVE CoveredAt(m, j)'
      BY <1>5, <1>6, <2>2, <3>1, <3>2, Zenon DEF CoveredAt
    <3>3. PagesInv'
      BY <3>1, Zenon DEF PagesInv
    <3>4. QED
      BY <3>2, <3>3, CoveredParts
  <2>3. QED
    BY <2>1, <2>2, LocalPrecedence
<1>7. CASE /\ Breaks(k, last, page) = {}
           /\ pc' = [pc EXCEPT ![p] = IF page = {} THEN "stage" ELSE "write"]
           /\ st' = [st EXCEPT ![p].page = rows, ![p].more = more]
           /\ UNCHANGED <<dbVars, lockVars, txVars, todo, hint, hinted, queue>>
  <2>0. last \in Nat /\ st[p].pages \in Nat
    BY <1>0 DEF DrainState
  <2>1. /\ page # all => Len(rows) = PageSize
        /\ page = all => \A n \in last + Len(rows) + 1 .. Len(core[k]) : core[k][n] = "gone"
        /\ page = {} => page = all /\ Len(rows) = 0
    <3>1. all = Survivors(k, last, Len(core[k])) /\ page = PageOf(all) /\ rows = PageItems(k, page)
      OBVIOUS
    <3>2. Breaks(k, last, page) = {}
      BY <1>7
    <3> HIDE DEF all, page, rows, last
    <3>3. QED
      BY <1>0, <2>0, <3>1, <3>2, PageReach
  <2>2. /\ UNCHANGED <<log, chainLock, pend, queue, todo>> /\ Quiet
        /\ \A j \in Keys : View(Consumer, j)' = View(Consumer, j)
    BY <1>4, <1>7
  <2> DEFINE d == [st[p] EXCEPT !.page = rows, !.more = more]
  <2>3. st' = [st EXCEPT ![p] = d]
    BY <1>0, <1>7
  <2>4. \/ pc' = [pc EXCEPT ![p] = "stage"] /\ page = {}
        \/ pc' = [pc EXCEPT ![p] = "write"]
    BY <1>7
  <2> HIDE DEF rows, more, page
  <2>5. d.last = last /\ d.pages = st[p].pages /\ d.page = rows /\ d.more = more
    BY <1>0 DEF DrainState
  <2> HIDE DEF d
  <2>6. Moves(p) /\ st'[p] = d /\ ((pc'[p] = "stage" /\ page = {}) \/ pc'[p] = "write")
    BY <1>0, <2>2, <2>3, <2>4 DEF Moves
  <2>7. ASSUME p = Consumer PROVE CoveredInv' /\ PagesInv'
    <3>1. ASSUME NEW m \in queue'.inHand, NEW j \in Keys, j = MsgKey[m] PROVE CoveredAt(m, j)'
      <4>0. (Covered(m, j)' \/ j \in ToSet(todo'[Consumer])) /\ m \in queue.inHand
        BY <1>5, <1>7, <2>7, <3>1
      <4>1. seen[m] \in Nat /\ seen[m] <= Len(core[j]) /\ Len(core[j]) \in Nat
        <5>1. m \in 1..MaxMsgs
          BY <4>0 DEF TypeOK, QueueOK
        <5>2. QED
          BY <3>1, <5>1 DEF PrecedenceInv, SeenInv, TypeOK, CoreOK
      <4>2. ASSUME page = all, j = k
            PROVE  \A n \in last + Len(rows) + 1 .. seen[m] : core[j][n] = "gone"
        <5>1. \A n \in last + Len(rows) + 1 .. Len(core[k]) : core[k][n] = "gone"
          BY <2>1, <4>2
        <5>2. Len(rows) \in Nat
          <6>1. st'[p].page \in Seq(Items)
            BY DEF TypeOK, ProcOK, DrainState
          <6>2. QED
            BY <2>5, <2>6, <6>1
        <5>3. ASSUME NEW n \in last + Len(rows) + 1 .. seen[m] PROVE n \in last + Len(rows) + 1 .. Len(core[k])
          BY <2>0, <4>1, <4>2, <5>2
        <5>4. QED
          BY <4>2, <5>1, <5>3
      <4>3. ASSUME page = {}, j = k PROVE Covered(m, j)'
        <5>1. AnchorSeq[k] \in Nat /\ AnchorSeq[k] + 1..last \subseteq CoreSeqs(View(Consumer, k))
          BY <1>0, <1>1, <2>7, DrainReach, Consts
        <5>2. Len(rows) = 0 /\ page = all
          BY <2>1, <4>3
        <5>3. \A n \in last + 1 .. seen[m] : core[j][n] = "gone"
          <6>1. last + Len(rows) + 1 = last + 1
            BY <2>0, <5>2
          <6>2. QED
            BY <4>2, <4>3, <5>2, <6>1
        <5>4. ASSUME NEW n \in AnchorSeq[k] + 1..seen[m]
              PROVE  core[j][n] = "gone" \/ n \in CoreSeqs(View(Consumer, k))
          <6>1. n \in AnchorSeq[k] + 1..last \/ n \in last + 1..seen[m]
            BY <2>0, <4>1, <5>1
          <6>2. QED
            BY <5>1, <5>3, <6>1
        <5>5. Covered(m, j)
          BY <4>3, <5>4 DEF Covered, Covers
        <5>6. QED
          BY <2>2, <5>5 DEF Covered, Quiet
      <4>4. pc'[Consumer] # "record"
        BY <2>6, <2>7
      <4>5. pc'[Consumer] = "stage" /\ j = Head(todo'[Consumer]) => Covered(m, j)'
        BY <1>1, <2>2, <2>6, <2>7, <4>3
      <4>6. pc'[Consumer] = "write" /\ j = Head(todo'[Consumer]) /\ ~st'[Consumer].more =>
               \A n \in st'[Consumer].last + Len(st'[Consumer].page) + 1 .. seen'[m] :
                  core'[j][n] = "gone"
        <5>1. seen' = seen /\ core' = core /\ todo' = todo
          BY <2>2 DEF Quiet
        <5>2. st'[Consumer].last = last /\ st'[Consumer].page = rows /\ st'[Consumer].more = more
          BY <2>5, <2>6, <2>7
        <5>3. ~more => page = all
          BY DEF more
        <5>4. k = Head(todo[Consumer])
          BY <1>1, <2>7
        <5> HIDE DEF last, all
        <5>5. QED
          BY <4>2, <5>1, <5>2, <5>3, <5>4
      <4>7. QED
        BY <4>0, <4>4, <4>5, <4>6, Zenon DEF CoveredAt
    <3>2. PagesInv'
      <4>1. st[p].pages < MaxPages /\ AnchorSeq[Head(todo[p])] + PageSize * st[p].pages <= st[p].last
        BY <1>0, <2>7 DEF PrecedenceInv, PagesInv
      <4>2. /\ st'[Consumer].last = st[p].last /\ st'[Consumer].pages = st[p].pages
            /\ st'[Consumer].page = rows /\ st'[Consumer].more = more /\ todo' = todo
        BY <2>2, <2>5, <2>6, <2>7
      <4>3. more => Len(rows) = PageSize
        BY <2>1 DEF more
      <4>4. QED
        BY <2>7, <4>1, <4>2, <4>3, Zenon DEF PagesInv
    <3>3. QED
      BY <3>1, <3>2, CoveredParts
  <2>8. QED
    BY <2>2, <2>6, <2>7, LocalPrecedence
<1>8. QED
  BY <1>2, <1>3, <1>6, <1>7

\* A break is alarmed, or the alarm is lost: nothing is recorded.
LEMMA HaltPrecedence ==
    ASSUME TypeOK, TypeOK', DrainInv, PrecedenceInv, NEW p \in Procs,
           PersistHalt(p) \/ LoseHalt(p) \/ RaiseBreak(p)
    PROVE  PrecedenceInv'
<1>0. pc \in [Procs -> Draining \cup {"idle", "record", "commit", "ack"}]
  BY DEF TypeOK, ProcOK
<1>1. CASE RaiseBreak(p)
  <2>1. pc[p] \in Draining /\ UNCHANGED coreVars
    BY <1>1 DEF RaiseBreak, Draining
  <2>2. QED
    BY <1>1, <2>1, RaisePrecedence DEF RaiseBreak
<1>2. CASE PersistHalt(p) \/ LoseHalt(p)
  <2>1. /\ UNCHANGED <<log, chainLock, pend, queue, todo, st, core, seen>>
        /\ pc' = [pc EXCEPT ![p] = "raise"] /\ pc[p] = "halt"
    BY <1>2 DEF PersistHalt, LoseHalt, dbVars, lockVars, txVars, coreVars
  <2>2. Moves(p) /\ pc'[p] = "raise" /\ Quiet
    BY <1>0, <2>1 DEF Moves, Quiet
  <2>3. ASSUME p = Consumer PROVE CoveredInv' /\ PagesInv'
    <3>1. pc'[Consumer] \notin {"record", "stage", "write", "fetch"}
      BY <2>2, <2>3
    <3>2. ASSUME NEW m \in queue'.inHand, NEW j \in Keys, j = MsgKey[m] PROVE CoveredAt(m, j)'
      <4>1. CoveredAt(m, j)
        BY <2>1, <3>2, CoveredParts DEF PrecedenceInv
      <4>2. Covered(m, j) \/ j \in ToSet(todo[Consumer])
        BY <2>1, <2>3, <4>1 DEF CoveredAt, Draining
      <4>3. Covered(m, j)' <=> Covered(m, j)
        BY <2>1 DEF Covered, View
      <4>4. QED
        BY <2>1, <3>1, <4>2, <4>3, Zenon DEF CoveredAt
    <3>3. PagesInv'
      BY <3>1, Zenon DEF PagesInv
    <3>4. QED
      BY <3>2, <3>3, CoveredParts
  <2>4. QED
    BY <2>1, <2>2, <2>3, LocalPrecedence
<1>3. QED
  BY <1>1, <1>2

\* After a write that is not the consumer's, or not its last, the rest is as before.
LEMMA WritePrecedence ==
    ASSUME TypeOK, TypeOK', PrecedenceInv, Quiet, log' = log, NEW p \in Procs,
           NEW items \in [Keys -> Seq(Items)], WriteRows(p, items), Moves(p),
           \A k \in Keys : \A i \in 1..Len(items[k]) :
               EventOK(k, core[k], View(p, k), seen, queue.published, items[k][i]),
           p # Consumer => queue'.inHand = queue.inHand,
           p = Consumer => CoveredInv' /\ PagesInv'
    PROVE  PrecedenceInv'
<1>1. SeenInv' /\ EventsInv'
  BY EventsWrite DEF PrecedenceInv, SeenInv, Quiet
<1>2. CASE p # Consumer
  <2>1. Consumer \in Procs
    BY Consts
  <2>2. \A k \in Keys : GoesOn(View(Consumer, k)', View(Consumer, k))
    BY <2>1, WroteGrows
  <2>3. pc'[Consumer] = pc[Consumer] /\ todo'[Consumer] = todo[Consumer] /\ st'[Consumer] = st[Consumer]
    BY <1>2, <2>1 DEF Moves
  <2>4. CoveredInv' /\ PagesInv'
    BY <1>2, <2>2, <2>3, ConsumerKeep DEF PrecedenceInv
  <2>5. QED
    BY <1>1, <2>4 DEF PrecedenceInv
<1>3. QED
  BY <1>1, <1>2 DEF PrecedenceInv

\* One more full page is that much further.
LEMMA OneMorePage ==
    ASSUME NEW a \in Nat, NEW s \in Nat, NEW n \in Nat, NEW l \in Nat, a + s * n <= l
    PROVE  a + s * (n + 1) <= l + s
<1>1. s * (n + 1) = s * n + s /\ s * n \in Nat
  OBVIOUS
<1>2. QED
  BY <1>1

\* A page is written: after the last one the consumer has all that it must have.
LEMMA WritePagePrecedence ==
    ASSUME TypeOK, TypeOK', DrainInv, DrainInv', PrecedenceInv, ReadsAll, NEW p \in Procs,
           WritePage(p)
    PROVE  PrecedenceInv'
<1>0. /\ ProcOK /\ pc \in [Procs -> Draining \cup {"idle", "record", "commit", "ack"}]
      /\ st \in [Procs -> DrainState] /\ pc[p] = "write" /\ pc[p] \in Draining
      /\ Head(todo[p]) \in Keys /\ UNCHANGED coreVars
  BY DEF TypeOK, ProcOK, WritePage, Draining
<1>a. st[p].page \in Seq(Items) /\ st[p].page # <<>> /\ st[p] \in DrainState
      /\ st[p].last \in Nat /\ st[p].pages \in Nat
  BY <1>0 DEF ProcOK, DrainState
<1>1. CASE SqlError(p)
  BY <1>0, <1>1, RaisePrecedence
<1>2. PICK k \in Keys : k = Head(todo[p])
  BY <1>0
<1> DEFINE page == st[p].page
           items == [NoRows EXCEPT ![k] = page]
           l == Last(page).n
           at == IF st[p].more /\ st[p].pages + 1 < MaxPages THEN "fetch" ELSE "stage"
<1>3. CASE /\ WriteRows(p, items)
           /\ st' = [st EXCEPT ![p].last = l, ![p].pages = @ + 1]
           /\ pc' = [pc EXCEPT ![p] = at]
           /\ UNCHANGED <<dbVars, rowLock, staged, failed, todo, hint, hinted, queue>>
  <2>1. /\ UNCHANGED <<log, queue, todo>> /\ Quiet /\ Moves(p)
        /\ pc'[p] = at /\ st'[p].last = l /\ st'[p].pages = st[p].pages + 1
    <3>1. UNCHANGED <<log, queue, todo>> /\ Quiet
      BY <1>0, <1>3 DEF dbVars, coreVars, Quiet
    <3>2. Moves(p) /\ pc'[p] = at
      BY <1>0, <1>3 DEF Moves
    <3>3. st'[p].last = l /\ st'[p].pages = st[p].pages + 1
      BY <1>0, <1>3, <1>a DEF DrainState
    <3>4. QED
      BY <3>1, <3>2, <3>3
  <2>2. /\ items \in [Keys -> Seq(Items)] /\ items[k] = page
        /\ \A j \in Keys : j # k => items[j] = <<>>
    BY <1>0, <1>2, PageItemsType
  <2> HIDE DEF items, l
  <2>3. \A i \in 1..Len(page) : page[i] = [src |-> "core", n |-> st[p].last + i, status |-> "ok"]
    BY <1>0, PositionParts DEF DrainInv, Positions
  <2>4. ASSUME NEW j \in Keys, NEW i \in 1..Len(items[j])
        PROVE  EventOK(j, core[j], View(p, j), seen, queue.published, items[j][i])
    <3>1. j = k
      BY <2>2, <2>4, EmptySeq
    <3>2. items[j][i].src = "core"
      <4>1. i \in 1..Len(page) /\ items[j][i] = page[i]
        BY <2>2, <2>4, <3>1
      <4> HIDE DEF page
      <4>2. page[i] = [src |-> "core", n |-> st[p].last + i, status |-> "ok"]
        BY <2>3, <4>1
      <4>3. QED
        BY <4>1, <4>2
    <3>3. QED
      BY <3>2 DEF EventOK
  <2>5. l = st[p].last + Len(page) /\ Len(page) \in Nat
    <3>1. Len(page) \in 1..Len(page) /\ Len(page) \in Nat
      BY <1>a, EmptySeq
    <3>2. l = page[Len(page)].n
      BY DEF Last, l
    <3>3. page[Len(page)].n = st[p].last + Len(page)
      <4> DEFINE n == Len(page)
      <4>1. n \in 1..Len(page)
        BY <3>1
      <4> HIDE DEF n, page
      <4>2. page[n] = [src |-> "core", n |-> st[p].last + n, status |-> "ok"]
        BY <2>3, <4>1
      <4>3. page[n].n = st[p].last + n
        BY <4>2
      <4>4. QED
        BY <4>3 DEF n
    <3>4. QED
      BY <3>1, <3>2, <3>3
  <2>6. ASSUME p = Consumer PROVE CoveredInv' /\ PagesInv'
    <3>0. /\ st[p].pages < MaxPages /\ AnchorSeq[k] + PageSize * st[p].pages <= st[p].last
          /\ st[p].more => Len(page) = PageSize
      BY <1>0, <1>2, <2>6 DEF PrecedenceInv, PagesInv
    <3>a. MaxPages \in Nat /\ PageSize \in Nat /\ AnchorSeq[k] \in Nat /\ MaxRecs[k] \in Nat
      BY Consts
    <3>1. ASSUME st[p].more PROVE AnchorSeq[k] + PageSize * (st[p].pages + 1) <= l
      <4>1. AnchorSeq[k] + PageSize * (st[p].pages + 1) <= st[p].last + PageSize
        BY <1>a, <3>0, <3>a, OneMorePage
      <4>2. QED
        BY <2>5, <3>0, <3>1, <4>1
    <3>2. ASSUME NEW m \in queue'.inHand, NEW j \in Keys, j = MsgKey[m] PROVE CoveredAt(m, j)'
      <4>1. CoveredAt(m, j) /\ m \in queue.inHand
        BY <2>1, <3>2, CoveredParts DEF PrecedenceInv
      <4>2. Covered(m, j) => Covered(m, j)'
        <5>1. GoesOn(View(Consumer, j)', View(Consumer, j))
          BY <1>3, <2>1, <2>2, <2>6, WroteGrows
        <5>2. QED
          BY <2>1, <5>1, CoveredMore
      <4>3. Covered(m, j)' \/ j \in ToSet(todo'[Consumer])
        BY <1>0, <2>1, <2>6, <4>1, <4>2 DEF CoveredAt
      <4>4. pc'[Consumer] # "record" /\ pc'[Consumer] # "write"
        BY <2>1, <2>6
      <4>5. ASSUME pc'[Consumer] = "stage", j = Head(todo'[Consumer]) PROVE Covered(m, j)'
        <5>1. j = k
          BY <1>2, <2>1, <2>6, <4>5
        <5>2. AnchorSeq[k] + 1..l \subseteq CoreSeqs(View(Consumer, k)') /\ l \in Nat
          BY <2>1, <2>6, <4>5, <5>1, DrainReachNext
        <5>3. seen[m] \in Nat /\ seen[m] <= Len(core[k]) /\ Len(core[k]) \in Nat
              /\ Len(core[k]) <= MaxRecs[k]
          <6>1. m \in 1..MaxMsgs
            BY <4>1 DEF TypeOK, QueueOK
          <6>2. seen[m] \in Nat /\ seen[m] <= Len(core[MsgKey[m]])
            BY <6>1 DEF PrecedenceInv, SeenInv
          <6>3. Len(core[k]) \in Nat /\ Len(core[k]) <= MaxRecs[k]
            BY DEF TypeOK, CoreOK
          <6>4. QED
            BY <3>2, <5>1, <6>2, <6>3
        <5>4. \A n \in l + 1..seen[m] : core[k][n] = "gone"
          <6>1. CASE st[p].more
            <7>1. st[p].pages + 1 = MaxPages
              <8>1. ~(st[p].pages + 1 < MaxPages)
                BY <2>1, <2>6, <4>5, <6>1
              <8>2. st[p].pages < MaxPages /\ st[p].pages \in Nat /\ MaxPages \in Nat
                BY <1>a, <3>0, <3>a
              <8>3. QED
                BY <8>1, <8>2
            <7>2. AnchorSeq[k] + PageSize * MaxPages <= l
              BY <3>1, <6>1, <7>1
            <7>3. MaxRecs[k] <= AnchorSeq[k] + PageSize * MaxPages
              BY DEF ReadsAll
            <7>4. PICK b \in Nat : b = PageSize * MaxPages
              BY <3>a
            <7>5. seen[m] <= l
              BY <3>a, <5>2, <5>3, <7>2, <7>3, <7>4
            <7>6. QED
              BY <5>2, <5>3, <7>5
          <6>2. CASE ~st[p].more
            BY <1>0, <1>2, <2>5, <2>6, <4>1, <5>1, <6>2 DEF CoveredAt
          <6>3. QED
            BY <6>1, <6>2
        <5>5. ASSUME NEW n \in AnchorSeq[k] + 1..seen[m]
              PROVE  core[k][n] = "gone" \/ n \in CoreSeqs(View(Consumer, k)')
          <6>1. n \in AnchorSeq[k] + 1..l \/ n \in l + 1..seen[m]
            BY <3>a, <5>2, <5>3
          <6>2. QED
            BY <5>2, <5>4, <6>1
        <5>6. Covers(k, core[k], View(Consumer, k)', seen[m])
          BY <5>5 DEF Covers
        <5>7. QED
          BY <2>1, <5>1, <5>6 DEF Covered, Quiet
      <4>6. QED
        BY <4>3, <4>4, <4>5, Zenon DEF CoveredAt
    <3>3. PagesInv'
      <4>1. pc'[Consumer] # "write"
        BY <2>1, <2>6
      <4>2. ASSUME pc'[Consumer] = "fetch"
            PROVE  /\ st'[Consumer].pages < MaxPages
                   /\ AnchorSeq[Head(todo'[Consumer])] + PageSize * st'[Consumer].pages
                         <= st'[Consumer].last
        <5>1. st[p].more /\ st[p].pages + 1 < MaxPages
          BY <2>1, <2>6, <4>2
        <5>2. AnchorSeq[k] + PageSize * (st[p].pages + 1) <= l
          BY <3>1, <5>1
        <5>3. st'[Consumer].pages = st[p].pages + 1 /\ st'[Consumer].last = l /\ Head(todo'[Consumer]) = k
          BY <1>2, <2>1, <2>6
        <5>4. QED
          BY <5>1, <5>2, <5>3
      <4>3. QED
        BY <4>1, <4>2 DEF PagesInv
    <3>4. QED
      BY <3>2, <3>3, CoveredParts
  <2>7. QED
    BY <1>3, <2>1, <2>2, <2>4, <2>6, WritePrecedence
<1>4. QED
  BY <1>1, <1>2, <1>3 DEF WritePage

\* A chain that has been read to its end is done with.
LEMMA StageCursorPrecedence ==
    ASSUME TypeOK, TypeOK', DrainInv, PrecedenceInv, NEW p \in Procs, StageCursor(p)
    PROVE  PrecedenceInv'
<1>0. /\ pc \in [Procs -> Draining \cup {"idle", "record", "commit", "ack"}]
      /\ todo \in [Procs -> Seq(Keys)] /\ st \in [Procs -> DrainState]
      /\ pc[p] = "stage" /\ pc[p] \in Draining /\ todo[p] # <<>> /\ todo[p] \in Seq(Keys)
  BY DEF TypeOK, ProcOK, StageCursor, Draining
<1>1. /\ UNCHANGED <<log, chainLock, pend, queue, core, seen>> /\ NextChain(p)
  BY DEF StageCursor, dbVars, coreVars
<1>2. Moves(p) /\ Quiet
  BY <1>0, <1>1 DEF NextChain, Moves, Quiet
<1>3. ASSUME p = Consumer PROVE CoveredInv' /\ PagesInv'
  <2>1. /\ todo'[p] = Tail(todo[p])
        /\ pc'[p] = IF Len(todo[p]) = 1 THEN "record" ELSE "get"
    BY <1>0, <1>1, <1>3, Consts DEF NextChain, AfterDrains
  <2>2. /\ \A k \in ToSet(todo[p]) : k = Head(todo[p]) \/ k \in ToSet(Tail(todo[p]))
        /\ Len(todo[p]) = 1 => ToSet(Tail(todo[p])) = {}
    <3>1. PICK s \in Seq(Keys) : s = todo[p] /\ s # <<>>
      BY <1>0
    <3>2. ASSUME NEW i \in DOMAIN s, i # 1 PROVE i - 1 \in DOMAIN Tail(s) /\ Tail(s)[i - 1] = s[i]
      <4>1. Len(s) \in Nat /\ i \in 1..Len(s) /\ Len(Tail(s)) = Len(s) - 1 /\ Tail(s) \in Seq(Keys)
        BY <3>1
      <4>2. i - 1 \in 1..Len(Tail(s))
        BY <3>2, <4>1
      <4>3. Tail(s)[i - 1] = s[i - 1 + 1]
        BY <3>1, <4>1, <4>2
      <4>4. QED
        BY <4>1, <4>2, <4>3
    <3>3. ASSUME NEW k \in ToSet(s) PROVE k = Head(s) \/ k \in ToSet(Tail(s))
      <4>1. PICK i \in DOMAIN s : s[i] = k
        BY DEF ToSet
      <4>2. CASE i = 1
        BY <4>1, <4>2
      <4>3. CASE i # 1
        BY <3>2, <4>1, <4>3 DEF ToSet
      <4>4. QED
        BY <4>2, <4>3
    <3>4. ASSUME Len(s) = 1 PROVE ToSet(Tail(s)) = {}
      <4>1. DOMAIN Tail(s) = {}
        <5>0. Tail(s) \in Seq(Keys) /\ Len(Tail(s)) = Len(s) - 1
          BY <3>1
        <5>1. PICK t \in Seq(Keys) : t = Tail(s) /\ Len(t) = Len(s) - 1
          BY <5>0, Zenon
        <5>2. Len(t) = 0
          BY <3>4, <5>1
        <5>3. t = <<>>
          BY <5>2
        <5>4. QED
          BY <5>1, <5>3
      <4>2. QED
        BY <4>1 DEF ToSet
    <3>5. QED
      BY <3>1, <3>3, <3>4
  <2>3. ASSUME NEW m \in queue'.inHand, NEW k \in Keys, k = MsgKey[m] PROVE CoveredAt(m, k)'
    <3>1. CoveredAt(m, k)
      BY <1>1, <2>3, CoveredParts DEF PrecedenceInv
    <3>2. Covered(m, k) \/ k \in ToSet(Tail(todo[p]))
      BY <1>0, <1>3, <2>2, <3>1 DEF CoveredAt
    <3>3. Covered(m, k)' <=> Covered(m, k)
      BY <1>1 DEF Covered, View
    <3>4. pc'[Consumer] = "record" => Covered(m, k)'
      BY <1>3, <2>1, <2>2, <3>2, <3>3
    <3>5. pc'[Consumer] \notin {"stage", "write"}
      BY <1>3, <2>1
    <3>6. Covered(m, k)' \/ k \in ToSet(todo'[Consumer])
      BY <1>3, <2>1, <3>2, <3>3
    <3>7. QED
      BY <3>4, <3>5, <3>6, Zenon DEF CoveredAt
  <2>4. PagesInv'
    <3>1. pc'[Consumer] \notin {"fetch", "write"}
      BY <1>3, <2>1
    <3>2. QED
      BY <3>1, Zenon DEF PagesInv
  <2>5. QED
    BY <2>3, <2>4, CoveredParts
<1>4. QED
  BY <1>1, <1>2, <1>3, LocalPrecedence

\* The batch is recorded after what precedes its events.
LEMMA RecordQueuePrecedence ==
    ASSUME TypeOK, TypeOK', DrainInv, PrecedenceInv, RecordQueue
    PROVE  PrecedenceInv'
<1>0. /\ QueueOK /\ pc \in [Procs -> Draining \cup {"idle", "record", "commit", "ack"}]
      /\ pc[Consumer] = "record" /\ Consumer \in Procs /\ UNCHANGED coreVars
  BY Consts DEF TypeOK, ProcOK, RecordQueue
<1>1. CASE Reset(Consumer)
  BY <1>0, <1>1, RaisePrecedence
<1>2. CASE /\ WriteRows(Consumer, QueueRows)
           /\ pc' = [pc EXCEPT ![Consumer] = "commit"]
           /\ UNCHANGED <<dbVars, rowLock, staged, failed, todo, st, hint, hinted, queue>>
  <2>1. Moves(Consumer) /\ pc'[Consumer] = "commit" /\ log' = log /\ Quiet
    BY <1>0, <1>2 DEF dbVars, coreVars, Moves, Quiet
  <2>2. CoveredInv' /\ PagesInv'
    <3>1. "commit" \notin Draining \cup {"record"}
      BY DEF Draining
    <3>2. QED
      BY <2>1, <3>1, ConsumerRest
  <2>3. QueueRows \in [Keys -> Seq(Items)]
    BY <1>0, QueueRowsFacts
  <2>4. ASSUME NEW k \in Keys, NEW i \in 1..Len(QueueRows[k])
        PROVE  EventOK(k, core[k], View(Consumer, k), seen, queue.published, QueueRows[k][i])
    <3>1. PICK item : item = QueueRows[k][i]
      OBVIOUS
    <3>2. item.n \in queue.inHand /\ MsgKey[item.n] = k
      BY <1>0, <2>4, <3>1, QueueRowsOf
    <3>3. CoveredAt(item.n, k)
      BY <3>2, CoveredParts DEF PrecedenceInv
    <3>4. Covers(k, core[k], View(Consumer, k), seen[item.n])
      BY <1>0, <3>3 DEF CoveredAt, Covered
    <3>5. item.n \in 1..queue.published
      <4>1. /\ queue.published \in Nat /\ queue.delivered \in Nat /\ queue.delivered <= queue.published
            /\ queue.inHand \subseteq 1..queue.delivered
        <5>1. MaxMsgs \in Nat
          BY Consts, DrainConstants
        <5>2. QED
          BY <1>0, <5>1 DEF QueueOK
      <4>2. QED
        BY <3>2, <4>1
    <3>6. EventOK(k, core[k], View(Consumer, k), seen, queue.published, item)
      BY <3>2, <3>4, <3>5 DEF EventOK
    <3>7. QED
      BY <3>1, <3>6
  <2>5. PICK items \in [Keys -> Seq(Items)] : items = QueueRows
    BY <2>3
  <2>6. /\ WriteRows(Consumer, items)
        /\ \A k \in Keys : \A i \in 1..Len(items[k]) :
              EventOK(k, core[k], View(Consumer, k), seen, queue.published, items[k][i])
    BY <1>2, <2>4, <2>5
  <2>7. QED
    BY <1>0, <2>1, <2>2, <2>6, WritePrecedence
<1>3. QED
  BY <1>1, <1>2 DEF RecordQueue

\* A commit shows the other process no more than the committer saw.
LEMMA CommitPrecedence ==
    ASSUME TypeOK, TypeOK', DrainInv, PrecedenceInv, NEW p \in Procs, Commit(p)
    PROVE  PrecedenceInv'
<1>0. /\ pc \in [Procs -> Draining \cup {"idle", "record", "commit", "ack"}]
      /\ todo \in [Procs -> Seq(Keys)] /\ st \in [Procs -> DrainState] /\ pc[p] = "commit"
      /\ Consumer \in Procs /\ Poller # Consumer /\ p \in {Poller, Consumer}
      /\ UNCHANGED coreVars
  BY Consts DEF TypeOK, ProcOK, Commit, Procs
<1>1. CASE p = Poller
  <2>1. GoIdle(p)
    BY <1>1 DEF Commit
  <2>2. /\ queue' = queue /\ pc'[Consumer] = pc[Consumer] /\ todo'[Consumer] = todo[Consumer]
        /\ st'[Consumer] = st[Consumer]
    BY <1>0, <1>1, <2>1 DEF GoIdle
  <2>3. Quiet
    BY <1>0, <2>2 DEF coreVars, Quiet
  <2>4. \A k \in Keys : GoesOn(View(Consumer, k)', View(Consumer, k))
    BY <1>0, <1>1, CommitViews DEF DrainInv
  <2>5. CoveredInv' /\ PagesInv'
    BY <2>2, <2>3, <2>4, ConsumerKeep DEF PrecedenceInv
  <2>6. EventsInv' /\ SeenInv'
    BY <2>3, EventsCommit DEF PrecedenceInv, SeenInv, Quiet
  <2>7. QED
    BY <2>5, <2>6 DEF PrecedenceInv
<1>2. CASE p = Consumer
  <2>1. queue' = queue /\ pc'[Consumer] = "ack"
    BY <1>0, <1>2 DEF Commit
  <2>2. Quiet
    BY <1>0, <2>1 DEF coreVars, Quiet
  <2>3. CoveredInv' /\ PagesInv'
    <3>1. "ack" \notin Draining \cup {"record"}
      BY DEF Draining
    <3>2. QED
      BY <2>1, <3>1, ConsumerRest
  <2>4. EventsInv' /\ SeenInv'
    BY <2>2, EventsCommit DEF PrecedenceInv, SeenInv, Quiet
  <2>5. QED
    BY <2>3, <2>4 DEF PrecedenceInv
<1>3. QED
  BY <1>0, <1>1, <1>2

\* An ack only ends the batch.
LEMMA AckPrecedence ==
    ASSUME TypeOK, TypeOK', DrainInv, PrecedenceInv, Ack PROVE PrecedenceInv'
<1>0. /\ pc \in [Procs -> Draining \cup {"idle", "record", "commit", "ack"}] /\ Consumer \in Procs
  BY Consts DEF TypeOK, ProcOK
<1>1. /\ UNCHANGED <<log, chainLock, pend>> /\ Moves(Consumer) /\ pc'[Consumer] = "idle"
  BY <1>0 DEF Ack, dbVars, lockVars, txVars, Moves
<1>2. Quiet
  BY DEF Ack, coreVars, Quiet, TypeOK, QueueOK
<1>3. CoveredInv' /\ PagesInv'
  <2>1. "idle" \notin Draining \cup {"record"}
    BY DEF Draining
  <2>2. QED
    BY <1>1, <2>1, ConsumerRest
<1>4. QED
  BY <1>0, <1>1, <1>2, <1>3, LocalPrecedence

\* At first there are no events, and no message is in hand.
LEMMA PrecedenceInit == Init => PrecedenceInv
<1> SUFFICES ASSUME Init PROVE PrecedenceInv
  OBVIOUS
<1>0. TypeOK
  BY TypeInit
<1>1. SeenInv
  <2>1. \A m \in 1..MaxMsgs : seen[m] = 0
    BY DEF Init
  <2>2. seen \in [1..MaxMsgs -> Nat]
    BY DEF Init
  <2>3. ASSUME NEW m \in 1..MaxMsgs PROVE seen[m] <= Len(core[MsgKey[m]])
    <3>1. PICK k \in Keys : k = MsgKey[m]
      BY DrainConstants
    <3>2. Len(core[k]) \in Nat
      BY <1>0 DEF TypeOK, CoreOK
    <3>3. QED
      BY <2>1, <3>1, <3>2
  <2>4. QED
    BY <2>2, <2>3 DEF SeenInv
<1>2. EventsInv
  <2>1. \A p \in Procs, k \in Keys : log[k] = <<>> /\ View(p, k) = <<>>
    <3>1. ASSUME NEW p \in Procs, NEW k \in Keys PROVE log[k] = <<>> /\ pend[p][k] = <<>>
      BY DEF Init, NoRows
    <3>2. QED
      BY <3>1 DEF View
  <2>2. \A k \in Keys : EventsAfter(k, core[k], <<>>, seen, queue.published)
    BY DEF EventsAfter
  <2>3. Procs # {}
    BY DEF Procs
  <2>4. QED
    BY <2>1, <2>2, <2>3 DEF EventsInv
<1>3. pc[Consumer] = "idle"
  BY Consts DEF Init
<1>4. CoveredInv /\ PagesInv
  <2>1. pc[Consumer] \notin Draining /\ pc[Consumer] \notin {"record", "stage", "write", "fetch"}
    BY <1>3 DEF Draining
  <2>2. QED
    BY <2>1, Zenon DEF CoveredInv, PagesInv
<1>5. QED
  BY <1>1, <1>2, <1>4 DEF PrecedenceInv

\* No step breaks it while drains can reach the core's end and nothing is halted.
LEMMA PrecedenceStep ==
    ASSUME ReadsAll
    PROVE  TypeOK /\ TypeOK' /\ DrainInv /\ DrainInv' /\ NoHalt /\ PrecedenceInv /\ [Next]_vars
              => PrecedenceInv'
<1> SUFFICES ASSUME TypeOK, TypeOK', DrainInv, DrainInv', NoHalt, PrecedenceInv, [Next]_vars
             PROVE  PrecedenceInv'
  OBVIOUS
<1>1. CASE Environment
  BY <1>1, EnvironmentPrecedence
<1>2. CASE RecordQueue \/ Ack
  BY <1>2, RecordQueuePrecedence, AckPrecedence
<1>3. CASE \/ Read \/ StartPass
           \/ \E ks \in ChainLists : \E h \in [Keys -> 0..Max({MaxRecs[k] : k \in Keys})] :
                 StartHinted(ks, h)
  BY <1>3, BeginPrecedence
<1>4. ASSUME NEW p \in Procs, FetchFails(p) \/ Fail(p) \/ WaitFails(p) PROVE PrecedenceInv'
  <2>1. Reset(p) \/ (pc[p] \in Draining /\ (RaiseError(p) \/ SqlError(p)))
    BY <1>4, WaitFailsKind DEF TypeOK, FetchFails, Fail, Draining
  <2>2. UNCHANGED coreVars
    BY <1>4 DEF FetchFails, Fail, WaitFails
  <2>3. QED
    BY <2>1, <2>2, RaisePrecedence
<1>5. ASSUME NEW p \in Procs, Proceed(p) PROVE PrecedenceInv'
  BY <1>4, <1>5, GetCursorPrecedence, FetchPrecedence, HaltPrecedence, WritePagePrecedence,
     StageCursorPrecedence, CommitPrecedence DEF Proceed
<1>6. CASE UNCHANGED vars
  <2>1. /\ UNCHANGED <<log, pend, pc, todo, st, chainLock>> /\ Quiet /\ queue' = queue
    BY <1>6 DEF vars, Quiet
  <2>2. Poller \in Procs /\ Poller # Consumer
    BY Consts
  <2>3. Moves(Poller)
    BY <2>1 DEF Moves
  <2>4. QED
    BY <2>1, <2>2, <2>3, LocalPrecedence
<1>7. QED
  BY <1>1, <1>2, <1>3, <1>4, <1>5, <1>6 DEF Next

\* The invariant says it of the log.
LEMMA PrecedenceFromInv == TypeOK /\ PrecedenceInv => Precedence
<1> SUFFICES ASSUME TypeOK, PrecedenceInv PROVE Precedence
  OBVIOUS
<1>1. ASSUME NEW k \in Keys, NEW i \in 1..Len(log[k]), log[k][i].item.src = "queue",
             NEW n \in AnchorSeq[k] + 1 .. seen[log[k][i].item.n]
      PROVE  core[k][n] = "gone" \/ Has(SubSeq(log[k], 1, i - 1), <<"core", n>>)
  <2>1. PICK rows \in Seq(Rows) : rows = log[k]
    BY DEF TypeOK, DbOK
  <2>a. i \in 1..Len(rows)
    BY <1>1, <2>1
  <2>b. SubSeq(rows, 1, i - 1) \in Seq(Rows)
    BY <2>a
  <2>2. PICK before \in Seq(Rows) : before = SubSeq(log[k], 1, i - 1)
    BY <2>1, <2>b
  <2>3. Covers(k, core[k], before, seen[log[k][i].item.n])
    <3>1. EventsAfter(k, core[k], log[k], seen, queue.published)
      BY DEF PrecedenceInv, EventsInv
    <3>2. Covers(k, core[k], SubSeq(log[k], 1, i - 1), seen[log[k][i].item.n])
      BY <1>1, <3>1, Zenon DEF EventsAfter
    <3>3. QED
      BY <2>2, <3>2
  <2>4. core[k][n] = "gone" \/ n \in CoreSeqs(before)
    BY <2>3 DEF Covers
  <2>5. n \in CoreSeqs(before) => Has(before, <<"core", n>>)
    BY HasCore
  <2>6. QED
    BY <2>2, <2>4, <2>5
<1>2. QED
  BY <1>1, Zenon DEF Precedence

\* Every queue event in the log follows the core's records of its chain that
\* there were when it was published (_drain_core_first before write_batch), for
\* as long as a pass can reach the core's end and no chain is halted: the
\* consumer passes a halted chain over and records its events all the same.
THEOREM PrecedenceHolds ==
    ASSUME ReadsAll
    PROVE  Spec /\ []NoHalt => []Precedence
<1>1. Init => PrecedenceInv
  BY PrecedenceInit
<1>2. TypeOK /\ TypeOK' /\ DrainInv /\ DrainInv' /\ NoHalt /\ PrecedenceInv /\ [Next]_vars
         => PrecedenceInv'
  BY PrecedenceStep
<1>3. TypeOK /\ PrecedenceInv => Precedence
  BY PrecedenceFromInv
<1>4. QED
  BY <1>1, <1>2, <1>3, TypeCorrect, DrainInvariant, PTL DEF Spec

-----------------------------------------------------------------------------
(* No false alarm: only tampering halts a chain.                           *)

\* A page of a core that nobody tampered with verifies.
LEMMA IntactPage ==
    ASSUME CoreOK, NEW k \in Keys, NEW last \in Nat, NEW h \in 0..Len(core[k]), AnchorSeq[k] <= last,
           \A n \in AnchorSeq[k] + 1..Len(core[k]) : core[k][n] = "ok"
    PROVE  Breaks(k, last, PageOf(Survivors(k, last, h))) = {}
<1>1. PICK S : S = Survivors(k, last, h)
  OBVIOUS
<1>2. AnchorSeq[k] \in Nat /\ Len(core[k]) \in Nat /\ h \in Nat /\ PageSize \in Nat
  BY Consts DEF CoreOK
<1>3. S = last + 1..h
  <2>1. ASSUME NEW n \in last + 1..h PROVE core[k][n] # "gone"
    <3>1. n \in AnchorSeq[k] + 1..Len(core[k])
      BY <1>2
    <3>2. QED
      BY <3>1
  <2>2. QED
    BY <1>1, <2>1 DEF Survivors
<1>4. S \in SUBSET Nat /\ IsFiniteSet(S)
  <2>1. last + 1 \in Int /\ h \in Int
    BY <1>2
  <2>2. QED
    BY <1>2, <1>3, <2>1, FS_Interval
<1>5. ASSUME NEW n \in PageOf(S)
      PROVE  core[k][n] = "ok" /\ (n - 1 = last \/ n - 1 \in PageOf(S))
  <2>1. n \in S /\ Rank(S, n) < PageSize
    BY DEF PageOf
  <2>2. core[k][n] = "ok"
    <3>1. n \in AnchorSeq[k] + 1..Len(core[k])
      BY <1>2, <1>3, <2>1
    <3>2. QED
      BY <3>1
  <2>3. ASSUME n - 1 # last PROVE n - 1 \in PageOf(S)
    <3>1. PICK m \in S : m = n - 1 /\ m < n
      BY <1>2, <1>3, <2>1, <2>3
    <3>2. Cardinality(S) \in Nat /\ Rank(S, n) \in 0..Cardinality(S) - 1 /\ Rank(S, m) < Rank(S, n)
      BY <1>4, <2>1, <3>1, RankFacts, Zenon
    <3>3. Rank(S, m) \in 0..Cardinality(S) - 1
      BY <1>4, RankFacts, Zenon
    <3>4. Rank(S, m) < PageSize
      BY <1>2, <2>1, <3>2, <3>3
    <3>5. QED
      BY <3>1, <3>4 DEF PageOf
  <2>4. QED
    BY <2>2, <2>3
<1>6. QED
  BY <1>1, <1>5 DEF Breaks

\* A step that finds no break, halts no chain and leaves the core alone.
LEMMA IntactKeep ==
    ASSUME IntactInv, core' = core, budget'.tampers = budget.tampers,
           \A k \in Keys : cursor'[k].halt = cursor[k].halt, \A p \in Procs : pc'[p] # "halt"
    PROVE  IntactInv'
BY DEF IntactInv, NoHalt

\* Where a process that goes on or starts over is.
LEMMA IntactMove ==
    ASSUME TypeOK, IntactInv, NEW p \in Procs,
           \/ GoIdle(p) \/ NextChain(p) \/ pc' = pc
           \/ \E at : pc' = [pc EXCEPT ![p] = at] /\ at # "halt"
    PROVE  \A q \in Procs : pc'[q] # "halt"
<1>0. pc \in [Procs -> Draining \cup {"idle", "record", "commit", "ack"}]
  BY DEF TypeOK, ProcOK
<1>1. \A q \in Procs : pc[q] # "halt"
  BY DEF IntactInv
<1>2. ASSUME NEW at, pc' = [pc EXCEPT ![p] = at], at # "halt" PROVE \A q \in Procs : pc'[q] # "halt"
  BY <1>0, <1>1, <1>2
<1>3. CASE GoIdle(p)
  BY <1>2, <1>3 DEF GoIdle
<1>4. CASE NextChain(p)
  <2>1. PICK at : at = IF Len(todo[p]) = 1 THEN AfterDrains(p) ELSE "get"
    OBVIOUS
  <2>2. at # "halt" /\ pc' = [pc EXCEPT ![p] = at]
    BY <1>4, <2>1 DEF NextChain, AfterDrains
  <2>3. QED
    BY <1>2, <2>2
<1>5. QED
  BY <1>1, <1>2, <1>3, <1>4

\* No step halts a chain of an intact core.
LEMMA IntactStep == TypeOK /\ DrainInv /\ IntactInv /\ [Next]_vars => IntactInv'
<1> SUFFICES ASSUME TypeOK, DrainInv, IntactInv, [Next]_vars PROVE IntactInv'
  OBVIOUS
<1>0. /\ core \in [Keys -> Seq({"ok", "altered", "gone"})]
      /\ cursor \in [Keys -> [last : Nat, halt : Nat]]
      /\ budget \in [tampers : Nat, acks : Nat, fails : Nat, hints : Nat]
      /\ \A p \in Procs : pc[p] # "halt"
      /\ \A k \in Keys : AnchorSeq[k] \in Nat
      /\ Poller \in Procs /\ Consumer \in Procs
  BY Consts DEF TypeOK, CoreOK, DbOK, IntactInv
<1>1. ASSUME core' = core, cursor' = cursor, \A p \in Procs : pc'[p] # "halt",
             \/ budget' = budget
             \/ budget' = [budget EXCEPT !.fails = @ - 1]
             \/ budget' = [budget EXCEPT !.hints = @ - 1]
      PROVE  IntactInv'
  <2>1. budget'.tampers = budget.tampers
    BY <1>0, <1>1
  <2>2. QED
    BY <1>1, <2>1, IntactKeep
<1>2. ASSUME NEW k \in Keys, CoreAppend(k) PROVE IntactInv'
  <2>1. /\ core' = [core EXCEPT ![k] = Append(core[k], "ok")] /\ budget' = budget
        /\ cursor' = cursor /\ pc' = pc
    BY <1>2 DEF CoreAppend, dbVars, procVars
  <2>2. ASSUME NEW j \in Keys
        PROVE  /\ AnchorSeq[j] <= Len(core'[j])
               /\ \A n \in AnchorSeq[j] + 1..Len(core'[j]) : core'[j][n] = "ok"
    <3>1. /\ AnchorSeq[j] <= Len(core[j]) /\ Len(core[j]) \in Nat
          /\ \A n \in AnchorSeq[j] + 1..Len(core[j]) : core[j][n] = "ok"
      BY <1>0 DEF IntactInv
    <3>2. CASE j # k
      BY <1>0, <2>1, <3>1, <3>2
    <3>3. CASE j = k
      <4>1. core'[j] = Append(core[j], "ok")
        BY <1>0, <2>1, <3>3
      <4>2. PICK s \in Seq({"ok", "altered", "gone"}) : s = core[j]
        BY <1>0
      <4>3. Len(Append(s, "ok")) = Len(s) + 1 /\ \A n \in 1..Len(s) + 1 : Append(s, "ok")[n] =
               IF n = Len(s) + 1 THEN "ok" ELSE s[n]
        BY <4>2
      <4>4. PICK t : t = Append(s, "ok")
        OBVIOUS
      <4>5. Len(t) = Len(s) + 1 /\ Len(s) \in Nat /\ AnchorSeq[j] <= Len(s)
        BY <3>1, <4>2, <4>3, <4>4
      <4>6. ASSUME NEW n \in AnchorSeq[j] + 1..Len(s) + 1 PROVE t[n] = "ok"
        <5>1. n \in 1..Len(s) + 1
          BY <1>0, <4>5
        <5>2. n # Len(s) + 1 => n \in AnchorSeq[j] + 1..Len(s)
          BY <1>0, <4>5
        <5>3. QED
          BY <3>1, <4>2, <4>3, <4>4, <5>1, <5>2
      <4>7. core'[j] = t /\ AnchorSeq[j] <= Len(s) + 1
        BY <1>0, <4>1, <4>2, <4>4, <4>5
      <4>8. QED
        BY <4>5, <4>6, <4>7
    <3>4. QED
      BY <3>2, <3>3
  <2>3. QED
    BY <2>1, <2>2 DEF IntactInv, NoHalt
<1>3. ASSUME NEW k \in Keys, Acknowledge(k) PROVE IntactInv'
  BY <1>3 DEF Acknowledge, IntactInv, NoHalt
<1>4. ASSUME NEW k \in Keys, NEW n, NEW how, Tamper(k, n, how) PROVE IntactInv'
  BY <1>4 DEF Tamper, IntactInv
<1>5. CASE Publish
  BY <1>0, <1>1, <1>5 DEF Publish, dbVars, procVars
<1>6. CASE Environment
  BY <1>2, <1>3, <1>4, <1>5, <1>6 DEF Environment
<1>7. ASSUME NEW p \in Procs, core' = core,
             \/ budget' = budget
             \/ budget' = [budget EXCEPT !.fails = @ - 1]
             \/ budget' = [budget EXCEPT !.hints = @ - 1],
             Reset(p) \/ RaiseRefusal(p) \/ RaiseError(p) \/ SqlError(p)
      PROVE  IntactInv'
  <2>1. cursor' = cursor /\ (GoIdle(p) \/ NextChain(p))
    BY <1>7 DEF Reset, RaiseRefusal, RaiseError, SqlError, dbVars
  <2>2. \A q \in Procs : pc'[q] # "halt"
    BY <2>1, IntactMove
  <2>3. QED
    BY <1>1, <1>7, <2>1, <2>2
<1>8. ASSUME NEW p \in Procs, NEW at, at # "halt", pc' = [pc EXCEPT ![p] = at], core' = core,
             cursor' = cursor,
             budget' = budget \/ budget' = [budget EXCEPT !.hints = @ - 1]
      PROVE  IntactInv'
  <2>1. \A q \in Procs : pc'[q] # "halt"
    BY <1>8, IntactMove
  <2>2. QED
    BY <1>1, <1>8, <2>1
<1>9. CASE Read \/ Ack \/ StartPass
  <2>1. core' = core /\ cursor' = cursor /\ budget' = budget
    BY <1>9 DEF Read, Ack, StartPass, coreVars, dbVars
  <2>2. \/ pc' = pc \/ pc' = [pc EXCEPT ![Consumer] = "get"] \/ pc' = [pc EXCEPT ![Consumer] = "idle"]
        \/ pc' = [pc EXCEPT ![Poller] = "get"]
    BY <1>9 DEF Read, Ack, StartPass
  <2>3. CASE pc' = pc
    BY <1>0, <1>1, <2>1, <2>3
  <2>4. QED
    BY <1>0, <1>8, <2>1, <2>2, <2>3
<1>10. CASE RecordQueue
  <2>1. core' = core /\ budget' = budget
    BY <1>10 DEF RecordQueue, coreVars
  <2>2. Reset(Consumer) \/ (pc' = [pc EXCEPT ![Consumer] = "commit"] /\ cursor' = cursor)
    BY <1>10 DEF RecordQueue, dbVars
  <2>3. QED
    BY <1>0, <1>7, <1>8, <2>1, <2>2
<1>11. CASE \E ks \in ChainLists : \E h \in [Keys -> 0..Max({MaxRecs[k] : k \in Keys})] :
               StartHinted(ks, h)
  <2>1. /\ core' = core /\ cursor' = cursor /\ budget' = [budget EXCEPT !.hints = @ - 1]
        /\ pc' = [pc EXCEPT ![Poller] = "get"]
    BY <1>11 DEF StartHinted, coreVars, dbVars
  <2>2. QED
    BY <1>0, <1>8, <2>1
<1>12. ASSUME NEW p \in Procs, FetchFails(p) \/ Fail(p) \/ WaitFails(p) PROVE IntactInv'
  <2>1. core' = core /\ (budget' = budget \/ budget' = [budget EXCEPT !.fails = @ - 1])
    BY <1>12 DEF FetchFails, Fail, WaitFails, coreVars
  <2>2. Reset(p) \/ RaiseError(p) \/ SqlError(p)
    BY <1>12 DEF FetchFails, Fail, WaitFails
  <2>3. QED
    BY <1>7, <2>1, <2>2
<1>13. ASSUME NEW p \in Procs, GetCursor(p) \/ WritePage(p) \/ StageCursor(p) \/ RaiseBreak(p)
       PROVE  IntactInv'
  <2>1. core' = core /\ budget' = budget
    BY <1>13 DEF GetCursor, WritePage, StageCursor, RaiseBreak, coreVars
  <2>2. \/ RaiseRefusal(p) \/ SqlError(p)
        \/ cursor' = cursor /\ NextChain(p)
        \/ cursor' = cursor /\ \E at : pc' = [pc EXCEPT ![p] = at] /\ at # "halt"
    <3>1. CASE WritePage(p)
      <4>1. PICK at : at = IF st[p].more /\ st[p].pages + 1 < MaxPages THEN "fetch" ELSE "stage"
        OBVIOUS
      <4>2. SqlError(p) \/ (cursor' = cursor /\ pc' = [pc EXCEPT ![p] = at])
        BY <3>1, <4>1 DEF WritePage, dbVars
      <4>3. QED
        BY <4>1, <4>2
    <3>2. CASE GetCursor(p) \/ StageCursor(p) \/ RaiseBreak(p)
      BY <3>2 DEF GetCursor, StageCursor, RaiseBreak, dbVars
    <3>3. QED
      BY <1>13, <3>1, <3>2
  <2>3. CASE cursor' = cursor /\ NextChain(p)
    BY <1>1, <2>1, <2>3, IntactMove
  <2>4. QED
    BY <1>7, <1>8, <2>1, <2>2, <2>3
<1>14. ASSUME NEW p \in Procs, Fetch(p) PROVE IntactInv'
  <2>1. core' = core /\ budget' = budget /\ pc[p] = "fetch" /\ pc[p] \in Draining
    BY <1>14 DEF Fetch, coreVars, Draining
  <2>2. PICK k \in Keys : k = Head(todo[p])
    BY <2>1 DEF TypeOK, ProcOK
  <2>3. st[p].last \in Nat /\ AnchorSeq[k] <= st[p].last
    BY <2>1, <2>2, DrainReach
  <2>4. \A h \in 0..Len(core[k]) : Breaks(k, st[p].last, PageOf(Survivors(k, st[p].last, h))) = {}
    BY <2>3, IntactPage DEF TypeOK, IntactInv
  <2>5. \A h \in IF Lagging THEN 0..Len(core[k]) ELSE {Len(core[k])} : h \in 0..Len(core[k])
    <3>1. Len(core[k]) \in Nat
      BY <1>0
    <3>2. QED
      BY <3>1
  <2>6. RaiseRefusal(p) \/ (cursor' = cursor /\ \E at : pc' = [pc EXCEPT ![p] = at] /\ at # "halt")
    <3>1. ASSUME NEW page
          PROVE  "halt" # IF page = {} THEN "stage" ELSE "write"
      OBVIOUS
    <3>2. QED
      BY <1>14, <2>2, <2>4, <2>5, <3>1 DEF Fetch, dbVars
  <2>7. QED
    BY <1>7, <1>8, <2>1, <2>6
<1>15. ASSUME NEW p \in Procs, PersistHalt(p) \/ LoseHalt(p) PROVE IntactInv'
  BY <1>0, <1>15 DEF PersistHalt, LoseHalt
<1>16. ASSUME NEW p \in Procs, Commit(p) PROVE IntactInv'
  <2>1. core' = core /\ budget' = budget /\ \A k \in Keys : cursor'[k] = CursorAfter(p, k)
    BY <1>16 DEF Commit, coreVars
  <2>2. \A k \in Keys : cursor'[k].halt = cursor[k].halt
    BY <1>0, <2>1 DEF CursorAfter
  <2>3. GoIdle(p) \/ pc' = [pc EXCEPT ![p] = "ack"]
    BY <1>16 DEF Commit
  <2>4. \A q \in Procs : pc'[q] # "halt"
    BY <2>3, IntactMove
  <2>5. QED
    BY <2>1, <2>2, <2>4, IntactKeep
<1>17. ASSUME NEW p \in Procs, Proceed(p) \/ FetchFails(p) \/ Fail(p) PROVE IntactInv'
  BY <1>12, <1>13, <1>14, <1>15, <1>16, <1>17 DEF Proceed
<1>18. CASE UNCHANGED vars
  BY <1>18, <1>0, <1>1 DEF vars
<1>19. QED
  BY <1>6, <1>9, <1>10, <1>11, <1>17, <1>18 DEF Next

\* Only tampering halts a chain: over a core whose records nobody alters or
\* removes, no drain raises a false alarm, whatever replica answers, whichever
\* pages the two drainers read and however often a pass is cut short
\* (verify_batch resumes from the position that cursors.get returned).
THEOREM UntamperedNeverHalts ==
    ASSUME MaxTampers = 0
    PROVE  Spec => []NoHalt
<1>1. Init => IntactInv
  <2> SUFFICES ASSUME Init PROVE IntactInv
    OBVIOUS
  <2>1. budget.tampers = 0
    BY DEF Init
  <2>2. ASSUME NEW k \in Keys
        PROVE  /\ AnchorSeq[k] <= Len(core[k])
               /\ \A n \in AnchorSeq[k] + 1..Len(core[k]) : core[k][n] = "ok"
    <3>1. AnchorSeq[k] \in Nat /\ core[k] = [n \in 1..AnchorSeq[k] |-> "gone"]
      BY Consts DEF Init
    <3>2. Len(core[k]) = AnchorSeq[k]
      BY <3>1
    <3>3. QED
      BY <3>1, <3>2
  <2>3. (\A p \in Procs : pc[p] # "halt") /\ NoHalt
    BY DEF Init, NoHalt
  <2>4. QED
    BY <2>1, <2>2, <2>3 DEF IntactInv
<1>2. TypeOK /\ DrainInv /\ IntactInv /\ [Next]_vars => IntactInv'
  BY IntactStep
<1>3. IntactInv => NoHalt
  BY DEF IntactInv
<1>4. QED
  BY <1>1, <1>2, <1>3, TypeCorrect, DrainInvariant, PTL DEF Spec

\* Over a core that nobody tampers with, every queue event follows the core's
\* records, with no premise on the behaviour (_drain_core_first).
THEOREM UntamperedPrecedence ==
    ASSUME ReadsAll, MaxTampers = 0
    PROVE  Spec => []Precedence
<1>1. Spec => []NoHalt
  BY UntamperedNeverHalts
<1>2. Spec /\ []NoHalt => []Precedence
  BY PrecedenceHolds
<1>3. QED
  BY <1>1, <1>2, PTL
=============================================================================
