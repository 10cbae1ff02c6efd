-------------------------- MODULE Retention_proofs --------------------------
(***************************************************************************)
(* For every number of writers, overlapping runs, tables and partitions,   *)
(* and whatever the store does to an object: retention never loses a       *)
(* committed row (first half), and archive and table stay one chain, the   *)
(* archive verifies and a run takes the largest prefix there is (second    *)
(* half).                                                                  *)
(***************************************************************************)
EXTENDS Retention, AuditWriter_proofs, FiniteOrder_proofs

(* The inductive strengthening of NothingLost.                             *)

RunStates == {"idle", "locking", "listed", "open", "archive", "drop", "commit"}

RunRecords ==
    [at : RunStates, id : Nat, t : Tables \cup {NoRun.t}, cutoff : Int,
     todo : SUBSET Partitions, listed : SUBSET Partitions,
     aged : SUBSET [part : Partitions, seqs : SUBSET Nat], drop : SUBSET Partitions,
     left : SUBSET Rows(Contents), out : Seq(SUBSET Rows(Contents))]

Segments == [id : Nat, parts : Seq(SUBSET Rows(Contents))]

RecordsOK ==
    /\ today \in Int /\ runs \in 0..MaxRuns
    /\ run \in [Jobs -> RunRecords]
    /\ DOMAIN store \subseteq Tables \X (1..MaxRuns) \X Nat
    /\ catalog \in [Tables -> SUBSET Segments]

\* A row that a writer has inserted, or is going to once its partitions are
\* ensured, lies in a partition whose advisory lock the writer holds.
WriteLockInv(w) ==
    /\ pc[w] \in {"ensure", "create"} =>
          \A p \in needP[w] : FirstPart(p, needP[w]) => plock[p] = w
    /\ pc[w] \in {"seed", "rows"} => needP[w] = {}
    /\ \A e \in EventsIn(batch[w]) : PartOf(e) \in needP[w] \/ plock[PartOf(e)] = w
    /\ \A t \in Tables : \A r \in pend[w][t] :
          RowPart(t, r) \in Partitions /\ plock[RowPart(t, r)] = w

\* seq runs ahead of every row, archived rows and those in a run's hands too.
SeqAhead ==
    /\ \A t \in Tables :
          /\ \A r \in table[t] : r.seq < nextseq[t]
          /\ \A w \in Writers : \A r \in pend[w][t] : r.seq < nextseq[t]
          /\ \A s \in catalog[t] : \A r \in SegmentRows(s) : r.seq < nextseq[t]
    /\ \A j \in Jobs : run[j].at # "idle" =>
          \A r \in run[j].left \cup UNION Range(run[j].out) : r.seq < nextseq[run[j].t]

\* A run's id is its own: no other run has it, and no catalogued segment.
IdInv ==
    /\ \A j \in Jobs : run[j].at # "idle" => run[j].id \in 1..runs
    /\ \A i, j \in Jobs : i # j /\ run[i].at # "idle" /\ run[j].at # "idle" =>
          run[i].id # run[j].id
    /\ \A t \in Tables : \A s \in catalog[t] :
          s.id \in 1..runs /\ \A j \in Jobs : run[j].at # "idle" => run[j].id # s.id

\* A run holds the locks of the partitions that it listed first.
RunLockInv(j) ==
    run[j].at # "idle" =>
        /\ run[j].t \in Tables
        /\ run[j].todo \subseteq run[j].listed
        /\ run[j].at # "locking" => run[j].todo = {}
        /\ \A p \in run[j].listed \ run[j].todo : plock[p] = j

\* A run is about a table.
OnTable(j) == run[j].at # "idle" => run[j].t \in Tables

\* The rows that the run will drop from partitions that it has locked.
Doomed(j) == RowsIn(run[j].t, run[j].drop \cap run[j].listed)

\* What a run drops it has seen: no row enters a locked partition after its
\* seqs were read, and each one is still to be archived or in a part.
SeenInv(j) ==
    /\ run[j].at \in {"listed", "open", "archive", "drop", "commit"} =>
          \A s \in run[j].aged :
             s.part \in run[j].listed /\ s.seqs = {} => RowsIn(run[j].t, {s.part}) = {}
    /\ run[j].at \in {"open", "archive", "drop", "commit"} =>
          run[j].drop \subseteq {s.part : s \in run[j].aged}
    /\ run[j].at = "archive" => Doomed(j) \subseteq run[j].left \cup UNION Range(run[j].out)
    /\ run[j].at \in {"drop", "commit"} => Doomed(j) \subseteq UNION Range(run[j].out)

\* An object of the store, by name.
Holds(t, id, n, object) == <<t, id, n>> \in DOMAIN store /\ store[<<t, id, n>>] = object

HoldsParts(t, id, out) == \A n \in 1..Len(out) : Holds(t, id, n, out[n])

\* What a run has put is in the store, and its manifest before anything goes.
PutInv(j) ==
    /\ run[j].at \in {"locking", "listed", "open"} => run[j].out = <<>>
    /\ run[j].at \in {"archive", "drop", "commit"} =>
          HoldsParts(run[j].t, run[j].id, run[j].out)
    /\ run[j].at \in {"drop", "commit"} /\ run[j].out # <<>> =>
          Holds(run[j].t, run[j].id, 0, run[j].out)

\* A catalogued segment has parts, and they and their manifest are stored.
CatalogInv ==
    \A t \in Tables : \A s \in catalog[t] :
        /\ Len(s.parts) > 0
        /\ Holds(t, s.id, 0, s.parts) /\ HoldsParts(t, s.id, s.parts)

\* What a run relies on from its first lock to its commit.
RunInv(j) == RunLockInv(j) /\ SeenInv(j) /\ PutInv(j)

\* A run drops rows only while it knows them archived: the locks it holds, the
\* rows it has seen, the objects it has put and the id it puts them under stay
\* its own from the first lock to the commit (run_scope, _archive_segment).
RetentionInv ==
    /\ RecordsOK /\ IdInv /\ SeqAhead /\ CatalogInv
    /\ \A w \in WriterJobs : WriteLockInv(w)
    /\ \A j \in Jobs : RunInv(j)

-----------------------------------------------------------------------------
\* Rows below a bound have a last one.
LEMMA BoundedTail ==
    ASSUME NEW C, NEW S \in SUBSET Rows(C), NEW k \in Nat, \A r \in S : r.seq < k
    PROVE  HasTail(S)
<1>1. CASE S = {}
  BY <1>1 DEF HasTail
<1>2. CASE S # {}
  <2> DEFINE N == {r.seq : r \in S}
  <2>1. \A r \in S : r.seq \in Nat
    BY DEF Rows
  <2>2. N \subseteq 0..k /\ N # {} /\ N \in SUBSET Int
    BY <1>2, <2>1
  <2>3. IsFiniteSet(0..k)
    BY FS_Interval
  <2>4. IsFiniteSet(N)
    BY <2>2, <2>3, FS_Subset
  <2> HIDE DEF N
  <2>5. Max(N) \in N /\ \A y \in N : y <= Max(N)
    BY <2>2, <2>4, MaxFacts
  <2>6. PICK r \in S : r.seq = Max(N)
    BY <2>5 DEF N
  <2>7. \A q \in S : q.seq <= r.seq
    BY <2>5, <2>6 DEF N
  <2>8. QED
    BY <2>6, <2>7 DEF HasTail, IsTail
<1>3. QED
  BY <1>1, <1>2

\* A run leaves the other runs alone, and its own record stays one.
RunKept(j) ==
    run' \in [Jobs -> RunRecords] /\ \A i \in Jobs \ {j} : run'[i] = run[i]

\* The fields that a step of a run in progress never changes.
SameRun(j) ==
    /\ run'[j].id = run[j].id /\ run'[j].t = run[j].t
    /\ run'[j].cutoff = run[j].cutoff /\ run'[j].listed = run[j].listed

\* A job without a run.
LEMMA NoRunType ==
    NoRun \in RunRecords /\ NoRun.at = "idle" /\ NoRun.left = {} /\ NoRun.out = <<>>
<1>1. <<>> \in Seq(SUBSET Rows(Contents))
  OBVIOUS
<1>2. QED
  BY <1>1 DEF NoRun, RunRecords, RunStates

\* A run that has locks has a table.
LEMMA LockedTable ==
    ASSUME NEW j, RunLockInv(j)
    PROVE  OnTable(j)
BY DEF RunLockInv, OnTable

\* The aged partitions are partitions of the table.
LEMMA AgedType ==
    ASSUME TypeOK, NEW t, NEW c
    PROVE  AgedParts(t, c) \in SUBSET Partitions
BY DEF TypeOK, AgedParts

LEMMA BeginMove ==
    ASSUME TypeOK, RecordsOK, NEW j \in Jobs, NEW t \in Tables, BeginRun(j, t)
    PROVE  /\ RunKept(j) /\ run[j].at = "idle" /\ run'[j].at = "locking"
           /\ run'[j].id = runs' /\ runs' = runs + 1 /\ runs' \in 0..MaxRuns
           /\ run'[j].t = t /\ run'[j].todo = run'[j].listed
           /\ run'[j].left = {} /\ run'[j].out = <<>>
<1> DEFINE c == CutoffFor(today)
           A == AgedParts(t, c)
           x == [NoRun EXCEPT !.at = "locking", !.id = runs + 1, !.t = t,
                              !.cutoff = c, !.todo = A, !.listed = A]
<1>1. /\ run \in [Jobs -> RunRecords] /\ runs \in 0..MaxRuns /\ runs < MaxRuns
      /\ run[j].at = "idle" /\ runs' = runs + 1 /\ MaxRuns \in Nat /\ c \in Int
  BY RetentionConstants DEF RecordsOK, BeginRun, CutoffFor
<1>2. A \in SUBSET Partitions
  BY AgedType
<1>3. run' = [run EXCEPT ![j] = x]
  BY DEF BeginRun
<1> HIDE DEF A, c
<1>4. runs + 1 \in Nat /\ "locking" \in RunStates
  BY <1>1 DEF RunStates
<1>5. /\ x \in RunRecords /\ x.at = "locking" /\ x.id = runs + 1 /\ x.t = t
      /\ x.todo = A /\ x.listed = A /\ x.left = {} /\ x.out = <<>>
  BY <1>1, <1>2, <1>4, NoRunType DEF RunRecords
<1> HIDE DEF x
<1>6. RunKept(j) /\ run'[j] = x
  BY <1>1, <1>3, <1>5 DEF RunKept
<1>7. QED
  BY <1>1, <1>5, <1>6

LEMMA LockedMove ==
    ASSUME RecordsOK, NEW j \in Jobs, LockAged(j)
    PROVE  /\ RunKept(j) /\ SameRun(j)
           /\ run[j].at = "locking" /\ run'[j].at = "locking"
           /\ \E p \in run[j].todo :
                 plock[p] \in {NoOwner, j} /\ plock' = [plock EXCEPT ![p] = j]
                 /\ run'[j].todo = run[j].todo \ {p}
           /\ run'[j].left = run[j].left /\ run'[j].out = run[j].out
<1>1. PICK p \in run[j].todo :
         /\ plock[p] \in {NoOwner, j} /\ plock' = [plock EXCEPT ![p] = j]
         /\ run' = [run EXCEPT ![j].todo = @ \ {p}]
  BY DEF LockAged
<1>2. run \in [Jobs -> RunRecords] /\ run[j] \in RunRecords /\ run[j].at = "locking"
  BY DEF RecordsOK, LockAged
<1> DEFINE x == [run[j] EXCEPT !.todo = run[j].todo \ {p}]
<1>3. /\ x \in RunRecords /\ x.todo = run[j].todo \ {p} /\ x.at = run[j].at
      /\ x.id = run[j].id /\ x.t = run[j].t /\ x.cutoff = run[j].cutoff
      /\ x.listed = run[j].listed /\ x.left = run[j].left /\ x.out = run[j].out
  BY <1>2 DEF RunRecords
<1>4. run' = [run EXCEPT ![j] = x]
  BY <1>1
<1> HIDE DEF x
<1>5. RunKept(j) /\ run'[j] = x
  BY <1>2, <1>3, <1>4 DEF RunKept
<1>6. QED
  BY <1>1, <1>2, <1>3, <1>5 DEF SameRun

LEMMA RelistMove ==
    ASSUME TypeOK, RecordsOK, NEW j \in Jobs, OnTable(j), Relist(j)
    PROVE  /\ RunKept(j) /\ SameRun(j)
           /\ run[j].at = "locking" /\ run[j].todo = {}
           /\ run'[j].at = "listed" /\ run'[j].todo = {}
           /\ \A s \in run'[j].aged : s.seqs = Seqs(RowsIn(run[j].t, {s.part}))
           /\ run'[j].aged = {PartStat(run[j].t, p) : p \in AgedParts(run[j].t, run[j].cutoff)}
           /\ run'[j].left = run[j].left /\ run'[j].out = run[j].out
<1> DEFINE t == run[j].t
           A == {PartStat(t, p) : p \in AgedParts(t, run[j].cutoff)}
           x == [run[j] EXCEPT !.at = "listed", !.aged = A]
<1>1. /\ run \in [Jobs -> RunRecords] /\ run[j] \in RunRecords
      /\ run[j].at = "locking" /\ run[j].todo = {}
  BY DEF RecordsOK, Relist
<1>2. run' = [run EXCEPT ![j] = x]
  BY DEF Relist
<1>3. AgedParts(t, run[j].cutoff) \in SUBSET Partitions
  BY AgedType
<1>4. t \in Tables
  BY <1>1 DEF OnTable
<1>5. \A p \in Partitions : PartStat(t, p) \in [part : Partitions, seqs : SUBSET Nat]
  <2>1. table[t] \in SUBSET Rows(Contents)
    BY <1>4 DEF TypeOK
  <2>2. \A p : Seqs(RowsIn(t, {p})) \in SUBSET Nat
    BY <2>1 DEF Seqs, RowsIn, Rows
  <2>3. QED
    BY <2>2 DEF PartStat
<1>6. ASSUME NEW s \in A PROVE s.seqs = Seqs(RowsIn(t, {s.part}))
  <2>1. PICK p : s = PartStat(t, p)
    OBVIOUS
  <2>2. s.part = p /\ s.seqs = Seqs(RowsIn(t, {p}))
    BY <2>1 DEF PartStat
  <2>3. QED
    BY <2>2
<1>7. A \in SUBSET [part : Partitions, seqs : SUBSET Nat] /\ "listed" \in RunStates
  BY <1>3, <1>5 DEF RunStates
<1>7a. A = {PartStat(run[j].t, p) : p \in AgedParts(run[j].t, run[j].cutoff)}
  OBVIOUS
<1> HIDE DEF A
<1>8. /\ x \in RunRecords /\ x.at = "listed" /\ x.todo = run[j].todo /\ x.aged = A
      /\ x.id = run[j].id /\ x.t = run[j].t /\ x.cutoff = run[j].cutoff
      /\ x.listed = run[j].listed /\ x.left = run[j].left /\ x.out = run[j].out
  BY <1>1, <1>7 DEF RunRecords
<1> HIDE DEF x
<1>9. RunKept(j) /\ run'[j] = x
  BY <1>1, <1>2, <1>8 DEF RunKept
<1>10. QED
  BY <1>1, <1>6, <1>7a, <1>8, <1>9 DEF SameRun

LEMMA SelectMove ==
    ASSUME RecordsOK, NEW j \in Jobs, Select(j)
    PROVE  /\ RunKept(j) /\ SameRun(j)
           /\ run[j].at = "listed" /\ run'[j].at \in {"open", "drop"}
           /\ run'[j].todo = run[j].todo /\ run'[j].aged = run[j].aged
           /\ run'[j].drop \subseteq {s.part : s \in run[j].aged}
           /\ run'[j].drop = SelectDroppable(run[j].aged,
                                Seqs({r \in table[run[j].t] : DayOf[r.ev] >= run[j].cutoff}))
           /\ run'[j].at = "drop" =>
                 \A s \in run[j].aged : s.part \in run'[j].drop => s.seqs = {}
           /\ run'[j].left = run[j].left /\ run'[j].out = run[j].out
<1> DEFINE kept == Seqs({r \in table[run[j].t] : DayOf[r.ev] >= run[j].cutoff})
           D == SelectDroppable(run[j].aged, kept)
           rows == \E s \in run[j].aged : s.part \in D /\ s.seqs # {}
           to == IF rows THEN "open" ELSE "drop"
           x == [run[j] EXCEPT !.drop = D, !.at = to]
<1>1. /\ run \in [Jobs -> RunRecords] /\ run[j] \in RunRecords /\ run[j].at = "listed"
  BY DEF RecordsOK, Select
<1>2. run' = [run EXCEPT ![j] = x]
  BY DEF Select
<1>3. D \subseteq {s.part : s \in run[j].aged}
  BY DEF SelectDroppable
<1>4. \A s \in run[j].aged : s.part \in Partitions
  BY <1>1 DEF RunRecords
<1>4a. D = SelectDroppable(run[j].aged,
              Seqs({r \in table[run[j].t] : DayOf[r.ev] >= run[j].cutoff}))
  OBVIOUS
<1> HIDE DEF D
<1>5. D \in SUBSET Partitions
  BY <1>3, <1>4
<1>6. to \in {"open", "drop"} /\ to \in RunStates
      /\ (to = "drop" => \A s \in run[j].aged : s.part \in D => s.seqs = {})
  BY DEF RunStates
<1> HIDE DEF to
<1>7. /\ x \in RunRecords /\ x.at = to /\ x.todo = run[j].todo /\ x.aged = run[j].aged
      /\ x.id = run[j].id /\ x.t = run[j].t /\ x.cutoff = run[j].cutoff
      /\ x.listed = run[j].listed /\ x.left = run[j].left /\ x.out = run[j].out /\ x.drop = D
  BY <1>1, <1>5, <1>6 DEF RunRecords
<1> HIDE DEF x
<1>8. RunKept(j) /\ run'[j] = x
  BY <1>1, <1>2, <1>7 DEF RunKept
<1>9. QED
  BY <1>1, <1>3, <1>4a, <1>6, <1>7, <1>8 DEF SameRun

LEMMA OpenMove ==
    ASSUME TypeOK, RecordsOK, NEW j \in Jobs, OnTable(j), OpenStream(j)
    PROVE  /\ RunKept(j) /\ SameRun(j)
           /\ run[j].at = "open" /\ run'[j].at = "archive"
           /\ run'[j].todo = run[j].todo /\ run'[j].aged = run[j].aged
           /\ run'[j].drop = run[j].drop
           /\ run'[j].left = RowsIn(run[j].t, run[j].drop \cap
                                 {s.part : s \in {a \in run[j].aged : a.seqs # {}}})
           /\ run'[j].left \in SUBSET table[run[j].t]
           /\ run'[j].out = run[j].out
<1> DEFINE W == {s.part : s \in {a \in run[j].aged : a.seqs # {}}}
           L == RowsIn(run[j].t, run[j].drop \cap W)
           x == [run[j] EXCEPT !.left = L, !.at = "archive"]
<1>1. /\ run \in [Jobs -> RunRecords] /\ run[j] \in RunRecords /\ run[j].at = "open"
  BY DEF RecordsOK, OpenStream
<1>2. run' = [run EXCEPT ![j] = x]
  BY DEF OpenStream
<1>3. run[j].t \in Tables
  BY <1>1 DEF OnTable
<1>4. L \in SUBSET table[run[j].t]
  BY DEF RowsIn
<1>5. L \in SUBSET Rows(Contents)
  BY <1>3, <1>4 DEF TypeOK
<1>6. L = RowsIn(run[j].t, run[j].drop \cap {s.part : s \in {a \in run[j].aged : a.seqs # {}}})
  OBVIOUS
<1> HIDE DEF L
<1>7. /\ x \in RunRecords /\ x.at = "archive" /\ x.todo = run[j].todo
      /\ x.aged = run[j].aged /\ x.drop = run[j].drop /\ x.left = L
      /\ x.id = run[j].id /\ x.t = run[j].t /\ x.cutoff = run[j].cutoff
      /\ x.listed = run[j].listed /\ x.out = run[j].out
  BY <1>1, <1>5 DEF RunRecords, RunStates
<1> HIDE DEF x
<1>8. RunKept(j) /\ run'[j] = x
  BY <1>1, <1>2, <1>7 DEF RunKept
<1>9. QED
  BY <1>1, <1>4, <1>6, <1>7, <1>8 DEF SameRun

\* How a run's record moves on.
Parted(j, body) == run' = [run EXCEPT ![j].left = @ \ body, ![j].out = Append(@, body)]
Staged(j, to) == run' = [run EXCEPT ![j].at = to]

\* A part that reads back as it was written.
LEMMA PartMove ==
    ASSUME RecordsOK, NEW j \in Jobs, run[j].at = "archive", NEW body,
           body \in SUBSET run[j].left, Parted(j, body)
    PROVE  /\ RunKept(j) /\ SameRun(j) /\ run'[j].at = "archive"
           /\ run'[j].todo = run[j].todo /\ run'[j].aged = run[j].aged
           /\ run'[j].drop = run[j].drop
           /\ run'[j].left = run[j].left \ body /\ run'[j].out = Append(run[j].out, body)
<1> DEFINE L == run[j].left \ body
           O == Append(run[j].out, body)
           x == [run[j] EXCEPT !.left = L, !.out = O]
<1>1. /\ run \in [Jobs -> RunRecords] /\ run[j] \in RunRecords
  BY DEF RecordsOK
<1>2. run' = [run EXCEPT ![j] = x]
  BY DEF Parted
<1>3. run[j].left \in SUBSET Rows(Contents) /\ run[j].out \in Seq(SUBSET Rows(Contents))
  BY <1>1 DEF RunRecords
<1>4. L \in SUBSET Rows(Contents) /\ body \in SUBSET Rows(Contents)
  BY <1>3
<1>5. O \in Seq(SUBSET Rows(Contents))
  BY <1>3, <1>4
<1>6. L = run[j].left \ body /\ O = Append(run[j].out, body)
  OBVIOUS
<1> HIDE DEF L, O
<1>7. /\ x \in RunRecords /\ x.at = run[j].at /\ x.todo = run[j].todo
      /\ x.aged = run[j].aged /\ x.drop = run[j].drop /\ x.left = L
      /\ x.id = run[j].id /\ x.t = run[j].t /\ x.cutoff = run[j].cutoff
      /\ x.listed = run[j].listed /\ x.out = O
  BY <1>1, <1>4, <1>5 DEF RunRecords
<1> HIDE DEF x
<1>8. RunKept(j) /\ run'[j] = x
  BY <1>1, <1>2, <1>7 DEF RunKept
<1>9. QED
  BY <1>6, <1>7, <1>8 DEF SameRun

\* The manifest has been put, or the partitions have been dropped.
LEMMA StageMove ==
    ASSUME RecordsOK, NEW j \in Jobs, NEW to \in {"drop", "commit"},
           Staged(j, to)
    PROVE  /\ RunKept(j) /\ SameRun(j) /\ run'[j].at = to
           /\ run'[j].todo = run[j].todo /\ run'[j].aged = run[j].aged
           /\ run'[j].drop = run[j].drop
           /\ run'[j].left = run[j].left /\ run'[j].out = run[j].out
<1> DEFINE x == [run[j] EXCEPT !.at = to]
<1>1. /\ run \in [Jobs -> RunRecords] /\ run[j] \in RunRecords
  BY DEF RecordsOK
<1>2. run' = [run EXCEPT ![j] = x]
  BY DEF Staged
<1>3. to \in RunStates
  BY DEF RunStates
<1>4. /\ x \in RunRecords /\ x.at = to /\ x.todo = run[j].todo
      /\ x.aged = run[j].aged /\ x.drop = run[j].drop /\ x.left = run[j].left
      /\ x.id = run[j].id /\ x.t = run[j].t /\ x.cutoff = run[j].cutoff
      /\ x.listed = run[j].listed /\ x.out = run[j].out
  BY <1>1, <1>3 DEF RunRecords
<1> HIDE DEF x
<1>5. RunKept(j) /\ run'[j] = x
  BY <1>1, <1>2, <1>4 DEF RunKept
<1>6. QED
  BY <1>4, <1>5 DEF SameRun

\* The end of a run, committed or not.
LEMMA EndMove ==
    ASSUME RecordsOK, NEW j \in Jobs, ReleaseLocks(j)
    PROVE  RunKept(j) /\ run'[j] = NoRun
BY NoRunType DEF RecordsOK, ReleaseLocks, RunKept

-----------------------------------------------------------------------------
\* The steps of a writer leave retention's state alone.
LEMMA WriterMoves ==
    ASSUME NEW w \in WriterJobs, WriterNext(w)
    PROVE  /\ UNCHANGED rvars /\ w \in Writers /\ Next
           /\ \/ \E b \in Batches : Call(w, b)
              \/ LockPartition(w) \/ FindPartition(w) \/ CreatePartition(w)
              \/ LockChain(w) \/ SeedHead(w) \/ InsertRow(w) \/ Commit(w) \/ Abort(w)
<1>1. w \in Writers
  BY DEF WriterJobs
<1>2. UNCHANGED rvars
  BY DEF WriterNext, CallNext, RetCall, RetInsert, WriterStep
<1>3. \/ \E b \in Batches : Call(w, b)
      \/ LockPartition(w) \/ FindPartition(w) \/ CreatePartition(w)
      \/ LockChain(w) \/ SeedHead(w) \/ InsertRow(w) \/ Commit(w) \/ Abort(w)
  BY DEF WriterNext, CallNext, RetCall, RetInsert
<1>4. Next
  BY <1>1, <1>3 DEF Next
<1>5. QED
  BY <1>1, <1>2, <1>3, <1>4

\* What every step of a run leaves alone, and what only its commit changes.
LEMMA RunMoves ==
    ASSUME NEW j \in Jobs, RunNext(j)
    PROVE  /\ UNCHANGED <<nextseq, clock, tx, call, today>>
           /\ CommitRun(j) \/ UNCHANGED <<table, anchor, parts, catalog, unlocked>>
<1>1. ASSUME NEW t \in Tables, BeginRun(j, t)
      PROVE  UNCHANGED <<nextseq, clock, tx, call, today, table, anchor, parts, catalog, unlocked>>
  BY <1>1 DEF BeginRun, RunLeaves
<1>2. ASSUME LockAged(j) \/ Relist(j) \/ Select(j) \/ OpenStream(j) \/ DropPartitions(j)
      PROVE  UNCHANGED <<nextseq, clock, tx, call, today, table, anchor, parts, catalog, unlocked>>
  BY <1>2 DEF LockAged, Relist, Select, OpenStream, DropPartitions, RunLeaves
<1>3. ASSUME PutPart(j) \/ PutManifest(j) \/ RunEnds(j)
      PROVE  UNCHANGED <<nextseq, clock, tx, call, today, table, anchor, parts, catalog, unlocked>>
  BY <1>3 DEF PutPart, PutManifest, RunEnds, EndRun, RunLeaves
<1>4. ASSUME CommitRun(j) PROVE UNCHANGED <<nextseq, clock, tx, call, today>>
  BY <1>4 DEF CommitRun
<1>5. QED
  BY <1>1, <1>2, <1>3, <1>4 DEF RunNext

\* The locks of everybody else survive a step.
LocksKept(v) ==
    \A u \in Writers \ {v} : \A p \in Partitions : plock[p] = u => plock'[p] = u

LEMMA WriterLocks ==
    ASSUME TypeOK, NEW w \in WriterJobs, WriterNext(w)
    PROVE  LocksKept(w)
<1>0. plock \in [Partitions -> Owners] /\ NoOwner \notin Writers
  BY WriterConstants DEF TypeOK
<1>1. ASSUME LockPartition(w) PROVE LocksKept(w)
  BY <1>0, <1>1 DEF LockPartition, LocksKept
<1>2. ASSUME Commit(w) \/ Abort(w) PROVE LocksKept(w)
  BY <1>0, <1>2 DEF Commit, Abort, EndTransaction, LocksKept
<1>3. ASSUME UNCHANGED plock PROVE LocksKept(w)
  BY <1>3 DEF LocksKept
<1>4. ASSUME NEW b \in Batches, Call(w, b) PROVE UNCHANGED plock
  BY <1>4 DEF Call, locks
<1>5. ASSUME FindPartition(w) \/ CreatePartition(w) \/ LockChain(w) \/ SeedHead(w) \/ InsertRow(w)
      PROVE UNCHANGED plock
  BY <1>5 DEF FindPartition, CreatePartition, LockChain, SeedHead, InsertRow, locks
<1>6. QED
  BY <1>1, <1>2, <1>3, <1>4, <1>5, WriterMoves

LEMMA RunLocks ==
    ASSUME TypeOK, NEW j \in Jobs, RunNext(j)
    PROVE  LocksKept(j)
<1>0. plock \in [Partitions -> Owners] /\ NoOwner \notin Writers
  BY WriterConstants DEF TypeOK
<1>1. ASSUME LockAged(j) PROVE LocksKept(j)
  BY <1>0, <1>1 DEF LockAged, LocksKept
<1>2. ASSUME ReleaseLocks(j) PROVE LocksKept(j)
  BY <1>0, <1>2 DEF ReleaseLocks, LocksKept
<1>3. ASSUME UNCHANGED plock PROVE LocksKept(j)
  BY <1>3 DEF LocksKept
<1>4. ASSUME NEW t \in Tables, BeginRun(j, t) PROVE UNCHANGED plock
  BY <1>4 DEF BeginRun
<1>5. ASSUME Relist(j) \/ Select(j) \/ OpenStream(j) \/ DropPartitions(j) PROVE UNCHANGED plock
  BY <1>5 DEF Relist, Select, OpenStream, DropPartitions
<1>6. ASSUME PutPart(j) \/ PutManifest(j) PROVE UNCHANGED plock \/ ReleaseLocks(j)
  BY <1>6 DEF PutPart, PutManifest, EndRun
<1>7. ASSUME RunEnds(j) \/ CommitRun(j) PROVE ReleaseLocks(j)
  BY <1>7 DEF RunEnds, EndRun, CommitRun
<1>8. QED
  BY <1>1, <1>2, <1>3, <1>4, <1>5, <1>6, <1>7 DEF RunNext

-----------------------------------------------------------------------------
\* The locks keep their type.
LEMMA RunLockTypes ==
    ASSUME TypeOK, RecordsOK, NEW j \in Jobs, OnTable(j), RunNext(j)
    PROVE  /\ plock' \in [Partitions -> Owners] /\ xlock' \in [Tables -> Owners]
           /\ slock' \in [Tables -> SUBSET Writers]
<1>0. /\ plock \in [Partitions -> Owners] /\ xlock \in [Tables -> Owners]
      /\ slock \in [Tables -> SUBSET Writers] /\ j \in Writers
      /\ Writers \subseteq Owners /\ NoOwner \in Owners
  BY RetentionConstants DEF TypeOK, Owners
<1> HIDE DEF Owners
<1> DEFINE Typed == /\ plock' \in [Partitions -> Owners] /\ xlock' \in [Tables -> Owners]
                    /\ slock' \in [Tables -> SUBSET Writers]
<1>1. ASSUME LockAged(j) PROVE Typed
  BY <1>0, <1>1 DEF LockAged
<1>2. ASSUME ReleaseLocks(j) PROVE Typed
  BY <1>0, <1>2 DEF ReleaseLocks
<1>3. ASSUME Select(j) PROVE Typed
  BY <1>0, <1>3 DEF Select
<1>4. ASSUME DropPartitions(j) PROVE Typed
  BY <1>0, <1>4 DEF DropPartitions
<1>5. ASSUME UNCHANGED <<plock, xlock, slock>> PROVE Typed
  BY <1>0, <1>5
<1>6. ASSUME NEW t \in Tables, BeginRun(j, t) PROVE UNCHANGED <<plock, xlock, slock>>
  BY <1>6 DEF BeginRun
<1>7. ASSUME Relist(j) \/ OpenStream(j) PROVE UNCHANGED <<plock, xlock, slock>>
  BY <1>7 DEF Relist, OpenStream
<1>8. ASSUME PutPart(j) \/ PutManifest(j)
      PROVE  UNCHANGED <<plock, xlock, slock>> \/ ReleaseLocks(j)
  BY <1>8 DEF PutPart, PutManifest, EndRun
<1>9. ASSUME RunEnds(j) \/ CommitRun(j) PROVE ReleaseLocks(j)
  BY <1>9 DEF RunEnds, EndRun, CommitRun
<1> HIDE DEF Typed
<1>10. Typed
  BY <1>1, <1>2, <1>3, <1>4, <1>5, <1>6, <1>7, <1>8, <1>9 DEF RunNext
<1>11. QED
  BY <1>10 DEF Typed

\* Rows of a part list are rows.
LEMMA PartsType ==
    ASSUME NEW out \in Seq(SUBSET Rows(Contents))
    PROVE  UNION Range(out) \in SUBSET Rows(Contents)
BY DEF Range

\* Every segment that a commit leaves in the catalog is one, and its rows have
\* seqs that the table's sequence has passed.
LEMMA CommitSegments ==
    ASSUME TypeOK, RecordsOK, SeqAhead, NEW j \in Jobs, run[j].at = "commit",
           run[j].t \in Tables,
           NEW s \in RecordSegment(j, catalog[run[j].t])
    PROVE  s \in Segments /\ SegmentRows(s) \in SUBSET Rows(Contents)
           /\ \A r \in SegmentRows(s) : r.seq < nextseq[run[j].t]
<1> DEFINE t == run[j].t
<1>1. catalog[t] \in SUBSET Segments /\ run[j] \in RunRecords
  BY DEF RecordsOK
<1>2. run[j].id \in Nat /\ run[j].out \in Seq(SUBSET Rows(Contents))
  BY <1>1 DEF RunRecords
<1>3. CASE s \in catalog[t]
  <2>1. s.parts \in Seq(SUBSET Rows(Contents))
    BY <1>1, <1>3 DEF Segments
  <2>2. SegmentRows(s) \in SUBSET Rows(Contents)
    BY <2>1, PartsType DEF SegmentRows
  <2>3. QED
    BY <1>1, <1>3, <2>2 DEF SeqAhead
<1>4. CASE s = [id |-> run[j].id, parts |-> run[j].out]
  <2>1. s \in Segments /\ s.parts = run[j].out
    BY <1>2, <1>4 DEF Segments
  <2>2. SegmentRows(s) = UNION Range(run[j].out)
    BY <2>1 DEF SegmentRows
  <2>3. \A r \in UNION Range(run[j].out) : r.seq < nextseq[t]
    BY DEF SeqAhead
  <2>4. QED
    BY <1>2, <2>1, <2>2, <2>3, PartsType
<1>5. QED
  BY <1>3, <1>4 DEF RecordSegment

LEMMA RunTypeStep ==
    ASSUME TypeInv, RecordsOK, SeqAhead, NEW j \in Jobs, OnTable(j), RunNext(j)
    PROVE  TypeInv'
<1> USE DEF TypeInv
<1>1. /\ plock' \in [Partitions -> Owners] /\ xlock' \in [Tables -> Owners]
      /\ slock' \in [Tables -> SUBSET Writers]
  BY RunLockTypes
<1>2. UNCHANGED <<nextseq, clock, tx, call, today>>
  BY RunMoves
<1>3. CASE UNCHANGED <<table, anchor, parts, catalog, unlocked>>
  <2>1. TypeOK'
    BY <1>1, <1>2, <1>3 DEF TypeOK, tx, call
  <2>2. TailInv'
    BY <1>2, <1>3 DEF TailInv, tx
  <2>3. QED
    BY <2>1, <2>2
<1>4. CASE CommitRun(j)
  <2> DEFINE t == run[j].t
             segs == RecordSegment(j, catalog[t])
             S == UNION {SegmentRows(s) : s \in segs}
  <2>1. /\ run[j].at = "commit" /\ t \in Tables
        /\ table' = [table EXCEPT ![t] = @ \ RowsIn(t, run[j].drop)]
        /\ parts' = parts \ run[j].drop
        /\ anchor' = [anchor EXCEPT ![t] = TailHash(S, @)]
    BY <1>4 DEF CommitRun, OnTable, AnchorOf
  <2>2. \A s \in segs : SegmentRows(s) \in SUBSET Rows(Contents)
                        /\ \A r \in SegmentRows(s) : r.seq < nextseq[t]
    BY <2>1, CommitSegments
  <2> HIDE DEF segs
  <2>3. S \in SUBSET Rows(Contents) /\ \A r \in S : r.seq < nextseq[t]
    BY <2>2
  <2>4. nextseq[t] \in Nat /\ anchor[t] \in Seq(Contents)
    BY <2>1 DEF TypeOK, Digests
  <2> HIDE DEF S
  <2>5. TailHash(S, anchor[t]) \in Seq(Contents)
    BY <2>3, <2>4, BoundedTail, TailHashType
  <2>6. anchor' \in [Tables -> Digests]
    BY <2>1, <2>5 DEF TypeOK, Digests
  <2>7. table' \in [Tables -> SUBSET Rows(Contents)] /\ parts' \subseteq Partitions
    BY <2>1 DEF TypeOK
  <2>8. TypeOK'
    BY <1>1, <1>2, <2>6, <2>7 DEF TypeOK, tx, call
  <2>9. ASSUME NEW u \in Tables PROVE HasTail(table'[u])
    <3>1. table'[u] \in SUBSET table[u]
      BY <2>1 DEF TypeOK
    <3>2. \A r \in table'[u] : r.seq < nextseq[u]
      BY <3>1 DEF SeqAhead
    <3>3. table'[u] \in SUBSET Rows(Contents) /\ nextseq[u] \in Nat
      BY <2>7 DEF TypeOK
    <3>4. QED
      BY <3>2, <3>3, BoundedTail
  <2>10. TailInv'
    BY <1>2, <2>9 DEF TailInv, tx
  <2>11. QED
    BY <2>8, <2>10
<1>5. QED
  BY <1>3, <1>4, RunMoves

-----------------------------------------------------------------------------
\* An object stays what it is.
StillHolds(t, id, n) == \A object : Holds(t, id, n, object) => Holds(t, id, n, object)'

\* No row enters a partition that i has locked.
NoEntry(i) ==
    \A t \in Tables : \A P \in SUBSET Partitions :
        (\A p \in P : plock[p] = i) => RowsIn(t, P)' \subseteq RowsIn(t, P)

\* _put_verified's put replaces one object and leaves the others.
LEMMA PutFacts ==
    ASSUME NEW j \in Jobs, NEW n, NEW object, Put(j, n, object),
           NEW t, NEW id, t = run[j].t, id = run[j].id
    PROVE  /\ Holds(t, id, n, object)'
           /\ DOMAIN store' = DOMAIN store \cup {<<t, id, n>>}
           /\ \A u, i, m : i # id \/ m # n => StillHolds(u, i, m)
<1> DEFINE name == <<t, id, n>>
<1>1. store' = [o \in DOMAIN store \cup {name} |-> IF o = name THEN object ELSE store[o]]
  BY DEF Put
<1>2. Holds(t, id, n, object)'
  BY <1>1 DEF Holds
<1>3. ASSUME NEW u, NEW i, NEW m, i # id \/ m # n PROVE StillHolds(u, i, m)
  BY <1>1, <1>3 DEF StillHolds, Holds
<1>4. QED
  BY <1>1, <1>2, <1>3

\* Which objects a step of a run may replace: those under the run's own id.
LEMMA RunPuts ==
    ASSUME NEW j \in Jobs, RunNext(j), NEW id, id # run[j].id, NEW t, NEW n
    PROVE  StillHolds(t, id, n)
<1>1. ASSUME UNCHANGED store PROVE StillHolds(t, id, n)
  BY <1>1 DEF StillHolds, Holds
<1>2. ASSUME NEW m, NEW object, Put(j, m, object) PROVE StillHolds(t, id, n)
  <2>1. \A u, i, l : i # run[j].id \/ l # m => StillHolds(u, i, l)
    BY <1>2, PutFacts
  <2>2. QED
    BY <2>1
<1>3. ASSUME NEW u \in Tables, BeginRun(j, u) PROVE UNCHANGED store
  BY <1>3 DEF BeginRun
<1>4. ASSUME LockAged(j) \/ Relist(j) \/ Select(j) \/ OpenStream(j) \/ DropPartitions(j)
      PROVE  UNCHANGED store
  BY <1>4 DEF LockAged, Relist, Select, OpenStream, DropPartitions
<1>5. ASSUME RunEnds(j) \/ CommitRun(j) PROVE UNCHANGED store
  BY <1>5 DEF RunEnds, CommitRun
<1>6. ASSUME PutPart(j) \/ PutManifest(j) PROVE \E m, object : Put(j, m, object)
  BY <1>6 DEF PutPart, PutManifest
<1>7. QED
  BY <1>1, <1>2, <1>3, <1>4, <1>5, <1>6 DEF RunNext

\* A writer commits rows only to partitions that it has locked itself.
LEMMA WriterNoEntry ==
    ASSUME TypeOK, NEW w \in WriterJobs, WriteLockInv(w), WriterNext(w), NEW i \in Jobs
    PROVE  NoEntry(i)
<1>0. w \in Writers /\ w # i
  BY DEF WriterJobs
<1>1. ASSUME UNCHANGED table PROVE NoEntry(i)
  BY <1>1 DEF NoEntry, RowsIn
<1>2. ASSUME Commit(w) PROVE NoEntry(i)
  <2>1. SUFFICES ASSUME NEW t \in Tables, NEW P \in SUBSET Partitions,
                        \A p \in P : plock[p] = i, NEW r \in RowsIn(t, P)'
                 PROVE  r \in RowsIn(t, P)
    BY DEF NoEntry
  <2>2. r \in table'[t] /\ RowPart(t, r) \in P
    BY <2>1 DEF RowsIn, RowPart
  <2>3. table'[t] = table[t] \cup pend[w][t]
    BY <1>2, <2>1 DEF Commit
  <2>4. r \notin pend[w][t]
    BY <1>0, <2>1, <2>2 DEF WriteLockInv
  <2>5. QED
    BY <2>2, <2>3, <2>4 DEF RowsIn
<1>3. ASSUME NEW b \in Batches, Call(w, b) PROVE UNCHANGED table
  BY <1>3 DEF Call, db
<1>4. ASSUME LockPartition(w) \/ FindPartition(w) \/ CreatePartition(w) \/ LockChain(w)
             \/ SeedHead(w) \/ InsertRow(w) \/ Abort(w)
      PROVE  UNCHANGED table
  BY <1>4 DEF LockPartition, FindPartition, CreatePartition, LockChain, SeedHead, InsertRow,
              Abort, db
<1>5. QED
  BY <1>1, <1>2, <1>3, <1>4, WriterMoves

\* A run only removes rows.
LEMMA RunNoEntry ==
    ASSUME TypeOK, NEW j \in Jobs, RunNext(j), NEW i \in Jobs
    PROVE  NoEntry(i) /\ \A t \in Tables : table'[t] \subseteq table[t]
<1>1. \A t \in Tables : table'[t] \subseteq table[t]
  <2>1. CASE CommitRun(j)
    BY <2>1 DEF CommitRun, TypeOK
  <2>2. QED
    BY <2>1, RunMoves
<1>2. QED
  BY <1>1 DEF NoEntry, RowsIn, RowPart

\* What a run relies on survives the steps of the others.
LEMMA RunUndisturbed ==
    ASSUME RecordsOK, NEW i \in Jobs, RunInv(i), NEW x, x = run[i], run'[i] = x,
           \A p \in Partitions : plock[p] = i => plock'[p] = i, NoEntry(i),
           x.at # "idle" => \A t, n : StillHolds(t, x.id, n)
    PROVE  RunInv(i)'
<1>1. CASE x.at = "idle"
  BY <1>1 DEF RunInv, RunLockInv, SeenInv, PutInv
<1>2. CASE x.at # "idle"
  <2>1. /\ x.t \in Tables /\ x.listed \in SUBSET Partitions /\ x.drop \in SUBSET Partitions
        /\ x.out \in Seq(SUBSET Rows(Contents)) /\ x.at \in RunStates
    BY <1>2 DEF RunInv, RunLockInv, RecordsOK, RunRecords
  <2>2. RunLockInv(i)'
    BY <2>1 DEF RunInv, RunLockInv
  <2>3. SeenInv(i)'
    <3>1. CASE x.at = "locking"
      BY <3>1 DEF SeenInv
    <3>2. CASE x.at # "locking"
      <4>1. \A p \in x.listed : plock[p] = i
        BY <1>2, <3>2 DEF RunInv, RunLockInv
      <4>2. \A P \in SUBSET x.listed : RowsIn(x.t, P)' \subseteq RowsIn(x.t, P)
        BY <2>1, <4>1 DEF NoEntry
      <4>3. Doomed(i) = RowsIn(x.t, x.drop \cap x.listed)
        BY DEF Doomed
      <4>4. Doomed(i)' = RowsIn(x.t, x.drop \cap x.listed)'
        BY DEF Doomed
      <4>5. Doomed(i)' \subseteq Doomed(i)
        BY <4>2, <4>3, <4>4
      <4>6. ASSUME x.at \in {"listed", "open", "archive", "drop", "commit"}, NEW s \in x.aged,
                   s.part \in x.listed, s.seqs = {}
            PROVE  RowsIn(x.t, {s.part})' = {}
        <5>1. RowsIn(x.t, {s.part}) = {}
          BY <4>6 DEF RunInv, SeenInv
        <5>2. QED
          BY <4>2, <4>6, <5>1
      <4>7. x.at \in {"open", "archive", "drop", "commit"} => x.drop \subseteq {s.part : s \in x.aged}
        BY DEF RunInv, SeenInv
      <4>8. /\ x.at = "archive" => Doomed(i) \subseteq x.left \cup UNION Range(x.out)
            /\ x.at \in {"drop", "commit"} => Doomed(i) \subseteq UNION Range(x.out)
        BY DEF RunInv, SeenInv
      <4>9. /\ x.at = "archive" => Doomed(i)' \subseteq x.left \cup UNION Range(x.out)
            /\ x.at \in {"drop", "commit"} => Doomed(i)' \subseteq UNION Range(x.out)
        BY <4>5, <4>8
      <4>10. QED
        BY <4>6, <4>7, <4>9 DEF SeenInv
    <3>3. QED
      BY <3>1, <3>2
  <2>4. PutInv(i)'
    <3>1. \A t, n, object : Holds(t, x.id, n, object) => Holds(t, x.id, n, object)'
      BY <1>2 DEF StillHolds
    <3>2. HoldsParts(x.t, x.id, x.out) => HoldsParts(x.t, x.id, x.out)'
      BY <3>1 DEF HoldsParts
    <3>3. /\ x.at \in {"locking", "listed", "open"} => x.out = <<>>
          /\ x.at \in {"archive", "drop", "commit"} => HoldsParts(x.t, x.id, x.out)
          /\ x.at \in {"drop", "commit"} /\ x.out # <<>> => Holds(x.t, x.id, 0, x.out)
      BY DEF RunInv, PutInv
    <3>4. QED
      BY <3>1, <3>2, <3>3 DEF PutInv
  <2>5. QED
    BY <2>2, <2>3, <2>4 DEF RunInv
<1>3. QED
  BY <1>1, <1>2

-----------------------------------------------------------------------------
\* The rows in a partition are the same while nobody commits.
LEMMA SameRows ==
    ASSUME UNCHANGED table
    PROVE  \A t, P : RowsIn(t, P)' = RowsIn(t, P)
BY DEF RowsIn, RowPart

\* A run that has just begun, or is taking its locks, relies on those alone.
LEMMA LockingRun ==
    ASSUME NEW j \in Jobs, run'[j].at = "locking", run'[j].out = <<>>
    PROVE  SeenInv(j)' /\ PutInv(j)'
BY DEF SeenInv, PutInv

LEMMA BeginKeepsRun ==
    ASSUME TypeOK, RecordsOK, NEW j \in Jobs, NEW t \in Tables, BeginRun(j, t)
    PROVE  RunInv(j)'
<1>1. /\ run'[j].at = "locking" /\ run'[j].t = t
      /\ run'[j].todo = run'[j].listed /\ run'[j].out = <<>>
  BY BeginMove
<1>2. RunLockInv(j)'
  BY <1>1 DEF RunLockInv
<1>3. QED
  BY <1>1, <1>2, LockingRun DEF RunInv

LEMMA LockKeepsRun ==
    ASSUME TypeOK, RecordsOK, NEW j \in Jobs, RunInv(j), LockAged(j)
    PROVE  RunInv(j)'
<1>1. /\ SameRun(j) /\ run[j].at = "locking" /\ run'[j].at = "locking"
      /\ run'[j].out = run[j].out
  BY LockedMove
<1>2. PICK p \in run[j].todo :
         plock' = [plock EXCEPT ![p] = j] /\ run'[j].todo = run[j].todo \ {p}
  BY LockedMove
<1>3. /\ run[j].t \in Tables /\ run[j].todo \subseteq run[j].listed
      /\ \A q \in run[j].listed \ run[j].todo : plock[q] = j
      /\ run[j].out = <<>> /\ run[j].listed \in SUBSET Partitions
  BY <1>1 DEF RunInv, RunLockInv, PutInv, RecordsOK, RunRecords
<1>4. plock \in [Partitions -> Owners]
  BY DEF TypeOK
<1>5. \A q \in run[j].listed \ (run[j].todo \ {p}) : plock'[q] = j
  BY <1>2, <1>3, <1>4
<1>6. RunLockInv(j)'
  BY <1>1, <1>2, <1>3, <1>5 DEF RunLockInv, SameRun
<1>7. QED
  BY <1>1, <1>3, <1>6, LockingRun DEF RunInv

\* Once a run has its locks it keeps them to its end.
LEMMA HeldLocks ==
    ASSUME RecordsOK, NEW j \in Jobs, RunInv(j), run[j].at # "idle", run[j].todo = {},
           SameRun(j), run'[j].todo = {}, UNCHANGED plock
    PROVE  RunLockInv(j)'
BY DEF RunInv, RunLockInv, SameRun

LEMMA RelistKeepsRun ==
    ASSUME TypeOK, RecordsOK, NEW j \in Jobs, RunInv(j), Relist(j)
    PROVE  RunInv(j)'
<1>0. RunLockInv(j) /\ OnTable(j) /\ PutInv(j) /\ UNCHANGED <<plock, table>>
  BY DEF RunInv, RunLockInv, OnTable, Relist
<1>1. /\ SameRun(j) /\ run[j].at = "locking" /\ run[j].todo = {}
      /\ run'[j].at = "listed" /\ run'[j].todo = {} /\ run'[j].out = run[j].out
      /\ \A s \in run'[j].aged : s.seqs = Seqs(RowsIn(run[j].t, {s.part}))
  BY <1>0, RelistMove
<1>2. RunLockInv(j)'
  BY <1>0, <1>1, HeldLocks
<1>3. PICK t : t = run[j].t /\ run'[j].t = t
  BY <1>1 DEF SameRun
<1>4. \A P : RowsIn(t, P)' = RowsIn(t, P)
  BY <1>0, SameRows
<1>5. \A s \in run'[j].aged : s.seqs = {} => RowsIn(t, {s.part}) = {}
  BY <1>1, <1>3 DEF Seqs
<1>6. \A s \in run'[j].aged : s.seqs = {} => RowsIn(t, {s.part})' = {}
  BY <1>4, <1>5
<1>7. SeenInv(j)'
  BY <1>1, <1>3, <1>6 DEF SeenInv
<1>8. PutInv(j)'
  BY <1>0, <1>1 DEF PutInv
<1>9. QED
  BY <1>2, <1>7, <1>8 DEF RunInv

LEMMA SelectKeepsRun ==
    ASSUME TypeOK, RecordsOK, NEW j \in Jobs, RunInv(j), Select(j)
    PROVE  RunInv(j)'
<1>0. RunLockInv(j) /\ SeenInv(j) /\ PutInv(j) /\ UNCHANGED <<plock, table, store>>
  BY DEF RunInv, Select
<1>1. PICK x, y : x = run[j] /\ y = run'[j]
  OBVIOUS
<1>2. /\ SameRun(j) /\ x.at = "listed" /\ y.at \in {"open", "drop"}
      /\ y.todo = x.todo /\ y.aged = x.aged /\ y.out = x.out
      /\ y.drop \subseteq {s.part : s \in x.aged}
      /\ y.at = "drop" => \A s \in x.aged : s.part \in y.drop => s.seqs = {}
  BY <1>1, SelectMove
<1>3. /\ y.t = x.t /\ y.listed = x.listed
  BY <1>1, <1>2 DEF SameRun
<1>4. x.todo = {} /\ x.out = <<>>
  BY <1>0, <1>1, <1>2 DEF RunLockInv, PutInv
<1>5. RunLockInv(j)'
  BY <1>0, <1>1, <1>2, <1>4, HeldLocks
<1>6. \A P : RowsIn(x.t, P)' = RowsIn(x.t, P)
  BY <1>0, SameRows
<1>7. \A s \in x.aged : s.part \in x.listed /\ s.seqs = {} => RowsIn(x.t, {s.part}) = {}
  BY <1>0, <1>1, <1>2 DEF SeenInv
<1>8. \A s \in y.aged : s.part \in y.listed /\ s.seqs = {} => RowsIn(y.t, {s.part})' = {}
  BY <1>2, <1>3, <1>6, <1>7
<1>9. ASSUME y.at = "drop" PROVE RowsIn(y.t, y.drop \cap y.listed)' = {}
  <2>1. SUFFICES ASSUME NEW r \in RowsIn(x.t, y.drop \cap x.listed) PROVE FALSE
    BY <1>3, <1>6
  <2>2. PICK s \in x.aged : s.part = RowPart(x.t, r)
    BY <1>2, <2>1 DEF RowsIn
  <2>3. r \in RowsIn(x.t, {s.part}) /\ s.part \in y.drop /\ s.part \in x.listed
    BY <2>1, <2>2 DEF RowsIn
  <2>4. QED
    BY <1>2, <1>7, <1>9, <2>3
<1>10. Doomed(j)' = RowsIn(y.t, y.drop \cap y.listed)'
  BY <1>1 DEF Doomed
<1>11. SeenInv(j)'
  BY <1>1, <1>2, <1>8, <1>9, <1>10 DEF SeenInv
<1>12. PutInv(j)'
  BY <1>1, <1>2, <1>4 DEF PutInv, HoldsParts
<1>13. QED
  BY <1>5, <1>11, <1>12 DEF RunInv

LEMMA OpenKeepsRun ==
    ASSUME TypeOK, RecordsOK, NEW j \in Jobs, RunInv(j), OpenStream(j)
    PROVE  RunInv(j)'
<1>0. RunLockInv(j) /\ OnTable(j) /\ SeenInv(j) /\ PutInv(j) /\ UNCHANGED <<plock, table, store>>
  BY DEF RunInv, RunLockInv, OnTable, OpenStream
<1>1. PICK x, y : x = run[j] /\ y = run'[j]
  OBVIOUS
<1>2. /\ SameRun(j) /\ x.at = "open" /\ y.at = "archive"
      /\ y.todo = x.todo /\ y.aged = x.aged /\ y.out = x.out /\ y.drop = x.drop
      /\ y.left = RowsIn(x.t, x.drop \cap {s.part : s \in {a \in x.aged : a.seqs # {}}})
  BY <1>0, <1>1, OpenMove
<1>3. /\ y.t = x.t /\ y.listed = x.listed
  BY <1>1, <1>2 DEF SameRun
<1>4. x.todo = {} /\ x.out = <<>>
  BY <1>0, <1>1, <1>2 DEF RunLockInv, PutInv
<1>5. RunLockInv(j)'
  BY <1>0, <1>1, <1>2, <1>4, HeldLocks
<1>6. \A P : RowsIn(x.t, P)' = RowsIn(x.t, P)
  BY <1>0, SameRows
<1>7. /\ \A s \in x.aged : s.part \in x.listed /\ s.seqs = {} => RowsIn(x.t, {s.part}) = {}
      /\ x.drop \subseteq {s.part : s \in x.aged}
  BY <1>0, <1>1, <1>2 DEF SeenInv
<1>8. \A s \in y.aged : s.part \in y.listed /\ s.seqs = {} => RowsIn(y.t, {s.part})' = {}
  BY <1>2, <1>3, <1>6, <1>7
<1>9. RowsIn(x.t, x.drop \cap x.listed) \subseteq y.left
  <2>1. SUFFICES ASSUME NEW r \in RowsIn(x.t, x.drop \cap x.listed) PROVE r \in y.left
    OBVIOUS
  <2>2. PICK s \in x.aged : s.part = RowPart(x.t, r)
    BY <1>7, <2>1 DEF RowsIn
  <2>3. r \in RowsIn(x.t, {s.part}) /\ s.part \in x.drop /\ s.part \in x.listed
    BY <2>1, <2>2 DEF RowsIn
  <2>4. s.seqs # {}
    BY <1>7, <2>3
  <2>5. QED
    BY <1>2, <2>2, <2>3, <2>4 DEF RowsIn
<1>10. Doomed(j)' = RowsIn(y.t, y.drop \cap y.listed)'
  BY <1>1 DEF Doomed
<1>11. Doomed(j)' \subseteq y.left
  BY <1>2, <1>3, <1>6, <1>9, <1>10
<1>12. SeenInv(j)'
  BY <1>1, <1>2, <1>7, <1>8, <1>11 DEF SeenInv
<1>13. PutInv(j)'
  BY <1>1, <1>2, <1>4 DEF PutInv, HoldsParts
<1>14. QED
  BY <1>5, <1>12, <1>13 DEF RunInv

\* A part more, and what it holds less to be archived.
LEMMA RangeAppend ==
    ASSUME NEW T, NEW out \in Seq(T), NEW body \in T
    PROVE  /\ UNION Range(Append(out, body)) = (UNION Range(out)) \cup body
           /\ Len(Append(out, body)) = Len(out) + 1 /\ Append(out, body)[Len(out) + 1] = body
           /\ \A n \in 1..Len(out) : Append(out, body)[n] = out[n]
<1> DEFINE s == Append(out, body)
<1>1. /\ Len(out) \in Nat /\ s \in Seq(T) /\ Len(s) = Len(out) + 1 /\ s[Len(out) + 1] = body
      /\ \A n \in 1..Len(out) : s[n] = out[n]
  OBVIOUS
<1>2. DOMAIN s = 1..(Len(out) + 1) /\ DOMAIN out = 1..Len(out)
  BY <1>1
<1> HIDE DEF s
<1>3. Range(s) = Range(out) \cup {body}
  <2>1. ASSUME NEW y \in Range(s) PROVE y \in Range(out) \cup {body}
    <3>1. PICK n \in 1..(Len(out) + 1) : y = s[n]
      BY <1>2, <2>1 DEF Range
    <3>2. n \in 1..Len(out) \/ n = Len(out) + 1
      BY <1>1, <3>1
    <3>3. QED
      BY <1>1, <1>2, <3>1, <3>2 DEF Range
  <2>2. ASSUME NEW y \in Range(out) PROVE y \in Range(s)
    <3>1. PICK n \in 1..Len(out) : y = out[n]
      BY <1>2, <2>2 DEF Range
    <3>2. n \in DOMAIN s /\ y = s[n]
      BY <1>1, <1>2, <3>1
    <3>3. QED
      BY <3>2 DEF Range
  <2>3. body \in Range(s)
    <3>1. Len(out) + 1 \in DOMAIN s
      BY <1>1, <1>2
    <3>2. QED
      BY <1>1, <3>1 DEF Range
  <2>4. QED
    BY <2>1, <2>2, <2>3
<1>4. \A R : UNION (R \cup {body}) = (UNION R) \cup body
  BY Zenon
<1>5. UNION Range(s) = (UNION Range(out)) \cup body
  BY <1>3, <1>4
<1>6. QED
  BY <1>1, <1>5 DEF s

\* The rows of the parts, with one part more.
UnionGrows(out, body) == UNION Range(Append(out, body)) = (UNION Range(out)) \cup body

LEMMA UnionAppend ==
    ASSUME NEW T, NEW out \in Seq(T), NEW body \in T
    PROVE  UnionGrows(out, body)
BY RangeAppend DEF UnionGrows

\* The outcomes of a put: it reads back, or the run ends.
LEMMA PartOutcome ==
    ASSUME NEW j \in Jobs, PutPart(j)
    PROVE  /\ run[j].at = "archive" /\ UNCHANGED table
           /\ \/ ReleaseLocks(j)
              \/ \E body \in SUBSET run[j].left :
                    /\ Put(j, Len(run[j].out) + 1, body) /\ UNCHANGED plock /\ Parted(j, body)
                    /\ body = NextPart(run[j].left)
<1> DEFINE body == NextPart(run[j].left)
<1>1. body \in SUBSET run[j].left
  BY DEF NextPart
<1>2. PICK object \in {body, Damaged} :
        /\ Put(j, Len(run[j].out) + 1, object)
        /\ IF ReadBack(object, body)
           THEN /\ Parted(j, body)
                /\ UNCHANGED <<table, anchor, parts, plock, xlock, slock, catalog>>
           ELSE EndRun(j)
  BY DEF PutPart, Parted
<1>3. run[j].at = "archive"
  BY DEF PutPart
<1>3a. body = NextPart(run[j].left)
  OBVIOUS
<1> HIDE DEF body
<1>4. CASE ReadBack(object, body)
  BY <1>1, <1>2, <1>3, <1>3a, <1>4 DEF ReadBack
<1>5. CASE ~ReadBack(object, body)
  BY <1>2, <1>3, <1>5 DEF EndRun
<1>6. QED
  BY <1>4, <1>5

LEMMA ManifestOutcome ==
    ASSUME NEW j \in Jobs, PutManifest(j)
    PROVE  /\ run[j].at = "archive" /\ run[j].left = {} /\ UNCHANGED table
           /\ \/ ReleaseLocks(j)
              \/ Put(j, 0, run[j].out) /\ UNCHANGED plock /\ Staged(j, "drop")
<1>1. PICK object \in {run[j].out, Damaged} :
        /\ Put(j, 0, object)
        /\ IF ReadBack(object, run[j].out)
           THEN /\ Staged(j, "drop")
                /\ UNCHANGED <<table, anchor, parts, plock, xlock, slock, catalog>>
           ELSE EndRun(j)
  BY DEF PutManifest, Staged
<1>2. run[j].at = "archive" /\ run[j].left = {}
  BY DEF PutManifest
<1>3. CASE ReadBack(object, run[j].out)
  BY <1>1, <1>2, <1>3 DEF ReadBack
<1>4. CASE ~ReadBack(object, run[j].out)
  BY <1>1, <1>2, <1>4 DEF EndRun
<1>5. QED
  BY <1>3, <1>4

\* A run that has ended relies on nothing.
LEMMA EndKeepsRun ==
    ASSUME RecordsOK, NEW j \in Jobs, ReleaseLocks(j)
    PROVE  RunInv(j)'
<1>1. run'[j].at = "idle"
  BY EndMove, NoRunType
<1>2. QED
  BY <1>1 DEF RunInv, RunLockInv, SeenInv, PutInv

\* A step from "open" on, from the record x to y, changes no lock and no row and
\* keeps what the run has seen.
RunsOn(j, x, y) ==
    /\ UNCHANGED <<plock, table>> /\ SameRun(j) /\ x = run[j] /\ y = run'[j]
    /\ x.at \in {"open", "archive", "drop", "commit"}
    /\ y.todo = x.todo /\ y.aged = x.aged /\ y.drop = x.drop

StillSees(j, x, y) ==
    /\ RunLockInv(j)' /\ y.t = x.t /\ y.listed = x.listed /\ y.id = x.id
    /\ \A s \in y.aged : s.part \in y.listed /\ s.seqs = {} => RowsIn(y.t, {s.part})' = {}
    /\ y.drop \subseteq {s.part : s \in y.aged}
    /\ Doomed(j)' = Doomed(j)

LEMMA StillSeen ==
    ASSUME RecordsOK, NEW j \in Jobs, RunInv(j), NEW x, NEW y, RunsOn(j, x, y)
    PROVE  StillSees(j, x, y)
<1>0. /\ UNCHANGED <<plock, table>> /\ SameRun(j) /\ x = run[j] /\ y = run'[j]
      /\ x.at \in {"open", "archive", "drop", "commit"}
      /\ y.todo = x.todo /\ y.aged = x.aged /\ y.drop = x.drop
  BY DEF RunsOn
<1>1. x.todo = {} /\ y.t = x.t /\ y.listed = x.listed /\ y.id = x.id
  BY <1>0 DEF RunInv, RunLockInv, SameRun
<1>2. RunLockInv(j)'
  BY <1>0, <1>1, HeldLocks
<1>3. \A P : RowsIn(x.t, P)' = RowsIn(x.t, P)
  BY <1>0, SameRows
<1>4. /\ \A s \in x.aged : s.part \in x.listed /\ s.seqs = {} => RowsIn(x.t, {s.part}) = {}
      /\ x.drop \subseteq {s.part : s \in x.aged}
  BY <1>0 DEF RunInv, SeenInv
<1>5. \A s \in y.aged : s.part \in y.listed /\ s.seqs = {} => RowsIn(y.t, {s.part})' = {}
  BY <1>0, <1>1, <1>3, <1>4
<1>6. Doomed(j)' = RowsIn(y.t, y.drop \cap y.listed)' /\ Doomed(j) = RowsIn(x.t, x.drop \cap x.listed)
  BY <1>0 DEF Doomed
<1>7. Doomed(j)' = Doomed(j)
  BY <1>0, <1>1, <1>3, <1>6
<1>8. QED
  BY <1>0, <1>1, <1>2, <1>4, <1>5, <1>7 DEF StillSees

LEMMA PartKeepsRun ==
    ASSUME TypeOK, RecordsOK, NEW j \in Jobs, RunInv(j), PutPart(j)
    PROVE  RunInv(j)'
<1>1. CASE ReleaseLocks(j)
  BY <1>1, EndKeepsRun
<1>2. ASSUME NEW body \in SUBSET run[j].left, Put(j, Len(run[j].out) + 1, body), UNCHANGED plock,
             Parted(j, body)
      PROVE  RunInv(j)'
  <2>0. run[j].at = "archive" /\ UNCHANGED table
    BY PartOutcome
  <2>1. PICK x, y : x = run[j] /\ y = run'[j]
    OBVIOUS
  <2>2. /\ SameRun(j) /\ y.at = "archive" /\ y.todo = x.todo /\ y.aged = x.aged
        /\ y.drop = x.drop /\ y.left = x.left \ body /\ y.out = Append(x.out, body)
    BY <1>2, <2>0, <2>1, PartMove
  <2>3. StillSees(j, x, y)
    <3>1. RunsOn(j, x, y)
      BY <1>2, <2>0, <2>1, <2>2 DEF RunsOn
    <3>2. QED
      BY <3>1, StillSeen
  <2>4. x.out \in Seq(SUBSET Rows(Contents)) /\ x.left \in SUBSET Rows(Contents)
    BY <2>1 DEF RecordsOK, RunRecords
  <2>5. body \in SUBSET Rows(Contents)
    BY <2>1, <2>4
  <2>6. /\ UNION Range(y.out) = (UNION Range(x.out)) \cup body
        /\ Len(y.out) = Len(x.out) + 1 /\ y.out[Len(x.out) + 1] = body
        /\ \A n \in 1..Len(x.out) : y.out[n] = x.out[n]
    <3> DEFINE T == SUBSET Rows(Contents)
               z == Append(x.out, body)
    <3>1. x.out \in Seq(T) /\ body \in T /\ y.out = z
      BY <2>2, <2>4, <2>5
    <3> HIDE DEF T
    <3>2. /\ UNION Range(z) = (UNION Range(x.out)) \cup body
          /\ Len(z) = Len(x.out) + 1 /\ z[Len(x.out) + 1] = body
          /\ \A n \in 1..Len(x.out) : z[n] = x.out[n]
      BY <3>1, RangeAppend
    <3> HIDE DEF z
    <3>3. QED
      BY <3>1, <3>2
  <2>7. Doomed(j) \subseteq x.left \cup UNION Range(x.out)
    BY <2>0, <2>1 DEF RunInv, SeenInv
  <2>8. Doomed(j)' \subseteq y.left \cup UNION Range(y.out)
    <3> DEFINE U == UNION Range(x.out)
               V == UNION Range(y.out)
    <3>1. V = U \cup body /\ Doomed(j) \subseteq x.left \cup U
      BY <2>6, <2>7
    <3> HIDE DEF U, V
    <3>2. Doomed(j)' \subseteq y.left \cup V
      BY <2>2, <2>3, <3>1 DEF StillSees
    <3>3. QED
      BY <3>2 DEF V
  <2>9. SeenInv(j)'
    BY <2>1, <2>2, <2>3, <2>8 DEF SeenInv, StillSees
  <2>10. /\ Holds(x.t, x.id, Len(x.out) + 1, body)'
         /\ \A m : m # Len(x.out) + 1 => StillHolds(x.t, x.id, m)
    BY <1>2, <2>1, PutFacts
  <2>11. HoldsParts(x.t, x.id, x.out)
    BY <2>0, <2>1 DEF RunInv, PutInv
  <2>12. ASSUME NEW n \in 1..Len(y.out) PROVE Holds(x.t, x.id, n, y.out[n])'
    <3>1. Len(x.out) \in Nat
      BY <2>4
    <3>2. CASE n = Len(x.out) + 1
      BY <2>6, <2>10, <3>2
    <3>3. CASE n # Len(x.out) + 1
      <4>1. n \in 1..Len(x.out) /\ y.out[n] = x.out[n]
        BY <2>6, <3>1, <3>3
      <4>2. Holds(x.t, x.id, n, y.out[n])
        BY <2>11, <4>1 DEF HoldsParts
      <4>3. QED
        BY <2>10, <3>3, <4>2 DEF StillHolds
    <3>4. QED
      BY <3>2, <3>3
  <2>14. HoldsParts(y.t, y.id, y.out)'
    BY <2>3, <2>12 DEF HoldsParts, StillSees
  <2>15. PutInv(j)'
    BY <2>1, <2>2, <2>14 DEF PutInv
  <2>16. QED
    BY <2>3, <2>9, <2>15 DEF RunInv, StillSees
<1>3. QED
  BY <1>1, <1>2, PartOutcome

LEMMA ManifestKeepsRun ==
    ASSUME TypeOK, RecordsOK, NEW j \in Jobs, RunInv(j), PutManifest(j)
    PROVE  RunInv(j)'
<1>1. CASE ReleaseLocks(j)
  BY <1>1, EndKeepsRun
<1>2. ASSUME Put(j, 0, run[j].out), UNCHANGED plock, Staged(j, "drop")
      PROVE  RunInv(j)'
  <2>0. run[j].at = "archive" /\ run[j].left = {} /\ UNCHANGED table
    BY ManifestOutcome
  <2>1. PICK x, y : x = run[j] /\ y = run'[j]
    OBVIOUS
  <2>2. /\ SameRun(j) /\ y.at = "drop" /\ y.todo = x.todo /\ y.aged = x.aged
        /\ y.drop = x.drop /\ y.out = x.out
    BY <1>2, <2>1, StageMove
  <2>3. StillSees(j, x, y)
    <3>1. RunsOn(j, x, y)
      BY <1>2, <2>0, <2>1, <2>2 DEF RunsOn
    <3>2. QED
      BY <3>1, StillSeen
  <2>4. Doomed(j) \subseteq x.left \cup UNION Range(x.out) /\ HoldsParts(x.t, x.id, x.out)
    BY <2>0, <2>1 DEF RunInv, SeenInv, PutInv
  <2>5. Doomed(j)' \subseteq UNION Range(y.out)
    BY <2>0, <2>1, <2>2, <2>3, <2>4 DEF StillSees
  <2>6. SeenInv(j)'
    BY <2>1, <2>2, <2>3, <2>5 DEF SeenInv, StillSees
  <2>7. /\ Holds(x.t, x.id, 0, x.out)' /\ \A m : m # 0 => StillHolds(x.t, x.id, m)
    BY <1>2, <2>1, PutFacts
  <2>8. x.out \in Seq(SUBSET Rows(Contents))
    BY <2>1 DEF RecordsOK, RunRecords
  <2>9. \A n \in 1..Len(x.out) : n # 0
    BY <2>8
  <2>10. HoldsParts(x.t, x.id, x.out)'
    BY <2>4, <2>7, <2>9 DEF HoldsParts, StillHolds
  <2>12. HoldsParts(y.t, y.id, y.out)' /\ Holds(y.t, y.id, 0, y.out)'
    BY <2>2, <2>3, <2>7, <2>10 DEF StillSees
  <2>13. PutInv(j)'
    BY <2>1, <2>2, <2>12 DEF PutInv
  <2>14. QED
    BY <2>3, <2>6, <2>13 DEF RunInv, StillSees
<1>3. QED
  BY <1>1, <1>2, ManifestOutcome

LEMMA DropKeepsRun ==
    ASSUME TypeOK, RecordsOK, NEW j \in Jobs, RunInv(j), DropPartitions(j)
    PROVE  RunInv(j)'
<1>0. /\ run[j].at = "drop" /\ UNCHANGED <<plock, table, store>>
      /\ Staged(j, "commit")
  BY DEF DropPartitions, Staged
<1>1. PICK x, y : x = run[j] /\ y = run'[j]
  OBVIOUS
<1>2. /\ SameRun(j) /\ y.at = "commit" /\ y.todo = x.todo /\ y.aged = x.aged
      /\ y.drop = x.drop /\ y.out = x.out
  BY <1>0, <1>1, StageMove
<1>3. StillSees(j, x, y)
  <2>1. RunsOn(j, x, y)
    BY <1>0, <1>1, <1>2 DEF RunsOn
  <2>2. QED
    BY <2>1, StillSeen
<1>4. /\ Doomed(j) \subseteq UNION Range(x.out) /\ HoldsParts(x.t, x.id, x.out)
      /\ x.out # <<>> => Holds(x.t, x.id, 0, x.out)
  BY <1>0, <1>1 DEF RunInv, SeenInv, PutInv
<1>5. SeenInv(j)'
  BY <1>1, <1>2, <1>3, <1>4 DEF SeenInv, StillSees
<1>7. HoldsParts(y.t, y.id, y.out)' /\ (y.out # <<>> => Holds(y.t, y.id, 0, y.out)')
  BY <1>0, <1>2, <1>3, <1>4 DEF HoldsParts, Holds, StillSees
<1>8. PutInv(j)'
  BY <1>1, <1>2, <1>7 DEF PutInv
<1>9. QED
  BY <1>3, <1>5, <1>8 DEF RunInv, StillSees

\* What a run relies on is what its own steps establish.
LEMMA RunKeepsRun ==
    ASSUME TypeOK, RecordsOK, NEW j \in Jobs, RunInv(j), RunNext(j)
    PROVE  RunInv(j)'
<1>1. ASSUME RunEnds(j) \/ CommitRun(j) PROVE ReleaseLocks(j)
  BY <1>1 DEF RunEnds, EndRun, CommitRun
<1>2. QED
  BY <1>1, BeginKeepsRun, LockKeepsRun, RelistKeepsRun, SelectKeepsRun, OpenKeepsRun,
     PartKeepsRun, ManifestKeepsRun, DropKeepsRun, EndKeepsRun DEF RunNext

-----------------------------------------------------------------------------
\* Where a step of a run takes its record, its id and the objects.
RunGoes(j) ==
    \/ run'[j].at = "idle" /\ UNCHANGED runs
    \/ /\ run[j].at = "idle" /\ UNCHANGED <<store, catalog>>
       /\ run'[j].id = runs + 1 /\ runs' = runs + 1 /\ runs' \in 0..MaxRuns
       /\ run'[j].t \in Tables
    \/ run[j].at # "idle" /\ SameRun(j) /\ UNCHANGED <<runs, catalog>>

LEMMA RunSteps ==
    ASSUME TypeOK, RecordsOK, NEW j \in Jobs, OnTable(j), RunNext(j)
    PROVE  RunKept(j) /\ RunGoes(j)
<1>1. ASSUME NEW t \in Tables, BeginRun(j, t) PROVE RunKept(j) /\ RunGoes(j)
  <2>1. UNCHANGED <<store, catalog>>
    BY <1>1 DEF BeginRun
  <2>2. QED
    BY <1>1, <2>1, BeginMove DEF RunGoes
<1>2. ASSUME ReleaseLocks(j), UNCHANGED runs PROVE RunKept(j) /\ RunGoes(j)
  BY <1>2, EndMove, NoRunType DEF RunGoes
<1>3. ASSUME LockAged(j) PROVE RunKept(j) /\ RunGoes(j)
  <2>1. UNCHANGED <<runs, catalog>>
    BY <1>3 DEF LockAged
  <2>2. QED
    BY <1>3, <2>1, LockedMove DEF RunGoes
<1>4. ASSUME Relist(j) PROVE RunKept(j) /\ RunGoes(j)
  <2>1. UNCHANGED <<runs, catalog>>
    BY <1>4 DEF Relist
  <2>2. QED
    BY <1>4, <2>1, RelistMove DEF RunGoes
<1>5. ASSUME Select(j) PROVE RunKept(j) /\ RunGoes(j)
  <2>1. UNCHANGED <<runs, catalog>>
    BY <1>5 DEF Select
  <2>2. QED
    BY <1>5, <2>1, SelectMove DEF RunGoes
<1>6. ASSUME OpenStream(j) PROVE RunKept(j) /\ RunGoes(j)
  <2>1. UNCHANGED <<runs, catalog>>
    BY <1>6 DEF OpenStream
  <2>2. QED
    BY <1>6, <2>1, OpenMove DEF RunGoes
<1>7. ASSUME PutPart(j) PROVE RunKept(j) /\ RunGoes(j)
  <2>1. UNCHANGED runs /\ UNCHANGED catalog /\ run[j].at = "archive"
    BY <1>7 DEF PutPart, EndRun
  <2>2. ASSUME NEW body \in SUBSET run[j].left, Parted(j, body) PROVE RunKept(j) /\ RunGoes(j)
    BY <2>1, <2>2, PartMove DEF RunGoes
  <2>3. QED
    BY <1>2, <1>7, <2>1, <2>2, PartOutcome
<1>8. ASSUME PutManifest(j) PROVE RunKept(j) /\ RunGoes(j)
  <2>1. UNCHANGED runs /\ UNCHANGED catalog /\ run[j].at = "archive"
    BY <1>8 DEF PutManifest, EndRun
  <2>2. ASSUME Staged(j, "drop") PROVE RunKept(j) /\ RunGoes(j)
    BY <2>1, <2>2, StageMove DEF RunGoes
  <2>3. QED
    BY <1>2, <1>8, <2>1, <2>2, ManifestOutcome
<1>9. ASSUME DropPartitions(j) PROVE RunKept(j) /\ RunGoes(j)
  <2>1. UNCHANGED runs /\ UNCHANGED catalog /\ run[j].at = "drop" /\ Staged(j, "commit")
    BY <1>9 DEF DropPartitions, Staged
  <2>2. QED
    BY <2>1, StageMove DEF RunGoes
<1>10. ASSUME RunEnds(j) \/ CommitRun(j) PROVE ReleaseLocks(j) /\ UNCHANGED runs
  BY <1>10 DEF RunEnds, EndRun, CommitRun
<1>11. QED
  BY <1>1, <1>2, <1>3, <1>4, <1>5, <1>6, <1>7, <1>8, <1>9, <1>10 DEF RunNext

LEMMA RecordsStep ==
    ASSUME TypeOK, RecordsOK, IdInv, SeqAhead, NEW j \in Jobs, OnTable(j), RunNext(j)
    PROVE  RecordsOK'
<1>1. run' \in [Jobs -> RunRecords] /\ RunGoes(j)
  BY RunSteps DEF RunKept
<1>2. today' \in Int /\ runs' \in 0..MaxRuns
  <2>1. UNCHANGED today
    BY RunMoves
  <2>2. QED
    BY <1>1, <2>1 DEF RecordsOK, RunGoes
<1>3. DOMAIN store' \subseteq Tables \X (1..MaxRuns) \X Nat
  <2>1. CASE UNCHANGED store
    BY <2>1 DEF RecordsOK
  <2>2. ASSUME NEW n \in Nat, NEW object, Put(j, n, object), run[j].at # "idle"
        PROVE  DOMAIN store' \subseteq Tables \X (1..MaxRuns) \X Nat
    <3>1. run[j].t \in Tables /\ run[j].id \in 1..MaxRuns
      BY <2>2, RetentionConstants DEF OnTable, IdInv, RecordsOK
    <3>2. DOMAIN store' = DOMAIN store \cup {<<run[j].t, run[j].id, n>>}
      BY <2>2, PutFacts
    <3>3. QED
      BY <3>1, <3>2 DEF RecordsOK
  <2>3. ASSUME PutPart(j) PROVE \E n \in Nat : \E object : Put(j, n, object) /\ run[j].at # "idle"
    <3>1. run[j].out \in Seq(SUBSET Rows(Contents))
      BY DEF RecordsOK, RunRecords
    <3>2. Len(run[j].out) + 1 \in Nat
      BY <3>1
    <3>3. QED
      BY <2>3, <3>2 DEF PutPart
  <2>4. ASSUME PutManifest(j) PROVE \E n \in Nat : \E object : Put(j, n, object) /\ run[j].at # "idle"
    BY <2>4 DEF PutManifest
  <2>5. ASSUME NEW u \in Tables, BeginRun(j, u) PROVE UNCHANGED store
    BY <2>5 DEF BeginRun
  <2>6. ASSUME LockAged(j) \/ Relist(j) \/ Select(j) \/ OpenStream(j) \/ DropPartitions(j)
        PROVE  UNCHANGED store
    BY <2>6 DEF LockAged, Relist, Select, OpenStream, DropPartitions
  <2>7. ASSUME RunEnds(j) \/ CommitRun(j) PROVE UNCHANGED store
    BY <2>7 DEF RunEnds, CommitRun
  <2>8. QED
    BY <2>1, <2>2, <2>3, <2>4, <2>5, <2>6, <2>7 DEF RunNext
<1>4. catalog' \in [Tables -> SUBSET Segments]
  <2>1. CASE UNCHANGED catalog
    BY <2>1 DEF RecordsOK
  <2>2. CASE CommitRun(j)
    <3> DEFINE t == run[j].t
               segs == RecordSegment(j, catalog[t])
    <3>1. run[j].at = "commit" /\ t \in Tables /\ catalog' = [catalog EXCEPT ![t] = segs]
      BY <2>2 DEF CommitRun, OnTable
    <3>2. segs \in SUBSET Segments
      BY <3>1, CommitSegments
    <3> HIDE DEF segs
    <3>3. QED
      BY <3>1, <3>2 DEF RecordsOK
  <2>3. QED
    BY <2>1, <2>2, RunMoves
<1>5. QED
  BY <1>1, <1>2, <1>3, <1>4 DEF RecordsOK

\* What a commit leaves in the catalog: the segments that were there, and the
\* run's own ...
LEMMA RecordedRows ==
    ASSUME NEW j \in Jobs, RecordsOK, OnTable(j), CommitRun(j),
           NEW t \in Tables, NEW s \in catalog'[t]
    PROVE  \/ s \in catalog[t]
           \/ /\ t = run[j].t /\ s.id = run[j].id /\ s.parts = run[j].out
              /\ s.parts # <<>> /\ Len(s.parts) > 0
<1> DEFINE u == run[j].t
           new == [id |-> run[j].id, parts |-> run[j].out]
<1>1. run[j].at = "commit" /\ catalog' = [catalog EXCEPT ![u] = RecordSegment(j, catalog[u])]
  BY DEF CommitRun
<1>2. u \in Tables /\ catalog \in [Tables -> SUBSET Segments]
  BY <1>1 DEF OnTable, RecordsOK
<1>3. CASE t # u
  BY <1>1, <1>2, <1>3
<1>4. CASE t = u
  <2>1. s \in catalog[t] \/ (s = new /\ run[j].out # <<>>)
    BY <1>1, <1>2, <1>4 DEF RecordSegment
  <2>2. CASE s = new /\ run[j].out # <<>>
    <3>1. s.id = run[j].id /\ s.parts = run[j].out
      BY <2>2
    <3>2. run[j].out \in Seq(SUBSET Rows(Contents))
      BY DEF RecordsOK, RunRecords
    <3>3. Len(s.parts) > 0
      BY <2>2, <3>1, <3>2
    <3>4. QED
      BY <1>4, <2>2, <3>1, <3>3
  <2>3. QED
    BY <2>1, <2>2
<1>5. QED
  BY <1>3, <1>4

\* ... which is in the store.
LEMMA Recorded ==
    ASSUME NEW j \in Jobs, RecordsOK, RunInv(j), CommitRun(j), NEW t \in Tables, NEW s \in catalog'[t]
    PROVE  \/ s \in catalog[t]
           \/ /\ t = run[j].t /\ s.id = run[j].id /\ s.parts = run[j].out /\ Len(s.parts) > 0
              /\ Holds(t, s.id, 0, s.parts) /\ HoldsParts(t, s.id, s.parts)
<1>1. OnTable(j) /\ run[j].at = "commit"
  BY DEF RunInv, RunLockInv, OnTable, CommitRun
<1>2. CASE t = run[j].t /\ s.id = run[j].id /\ s.parts = run[j].out /\ s.parts # <<>>
  BY <1>1, <1>2 DEF RunInv, PutInv
<1>3. QED
  BY <1>1, <1>2, RecordedRows

LEMMA IdStep ==
    ASSUME TypeOK, RecordsOK, IdInv, NEW j \in Jobs, OnTable(j), RunNext(j)
    PROVE  IdInv'
<1>0. runs \in Nat
  BY DEF RecordsOK
<1>1. RunGoes(j) /\ \A i \in Jobs \ {j} : run'[i] = run[i]
  BY <1>0, RunSteps DEF RunKept
<1>2. \A i \in Jobs : run'[i].at # "idle" => run'[i].id \in 1..runs'
  BY <1>0, <1>1 DEF IdInv, RunGoes, SameRun
<1>3. \A i, k \in Jobs : i # k /\ run'[i].at # "idle" /\ run'[k].at # "idle" => run'[i].id # run'[k].id
  <2>1. ASSUME NEW i \in Jobs \ {j}, run'[i].at # "idle", run'[j].at # "idle"
        PROVE  run'[i].id # run'[j].id
    <3>1. run[i].at # "idle" /\ run[i].id \in 1..runs /\ run'[i].id = run[i].id
      BY <1>1, <2>1 DEF IdInv
    <3>2. CASE run[j].at = "idle"
      BY <1>0, <1>1, <2>1, <3>1, <3>2 DEF RunGoes
    <3>3. CASE run[j].at # "idle"
      BY <1>1, <2>1, <3>1, <3>3 DEF RunGoes, SameRun, IdInv
    <3>4. QED
      BY <3>2, <3>3
  <2>2. QED
    BY <1>1, <2>1 DEF IdInv
<1>4. ASSUME NEW t \in Tables, NEW s \in catalog'[t]
      PROVE  s.id \in 1..runs' /\ \A i \in Jobs : run'[i].at # "idle" => run'[i].id # s.id
  <2>1. CASE CommitRun(j)
    <3>1. run'[j].at = "idle" /\ UNCHANGED runs /\ run[j].at = "commit"
      BY <2>1, EndMove, NoRunType DEF CommitRun
    <3>2. CASE s \in catalog[t]
      BY <1>1, <3>1, <3>2 DEF IdInv
    <3>3. CASE s.id = run[j].id
      BY <1>1, <3>1, <3>3 DEF IdInv
    <3>4. QED
      BY <2>1, <3>2, <3>3, RecordedRows
  <2>2. CASE UNCHANGED catalog
    <3>1. s \in catalog[t] /\ s.id \in 1..runs /\ \A i \in Jobs : run[i].at # "idle" => run[i].id # s.id
      BY <2>2 DEF IdInv
    <3>2. s.id \in 1..runs' /\ (run'[j].at # "idle" => run'[j].id # s.id)
      BY <1>0, <1>1, <3>1 DEF RunGoes, SameRun
    <3>3. QED
      BY <1>1, <3>1, <3>2
  <2>3. QED
    BY <2>1, <2>2, RunMoves
<1>5. QED
  BY <1>2, <1>3, <1>4 DEF IdInv

\* A run puts nothing when it begins.
LEMMA IdleRun ==
    ASSUME NEW j \in Jobs, RunNext(j), run[j].at = "idle"
    PROVE  UNCHANGED store
<1>1. ASSUME NEW t \in Tables, BeginRun(j, t) PROVE UNCHANGED store
  BY <1>1 DEF BeginRun
<1>2. QED
  BY <1>1 DEF RunNext, LockAged, Relist, Select, OpenStream, PutPart, PutManifest,
              DropPartitions, CommitRun, RunEnds

\* A segment that was catalogued stays in the store.
LEMMA CatalogKept ==
    ASSUME TypeOK, RecordsOK, IdInv, CatalogInv, NEW j \in Jobs, RunInv(j), RunNext(j),
           NEW t \in Tables, NEW s \in catalog[t]
    PROVE  Holds(t, s.id, 0, s.parts)' /\ HoldsParts(t, s.id, s.parts)'
<1>1. Holds(t, s.id, 0, s.parts) /\ HoldsParts(t, s.id, s.parts)
  BY DEF CatalogInv
<1>2. \A n, object : Holds(t, s.id, n, object) => Holds(t, s.id, n, object)'
  <2>1. CASE run[j].at = "idle"
    <3>1. UNCHANGED store
      BY <2>1, IdleRun
    <3>2. QED
      BY <3>1 DEF Holds
  <2>2. CASE run[j].at # "idle"
    <3>1. s.id # run[j].id
      BY <2>2 DEF IdInv
    <3>2. \A n : StillHolds(t, s.id, n)
      BY <3>1, RunPuts
    <3>3. QED
      BY <3>2 DEF StillHolds
  <2>3. QED
    BY <2>1, <2>2
<1>3. QED
  BY <1>1, <1>2 DEF HoldsParts

LEMMA CatalogStep ==
    ASSUME TypeOK, RecordsOK, IdInv, CatalogInv, NEW j \in Jobs, RunInv(j), RunNext(j)
    PROVE  CatalogInv'
<1>1. ASSUME NEW t \in Tables, NEW s \in catalog'[t]
      PROVE  Len(s.parts) > 0 /\ Holds(t, s.id, 0, s.parts)' /\ HoldsParts(t, s.id, s.parts)'
  <2>1. CASE s \in catalog[t]
    <3>1. Len(s.parts) > 0
      BY <2>1 DEF CatalogInv
    <3>2. QED
      BY <2>1, <3>1, CatalogKept
  <2>2. CASE s \notin catalog[t]
    <3>1. CommitRun(j)
      BY <1>1, <2>2, RunMoves
    <3>2. UNCHANGED store
      BY <3>1 DEF CommitRun
    <3>3. Len(s.parts) > 0 /\ Holds(t, s.id, 0, s.parts) /\ HoldsParts(t, s.id, s.parts)
      BY <1>1, <2>2, <3>1, Recorded
    <3>4. QED
      BY <3>2, <3>3 DEF Holds, HoldsParts
  <2>3. QED
    BY <2>1, <2>2
<1>2. QED
  BY <1>1 DEF CatalogInv

-----------------------------------------------------------------------------
\* The events of a batch are events, and their partitions partitions.
LEMMA BatchParts ==
    ASSUME TypeOK, NEW w \in Writers, NEW e \in EventsIn(batch[w])
    PROVE  e \in Events /\ PartOf(e) \in Partitions
<1>1. batch[w] \in Seq(Events)
  BY DEF TypeOK
<1>2. e \in Events
  BY <1>1 DEF EventsIn
<1>3. QED
  BY <1>2, WriterConstants DEF PartOf, TableOf, Partitions

\* A writer's locks survive the steps of the others.
LEMMA WriteLocksUndisturbed ==
    ASSUME TypeOK, NEW w \in WriterJobs, WriteLockInv(w), NEW v, v # w, LocksKept(v),
           pc'[w] = pc[w], needP'[w] = needP[w], batch'[w] = batch[w], pend'[w] = pend[w]
    PROVE  WriteLockInv(w)'
<1>0. w \in Writers /\ needP[w] \in SUBSET Partitions
  BY DEF WriterJobs, TypeOK
<1>1. \A p \in Partitions : plock[p] = w => plock'[p] = w
  BY <1>0 DEF LocksKept
<1>2. pc'[w] \in {"ensure", "create"} =>
         \A p \in needP'[w] : FirstPart(p, needP'[w]) => plock'[p] = w
  BY <1>0, <1>1 DEF WriteLockInv
<1>3. pc'[w] \in {"seed", "rows"} => needP'[w] = {}
  BY DEF WriteLockInv
<1>4. \A e \in EventsIn(batch'[w]) : PartOf(e) \in needP'[w] \/ plock'[PartOf(e)] = w
  BY <1>0, <1>1, BatchParts DEF WriteLockInv
<1>5. \A t \in Tables : \A r \in pend'[w][t] :
         RowPart(t, r) \in Partitions /\ plock'[RowPart(t, r)] = w
  BY <1>1 DEF WriteLockInv
<1>6. \A t, r : RowPart(t, r)' = RowPart(t, r)
  BY DEF RowPart
<1>7. QED
  BY <1>2, <1>3, <1>4, <1>5, <1>6 DEF WriteLockInv, EventsIn, FirstPart

\* A writer inserts only into partitions that it has locked.
LEMMA WriteLocksStep ==
    ASSUME TypeOK, NEW w \in WriterJobs, WriteLockInv(w), WriterNext(w)
    PROVE  WriteLockInv(w)'
<1>0. /\ w \in Writers /\ needP[w] \in SUBSET Partitions /\ needP \in [Writers -> SUBSET Partitions]
      /\ pc \in [Writers -> {"idle", "locking", "ensure", "create", "seed", "rows", "open"}]
      /\ plock \in [Partitions -> Owners] /\ batch \in [Writers -> Seq(Events)]
      /\ pend \in [Writers -> [Tables -> SUBSET Rows(Contents)]]
  BY DEF WriterJobs, TypeOK
<1> DEFINE Batched(B, P, L) == \A e \in B : PartOf(e) \in P \/ L[PartOf(e)] = w
           Inserted(Q, L) == \A t \in Tables : \A r \in Q[t] :
                                RowPart(t, r) \in Partitions /\ L[RowPart(t, r)] = w
           Next1(c, P, L) == c \in {"ensure", "create"} =>
                                \A p \in P : FirstPart(p, P) => L[p] = w
           Done(c, P) == c \in {"seed", "rows"} => P = {}
<1>1. /\ Next1(pc[w], needP[w], plock) /\ Done(pc[w], needP[w])
      /\ Batched(EventsIn(batch[w]), needP[w], plock) /\ Inserted(pend[w], plock)
  BY DEF WriteLockInv
<1>2. ASSUME Next1(pc'[w], needP'[w], plock'), Done(pc'[w], needP'[w]),
             Batched(EventsIn(batch'[w]), needP'[w], plock'), Inserted(pend'[w], plock')
      PROVE  WriteLockInv(w)'
  BY <1>2 DEF WriteLockInv, EventsIn, RowPart, FirstPart
<1> HIDE DEF Batched, Inserted, Next1, Done
<1>3. ASSUME NEW b \in Batches, Call(w, b) PROVE WriteLockInv(w)'
  <2>1. /\ pc'[w] = "locking" /\ batch'[w] = b /\ needP'[w] = {PartOf(e) : e \in EventsIn(b)}
        /\ UNCHANGED <<plock, pend>>
    BY <1>0, <1>3 DEF Call, locks
  <2>2. Batched(EventsIn(batch'[w]), needP'[w], plock')
    BY <2>1 DEF Batched
  <2>3. Inserted(pend'[w], plock')
    BY <1>1, <2>1
  <2>4. Next1(pc'[w], needP'[w], plock') /\ Done(pc'[w], needP'[w])
    BY <2>1 DEF Next1, Done
  <2>5. QED
    BY <1>2, <2>2, <2>3, <2>4
<1>4. ASSUME LockPartition(w) PROVE WriteLockInv(w)'
  <2>1. PICK p \in needP[w] : FirstPart(p, needP[w]) /\ plock' = [plock EXCEPT ![p] = w]
    BY <1>4 DEF LockPartition
  <2>2. pc'[w] = "ensure" /\ UNCHANGED <<pend, batch, needP>>
    BY <1>0, <1>4 DEF LockPartition, tx
  <2>3. plock'[p] = w /\ \A q \in Partitions : plock[q] = w => plock'[q] = w
    BY <1>0, <2>1
  <2>4. Next1(pc'[w], needP'[w], plock')
    BY <1>0, <2>1, <2>2, <2>3, OneFirstPart DEF Next1
  <2>5. Done(pc'[w], needP'[w])
    BY <2>2 DEF Done
  <2>6. Batched(EventsIn(batch'[w]), needP'[w], plock')
    BY <1>0, <1>1, <2>2, <2>3, BatchParts DEF Batched
  <2>7. Inserted(pend'[w], plock')
    BY <1>1, <2>2, <2>3 DEF Inserted
  <2>8. QED
    BY <1>2, <2>4, <2>5, <2>6, <2>7
<1>5. ASSUME NEW p \in needP[w], plock[p] = w, UNCHANGED <<plock, pend, batch>>,
             pc'[w] = "locking", needP'[w] = needP[w] \ {p}
      PROVE  WriteLockInv(w)'
  <2>1. Next1(pc'[w], needP'[w], plock') /\ Done(pc'[w], needP'[w])
    BY <1>5 DEF Next1, Done
  <2>2. Batched(EventsIn(batch'[w]), needP'[w], plock')
    BY <1>1, <1>5 DEF Batched
  <2>3. QED
    BY <1>1, <1>2, <1>5, <2>1, <2>2
<1>6. ASSUME FindPartition(w) PROVE WriteLockInv(w)'
  <2>1. PICK p \in needP[w] :
          /\ FirstPart(p, needP[w])
          /\ IF p \in parts \cup made[w]
             THEN /\ needP' = [needP EXCEPT ![w] = @ \ {p}]
                  /\ pc' = [pc EXCEPT ![w] = "locking"]
             ELSE /\ pc' = [pc EXCEPT ![w] = "create"]
                  /\ UNCHANGED needP
    BY <1>6 DEF FindPartition
  <2>2. pc[w] = "ensure" /\ UNCHANGED <<plock, pend, batch>>
    BY <1>6 DEF FindPartition, locks, tx
  <2>3. plock[p] = w
    BY <1>1, <2>1, <2>2 DEF Next1
  <2>4. CASE p \in parts \cup made[w]
    BY <1>0, <1>5, <2>1, <2>2, <2>3, <2>4
  <2>5. CASE p \notin parts \cup made[w]
    <3>1. pc'[w] = "create" /\ UNCHANGED needP
      BY <1>0, <2>1, <2>5
    <3>2. Next1(pc'[w], needP'[w], plock') /\ Done(pc'[w], needP'[w])
      BY <1>1, <2>2, <3>1 DEF Next1, Done
    <3>3. QED
      BY <1>1, <1>2, <2>2, <3>1, <3>2
  <2>6. QED
    BY <2>4, <2>5
<1>7. ASSUME CreatePartition(w) PROVE WriteLockInv(w)'
  <2>1. PICK p \in needP[w] :
          FirstPart(p, needP[w]) /\ needP' = [needP EXCEPT ![w] = @ \ {p}]
    BY <1>7 DEF CreatePartition
  <2>2. pc[w] = "create" /\ pc'[w] = "locking" /\ UNCHANGED <<plock, pend, batch>>
    BY <1>0, <1>7 DEF CreatePartition
  <2>3. plock[p] = w
    BY <1>1, <2>1, <2>2 DEF Next1
  <2>4. QED
    BY <1>0, <1>5, <2>1, <2>2, <2>3
<1>8. ASSUME LockChain(w) \/ SeedHead(w) PROVE WriteLockInv(w)'
  <2>1. /\ needP[w] = {} /\ pc'[w] \in {"locking", "seed", "rows"}
        /\ UNCHANGED <<plock, pend, batch, needP>>
    BY <1>0, <1>1, <1>8 DEF LockChain, SeedHead, Done, tx
  <2>2. Next1(pc'[w], needP'[w], plock') /\ Done(pc'[w], needP'[w])
    BY <2>1 DEF Next1, Done
  <2>3. QED
    BY <1>1, <1>2, <2>1, <2>2
<1>9. ASSUME InsertRow(w) PROVE WriteLockInv(w)'
  <2> DEFINE e == Head(batch[w])
             k == KeyOf[e]
             u == Parent[k]
  <2>1. /\ pc[w] = "rows" /\ batch[w] # <<>> /\ UNCHANGED <<plock, needP>>
        /\ batch'[w] = Tail(batch[w]) /\ pc'[w] \in {"rows", "open"}
        /\ InsertFresh(w, e, k, u) \/ AdoptDuplicate(w, e, k, u)
    BY <1>0, <1>9 DEF InsertRow, locks
  <2>2. needP[w] = {}
    BY <1>1, <2>1 DEF Done
  <2>3. e \in EventsIn(batch[w]) /\ EventsIn(batch'[w]) \subseteq EventsIn(batch[w])
    BY <1>0, <2>1, TailEvents
  <2>4. e \in Events /\ PartOf(e) \in Partitions /\ plock[PartOf(e)] = w
    BY <1>0, <1>1, <2>2, <2>3, BatchParts DEF Batched
  <2>5. Next1(pc'[w], needP'[w], plock') /\ Done(pc'[w], needP'[w])
    BY <2>1, <2>2 DEF Next1, Done
  <2>6. Batched(EventsIn(batch'[w]), needP'[w], plock')
    BY <1>1, <2>1, <2>3 DEF Batched
  <2>7. Inserted(pend'[w], plock')
    <3>1. CASE UNCHANGED pend
      BY <1>1, <2>1, <3>1
    <3>2. CASE InsertFresh(w, e, k, u)
      <4> DEFINE row == RowOf(nextseq[u], e, heads[w][k])
      <4>1. pend' = [pend EXCEPT ![w][u] = @ \cup {row}] /\ u \in Tables
        BY <2>4, <3>2, WriterConstants DEF InsertFresh
      <4>2. RowPart(u, row) = PartOf(e)
        BY DEF RowPart, RowOf, PartOf, TableOf
      <4> HIDE DEF row
      <4>3. \A t \in Tables : pend'[w][t] \subseteq pend[w][t] \cup (IF t = u THEN {row} ELSE {})
        BY <1>0, <4>1
      <4>4. QED
        BY <1>1, <2>1, <2>4, <4>2, <4>3 DEF Inserted
    <3>3. QED
      BY <2>1, <3>1, <3>2 DEF AdoptDuplicate
  <2>8. QED
    BY <1>2, <2>5, <2>6, <2>7
<1>10. ASSUME Commit(w) \/ Abort(w) PROVE WriteLockInv(w)'
  <2>1. /\ pc'[w] = "idle" /\ batch'[w] = <<>> /\ needP'[w] = {} /\ pend'[w] = NoRows
    BY <1>0, <1>10 DEF Commit, Abort, EndTransaction
  <2>2. Next1(pc'[w], needP'[w], plock') /\ Done(pc'[w], needP'[w])
    BY <2>1 DEF Next1, Done
  <2>3. Batched(EventsIn(batch'[w]), needP'[w], plock')
    BY <2>1, EmptyBatch DEF Batched
  <2>4. Inserted(pend'[w], plock')
    BY <2>1 DEF Inserted, NoRows
  <2>5. QED
    BY <1>2, <2>2, <2>3, <2>4
<1>11. QED
  BY <1>3, <1>4, <1>6, <1>7, <1>8, <1>9, <1>10, WriterMoves

-----------------------------------------------------------------------------
\* Rows below the sequence stay below it when it advances.
LEMMA StaysAhead ==
    ASSUME NEW S \in SUBSET Rows(Contents), NEW m \in Nat, NEW n \in Nat, m <= n,
           \A r \in S : r.seq < m
    PROVE  \A r \in S : r.seq < n
BY DEF Rows

\* What a writer's step does to the rows and to the sequences.
LEMMA WriterRows ==
    ASSUME TypeOK, NEW w \in WriterJobs, WriterNext(w)
    PROVE  /\ \A t \in Tables : nextseq'[t] \in Nat /\ nextseq[t] <= nextseq'[t]
           /\ \A t \in Tables : table'[t] \subseteq table[t] \cup pend[w][t]
           /\ \A v \in Writers, t \in Tables : \A r \in pend'[v][t] :
                 r \in pend[v][t] \/ (r.seq = nextseq[t] /\ nextseq'[t] = nextseq[t] + 1)
<1>0. /\ w \in Writers /\ nextseq \in [Tables -> Nat]
      /\ pend \in [Writers -> [Tables -> SUBSET Rows(Contents)]]
      /\ batch \in [Writers -> Seq(Events)]
  BY DEF WriterJobs, TypeOK
<1> DEFINE Goal == /\ \A t \in Tables : nextseq'[t] \in Nat /\ nextseq[t] <= nextseq'[t]
                   /\ \A t \in Tables : table'[t] \subseteq table[t] \cup pend[w][t]
                   /\ \A v \in Writers, t \in Tables : \A r \in pend'[v][t] :
                         r \in pend[v][t] \/ (r.seq = nextseq[t] /\ nextseq'[t] = nextseq[t] + 1)
<1>1. ASSUME InsertRow(w) PROVE Goal
  <2> DEFINE e == Head(batch[w])
             k == KeyOf[e]
             u == Parent[k]
             row == RowOf(nextseq[u], e, heads[w][k])
  <2>1. /\ batch[w] # <<>> /\ UNCHANGED table /\ nextseq' = [nextseq EXCEPT ![u] = @ + 1]
        /\ InsertFresh(w, e, k, u) \/ AdoptDuplicate(w, e, k, u)
    BY <1>1 DEF InsertRow
  <2>2. e \in Events
    BY <1>0, <2>1, TailEvents
  <2>3. u \in Tables /\ row.seq = nextseq[u]
    BY <2>2, WriterConstants DEF RowOf
  <2>4. UNCHANGED pend \/ pend' = [pend EXCEPT ![w][u] = @ \cup {row}]
    BY <2>1 DEF InsertFresh, AdoptDuplicate
  <2> HIDE DEF u, row
  <2>5. \A t \in Tables : nextseq'[t] \in Nat /\ nextseq[t] <= nextseq'[t]
    BY <1>0, <2>1, <2>3
  <2>6. \A v \in Writers, t \in Tables : \A r \in pend'[v][t] :
           r \in pend[v][t] \/ (t = u /\ r = row)
    <3>1. CASE UNCHANGED pend
      BY <3>1
    <3>2. CASE pend' = [pend EXCEPT ![w][u] = @ \cup {row}]
      <4>1. \A v \in Writers, t \in Tables :
               pend'[v][t] = IF v = w /\ t = u THEN pend[v][t] \cup {row} ELSE pend[v][t]
        BY <1>0, <2>3, <3>2
      <4>2. QED
        BY <4>1
    <3>3. QED
      BY <2>4, <3>1, <3>2
  <2>7. nextseq'[u] = nextseq[u] + 1
    BY <1>0, <2>1, <2>3
  <2>8. \A v \in Writers, t \in Tables : \A r \in pend'[v][t] :
           r \in pend[v][t] \/ (r.seq = nextseq[t] /\ nextseq'[t] = nextseq[t] + 1)
    BY <2>3, <2>6, <2>7
  <2>9. QED
    BY <2>1, <2>5, <2>8
<1>2. ASSUME Commit(w) PROVE Goal
  <2>1. /\ nextseq' = nextseq /\ table' = [t \in Tables |-> table[t] \cup pend[w][t]]
        /\ pend' = [pend EXCEPT ![w] = NoRows]
    BY <1>2 DEF Commit, EndTransaction
  <2>2. \A v \in Writers, t \in Tables : pend'[v][t] \subseteq pend[v][t]
    BY <1>0, <2>1 DEF NoRows
  <2>3. QED
    BY <1>0, <2>1, <2>2
<1>3. ASSUME Abort(w) PROVE Goal
  <2>1. nextseq' = nextseq /\ table' = table /\ pend' = [pend EXCEPT ![w] = NoRows]
    BY <1>3 DEF Abort, EndTransaction
  <2>2. \A v \in Writers, t \in Tables : pend'[v][t] \subseteq pend[v][t]
    BY <1>0, <2>1 DEF NoRows
  <2>3. QED
    BY <1>0, <2>1, <2>2
<1>4. ASSUME UNCHANGED <<table, pend, nextseq>> PROVE Goal
  BY <1>0, <1>4
<1>5. ASSUME NEW b \in Batches, Call(w, b) PROVE UNCHANGED <<table, pend, nextseq>>
  BY <1>5 DEF Call, db
<1>6. ASSUME LockPartition(w) \/ FindPartition(w) \/ CreatePartition(w) \/ LockChain(w) \/ SeedHead(w)
      PROVE  UNCHANGED <<table, pend, nextseq>>
  BY <1>6 DEF LockPartition, FindPartition, CreatePartition, LockChain, SeedHead, db, tx
<1> HIDE DEF Goal
<1>7. Goal
  BY <1>1, <1>2, <1>3, <1>4, <1>5, <1>6, WriterMoves
<1>8. QED
  BY <1>7 DEF Goal

LEMMA SeqAheadWriter ==
    ASSUME TypeOK, RecordsOK, SeqAhead, \A j \in Jobs : OnTable(j),
           NEW w \in WriterJobs, WriterNext(w)
    PROVE  SeqAhead'
<1>0. w \in Writers /\ UNCHANGED <<run, catalog>>
  BY WriterMoves DEF rvars
<1>1. /\ \A t \in Tables : nextseq'[t] \in Nat /\ nextseq[t] <= nextseq'[t]
      /\ \A t \in Tables : table'[t] \subseteq table[t] \cup pend[w][t]
      /\ \A v \in Writers, t \in Tables : \A r \in pend'[v][t] :
            r \in pend[v][t] \/ (r.seq = nextseq[t] /\ nextseq'[t] = nextseq[t] + 1)
  BY WriterRows
<1>2. /\ \A t \in Tables : nextseq[t] \in Nat /\ table[t] \in SUBSET Rows(Contents)
      /\ \A v \in Writers, t \in Tables : pend[v][t] \in SUBSET Rows(Contents)
  BY DEF TypeOK
<1>3. ASSUME NEW t \in Tables, NEW S \in SUBSET Rows(Contents), \A r \in S : r.seq < nextseq[t]
      PROVE  \A r \in S : r.seq < nextseq'[t]
  BY <1>1, <1>2, <1>3, StaysAhead
<1>4. ASSUME NEW t \in Tables PROVE \A r \in table'[t] : r.seq < nextseq'[t]
  <2>1. \A r \in table[t] \cup pend[w][t] : r.seq < nextseq[t]
    BY <1>0 DEF SeqAhead
  <2>2. table[t] \cup pend[w][t] \in SUBSET Rows(Contents)
    BY <1>0, <1>2
  <2>3. QED
    BY <1>1, <1>3, <2>1, <2>2
<1>5. ASSUME NEW t \in Tables, NEW v \in Writers, NEW r \in pend'[v][t]
      PROVE  r.seq < nextseq'[t]
  <2>1. CASE r \in pend[v][t]
    <3>1. \A q \in pend[v][t] : q.seq < nextseq[t]
      BY DEF SeqAhead
    <3>2. QED
      BY <1>2, <1>3, <2>1, <3>1
  <2>2. CASE r.seq = nextseq[t] /\ nextseq'[t] = nextseq[t] + 1
    BY <1>2, <2>2
  <2>3. QED
    BY <1>1, <2>1, <2>2
<1>6. ASSUME NEW t \in Tables, NEW s \in catalog'[t]
      PROVE  \A r \in SegmentRows(s) : r.seq < nextseq'[t]
  <2>1. s \in catalog[t] /\ s \in Segments
    BY <1>0, <1>6 DEF RecordsOK
  <2>2. SegmentRows(s) \in SUBSET Rows(Contents)
    BY <2>1, PartsType DEF SegmentRows, Segments
  <2>3. \A r \in SegmentRows(s) : r.seq < nextseq[t]
    BY <2>1 DEF SeqAhead
  <2>4. QED
    BY <1>3, <2>2, <2>3
<1>7. ASSUME NEW j \in Jobs, run'[j].at # "idle"
      PROVE  \A r \in run'[j].left \cup UNION Range(run'[j].out) : r.seq < nextseq'[run'[j].t]
  <2>1. PICK x : x = run[j] /\ run'[j] = x
    BY <1>0
  <2>2. x.t \in Tables /\ x.left \in SUBSET Rows(Contents) /\ x.out \in Seq(SUBSET Rows(Contents))
    BY <1>7, <2>1 DEF RecordsOK, RunRecords, OnTable
  <2> DEFINE S == x.left \cup UNION Range(x.out)
  <2>3. S \in SUBSET Rows(Contents)
    BY <2>2, PartsType
  <2>4. \A r \in S : r.seq < nextseq[x.t]
    BY <1>7, <2>1 DEF SeqAhead
  <2> HIDE DEF S
  <2>5. \A r \in S : r.seq < nextseq'[x.t]
    BY <1>3, <2>2, <2>3, <2>4
  <2>6. QED
    BY <2>1, <2>5 DEF S
<1>8. QED
  BY <1>4, <1>5, <1>6, <1>7 DEF SeqAhead, SegmentRows

\* A run's rows were in its table when it read them.
LEMMA SeqAheadRun ==
    ASSUME TypeOK, RecordsOK, SeqAhead, NEW j \in Jobs, OnTable(j), RunNext(j)
    PROVE  SeqAhead'
<1>0. UNCHANGED <<nextseq, pend>>
  BY RunMoves DEF tx
<1>1. \A t \in Tables : \A r \in table'[t] : r.seq < nextseq[t]
  BY RunNoEntry DEF SeqAhead
<1>2. ASSUME NEW t \in Tables, NEW s \in catalog'[t]
      PROVE  \A r \in SegmentRows(s) : r.seq < nextseq[t]
  <2>1. CASE s \in catalog[t]
    BY <2>1 DEF SeqAhead
  <2>2. CASE s \notin catalog[t]
    <3>1. CommitRun(j)
      BY <1>2, <2>2, RunMoves
    <3>2. t = run[j].t /\ s.parts = run[j].out /\ run[j].at = "commit"
      BY <1>2, <2>2, <3>1, RecordedRows DEF CommitRun
    <3>3. \A r \in UNION Range(run[j].out) : r.seq < nextseq[run[j].t]
      BY <3>2 DEF SeqAhead
    <3>4. QED
      BY <3>2, <3>3 DEF SegmentRows
  <2>3. QED
    BY <2>1, <2>2
<1>3. \A i \in Jobs \ {j} : run'[i] = run[i]
  BY <1>0, RunSteps DEF RunKept
<1>4. PICK x, y : x = run[j] /\ y = run'[j]
  OBVIOUS
<1> DEFINE Out(o) == UNION Range(o)
<1>5. ASSUME y.at # "idle", NEW r \in y.left \cup Out(y.out) PROVE r.seq < nextseq[y.t]
  <2>0. x.at # "idle" => \A q \in x.left \cup Out(x.out) : q.seq < nextseq[x.t]
    BY <1>4 DEF SeqAhead
  <2> HIDE DEF Out
  <2>1. ASSUME SameRun(j), y.left = x.left, y.out = x.out, x.at # "idle" PROVE r.seq < nextseq[y.t]
    BY <1>4, <1>5, <2>0, <2>1 DEF SameRun
  <2>2. ASSUME NEW t \in Tables, BeginRun(j, t) PROVE r.seq < nextseq[y.t]
    <3>1. y.left = {} /\ y.out = <<>>
      BY <1>4, <2>2, BeginMove
    <3>2. Out(<<>>) = {}
      BY DEF Out, Range
    <3>3. QED
      BY <1>5, <3>1, <3>2
  <2>3. ASSUME ReleaseLocks(j) PROVE FALSE
    BY <1>4, <1>5, <2>3, EndMove, NoRunType
  <2>4. ASSUME LockAged(j) PROVE r.seq < nextseq[y.t]
    BY <1>4, <2>1, <2>4, LockedMove
  <2>5. ASSUME Relist(j) PROVE r.seq < nextseq[y.t]
    BY <1>0, <1>4, <2>1, <2>5, RelistMove
  <2>6. ASSUME Select(j) PROVE r.seq < nextseq[y.t]
    BY <1>4, <2>1, <2>6, SelectMove
  <2>7. ASSUME OpenStream(j) PROVE r.seq < nextseq[y.t]
    <3>1. x.at = "open" /\ SameRun(j) /\ y.left \in SUBSET table[x.t] /\ y.out = x.out
      BY <1>0, <1>4, <2>7, OpenMove
    <3>2. x.t \in Tables /\ y.t = x.t
      BY <1>0, <1>4, <3>1 DEF OnTable, SameRun
    <3>3. \A q \in table[x.t] : q.seq < nextseq[x.t]
      BY <3>2 DEF SeqAhead
    <3>4. QED
      BY <1>5, <2>0, <3>1, <3>2, <3>3
  <2>8. ASSUME PutPart(j) PROVE r.seq < nextseq[y.t]
    <3>1. x.at = "archive"
      BY <1>4, <2>8, PartOutcome
    <3>2. ASSUME NEW body \in SUBSET x.left, Parted(j, body) PROVE r.seq < nextseq[y.t]
      <4>1. SameRun(j) /\ y.left = x.left \ body /\ y.out = Append(x.out, body)
        BY <1>4, <3>1, <3>2, PartMove
      <4>2. x.out \in Seq(SUBSET Rows(Contents)) /\ x.left \in SUBSET Rows(Contents)
        BY <1>4 DEF RecordsOK, RunRecords
      <4> DEFINE T == SUBSET Rows(Contents)
      <4>3. x.out \in Seq(T) /\ body \in T
        BY <3>2, <4>2
      <4> HIDE DEF T
      <4>4. Out(Append(x.out, body)) = Out(x.out) \cup body
        <5>1. UnionGrows(x.out, body)
          BY <4>3, UnionAppend
        <5>2. QED
          BY <5>1 DEF Out, UnionGrows
      <4>5. r \in x.left \cup Out(x.out)
        BY <1>5, <3>2, <4>1, <4>4
      <4>6. y.t = x.t
        BY <1>4, <4>1 DEF SameRun
      <4>7. QED
        BY <2>0, <3>1, <4>5, <4>6
    <3>3. QED
      BY <1>4, <2>3, <2>8, <3>2, PartOutcome
  <2>9. ASSUME NEW to \in {"drop", "commit"}, Staged(j, to), x.at # "idle"
        PROVE  r.seq < nextseq[y.t]
    BY <1>4, <2>1, <2>9, StageMove
  <2>10. ASSUME PutManifest(j) PROVE r.seq < nextseq[y.t]
    BY <1>4, <2>3, <2>9, <2>10, ManifestOutcome
  <2>11. ASSUME DropPartitions(j) PROVE r.seq < nextseq[y.t]
    <3>1. Staged(j, "commit") /\ x.at # "idle"
      BY <1>4, <2>11 DEF DropPartitions, Staged
    <3>2. QED
      BY <2>9, <3>1
  <2>12. ASSUME RunEnds(j) \/ CommitRun(j) PROVE ReleaseLocks(j)
    BY <2>12 DEF RunEnds, EndRun, CommitRun
  <2>13. QED
    BY <2>2, <2>3, <2>4, <2>5, <2>6, <2>7, <2>8, <2>10, <2>11, <2>12 DEF RunNext
<1>6. ASSUME NEW i \in Jobs, run'[i].at # "idle"
      PROVE  \A r \in run'[i].left \cup UNION Range(run'[i].out) : r.seq < nextseq[run'[i].t]
  <2>1. CASE i = j
    BY <1>4, <1>5, <1>6, <2>1
  <2>2. CASE i # j
    BY <1>3, <1>6, <2>2 DEF SeqAhead
  <2>3. QED
    BY <2>1, <2>2
<1>7. QED
  BY <1>0, <1>1, <1>2, <1>6 DEF SeqAhead, SegmentRows

-----------------------------------------------------------------------------
LEMMA RetentionInvInit == RetentionInit => TypeInv /\ RetentionInv
<1> SUFFICES ASSUME RetentionInit PROVE TypeInv /\ RetentionInv
  OBVIOUS
<1>1. TypeInv
  BY TypeInit DEF RetentionInit
<1>2. run = [j \in Jobs |-> NoRun] /\ NoRun \in RunRecords /\ NoRun.at = "idle"
  BY NoRunType DEF RetentionInit
<1>3. RecordsOK
  <2>1. today \in Int /\ runs \in 0..MaxRuns
    BY RetentionConstants DEF RetentionInit
  <2>2. DOMAIN store = {}
    BY DEF RetentionInit
  <2>3. run \in [Jobs -> RunRecords]
    BY <1>2
  <2>4. catalog \in [Tables -> SUBSET Segments]
    BY DEF RetentionInit
  <2>5. QED
    BY <2>1, <2>2, <2>3, <2>4 DEF RecordsOK
<1>4. \A j \in Jobs : run[j].at = "idle"
  BY <1>2
<1>5. \A t \in Tables : catalog[t] = {}
  BY DEF RetentionInit
<1>6. IdInv /\ CatalogInv
  BY <1>4, <1>5 DEF IdInv, CatalogInv
<1>7. SeqAhead
  <2>1. \A t \in Tables : table[t] = {} /\ \A w \in Writers : pend[w][t] = {}
    BY DEF RetentionInit, Init, NoRows
  <2>2. QED
    BY <1>4, <1>5, <2>1 DEF SeqAhead
<1>8. ASSUME NEW w \in WriterJobs PROVE WriteLockInv(w)
  <2>1. w \in Writers
    BY DEF WriterJobs
  <2>2. pc[w] = "idle" /\ batch[w] = <<>> /\ pend[w] = NoRows
    BY <2>1 DEF RetentionInit, Init
  <2>3. QED
    BY <2>2, EmptyBatch DEF WriteLockInv, NoRows
<1>9. \A j \in Jobs : RunInv(j)
  BY <1>4 DEF RunInv, RunLockInv, SeenInv, PutInv
<1>10. QED
  BY <1>1, <1>3, <1>6, <1>7, <1>8, <1>9 DEF RetentionInv

\* A step of one writer leaves the calls of the others alone.
LEMMA OthersKept ==
    ASSUME TypeOK, NEW w \in WriterJobs, WriterNext(w), NEW v \in Writers \ {w}
    PROVE  pc'[v] = pc[v] /\ needP'[v] = needP[v] /\ batch'[v] = batch[v] /\ pend'[v] = pend[v]
<1>0. /\ w \in Writers /\ v \in Writers /\ v # w
      /\ pc \in [Writers -> {"idle", "locking", "ensure", "create", "seed", "rows", "open"}]
      /\ needP \in [Writers -> SUBSET Partitions] /\ batch \in [Writers -> Seq(Events)]
      /\ pend \in [Writers -> [Tables -> SUBSET Rows(Contents)]]
  BY DEF WriterJobs, TypeOK
<1> DEFINE Goal == pc'[v] = pc[v] /\ needP'[v] = needP[v] /\ batch'[v] = batch[v] /\ pend'[v] = pend[v]
<1>1. ASSUME NEW b \in Batches, Call(w, b) PROVE Goal
  BY <1>0, <1>1 DEF Call
<1>2. ASSUME LockPartition(w) \/ LockChain(w) \/ SeedHead(w) PROVE Goal
  BY <1>0, <1>2 DEF LockPartition, LockChain, SeedHead, tx
<1>3. ASSUME FindPartition(w) PROVE Goal
  BY <1>0, <1>3 DEF FindPartition, tx
<1>4. ASSUME CreatePartition(w) PROVE Goal
  BY <1>0, <1>4 DEF CreatePartition
<1>5. ASSUME InsertRow(w) PROVE Goal
  <2>1. pend'[v] = pend[v]
    BY <1>0, <1>5 DEF InsertRow, InsertFresh, AdoptDuplicate
  <2>2. QED
    BY <1>0, <1>5, <2>1 DEF InsertRow
<1>6. ASSUME Commit(w) \/ Abort(w) PROVE Goal
  BY <1>0, <1>6 DEF Commit, Abort, EndTransaction
<1>7. QED
  BY <1>1, <1>2, <1>3, <1>4, <1>5, <1>6, WriterMoves

LEMMA WriterKeepsInv ==
    ASSUME TypeInv, RetentionInv, NEW w \in WriterJobs, WriterNext(w)
    PROVE  TypeInv' /\ RetentionInv'
<1>0. /\ TypeOK /\ RecordsOK /\ IdInv /\ SeqAhead /\ CatalogInv /\ WriteLockInv(w)
      /\ \A v \in WriterJobs : WriteLockInv(v)
      /\ \A j \in Jobs : RunInv(j) /\ RunLockInv(j) /\ OnTable(j)
  BY DEF TypeInv, RetentionInv, RunInv, RunLockInv, OnTable
<1>1. UNCHANGED <<today, run, runs, store, catalog>> /\ w \in Writers /\ Next
  BY WriterMoves DEF rvars
<1>2. TypeInv'
  BY <1>1, TypeStep
<1>3. RecordsOK' /\ IdInv'
  BY <1>0, <1>1 DEF RecordsOK, IdInv
<1>4. CatalogInv'
  BY <1>0, <1>1 DEF CatalogInv, Holds, HoldsParts
<1>5. SeqAhead'
  BY <1>0, SeqAheadWriter
<1>6. LocksKept(w)
  BY <1>0, WriterLocks
<1>7. ASSUME NEW v \in WriterJobs PROVE WriteLockInv(v)'
  <2>1. CASE v = w
    BY <1>0, <2>1, WriteLocksStep
  <2>2. CASE v # w
    <3>1. v \in Writers \ {w}
      BY <1>7, <2>2 DEF WriterJobs
    <3>2. pc'[v] = pc[v] /\ needP'[v] = needP[v] /\ batch'[v] = batch[v] /\ pend'[v] = pend[v]
      BY <1>0, <3>1, OthersKept
    <3>3. QED
      BY <1>0, <1>6, <2>2, <3>2, WriteLocksUndisturbed
  <2>3. QED
    BY <2>1, <2>2
<1>8. ASSUME NEW i \in Jobs PROVE RunInv(i)'
  <2>1. NoEntry(i)
    BY <1>0, WriterNoEntry
  <2>2. \A p \in Partitions : plock[p] = i => plock'[p] = i
    BY <1>6, RetentionConstants DEF LocksKept, WriterJobs
  <2>3. \A t, id, n : StillHolds(t, id, n)
    BY <1>1 DEF StillHolds, Holds
  <2>4. PICK x : x = run[i] /\ run'[i] = x
    BY <1>1
  <2>5. QED
    BY <1>0, <2>1, <2>2, <2>3, <2>4, RunUndisturbed
<1>9. QED
  BY <1>2, <1>3, <1>4, <1>5, <1>7, <1>8 DEF RetentionInv

LEMMA RunKeepsInv ==
    ASSUME TypeInv, RetentionInv, NEW j \in Jobs, RunNext(j)
    PROVE  TypeInv' /\ RetentionInv'
<1>0. /\ TypeOK /\ RecordsOK /\ IdInv /\ SeqAhead /\ CatalogInv
      /\ \A w \in WriterJobs : WriteLockInv(w)
      /\ RunInv(j) /\ OnTable(j)
      /\ \A i \in Jobs : RunInv(i)
  BY DEF TypeInv, RetentionInv, RunInv, RunLockInv, OnTable
<1>1. TypeInv'
  BY <1>0, RunTypeStep
<1>2. RecordsOK'
  BY <1>0, RecordsStep
<1>3. IdInv'
  BY <1>0, IdStep
<1>4. SeqAhead'
  BY <1>0, SeqAheadRun
<1>5. CatalogInv'
  BY <1>0, CatalogStep
<1>6. LocksKept(j)
  BY <1>0, RunLocks
<1>7. UNCHANGED <<pc, needP, batch, pend>>
  BY RunMoves DEF tx, call
<1>8. ASSUME NEW w \in WriterJobs PROVE WriteLockInv(w)'
  <2>1. w # j
    BY DEF WriterJobs
  <2>2. QED
    BY <1>0, <1>6, <1>7, <2>1, WriteLocksUndisturbed
<1>9. RunKept(j)
  BY <1>0, RunSteps
<1>10. ASSUME NEW i \in Jobs PROVE RunInv(i)'
  <2>1. CASE i = j
    BY <1>0, <2>1, RunKeepsRun
  <2>2. CASE i # j
    <3>1. NoEntry(i)
      BY <1>0, RunNoEntry
    <3>2. \A p \in Partitions : plock[p] = i => plock'[p] = i
      BY <1>6, <2>2, RetentionConstants DEF LocksKept
    <3>3. PICK x : x = run[i] /\ run'[i] = x
      BY <1>9, <2>2 DEF RunKept
    <3>4. x.at # "idle" => \A t, n : StillHolds(t, x.id, n)
      <4>1. SUFFICES ASSUME x.at # "idle", NEW t, NEW n PROVE StillHolds(t, x.id, n)
        OBVIOUS
      <4>2. CASE run[j].at # "idle"
        BY <1>0, <2>2, <3>3, <4>1, <4>2, RunPuts DEF IdInv
      <4>3. CASE run[j].at = "idle"
        <5>1. UNCHANGED store
          BY <4>3, IdleRun
        <5>2. QED
          BY <5>1 DEF StillHolds, Holds
      <4>4. QED
        BY <4>2, <4>3
    <3>5. QED
      BY <1>0, <3>1, <3>2, <3>3, <3>4, RunUndisturbed
  <2>3. QED
    BY <2>1, <2>2
<1>11. QED
  BY <1>1, <1>2, <1>3, <1>4, <1>5, <1>8, <1>10 DEF RetentionInv

\* Nothing but the date, or nothing at all.
LEMMA IdleKeepsInv ==
    ASSUME TypeInv, RetentionInv, UNCHANGED <<vars, run, runs, store, catalog, unlocked>>,
           today' \in Int
    PROVE  TypeInv' /\ RetentionInv'
<1>0. /\ UNCHANGED <<table, nextseq, plock, pc, needP, batch, pend>>
  BY DEF vars, db, locks, tx, call
<1>1. TypeInv'
  BY TypeStep
<1>2. RecordsOK' /\ IdInv'
  BY DEF RetentionInv, RecordsOK, IdInv
<1>3. SeqAhead'
  BY <1>0 DEF RetentionInv, SeqAhead, SegmentRows
<1>4. CatalogInv'
  BY DEF RetentionInv, CatalogInv, Holds, HoldsParts
<1>5. \A w \in WriterJobs : WriteLockInv(w)'
  BY <1>0 DEF RetentionInv, WriteLockInv, EventsIn, RowPart, FirstPart
<1>6. ASSUME NEW i \in Jobs PROVE RunInv(i)'
  <2>1. NoEntry(i)
    BY <1>0 DEF NoEntry, RowsIn, RowPart
  <2>2. \A t, id, n : StillHolds(t, id, n)
    BY DEF StillHolds, Holds
  <2>3. PICK x : x = run[i] /\ run'[i] = x
    OBVIOUS
  <2>4. QED
    BY <1>0, <2>1, <2>2, <2>3, RunUndisturbed DEF RetentionInv
<1>7. QED
  BY <1>1, <1>2, <1>3, <1>4, <1>5, <1>6 DEF RetentionInv

LEMMA RetentionInvStep ==
    TypeInv /\ RetentionInv /\ [RetentionNext]_allVars => TypeInv' /\ RetentionInv'
<1> SUFFICES ASSUME TypeInv, RetentionInv, [RetentionNext]_allVars PROVE TypeInv' /\ RetentionInv'
  OBVIOUS
<1>1. today \in Int
  BY DEF RetentionInv, RecordsOK
<1>2. CASE NextMonth
  BY <1>1, <1>2, IdleKeepsInv DEF NextMonth
<1>3. CASE UNCHANGED allVars
  BY <1>1, <1>3, IdleKeepsInv DEF allVars, rvars
<1>4. QED
  BY <1>2, <1>3, WriterKeepsInv, RunKeepsInv DEF RetentionNext

-----------------------------------------------------------------------------
\* The records of the runs, the catalog and the store are what their users
\* take them for, in every state of retention and its writers (run_scope).
THEOREM RetentionTypeCorrect == RetentionSpec => []RetentionTypeOK
<1>1. RetentionInv => RetentionTypeOK
  <2> SUFFICES ASSUME RetentionInv PROVE RetentionTypeOK
    OBVIOUS
  <2>1. /\ today \in Int /\ runs \in Nat /\ catalog \in [Tables -> SUBSET Segments]
        /\ DOMAIN store \subseteq Tables \X (1..MaxRuns) \X Nat
    BY DEF RetentionInv, RecordsOK
  <2>2. \A j \in Jobs : run[j] \in RunRecords
    BY DEF RetentionInv, RecordsOK
  <2>3. \A t \in Tables : \A s \in catalog[t] : Len(s.parts) > 0
    BY DEF RetentionInv, CatalogInv
  <2>4. QED
    BY <2>1, <2>2, <2>3 DEF RetentionTypeOK, RunRecords, RunStates
<1>2. QED
  BY <1>1, RetentionInvInit, RetentionInvStep, PTL DEF RetentionSpec

\* Every catalogued part is in the store as it was written, and its manifest
\* too, however many puts were damaged and whichever runs failed or overlapped:
\* the catalog never names an object that was not read back (_put_verified).
THEOREM ArchiveIntact == RetentionSpec => [](\A t \in Tables : Intact(t))
<1>1. RetentionInv => \A t \in Tables : Intact(t)
  BY DEF RetentionInv, CatalogInv, Intact, Holds, HoldsParts
<1>2. QED
  BY <1>1, RetentionInvInit, RetentionInvStep, PTL DEF RetentionSpec

\* What a step may not lose.
KeptRows(t) == table[t] \cup ExportRows(t) \subseteq (table[t] \cup ExportRows(t))'

\* An exported row stays exported while its segment stays in the catalog.
LEMMA ExportKept ==
    ASSUME CatalogInv', NEW t \in Tables, catalog[t] \subseteq catalog'[t]
    PROVE  ExportRows(t) \subseteq ExportRows(t)'
<1>1. SUFFICES ASSUME NEW r \in ExportRows(t) PROVE r \in ExportRows(t)'
  OBVIOUS
<1> DEFINE Read(s, n) == IF store[<<t, s.id, n>>] = s.parts[n] THEN s.parts[n] ELSE {}
<1>2. ExportRows(t) = UNION {UNION {Read(s, n) : n \in 1..Len(s.parts)} : s \in catalog[t]}
  BY DEF ExportRows
<1> HIDE DEF Read
<1>3. PICK s \in catalog[t] : r \in UNION {Read(s, n) : n \in 1..Len(s.parts)}
  BY <1>2, <1>1
<1>4. PICK n \in 1..Len(s.parts) : r \in Read(s, n)
  BY <1>3
<1>5. r \in s.parts[n]
  BY <1>4 DEF Read
<1>6. s \in catalog'[t] /\ r \in s.parts[n] /\ Holds(t, s.id, n, s.parts[n])'
  BY <1>5 DEF CatalogInv, HoldsParts
<1>7. QED
  BY <1>5, <1>6 DEF ExportRows, Holds

\* The commit of a run that locked everything it drops.
LEMMA CommitKeepsRows ==
    ASSUME TypeOK, RecordsOK, CatalogInv', NEW j \in Jobs, RunInv(j), CommitRun(j),
           NEW t \in Tables, t \notin unlocked'
    PROVE  KeptRows(t)
<1> DEFINE u == run[j].t
           new == [id |-> run[j].id, parts |-> run[j].out]
<1>1. /\ run[j].at = "commit" /\ u \in Tables /\ run[j].out \in Seq(SUBSET Rows(Contents))
      /\ table' = [table EXCEPT ![u] = @ \ RowsIn(u, run[j].drop)]
      /\ catalog' = [catalog EXCEPT ![u] = RecordSegment(j, catalog[u])]
      /\ catalog \in [Tables -> SUBSET Segments]
      /\ table \in [Tables -> SUBSET Rows(Contents)]
  BY DEF CommitRun, RunInv, RunLockInv, RecordsOK, RunRecords, TypeOK
<1>2. catalog[t] \subseteq catalog'[t]
  BY <1>1 DEF RecordSegment
<1>3. ExportRows(t) \subseteq ExportRows(t)'
  BY <1>2, ExportKept
<1>4. ASSUME NEW r \in table[t], r \notin table'[t] PROVE r \in ExportRows(t)'
  <2>1. t = u /\ r \in RowsIn(u, run[j].drop)
    BY <1>1, <1>4
  <2>2. run[j].drop \subseteq run[j].listed
    BY <2>1 DEF CommitRun
  <2>3. run[j].drop \cap run[j].listed = run[j].drop
    BY <2>2
  <2>4. r \in Doomed(j)
    BY <2>1, <2>3 DEF Doomed
  <2>5. r \in UNION Range(run[j].out)
    BY <1>1, <2>4 DEF RunInv, SeenInv
  <2>6. PICK n \in DOMAIN run[j].out : r \in run[j].out[n]
    BY <2>5 DEF Range
  <2>7. DOMAIN run[j].out = 1..Len(run[j].out)
    BY <1>1
  <2>8. run[j].out # <<>>
    BY <2>6
  <2>9. new \in catalog'[t]
    BY <1>1, <2>1, <2>8 DEF RecordSegment
  <2>10. PICK s : s = new
    OBVIOUS
  <2>11. s \in catalog'[t] /\ n \in 1..Len(s.parts) /\ r \in s.parts[n]
    BY <2>6, <2>7, <2>9, <2>10
  <2>12. Holds(t, s.id, n, s.parts[n])'
    BY <2>11 DEF CatalogInv, HoldsParts
  <2>13. QED
    BY <2>11, <2>12 DEF ExportRows, Holds
<1>5. QED
  BY <1>3, <1>4 DEF KeptRows

\* A writer only adds rows.
LEMMA WriterAppends ==
    ASSUME NEW w \in WriterJobs, WriterNext(w), NEW t \in Tables
    PROVE  table[t] \subseteq table'[t]
<1>1. ASSUME NEW b \in Batches, Call(w, b) PROVE UNCHANGED table
  BY <1>1 DEF Call, db
<1>2. ASSUME LockPartition(w) \/ FindPartition(w) \/ CreatePartition(w) \/ LockChain(w)
             \/ SeedHead(w) \/ InsertRow(w) \/ Abort(w)
      PROVE  UNCHANGED table
  BY <1>2 DEF LockPartition, FindPartition, CreatePartition, LockChain, SeedHead, InsertRow,
              Abort, db
<1>3. ASSUME Commit(w) PROVE table[t] \subseteq table'[t]
  BY <1>3 DEF Commit
<1>4. QED
  BY <1>1, <1>2, <1>3, WriterMoves

\* A committed row never disappears: it stays in its table or in a catalogued
\* object that reads back, except where a partition was created between a run's
\* two listings and dropped without its lock (run_scope, "Nothing is dropped
\* that has not been written, read back and verified").
THEOREM NothingLostHolds == RetentionSpec => NothingLost
<1>1. ASSUME TypeInv, RetentionInv, [RetentionNext]_allVars
      PROVE  [\A t \in Locked' : table[t] \cup ExportRows(t) \subseteq (table[t] \cup ExportRows(t))']_allVars
  <2>1. SUFFICES ASSUME RetentionNext, NEW t \in Locked' PROVE KeptRows(t)
    BY <1>1 DEF KeptRows
  <2>2. t \in Tables /\ t \notin unlocked'
    BY DEF Locked
  <2>3. CatalogInv'
    BY <1>1, RetentionInvStep DEF RetentionInv
  <2>4. ASSUME UNCHANGED catalog, table[t] \subseteq table'[t] PROVE KeptRows(t)
    <3>1. ExportRows(t) \subseteq ExportRows(t)'
      BY <2>2, <2>3, <2>4, ExportKept
    <3>2. QED
      BY <2>4, <3>1 DEF KeptRows
  <2>5. ASSUME NEW w \in WriterJobs, WriterNext(w) PROVE KeptRows(t)
    <3>1. UNCHANGED catalog
      BY <2>5, WriterMoves DEF rvars
    <3>2. table[t] \subseteq table'[t]
      BY <2>2, <2>5, WriterAppends
    <3>3. QED
      BY <2>4, <3>1, <3>2
  <2>6. ASSUME NEW j \in Jobs, RunNext(j) PROVE KeptRows(t)
    <3>1. CASE CommitRun(j)
      BY <1>1, <2>2, <2>3, <3>1, CommitKeepsRows DEF TypeInv, RetentionInv
    <3>2. CASE UNCHANGED <<table, anchor, parts, catalog, unlocked>>
      BY <2>4, <3>2
    <3>3. QED
      BY <2>6, <3>1, <3>2, RunMoves
  <2>7. ASSUME NextMonth PROVE KeptRows(t)
    <3>1. UNCHANGED <<catalog, table>>
      BY <2>7 DEF NextMonth, vars, db
    <3>2. QED
      BY <2>4, <3>1
  <2>8. QED
    BY <2>1, <2>5, <2>6, <2>7 DEF RetentionNext
<1>2. QED
  BY <1>1, RetentionInvInit, RetentionInvStep, PTL DEF RetentionSpec, NothingLost

-----------------------------------------------------------------------------
(* Chains cut in two: what a drop does to a table, and a segment to the    *)
(* archive.                                                                *)

\* Every row of A comes before every row of B.
Below(A, B) == \A r \in A, q \in B : r.seq < q.seq

\* Finitely many rows, with a seq each.
SeqSet(S) == IsFiniteSet(S) /\ \A r, q \in S : r.seq = q.seq => r = q

\* Finitely many rows have a last one.
LEMMA FiniteTail ==
    ASSUME NEW C, NEW S \in SUBSET Rows(C), IsFiniteSet(S)
    PROVE  HasTail(S)
<1>1. CASE S = {}
  BY <1>1 DEF HasTail
<1>2. CASE S # {}
  <2> DEFINE R == {p \in S \X S : p[1].seq < p[2].seq}
  <2>1. \A r \in S : r.seq \in Nat
    BY DEF Rows
  <2>2. /\ \A x \in S : <<x, x>> \notin R
        /\ \A x, y, z \in S : <<x, y>> \in R /\ <<y, z>> \in R => <<x, z>> \in R
    BY <2>1
  <2>3. \E x \in S : \A y \in S : <<x, y>> \notin R
    <3> HIDE DEF R
    <3>1. QED
      BY <1>2, <2>2, FiniteMaximal
  <2>4. PICK x \in S : \A y \in S : <<x, y>> \notin R
    BY <2>3
  <2>5. \A y \in S : y.seq <= x.seq
    <3>1. SUFFICES ASSUME NEW y \in S PROVE y.seq <= x.seq
      OBVIOUS
    <3>2. ~(x.seq < y.seq)
      BY <2>4
    <3>3. QED
      BY <2>1, <3>2
  <2>6. QED
    BY <2>5 DEF HasTail, IsTail
<1>3. QED
  BY <1>1, <1>2

\* The last row is the one whose hash the next row chains onto.
LEMMA TailOf ==
    ASSUME NEW C, NEW S \in SUBSET Rows(C), SeqSet(S), NEW a, NEW r \in S,
           \A q \in S : q.seq <= r.seq
    PROVE  TailHash(S, a) = r.hash
<1>1. \A q \in S : q.seq \in Nat
  BY DEF Rows
<1>2. \A q \in S : IsTail(q, S) <=> q = r
  BY <1>1 DEF IsTail, SeqSet
<1>3. (CHOOSE q \in S : IsTail(q, S)) = r
  BY <1>2
<1>4. QED
  BY <1>3 DEF TailHash

\* The tail of two parts is the tail of the second, if that has one.
LEMMA TailJoin ==
    ASSUME NEW C, NEW A \in SUBSET Rows(C), NEW B \in SUBSET Rows(C),
           SeqSet(A \cup B), Below(A, B), NEW a
    PROVE  TailHash(A \cup B, a) = TailHash(B, TailHash(A, a))
<1>1. CASE B = {}
  BY <1>1 DEF TailHash
<1>2. CASE B # {}
  <2>1. SeqSet(B)
    <3>1. B \subseteq A \cup B
      OBVIOUS
    <3>2. IsFiniteSet(B)
      BY <3>1, FS_Subset DEF SeqSet
    <3>3. QED
      BY <3>1, <3>2 DEF SeqSet
  <2>2. PICK r \in B : \A q \in B : q.seq <= r.seq
    BY <1>2, <2>1, FiniteTail DEF SeqSet, HasTail, IsTail
  <2>3. \A q \in A \cup B : q.seq \in Nat
    BY DEF Rows
  <2>4. \A q \in A \cup B : q.seq <= r.seq
    BY <2>2, <2>3 DEF Below
  <2>5. TailHash(B, TailHash(A, a)) = r.hash
    BY <2>1, <2>2, TailOf
  <2>6. A \cup B \in SUBSET Rows(C) /\ r \in A \cup B
    BY <2>2
  <2>7. TailHash(A \cup B, a) = r.hash
    BY <2>4, <2>6, TailOf
  <2>8. QED
    BY <2>5, <2>7
<1>3. QED
  BY <1>1, <1>2

\* A chain that goes on where another ends makes one chain with it.
LEMMA ChainJoin ==
    ASSUME NEW C, NEW A \in SUBSET Rows(C), NEW B \in SUBSET Rows(C),
           SeqSet(A), Below(A, B), NEW a, Linked(A, a), Linked(B, TailHash(A, a))
    PROVE  Linked(A \cup B, a)
<1>0. \A q \in A \cup B : q.seq \in Nat
  BY DEF Rows
<1>1. ASSUME NEW r \in A PROVE LinkOK(r, A \cup B, a) /\ HashOK(r)
  <2>1. LinkOK(r, A, a) /\ HashOK(r)
    BY DEF Linked
  <2>2. CASE (\A q \in A : r.seq <= q.seq) /\ r.prev = a
    <3>1. \A q \in A \cup B : r.seq <= q.seq
      BY <1>0, <2>2 DEF Below
    <3>2. QED
      BY <2>1, <2>2, <3>1 DEF LinkOK
  <2>3. CASE \E p \in A : IsPredecessor(p, r, A) /\ r.prev = p.hash
    <3>1. PICK p \in A : IsPredecessor(p, r, A) /\ r.prev = p.hash
      BY <2>3
    <3>2. IsPredecessor(p, r, A \cup B)
      BY <1>0, <3>1 DEF IsPredecessor, Below
    <3>3. QED
      BY <2>1, <3>1, <3>2 DEF LinkOK
  <2>4. QED
    BY <2>1, <2>2, <2>3 DEF LinkOK
<1>2. ASSUME NEW r \in B PROVE LinkOK(r, A \cup B, a) /\ HashOK(r)
  <2>1. LinkOK(r, B, TailHash(A, a)) /\ HashOK(r)
    BY DEF Linked
  <2>2. CASE (\A q \in B : r.seq <= q.seq) /\ r.prev = TailHash(A, a)
    <3>1. CASE A = {}
      BY <2>1, <2>2, <3>1 DEF LinkOK, TailHash
    <3>2. CASE A # {}
      <4>1. PICK p \in A : \A q \in A : q.seq <= p.seq
        BY <3>2, FiniteTail DEF SeqSet, HasTail, IsTail
      <4>2. r.prev = p.hash
        BY <2>2, <4>1, TailOf
      <4>3. IsPredecessor(p, r, A \cup B)
        BY <1>0, <2>2, <4>1 DEF IsPredecessor, Below
      <4>4. QED
        BY <2>1, <4>2, <4>3 DEF LinkOK
    <3>3. QED
      BY <3>1, <3>2
  <2>3. CASE \E p \in B : IsPredecessor(p, r, B) /\ r.prev = p.hash
    <3>1. PICK p \in B : IsPredecessor(p, r, B) /\ r.prev = p.hash
      BY <2>3
    <3>2. IsPredecessor(p, r, A \cup B)
      BY <1>0, <3>1 DEF IsPredecessor, Below
    <3>3. QED
      BY <2>1, <3>1, <3>2 DEF LinkOK
  <2>4. QED
    BY <2>1, <2>2, <2>3 DEF LinkOK
<1>3. QED
  BY <1>1, <1>2 DEF Linked

\* A chain cut in two is two chains, the second on the tail of the first.
LEMMA ChainSplit ==
    ASSUME NEW C, NEW A \in SUBSET Rows(C), NEW B \in SUBSET Rows(C),
           SeqSet(A), Below(A, B), NEW a, Linked(A \cup B, a)
    PROVE  Linked(A, a) /\ Linked(B, TailHash(A, a))
<1>0. \A q \in A \cup B : q.seq \in Nat
  BY DEF Rows
<1>1. ASSUME NEW r \in A PROVE LinkOK(r, A, a) /\ HashOK(r)
  <2>1. LinkOK(r, A \cup B, a) /\ HashOK(r)
    BY DEF Linked
  <2>2. CASE (\A q \in A \cup B : r.seq <= q.seq) /\ r.prev = a
    BY <2>1, <2>2 DEF LinkOK
  <2>3. CASE \E p \in A \cup B : IsPredecessor(p, r, A \cup B) /\ r.prev = p.hash
    <3>1. PICK p \in A \cup B : IsPredecessor(p, r, A \cup B) /\ r.prev = p.hash
      BY <2>3
    <3>2. p \in A /\ IsPredecessor(p, r, A)
      BY <1>0, <3>1 DEF IsPredecessor, Below
    <3>3. QED
      BY <2>1, <3>1, <3>2 DEF LinkOK
  <2>4. QED
    BY <2>1, <2>2, <2>3 DEF LinkOK
<1>2. ASSUME NEW r \in B PROVE LinkOK(r, B, TailHash(A, a)) /\ HashOK(r)
  <2>1. LinkOK(r, A \cup B, a) /\ HashOK(r)
    BY DEF Linked
  <2>2. CASE (\A q \in A \cup B : r.seq <= q.seq) /\ r.prev = a
    <3>1. A = {}
      BY <1>0, <2>2 DEF Below
    <3>2. QED
      BY <2>1, <2>2, <3>1 DEF LinkOK, TailHash
  <2>3. CASE \E p \in A \cup B : IsPredecessor(p, r, A \cup B) /\ r.prev = p.hash
    <3>1. PICK p \in A \cup B : IsPredecessor(p, r, A \cup B) /\ r.prev = p.hash
      BY <2>3
    <3>2. CASE p \in B
      <4>1. IsPredecessor(p, r, B)
        BY <3>1, <3>2 DEF IsPredecessor
      <4>2. QED
        BY <2>1, <3>1, <3>2, <4>1 DEF LinkOK
    <3>3. CASE p \in A
      <4>1. \A q \in A : q.seq <= p.seq
        BY <3>1 DEF IsPredecessor, Below
      <4>2. TailHash(A, a) = p.hash
        BY <3>3, <4>1, TailOf
      <4>3. \A q \in B : r.seq <= q.seq
        BY <1>0, <3>1, <3>3 DEF IsPredecessor, Below
      <4>4. QED
        BY <2>1, <3>1, <4>2, <4>3 DEF LinkOK
    <3>4. QED
      BY <3>1, <3>2, <3>3
  <2>4. QED
    BY <2>1, <2>2, <2>3 DEF LinkOK
<1>3. QED
  BY <1>1, <1>2 DEF Linked

-----------------------------------------------------------------------------
(* select_droppable: its rounds end at a fixpoint.                         *)

\* What stays while the partitions in held are held back, and what reaches past
\* its first seq.
Staying(kept, held) == kept \cup UNION {s.seqs : s \in held}
Reaching(aged, kept, held) ==
    {s \in aged \ held : /\ s.seqs # {} /\ Staying(kept, held) # {}
                         /\ Max(s.seqs) > Min(Staying(kept, held))}

\* The rounds up to the n-th.
Rounds(aged, kept, n, f) ==
    f = [k \in 0..n |-> IF k = 0 THEN {} ELSE f[k-1] \cup Reaching(aged, kept, f[k-1])]

LEMMA RoundsExist ==
    ASSUME NEW aged, NEW kept, NEW n \in Nat
    PROVE  \E f : Rounds(aged, kept, n, f)
<1> DEFINE S == {m \in Nat : \E f : Rounds(aged, kept, m, f)}
<1>1. 0 \in S
  <2>1. Rounds(aged, kept, 0, [k \in 0..0 |-> {}])
    BY DEF Rounds
  <2>2. QED
    BY <2>1
<1>2. ASSUME NEW m \in Nat, m \in S PROVE m + 1 \in S
  <2>1. PICK f : Rounds(aged, kept, m, f)
    BY <1>2
  <2> DEFINE More(h) == h \cup Reaching(aged, kept, h)
             g == [k \in 0..m+1 |-> IF k = m + 1 THEN More(f[m]) ELSE f[k]]
  <2>2. f = [k \in 0..m |-> IF k = 0 THEN {} ELSE More(f[k-1])]
    BY <2>1 DEF Rounds
  <2> HIDE DEF More
  <2>3. ASSUME NEW k \in 0..m+1 PROVE g[k] = IF k = 0 THEN {} ELSE More(g[k-1])
    <3>1. CASE k = m + 1
      BY <3>1
    <3>2. CASE k # m + 1
      BY <2>2, <3>2
    <3>3. QED
      BY <3>1, <3>2
  <2>4. g = [k \in 0..m+1 |-> IF k = 0 THEN {} ELSE More(g[k-1])]
    BY <2>3
  <2>5. Rounds(aged, kept, m + 1, g)
    BY <2>4 DEF Rounds, More
  <2>6. QED
    BY <2>5
<1>3. Nat \subseteq S
  <2> HIDE DEF S
  <2>1. QED
    BY <1>1, <1>2, SetInduction
<1>4. QED
  BY <1>3

\* select_droppable drops what its last round does not hold back.
LEMMA DroppableRounds ==
    ASSUME NEW aged, NEW kept, Cardinality(aged) \in Nat
    PROVE  \E f : /\ Rounds(aged, kept, Cardinality(aged), f)
                  /\ SelectDroppable(aged, kept) = {s.part : s \in aged \ f[Cardinality(aged)]}
<1> DEFINE n == Cardinality(aged)
           f == CHOOSE g : Rounds(aged, kept, n, g)
<1>1. Rounds(aged, kept, n, f)
  <2> HIDE DEF n
  <2>1. QED
    BY RoundsExist DEF n
<1>2. SelectDroppable(aged, kept) = {s.part : s \in aged \ f[n]}
  BY DEF SelectDroppable, Rounds, Reaching, Staying
<1>3. QED
  BY <1>1, <1>2

\* select_droppable holds back what is in held and lets the rest go: nothing that
\* goes comes after something that stays, and nothing is held back but for a
\* reason that goes back to what is kept.
HoldsBack(aged, kept, held) ==
    /\ SelectDroppable(aged, kept) = {s.part : s \in aged \ held}
    /\ \A s \in aged \ held : \A n \in s.seqs, m \in Staying(kept, held) : n <= m
    /\ \A G \in SUBSET aged :
          (\A s \in aged : \A n \in s.seqs, m \in Staying(kept, G) : n > m => s \in G)
             => held \subseteq G

LEMMA DroppableFacts ==
    ASSUME NEW T, NEW aged \in SUBSET [part : T, seqs : SUBSET Nat], IsFiniteSet(aged),
           NEW N \in Nat, NEW kept \in SUBSET (0..N), \A s \in aged : s.seqs \subseteq 0..N
    PROVE  \E held \in SUBSET aged : HoldsBack(aged, kept, held)
<1> DEFINE c == Cardinality(aged)
           More(h) == Reaching(aged, kept, h)
<1>1. c \in Nat
  BY FS_CardinalityType
<1>2. PICK f : /\ Rounds(aged, kept, c, f)
               /\ SelectDroppable(aged, kept) = {s.part : s \in aged \ f[c]}
  BY <1>1, DroppableRounds
<1>3. f = [k \in 0..c |-> IF k = 0 THEN {} ELSE f[k-1] \cup More(f[k-1])]
  BY <1>2 DEF Rounds
<1>4. \A h : More(h) \in SUBSET (aged \ h)
  BY DEF Reaching
\* Max and Min are what they say, on the seqs of this table.
<1>5. \A S \in SUBSET (0..N) : S # {} =>
         Max(S) \in S /\ Min(S) \in S /\ \A y \in S : Min(S) <= y /\ y <= Max(S)
  <2>1. SUFFICES ASSUME NEW S \in SUBSET (0..N), S # {}
                 PROVE  Max(S) \in S /\ Min(S) \in S /\ \A y \in S : Min(S) <= y /\ y <= Max(S)
    OBVIOUS
  <2>2. IsFiniteSet(0..N)
    BY FS_Interval
  <2>3. IsFiniteSet(S) /\ S \in SUBSET Int
    BY <2>2, FS_Subset
  <2>4. QED
    BY <2>1, <2>3, MaxFacts, MinFacts
<1>6. \A h \in SUBSET aged : Staying(kept, h) \in SUBSET (0..N)
  BY DEF Staying
<1>7. ASSUME NEW h \in SUBSET aged, NEW s \in aged \ h
      PROVE  s \in More(h) <=> \E n \in s.seqs, m \in Staying(kept, h) : n > m
  <2>1. s.seqs \in SUBSET (0..N) /\ Staying(kept, h) \in SUBSET (0..N)
    BY <1>6
  <2> DEFINE A == s.seqs
             B == Staying(kept, h)
  <2>2. s \in More(h) <=> A # {} /\ B # {} /\ Max(A) > Min(B)
    BY DEF Reaching
  <2>3. /\ A # {} => Max(A) \in A /\ \A y \in A : y <= Max(A)
        /\ B # {} => Min(B) \in B /\ \A y \in B : Min(B) <= y
    BY <1>5, <2>1
  <2>4. A \in SUBSET Int /\ B \in SUBSET Int
    BY <2>1
  <2> HIDE DEF A, B
  <2>5. A # {} /\ B # {} /\ Max(A) > Min(B) <=> \E n \in A, m \in B : n > m
    <3>1. ASSUME NEW n \in A, NEW m \in B, n > m PROVE A # {} /\ B # {} /\ Max(A) > Min(B)
      <4>1. A # {} /\ B # {} /\ Max(A) \in Int /\ Min(B) \in Int /\ n <= Max(A) /\ Min(B) <= m
        BY <2>3, <2>4
      <4>2. n \in Int /\ m \in Int
        BY <2>4
      <4>3. QED
        BY <3>1, <4>1, <4>2
    <3>2. QED
      BY <2>3, <3>1
  <2>6. QED
    BY <2>2, <2>5 DEF A, B
<1> HIDE DEF More, c
<1>7a. ASSUME NEW n \in Nat, n + 1 \in 0..c PROVE f[n + 1] = f[n] \cup More(f[n])
  <2>1. PICK k \in 0..c : k = n + 1
    BY <1>7a
  <2>2. k # 0 /\ k - 1 = n
    BY <2>1
  <2>3. f[k] = f[k-1] \cup More(f[k-1])
    BY <1>3, <2>2
  <2>4. QED
    BY <2>1, <2>2, <2>3
\* The rounds hold back more and more, within what is aged.
<1>8. \A n \in 0..c : f[n] \in SUBSET aged
  <2> DEFINE S == {n \in Nat : n \in 0..c => f[n] \in SUBSET aged}
  <2>1. 0 \in S
    BY <1>1, <1>3
  <2>2. ASSUME NEW n \in Nat, n \in S PROVE n + 1 \in S
    <3>1. CASE n + 1 \in 0..c
      <4>1. n \in 0..c /\ f[n] \in SUBSET aged
        BY <1>1, <2>2, <3>1
      <4>2. f[n + 1] = f[n] \cup More(f[n])
        BY <1>7a, <3>1
      <4>3. QED
        BY <1>4, <4>1, <4>2
    <3>2. QED
      BY <3>1
  <2>3. Nat \subseteq S
    <3> HIDE DEF S
    <3>1. QED
      BY <2>1, <2>2, SetInduction
  <2>4. QED
    BY <1>1, <2>3
<1>9. \A h \in SUBSET aged : IsFiniteSet(h) /\ Cardinality(h) \in Nat /\ Cardinality(h) <= c
                             /\ (Cardinality(h) = c => h = aged)
  BY FS_Subset, FS_CardinalityType DEF c
<1>10. \A n \in 0..c : More(f[n]) = {} \/ Cardinality(f[n]) >= n
  <2> DEFINE S == {n \in Nat : n \in 0..c => More(f[n]) = {} \/ Cardinality(f[n]) >= n}
  <2>1. 0 \in S
    <3>1. 0 \in 0..c
      BY <1>1
    <3>2. Cardinality(f[0]) \in Nat
      BY <1>8, <1>9, <3>1
    <3>3. QED
      BY <3>2
  <2>2. ASSUME NEW n \in Nat, n \in S PROVE n + 1 \in S
    <3>1. CASE n + 1 \in 0..c
      <4>1. n \in 0..c /\ (More(f[n]) = {} \/ Cardinality(f[n]) >= n)
        BY <1>1, <2>2, <3>1
      <4>2. f[n + 1] = f[n] \cup More(f[n])
        BY <1>7a, <3>1
      <4>3. f[n] \in SUBSET aged /\ f[n + 1] \in SUBSET aged
        BY <1>8, <3>1, <4>1
      <4>4. CASE More(f[n]) = {}
        BY <4>2, <4>4
      <4>5. CASE More(f[n]) # {} /\ Cardinality(f[n]) >= n
        <5>1. f[n] \subseteq f[n + 1] /\ f[n] # f[n + 1]
          BY <1>4, <4>2, <4>5
        <5>2. IsFiniteSet(f[n + 1]) /\ Cardinality(f[n + 1]) \in Nat /\ Cardinality(f[n]) \in Nat
          BY <1>9, <4>3
        <5>3. Cardinality(f[n]) <= Cardinality(f[n + 1]) /\ Cardinality(f[n]) # Cardinality(f[n + 1])
          BY <5>1, <5>2, FS_Subset
        <5>4. QED
          BY <4>5, <5>2, <5>3
      <4>6. QED
        BY <4>1, <4>4, <4>5
    <3>2. QED
      BY <3>1
  <2>3. Nat \subseteq S
    <3> HIDE DEF S
    <3>1. QED
      BY <2>1, <2>2, SetInduction
  <2>4. QED
    BY <1>1, <2>3
<1>11. c \in 0..c /\ f[c] \in SUBSET aged
  BY <1>1, <1>8
<1>12. More(f[c]) = {}
  <2>1. CASE Cardinality(f[c]) >= c
    <3>1. f[c] = aged
      BY <1>1, <1>9, <1>11, <2>1
    <3>2. QED
      BY <1>4, <3>1
  <2>2. QED
    BY <1>10, <1>11, <2>1
<1>13. \A s \in aged \ f[c] : \A n \in s.seqs, m \in Staying(kept, f[c]) : n <= m
  <2>1. SUFFICES ASSUME NEW s \in aged \ f[c], NEW n \in s.seqs, NEW m \in Staying(kept, f[c])
                 PROVE  n <= m
    OBVIOUS
  <2>2. ~(n > m)
    BY <1>7, <1>11, <1>12
  <2>3. n \in Int /\ m \in Int
    BY <1>6, <1>11
  <2>4. QED
    BY <2>2, <2>3
<1>14. ASSUME NEW G \in SUBSET aged,
              \A s \in aged : \A n \in s.seqs, m \in Staying(kept, G) : n > m => s \in G
       PROVE  f[c] \subseteq G
  <2> DEFINE S == {n \in Nat : n \in 0..c => f[n] \subseteq G}
  <2>1. 0 \in S
    BY <1>1, <1>3
  <2>2. ASSUME NEW n \in Nat, n \in S PROVE n + 1 \in S
    <3>1. CASE n + 1 \in 0..c
      <4>1. n \in 0..c /\ f[n] \subseteq G /\ f[n] \in SUBSET aged
        BY <1>1, <1>8, <2>2, <3>1
      <4>2. f[n + 1] = f[n] \cup More(f[n])
        BY <1>7a, <3>1
      <4>3. ASSUME NEW s \in More(f[n]) PROVE s \in G
        <5>1. s \in aged \ f[n]
          BY <1>4, <4>3
        <5>2. PICK x \in s.seqs, m \in Staying(kept, f[n]) : x > m
          BY <1>7, <4>1, <4>3, <5>1
        <5>3. m \in Staying(kept, G)
          BY <4>1, <5>2 DEF Staying
        <5>4. QED
          BY <1>14, <5>1, <5>2, <5>3
      <4>4. QED
        BY <4>1, <4>2, <4>3
    <3>2. QED
      BY <3>1
  <2>3. Nat \subseteq S
    <3> HIDE DEF S
    <3>1. QED
      BY <2>1, <2>2, SetInduction
  <2>4. QED
    BY <1>1, <2>3
<1>15. QED
  <2>1. SelectDroppable(aged, kept) = {s.part : s \in aged \ f[c]}
    BY <1>2 DEF c
  <2>2. HoldsBack(aged, kept, f[c])
    BY <1>13, <1>14, <2>1 DEF HoldsBack
  <2>3. QED
    BY <1>11, <2>2

\* fetchmany takes the rows that come first.
LEMMA NextPartFirst ==
    ASSUME NEW C, NEW left \in SUBSET Rows(C), IsFiniteSet(left)
    PROVE  Below(NextPart(left), left \ NextPart(left))
<1> DEFINE Earlier(r) == {q \in left : q.seq < r.seq}
<1>1. SUFFICES ASSUME NEW r \in NextPart(left), NEW q \in left \ NextPart(left), ~(r.seq < q.seq)
               PROVE  FALSE
  BY DEF Below
<1>2. r \in left /\ q \in left /\ \A x \in left : x.seq \in Nat
  BY DEF NextPart, Rows
<1>3. Earlier(q) \subseteq Earlier(r)
  BY <1>1, <1>2
<1>4. Earlier(r) \in SUBSET left
  OBVIOUS
<1>5. IsFiniteSet(Earlier(r))
  BY <1>4, FS_Subset
<1>6. Cardinality(Earlier(q)) <= Cardinality(Earlier(r)) /\ Cardinality(Earlier(q)) \in Nat
      /\ Cardinality(Earlier(r)) \in Nat
  BY <1>3, <1>5, FS_Subset, FS_CardinalityType
<1>7. Cardinality(Earlier(r)) < PartRows /\ ~(Cardinality(Earlier(q)) < PartRows)
  BY DEF NextPart
<1>8. PartRows \in Nat
  BY RetentionConstants
<1> HIDE DEF Earlier
<1>9. QED
  BY <1>6, <1>7, <1>8

-----------------------------------------------------------------------------
(* The inductive strengthening of OneChain, ArchiveVerifies and            *)
(* LargestPrefix.                                                          *)

\* A run that has listed the seqs of its partitions, and one that has chosen.
ListedStates == {"listed", "open", "archive", "drop", "commit"}
ChosenStates == {"open", "archive", "drop", "commit"}

AgedPartsOf(j) == {s.part : s \in run[j].aged}

\* Who has the parent open, alone or with others.
ParentLocks == \A t \in Tables : xlock[t] # NoOwner => slock[t] \subseteq {xlock[t]}

\* A head that was read, and an uncommitted row, are held under the parent's
\* lock, which a drop excludes.
WriterHolds(w) ==
    /\ \A k \in ReadKeys(w) : w \in slock[Parent[k]]
    /\ \A t \in Tables : pend[w][t] # {} => w \in slock[t]

\* A retention job writes no rows, and a choice is made under the parent's lock.
JobHolds(j) ==
    /\ batch[j] = <<>> /\ pend[j] = NoRows
    /\ run[j].at \in ChosenStates => j \in slock[run[j].t]
    /\ run[j].at = "commit" => xlock[run[j].t] = j

ParentInv ==
    /\ ParentLocks
    /\ \A w \in Writers : WriterHolds(w)
    /\ \A j \in Jobs : JobHolds(j)

\* Rows lie in partitions that exist, and there are finitely many of those.
PlaceInv ==
    /\ \A t \in Tables : \A r \in table[t] : RowPart(t, r) \in parts
    /\ \A w \in Writers, t \in Tables : \A r \in pend[w][t] : RowPart(t, r) \in parts \cup made[w]
    /\ IsFiniteSet(parts) /\ \A w \in Writers : IsFiniteSet(made[w])

\* The rows that a transaction sees are finitely many, with a seq each.
CountInv == \A w \in Writers, t \in Tables : SeqSet(Visible(w, t))

\* The rows of a listed partition are all there, or they came before all rows
\* that are.
Whole(t, s) == \A n \in s.seqs : \E r \in RowsIn(t, {s.part}) : r.seq = n
Past(t, s) == \A n \in s.seqs : \A r \in table[t] : n < r.seq

\* Where the rows of t are that a run has listed: the rest of the table has
\* come later, and a partition is there in full or was archived with all that
\* came before it.
ListInv(j) ==
    LET t == run[j].t IN
    /\ IsFiniteSet(run[j].aged)
    /\ \A s \in run[j].aged : s.part[1] = t /\ s.part[2] < run[j].cutoff
    /\ \A s \in run[j].aged : \A n \in s.seqs :
          n < nextseq[t] /\ \A w \in Writers : \A r \in pend[w][t] : n < r.seq
    /\ \A r \in table[t] :
          \/ DayOf[r.ev] >= run[j].cutoff
          \/ \E s \in run[j].aged : s.part = RowPart(t, r) /\ r.seq \in s.seqs
          \/ \A s \in run[j].aged : \A n \in s.seqs : n < r.seq
    /\ \A s \in run[j].aged : s.part \in run[j].listed =>
          \A r \in RowsIn(t, {s.part}) : r.seq \in s.seqs
    /\ t \in Locked => \A s \in run[j].aged : Whole(t, s) \/ Past(t, s)

\* The choice stays right until the commit, whatever is appended meanwhile.
ChoiceInv(j) ==
    LET t == run[j].t IN
    /\ run[j].drop \subseteq run[j].listed => Removable(t, run[j].drop)
    /\ t \in Locked => \A P \in SUBSET AgedPartsOf(j) : Removable(t, P) => P \subseteq run[j].drop

\* The parts hold rows that will be dropped, in seq order.
OutInv(j) ==
    LET t == run[j].t
        out == run[j].out IN
    /\ UNION Range(out) \subseteq RowsIn(t, run[j].drop)
    /\ \A m, n \in 1..Len(out) : m < n => Below(out[m], out[n])
    /\ run[j].at = "archive" =>
          /\ run[j].left \subseteq RowsIn(t, run[j].drop)
          /\ \A m \in 1..Len(out) : Below(out[m], run[j].left)

RunChainInv(j) ==
    /\ run[j].at \in ListedStates => ListInv(j)
    /\ run[j].at \in ChosenStates => ChoiceInv(j) /\ OutInv(j)

\* Archive and table of t are one chain, in which the archive comes first.
ArchiveAt(t) ==
    /\ SeqSet(Catalogued(t))
    /\ Linked(Catalogued(t), NoHash)
    /\ anchor[t] = TailHash(Catalogued(t), NoHash)
    /\ Below(Catalogued(t), table[t])
    /\ \A w \in Writers : Below(Catalogued(t), Visible(w, t))
    /\ PartsApart(t)

\* What a run knows of its table stays true while writers append to it and other
\* runs drop from it, and what it commits moves the cut between archive and
\* table along one chain (run_scope, select_droppable).
PrefixInv ==
    /\ LockInv /\ SeqInv /\ FreshInv
    /\ ParentInv /\ PlaceInv /\ CountInv
    /\ \A t \in Locked : HeadAt(t) /\ ArchiveAt(t)
    /\ \A j \in Jobs : RunChainInv(j)

-----------------------------------------------------------------------------
(* The parents' locks.                                                     *)

\* The parents that everybody else has open stay open.
OpenKept(v) ==
    \A u \in Writers \ {v}, t \in Tables :
        (u \in slock[t] => u \in slock'[t]) /\ (xlock[t] = u => xlock'[t] = u)

\* What a step of v does to the locks on the parents.
OneParent(v, t) ==
    \/ /\ xlock[t] \in {NoOwner, v} /\ xlock' = xlock
       /\ slock' = [slock EXCEPT ![t] = @ \cup {v}]
    \/ /\ xlock[t] \in {NoOwner, v} /\ slock[t] \subseteq {v} /\ slock' = slock
       /\ xlock' = [xlock EXCEPT ![t] = v]

Released(v) ==
    /\ xlock' = [t \in Tables |-> IF xlock[t] = v THEN NoOwner ELSE xlock[t]]
    /\ slock' = [t \in Tables |-> slock[t] \ {v}]

ParentsMove(v) == UNCHANGED <<xlock, slock>> \/ Released(v) \/ \E t \in Tables : OneParent(v, t)

LEMMA ParentsStep ==
    ASSUME TypeOK, ParentLocks, NEW v \in Writers, ParentsMove(v)
    PROVE  ParentLocks' /\ OpenKept(v)
<1>0. /\ xlock \in [Tables -> Owners] /\ slock \in [Tables -> SUBSET Writers]
      /\ NoOwner \notin Writers
  BY WriterConstants DEF TypeOK
<1>1. CASE UNCHANGED <<xlock, slock>>
  BY <1>1 DEF ParentLocks, OpenKept
<1>2. CASE Released(v)
  BY <1>0, <1>2 DEF Released, ParentLocks, OpenKept
<1>3. ASSUME NEW t \in Tables, OneParent(v, t) PROVE ParentLocks' /\ OpenKept(v)
  <2>1. CASE xlock' = xlock /\ slock' = [slock EXCEPT ![t] = @ \cup {v}] /\ xlock[t] \in {NoOwner, v}
    BY <1>0, <2>1 DEF ParentLocks, OpenKept
  <2>2. CASE xlock' = [xlock EXCEPT ![t] = v] /\ slock' = slock /\ slock[t] \subseteq {v}
             /\ xlock[t] \in {NoOwner, v}
    BY <1>0, <2>2 DEF ParentLocks, OpenKept
  <2>3. QED
    BY <1>3, <2>1, <2>2 DEF OneParent
<1>4. QED
  BY <1>1, <1>2, <1>3 DEF ParentsMove

LEMMA WriterParents ==
    ASSUME TypeOK, NEW w \in WriterJobs, WriterNext(w)
    PROVE  ParentsMove(w)
<1>1. ASSUME NEW b \in Batches, Call(w, b) PROVE UNCHANGED <<xlock, slock>>
  BY <1>1 DEF Call, locks
<1>2. ASSUME LockPartition(w) \/ FindPartition(w) \/ LockChain(w) \/ InsertRow(w)
      PROVE  UNCHANGED <<xlock, slock>>
  BY <1>2 DEF LockPartition, FindPartition, LockChain, InsertRow, locks
<1>3. ASSUME CreatePartition(w) PROVE \E t \in Tables : OneParent(w, t)
  <2>1. PICK p \in needP[w] :
           /\ xlock[p[1]] \in {NoOwner, w} /\ slock[p[1]] \subseteq {w} /\ slock' = slock
           /\ xlock' = [xlock EXCEPT ![p[1]] = w]
    BY <1>3 DEF CreatePartition
  <2>2. p[1] \in Tables
    BY DEF TypeOK, WriterJobs, Partitions
  <2>3. QED
    BY <2>1, <2>2 DEF OneParent
<1>4. ASSUME SeedHead(w) PROVE \E t \in Tables : OneParent(w, t)
  <2>1. PICK k \in needK[w] :
           /\ xlock[Parent[k]] \in {NoOwner, w} /\ xlock' = xlock
           /\ slock' = [slock EXCEPT ![Parent[k]] = @ \cup {w}]
    BY <1>4 DEF SeedHead
  <2>2. Parent[k] \in Tables
    BY WriterConstants DEF TypeOK, WriterJobs
  <2>3. QED
    BY <2>1, <2>2 DEF OneParent
<1>5. ASSUME Commit(w) \/ Abort(w) PROVE Released(w)
  BY <1>5 DEF Commit, Abort, EndTransaction, Released
<1>6. QED
  BY <1>1, <1>2, <1>3, <1>4, <1>5, WriterMoves DEF ParentsMove

LEMMA RunParents ==
    ASSUME NEW j \in Jobs, OnTable(j), RunNext(j)
    PROVE  ParentsMove(j)
<1>1. ASSUME NEW t \in Tables, BeginRun(j, t) PROVE UNCHANGED <<xlock, slock>>
  BY <1>1 DEF BeginRun
<1>2. ASSUME LockAged(j) \/ Relist(j) \/ OpenStream(j) PROVE UNCHANGED <<xlock, slock>>
  BY <1>2 DEF LockAged, Relist, OpenStream
<1>3. ASSUME Select(j) PROVE OneParent(j, run[j].t) /\ run[j].t \in Tables
  BY <1>3 DEF Select, OneParent, OnTable
<1>4. ASSUME DropPartitions(j) PROVE OneParent(j, run[j].t) /\ run[j].t \in Tables
  BY <1>4 DEF DropPartitions, OneParent, OnTable
<1>5. ASSUME PutPart(j) \/ PutManifest(j) PROVE UNCHANGED <<xlock, slock>> \/ ReleaseLocks(j)
  BY <1>5 DEF PutPart, PutManifest, EndRun
<1>6. ASSUME RunEnds(j) \/ CommitRun(j) PROVE ReleaseLocks(j)
  BY <1>6 DEF RunEnds, EndRun, CommitRun
<1>7. ASSUME ReleaseLocks(j) PROVE Released(j)
  BY <1>7 DEF ReleaseLocks, Released
<1>8. QED
  BY <1>1, <1>2, <1>3, <1>4, <1>5, <1>6, <1>7 DEF RunNext, ParentsMove

\* A step of one writer leaves the keys that the others have read.
LEMMA OthersRead ==
    ASSUME TypeOK, NEW w \in WriterJobs, WriterNext(w), NEW v \in Writers \ {w}
    PROVE  ReadKeys(v)' = ReadKeys(v)
<1>0. w \in Writers /\ v \in Writers /\ v # w /\ needK \in [Writers -> SUBSET Keys]
  BY DEF WriterJobs, TypeOK
<1>1. batch'[v] = batch[v]
  BY OthersKept
<1>2. ASSUME NEW b \in Batches, Call(w, b) PROVE needK'[v] = needK[v]
  BY <1>0, <1>2 DEF Call
<1>3. ASSUME SeedHead(w) PROVE needK'[v] = needK[v]
  BY <1>0, <1>3 DEF SeedHead
<1>4. ASSUME Commit(w) \/ Abort(w) PROVE needK'[v] = needK[v]
  BY <1>0, <1>4 DEF Commit, Abort, EndTransaction
<1>5. ASSUME LockPartition(w) \/ FindPartition(w) \/ CreatePartition(w) \/ LockChain(w) \/ InsertRow(w)
      PROVE  needK'[v] = needK[v]
  BY <1>5 DEF LockPartition, FindPartition, CreatePartition, LockChain, InsertRow
<1>6. needK'[v] = needK[v]
  BY <1>2, <1>3, <1>4, <1>5, WriterMoves
<1>7. QED
  BY <1>1, <1>6 DEF ReadKeys

\* A writer that somebody else's step leaves alone keeps its parents open.
LEMMA HoldsUndisturbed ==
    ASSUME TypeOK, NEW v \in Writers, WriterHolds(v), NEW w \in Writers, w # v, OpenKept(w),
           ReadKeys(v)' = ReadKeys(v), pend'[v] = pend[v]
    PROVE  WriterHolds(v)'
<1>1. \A k \in ReadKeys(v) : Parent[k] \in Tables
  BY ReadKeysType
<1>2. \A k \in ReadKeys(v)' : v \in slock'[Parent[k]]
  BY <1>1 DEF WriterHolds, OpenKept
<1>3. \A t \in Tables : pend'[v][t] # {} => v \in slock'[t]
  BY DEF WriterHolds, OpenKept
<1>4. QED
  BY <1>2, <1>3 DEF WriterHolds

\* A writer opens the parent before it reads the tail or inserts.
LEMMA WriterHoldsStep ==
    ASSUME TypeOK, LockInv, NEW w \in WriterJobs, WriterHolds(w), WriterNext(w)
    PROVE  WriterHolds(w)'
<1>0. /\ w \in Writers /\ slock \in [Tables -> SUBSET Writers]
      /\ pend \in [Writers -> [Tables -> SUBSET Rows(Contents)]]
      /\ batch \in [Writers -> Seq(Events)] /\ needK \in [Writers -> SUBSET Keys]
      /\ batch[w] \in Seq(Events)
  BY DEF WriterJobs, TypeOK
<1>1. ASSUME UNCHANGED <<batch, needK, pend, slock>> PROVE WriterHolds(w)'
  BY <1>1 DEF WriterHolds, ReadKeys
<1>2. ASSUME LockPartition(w) \/ FindPartition(w) \/ CreatePartition(w) \/ LockChain(w)
      PROVE  UNCHANGED <<batch, needK, pend, slock>>
  BY <1>2 DEF LockPartition, FindPartition, CreatePartition, LockChain, locks, tx
<1>3. ASSUME NEW b \in Batches, Call(w, b) PROVE WriterHolds(w)'
  <2>1. /\ batch'[w] = b /\ needK'[w] = {KeyOf[e] : e \in EventsIn(b)}
        /\ UNCHANGED <<pend, slock>>
    BY <1>0, <1>3 DEF Call, locks
  <2>2. ReadKeys(w)' = {}
    BY <2>1 DEF ReadKeys
  <2>3. QED
    BY <2>1, <2>2 DEF WriterHolds
<1>4. ASSUME SeedHead(w) PROVE WriterHolds(w)'
  <2>1. PICK k \in needK[w] :
           /\ slock' = [slock EXCEPT ![Parent[k]] = @ \cup {w}]
           /\ needK' = [needK EXCEPT ![w] = @ \ {k}]
    BY <1>4 DEF SeedHead
  <2>2. UNCHANGED <<batch, pend>>
    BY <1>4 DEF SeedHead, tx
  <2>3. k \in Keys /\ Parent[k] \in Tables
    BY <1>0, WriterConstants
  <2>4. \A t \in Tables : slock[t] \subseteq slock'[t]
    BY <1>0, <2>1, <2>3
  <2>5. w \in slock'[Parent[k]]
    BY <1>0, <2>1, <2>3
  <2>6. needK'[w] = needK[w] \ {k}
    BY <1>0, <2>1
  <2>7. \A i \in ReadKeys(w)' : i \in ReadKeys(w) \/ i = k
    BY <2>2, <2>6 DEF ReadKeys
  <2>8. \A i \in ReadKeys(w) : Parent[i] \in Tables
    BY <1>0, ReadKeysType
  <2>9. \A i \in ReadKeys(w)' : w \in slock'[Parent[i]]
    BY <2>4, <2>5, <2>7, <2>8 DEF WriterHolds
  <2>10. \A t \in Tables : pend'[w][t] # {} => w \in slock'[t]
    BY <2>2, <2>4 DEF WriterHolds
  <2>11. QED
    BY <2>9, <2>10 DEF WriterHolds
<1>5. ASSUME InsertRow(w) PROVE WriterHolds(w)'
  <2> DEFINE e == Head(batch[w])
             k == KeyOf[e]
             t == Parent[k]
             row == RowOf(nextseq[t], e, heads[w][k])
  <2>1. /\ k \in ReadKeys(w) /\ batch[w] # <<>> /\ needK' = needK
        /\ batch' = [batch EXCEPT ![w] = Tail(@)] /\ t \in Tables
        /\ pend' = [pend EXCEPT ![w][t] = @ \cup {row}] \/ pend' = pend
    BY <1>0, <1>5, InsertFacts
  <2>2. w \in slock[t]
    BY <2>1 DEF WriterHolds
  <2> HIDE DEF t, row
  <2>3. UNCHANGED slock
    BY <1>5 DEF InsertRow, locks
  <2>4. EventsIn(batch'[w]) \subseteq EventsIn(batch[w])
    BY <1>0, <2>1, TailEvents
  <2>5. ReadKeys(w)' \subseteq ReadKeys(w)
    BY <2>1, <2>4 DEF ReadKeys
  <2>6. \A u \in Tables : pend'[w][u] # {} => pend[w][u] # {} \/ u = t
    <3>1. CASE pend' = pend
      BY <3>1
    <3>2. CASE pend' = [pend EXCEPT ![w][t] = @ \cup {row}]
      <4>1. \A u \in Tables : u # t => pend'[w][u] = pend[w][u]
        BY <1>0, <2>1, <3>2
      <4>2. QED
        BY <4>1
    <3>3. QED
      BY <2>1, <3>1, <3>2
  <2>7. QED
    BY <2>2, <2>3, <2>5, <2>6 DEF WriterHolds
<1>6. ASSUME Commit(w) \/ Abort(w) PROVE WriterHolds(w)'
  <2>1. batch'[w] = <<>> /\ pend'[w] = NoRows
    BY <1>0, <1>6 DEF Commit, Abort, EndTransaction
  <2>2. ReadKeys(w)' = {}
    BY <2>1, EmptyBatch DEF ReadKeys
  <2>3. QED
    BY <2>1, <2>2 DEF WriterHolds, NoRows
<1>7. QED
  BY <1>1, <1>2, <1>3, <1>4, <1>5, <1>6, WriterMoves

\* A run that another's step leaves alone keeps its parent's locks.
LEMMA JobUndisturbed ==
    ASSUME NEW j \in Jobs, JobHolds(j), OnTable(j), NEW w \in Writers, w # j, OpenKept(w),
           batch'[j] = batch[j], pend'[j] = pend[j], run'[j] = run[j]
    PROVE  JobHolds(j)'
<1>1. j \in Writers \ {w}
  BY RetentionConstants
<1>2. run[j].at \in ChosenStates => run[j].t \in Tables
  BY DEF OnTable, ChosenStates
<1>3. run[j].at = "commit" => run[j].t \in Tables
  BY DEF OnTable
<1>4. QED
  BY <1>1, <1>2, <1>3 DEF JobHolds, OpenKept

\* A run opens its parent before it chooses, and has it alone when it drops.
LEMMA JobHoldsStep ==
    ASSUME TypeOK, RecordsOK, NEW j \in Jobs, OnTable(j), JobHolds(j), RunNext(j)
    PROVE  JobHolds(j)'
<1>0. /\ UNCHANGED <<batch, pend>> /\ j \in Writers /\ slock \in [Tables -> SUBSET Writers]
      /\ xlock \in [Tables -> Owners]
  BY RunMoves, RetentionConstants DEF tx, call, TypeOK
<1>1. ASSUME run'[j].at \notin ChosenStates PROVE JobHolds(j)'
  BY <1>0, <1>1 DEF JobHolds, ChosenStates
<1>2. ASSUME NEW t \in Tables, BeginRun(j, t) PROVE run'[j].at \notin ChosenStates
  BY <1>2, BeginMove DEF ChosenStates
<1>3. ASSUME LockAged(j) PROVE run'[j].at \notin ChosenStates
  BY <1>3, LockedMove DEF ChosenStates
<1>4. ASSUME Relist(j) PROVE run'[j].at \notin ChosenStates
  BY <1>4, RelistMove, LockedTable DEF ChosenStates
<1>5. ASSUME ReleaseLocks(j) PROVE run'[j].at \notin ChosenStates
  BY <1>5, EndMove, NoRunType DEF ChosenStates
<1>6. ASSUME Select(j) PROVE JobHolds(j)'
  <2>1. run[j].at = "listed" /\ run'[j].at \in {"open", "drop"} /\ run'[j].t = run[j].t
    BY <1>6, SelectMove DEF SameRun
  <2>2. run[j].t \in Tables /\ slock' = [slock EXCEPT ![run[j].t] = @ \cup {j}]
    BY <1>6, <2>1 DEF OnTable, Select
  <2>3. j \in slock'[run'[j].t]
    BY <1>0, <2>1, <2>2
  <2>4. QED
    BY <1>0, <2>1, <2>3 DEF JobHolds
<1>7. ASSUME run[j].at \in ChosenStates, run'[j].at \in ChosenStates \ {"commit"},
             run'[j].t = run[j].t, UNCHANGED slock
      PROVE  JobHolds(j)'
  BY <1>0, <1>7 DEF JobHolds
<1>8. ASSUME OpenStream(j) PROVE JobHolds(j)'
  <2>1. UNCHANGED slock
    BY <1>8 DEF OpenStream
  <2>2. run[j].at = "open" /\ run'[j].at = "archive" /\ run'[j].t = run[j].t
    BY <1>8, OpenMove, LockedTable DEF SameRun
  <2>3. QED
    BY <1>7, <2>1, <2>2 DEF ChosenStates
<1>9. ASSUME PutPart(j) PROVE JobHolds(j)'
  <2>1. UNCHANGED slock \/ ReleaseLocks(j)
    BY <1>9 DEF PutPart, EndRun
  <2>2. ASSUME NEW body \in SUBSET run[j].left, Parted(j, body), ~ReleaseLocks(j) PROVE JobHolds(j)'
    <3>1. run[j].at = "archive" /\ run'[j].at = "archive" /\ run'[j].t = run[j].t
      BY <1>9, <2>2, PartOutcome, PartMove DEF SameRun
    <3>2. QED
      BY <1>7, <2>1, <2>2, <3>1 DEF ChosenStates
  <2>3. QED
    BY <1>1, <1>5, <1>9, <2>2, PartOutcome
<1>10. ASSUME PutManifest(j) PROVE JobHolds(j)'
  <2>1. UNCHANGED slock \/ ReleaseLocks(j)
    BY <1>10 DEF PutManifest, EndRun
  <2>2. ASSUME Staged(j, "drop"), ~ReleaseLocks(j) PROVE JobHolds(j)'
    <3>1. run[j].at = "archive" /\ run'[j].at = "drop" /\ run'[j].t = run[j].t
      BY <1>10, <2>2, ManifestOutcome, StageMove DEF SameRun
    <3>2. QED
      BY <1>7, <2>1, <2>2, <3>1 DEF ChosenStates
  <2>3. QED
    BY <1>1, <1>5, <1>10, <2>2, ManifestOutcome
<1>11. ASSUME DropPartitions(j) PROVE JobHolds(j)'
  <2>1. /\ run[j].at = "drop" /\ Staged(j, "commit") /\ UNCHANGED slock
        /\ xlock' = [xlock EXCEPT ![run[j].t] = j]
    BY <1>11 DEF DropPartitions, Staged
  <2>2. run'[j].at = "commit" /\ run'[j].t = run[j].t /\ run[j].t \in Tables
    BY <2>1, StageMove DEF SameRun, OnTable
  <2>3. xlock'[run[j].t] = j
    BY <1>0, <2>1, <2>2
  <2>4. QED
    BY <1>0, <2>1, <2>2, <2>3 DEF JobHolds, ChosenStates
<1>12. ASSUME RunEnds(j) \/ CommitRun(j) PROVE ReleaseLocks(j)
  BY <1>12 DEF RunEnds, EndRun, CommitRun
<1>13. QED
  BY <1>1, <1>2, <1>3, <1>4, <1>5, <1>6, <1>8, <1>9, <1>10, <1>11, <1>12 DEF RunNext

LEMMA ParentWriter ==
    ASSUME TypeOK, LockInv, ParentInv, \A j \in Jobs : OnTable(j),
           NEW w \in WriterJobs, WriterNext(w)
    PROVE  ParentInv'
<1>0. w \in Writers /\ UNCHANGED run
  BY WriterMoves DEF rvars
<1>1. ParentLocks' /\ OpenKept(w)
  BY <1>0, WriterParents, ParentsStep DEF ParentInv
<1>2. ASSUME NEW v \in Writers PROVE WriterHolds(v)'
  <2>1. CASE v = w
    BY <2>1, WriterHoldsStep DEF ParentInv
  <2>2. CASE v # w
    BY <1>0, <1>1, <2>2, OthersKept, OthersRead, HoldsUndisturbed DEF ParentInv
  <2>3. QED
    BY <2>1, <2>2
<1>3. ASSUME NEW j \in Jobs PROVE JobHolds(j)'
  <2>1. j \in Writers \ {w} /\ w # j
    BY RetentionConstants DEF WriterJobs
  <2>2. batch'[j] = batch[j] /\ pend'[j] = pend[j]
    BY <2>1, OthersKept
  <2>3. QED
    BY <1>0, <1>1, <2>1, <2>2, JobUndisturbed DEF ParentInv
<1>4. QED
  BY <1>1, <1>2, <1>3 DEF ParentInv

LEMMA ParentRun ==
    ASSUME TypeOK, RecordsOK, ParentInv, \A i \in Jobs : OnTable(i), NEW j \in Jobs, RunNext(j)
    PROVE  ParentInv'
<1>0. /\ UNCHANGED <<batch, pend, needK>> /\ j \in Writers
      /\ \A i \in Jobs \ {j} : run'[i] = run[i]
  BY RunMoves, RunSteps, LockedTable, RetentionConstants DEF tx, call, RunKept
<1>1. ParentLocks' /\ OpenKept(j)
  BY <1>0, RunParents, ParentsStep DEF ParentInv
<1>2. ASSUME NEW v \in Writers PROVE WriterHolds(v)'
  <2>1. ReadKeys(v)' = ReadKeys(v)
    BY <1>0 DEF ReadKeys
  <2>2. CASE v = j
    <3>1. batch[v] = <<>> /\ pend'[v] = NoRows
      BY <1>0, <2>2 DEF ParentInv, JobHolds
    <3>2. ReadKeys(v)' = {}
      BY <2>1, <3>1, EmptyBatch DEF ReadKeys
    <3>3. QED
      BY <3>1, <3>2 DEF WriterHolds, NoRows
  <2>3. CASE v # j
    BY <1>0, <1>1, <2>1, <2>3, HoldsUndisturbed DEF ParentInv
  <2>4. QED
    BY <2>2, <2>3
<1>3. ASSUME NEW i \in Jobs PROVE JobHolds(i)'
  <2>1. CASE i = j
    BY <2>1, JobHoldsStep DEF ParentInv
  <2>2. CASE i # j
    BY <1>0, <1>1, <2>2, JobUndisturbed DEF ParentInv
  <2>3. QED
    BY <2>1, <2>2
<1>4. QED
  BY <1>1, <1>2, <1>3 DEF ParentInv

-----------------------------------------------------------------------------
(* Partitions, and the rows that transactions see.                         *)

\* A run that commits has its table alone: no row is uncommitted, no head read.
LEMMA AloneFacts ==
    ASSUME ParentInv, NEW j \in Jobs, run[j].at = "commit", run[j].t \in Tables
    PROVE  LET t == run[j].t IN
           /\ slock[t] \subseteq {j} /\ \A w \in Writers : pend[w][t] = {}
           /\ \A w \in Writers : \A k \in ReadKeys(w) : Parent[k] # t
<1>0. PICK t \in Tables : t = run[j].t
  OBVIOUS
<1>1. j \in Writers /\ NoOwner \notin Writers
  BY RetentionConstants, WriterConstants
<1>2. xlock[t] = j /\ batch[j] = <<>> /\ pend[j] = NoRows
  BY <1>0 DEF ParentInv, JobHolds
<1>3. slock[t] \subseteq {j}
  BY <1>1, <1>2 DEF ParentInv, ParentLocks
<1>4. ASSUME NEW w \in Writers PROVE pend[w][t] = {}
  <2>1. pend[w][t] # {} => w \in slock[t]
    BY DEF ParentInv, WriterHolds
  <2>2. pend[j][t] = {}
    BY <1>2 DEF NoRows
  <2>3. QED
    BY <1>3, <2>1, <2>2
<1>5. ASSUME NEW w \in Writers, NEW k \in ReadKeys(w), Parent[k] = t PROVE FALSE
  <2>1. w \in slock[t]
    BY <1>5 DEF ParentInv, WriterHolds
  <2>2. w = j
    BY <1>3, <2>1
  <2>3. ReadKeys(j) = {}
    BY <1>2, EmptyBatch DEF ReadKeys
  <2>4. QED
    BY <1>5, <2>2, <2>3
<1>6. QED
  BY <1>0, <1>3, <1>4, <1>5

LEMMA PlaceWriter ==
    ASSUME TypeOK, PlaceInv, NEW w \in WriterJobs, WriterNext(w)
    PROVE  PlaceInv'
<1>0. /\ w \in Writers /\ pend \in [Writers -> [Tables -> SUBSET Rows(Contents)]]
      /\ batch \in [Writers -> Seq(Events)] /\ made \in [Writers -> SUBSET Partitions]
  BY DEF WriterJobs, TypeOK
<1>1. ASSUME UNCHANGED <<table, pend, parts, made>> PROVE PlaceInv'
  BY <1>1 DEF PlaceInv, RowPart
<1>2. ASSUME NEW b \in Batches, Call(w, b) PROVE UNCHANGED <<table, pend, parts, made>>
  BY <1>2 DEF Call, db
<1>3. ASSUME LockPartition(w) \/ FindPartition(w) \/ LockChain(w) \/ SeedHead(w)
      PROVE  UNCHANGED <<table, pend, parts, made>>
  BY <1>3 DEF LockPartition, FindPartition, LockChain, SeedHead, db, tx
<1>4. ASSUME CreatePartition(w) PROVE PlaceInv'
  <2>1. PICK p : made' = [made EXCEPT ![w] = @ \cup {p}]
    BY <1>4 DEF CreatePartition
  <2>2. UNCHANGED <<table, pend, parts>>
    BY <1>4 DEF CreatePartition, db
  <2>3. \A v \in Writers : made'[v] = IF v = w THEN made[v] \cup {p} ELSE made[v]
    BY <1>0, <2>1
  <2>4. IsFiniteSet(made[w] \cup {p})
    BY <1>0, FS_AddElement DEF PlaceInv
  <2>5. \A v \in Writers : IsFiniteSet(made'[v])
    BY <2>3, <2>4 DEF PlaceInv
  <2>6. \A v \in Writers : made[v] \subseteq made'[v]
    BY <2>3
  <2>7. \A v \in Writers, t \in Tables : \A r \in pend'[v][t] : RowPart(t, r) \in parts' \cup made'[v]
    BY <2>2, <2>6 DEF PlaceInv
  <2>8. QED
    BY <2>2, <2>5, <2>7 DEF PlaceInv, RowPart
<1>5. ASSUME RetInsert(w) PROVE PlaceInv'
  <2> DEFINE e == Head(batch[w])
             k == KeyOf[e]
             u == Parent[k]
             row == RowOf(nextseq[u], e, heads[w][k])
  <2>1. /\ batch[w] # <<>> /\ UNCHANGED <<table, parts, made>>
        /\ InsertFresh(w, e, k, u) \/ AdoptDuplicate(w, e, k, u)
        /\ PartOf(e) \in parts \cup made[w]
    BY <1>5 DEF RetInsert, InsertRow
  <2>2. e \in Events
    BY <1>0, <2>1, TailEvents
  <2>3. u \in Tables /\ RowPart(u, row) \in parts \cup made[w]
    BY <2>1, <2>2, WriterConstants DEF RowOf, RowPart, PartOf, TableOf
  <2>4. UNCHANGED pend \/ pend' = [pend EXCEPT ![w][u] = @ \cup {row}]
    BY <2>1 DEF InsertFresh, AdoptDuplicate
  <2> HIDE DEF u, row
  <2>5. \A v \in Writers, t \in Tables : \A r \in pend'[v][t] :
           r \in pend[v][t] \/ (v = w /\ t = u /\ r = row)
    <3>1. CASE UNCHANGED pend
      BY <3>1
    <3>2. CASE pend' = [pend EXCEPT ![w][u] = @ \cup {row}]
      <4>1. \A v \in Writers, t \in Tables :
               pend'[v][t] = IF v = w /\ t = u THEN pend[v][t] \cup {row} ELSE pend[v][t]
        BY <1>0, <2>3, <3>2
      <4>2. QED
        BY <4>1
    <3>3. QED
      BY <2>4, <3>1, <3>2
  <2>6. \A v \in Writers, t \in Tables : \A r \in pend'[v][t] : RowPart(t, r) \in parts' \cup made'[v]
    BY <2>1, <2>3, <2>5 DEF PlaceInv
  <2>7. QED
    BY <2>1, <2>6 DEF PlaceInv, RowPart
<1>6. ASSUME Commit(w) PROVE PlaceInv'
  <2>1. /\ parts' = parts \cup made[w] /\ table' = [t \in Tables |-> table[t] \cup pend[w][t]]
        /\ pend' = [pend EXCEPT ![w] = NoRows] /\ made' = [made EXCEPT ![w] = {}]
    BY <1>6 DEF Commit, EndTransaction
  <2>2. \A t \in Tables : \A r \in table'[t] : RowPart(t, r) \in parts'
    BY <1>0, <2>1 DEF PlaceInv
  <2>3. \A v \in Writers, t \in Tables : \A r \in pend'[v][t] :
           v # w /\ r \in pend[v][t] /\ made'[v] = made[v]
    BY <1>0, <2>1 DEF NoRows
  <2>4. \A v \in Writers, t \in Tables : \A r \in pend'[v][t] : RowPart(t, r) \in parts' \cup made'[v]
    BY <2>1, <2>3 DEF PlaceInv
  <2>5. IsFiniteSet(parts')
    BY <1>0, <2>1, FS_Union DEF PlaceInv
  <2>6. \A v \in Writers : made'[v] = IF v = w THEN {} ELSE made[v]
    BY <1>0, <2>1
  <2>7. \A v \in Writers : IsFiniteSet(made'[v])
    BY <2>6, FS_EmptySet DEF PlaceInv
  <2>8. QED
    BY <2>2, <2>4, <2>5, <2>7 DEF PlaceInv, RowPart
<1>7. ASSUME Abort(w) PROVE PlaceInv'
  <2>1. /\ UNCHANGED <<parts, table>>
        /\ pend' = [pend EXCEPT ![w] = NoRows] /\ made' = [made EXCEPT ![w] = {}]
    BY <1>7 DEF Abort, EndTransaction
  <2>2. \A v \in Writers, t \in Tables : \A r \in pend'[v][t] :
           v # w /\ r \in pend[v][t] /\ made'[v] = made[v]
    BY <1>0, <2>1 DEF NoRows
  <2>3. \A v \in Writers, t \in Tables : \A r \in pend'[v][t] : RowPart(t, r) \in parts' \cup made'[v]
    BY <2>1, <2>2 DEF PlaceInv
  <2>4. \A v \in Writers : made'[v] = IF v = w THEN {} ELSE made[v]
    BY <1>0, <2>1
  <2>5. \A v \in Writers : IsFiniteSet(made'[v])
    BY <2>4, FS_EmptySet DEF PlaceInv
  <2>6. QED
    BY <2>1, <2>3, <2>5 DEF PlaceInv, RowPart
<1>8. QED
  BY <1>1, <1>2, <1>3, <1>4, <1>5, <1>6, <1>7 DEF WriterNext, CallNext, RetCall

LEMMA PlaceRun ==
    ASSUME TypeOK, RecordsOK, ParentInv, PlaceInv, NEW j \in Jobs, RunInv(j), RunChainInv(j),
           RunNext(j)
    PROVE  PlaceInv'
<1>0. UNCHANGED <<pend, made>>
  BY RunMoves DEF tx
<1>1. CASE UNCHANGED <<table, anchor, parts, catalog, unlocked>>
  BY <1>0, <1>1 DEF PlaceInv, RowPart
<1>2. CASE CommitRun(j)
  <2>1. /\ run[j].at = "commit" /\ parts' = parts \ run[j].drop
        /\ table' = [table EXCEPT ![run[j].t] = @ \ RowsIn(run[j].t, run[j].drop)]
    BY <1>2 DEF CommitRun
  <2>2. PICK t \in Tables : t = run[j].t
    BY <2>1 DEF RunInv, RunLockInv
  <2>2a. PICK D : D = run[j].drop
    OBVIOUS
  <2>3. \A p \in D : p[1] = t
    <3>1. D \subseteq {s.part : s \in run[j].aged}
      BY <2>1, <2>2a DEF RunInv, SeenInv
    <3>2. \A s \in run[j].aged : s.part[1] = t
      BY <2>1, <2>2 DEF RunChainInv, ListInv, ListedStates
    <3>3. QED
      BY <3>1, <3>2
  <2>4. \A u \in Tables : table'[u] = IF u = t THEN table[u] \ RowsIn(t, D) ELSE table[u]
    BY <2>1, <2>2, <2>2a DEF TypeOK
  <2>5. ASSUME NEW u \in Tables, NEW r \in table'[u] PROVE RowPart(u, r) \in parts'
    <3>1. r \in table[u] /\ RowPart(u, r) \in parts
      BY <2>4, <2>5 DEF PlaceInv
    <3>2. CASE u = t
      <4>1. r \notin RowsIn(u, D)
        BY <2>4, <2>5, <3>2
      <4>2. RowPart(u, r) \notin D
        BY <3>1, <4>1 DEF RowsIn
      <4>3. QED
        BY <2>1, <2>2a, <3>1, <4>2
    <3>3. CASE u # t
      <4>1. RowPart(u, r)[1] = u
        BY DEF RowPart
      <4>2. QED
        BY <2>1, <2>2a, <2>3, <3>1, <3>3, <4>1
    <3>4. QED
      BY <3>2, <3>3
  <2>6. ASSUME NEW w \in Writers, NEW u \in Tables, NEW r \in pend[w][u]
        PROVE  RowPart(u, r) \in parts' \cup made[w]
    <3>1. u # t
      BY <2>1, <2>2, <2>6, AloneFacts
    <3>2. RowPart(u, r)[1] = u
      BY DEF RowPart
    <3>3. RowPart(u, r) \in parts \cup made[w]
      BY DEF PlaceInv
    <3>4. QED
      BY <2>1, <2>2a, <2>3, <3>1, <3>2, <3>3
  <2>7. IsFiniteSet(parts')
    BY <2>1, FS_Difference DEF PlaceInv
  <2>8. QED
    BY <1>0, <2>5, <2>6, <2>7 DEF PlaceInv, RowPart
<1>3. QED
  BY <1>1, <1>2, RunMoves

\* What a transaction sees after a writer's step, somebody saw before, but for
\* one new row.
LEMMA WriterVisible ==
    ASSUME NoAliasing, TypeOK, LockInv, NEW w \in WriterJobs, WriterNext(w),
           NEW v \in Writers, NEW t \in Tables
    PROVE  \E x \in Writers : \E row : row.seq = nextseq[t] /\ Visible(v, t)' \subseteq Visible(x, t) \cup {row}
<1>0. /\ w \in Writers /\ pend \in [Writers -> [Tables -> SUBSET Rows(Contents)]]
      /\ batch \in [Writers -> Seq(Events)]
  BY DEF WriterJobs, TypeOK
<1>1. ASSUME NEW x \in Writers, Visible(v, t)' \subseteq Visible(x, t)
      PROVE  \E row : row.seq = nextseq[t] /\ Visible(v, t)' \subseteq Visible(x, t) \cup {row}
  <2>1. [seq |-> nextseq[t]].seq = nextseq[t]
    OBVIOUS
  <2>2. QED
    BY <1>1, <2>1
<1>2. ASSUME UNCHANGED <<table, pend>> PROVE Visible(v, t)' \subseteq Visible(v, t)
  BY <1>2 DEF Visible
<1>3. ASSUME NEW b \in Batches, Call(w, b) PROVE UNCHANGED <<table, pend>>
  BY <1>3 DEF Call, db
<1>4. ASSUME LockPartition(w) \/ FindPartition(w) \/ CreatePartition(w) \/ LockChain(w) \/ SeedHead(w)
      PROVE  UNCHANGED <<table, pend>>
  BY <1>4 DEF LockPartition, FindPartition, CreatePartition, LockChain, SeedHead, db, tx
<1>5. ASSUME InsertRow(w)
      PROVE  \E row : row.seq = nextseq[t] /\ Visible(v, t)' \subseteq Visible(v, t) \cup {row}
  <2> DEFINE e == Head(batch[w])
             k == KeyOf[e]
             u == Parent[k]
             row == RowOf(nextseq[u], e, heads[w][k])
  <2>1. /\ u \in Tables /\ row.seq = nextseq[u] /\ table' = table
        /\ pend' = [pend EXCEPT ![w][u] = @ \cup {row}] \/ pend' = pend
    BY <1>0, <1>5, InsertFacts
  <2> HIDE DEF u, row
  <2>2. CASE pend' = pend
    <3>1. Visible(v, t)' \subseteq Visible(v, t)
      BY <2>1, <2>2 DEF Visible
    <3>2. QED
      BY <1>1, <3>1
  <2>3. CASE pend' = [pend EXCEPT ![w][u] = @ \cup {row}]
    <3>1. pend'[v][t] = IF v = w /\ t = u THEN pend[v][t] \cup {row} ELSE pend[v][t]
      BY <1>0, <2>1, <2>3
    <3>2. CASE t = u
      BY <2>1, <3>1, <3>2 DEF Visible
    <3>3. CASE t # u
      <4>1. Visible(v, t)' \subseteq Visible(v, t)
        BY <2>1, <3>1, <3>3 DEF Visible
      <4>2. QED
        BY <1>1, <4>1
    <3>4. QED
      BY <3>2, <3>3
  <2>4. QED
    BY <2>1, <2>2, <2>3
<1>6. ASSUME Commit(w) PROVE \E x \in Writers : Visible(v, t)' \subseteq Visible(x, t)
  <2>1. table'[t] = table[t] \cup pend[w][t] /\ pend' = [pend EXCEPT ![w] = NoRows]
    BY <1>6 DEF Commit, EndTransaction
  <2>2. CASE v = w
    BY <1>0, <2>1, <2>2 DEF Visible, NoRows
  <2>3. CASE v # w /\ pend[v][t] = {}
    BY <1>0, <2>1, <2>3 DEF Visible
  <2>4. CASE v # w /\ pend[v][t] # {}
    <3>1. PICK i \in Keys : Parent[i] = t /\ clock[i] = v
      BY <2>4 DEF LockInv, PendInv
    <3>2. pend[w][t] = {}
      BY <1>0, <2>4, <3>1, OneWriterPerTable
    <3>3. QED
      BY <1>0, <2>1, <2>4, <3>2 DEF Visible
  <2>5. QED
    BY <2>2, <2>3, <2>4
<1>7. ASSUME Abort(w) PROVE Visible(v, t)' \subseteq Visible(v, t)
  <2>1. table' = table /\ pend' = [pend EXCEPT ![w] = NoRows]
    BY <1>7 DEF Abort, EndTransaction
  <2>2. pend'[v][t] \subseteq pend[v][t]
    BY <1>0, <2>1 DEF NoRows
  <2>3. QED
    BY <2>1, <2>2 DEF Visible
<1>8. QED
  BY <1>1, <1>2, <1>3, <1>4, <1>5, <1>6, <1>7, WriterMoves

\* Fewer rows, or one more with a new seq, have a seq each.
LEMMA SeqSubset ==
    ASSUME NEW S, SeqSet(S), NEW U \in SUBSET S PROVE SeqSet(U)
BY FS_Subset DEF SeqSet

LEMMA SeqAdd ==
    ASSUME NEW S, SeqSet(S), NEW row, \A r \in S : r.seq # row.seq PROVE SeqSet(S \cup {row})
<1>1. IsFiniteSet(S \cup {row})
  BY FS_AddElement DEF SeqSet
<1>2. QED
  BY <1>1 DEF SeqSet

LEMMA CountWriter ==
    ASSUME NoAliasing, TypeOK, LockInv, SeqInv, CountInv, NEW w \in WriterJobs, WriterNext(w)
    PROVE  CountInv'
<1>1. SUFFICES ASSUME NEW v \in Writers, NEW t \in Tables PROVE SeqSet(Visible(v, t)')
  BY DEF CountInv, SeqSet
<1>2. PICK x \in Writers : \E row : row.seq = nextseq[t] /\ Visible(v, t)' \subseteq Visible(x, t) \cup {row}
  BY WriterVisible
<1>2a. PICK row : row.seq = nextseq[t] /\ Visible(v, t)' \subseteq Visible(x, t) \cup {row}
  BY <1>2
<1>3. \A r \in Visible(x, t) : r.seq \in Nat /\ r.seq < nextseq[t]
  BY DEF Visible, SeqInv, TypeOK, Rows
<1>4. \A r \in Visible(x, t) : r.seq # row.seq
  BY <1>2a, <1>3 DEF TypeOK
<1>5. SeqSet(Visible(x, t) \cup {row})
  BY <1>4, SeqAdd DEF CountInv
<1>6. QED
  BY <1>2a, <1>5, SeqSubset

LEMMA CountRun ==
    ASSUME TypeOK, CountInv, NEW j \in Jobs, RunNext(j)
    PROVE  CountInv'
<1>1. SUFFICES ASSUME NEW v \in Writers, NEW t \in Tables PROVE SeqSet(Visible(v, t)')
  BY DEF CountInv, SeqSet
<1>2. table'[t] \subseteq table[t] /\ UNCHANGED pend
  BY RunNoEntry, RunMoves DEF tx
<1>3. Visible(v, t)' \subseteq Visible(v, t)
  BY <1>2 DEF Visible
<1>4. QED
  BY <1>3, SeqSubset DEF CountInv

-----------------------------------------------------------------------------
(* What a run knows while others move on.                                  *)

\* Rows are appended to t with new seqs, or a first part of it is dropped.
TableMoves(t) ==
    /\ nextseq[t] \in Nat /\ nextseq'[t] \in Nat /\ nextseq[t] <= nextseq'[t]
    /\ \A w \in Writers : \A r \in pend'[w][t] : r \in pend[w][t] \/ r.seq = nextseq[t]
    /\ \A r \in table'[t] : r \in table[t] \/ \E w \in Writers : r \in pend[w][t]
    /\ t \in Locked' =>
          /\ t \in Locked
          /\ \/ table[t] \subseteq table'[t]
             \/ \E D : Removable(t, D) /\ table'[t] = table[t] \ RowsIn(t, D)

\* A step that leaves the list of a run alone.
SameList(j) ==
    /\ run'[j].t = run[j].t /\ run'[j].cutoff = run[j].cutoff
    /\ run'[j].listed = run[j].listed /\ run'[j].aged = run[j].aged

LEMMA ListKept ==
    ASSUME TypeOK, RecordsOK, NEW j \in Jobs, RunLockInv(j), run[j].at \in ListedStates,
           ListInv(j), SameList(j), TableMoves(run[j].t), NoEntry(j)
    PROVE  ListInv(j)'
<1>1. PICK t \in Tables : t = run[j].t
  BY DEF RunLockInv, ListedStates
<1>2. PICK x : x = run[j]
  OBVIOUS
<1>3. PICK y : y = run'[j]
  OBVIOUS
<1>4. y.t = t /\ x.t = t /\ y.cutoff = x.cutoff /\ y.listed = x.listed /\ y.aged = x.aged
  BY <1>1, <1>2, <1>3 DEF SameList
<1>5. /\ x.aged \in SUBSET [part : Partitions, seqs : SUBSET Nat] /\ x.listed \in SUBSET Partitions
      /\ \A p \in x.listed : plock[p] = j
  BY <1>2 DEF RecordsOK, RunRecords, RunLockInv, ListedStates
<1>6. /\ IsFiniteSet(x.aged)
      /\ \A s \in x.aged : s.part[1] = t /\ s.part[2] < x.cutoff
      /\ \A s \in x.aged : \A n \in s.seqs :
            n < nextseq[t] /\ \A w \in Writers : \A r \in pend[w][t] : n < r.seq
  BY <1>2, <1>4 DEF ListInv
<1>7. \A r \in table[t] :
         \/ DayOf[r.ev] >= x.cutoff
         \/ \E s \in x.aged : s.part = RowPart(t, r) /\ r.seq \in s.seqs
         \/ \A s \in x.aged : \A n \in s.seqs : n < r.seq
  BY <1>2, <1>4 DEF ListInv
<1>8. \A s \in x.aged : s.part \in x.listed => \A r \in RowsIn(t, {s.part}) : r.seq \in s.seqs
  BY <1>2, <1>4 DEF ListInv
<1>9. t \in Locked => \A s \in x.aged : Whole(t, s) \/ Past(t, s)
  BY <1>2, <1>4 DEF ListInv
<1>10. TableMoves(t)
  BY <1>1
<1>11. \A s \in x.aged : \A n \in s.seqs : n \in Nat
  BY <1>5
<1>12. \A s \in x.aged : \A n \in s.seqs :
          n < nextseq'[t] /\ \A w \in Writers : \A r \in pend'[w][t] : n < r.seq
  BY <1>6, <1>10, <1>11 DEF TableMoves
<1>13. \A r \in table'[t] :
         \/ DayOf[r.ev] >= x.cutoff
         \/ \E s \in x.aged : s.part = RowPart(t, r) /\ r.seq \in s.seqs
         \/ \A s \in x.aged : \A n \in s.seqs : n < r.seq
  BY <1>6, <1>7, <1>10 DEF TableMoves
<1>14. ASSUME NEW s \in x.aged, s.part \in x.listed, NEW r \in RowsIn(t, {s.part})'
       PROVE  r.seq \in s.seqs
  <2>1. RowsIn(t, {s.part})' \subseteq RowsIn(t, {s.part})
    BY <1>5, <1>14 DEF NoEntry
  <2>2. QED
    BY <1>8, <1>14, <2>1
<1>15. ASSUME t \in Locked', NEW s \in x.aged PROVE Whole(t, s)' \/ Past(t, s)'
  <2>1. t \in Locked
    BY <1>10, <1>15 DEF TableMoves
  <2>2. CASE Past(t, s)
    <3>1. \A n \in s.seqs : \A r \in table'[t] : n < r.seq
      BY <1>6, <1>10, <2>2 DEF Past, TableMoves
    <3>2. QED
      BY <3>1 DEF Past
  <2>3. CASE Whole(t, s) /\ table[t] \subseteq table'[t]
    <3>1. RowsIn(t, {s.part}) \subseteq RowsIn(t, {s.part})'
      BY <2>3 DEF RowsIn, RowPart
    <3>2. QED
      BY <2>3, <3>1 DEF Whole
  <2>4. ASSUME Whole(t, s), NEW D, Removable(t, D), table'[t] = table[t] \ RowsIn(t, D)
        PROVE  Whole(t, s)' \/ Past(t, s)'
    <3>1. CASE s.part \in D
      <4>1. \A n \in s.seqs : \A q \in table'[t] : n < q.seq
        <5>1. SUFFICES ASSUME NEW n \in s.seqs, NEW q \in table'[t] PROVE n < q.seq
          OBVIOUS
        <5>2. PICK r \in RowsIn(t, {s.part}) : r.seq = n
          BY <2>4 DEF Whole
        <5>3. r \in RowsIn(t, D)
          BY <3>1, <5>2 DEF RowsIn
        <5>4. r.seq < q.seq
          BY <2>4, <5>1, <5>3 DEF Removable
        <5>5. QED
          BY <5>2, <5>4
      <4>2. QED
        BY <4>1 DEF Past
    <3>2. CASE s.part \notin D
      <4>1. RowsIn(t, {s.part}) \subseteq RowsIn(t, {s.part})'
        BY <2>4, <3>2 DEF RowsIn, RowPart
      <4>2. QED
        BY <2>4, <4>1 DEF Whole
    <3>3. QED
      BY <3>1, <3>2
  <2>5. QED
    BY <1>9, <1>10, <1>15, <2>1, <2>2, <2>3, <2>4 DEF TableMoves
<1>16. /\ IsFiniteSet(y.aged)
       /\ \A s \in y.aged : s.part[1] = y.t /\ s.part[2] < y.cutoff
  BY <1>4, <1>6
<1>17. \A r \in table'[y.t] :
         \/ DayOf[r.ev] >= y.cutoff
         \/ \E s \in y.aged : s.part = RowPart(y.t, r)' /\ r.seq \in s.seqs
         \/ \A s \in y.aged : \A n \in s.seqs : n < r.seq
  BY <1>4, <1>13 DEF RowPart
<1>18. \A s \in y.aged : s.part \in y.listed => \A r \in RowsIn(y.t, {s.part})' : r.seq \in s.seqs
  BY <1>4, <1>14
<1>19. y.t \in Locked' => \A s \in y.aged : Whole(y.t, s)' \/ Past(y.t, s)'
  BY <1>4, <1>15
<1>20. \A s \in y.aged : \A n \in s.seqs :
          n < nextseq'[y.t] /\ \A w \in Writers : \A r \in pend'[w][y.t] : n < r.seq
  BY <1>4, <1>12
<1>21. QED
  BY <1>3, <1>16, <1>17, <1>18, <1>19, <1>20 DEF ListInv

\* Rows are appended to t, and none is dropped.
GrowsAt(t) ==
    /\ table[t] \subseteq table'[t]
    /\ \A r \in table'[t] : r \in table[t] \/ \E w \in Writers : r \in pend[w][t]
    /\ t \in Locked' => t \in Locked

LEMMA ChoiceKept ==
    ASSUME TypeOK, SeqInv, RecordsOK, NEW j \in Jobs, RunLockInv(j), run[j].at \in ChosenStates,
           ChoiceInv(j), OutInv(j), run'[j] = run[j], GrowsAt(run[j].t), NoEntry(j)
    PROVE  ChoiceInv(j)' /\ OutInv(j)'
<1>1. PICK t \in Tables : t = run[j].t
  BY DEF RunLockInv, ChosenStates
<1>2. PICK x : x = run[j] /\ x = run'[j] /\ x.t = t
  BY <1>1
<1>3. GrowsAt(t)
  BY <1>1
<1>4. /\ x.drop \in SUBSET Partitions /\ x.listed \in SUBSET Partitions
      /\ \A p \in x.listed : plock[p] = j
  BY <1>2 DEF RecordsOK, RunRecords, RunLockInv, ChosenStates
<1>5. \A P : RowsIn(t, P) \subseteq RowsIn(t, P)'
  BY <1>3 DEF GrowsAt, RowsIn, RowPart
<1>6. \A P : \A q \in table[t] : q \in RowsIn(t, P)' => q \in RowsIn(t, P)
  BY DEF RowsIn, RowPart
<1>7. ASSUME x.drop \subseteq x.listed PROVE Removable(t, x.drop)'
  <2>1. RowsIn(t, x.drop)' \subseteq RowsIn(t, x.drop)
    BY <1>4, <1>7 DEF NoEntry
  <2>2. Removable(t, x.drop)
    BY <1>2, <1>7 DEF ChoiceInv
  <2>3. SUFFICES ASSUME NEW r \in RowsIn(t, x.drop)', NEW q \in table'[t] \ RowsIn(t, x.drop)'
                 PROVE  r.seq < q.seq
    BY DEF Removable
  <2>4. r \in RowsIn(t, x.drop) /\ r \in table[t]
    BY <2>1, <2>3 DEF RowsIn
  <2>5. CASE q \in table[t]
    BY <1>5, <2>2, <2>3, <2>4, <2>5 DEF Removable
  <2>6. CASE \E w \in Writers : q \in pend[w][t]
    BY <2>4, <2>6 DEF SeqInv
  <2>7. QED
    BY <1>3, <2>5, <2>6 DEF GrowsAt
<1>8. ASSUME t \in Locked', NEW P \in SUBSET {s.part : s \in x.aged}, Removable(t, P)'
      PROVE  P \subseteq x.drop
  <2>1. \A r \in RowsIn(t, P)', q \in table'[t] \ RowsIn(t, P)' : r.seq < q.seq
    BY <1>8 DEF Removable
  <2>2. Removable(t, P)
    BY <1>3, <1>5, <1>6, <2>1 DEF Removable, GrowsAt
  <2>3. t \in Locked
    BY <1>3, <1>8 DEF GrowsAt
  <2>4. QED
    BY <1>2, <1>8, <2>2, <2>3 DEF ChoiceInv, AgedPartsOf
<1>9. ChoiceInv(j)'
  <2>1. x.drop \subseteq x.listed => Removable(x.t, x.drop)'
    BY <1>2, <1>7
  <2>2. x.t \in Locked' => \A P \in SUBSET {s.part : s \in x.aged} : Removable(x.t, P)' => P \subseteq x.drop
    BY <1>2, <1>8
  <2>3. QED
    BY <1>2, <2>1, <2>2 DEF ChoiceInv, AgedPartsOf
<1>10. OutInv(j)'
  <2>1. /\ UNION Range(x.out) \subseteq RowsIn(t, x.drop)
        /\ \A m, n \in 1..Len(x.out) : m < n => Below(x.out[m], x.out[n])
        /\ x.at = "archive" =>
              /\ x.left \subseteq RowsIn(t, x.drop)
              /\ \A m \in 1..Len(x.out) : Below(x.out[m], x.left)
    BY <1>2 DEF OutInv
  <2>2. /\ UNION Range(x.out) \subseteq RowsIn(x.t, x.drop)'
        /\ x.at = "archive" => x.left \subseteq RowsIn(x.t, x.drop)'
    BY <1>2, <1>5, <2>1
  <2>3. QED
    BY <1>2, <2>1, <2>2 DEF OutInv
<1>11. QED
  BY <1>9, <1>10

-----------------------------------------------------------------------------
(* What a run establishes by its own steps.                                *)

\* A row's day is a day.
LEMMA RowDays ==
    ASSUME TypeOK, PlaceInv, NEW t \in Tables, NEW r \in table[t]
    PROVE  DayOf[r.ev] \in Int /\ RowPart(t, r)[1] = t /\ RowPart(t, r)[2] = DayOf[r.ev]
           /\ RowPart(t, r) \in parts
<1>1. RowPart(t, r) \in parts
  BY DEF PlaceInv
<1>2. RowPart(t, r) \in Tables \X Days
  BY <1>1 DEF TypeOK, Partitions
<1>3. QED
  BY <1>1, <1>2, WriterConstants DEF RowPart

LEMMA RelistChain ==
    ASSUME TypeOK, SeqInv, RecordsOK, PlaceInv, NEW j \in Jobs, RunLockInv(j), Relist(j)
    PROVE  ListInv(j)'
<1>0. UNCHANGED <<table, pend, nextseq, parts>>
  BY DEF Relist, RunLeaves, tx
<1>1. PICK y : y = run'[j]
  OBVIOUS
<1>2. PICK c : c = run[j].cutoff
  OBVIOUS
<1>3. PICK t \in Tables : t = run[j].t
  BY DEF RunLockInv, Relist
<1>4. y.t = t /\ y.cutoff = c /\ y.aged = {PartStat(t, p) : p \in AgedParts(t, c)}
  BY <1>1, <1>2, <1>3, RelistMove, LockedTable DEF SameRun
<1>5. c \in Int
  BY <1>2 DEF RecordsOK, RunRecords
<1>6. \A s \in y.aged : s.part \in AgedParts(t, c) /\ s.seqs = Seqs(RowsIn(t, {s.part}))
  <2>1. SUFFICES ASSUME NEW s \in y.aged
                 PROVE  s.part \in AgedParts(t, c) /\ s.seqs = Seqs(RowsIn(t, {s.part}))
    OBVIOUS
  <2>2. PICK p \in AgedParts(t, c) : s = PartStat(t, p)
    BY <1>4, <2>1
  <2>3. s.part = p /\ s.seqs = Seqs(RowsIn(t, {p}))
    BY <2>2 DEF PartStat
  <2>4. QED
    BY <2>2, <2>3
<1>7. IsFiniteSet(y.aged)
  <2>1. IsFiniteSet(AgedParts(t, c))
    <3>1. AgedParts(t, c) \in SUBSET parts
      BY DEF AgedParts
    <3>2. QED
      BY <3>1, FS_Subset DEF PlaceInv
  <2>2. QED
    <3>1. PICK A : A = AgedParts(t, c)
      OBVIOUS
    <3>2. PICK f : f = [p \in A |-> PartStat(t, p)]
      OBVIOUS
    <3>3. f \in Surjection(A, y.aged)
      BY <1>4, <3>1, <3>2 DEF Surjection
    <3>4. QED
      BY <2>1, <3>1, <3>3, FS_Surjection
<1>8. \A s \in y.aged : s.part[1] = t /\ s.part[2] < c
  BY <1>6 DEF AgedParts
<1>9. \A s \in y.aged : \A n \in s.seqs : \E r \in RowsIn(t, {s.part}) : r.seq = n
  BY <1>6 DEF Seqs
<1>10. \A s \in y.aged : \A n \in s.seqs : \E r \in table[t] : r.seq = n
  BY <1>9 DEF RowsIn
<1>11. \A s \in y.aged : \A n \in s.seqs :
          n < nextseq[t] /\ \A w \in Writers : \A r \in pend[w][t] : n < r.seq
  BY <1>10 DEF SeqInv
<1>12. ASSUME NEW r \in table[t], ~(DayOf[r.ev] >= c)
       PROVE  \E s \in y.aged : s.part = RowPart(t, r) /\ r.seq \in s.seqs
  <2>1. PICK p : p = RowPart(t, r)
    OBVIOUS
  <2>2. DayOf[r.ev] \in Int /\ p[1] = t /\ p[2] = DayOf[r.ev] /\ p \in parts
    BY <2>1, RowDays
  <2>3. p \in AgedParts(t, c)
    BY <1>5, <1>12, <2>2 DEF AgedParts
  <2>4. PartStat(t, p) \in y.aged
    BY <1>4, <2>3
  <2>5. PartStat(t, p).part = p /\ PartStat(t, p).seqs = Seqs(RowsIn(t, {p}))
    BY DEF PartStat
  <2>6. r \in RowsIn(t, {p})
    BY <2>1 DEF RowsIn
  <2>7. r.seq \in Seqs(RowsIn(t, {p}))
    BY <2>6 DEF Seqs
  <2>8. QED
    BY <2>1, <2>4, <2>5, <2>7
<1>13. \A s \in y.aged : \A r \in RowsIn(t, {s.part}) : r.seq \in s.seqs
  BY <1>6 DEF Seqs
<1>14. \A s \in y.aged : Whole(t, s)
  BY <1>9 DEF Whole
<1>15. \A P : RowsIn(t, P)' = RowsIn(t, P)
  BY <1>0, SameRows
<1>16. /\ IsFiniteSet(y.aged) /\ \A s \in y.aged : s.part[1] = y.t /\ s.part[2] < y.cutoff
  BY <1>4, <1>7, <1>8
<1>17. \A s \in y.aged : \A n \in s.seqs :
          n < nextseq'[y.t] /\ \A w \in Writers : \A r \in pend'[w][y.t] : n < r.seq
  BY <1>0, <1>4, <1>11
<1>18. \A r \in table'[y.t] :
         \/ DayOf[r.ev] >= y.cutoff
         \/ \E s \in y.aged : s.part = RowPart(y.t, r)' /\ r.seq \in s.seqs
         \/ \A s \in y.aged : \A n \in s.seqs : n < r.seq
  BY <1>0, <1>4, <1>12 DEF RowPart
<1>19. \A s \in y.aged : s.part \in y.listed => \A r \in RowsIn(y.t, {s.part})' : r.seq \in s.seqs
  BY <1>4, <1>13, <1>15
<1>20. \A s \in y.aged : Whole(y.t, s)'
  BY <1>4, <1>14, <1>15 DEF Whole
<1>21. QED
  BY <1>1, <1>16, <1>17, <1>18, <1>19, <1>20 DEF ListInv

\* The choice: select_droppable's fixpoint, on the seqs that the run listed and
\* the rows there are now.
LEMMA SelectChain ==
    ASSUME TypeOK, SeqInv, RecordsOK, PlaceInv, CountInv, NEW j \in Jobs, RunLockInv(j), PutInv(j),
           ListInv(j), Select(j)
    PROVE  ChoiceInv(j)' /\ OutInv(j)'
<1>0. UNCHANGED <<table, unlocked>>
  BY DEF Select, RunLeaves
<1>1. PICK x : x = run[j]
  OBVIOUS
<1>2. PICK y : y = run'[j]
  OBVIOUS
<1>3. x.at = "listed" /\ x \in RunRecords /\ x.out = <<>>
  BY <1>1 DEF Select, RecordsOK, PutInv
<1>4. PICK t \in Tables : t = x.t
  BY <1>1, <1>3 DEF RunLockInv
<1>5. PICK kept : kept = Seqs({r \in table[t] : DayOf[r.ev] >= x.cutoff})
  OBVIOUS
<1>6. /\ y.t = t /\ y.aged = x.aged /\ y.listed = x.listed /\ y.out = <<>>
      /\ y.at \in {"open", "drop"} /\ y.drop = SelectDroppable(x.aged, kept)
  BY <1>1, <1>2, <1>3, <1>4, <1>5, SelectMove DEF SameRun
<1>7. /\ x.aged \in SUBSET [part : Partitions, seqs : SUBSET Nat]
      /\ \A s \in x.aged : s.seqs \in SUBSET Nat
  BY <1>3 DEF RunRecords
<1>8. /\ IsFiniteSet(x.aged)
      /\ \A s \in x.aged : s.part[1] = t /\ s.part[2] < x.cutoff
      /\ \A s \in x.aged : \A n \in s.seqs : n < nextseq[t]
  BY <1>1, <1>4 DEF ListInv
<1>9. /\ \A r \in table[t] :
            \/ DayOf[r.ev] >= x.cutoff
            \/ \E s \in x.aged : s.part = RowPart(t, r) /\ r.seq \in s.seqs
            \/ \A s \in x.aged : \A n \in s.seqs : n < r.seq
      /\ \A s \in x.aged : s.part \in x.listed => \A r \in RowsIn(t, {s.part}) : r.seq \in s.seqs
      /\ t \in Locked => \A s \in x.aged : Whole(t, s) \/ Past(t, s)
  BY <1>1, <1>4 DEF ListInv
<1>10. nextseq[t] \in Nat /\ \A r \in table[t] : r.seq \in Nat /\ r.seq < nextseq[t]
  BY DEF TypeOK, Rows, SeqInv
<1>11. kept \in SUBSET (0..nextseq[t]) /\ \A s \in x.aged : s.seqs \subseteq 0..nextseq[t]
  BY <1>5, <1>7, <1>8, <1>10 DEF Seqs
<1>12. PICK held \in SUBSET x.aged :
          /\ SelectDroppable(x.aged, kept) = {s.part : s \in x.aged \ held}
          /\ \A s \in x.aged \ held : \A n \in s.seqs, m \in Staying(kept, held) : n <= m
          /\ \A G \in SUBSET x.aged :
                (\A s \in x.aged : \A n \in s.seqs, m \in Staying(kept, G) : n > m => s \in G)
                   => held \subseteq G
  <2>1. PICK A, N : A = x.aged /\ N = nextseq[t]
    OBVIOUS
  <2>2. /\ A \in SUBSET [part : Partitions, seqs : SUBSET Nat] /\ IsFiniteSet(A)
        /\ N \in Nat /\ kept \in SUBSET (0..N) /\ \A s \in A : s.seqs \subseteq 0..N
    BY <1>7, <1>8, <1>10, <1>11, <2>1
  <2>3. \E held \in SUBSET A : HoldsBack(A, kept, held)
    BY <2>2, DroppableFacts
  <2>4. QED
    BY <2>1, <2>3 DEF HoldsBack
<1>13. \A r, q \in table[t] : r.seq = q.seq => r = q
  <2>1. SeqSet(Visible(j, t))
    BY RetentionConstants DEF CountInv
  <2>2. QED
    BY <2>1 DEF SeqSet, Visible
<1>14. ASSUME y.drop \subseteq y.listed PROVE Removable(t, y.drop)
  <2>1. SUFFICES ASSUME NEW r \in RowsIn(t, y.drop), NEW q \in table[t] \ RowsIn(t, y.drop)
                 PROVE  r.seq < q.seq
    BY DEF Removable
  <2>2. r \in table[t] /\ q \in table[t] /\ r # q /\ RowPart(t, r) \in y.drop
        /\ RowPart(t, q) \notin y.drop
    BY <2>1 DEF RowsIn
  <2>3. PICK s \in x.aged \ held : s.part = RowPart(t, r)
    BY <1>6, <1>12, <2>2
  <2>4. r \in RowsIn(t, {s.part}) /\ s.part \in x.listed
    BY <1>6, <1>14, <2>2, <2>3 DEF RowsIn
  <2>5. r.seq \in s.seqs
    BY <1>9, <2>3, <2>4
  <2>6. ASSUME q.seq \in Staying(kept, held) PROVE r.seq < q.seq
    <3>1. r.seq <= q.seq
      BY <1>12, <2>3, <2>5, <2>6
    <3>2. QED
      BY <1>10, <1>13, <2>2, <3>1
  <2>7. CASE DayOf[q.ev] >= x.cutoff
    <3>1. q.seq \in kept
      BY <1>5, <2>2, <2>7 DEF Seqs
    <3>2. QED
      BY <2>6, <3>1 DEF Staying
  <2>8. CASE \E u \in x.aged : u.part = RowPart(t, q) /\ q.seq \in u.seqs
    <3>1. PICK u \in x.aged : u.part = RowPart(t, q) /\ q.seq \in u.seqs
      BY <2>8
    <3>2. u \in held
      BY <1>6, <1>12, <2>2, <3>1
    <3>3. QED
      BY <2>6, <3>1, <3>2 DEF Staying
  <2>9. CASE \A u \in x.aged : \A n \in u.seqs : n < q.seq
    BY <2>3, <2>5, <2>9
  <2>10. QED
    BY <1>9, <2>2, <2>7, <2>8, <2>9
<1>15. ASSUME t \in Locked, NEW P \in SUBSET {s.part : s \in x.aged}, Removable(t, P)
       PROVE  P \subseteq y.drop
  <2> DEFINE G == {s \in x.aged : Whole(t, s) /\ s.part \notin P}
  <2>1. ASSUME NEW m \in Staying(kept, G) PROVE \E q \in table[t] \ RowsIn(t, P) : q.seq = m
    <3>1. CASE m \in kept
      <4>1. PICK q \in table[t] : DayOf[q.ev] >= x.cutoff /\ q.seq = m
        BY <1>5, <3>1 DEF Seqs
      <4>2. DayOf[q.ev] \in Int /\ RowPart(t, q)[2] = DayOf[q.ev]
        BY RowDays
      <4>3. x.cutoff \in Int
        BY <1>3 DEF RunRecords
      <4>4. ASSUME RowPart(t, q) \in P PROVE FALSE
        <5>1. PICK s \in x.aged : s.part = RowPart(t, q)
          BY <1>15, <4>4
        <5>2. RowPart(t, q)[2] < x.cutoff
          BY <1>8, <5>1
        <5>3. QED
          BY <4>1, <4>2, <4>3, <5>2
      <4>5. QED
        BY <4>1, <4>4 DEF RowsIn
    <3>2. CASE \E s \in G : m \in s.seqs
      <4>1. PICK s \in G : m \in s.seqs
        BY <3>2
      <4>2. PICK q \in RowsIn(t, {s.part}) : q.seq = m
        BY <4>1 DEF Whole
      <4>3. q \in table[t] /\ RowPart(t, q) \notin P
        BY <4>1, <4>2 DEF RowsIn
      <4>4. QED
        BY <4>2, <4>3 DEF RowsIn
    <3>3. QED
      BY <2>1, <3>1, <3>2 DEF Staying
  <2>2. ASSUME NEW s \in x.aged, NEW n \in s.seqs, NEW m \in Staying(kept, G), n > m
        PROVE  s \in G
    <3>1. PICK q \in table[t] \ RowsIn(t, P) : q.seq = m
      BY <2>1
    <3>2. n \in Nat /\ m \in Nat
      BY <1>7, <1>10, <3>1
    <3>3. CASE Past(t, s)
      <4>1. n < m
        BY <3>1, <3>3 DEF Past
      <4>2. QED
        BY <2>2, <3>2, <4>1
    <3>4. CASE Whole(t, s)
      <4>1. ASSUME s.part \in P PROVE FALSE
        <5>1. PICK r \in RowsIn(t, {s.part}) : r.seq = n
          BY <3>4 DEF Whole
        <5>2. r \in RowsIn(t, P)
          BY <4>1, <5>1 DEF RowsIn
        <5>3. n < m
          BY <1>15, <3>1, <5>1, <5>2 DEF Removable
        <5>4. QED
          BY <2>2, <3>2, <5>3
      <4>2. QED
        BY <3>4, <4>1
    <3>5. QED
      BY <1>9, <1>15, <3>3, <3>4
  <2>3. G \in SUBSET x.aged /\ \A s \in G : s.part \notin P
    OBVIOUS
  <2> HIDE DEF G
  <2>4. held \subseteq G
    BY <1>12, <2>2, <2>3
  <2>5. QED
    BY <1>6, <1>12, <1>15, <2>3, <2>4
<1>16. \A P : RowsIn(t, P)' = RowsIn(t, P)
  BY <1>0, SameRows
<1>17. \A P : Removable(t, P)' = Removable(t, P)
  BY <1>0, <1>16 DEF Removable
<1>18. Locked' = Locked
  BY <1>0 DEF Locked
<1>19. ChoiceInv(j)'
  <2>1. y.drop \subseteq y.listed => Removable(y.t, y.drop)'
    BY <1>6, <1>14, <1>17
  <2>2. y.t \in Locked' => \A P \in SUBSET {s.part : s \in y.aged} : Removable(y.t, P)' => P \subseteq y.drop
    BY <1>6, <1>15, <1>17, <1>18
  <2>3. QED
    BY <1>2, <2>1, <2>2 DEF ChoiceInv, AgedPartsOf
<1>20. OutInv(j)'
  <2>1. Len(y.out) = 0 /\ UNION Range(y.out) = {} /\ y.at # "archive"
    BY <1>6 DEF Range
  <2>2. 1..Len(y.out) = {}
    BY <2>1
  <2>3. QED
    BY <1>2, <2>1, <2>2 DEF OutInv
<1>21. QED
  BY <1>19, <1>20

\* A step that commits nothing moves no table.
LEMMA StillMoves ==
    ASSUME TypeOK, NEW t \in Tables, UNCHANGED <<table, pend, nextseq, unlocked>>
    PROVE  TableMoves(t)
BY DEF TableMoves, TypeOK, Locked

\* A run's step from the choice on, which keeps the choice.
LEMMA ChoiceStays ==
    ASSUME TypeOK, RecordsOK, NEW j \in Jobs, RunLockInv(j), RunChainInv(j), RunNext(j),
           run[j].at \in ChosenStates, SameRun(j), run'[j].aged = run[j].aged,
           run'[j].drop = run[j].drop, UNCHANGED <<table, unlocked>>
    PROVE  ListInv(j)' /\ ChoiceInv(j)'
<1>0. UNCHANGED <<pend, nextseq>> /\ NoEntry(j)
  BY RunMoves, RunNoEntry DEF tx
<1>1. PICK t \in Tables : t = run[j].t
  BY DEF RunLockInv, ChosenStates
<1>2. TableMoves(run[j].t)
  BY <1>0, <1>1, StillMoves
<1>3. SameList(j) /\ run[j].at \in ListedStates
  BY DEF SameList, SameRun, ChosenStates, ListedStates
<1>4. ListInv(j)'
  BY <1>0, <1>2, <1>3, ListKept DEF RunChainInv
<1>5. ChoiceInv(j)'
  <2>1. \A u, P : RowsIn(u, P)' = RowsIn(u, P)
    BY SameRows
  <2>2. \A u, P : Removable(u, P)' = Removable(u, P)
    BY <2>1 DEF Removable
  <2>3. Locked' = Locked
    BY DEF Locked
  <2>4. PICK x : x = run[j]
    OBVIOUS
  <2>5. PICK y : y = run'[j]
    OBVIOUS
  <2>6. y.t = x.t /\ y.listed = x.listed /\ y.aged = x.aged /\ y.drop = x.drop
    BY <2>4, <2>5 DEF SameRun
  <2>7. /\ x.drop \subseteq x.listed => Removable(x.t, x.drop)
        /\ x.t \in Locked => \A P \in SUBSET {s.part : s \in x.aged} : Removable(x.t, P) => P \subseteq x.drop
    BY <2>4 DEF RunChainInv, ChoiceInv, AgedPartsOf
  <2>8. /\ y.drop \subseteq y.listed => Removable(y.t, y.drop)'
        /\ y.t \in Locked' => \A P \in SUBSET {s.part : s \in y.aged} : Removable(y.t, P)' => P \subseteq y.drop
    BY <2>2, <2>3, <2>6, <2>7
  <2>9. QED
    BY <2>5, <2>8 DEF ChoiceInv, AgedPartsOf
<1>6. QED
  BY <1>4, <1>5

\* The stream is opened, and nothing is in a part yet.
LEMMA OpenChain ==
    ASSUME TypeOK, RecordsOK, NEW j \in Jobs, RunLockInv(j), PutInv(j), OpenStream(j)
    PROVE  OutInv(j)'
<1>0. UNCHANGED table
  BY DEF OpenStream
<1>1. PICK x : x = run[j]
  OBVIOUS
<1>2. PICK y : y = run'[j]
  OBVIOUS
<1>3. /\ y.t = x.t /\ y.drop = x.drop /\ y.out = <<>> /\ y.at = "archive"
      /\ y.left = RowsIn(x.t, x.drop \cap {s.part : s \in {a \in x.aged : a.seqs # {}}})
  BY <1>1, <1>2, OpenMove, LockedTable DEF SameRun, PutInv
<1>4. y.left \subseteq RowsIn(x.t, x.drop)
  BY <1>3 DEF RowsIn
<1>5. y.left \subseteq RowsIn(y.t, y.drop)'
  BY <1>0, <1>3, <1>4, SameRows
<1>6. Len(y.out) = 0 /\ UNION Range(y.out) = {}
  BY <1>3 DEF Range
<1>7. 1..Len(y.out) = {}
  BY <1>6
<1>8. QED
  BY <1>2, <1>5, <1>6, <1>7 DEF OutInv

\* A part more: its rows come after those of the parts before it and before
\* those that are left.
LEMMA PartChain ==
    ASSUME TypeOK, RecordsOK, CountInv, NEW j \in Jobs, RunLockInv(j), OutInv(j),
           run[j].at = "archive", UNCHANGED table,
           NEW body \in SUBSET run[j].left, body = NextPart(run[j].left), Parted(j, body)
    PROVE  OutInv(j)'
<1>1. PICK x : x = run[j]
  OBVIOUS
<1>2. PICK y : y = run'[j]
  OBVIOUS
<1>3. /\ y.t = x.t /\ y.drop = x.drop /\ y.at = "archive"
      /\ y.left = x.left \ body /\ y.out = Append(x.out, body)
  BY <1>1, <1>2, PartMove DEF SameRun
<1>4. PICK t \in Tables : t = x.t
  BY <1>1 DEF RunLockInv
<1>5. x.left \in SUBSET Rows(Contents) /\ x.out \in Seq(SUBSET Rows(Contents))
  BY <1>1 DEF RecordsOK, RunRecords
<1>6. body \in SUBSET Rows(Contents) /\ body \subseteq x.left
  BY <1>1, <1>5
<1>7. /\ UNION Range(x.out) \subseteq RowsIn(t, x.drop)
      /\ \A m, n \in 1..Len(x.out) : m < n => Below(x.out[m], x.out[n])
      /\ x.left \subseteq RowsIn(t, x.drop)
      /\ \A m \in 1..Len(x.out) : Below(x.out[m], x.left)
  BY <1>1, <1>4 DEF OutInv
<1>8. IsFiniteSet(x.left)
  <2>1. x.left \in SUBSET Visible(j, t)
    BY <1>7 DEF RowsIn, Visible
  <2>2. IsFiniteSet(Visible(j, t))
    BY RetentionConstants DEF CountInv, SeqSet
  <2>3. QED
    BY <2>1, <2>2, FS_Subset
<1>9. Below(body, x.left \ body)
  BY <1>1, <1>5, <1>8, NextPartFirst
<1>10. /\ UnionGrows(x.out, body) /\ Len(y.out) = Len(x.out) + 1 /\ y.out[Len(x.out) + 1] = body
       /\ \A n \in 1..Len(x.out) : y.out[n] = x.out[n]
  BY <1>3, <1>5, <1>6, RangeAppend, UnionAppend
<1>11. PICK k \in Nat : k = Len(x.out)
  BY <1>5
<1>12. \A m \in 1..k : Below(x.out[m], body) /\ Below(x.out[m], x.left \ body)
  BY <1>6, <1>7, <1>11 DEF Below
<1>13. UNION Range(y.out) \subseteq RowsIn(t, x.drop)
  BY <1>3, <1>6, <1>7, <1>10 DEF UnionGrows
<1>14. ASSUME NEW m \in 1..Len(y.out), NEW n \in 1..Len(y.out), m < n
       PROVE  Below(y.out[m], y.out[n])
  <2>1. m \in 1..k
    BY <1>10, <1>11, <1>14
  <2>2. y.out[m] = x.out[m]
    BY <1>10, <1>11, <2>1
  <2>3. CASE n \in 1..k
    BY <1>7, <1>10, <1>11, <1>14, <2>1, <2>2, <2>3
  <2>4. CASE n = k + 1
    BY <1>10, <1>11, <1>12, <2>1, <2>2, <2>4
  <2>5. QED
    BY <1>10, <1>11, <2>3, <2>4
<1>15. ASSUME NEW m \in 1..Len(y.out) PROVE Below(y.out[m], y.left)
  <2>1. CASE m \in 1..k
    BY <1>3, <1>10, <1>11, <1>12, <2>1
  <2>2. CASE m = k + 1
    BY <1>3, <1>9, <1>10, <1>11, <2>2
  <2>3. QED
    BY <1>10, <1>11, <2>1, <2>2
<1>16. RowsIn(y.t, y.drop)' = RowsIn(t, x.drop)
  BY <1>3, <1>4, SameRows
<1>17. /\ UNION Range(y.out) \subseteq RowsIn(y.t, y.drop)'
       /\ y.left \subseteq RowsIn(y.t, y.drop)'
  BY <1>3, <1>7, <1>13, <1>16
<1>18. QED
  BY <1>2, <1>14, <1>15, <1>17 DEF OutInv

\* The parts stay what they are once they are all put.
LEMMA StageChain ==
    ASSUME RecordsOK, NEW j \in Jobs, OutInv(j), UNCHANGED table,
           NEW to \in {"drop", "commit"}, Staged(j, to)
    PROVE  OutInv(j)'
<1>1. PICK x : x = run[j]
  OBVIOUS
<1>2. PICK y : y = run'[j]
  OBVIOUS
<1>3. y.t = x.t /\ y.drop = x.drop /\ y.at # "archive" /\ y.out = x.out
  BY <1>1, <1>2, StageMove DEF SameRun
<1>4. RowsIn(y.t, y.drop)' = RowsIn(x.t, x.drop)
  BY <1>3, SameRows
<1>5. /\ UNION Range(x.out) \subseteq RowsIn(x.t, x.drop)
      /\ \A m, n \in 1..Len(x.out) : m < n => Below(x.out[m], x.out[n])
  BY <1>1 DEF OutInv
<1>6. QED
  BY <1>2, <1>3, <1>4, <1>5 DEF OutInv

LEMMA OwnChain ==
    ASSUME TypeOK, SeqInv, RecordsOK, PlaceInv, CountInv, NEW j \in Jobs, RunInv(j),
           RunChainInv(j), RunNext(j)
    PROVE  RunChainInv(j)'
<1>0. RunLockInv(j) /\ PutInv(j)
  BY DEF RunInv
<1>1. ASSUME run'[j].at \in {"idle", "locking"} PROVE RunChainInv(j)'
  BY <1>1 DEF RunChainInv, ListedStates, ChosenStates
<1>2. ASSUME NEW t \in Tables, BeginRun(j, t) PROVE run'[j].at \in {"idle", "locking"}
  BY <1>2, BeginMove
<1>3. ASSUME LockAged(j) PROVE run'[j].at \in {"idle", "locking"}
  BY <1>3, LockedMove
<1>4. ASSUME ReleaseLocks(j) PROVE run'[j].at \in {"idle", "locking"}
  BY <1>4, EndMove, NoRunType
<1>5. ASSUME RunEnds(j) \/ CommitRun(j) PROVE ReleaseLocks(j)
  BY <1>5 DEF RunEnds, EndRun, CommitRun
<1>6. ASSUME Relist(j) PROVE RunChainInv(j)'
  <2>1. run'[j].at = "listed"
    BY <1>0, <1>6, RelistMove, LockedTable
  <2>2. ListInv(j)'
    BY <1>0, <1>6, RelistChain
  <2>3. QED
    BY <2>1, <2>2 DEF RunChainInv, ChosenStates
<1>7. ASSUME Select(j) PROVE RunChainInv(j)'
  <2>1. SameRun(j) /\ run[j].at = "listed" /\ run'[j].aged = run[j].aged
    BY <1>7, SelectMove
  <2>2. ListInv(j) /\ SameList(j) /\ run[j].at \in ListedStates
    BY <2>1 DEF RunChainInv, ListedStates, SameList, SameRun
  <2>3. UNCHANGED <<table, pend, nextseq, unlocked>> /\ NoEntry(j)
    BY <1>7, RunNoEntry DEF Select, RunLeaves, tx
  <2>4. PICK t \in Tables : t = run[j].t
    BY <1>0, <2>1 DEF RunLockInv
  <2>5. TableMoves(run[j].t)
    BY <2>3, <2>4, StillMoves
  <2>6. ListInv(j)'
    BY <1>0, <2>2, <2>3, <2>5, ListKept
  <2>7. ChoiceInv(j)' /\ OutInv(j)'
    BY <1>0, <1>7, <2>2, SelectChain
  <2>8. QED
    BY <2>6, <2>7 DEF RunChainInv
<1>8. ASSUME run[j].at \in ChosenStates, SameRun(j), run'[j].aged = run[j].aged,
             run'[j].drop = run[j].drop, UNCHANGED <<table, unlocked>>, OutInv(j)'
      PROVE  RunChainInv(j)'
  BY <1>0, <1>8, ChoiceStays DEF RunChainInv
<1>9. ASSUME OpenStream(j) PROVE RunChainInv(j)'
  <2>1. SameRun(j) /\ run[j].at = "open" /\ run'[j].aged = run[j].aged /\ run'[j].drop = run[j].drop
    BY <1>0, <1>9, OpenMove, LockedTable
  <2>2. UNCHANGED <<table, unlocked>>
    BY <1>9 DEF OpenStream, RunLeaves
  <2>3. OutInv(j)'
    BY <1>0, <1>9, OpenChain
  <2>4. run[j].at \in ChosenStates
    BY <2>1 DEF ChosenStates
  <2>5. QED
    BY <1>8, <2>1, <2>2, <2>3, <2>4
<1>10. ASSUME PutPart(j) PROVE RunChainInv(j)'
  <2>1. run[j].at = "archive" /\ UNCHANGED table /\ UNCHANGED unlocked
    BY <1>10, PartOutcome DEF PutPart, RunLeaves
  <2>2. run[j].at \in ChosenStates /\ OutInv(j)
    BY <2>1 DEF ChosenStates, RunChainInv
  <2>3. ASSUME NEW body \in SUBSET run[j].left, body = NextPart(run[j].left), Parted(j, body)
        PROVE  RunChainInv(j)'
    <3>1. SameRun(j) /\ run'[j].aged = run[j].aged /\ run'[j].drop = run[j].drop
      BY <2>1, <2>3, PartMove
    <3>2. OutInv(j)'
      BY <1>0, <2>1, <2>2, <2>3, PartChain
    <3>3. QED
      BY <1>8, <2>1, <2>2, <3>1, <3>2
  <2>4. QED
    BY <1>1, <1>4, <1>10, <2>3, PartOutcome
<1>11. ASSUME PutManifest(j) PROVE RunChainInv(j)'
  <2>1. run[j].at = "archive" /\ UNCHANGED table /\ UNCHANGED unlocked
    BY <1>11, ManifestOutcome DEF PutManifest, RunLeaves
  <2>2. run[j].at \in ChosenStates /\ OutInv(j)
    BY <2>1 DEF ChosenStates, RunChainInv
  <2>3. ASSUME Staged(j, "drop") PROVE RunChainInv(j)'
    <3>1. SameRun(j) /\ run'[j].aged = run[j].aged /\ run'[j].drop = run[j].drop
      BY <2>3, StageMove
    <3>2. OutInv(j)'
      BY <2>1, <2>2, <2>3, StageChain
    <3>3. QED
      BY <1>8, <2>1, <2>2, <3>1, <3>2
  <2>4. QED
    BY <1>1, <1>4, <1>11, <2>3, ManifestOutcome
<1>12. ASSUME DropPartitions(j) PROVE RunChainInv(j)'
  <2>1. run[j].at = "drop" /\ UNCHANGED table /\ UNCHANGED unlocked /\ Staged(j, "commit")
    BY <1>12 DEF DropPartitions, RunLeaves, Staged
  <2>2. run[j].at \in ChosenStates /\ OutInv(j)
    BY <2>1 DEF ChosenStates, RunChainInv
  <2>3. SameRun(j) /\ run'[j].aged = run[j].aged /\ run'[j].drop = run[j].drop
    BY <2>1, StageMove
  <2>4. OutInv(j)'
    BY <2>1, <2>2, StageChain
  <2>5. QED
    BY <1>8, <2>1, <2>2, <2>3, <2>4
<1>13. QED
  BY <1>1, <1>2, <1>3, <1>4, <1>5, <1>6, <1>7, <1>9, <1>10, <1>11, <1>12 DEF RunNext

\* Writers append.
LEMMA WriterTable ==
    ASSUME TypeOK, NEW w \in WriterJobs, WriterNext(w), NEW t \in Tables
    PROVE  TableMoves(t) /\ GrowsAt(t)
<1>1. /\ nextseq'[t] \in Nat /\ nextseq[t] <= nextseq'[t]
      /\ table'[t] \subseteq table[t] \cup pend[w][t]
      /\ \A v \in Writers : \A r \in pend'[v][t] : r \in pend[v][t] \/ r.seq = nextseq[t]
  BY WriterRows
<1>2. table[t] \subseteq table'[t]
  BY WriterAppends
<1>3. unlocked' = unlocked /\ w \in Writers
  BY WriterMoves DEF rvars
<1>4. nextseq[t] \in Nat
  BY DEF TypeOK
<1>5. QED
  BY <1>1, <1>2, <1>3, <1>4 DEF TableMoves, GrowsAt, Locked

\* What a commit drops from its own table, if that was locked in full.
LEMMA CommitDrop ==
    ASSUME TypeOK, NEW i \in Jobs, RunLockInv(i), CommitRun(i)
    PROVE  /\ run[i].at = "commit" /\ run[i].t \in Tables
           /\ table'[run[i].t] = table[run[i].t] \ RowsIn(run[i].t, run[i].drop)
           /\ \A t \in Tables \ {run[i].t} :
                 table'[t] = table[t] /\ anchor'[t] = anchor[t] /\ catalog'[t] = catalog[t]
           /\ Locked' \subseteq Locked
           /\ run[i].t \in Locked' => run[i].drop \subseteq run[i].listed
<1>1. /\ run[i].at = "commit"
      /\ table' = [table EXCEPT ![run[i].t] = @ \ RowsIn(run[i].t, run[i].drop)]
      /\ unlocked' = IF run[i].drop \subseteq run[i].listed THEN unlocked ELSE unlocked \cup {run[i].t}
      /\ anchor' = [anchor EXCEPT ![run[i].t] = AnchorOf(RecordSegment(i, catalog[run[i].t]), @)]
      /\ catalog' = [catalog EXCEPT ![run[i].t] = RecordSegment(i, catalog[run[i].t])]
  BY DEF CommitRun
<1>2. run[i].t \in Tables
  BY <1>1 DEF RunLockInv
<1>3. PICK u : u = run[i].t
  OBVIOUS
<1>4. PICK A : A = RowsIn(run[i].t, run[i].drop)
  OBVIOUS
<1>5. table'[u] = table[u] \ A /\ \A t \in Tables \ {u} : table'[t] = table[t]
  BY <1>1, <1>2, <1>3, <1>4 DEF TypeOK
<1>6. \A t \in Tables \ {u} : anchor'[t] = anchor[t]
  BY <1>1, <1>3 DEF TypeOK
<1>7. \A t \in Tables \ {u} : catalog'[t] = catalog[t]
  BY <1>1, <1>3
<1>8. Locked' \subseteq Locked /\ (u \in Locked' => run[i].drop \subseteq run[i].listed)
  BY <1>1, <1>3 DEF Locked
<1>9. QED
  BY <1>1, <1>2, <1>3, <1>4, <1>5, <1>6, <1>7, <1>8

\* A run drops a first part of its table, or moves none.
LEMMA RunTable ==
    ASSUME TypeOK, RecordsOK, NEW i \in Jobs, RunLockInv(i), RunChainInv(i), RunNext(i), NEW t \in Tables
    PROVE  /\ TableMoves(t)
           /\ (CommitRun(i) => t # run[i].t) => GrowsAt(t)
<1>1. UNCHANGED <<nextseq, pend>>
  BY RunMoves DEF tx
<1>2. CASE UNCHANGED <<table, unlocked>>
  BY <1>1, <1>2, StillMoves DEF GrowsAt, Locked
<1>3. CASE CommitRun(i)
  <2>1. /\ run[i].at = "commit" /\ Locked' \subseteq Locked
        /\ table'[run[i].t] = table[run[i].t] \ RowsIn(run[i].t, run[i].drop)
        /\ t # run[i].t => table'[t] = table[t]
        /\ run[i].t \in Locked' => run[i].drop \subseteq run[i].listed
    BY <1>3, CommitDrop
  <2>2. nextseq[t] \in Nat
    BY DEF TypeOK
  <2>3. CASE t # run[i].t
    BY <1>1, <2>1, <2>2, <2>3 DEF TableMoves, GrowsAt
  <2>4. CASE t = run[i].t
    <3>1. PICK D : D = run[i].drop
      OBVIOUS
    <3>2. t \in Locked' => Removable(t, D)
      BY <2>1, <2>4, <3>1 DEF RunChainInv, ChosenStates, ChoiceInv
    <3>3. table'[t] = table[t] \ RowsIn(t, D)
      BY <2>1, <2>4, <3>1
    <3>4. TableMoves(t)
      BY <1>1, <2>1, <2>2, <3>2, <3>3 DEF TableMoves
    <3>5. QED
      BY <1>3, <2>4, <3>4
  <2>5. QED
    BY <2>3, <2>4
<1>4. QED
  BY <1>2, <1>3, RunMoves

\* What a run knows is still true after a step of somebody else.
LEMMA ChainUndisturbed ==
    ASSUME TypeOK, SeqInv, RecordsOK, NEW j \in Jobs, RunLockInv(j), RunChainInv(j), NoEntry(j),
           run'[j] = run[j], run[j].at # "idle" => TableMoves(run[j].t),
           run[j].at \in ChosenStates => GrowsAt(run[j].t)
    PROVE  RunChainInv(j)'
<1>1. SameList(j)
  BY DEF SameList
<1>2. run[j].at \in ListedStates => ListInv(j)'
  BY <1>1, ListKept DEF RunChainInv, ListedStates
<1>3. run[j].at \in ChosenStates => ChoiceInv(j)' /\ OutInv(j)'
  BY ChoiceKept DEF RunChainInv
<1>4. QED
  BY <1>2, <1>3 DEF RunChainInv

LEMMA RunsChainWriter ==
    ASSUME TypeOK, SeqInv, RecordsOK, NEW w \in WriterJobs, WriteLockInv(w), WriterNext(w),
           NEW j \in Jobs, RunLockInv(j), RunChainInv(j)
    PROVE  RunChainInv(j)'
<1>1. run' = run /\ NoEntry(j)
  BY WriterMoves, WriterNoEntry DEF rvars
<1>2. run[j].at # "idle" => run[j].t \in Tables
  BY DEF RunLockInv
<1>3. run[j].at # "idle" => TableMoves(run[j].t) /\ GrowsAt(run[j].t)
  BY <1>2, WriterTable
<1>4. run[j].at \in ChosenStates => run[j].at # "idle"
  BY DEF ChosenStates
<1>5. QED
  BY <1>1, <1>3, <1>4, ChainUndisturbed

LEMMA RunsChainRun ==
    ASSUME TypeOK, SeqInv, RecordsOK, ParentInv, PlaceInv, CountInv, NEW i \in Jobs, RunInv(i),
           RunChainInv(i), RunNext(i), NEW j \in Jobs, RunInv(j), RunChainInv(j)
    PROVE  RunChainInv(j)'
<1>1. CASE i = j
  BY <1>1, OwnChain
<1>2. CASE i # j
  <2>0. RunLockInv(i) /\ RunLockInv(j)
    BY DEF RunInv
  <2>1. run'[j] = run[j]
    BY <1>2, <2>0, RunSteps, LockedTable DEF RunKept
  <2>2. NoEntry(j)
    BY RunNoEntry
  <2>3. run[j].at # "idle" => run[j].t \in Tables
    BY <2>0 DEF RunLockInv
  <2>4. run[j].at # "idle" => TableMoves(run[j].t)
    BY <2>0, <2>3, RunTable
  <2>5. ASSUME run[j].at \in ChosenStates PROVE GrowsAt(run[j].t)
    <3>1. j \in slock[run[j].t] /\ run[j].t \in Tables
      BY <2>3, <2>5 DEF ParentInv, JobHolds, ChosenStates
    <3>2. CommitRun(i) => run[j].t # run[i].t
      <4>1. SUFFICES ASSUME CommitRun(i) PROVE run[j].t # run[i].t
        OBVIOUS
      <4>2. run[i].at = "commit" /\ run[i].t \in Tables
        BY <2>0, <4>1, CommitDrop
      <4>3. slock[run[i].t] \subseteq {i}
        BY <4>2, AloneFacts
      <4>4. QED
        BY <1>2, <3>1, <4>3
    <3>3. QED
      BY <2>0, <3>1, <3>2, RunTable
  <2>6. QED
    BY <2>0, <2>1, <2>2, <2>4, <2>5, ChainUndisturbed
<1>3. QED
  BY <1>1, <1>2

-----------------------------------------------------------------------------
(* The chain over archive and table.                                       *)

\* A step that touches neither t nor its archive.
LEMMA ArchiveStill ==
    ASSUME NEW t \in Tables, ArchiveAt(t), catalog'[t] = catalog[t], anchor'[t] = anchor[t],
           Below(Catalogued(t), table'[t]), \A w \in Writers : Below(Catalogued(t), Visible(w, t)')
    PROVE  ArchiveAt(t)'
<1>1. Catalogued(t)' = Catalogued(t)
  BY DEF Catalogued, SegmentRows
<1>2. PartsApart(t)' = PartsApart(t)
  BY DEF PartsApart
<1>3. PICK A : A = Catalogued(t) /\ A = Catalogued(t)'
  BY <1>1
<1>4. SeqSet(A) /\ Linked(A, NoHash) /\ anchor'[t] = TailHash(A, NoHash)
  BY <1>3 DEF ArchiveAt
<1>5. Below(A, table'[t]) /\ \A w \in Writers : Below(A, Visible(w, t)')
  BY <1>3
<1>6. PartsApart(t)'
  BY <1>2 DEF ArchiveAt
<1>7. /\ SeqSet(Catalogued(t)') /\ Linked(Catalogued(t)', NoHash)
      /\ anchor'[t] = TailHash(Catalogued(t)', NoHash) /\ Below(Catalogued(t)', table'[t])
      /\ \A w \in Writers : Below(Catalogued(t)', Visible(w, t)')
  BY <1>3, <1>4, <1>5
<1>8. QED
  BY <1>6, <1>7 DEF ArchiveAt, SeqSet, Linked, Below

LEMMA ArchiveWriter ==
    ASSUME NoAliasing, TypeOK, LockInv, RecordsOK, SeqAhead, NEW w \in WriterJobs, WriterNext(w),
           NEW t \in Tables, ArchiveAt(t)
    PROVE  ArchiveAt(t)'
<1>1. catalog' = catalog /\ anchor' = anchor
  <2>1. catalog' = catalog /\ w \in Writers
    BY WriterMoves DEF rvars
  <2>2. anchor' = anchor
    BY WriterMoves DEF Call, LockPartition, FindPartition, CreatePartition, LockChain, SeedHead,
                       InsertRow, Commit, Abort, EndTransaction, db
  <2>3. QED
    BY <2>1, <2>2
<1>2. \A r \in Catalogued(t) : r.seq < nextseq[t]
  BY DEF SeqAhead, Catalogued
<1>3. ASSUME NEW v \in Writers PROVE Below(Catalogued(t), Visible(v, t)')
  <2>1. PICK x \in Writers : \E row : row.seq = nextseq[t] /\ Visible(v, t)' \subseteq Visible(x, t) \cup {row}
    BY WriterVisible
  <2>2. PICK row : row.seq = nextseq[t] /\ Visible(v, t)' \subseteq Visible(x, t) \cup {row}
    BY <2>1
  <2>3. Below(Catalogued(t), Visible(x, t))
    BY DEF ArchiveAt
  <2>4. QED
    BY <1>2, <2>2, <2>3 DEF Below
<1>4. Below(Catalogued(t), table'[t])
  <2>1. w \in Writers
    BY DEF WriterJobs
  <2>2. QED
    BY <1>3, <2>1 DEF Visible, Below
<1>5. QED
  BY <1>1, <1>3, <1>4, ArchiveStill

\* A run's step that commits nothing in t.
LEMMA HeadStill ==
    ASSUME NEW t \in Tables, HeadAt(t), UNCHANGED <<pend, batch, needK, heads>>,
           table'[t] = table[t], anchor'[t] = anchor[t]
    PROVE  HeadAt(t)'
<1>1. \A w : ReadKeys(w)' = ReadKeys(w)
  BY DEF ReadKeys, EventsIn
<1>2. \A w : Visible(w, t)' = Visible(w, t)
  BY DEF Visible
<1>3. \A w \in Writers : Linked(Visible(w, t)', anchor'[t]) /\ HasTail(Visible(w, t)')
  BY <1>2 DEF HeadAt
<1>4. \A w \in Writers : \A k \in ReadKeys(w)' :
          Parent[k] = t => heads'[w][k] = TailHash(Visible(w, t)', anchor'[t])
  BY <1>1, <1>2 DEF HeadAt
<1>5. Linked(table'[t], anchor'[t]) /\ HasTail(table'[t])
  BY DEF HeadAt
<1>6. QED
  BY <1>3, <1>4, <1>5 DEF HeadAt, Linked, HasTail, TailHash

\* A transaction that sees the committed rows alone.
LEMMA HeadAlone ==
    ASSUME NEW t \in Tables, \A w \in Writers : Visible(w, t)' = table'[t],
           \A w \in Writers : \A k \in ReadKeys(w)' : Parent[k] # t,
           Linked(table'[t], anchor'[t]), HasTail(table'[t])
    PROVE  HeadAt(t)'
<1>1. \A w \in Writers : Linked(Visible(w, t)', anchor'[t]) /\ HasTail(Visible(w, t)')
  OBVIOUS
<1>2. QED
  BY <1>1 DEF HeadAt, Linked, HasTail

\* What the commit's parts hold is what it drops.
LEMMA CommitParts ==
    ASSUME RecordsOK, NEW j \in Jobs, SeenInv(j), OutInv(j), run[j].at = "commit",
           run[j].drop \subseteq run[j].listed
    PROVE  UNION Range(run[j].out) = RowsIn(run[j].t, run[j].drop)
<1>1. run[j].drop \cap run[j].listed = run[j].drop
  OBVIOUS
<1>2. RowsIn(run[j].t, run[j].drop) \subseteq UNION Range(run[j].out)
  BY <1>1 DEF SeenInv, Doomed
<1>3. UNION Range(run[j].out) \subseteq RowsIn(run[j].t, run[j].drop)
  BY DEF OutInv
<1>4. QED
  BY <1>2, <1>3

\* The rows that the catalog holds, and those that a commit adds to them.
CatalogOf(segs) == UNION {SegmentRows(s) : s \in segs}

NewSegment(j) == [id |-> run[j].id, parts |-> run[j].out]

LEMMA CatalogRows ==
    ASSUME RecordsOK, NEW t \in Tables
    PROVE  /\ Catalogued(t) \in SUBSET Rows(Contents)
           /\ \A s \in catalog[t] : s.parts \in Seq(SUBSET Rows(Contents))
           /\ \A s \in catalog[t] : \A n \in 1..Len(s.parts) : s.parts[n] \subseteq Catalogued(t)
<1>1. \A s \in catalog[t] : s.parts \in Seq(SUBSET Rows(Contents))
  BY DEF RecordsOK, Segments
<1>2. \A s \in catalog[t] : SegmentRows(s) \in SUBSET Rows(Contents)
  BY <1>1, PartsType DEF SegmentRows
<1>3. Catalogued(t) \in SUBSET Rows(Contents)
  BY <1>2 DEF Catalogued
<1>4. ASSUME NEW s \in catalog[t], NEW n \in 1..Len(s.parts) PROVE s.parts[n] \subseteq Catalogued(t)
  <2>1. PICK out \in Seq(SUBSET Rows(Contents)) : out = s.parts
    BY <1>1
  <2>2. out[n] \in Range(out)
    BY <2>1 DEF Range
  <2>3. out[n] \subseteq SegmentRows(s)
    BY <2>1, <2>2 DEF SegmentRows
  <2>4. QED
    BY <2>1, <2>3 DEF Catalogued
<1>5. QED
  BY <1>1, <1>3, <1>4

LEMMA CommitCatalog ==
    ASSUME RecordsOK, NEW j \in Jobs, NEW t \in Tables, t = run[j].t,
           catalog'[t] = RecordSegment(j, catalog[t])
    PROVE  /\ Catalogued(t)' = Catalogued(t) \cup UNION Range(run[j].out)
           /\ CatalogOf(RecordSegment(j, catalog[t])) = Catalogued(t)'
           /\ \A s \in catalog'[t] : s \in catalog[t] \/ s = NewSegment(j)
<1>1. PICK out : out = run[j].out
  OBVIOUS
<1>2. PICK segs : segs = catalog[t]
  OBVIOUS
<1>3. PICK seg : seg = NewSegment(j)
  OBVIOUS
<1>4. seg.parts = out /\ SegmentRows(seg) = UNION Range(out)
  BY <1>1, <1>3 DEF SegmentRows, NewSegment
<1>5. catalog'[t] = IF out = <<>> THEN segs ELSE segs \cup {seg}
  BY <1>1, <1>2, <1>3 DEF RecordSegment, NewSegment
<1>6. Catalogued(t) = CatalogOf(segs) /\ Catalogued(t)' = CatalogOf(catalog'[t])
  BY <1>2 DEF Catalogued, CatalogOf, SegmentRows
<1>7. out = <<>> => UNION Range(out) = {}
  BY DEF Range
<1>8. CatalogOf(segs \cup {seg}) = CatalogOf(segs) \cup UNION Range(out)
  BY <1>4 DEF CatalogOf
<1>9. Catalogued(t)' = Catalogued(t) \cup UNION Range(out)
  BY <1>5, <1>6, <1>7, <1>8
<1>10. \A s \in catalog'[t] : s \in segs \/ s = seg
  BY <1>5
<1>11. QED
  BY <1>1, <1>2, <1>3, <1>5, <1>6, <1>9, <1>10 DEF CatalogOf, RecordSegment, NewSegment

\* A segment behind the archive, its parts in order, keeps the parts apart.
LEMMA CommitApart ==
    ASSUME RecordsOK, NEW j \in Jobs, NEW t \in Tables, PartsApart(t), OutInv(j),
           Below(Catalogued(t), UNION Range(run[j].out)),
           \A s \in catalog'[t] : s \in catalog[t] \/ s = NewSegment(j)
    PROVE  PartsApart(t)'
<1>1. PICK out \in Seq(SUBSET Rows(Contents)) : out = run[j].out
  BY DEF RecordsOK, RunRecords
<1>2. /\ \A m, n \in 1..Len(out) : m < n => Below(out[m], out[n])
      /\ Below(Catalogued(t), UNION Range(out))
  BY <1>1 DEF OutInv
<1>2a. PICK seg : seg = NewSegment(j)
  OBVIOUS
<1>2b. seg.parts = out /\ \A s \in catalog'[t] : s \in catalog[t] \/ s = seg
  BY <1>1, <1>2a DEF NewSegment
<1>3. \A n \in 1..Len(out) : out[n] \subseteq UNION Range(out)
  BY <1>1 DEF Range
<1>4. \A s \in catalog[t] : \A n \in 1..Len(s.parts) : s.parts[n] \subseteq Catalogued(t)
  BY CatalogRows
<1>5. SUFFICES ASSUME NEW s \in catalog'[t], NEW u \in catalog'[t], NEW m \in 1..Len(s.parts),
                      NEW n \in 1..Len(u.parts)
               PROVE  \/ s = u /\ m = n
                      \/ \A r \in s.parts[m], q \in u.parts[n] : r.seq < q.seq
                      \/ \A r \in s.parts[m], q \in u.parts[n] : r.seq > q.seq
  BY DEF PartsApart
<1>6. CASE s \in catalog[t] /\ u \in catalog[t]
  BY <1>6 DEF PartsApart
<1>7. CASE s \in catalog[t] /\ u = seg
  BY <1>2, <1>2b, <1>3, <1>4, <1>7 DEF Below
<1>8. CASE u \in catalog[t] /\ s = seg
  <2>1. \A r \in s.parts[m], q \in u.parts[n] : q.seq < r.seq
    BY <1>2, <1>2b, <1>3, <1>4, <1>8 DEF Below
  <2>2. s.parts[m] \subseteq Rows(Contents) /\ u.parts[n] \subseteq Rows(Contents)
    <3>1. u.parts[n] \subseteq Rows(Contents)
      BY <1>4, <1>8, CatalogRows
    <3>2. s.parts[m] \subseteq Rows(Contents)
      BY <1>1, <1>2b, <1>8
    <3>3. QED
      BY <3>1, <3>2
  <2>3. QED
    BY <2>1, <2>2 DEF Rows
<1>9. CASE s = seg /\ u = seg
  <2>1. m \in 1..Len(out) /\ n \in 1..Len(out) /\ s.parts = out /\ u.parts = out
    BY <1>2b, <1>9
  <2>2. m = n \/ Below(out[m], out[n]) \/ Below(out[n], out[m])
    BY <1>2, <2>1
  <2>3. out[m] \subseteq Rows(Contents) /\ out[n] \subseteq Rows(Contents)
    BY <1>1, <2>1
  <2>4. QED
    BY <1>9, <2>1, <2>2, <2>3 DEF Below, Rows
<1>10. QED
  BY <1>2b, <1>6, <1>7, <1>8, <1>9

\* Which anchor the walk starts from matters for an empty archive alone.
LEMMA TailOnly ==
    ASSUME NEW S, NEW a, NEW K, a = TailHash(K, NoHash), K \subseteq S
    PROVE  TailHash(S, a) = TailHash(S, NoHash)
<1>1. CASE S = {}
  BY <1>1 DEF TailHash
<1>2. CASE S # {}
  BY <1>2 DEF TailHash
<1>3. QED
  BY <1>1, <1>2

\* The first part A of a table, put behind its archive K.
Moved(K, A, B, b) ==
    /\ SeqSet(K \cup A) /\ Linked(K \cup A, NoHash) /\ b = TailHash(K \cup A, NoHash)
    /\ Below(K \cup A, B) /\ Linked(B, b) /\ HasTail(B)

LEMMA CutMoves ==
    ASSUME NEW C, NEW K \in SUBSET Rows(C), NEW A \in SUBSET Rows(C), NEW B \in SUBSET Rows(C),
           NEW a, NEW b, SeqSet(K), SeqSet(A \cup B), Below(K, A \cup B), Below(A, B),
           Linked(K, NoHash), a = TailHash(K, NoHash), Linked(A \cup B, a), b = TailHash(K \cup A, a)
    PROVE  Moved(K, A, B, b)
<1>1. SeqSet(A) /\ SeqSet(B)
  <2>1. A \in SUBSET (A \cup B) /\ B \in SUBSET (A \cup B)
    OBVIOUS
  <2>2. QED
    BY <2>1, SeqSubset
<1>2. Below(K, A) /\ Below(K, B)
  BY DEF Below
<1>3. SeqSet(K \cup A)
  <2>1. IsFiniteSet(K \cup A)
    BY <1>1, FS_Union DEF SeqSet
  <2>2. \A r \in K \cup A : r.seq \in Nat
    BY DEF Rows
  <2>3. \A r, q \in K \cup A : r.seq = q.seq => r = q
    BY <1>1, <1>2, <2>2 DEF SeqSet, Below
  <2>4. QED
    BY <2>1, <2>3 DEF SeqSet
<1>4. Linked(A, a) /\ Linked(B, TailHash(A, a))
  BY <1>1, ChainSplit
<1>5. Linked(K \cup A, NoHash)
  BY <1>2, <1>4, ChainJoin
<1>6. b = TailHash(K \cup A, NoHash)
  BY TailOnly
<1>7. TailHash(K \cup A, NoHash) = TailHash(A, a)
  BY <1>2, <1>3, TailJoin
<1>8. Linked(B, b)
  BY <1>4, <1>6, <1>7
<1>9. HasTail(B)
  BY <1>1, FiniteTail DEF SeqSet
<1>10. Below(K \cup A, B)
  BY <1>2 DEF Below
<1>11. QED
  BY <1>3, <1>5, <1>6, <1>8, <1>9, <1>10 DEF Moved

\* The commit moves the cut between archive and table along the chain.
LEMMA ArchiveCommit ==
    ASSUME TypeOK, RecordsOK, ParentInv, CountInv, NEW j \in Jobs, RunInv(j), RunChainInv(j),
           CommitRun(j), NEW t \in Tables, t = run[j].t, t \in Locked', HeadAt(t), ArchiveAt(t)
    PROVE  HeadAt(t)' /\ ArchiveAt(t)'
<1>1. RunLockInv(j) /\ SeenInv(j)
  BY DEF RunInv
<1>2. /\ run[j].at = "commit" /\ run[j].drop \subseteq run[j].listed
      /\ table'[t] = table[t] \ RowsIn(t, run[j].drop)
  BY <1>1, CommitDrop
<1>3. ChoiceInv(j) /\ OutInv(j)
  BY <1>2 DEF RunChainInv, ChosenStates
<1>4. /\ catalog' = [catalog EXCEPT ![t] = RecordSegment(j, catalog[t])]
      /\ anchor' = [anchor EXCEPT ![t] = AnchorOf(RecordSegment(j, catalog[t]), @)]
  BY DEF CommitRun
<1>5. /\ catalog'[t] = RecordSegment(j, catalog[t])
      /\ anchor'[t] = AnchorOf(RecordSegment(j, catalog[t]), anchor[t])
  BY <1>4 DEF TypeOK, RecordsOK
<1>6. PICK A : A = RowsIn(t, run[j].drop)
  OBVIOUS
<1>7. UNION Range(run[j].out) = A
  BY <1>1, <1>2, <1>3, <1>6, CommitParts
<1>8. PICK B : B = table'[t]
  OBVIOUS
<1>9. A \cup B = table[t] /\ B = table[t] \ A /\ A \subseteq table[t]
  BY <1>2, <1>6, <1>8 DEF RowsIn
<1>10. table[t] \in SUBSET Rows(Contents) /\ A \in SUBSET Rows(Contents) /\ B \in SUBSET Rows(Contents)
  BY <1>9 DEF TypeOK
<1>11. PICK K : K = Catalogued(t)
  OBVIOUS
<1>12. K \in SUBSET Rows(Contents)
  BY <1>11, CatalogRows
<1>13. /\ Catalogued(t)' = K \cup A
       /\ CatalogOf(RecordSegment(j, catalog[t])) = K \cup A
       /\ \A s \in catalog'[t] : s \in catalog[t] \/ s = NewSegment(j)
  BY <1>5, <1>7, <1>11, CommitCatalog
<1>14. anchor'[t] = TailHash(K \cup A, anchor[t])
  BY <1>5, <1>13 DEF AnchorOf, CatalogOf
<1>15. j \in Writers
  BY RetentionConstants
<1>16. SeqSet(A \cup B)
  <2>1. A \cup B \in SUBSET Visible(j, t) /\ SeqSet(Visible(j, t))
    BY <1>9, <1>15 DEF Visible, CountInv
  <2>2. QED
    BY <2>1, SeqSubset
<1>17. Below(K, A \cup B)
  BY <1>9, <1>11, <1>15 DEF ArchiveAt, Visible, Below
<1>18. Below(A, B)
  BY <1>2, <1>3, <1>6, <1>8 DEF ChoiceInv, Removable, Below
<1>19. SeqSet(K) /\ Linked(K, NoHash) /\ anchor[t] = TailHash(K, NoHash) /\ PartsApart(t)
  BY <1>11 DEF ArchiveAt
<1>20. Linked(A \cup B, anchor[t])
  BY <1>9 DEF HeadAt
<1>21. Moved(K, A, B, anchor'[t])
  BY <1>10, <1>12, <1>14, <1>16, <1>17, <1>18, <1>19, <1>20, CutMoves
<1>22. UNCHANGED <<pend, batch, needK>>
  BY DEF CommitRun, tx, call
<1>23. /\ \A w \in Writers : pend[w][t] = {}
       /\ \A w \in Writers : \A k \in ReadKeys(w) : Parent[k] # t
  BY <1>2, AloneFacts
<1>24. \A w \in Writers : Visible(w, t)' = B
  BY <1>8, <1>22, <1>23 DEF Visible
<1>25. \A w \in Writers : \A k \in ReadKeys(w)' : Parent[k] # t
  BY <1>22, <1>23 DEF ReadKeys, EventsIn
<1>26. HeadAt(t)'
  BY <1>8, <1>21, <1>24, <1>25, HeadAlone DEF Moved
<1>27. PartsApart(t)'
  <2>1. Below(Catalogued(t), UNION Range(run[j].out))
    BY <1>7, <1>11, <1>17 DEF Below
  <2>2. QED
    BY <1>3, <1>13, <1>19, <2>1, CommitApart
<1>28. /\ SeqSet(Catalogued(t)') /\ Linked(Catalogued(t)', NoHash)
       /\ anchor'[t] = TailHash(Catalogued(t)', NoHash) /\ Below(Catalogued(t)', table'[t])
       /\ \A w \in Writers : Below(Catalogued(t)', Visible(w, t)')
  BY <1>8, <1>13, <1>21, <1>24 DEF Moved
<1>29. ArchiveAt(t)'
  BY <1>27, <1>28 DEF ArchiveAt, SeqSet, Linked, Below
<1>30. QED
  BY <1>26, <1>29

LEMMA ArchiveRun ==
    ASSUME TypeOK, RecordsOK, ParentInv, CountInv, NEW j \in Jobs, RunInv(j), RunChainInv(j),
           RunNext(j), NEW t \in Tables, t \in Locked', t \in Locked => HeadAt(t) /\ ArchiveAt(t)
    PROVE  HeadAt(t)' /\ ArchiveAt(t)'
<1>1. UNCHANGED <<pend, batch, needK, heads>>
  BY RunMoves DEF tx, call
<1>2. RunLockInv(j)
  BY DEF RunInv
<1>3. ASSUME t \in Locked, table'[t] = table[t], anchor'[t] = anchor[t], catalog'[t] = catalog[t]
      PROVE  HeadAt(t)' /\ ArchiveAt(t)'
  <2>1. \A w \in Writers : Visible(w, t)' = Visible(w, t)
    BY <1>1, <1>3 DEF Visible
  <2>2. Below(Catalogued(t), table'[t]) /\ \A w \in Writers : Below(Catalogued(t), Visible(w, t)')
    BY <1>3, <2>1 DEF ArchiveAt
  <2>3. QED
    BY <1>1, <1>3, <2>2, HeadStill, ArchiveStill
<1>4. CASE UNCHANGED <<table, anchor, parts, catalog, unlocked>>
  BY <1>3, <1>4 DEF Locked
<1>5. CASE CommitRun(j)
  <2>1. /\ t \in Locked
        /\ t # run[j].t => table'[t] = table[t] /\ anchor'[t] = anchor[t] /\ catalog'[t] = catalog[t]
    BY <1>2, <1>5, CommitDrop
  <2>2. CASE t = run[j].t
    BY <1>5, <2>1, <2>2, ArchiveCommit
  <2>3. QED
    BY <1>3, <2>1, <2>2
<1>6. QED
  BY <1>4, <1>5, RunMoves

-----------------------------------------------------------------------------
(* The invariant.                                                          *)

LEMMA PrefixWriter ==
    ASSUME NoAliasing, ~Redelivery, TypeInv, RetentionInv, PrefixInv,
           NEW w \in WriterJobs, WriterNext(w)
    PROVE  PrefixInv'
<1>1. TypeOK /\ LockInv /\ SeqInv /\ FreshInv /\ ParentInv /\ PlaceInv /\ CountInv
  BY DEF TypeInv, PrefixInv
<1>2. RecordsOK /\ SeqAhead /\ WriteLockInv(w) /\ \A j \in Jobs : OnTable(j)
  BY DEF RetentionInv, RunInv, RunLockInv, OnTable
<1>3. [Next]_vars /\ unlocked' = unlocked
  BY WriterMoves DEF rvars
<1>4. LockInv' /\ SeqInv' /\ FreshInv'
  BY <1>1, <1>3, LockStep, SeqStep, FreshStep
<1>5. ParentInv'
  BY <1>1, <1>2, ParentWriter
<1>6. PlaceInv' /\ CountInv'
  BY <1>1, PlaceWriter, CountWriter
<1>7. ASSUME NEW t \in Locked' PROVE HeadAt(t)' /\ ArchiveAt(t)'
  <2>1. t \in Tables /\ HeadAt(t) /\ ArchiveAt(t)
    BY <1>3 DEF Locked, PrefixInv
  <2>2. HeadAt(t)'
    BY <1>1, <1>3, <2>1, HeadStepAt
  <2>3. ArchiveAt(t)'
    BY <1>1, <1>2, <2>1, ArchiveWriter
  <2>4. QED
    BY <2>2, <2>3
<1>8. ASSUME NEW j \in Jobs PROVE RunChainInv(j)'
  <2>1. RunLockInv(j) /\ RunChainInv(j)
    BY DEF RetentionInv, RunInv, PrefixInv
  <2>2. QED
    BY <1>1, <1>2, <2>1, RunsChainWriter
<1>9. QED
  BY <1>4, <1>5, <1>6, <1>7, <1>8 DEF PrefixInv

\* A run takes no part in the writers' calls, and only takes rows away.
LEMMA CallsRun ==
    ASSUME TypeOK, LockInv, SeqInv, NEW j \in Jobs, RunNext(j)
    PROVE  LockInv' /\ SeqInv' /\ (FreshInv => FreshInv')
<1>1. UNCHANGED <<nextseq, clock, pend, pc, batch, needK>>
  BY RunMoves DEF tx, call
<1>2. \A t \in Tables : table'[t] \subseteq table[t]
  BY RunNoEntry
<1>3. LockInv'
  BY <1>1 DEF LockInv, CallInv, PendInv, ReadKeys, EventsIn
<1>4. SeqInv'
  BY <1>1, <1>2 DEF SeqInv
<1>5. ASSUME FreshInv PROVE FreshInv'
  <2>1. \A v \in Writers : batch'[v] = batch[v] \/ batch'[v] = <<>>
    BY <1>1
  <2>2. \A v \in Writers, u \in Tables : pend'[v][u] \subseteq pend[v][u]
    BY <1>1
  <2>3. QED
    BY <1>2, <1>5, <2>1, <2>2, FreshKept
<1>6. QED
  BY <1>3, <1>4, <1>5

LEMMA PrefixRun ==
    ASSUME TypeInv, RetentionInv, PrefixInv, NEW i \in Jobs, RunNext(i)
    PROVE  PrefixInv'
<1>1. TypeOK /\ LockInv /\ SeqInv /\ FreshInv /\ ParentInv /\ PlaceInv /\ CountInv
  BY DEF TypeInv, PrefixInv
<1>2. RecordsOK /\ RunInv(i) /\ RunChainInv(i)
  BY DEF RetentionInv, PrefixInv
<1>3. \A j \in Jobs : OnTable(j)
  BY DEF RetentionInv, RunInv, RunLockInv, OnTable
<1>4. LockInv' /\ SeqInv' /\ FreshInv'
  BY <1>1, CallsRun
<1>5. ParentInv'
  BY <1>1, <1>2, <1>3, ParentRun
<1>6. PlaceInv' /\ CountInv'
  BY <1>1, <1>2, PlaceRun, CountRun
<1>7. ASSUME NEW t \in Locked' PROVE HeadAt(t)' /\ ArchiveAt(t)'
  <2>1. t \in Tables /\ (t \in Locked => HeadAt(t) /\ ArchiveAt(t))
    BY DEF Locked, PrefixInv
  <2>2. QED
    BY <1>1, <1>2, <2>1, ArchiveRun
<1>8. ASSUME NEW j \in Jobs PROVE RunChainInv(j)'
  <2>1. RunInv(j) /\ RunChainInv(j)
    BY DEF RetentionInv, PrefixInv
  <2>2. QED
    BY <1>1, <1>2, <2>1, RunsChainRun
<1>9. QED
  BY <1>4, <1>5, <1>6, <1>7, <1>8 DEF PrefixInv

\* Nothing but the date changes.
LEMMA PrefixIdle ==
    ASSUME TypeInv, RetentionInv, PrefixInv, UNCHANGED <<vars, run, runs, store, catalog, unlocked>>
    PROVE  PrefixInv'
<1>1. /\ UNCHANGED <<table, nextseq, anchor, parts, clock, xlock, slock, pend, made>>
      /\ UNCHANGED <<pc, batch, needK, heads, run, catalog, unlocked>>
  BY DEF vars, db, locks, tx, call
<1>2. LockInv' /\ SeqInv' /\ FreshInv'
  BY <1>1 DEF PrefixInv, LockInv, CallInv, PendInv, SeqInv, FreshInv, ReadKeys, EventsIn
<1>3. ParentInv'
  BY <1>1 DEF PrefixInv, ParentInv, ParentLocks, WriterHolds, JobHolds, ReadKeys, EventsIn
<1>4. PlaceInv' /\ CountInv'
  BY <1>1 DEF PrefixInv, PlaceInv, CountInv, SeqSet, Visible, RowPart
<1>5. ASSUME NEW t \in Locked' PROVE HeadAt(t)' /\ ArchiveAt(t)'
  <2>1. t \in Tables /\ HeadAt(t) /\ ArchiveAt(t)
    BY <1>1 DEF Locked, PrefixInv
  <2>2. Below(Catalogued(t), table'[t]) /\ \A w \in Writers : Below(Catalogued(t), Visible(w, t)')
    BY <1>1, <2>1 DEF ArchiveAt, Visible
  <2>3. QED
    BY <1>1, <2>1, <2>2, HeadStill, ArchiveStill
<1>6. ASSUME NEW j \in Jobs PROVE RunChainInv(j)'
  <2>1. TypeOK /\ SeqInv /\ RecordsOK /\ RunLockInv(j) /\ RunChainInv(j)
    BY DEF TypeInv, RetentionInv, RunInv, PrefixInv
  <2>2. NoEntry(j)
    BY <1>1 DEF NoEntry, RowsIn, RowPart
  <2>3. run[j].at # "idle" => run[j].t \in Tables
    BY <2>1 DEF RunLockInv
  <2>4. run[j].at # "idle" => TableMoves(run[j].t) /\ GrowsAt(run[j].t)
    BY <1>1, <2>1, <2>3, StillMoves DEF GrowsAt, Locked
  <2>5. run[j].at \in ChosenStates => run[j].at # "idle"
    BY DEF ChosenStates
  <2>6. QED
    BY <1>1, <2>1, <2>2, <2>4, <2>5, ChainUndisturbed
<1>7. QED
  BY <1>2, <1>3, <1>4, <1>5, <1>6 DEF PrefixInv

LEMMA PrefixInit ==
    ASSUME RetentionInit, InitialAnchors \subseteq {NoHash}
    PROVE  PrefixInv
<1>1. /\ Init /\ run = [j \in Jobs |-> NoRun] /\ catalog = [t \in Tables |-> {}]
  BY DEF RetentionInit
<1>2. /\ table = NoRows /\ pend = [w \in Writers |-> NoRows] /\ parts = InitialParts
      /\ made = [w \in Writers |-> {}] /\ xlock = [t \in Tables |-> NoOwner]
      /\ batch = [w \in Writers |-> <<>>] /\ anchor \in [Tables -> InitialAnchors]
  BY <1>1 DEF Init
<1>3. \A j \in Jobs : run[j].at = "idle" /\ j \in Writers
  BY <1>1, NoRunType, RetentionConstants
<1>4. \A w \in Writers : batch[w] = <<>> /\ pend[w] = NoRows /\ made[w] = {} /\ ReadKeys(w) = {}
  BY <1>2, EmptyBatch DEF ReadKeys
<1>5. \A t \in Tables : table[t] = {} /\ NoRows[t] = {} /\ xlock[t] = NoOwner /\ anchor[t] = NoHash
  BY <1>2 DEF NoRows
<1>6. \A w \in Writers, t \in Tables : pend[w][t] = {} /\ Visible(w, t) = {}
  BY <1>4, <1>5 DEF Visible
<1>7. IsFiniteSet({}) /\ SeqSet({})
  BY FS_EmptySet DEF SeqSet
<1>8. LockInv /\ SeqInv /\ FreshInv /\ HeadInv
  BY <1>1, LockInit, SeqInit, FreshInit, HeadInit
<1>9. ParentInv
  BY <1>3, <1>4, <1>5, <1>6 DEF ParentInv, ParentLocks, WriterHolds, JobHolds, ChosenStates
<1>10. PlaceInv
  BY <1>2, <1>4, <1>5, <1>6, <1>7, RetentionConstants DEF PlaceInv
<1>11. CountInv
  BY <1>6, <1>7 DEF CountInv
<1>12. ASSUME NEW t \in Tables PROVE HeadAt(t) /\ ArchiveAt(t)
  <2>1. HeadAt(t)
    BY <1>8 DEF HeadInv, HeadAt
  <2>2. catalog[t] = {} /\ Catalogued(t) = {}
    BY <1>1 DEF Catalogued
  <2>3. Linked({}, NoHash) /\ TailHash({}, NoHash) = NoHash
    BY DEF Linked, TailHash
  <2>4. PartsApart(t)
    BY <2>2 DEF PartsApart
  <2>5. Below(Catalogued(t), table[t]) /\ \A w \in Writers : Below(Catalogued(t), Visible(w, t))
    BY <2>2 DEF Below
  <2>6. ArchiveAt(t)
    BY <1>5, <1>7, <2>2, <2>3, <2>4, <2>5 DEF ArchiveAt
  <2>7. QED
    BY <2>1, <2>6
<1>13. \A j \in Jobs : RunChainInv(j)
  BY <1>3 DEF RunChainInv, ListedStates, ChosenStates
<1>14. QED
  BY <1>8, <1>9, <1>10, <1>11, <1>12, <1>13 DEF PrefixInv, Locked

LEMMA PrefixInvStep ==
    ASSUME NoAliasing, ~Redelivery, TypeInv, RetentionInv, PrefixInv, [RetentionNext]_allVars
    PROVE  TypeInv' /\ RetentionInv' /\ PrefixInv'
<1>1. TypeInv' /\ RetentionInv'
  BY RetentionInvStep
<1>2. ASSUME NEW w \in WriterJobs, WriterNext(w) PROVE PrefixInv'
  BY <1>2, PrefixWriter
<1>3. ASSUME NEW j \in Jobs, RunNext(j) PROVE PrefixInv'
  BY <1>3, PrefixRun
<1>4. ASSUME NextMonth PROVE PrefixInv'
  BY <1>4, PrefixIdle DEF NextMonth
<1>5. ASSUME UNCHANGED allVars PROVE PrefixInv'
  <2>1. UNCHANGED <<vars, run, runs, store, catalog, unlocked>>
    BY <1>5 DEF allVars, rvars
  <2>2. QED
    BY <2>1, PrefixIdle
<1>6. QED
  BY <1>1, <1>2, <1>3, <1>4, <1>5 DEF RetentionNext

\* What a run knows of its table stays true while writers append to it and
\* other runs drop from it, and what it commits moves the cut between archive
\* and table along one chain, whatever the writers, the overlapping runs, the
\* tables and the partitions (run_scope, select_droppable, _archive_segment).
THEOREM PrefixInvHolds ==
    NoAliasing /\ ~Redelivery /\ InitialAnchors \subseteq {NoHash} =>
        (RetentionSpec => [](TypeInv /\ RetentionInv /\ PrefixInv))
<1> SUFFICES ASSUME NoAliasing, ~Redelivery, InitialAnchors \subseteq {NoHash}
             PROVE  RetentionSpec => [](TypeInv /\ RetentionInv /\ PrefixInv)
  OBVIOUS
<1>1. RetentionInit => TypeInv /\ RetentionInv /\ PrefixInv
  BY RetentionInvInit, PrefixInit
<1>2. TypeInv /\ RetentionInv /\ PrefixInv /\ [RetentionNext]_allVars =>
          TypeInv' /\ RetentionInv' /\ PrefixInv'
  BY PrefixInvStep
<1>3. QED
  BY <1>1, <1>2, PTL DEF RetentionSpec

-----------------------------------------------------------------------------
(* What it says of the archive and of the runs.                            *)

LEMMA PrefixChain ==
    ASSUME TypeOK, RecordsOK, PrefixInv
    PROVE  OneChain
<1>1. SUFFICES ASSUME NEW t \in Locked
               PROVE  Linked(Catalogued(t) \cup table[t], NoHash) /\ Linked(table[t], anchor[t])
  BY DEF OneChain
<1>2. t \in Tables /\ HeadAt(t) /\ ArchiveAt(t)
  BY DEF Locked, PrefixInv
<1>3. PICK K \in SUBSET Rows(Contents) : K = Catalogued(t)
  BY <1>2, CatalogRows
<1>4. PICK B \in SUBSET Rows(Contents) : B = table[t]
  BY <1>2 DEF TypeOK
<1>5. Linked(B, anchor[t])
  BY <1>2, <1>4 DEF HeadAt
<1>6. SeqSet(K) /\ Linked(K, NoHash) /\ anchor[t] = TailHash(K, NoHash) /\ Below(K, B)
  BY <1>2, <1>3, <1>4 DEF ArchiveAt
<1>7. Linked(K \cup B, NoHash)
  BY <1>5, <1>6, ChainJoin
<1>8. QED
  BY <1>3, <1>4, <1>5, <1>7

\* The catalogued objects read back as what was catalogued.
LEMMA ExportAll ==
    ASSUME RecordsOK, CatalogInv, NEW t \in Tables
    PROVE  Intact(t) /\ ExportRows(t) = Catalogued(t)
<1>1. \A s \in catalog[t] : \A n \in 1..Len(s.parts) :
          store[<<t, s.id, 0>>] = s.parts /\ store[<<t, s.id, n>>] = s.parts[n]
  BY DEF CatalogInv, Holds, HoldsParts
<1>2. ASSUME NEW s \in catalog[t]
      PROVE  UNION {IF store[<<t, s.id, n>>] = s.parts[n] THEN s.parts[n] ELSE {} : n \in 1..Len(s.parts)}
                = SegmentRows(s)
  <2>1. PICK out \in Seq(SUBSET Rows(Contents)) : out = s.parts
    BY CatalogRows
  <2>2. UNION {IF store[<<t, s.id, n>>] = s.parts[n] THEN s.parts[n] ELSE {} : n \in 1..Len(s.parts)}
            = UNION {out[n] : n \in 1..Len(out)}
    BY <1>1, <2>1
  <2>3. {out[n] : n \in 1..Len(out)} = Range(out)
    BY DEF Range
  <2>4. QED
    BY <2>1, <2>2, <2>3 DEF SegmentRows
<1>3. ExportRows(t) = Catalogued(t)
  BY <1>2 DEF ExportRows, Catalogued
<1>4. QED
  BY <1>1, <1>3 DEF Intact

LEMMA PrefixArchive ==
    ASSUME RecordsOK, CatalogInv, PrefixInv
    PROVE  ArchiveVerifies
<1>1. SUFFICES ASSUME NEW t \in Locked PROVE VerifyArchive(t)
  BY DEF ArchiveVerifies
<1>2. t \in Tables /\ ArchiveAt(t)
  BY DEF Locked, PrefixInv
<1>3. Intact(t) /\ ExportRows(t) = Catalogued(t)
  BY <1>2, ExportAll
<1>4. /\ PartsApart(t) /\ Linked(Catalogued(t), NoHash)
      /\ anchor[t] = TailHash(Catalogued(t), NoHash)
  BY <1>2 DEF ArchiveAt
<1>5. QED
  BY <1>3, <1>4 DEF VerifyArchive

LEMMA PrefixLargest ==
    ASSUME PrefixInv
    PROVE  LargestPrefix
BY DEF PrefixInv, RunChainInv, ChosenStates, ChoiceInv, AgedPartsOf, LargestPrefix

\* Archive and table are one unbroken chain at every moment and in the middle of
\* every run, whatever the number of writers, of overlapping runs, of rows and
\* of partitions: neither a late row in an aged partition nor an append during
\* the drop cuts a hole (select_droppable, "dropping it would cut a hole in the
\* middle of the chain").
THEOREM OneChainHolds ==
    NoAliasing /\ ~Redelivery /\ InitialAnchors \subseteq {NoHash} => (RetentionSpec => []OneChain)
<1> SUFFICES ASSUME NoAliasing, ~Redelivery, InitialAnchors \subseteq {NoHash}
             PROVE  RetentionSpec => []OneChain
  OBVIOUS
<1>1. TypeInv /\ RetentionInv /\ PrefixInv => OneChain
  BY PrefixChain DEF TypeInv, RetentionInv
<1>2. RetentionSpec => [](TypeInv /\ RetentionInv /\ PrefixInv)
  BY PrefixInvHolds
<1>3. QED
  BY <1>1, <1>2, PTL

\* verify_archive accepts the archive after every commit, whatever the store did
\* to the objects of the runs that failed and whichever runs overlapped: the
\* parts are intact and in order, their walk links, and it ends at the anchor
\* that the writers chain onto (_archive_segment, record_segment).
THEOREM ArchiveVerifiesHolds ==
    NoAliasing /\ ~Redelivery /\ InitialAnchors \subseteq {NoHash} =>
        (RetentionSpec => []ArchiveVerifies)
<1> SUFFICES ASSUME NoAliasing, ~Redelivery, InitialAnchors \subseteq {NoHash}
             PROVE  RetentionSpec => []ArchiveVerifies
  OBVIOUS
<1>1. TypeInv /\ RetentionInv /\ PrefixInv => ArchiveVerifies
  BY PrefixArchive DEF RetentionInv
<1>2. RetentionSpec => [](TypeInv /\ RetentionInv /\ PrefixInv)
  BY PrefixInvHolds
<1>3. QED
  BY <1>1, <1>2, PTL

\* A run drops the largest prefix of the chain that its aged partitions make,
\* and what it chose stays that prefix until it commits, whatever is appended
\* and dropped by others meanwhile (run_scope, "it is archived once the chain
\* has moved past it").
THEOREM LargestPrefixHolds ==
    NoAliasing /\ ~Redelivery /\ InitialAnchors \subseteq {NoHash} =>
        (RetentionSpec => []LargestPrefix)
<1> SUFFICES ASSUME NoAliasing, ~Redelivery, InitialAnchors \subseteq {NoHash}
             PROVE  RetentionSpec => []LargestPrefix
  OBVIOUS
<1>1. TypeInv /\ RetentionInv /\ PrefixInv => LargestPrefix
  BY PrefixLargest
<1>2. RetentionSpec => [](TypeInv /\ RetentionInv /\ PrefixInv)
  BY PrefixInvHolds
<1>3. QED
  BY <1>1, <1>2, PTL
=============================================================================
