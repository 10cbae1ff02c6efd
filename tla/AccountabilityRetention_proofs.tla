------------------- MODULE AccountabilityRetention_proofs -------------------
(***************************************************************************)
(* The safety of archiving the core's accountability record, for every     *)
(* number of drains and of overlapping runs, every page and part size and  *)
(* every number of records, tamperings, resets and failures.  AccInv is    *)
(* the inductive invariant.                                                *)
(***************************************************************************)
EXTENDS AccountabilityRetention, FiniteOrder_proofs

(* The inductive strengthening of the safety properties.                   *)

Pulling == {"fetch", "commit"}

\* Everything up to the cursor, up to where a drain stands and up to a run's
\* limit has been copied, by the drain's own transaction where it is open.
PullInv ==
    /\ 1..cursor.last \subseteq audit
    /\ \A d \in Drains : drain[d].at \in Pulling =>
          1..drain[d].pos \subseteq audit \cup drain[d].page
    /\ \A j \in Jobs : run[j].at \in {"count", "open", "archive"} =>
          1..run[j].limit \subseteq audit
    /\ PulledFirst

\* The archive is all records up to the anchor, none of which the table holds,
\* and what a run has written goes on where it ends.
ArchiveInv ==
    /\ Seqs(archive) = 1..Anchor
    /\ \A a \in archive : a.val = "ok"
    /\ Upto(Anchor) = {}
    /\ \A j \in Jobs : run[j].at \in {"open", "archive"} => run[j].limit > Anchor
    /\ \A j \in Jobs : run[j].at = "archive" =>
          /\ Seqs(run[j].left \cup run[j].out) \subseteq 1..run[j].limit
          /\ Contiguous(run[j].out, Anchor)
    /\ \A j \in Jobs : run[j].at # "archive" => run[j].out = {}

\* Until somebody tampers the table is all records after the anchor, and until
\* a run overtakes one no drain and no cursor stands before the anchor.
TableInv ==
    /\ tampers = 0 => DOMAIN core = Anchor + 1..top /\ \A s \in DOMAIN core : core[s] = "ok"
    /\ tampers = 0 /\ ~overtaken =>
          /\ cursor.last \notin 1..(Anchor - 1)
          /\ \A d \in Drains : drain[d].at \in Pulling => drain[d].pos >= Anchor

AccInv == PullInv /\ ArchiveInv /\ TableInv /\ NoFalseHalt

-----------------------------------------------------------------------------
\* catalog.anchor is the largest archived seq, or zero.
LEMMA AnchorFacts ==
    ASSUME TypeOK
    PROVE  /\ Anchor \in 0..top /\ Anchor \in Seqs(archive) \cup {0}
           /\ \A s \in Seqs(archive) : s <= Anchor
<1> DEFINE S == Seqs(archive) \cup {0}
<1>1. S \subseteq 0..top
  BY DEF TypeOK, Seqs, Records
<1>2. IsFiniteSet(S) /\ S \in SUBSET Int /\ S # {}
  <2>1. top \in Nat
    BY AccConstants DEF TypeOK
  <2>2. IsFiniteSet(0..top)
    BY <2>1, FS_Interval
  <2>3. IsFiniteSet(S)
    BY <1>1, <2>2, FS_Subset
  <2>4. QED
    BY <1>1, <2>3
<1>3. Max(S) \in S /\ \A y \in S : y <= Max(S)
  <2> HIDE DEF S
  <2>1. QED
    BY <1>2, MaxFacts
<1>4. QED
  BY <1>1, <1>3 DEF Anchor

\* max(seq) of a part of the table, together with a seq below it.
LEMMA MaxInTable ==
    ASSUME TypeOK, NEW S \in SUBSET (0..top), S # {}
    PROVE  Max(S) \in S /\ \A y \in S : y <= Max(S)
<1>1. top \in Nat
  BY AccConstants DEF TypeOK
<1>2. IsFiniteSet(S) /\ S \in SUBSET Int
  <2>1. IsFiniteSet(0..top)
    BY <1>1, FS_Interval
  <2>2. IsFiniteSet(S)
    BY <2>1, FS_Subset
  <2>3. QED
    BY <2>2
<1>3. QED
  BY <1>2, MaxFacts

\* What the walk accepts is an interval that starts after n.
LEMMA ContiguousIsInterval ==
    ASSUME NEW m \in Nat, NEW S, Seqs(S) \subseteq 1..m, NEW n \in Nat, Contiguous(S, n)
    PROVE  \A s \in Seqs(S) : s > n /\ n + 1..s \subseteq Seqs(S)
<1>0. /\ Seqs(S) \in SUBSET Int /\ IsFiniteSet(Seqs(S))
      /\ \A s \in Seqs(S) : s = n + 1 \/ s - 1 \in Seqs(S)
  <2>1. IsFiniteSet(1..m)
    BY FS_Interval
  <2>2. IsFiniteSet(Seqs(S))
    BY <2>1, FS_Subset
  <2>3. \A s \in Seqs(S) : s = n + 1 \/ s - 1 \in Seqs(S)
    BY DEF Contiguous, Seqs
  <2>4. QED
    BY <2>2, <2>3
<1>1. QED
  BY <1>0, Gapless

\* Cap never exceeds what is aged nor what is pulled.
LEMMA CapFacts ==
    ASSUME NEW m \in Nat, NEW n \in Nat
    PROVE  Cap(m, n) \in Nat /\ Cap(m, n) <= m /\ Cap(m, n) <= n
BY MinOfTwo DEF Cap

-----------------------------------------------------------------------------
\* The types at the start.
LEMMA TypeInit == Init => TypeOK
<1> SUFFICES ASSUME Init PROVE TypeOK
  OBVIOUS
<1>1. run \in [Jobs -> [at : {"idle", "cursor", "count", "open", "archive"},
                        limit : 0..top, count : Nat,
                        left : SUBSET Records, out : SUBSET Records]]
  BY DEF Init, NoRun
<1>2. drain \in [Drains -> [at : {"idle", "anchor", "fetch", "commit"}, pos : 0..top,
                            page : SUBSET (1..top)]]
  BY DEF Init, NoDrain
<1>3. CountsOK
  <2>1. tampers = 0 /\ resets = 0 /\ fails = 0
    BY DEF Init
  <2>2. overtaken \in BOOLEAN
    BY Zenon DEF Init
  <2>3. QED
    BY <2>1, <2>2, AccConstants DEF CountsOK
<1>4. QED
  BY <1>1, <1>2, <1>3, AccConstants DEF Init, TypeOK, NoRun

\* The rows of a table are records, and the first of them rows.
LEMMA StoredType ==
    ASSUME TypeOK
    PROVE  /\ \A S \in SUBSET DOMAIN core :
                 Stored(S) \in SUBSET Records /\ Seqs(Stored(S)) = S
           /\ \A n \in Nat : Upto(n) \in SUBSET DOMAIN core
           /\ \A S, n : First(S, n) \subseteq S
           /\ DOMAIN core \subseteq 1..top /\ top \in Nat
<1>1. DOMAIN core \subseteq 1..top /\ top \in Nat
  BY AccConstants DEF TypeOK
<1>2. ASSUME NEW S \in SUBSET DOMAIN core PROVE Stored(S) \in SUBSET Records /\ Seqs(Stored(S)) = S
  <2>1. Stored(S) \in SUBSET Records
    BY <1>1 DEF TypeOK, Stored, Records
  <2>2. Seqs(Stored(S)) \subseteq S
    BY DEF Seqs, Stored
  <2>3. ASSUME NEW s \in S PROVE s \in Seqs(Stored(S))
    <3>1. [seq |-> s, val |-> core[s]] \in Stored(S)
      BY DEF Stored
    <3>2. QED
      BY <3>1 DEF Seqs
  <2>4. QED
    BY <2>1, <2>2, <2>3
<1>3. QED
  BY <1>1, <1>2 DEF Upto, First

\* Faults are counted, and an overtaken drain is remembered.
LEMMA CountsStep == CountsOK /\ [Next]_vars => CountsOK'
<1> SUFFICES ASSUME CountsOK, [Next]_vars PROVE CountsOK'
  OBVIOUS
<1>0. MaxFaults \in Nat
  BY AccConstants
<1>1. CASE UNCHANGED <<tampers, resets, fails>> /\ overtaken' \in BOOLEAN
  BY <1>1 DEF CountsOK
<1>2. CASE Fault /\ tampers' = tampers + 1 /\ UNCHANGED <<resets, fails, overtaken>>
  BY <1>0, <1>2 DEF CountsOK, Fault
<1>3. CASE Fault /\ resets' = resets + 1 /\ UNCHANGED <<tampers, fails, overtaken>>
  BY <1>0, <1>3 DEF CountsOK, Fault
<1>4. CASE Fault /\ fails' = fails + 1 /\ UNCHANGED <<tampers, resets, overtaken>>
  BY <1>0, <1>4 DEF CountsOK, Fault
<1>5. CASE CoreAppend \/ Age \/ ResetCursor \/ Acknowledge \/ UNCHANGED vars
  BY <1>1, <1>3, <1>5
     DEF CoreAppend, Age, ResetCursor, Acknowledge, vars, coreVars, counts, CountsOK
<1>6. CASE \E s \in DOMAIN core : Tamper(s)
  BY <1>2, <1>6 DEF Tamper, counts
<1>7. ASSUME NEW d \in Drains,
             BeginDrain(d) \/ ReadAnchor(d) \/ Fetch(d) \/ CommitDrain(d) \/ DrainFails(d)
      PROVE  CountsOK'
  <2>1. CASE DrainOnly
    BY <1>1, <2>1 DEF DrainOnly, coreVars, counts, CountsOK
  <2>2. CASE DrainFails(d)
    BY <1>4, <2>2 DEF DrainFails, coreVars
  <2>3. QED
    BY <1>7, <2>1, <2>2 DEF BeginDrain, ReadAnchor, Fetch, CommitDrain
<1>8. ASSUME NEW j \in Jobs,
             \/ LockRun(j) \/ ReadCursor(j) \/ Count(j) \/ OpenStream(j) \/ PutPart(j)
             \/ CommitRun(j) \/ RunFails(j)
      PROVE  CountsOK'
  <2>1. CASE RunOnly /\ UNCHANGED fails
    BY <1>1, <2>1 DEF RunOnly, coreVars, CountsOK
  <2>2. CASE RunFails(j)
    BY <1>4, <2>2 DEF RunFails, EndRun, RunOnly, coreVars
  <2>3. CASE CommitRun(j)
    BY <1>1, <2>3 DEF CommitRun, counts, CountsOK, Behind
  <2>4. QED
    BY <1>8, <2>1, <2>2, <2>3 DEF LockRun, ReadCursor, Count, OpenStream, PutPart, EndRun
<1>9. QED
  BY <1>5, <1>6, <1>7, <1>8 DEF Next

\* Every step of the core, the drains, the runs and the operator keeps types,
\* and only the run that holds the lock is under way.
LEMMA TypeStep == TypeOK /\ [Next]_vars => TypeOK'
<1> SUFFICES ASSUME TypeOK, [Next]_vars PROVE TypeOK'
  OBVIOUS
<1> DEFINE RunType == [at : {"idle", "cursor", "count", "open", "archive"},
                       limit : 0..top, count : Nat,
                       left : SUBSET Records, out : SUBSET Records]
           DrainType == [at : {"idle", "anchor", "fetch", "commit"}, pos : 0..top,
                         page : SUBSET (1..top)]
<1>0. /\ top \in Nat /\ NoDrain \in DrainType /\ NoRun \in RunType
      /\ \A j \in Jobs : run[j] \in RunType
      /\ \A d \in Drains : drain[d] \in DrainType
  BY AccConstants DEF TypeOK, NoDrain, NoRun
<1>c. CountsOK'
  BY CountsStep DEF TypeOK
<1>1. CASE CoreAppend
  <2>1. /\ top' = top + 1 /\ top < MaxSeq
        /\ core' = [s \in DOMAIN core \cup {top + 1} |-> IF s = top + 1 THEN "ok" ELSE core[s]]
        /\ UNCHANGED <<aged, audit, cursor, archive, lock, drain, run>>
    BY <1>1 DEF CoreAppend
  <2>2. 0..top \subseteq 0..top' /\ 1..top \subseteq 1..top' /\ top' \in 0..MaxSeq
    BY <1>0, <2>1, AccConstants
  <2>3. Records \subseteq Records'
    BY <2>2 DEF Records
  <2>4. core' \in [DOMAIN core' -> {"ok", "altered"}] /\ DOMAIN core' \subseteq 1..top'
    BY <1>0, <2>1, <2>2 DEF TypeOK
  <2>5. RunType \subseteq RunType'
    BY <2>2, <2>3
  <2>6. DrainType \subseteq DrainType'
    BY <2>2
  <2>7. run' \in [Jobs -> RunType'] /\ drain' \in [Drains -> DrainType']
    BY <1>0, <2>1, <2>5, <2>6 DEF TypeOK
  <2>8. aged' \in 0..top' /\ audit' \subseteq 1..top' /\ archive' \subseteq Records'
    BY <2>1, <2>2, <2>3 DEF TypeOK
  <2>9. cursor' \in [last : 0..top', halt : BOOLEAN]
    BY <2>1, <2>2 DEF TypeOK
  <2>10. QED
    BY <1>c, <2>1, <2>2, <2>4, <2>7, <2>8, <2>9 DEF TypeOK
<1>2. CASE Age
  BY <1>0, <1>c, <1>2 DEF Age, TypeOK, Records, counts
<1>3. ASSUME NEW s \in DOMAIN core, Tamper(s) PROVE TypeOK'
  <2>1. core' \in [DOMAIN core' -> {"ok", "altered"}] /\ DOMAIN core' \subseteq 1..top
    <3>1. CASE core' = [core EXCEPT ![s] = "altered"]
      BY <3>1 DEF TypeOK
    <3>2. CASE core' = [q \in DOMAIN core \ {s} |-> core[q]]
      BY <3>2 DEF TypeOK
    <3>3. QED
      BY <1>3, <3>1, <3>2 DEF Tamper
  <2>2. QED
    BY <1>c, <1>3, <2>1 DEF Tamper, TypeOK, Records
<1>4. CASE ResetCursor
  BY <1>0, <1>c, <1>4 DEF ResetCursor, coreVars, TypeOK, Records
<1>5. CASE Acknowledge
  BY <1>0, <1>c, <1>5 DEF Acknowledge, coreVars, TypeOK, Records
<1>6. ASSUME NEW d \in Drains, NEW x \in DrainType, drain' = [drain EXCEPT ![d] = x],
             audit' \subseteq 1..top, cursor' \in [last : 0..top, halt : BOOLEAN],
             UNCHANGED <<coreVars, archive, lock, run>>
      PROVE  TypeOK'
  <2>1. drain' \in [Drains -> DrainType]
    BY <1>6 DEF TypeOK
  <2>2. QED
    BY <1>c, <1>6, <2>1 DEF coreVars, TypeOK, Records
<1>7. ASSUME NEW d \in Drains, BeginDrain(d) PROVE TypeOK'
  <2> DEFINE x == [NoDrain EXCEPT !.pos = cursor.last,
                      !.at = IF cursor.last = 0 THEN "anchor" ELSE "fetch"]
  <2>1. x \in DrainType
    BY <1>0 DEF TypeOK, NoDrain
  <2>2. QED
    BY <1>6, <1>7, <2>1 DEF BeginDrain, DrainOnly, TypeOK
<1>8. ASSUME NEW d \in Drains, ReadAnchor(d) PROVE TypeOK'
  <2> DEFINE x == [drain[d] EXCEPT !.pos = ResumeAt, !.at = "fetch"]
  <2>1. x \in DrainType
    BY <1>0, AnchorFacts DEF ResumeAt
  <2>2. drain' = [drain EXCEPT ![d] = x]
    BY <1>8 DEF ReadAnchor, TypeOK
  <2>3. QED
    BY <1>6, <1>8, <2>1, <2>2 DEF ReadAnchor, DrainOnly, TypeOK
<1>9. ASSUME NEW d \in Drains, Fetch(d) PROVE TypeOK'
  <2> DEFINE all == {s \in DOMAIN core : s > drain[d].pos}
             page == First(all, PageSize)
             x == [at |-> IF page = all THEN "commit" ELSE "fetch",
                   pos |-> Max(page \cup {drain[d].pos}),
                   page |-> drain[d].page \cup page]
  <2>1. page \subseteq 1..top /\ page \cup {drain[d].pos} \in SUBSET (0..top)
    BY <1>0, StoredType
  <2>2. Max(page \cup {drain[d].pos}) \in 0..top
    BY <2>1, MaxInTable
  <2>3. x \in DrainType
    BY <1>0, <2>1, <2>2
  <2>4. \/ drain' = [drain EXCEPT ![d] = x] /\ cursor' = cursor
        \/ drain' = [drain EXCEPT ![d] = NoDrain] /\ cursor' = [cursor EXCEPT !.halt = TRUE]
    BY <1>9 DEF Fetch, TypeOK
  <2>5. audit' \subseteq 1..top /\ cursor' \in [last : 0..top, halt : BOOLEAN]
        /\ UNCHANGED <<coreVars, archive, lock, run>>
    BY <1>9, <2>4 DEF Fetch, DrainOnly, TypeOK
  <2> HIDE DEF x
  <2>6. QED
    BY <1>0, <1>6, <2>3, <2>4, <2>5
<1>10. ASSUME NEW d \in Drains, CommitDrain(d) PROVE TypeOK'
  <2>1. audit' \subseteq 1..top /\ cursor' \in [last : 0..top, halt : BOOLEAN]
    BY <1>0, <1>10 DEF CommitDrain, TypeOK
  <2>2. QED
    BY <1>0, <1>6, <1>10, <2>1 DEF CommitDrain, DrainOnly
<1>11. ASSUME NEW d \in Drains, DrainFails(d) PROVE TypeOK'
  BY <1>0, <1>6, <1>11 DEF DrainFails, TypeOK
<1>12. ASSUME NEW j \in Jobs, NEW x \in RunType, run' = [run EXCEPT ![j] = x],
              lock' = j \/ (lock' = NoJob /\ x.at = "idle"),
              lock \in {NoJob, j},
              core' \in [DOMAIN core' -> {"ok", "altered"}] /\ DOMAIN core' \subseteq 1..top,
              archive' \subseteq Records,
              UNCHANGED <<top, aged, audit, cursor, drain>>
       PROVE  TypeOK'
  <2>1. run' \in [Jobs -> RunType]
    BY <1>12 DEF TypeOK
  <2>2. \A i \in Jobs : run'[i].at # "idle" => lock' = i
    BY <1>12, AccConstants DEF TypeOK
  <2>3. lock' \in Jobs \cup {NoJob}
    BY <1>12
  <2>4. QED
    BY <1>c, <1>12, <2>1, <2>2, <2>3 DEF TypeOK, Records
<1>13. ASSUME NEW j \in Jobs, lock \in {NoJob, j}, EndRun(j) PROVE TypeOK'
  BY <1>0, <1>12, <1>13 DEF EndRun, RunOnly, coreVars, TypeOK, NoRun
<1>14. ASSUME NEW j \in Jobs, LockRun(j) PROVE TypeOK'
  <2> DEFINE x == [NoRun EXCEPT !.at = "cursor", !.limit = Max(Upto(aged))]
  <2>1. Upto(aged) \in SUBSET (0..top) /\ Upto(aged) # {}
    BY <1>14, StoredType DEF LockRun, TypeOK, Upto
  <2>2. Max(Upto(aged)) \in 0..top
    BY <2>1, MaxInTable
  <2>3. x \in RunType
    BY <1>0, <2>2 DEF NoRun
  <2>4. QED
    BY <1>12, <1>14, <2>3 DEF LockRun, RunOnly, coreVars, TypeOK
<1>15. ASSUME NEW j \in Jobs, ReadCursor(j) PROVE TypeOK'
  <2> DEFINE n == Cap(run[j].limit, IF cursor.halt THEN 0 ELSE cursor.last)
             x == [run[j] EXCEPT !.limit = n, !.at = "count"]
  <2>1. n \in 0..top
    <3>1. run[j].limit \in Nat /\ (IF cursor.halt THEN 0 ELSE cursor.last) \in Nat
      BY <1>0 DEF TypeOK
    <3>2. n \in Nat /\ n <= run[j].limit
      BY <3>1, CapFacts
    <3>3. QED
      BY <1>0, <3>2
  <2> HIDE DEF n
  <2>2. x \in RunType
    BY <1>0, <2>1
  <2>3. run' = [run EXCEPT ![j] = x]
    BY <1>15 DEF ReadCursor, TypeOK, n
  <2> HIDE DEF x
  <2>4. lock = j /\ UNCHANGED <<core, top, aged, audit, cursor, drain, archive, lock>>
    BY <1>15 DEF ReadCursor, At, RunOnly, coreVars, TypeOK
  <2>5. QED
    BY <1>12, <2>2, <2>3, <2>4 DEF TypeOK
<1>16. ASSUME NEW j \in Jobs, Count(j) PROVE TypeOK'
  <2> DEFINE count == Cardinality(Upto(run[j].limit))
             x == [run[j] EXCEPT !.count = count, !.at = "open"]
  <2>1. lock = j
    BY <1>16 DEF Count, At, TypeOK
  <2>2. CASE EndRun(j)
    BY <1>13, <2>1, <2>2
  <2>3. CASE /\ run' = [run EXCEPT ![j].count = count, ![j].at = "open"]
             /\ UNCHANGED <<archive, lock>> /\ RunOnly
    <3>1. count \in Nat
      <4>1. Upto(run[j].limit) \in SUBSET (1..top)
        BY <1>0, StoredType
      <4>2. IsFiniteSet(1..top)
        BY <1>0, FS_Interval
      <4>3. IsFiniteSet(Upto(run[j].limit))
        BY <4>1, <4>2, FS_Subset
      <4>4. QED
        BY <4>3, FS_CardinalityType
    <3> HIDE DEF count
    <3>2. x \in RunType
      BY <1>0, <3>1
    <3>3. run' = [run EXCEPT ![j] = x]
      BY <2>3 DEF TypeOK
    <3> HIDE DEF x
    <3>4. QED
      BY <1>12, <2>1, <2>3, <3>2, <3>3 DEF RunOnly, coreVars, TypeOK
  <2>4. QED
    BY <1>16, <2>2, <2>3 DEF Count
<1>17. ASSUME NEW j \in Jobs, OpenStream(j) PROVE TypeOK'
  <2> DEFINE x == [run[j] EXCEPT !.left = Stored(Upto(run[j].limit)), !.at = "archive"]
  <2>1. Stored(Upto(run[j].limit)) \in SUBSET Records
    BY <1>0, StoredType
  <2>2. x \in RunType
    BY <1>0, <2>1
  <2>3. run' = [run EXCEPT ![j] = x]
    BY <1>17 DEF OpenStream, TypeOK
  <2> HIDE DEF x
  <2>4. lock = j /\ UNCHANGED <<core, top, aged, audit, cursor, drain, archive, lock>>
    BY <1>17 DEF OpenStream, At, RunOnly, coreVars, TypeOK
  <2>5. QED
    BY <1>12, <2>2, <2>3, <2>4 DEF TypeOK
<1>18. ASSUME NEW j \in Jobs, PutPart(j) PROVE TypeOK'
  <2> DEFINE part == {a \in run[j].left : a.seq \in First(Seqs(run[j].left), PartRows)}
             x == [run[j] EXCEPT !.left = @ \ part, !.out = run[j].out \cup part]
  <2>1. lock = j
    BY <1>18 DEF PutPart, At, TypeOK
  <2>2. CASE EndRun(j)
    BY <1>13, <2>1, <2>2
  <2>3. CASE /\ run' = [run EXCEPT ![j].left = @ \ part, ![j].out = run[j].out \cup part]
             /\ UNCHANGED <<archive, lock>> /\ RunOnly
    <3>1. part \subseteq run[j].left
      OBVIOUS
    <3> HIDE DEF part
    <3>2. x \in RunType
      BY <1>0, <3>1
    <3>3. run' = [run EXCEPT ![j] = x]
      BY <2>3 DEF TypeOK
    <3> HIDE DEF x
    <3>4. QED
      BY <1>12, <2>1, <2>3, <3>2, <3>3 DEF RunOnly, coreVars, TypeOK
  <2>4. QED
    BY <1>18, <2>2, <2>3 DEF PutPart
<1>19. ASSUME NEW j \in Jobs, CommitRun(j) PROVE TypeOK'
  <2>1. lock = j /\ lock' = NoJob /\ run' = [run EXCEPT ![j] = NoRun]
    BY <1>19 DEF CommitRun, At, TypeOK
  <2>2. core' \in [DOMAIN core' -> {"ok", "altered"}] /\ DOMAIN core' \subseteq 1..top
    BY <1>19 DEF CommitRun, TypeOK
  <2>3. archive' \subseteq Records
    BY <1>0, <1>19 DEF CommitRun, TypeOK
  <2>4. UNCHANGED <<top, aged, audit, cursor, drain>>
    BY <1>19 DEF CommitRun
  <2>5. QED
    BY <1>0, <1>12, <2>1, <2>2, <2>3, <2>4 DEF NoRun
<1>20. ASSUME NEW j \in Jobs, RunFails(j) PROVE TypeOK'
  BY <1>13, <1>20 DEF RunFails, At, TypeOK
<1>21. CASE UNCHANGED vars
  BY <1>c, <1>21 DEF vars, TypeOK, Records
<1>22. QED
  BY <1>1, <1>2, <1>3, <1>4, <1>5, <1>7, <1>8, <1>9, <1>10, <1>11, <1>14, <1>15,
     <1>16, <1>17, <1>18, <1>19, <1>20, <1>21 DEF Next

\* The table, the archive, the drains and the runs have their types, and the
\* advisory lock admits one run at a time (accountability_retention.py).
THEOREM TypeCorrect == Spec => []TypeOK
BY TypeInit, TypeStep, PTL DEF Spec

-----------------------------------------------------------------------------
\* A page that verifies is the records right after the seq the drain stands at.
LEMMA FetchFacts ==
    ASSUME TypeOK, NEW n \in 0..top, NEW page \in SUBSET DOMAIN core,
           Contiguous(Stored(page), n)
    PROVE  /\ Max(page \cup {n}) >= n
           /\ n + 1..Max(page \cup {n}) \subseteq page
<1> DEFINE m == Max(page \cup {n})
<1>1. /\ DOMAIN core \subseteq 1..top /\ top \in Nat /\ Seqs(Stored(page)) = page
      /\ n \in Nat /\ page \subseteq 1..top
  BY StoredType
<1>2. m \in page \cup {n} /\ \A y \in page \cup {n} : y <= m
  <2>1. page \cup {n} \in SUBSET (0..top) /\ page \cup {n} # {}
    BY <1>1
  <2>2. QED
    BY <2>1, MaxInTable
<1>3. \A s \in page : s > n /\ n + 1..s \subseteq page
  BY <1>1, ContiguousIsInterval
<1> HIDE DEF m
<1>4. m >= n /\ m \in Int
  BY <1>1, <1>2
<1>5. n + 1..m \subseteq page
  <2>1. CASE m \in page
    BY <1>3, <2>1
  <2>2. CASE m = n
    BY <1>1, <2>2
  <2>3. QED
    BY <1>2, <2>1, <2>2
<1>6. QED
  BY <1>4, <1>5 DEF m

\* What one step does to a drain: it begins, reads the anchor, takes a page or
\* ends; the cursor moves only when it commits.
LEMMA DrainChange ==
    ASSUME TypeOK, NEW d \in Drains,
           BeginDrain(d) \/ ReadAnchor(d) \/ Fetch(d) \/ CommitDrain(d) \/ DrainFails(d)
    PROVE  /\ UNCHANGED <<coreVars, archive, lock, run>>
           /\ \A c \in Drains \ {d} : drain'[c] = drain[c]
           /\ \/ /\ drain'[d].at \in {"idle", "anchor"} /\ audit' = audit
                 /\ cursor'.last = cursor.last
                 /\ cursor'.halt = cursor.halt \/ Fetch(d)
              \/ /\ drain'[d].at = "fetch" /\ audit' = audit /\ cursor' = cursor
                 /\ drain'[d].pos = cursor.last /\ cursor.last # 0
              \/ /\ drain'[d].at = "fetch" /\ audit' = audit /\ cursor' = cursor
                 /\ drain'[d].pos = Anchor
              \/ /\ drain[d].at = "fetch" /\ drain'[d].at \in Pulling
                 /\ audit' = audit /\ cursor' = cursor
                 /\ drain'[d].pos >= drain[d].pos
                 /\ drain[d].page \subseteq drain'[d].page
                 /\ drain[d].pos + 1..drain'[d].pos \subseteq drain'[d].page
              \/ /\ drain[d].at = "commit" /\ drain'[d].at = "idle"
                 /\ audit' = audit \cup drain[d].page
                 /\ cursor'.halt = cursor.halt
                 /\ cursor'.last \in {cursor.last, drain[d].pos}
<1>0. /\ \A c \in Drains : drain[c] \in [at : {"idle", "anchor", "fetch", "commit"},
                                        pos : 0..top, page : SUBSET (1..top)]
      /\ drain \in [Drains -> [at : {"idle", "anchor", "fetch", "commit"},
                               pos : 0..top, page : SUBSET (1..top)]]
      /\ cursor \in [last : 0..top, halt : BOOLEAN]
  BY DEF TypeOK
<1>1. CASE BeginDrain(d)
  BY <1>0, <1>1 DEF BeginDrain, DrainOnly, NoDrain
<1>2. CASE ReadAnchor(d)
  BY <1>0, <1>2 DEF ReadAnchor, DrainOnly, ResumeAt
<1>3. CASE Fetch(d)
  <2> DEFINE all == {s \in DOMAIN core : s > drain[d].pos}
             page == First(all, PageSize)
             x == [at |-> IF page = all THEN "commit" ELSE "fetch",
                   pos |-> Max(page \cup {drain[d].pos}),
                   page |-> drain[d].page \cup page]
  <2>0. /\ IF Contiguous(Stored(page), drain[d].pos)
           THEN drain' = [drain EXCEPT ![d] = x] /\ cursor' = cursor
           ELSE drain' = [drain EXCEPT ![d] = NoDrain] /\ cursor' = [cursor EXCEPT !.halt = TRUE]
    BY <1>3 DEF Fetch
  <2>1. UNCHANGED <<coreVars, archive, lock, run>> /\ audit' = audit /\ drain[d].at = "fetch"
    BY <1>3 DEF Fetch, DrainOnly
  <2>2. CASE ~Contiguous(Stored(page), drain[d].pos)
    <3> HIDE DEF page
    <3>1. drain' = [drain EXCEPT ![d] = NoDrain] /\ cursor' = [cursor EXCEPT !.halt = TRUE]
      BY <2>0, <2>2
    <3>2. QED
      BY <1>0, <1>3, <2>1, <3>1 DEF NoDrain
  <2>3. CASE Contiguous(Stored(page), drain[d].pos)
    <3>1. drain' = [drain EXCEPT ![d] = x] /\ cursor' = cursor
      BY <2>0, <2>3
    <3>2. page \in SUBSET DOMAIN core
      BY StoredType
    <3>3. /\ Max(page \cup {drain[d].pos}) >= drain[d].pos
          /\ drain[d].pos + 1..Max(page \cup {drain[d].pos}) \subseteq page
      <4> HIDE DEF page
      <4>1. QED
        BY <1>0, <2>3, <3>2, FetchFacts
    <3> HIDE DEF page, all
    <3>4. /\ drain'[d].page = drain[d].page \cup page
          /\ drain'[d].pos = Max(page \cup {drain[d].pos})
          /\ drain'[d].at \in {"commit", "fetch"}
          /\ \A c \in Drains \ {d} : drain'[c] = drain[c]
      BY <1>0, <3>1
    <3>5. QED
      BY <2>1, <3>1, <3>3, <3>4 DEF Pulling
  <2>4. QED
    BY <2>2, <2>3
<1>4. CASE CommitDrain(d)
  BY <1>0, <1>4 DEF CommitDrain, DrainOnly, NoDrain
<1>5. CASE DrainFails(d)
  BY <1>0, <1>5 DEF DrainFails, NoDrain
<1>6. QED
  BY <1>1, <1>2, <1>3, <1>4, <1>5

\* What one step does to a run other than to commit it: it ends, or goes on to
\* the next statement; the limit only falls when the cursor is read.
LEMMA RunChange ==
    ASSUME TypeOK, ArchiveInv, NEW j \in Jobs,
           \/ LockRun(j) \/ ReadCursor(j) \/ Count(j) \/ OpenStream(j) \/ PutPart(j)
           \/ RunFails(j)
    PROVE  /\ UNCHANGED <<coreVars, audit, cursor, drain, archive>>
           /\ \A i \in Jobs \ {j} : run'[i] = run[i]
           /\ run'[j].at # "archive" => run'[j].out = {}
           /\ \/ run'[j].at \in {"idle", "cursor"}
              \/ run'[j].at = "count" /\ run'[j].limit <= cursor.last
              \/ /\ run[j].at = "count" /\ run'[j].at = "open"
                 /\ run'[j].limit = run[j].limit /\ run[j].limit > Anchor
              \/ /\ run[j].at = "open" /\ run'[j].at = "archive"
                 /\ run'[j].limit = run[j].limit /\ run'[j].out = run[j].out
                 /\ Seqs(run'[j].left) \subseteq 1..run[j].limit
              \/ /\ run[j].at = "archive" /\ run'[j].at = "archive"
                 /\ run'[j].limit = run[j].limit
                 /\ run'[j].left \cup run'[j].out = run[j].left \cup run[j].out
                 /\ Contiguous(run'[j].out, Anchor)
<1> DEFINE RunType == [at : {"idle", "cursor", "count", "open", "archive"},
                       limit : 0..top, count : Nat,
                       left : SUBSET Records, out : SUBSET Records]
<1>0. /\ run \in [Jobs -> RunType] /\ run[j] \in RunType /\ top \in Nat
      /\ cursor \in [last : 0..top, halt : BOOLEAN]
      /\ run[j].at # "archive" => run[j].out = {}
  BY AccConstants DEF TypeOK, ArchiveInv
<1>1. CASE EndRun(j)
  BY <1>0, <1>1 DEF EndRun, RunOnly, NoRun
<1>2. CASE LockRun(j)
  BY <1>0, <1>2 DEF LockRun, RunOnly, NoRun
<1>3. CASE ReadCursor(j)
  <2> DEFINE n == Cap(run[j].limit, IF cursor.halt THEN 0 ELSE cursor.last)
  <2>1. n <= cursor.last
    <3>1. run[j].limit \in Nat /\ (IF cursor.halt THEN 0 ELSE cursor.last) \in Nat
      BY <1>0
    <3>2. n \in Nat /\ n <= (IF cursor.halt THEN 0 ELSE cursor.last)
      BY <3>1, CapFacts
    <3>3. QED
      BY <1>0, <3>2
  <2>2. run' = [run EXCEPT ![j].limit = n, ![j].at = "count"]
    BY <1>3 DEF ReadCursor
  <2> HIDE DEF n
  <2>3. run'[j].at = "count" /\ run'[j].limit = n /\ run'[j].out = run[j].out /\ \A i \in Jobs \ {j} : run'[i] = run[i]
    BY <1>0, <2>2
  <2>4. UNCHANGED <<coreVars, audit, cursor, drain, archive>>
    BY <1>3 DEF ReadCursor, RunOnly
  <2>5. run[j].at = "cursor"
    BY <1>3 DEF ReadCursor, At
  <2>6. QED
    BY <1>0, <2>1, <2>3, <2>4, <2>5
<1>4. CASE Count(j) /\ ~EndRun(j)
  <2>1. /\ run' = [run EXCEPT ![j].count = Cardinality(Upto(run[j].limit)), ![j].at = "open"]
        /\ UNCHANGED <<archive, lock>> /\ RunOnly /\ run[j].limit > Anchor
        /\ run[j].at = "count"
    BY <1>4 DEF Count, Worth, At
  <2>2. QED
    BY <1>0, <2>1 DEF RunOnly
<1>5. CASE OpenStream(j)
  <2>1. /\ run' = [run EXCEPT ![j].left = Stored(Upto(run[j].limit)), ![j].at = "archive"]
        /\ UNCHANGED <<coreVars, audit, cursor, drain, archive>> /\ run[j].at = "open"
    BY <1>5 DEF OpenStream, RunOnly, At
  <2>2. Seqs(Stored(Upto(run[j].limit))) \subseteq 1..run[j].limit
    <3>1. run[j].limit \in Nat
      BY <1>0
    <3>2. Seqs(Stored(Upto(run[j].limit))) = Upto(run[j].limit)
      BY <3>1, StoredType
    <3>3. QED
      BY <3>1, <3>2, StoredType DEF Upto
  <2>3. run'[j].at = "archive" /\ run'[j].limit = run[j].limit /\ run'[j].out = run[j].out
        /\ run'[j].left = Stored(Upto(run[j].limit))
        /\ \A i \in Jobs \ {j} : run'[i] = run[i]
    BY <1>0, <2>1
  <2>4. QED
    BY <2>1, <2>2, <2>3
<1>6. CASE PutPart(j) /\ ~EndRun(j)
  <2> DEFINE part == {a \in run[j].left : a.seq \in First(Seqs(run[j].left), PartRows)}
             out == run[j].out \cup part
  <2>1. /\ run' = [run EXCEPT ![j].left = @ \ part, ![j].out = out]
        /\ UNCHANGED <<archive, lock>> /\ RunOnly /\ Walk(out, Anchor)
        /\ run[j].at = "archive"
    BY <1>6 DEF PutPart, At
  <2>2. part \subseteq run[j].left
    OBVIOUS
  <2> HIDE DEF part
  <2>3. /\ run'[j].at = "archive" /\ run'[j].limit = run[j].limit /\ run'[j].out = out
        /\ run'[j].left = run[j].left \ part
        /\ \A i \in Jobs \ {j} : run'[i] = run[i]
    BY <1>0, <2>1
  <2>4. run'[j].left \cup run'[j].out = run[j].left \cup run[j].out
    BY <2>2, <2>3
  <2>5. QED
    BY <2>1, <2>3, <2>4 DEF RunOnly, Walk
<1>7. QED
  BY <1>1, <1>2, <1>3, <1>4, <1>5, <1>6 DEF RunFails
-----------------------------------------------------------------------------
\* What is copied is never uncopied: the cursor, the drains and the runs stand
\* where the audit log has everything, also after a commit that moves the
\* cursor back (puller.py) and although a run read the cursor long before.
LEMMA PullStep == TypeOK /\ ArchiveInv /\ PullInv /\ [Next]_vars => PullInv'
<1> SUFFICES ASSUME TypeOK, ArchiveInv, PullInv, [Next]_vars PROVE PullInv'
  OBVIOUS
<1>0. /\ cursor.last \in Nat /\ \A d \in Drains : drain[d].pos \in Nat
      /\ \A d \in Drains : drain'[d].pos \in Nat
      /\ \A j \in Jobs : run[j].limit \in Nat /\ run'[j].limit \in Nat
  <2>1. TypeOK'
    BY TypeStep
  <2>2. top \in Nat /\ top' \in Nat
    BY <2>1, AccConstants DEF TypeOK
  <2>3. QED
    BY <2>1, <2>2 DEF TypeOK
<1>1. CASE UNCHANGED <<audit, archive, drain, run>> /\ cursor'.last \in {0, cursor.last}
  BY <1>1 DEF PullInv, PulledFirst, Seqs
<1>2. ASSUME NEW d \in Drains,
             BeginDrain(d) \/ ReadAnchor(d) \/ Fetch(d) \/ CommitDrain(d) \/ DrainFails(d)
      PROVE  PullInv'
  <2>1. UNCHANGED <<archive, run>> /\ audit \subseteq audit'
        /\ \A c \in Drains \ {d} : drain'[c] = drain[c]
    BY <1>2, DrainChange
  <2>2. 1..cursor'.last \subseteq audit'
    <3>1. \/ cursor'.last = cursor.last
          \/ /\ drain[d].at = "commit" /\ audit' = audit \cup drain[d].page
             /\ cursor'.last = drain[d].pos
      BY <1>2, DrainChange
    <3>2. QED
      BY <2>1, <3>1 DEF PullInv, Pulling
  <2>3. drain'[d].at \in Pulling => 1..drain'[d].pos \subseteq audit' \cup drain'[d].page
    <3>1. \/ drain'[d].at \notin Pulling
          \/ audit' = audit /\ drain'[d].pos \in {cursor.last, Anchor}
          \/ /\ drain[d].at \in Pulling /\ audit' = audit
             /\ drain[d].page \subseteq drain'[d].page
             /\ drain[d].pos + 1..drain'[d].pos \subseteq drain'[d].page
      BY <1>2, DrainChange DEF Pulling
    <3>2. 1..Anchor \subseteq audit
      BY DEF PullInv, PulledFirst, ArchiveInv
    <3>3. QED
      BY <1>0, <3>1, <3>2 DEF PullInv
  <2>4. QED
    BY <2>1, <2>2, <2>3 DEF PullInv, PulledFirst, Seqs
<1>3. ASSUME NEW j \in Jobs,
             \/ LockRun(j) \/ ReadCursor(j) \/ Count(j) \/ OpenStream(j) \/ PutPart(j)
             \/ RunFails(j)
      PROVE  PullInv'
  <2>1. /\ UNCHANGED <<audit, cursor, drain, archive>>
        /\ \A i \in Jobs \ {j} : run'[i] = run[i]
    BY <1>3, RunChange
  <2>2. \/ run'[j].at \in {"idle", "cursor"}
        \/ run'[j].at = "count" /\ run'[j].limit <= cursor.last
        \/ run[j].at \in {"count", "open", "archive"} /\ run'[j].limit = run[j].limit
    BY <1>3, RunChange
  <2>3. run'[j].at \in {"count", "open", "archive"} => 1..run'[j].limit \subseteq audit
    BY <1>0, <2>2 DEF PullInv
  <2>4. QED
    BY <2>1, <2>3 DEF PullInv, PulledFirst, Seqs
<1>4. ASSUME NEW j \in Jobs, CommitRun(j) PROVE PullInv'
  <2>1. /\ UNCHANGED <<audit, cursor, drain>> /\ archive' = archive \cup run[j].out
        /\ run[j].at = "archive" /\ run' = [run EXCEPT ![j] = NoRun]
    BY <1>4 DEF CommitRun, At
  <2>2. \A i \in Jobs : run'[i].at = "idle" \/ run'[i] = run[i]
    BY <2>1 DEF NoRun, TypeOK
  <2>3. Seqs(run[j].out) \subseteq audit
    BY <2>1 DEF PullInv, ArchiveInv, Seqs
  <2>4. Seqs(archive') \subseteq audit
    BY <2>1, <2>3 DEF PullInv, PulledFirst, Seqs
  <2>5. QED
    BY <2>1, <2>2, <2>4 DEF PullInv, PulledFirst
<1>5. CASE CoreAppend \/ Age \/ (\E s \in DOMAIN core : Tamper(s)) \/ UNCHANGED vars
  BY <1>1, <1>5 DEF CoreAppend, Age, Tamper, vars
<1>6. CASE ResetCursor \/ Acknowledge
  BY <1>1, <1>6 DEF ResetCursor, Acknowledge, TypeOK
<1>7. QED
  BY <1>2, <1>3, <1>4, <1>5, <1>6 DEF Next

\* A committed run moves the anchor to its limit: what it has written is every
\* record from the old anchor to the limit, and all of it has left the table.
LEMMA CommitFacts ==
    ASSUME TypeOK, ArchiveInv, NEW j \in Jobs, CommitRun(j)
    PROVE  /\ Anchor' = run[j].limit /\ run[j].limit > Anchor
           /\ Seqs(archive') = 1..run[j].limit
           /\ \A a \in archive' : a.val = "ok"
           /\ DOMAIN core' = {s \in DOMAIN core : s > run[j].limit}
           /\ \A s \in DOMAIN core' : core'[s] = core[s]
<1> DEFINE n == run[j].limit
           out == run[j].out
<1>0. /\ n \in Nat /\ top \in Nat /\ n \in 0..top /\ Anchor \in Nat
      /\ DOMAIN core \subseteq 1..top
  <2>1. top \in Nat
    BY AccConstants DEF TypeOK
  <2>2. QED
    BY <2>1, AnchorFacts DEF TypeOK
<1>1. /\ run[j].at = "archive" /\ run[j].limit \in Seqs(out) /\ archive' = archive \cup out
      /\ core' = [s \in DOMAIN core \ Upto(n) |-> core[s]]
  BY DEF CommitRun, At
<1>2. n > Anchor /\ Seqs(run[j].left \cup out) \subseteq 1..n /\ Contiguous(out, Anchor)
  BY <1>1 DEF ArchiveInv
<1>3. Seqs(out) \subseteq 1..n
  BY <1>2 DEF Seqs
<1>4. Anchor + 1..n \subseteq Seqs(out) /\ \A s \in Seqs(out) : s > Anchor
  <2> HIDE DEF n, out
  <2>1. \A s \in Seqs(out) : s > Anchor /\ Anchor + 1..s \subseteq Seqs(out)
    BY <1>0, <1>2, <1>3, ContiguousIsInterval
  <2>2. n \in Seqs(out)
    BY <1>1 DEF n
  <2>3. QED
    BY <2>1, <2>2
<1>5. Seqs(archive') = 1..n
  <2>1. Seqs(archive') = Seqs(archive) \cup Seqs(out)
    BY <1>1 DEF Seqs
  <2>2. Seqs(archive) = 1..Anchor
    BY DEF ArchiveInv
  <2> HIDE DEF n, out
  <2>3. QED
    BY <1>0, <1>2, <1>3, <1>4, <2>1, <2>2
<1>6. Anchor' = n
  <2> DEFINE T == Seqs(archive') \cup {0}
  <2>1. T = 0..n
    <3> HIDE DEF n
    <3>1. QED
      BY <1>0, <1>5
  <2>2. T \in SUBSET (0..top) /\ T # {}
    BY <1>0, <2>1
  <2>3. Max(T) \in T /\ \A y \in T : y <= Max(T)
    <3> HIDE DEF T
    <3>1. QED
      BY <2>2, MaxInTable
  <2>4. Max(T) = n
    <3> HIDE DEF n
    <3>1. QED
      BY <1>0, <2>1, <2>3
  <2>5. Anchor' = Max(T)
    BY DEF Anchor, Seqs
  <2>6. QED
    BY <2>4, <2>5
<1>7. \A a \in archive' : a.val = "ok"
  BY <1>1, <1>2 DEF ArchiveInv, Contiguous
<1>8. /\ DOMAIN core' = {s \in DOMAIN core : s > n}
      /\ \A s \in DOMAIN core' : core'[s] = core[s]
  <2>1. DOMAIN core' = DOMAIN core \ Upto(n) /\ \A s \in DOMAIN core' : core'[s] = core[s]
    BY <1>1
  <2> HIDE DEF n
  <2>2. DOMAIN core \ Upto(n) = {s \in DOMAIN core : s > n}
    BY <1>0 DEF Upto
  <2>3. QED
    BY <2>1, <2>2
<1>9. QED
  BY <1>2, <1>5, <1>6, <1>7, <1>8

\* Steps that leave the archive alone leave the anchor where it is.
LEMMA AnchorStays == archive' = archive => Anchor' = Anchor
BY DEF Anchor, Seqs

\* The catalogued parts stay the chain's prefix, which is no longer in the
\* table, and what a run has written stays the continuation of it: a run that
\* would add anything else is refused, and a second run waits for the lock.
LEMMA ArchiveStep == TypeOK /\ ArchiveInv /\ [Next]_vars => ArchiveInv'
<1> SUFFICES ASSUME TypeOK, ArchiveInv, [Next]_vars PROVE ArchiveInv'
  OBVIOUS
<1>0. /\ top \in Nat /\ Anchor \in 0..top /\ DOMAIN core \subseteq 1..top
  BY AccConstants, AnchorFacts DEF TypeOK
<1>1. CASE UNCHANGED <<archive, run>> /\ (DOMAIN core') \subseteq DOMAIN core \cup {top + 1}
  <2>1. Anchor' = Anchor
    BY <1>1, AnchorStays
  <2>2. Upto(Anchor)' = {}
    BY <1>0, <1>1, <2>1 DEF Upto, ArchiveInv
  <2>3. QED
    BY <1>1, <2>1, <2>2 DEF ArchiveInv, Contiguous, Seqs
<1>2. ASSUME NEW j \in Jobs,
             \/ LockRun(j) \/ ReadCursor(j) \/ Count(j) \/ OpenStream(j) \/ PutPart(j)
             \/ RunFails(j)
      PROVE  ArchiveInv'
  <2>1. /\ archive' = archive /\ core' = core
        /\ \A i \in Jobs \ {j} : run'[i] = run[i]
        /\ run'[j].at # "archive" => run'[j].out = {}
    BY <1>2, RunChange DEF coreVars
  <2>2. Anchor' = Anchor /\ Upto(Anchor)' = Upto(Anchor)
    BY <2>1, AnchorStays DEF Upto
  <2>3. \/ run'[j].at \in {"idle", "cursor", "count"}
        \/ run'[j].at = "open" /\ run'[j].limit > Anchor
        \/ /\ run[j].at = "open" /\ run'[j].at = "archive"
           /\ run'[j].limit = run[j].limit /\ run'[j].out = run[j].out
           /\ Seqs(run'[j].left) \subseteq 1..run[j].limit
        \/ /\ run[j].at = "archive" /\ run'[j].at = "archive"
           /\ run'[j].limit = run[j].limit
           /\ run'[j].left \cup run'[j].out = run[j].left \cup run[j].out
           /\ Contiguous(run'[j].out, Anchor)
    BY <1>2, RunChange
  <2>4. run'[j].at \in {"open", "archive"} => run'[j].limit > Anchor
    BY <2>3 DEF ArchiveInv
  <2>5. ASSUME run'[j].at = "archive"
        PROVE  /\ Seqs(run'[j].left \cup run'[j].out) \subseteq 1..run'[j].limit
               /\ Contiguous(run'[j].out, Anchor)
    <3>1. CASE run[j].at = "archive"
      BY <2>3, <2>5, <3>1 DEF ArchiveInv
    <3>2. CASE run[j].at # "archive"
      <4>1. run[j].out = {} /\ run'[j].out = {} /\ run'[j].limit = run[j].limit
            /\ Seqs(run'[j].left) \subseteq 1..run[j].limit
        BY <2>3, <2>5, <3>2 DEF ArchiveInv
      <4>2. QED
        BY <4>1 DEF Contiguous, Seqs
    <3>3. QED
      BY <3>1, <3>2
  <2>6. Seqs(archive') = 1..Anchor' /\ (\A a \in archive' : a.val = "ok") /\ Upto(Anchor)' = {}
    BY <2>1, <2>2 DEF ArchiveInv
  <2>7. \A i \in Jobs : run'[i].at \in {"open", "archive"} => run'[i].limit > Anchor'
    BY <2>1, <2>2, <2>4 DEF ArchiveInv
  <2>8. \A i \in Jobs : run'[i].at = "archive" =>
          /\ Seqs(run'[i].left \cup run'[i].out) \subseteq 1..run'[i].limit
          /\ Contiguous(run'[i].out, Anchor')
    BY <2>1, <2>2, <2>5 DEF ArchiveInv
  <2>9. \A i \in Jobs : run'[i].at # "archive" => run'[i].out = {}
    BY <2>1 DEF ArchiveInv
  <2>10. QED
    BY <2>6, <2>7, <2>8, <2>9 DEF ArchiveInv, Contiguous, Seqs
<1>3. ASSUME NEW j \in Jobs, CommitRun(j) PROVE ArchiveInv'
  <2>1. run' = [run EXCEPT ![j] = NoRun] /\ lock = j
    BY <1>3 DEF CommitRun, At, TypeOK
  <2>2. \A i \in Jobs : run'[i].at = "idle" /\ run'[i].out = {}
    BY <2>1 DEF TypeOK, NoRun, ArchiveInv
  <2>3. Seqs(archive') = 1..Anchor' /\ \A a \in archive' : a.val = "ok"
    BY <1>3, CommitFacts
  <2>4. Upto(Anchor)' = {}
    <3>1. /\ Anchor' = run[j].limit
          /\ DOMAIN core' = {s \in DOMAIN core : s > run[j].limit}
      BY <1>3, CommitFacts
    <3>2. run[j].limit \in Nat
      BY <1>0 DEF TypeOK
    <3>3. QED
      BY <1>0, <3>1, <3>2 DEF Upto
  <2>5. QED
    BY <2>2, <2>3, <2>4 DEF ArchiveInv, Seqs
<1>4. CASE CoreAppend
  BY <1>1, <1>4 DEF CoreAppend
<1>5. ASSUME NEW s \in DOMAIN core, Tamper(s) PROVE ArchiveInv'
  <2>1. UNCHANGED <<archive, run>>
    BY <1>5 DEF Tamper
  <2>2. (DOMAIN core') \subseteq DOMAIN core
    <3>1. CASE core' = [core EXCEPT ![s] = "altered"]
      BY <3>1
    <3>2. CASE core' = [q \in DOMAIN core \ {s} |-> core[q]]
      BY <3>2
    <3>3. QED
      BY <1>5, <3>1, <3>2 DEF Tamper
  <2>3. QED
    BY <1>1, <2>1, <2>2
<1>6. CASE Age \/ ResetCursor \/ Acknowledge \/ UNCHANGED vars
  BY <1>1, <1>6 DEF Age, ResetCursor, Acknowledge, coreVars, vars
<1>7. ASSUME NEW d \in Drains,
             BeginDrain(d) \/ ReadAnchor(d) \/ Fetch(d) \/ CommitDrain(d) \/ DrainFails(d)
      PROVE  ArchiveInv'
  BY <1>1, <1>7, DrainChange DEF coreVars
<1>8. QED
  BY <1>2, <1>3, <1>4, <1>5, <1>6, <1>7 DEF Next

\* A page of an untouched table, read from the anchor or later, verifies.
LEMMA PageVerifies ==
    ASSUME TypeOK, DOMAIN core = Anchor + 1..top, \A s \in DOMAIN core : core[s] = "ok",
           NEW n \in Nat, n >= Anchor
    PROVE  Contiguous(Stored(First({s \in DOMAIN core : s > n}, PageSize)), n)
<1> DEFINE all == {s \in DOMAIN core : s > n}
           page == First(all, PageSize)
<1>0. /\ top \in Nat /\ Anchor \in Nat /\ PageSize \in Nat
      /\ IsFiniteSet(all) /\ page \subseteq all
  <2>1. top \in Nat /\ Anchor \in Nat /\ PageSize \in Nat /\ DOMAIN core \subseteq 1..top
    BY AccConstants, AnchorFacts DEF TypeOK
  <2>2. IsFiniteSet(1..top)
    BY <2>1, FS_Interval
  <2>3. all \subseteq 1..top
    BY <2>1
  <2>4. IsFiniteSet(all)
    <3> HIDE DEF all
    <3>1. QED
      BY <2>2, <2>3, FS_Subset
  <2>5. QED
    BY <2>1, <2>4 DEF First
<1>1. Seqs(Stored(page)) = page
  <2>1. page \in SUBSET DOMAIN core
    BY <1>0
  <2> HIDE DEF page
  <2>2. QED
    BY <2>1, StoredType
<1>2. ASSUME NEW s \in page PROVE s = n + 1 \/ s - 1 \in page
  <2>1. s \in all /\ Cardinality({q \in all : q < s}) < PageSize
    BY DEF First
  <2>2. CASE s # n + 1
    <3>1. s - 1 \in all /\ s \in Nat
      BY <1>0, <2>1, <2>2
    <3> DEFINE A == {q \in all : q < s - 1}
               B == {q \in all : q < s}
    <3>2. all \in SUBSET Nat
      BY <1>0
    <3>3. A \subseteq B /\ B \subseteq all
      BY <3>1, <3>2
    <3>4. IsFiniteSet(B) /\ IsFiniteSet(A) /\ Cardinality(A) <= Cardinality(B)
      <4> HIDE DEF A, B, all
      <4>1. IsFiniteSet(B)
        BY <1>0, <3>3, FS_Subset
      <4>2. QED
        BY <3>3, <4>1, FS_Subset
    <3>5. Cardinality(A) \in Nat /\ Cardinality(B) \in Nat
      <4> HIDE DEF A, B
      <4>1. QED
        BY <3>4, FS_CardinalityType
    <3>6. Cardinality(A) < PageSize
      <4> HIDE DEF A
      <4>1. QED
        BY <1>0, <2>1, <3>4, <3>5
    <3>7. QED
      BY <3>1, <3>6 DEF First
  <2>3. QED
    BY <2>2
<1>3. ASSUME NEW a \in Stored(page)
      PROVE  a.val = "ok" /\ (a.seq = n + 1 \/ a.seq - 1 \in Seqs(Stored(page)))
  <2>1. PICK s \in page : a = [seq |-> s, val |-> core[s]]
    BY DEF Stored
  <2>2. s \in DOMAIN core
    BY <1>0
  <2>3. a.val = "ok" /\ a.seq = s
    BY <2>1, <2>2
  <2> HIDE DEF page
  <2>4. QED
    BY <1>1, <1>2, <2>3
<1> HIDE DEF page
<1>4. QED
  BY <1>3 DEF Contiguous, page

\* An untouched table stays the continuation of the archive, and a drain that
\* was not overtaken finds no break in it: it does not halt the chain.
LEMMA TableStep ==
    TypeOK /\ ArchiveInv /\ TableInv /\ NoFalseHalt /\ [Next]_vars => TableInv' /\ NoFalseHalt'
<1> SUFFICES ASSUME TypeOK, ArchiveInv, TableInv, NoFalseHalt, [Next]_vars
             PROVE  TableInv' /\ NoFalseHalt'
  OBVIOUS
<1>0. /\ top \in Nat /\ Anchor \in 0..top /\ DOMAIN core \subseteq 1..top
      /\ cursor.last \in Nat /\ \A d \in Drains : drain[d].pos \in Nat
      /\ \A d \in Drains : drain'[d].pos \in Nat
      /\ tampers \in Nat /\ overtaken \in BOOLEAN
  <2>1. TypeOK' /\ top \in Nat
    BY TypeStep, AccConstants DEF TypeOK
  <2>2. top' \in Nat
    BY <2>1, AccConstants DEF TypeOK
  <2>3. QED
    BY <2>1, <2>2, AnchorFacts DEF TypeOK, CountsOK
<1>1. CASE UNCHANGED <<core, top, archive, drain, tampers, overtaken>> /\ cursor'.last \in {0, cursor.last}
           /\ (cursor'.halt => cursor.halt)
  <2>1. Anchor' = Anchor
    BY <1>1, AnchorStays
  <2>2. QED
    BY <1>0, <1>1, <2>1 DEF TableInv, NoFalseHalt
<1>2. CASE CoreAppend
  <2>1. /\ UNCHANGED <<archive, cursor, drain, tampers, overtaken>> /\ top' = top + 1
        /\ core' = [s \in DOMAIN core \cup {top + 1} |-> IF s = top + 1 THEN "ok" ELSE core[s]]
    BY <1>2 DEF CoreAppend
  <2>2. Anchor' = Anchor
    BY <2>1, AnchorStays
  <2>3. ASSUME tampers = 0
        PROVE  DOMAIN core' = Anchor + 1..top + 1 /\ \A s \in DOMAIN core' : core'[s] = "ok"
    <3>1. DOMAIN core = Anchor + 1..top /\ \A s \in DOMAIN core : core[s] = "ok"
      BY <2>3 DEF TableInv
    <3>2. QED
      BY <1>0, <2>1, <3>1
  <2>4. QED
    BY <2>1, <2>2, <2>3 DEF TableInv, NoFalseHalt
<1>3. ASSUME NEW s \in DOMAIN core, Tamper(s) PROVE TableInv' /\ NoFalseHalt'
  <2>1. tampers' = tampers + 1
    BY <1>3 DEF Tamper
  <2>2. tampers' # 0 /\ tampers' > 0
    BY <1>0, <2>1
  <2>3. QED
    BY <2>2 DEF TableInv, NoFalseHalt
<1>4. ASSUME NEW d \in Drains,
             BeginDrain(d) \/ ReadAnchor(d) \/ Fetch(d) \/ CommitDrain(d) \/ DrainFails(d)
      PROVE  TableInv' /\ NoFalseHalt'
  <2>1. /\ UNCHANGED <<core, top, archive, tampers, overtaken>>
        /\ \A c \in Drains \ {d} : drain'[c] = drain[c]
    BY <1>4, DrainChange DEF coreVars
  <2>2. Anchor' = Anchor
    BY <2>1, AnchorStays
  <2>3. ASSUME tampers = 0, ~overtaken PROVE cursor'.last \notin 1..(Anchor - 1)
    <3>1. \/ cursor'.last = cursor.last
          \/ drain[d].at = "commit" /\ cursor'.last = drain[d].pos
      BY <1>4, DrainChange
    <3>2. QED
      BY <1>0, <2>3, <3>1 DEF TableInv, Pulling
  <2>4. ASSUME tampers = 0, ~overtaken, drain'[d].at \in Pulling PROVE drain'[d].pos >= Anchor
    <3>1. \/ drain'[d].pos = cursor.last /\ cursor.last # 0
          \/ drain'[d].pos = Anchor
          \/ drain[d].at = "fetch" /\ drain'[d].pos >= drain[d].pos
      BY <1>4, <2>4, DrainChange DEF Pulling
    <3>2. QED
      BY <1>0, <2>4, <3>1 DEF TableInv, Pulling
  <2>5. NoFalseHalt'
    <3>1. CASE cursor'.halt = cursor.halt
      BY <2>1, <3>1 DEF NoFalseHalt
    <3>2. CASE Fetch(d) /\ tampers = 0 /\ ~overtaken
      <4>1. drain[d].at = "fetch"
        BY <3>2 DEF Fetch
      <4>2. /\ drain[d].pos >= Anchor /\ DOMAIN core = Anchor + 1..top
            /\ \A s \in DOMAIN core : core[s] = "ok"
        BY <3>2, <4>1 DEF TableInv, Pulling
      <4>3. Contiguous(Stored(First({s \in DOMAIN core : s > drain[d].pos}, PageSize)), drain[d].pos)
        BY <1>0, <4>2, PageVerifies
      <4>4. cursor' = cursor
        BY <3>2, <4>3 DEF Fetch
      <4>5. QED
        BY <3>1, <4>4
    <3>3. CASE tampers # 0 \/ overtaken
      BY <1>0, <2>1, <3>3 DEF NoFalseHalt
    <3>4. cursor'.halt = cursor.halt \/ Fetch(d)
      BY <1>4, DrainChange
    <3>5. QED
      BY <3>1, <3>2, <3>3, <3>4
  <2>6. QED
    BY <2>1, <2>2, <2>3, <2>4, <2>5 DEF TableInv
<1>5. ASSUME NEW j \in Jobs,
             \/ LockRun(j) \/ ReadCursor(j) \/ Count(j) \/ OpenStream(j) \/ PutPart(j)
             \/ RunFails(j)
      PROVE  TableInv' /\ NoFalseHalt'
  BY <1>1, <1>5, RunChange DEF coreVars
<1>6. ASSUME NEW j \in Jobs, CommitRun(j) PROVE TableInv' /\ NoFalseHalt'
  <2>1. /\ UNCHANGED <<top, tampers, cursor, drain>>
        /\ overtaken' = (overtaken \/ Behind(run[j].limit))
    BY <1>6 DEF CommitRun
  <2>2. /\ Anchor' = run[j].limit /\ run[j].limit > Anchor
        /\ DOMAIN core' = {s \in DOMAIN core : s > run[j].limit}
        /\ \A s \in DOMAIN core' : core'[s] = core[s]
    BY <1>6, CommitFacts
  <2>3. run[j].limit \in Nat
    BY <1>0 DEF TypeOK
  <2>4. ASSUME tampers = 0
        PROVE  DOMAIN core' = run[j].limit + 1..top /\ \A s \in DOMAIN core' : core'[s] = "ok"
    <3>1. DOMAIN core = Anchor + 1..top /\ \A s \in DOMAIN core : core[s] = "ok"
      BY <2>4 DEF TableInv
    <3>2. QED
      BY <1>0, <2>2, <2>3, <3>1
  <2>5. ASSUME ~overtaken'
        PROVE  /\ cursor.last \notin 1..(run[j].limit - 1)
               /\ \A d \in Drains : drain[d].at \in Pulling => drain[d].pos >= run[j].limit
               /\ ~overtaken
    <3>1. ~Behind(run[j].limit)
      BY <2>1, <2>5, Zenon
    <3>2. ~overtaken
      BY <2>1, <2>5, Zenon
    <3>3. QED
      BY <1>0, <2>3, <3>1, <3>2 DEF Behind, Pulling
  <2>6. QED
    BY <2>1, <2>2, <2>4, <2>5 DEF TableInv, NoFalseHalt
<1>7. CASE Age \/ UNCHANGED vars
  BY <1>1, <1>7 DEF Age, vars
<1>8. CASE ResetCursor \/ Acknowledge
  BY <1>1, <1>8 DEF ResetCursor, Acknowledge, coreVars, TypeOK
<1>9. QED
  BY <1>2, <1>3, <1>4, <1>5, <1>6, <1>7, <1>8 DEF Next

-----------------------------------------------------------------------------
\* Nothing is archived, pulled or running at the start.
LEMMA AccInit == Init => AccInv
<1> SUFFICES ASSUME Init PROVE AccInv
  OBVIOUS
<1>1. /\ core = [s \in {} |-> "ok"] /\ top = 0 /\ archive = {} /\ cursor.last = 0
      /\ \A d \in Drains : drain[d].at = "idle"
      /\ \A j \in Jobs : run[j].at = "idle" /\ run[j].out = {}
  BY DEF Init, NoDrain, NoRun
<1>2. Seqs(archive) = {} /\ Anchor = 0
  <2>1. Seqs(archive) = {}
    BY <1>1 DEF Seqs
  <2>2. Anchor \in Seqs(archive) \cup {0}
    BY TypeInit, AnchorFacts
  <2>3. QED
    BY <2>1, <2>2
<1>3. PullInv
  BY <1>1, <1>2 DEF PullInv, PulledFirst, Pulling
<1>4. ArchiveInv
  BY <1>1, <1>2 DEF ArchiveInv, Upto
<1>5. TableInv
  BY <1>1, <1>2 DEF TableInv, Pulling
<1>6. NoFalseHalt
  BY Zenon DEF Init, NoFalseHalt
<1>7. QED
  BY <1>3, <1>4, <1>5, <1>6 DEF AccInv

\* The inductive invariant: the cursor, the drains and the runs never stand
\* past what was copied, the archive is the chain's prefix and the table the
\* rest of it.
THEOREM AccInvariant == Spec => [](TypeOK /\ AccInv)
<1>1. Init => TypeOK /\ AccInv
  BY TypeInit, AccInit
<1>2. TypeOK /\ AccInv /\ [Next]_vars => (TypeOK /\ AccInv)'
  BY TypeStep, PullStep, ArchiveStep, TableStep DEF AccInv
<1>3. QED
  BY <1>1, <1>2, PTL DEF Spec

\* A record leaves the core's table only after it was committed to the audit
\* log, although run_scope reads the cursor in a statement of its own and the
\* cursor may be reset, halted or moved back before the run deletes.
THEOREM PulledFirstHolds == Spec => []PulledFirst
<1>1. TypeOK /\ AccInv => PulledFirst
  BY DEF AccInv, PullInv
<1>2. QED
  BY <1>1, AccInvariant, PTL

\* Both of verify_acc_archive's walks pass on what the invariant describes.
LEMMA WalksPass ==
    ASSUME TypeOK, ArchiveInv, TableInv
    PROVE  ArchiveSound
<1>0. Anchor \in Nat /\ top \in Nat
  BY AnchorFacts, AccConstants DEF TypeOK
<1>1. VerifyArchive
  <2>1. ASSUME NEW a \in archive
        PROVE  a.val = "ok" /\ (a.seq = 0 + 1 \/ a.seq - 1 \in Seqs(archive))
    <3>1. a.seq \in 1..Anchor /\ a.val = "ok"
      BY DEF ArchiveInv, Seqs
    <3>2. Seqs(archive) = 1..Anchor
      BY DEF ArchiveInv
    <3>3. QED
      BY <1>0, <3>1, <3>2
  <2>2. QED
    BY <2>1 DEF VerifyArchive, Contiguous
<1>2. ASSUME tampers = 0 PROVE VerifyTable
  <2>1. DOMAIN core = Anchor + 1..top /\ \A s \in DOMAIN core : core[s] = "ok"
    BY <1>2 DEF TableInv
  <2>2. Seqs(Stored(DOMAIN core)) = DOMAIN core
    BY StoredType
  <2>3. ASSUME NEW a \in Stored(DOMAIN core)
        PROVE  /\ a.val = "ok"
               /\ a.seq = Anchor + 1 \/ a.seq - 1 \in Seqs(Stored(DOMAIN core))
    <3>1. PICK s \in DOMAIN core : a = [seq |-> s, val |-> core[s]]
      BY DEF Stored
    <3>2. a.seq = s /\ a.val = "ok"
      BY <2>1, <3>1
    <3>3. QED
      BY <1>0, <2>1, <2>2, <3>2
  <2>4. QED
    BY <2>3 DEF VerifyTable, Contiguous
<1>3. Upto(Anchor) = {}
  BY DEF ArchiveInv
<1>4. QED
  BY <1>1, <1>2, <1>3 DEF ArchiveSound

\* The archive is the chain's prefix, without a gap or an altered record, none
\* of it is still in the table, and an untouched table goes on where it ends:
\* verify_acc_archive's walks pass, however runs overlap, fail or are refused.
THEOREM ArchiveSoundHolds == Spec => []ArchiveSound
<1>1. TypeOK /\ AccInv => ArchiveSound
  BY WalksPass DEF AccInv
<1>2. QED
  BY <1>1, AccInvariant, PTL

\* Deleting the archived prefix raises no integrity alarm: without tampering a
\* drain halts the chain only after a run has overtaken it or the cursor.
THEOREM NoFalseHaltHolds == Spec => []NoFalseHalt
<1>1. TypeOK /\ AccInv => NoFalseHalt
  BY DEF AccInv
<1>2. QED
  BY <1>1, AccInvariant, PTL
=============================================================================
