------------------------------ MODULE Retention ------------------------------
(***************************************************************************)
(* retention.py and catalog.py against running writers: a run copies the   *)
(* aged prefix of a chain into the archive, catalogues it and drops the    *)
(* partitions, in one transaction, while writers append to the same table. *)
(* archive_cli.py's read-back is the operator VerifyArchive.               *)
(*                                                                         *)
(* A retention connection is one of Writers (it holds the same locks) that *)
(* never calls write_batch.  A day is its month's number.  The sha256 of   *)
(* an object is the object.  Rows come in seq order from every SELECT, so  *)
(* a part is the set of its rows.                                          *)
(***************************************************************************)
EXTENDS AuditWriter, FiniteSetsExt

CONSTANTS
    Jobs,             \* the connections that run retention
    Damaged,          \* what a store may hold in the place of an object
    RetentionMonths,  \* FILEENGINE_AUDIT_RETENTION_MONTHS
    FirstMonth,       \* the month in which the model starts
    PartRows,         \* AUDIT_ARCHIVE_PART_ROWS
    MaxMonth, MaxRuns \* bounds: the last month, and the runs that are started

ASSUME RetentionConstants ==
    /\ Jobs \subseteq Writers
    /\ IsFiniteSet(InitialParts)
    /\ RetentionMonths \in Nat \ {0}
    /\ PartRows \in Nat \ {0}
    /\ FirstMonth \in Int /\ MaxMonth \in Int /\ MaxRuns \in Nat

VARIABLES
    today,    \* the month of the run's date
    run,      \* [Jobs -> the run that the job is in]
    runs,     \* runs started: a run's number stands for its run_id
    store,    \* the object store: [<<table, run, n>> -> object], manifest at n = 0
    catalog,  \* [Tables -> the segments recorded and committed]
    unlocked  \* history: tables that lost a partition which its run had not locked

rvars == <<today, run, runs, store, catalog, unlocked>>
allVars == <<vars, rvars>>

WriterJobs == Writers \ Jobs

\* cutoff_for: everything before the first day of month(today) - months is aged.
CutoffFor(m) == m - RetentionMonths

RowPart(t, r) == <<t, DayOf[r.ev]>>
RowsIn(t, P) == {r \in table[t] : RowPart(t, r) \in P}
Seqs(S) == {r.seq : r \in S}

\* list_partitions, and run_scope's filter.
AgedParts(t, cutoff) == {p \in parts : p[1] = t /\ p[2] < cutoff}

\* _stats: a partition and the seq numbers it holds at this moment.
PartStat(t, p) == [part |-> p, seqs |-> Seqs(RowsIn(t, {p}))]

NoRun == [at |-> "idle", id |-> 0, t |-> CHOOSE t \in Tables : TRUE, cutoff |-> 0,
          todo |-> {}, listed |-> {}, aged |-> {}, drop |-> {}, left |-> {}, out |-> <<>>]

\* Mutant: everything that is aged goes.
SelectAll(aged, kept) == {s.part : s \in aged}

\* Mutant: no kept row is taken for the bound 0 (kept_min or 0).
SelectNoneForZero(aged, kept) ==
    LET bound == IF kept = {} THEN 0 ELSE Min(kept)
    IN  {s.part : s \in {a \in aged : a.seqs = {} \/ Max(a.seqs) <= bound}}

\* select_droppable: hold back, until nothing changes, what reaches past the
\* first seq that stays; kept are the seqs outside the aged partitions.
SelectDroppable(aged, kept) ==
    LET rounds == Cardinality(aged)
        Stays(held) == kept \cup UNION {s.seqs : s \in held}
        Newly(held) == {s \in aged \ held :
                          s.seqs # {} /\ Stays(held) # {} /\ Max(s.seqs) > Min(Stays(held))}
        held[n \in 0..rounds] == IF n = 0 THEN {} ELSE held[n-1] \cup Newly(held[n-1])
    IN  {s.part : s \in aged \ held[rounds]}

\* stream.fetchmany: the next PartRows rows in seq order.
NextPart(left) ==
    {r \in left : Cardinality({q \in left : q.seq < r.seq}) < PartRows}

-----------------------------------------------------------------------------
RetentionInit ==
    /\ Init
    /\ today = FirstMonth
    /\ run = [j \in Jobs |-> NoRun]
    /\ runs = 0
    /\ store = <<>>
    /\ catalog = [t \in Tables |-> {}]
    /\ unlocked = {}

\* What the writers' actions leave alone, and what a run leaves alone.
WriterStep == UNCHANGED rvars
RunLeaves == UNCHANGED <<nextseq, clock, tx, call, today, unlocked>>

ArchivedEvents(t) == {r.ev : r \in UNION {UNION Range(s.parts) : s \in catalog[t]}}

\* Nothing is re-delivered after its row was archived, two months later.
RetCall(w, b) ==
    /\ Call(w, b)
    /\ \A e \in EventsIn(b) : e \notin ArchivedEvents(TableOf(e))
    /\ WriterStep

\* An insert whose partition has been dropped fails: only Abort is left then.
RetInsert(w) ==
    /\ InsertRow(w)
    /\ PartOf(Head(batch[w])) \in parts \cup made[w]
    /\ WriterStep

\* The month ends.
NextMonth ==
    /\ today < MaxMonth
    /\ today' = today + 1
    /\ UNCHANGED <<vars, run, runs, store, catalog, unlocked>>

ReleaseLocks(j) ==
    /\ plock' = [p \in Partitions |-> IF plock[p] = j THEN NoOwner ELSE plock[p]]
    /\ xlock' = [t \in Tables |-> IF xlock[t] = j THEN NoOwner ELSE xlock[t]]
    /\ slock' = [t \in Tables |-> slock[t] \ {j}]
    /\ run' = [run EXCEPT ![j] = NoRun]

\* The transaction is rolled back: nothing to do, a dry run, or a failure.
EndRun(j) ==
    /\ ReleaseLocks(j)
    /\ UNCHANGED <<table, anchor, parts, catalog>>

\* run_scope: a new run_id; the aged partitions are listed (none: it is over).
BeginRun(j, t) ==
    LET cutoff == CutoffFor(today) IN
    /\ run[j].at = "idle" /\ runs < MaxRuns
    /\ AgedParts(t, cutoff) # {}
    /\ runs' = runs + 1
    /\ run' = [run EXCEPT ![j] = [NoRun EXCEPT !.at = "locking", !.id = runs + 1, !.t = t,
                                     !.cutoff = cutoff, !.todo = AgedParts(t, cutoff),
                                     !.listed = AgedParts(t, cutoff)]]
    /\ UNCHANGED <<table, anchor, parts, plock, xlock, slock, store, catalog>> /\ RunLeaves

\* Mutant: the run takes no partition lock.
LockAgedNot(j) ==
    /\ run[j].at = "locking" /\ run[j].todo # {}
    /\ run' = [run EXCEPT ![j].todo = {}]
    /\ UNCHANGED <<table, anchor, parts, plock, xlock, slock, runs, store, catalog>> /\ RunLeaves

\* The writer's advisory locks, in the writer's order.
LockAged(j) ==
    /\ run[j].at = "locking"
    /\ \E p \in run[j].todo :
          /\ FirstPart(p, run[j].todo)
          /\ plock[p] \in {NoOwner, j}
          /\ plock' = [plock EXCEPT ![p] = j]
          /\ run' = [run EXCEPT ![j].todo = @ \ {p}]
    /\ UNCHANGED <<table, anchor, parts, xlock, slock, runs, store, catalog>> /\ RunLeaves

\* The partitions are listed again under the locks, and their seqs read: one
\* that was created since the first listing is aged too, and not locked.
Relist(j) ==
    LET aged == AgedParts(run[j].t, run[j].cutoff) IN
    /\ run[j].at = "locking" /\ run[j].todo = {}
    /\ run' = [run EXCEPT ![j].at = "listed",
                          ![j].aged = {PartStat(run[j].t, p) : p \in aged}]
    /\ UNCHANGED <<table, anchor, parts, plock, xlock, slock, runs, store, catalog>> /\ RunLeaves

\* SELECT min(seq) of what is not aged, and the choice of what goes.
Select(j) ==
    LET t == run[j].t
        kept == Seqs({r \in table[t] : DayOf[r.ev] >= run[j].cutoff})
        drop == SelectDroppable(run[j].aged, kept)
        rows == \E s \in run[j].aged : s.part \in drop /\ s.seqs # {} IN
    /\ run[j].at = "listed"
    /\ xlock[t] \in {NoOwner, j}
    /\ drop # {}
    /\ slock' = [slock EXCEPT ![t] = @ \cup {j}]
    /\ run' = [run EXCEPT ![j].drop = drop, ![j].at = IF rows THEN "open" ELSE "drop"]
    /\ UNCHANGED <<table, anchor, parts, plock, xlock, runs, store, catalog>> /\ RunLeaves

\* _archive_segment opens its stream: the rows are those of this moment.
OpenStream(j) ==
    LET withRows == {s.part : s \in {a \in run[j].aged : a.seqs # {}}} IN
    /\ run[j].at = "open"
    /\ run' = [run EXCEPT ![j].left = RowsIn(run[j].t, run[j].drop \cap withRows),
                          ![j].at = "archive"]
    /\ UNCHANGED <<table, anchor, parts, plock, xlock, slock, runs, store, catalog>> /\ RunLeaves

Put(j, n, object) ==
    LET name == <<run[j].t, run[j].id, n>> IN
    store' = [o \in DOMAIN store \cup {name} |-> IF o = name THEN object ELSE store[o]]

\* Mutant: an object is not read back.
ReadBackSkipped(object, body) == TRUE

\* _put_verified reads the object back and compares it.
ReadBack(object, body) == object = body

\* One part: the next rows are written and read back; a mismatch ends the run.
PutPart(j) ==
    LET body == NextPart(run[j].left) IN
    /\ run[j].at = "archive" /\ run[j].left # {}
    /\ \E object \in {body, Damaged} :
          /\ Put(j, Len(run[j].out) + 1, object)
          /\ IF ReadBack(object, body)
             THEN /\ run' = [run EXCEPT ![j].left = @ \ body, ![j].out = Append(@, body)]
                  /\ UNCHANGED <<table, anchor, parts, plock, xlock, slock, catalog>>
             ELSE EndRun(j)
    /\ UNCHANGED runs /\ RunLeaves

\* The manifest, which lists the parts; then the drops can begin.
PutManifest(j) ==
    /\ run[j].at = "archive" /\ run[j].left = {}
    /\ \E object \in {run[j].out, Damaged} :
          /\ Put(j, 0, object)
          /\ IF ReadBack(object, run[j].out)
             THEN /\ run' = [run EXCEPT ![j].at = "drop"]
                  /\ UNCHANGED <<table, anchor, parts, plock, xlock, slock, catalog>>
             ELSE EndRun(j)
    /\ UNCHANGED runs /\ RunLeaves

\* DROP TABLE waits until nobody else has the parent open.
DropPartitions(j) ==
    LET t == run[j].t IN
    /\ run[j].at = "drop"
    /\ xlock[t] \in {NoOwner, j} /\ slock[t] \subseteq {j}
    /\ xlock' = [xlock EXCEPT ![t] = j]
    /\ run' = [run EXCEPT ![j].at = "commit"]
    /\ UNCHANGED <<table, anchor, parts, plock, slock, runs, store, catalog>> /\ RunLeaves

\* Mutant: a run that only drops empty partitions records a segment too.
RecordAlways(j, segs) == segs \cup {[id |-> run[j].id, parts |-> run[j].out]}

\* record_segment, when there were rows to archive.
RecordSegment(j, segs) ==
    IF run[j].out = <<>> THEN segs
    ELSE segs \cup {[id |-> run[j].id, parts |-> run[j].out]}

SegmentRows(s) == UNION Range(s.parts)

\* catalog.anchor: the last row hash of the segment with the greatest last_seq.
AnchorOf(segs, a) == TailHash(UNION {SegmentRows(s) : s \in segs}, a)

\* Segment, anchor and drops become visible together.
CommitRun(j) ==
    LET t == run[j].t
        segs == RecordSegment(j, catalog[t]) IN
    /\ run[j].at = "commit"
    /\ table' = [table EXCEPT ![t] = @ \ RowsIn(t, run[j].drop)]
    /\ parts' = parts \ run[j].drop
    /\ catalog' = [catalog EXCEPT ![t] = segs]
    /\ anchor' = [anchor EXCEPT ![t] = AnchorOf(segs, @)]
    /\ unlocked' = IF run[j].drop \subseteq run[j].listed THEN unlocked ELSE unlocked \cup {t}
    /\ ReleaseLocks(j)
    /\ UNCHANGED <<runs, store, nextseq, clock, tx, call, today>>

\* Nothing may go, or this was a dry run; the store fails, a statement or a
\* lock wait times out, or the process dies.
RunEnds(j) ==
    /\ run[j].at # "idle"
    /\ EndRun(j)
    /\ UNCHANGED <<runs, store>> /\ RunLeaves

CallNext(w) ==
    \/ LockPartition(w) /\ WriterStep
    \/ FindPartition(w) /\ WriterStep
    \/ CreatePartition(w) /\ WriterStep
    \/ LockChain(w) /\ WriterStep
    \/ SeedHead(w) /\ WriterStep
    \/ RetInsert(w)
    \/ Commit(w) /\ WriterStep
    \/ Abort(w) /\ WriterStep

WriterNext(w) == (\E b \in Batches : RetCall(w, b)) \/ CallNext(w)

RunNext(j) ==
    \/ \E t \in Tables : BeginRun(j, t)
    \/ LockAged(j)
    \/ Relist(j)
    \/ Select(j)
    \/ OpenStream(j)
    \/ PutPart(j)
    \/ PutManifest(j)
    \/ DropPartitions(j)
    \/ CommitRun(j)
    \/ RunEnds(j)

RetentionNext ==
    \/ \E w \in WriterJobs : WriterNext(w)
    \/ \E j \in Jobs : RunNext(j)
    \/ NextMonth

RetentionSpec == RetentionInit /\ [][RetentionNext]_allVars
-----------------------------------------------------------------------------
Catalogued(t) == UNION {SegmentRows(s) : s \in catalog[t]}

\* export_rows: what the catalogued objects give back.
ExportRows(t) ==
    UNION {UNION {IF store[<<t, s.id, n>>] = s.parts[n] THEN s.parts[n] ELSE {}
                    : n \in 1..Len(s.parts)} : s \in catalog[t]}

\* The parts of different segments, and of one, follow one another in seq.
PartsApart(t) ==
    \A s, u \in catalog[t] : \A m \in 1..Len(s.parts), n \in 1..Len(u.parts) :
        (s = u /\ m = n) \/ (\A r \in s.parts[m], q \in u.parts[n] : r.seq < q.seq)
                         \/ (\A r \in s.parts[m], q \in u.parts[n] : r.seq > q.seq)

\* Every catalogued part is listed in its manifest, and intact.
Intact(t) ==
    \A s \in catalog[t] : \A n \in 1..Len(s.parts) :
        /\ store[<<t, s.id, 0>>] = s.parts
        /\ store[<<t, s.id, n>>] = s.parts[n]

\* verify_archive: the parts are intact, the walk over them links, and it ends
\* at the catalog's anchor.
VerifyArchive(t) ==
    /\ Intact(t)
    /\ PartsApart(t)
    /\ Linked(ExportRows(t), NoHash)
    /\ catalog[t] # {} => TailHash(ExportRows(t), NoHash) = anchor[t]

\* The jobs' runs, the catalog and the objects.
RetentionTypeOK ==
    /\ today \in Int /\ runs \in Nat
    /\ \A j \in Jobs :
          /\ run[j].at \in {"idle", "locking", "listed", "open", "archive", "drop", "commit"}
          /\ run[j].todo \subseteq Partitions /\ run[j].drop \subseteq Partitions
          /\ run[j].left \subseteq Rows(Contents)
          /\ run[j].out \in Seq(SUBSET Rows(Contents))
    /\ DOMAIN store \subseteq Tables \X (1..MaxRuns) \X Nat
    /\ \A t \in Tables : \A s \in catalog[t] : Len(s.parts) > 0

\* The exception in what follows: a partition that is created between run_scope's
\* two listings is dropped without its lock, and a row that is written to it
\* meanwhile goes with it.
Locked == Tables \ unlocked

\* Archive and table are one unbroken chain from its first row, at every moment
\* and in the middle of every run: a late row in an aged partition, an append
\* during the drop or an empty table never cuts a hole (select_droppable,
\* "dropping it would cut a hole in the middle of the chain").
OneChain ==
    \A t \in Locked :
        /\ Linked(Catalogued(t) \cup table[t], NoHash)
        /\ Linked(table[t], anchor[t])

\* A committed row never disappears: it stays in its table or in a catalogued
\* object that reads back ("Nothing is dropped that has not been written, read
\* back and verified").
NothingLost ==
    [][\A t \in Locked' : table[t] \cup ExportRows(t) \subseteq (table[t] \cup ExportRows(t))']_allVars

\* verify_archive accepts the archive after every run, whatever the store did
\* to the objects of the runs that failed and whichever runs overlapped.
ArchiveVerifies == \A t \in Locked : VerifyArchive(t)

\* A set of aged partitions that could go together, since every row in it
\* comes before every row that would stay.
Removable(t, P) ==
    \A r \in RowsIn(t, P), q \in table[t] \ RowsIn(t, P) : r.seq < q.seq

\* A run drops the largest prefix there is, so a partition is held back only
\* while the chain has not moved past it (run_scope, "it is archived once the
\* chain has moved past it").
LargestPrefix ==
    \A j \in Jobs :
        /\ run[j].at \in {"open", "archive", "drop", "commit"}
        /\ run[j].drop \subseteq run[j].listed /\ run[j].t \in Locked
        =>
        /\ Removable(run[j].t, run[j].drop)
        /\ \A P \in SUBSET {s.part : s \in run[j].aged} :
              Removable(run[j].t, P) => P \subseteq run[j].drop
=============================================================================
