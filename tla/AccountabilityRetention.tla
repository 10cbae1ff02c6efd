----------------------- MODULE AccountabilityRetention -----------------------
(***************************************************************************)
(* accountability_retention.py on one chain of the core's accountability   *)
(* record, against the drains that pull that chain into the audit log      *)
(* (puller.py, here at the grain of what retention can observe: cursor     *)
(* read, anchor read, page fetched, commit; AccountabilityDrain has the    *)
(* rest), the core that appends, and an operator.                          *)
(*                                                                         *)
(* A record is its seq; ts increases with seq, so what is older than the   *)
(* cutoff is a prefix.  A stored record is "ok" or "altered".  An absent   *)
(* cursor row and one at zero are the same to all readers.                 *)
(***************************************************************************)
EXTENDS Integers, FiniteSetsExt

CONSTANTS
    Drains,       \* the processes that drain the chain
    Jobs,         \* the retention runs' connections
    NoJob,        \* the run lock is free
    PageSize,     \* pull_page_size
    PartRows,     \* AUDIT_ARCHIVE_PART_ROWS
    MaxSeq, MaxFaults  \* bounds: records, and tamperings, resets and failures together

ASSUME AccConstants ==
    /\ NoJob \notin Jobs
    /\ PageSize \in Nat \ {0} /\ PartRows \in Nat \ {0}
    /\ MaxSeq \in Nat /\ MaxFaults \in Nat

VARIABLES
    core,     \* the table: [seqs present -> "ok" or "altered"]
    top,      \* the core's last seq (accountability_chain_head)
    aged,     \* every record up to here is older than the cutoff
    audit,    \* records committed to the audit log
    cursor,   \* accountability_cursor: last_seq, and whether it is halted
    archive,  \* the catalogued records, as they were archived
    lock,     \* the advisory lock "accountability_retention:" + table
    drain,    \* [Drains -> where the drain is, the seq it stands at, its page]
    run,      \* [Jobs -> the run in progress]
    overtaken, \* history: a run deleted records that a drain or the cursor is behind
    tampers, resets, fails

coreVars == <<core, top, aged, tampers, overtaken>>
counts == <<resets, fails>>
vars == <<core, top, aged, audit, cursor, archive, lock, drain, run, overtaken,
          tampers, resets, fails>>

NoDrain == [at |-> "idle", pos |-> 0, page |-> {}]
NoRun == [at |-> "idle", limit |-> 0, count |-> 0, left |-> {}, out |-> {}]

Fault == tampers + resets + fails < MaxFaults

Upto(n) == {s \in DOMAIN core : s <= n}
First(S, n) == {s \in S : Cardinality({q \in S : q < s}) < n}
Seqs(S) == {a.seq : a \in S}

\* catalog.anchor: the newest archived seq, 0 when nothing was archived.
Anchor == Max(Seqs(archive) \cup {0})

\* verify_batch and AccWalker over records S read after the seq n: each follows
\* the one before it and recomputes.
Contiguous(S, n) ==
    \A a \in S : a.val = "ok" /\ (a.seq = n + 1 \/ a.seq - 1 \in Seqs(S))

Stored(S) == {[seq |-> s, val |-> core[s]] : s \in S}
Records == [seq : 1..top, val : {"ok", "altered"}]

-----------------------------------------------------------------------------
Init ==
    /\ core = [s \in {} |-> "ok"] /\ top = 0 /\ aged = 0
    /\ audit = {} /\ cursor = [last |-> 0, halt |-> FALSE]
    /\ archive = {} /\ lock = NoJob
    /\ drain = [d \in Drains |-> NoDrain]
    /\ run = [j \in Jobs |-> NoRun]
    /\ overtaken = FALSE /\ tampers = 0 /\ resets = 0 /\ fails = 0

\* The core commits a record; the calendar moves on.
CoreAppend ==
    /\ top < MaxSeq
    /\ top' = top + 1
    /\ core' = [s \in DOMAIN core \cup {top + 1} |-> IF s = top + 1 THEN "ok" ELSE core[s]]
    /\ UNCHANGED <<aged, tampers, overtaken, audit, cursor, archive, lock, drain, run, counts>>

Age ==
    /\ aged < top
    /\ aged' = aged + 1
    /\ UNCHANGED <<core, top, tampers, overtaken, audit, cursor, archive, lock, drain, run, counts>>

\* Somebody alters or removes a record in the core's table.
Tamper(s) ==
    /\ Fault
    /\ tampers' = tampers + 1
    /\ \/ core' = [core EXCEPT ![s] = "altered"]
       \/ core' = [q \in DOMAIN core \ {s} |-> core[q]]
    /\ UNCHANGED <<top, aged, overtaken, audit, cursor, archive, lock, drain, run, counts>>

\* CursorStore.reset, the full replay; CursorStore.acknowledge.
ResetCursor ==
    /\ Fault
    /\ resets' = resets + 1
    /\ cursor' = [last |-> 0, halt |-> FALSE]
    /\ UNCHANGED <<coreVars, audit, archive, lock, drain, run, fails>>

Acknowledge ==
    /\ cursor.halt
    /\ cursor' = [cursor EXCEPT !.halt = FALSE]
    /\ UNCHANGED <<coreVars, audit, archive, lock, drain, run, counts>>

-----------------------------------------------------------------------------
(* drain: the cursor, the anchor when the cursor is empty, pages, commit.  *)

DrainOnly == UNCHANGED <<coreVars, archive, lock, run, counts>>

BeginDrain(d) ==
    /\ drain[d].at = "idle" /\ ~cursor.halt
    /\ drain' = [drain EXCEPT ![d] = [NoDrain EXCEPT !.pos = cursor.last,
                    !.at = IF cursor.last = 0 THEN "anchor" ELSE "fetch"]]
    /\ UNCHANGED <<audit, cursor>> /\ DrainOnly

\* Mutant: an empty cursor always replays from genesis.
ResumeAtGenesis == 0

\* _resume_from_anchor
ResumeAt == Anchor

ReadAnchor(d) ==
    /\ drain[d].at = "anchor"
    /\ drain' = [drain EXCEPT ![d].pos = ResumeAt, ![d].at = "fetch"]
    /\ UNCHANGED <<audit, cursor>> /\ DrainOnly

\* A page is fetched and verified: a break halts the chain, on a connection of
\* its own, and ends the drain.
Fetch(d) ==
    LET all == {s \in DOMAIN core : s > drain[d].pos}
        page == First(all, PageSize) IN
    /\ drain[d].at = "fetch"
    /\ IF Contiguous(Stored(page), drain[d].pos)
       THEN /\ drain' = [drain EXCEPT ![d] =
                            [at |-> IF page = all THEN "commit" ELSE "fetch",
                             pos |-> Max(page \cup {drain[d].pos}),
                             page |-> drain[d].page \cup page]]
            /\ UNCHANGED cursor
       ELSE /\ drain' = [drain EXCEPT ![d] = NoDrain]
            /\ cursor' = [cursor EXCEPT !.halt = TRUE]
    /\ UNCHANGED audit /\ DrainOnly

\* The rows and the cursor, which CursorStore.stage overwrites, are committed
\* together.  An empty drain only touches the heartbeat.
CommitDrain(d) ==
    /\ drain[d].at = "commit"
    /\ audit' = audit \cup drain[d].page
    /\ cursor' = IF drain[d].page = {} THEN cursor ELSE [cursor EXCEPT !.last = drain[d].pos]
    /\ drain' = [drain EXCEPT ![d] = NoDrain]
    /\ DrainOnly

DrainFails(d) ==
    /\ drain[d].at # "idle" /\ Fault
    /\ fails' = fails + 1
    /\ drain' = [drain EXCEPT ![d] = NoDrain]
    /\ UNCHANGED <<coreVars, audit, cursor, archive, lock, run, resets>>

-----------------------------------------------------------------------------
(* run_scope: every statement reads what is committed at that moment.      *)

RunOnly == UNCHANGED <<coreVars, audit, cursor, drain, resets>>
At(j, s) == run[j].at = s

\* The lock, and max(seq) of the aged rows (none: the run is over).
LockRun(j) ==
    /\ At(j, "idle") /\ lock = NoJob
    /\ Upto(aged) # {}
    /\ lock' = j
    /\ run' = [run EXCEPT ![j] = [NoRun EXCEPT !.at = "cursor", !.limit = Max(Upto(aged))]]
    /\ UNCHANGED <<archive, fails>> /\ RunOnly

\* Mutants: the prefix is not capped at the cursor; it is capped one too high.
CapAtAge(agedMax, pulled) == agedMax
CapPast(agedMax, pulled) == Min({agedMax, pulled}) + 1

\* limit = min(aged_max, pulled)
Cap(agedMax, pulled) == Min({agedMax, pulled})

\* A halted or absent cursor counts as nothing pulled.
ReadCursor(j) ==
    /\ At(j, "cursor")
    /\ run' = [run EXCEPT ![j].limit = Cap(@, IF cursor.halt THEN 0 ELSE cursor.last),
                          ![j].at = "count"]
    /\ UNCHANGED <<archive, lock, fails>> /\ RunOnly

EndRun(j) ==
    /\ lock' = NoJob
    /\ run' = [run EXCEPT ![j] = NoRun]
    /\ UNCHANGED archive /\ RunOnly

\* Mutant: one new record is not worth a segment.
WorthSkipsOne(count, limit) == count > 0 /\ limit > Anchor + 1

\* There is something to archive behind the anchor.
Worth(count, limit) == count > 0 /\ limit > Anchor

\* The anchor and count(*); nothing to archive ends the run.
Count(j) ==
    LET count == Cardinality(Upto(run[j].limit)) IN
    /\ At(j, "count")
    /\ IF Worth(count, run[j].limit)
       THEN /\ run' = [run EXCEPT ![j].count = count, ![j].at = "open"]
            /\ UNCHANGED <<archive, lock>> /\ RunOnly
       ELSE EndRun(j)
    /\ UNCHANGED fails

\* The stream is opened: its rows are those of this moment.
OpenStream(j) ==
    /\ At(j, "open")
    /\ run' = [run EXCEPT ![j].left = Stored(Upto(run[j].limit)), ![j].at = "archive"]
    /\ UNCHANGED <<archive, lock, fails>> /\ RunOnly

\* Mutant: a break is archived faithfully, as in the audit log.
WalkFaithful(S, n) == TRUE

\* AccWalker over the rows read so far.
Walk(S, n) == Contiguous(S, n)

\* A part is checked, written and read back; a break refuses the whole run.
PutPart(j) ==
    LET part == {a \in run[j].left : a.seq \in First(Seqs(run[j].left), PartRows)}
        out == run[j].out \cup part IN
    /\ At(j, "archive") /\ run[j].left # {}
    /\ IF Walk(out, Anchor)
       THEN /\ run' = [run EXCEPT ![j].left = @ \ part, ![j].out = out]
            /\ UNCHANGED <<archive, lock>> /\ RunOnly
       ELSE EndRun(j)
    /\ UNCHANGED fails

\* A drain in flight, or the cursor that an overtaken drain moved back, stands
\* before the records up to n.
Behind(n) ==
    \/ cursor.last \in 1..(n - 1)
    \/ \E d \in Drains : drain[d].at \in {"fetch", "commit"} /\ drain[d].pos < n

\* All rows that were counted have been archived, up to the limit: manifest,
\* segment, DELETE and commit, in one transaction.
CommitRun(j) ==
    LET gone == Upto(run[j].limit) IN
    /\ At(j, "archive") /\ run[j].left = {}
    /\ Cardinality(run[j].out) = run[j].count /\ run[j].limit \in Seqs(run[j].out)
    /\ Cardinality(gone) = run[j].count
    /\ archive' = archive \cup run[j].out
    /\ core' = [s \in DOMAIN core \ gone |-> core[s]]
    /\ overtaken' = (overtaken \/ Behind(run[j].limit))
    /\ lock' = NoJob
    /\ run' = [run EXCEPT ![j] = NoRun]
    /\ UNCHANGED <<top, aged, tampers, audit, cursor, drain, counts>>

\* A count that does not match, an object that does not read back, a timeout,
\* or the process dies: rolled back.
RunFails(j) ==
    /\ ~At(j, "idle") /\ Fault
    /\ fails' = fails + 1
    /\ EndRun(j)

DrainStep(d) == BeginDrain(d) \/ ReadAnchor(d) \/ Fetch(d) \/ CommitDrain(d)
RunStep(j) ==
    LockRun(j) \/ ReadCursor(j) \/ Count(j) \/ OpenStream(j) \/ PutPart(j) \/ CommitRun(j)

Next ==
    \/ CoreAppend
    \/ Age
    \/ \E s \in DOMAIN core : Tamper(s)
    \/ ResetCursor
    \/ Acknowledge
    \/ \E d \in Drains :
          \/ BeginDrain(d)
          \/ ReadAnchor(d)
          \/ Fetch(d)
          \/ CommitDrain(d)
          \/ DrainFails(d)
    \/ \E j \in Jobs :
          \/ LockRun(j)
          \/ ReadCursor(j)
          \/ Count(j)
          \/ OpenStream(j)
          \/ PutPart(j)
          \/ CommitRun(j)
          \/ RunFails(j)

\* Drains are scheduled every few seconds and runs every month, for ever; the
\* core, the calendar, the operator and failures are nobody's duty.
Spec == Init /\ [][Next]_vars
             /\ \A d \in Drains : WF_vars(DrainStep(d))
             /\ \A j \in Jobs : WF_vars(RunStep(j))
-----------------------------------------------------------------------------
\* The faults so far.
CountsOK ==
    /\ tampers \in Nat /\ resets \in Nat /\ fails \in Nat
    /\ tampers + resets + fails <= MaxFaults
    /\ overtaken \in BOOLEAN

\* The tables, the drains and the runs.
TypeOK ==
    /\ CountsOK
    /\ core \in [DOMAIN core -> {"ok", "altered"}] /\ DOMAIN core \subseteq 1..top
    /\ top \in 0..MaxSeq /\ aged \in 0..top
    /\ audit \subseteq 1..top
    /\ cursor \in [last : 0..top, halt : BOOLEAN]
    /\ archive \subseteq Records
    /\ lock \in Jobs \cup {NoJob}
    /\ drain \in [Drains -> [at : {"idle", "anchor", "fetch", "commit"}, pos : 0..top,
                             page : SUBSET (1..top)]]
    /\ run \in [Jobs -> [at : {"idle", "cursor", "count", "open", "archive"},
                         limit : 0..top, count : Nat,
                         left : SUBSET Records, out : SUBSET Records]]
    /\ \A j \in Jobs : run[j].at # "idle" => lock = j

\* What retention has removed from the core's table was in the audit log first,
\* although the cursor it read may have been reset, halted or moved since
\* ("Only rows the puller has already copied may go").
PulledFirst == Seqs(archive) \subseteq audit

\* verify_acc_archive's two walks: the catalogued parts from genesis, and the
\* rows still in the table from the anchor.
VerifyArchive == Contiguous(archive, 0)
VerifyTable == Contiguous(Stored(DOMAIN core), Anchor)

\* The archive is the chain's prefix, without a gap or an altered record, and an
\* untouched table goes on where it ends: a break refuses the run and a record
\* that goes missing during it rolls it back ("Deleting the evidence would be
\* the worst response to it").
ArchiveSound == VerifyArchive /\ Upto(Anchor) = {} /\ (tampers = 0 => VerifyTable)

\* Retention does not make a drain raise the integrity alarm: a chain is halted
\* only if somebody tampered with the core's record (a deleted prefix "would be
\* a gap -- an integrity alarm").  The exception: a run that deletes what a
\* drain in flight, or the cursor as an overtaken drain left it, is behind.
NoFalseHalt == cursor.halt => tampers > 0 \/ overtaken

\* Again and again everything that is aged has left the table for the archive,
\* also when a cursor was reset or a run failed, unless somebody tampered or the
\* chain is halted.
AgedIsArchived == []<>(aged <= Anchor \/ tampers > 0 \/ cursor.halt)
=============================================================================
