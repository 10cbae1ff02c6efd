--------------------------- MODULE TenantLifecycle ---------------------------
(***************************************************************************)
(* What the creation and the deletion of tenants do to the drain of the    *)
(* core's accountability chains, and what the monitoring endpoints say of  *)
(* the drain: AccountabilityPuller.drain_all, _forget_tenant (puller.py),  *)
(* the cursors' heartbeat (cursors.py), the poller's schedule (poller.py), *)
(* snapshot and is_healthy (drain_health.py) and /readyz (api.py).         *)
(*                                                                         *)
(* The global chain carries the tenants' lifecycle and other records about *)
(* a tenant.  A tenant's own chain is only polled here: what is in it, and *)
(* the verification of all records, is AccountabilityDrain's subject.  The *)
(* consumer drains the global chain and the tenant of a queue event; its   *)
(* own rows are AuditWriter's subject.                                     *)
(***************************************************************************)
EXTENDS Integers, Sequences, FiniteSets, SequencesExt

CONSTANTS
    Tenants,     \* tenant names
    Founded,     \* bound: tenants the core has from the start and leaves alone
    Global,      \* GLOBAL_CHAIN_KEY
    NoRow,       \* an absent cursor row
    Keep,        \* what a transaction has not written
    Vanished,    \* what the core may answer for a tenant it deleted (external):
                 \* a set of "error" and "empty"
    Reuse,       \* may a deleted tenant's name be given to a new tenant?
    PageSize,    \* pull_page_size
    MaxPages,    \* pull_max_pages
    StaleAfter,  \* DEFAULT_STALE_AFTER_S, in ticks
    Interval,    \* pull_interval_s, in ticks
    MaxRecs,     \* bound: records of the global chain
    MaxEvents,   \* bound: queue batches while the poller runs
    MaxFaults    \* bound: crashes, core errors, breaks, resets and their repairs

Poller == "poller"
Consumer == "consumer"
Procs == {Poller, Consumer}
NoOwner == "none"
Keys == Tenants \cup {Global}

ASSUME LifecycleConstants ==
    /\ Global \notin Tenants /\ Founded \subseteq Tenants
    /\ Vanished \subseteq {"error", "empty"} /\ Vanished # {}
    /\ Reuse \in BOOLEAN
    /\ {PageSize, MaxPages, StaleAfter, Interval} \subseteq Nat \ {0}
    /\ {MaxRecs, MaxEvents, MaxFaults} \subseteq Nat

VARIABLES
    registered,  \* the tenants table
    chain,       \* the core's global chain: [tenant, action]
    refusing,    \* tenants whose chain the core refuses to give
    glog,        \* audit_log_global: [n, prev], the record and the row it links to
    cursor,      \* accountability_cursor: [last, age, halted] or NoRow
    chainLock,   \* who writes audit_log_global
    rowLock,     \* who has written a cursor row and not committed
    pc, todo,    \* where a process is, and the chains it still drains
    st,          \* its drain: [last, page, more, pages]
    work,        \* its view of audit_log_global, Keep until it writes
    staged,      \* its cursor rows: Keep, NoRow (deleted) or [last, fresh]
    alive,       \* is the poller running?
    rest,        \* ticks since the poller's last pass
    batch,       \* the consumer's batches: [n, tenant], how many (at most
                 \* MaxEvents are counted) and whose the last one is
    faults       \* faults so far

coreVars == <<registered, chain, refusing>>
dbVars == <<glog, cursor>>
lockVars == <<chainLock, rowLock>>
procVars == <<pc, todo, st, work, staged>>
vars == <<registered, chain, refusing, glog, cursor, chainLock, rowLock, pc, todo, st,
          work, staged, alive, rest, batch, faults>>

NoDrain == [last |-> 0, page |-> <<>>, more |-> FALSE, pages |-> 0]
Nothing == [k \in Keys |-> Keep]

(***************************************************************************)
(* drain_health.py and /readyz.                                            *)
(***************************************************************************)
Chains == {k \in Keys : cursor[k] # NoRow}
Halted == {k \in Chains : cursor[k].halted}

\* Mutant of StaleChains: the youngest chain decides and not the oldest.
StaleIfAll == {k \in Chains \ Halted : \A j \in Chains \ Halted : cursor[j].age > StaleAfter}

\* Mutant of StaleChains: a chain without records is not looked at.
StaleWithRecords == {k \in Chains \ Halted : cursor[k].age > StaleAfter /\ cursor[k].last > 0}

\* A halted chain's age is no evidence of a stopped drain.
StaleChains == {k \in Chains \ Halted : cursor[k].age > StaleAfter}

\* /readyz, when the probe can read the cursors; is_healthy takes an error of
\* its own query for healthy.
Ready == Halted = {} /\ StaleChains = {}

-----------------------------------------------------------------------------
Init ==
    /\ registered = Founded /\ chain = <<>> /\ refusing = {}
    /\ glog = <<>> /\ cursor = [k \in Keys |-> NoRow]
    /\ chainLock = NoOwner /\ rowLock = [k \in Keys |-> NoOwner]
    /\ pc = [p \in Procs |-> "idle"] /\ todo = [p \in Procs |-> <<>>]
    /\ st = [p \in Procs |-> NoDrain]
    /\ work = [p \in Procs |-> Keep] /\ staged = [p \in Procs |-> Nothing]
    /\ alive = TRUE /\ rest = Interval /\ faults = 0 /\ batch = [n |-> 0, tenant |-> Global]

Known == Founded \cup {chain[n].tenant : n \in DOMAIN chain}

(* The core: a tenant is created, deleted with its schema, or the subject  *)
(* of another record of the global chain.                                  *)
CoreRecord(t, action) ==
    /\ Len(chain) < MaxRecs
    /\ CASE action = "create" -> /\ t \notin registered
                                 /\ Reuse \/ t \notin Known
         [] OTHER -> t \in registered
    /\ registered' = CASE action = "create" -> registered \cup {t}
                       [] action = "delete" -> registered \ {t}
                       [] OTHER -> registered
    /\ chain' = Append(chain, [tenant |-> t, action |-> action])
    /\ UNCHANGED <<refusing, dbVars, lockVars, procVars, alive, rest, batch, faults>>

Fault == faults < MaxFaults /\ faults' = faults + 1

CoreRefuses(t) ==
    /\ t \in registered \ refusing /\ Fault
    /\ refusing' = refusing \cup {t}
    /\ UNCHANGED <<registered, chain, dbVars, lockVars, procVars, alive, rest, batch>>

-----------------------------------------------------------------------------
(* Transactions.                                                           *)

Drop(p) ==
    /\ chainLock' = IF chainLock = p THEN NoOwner ELSE chainLock
    /\ rowLock' = [k \in Keys |-> IF rowLock[k] = p THEN NoOwner ELSE rowLock[k]]
    /\ work' = [work EXCEPT ![p] = Keep]
    /\ staged' = [staged EXCEPT ![p] = Nothing]
    /\ pc' = [pc EXCEPT ![p] = "idle"]
    /\ todo' = [todo EXCEPT ![p] = <<>>]
    /\ st' = [st EXCEPT ![p] = NoDrain]

(* _reset_conn: the transaction is rolled back.                            *)
Reset(p) == Drop(p) /\ UNCHANGED dbVars

NextChain(p) ==
    /\ todo' = [todo EXCEPT ![p] = Tail(@)]
    /\ st' = [st EXCEPT ![p] = NoDrain]
    /\ pc' = [pc EXCEPT ![p] = IF Len(todo[p]) = 1 THEN "commit" ELSE "get"]
    /\ UNCHANGED <<dbVars, lockVars, work, staged>>

(* An exception of one chain's drain: drain_all goes on with the next      *)
(* chain, the consumer gives its batch up.                                 *)
Raise(p) == IF p = Poller THEN NextChain(p) ELSE Reset(p)

(* What p's transaction makes of a cursor row: stage and touch_polled are  *)
(* upserts that leave a halt alone.                                        *)
CommittedRow(p, k) ==
    CASE staged[p][k] = Keep -> cursor[k]
      [] staged[p][k] = NoRow -> NoRow
      [] staged[p][k].fresh -> [last |-> staged[p][k].last, age |-> 0, halted |-> FALSE]
      [] OTHER -> [cursor[k] EXCEPT !.last = staged[p][k].last, !.age = 0]

(* The consumer's own rows go into the tenant's table, if it still exists. *)
Commit(p) ==
    /\ pc[p] = "commit"
    /\ p = Poller \/ batch.tenant \in registered
    /\ glog' = IF work[p] = Keep THEN glog ELSE work[p]
    /\ cursor' = [k \in Keys |-> CommittedRow(p, k)]
    /\ Drop(p)
    /\ UNCHANGED <<coreVars, alive, rest, batch, faults>>

NoTable ==
    /\ pc[Consumer] = "commit" /\ batch.tenant \notin registered
    /\ Reset(Consumer)
    /\ UNCHANGED <<coreVars, alive, rest, batch, faults>>

Crash(p) ==
    /\ pc[p] # "idle" /\ Fault
    /\ Reset(p)
    /\ UNCHANGED <<coreVars, alive, rest, batch>>

-----------------------------------------------------------------------------
(* The processes.                                                          *)

(* pass_once, Interval after the last one: drain_all lists the tenants,    *)
(* and the global chain goes first.                                        *)
StartPass ==
    /\ alive /\ pc[Poller] = "idle" /\ rest = Interval
    /\ pc' = [pc EXCEPT ![Poller] = "get"]
    /\ todo' = [todo EXCEPT ![Poller] = <<Global>> \o SetToSeq(registered)]
    /\ rest' = 0
    /\ UNCHANGED <<coreVars, dbVars, lockVars, st, work, staged, alive, batch, faults>>

(* _drain_core_first for a queue event of a tenant the core had once.  The *)
(* queue does not fall silent when the poller is gone.                     *)
StartBatch(t) ==
    /\ pc[Consumer] = "idle" /\ (batch.n < MaxEvents \/ ~ alive)
    /\ t \in Known
    /\ batch' = [n |-> Min({batch.n + 1, MaxEvents}), tenant |-> t]
    /\ pc' = [pc EXCEPT ![Consumer] = "get"]
    /\ todo' = [todo EXCEPT ![Consumer] = <<Global, t>>]
    /\ UNCHANGED <<coreVars, dbVars, lockVars, st, work, staged, alive, rest, faults>>

(* cursors.get: an absent row is a fresh cursor; a halted chain is left    *)
(* alone, its heartbeat too.                                               *)
RowSeen(p, k) == IF staged[p][k] = Keep THEN cursor[k] ELSE staged[p][k]
Position(p, k) == IF RowSeen(p, k) = NoRow THEN 0 ELSE RowSeen(p, k).last

GetCursor(p) ==
    LET k == Head(todo[p]) IN
    /\ pc[p] = "get"
    /\ IF k \in Halted /\ staged[p][k] = Keep
       THEN NextChain(p)
       ELSE /\ st' = [st EXCEPT ![p].last = Position(p, k)]
            /\ pc' = [pc EXCEPT ![p] = "fetch"]
            /\ UNCHANGED <<dbVars, lockVars, todo, work, staged>>
    /\ UNCHANGED <<coreVars, alive, rest, batch, faults>>

Page(last) == [i \in 1..Min({PageSize, Len(chain) - last}) |-> last + i]

FetchGlobal(p) ==
    LET page == Page(st[p].last) IN
    /\ pc[p] = "fetch" /\ Head(todo[p]) = Global
    /\ st' = [st EXCEPT ![p].page = page, ![p].more = st[p].last + Len(page) < Len(chain)]
    /\ pc' = [pc EXCEPT ![p] = IF page = <<>> THEN "touch" ELSE "write"]
    /\ UNCHANGED <<coreVars, dbVars, lockVars, todo, work, staged, alive, rest, batch, faults>>

Polled(p) == pc' = [pc EXCEPT ![p] = "touch"] /\ UNCHANGED <<dbVars, lockVars, todo, st, work, staged>>

FetchTenant(p) ==
    LET t == Head(todo[p]) IN
    /\ pc[p] = "fetch" /\ t # Global
    /\ \/ t \in registered \ refusing /\ Polled(p)
       \/ (t \in refusing \/ (t \notin registered /\ "error" \in Vanished)) /\ Raise(p)
       \/ t \notin registered /\ "empty" \in Vanished /\ Polled(p)
    /\ UNCHANGED <<coreVars, alive, rest, batch, faults>>

(* The page does not verify: the halt is committed on another connection,  *)
(* the row of a chain never polled included.                               *)
Break(p) ==
    LET t == Head(todo[p])
        row == IF cursor[t] = NoRow THEN [last |-> 0, age |-> 0, halted |-> FALSE]
               ELSE cursor[t] IN
    /\ pc[p] = "fetch" /\ t \in registered \ Founded /\ rowLock[t] = NoOwner /\ Fault
    /\ cursor' = [cursor EXCEPT ![t] = [row EXCEPT !.halted = TRUE]]
    /\ \/ /\ p = Poller
          /\ todo' = [todo EXCEPT ![p] = Tail(@)]
          /\ st' = [st EXCEPT ![p] = NoDrain]
          /\ pc' = [pc EXCEPT ![p] = IF Len(todo[p]) = 1 THEN "commit" ELSE "get"]
          /\ UNCHANGED <<lockVars, work, staged>>
       \/ p = Consumer /\ Drop(p)
    /\ UNCHANGED <<coreVars, glog, alive, rest, batch>>

(* write_batch on the global chain: a record already there is left out,    *)
(* and its row is what the next one links to.                              *)
AppendRow(acc, n) ==
    [rows |-> IF \E i \in DOMAIN acc.rows : acc.rows[i].n = n THEN acc.rows
              ELSE Append(acc.rows, [n |-> n, prev |-> acc.head]),
     head |-> n]
TailOf(rows) == IF rows = <<>> THEN 0 ELSE Last(rows).n
WriteBatch(rows, ns) == FoldLeft(AppendRow, [rows |-> rows, head |-> TailOf(rows)], ns).rows

(* _forget_tenant for the tenants whose deletion is among the records: the *)
(* cursor goes, and every row of the tenant but its lifecycle entries.     *)
Deleted(ns) == {chain[n].tenant : n \in {m \in ns : chain[m].action = "delete"}}

\* Mutant of Purge: the lifecycle entries go as well.
PurgeAll(rows, ts) == SelectSeq(rows, LAMBDA r : chain[r.n].tenant \notin ts)

Purge(rows, ts) ==
    SelectSeq(rows, LAMBDA r : chain[r.n].tenant \in ts
                                 => chain[r.n].action \in {"create", "delete"})

WritePage(p) ==
    LET page == st[p].page
        gone == Deleted(ToSet(page))
        base == IF work[p] = Keep THEN glog ELSE work[p]
        \* A DELETE waits for who holds the row; it does not see an uncommitted insert.
        rows == {t \in gone : cursor[t] # NoRow \/ rowLock[t] = p} IN
    /\ pc[p] = "write"
    /\ chainLock \in {NoOwner, p} /\ \A t \in rows : rowLock[t] \in {NoOwner, p}
    /\ chainLock' = p
    /\ work' = [work EXCEPT ![p] = Purge(WriteBatch(base, page), gone)]
    /\ rowLock' = [k \in Keys |-> IF k \in rows THEN p ELSE rowLock[k]]
    /\ staged' = [staged EXCEPT ![p] = [k \in Keys |-> IF k \in rows THEN NoRow ELSE @[k]]]
    /\ st' = [st EXCEPT ![p].last = Last(page), ![p].pages = @ + 1]
    /\ pc' = [pc EXCEPT ![p] = IF st[p].more /\ st[p].pages + 1 < MaxPages
                               THEN "fetch" ELSE "touch"]
    /\ UNCHANGED <<coreVars, dbVars, todo, alive, rest, batch, faults>>

\* Mutant of Touch: a chain is polled without its heartbeat unless it moved.
TouchIfMoved(p) ==
    LET k == Head(todo[p]) IN
    /\ pc[p] = "touch"
    /\ rowLock[k] \in {NoOwner, p}
    /\ todo' = [todo EXCEPT ![p] = Tail(@)]
    /\ pc' = [pc EXCEPT ![p] = IF Len(todo[p]) = 1 THEN "commit" ELSE "get"]
    /\ rowLock' = [rowLock EXCEPT ![k] = IF st[p].pages > 0 \/ cursor[k] = NoRow THEN p ELSE @]
    /\ staged' = [staged EXCEPT ![p][k] =
                    IF st[p].pages > 0 \/ cursor[k] = NoRow
                    THEN [last |-> st[p].last, fresh |-> cursor[k] = NoRow] ELSE @]
    /\ st' = [st EXCEPT ![p] = NoDrain]
    /\ UNCHANGED <<coreVars, dbVars, chainLock, work, alive, rest, batch, faults>>

(* stage, when something was appended, and touch_polled, on every clean    *)
(* pass: upserts of the chain's row.                                       *)
Touch(p) ==
    LET k == Head(todo[p]) IN
    /\ pc[p] = "touch"
    /\ rowLock[k] \in {NoOwner, p}
    /\ rowLock' = [rowLock EXCEPT ![k] = p]
    /\ staged' = [staged EXCEPT ![p][k] =
                    [last |-> IF st[p].pages > 0 THEN st[p].last ELSE Position(p, k),
                     fresh |-> RowSeen(p, k) = NoRow]]
    /\ todo' = [todo EXCEPT ![p] = Tail(@)]
    /\ pc' = [pc EXCEPT ![p] = IF Len(todo[p]) = 1 THEN "commit" ELSE "get"]
    /\ st' = [st EXCEPT ![p] = NoDrain]
    /\ UNCHANGED <<coreVars, dbVars, chainLock, work, alive, rest, batch, faults>>

(* A statement that waits for the other process fails, by the statement    *)
(* timeout or because the two wait for each other; nothing of the pass or  *)
(* the batch is left.                                                      *)
Waits(p) ==
    \/ /\ pc[p] = "write"
       /\ \/ chainLock \notin {NoOwner, p}
          \/ \E t \in Deleted(ToSet(st[p].page)) :
                cursor[t] # NoRow /\ rowLock[t] \notin {NoOwner, p}
    \/ pc[p] = "touch" /\ rowLock[Head(todo[p])] \notin {NoOwner, p}

WaitFails(p) ==
    /\ Waits(p)
    /\ faults' = Min({faults + 1, MaxFaults})
    /\ Reset(p)
    /\ UNCHANGED <<coreVars, alive, rest, batch>>

-----------------------------------------------------------------------------
(* Time, operators and the ways a drain stops.                             *)

(* A pass takes no time; while the poller runs, time does not go past the  *)
(* moment its next pass is due.                                            *)
Tick ==
    /\ \A p \in Procs : pc[p] = "idle"
    /\ alive => rest < Interval
    /\ rest' = IF alive THEN rest + 1 ELSE rest
    /\ cursor' = [k \in Keys |-> IF cursor[k] = NoRow THEN NoRow
                                 ELSE [cursor[k] EXCEPT !.age = Min({@ + 1, StaleAfter + 1})]]
    /\ UNCHANGED <<coreVars, glog, lockVars, procVars, alive, batch, faults>>

(* The poller dies and nobody starts it again.                             *)
Stop ==
    /\ alive /\ Fault
    /\ alive' = FALSE
    /\ Reset(Poller)
    /\ UNCHANGED <<coreVars, rest, batch>>

(* cursors.reset: an operator has a chain replayed from the start.         *)
ResetCursor(k) ==
    /\ cursor[k] # NoRow /\ rowLock[k] = NoOwner /\ Fault
    /\ cursor' = [cursor EXCEPT ![k] = NoRow]
    /\ UNCHANGED <<coreVars, glog, lockVars, procVars, alive, rest, batch>>

Acknowledge(k) ==
    /\ k \in Halted /\ rowLock[k] = NoOwner
    /\ cursor' = [cursor EXCEPT ![k].halted = FALSE]
    /\ UNCHANGED <<coreVars, glog, lockVars, procVars, alive, rest, batch, faults>>

Proceed(p) ==
    \/ GetCursor(p) \/ FetchGlobal(p) \/ FetchTenant(p) \/ WritePage(p) \/ Touch(p)
    \/ Commit(p) \/ WaitFails(p) \/ (p = Consumer /\ NoTable)

Next ==
    \/ \E t \in Tenants \ Founded :
         CoreRefuses(t) \/ \E a \in {"create", "other", "delete"} : CoreRecord(t, a)
    \/ \E t \in Tenants : StartBatch(t)
    \/ \E k \in Keys : ResetCursor(k) \/ Acknowledge(k)
    \/ \E p \in Procs : Proceed(p) \/ Crash(p) \/ Break(p)
    \/ StartPass \/ Tick \/ Stop

(* Time goes on however busy the queue is, and a process that has begun a  *)
(* pass goes through with it; the poller's loop begins the next one.       *)
Spec ==
    /\ Init /\ [][Next]_vars
    /\ SF_vars(Tick) /\ WF_vars(StartPass)
    /\ \A p \in Procs : WF_vars(Proceed(p))

-----------------------------------------------------------------------------
(***************************************************************************)
(* Properties.                                                             *)
(***************************************************************************)

(* Cursor rows, the rows of the global log and the locks have their types. *)
TypeOK ==
    /\ registered \subseteq Tenants /\ refusing \subseteq Tenants
    /\ \A k \in Keys :
         /\ cursor[k] \in {NoRow} \cup
              [last : 0..Len(chain), age : 0..StaleAfter + 1, halted : BOOLEAN]
         /\ k # Global /\ cursor[k] # NoRow => cursor[k].last = 0
         /\ rowLock[k] \in Procs \cup {NoOwner}
         /\ \A p \in Procs : staged[p][k] # Keep => rowLock[k] = p
    /\ \A i \in DOMAIN glog : glog[i].n \in DOMAIN chain /\ glog[i].prev \in 0..Len(chain)
    /\ \A p \in Procs : work[p] # Keep => chainLock = p

Recorded == {glog[i].n : i \in DOMAIN glog}
Drained == IF cursor[Global] = NoRow THEN 0 ELSE cursor[Global].last
Purgeable(n) ==
    /\ chain[n].action \notin {"create", "delete"}
    /\ \E d \in n + 1 .. Len(chain) : chain[d] = [chain[n] EXCEPT !.action = "delete"]

(* What the global cursor has passed stays in the log, but for what a      *)
(* tenant did that was deleted afterwards: no other row is lost to a purge, *)
(* and the lifecycle entries to none, although two processes write and     *)
(* purge the table from cursors that the other one moves and an operator   *)
(* resets ("Keep the lifecycle entries", _forget_tenant).                  *)
NothingElseForgotten == \A n \in 1..Drained : n \in Recorded \/ Purgeable(n)

(* When everything is drained, nothing is left of a destroyed tenant but   *)
(* its lifecycle entries ("retaining anything else here would mean holding *)
(* history the platform has told the world it destroyed").                 *)
DestroyedIsGone ==
    Drained = Len(chain) /\ (\A p \in Procs : pc[p] = "idle") =>
        \A n \in Recorded : ~ Purgeable(n)

(* An alarm that stays on is true: a chain that reads as stale is polled   *)
(* again, unless the poller is gone, the core refuses the chain or its     *)
(* tenant is no more ("an alarm that is always on is one nobody reads",    *)
(* drain_health.py; a quiet tenant and an acknowledged halt must not be    *)
(* such alarms).                                                           *)
StaleIsCured ==
    \A k \in Keys : (k \in StaleChains) ~>
       \/ k \notin StaleChains \/ ~ alive
       \/ k \in refusing \/ (k # Global /\ k \notin registered)

(* A stopped poller gets loud: once it is gone for good, /readyz turns 503 *)
(* over every chain that was ever polled, unless the chain is forgotten or *)
(* the consumer polls it again for an event of the queue, which never      *)
(* falls silent.  One chain without events is enough; with events for      *)
(* every chain the service stays ready and is drained ("a drain that has   *)
(* stopped produces no error at all", drain_health.py).                    *)
StoppedIsVisible ==
    \A k \in Keys : (~ alive /\ cursor[k] # NoRow) ~>
       (~ Ready \/ cursor[k] = NoRow \/ cursor[k].age = 0)

(* So does one chain the core refuses, if it was polled before.            *)
RefusedIsVisible ==
    \A t \in Tenants : (t \in refusing /\ cursor[t] # NoRow) ~> (~ Ready \/ cursor[t] = NoRow)

(* The global chain verifies: every row links to the row before it (no row *)
(* is tampered with here; "the first row that fails either check is the    *)
(* tamper point", verify.py).                                              *)
GlobalVerifies ==
    \A i \in DOMAIN glog : glog[i].prev = IF i = 1 THEN 0 ELSE glog[i - 1].n

(* No cursor row of a tenant is left when its deletion has been drained    *)
(* ("avoids re-creating that tenant's cursor moments after dropping it",   *)
(* drain_all).                                                             *)
NoOrphanCursor ==
    \A n \in 1..Drained : chain[n].action = "delete" /\ chain[n].tenant \notin registered
                             => cursor[chain[n].tenant] = NoRow
=============================================================================
