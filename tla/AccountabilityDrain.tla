------------------------- MODULE AccountabilityDrain -------------------------
(***************************************************************************)
(* How the core's accountability chains reach the audit log: the queue     *)
(* consumer (consumer.py), which drains them before it records what the    *)
(* queue delivered, and the accountability poller (poller.py), which       *)
(* drains them on a schedule and on hints, both through                    *)
(* AccountabilityPuller.drain (puller.py) and the durable cursors          *)
(* (cursors.py).                                                           *)
(*                                                                         *)
(* Each process works in one transaction at a time on its own connection.  *)
(* A transaction's rows and cursor updates are its own until it commits;   *)
(* the chain lock it took in write_batch and the row lock it took in       *)
(* accountability_cursor are held until it ends.  A row's digest is        *)
(* identified with the row (AuditWriter has the digests and the locking of *)
(* write_batch in full), a core record's hash with its seq, its ts too.    *)
(* Tenants are not deleted: the records are those of other actions.        *)
(***************************************************************************)
EXTENDS Integers, Sequences, FiniteSets, SequencesExt

CONSTANTS
    Keys,         \* the chains: tenants and Global
    Global,       \* GLOBAL_CHAIN_KEY
    Order,        \* the chains in the order of draining: Global, the tenants sorted
    Registered,   \* the tenants of the tenants table (list_tenants)
    MsgKey,       \* [1..MaxMsgs -> Keys]: the tenant each queue message names
    Poison,       \* the queue messages that parse_envelope rejects
    Broken,       \* chains whose audit table cannot be written (no such schema)
    AnchorSeq,    \* [Keys -> Nat]: records that the archive holds and the core no longer
    PageSize,     \* pull_page_size
    MaxPages,     \* pull_max_pages
    ReadCount,    \* read_count
    Lagging,      \* may a fetch be answered by a replica behind the primary?
    MaxRecs,      \* bound: [Keys -> Nat] records the core ever has
    MaxMsgs,      \* bound: messages published
    MaxTampers,   \* bound: records altered or removed in the core
    MaxAcks,      \* bound: operator acknowledgements
    MaxFails,     \* bound: failures of a process or its connection
    MaxHints      \* bound: hint-driven passes

Poller == "poller"
Consumer == "consumer"
Procs == {Poller, Consumer}
NoOwner == "none"

ASSUME DrainConstants ==
    /\ Global \in Keys
    /\ Order \in Seq(Keys) /\ ToSet(Order) = Keys
    /\ Registered \subseteq Keys
    /\ MsgKey \in [1..MaxMsgs -> Keys]
    /\ Poison \subseteq 1..MaxMsgs
    /\ Broken \subseteq Keys
    /\ AnchorSeq \in [Keys -> Nat] /\ MaxRecs \in [Keys -> Nat]
    /\ \A k \in Keys : AnchorSeq[k] <= MaxRecs[k]
    /\ {PageSize, MaxPages, ReadCount} \subseteq Nat \ {0}
    /\ Lagging \in BOOLEAN
    /\ {MaxMsgs, MaxTampers, MaxAcks, MaxFails, MaxHints} \subseteq Nat

VARIABLES
    core,      \* [Keys -> Seq({"ok", "altered", "gone"})] the core's records
    log,       \* [Keys -> Seq of committed audit rows]
    cursor,    \* [Keys -> [last, halt]] committed accountability_cursor, halt 0 = none
    chainLock, \* [Keys -> Procs or NoOwner] advisory lock on the chain
    rowLock,   \* [Keys -> Procs or NoOwner] row lock in accountability_cursor
    pend,      \* [Procs -> [Keys -> uncommitted rows]]
    staged,    \* [Procs -> [Keys -> uncommitted cursor position, 0 = none]]
    failed,    \* [Procs -> has a statement of this transaction failed?]
    pc,        \* [Procs -> where the process is]
    todo,      \* [Procs -> the chains still to drain in this pass]
    st,        \* [Procs -> the drain in progress: last, page, more, pages, brk]
    hint,      \* [Keys -> the seq the poller's current hints assert, 0 = none]
    hinted,    \* is the poller's current pass hint driven?
    queue,     \* [published, delivered: Nat, acked, inHand: sets of messages]
    seen,      \* history: [1..MaxMsgs -> core records when it was published]
    budget     \* what is left of the bounds on failures, tampering, ...

coreVars == <<core, seen>>
dbVars == <<log, cursor>>
lockVars == <<chainLock, rowLock>>
txVars == <<pend, staged, failed>>
procVars == <<pc, todo, st, hint, hinted>>
vars == <<core, seen, log, cursor, chainLock, rowLock, pend, staged, failed,
          pc, todo, st, hint, hinted, queue, budget>>

NoRows == [k \in Keys |-> <<>>]
NoStage == [k \in Keys |-> 0]
NoDrain == [last |-> 0, page |-> <<>>, more |-> FALSE, pages |-> 0, brk |-> 0]

\* sorted(S)
Rank(S, n) == Cardinality({m \in S : m < n})
InOrder(S) == [i \in 1..Cardinality(S) |-> CHOOSE n \in S : Rank(S, n) = i - 1]

-----------------------------------------------------------------------------
(* Rows and write_batch, at the granularity of one call.                   *)

Id(row) == <<row.src, row.n>>
NoId == <<"none", 0>>
CoreRow(k, n) == [src |-> "core", n |-> n, status |-> core[k][n]]
QueueRow(m) == [src |-> "queue", n |-> m, status |-> "ok"]
TailId(rows) == IF rows = <<>> THEN NoId ELSE Id(Last(rows).item)
Has(rows, id) == \E i \in 1..Len(rows) : Id(rows[i].item) = id

\* One row of write_batch: a new row is appended and becomes the head, a
\* duplicate is left out and its stored digest becomes the head.
AppendRow(acc, item) ==
    [rows |-> IF Has(acc.rows, Id(item)) THEN acc.rows
              ELSE Append(acc.rows, [item |-> item, prev |-> acc.head]),
     head |-> Id(item)]

\* The loop of write_batch over items: the rows and the head after i of them.
Written(rows, items) ==
    LET acc[i \in 0..Len(items)] ==
            IF i = 0 THEN [rows |-> rows, head |-> TailId(rows)]
            ELSE AppendRow(acc[i - 1], items[i])
    IN  acc

\* The rows that the transaction sees after write_batch(items).
WriteBatch(rows, items) == Written(rows, items)[Len(items)].rows

\* write_batch: takes the locks of the chains it has rows for and appends to
\* what p sees of them.
Targets(items) == {k \in Keys : items[k] # <<>>}
WriteRows(p, items) ==
    /\ \A k \in Targets(items) : chainLock[k] \in {NoOwner, p}
    /\ chainLock' = [k \in Keys |-> IF k \in Targets(items) THEN p ELSE chainLock[k]]
    /\ pend' = [pend EXCEPT ![p] = [k \in Keys |->
                   LET rows == WriteBatch(log[k] \o @[k], items[k])
                   IN  SubSeq(rows, Len(log[k]) + 1, Len(rows))]]

-----------------------------------------------------------------------------
(* The core and its verification.                                          *)

\* The page fetch returns to a cursor at last, from a database that shows the
\* first h records: the surviving records after last, PageSize at most.
Survivors(k, last, h) == {n \in last + 1 .. h : core[k][n] # "gone"}
PageOf(S) == {n \in S : Rank(S, n) < PageSize}

\* Mutant: contiguity is not checked, a page may start or go on after a gap.
BreaksAltered(k, last, page) == {n \in page : core[k][n] = "altered"}

\* verify_batch: the records at which the page breaks -- its seq does not
\* follow, or prev_hash is not the hash before it, or it does not recompute.
Breaks(k, last, page) ==
    {n \in page : core[k][n] = "altered" \/ (n - 1 # last /\ n - 1 \notin page)}

\* The checks verify_batch makes with a hint's assertion, on the last page
\* only: what the read reached must include the seq the hint named.
Stale(last, page, more, asserted) ==
    asserted > 0 /\ ~more /\ Max(page \cup {last}) < asserted

-----------------------------------------------------------------------------
Init ==
    /\ core = [k \in Keys |-> [n \in 1..AnchorSeq[k] |-> "gone"]]
    /\ log = NoRows
    /\ cursor = [k \in Keys |-> [last |-> 0, halt |-> 0]]
    /\ chainLock = [k \in Keys |-> NoOwner]
    /\ rowLock = [k \in Keys |-> NoOwner]
    /\ pend = [p \in Procs |-> NoRows]
    /\ staged = [p \in Procs |-> NoStage]
    /\ failed = [p \in Procs |-> FALSE]
    /\ pc = [p \in Procs |-> "idle"]
    /\ todo = [p \in Procs |-> <<>>]
    /\ st = [p \in Procs |-> NoDrain]
    /\ hint = [k \in Keys |-> 0]
    /\ hinted = FALSE
    /\ queue = [published |-> 0, delivered |-> 0, acked |-> {}, inHand |-> {}]
    /\ seen = [m \in 1..MaxMsgs |-> 0]
    /\ budget = [tampers |-> MaxTampers, acks |-> MaxAcks, fails |-> MaxFails,
                 hints |-> MaxHints]

(* The environment: the core, the queue's producers and the operator.      *)

\* The core commits one more accountability record of chain k.
CoreAppend(k) ==
    /\ Len(core[k]) < MaxRecs[k]
    /\ core' = [core EXCEPT ![k] = Append(@, "ok")]
    /\ UNCHANGED <<seen, dbVars, lockVars, txVars, procVars, queue, budget>>

\* A record of the core's table is altered or removed behind the core's back.
Tamper(k, n, how) ==
    /\ budget.tampers > 0
    /\ n \in 1..Len(core[k]) /\ core[k][n] # "gone"
    /\ core' = [core EXCEPT ![k][n] = how]
    /\ budget' = [budget EXCEPT !.tampers = @ - 1]
    /\ UNCHANGED <<seen, dbVars, lockVars, txVars, procVars, queue>>

\* A subsystem adds a message to the audit stream.
Publish ==
    /\ queue.published < MaxMsgs
    /\ queue' = [queue EXCEPT !.published = @ + 1]
    /\ seen' = [seen EXCEPT ![queue.published + 1] =
                   Len(core[MsgKey[queue.published + 1]])]
    /\ UNCHANGED <<core, dbVars, lockVars, txVars, procVars, budget>>

\* cursors.acknowledge: an operator clears a halt.
Acknowledge(k) ==
    /\ budget.acks > 0
    /\ cursor[k].halt # 0
    /\ rowLock[k] = NoOwner
    /\ cursor' = [cursor EXCEPT ![k].halt = 0]
    /\ budget' = [budget EXCEPT !.acks = @ - 1]
    /\ UNCHANGED <<coreVars, log, lockVars, txVars, procVars, queue>>

-----------------------------------------------------------------------------
(* Transactions.                                                           *)

\* What the end of p's transaction does, besides what it commits.
Drop(p) ==
    /\ chainLock' = [k \in Keys |-> IF chainLock[k] = p THEN NoOwner ELSE chainLock[k]]
    /\ rowLock' = [k \in Keys |-> IF rowLock[k] = p THEN NoOwner ELSE rowLock[k]]
    /\ pend' = [pend EXCEPT ![p] = NoRows]
    /\ staged' = [staged EXCEPT ![p] = NoStage]

\* Mutant: a transaction that a failed statement aborted is never rolled back.
ReleaseStillFailed(p) == Drop(p) /\ UNCHANGED failed

Release(p) == Drop(p) /\ failed' = [failed EXCEPT ![p] = FALSE]
Abort(p) == Drop(p) /\ failed' = [failed EXCEPT ![p] = TRUE]

\* The process is done with its pass or its batch, or has lost it.
GoIdle(p) ==
    /\ pc' = [pc EXCEPT ![p] = "idle"]
    /\ todo' = [todo EXCEPT ![p] = <<>>]
    /\ st' = [st EXCEPT ![p] = NoDrain]
    /\ IF p = Poller
       THEN /\ hint' = [k \in Keys |-> 0] /\ hinted' = FALSE
            /\ UNCHANGED queue
       ELSE /\ queue' = [queue EXCEPT !.inHand = {}]
            /\ UNCHANGED <<hint, hinted>>

\* Mutant: the batch is acked although its transaction is rolled back.
ResetAcked(p) ==
    /\ Release(p) /\ UNCHANGED dbVars
    /\ pc' = [pc EXCEPT ![p] = "idle"]
    /\ todo' = [todo EXCEPT ![p] = <<>>]
    /\ st' = [st EXCEPT ![p] = NoDrain]
    /\ hint' = [k \in Keys |-> 0] /\ hinted' = FALSE
    /\ queue' = [queue EXCEPT !.acked = @ \cup queue.inHand, !.inHand = {}]

\* _reset_conn: roll back and start over; what the queue delivered stays
\* delivered and is not acked.
Reset(p) == Release(p) /\ GoIdle(p) /\ UNCHANGED dbVars

\* After the chain at the head of todo: the next one, or what follows the drains.
AfterDrains(p) == IF p = Poller THEN "commit" ELSE "record"
NextChain(p) ==
    /\ todo' = [todo EXCEPT ![p] = Tail(@)]
    /\ st' = [st EXCEPT ![p] = NoDrain]
    /\ pc' = [pc EXCEPT ![p] = IF Len(todo[p]) = 1 THEN AfterDrains(p) ELSE "get"]

-----------------------------------------------------------------------------
(* The processes.                                                          *)

\* The chains of S in the order of draining.
Ordered(S) ==
    LET at == InOrder({i \in 1..Len(Order) : Order[i] \in S})
    IN  [i \in 1..Len(at) |-> Order[at[i]]]

\* The chains drain_all drains: the global one, then the registered tenants'.
DrainOrder == Ordered({Global} \cup Registered)

\* Mutant: only the global chain is drained before a batch.
GlobalFirst(ms) == <<Global>>

\* The chains _drain_core_first drains for a batch: the global one, then the
\* batch's tenants', whether they are registered or not.
ChainsFirst(ms) == Ordered({Global} \cup {MsgKey[m] : m \in ms})

\* Consumer.process: read what has not been delivered; poison is acked at once.
Read ==
    LET got == queue.delivered + 1 .. Min({queue.published, queue.delivered + ReadCount})
        valid == got \ Poison IN
    /\ pc[Consumer] = "idle"
    /\ got # {}
    /\ queue' = [queue EXCEPT !.delivered = Max(got),
                              !.acked = @ \cup (got \cap Poison),
                              !.inHand = valid]
    /\ IF valid = {}
       THEN UNCHANGED <<pc, todo>>
       ELSE /\ pc' = [pc EXCEPT ![Consumer] = "get"]
            /\ todo' = [todo EXCEPT ![Consumer] = ChainsFirst(valid)]
    /\ UNCHANGED <<coreVars, dbVars, lockVars, txVars, st, hint, hinted, budget>>

\* The poller's scheduled pass over every chain: drain_all.
StartPass ==
    /\ pc[Poller] = "idle"
    /\ pc' = [pc EXCEPT ![Poller] = "get"]
    /\ todo' = [todo EXCEPT ![Poller] = DrainOrder]
    /\ UNCHANGED <<coreVars, dbVars, lockVars, txVars, st, hint, hinted, queue, budget>>

\* A pass over the chains that hints named, each with a seq the core committed.
StartHinted(ks, h) ==
    /\ pc[Poller] = "idle"
    /\ budget.hints > 0
    /\ \A k \in Keys : h[k] \in 0..Len(core[k]) /\ (h[k] > 0 <=> k \in ToSet(ks))
    /\ pc' = [pc EXCEPT ![Poller] = "get"]
    /\ todo' = [todo EXCEPT ![Poller] = ks]
    /\ hint' = h
    /\ hinted' = TRUE
    /\ budget' = [budget EXCEPT !.hints = @ - 1]
    /\ UNCHANGED <<coreVars, dbVars, lockVars, txVars, st, queue>>

-----------------------------------------------------------------------------
(* AccountabilityPuller.drain on the chain at the head of todo.            *)

\* What a caller does with IntegrityBreak and StaleRead: the consumer gives
\* its batch up, a hinted pass rolls back and goes on with the next chain, a
\* scheduled pass goes on with the next chain in the same transaction.
RaiseRefusal(p) ==
    \/ p = Consumer /\ Reset(p)
    \/ p = Poller /\ hinted /\ Release(p) /\ NextChain(p)
          /\ UNCHANGED <<dbVars, hint, hinted, queue>>
    \/ p = Poller /\ ~hinted /\ NextChain(p)
          /\ UNCHANGED <<dbVars, lockVars, txVars, hint, hinted, queue>>

\* Any other exception: drain_all goes on, everyone else starts over.
RaiseError(p) ==
    \/ (p = Consumer \/ hinted) /\ Reset(p)
    \/ p = Poller /\ ~hinted /\ NextChain(p)
          /\ UNCHANGED <<dbVars, lockVars, txVars, hint, hinted, queue>>

\* A failing statement also aborts the transaction: Postgres drops its rows
\* and locks at once and refuses every statement until it is ended.
SqlError(p) ==
    \/ (p = Consumer \/ hinted) /\ Reset(p)
    \/ p = Poller /\ ~hinted /\ Abort(p) /\ NextChain(p)
          /\ UNCHANGED <<dbVars, hint, hinted, queue>>

\* The cursor as the transaction sees it, resumed at the archive when fresh.
Position(p, k) ==
    LET at == IF staged[p][k] # 0 THEN staged[p][k] ELSE cursor[k].last
    IN  IF at = 0 THEN AnchorSeq[k] ELSE at

\* cursors.get: a statement in a failed transaction fails; a halted chain is
\* left alone; otherwise drain from the cursor.
GetCursor(p) ==
    LET k == Head(todo[p]) IN
    /\ pc[p] = "get"
    /\ \/ failed[p] /\ SqlError(p)
       \/ /\ ~failed[p] /\ cursor[k].halt # 0
          /\ NextChain(p)
          /\ UNCHANGED <<dbVars, lockVars, txVars, hint, hinted, queue>>
       \/ /\ ~failed[p] /\ cursor[k].halt = 0
          /\ pc' = [pc EXCEPT ![p] = "fetch"]
          /\ st' = [st EXCEPT ![p] = [NoDrain EXCEPT !.last = Position(p, k)]]
          /\ UNCHANGED <<dbVars, lockVars, txVars, todo, hint, hinted, queue>>
    /\ UNCHANGED <<coreVars, budget>>

\* client.fetch and verify_batch: nothing new, a break, a stale read, or a
\* page to write.
Fetch(p) ==
    LET k == Head(todo[p])
        last == st[p].last
        asserted == IF p = Poller /\ st[p].pages = 0 THEN hint[k] ELSE 0 IN
    /\ pc[p] = "fetch"
    /\ \E h \in IF Lagging THEN 0..Len(core[k]) ELSE {Len(core[k])} :
          LET all == Survivors(k, last, h)
              page == PageOf(all)
              breaks == Breaks(k, last, page)
              more == page # all IN
          \/ /\ breaks # {}
             /\ pc' = [pc EXCEPT ![p] = "halt"]
             /\ st' = [st EXCEPT ![p].brk = Min(breaks)]
             /\ UNCHANGED <<dbVars, lockVars, txVars, todo, hint, hinted, queue>>
          \/ /\ breaks = {} /\ Stale(last, page, more, asserted)
             /\ RaiseRefusal(p)
          \/ /\ breaks = {} /\ ~Stale(last, page, more, asserted)
             /\ pc' = [pc EXCEPT ![p] = IF page = {} THEN "stage" ELSE "write"]
             /\ st' = [st EXCEPT ![p].page = [i \in 1..Cardinality(page) |->
                                                 CoreRow(k, InOrder(page)[i])],
                                 ![p].more = more]
             /\ UNCHANGED <<dbVars, lockVars, txVars, todo, hint, hinted, queue>>
    /\ UNCHANGED <<coreVars, budget>>

\* The core cannot be reached: an exception, but not a database error.
FetchFails(p) ==
    /\ pc[p] = "fetch"
    /\ budget.fails > 0
    /\ budget' = [budget EXCEPT !.fails = @ - 1]
    /\ RaiseError(p)
    /\ UNCHANGED coreVars

\* _persist_halt, on a connection of its own: the first break is kept.  It
\* is lost when the row stays locked beyond the statement timeout, or by any
\* other error of that connection.
PersistHalt(p) ==
    LET k == Head(todo[p]) IN
    /\ pc[p] = "halt"
    /\ rowLock[k] = NoOwner
    /\ cursor' = [cursor EXCEPT ![k].halt = IF @ = 0 THEN st[p].brk ELSE @]
    /\ pc' = [pc EXCEPT ![p] = "raise"]
    /\ UNCHANGED <<coreVars, log, lockVars, txVars, todo, st, hint, hinted, queue, budget>>

LoseHalt(p) ==
    /\ pc[p] = "halt"
    /\ pc' = [pc EXCEPT ![p] = "raise"]
    /\ UNCHANGED <<coreVars, dbVars, lockVars, txVars, todo, st, hint, hinted, queue, budget>>

RaiseBreak(p) ==
    /\ pc[p] = "raise"
    /\ RaiseRefusal(p)
    /\ UNCHANGED <<coreVars, budget>>

\* write_batch on a verified page, then the next page or the cursor.
\* No record here deletes a tenant, so _forget_tenant has nothing to do.
WritePage(p) ==
    LET k == Head(todo[p]) IN
    /\ pc[p] = "write"
    /\ \/ /\ k \in Broken
          /\ SqlError(p)
       \/ /\ k \notin Broken
          /\ WriteRows(p, [NoRows EXCEPT ![k] = st[p].page])
          /\ st' = [st EXCEPT ![p].last = Last(st[p].page).n,
                              ![p].pages = @ + 1]
          /\ pc' = [pc EXCEPT ![p] = IF st[p].more /\ st[p].pages + 1 < MaxPages
                                     THEN "fetch" ELSE "stage"]
          /\ UNCHANGED <<dbVars, rowLock, staged, failed, todo, hint, hinted, queue>>
    /\ UNCHANGED <<coreVars, budget>>

\* Mutant: the cursor is committed on a connection of its own.
StageAlone(p) ==
    LET k == Head(todo[p]) IN
    /\ pc[p] = "stage"
    /\ rowLock[k] = NoOwner
    /\ cursor' = [cursor EXCEPT ![k].last = IF st[p].pages > 0 THEN st[p].last ELSE @]
    /\ NextChain(p)
    /\ UNCHANGED <<coreVars, log, lockVars, txVars, hint, hinted, queue, budget>>

\* Mutant: the cursor is the next seq to read and not the last one read.
StageNext(p) ==
    LET k == Head(todo[p]) IN
    /\ pc[p] = "stage"
    /\ rowLock[k] \in {NoOwner, p}
    /\ rowLock' = [rowLock EXCEPT ![k] = p]
    /\ staged' = [staged EXCEPT ![p][k] = IF st[p].pages > 0 THEN st[p].last + 1 ELSE @]
    /\ NextChain(p)
    /\ UNCHANGED <<coreVars, dbVars, chainLock, pend, failed, hint, hinted, queue, budget>>

\* cursors.stage when something was appended, then touch_polled: both write
\* the chain's cursor row.
StageCursor(p) ==
    LET k == Head(todo[p]) IN
    /\ pc[p] = "stage"
    /\ rowLock[k] \in {NoOwner, p}
    /\ rowLock' = [rowLock EXCEPT ![k] = p]
    /\ staged' = [staged EXCEPT ![p][k] = IF st[p].pages > 0 THEN st[p].last ELSE @]
    /\ NextChain(p)
    /\ UNCHANGED <<coreVars, dbVars, chainLock, pend, failed, hint, hinted, queue, budget>>

-----------------------------------------------------------------------------
(* The end of a pass or a batch.                                           *)

\* The consumer's own write_batch: what the queue delivered, after the drains.
QueueRows ==
    [k \in Keys |->
        LET ms == InOrder({m \in queue.inHand : MsgKey[m] = k})
        IN  [i \in 1..Len(ms) |-> QueueRow(ms[i])]]
RecordQueue ==
    /\ pc[Consumer] = "record"
    /\ \/ Targets(QueueRows) \cap Broken # {} /\ Reset(Consumer)
       \/ /\ Targets(QueueRows) \cap Broken = {}
          /\ WriteRows(Consumer, QueueRows)
          /\ pc' = [pc EXCEPT ![Consumer] = "commit"]
          /\ UNCHANGED <<dbVars, rowLock, staged, failed, todo, st, hint, hinted, queue>>
    /\ UNCHANGED <<coreVars, budget>>

\* Mutant: staging a position replaces the cursor's whole row.
WholeCursor(p, k) ==
    IF staged[p][k] # 0 THEN [last |-> staged[p][k], halt |-> 0] ELSE cursor[k]

\* The cursor of k once p's transaction is committed: the upsert sets the
\* position and leaves the halt that another connection may have committed.
CursorAfter(p, k) ==
    IF staged[p][k] # 0 THEN [cursor[k] EXCEPT !.last = staged[p][k]] ELSE cursor[k]

\* conn.commit().  A transaction that an error aborted has nothing left to commit.
Commit(p) ==
    /\ pc[p] = "commit"
    /\ log' = [k \in Keys |-> log[k] \o pend[p][k]]
    /\ cursor' = [k \in Keys |-> CursorAfter(p, k)]
    /\ Release(p)
    /\ IF p = Poller
       THEN GoIdle(p)
       ELSE /\ pc' = [pc EXCEPT ![p] = "ack"]
            /\ UNCHANGED <<todo, st, hint, hinted, queue>>
    /\ UNCHANGED <<coreVars, budget>>

\* source.ack(valid_ids), only after the commit.
Ack ==
    /\ pc[Consumer] = "ack"
    /\ queue' = [queue EXCEPT !.acked = @ \cup queue.inHand, !.inHand = {}]
    /\ pc' = [pc EXCEPT ![Consumer] = "idle"]
    /\ UNCHANGED <<coreVars, dbVars, lockVars, txVars, todo, st, hint, hinted, budget>>

\* The process dies, or its connection does.
Fail(p) ==
    /\ pc[p] # "idle"
    /\ budget.fails > 0
    /\ budget' = [budget EXCEPT !.fails = @ - 1]
    /\ Reset(p)
    /\ UNCHANGED coreVars

\* Whose transaction must end before p's next statement returns.
BlockedBy(p) ==
    (CASE pc[p] = "write"  -> {chainLock[Head(todo[p])]}
       [] pc[p] = "stage"  -> {rowLock[Head(todo[p])]}
       [] pc[p] = "record" -> {chainLock[k] : k \in Targets(QueueRows)}
       [] OTHER -> {}) \ {p, NoOwner}

\* A statement that waits for a lock fails: it exceeds the statement timeout,
\* or Postgres picks it to break a deadlock.
WaitFails(p) ==
    /\ BlockedBy(p) # {}
    /\ SqlError(p)
    /\ UNCHANGED <<coreVars, budget>>

-----------------------------------------------------------------------------
ChainLists == {q \in UNION {[1..n -> Keys] : n \in 1..Cardinality(Keys)} : IsInjective(q)}

Environment ==
    \/ \E k \in Keys : CoreAppend(k) \/ Acknowledge(k)
    \/ \E k \in Keys : \E n \in 1..MaxRecs[k] : \E how \in {"altered", "gone"} :
          Tamper(k, n, how)
    \/ Publish

Proceed(p) ==
    \/ GetCursor(p) \/ Fetch(p) \/ PersistHalt(p) \/ LoseHalt(p) \/ RaiseBreak(p)
    \/ WritePage(p) \/ StageCursor(p) \/ Commit(p) \/ WaitFails(p)

Next ==
    \/ Environment
    \/ Read \/ RecordQueue \/ Ack \/ StartPass
    \/ \E ks \in ChainLists : \E h \in [Keys -> 0..Max({MaxRecs[k] : k \in Keys})] :
          StartHinted(ks, h)
    \/ \E p \in Procs : Proceed(p) \/ FetchFails(p) \/ Fail(p)

Spec == Init /\ [][Next]_vars

\* Both loops run forever, and a batch that waits for a chain lock is granted
\* it when the holder's transaction ends; nobody has to publish, tamper, hint
\* or fail.
FairSpec ==
    /\ Spec
    /\ WF_vars(Read) /\ SF_vars(RecordQueue) /\ WF_vars(Ack) /\ WF_vars(StartPass)
    /\ \A p \in Procs : WF_vars(Proceed(p))

-----------------------------------------------------------------------------
Items == [src : {"core", "queue"}, n : Nat \ {0}, status : {"ok", "altered", "gone"}]
Heads == ({"core", "queue"} \X (Nat \ {0})) \cup {NoId}
Rows == [item : Items, prev : Heads]
Draining == {"get", "fetch", "halt", "raise", "write", "stage"}

\* A drain, and the seqs it stands at, which the core has had.
DrainState == [last : Nat, page : Seq(Items), more : BOOLEAN, pages : Nat, brk : Nat]
DrainOK(d, top) ==
    d.last <= top /\ d.brk <= top /\ \A i \in 1..Len(d.page) : d.page[i].n <= top

CoreOK ==
    /\ core \in [Keys -> Seq({"ok", "altered", "gone"})]
    /\ \A k \in Keys : Len(core[k]) <= MaxRecs[k]

DbOK ==
    /\ log \in [Keys -> Seq(Rows)]
    /\ cursor \in [Keys -> [last : Nat, halt : Nat]]
    /\ \A k \in Keys : cursor[k].last <= MaxRecs[k] /\ cursor[k].halt <= MaxRecs[k]

TxOK ==
    /\ chainLock \in [Keys -> Procs \cup {NoOwner}]
    /\ rowLock \in [Keys -> Procs \cup {NoOwner}]
    /\ pend \in [Procs -> [Keys -> Seq(Rows)]]
    /\ staged \in [Procs -> [Keys -> Nat]]
    /\ \A p \in Procs, k \in Keys : staged[p][k] <= MaxRecs[k]
    /\ failed \in [Procs -> BOOLEAN]

ProcOK ==
    /\ pc \in [Procs -> Draining \cup {"idle", "record", "commit", "ack"}]
    /\ pc[Poller] \notin {"record", "ack"}
    /\ todo \in [Procs -> Seq(Keys)]
    /\ st \in [Procs -> DrainState]
    /\ \A p \in Procs : pc[p] \in Draining =>
          todo[p] # <<>> /\ DrainOK(st[p], MaxRecs[Head(todo[p])])
    /\ \A p \in Procs : pc[p] \notin Draining => st[p] = NoDrain
    /\ \A p \in Procs : pc[p] = "write" => st[p].page # <<>>
    /\ hint \in [Keys -> Nat] /\ hinted \in BOOLEAN

QueueOK ==
    /\ queue \in [published : 0..MaxMsgs, delivered : 0..MaxMsgs,
                   acked : SUBSET (1..MaxMsgs), inHand : SUBSET (1..MaxMsgs)]
    /\ queue.delivered <= queue.published
    /\ queue.acked \cup queue.inHand \subseteq 1..queue.delivered

\* The core, the database, the transactions, the two processes and the queue.
TypeOK ==
    /\ CoreOK /\ DbOK /\ TxOK /\ ProcOK /\ QueueOK
    /\ budget \in [tampers : Nat, acks : Nat, fails : Nat, hints : Nat]

\* The seqs of the core's records among rows.
CoreSeqs(rows) == {rows[i].item.n : i \in {j \in 1..Len(rows) : rows[j].item.src = "core"}}
Recorded(k) == CoreSeqs(log[k])

\* The core's records among rows are verified and go on after seq n, each once,
\* in order and without a gap.
InSequence(rows, n) ==
    \A i \in 1..Len(rows) : rows[i].item.src = "core" =>
        /\ rows[i].item.status = "ok" /\ rows[i].item.n > n
        /\ CoreSeqs(SubSeq(rows, 1, i - 1)) = n + 1 .. rows[i].item.n - 1

\* The audit log holds the core's records from the archive on, verified, each
\* once, in order and without a gap, whoever drained them and however often a
\* pass was cut short or repeated ("skip the gap to keep going" is what drain
\* must never do, puller.py).
NothingSkipped == \A k \in Keys : InSequence(log[k], AnchorSeq[k])

\* A committed cursor never claims more than was recorded: a crash loses no
\* record ("stage ... committed with them", cursors.py).
CursorBacked ==
    \A k \in Keys : cursor[k].last # 0 => cursor[k].last \in Recorded(k)

\* A halt names the first break found until an operator acknowledges it,
\* whatever the two drainers then find or commit (cursors.halt).
HaltKept ==
    [][\A k \in Keys : cursor[k].halt # 0 =>
          \/ cursor'[k].halt = cursor[k].halt
          \/ cursor'[k].halt = 0 /\ budget'.acks < budget.acks]_vars

\* An acked message is in the log, unless it was poison: an ack means "durably
\* in the DB" (writer.py), across crashes and rolled-back batches.
AckedIsDurable ==
    \A m \in queue.acked \ Poison : Has(log[MsgKey[m]], <<"queue", m>>)

\* A queue event is recorded after every core record that existed when it was
\* published and that the core still has ("drained BEFORE that event is
\* recorded -- never the reverse, and never partially", _drain_core_first).
Precedence ==
    \A k \in Keys : \A i \in 1..Len(log[k]) :
        LET item == log[k][i].item IN
        item.src = "queue" =>
            \A n \in AnchorSeq[k] + 1 .. seen[item.n] :
                \/ core[k][n] = "gone"
                \/ Has(SubSeq(log[k], 1, i - 1), <<"core", n>>)

\* Every row links to the row before it ("the row after it must still chain
\* onto the real tail", test_chain_concurrency_live.py).
ChainLinked ==
    \A k \in Keys : \A i \in 1..Len(log[k]) :
        log[k][i].prev = TailId(SubSeq(log[k], 1, i - 1))

\* The cursor is the highest seq recorded: rows and cursor are committed
\* together, "so the pair can never disagree" (cursors.py).
CursorAgrees ==
    \A k \in Keys : \A n \in Recorded(k) : n <= cursor[k].last

\* Every record of the global chain and of a registered tenant that the
\* archive does not hold is recorded in the end, when nothing is tampered with
\* and every chain can be written: whatever the queue delivers meanwhile,
\* however the two processes wait for each other's rows, and although a failed
\* statement takes the rows of every chain of its pass with it.  (A chain that
\* cannot be written takes the other chains' records with it on every pass, and
\* then this does not hold.)
EveryRecordArrives ==
    \A k \in {Global} \cup Registered : \A n \in AnchorSeq[k] + 1 .. MaxRecs[k] :
        (Len(core[k]) >= n) ~> (n \in Recorded(k))

\* Every message published is recorded in the end ("a DB failure leaves the
\* valid messages un-acked so they are retried on the next delivery").
EveryMessageArrives ==
    \A m \in (1..MaxMsgs) \ Poison :
        (queue.published >= m) ~> Has(log[MsgKey[m]], <<"queue", m>>)
=============================================================================
