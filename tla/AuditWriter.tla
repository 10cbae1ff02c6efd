----------------------------- MODULE AuditWriter -----------------------------
(***************************************************************************)
(* writer.py: the processes (queue consumer, accountability poller) that   *)
(* append to the hash-chained audit tables, each through transactions on a *)
(* connection of its own.                                                  *)
(*                                                                         *)
(* A transaction makes one or more calls of write_batch and then commits   *)
(* or is rolled back.  A call locks and creates its day partitions in      *)
(* sorted order, locks its chains in sorted order reading each tail under  *)
(* the lock, and then inserts row by row.  Every advisory lock is          *)
(* transaction scoped.  Postgres is READ COMMITTED: a statement sees the   *)
(* committed rows and the transaction's own.  Two things are Postgres's:   *)
(* CREATE TABLE ... PARTITION OF holds ACCESS EXCLUSIVE on the parent      *)
(* until the transaction ends, which every SELECT and INSERT on that       *)
(* parent waits for; and an INSERT that meets another transaction's        *)
(* uncommitted row with its key waits for that transaction.                *)
(***************************************************************************)
EXTENDS ChainOps, FiniteSets, TLC

CONSTANTS
    Writers,        \* the processes that call write_batch
    NoOwner,        \* a lock nobody holds
    Keys,           \* chain keys: tenant ids and "__global__"
    Tables,         \* parent tables
    Parent,         \* [Keys -> Tables]: _parent_table through schema_for_tenant
    Days,           \* UTC days
    Events,         \* contents of the rows the writers may be handed
    Archived,       \* contents of rows that retention has already archived
    KeyOf, DayOf,   \* an event's chain key and UTC day
    KeyRank, TableRank,  \* the string orders that sorted() uses
    InitialParts,   \* the partitions that exist at the start
    InitialAnchors, \* digests a table's archive anchor may hold at the start
    Redelivery,     \* may a batch hold an event that is already recorded?
    MaxBatch,       \* bound: rows in one call
    MaxCalls,       \* bound: write_batch calls in one transaction
    MaxSeq          \* bound: no call starts once a table's sequence is past it

Contents == Events \cup Archived
Digests == Seq(Contents)
Partitions == Tables \X Days
Owners == Writers \cup {NoOwner}

ASSUME WriterConstants ==
    /\ NoOwner \notin Writers
    /\ Parent \in [Keys -> Tables]
    /\ KeyOf \in [Events -> Keys]
    /\ DayOf \in [Events -> Days]
    /\ KeyRank \in [Keys -> Int] /\ TableRank \in [Tables -> Int]
    /\ \A j, k \in Keys : KeyRank[j] = KeyRank[k] => j = k
    /\ \A t, u \in Tables : TableRank[t] = TableRank[u] => t = u
    /\ Days \subseteq Int
    /\ InitialParts \subseteq Partitions
    /\ InitialAnchors \subseteq Seq(Archived)
    /\ Events \cap Archived = {}
    /\ Redelivery \in BOOLEAN
    /\ MaxBatch \in Nat /\ MaxCalls \in Nat /\ MaxSeq \in Nat

\* No two tenants share a schema.  schema_for_tenant drops characters, so this
\* is a fact about the tenant ids in use and not about the code.
NoAliasing == \A j, k \in Keys : Parent[j] = Parent[k] => j = k

VARIABLES
    table,    \* [Tables -> set of committed rows]
    pend,     \* [Writers -> [Tables -> rows of the open transaction]]
    nextseq,  \* [Tables -> the BIGSERIAL's next value]
    anchor,   \* [Tables -> catalog.anchor(parent).last_row_hash]
    parts,    \* committed partitions
    made,     \* [Writers -> partitions the open transaction created]
    plock,    \* [Partitions -> Owners] advisory lock on the partition name
    clock,    \* [Keys -> Owners] advisory lock "audit_chain:" + key
    xlock,    \* [Tables -> Owners] ACCESS EXCLUSIVE on the parent
    slock,    \* [Tables -> SUBSET Writers] the weaker locks of SELECT and INSERT
    pc,       \* [Writers -> where in write_batch the writer is]
    calls,    \* [Writers -> write_batch calls made in the open transaction]
    batch,    \* [Writers -> rows of the current call still to insert]
    needP,    \* [Writers -> partitions the call has not yet ensured]
    needK,    \* [Writers -> chains the call has not yet locked and read]
    heads     \* [Writers -> [Keys -> the head the next row chains onto]]

db == <<table, nextseq, anchor, parts>>
locks == <<plock, clock, xlock, slock>>
tx == <<pend, made, calls>>
call == <<pc, batch, needP, needK, heads>>
vars == <<db, locks, tx, call>>

NoRows == [t \in Tables |-> {}]
TableOf(e) == Parent[KeyOf[e]]
PartOf(e) == <<TableOf(e), DayOf[e]>>
EventsIn(s) == {s[i] : i \in 1..Len(s)}
Batches == UNION {[1..n -> Events] : n \in 1..MaxBatch}

\* What a statement of w's transaction sees.
Visible(w, t) == table[t] \cup pend[w][t]

\* Every row of t that exists in some transaction.
Stored(t) == table[t] \cup UNION {pend[w][t] : w \in Writers}

\* Mutant: the set of partitions is iterated unsorted.
AnyPart(p, S) == p \in S

\* p comes first in sorted(partitions); k comes first in sorted(chain_parents).
FirstPart(p, S) ==
    /\ p \in S
    /\ \A q \in S : \/ TableRank[p[1]] < TableRank[q[1]]
                    \/ TableRank[p[1]] = TableRank[q[1]] /\ p[2] <= q[2]
FirstKey(k, S) == k \in S /\ \A j \in S : KeyRank[k] <= KeyRank[j]

-----------------------------------------------------------------------------
Init ==
    /\ table = NoRows
    /\ pend = [w \in Writers |-> NoRows]
    /\ nextseq = [t \in Tables |-> 1]
    /\ anchor \in [Tables -> InitialAnchors]
    /\ parts = InitialParts
    /\ made = [w \in Writers |-> {}]
    /\ plock = [p \in Partitions |-> NoOwner]
    /\ clock = [k \in Keys |-> NoOwner]
    /\ xlock = [t \in Tables |-> NoOwner]
    /\ slock = [t \in Tables |-> {}]
    /\ pc = [w \in Writers |-> "idle"]
    /\ calls = [w \in Writers |-> 0]
    /\ batch = [w \in Writers |-> <<>>]
    /\ needP = [w \in Writers |-> {}]
    /\ needK = [w \in Writers |-> {}]
    /\ heads = [w \in Writers |-> [k \in Keys |-> NoHash]]

\* Without re-delivery a batch holds each event once, and none that is stored
\* or in another writer's hands.
FreshBatch(w, b) ==
    /\ \A i, j \in 1..Len(b) : b[i] = b[j] => i = j
    /\ \A e \in EventsIn(b) :
          /\ \A r \in Stored(TableOf(e)) : r.ev # e
          /\ \A v \in Writers : e \notin EventsIn(batch[v])

\* The caller hands write_batch a batch: in a new transaction, or in one that
\* has already made a call (drain's pages, a drain before the queue's rows).
Call(w, b) ==
    /\ pc[w] \in {"idle", "open"}
    /\ calls[w] < MaxCalls
    /\ \A t \in Tables : nextseq[t] <= MaxSeq
    /\ Redelivery \/ FreshBatch(w, b)
    /\ calls' = [calls EXCEPT ![w] = @ + 1]
    /\ batch' = [batch EXCEPT ![w] = b]
    /\ needP' = [needP EXCEPT ![w] = {PartOf(e) : e \in EventsIn(b)}]
    /\ needK' = [needK EXCEPT ![w] = {KeyOf[e] : e \in EventsIn(b)}]
    /\ pc' = [pc EXCEPT ![w] = "locking"]
    /\ UNCHANGED <<db, locks, pend, made, heads>>

\* Mutant: the partition's advisory lock is not taken.
LockPartitionUnlocked(w) ==
    /\ pc[w] = "locking"
    /\ needP[w] # {}
    /\ pc' = [pc EXCEPT ![w] = "ensure"]
    /\ UNCHANGED <<db, locks, tx, batch, needP, needK, heads>>

\* _ensure_partition: the advisory lock on the partition name.
LockPartition(w) ==
    /\ pc[w] = "locking"
    /\ \E p \in needP[w] :
          /\ FirstPart(p, needP[w])
          /\ plock[p] \in {NoOwner, w}
          /\ plock' = [plock EXCEPT ![p] = w]
    /\ pc' = [pc EXCEPT ![w] = "ensure"]
    /\ UNCHANGED <<db, clock, xlock, slock, tx, batch, needP, needK, heads>>

\* CREATE TABLE IF NOT EXISTS looks the name up: present, the statement is
\* done; missing, it goes on to create.
FindPartition(w) ==
    /\ pc[w] = "ensure"
    /\ \E p \in needP[w] :
          /\ FirstPart(p, needP[w])
          /\ IF p \in parts \cup made[w]
             THEN /\ needP' = [needP EXCEPT ![w] = @ \ {p}]
                  /\ pc' = [pc EXCEPT ![w] = "locking"]
             ELSE /\ pc' = [pc EXCEPT ![w] = "create"]
                  /\ UNCHANGED needP
    /\ UNCHANGED <<db, locks, tx, batch, needK, heads>>

\* ... and creates, once nobody else has the parent open.
CreatePartition(w) ==
    /\ pc[w] = "create"
    /\ \E p \in needP[w] :
          /\ FirstPart(p, needP[w])
          /\ xlock[p[1]] \in {NoOwner, w}
          /\ slock[p[1]] \subseteq {w}
          /\ xlock' = [xlock EXCEPT ![p[1]] = w]
          /\ made' = [made EXCEPT ![w] = @ \cup {p}]
          /\ needP' = [needP EXCEPT ![w] = @ \ {p}]
    /\ pc' = [pc EXCEPT ![w] = "locking"]
    /\ UNCHANGED <<db, plock, clock, slock, pend, calls, batch, needK, heads>>

\* Mutant: the chain's advisory lock is not taken.
LockChainUnlocked(w) ==
    /\ pc[w] = "locking"
    /\ needP[w] = {} /\ needK[w] # {}
    /\ pc' = [pc EXCEPT ![w] = "seed"]
    /\ UNCHANGED <<db, locks, tx, batch, needP, needK, heads>>

\* _lock_chain: the chain's advisory lock, once every partition is ensured.
LockChain(w) ==
    /\ pc[w] = "locking"
    /\ needP[w] = {}
    /\ \E k \in needK[w] :
          /\ FirstKey(k, needK[w])
          /\ clock[k] \in {NoOwner, w}
          /\ clock' = [clock EXCEPT ![k] = w]
    /\ pc' = [pc EXCEPT ![w] = "seed"]
    /\ UNCHANGED <<db, plock, xlock, slock, tx, batch, needP, needK, heads>>

\* Mutant: a head cached by an earlier batch is trusted.
SeedHeadCached(w) ==
    /\ pc[w] = "seed"
    /\ \E k \in needK[w] :
          LET t == Parent[k] IN
          /\ FirstKey(k, needK[w])
          /\ xlock[t] \in {NoOwner, w}
          /\ slock' = [slock EXCEPT ![t] = @ \cup {w}]
          /\ heads' = IF heads[w][k] # NoHash THEN heads
                      ELSE [heads EXCEPT ![w][k] = TailHash(Visible(w, t), anchor[t])]
          /\ needK' = [needK EXCEPT ![w] = @ \ {k}]
          /\ pc' = [pc EXCEPT ![w] = IF needK[w] = {k} THEN "rows" ELSE "locking"]
    /\ UNCHANGED <<db, plock, clock, xlock, tx, batch, needP>>

\* Mutant: an empty table is taken for a new chain, archive or not.
SeedHeadNoAnchor(w) ==
    /\ pc[w] = "seed"
    /\ \E k \in needK[w] :
          LET t == Parent[k] IN
          /\ FirstKey(k, needK[w])
          /\ xlock[t] \in {NoOwner, w}
          /\ slock' = [slock EXCEPT ![t] = @ \cup {w}]
          /\ heads' = [heads EXCEPT ![w][k] = TailHash(Visible(w, t), NoHash)]
          /\ needK' = [needK EXCEPT ![w] = @ \ {k}]
          /\ pc' = [pc EXCEPT ![w] = IF needK[w] = {k} THEN "rows" ELSE "locking"]
    /\ UNCHANGED <<db, plock, clock, xlock, tx, batch, needP>>

\* _seed_head: read the tail, or the archive anchor when the table is empty.
SeedHead(w) ==
    /\ pc[w] = "seed"
    /\ \E k \in needK[w] :
          LET t == Parent[k] IN
          /\ FirstKey(k, needK[w])
          /\ xlock[t] \in {NoOwner, w}
          /\ slock' = [slock EXCEPT ![t] = @ \cup {w}]
          /\ heads' = [heads EXCEPT ![w][k] = TailHash(Visible(w, t), anchor[t])]
          /\ needK' = [needK EXCEPT ![w] = @ \ {k}]
          /\ pc' = [pc EXCEPT ![w] = IF needK[w] = {k} THEN "rows" ELSE "locking"]
    /\ UNCHANGED <<db, plock, clock, xlock, tx, batch, needP>>

\* Mutant: the insert has no ON CONFLICT clause and no unique key behind it.
InsertAlways(w, e, k, t) ==
    LET row == RowOf(nextseq[t], e, heads[w][k]) IN
    /\ pend' = [pend EXCEPT ![w][t] = @ \cup {row}]
    /\ heads' = [heads EXCEPT ![w][k] = row.hash]

\* Mutant: the inserted row is not made the head.
InsertKeepHead(w, e, k, t) ==
    /\ \A r \in Visible(w, t) : r.ev # e
    /\ pend' = [pend EXCEPT ![w][t] = @ \cup {RowOf(nextseq[t], e, heads[w][k])}]
    /\ UNCHANGED heads

\* The row is new to the table: inserted, and its hash is the head.
InsertFresh(w, e, k, t) ==
    LET row == RowOf(nextseq[t], e, heads[w][k]) IN
    /\ \A r \in Visible(w, t) : r.ev # e
    /\ pend' = [pend EXCEPT ![w][t] = @ \cup {row}]
    /\ heads' = [heads EXCEPT ![w][k] = row.hash]

\* Mutant: a duplicate leaves the hash that was computed for it as the head.
AdoptComputed(w, e, k, t) ==
    \E r \in Visible(w, t) :
        /\ r.ev = e
        /\ heads' = [heads EXCEPT ![w][k] = RowHash(@, e)]
        /\ UNCHANGED pend

\* ON CONFLICT (event_id, ts) DO NOTHING: the stored hash becomes the head.
AdoptDuplicate(w, e, k, t) ==
    \E r \in Visible(w, t) :
        /\ r.ev = e
        /\ heads' = [heads EXCEPT ![w][k] = r.hash]
        /\ UNCHANGED pend

\* One turn of write_batch's row loop.  The BIGSERIAL advances either way.
InsertRow(w) ==
    /\ pc[w] = "rows" /\ batch[w] # <<>>
    /\ LET e == Head(batch[w])
           k == KeyOf[e]
           t == Parent[k] IN
       /\ \A v \in Writers \ {w} : \A r \in pend[v][t] : r.ev # e
       /\ InsertFresh(w, e, k, t) \/ AdoptDuplicate(w, e, k, t)
       /\ nextseq' = [nextseq EXCEPT ![t] = @ + 1]
    /\ batch' = [batch EXCEPT ![w] = Tail(@)]
    /\ pc' = [pc EXCEPT ![w] = IF Len(batch[w]) = 1 THEN "open" ELSE "rows"]
    /\ UNCHANGED <<table, anchor, parts, locks, made, calls, needP, needK>>

\* Mutant: the chain lock is session scoped (pg_advisory_lock).
EndKeepingChains(w) ==
    /\ plock' = [p \in Partitions |-> IF plock[p] = w THEN NoOwner ELSE plock[p]]
    /\ xlock' = [t \in Tables |-> IF xlock[t] = w THEN NoOwner ELSE xlock[t]]
    /\ slock' = [t \in Tables |-> slock[t] \ {w}]
    /\ pend' = [pend EXCEPT ![w] = NoRows]
    /\ made' = [made EXCEPT ![w] = {}]
    /\ calls' = [calls EXCEPT ![w] = 0]
    /\ pc' = [pc EXCEPT ![w] = "idle"]
    /\ batch' = [batch EXCEPT ![w] = <<>>]
    /\ needP' = [needP EXCEPT ![w] = {}]
    /\ needK' = [needK EXCEPT ![w] = {}]
    /\ UNCHANGED <<nextseq, anchor, clock>>

\* What the end of a transaction does on the database's side and the caller's.
EndTransaction(w) ==
    /\ plock' = [p \in Partitions |-> IF plock[p] = w THEN NoOwner ELSE plock[p]]
    /\ clock' = [k \in Keys |-> IF clock[k] = w THEN NoOwner ELSE clock[k]]
    /\ xlock' = [t \in Tables |-> IF xlock[t] = w THEN NoOwner ELSE xlock[t]]
    /\ slock' = [t \in Tables |-> slock[t] \ {w}]
    /\ pend' = [pend EXCEPT ![w] = NoRows]
    /\ made' = [made EXCEPT ![w] = {}]
    /\ calls' = [calls EXCEPT ![w] = 0]
    /\ pc' = [pc EXCEPT ![w] = "idle"]
    /\ batch' = [batch EXCEPT ![w] = <<>>]
    /\ needP' = [needP EXCEPT ![w] = {}]
    /\ needK' = [needK EXCEPT ![w] = {}]
    /\ UNCHANGED <<nextseq, anchor>>

\* The caller commits, when every call has returned.  Its head cache survives.
Commit(w) ==
    /\ pc[w] = "open"
    /\ table' = [t \in Tables |-> table[t] \cup pend[w][t]]
    /\ parts' = parts \cup made[w]
    /\ EndTransaction(w)
    /\ UNCHANGED heads

\* A statement fails or times out, the connection or the process is lost, or
\* Postgres picks this transaction as the victim of a deadlock.  The caller
\* drops its head cache with the connection (_reset_conn).
Abort(w) ==
    /\ pc[w] # "idle"
    /\ EndTransaction(w)
    /\ heads' = [heads EXCEPT ![w] = [k \in Keys |-> NoHash]]
    /\ UNCHANGED <<table, parts>>

Step(w) ==
    \/ LockPartition(w) \/ FindPartition(w) \/ CreatePartition(w)
    \/ LockChain(w) \/ SeedHead(w) \/ InsertRow(w) \/ Commit(w)

Next ==
    \E w \in Writers :
        \/ \E b \in Batches : Call(w, b)
        \/ LockPartition(w)
        \/ FindPartition(w)
        \/ CreatePartition(w)
        \/ LockChain(w)
        \/ SeedHead(w)
        \/ InsertRow(w)
        \/ Commit(w)
        \/ Abort(w)

Spec == Init /\ [][Next]_vars

-----------------------------------------------------------------------------
\* The state of the tables, the locks and the calls (a head is a row's digest).
TypeOK ==
    /\ table \in [Tables -> SUBSET Rows(Contents)]
    /\ pend \in [Writers -> [Tables -> SUBSET Rows(Contents)]]
    /\ nextseq \in [Tables -> Nat]
    /\ anchor \in [Tables -> Digests]
    /\ parts \subseteq Partitions
    /\ made \in [Writers -> SUBSET Partitions]
    /\ plock \in [Partitions -> Owners]
    /\ clock \in [Keys -> Owners]
    /\ xlock \in [Tables -> Owners]
    /\ slock \in [Tables -> SUBSET Writers]
    /\ pc \in [Writers -> {"idle", "locking", "ensure", "create", "seed", "rows", "open"}]
    /\ calls \in [Writers -> Nat]
    /\ batch \in [Writers -> Seq(Events)]
    /\ needP \in [Writers -> SUBSET Partitions]
    /\ needK \in [Writers -> SUBSET Keys]
    /\ heads \in [Writers -> [Keys -> Digests]]

\* verify_chain accepts every committed table at every moment, whatever the
\* writers that share it are doing: each row links to the row before it and
\* the first to the archive (writer.py, "the chain head (_lock_chain)").
ChainLinked == \A t \in Tables : Linked(table[t], anchor[t])

\* A re-delivered event is never recorded twice (ON CONFLICT (event_id, ts)
\* DO NOTHING), also when two writers hold it at the same time.
OnceOnly == \A t \in Tables : \A r, q \in table[t] : r.ev = q.ev => r = q

\* The digest of r was computed over the archive or over an earlier row of S.
RootedIn(r, S, a) ==
    /\ HashOK(r)
    /\ r.prev = a \/ \E q \in S : q.seq < r.seq /\ q.hash = r.prev

\* No committed row chains onto a row that was rolled back, nor onto a digest
\* that was computed and never stored: what its digest was computed over is the
\* archive or some committed row with a smaller seq (_reset_conn, "reseeds from
\* the committed DB state").  That it is the row just before it is ChainLinked.
Rooted ==
    \A t \in Tables : \A r \in table[t] : RootedIn(r, table[t], anchor[t])

\* Committed rows are never changed or removed, and what a commit adds comes
\* after them in seq order, although seq is drawn before the commit: the order
\* verify_chain walks is the order in which rows became durable.
AppendOnly ==
    [][\A t \in Tables :
          /\ table[t] \subseteq table'[t]
          /\ \A r \in table'[t] \ table[t], q \in table[t] : q.seq < r.seq]_vars

\* A partition that CREATE TABLE IF NOT EXISTS found missing is still missing
\* when it is created: the loser of that race would fail with DuplicateTable
\* and lose its batch (_ensure_partition).
NoDuplicateTable ==
    \A w \in Writers : pc[w] = "create" =>
        \A p \in needP[w] : FirstPart(p, needP[w]) => p \notin parts

\* The writers whose transactions must end before w's next statement returns.
Blockers(w) ==
    {v \in Writers \ {w} :
        \/ pc[w] = "locking" /\ \E p \in needP[w] :
              FirstPart(p, needP[w]) /\ plock[p] = v
        \/ pc[w] = "locking" /\ needP[w] = {} /\ \E k \in needK[w] :
              FirstKey(k, needK[w]) /\ clock[k] = v
        \/ pc[w] = "create" /\ \E p \in needP[w] :
              FirstPart(p, needP[w]) /\ (xlock[p[1]] = v \/ v \in slock[p[1]])
        \/ pc[w] = "seed" /\ \E k \in needK[w] :
              FirstKey(k, needK[w]) /\ xlock[Parent[k]] = v
        \/ pc[w] = "rows" /\ \E r \in pend[v][TableOf(Head(batch[w]))] :
              r.ev = Head(batch[w])}

\* All writers of S wait, each for another one of S.
Circular(S) == S # {} /\ \A w \in S : Blockers(w) \cap S # {}

\* w takes the locks of one sorted sequence and nothing else: it is in the
\* first call of its transaction and has not created a partition, which would
\* keep the parent locked until the commit.
OneSequence(w) == calls[w] <= 1 /\ made[w] = {}

\* Writers that each take one sorted sequence never wait for one another, with
\* partitions found and created beside them, duplicates that wait for an
\* uncommitted key, and aborts: in every circular wait somebody is in a later
\* call of its transaction or has created a partition.  ("Every caller acquires
\* overlapping locks in the same sequence and cannot deadlock", _lock_chain,
\* claims the same of all callers; that is NoDeadlock, which does not hold.)
SortedNeverCircular ==
    \A S \in SUBSET Writers : Circular(S) => \E w \in S : ~OneSequence(w)

\* No set of writers ever all wait for one another.
NoDeadlock == \A S \in SUBSET Writers : ~Circular(S)

\* Postgres's deadlock detector: a transaction on a cycle of waits is aborted.
BreakDeadlock(w) ==
    /\ \E S \in SUBSET Writers :
          /\ w \in S /\ Circular(S)
          /\ \A T \in SUBSET S : Circular(T) => T = S
    /\ Abort(w)

\* Postgres grants a lock to its waiters in turn and breaks every deadlock, and
\* a caller that is not waiting runs on; nothing makes a caller start a
\* transaction or fail otherwise.
FairSpec ==
    /\ Spec
    /\ \A w \in Writers : SF_vars(Step(w))
    /\ WF_vars(\E w \in Writers : BreakDeadlock(w))

\* Every transaction ends, and no lock wait is for ever: not among the waits of
\* several calls, of partition creation and of duplicates for uncommitted rows.
EveryTransactionEnds ==
    \A w \in Writers : pc[w] # "idle" ~> pc[w] = "idle"

\* The chains that w's current call has locked and read and will append to.
ReadKeys(w) == {KeyOf[e] : e \in EventsIn(batch[w])} \ needK[w]

\* The head w holds of k is the tail of the chain as w's statements see it.
OnTail(w, k) == heads[w][k] = TailHash(Visible(w, Parent[k]), anchor[Parent[k]])

\* w's step takes the next row of its batch, one of k, and inserts nothing.
SkipsRow(w, k) ==
    /\ batch[w] # <<>> /\ KeyOf[Head(batch[w])] = k
    /\ batch'[w] = Tail(batch[w])
    /\ pend'[w] = pend[w]

\* From the lock on a chain to the call's last row of it, the head in the
\* writer's hands is the real tail ("this batch must still chain onto the real
\* tail"), whatever the other writers insert, commit or roll back and whichever
\* of them held the same event: what takes it off the tail is only the call's
\* own re-delivered row, which leaves a stored row's digest in its place until
\* the next new row.  (That the new row then forks the chain is in the README:
\* ChainLinked needs ~Redelivery.)
HeadOnTail ==
    [][\A w \in Writers : \A k \in ReadKeys(w)' :
          \/ OnTail(w, k)'
          \/ /\ k \in ReadKeys(w) /\ pend'[w][Parent[k]] = pend[w][Parent[k]]
             /\ ~OnTail(w, k) \/ SkipsRow(w, k)
             /\ \E r \in Visible(w, Parent[k])' : r.hash = heads'[w][k]]_vars

-----------------------------------------------------------------------------
(* The inductive strengthening of ChainLinked and AppendOnly.              *)

\* Where a writer is in write_batch fits the work it has left and the chain
\* locks it holds.
CallInv(w) ==
    /\ pc[w] \in {"idle", "open"} <=> batch[w] = <<>>
    /\ pc[w] = "rows" => needK[w] = {}
    /\ pc[w] = "seed" => \A k \in needK[w] : FirstKey(k, needK[w]) => clock[k] = w
    /\ \A k \in ReadKeys(w) : clock[k] = w

\* Uncommitted rows are the chain lock holder's alone.
PendInv ==
    \A w \in Writers, t \in Tables :
        pend[w][t] # {} => \E k \in Keys : Parent[k] = t /\ clock[k] = w

LockInv == (\A w \in Writers : CallInv(w)) /\ PendInv

\* seq runs ahead of every row, and uncommitted rows come after committed ones.
SeqInv ==
    \A t \in Tables :
        /\ \A r \in table[t] : r.seq < nextseq[t]
        /\ \A w \in Writers : \A r \in pend[w][t] :
              r.seq < nextseq[t] /\ \A q \in table[t] : q.seq < r.seq

\* What a writer still has to insert is not stored, nor in another's hands.
FreshInv ==
    \A w \in Writers :
        /\ \A i, j \in 1..Len(batch[w]) : batch[w][i] = batch[w][j] => i = j
        /\ \A e \in EventsIn(batch[w]) :
              /\ \A r \in table[TableOf(e)] : r.ev # e
              /\ \A v \in Writers : \A r \in pend[v][TableOf(e)] : r.ev # e
              /\ \A v \in Writers \ {w} : e \notin EventsIn(batch[v])

\* Every transaction sees a linked chain with a tail, and the head that a
\* writer has read of a chain is that tail until the writer uses it.
HeadInv ==
    /\ \A t \in Tables : Linked(table[t], anchor[t]) /\ HasTail(table[t])
    /\ \A w \in Writers, t \in Tables :
          Linked(Visible(w, t), anchor[t]) /\ HasTail(Visible(w, t))
    /\ \A w \in Writers : \A k \in ReadKeys(w) :
          heads[w][k] = TailHash(Visible(w, Parent[k]), anchor[Parent[k]])

\* A write_batch call never appends behind the back of another: the locks it
\* holds, the seqs it draws and the heads it has read stay consistent from the
\* first lock to the last row (the argument of _lock_chain and _seed_head).
ChainInv == LockInv /\ SeqInv /\ FreshInv /\ HeadInv

-----------------------------------------------------------------------------
\* The abstract log: what a table's newest digest commits to.
AuditLog == INSTANCE AuditLogSpec
    WITH log <- [t \in Tables |-> TailHash(table[t], anchor[t])]

\* The writers' transactions, seen through the newest digest of each table,
\* are atomic appends of new events to a log that never loses one.
ImplementsAuditLog == AuditLog!Spec
=============================================================================
