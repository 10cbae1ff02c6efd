# Verification of the audit service

TLA+ models of the FileEngine audit service (`src/src/audit_service`), the TLC
configurations that check them and the TLAPS proofs about them. Paths below are
relative to that directory unless they say otherwise.

## 1. The system

The service keeps, for each tenant and for the deployment (`__global__`), an
append-only audit table in Postgres, partitioned by UTC day, in which every row
carries the SHA-256 of its content and of the row before it. Two long-running
processes write to it through the same code, from separate containers:

* the **queue consumer** (`consumer.py`) reads the Redis stream that every
  subsystem publishes to, and
* the **accountability poller** (`poller.py`) pulls the core's own hash-chained
  accountability records, on a schedule and when a hint names a chain.

The consumer also pulls, before it records what it read: the core's records come
first. What has been pulled is remembered in `accountability_cursor`.

| component | state it keeps | operations | what makes it correct |
|---|---|---|---|
| writer (`writer.py`, `hashing.py`, `chain.py`, `verify.py`) | audit tables, day partitions, advisory locks, a head per chain | `write_batch`, `verify_chain` | one unbroken chain per table; every event once; commits only append; nobody waits for ever |
| consumer (`consumer.py`) | messages in hand, connection, heads | read, drain first, record, commit, ack | acked means durable; core records before younger queue events; nothing published is lost |
| puller, cursors, verification (`puller.py`, `cursors.py`, `accountability.py`, `core_client.py`) | cursor and halt per chain | `drain`, `drain_all`, `_persist_halt`, `acknowledge`, `_forget_tenant` | no record skipped or recorded unverified; cursor and rows agree; an alarm stays until acknowledged |
| poller (`poller.py`) | schedule, hints | scheduled pass, hinted pass | every record arrives; tenants do not affect each other |
| incident queue (`queue.py`) | `incident_ack` entries | `transition` | the order of the entries is the procedure |
| retention (`retention.py`, `archive.py`, `catalog.py`, `archive_cli.py`) | objects, catalogued segments, the anchor of each chain | archive, read back, record, drop; `verify_archive`, `export_rows` | what is dropped is archived; archive and table are one chain at every moment |
| accountability retention (`accountability_retention.py`) | the same for the core's own record | cap at the cursor, walk, archive, delete | only what was pulled and verified is deleted; no drain takes the deletion for tampering; what is aged leaves in the end |
| repair (`rechain.py`) | - | rewrite a forked chain's links, mark the repair | a fork is cured, an altered row stays visible, a sound chain is left alone |
| rules engine (`engine.py`, `windows.py`, `rules.py`, `security.py`, `notifier.py`) | rules, sliding windows, cooldowns, incidents | read, feed, evaluate, fire, notify; edit rules | an incident has its events, a burst is not missed, no tenant reads of another |
| tenant lifecycle and health (`puller.py`, `poller.py`, `drain_health.py`, `/readyz`) | registered tenants, heartbeat per chain | `_forget_tenant`, passes, `snapshot`, `is_healthy` | nothing but a destroyed tenant's history is forgotten; a stopped drain gets loud; no alarm without a cause stays on |
| API, metrics, keys, config | none of their own | read, check access | - |

What is hard here: two processes that append to one chain from two transactions;
locks of four kinds (advisory on partition and chain, Postgres's own on the parent
table, rows of the cursor table) held to the end of transactions that make several
calls; state read before a network call and used after it; a transaction shared by
all tenants of a pass; at-least-once delivery and the duplicates it brings; an alarm
written on a second connection while the first is still open; a check and an insert
without a lock between them; an archive and a drop that must be one event for
writers, drains, verifiers and repairers that all look at different moments;
windows in memory over events that come late. `PROJECT.json` lists these hazards at their lines.

## 2. The modules

| module | models | state and actions |
|---|---|---|
| `ChainOps` | `hashing.py`, `ChainWalker`, `_seed_head`'s query | operators on a set of rows: `RowHash`, `TailHash`, `Linked` (the verdict of `verify_chain`) |
| `AuditLogSpec` | what the tables promise | one growing sequence of events per table; a transaction appends atomically |
| `AuditWriter` | `write_batch` and the transactions around it | tables, uncommitted rows, sequences, partitions, the four locks, and per writer where it is in the call. `Call`, `LockPartition`, `FindPartition`, `CreatePartition`, `LockChain`, `SeedHead`, `InsertRow`, `Commit`, `Abort`; `BreakDeadlock` is Postgres's deadlock detector |
| `AuditWriter_proofs` | - | theorems about `AuditWriter` |
| `FiniteOrder_proofs` | - | facts on finite sets and orders that the other proofs cite: `Max` and `Min`, a maximal element of an acyclic relation, induction over a set of numbers |
| `AccountabilityDrain_proofs`, `AccountabilityRetention_proofs`, `Retention_proofs`, `Rechain_proofs`, `RulesEngine_proofs` | - | theorems about the modules of those names |
| `AccountabilityDrain` | consumer, poller, puller, cursors, record verification | the core's records, committed rows and cursors, the two transactions, the queue. One action per statement at which the other process can come in between: `GetCursor`, `Fetch`, `PersistHalt`/`LoseHalt`, `RaiseBreak`, `WritePage`, `StageCursor`, `RecordQueue`, `Commit`, `Ack`, and `Fail`, `FetchFails`, `WaitFails` |
| `IncidentQueue`, `IncidentQueue_proofs` | `queue.transition` | `Check` (read and validate), `Insert` (draws the id), `Commit`, `Abort` |
| `Retention` | `retention.run_scope` and what it calls, the object store, the catalog; extends `AuditWriter`, whose writers go on | `today`, a run per job, `store`, `catalog`. `BeginRun`, `LockAged`, `Relist`, `Select`, `OpenStream`, `PutPart`, `PutManifest`, `DropPartitions`, `CommitRun`, `RunEnds`; the operators `SelectDroppable`, `VerifyArchive`, `ExportRows` |
| `Rechain` | `rechain.repair`, `verify_chain`; extends `Retention` | the repair in progress. `BeginRepair` and `VerifyBefore` (the anchor, then the rows), `LockForRepair`, `Relink`, `VerifyAfter`, `CommitRepair`, `MarkRepair`; `Fork` (a writer from before the chain lock) and `Tamper` |
| `AccountabilityRetention` | `accountability_retention.run_scope`, and of a drain what it can observe | the core's table, cursor, archive, runs. One action per statement: `LockRun`, `ReadCursor`, `Count`, `OpenStream`, `PutPart`, `CommitRun`; `BeginDrain`, `ReadAnchor`, `Fetch`, `CommitDrain`; `Tamper`, `ResetCursor`, `Acknowledge` |
| `RulesEngine` | the engine, its windows, the rule and incident stores, the mail decision, the rule routes | rules and their cache, the batch, windows, cooldowns, incidents. `Read`, `BeginFeed`, `EvalRule`, `Notify`, `Ack`, `Restart`, `PutRule`, `DeleteRule`, `GetRules`, and the failing calls |
| `TenantLifecycle` | `drain_all`, `_forget_tenant`, heartbeat and schedule, `drain_health`, `/readyz` | registered tenants, the core's global chain, `audit_log_global`, cursor rows with their age, two processes. `StartPass`, `StartBatch`, `GetCursor`, `FetchGlobal`, `FetchTenant`, `WritePage`, `Touch`, `Commit`, `Break`, `WaitFails`, `Crash`, `Stop`, `Tick` |
| `MC...` | - | values of the constants for TLC |

`Rechain` extends `Retention` extends `AuditWriter` extends `ChainOps`: writers,
retention and repair run against one another with the same tables and locks.
`AccountabilityDrain`, `AccountabilityRetention` and `TenantLifecycle` look at the
same drain at three grains: record verification and failures; what a deletion in the
core does to it; what the list of chains does to it.

Abstractions. A digest is the sequence of events it commits to, so SHA-256 is
collision free and a row's content is one value. `AuditWriter` identifies an event
with `(event_id, ts)` and all hashed columns. `AccountabilityDrain` takes
`write_batch` as one step per call (its inside is `AuditWriter`'s business) and a
core record as intact, altered or gone; timestamps of core records order them as
their seqs do, as the core guarantees. `IncidentQueue` leaves out the texts a
transition requires: without them it is refused before it writes.

A day of `Retention` is a month's number (retention counts in months), an object is
the rows or the list of parts that were put, and encryption, compression and the
sha256 are the comparison of what was put with what is there; a store may hold
something else in its place (`Damaged`). A record of `AccountabilityRetention` is
its seq, "ok" or "altered"; its age grows with its seq. In `RulesEngine` an event is
tenant, actor, action and time; rules are evaluated in a fixed order and an edit is
seen by the next event, which commutes with the evaluation of the current one; the
definitions of a rule may differ in everything, as `put_rule` only validates them.
Lateness of events is bounded by `Lag`: the bound of `Backed`
depends on it, and no finite one follows from the code. `TenantLifecycle` lets time
pass only between passes, as a pass is short against the interval; a deleted
tenant's chain answers with an error or with nothing (`Vanished`, the core's
choice), and a name is not given to a second tenant (`Reuse`).

Three history variables name the cases in which the code does not keep a promise, so
that the properties can hold everywhere else: `Retention.unlocked`,
`Rechain.overlapped`, `AccountabilityRetention.overtaken`. Section 4 describes what
happens in them.

Postgres is modelled from how the code uses it (READ COMMITTED, transaction-scoped
advisory locks, `ON CONFLICT`, ACCESS EXCLUSIVE on the parent of
`CREATE TABLE ... PARTITION OF`, a failed statement aborts its transaction, a commit
of an aborted transaction is a rollback); Redis as a stream with a group position,
of which only new messages are read (`">"`).

## 3. What TLC checks

Passing runs:

| run | instance | shows |
|---|---|---|
| `writer_append` | 2 writers, a tenant's and the global chain, 4 new events on 2 days (one day's partition missing), 2 rows a call, 2 calls a transaction, tables new or archived | `ChainLinked`: `verify_chain` accepts every table at every moment. `AppendOnly`: commits come after what is durable, in seq order. `NoDuplicateTable`: nobody loses the partition race. `ChainInv`: the inductive invariant of the proofs. `ImplementsAuditLog`: the refinement of `AuditLogSpec` |
| `writer_redelivery` | the same two chains and the missing partition, 3 events delivered as often as the bounds allow, 2 rows a call, 2 calls a transaction, deadlocks broken by Postgres | `OnceOnly`. `HeadOnTail`: the head in hand is the real tail, save where the call's own re-delivered row leaves its stored digest there. `SortedNeverCircular`: who takes one sorted sequence of locks is in no circular wait with others that do. `EveryTransactionEnds` |
| `drain_safety` | a tenant's chain of 2 records in pages of 1, 2 acts of tampering, a lagging replica, hints, a failure, an acknowledgement, 1 queue message | `NothingSkipped`: rows of core records are contiguous and verified; `HaltKept`: the first alarm stays until acknowledged |
| `drain_failures` | a tenant whose table cannot be written, messages for it and for the global chain, poison, a failure | `CursorBacked`, `AckedIsDurable`: neither cursor nor ack is ahead of what is durable |
| `drain_delivery` | an untampered core, an archived record, a backlog of two pages, every chain writable, a message for the tenant and one for the global chain, a hint, lock waits that time out | `Precedence`: core records before younger queue events. `EveryRecordArrives`: every record of the global chain and of a registered tenant |
| `queue_procedure` | 2 incidents, 2 requests in flight, 5 entries | `ProcedureOnRecord`: approvals and completions have their steps on record; `QueueInv`: its inductive strengthening |
| `retention_archive` | a chain over three months, 4 events of which two are late, an empty partition, a writer, 2 jobs and 2 runs, parts of one row, damaged objects | `OneChain`: archive and table are one linked chain in the middle of every run. `NothingLost`: a row stays in the table or in an object that reads back. `ArchiveVerifies`: `verify_archive` accepts. `LargestPrefix`: no partition is held back without need |
| `rechain_repair` | the same chain, a fork, an altered row, a writer, a job, an operator | `AlteredStaysVisible`: no repair and no run hides an altered row. `RepairHolds`: a repaired chain verifies from then on. `RepairOnlyBroken`: a sound chain is not rewritten, also when retention commits between the two reads of `verify_chain` |
| `acc_retention` | 3 records, 2 drains, 2 jobs, pages and parts of one record, one tampering, reset or failure | `PulledFirst`, `ArchiveSound`: only pulled, verified records are deleted, as a prefix. `NoFalseHalt`: a deletion is not taken for tampering. `AgedIsArchived`: again and again, all that is aged is archived |
| `rules_detection` | 2 tenants, a burst, a sequence and a fan-out rule, 4 events up to one tick late, a tenant's override, edits of threshold, window, grouping, scope and enabled, a failure or a restart | `Backed`: every incident has its events in its window. `NoneMissed`: whenever the newest window (by the shortest of the definitions the rule can be given) holds the threshold, the evaluation fires. `TenantDisclosure`: what a tenant is shown was counted from its events alone |
| `tenant_lifecycle` | a founded tenant and one that comes and goes, 4 global records, pages of 2 and one page a pass, one batch while the poller runs and any number after it is gone, one fault | `NothingElseForgotten`: up to the cursor, all that was pulled is on record but the history of a destroyed tenant. `StaleIsCured`: a false alarm goes away. `StoppedIsVisible`: with the poller gone, every chain that the queue does not keep polled turns `/readyz` off, however busy the others are. `RefusedIsVisible`: so does one refused chain among healthy ones. Deadlock is checked |

The type invariants of `Rechain`, `RulesEngine` and `TenantLifecycle` hold in these
instances too and are not part of the runs; the first two are proved (section 5).

One run in which TLC refutes what the code's own documentation says (the finding in
`PROJECT.json`): `tenant_deletion_chain` checks `GlobalVerifies`. `_forget_tenant`
deletes a destroyed tenant's rows from `audit_log_global` wherever they are; the row
after them, the tenant's own `tenant.delete` record among others, links to a row that
is gone, and `verify_chain` reports a tamper point.

### Bounds

Two writers are all the processes there are, two chains and two days are enough
for every pair of locks to be taken in both orders, two rows a call for a duplicate
followed by a new row, two calls a transaction for a lock taken after an earlier
call's. `MaxSeq` ends the run after a table has had three or four rows: a first
transaction, one that builds on it and one that is rolled back between them. In the
drains, two pages tell the first page from the later ones, one failure and one
acknowledgement put each between any two steps, two acts of tampering make two
different breaks that compete for the alarm. In `Retention` three months with one
kept give an aged prefix of two partitions, late rows in the first, and an empty one
between; two runs overlap or follow one another, the second with an anchor to go on
from. `Rechain` needs one row before and one after a fork, and a third that a waiting
writer adds. Three records tell the aged and pulled, the aged and unpulled and the
young apart in `AccountabilityRetention`. Four events fire a threshold of two twice
or a cooldown and a late event; the second tenant tells a shared window from one of
its own. Four global records are a creation, a record in between, a deletion and one
after it, on two pages. The models stop when the bounds are
used up, so deadlock checking is off
(`tenant_lifecycle`, in which time always goes on, apart); waiting is covered by
`SortedNeverCircular` and the liveness properties instead. `MaxEvents` of
`TenantLifecycle` bounds the queue's batches only while the poller runs: after it is
gone the consumer may start one whenever it is idle, so that a silent queue is
nothing `StoppedIsVisible` rests on. `writer_append` uses symmetry between the writers and
`retention_archive` between the jobs; no run with a liveness property does.

### Fairness

`AuditWriter.FairSpec` is strongly fair to each writer's next step: Postgres grants
a lock to its waiters in turn and a caller that does not wait goes on. It is weakly
fair to Postgres's deadlock detector, which aborts a transaction of a minimal circle of
waits; without it the circles of section 4 would last for ever. Nobody has to start a
transaction or to abort otherwise. `AccountabilityDrain.FairSpec` is weakly fair to
both loops (`run_forever` never ends) and to a process's next statement: one that
waits for a lock can always fail by the statement timeout. It is strongly fair to the
consumer's `RecordQueue`, the one wait that the other process could win again and again:
the poller holds the chain lock only inside a transaction, and Postgres gives it to the
waiter when that ends. The core, the producers, hints, operators and failures are free
to do nothing. `AccountabilityRetention.Spec` is weakly fair to each drain and each
job, which are started again for ever; only a job that would find nothing aged is
not. `TenantLifecycle.Spec` is strongly fair to time, which is enabled between the
passes and which batches that follow one another must not hold up, and weakly fair to
the poller's next pass while it is alive (`Stop` ends that for good) and to the next
statement of a process in a pass.

## 4. Disagreements met while modelling

Each was seen as a TLC counterexample; the property is in the named module and the
constants say how to see it again. They are not runs of the project, which has one
run for each question it asks.

| where | what the code does | what it says | property and instance |
|---|---|---|---|
| `writer.py:107` | the first row of a day needs the parent table exclusively while a writer that has read it waits for the creator's chain lock; and a second call in the transaction, which consumer and poller both make, starts the sorted sequence again | sorted locks "cannot deadlock" (`writer.py:101`) | `NoDeadlock`, `writer_append` with `MaxBatch = 1`, `MaxCalls = 1`, `MaxSeq = 1`, `Events = {e1, e3}`, or `writer_redelivery` as it is; `SortedNeverCircular` is the part of the claim that holds |
| `puller.py:193` | a hinted pass fetched `[r1, r2]`; the consumer records `r1` and a queue event `q1` before it writes: the duplicate `r1` becomes the head and `r2` chains onto it and not onto `q1` | the key "absorbs the duplicate" (`puller.py:139`); "advances the head correctly" (`src/README.md:196`); "the row after it must still chain onto the real tail" (`test_chain_concurrency_live.py:236`) | `AccountabilityDrain!ChainLinked`, `drain_safety` with `PageSize = 2`, one hint, no fault, tampering or lag |
| `puller.py:275` | `drain_all` swallows a break on the second page and its caller commits the first page without its cursor | "The caller is about to roll this transaction back" (`puller.py:178`) | `CursorAgrees`, `drain_safety` with `MaxTampers = 1` and nothing else |
| `consumer.py:92` | a batch whose transaction failed stays pending and is never read again | "retried on the next delivery" (`consumer.py:28`) | `EveryMessageArrives`, `drain_delivery` with `MaxFails = 1` |
| `puller.py:280` | one tenant's failing statement aborts the transaction that all tenants of the pass share, on every pass | "one tenant's backlog or alarm never affects another's" (`src/README.md:91`) | `EveryRecordArrives` for the global chain, `drain_failures` (where `Broken = {a}`) under `FairSpec` with no message, hint or failure |
| `consumer.py:170` | `drain` stops after `pull_max_pages` pages, and returns at once for a halted chain; the batch is recorded all the same, before the core records that were not read | the core's records are drained first, "never the reverse, and never partially" (`consumer.py:148`) | `Precedence`, `drain_delivery` with `MaxPages = 1` |
| `queue.py:206` | a decline and an approval that both read `customer_confirmed` are both recorded; the declined incident goes on | "States where the item is finished either way" (`queue.py:85`) | `TerminalStays`, one incident, two requests, 4 entries |
| `retention.py:236` | a partition created between the two listings is archived and dropped although it was not locked; a row written to it after the stream was opened is dropped unarchived | "so no late row can land between being read and being dropped" (`retention.py:21`) | `OneChain` and `NothingLost` over `Tables` and not `Locked` |
| `rechain.py:157` | a retention run that read the rows before a repair committed archives the old links; the table goes on from the new ones | the repair holds the chain lock, which retention does not take | `RepairHolds` without `overlapped` |
| `accountability_retention.py:300`, `cursors.py:116` | a drain that fetched a page before the run's delete, or one that `stage`s an older position over a newer one, continues behind the deleted prefix and halts the chain | a gap is "an integrity alarm" | `NoFalseHalt` without `overtaken` |
| `engine.py:235` | a serious incident of a rule whose audience is the tenant is not mailed | "ALWAYS emails admins" | `MandatoryMail`, `rules_detection` |
| `puller.py:267` | a pass that listed a tenant before its deletion touches its cursor again afterwards, and that row then ages for ever: `/readyz` stays 503 | "avoids re-creating that tenant's cursor moments after dropping it" | `NoOrphanCursor`, `tenant_lifecycle` |
| `puller.py:211` | a drain that fetched a page before another one purged a destroyed tenant writes the purged record again and puts the cursor back; a third that had read the cursor in between takes it past the deletion, and nobody purges that record any more | what stays would be "history the platform has told the world it destroyed" (`puller.py:305`) | `DestroyedIsGone`, `tenant_lifecycle` with `Founded = {}`, `MaxEvents = 2`, `MaxFaults = 0` |

Seen while reading or trying instances, and not stated as properties: with
`Reuse = TRUE`, a tenant created again under an old name loses the records of its new
life when a replay or a slow drain passes the old deletion; a chain that has failed
since its first poll has no cursor row and is invisible to `is_healthy`; with
queue events for every chain, each batch touches their heartbeats (`consumer.py:166`,
`cursors.py:129`) and `/readyz` stays 200 although the poller is gone for good; a rule
keeps its windows when it is edited, and a tenant's override shares them: what a shorter
window evicted is missing when a longer one counts (TLC refutes `NoneMissed` with the
rule's own window in `rules_detection`), and after an edit of `action`, `then_action` or
`distinct` what only the old definition looked for counts towards the new one (the
premise `SameSubject` of section 5); a rule whose `window_s` is not a number is accepted by the route and makes every
evaluation raise; after one failed statement the rules store's connection stays in
an aborted transaction, and cached rules are used from then on; a failed ack ends the
loop over the batch, whose other events are never evaluated.

While a scheduled pass and the consumer both touch the global chain's cursor row
first, and hold it to the commit, they take turns; the races of the drains above
need a hinted pass, which drains the named tenants only.

## 5. What is proved

For any number of writers, chains, events, batch sizes and calls, with `tlapm`:

* `TypeCorrect`: `Spec => []TypeOK`. The types are not inductive alone: a head is
  `CHOOSE`n from a table's rows, so `TypeInv` adds that every non-empty set of rows
  has a row with the highest seq.
* `AppendOnlyHolds`: `NoAliasing => (Spec => AppendOnly)`, with re-delivery and
  aborts. seq is drawn before the commit, so this needs `LockInv` (who has
  uncommitted rows in a table holds its chain lock) and `SeqInv` (uncommitted rows
  come after committed ones).
* `ChainInvHolds` and `ChainLinkedHolds`: `NoAliasing /\ ~Redelivery => (Spec =>
  []ChainInv)` and `[]ChainLinked`. `ChainInv` adds `FreshInv` (what is left of a
  batch is not stored anywhere) and `HeadInv` (the head a writer has read under the
  lock is the tail of what it sees until it uses it). Both premises are needed:
  the fork at `puller.py:193` (section 4) shows what a duplicate does, and `schema_for_tenant` drops
  characters, so that two tenant ids can share a table under two locks.
* `OnceOnlyHolds` and `RootedHolds`: `Spec => []OnceOnly` and `Spec => []Rooted`,
  with neither premise. What a duplicate or a shared table can do is fork a chain;
  it cannot record an event twice or chain a row onto a digest the table lacks, such as
  one that was rolled back. `Rooted` does not say that the row chained onto is the tail:
  that is `ChainLinked` and, with re-delivery, `HeadOnTail`.
  `StoredOnce` extends the first to uncommitted rows, among which an insert waits
  for the transaction that holds its key. `RootInv` roots an uncommitted row and
  every head read in what the row's own transaction sees, which a commit publishes
  as a whole and an abort removes as a whole.
* `HeadOnTailHolds`: `NoAliasing => (Spec => HeadOnTail)`, with re-delivery and aborts.
  From the lock on a chain to the call's last row of it the head in the writer's hands
  is the tail of what it sees, and the one step that takes it elsewhere is that of a
  re-delivered row of the same call, which inserts nothing and leaves a stored digest.
  It needs what nobody else can do under the chain lock (`LockInv`) and that an inserted
  row is the new tail (`SeqInv`).
* `QueueTypeCorrect`, `QueueInvHolds`, `ProcedureHolds` for the incident queue: a
  checked move stays justified although the incident may move on before it is
  inserted, because entries are never removed and ids only grow. That is also why
  the weaker `ProcedureOnRecord` holds where `TerminalStays` does not.

* `NoDuplicateTableHolds`: `Spec => []NoDuplicateTable`. `PartInv` says that a
  writer between finding a partition missing and creating it holds that partition's
  lock, and that it is still missing.
* `ImplementsAuditLogHolds`: `NoAliasing /\ ~Redelivery => (Spec =>
  ImplementsAuditLog)`. `Init` maps to the abstract `Init`, a commit to the abstract
  append of the transaction's events in seq order, everything else to a stutter;
  `LogInv` says that what a transaction sees of a table is the committed history with
  the transaction's own new events after it.
* `SortedNeverCircularHolds`: `IsFiniteSet(Writers) => (Spec =>
  []SortedNeverCircular)`, with any partitions missing, any number of calls,
  re-delivery and aborts. One call's locks have a global order (partitions before
  chains, each kind sorted); `WaitInv` says that a writer in its first call that has
  created no partition and waits holds only smaller ones, so that the waits among such
  writers have a maximal element, which waits for none of them. In every circular wait
  there is then one that is in a later call or has created a partition; such circles
  exist (section 4), and `EveryTransactionEnds` says that Postgres's detector is enough
  for everybody to get on.
* `AccountabilityRetention_proofs`: `TypeCorrect`, `PulledFirstHolds`,
  `ArchiveSoundHolds`, `NoFalseHaltHolds`, all `Spec => []...` for any number of
  drains and jobs. `AccInv` is inductive: `PullInv` (everything up to the cursor, up
  to where a drain stands and up to a run's limit has been copied), `ArchiveInv` (the
  archive is all records up to the anchor, and what a run has written goes on where it
  ends) and `TableInv` (until somebody tampers the table is all records after the
  anchor, and no drain or cursor stands before it).
* `AccountabilityDrain_proofs`: `TypeCorrect`, `NothingSkippedHolds`,
  `CursorBackedHolds`, `AckedIsDurableHolds` and the action property `HaltKeptHolds`,
  all for `Spec`, that is for any chains, records and messages, any page size, page and
  batch limit, chains that cannot be written, tampering, lagging replicas, hints and
  failures. `DrainInv` is inductive. Its heart is about what a transaction *sees*, the
  committed rows and its own (`View`): the view of each process is in sequence
  (`SequenceInv`), and what it has staged or stands at is in its view (`PositionInv`).
  A page that was fetched before the other process committed the same records is then
  harmless: those it writes again are duplicates and are left out. `LockInv` (own rows
  only under the chain's lock) makes a commit grow the other's view and never rearrange
  it; `BatchInv` follows the batch from the transaction to the log to the ack. The loop
  of `write_batch` is a recursive function, and what it computes for every batch
  (`BatchFacts`, `SequenceBatch`) is proved by induction over the number of rows.
* There too, `PrecedenceHolds`: `ReadsAll => (Spec /\ []NoHalt => []Precedence)`.
  `PrecedenceInv` is inductive on top of `DrainInv`: the chain of a message in hand is
  still on the consumer's list, or the consumer's view has every record that there was
  when the message was published (`CoveredInv`); a page is full while more follow, so
  the number of pages tells how far a drain has come (`PagesInv`); and the events of
  every view follow their records (`EventsInv`), so a commit may publish that view.
  `ReadsAll` is what the code needs for a drain to reach the core's end: the primary
  answers and `pull_max_pages` pages hold the backlog (section 4 has what happens
  beyond them). `NoHalt` is needed because `drain` returns at once for a halted chain and
  the consumer then records the batch all the same.
* `UntamperedNeverHalts`: `MaxTampers = 0 => (Spec => []NoHalt)`, no false alarm: over
  an intact core every page that a drain fetches verifies, with lagging replicas, hints,
  failures and both drainers on one chain. `IntactInv` is inductive on top of
  `DrainInv`, which gives that no drain stands before the archive's end.
  `UntamperedPrecedence` puts the two together, with the constants of `drain_delivery`
  as one case: `ReadsAll /\ MaxTampers = 0 => (Spec => []Precedence)`.
* `Retention_proofs`: `NothingLostHolds`, `ArchiveIntact`, `RetentionTypeCorrect`, for
  `RetentionSpec` with any writers, overlapping runs, tables and partitions, and a store
  that may damage any object. `RetentionInv` is inductive. A commit drops what its run
  selected long before, so the invariant follows those rows: no row enters a partition
  between the reading of its seqs and the drop, because a writer's uncommitted rows lie
  in partitions that the writer has locked (`WriteLockInv`) and the run holds the locks of
  those it listed first (`RunLockInv`); each row in one of them is still to be archived
  or in a part (`SeenInv`); each part is in the store as it was written, the manifest
  before anything goes (`PutInv`); and no other run puts under the same id (`IdInv`).
  `NothingLost` excepts the tables in `unlocked`, that is a partition created between
  `run_scope`'s two listings; `ArchiveIntact` (every catalogued part and its manifest
  read back) excepts none. What `select_droppable` computes does not matter here, only
  that it returns some of the aged partitions.
* There too, `OneChainHolds`, `ArchiveVerifiesHolds` and `LargestPrefixHolds`, with the
  premises `NoAliasing`, `~Redelivery` and `InitialAnchors \subseteq {NoHash}`: the first
  two are those of `ChainInvHolds`, and a catalogue that names an anchor but no segment
  (a third) has nothing to read back. `PrefixInv` is inductive on top of `RetentionInv` and
  of the writers' `LockInv`, `SeqInv` and `FreshInv`. It says that what a run listed
  and chose stays true until it commits (`ListInv`, `ChoiceInv`), that its parts are the
  chosen rows in seq order (`OutInv`), that the parent's lock leaves its commit alone on
  the table (`ParentInv`), and that the catalogued parts and the table are one chain whose
  anchor is the tail of the former (`ArchiveAt`, `HeadAt`). What `select_droppable`
  returns is followed through its rounds by induction (`DroppableFacts`): each takes at
  least one partition away, so that they end at a fixpoint, which is a prefix of the chain
  in seq order and the largest one among the aged partitions. Tables in `unlocked` are
  excepted, as in `NothingLost`.
* `Rechain_proofs`: `AlteredStaysVisibleHolds` and `RechainTypeCorrect`, for
  `RechainSpec` with no premise. `RechainInv` is inductive: a digest commits to a content
  that nobody altered (`RecordInv`, `SealInv`), so a row whose content was altered does
  not match its own hash, in the table or in a part; and `repair` computes new links only
  from rows it has found consistent with theirs under the locks (`FixInv`), so that it
  cannot hand an altered row a fitting hash.
* There too, `RepairOnlyBrokenHolds`: `NoAliasing => (RechainSpec => RepairOnlyBroken)`.
  The false alarm that retention can cause between the two reads of `verify_chain` is
  harmless because of what the repair does under its locks. `RepairInv` is inductive on
  top of `RechainInv`: from the reading of the rows on the repair has the table open and the
  chain locked (`FixHolds`), no writer or run moves a row under those locks (`SerialInv`),
  so the new links were computed from rows that verified one by one and whose links are
  still the table's, whatever was altered meanwhile (`FixLinks`). Where the chain verifies
  these are the same rows, and relinking a linked chain finds the links it has
  (`RelinkedLinked`, by induction over the seqs). Two tenants in one table would be two
  chain locks, of which a repair takes one; hence the premise.
* `RulesEngine_proofs`: `TenantDisclosureHolds` with no premise, `BackedHolds` and
  `NoneMissedHolds` under `SameSubject`: all definitions a rule can be given name the same
  `action`, `then_action` and `distinct`, and may differ in window, threshold, grouping,
  scope, audience, cooldown, severity and `enabled`, by edits and by tenants' overrides.
  `EngineInv` is inductive: every window is a sequence of distinct positions of events
  that were seen, of the tenant it is kept for (`WindowInv`), in an order that is off by
  `Lag` at most (`SinceInv`), from which the pruning has taken nothing younger than the
  newest event's window, taken as the shortest of the rule's definitions, as any of them
  may have pruned; `IncidentInv` carries what was counted into the incident. Without the
  premise the two are false, since an edit keeps the windows and what they hold answers
  another question (section 4); what a tenant is shown does not depend on it.

The assumptions are those of the modules (`WriterConstants`, `RetentionConstants`,
`RechainConstants`, `QueueConstants`, `DrainConstants`, `AccConstants`, `RulesAssumption`),
which TLC evaluates in every run. Those of `Retention` say among others that there are
finitely many partitions at the start, those of `Rechain` that an operator's marker is not
one of the altered contents.

Only model-checked:

* liveness under fairness (`EveryTransactionEnds`, `EveryRecordArrives`,
  `AgedIsArchived`, `StaleIsCured`, `StoppedIsVisible`, `RefusedIsVisible`), which the
  prover does not handle;
* `RepairHolds`: forks and altered rows break the row by row invariants on which the
  retention proofs rest (each row follows the one before it, an event is in one row), so
  the way of a chain from a repair through later runs needs them again by seq and hash
  for the chains that have been repaired;
* `NothingElseForgotten`: `TenantLifecycle` computes pages and purges with `SelectSeq` and
  a fold, whose recursion the provers do not unfold.

## 6. What is not modelled, and the plan

Not modelled because there is no state to go wrong: configuration, metrics, key
derivation, authentication and queries, the parsing of one envelope (`Poison` is its
verdict), the rendering and sending of a mail, gRPC. Of the rules engine,
`set_incident_status` (one update by id) is left out, and of the archive's command
line everything but the two read-backs. The DDL that sets tables up and the end-to-end
scripts are not part of the running system. The character filter of `naming.py`
appears as tenants that share a table (`NoAliasing` is the premise of the theorems
that need its absence).

What a next step would be is under "Only model-checked" in section 5: `RepairHolds` first.
The refinement of `AuditLogSpec` stops at the writers; with retention its history would be
the archive followed by the table, which is what `OneChain` says of every state.
