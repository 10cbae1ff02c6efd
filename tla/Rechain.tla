------------------------------- MODULE Rechain -------------------------------
(***************************************************************************)
(* rechain.py (audit-rechain) and verify.py against running writers and    *)
(* retention: an operator repairs the links of a chain that writers without *)
(* a chain lock once forked.  The repair's connection is one of Writers;   *)
(* it appends nothing but its marker.                                      *)
(***************************************************************************)
EXTENDS Retention

CONSTANTS
    Fixer,       \* the connection of audit-rechain
    Marker,      \* [Tables -> the "chain.repair" event of that chain]
    Forged,      \* [Events -> the content an altered row of that event has]
    MaxForks, MaxTampers  \* bounds

ASSUME RechainConstants ==
    /\ Fixer \in Writers \ Jobs
    /\ Tables # {} /\ Marker \in [Tables -> Events] /\ MaxBatch > 0
    /\ Forged \in [Events -> Events]
    /\ \A e \in Events, t \in Tables : Forged[e] # e => Forged[e] # Marker[t]
    /\ MaxForks \in Nat /\ MaxTampers \in Nat

VARIABLES
    fix,       \* the repair in progress
    forks,     \* rows that an unserialized writer appended
    tampers,   \* rows altered
    repaired,  \* tables whose repair has committed
    overlapped \* history: tables repaired between a run's reading and its drop

fvars == <<fix, forks, tampers, repaired, overlapped>>
everything == <<allVars, fvars>>

NoFix == [at |-> "idle", t |-> CHOOSE t \in Tables : TRUE, anchor |-> NoHash, new |-> {}]
Others == WriterJobs \ {Fixer}
Markers == {Marker[t] : t \in Tables}
Forgeries == {Forged[e] : e \in {x \in Events : Forged[x] # x}}
Ordinary(b) == EventsIn(b) \cap (Markers \cup Forgeries) = {}
ChainKey(t) == CHOOSE k \in Keys : Parent[k] = t

\* The rows of S linked in seq order from the digest a, contents unchanged;
\* head[n] is the digest over the rows before seq n.
Relinked(S, a) ==
    LET head[n \in 0..Max({0} \cup Seqs(S))] ==
            IF n = 0 THEN a
            ELSE IF n - 1 \in Seqs(S)
                 THEN RowHash(head[n-1], (CHOOSE r \in S : r.seq = n - 1).ev)
                 ELSE head[n-1]
    IN  {RowOf(r.seq, r.ev, head[r.seq]) : r \in S}

-----------------------------------------------------------------------------
RechainInit ==
    /\ RetentionInit
    /\ fix = NoFix /\ forks = 0 /\ tampers = 0 /\ repaired = {} /\ overlapped = {}

\* A writer from before the chain lock: it commits a row over a head that is
\* not the tail any more.  It is gone before anybody repairs ("exactly once:
\* when the breakage has a known, non-malicious cause that has been fixed").
Fork(e) ==
    LET t == TableOf(e) IN
    /\ forks < MaxForks /\ fix.at = "idle" /\ repaired = {}
    /\ Ordinary(<<e>>) /\ FreshBatch(Fixer, <<e>>) /\ e \notin ArchivedEvents(t)
    /\ clock[KeyOf[e]] = NoOwner /\ xlock[t] = NoOwner
    /\ PartOf(e) \in parts /\ plock[PartOf(e)] = NoOwner
    /\ \E r \in table[t] :
          table' = [table EXCEPT ![t] = @ \cup {RowOf(nextseq[t], e, r.prev)}]
    /\ nextseq' = [nextseq EXCEPT ![t] = @ + 1]
    /\ forks' = forks + 1
    /\ UNCHANGED <<anchor, parts, locks, tx, call, rvars, fix, tampers, repaired, overlapped>>

\* Somebody alters the content of a stored row.
Tamper(t, r) ==
    /\ tampers < MaxTampers
    /\ Forged[r.ev] # r.ev
    /\ table' = [table EXCEPT ![t] = (@ \ {r}) \cup {[r EXCEPT !.ev = Forged[r.ev]]}]
    /\ tampers' = tampers + 1
    /\ UNCHANGED <<nextseq, anchor, parts, locks, tx, call, rvars, fix, forks, repaired, overlapped>>

FixLeaves == UNCHANGED <<nextseq, anchor, parts, plock, xlock, tx, call, rvars, forks, tampers>>

\* Mutant: every chain is taken to start at its first row in the database.
CatalogIgnored(t) == NoHash

\* catalog.anchor: where the chain in the database begins.
CatalogAnchor(t) == anchor[t]

\* verify_chain reads the anchor ...
BeginRepair(t) ==
    /\ fix.at = "idle" /\ pc[Fixer] = "idle"
    /\ fix' = [NoFix EXCEPT !.at = "verify", !.t = t, !.anchor = CatalogAnchor(t)]
    /\ UNCHANGED <<table, clock, slock, repaired, overlapped>> /\ FixLeaves

\* ... and then, in another statement, the rows.  A chain that verifies is left
\* alone.
VerifyBefore ==
    LET t == fix.t IN
    /\ fix.at = "verify" /\ xlock[t] = NoOwner
    /\ IF Linked(table[t], fix.anchor)
       THEN fix' = NoFix /\ UNCHANGED slock
       ELSE /\ fix' = [fix EXCEPT !.at = "lock"]
            /\ slock' = [slock EXCEPT ![t] = @ \cup {Fixer}]
    /\ UNCHANGED <<table, clock, repaired, overlapped>> /\ FixLeaves

\* Mutant: the chain is not locked against appends.
LockForRepairNot ==
    /\ fix.at = "lock"
    /\ fix' = [fix EXCEPT !.at = "relink"]
    /\ UNCHANGED <<table, clock, slock, repaired, overlapped>> /\ FixLeaves

\* _lock_chain
LockForRepair ==
    /\ fix.at = "lock"
    /\ clock[ChainKey(fix.t)] = NoOwner
    /\ clock' = [clock EXCEPT ![ChainKey(fix.t)] = Fixer]
    /\ fix' = [fix EXCEPT !.at = "relink"]
    /\ UNCHANGED <<table, slock, repaired, overlapped>> /\ FixLeaves

\* Mutant: a row's own hash is not recomputed before it is linked again.
AnyContent(S) == TRUE

\* Every row must recompute under the link it already carries.
SelfConsistent(S) == \A r \in S : HashOK(r)

\* The new links of all rows, refused (IntegrityMismatch) if one was altered.
Relink ==
    LET t == fix.t IN
    /\ fix.at = "relink"
    /\ SelfConsistent(table[t])
    /\ fix' = [fix EXCEPT !.at = "verify_after", !.new = Relinked(table[t], CatalogAnchor(t))]
    /\ UNCHANGED <<table, clock, slock, repaired, overlapped>> /\ FixLeaves

\* The UPDATE: a stored row with the links computed for its seq.
WithNewLinks(r) ==
    IF \E n \in fix.new : n.seq = r.seq
    THEN LET n == CHOOSE x \in fix.new : x.seq = r.seq
         IN  [r EXCEPT !.prev = n.prev, !.hash = n.hash]
    ELSE r
Updated(t) == {WithNewLinks(r) : r \in table[t]}

\* verify_chain again, over the repair's own rows ("chain still does not verify
\* after relinking" otherwise).
VerifyAfter ==
    /\ fix.at = "verify_after"
    /\ Updated(fix.t) # table[fix.t] => Linked(Updated(fix.t), CatalogAnchor(fix.t))
    /\ fix' = [fix EXCEPT !.at = "commit"]
    /\ UNCHANGED <<table, clock, slock, repaired, overlapped>> /\ FixLeaves

FixEnds ==
    /\ clock' = [k \in Keys |-> IF clock[k] = Fixer THEN NoOwner ELSE clock[k]]
    /\ slock' = [t \in Tables |-> slock[t] \ {Fixer}]

\* repair commits: the new links are visible, the locks are gone.  A changed
\* chain is marked in a second transaction.
CommitRepair ==
    LET t == fix.t IN
    /\ fix.at = "commit"
    /\ table' = [table EXCEPT ![t] = Updated(t)]
    /\ repaired' = repaired \cup {t}
    /\ overlapped' = IF \E j \in Jobs : run[j].t = t /\ run[j].at \in {"archive", "drop"}
                     THEN overlapped \cup {t} ELSE overlapped
    /\ fix' = IF Updated(t) # table[t] THEN [NoFix EXCEPT !.at = "mark", !.t = t] ELSE NoFix
    /\ FixEnds /\ FixLeaves

\* A dry run, a refusal, a timeout, or the process dies (perhaps between the
\* two transactions, and the marker is not written).
RepairEnds ==
    /\ fix.at # "idle"
    /\ fix' = NoFix
    /\ FixEnds
    /\ UNCHANGED <<table, repaired, overlapped>> /\ FixLeaves

\* record_repair, through write_batch.
MarkRepair ==
    /\ fix.at = "mark"
    /\ RetCall(Fixer, <<Marker[fix.t]>>)
    /\ fix' = NoFix
    /\ UNCHANGED <<forks, tampers, repaired, overlapped>>

RepairNext ==
    \/ \E t \in Tables : BeginRepair(t)
    \/ VerifyBefore
    \/ LockForRepair
    \/ Relink
    \/ VerifyAfter
    \/ CommitRepair
    \/ RepairEnds
    \/ MarkRepair

RechainNext ==
    \/ \E w \in Others : \E b \in Batches : RetCall(w, b) /\ Ordinary(b) /\ UNCHANGED fvars
    \/ \E w \in WriterJobs : CallNext(w) /\ UNCHANGED fvars
    \/ \E j \in Jobs : RunNext(j) /\ UNCHANGED fvars
    \/ NextMonth /\ UNCHANGED fvars
    \/ RepairNext
    \/ \E e \in Events : Fork(e)
    \/ \E t \in Tables : \E r \in table[t] : Tamper(t, r)

RechainSpec == RechainInit /\ [][RechainNext]_everything
-----------------------------------------------------------------------------
\* The repair in progress and its bounds.
RechainTypeOK ==
    /\ fix.at \in {"idle", "verify", "lock", "relink", "verify_after", "commit", "mark"}
    /\ fix.t \in Tables /\ fix.anchor \in Digests
    /\ fix.new \subseteq Rows(Contents)
    /\ overlapped \subseteq repaired /\ repaired \subseteq Tables

\* A row whose content was altered keeps failing verification, in the table and
\* in the archive, whichever repair and whichever run came between ("a content
\* mismatch is the one thing this tool must never paper over").
AlteredStaysVisible ==
    \A t \in Tables : \A r \in table[t] \cup Catalogued(t) :
        r.ev \in Forgeries => ~HashOK(r)

\* A repaired chain verifies from then on, although writers waited for its lock
\* with heads of the old links and retention went on archiving it ("a writer
\* could append to the old tail while the rows underneath it are being
\* re-linked, and the repair would finish by producing a fresh break").  The
\* exception: a run that had read the old links before the repair committed
\* archives them, and the table goes on from the new ones.
RepairHolds ==
    \A t \in repaired \ (overlapped \cup unlocked) :
        {r.ev : r \in table[t]} \cap Forgeries = {} => Linked(table[t], anchor[t])

\* A chain that verifies is never rewritten: when retention commits between
\* verify_chain's reading of the anchor and of the rows, the repair that this
\* false alarm starts finds nothing to change.
RepairOnlyBroken ==
    [][\A t \in Tables : Linked(table[t], anchor[t]) =>
          \A r \in table[t], q \in table'[t] :
             r.seq = q.seq => r.prev = q.prev /\ r.hash = q.hash]_everything
=============================================================================
