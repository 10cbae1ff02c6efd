---------------------------- MODULE MCAuditWriter ----------------------------
(***************************************************************************)
(* Instances of AuditWriter: the consumer and the poller, the global chain *)
(* and one or two tenants' chains, two UTC days.                           *)
(***************************************************************************)
EXTENDS AuditWriter

CONSTANTS w1, w2,       \* the queue consumer and the accountability poller
          g, a, b,      \* chain keys: "__global__" and two tenants
          tg, ta,       \* parent tables
          e1, e2, e3, e4, \* events
          old           \* an event that retention has archived

MCDays == {1, 2}

\* e1, and e2 and e3 the next day, go to the tenant's table, e4 to the global.
MCKeyOf == [e \in Events |-> IF e = e4 THEN g ELSE a]
MCDayOf == [e \in Events |-> IF e \in {e2, e3} THEN 2 ELSE 1]
MCParent == [k \in Keys |-> IF k = g THEN tg ELSE ta]

\* "__global__" sorts before a tenant's id, but the table audit_log_global
\* sorts after a quoted schema name.
MCKeyRank == [k \in Keys |-> IF k = g THEN 0 ELSE IF k = a THEN 1 ELSE 2]
MCTableRank == [t \in Tables |-> IF t = tg THEN 1 ELSE 0]

AllParts == Tables \X Days
NoParts == {}
TodaysParts == Tables \X {1}

NewChain == {NoHash}
NewOrArchived == {NoHash, <<old>>}

MCSymmetry == Permutations({w1, w2})
=============================================================================
