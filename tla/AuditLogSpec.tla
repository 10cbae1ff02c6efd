---------------------------- MODULE AuditLogSpec ----------------------------
(***************************************************************************)
(* What the hash-chained audit tables promise their readers: each table is *)
(* one growing sequence of events.  A transaction appends to any number of *)
(* tables at once; nothing is ever removed, reordered or recorded twice,   *)
(* and the history already archived stays a prefix.                        *)
(***************************************************************************)
EXTENDS Sequences, Integers

CONSTANTS Tables, Events, InitialAnchors

VARIABLE log    \* [Tables -> the events recorded in the table, archive first]

Recorded(s) == {s[i] : i \in 1..Len(s)}

\* The archive's digest is all that an empty table holds of its past.
Init == log \in [Tables -> InitialAnchors]

\* s is t's log with new events, all different, added at the end.
Extends(s, t) ==
    LET n == Len(log[t]) IN
    /\ Len(s) >= n
    /\ \A i \in 1..n : s[i] = log[t][i]
    /\ \A i \in n+1..Len(s) :
          /\ s[i] \in Events \ Recorded(log[t])
          /\ \A j \in n+1..Len(s) : s[i] = s[j] => i = j

\* One transaction commits.
CommitRows ==
    /\ log' = [t \in Tables |-> log'[t]]
    /\ \A t \in Tables : Extends(log'[t], t)

Next == CommitRows

Spec == Init /\ [][Next]_log
=============================================================================
