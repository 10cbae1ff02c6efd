---------------------------- MODULE IncidentQueue ----------------------------
(***************************************************************************)
(* queue.py: the incidents that wait for a human, and the append-only      *)
(* table incident_ack that records what was decided.  An incident's state  *)
(* is its row with the highest id.                                         *)
(*                                                                         *)
(* transition runs on the request's own connection: it reads the state,    *)
(* checks the move, inserts (which draws the id) and commits, without a    *)
(* lock, so that requests of several administrators interleave.  Who acts  *)
(* and the texts a move requires (counterparty, reason, evidence) are left *)
(* out: a request that lacks them is refused before it writes anything.    *)
(***************************************************************************)
EXTENDS Integers, FiniteSets

CONSTANTS
    Items,      \* incidents
    Requests,   \* requests in flight, each an administrator's call
    Unknown,    \* a state that a client may name and the procedure does not know
    MaxEntries  \* bound: the last id that a request may draw

STATES == {"raised", "acknowledged", "customer_confirmed", "approved",
           "declined", "completed"}
TERMINAL_STATES == {"declined", "completed"}

ASSUME QueueConstants ==
    Items # {} /\ Unknown \notin STATES /\ MaxEntries \in Nat

VARIABLES
    raised,  \* the incidents in security_incidents
    acks,    \* committed rows of incident_ack: [id, item, state]
    nextid,  \* the BIGSERIAL's next value
    pc,      \* [Requests -> "idle", "checked" or "inserted"]
    req      \* [Requests -> the row the request is about to record]

vars == <<raised, acks, nextid, pc, req>>

\* Mutant: an acknowledged incident may be approved straight away.
LegalShortcut(from, to) ==
    <<from, to>> \in {<<"raised", "acknowledged">>,
                      <<"acknowledged", "customer_confirmed">>,
                      <<"acknowledged", "approved">>,
                      <<"customer_confirmed", "approved">>,
                      <<"approved", "completed">>}

\* TRANSITIONS: to follows from in the procedure.
Legal(from, to) ==
    <<from, to>> \in {<<"raised", "acknowledged">>,
                      <<"acknowledged", "customer_confirmed">>,
                      <<"acknowledged", "declined">>,
                      <<"customer_confirmed", "approved">>,
                      <<"customer_confirmed", "declined">>,
                      <<"approved", "completed">>}

\* Mutant: a state that is only compared, never looked up.
ValidateChange(from, to) == from # to

\* validate: the move that transition refuses to make otherwise.
Validate(from, to) == to \in STATES /\ from # to /\ Legal(from, to)

\* Mutant: the query has no WHERE incident_id.
AllRows(i) == acks

\* The committed entries of one incident.
RowsOf(i) == {r \in acks : r.item = i}

\* s is what current_state returns for i: the state with the highest id, or
\* "raised" when there is no row.
IsCurrent(s, i) ==
    \/ RowsOf(i) = {} /\ s = "raised"
    \/ \E r \in RowsOf(i) : r.state = s /\ \A q \in RowsOf(i) : q.id <= r.id

NoRow == [id |-> 0, item |-> CHOOSE i \in Items : TRUE, state |-> "raised"]
-----------------------------------------------------------------------------
Init ==
    /\ raised = {}
    /\ acks = {}
    /\ nextid = 1
    /\ pc = [a \in Requests |-> "idle"]
    /\ req = [a \in Requests |-> NoRow]

\* The engine records an incident (IncidentStore.record).
Raise(i) ==
    /\ i \notin raised
    /\ raised' = raised \cup {i}
    /\ UNCHANGED <<acks, nextid, pc, req>>

\* transition up to its checks: the incident exists and the move is legal from
\* the state that is committed now.
Check(a, i, to) ==
    /\ pc[a] = "idle"
    /\ i \in raised
    /\ \E from \in STATES \cup {Unknown} : IsCurrent(from, i) /\ Validate(from, to)
    /\ pc' = [pc EXCEPT ![a] = "checked"]
    /\ req' = [req EXCEPT ![a] = [id |-> 0, item |-> i, state |-> to]]
    /\ UNCHANGED <<raised, acks, nextid>>

\* INSERT ... RETURNING id: the id is drawn before the row is committed.
Insert(a) ==
    /\ pc[a] = "checked"
    /\ nextid <= MaxEntries
    /\ nextid' = nextid + 1
    /\ req' = [req EXCEPT ![a].id = nextid]
    /\ pc' = [pc EXCEPT ![a] = "inserted"]
    /\ UNCHANGED <<raised, acks>>

\* conn.commit(), and the response.
Commit(a) ==
    /\ pc[a] = "inserted"
    /\ acks' = acks \cup {req[a]}
    /\ pc' = [pc EXCEPT ![a] = "idle"]
    /\ req' = [req EXCEPT ![a] = NoRow]
    /\ UNCHANGED <<raised, nextid>>

\* The request fails; its connection is closed and nothing is recorded.
Abort(a) ==
    /\ pc[a] # "idle"
    /\ pc' = [pc EXCEPT ![a] = "idle"]
    /\ req' = [req EXCEPT ![a] = NoRow]
    /\ UNCHANGED <<raised, acks, nextid>>

Next ==
    \/ \E i \in Items : Raise(i)
    \/ \E a \in Requests :
          \/ \E i \in Items, to \in STATES \cup {Unknown} : Check(a, i, to)
          \/ Insert(a)
          \/ Commit(a)
          \/ Abort(a)

Spec == Init /\ [][Next]_vars
-----------------------------------------------------------------------------
Row == [id : Nat, item : Items, state : STATES]

\* The state of transition's requests and of the two tables.
TypeOK ==
    /\ raised \subseteq Items
    /\ acks \subseteq Row
    /\ nextid \in Nat
    /\ pc \in [Requests -> {"idle", "checked", "inserted"}]
    /\ req \in [Requests -> Row]

\* i has a committed entry "s" that precedes the entry numbered n.
OnRecord(s, i, n) == \E q \in acks : q.item = i /\ q.state = s /\ q.id < n

\* The order is the procedure, however requests interleave: an approval has an
\* acknowledgement and a customer confirmation on record before it, and a
\* completion an approval ("a redaction cannot be approved before a customer
\* confirmation is on record", TRANSITIONS).
ProcedureOnRecord ==
    \A r \in acks :
        /\ r.state = "approved" =>
              /\ OnRecord("customer_confirmed", r.item, r.id)
              /\ OnRecord("acknowledged", r.item, r.id)
        /\ r.state = "completed" => OnRecord("approved", r.item, r.id)

\* An incident that is declined or completed stays so ("States where the item
\* is finished either way", TERMINAL_STATES).
TerminalStays ==
    [][\A i \in Items, s \in TERMINAL_STATES : IsCurrent(s, i) => IsCurrent(s, i)']_vars

\* The inductive strengthening of ProcedureOnRecord.
IdInv ==
    /\ \A r \in acks : r.id < nextid
    /\ \A a \in Requests : req[a].id < nextid

\* What a row needs before it: some state that the procedure leads on from.
Justified(r, n) ==
    r.state = "acknowledged" \/ \E s \in STATES : Legal(s, r.state) /\ OnRecord(s, r.item, n)

\* Every row that is recorded, or checked and about to be, moves on from a
\* state that is on record, also when the incident has moved on meanwhile.
JustifiedInv ==
    /\ \A r \in acks : Justified(r, r.id)
    /\ \A a \in Requests :
          /\ pc[a] = "checked" => Justified(req[a], nextid)
          /\ pc[a] = "inserted" => Justified(req[a], req[a].id)

QueueInv == IdInv /\ JustifiedInv
=============================================================================
