------------------------ MODULE IncidentQueue_proofs ------------------------
(***************************************************************************)
(* Proofs about IncidentQueue, for any number of incidents, requests and   *)
(* entries.                                                                *)
(***************************************************************************)
EXTENDS IncidentQueue, TLAPS

\* A checked move names a state of the procedure.
LEMMA ValidateType == ASSUME NEW from, NEW to, Validate(from, to) PROVE to \in STATES
BY DEF Validate

\* An idle request's row is one of the table's.
LEMMA NoRowType == NoRow \in Row
BY QueueConstants DEF NoRow, Row, STATES

\* The type invariant holds at the start.
LEMMA TypeInit == Init => TypeOK
BY NoRowType DEF Init, TypeOK

\* No step of a request, nor a new incident, leaves the types.
LEMMA TypeStep == TypeOK /\ [Next]_vars => TypeOK'
<1> SUFFICES ASSUME TypeOK, [Next]_vars PROVE TypeOK'
  OBVIOUS
<1>1. ASSUME NEW i \in Items, Raise(i) PROVE TypeOK'
  BY <1>1 DEF Raise, TypeOK
<1>2. ASSUME NEW a \in Requests, NEW i \in Items, NEW to \in STATES \cup {Unknown},
             Check(a, i, to)
      PROVE  TypeOK'
  <2>1. to \in STATES
    BY <1>2, ValidateType DEF Check
  <2>2. [id |-> 0, item |-> i, state |-> to] \in Row
    BY <2>1 DEF Row
  <2> QED BY <1>2, <2>2 DEF Check, TypeOK
<1>3. ASSUME NEW a \in Requests, Insert(a) PROVE TypeOK'
  <2>1. [req[a] EXCEPT !.id = nextid] \in Row
    BY DEF TypeOK, Row
  <2>2. req' = [req EXCEPT ![a] = [req[a] EXCEPT !.id = nextid]]
    BY <1>3 DEF Insert
  <2> QED BY <1>3, <2>1, <2>2 DEF Insert, TypeOK
<1>4. ASSUME NEW a \in Requests, Commit(a) PROVE TypeOK'
  BY <1>4, NoRowType DEF Commit, TypeOK
<1>5. ASSUME NEW a \in Requests, Abort(a) PROVE TypeOK'
  BY <1>5, NoRowType DEF Abort, TypeOK
<1>6. CASE UNCHANGED vars
  BY <1>6 DEF vars, TypeOK
<1> QED BY <1>1, <1>2, <1>3, <1>4, <1>5, <1>6 DEF Next

\* Requests and rows keep their types, whatever interleaves (transition).
THEOREM QueueTypeCorrect == Spec => []TypeOK
<1>1. Init => TypeOK
  BY TypeInit
<1>2. TypeOK /\ [Next]_vars => TypeOK'
  BY TypeStep
<1> QED BY <1>1, <1>2, PTL DEF Spec

-----------------------------------------------------------------------------
\* What current_state returns for a move other than an acknowledgement is on
\* record, with an id that has been drawn.
LEMMA CheckJustified ==
    ASSUME TypeOK, IdInv, NEW i \in Items, NEW to, NEW from,
           IsCurrent(from, i), Validate(from, to)
    PROVE  Justified([id |-> 0, item |-> i, state |-> to], nextid)
<1> DEFINE r == [id |-> 0, item |-> i, state |-> to]
<1>1. r.item = i /\ r.state = to
  OBVIOUS
<1>2. CASE from = "raised"
  <2>1. to = "acknowledged"
    BY <1>2 DEF Validate, Legal
  <2> QED BY <1>1, <2>1 DEF Justified
<1>3. CASE from # "raised"
  <2>1. PICK q \in RowsOf(i) : q.state = from
    BY <1>3 DEF IsCurrent
  <2>2. OnRecord(from, i, nextid)
    BY <2>1 DEF RowsOf, OnRecord, IdInv
  <2>3. from \in STATES /\ Legal(from, to)
    BY DEF Validate, Legal, STATES
  <2> QED BY <1>1, <2>2, <2>3 DEF Justified
<1> QED BY <1>2, <1>3

\* No id has been drawn and nothing is on record at the start.
LEMMA QueueInit == Init => QueueInv
BY DEF Init, QueueInv, IdInv, JustifiedInv, NoRow

\* Ids are drawn in increasing order.
LEMMA IdStep == TypeOK /\ IdInv /\ [Next]_vars => IdInv'
<1> SUFFICES ASSUME TypeOK, IdInv, [Next]_vars PROVE IdInv'
  OBVIOUS
<1>0. NoRow.id = 0
  BY DEF NoRow
<1>1. ASSUME NEW i \in Items, Raise(i) PROVE IdInv'
  BY <1>1 DEF Raise, IdInv
<1>2. ASSUME NEW a \in Requests, NEW i \in Items, NEW to \in STATES \cup {Unknown},
             Check(a, i, to)
      PROVE  IdInv'
  BY <1>2 DEF Check, IdInv, TypeOK, Row
<1>3. ASSUME NEW a \in Requests, Insert(a) PROVE IdInv'
  <2>1. \A r \in acks' : r.id < nextid'
    BY <1>3 DEF Insert, IdInv, TypeOK, Row
  <2>2. req' = [req EXCEPT ![a] = [req[a] EXCEPT !.id = nextid]] /\ nextid' = nextid + 1
    BY <1>3 DEF Insert
  <2>3. ASSUME NEW c \in Requests PROVE req'[c].id < nextid'
    BY <2>2 DEF IdInv, TypeOK, Row
  <2> QED BY <2>1, <2>3 DEF IdInv
<1>4. ASSUME NEW a \in Requests, Commit(a) PROVE IdInv'
  BY <1>0, <1>4 DEF Commit, IdInv, TypeOK, Row
<1>5. ASSUME NEW a \in Requests, Abort(a) PROVE IdInv'
  BY <1>0, <1>5 DEF Abort, IdInv, TypeOK, Row
<1>6. CASE UNCHANGED vars
  BY <1>6 DEF vars, IdInv
<1> QED BY <1>1, <1>2, <1>3, <1>4, <1>5, <1>6 DEF Next

\* Every step keeps every recorded and every checked move justified.
LEMMA JustifiedStep ==
    TypeOK /\ TypeOK' /\ QueueInv /\ [Next]_vars => JustifiedInv'
<1> SUFFICES ASSUME TypeOK, TypeOK', QueueInv, [Next]_vars PROVE JustifiedInv'
  OBVIOUS
<1> USE DEF QueueInv
<1>1. ASSUME NEW i \in Items, Raise(i) PROVE JustifiedInv'
  BY <1>1 DEF Raise, JustifiedInv, Justified, OnRecord
<1>2. ASSUME NEW a \in Requests, NEW i \in Items, NEW to \in STATES \cup {Unknown},
             Check(a, i, to)
      PROVE  JustifiedInv'
  <2> DEFINE new == [id |-> 0, item |-> i, state |-> to]
  <2>1. UNCHANGED <<acks, nextid>> /\ pc' = [pc EXCEPT ![a] = "checked"]
           /\ req' = [req EXCEPT ![a] = new]
    BY <1>2 DEF Check
  <2>2. Justified(new, nextid)
    BY <1>2, CheckJustified DEF Check
  <2>3. \A r, n : Justified(r, n) => Justified(r, n)'
    BY <2>1 DEF Justified, OnRecord
  <2> HIDE DEF new
  <2>4. \A r \in acks' : Justified(r, r.id)'
    BY <2>1, <2>3 DEF JustifiedInv
  <2>5. ASSUME NEW c \in Requests
        PROVE  /\ pc'[c] = "checked" => Justified(req[c], nextid)'
               /\ pc'[c] = "inserted" => Justified(req[c], req[c].id)'
    <3>1. CASE c = a
      <4>1. pc'[c] = "checked" /\ req'[c] = new
        BY <2>1, <3>1 DEF TypeOK
      <4> QED BY <2>1, <2>2, <4>1 DEF Justified, OnRecord
    <3>2. CASE c # a
      <4>1. pc'[c] = pc[c] /\ req'[c] = req[c]
        BY <2>1, <3>2 DEF TypeOK
      <4> QED BY <2>1, <4>1 DEF JustifiedInv, Justified, OnRecord
    <3> QED BY <3>1, <3>2
  <2> QED BY <2>4, <2>5 DEF JustifiedInv
<1>3. ASSUME NEW a \in Requests, Insert(a) PROVE JustifiedInv'
  <2>1. /\ acks' = acks /\ nextid' = nextid + 1
        /\ pc[a] = "checked" /\ pc' = [pc EXCEPT ![a] = "inserted"]
        /\ req' = [req EXCEPT ![a] = [req[a] EXCEPT !.id = nextid]]
    BY <1>3 DEF Insert
  <2>2. \A r \in acks' : Justified(r, r.id)'
    BY <2>1 DEF JustifiedInv, Justified, OnRecord
  <2>3. ASSUME NEW c \in Requests
        PROVE  /\ pc'[c] = "checked" => Justified(req[c], nextid)'
               /\ pc'[c] = "inserted" => Justified(req[c], req[c].id)'
    <3>1. CASE c = a
      <4>1. /\ pc'[c] = "inserted" /\ req'[c].id = nextid
            /\ req'[c].item = req[c].item /\ req'[c].state = req[c].state
        BY <2>1, <3>1 DEF TypeOK, Row
      <4>2. Justified(req[c], nextid)
        BY <2>1, <3>1 DEF JustifiedInv
      <4> QED BY <2>1, <4>1, <4>2 DEF Justified, OnRecord
    <3>2. CASE c # a
      <4>1. pc'[c] = pc[c] /\ req'[c] = req[c] /\ req[c] \in Row
        BY <2>1, <3>2 DEF TypeOK
      <4>2. CASE pc[c] = "checked"
        <5>1. Justified(req[c], nextid)
          BY <4>2 DEF JustifiedInv
        <5>2. nextid \in Nat /\ nextid' \in Nat /\ nextid <= nextid' /\ acks \subseteq acks'
          BY <2>1 DEF TypeOK
        <5>3. \A q \in acks : q.id < nextid => q.id < nextid'
          BY <5>2 DEF TypeOK, Row
        <5> QED BY <2>1, <4>1, <4>2, <5>1, <5>3 DEF Justified, OnRecord
      <4>3. CASE pc[c] # "checked"
        BY <2>1, <4>1, <4>3 DEF JustifiedInv, Justified, OnRecord
      <4> QED BY <4>2, <4>3
    <3> QED BY <3>1, <3>2
  <2> QED BY <2>2, <2>3 DEF JustifiedInv
<1>4. ASSUME NEW a \in Requests, Commit(a) PROVE JustifiedInv'
  <2>1. /\ pc[a] = "inserted" /\ acks' = acks \cup {req[a]} /\ nextid' = nextid
        /\ pc' = [pc EXCEPT ![a] = "idle"] /\ req' = [req EXCEPT ![a] = NoRow]
    BY <1>4 DEF Commit
  <2>2. ASSUME NEW r, NEW n, Justified(r, n) PROVE Justified(r, n)'
    BY <2>1, <2>2 DEF Justified, OnRecord
  <2>3. ASSUME NEW r \in acks' PROVE Justified(r, r.id)'
    <3>1. Justified(r, r.id)
      BY <2>1 DEF JustifiedInv
    <3> QED BY <3>1, <2>2
  <2>4. ASSUME NEW c \in Requests
        PROVE  /\ pc'[c] = "checked" => Justified(req[c], nextid)'
               /\ pc'[c] = "inserted" => Justified(req[c], req[c].id)'
    <3>1. CASE c = a
      BY <2>1, <3>1 DEF TypeOK
    <3>2. CASE c # a
      <4>1. pc'[c] = pc[c] /\ req'[c] = req[c]
        BY <2>1, <3>2 DEF TypeOK
      <4>2. pc[c] = "checked" => Justified(req[c], nextid)
        BY DEF JustifiedInv
      <4>3. pc[c] = "inserted" => Justified(req[c], req[c].id)
        BY DEF JustifiedInv
      <4> QED BY <2>1, <2>2, <4>1, <4>2, <4>3 DEF Justified, OnRecord
    <3> QED BY <3>1, <3>2
  <2> QED BY <2>3, <2>4 DEF JustifiedInv
<1>5. ASSUME NEW a \in Requests, Abort(a) PROVE JustifiedInv'
  <2>1. /\ UNCHANGED <<acks, nextid>>
        /\ pc' = [pc EXCEPT ![a] = "idle"] /\ req' = [req EXCEPT ![a] = NoRow]
    BY <1>5 DEF Abort
  <2>2. \A r \in acks' : Justified(r, r.id)'
    BY <2>1 DEF JustifiedInv, Justified, OnRecord
  <2>3. ASSUME NEW c \in Requests
        PROVE  /\ pc'[c] = "checked" => Justified(req[c], nextid)'
               /\ pc'[c] = "inserted" => Justified(req[c], req[c].id)'
    <3>1. CASE c = a
      BY <2>1, <3>1 DEF TypeOK
    <3>2. CASE c # a
      <4>1. pc'[c] = pc[c] /\ req'[c] = req[c]
        BY <2>1, <3>2 DEF TypeOK
      <4> QED BY <2>1, <4>1 DEF JustifiedInv, Justified, OnRecord
    <3> QED BY <3>1, <3>2
  <2> QED BY <2>2, <2>3 DEF JustifiedInv
<1>6. CASE UNCHANGED vars
  BY <1>6 DEF vars, JustifiedInv, Justified, OnRecord
<1> QED BY <1>1, <1>2, <1>3, <1>4, <1>5, <1>6 DEF Next

\* Recorded and checked moves stay justified in every reachable state.
THEOREM QueueInvHolds == Spec => []QueueInv
<1>1. Init => TypeOK /\ QueueInv
  BY TypeInit, QueueInit
<1>2. TypeOK /\ QueueInv /\ [Next]_vars => TypeOK' /\ QueueInv'
  BY TypeStep, IdStep, JustifiedStep DEF QueueInv
<1> QED BY <1>1, <1>2, PTL DEF Spec

\* A justified row has the procedure's steps on record before it.
LEMMA ProcedureFollows == TypeOK /\ QueueInv => ProcedureOnRecord
<1> SUFFICES ASSUME TypeOK, JustifiedInv, NEW r \in acks
             PROVE  /\ r.state = "approved" =>
                          /\ OnRecord("customer_confirmed", r.item, r.id)
                          /\ OnRecord("acknowledged", r.item, r.id)
                    /\ r.state = "completed" => OnRecord("approved", r.item, r.id)
  BY DEF QueueInv, ProcedureOnRecord
<1>1. ASSUME r.state = "completed" PROVE OnRecord("approved", r.item, r.id)
  <2>1. Justified(r, r.id)
    BY DEF JustifiedInv
  <2> QED BY <1>1, <2>1 DEF Justified, Legal
<1>2. ASSUME r.state = "approved"
      PROVE  OnRecord("customer_confirmed", r.item, r.id) /\ OnRecord("acknowledged", r.item, r.id)
  <2>1. Justified(r, r.id)
    BY DEF JustifiedInv
  <2>2. OnRecord("customer_confirmed", r.item, r.id)
    BY <1>2, <2>1 DEF Justified, Legal
  <2>3. PICK q \in acks : q.item = r.item /\ q.state = "customer_confirmed" /\ q.id < r.id
    BY <2>2 DEF OnRecord
  <2>4. Justified(q, q.id)
    BY DEF JustifiedInv
  <2>5. OnRecord("acknowledged", q.item, q.id)
    BY <2>3, <2>4 DEF Justified, Legal
  <2>6. PICK p \in acks : p.item = q.item /\ p.state = "acknowledged" /\ p.id < q.id
    BY <2>5 DEF OnRecord
  <2>7. p.id < r.id
    BY <2>3, <2>6 DEF TypeOK, Row
  <2> QED BY <2>2, <2>3, <2>6, <2>7 DEF OnRecord
<1> QED BY <1>1, <1>2

\* However many administrators act at once, an approval has an acknowledgement
\* and a customer confirmation on record before it, and a completion has an
\* approval (TRANSITIONS, checked by transition without a lock).
THEOREM ProcedureHolds == Spec => []ProcedureOnRecord
<1>1. Init => TypeOK /\ QueueInv
  BY TypeInit, QueueInit
<1>2. TypeOK /\ QueueInv /\ [Next]_vars => TypeOK' /\ QueueInv'
  BY TypeStep, IdStep, JustifiedStep DEF QueueInv
<1>3. TypeOK /\ QueueInv => ProcedureOnRecord
  BY ProcedureFollows
<1> QED BY <1>1, <1>2, <1>3, PTL DEF Spec
=============================================================================
