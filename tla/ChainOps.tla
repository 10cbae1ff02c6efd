------------------------------ MODULE ChainOps ------------------------------
(***************************************************************************)
(* The tamper-evidence hash chain of one audit table (hashing.py,          *)
(* chain.py), as operators on a finite set of rows.                        *)
(*                                                                         *)
(* A digest is symbolic: the digest of a row is the digest it was computed *)
(* over followed by the row's content.  SHA-256 is thereby collision free, *)
(* which is the assumption the design makes of it, and a digest IS the     *)
(* history it commits to.  A row's content is opaque: its identity         *)
(* (event_id, ts) and every hashed column are one value "ev".              *)
(***************************************************************************)
EXTENDS Integers, Sequences

\* prev_hash NULL: the first row a chain ever had.
NoHash == <<>>

\* Mutant: the previous digest is hashed as a value and not as the bytes it is.
RowHashOfValue(prev, ev) == <<prev, ev>>

\* compute_row_hash(prev_hash, canonical): SHA-256(prev_hash or b"" || canonical).
RowHash(prev, ev) == Append(prev, ev)

\* A stored row.  seq is the BIGSERIAL and is not hashed.
RowOf(seq, ev, prev) ==
    [seq |-> seq, ev |-> ev, prev |-> prev, hash |-> RowHash(prev, ev)]

Rows(Contents) ==
    [seq : Nat, ev : Contents, prev : Seq(Contents), hash : Seq(Contents)]

\* r is the row that ORDER BY seq DESC LIMIT 1 returns.
IsTail(r, S) == r \in S /\ \A q \in S : q.seq <= r.seq

HasTail(S) == S = {} \/ \E r \in S : IsTail(r, S)

\* The head that the next row must chain onto: the tail's hash, or the
\* archive anchor a when the table holds no row.
TailHash(S, a) == IF S = {} THEN a ELSE (CHOOSE r \in S : IsTail(r, S)).hash

\* p is the row that ORDER BY seq visits just before r.
IsPredecessor(p, r, S) ==
    /\ p \in S /\ p.seq < r.seq
    /\ \A q \in S : q.seq < r.seq => q.seq <= p.seq

\* The verdict of ChainWalker over S in seq order, started at the anchor a:
\* every prev_hash is the previous row's row_hash (linkage) and every
\* row_hash recomputes (integrity).  That the first row's seq follows the
\* anchor's last_seq is left out: archived rows are a prefix by seq.
LinkOK(r, S, a) ==
    \/ (\A q \in S : r.seq <= q.seq) /\ r.prev = a
    \/ \E p \in S : IsPredecessor(p, r, S) /\ r.prev = p.hash

HashOK(r) == r.hash = RowHash(r.prev, r.ev)

Linked(S, a) == \A r \in S : LinkOK(r, S, a) /\ HashOK(r)
=============================================================================
