------------------------- MODULE RulesEngine_proofs -------------------------
(***************************************************************************)
(* Proofs about RulesEngine for all tenants, rules, windows, thresholds    *)
(* and events: what an incident claims is backed by events, no burst is    *)
(* missed, and a tenant reads nothing of another.  EngineInv is their      *)
(* inductive invariant: what is stored and about to be evaluated           *)
(* (StoreInv), how late and in which order events come (BatchInv), which   *)
(* of them a key has seen (SinceInv), that every entry of a window stands  *)
(* for one of these and none is missing (WindowInv), and what the recorded *)
(* incidents are based on (IncidentInv).                                   *)
(***************************************************************************)
EXTENDS RulesEngine, SequenceTheorems, FiniteOrder_proofs

\* An edit never changes what a rule counts.  The engine keeps the windows of
\* a rule that is edited, so without this an incident may count events, or
\* values of a field, that only the earlier definition looked for.
SameSubject ==
    \A id \in RuleIds : \A d, e \in Definitions[id] :
       d.action = e.action /\ d.then_action = e.then_action /\ d.distinct = e.distinct

\* The definitions that agree on it: all those of the rule, or none.
Agreed(id) == {d \in Definitions[id] : SameSubject}
Plain(id) == {d \in Agreed(id) : ~ is_fanout(d) /\ ~ is_sequence(d)}
Sequences(id) == {d \in Agreed(id) : is_sequence(d)}
FanOuts(id) == {d \in Agreed(id) : is_fanout(d)}

AllDefinitions == UNION {Definitions[id] : id \in RuleIds}
Events == [tenant : EventTenants, actor : {k.actor : k \in Kinds},
           action : {k.action : k \in Kinds}, ts : Nat, n : Nat]
Incidents == [rule : Rules, tenant : EventTenants \cup {NoValue}, key : Keys,
              count : Nat, last : Events, basis : SUBSET Events]

\* A rule set holds one rule per identifier.
OneEach(R) == \A r, q \in R : r.id = q.id => r = q

StoreType(db) ==
    /\ db \in [Tenants \cup {Star} -> [RuleIds -> AllDefinitions \cup {NoValue}]]
    /\ \A s \in Tenants \cup {Star}, id \in RuleIds :
          db[s][id] \in Definitions[id] \cup {NoValue}

StoreInv ==
    /\ StoreType(store)
    /\ cache \in [EventTenants -> (SUBSET Rules) \cup {NoValue}]
    /\ \A t \in EventTenants : cache[t] # NoValue => OneEach(cache[t])
    /\ todo \subseteq Rules /\ OneEach(todo)
    /\ feeding \in BOOLEAN
    /\ ~ feeding => todo = {}
    /\ feeding => batch # <<>>

\* Events are numbered as they are read, and none is later than Lag.
BatchInv ==
    /\ batch \in Seq(Events)
    /\ clock \in [read : Nat, newest : Nat]
    /\ \A i \in DOMAIN batch : batch[i].n <= clock.read /\ batch[i].ts <= clock.newest
    /\ \A i, j \in DOMAIN batch :
          i < j => batch[i].n < batch[j].n /\ batch[i].ts <= batch[j].ts + Lag

\* What a key has seen came before what is still to be evaluated; the event
\* under evaluation is among it only if the key's rule is done with it.
SinceInv ==
    /\ since \in [Keys -> SUBSET Events]
    /\ \A k \in Keys : IsFiniteSet(since[k])
    /\ \A k \in Keys : \A x \in since[k] :
          /\ x.n <= clock.read /\ x.ts <= clock.newest
          /\ k[1] # Star => x.tenant = k[1]
          /\ \A i \in DOMAIN batch :
                /\ x.ts <= batch[i].ts + Lag
                /\ \/ x.n < batch[i].n
                   \/ i = 1 /\ feeding /\ \A r \in todo : r.id # k[2]

\* x lies in the newest window of S, by the shortest window of rule id.
Newest(x, S, id) == \A y \in S, q \in Definitions[id] : x.ts >= y.ts - q.window

\* The deque dq stands for different events of S, in the order they were read;
\* where the definitions in D agree on what is counted, it stands for counted
\* ones, and holds every one of them that lies in the newest window of S.
Matched(g, dq, S, d) ==
    /\ \A i \in DOMAIN dq : matches_primary(d, g[i])
    /\ \A x \in S : matches_primary(d, x) /\ Newest(x, S, d.id) =>
          \E i \in DOMAIN dq : g[i] = x

Backs(g, dq, S, D) ==
    /\ \A i, j \in DOMAIN dq : g[i] = g[j] => i = j
    /\ \A i \in DOMAIN dq : g[i].ts = dq[i]
    /\ \A i, j \in DOMAIN dq : i < j => dq[i] <= dq[j] + Lag
    /\ \A d \in D : Matched(g, dq, S, d)

Held(dq, S, D) == dq \in Seq(Nat) /\ \E g \in [DOMAIN dq -> S] : Backs(g, dq, S, D)

\* The same for the values of a fan-out rule.
SpreadBy(last, S, d) ==
    /\ \A v \in Values : last[v] # NoValue =>
          \E x \in S : x.ts = last[v] /\ x[d.distinct] = v /\ matches_primary(d, x)
    /\ \A x \in S : /\ x[d.distinct] # NoValue
                    /\ Newest(x, S, d.id) =>
                          last[x[d.distinct]] # NoValue /\ last[x[d.distinct]] >= x.ts

Spread(last, S, D) ==
    /\ last \in [Values -> Nat \cup {NoValue}]
    /\ \A v \in Values : last[v] # NoValue =>
          \E x \in S : x.ts = last[v] /\ v \in {x.tenant, x.actor}
    /\ \A d \in D : SpreadBy(last, S, d)

KeyInv(k, S, w, p, f) ==
    Held(w, S, Plain(k[2])) /\ Held(p, S, Sequences(k[2])) /\ Spread(f, S, FanOuts(k[2]))

WindowInv ==
    /\ {windows, primaries} \subseteq [Keys -> Seq(Nat)]
    /\ fanout \in [Keys -> [Values -> Nat \cup {NoValue}]]
    /\ \A k \in Keys : KeyInv(k, since[k], windows[k], primaries[k], fanout[k])

\* What Backed says of one incident.
Near(i) ==
    {e \in i.basis : /\ e.ts <= i.last.ts + Lag
                     /\ e.ts >= i.last.ts - i.rule.window
                          - (IF i.rule.distinct = NoValue THEN Lag ELSE 0)}
BackedBy(i) ==
    /\ i.count >= i.rule.threshold
    /\ i.count <= IF i.rule.distinct = NoValue THEN Cardinality(Near(i))
                  ELSE Cardinality({e[i.rule.distinct] : e \in Near(i)})

IncidentInv ==
    /\ incidents \in Seq(Incidents)
    /\ \A j \in DOMAIN incidents :
          LET i == incidents[j]
          IN /\ i.tenant # NoValue => \A e \in i.basis : e.tenant = i.tenant
             /\ SameSubject => BackedBy(i)

EngineInv == StoreInv /\ BatchInv /\ SinceInv /\ WindowInv /\ IncidentInv

-----------------------------------------------------------------------------
(***************************************************************************)
(* Facts about the operators.                                              *)
(***************************************************************************)

\* The larger of two numbers (max(ts, seen.get(value, ts))).
LEMMA MaxOfTwo ==
    ASSUME NEW m \in Int, NEW n \in Int
    PROVE  Max({m, n}) \in {m, n} /\ Max({m, n}) >= m /\ Max({m, n}) >= n
<1>1. \E x \in {m, n} : \A y \in {m, n} : x >= y
  OBVIOUS
<1>2. QED
  BY <1>1 DEF Max

\* _evict pops the m entries before the first one that is not too old.
LEMMA EvictFacts ==
    ASSUME NEW dq \in Seq(Nat), NEW cutoff \in Int
    PROVE  \E m \in 0..Len(dq) :
              /\ Evict(dq, cutoff) \in Seq(Nat)
              /\ Len(Evict(dq, cutoff)) = Len(dq) - m
              /\ \A i \in 1..(Len(dq) - m) : Evict(dq, cutoff)[i] = dq[i + m]
              /\ \A i \in 1..m : dq[i] < cutoff
              /\ m < Len(dq) => dq[m + 1] >= cutoff
<1> DEFINE kept == {i \in DOMAIN dq : dq[i] >= cutoff}
<1>1. Evict(dq, cutoff) = IF kept = {} THEN <<>> ELSE SubSeq(dq, Min(kept), Len(dq))
  BY DEF Evict
<1>2. CASE kept = {}
  <2>1. \A i \in 1..Len(dq) : dq[i] < cutoff
    BY <1>2
  <2>2. Evict(dq, cutoff) = <<>>
    BY <1>1, <1>2
  <2>3. Len(dq) \in 0..Len(dq) /\ Len(dq) - Len(dq) = 0
    OBVIOUS
  <2>4. QED
    BY <2>1, <2>2, <2>3
<1>3. CASE kept # {}
  <2>1. kept \in SUBSET Int /\ IsFiniteSet(kept)
    <3>1. IsFiniteSet(1..Len(dq)) /\ kept \subseteq 1..Len(dq)
      BY FS_Interval
    <3>2. QED
      BY <3>1, FS_Subset
  <2>2. Min(kept) \in kept /\ \A y \in kept : Min(kept) <= y
    <3> HIDE DEF kept
    <3>1. QED
      BY <1>3, <2>1, MinFacts
  <2>3. PICK a : a = Min(kept)
    OBVIOUS
  <2>4. a \in 1..Len(dq) /\ dq[a] >= cutoff /\ \A i \in 1..(a - 1) : dq[i] < cutoff
    <3>1. a \in kept /\ \A y \in kept : a <= y
      BY <2>2, <2>3
    <3>2. a \in 1..Len(dq) /\ dq[a] >= cutoff
      BY <3>1
    <3>3. ASSUME NEW i \in 1..(a - 1) PROVE dq[i] < cutoff
      <4>1. i \in 1..Len(dq) /\ i < a /\ i \notin kept
        BY <3>1, <3>2
      <4>2. QED
        BY <4>1
    <3>4. QED
      BY <3>2, <3>3
  <2>5. Evict(dq, cutoff) = SubSeq(dq, a, Len(dq))
    BY <1>1, <1>3, <2>3
  <2> HIDE DEF kept
  <2>6. /\ SubSeq(dq, a, Len(dq)) \in Seq(Nat)
        /\ Len(SubSeq(dq, a, Len(dq))) = Len(dq) - (a - 1)
        /\ \A i \in 1..(Len(dq) - (a - 1)) : SubSeq(dq, a, Len(dq))[i] = dq[i + (a - 1)]
    BY <2>4
  <2>7. PICK m : m = a - 1
    OBVIOUS
  <2>8. m \in 0..Len(dq) /\ m + 1 = a
    BY <2>4, <2>7
  <2>9. /\ Evict(dq, cutoff) \in Seq(Nat)
        /\ Len(Evict(dq, cutoff)) = Len(dq) - m
        /\ \A i \in 1..(Len(dq) - m) : Evict(dq, cutoff)[i] = dq[i + m]
    BY <2>5, <2>6, <2>7
  <2>10. (\A i \in 1..m : dq[i] < cutoff) /\ dq[m + 1] >= cutoff
    BY <2>4, <2>7, <2>8
  <2>11. QED
    BY <2>8, <2>9, <2>10
<1>4. QED
  BY <1>2, <1>3

\* A deque never claims more events than there are.
LEMMA HeldCount ==
    ASSUME NEW S, IsFiniteSet(S), NEW dq, NEW D, Held(dq, S, D)
    PROVE  /\ Len(dq) \in Nat /\ Len(dq) <= Cardinality(S)
           /\ {dq[i] : i \in DOMAIN dq} \subseteq {x.ts : x \in S}
<1>1. PICK g \in [DOMAIN dq -> S] : Backs(g, dq, S, D)
  BY DEF Held
<1>2. dq \in Seq(Nat) /\ DOMAIN dq = 1..Len(dq) /\ Len(dq) \in Nat
  BY DEF Held
<1>3. g \in Injection(DOMAIN dq, S)
  BY <1>1 DEF Backs, Injection, IsInjective
<1>4. Cardinality(DOMAIN dq) <= Cardinality(S)
  BY <1>3, FS_Injection
<1>5. Cardinality(DOMAIN dq) = Len(dq)
  <2>1. PICK n \in Nat : n = Len(dq)
    BY <1>2
  <2>2. Cardinality(1..n) = n
    BY FS_Interval
  <2>3. QED
    BY <1>2, <2>1, <2>2
<1>6. \A i \in DOMAIN dq : g[i] \in S /\ g[i].ts = dq[i]
  BY <1>1 DEF Backs
<1>7. {dq[i] : i \in DOMAIN dq} \subseteq {x.ts : x \in S}
  <2>1. ASSUME NEW i \in DOMAIN dq PROVE \E x \in S : dq[i] = x.ts
    BY <1>6
  <2>2. QED
    BY <2>1
<1>8. QED
  BY <1>2, <1>4, <1>5, <1>7

\* An event that a rule counts is appended to its deque.
LEMMA HeldAdd ==
    ASSUME NEW S \in SUBSET Events, NEW e \in Events, e \notin S, NEW dq, NEW D,
           Held(dq, S, D), \A d \in D : matches_primary(d, e),
           \A x \in S : x.ts <= e.ts + Lag
    PROVE  Held(Append(dq, e.ts), S \cup {e}, D)
<1>1. PICK g \in [DOMAIN dq -> S] : Backs(g, dq, S, D)
  BY DEF Held
<1>2. dq \in Seq(Nat) /\ DOMAIN dq = 1..Len(dq) /\ Len(dq) \in Nat /\ e.ts \in Nat
  BY DEF Held, Events
<1> DEFINE n == Len(dq) + 1
           h == [i \in 1..n |-> IF i = n THEN e ELSE g[i]]
           aq == Append(dq, e.ts)
<1>3. /\ aq \in Seq(Nat) /\ DOMAIN aq = 1..n
      /\ \A i \in 1..n : aq[i] = IF i = n THEN e.ts ELSE dq[i]
  BY <1>2
<1>4. /\ \A i \in 1..n : i # n => i \in DOMAIN dq /\ i < n
      /\ \A i \in DOMAIN dq : i \in 1..n /\ i # n
      /\ n \in 1..n
  BY <1>2
<1>5. h \in [DOMAIN aq -> S \cup {e}]
  BY <1>1, <1>3, <1>4
<1> HIDE DEF n
<1>6. \A i \in 1..n : h[i] = IF i = n THEN e ELSE g[i]
  OBVIOUS
<1>7. \A i \in DOMAIN dq : g[i] \in S
  BY <1>1
<1> HIDE DEF h, aq
<1>8. \A i, j \in DOMAIN aq : h[i] = h[j] => i = j
  BY <1>1, <1>3, <1>4, <1>6, <1>7 DEF Backs
<1>9. \A i \in DOMAIN aq : h[i].ts = aq[i]
  BY <1>1, <1>3, <1>4, <1>6 DEF Backs
<1>10. \A i, j \in DOMAIN aq : i < j => aq[i] <= aq[j] + Lag
  <2> SUFFICES ASSUME NEW i \in DOMAIN aq, NEW j \in DOMAIN aq, i < j
               PROVE  aq[i] <= aq[j] + Lag
    OBVIOUS
  <2>1. i \in DOMAIN dq /\ i # n /\ aq[i] = dq[i]
    BY <1>3, <1>4
  <2>2. CASE j = n
    <3>1. g[i] \in S /\ g[i].ts = dq[i]
      BY <1>1, <1>7, <2>1 DEF Backs
    <3>2. QED
      BY <1>3, <2>1, <2>2, <3>1
  <2>3. CASE j # n
    BY <1>1, <1>3, <1>4, <2>1, <2>3 DEF Backs
  <2>4. QED
    BY <2>2, <2>3
<1>11. ASSUME NEW d \in D PROVE Matched(h, aq, S \cup {e}, d)
  <2>1. Matched(g, dq, S, d)
    BY <1>1 DEF Backs
  <2>2. \A i \in DOMAIN aq : matches_primary(d, h[i])
    <3>1. ASSUME NEW i \in DOMAIN aq PROVE matches_primary(d, h[i])
      <4>1. CASE i = n
        BY <1>3, <1>6, <4>1
      <4>2. CASE i # n
        <5>1. i \in DOMAIN dq /\ h[i] = g[i]
          BY <1>3, <1>4, <1>6, <4>2
        <5>2. QED
          BY <2>1, <5>1 DEF Matched
      <4>3. QED
        BY <4>1, <4>2
    <3>2. QED
      BY <3>1
  <2>3. ASSUME NEW x \in S \cup {e}, matches_primary(d, x), Newest(x, S \cup {e}, d.id)
        PROVE  \E i \in DOMAIN aq : h[i] = x
    <3>1. CASE x = e
      BY <1>3, <1>4, <1>6, <3>1
    <3>2. CASE x # e
      <4>1. x \in S /\ Newest(x, S, d.id)
        BY <2>3, <3>2 DEF Newest
      <4>2. PICK i \in DOMAIN dq : g[i] = x
        BY <2>1, <2>3, <4>1 DEF Matched
      <4>3. QED
        BY <1>3, <1>4, <1>6, <4>2
    <3>3. QED
      BY <3>1, <3>2
  <2>4. QED
    BY <2>2, <2>3 DEF Matched
<1>12. Backs(h, aq, S \cup {e}, D)
  BY <1>8, <1>9, <1>10, <1>11 DEF Backs
<1>13. QED
  BY <1>3, <1>5, <1>12 DEF Held, aq

\* Eviction takes nothing from the newest window: what it pops is older than
\* the window of the event that evicts, and the first entry it keeps is not.
LEMMA HeldEvict ==
    ASSUME NEW S \in SUBSET Events, NEW e \in S, NEW dq, NEW D, Held(dq, S, D),
           NEW r, r.window \in Nat, \A d \in D : r \in Definitions[d.id]
    PROVE  LET eq == Evict(dq, e.ts - r.window)
           IN Held(eq, S, D) /\ (Len(eq) > 0 => eq[1] >= e.ts - r.window)
<1>1. PICK g \in [DOMAIN dq -> S] : Backs(g, dq, S, D)
  BY DEF Held
<1>2. dq \in Seq(Nat) /\ DOMAIN dq = 1..Len(dq) /\ Len(dq) \in Nat /\ e.ts \in Nat
  BY DEF Held, Events
<1>3. PICK cutoff \in Int : cutoff = e.ts - r.window
  BY <1>2
<1>4. PICK eq : eq = Evict(dq, cutoff)
  OBVIOUS
<1>5. PICK m \in 0..Len(dq) :
              /\ eq \in Seq(Nat)
              /\ Len(eq) = Len(dq) - m
              /\ \A i \in 1..(Len(dq) - m) : eq[i] = dq[i + m]
              /\ \A i \in 1..m : dq[i] < cutoff
              /\ m < Len(dq) => dq[m + 1] >= cutoff
  BY <1>2, <1>4, EvictFacts
<1>6. DOMAIN eq = 1..(Len(dq) - m) /\ \A i \in DOMAIN eq : i + m \in DOMAIN dq /\ eq[i] = dq[i + m]
  <2>1. DOMAIN eq = 1..Len(eq)
    BY <1>5
  <2>2. DOMAIN eq = 1..(Len(dq) - m)
    BY <1>5, <2>1
  <2>3. \A i \in 1..(Len(dq) - m) : i + m \in 1..Len(dq)
    BY <1>2
  <2>4. QED
    BY <1>2, <1>5, <2>2, <2>3
<1> DEFINE h == [i \in DOMAIN eq |-> g[i + m]]
<1>7. h \in [DOMAIN eq -> S]
  BY <1>1, <1>6
<1>8. \A i \in DOMAIN eq : h[i] = g[i + m]
  OBVIOUS
<1> HIDE DEF h
<1>9. \A i, j \in DOMAIN eq : h[i] = h[j] => i = j
  <2> SUFFICES ASSUME NEW i \in DOMAIN eq, NEW j \in DOMAIN eq, h[i] = h[j] PROVE i = j
    OBVIOUS
  <2>1. i + m = j + m
    BY <1>1, <1>6, <1>8 DEF Backs
  <2>2. QED
    BY <1>6, <2>1
<1>10. \A i \in DOMAIN eq : h[i].ts = eq[i]
  BY <1>1, <1>6, <1>8 DEF Backs
<1>11. \A i, j \in DOMAIN eq : i < j => eq[i] <= eq[j] + Lag
  <2> SUFFICES ASSUME NEW i \in DOMAIN eq, NEW j \in DOMAIN eq, i < j
               PROVE  eq[i] <= eq[j] + Lag
    OBVIOUS
  <2>1. i + m \in DOMAIN dq /\ j + m \in DOMAIN dq /\ i + m < j + m
    BY <1>6
  <2>2. dq[i + m] <= dq[j + m] + Lag
    BY <1>1, <2>1 DEF Backs
  <2>3. QED
    BY <1>6, <2>2
<1>12. ASSUME NEW d \in D, NEW x \in S, matches_primary(d, x), Newest(x, S, d.id)
       PROVE  \E i \in DOMAIN eq : h[i] = x
  <2>1. PICK i \in DOMAIN dq : g[i] = x
    BY <1>1, <1>12 DEF Backs, Matched
  <2>2. dq[i] >= cutoff
    <3>1. dq[i] = x.ts
      BY <1>1, <2>1 DEF Backs
    <3>2. x.ts >= e.ts - r.window
      BY <1>12 DEF Newest
    <3>3. QED
      BY <1>3, <3>1, <3>2
  <2>3. ~ (i \in 1..m)
    BY <1>2, <1>3, <1>5, <2>2
  <2>4. i - m \in DOMAIN eq /\ (i - m) + m = i
    <3>1. i \in 1..Len(dq) /\ m \in 0..Len(dq) /\ Len(dq) \in Nat
      BY <1>2
    <3>2. i - m \in 1..(Len(dq) - m) /\ (i - m) + m = i
      BY <2>3, <3>1
    <3>3. QED
      BY <1>6, <3>2
  <2>5. QED
    BY <1>8, <2>1, <2>4
<1>13. Backs(h, eq, S, D)
  <2>1. \A d \in D : \A i \in DOMAIN eq : matches_primary(d, h[i])
    BY <1>1, <1>6, <1>8 DEF Backs, Matched
  <2>2. \A d \in D : Matched(h, eq, S, d)
    BY <1>12, <2>1 DEF Matched
  <2>3. QED
    BY <1>9, <1>10, <1>11, <2>2 DEF Backs
<1>14. Len(eq) > 0 => eq[1] >= cutoff
  <2> SUFFICES ASSUME Len(eq) > 0 PROVE eq[1] >= cutoff
    OBVIOUS
  <2>1. 1 \in 1..(Len(dq) - m) /\ m < Len(dq) /\ 1 + m = m + 1
    BY <1>2, <1>5
  <2>2. QED
    BY <1>5, <2>1
<1>15. Held(eq, S, D)
  BY <1>5, <1>7, <1>13 DEF Held
<1>16. QED
  BY <1>3, <1>4, <1>14, <1>15

\* A seal, which the rule does not count, leaves the deque alone.
LEMMA HeldLook ==
    ASSUME NEW S \in SUBSET Events, NEW e \in Events, NEW dq, NEW D, Held(dq, S, D),
           \A d \in D : ~ matches_primary(d, e)
    PROVE  Held(dq, S \cup {e}, D)
<1>1. PICK g \in [DOMAIN dq -> S] : Backs(g, dq, S, D)
  BY DEF Held
<1>2. g \in [DOMAIN dq -> S \cup {e}]
  BY <1>1
<1>3. ASSUME NEW d \in D, NEW x \in S \cup {e}, matches_primary(d, x),
             Newest(x, S \cup {e}, d.id)
      PROVE  \E i \in DOMAIN dq : g[i] = x
  <2>1. x \in S /\ Newest(x, S, d.id)
    BY <1>3 DEF Newest
  <2>2. QED
    BY <1>1, <1>3, <2>1 DEF Backs, Matched
<1>4. Backs(g, dq, S \cup {e}, D)
  <2>1. \A d \in D : Matched(g, dq, S \cup {e}, d)
    BY <1>1, <1>3 DEF Backs, Matched
  <2>2. QED
    BY <1>1, <2>1 DEF Backs
<1>5. QED
  BY <1>2, <1>4 DEF Held

\* What a deque claims: that many different events that the rule counts, none
\* of them older than the window by more than Lag.
LEMMA HeldBacked ==
    ASSUME NEW S \in SUBSET Events, IsFiniteSet(S), NEW e \in S, NEW dq, NEW D,
           Held(dq, S, D), NEW d \in D, d.window \in Nat,
           Len(dq) > 0 => dq[1] >= e.ts - d.window, NEW near,
           \A x \in S : matches_primary(d, x) /\ x.ts >= e.ts - d.window - Lag => x \in near,
           IsFiniteSet(near)
    PROVE  Len(dq) <= Cardinality(near)
<1>1. PICK g \in [DOMAIN dq -> S] : Backs(g, dq, S, D)
  BY DEF Held
<1>2. dq \in Seq(Nat) /\ DOMAIN dq = 1..Len(dq) /\ Len(dq) \in Nat /\ e.ts \in Nat /\ Lag \in Nat
  BY RulesAssumption DEF Held, Events
<1>3. ASSUME NEW i \in DOMAIN dq PROVE g[i] \in near
  <2>1. dq[1] >= e.ts - d.window /\ 1 \in DOMAIN dq /\ dq[1] \in Nat /\ dq[i] \in Nat
    BY <1>2
  <2>2. dq[1] <= dq[i] + Lag
    <3>1. CASE i = 1
      BY <1>2, <2>1, <3>1
    <3>2. CASE i # 1
      <4>1. 1 < i
        BY <1>2, <3>2
      <4>2. QED
        BY <1>1, <2>1, <4>1 DEF Backs
    <3>3. QED
      BY <3>1, <3>2
  <2>3. dq[i] >= e.ts - d.window - Lag
    BY <1>2, <2>1, <2>2
  <2>4. g[i] \in S /\ g[i].ts = dq[i] /\ matches_primary(d, g[i])
    BY <1>1 DEF Backs, Matched
  <2>5. QED
    BY <2>3, <2>4
<1>4. g \in Injection(DOMAIN dq, near)
  <2>1. g \in [DOMAIN dq -> near]
    BY <1>1, <1>3
  <2>2. QED
    BY <1>1, <2>1 DEF Backs, Injection, IsInjective
<1>5. Cardinality(DOMAIN dq) <= Cardinality(near)
  BY <1>4, FS_Injection
<1>6. PICK n \in Nat : n = Len(dq)
  BY <1>2
<1>7. Cardinality(1..n) = n
  BY FS_Interval
<1>8. QED
  BY <1>2, <1>5, <1>6, <1>7

\* ... and what it may not fall short of: the events of the newest window.
LEMMA HeldCovers ==
    ASSUME NEW S \in SUBSET Events, NEW dq, NEW D, Held(dq, S, D), NEW d \in D, NEW now,
           \A x \in now : x \in S /\ matches_primary(d, x) /\ Newest(x, S, d.id)
    PROVE  IsFiniteSet(now) /\ Cardinality(now) <= Len(dq)
<1>1. PICK g \in [DOMAIN dq -> S] : Backs(g, dq, S, D)
  BY DEF Held
<1>2. dq \in Seq(Nat) /\ DOMAIN dq = 1..Len(dq) /\ Len(dq) \in Nat
  BY DEF Held
<1>3. \A x \in now : \E i \in DOMAIN dq : g[i] = x
  BY <1>1 DEF Backs, Matched
<1> DEFINE f == [x \in now |-> CHOOSE i \in DOMAIN dq : g[i] = x]
<1>4. \A x \in now : f[x] \in DOMAIN dq /\ g[f[x]] = x
  BY <1>3
<1>5. f \in Injection(now, DOMAIN dq)
  <2>1. f \in [now -> DOMAIN dq]
    BY <1>4
  <2> HIDE DEF f
  <2>2. \A x, y \in now : f[x] = f[y] => x = y
    BY <1>4
  <2>3. QED
    BY <2>1, <2>2 DEF Injection, IsInjective
<1>6. PICK n \in Nat : n = Len(dq)
  BY <1>2
<1>7. IsFiniteSet(1..n) /\ Cardinality(1..n) = n
  BY FS_Interval
<1>8. QED
  BY <1>2, <1>5, <1>6, <1>7, FS_Injection

\* The fields of an event that group or are counted are fields of its kind.
LEMMA FieldFacts ==
    ASSUME NEW e \in Events, NEW f \in {"tenant", "actor"}, e[f] # NoValue
    PROVE  e[f] \in FieldValues(f) /\ e[f] \in Values
<1>1. e.tenant \in {k["tenant"] : k \in Kinds} /\ e.actor \in {k["actor"] : k \in Kinds}
  BY DEF Events, EventTenants
<1>2. e[f] \in {k[f] : k \in Kinds}
  BY <1>1
<1>3. e[f] \in FieldValues(f)
  BY <1>2 DEF FieldValues
<1>4. CASE f = "tenant"
  BY <1>3, <1>4 DEF Values
<1>5. CASE f = "actor"
  BY <1>3, <1>5 DEF Values
<1>6. QED
  BY <1>3, <1>4, <1>5

\* add_and_count of the distinct values: the value is there, at its latest
\* time, and only values that are too old are dropped.
Refreshed(s, last, value, ts, w) ==
    /\ s \in [Values -> Nat \cup {NoValue}]
    /\ s[value] \in Nat /\ s[value] >= ts
    /\ last[value] # NoValue => s[value] >= last[value]
    /\ s[value] = ts \/ (last[value] # NoValue /\ s[value] = last[value])
    /\ \A v \in Values : s[v] # NoValue => s[v] >= ts - w
    /\ \A v \in Values \ {value} :
          /\ s[v] # NoValue => s[v] = last[v]
          /\ last[v] # NoValue /\ last[v] >= ts - w => s[v] = last[v]

LEMMA SeenFacts ==
    ASSUME NEW last \in [Values -> Nat \cup {NoValue}], NEW value \in Values,
           NEW ts \in Nat, NEW w \in Nat
    PROVE  Refreshed(Seen(last, value, ts, w), last, value, ts, w)
<1>1. PICK time : time = IF last[value] = NoValue THEN ts ELSE Max({last[value], ts})
  OBVIOUS
<1>2. /\ time \in Nat /\ time >= ts
      /\ last[value] # NoValue => time >= last[value]
      /\ time = ts \/ (last[value] # NoValue /\ time = last[value])
  <2>1. CASE last[value] = NoValue
    BY <1>1, <2>1
  <2>2. CASE last[value] # NoValue
    <3>1. last[value] \in Nat
      BY <2>2
    <3>2. PICK old \in Nat : old = last[value]
      BY <3>1
    <3>3. Max({old, ts}) \in {old, ts} /\ Max({old, ts}) >= old /\ Max({old, ts}) >= ts
      <4>1. old \in Int /\ ts \in Int
        OBVIOUS
      <4>2. QED
        BY <4>1, MaxOfTwo, Zenon
    <3>4. time = Max({old, ts})
      BY <1>1, <2>2, <3>2
    <3>5. QED
      BY <2>2, <3>2, <3>3, <3>4
  <2>3. QED
    BY <2>1, <2>2
<1> DEFINE s == Seen(last, value, ts, w)
<1>3. s = [v \in Values |->
             LET t == IF v = value THEN time ELSE last[v]
             IN IF t # NoValue /\ t >= ts - w THEN t ELSE NoValue]
  BY <1>1 DEF Seen
<1> HIDE DEF s
<1>4. time # NoValue /\ time >= ts - w
  BY <1>2, RulesAssumption
<1>5. s[value] = time
  BY <1>3, <1>4
<1>6. \A v \in Values \ {value} :
         s[v] = IF last[v] # NoValue /\ last[v] >= ts - w THEN last[v] ELSE NoValue
  BY <1>3
<1>7. \A v \in Values : s[v] \in Nat \cup {NoValue}
  BY <1>2, <1>5, <1>6
<1>8. s \in [Values -> Nat \cup {NoValue}]
  BY <1>3, <1>7
<1>9. \A v \in Values : s[v] # NoValue => s[v] >= ts - w
  BY <1>4, <1>5, <1>6
<1>10. Refreshed(s, last, value, ts, w)
  BY <1>2, <1>5, <1>6, <1>8, <1>9 DEF Refreshed
<1>11. QED
  BY <1>10 DEF s

\* The definitions in D count what r counts, and r counts the value in e.
CountsValue(D, r, e) ==
    /\ r.distinct \in {"tenant", "actor"} /\ r.window \in Nat /\ e[r.distinct] # NoValue
    /\ \A d \in D : /\ r \in Definitions[d.id] /\ d.distinct = r.distinct
                    /\ matches_primary(d, e)

\* A value seen is backed by its event, and the newest window loses none.
LEMMA SpreadSeen ==
    ASSUME NEW S \in SUBSET Events, NEW e \in Events, NEW last, NEW D, Spread(last, S, D),
           NEW r, CountsValue(D, r, e),
           NEW s, Refreshed(s, last, e[r.distinct], e.ts, r.window)
    PROVE  Spread(s, S \cup {e}, D) /\ \A v \in Values : s[v] # NoValue => s[v] >= e.ts - r.window
<1>0. /\ r.distinct \in {"tenant", "actor"} /\ r.window \in Nat /\ e[r.distinct] # NoValue
      /\ \A d \in D : /\ r \in Definitions[d.id] /\ d.distinct = r.distinct
                      /\ matches_primary(d, e)
  BY DEF CountsValue
<1>1. PICK value : value = e[r.distinct]
  OBVIOUS
<1>2. value \in Values /\ e.ts \in Nat /\ last \in [Values -> Nat \cup {NoValue}]
  <2>1. value \in Values
    BY <1>0, <1>1, FieldFacts
  <2>2. QED
    BY <2>1 DEF Spread, Events
<1>3. /\ s \in [Values -> Nat \cup {NoValue}]
      /\ s[value] \in Nat /\ s[value] >= e.ts
      /\ last[value] # NoValue => s[value] >= last[value]
      /\ s[value] = e.ts \/ (last[value] # NoValue /\ s[value] = last[value])
      /\ \A v \in Values : s[v] # NoValue => s[v] >= e.ts - r.window
      /\ \A v \in Values \ {value} :
            /\ s[v] # NoValue => s[v] = last[v]
            /\ last[v] # NoValue /\ last[v] >= e.ts - r.window => s[v] = last[v]
  BY <1>1 DEF Refreshed
<1>4. \A v \in Values : s[v] # NoValue =>
         \/ v = value /\ s[v] = e.ts
         \/ last[v] # NoValue /\ s[v] = last[v]
  BY <1>3
<1>5. ASSUME NEW v \in Values, s[v] # NoValue
      PROVE  \E x \in S \cup {e} : x.ts = s[v] /\ v \in {x.tenant, x.actor}
  <2>1. CASE v = value /\ s[v] = e.ts
    BY <1>0, <1>1, <2>1
  <2>2. CASE last[v] # NoValue /\ s[v] = last[v]
    <3>1. PICK x \in S : x.ts = last[v] /\ v \in {x.tenant, x.actor}
      BY <2>2 DEF Spread
    <3>2. QED
      BY <2>2, <3>1
  <2>3. QED
    BY <1>4, <1>5, <2>1, <2>2
<1>6. ASSUME NEW d \in D PROVE SpreadBy(s, S \cup {e}, d)
  <2>1. SpreadBy(last, S, d) /\ r \in Definitions[d.id] /\ d.distinct = r.distinct
        /\ matches_primary(d, e) /\ d.distinct \in {"tenant", "actor"} /\ r.window \in Nat
    BY <1>0 DEF Spread
  <2>2. ASSUME NEW v \in Values, s[v] # NoValue
        PROVE  \E x \in S \cup {e} : x.ts = s[v] /\ x[d.distinct] = v /\ matches_primary(d, x)
    <3>1. CASE v = value /\ s[v] = e.ts
      BY <1>1, <2>1, <3>1
    <3>2. CASE last[v] # NoValue /\ s[v] = last[v]
      <4>1. PICK x \in S : x.ts = last[v] /\ x[d.distinct] = v /\ matches_primary(d, x)
        BY <2>1, <3>2 DEF SpreadBy
      <4>2. QED
        BY <3>2, <4>1
    <3>3. QED
      BY <1>4, <2>2, <3>1, <3>2
  <2>3. ASSUME NEW x \in S \cup {e}
        PROVE  /\ x[d.distinct] # NoValue
               /\ Newest(x, S \cup {e}, d.id) =>
                     s[x[d.distinct]] # NoValue /\ s[x[d.distinct]] >= x.ts
    <3>1. x \in Events /\ x.ts \in Nat
      BY DEF Events
    <3>2. x[d.distinct] # NoValue
      BY <1>0, <2>1 DEF SpreadBy
    <3>3. x[d.distinct] \in Values
      BY <2>1, <3>1, <3>2, FieldFacts
    <3> SUFFICES ASSUME Newest(x, S \cup {e}, d.id)
                 PROVE  s[x[d.distinct]] # NoValue /\ s[x[d.distinct]] >= x.ts
      BY <3>2
    <3>4. PICK v \in Values : v = x[d.distinct]
      BY <3>3
    <3>5. s[value] # NoValue
      BY <1>3, RulesAssumption
    <3>6. CASE x = e
      BY <1>1, <1>3, <2>1, <3>5, <3>6
    <3>7. CASE x # e
      <4>1. x \in S /\ Newest(x, S, d.id) /\ x.ts >= e.ts - r.window
        BY <2>1, <3>7 DEF Newest
      <4>2. last[v] # NoValue /\ last[v] >= x.ts /\ last[v] \in Nat
        <5>1. last[x[d.distinct]] # NoValue /\ last[x[d.distinct]] >= x.ts
          BY <2>1, <4>1 DEF SpreadBy
        <5>2. QED
          BY <1>2, <3>4, <5>1
      <4>3. last[v] >= e.ts - r.window
        BY <1>0, <1>2, <3>1, <4>1, <4>2
      <4>4. CASE v = value
        BY <1>3, <3>1, <3>4, <3>5, <4>2, <4>4
      <4>5. CASE v # value
        BY <1>3, <3>4, <4>2, <4>3, <4>5
      <4>6. QED
        BY <4>4, <4>5
    <3>8. QED
      BY <3>6, <3>7
  <2>4. QED
    BY <2>2, <2>3 DEF SpreadBy
<1>7. QED
  BY <1>3, <1>5, <1>6 DEF Spread

\* An event of a rule that is no fan-out leaves the values alone.
LEMMA SpreadLook ==
    ASSUME NEW S, NEW T, S \subseteq T, NEW last, Spread(last, S, {})
    PROVE  Spread(last, T, {})
BY DEF Spread

\* The values of a finite set of events are finitely many.
LEMMA ValuesFinite ==
    ASSUME NEW S, IsFiniteSet(S), NEW f
    PROVE  IsFiniteSet({x[f] : x \in S})
<1> DEFINE T == {x[f] : x \in S}
           g == [x \in S |-> x[f]]
<1>1. g \in Surjection(S, T)
  BY DEF Surjection
<1>2. QED
  BY <1>1, FS_Surjection

\* The values that a key has seen are finitely many.
LEMMA DistinctFinite ==
    ASSUME NEW S, IsFiniteSet(S), NEW last, NEW D, Spread(last, S, D)
    PROVE  IsFiniteSet(Distinct(last))
<1>1. PICK T, A : T = {x["tenant"] : x \in S} /\ A = {x["actor"] : x \in S}
  OBVIOUS
<1>2. IsFiniteSet(T \cup A)
  <2>1. IsFiniteSet(T) /\ IsFiniteSet(A)
    BY <1>1, ValuesFinite
  <2>2. QED
    BY <2>1, FS_Union
<1>3. ASSUME NEW v \in Distinct(last) PROVE v \in T \cup A
  <2>1. PICK x \in S : v \in {x.tenant, x.actor}
    BY DEF Distinct, Spread
  <2>2. QED
    BY <1>1, <2>1
<1>4. QED
  BY <1>2, <1>3, FS_Subset

\* What the distinct values claim: events with that many values in the window.
LEMMA SpreadBacked ==
    ASSUME NEW S \in SUBSET Events, IsFiniteSet(S), NEW e \in Events, NEW last, NEW D,
           Spread(last, S, D), NEW d \in D, d.window \in Nat,
           \A v \in Values : last[v] # NoValue => last[v] >= e.ts - d.window,
           NEW near, IsFiniteSet(near),
           \A x \in S : matches_primary(d, x) /\ x.ts >= e.ts - d.window => x \in near
    PROVE  Cardinality(Distinct(last)) <= Cardinality({x[d.distinct] : x \in near})
<1>1. ASSUME NEW v \in Distinct(last) PROVE v \in {x[d.distinct] : x \in near}
  <2>1. v \in Values /\ last[v] # NoValue
    BY DEF Distinct
  <2>2. PICK x \in S : x.ts = last[v] /\ x[d.distinct] = v /\ matches_primary(d, x)
    BY <2>1 DEF Spread, SpreadBy
  <2>3. x \in near
    BY <2>1, <2>2
  <2>4. QED
    BY <2>2, <2>3
<1>2. PICK T : T = {x[d.distinct] : x \in near}
  OBVIOUS
<1>3. Distinct(last) \subseteq T
  BY <1>1, <1>2
<1>4. IsFiniteSet(T)
  BY <1>2, ValuesFinite
<1>5. Cardinality(Distinct(last)) <= Cardinality(T)
  BY <1>3, <1>4, FS_Subset
<1>6. QED
  BY <1>2, <1>5

\* ... and what they may not fall short of: the values of the newest window.
LEMMA SpreadCovers ==
    ASSUME NEW S \in SUBSET Events, IsFiniteSet(S), NEW last, NEW D, Spread(last, S, D),
           NEW d \in D, d.distinct \in {"tenant", "actor"}, NEW now,
           \A x \in now : x \in S /\ Newest(x, S, d.id)
    PROVE  Cardinality({x[d.distinct] : x \in now} \ {NoValue}) <= Cardinality(Distinct(last))
<1>1. IsFiniteSet(Distinct(last))
  BY DistinctFinite
<1>2. SpreadBy(last, S, d)
  BY DEF Spread
<1>3. ASSUME NEW x \in now PROVE x[d.distinct] \in Distinct(last)
  <2>1. x \in S /\ x \in Events /\ x[d.distinct] # NoValue
    BY <1>2 DEF SpreadBy
  <2>2. x[d.distinct] \in Values
    BY <2>1, FieldFacts
  <2>3. QED
    BY <1>2, <2>1, <2>2 DEF SpreadBy, Distinct
<1>4. {x[d.distinct] : x \in now} \ {NoValue} \subseteq Distinct(last)
  BY <1>3
<1>5. PICK U : U = {x[d.distinct] : x \in now} \ {NoValue}
  OBVIOUS
<1>6. Cardinality(U) <= Cardinality(Distinct(last))
  BY <1>1, <1>4, <1>5, FS_Subset
<1>7. QED
  BY <1>5, <1>6

\* add_and_count of a deque: append and evict.
LEMMA AddFacts ==
    ASSUME NEW S \in SUBSET Events, NEW e \in Events, e \notin S, NEW dq, NEW D,
           Held(dq, S, D), \A d \in D : matches_primary(d, e),
           NEW r, r.window \in Nat, \A d \in D : r \in Definitions[d.id],
           \A x \in S : x.ts <= e.ts + Lag
    PROVE  /\ Held(AddAndCount(dq, e.ts, r.window), S \cup {e}, D)
           /\ Len(AddAndCount(dq, e.ts, r.window)) > 0 =>
                 AddAndCount(dq, e.ts, r.window)[1] >= e.ts - r.window
<1>1. Held(Append(dq, e.ts), S \cup {e}, D)
  BY HeldAdd
<1>2. PICK T : T = S \cup {e}
  OBVIOUS
<1>3. T \in SUBSET Events /\ e \in T
  BY <1>2
<1>4. PICK aq : aq = Append(dq, e.ts)
  OBVIOUS
<1>5. LET eq == Evict(aq, e.ts - r.window)
      IN Held(eq, T, D) /\ (Len(eq) > 0 => eq[1] >= e.ts - r.window)
  <2>1. Held(aq, T, D)
    BY <1>1, <1>2, <1>4
  <2>2. QED
    BY <1>3, <2>1, HeldEvict
<1>6. QED
  BY <1>2, <1>4, <1>5 DEF AddAndCount

-----------------------------------------------------------------------------
(***************************************************************************)
(* The rule under evaluation and its key.                                  *)
(***************************************************************************)

\* A rule under evaluation is an enabled, valid definition of its identifier.
LEMMA RuleFacts ==
    ASSUME NEW r \in Rules
    PROVE  /\ r.id \in RuleIds /\ r \in Definitions[r.id] /\ r.enabled
           /\ {r.window, r.threshold} \subseteq Nat
           /\ r.group_by \in {"tenant", "actor"}
           /\ r.distinct \in {"tenant", "actor", NoValue}
           /\ ~ (is_fanout(r) /\ is_sequence(r))
<1>1. PICK id \in RuleIds : r \in Definitions[id] /\ r.enabled
  BY DEF Rules
<1>2. r.id = id
  BY <1>1, RulesAssumption
<1>3. /\ {r.window, r.threshold} \subseteq Nat
      /\ r.group_by \in {"tenant", "actor"}
      /\ r.distinct \in {"tenant", "actor", NoValue}
      /\ Valid(r)
  BY <1>1, RulesAssumption
<1>4. ~ (is_fanout(r) /\ is_sequence(r))
  BY <1>3 DEF Valid, is_fanout
<1>5. QED
  BY <1>1, <1>2, <1>3, <1>4

\* Where the definitions of a rule agree, they have its shape and count the
\* same events.
LEMMA AgreedFacts ==
    ASSUME NEW r \in Rules, NEW d \in Agreed(r.id)
    PROVE  /\ SameSubject /\ d.id = r.id /\ r \in Definitions[d.id]
           /\ d.distinct = r.distinct
           /\ is_fanout(d) <=> is_fanout(r)
           /\ is_sequence(d) <=> is_sequence(r)
           /\ \A x : matches_primary(d, x) <=> matches_primary(r, x)
<1>1. r.id \in RuleIds /\ r \in Definitions[r.id]
  BY RuleFacts
<1>2. d \in Definitions[r.id] /\ SameSubject
  BY DEF Agreed
<1>3. d.id = r.id
  BY <1>1, <1>2, RulesAssumption
<1>4. d.action = r.action /\ d.then_action = r.then_action /\ d.distinct = r.distinct
  BY <1>1, <1>2 DEF SameSubject
<1>5. /\ is_fanout(d) <=> is_fanout(r)
      /\ is_sequence(d) <=> is_sequence(r)
  BY <1>4 DEF is_fanout, is_sequence
<1>6. \A x : matches_primary(d, x) <=> matches_primary(r, x)
  BY <1>4 DEF matches_primary
<1>7. QED
  BY <1>1, <1>2, <1>3, <1>4, <1>5, <1>6

\* A key's tenant is that of the events it counts, unless the rule is global.
LEMMA KeyFacts ==
    ASSUME NEW r \in Rules, NEW e \in Events, key_for(r, e) # NoValue,
           NEW k, k = WindowKey(r, key_for(r, e), e.tenant)
    PROVE  /\ k \in Keys /\ k[2] = r.id
           /\ k[1] # Star => k[1] = e.tenant
           /\ r.scope # "global" => k[1] = e.tenant /\ k[1] # Star
<1>1. r.id \in RuleIds /\ r \in Definitions[r.id] /\ r.group_by \in {"tenant", "actor"}
  BY RuleFacts
<1>2. PICK fields : fields = UNION {FieldValues(d.group_by) : d \in Definitions[r.id]}
  OBVIOUS
<1>3. PICK key : key = key_for(r, e)
  OBVIOUS
<1>4. key = e[r.group_by] /\ key # NoValue
  BY <1>3 DEF key_for
<1>5. key \in fields
  <2>1. key \in FieldValues(r.group_by)
    BY <1>1, <1>4, FieldFacts
  <2>2. QED
    BY <1>1, <1>2, <2>1
<1>6. PICK head : head = IF r.scope = "global" THEN Star ELSE e.tenant
  OBVIOUS
<1>7. k = <<head, r.id, key>> /\ e.tenant \in EventTenants
  BY <1>3, <1>6 DEF WindowKey, Events
<1>8. head \in EventTenants \cup {Star}
  BY <1>6, <1>7
<1>9. k \in (EventTenants \cup {Star}) \X {r.id} \X fields
  BY <1>5, <1>7, <1>8
<1>10. k \in Keys
  BY <1>1, <1>2, <1>9 DEF Keys
<1>11. k[1] = head /\ k[2] = r.id
  BY <1>7
<1>12. e.tenant # Star
  BY <1>7, RulesAssumption DEF EventTenants
<1>13. QED
  BY <1>6, <1>10, <1>11, <1>12

\* The event under evaluation is new to the key, and late by at most Lag.
LEMMA LookFacts ==
    ASSUME StoreInv, BatchInv, SinceInv, feeding, NEW r \in todo,
           NEW e, e = Head(batch), key_for(r, e) # NoValue,
           NEW k, k = WindowKey(r, key_for(r, e), e.tenant)
    PROVE  /\ r \in Rules /\ e \in Events /\ k \in Keys /\ k[2] = r.id
           /\ e \notin since[k] /\ \A x \in since[k] : x.ts <= e.ts + Lag
           /\ since[k] \in SUBSET Events /\ IsFiniteSet(since[k])
<1>1. batch \in Seq(Events) /\ batch # <<>> /\ r \in Rules
  BY DEF StoreInv, BatchInv
<1>2. e \in Events /\ e = batch[1] /\ 1 \in DOMAIN batch
  BY <1>1
<1>3. k \in Keys /\ k[2] = r.id
  BY <1>1, <1>2, KeyFacts
<1>4. \A x \in since[k] : x.ts <= e.ts + Lag /\ x.n < e.n
  BY <1>2, <1>3 DEF SinceInv
<1>5. e.n \in Nat
  BY <1>2 DEF Events
<1>6. e \notin since[k]
  <2>1. ~ (e.n < e.n)
    BY <1>5
  <2>2. QED
    BY <1>4, <2>1
<1>7. since[k] \in SUBSET Events /\ IsFiniteSet(since[k])
  BY <1>3 DEF SinceInv
<1>8. QED
  BY <1>1, <1>2, <1>3, <1>4, <1>6, <1>7

\* What the windows of a key hold once its rule has looked at the event, and,
\* where the rule decides, that nothing they begin with is too old.
Recent(r, e, c) ==
    IF is_fanout(r) THEN \A v \in Values : c.f[v] # NoValue => c.f[v] >= e.ts - r.window
    ELSE IF is_sequence(r) THEN Len(c.p) > 0 => c.p[1] >= e.ts - r.window
    ELSE Len(c.w) > 0 => c.w[1] >= e.ts - r.window

LEMMA KeyLooked ==
    ASSUME StoreInv, BatchInv, SinceInv, WindowInv, feeding, NEW r \in todo,
           NEW e, e = Head(batch), key_for(r, e) # NoValue,
           NEW k, k = WindowKey(r, key_for(r, e), e.tenant),
           NEW c, c = Counted(r, e, k), NEW S, S = Looked(r, e, k)
    PROVE  /\ KeyInv(k, S, c.w, c.p, c.f)
           /\ Decides(r, e) => e \in S /\ Recent(r, e, c)
<1>1. /\ r \in Rules /\ e \in Events /\ k \in Keys /\ k[2] = r.id
      /\ e \notin since[k] /\ \A x \in since[k] : x.ts <= e.ts + Lag
      /\ since[k] \in SUBSET Events /\ IsFiniteSet(since[k])
  BY LookFacts
<1>2. /\ r.window \in Nat /\ r.distinct \in {"tenant", "actor", NoValue}
      /\ ~ (is_fanout(r) /\ is_sequence(r))
  BY <1>1, RuleFacts
<1>3. PICK T, w, p, f : T = since[k] /\ w = windows[k] /\ p = primaries[k] /\ f = fanout[k]
  OBVIOUS
<1>4. PICK P, Q, F : P = Plain(r.id) /\ Q = Sequences(r.id) /\ F = FanOuts(r.id)
  OBVIOUS
<1>5. T \in SUBSET Events /\ e \notin T /\ \A x \in T : x.ts <= e.ts + Lag
  BY <1>1, <1>3
<1>6. Held(w, T, P) /\ Held(p, T, Q) /\ Spread(f, T, F)
  BY <1>1, <1>3, <1>4 DEF WindowInv, KeyInv
<1>7. \A d \in P \cup Q \cup F :
         /\ r \in Definitions[d.id] /\ d.distinct = r.distinct
         /\ matches_primary(d, e) <=> matches_primary(r, e)
  BY <1>1, <1>4, AgreedFacts DEF Plain, Sequences, FanOuts
<1>8. /\ is_fanout(r) \/ is_sequence(r) => P = {}
      /\ ~ is_sequence(r) => Q = {}
      /\ ~ is_fanout(r) => F = {}
  BY <1>1, <1>4, AgreedFacts DEF Plain, Sequences, FanOuts
<1>9. /\ c.w = IF Counts(r, e) /\ ~ is_fanout(r) /\ ~ is_sequence(r)
               THEN AddAndCount(w, e.ts, r.window) ELSE w
      /\ c.p = IF is_sequence(r) /\ Counts(r, e) THEN AddAndCount(p, e.ts, r.window)
               ELSE IF matches_seal(r, e) THEN Evict(p, e.ts - r.window) ELSE p
      /\ c.f = IF is_fanout(r) /\ Counts(r, e)
               THEN Seen(f, e[r.distinct], e.ts, r.window) ELSE f
  BY <1>3 DEF Counted
<1>10. S = IF Counts(r, e) \/ matches_seal(r, e) THEN T \cup {e} ELSE T
  BY <1>3 DEF Looked
<1>11. /\ matches_seal(r, e) => is_sequence(r)
       /\ Counts(r, e) => matches_primary(r, e) /\ (is_fanout(r) => e[r.distinct] # NoValue)
  BY DEF matches_seal, Counts
<1>12. SUFFICES /\ Held(c.w, S, P) /\ Held(c.p, S, Q) /\ Spread(c.f, S, F)
                /\ Decides(r, e) => e \in S /\ Recent(r, e, c)
  BY <1>1, <1>4 DEF KeyInv
<1>13. CASE ~ Counts(r, e) /\ ~ matches_seal(r, e)
  <2>1. S = T /\ c.w = w /\ c.p = p /\ c.f = f
    BY <1>9, <1>10, <1>13
  <2>2. ~ Decides(r, e)
    BY <1>13 DEF Decides
  <2>3. QED
    BY <1>6, <2>1, <2>2
<1>14. CASE is_fanout(r) /\ Counts(r, e)
  <2>1. /\ S = T \cup {e} /\ c.w = w /\ c.p = p
        /\ c.f = Seen(f, e[r.distinct], e.ts, r.window)
    BY <1>2, <1>9, <1>10, <1>11, <1>14
  <2>2. P = {} /\ Q = {}
    BY <1>2, <1>8, <1>14
  <2>3. Held(w, T \cup {e}, P) /\ Held(p, T \cup {e}, Q)
    BY <1>1, <1>5, <1>6, <2>2, HeldLook
  <2>4. r.distinct \in {"tenant", "actor"} /\ e[r.distinct] # NoValue
    BY <1>2, <1>11, <1>14 DEF is_fanout
  <2>5. CountsValue(F, r, e)
    BY <1>2, <1>7, <1>11, <1>14, <2>4 DEF CountsValue
  <2>6. PICK s : s = Seen(f, e[r.distinct], e.ts, r.window)
    OBVIOUS
  <2>7. /\ Spread(s, T \cup {e}, F)
        /\ \A v \in Values : s[v] # NoValue => s[v] >= e.ts - r.window
    <3>1. T \in SUBSET Events /\ e \in Events /\ Spread(f, T, F) /\ r.window \in Nat
      BY <1>1, <1>2, <1>5, <1>6
    <3>2. e[r.distinct] \in Values /\ f \in [Values -> Nat \cup {NoValue}] /\ e.ts \in Nat
      BY <2>4, <3>1, FieldFacts DEF Spread, Events
    <3>3. Refreshed(s, f, e[r.distinct], e.ts, r.window)
      BY <2>6, <3>1, <3>2, SeenFacts
    <3>4. QED
      BY <2>5, <3>1, <3>3, SpreadSeen
  <2>8. QED
    BY <1>14, <2>1, <2>3, <2>6, <2>7 DEF Recent
<1>15. CASE is_sequence(r) /\ Counts(r, e)
  <2>1. S = T \cup {e} /\ c.w = w /\ c.f = f /\ c.p = AddAndCount(p, e.ts, r.window)
    BY <1>2, <1>9, <1>10, <1>15
  <2>2. P = {} /\ F = {}
    BY <1>2, <1>8, <1>15
  <2>3. Held(w, T \cup {e}, P)
    BY <1>1, <1>5, <1>6, <2>2, HeldLook
  <2>4. Spread(f, T \cup {e}, F)
    BY <1>6, <2>2, SpreadLook
  <2>5. \A d \in Q : r \in Definitions[d.id] /\ matches_primary(d, e)
    BY <1>7, <1>11, <1>15
  <2>6. Held(AddAndCount(p, e.ts, r.window), T \cup {e}, Q)
    BY <1>1, <1>2, <1>5, <1>6, <2>5, AddFacts
  <2>7. ~ Decides(r, e)
    BY <1>11, <1>15 DEF Decides
  <2>8. QED
    BY <2>1, <2>3, <2>4, <2>6, <2>7
<1>16. CASE matches_seal(r, e) /\ ~ Counts(r, e)
  <2>1. S = T \cup {e} /\ c.w = w /\ c.f = f /\ c.p = Evict(p, e.ts - r.window)
    BY <1>9, <1>10, <1>16
  <2>2. P = {} /\ F = {} /\ is_sequence(r) /\ ~ is_fanout(r)
    BY <1>2, <1>8, <1>11, <1>16
  <2>3. Held(w, T \cup {e}, P)
    BY <1>1, <1>5, <1>6, <2>2, HeldLook
  <2>4. Spread(f, T \cup {e}, F)
    BY <1>6, <2>2, SpreadLook
  <2>5. \A d \in Q : r \in Definitions[d.id] /\ ~ matches_primary(d, e)
    BY <1>7, <1>16, <2>2 DEF Counts
  <2>6. Held(p, T \cup {e}, Q)
    BY <1>1, <1>5, <1>6, <2>5, HeldLook
  <2>7. PICK U : U = T \cup {e}
    OBVIOUS
  <2>8. U \in SUBSET Events /\ e \in U
    BY <1>1, <1>5, <2>7
  <2>9. LET eq == Evict(p, e.ts - r.window)
        IN Held(eq, U, Q) /\ (Len(eq) > 0 => eq[1] >= e.ts - r.window)
    BY <1>2, <2>5, <2>6, <2>7, <2>8, HeldEvict
  <2>10. QED
    BY <2>1, <2>2, <2>3, <2>4, <2>7, <2>9 DEF Recent
<1>17. CASE Counts(r, e) /\ ~ is_fanout(r) /\ ~ is_sequence(r)
  <2>1. S = T \cup {e} /\ c.p = p /\ c.f = f /\ c.w = AddAndCount(w, e.ts, r.window)
    BY <1>9, <1>10, <1>11, <1>17
  <2>2. Q = {} /\ F = {}
    BY <1>8, <1>17
  <2>3. Held(p, T \cup {e}, Q)
    BY <1>1, <1>5, <1>6, <2>2, HeldLook
  <2>4. Spread(f, T \cup {e}, F)
    BY <1>6, <2>2, SpreadLook
  <2>5. \A d \in P : r \in Definitions[d.id] /\ matches_primary(d, e)
    BY <1>7, <1>11, <1>17
  <2>6. PICK aq : aq = AddAndCount(w, e.ts, r.window)
    OBVIOUS
  <2>7. Held(aq, T \cup {e}, P) /\ (Len(aq) > 0 => aq[1] >= e.ts - r.window)
    BY <1>1, <1>2, <1>5, <1>6, <2>5, <2>6, AddFacts
  <2>8. QED
    BY <1>17, <2>1, <2>3, <2>4, <2>6, <2>7 DEF Recent
<1>18. QED
  BY <1>11, <1>13, <1>14, <1>15, <1>16, <1>17

\* What the rule has looked at is finite, and none of it later than Lag.
LEMMA LookedFacts ==
    ASSUME StoreInv, BatchInv, SinceInv, feeding, NEW r \in todo,
           NEW e, e = Head(batch), key_for(r, e) # NoValue,
           NEW k, k = WindowKey(r, key_for(r, e), e.tenant),
           NEW S, S = Looked(r, e, k)
    PROVE  /\ S \in SUBSET Events /\ IsFiniteSet(S) /\ S \subseteq since[k] \cup {e}
           /\ \A x \in S : x.ts <= e.ts + Lag
           /\ Evidence(r, e, k) = {x \in S : matches_primary(r, x)}
<1>1. /\ r \in Rules /\ e \in Events /\ k \in Keys
      /\ \A x \in since[k] : x.ts <= e.ts + Lag
      /\ since[k] \in SUBSET Events /\ IsFiniteSet(since[k])
  BY LookFacts
<1>2. S \subseteq since[k] \cup {e}
  BY DEF Looked
<1>3. IsFiniteSet(since[k] \cup {e})
  BY <1>1, FS_AddElement
<1>4. IsFiniteSet(S)
  BY <1>2, <1>3, FS_Subset
<1>5. e.ts <= e.ts + Lag
  BY <1>1, RulesAssumption DEF Events
<1>6. QED
  BY <1>1, <1>2, <1>4, <1>5 DEF Evidence

\* The count that is compared with the threshold is a number, and the events
\* back it.
LEMMA FireBacked ==
    ASSUME StoreInv, BatchInv, SinceInv, WindowInv, feeding, NEW r \in todo,
           NEW e, e = Head(batch), key_for(r, e) # NoValue,
           NEW k, k = WindowKey(r, key_for(r, e), e.tenant),
           NEW c, c = Counted(r, e, k), Decides(r, e)
    PROVE  /\ Count(r, c) \in Nat
           /\ Count(r, c) >= r.threshold /\ SameSubject =>
                 BackedBy(Incident(r, e, k, Count(r, c)))
<1>1. PICK S : S = Looked(r, e, k)
  OBVIOUS
<1>2. r \in Rules /\ e \in Events /\ k[2] = r.id
  BY LookFacts
<1>3. /\ r.id \in RuleIds /\ r \in Definitions[r.id]
      /\ r.window \in Nat /\ r.distinct \in {"tenant", "actor", NoValue}
      /\ ~ (is_fanout(r) /\ is_sequence(r))
  BY <1>2, RuleFacts
<1>4. SameSubject => r \in Agreed(r.id)
  BY <1>3 DEF Agreed
<1>5. KeyInv(k, S, c.w, c.p, c.f) /\ e \in S /\ Recent(r, e, c)
  BY <1>1, KeyLooked
<1>6. /\ S \in SUBSET Events /\ IsFiniteSet(S)
      /\ \A x \in S : x.ts <= e.ts + Lag
      /\ Evidence(r, e, k) = {x \in S : matches_primary(r, x)}
  BY <1>1, LookedFacts
<1>7. e.ts \in Nat /\ Lag \in Nat
  BY <1>2, RulesAssumption DEF Events
<1>8. PICK i : i = Incident(r, e, k, Count(r, c))
  OBVIOUS
<1>9. /\ i.count = Count(r, c) /\ i.rule = r /\ i.last = e
      /\ i.basis = {x \in S : matches_primary(r, x)}
  BY <1>6, <1>8 DEF Incident
<1>10. Near(i) \subseteq S /\ IsFiniteSet(Near(i))
  <2>1. Near(i) \subseteq S
    BY <1>9 DEF Near
  <2>2. QED
    BY <1>6, <2>1, FS_Subset
<1>11. CASE is_fanout(r)
  <2>1. PICK F : F = FanOuts(r.id)
    OBVIOUS
  <2>2. /\ Spread(c.f, S, F)
        /\ \A v \in Values : c.f[v] # NoValue => c.f[v] >= e.ts - r.window
    BY <1>2, <1>5, <1>11, <2>1 DEF KeyInv, Recent
  <2>3. Count(r, c) = Cardinality(Distinct(c.f)) /\ r.distinct # NoValue
    BY <1>11 DEF Count, is_fanout
  <2>4. Count(r, c) \in Nat
    BY <1>6, <2>2, <2>3, DistinctFinite, FS_CardinalityType
  <2>5. ASSUME Count(r, c) >= r.threshold, SameSubject PROVE BackedBy(i)
    <3>1. r \in F
      BY <1>4, <1>11, <2>1, <2>5 DEF FanOuts
    <3>2. ASSUME NEW x \in S, matches_primary(r, x), x.ts >= e.ts - r.window
          PROVE  x \in Near(i)
      <4>1. x.ts <= e.ts + Lag
        BY <1>6
      <4>2. e.ts - r.window - 0 = e.ts - r.window
        BY <1>3, <1>7
      <4>3. QED
        BY <1>9, <2>3, <3>2, <4>1, <4>2 DEF Near
    <3>3. PICK near : near = Near(i)
      OBVIOUS
    <3>4. Cardinality(Distinct(c.f)) <= Cardinality({x[r.distinct] : x \in near})
      BY <1>2, <1>3, <1>6, <1>10, <2>2, <3>1, <3>2, <3>3, SpreadBacked
    <3>5. i.rule.distinct = r.distinct /\ i.rule.threshold = r.threshold
      BY <1>9
    <3>6. PICK V : V = {x[r.distinct] : x \in near}
      OBVIOUS
    <3>7. {x[i.rule.distinct] : x \in Near(i)} = V
      BY <3>3, <3>5, <3>6
    <3>8. i.count <= Cardinality(V) /\ i.count >= r.threshold
      BY <1>9, <2>3, <2>5, <3>4, <3>6
    <3>9. QED
      BY <2>3, <3>5, <3>7, <3>8 DEF BackedBy
  <2>6. QED
    BY <1>8, <2>4, <2>5
<1>12. CASE ~ is_fanout(r)
  <2>1. PICK dq, D : /\ dq = IF is_sequence(r) THEN c.p ELSE c.w
                     /\ D = IF is_sequence(r) THEN Sequences(r.id) ELSE Plain(r.id)
    OBVIOUS
  <2>2. Held(dq, S, D) /\ (Len(dq) > 0 => dq[1] >= e.ts - r.window)
    BY <1>2, <1>5, <1>12, <2>1 DEF KeyInv, Recent
  <2>3. Count(r, c) = Len(dq)
    BY <1>12, <2>1 DEF Count
  <2>4. Len(dq) \in Nat
    BY <2>2 DEF Held
  <2>5. r.distinct = NoValue
    BY <1>12 DEF is_fanout
  <2>6. ASSUME SameSubject PROVE Len(dq) <= Cardinality(Near(i))
    <3>1. r \in D
      BY <1>4, <1>12, <2>1, <2>6 DEF Sequences, Plain
    <3>2. ASSUME NEW x \in S, matches_primary(r, x), x.ts >= e.ts - r.window - Lag
          PROVE  x \in Near(i)
      <4>1. x.ts <= e.ts + Lag
        BY <1>6
      <4>2. QED
        BY <1>9, <2>5, <3>2, <4>1 DEF Near
    <3>3. PICK near : near = Near(i)
      OBVIOUS
    <3>4. Len(dq) <= Cardinality(near)
      BY <1>3, <1>5, <1>6, <1>10, <2>2, <3>1, <3>2, <3>3, HeldBacked
    <3>5. QED
      BY <3>3, <3>4
  <2>7. QED
    BY <1>8, <1>9, <2>3, <2>4, <2>5, <2>6 DEF BackedBy
<1>13. QED
  BY <1>11, <1>12

\* The incident that a rule raises is an incident, and unless the rule is
\* global it rests on events of its tenant alone.
LEMMA IncidentFacts ==
    ASSUME StoreInv, BatchInv, SinceInv, feeding, NEW r \in todo,
           NEW e, e = Head(batch), key_for(r, e) # NoValue,
           NEW k, k = WindowKey(r, key_for(r, e), e.tenant), NEW n \in Nat,
           NEW i, i = Incident(r, e, k, n)
    PROVE  /\ i \in Incidents
           /\ i.tenant # NoValue => \A x \in i.basis : x.tenant = i.tenant
<1>1. r \in Rules /\ e \in Events /\ k \in Keys
  BY LookFacts
<1>2. PICK S : S = Looked(r, e, k)
  OBVIOUS
<1>3. /\ S \in SUBSET Events /\ S \subseteq since[k] \cup {e}
      /\ Evidence(r, e, k) = {x \in S : matches_primary(r, x)}
  BY <1>2, LookedFacts
<1>4. Evidence(r, e, k) \in SUBSET Events /\ e.tenant \in EventTenants
  BY <1>1, <1>3 DEF Events
<1>5. i = [rule |-> r, tenant |-> IncidentTenant(r, e), key |-> k, count |-> n,
           last |-> e, basis |-> Evidence(r, e, k)]
  BY DEF Incident
<1>6. IncidentTenant(r, e) \in EventTenants \cup {NoValue}
  BY <1>4 DEF IncidentTenant
<1>7. i \in Incidents
  BY <1>1, <1>4, <1>5, <1>6 DEF Incidents
<1>8. ASSUME i.tenant # NoValue, NEW x \in i.basis PROVE x.tenant = i.tenant
  <2>1. r.scope # "global" /\ i.tenant = e.tenant
    BY <1>5, <1>8 DEF IncidentTenant
  <2>2. k[1] = e.tenant /\ k[1] # Star
    BY <1>1, <2>1, KeyFacts
  <2>3. x \in since[k] \cup {e}
    BY <1>3, <1>5, <1>8
  <2>4. \A y \in since[k] : y.tenant = k[1]
    BY <1>1, <2>2 DEF SinceInv
  <2>5. QED
    BY <2>1, <2>2, <2>3, <2>4
<1>9. QED
  BY <1>7, <1>8

\* When the newest window holds the threshold, so do the windows of the key.
LEMMA FireCovers ==
    ASSUME StoreInv, BatchInv, SinceInv, WindowInv, feeding, NEW r \in todo,
           NEW e, e = Head(batch), key_for(r, e) # NoValue,
           NEW k, k = WindowKey(r, key_for(r, e), e.tenant),
           NEW c, c = Counted(r, e, k), SameSubject, MustFire(r)
    PROVE  Fires(r, e, k, c)
<1>1. PICK S : S = Looked(r, e, k)
  OBVIOUS
<1>2. r \in Rules /\ e \in Events /\ k[2] = r.id
  BY LookFacts
<1>3. /\ r.id \in RuleIds /\ r \in Definitions[r.id] /\ r.threshold \in Nat
      /\ r.distinct \in {"tenant", "actor", NoValue}
      /\ ~ (is_fanout(r) /\ is_sequence(r))
      /\ \A d \in Definitions[r.id] : d.window \in Nat
  BY <1>2, RuleFacts, RulesAssumption
<1>4. r \in Agreed(r.id)
  BY <1>3 DEF Agreed
<1>5. PICK now : now = NewestWindow(r, e, k)
  OBVIOUS
<1>6. /\ Decides(r, e) /\ ~ CoolingDown(k, e.ts)
      /\ r.threshold <= IF r.distinct = NoValue THEN Cardinality(now)
                        ELSE Cardinality({x[r.distinct] : x \in now} \ {NoValue})
  BY <1>5 DEF MustFire
<1>7. KeyInv(k, S, c.w, c.p, c.f) /\ e \in S
  BY <1>1, <1>6, KeyLooked
<1>8. /\ S \in SUBSET Events /\ IsFiniteSet(S)
      /\ Evidence(r, e, k) = {x \in S : matches_primary(r, x)}
  BY <1>1, LookedFacts
<1>9. ASSUME NEW x \in now
      PROVE  x \in S /\ matches_primary(r, x) /\ Newest(x, S, r.id)
  <2>1. PICK T : T = {y["ts"] : y \in S}
    OBVIOUS
  <2>2. T \in SUBSET Int /\ T # {}
    BY <1>7, <1>8, <2>1 DEF Events
  <2>3. IsFiniteSet(T)
    BY <1>8, <2>1, ValuesFinite
  <2>4. Max(T) \in T /\ \A m \in T : m <= Max(T)
    BY <2>2, <2>3, MaxFacts
  <2>5. now = {y \in Evidence(r, e, k) :
                 \A d \in Definitions[r.id] : y.ts >= Max(T) - d.window}
    BY <1>1, <1>5, <2>1 DEF NewestWindow
  <2>6. /\ x \in S /\ matches_primary(r, x)
        /\ \A d \in Definitions[r.id] : x.ts >= Max(T) - d.window
    BY <1>8, <1>9, <2>5
  <2>7. \A y \in S : y.ts \in T
    BY <2>1
  <2>8. PICK top \in Int : top = Max(T)
    BY <2>2, <2>4
  <2>9. ASSUME NEW y \in S, NEW d \in Definitions[r.id] PROVE x.ts >= y.ts - d.window
    <3>1. y.ts <= top /\ x.ts >= top - d.window
      BY <2>4, <2>6, <2>7, <2>8
    <3>2. y.ts \in Nat /\ x.ts \in Nat /\ d.window \in Nat
      BY <1>3, <1>8, <2>6 DEF Events
    <3>3. QED
      BY <2>8, <3>1, <3>2
  <2>10. QED
    BY <2>6, <2>9 DEF Newest
<1>10. CASE is_fanout(r)
  <2>1. PICK F : F = FanOuts(r.id)
    OBVIOUS
  <2>2. Spread(c.f, S, F) /\ r \in F
    BY <1>2, <1>4, <1>7, <1>10, <2>1 DEF KeyInv, FanOuts
  <2>3. r.distinct \in {"tenant", "actor"} /\ r.distinct # NoValue
    BY <1>3, <1>10 DEF is_fanout
  <2>4. Cardinality({x[r.distinct] : x \in now} \ {NoValue}) <= Cardinality(Distinct(c.f))
    BY <1>8, <1>9, <2>2, <2>3, SpreadCovers
  <2>5. Count(r, c) = Cardinality(Distinct(c.f))
    BY <1>10 DEF Count
  <2>6. Count(r, c) \in Nat
    BY <1>6, FireBacked
  <2>7. PICK U : U = {x[r.distinct] : x \in now} \ {NoValue}
    OBVIOUS
  <2>8. r.threshold <= Cardinality(U) /\ Cardinality(U) <= Count(r, c)
    BY <1>6, <2>3, <2>4, <2>5, <2>7
  <2>9. IsFiniteSet(U)
    <3>1. PICK T : T = {x[r.distinct] : x \in S}
      OBVIOUS
    <3>2. IsFiniteSet(T) /\ U \subseteq T
      BY <1>8, <1>9, <2>7, <3>1, ValuesFinite
    <3>3. QED
      BY <3>2, FS_Subset
  <2>10. Cardinality(U) \in Nat
    BY <2>9, FS_CardinalityType
  <2>11. QED
    BY <1>3, <1>6, <2>6, <2>8, <2>10 DEF Fires
<1>11. CASE ~ is_fanout(r)
  <2>1. PICK dq, D : /\ dq = IF is_sequence(r) THEN c.p ELSE c.w
                     /\ D = IF is_sequence(r) THEN Sequences(r.id) ELSE Plain(r.id)
    OBVIOUS
  <2>2. Held(dq, S, D) /\ r \in D
    BY <1>2, <1>4, <1>7, <1>11, <2>1 DEF KeyInv, Sequences, Plain
  <2>3. Count(r, c) = Len(dq) /\ r.distinct = NoValue
    BY <1>11, <2>1 DEF Count, is_fanout
  <2>4. \A x \in now : x \in S /\ matches_primary(r, x) /\ Newest(x, S, r.id)
    BY <1>9
  <2>5. IsFiniteSet(now) /\ Cardinality(now) <= Len(dq)
    BY <1>8, <2>2, <2>4, HeldCovers
  <2>6. Cardinality(now) \in Nat /\ Len(dq) \in Nat
    BY <2>2, <2>5, FS_CardinalityType DEF Held
  <2>7. QED
    BY <1>3, <1>6, <2>3, <2>5, <2>6 DEF Fires
<1>12. QED
  BY <1>10, <1>11

-----------------------------------------------------------------------------
(***************************************************************************)
(* EngineInv is inductive.                                                 *)
(***************************************************************************)

\* Empty windows stand for nothing.
LEMMA EmptyKey ==
    ASSUME NEW k
    PROVE  KeyInv(k, {}, <<>>, <<>>, NeverSeen)
<1>1. ASSUME NEW D PROVE Held(<<>>, {}, D)
  <2>1. PICK g : g = [i \in {} |-> i]
    OBVIOUS
  <2>2. g \in [DOMAIN <<>> -> {}]
    BY <2>1
  <2>3. Backs(g, <<>>, {}, D)
    BY DEF Backs, Matched
  <2>4. PICK q : q = <<>>
    OBVIOUS
  <2>5. q \in Seq(Nat) /\ g \in [DOMAIN q -> {}] /\ Backs(g, q, {}, D)
    BY <2>2, <2>3, <2>4
  <2>6. Held(q, {}, D)
    BY <2>5 DEF Held
  <2>7. QED
    BY <2>4, <2>6
<1>2. ASSUME NEW D PROVE Spread(NeverSeen, {}, D)
  BY DEF Spread, SpreadBy, NeverSeen
<1>3. QED
  BY <1>1, <1>2 DEF KeyInv

\* seed_defaults only fills in missing default rows.
LEMMA SeededType ==
    ASSUME NEW db, StoreType(db)
    PROVE  StoreType(Seeded(db))
<1> DEFINE row == [id \in RuleIds |-> IF db[Star][id] = NoValue THEN DefaultPack[id] ELSE db[Star][id]]
<1>1. \A id \in RuleIds : DefaultPack[id] \in Definitions[id]
  BY RulesAssumption
<1>2. \A id \in RuleIds : row[id] \in Definitions[id] \cup {NoValue}
  BY <1>1 DEF StoreType
<1>3. \A id \in RuleIds : Definitions[id] \subseteq AllDefinitions
  BY DEF AllDefinitions
<1>4. row \in [RuleIds -> AllDefinitions \cup {NoValue}]
  BY <1>2, <1>3
<1>5. Seeded(db) = [db EXCEPT ![Star] = row]
  BY DEF Seeded
<1> HIDE DEF row
<1>6. QED
  BY <1>2, <1>4, <1>5 DEF StoreType

\* Every key with its memory empty, as after a start.
LEMMA FreshMemory ==
    ASSUME EmptyMemory
    PROVE  WindowInv'
<1>1. /\ windows' = [k \in Keys |-> <<>>] /\ primaries' = [k \in Keys |-> <<>>]
      /\ fanout' = [k \in Keys |-> NeverSeen] /\ since' = [k \in Keys |-> {}]
  BY DEF EmptyMemory
<1>2. NeverSeen \in [Values -> Nat \cup {NoValue}]
  BY DEF NeverSeen
<1>3. {windows', primaries'} \subseteq [Keys -> Seq(Nat)]
  BY <1>1
<1>4. fanout' \in [Keys -> [Values -> Nat \cup {NoValue}]]
  BY <1>1, <1>2
<1>5. \A k \in Keys : KeyInv(k, since'[k], windows'[k], primaries'[k], fanout'[k])
  BY <1>1, EmptyKey
<1>6. QED
  BY <1>3, <1>4, <1>5 DEF WindowInv, KeyInv

LEMMA EngineInit == Init => EngineInv
<1> SUFFICES ASSUME Init PROVE EngineInv
  OBVIOUS
<1>1. /\ cache = [t \in EventTenants |-> NoValue] /\ batch = <<>> /\ todo = {} /\ feeding = FALSE
      /\ windows = [k \in Keys |-> <<>>] /\ primaries = [k \in Keys |-> <<>>]
      /\ fanout = [k \in Keys |-> NeverSeen] /\ since = [k \in Keys |-> {}]
      /\ incidents = <<>> /\ clock = [read |-> 0, newest |-> 0]
      /\ store = Seeded([s \in Tenants \cup {Star} |-> [id \in RuleIds |-> NoValue]])
  BY DEF Init
<1>2. StoreType(store)
  <2>1. StoreType([s \in Tenants \cup {Star} |-> [id \in RuleIds |-> NoValue]])
    BY DEF StoreType
  <2>2. QED
    BY <1>1, <2>1, SeededType
<1>3. StoreInv
  BY <1>1, <1>2 DEF StoreInv, OneEach
<1>4. BatchInv
  BY <1>1 DEF BatchInv
<1>5. SinceInv
  <2>1. IsFiniteSet({})
    BY FS_EmptySet
  <2>2. QED
    BY <1>1, <2>1 DEF SinceInv
<1>6. WindowInv
  <2>1. NeverSeen \in [Values -> Nat \cup {NoValue}]
    BY DEF NeverSeen
  <2>2. {windows, primaries} \subseteq [Keys -> Seq(Nat)]
    BY <1>1
  <2>3. fanout \in [Keys -> [Values -> Nat \cup {NoValue}]]
    BY <1>1, <2>1
  <2>4. \A k \in Keys : KeyInv(k, since[k], windows[k], primaries[k], fanout[k])
    BY <1>1, EmptyKey
  <2>5. QED
    BY <2>2, <2>3, <2>4 DEF WindowInv
<1>7. IncidentInv
  BY <1>1 DEF IncidentInv
<1>8. QED
  BY <1>3, <1>4, <1>5, <1>6, <1>7 DEF EngineInv

\* A rule set that is looked up holds one enabled rule per identifier.
LEMMA LookupFacts ==
    ASSUME StoreType(store), NEW t
    PROVE  rules_for(t) \subseteq Rules /\ OneEach(rules_for(t))
<1>1. ASSUME NEW id \in RuleIds, Row(t, id) # NoValue, Row(t, id).enabled
      PROVE  Row(t, id) \in Rules /\ Row(t, id).id = id
  <2>1. Row(t, id) \in Definitions[id]
    BY <1>1 DEF Row, StoreType
  <2>2. QED
    BY <1>1, <2>1, RulesAssumption DEF Rules
<1>2. \A r \in rules_for(t) : \E id \in RuleIds :
         r = Row(t, id) /\ Row(t, id) # NoValue /\ Row(t, id).enabled
  BY DEF rules_for
<1>3. rules_for(t) \subseteq Rules
  BY <1>1, <1>2
<1>4. OneEach(rules_for(t))
  BY <1>1, <1>2 DEF OneEach
<1>5. QED
  BY <1>3, <1>4

\* A step that leaves the engine's memory and what it has read alone.
LEMMA StoreStep ==
    ASSUME EngineInv, StoreType(store'),
           UNCHANGED <<cache, batch, todo, feeding, memory, incidents, since, clock>>
    PROVE  EngineInv'
<1>1. UNCHANGED <<cache, batch, todo, feeding, windows, primaries, fanout, incidents, since, clock>>
  BY DEF memory
<1>2. StoreInv'
  BY <1>1 DEF EngineInv, StoreInv
<1>3. BatchInv'
  BY <1>1 DEF EngineInv, BatchInv
<1>4. SinceInv'
  BY <1>1 DEF EngineInv, SinceInv
<1>5. WindowInv'
  BY <1>1 DEF EngineInv, WindowInv, KeyInv
<1>6. IncidentInv'
  BY <1>1 DEF EngineInv, IncidentInv
<1>7. QED
  BY <1>2, <1>3, <1>4, <1>5, <1>6 DEF EngineInv

\* The latest time so far, when the events up to i have been read.
LEMMA NewestFacts ==
    ASSUME NEW m \in Nat, NEW newest \in Nat, NEW times \in [1..m -> 0..MaxTime],
           NEW i \in 1..m, NEW top, top = Max({newest} \cup {times[j] : j \in 1..i})
    PROVE  top \in Nat /\ top >= newest /\ \A j \in 1..i : top >= times[j]
<1>1. PICK T : T = {times[j] : j \in 1..i}
  OBVIOUS
<1>2. T \in SUBSET Nat
  BY <1>1, RulesAssumption
<1>3. IsFiniteSet(T)
  <2> DEFINE g == [j \in 1..i |-> times[j]]
  <2>1. g \in Surjection(1..i, T)
    BY <1>1 DEF Surjection
  <2>2. IsFiniteSet(1..i)
    BY FS_Interval
  <2>3. QED
    BY <2>1, <2>2, FS_Surjection
<1>4. PICK U : U = {newest} \cup T
  OBVIOUS
<1>5. U \in SUBSET Int /\ U # {} /\ U \in SUBSET Nat
  BY <1>2, <1>4
<1>6. IsFiniteSet(U)
  <2>1. U = T \cup {newest}
    BY <1>4
  <2>2. QED
    BY <1>3, <2>1, FS_AddElement
<1>7. Max(U) \in U /\ \A y \in U : y <= Max(U)
  BY <1>5, <1>6, MaxFacts
<1>8. top = Max(U)
  BY <1>1, <1>4
<1>9. newest \in U /\ \A j \in 1..i : times[j] \in U
  BY <1>1, <1>4
<1>10. QED
  BY <1>5, <1>7, <1>8, <1>9

\* A batch: numbered on, and no event later than Lag.
LEMMA ReadStep ==
    ASSUME EngineInv, Read
    PROVE  EngineInv'
<1>1. /\ batch = <<>> /\ UNCHANGED <<store, cache, todo, feeding, windows, primaries,
                                     fanout, incidents, since>>
  BY DEF Read, rulesDb, memory
<1>2. /\ clock \in [read : Nat, newest : Nat] /\ ~ feeding /\ todo = {}
  BY <1>1 DEF EngineInv, StoreInv, BatchInv
<1>a. PICK m \in 1..ReadCount :
         \E kinds \in [1..m -> Kinds], times \in [1..m -> 0..MaxTime] :
            /\ \A i \in 1..m :
                  times[i] >= Max({clock.newest} \cup {times[j] : j \in 1..i}) - Lag
            /\ batch' = [i \in 1..m |->
                  [tenant |-> kinds[i].tenant, actor |-> kinds[i].actor,
                   action |-> kinds[i].action, ts |-> times[i], n |-> clock.read + i]]
            /\ clock' = [read |-> clock.read + m,
                         newest |-> Max({clock.newest} \cup {times[j] : j \in 1..m})]
  BY DEF Read
<1>3. PICK kinds \in [1..m -> Kinds], times \in [1..m -> 0..MaxTime] :
         /\ \A i \in 1..m :
               times[i] >= Max({clock.newest} \cup {times[j] : j \in 1..i}) - Lag
         /\ batch' = [i \in 1..m |->
               [tenant |-> kinds[i].tenant, actor |-> kinds[i].actor,
                action |-> kinds[i].action, ts |-> times[i], n |-> clock.read + i]]
         /\ clock' = [read |-> clock.read + m,
                      newest |-> Max({clock.newest} \cup {times[j] : j \in 1..m})]
  BY <1>a
<1> DEFINE Top(i) == Max({clock.newest} \cup {times[j] : j \in 1..i})
<1>4. m \in Nat /\ m \in 1..m /\ Lag \in Nat /\ clock.read \in Nat /\ clock.newest \in Nat
  BY <1>2, RulesAssumption
<1>5. \A i \in 1..m : times[i] \in Nat
  BY RulesAssumption
<1>6. \A i \in 1..m : Top(i) \in Nat /\ Top(i) >= clock.newest /\ \A j \in 1..i : Top(i) >= times[j]
  BY <1>4, NewestFacts
<1>7. (\A i \in 1..m : times[i] >= Top(i) - Lag) /\ clock' = [read |-> clock.read + m, newest |-> Top(m)]
  BY <1>3
<1> HIDE DEF Top
<1>8. \A i \in 1..m : /\ times[i] + Lag >= clock.newest
                      /\ \A j \in 1..i : times[j] <= times[i] + Lag
  <2> SUFFICES ASSUME NEW i \in 1..m PROVE /\ times[i] + Lag >= clock.newest
                                           /\ \A j \in 1..i : times[j] <= times[i] + Lag
    OBVIOUS
  <2>1. times[i] + Lag >= Top(i)
    BY <1>4, <1>5, <1>6, <1>7
  <2>2. ASSUME NEW j \in 1..i PROVE times[j] <= times[i] + Lag
    <3>1. j \in 1..m /\ times[j] <= Top(i)
      BY <1>4, <1>6
    <3>2. QED
      BY <1>4, <1>5, <1>6, <2>1, <3>1
  <2>3. QED
    BY <1>4, <1>5, <1>6, <2>1, <2>2
<1>9. /\ DOMAIN batch' = 1..m /\ batch' \in Seq(Events)
      /\ \A i \in 1..m : batch'[i].ts = times[i] /\ batch'[i].n = clock.read + i
  <2>1. \A i \in 1..m : kinds[i] \in Kinds
    OBVIOUS
  <2>2. ASSUME NEW i \in 1..m
        PROVE  [tenant |-> kinds[i].tenant, actor |-> kinds[i].actor,
                action |-> kinds[i].action, ts |-> times[i], n |-> clock.read + i] \in Events
    <3>1. clock.read + i \in Nat
      BY <1>4
    <3>2. QED
      BY <1>5, <2>1, <3>1 DEF Events, EventTenants
  <2>3. batch' \in [1..m -> Events]
    BY <1>3, <2>2
  <2>4. batch' \in Seq(Events)
    BY <1>4, <2>3
  <2>5. QED
    BY <1>3, <2>3, <2>4
<1>10. /\ clock' \in [read : Nat, newest : Nat]
       /\ clock'.read = clock.read + m /\ clock'.newest = Top(m)
  BY <1>4, <1>6, <1>7
<1>11. BatchInv'
  <2>1. \A i \in 1..m : times[i] <= Top(m)
    BY <1>4, <1>6
  <2>2. \A i \in DOMAIN batch' : batch'[i].n <= clock'.read /\ batch'[i].ts <= clock'.newest
    BY <1>4, <1>9, <1>10, <2>1
  <2>3. \A i, j \in DOMAIN batch' :
           i < j => batch'[i].n < batch'[j].n /\ batch'[i].ts <= batch'[j].ts + Lag
    <3> SUFFICES ASSUME NEW i \in 1..m, NEW j \in 1..m, i < j
                 PROVE  batch'[i].n < batch'[j].n /\ batch'[i].ts <= batch'[j].ts + Lag
      BY <1>9
    <3>1. i \in 1..j
      BY <1>4
    <3>2. times[i] <= times[j] + Lag
      BY <1>8, <3>1
    <3>3. QED
      BY <1>4, <1>9, <3>2
  <2>4. QED
    BY <1>9, <1>10, <2>2, <2>3 DEF BatchInv
<1>12. SinceInv'
  <2>1. ASSUME NEW k \in Keys, NEW x \in since[k]
        PROVE  /\ x.n <= clock'.read /\ x.ts <= clock'.newest
               /\ \A i \in 1..m : x.ts <= batch'[i].ts + Lag /\ x.n < batch'[i].n
    <3>1. x.n <= clock.read /\ x.ts <= clock.newest /\ x \in Events
      BY DEF EngineInv, SinceInv
    <3>2. x.n \in Nat /\ x.ts \in Nat
      BY <3>1 DEF Events
    <3>3. Top(m) >= clock.newest /\ Top(m) \in Nat
      BY <1>4, <1>6
    <3>4. x.n <= clock'.read /\ x.ts <= clock'.newest
      BY <1>4, <1>10, <3>1, <3>2, <3>3
    <3>5. ASSUME NEW i \in 1..m PROVE x.ts <= batch'[i].ts + Lag /\ x.n < batch'[i].n
      <4>1. batch'[i].ts = times[i] /\ batch'[i].n = clock.read + i /\ times[i] \in Nat
        BY <1>5, <1>9
      <4>2. times[i] + Lag >= clock.newest
        BY <1>8
      <4>3. x.ts <= batch'[i].ts + Lag
        BY <1>4, <3>1, <3>2, <4>1, <4>2
      <4>4. x.n < batch'[i].n
        BY <1>4, <3>1, <3>2, <4>1
      <4>5. QED
        BY <4>3, <4>4
    <3>6. QED
      BY <3>4, <3>5
  <2>2. QED
    BY <1>1, <1>9, <2>1 DEF EngineInv, SinceInv
<1>13. StoreInv'
  BY <1>1, <1>2 DEF EngineInv, StoreInv
<1>14. WindowInv'
  BY <1>1 DEF EngineInv, WindowInv, KeyInv
<1>15. IncidentInv'
  BY <1>1 DEF EngineInv, IncidentInv
<1>16. QED
  BY <1>11, <1>12, <1>13, <1>14, <1>15 DEF EngineInv

\* feed() begins, with the rules of the tenant or, if the lookup fails, none.
LEMMA FeedStep ==
    ASSUME EngineInv, BeginFeed \/ LookupFails
    PROVE  EngineInv'
<1>1. /\ UNCHANGED <<store, batch, windows, primaries, fanout, incidents, since, clock>>
      /\ batch # <<>> /\ feeding = FALSE /\ feeding' = TRUE
  BY DEF BeginFeed, LookupFails, memory, EngineInv, StoreInv
<1>2. /\ todo' \subseteq Rules /\ OneEach(todo')
      /\ cache' \in [EventTenants -> (SUBSET Rules) \cup {NoValue}]
      /\ \A t \in EventTenants : cache'[t] # NoValue => OneEach(cache'[t])
  <2>1. /\ cache \in [EventTenants -> (SUBSET Rules) \cup {NoValue}]
        /\ \A t \in EventTenants : cache[t] # NoValue => OneEach(cache[t])
    BY DEF EngineInv, StoreInv
  <2>2. CASE LookupFails
    BY <2>1, <2>2 DEF LookupFails, OneEach
  <2>3. CASE BeginFeed
    <3>1. PICK t : t = Head(batch).tenant
      OBVIOUS
    <3>2. t \in EventTenants
      <4>1. batch \in Seq(Events)
        BY DEF EngineInv, BatchInv
      <4>2. Head(batch) \in Events
        BY <1>1, <4>1
      <4>3. QED
        BY <3>1, <4>2 DEF Events
    <3>3. PICK R : R = rules_for(t)
      OBVIOUS
    <3>4. R \subseteq Rules /\ OneEach(R)
      BY <3>3, LookupFacts DEF EngineInv, StoreInv
    <3>5. \/ cache[t] # NoValue /\ todo' = cache[t] /\ cache' = cache
          \/ todo' = R /\ cache' = [cache EXCEPT ![t] = R]
      BY <2>3, <3>1, <3>3 DEF BeginFeed
    <3>6. CASE cache[t] # NoValue /\ todo' = cache[t] /\ cache' = cache
      BY <2>1, <3>2, <3>6
    <3>7. CASE todo' = R /\ cache' = [cache EXCEPT ![t] = R]
      BY <2>1, <3>2, <3>4, <3>7
    <3>8. QED
      BY <3>5, <3>6, <3>7
  <2>4. QED
    BY <2>2, <2>3
<1>3. StoreInv'
  BY <1>1, <1>2 DEF EngineInv, StoreInv
<1>4. BatchInv'
  BY <1>1 DEF EngineInv, BatchInv
<1>5. SinceInv'
  BY <1>1 DEF EngineInv, SinceInv
<1>6. WindowInv'
  BY <1>1 DEF EngineInv, WindowInv, KeyInv
<1>7. IncidentInv'
  BY <1>1 DEF EngineInv, IncidentInv
<1>8. QED
  BY <1>3, <1>4, <1>5, <1>6, <1>7 DEF EngineInv

\* The event is acknowledged, or the rest of the batch is lost to the engine.
LEMMA AckStep ==
    ASSUME EngineInv, Ack \/ AckFails
    PROVE  EngineInv'
<1>1. /\ UNCHANGED <<store, cache, todo, windows, primaries, fanout, incidents, since, clock>>
      /\ feeding = TRUE /\ todo = {} /\ feeding' = FALSE
      /\ batch' = Tail(batch) \/ batch' = <<>>
  BY DEF Ack, AckFails, rulesDb, memory, EngineInv, StoreInv
<1>2. batch \in Seq(Events) /\ batch # <<>>
  BY <1>1 DEF EngineInv, StoreInv, BatchInv
<1>3. /\ batch' \in Seq(Events)
      /\ \A i \in DOMAIN batch' : i \in Nat /\ i + 1 \in DOMAIN batch /\ i + 1 # 1
                                  /\ batch'[i] = batch[i + 1]
  <2>1. CASE batch' = <<>>
    BY <2>1
  <2>2. CASE batch' = Tail(batch)
    <3>1. /\ Len(batch) \in Nat /\ Len(batch) >= 1 /\ DOMAIN batch = 1..Len(batch)
          /\ batch' \in Seq(Events) /\ Len(batch') = Len(batch) - 1
          /\ DOMAIN batch' = 1..Len(batch')
      BY <1>2, <2>2
    <3>2. \A i \in 1..(Len(batch) - 1) : Tail(batch)[i] = batch[i + 1]
      BY <1>2
    <3>3. \A i \in 1..(Len(batch) - 1) : i \in Nat /\ i + 1 \in 1..Len(batch) /\ i + 1 # 1
      BY <3>1
    <3>4. QED
      BY <2>2, <3>1, <3>2, <3>3
  <2>3. QED
    BY <1>1, <2>1, <2>2
<1>4. BatchInv'
  <2>1. clock' = clock /\ clock \in [read : Nat, newest : Nat]
    BY <1>1 DEF EngineInv, BatchInv
  <2>2. \A i \in DOMAIN batch' : batch'[i].n <= clock.read /\ batch'[i].ts <= clock.newest
    BY <1>3 DEF EngineInv, BatchInv
  <2>3. ASSUME NEW i \in DOMAIN batch', NEW j \in DOMAIN batch', i < j
        PROVE  batch'[i].n < batch'[j].n /\ batch'[i].ts <= batch'[j].ts + Lag
    <3>1. i + 1 \in DOMAIN batch /\ j + 1 \in DOMAIN batch /\ i + 1 < j + 1
      BY <1>3, <2>3
    <3>2. batch[i + 1].n < batch[j + 1].n /\ batch[i + 1].ts <= batch[j + 1].ts + Lag
      BY <3>1 DEF EngineInv, BatchInv
    <3>3. QED
      BY <1>3, <3>2
  <2>4. QED
    BY <1>3, <2>1, <2>2, <2>3 DEF BatchInv
<1>5. SinceInv'
  <2>1. ASSUME NEW k \in Keys, NEW x \in since[k], NEW i \in DOMAIN batch'
        PROVE  x.ts <= batch'[i].ts + Lag /\ x.n < batch'[i].n
    <3>1. i + 1 \in DOMAIN batch /\ i + 1 # 1 /\ batch'[i] = batch[i + 1]
      BY <1>3
    <3>2. QED
      BY <3>1 DEF EngineInv, SinceInv
  <2>2. QED
    BY <1>1, <2>1 DEF EngineInv, SinceInv
<1>6. StoreInv'
  BY <1>1 DEF EngineInv, StoreInv
<1>7. WindowInv'
  BY <1>1 DEF EngineInv, WindowInv, KeyInv
<1>8. IncidentInv'
  BY <1>1 DEF EngineInv, IncidentInv
<1>9. QED
  BY <1>4, <1>5, <1>6, <1>7, <1>8 DEF EngineInv

\* A restart forgets what was counted, and keeps the incidents.
LEMMA RestartStep ==
    ASSUME EngineInv, Restart
    PROVE  EngineInv'
<1>1. /\ EmptyMemory /\ store' = Seeded(store)
      /\ cache' = [t \in EventTenants |-> NoValue]
      /\ batch' = <<>> /\ todo' = {} /\ feeding' = FALSE
      /\ UNCHANGED <<incidents, clock>>
  BY DEF Restart
<1>2. since' = [k \in Keys |-> {}]
  BY <1>1 DEF EmptyMemory
<1>3. StoreInv'
  <2>1. StoreType(store')
    BY <1>1, SeededType DEF EngineInv, StoreInv
  <2>2. QED
    BY <1>1, <2>1 DEF StoreInv, OneEach
<1>4. BatchInv'
  BY <1>1 DEF EngineInv, BatchInv
<1>5. SinceInv'
  <2>1. IsFiniteSet({})
    BY FS_EmptySet
  <2>2. QED
    BY <1>2, <2>1 DEF SinceInv
<1>6. WindowInv'
  BY <1>1, FreshMemory
<1>7. IncidentInv'
  BY <1>1 DEF EngineInv, IncidentInv
<1>8. QED
  BY <1>3, <1>4, <1>5, <1>6, <1>7 DEF EngineInv

\* The rule routes and the next start keep the rule table well formed.
LEMMA RulesStep ==
    ASSUME EngineInv,
           \/ GetRules
           \/ \E s \in Tenants \cup {Star}, id \in EditedIds : PutRule(s, id) \/ DeleteRule(s, id)
    PROVE  EngineInv'
<1>1. StoreType(store)
  BY DEF EngineInv, StoreInv
<1>2. CASE GetRules
  <2>1. StoreType(store')
    BY <1>1, <1>2, SeededType DEF GetRules
  <2>2. QED
    BY <1>2, <2>1, StoreStep DEF GetRules
<1>3. ASSUME NEW s \in Tenants \cup {Star}, NEW id \in EditedIds,
             PutRule(s, id) \/ DeleteRule(s, id)
      PROVE  EngineInv'
  <2>1. id \in RuleIds
    BY RulesAssumption
  <2>2. \E d \in Definitions[id] \cup {NoValue} : Edit([store EXCEPT ![s][id] = d])
    BY <1>3 DEF PutRule, DeleteRule
  <2>3. PICK d \in Definitions[id] \cup {NoValue} : Edit([store EXCEPT ![s][id] = d])
    BY <2>2
  <2>4. d \in AllDefinitions \cup {NoValue}
    BY <2>1 DEF AllDefinitions
  <2>5. store' = [store EXCEPT ![s][id] = d]
    BY <2>3 DEF Edit
  <2>6. StoreType(store')
    <3>1. store' \in [Tenants \cup {Star} -> [RuleIds -> AllDefinitions \cup {NoValue}]]
      BY <1>1, <2>1, <2>4, <2>5 DEF StoreType
    <3>2. \A u \in Tenants \cup {Star}, j \in RuleIds :
             store'[u][j] = IF u = s /\ j = id THEN d ELSE store[u][j]
      BY <1>1, <2>1, <2>5 DEF StoreType
    <3>3. QED
      BY <1>1, <3>1, <3>2 DEF StoreType
  <2>7. QED
    BY <2>3, <2>6, StoreStep DEF Edit
<1>4. QED
  BY <1>2, <1>3

\* What a key has seen, when it has seen no more than before and this event.
LEMMA SinceStep ==
    ASSUME EngineInv, feeding, NEW r \in todo, NEW e, e = Head(batch),
           key_for(r, e) # NoValue, NEW k, k = WindowKey(r, key_for(r, e), e.tenant),
           NEW S \in SUBSET (since[k] \cup {e}),
           since' = [since EXCEPT ![k] = S], todo' = todo \ {r},
           UNCHANGED <<batch, feeding, clock>>
    PROVE  SinceInv'
<1>1. /\ r \in Rules /\ e \in Events /\ k \in Keys /\ k[2] = r.id
      /\ since[k] \in SUBSET Events /\ IsFiniteSet(since[k])
  BY LookFacts DEF EngineInv
<1>2. k[1] # Star => e.tenant = k[1]
  BY <1>1, KeyFacts
<1>3. batch \in Seq(Events) /\ batch # <<>>
  BY DEF EngineInv, StoreInv, BatchInv
<1>4. e = batch[1] /\ 1 \in DOMAIN batch /\ \A i \in DOMAIN batch : i = 1 \/ 1 < i
  BY <1>3
<1>5. since \in [Keys -> SUBSET Events] /\ \A h \in Keys : IsFiniteSet(since[h])
  BY DEF EngineInv, SinceInv
<1>6. S \in SUBSET Events /\ IsFiniteSet(S)
  <2>1. IsFiniteSet(since[k] \cup {e})
    BY <1>1, FS_AddElement
  <2>2. QED
    BY <1>1, <2>1, FS_Subset
<1>7. \A h \in Keys : since'[h] = IF h = k THEN S ELSE since[h]
  BY <1>1, <1>5
<1>8. since' \in [Keys -> SUBSET Events] /\ \A h \in Keys : IsFiniteSet(since'[h])
  <2>1. since' \in [Keys -> SUBSET Events]
    BY <1>1, <1>5, <1>6
  <2>2. QED
    BY <1>5, <1>6, <1>7, <2>1
<1>9. /\ e.n <= clock.read /\ e.ts <= clock.newest
      /\ \A i \in DOMAIN batch : e.ts <= batch[i].ts + Lag /\ (e.n < batch[i].n \/ i = 1)
  <2>1. e.n <= clock.read /\ e.ts <= clock.newest
    BY <1>4 DEF EngineInv, BatchInv
  <2>2. e.ts <= e.ts + Lag
    BY <1>1, RulesAssumption DEF Events
  <2>3. \A i \in DOMAIN batch : 1 < i => e.n < batch[i].n /\ e.ts <= batch[i].ts + Lag
    BY <1>4 DEF EngineInv, BatchInv
  <2>4. QED
    BY <1>4, <2>1, <2>2, <2>3
<1>10. \A q \in todo' : q.id # k[2]
  BY <1>1 DEF EngineInv, StoreInv, OneEach
<1>11. ASSUME NEW h \in Keys, NEW x \in since[h]
       PROVE  /\ x.n <= clock.read /\ x.ts <= clock.newest
              /\ h[1] # Star => x.tenant = h[1]
              /\ \A i \in DOMAIN batch :
                    /\ x.ts <= batch[i].ts + Lag
                    /\ \/ x.n < batch[i].n
                       \/ i = 1 /\ feeding /\ \A q \in todo' : q.id # h[2]
  BY DEF EngineInv, SinceInv
<1>12. ASSUME NEW h \in Keys, NEW x \in since'[h]
       PROVE  /\ x.n <= clock'.read /\ x.ts <= clock'.newest
              /\ h[1] # Star => x.tenant = h[1]
              /\ \A i \in DOMAIN batch' :
                    /\ x.ts <= batch'[i].ts + Lag
                    /\ \/ x.n < batch'[i].n
                       \/ i = 1 /\ feeding' /\ \A q \in todo' : q.id # h[2]
  <2>1. CASE x \in since[h]
    BY <1>11, <2>1
  <2>2. CASE x \notin since[h]
    <3>1. h = k /\ x = e
      BY <1>7, <1>12, <2>2
    <3>2. QED
      BY <1>2, <1>9, <1>10, <3>1
  <2>3. QED
    BY <2>1, <2>2
<1>13. QED
  BY <1>8, <1>12 DEF SinceInv

\* One rule of the loop: what it keeps or resets of its key, and the incident
\* that it raises, whether or not recording it succeeds.
LEMMA EvalStep ==
    ASSUME EngineInv, NEW r \in todo, EvalRule(r)
    PROVE  EngineInv'
<1>1. /\ feeding /\ todo' = todo \ {r}
      /\ UNCHANGED <<store, cache, batch, feeding, clock>>
  BY DEF EvalRule, rulesDb
<1>2. StoreInv'
  BY <1>1 DEF EngineInv, StoreInv, OneEach
<1>3. BatchInv'
  BY <1>1 DEF EngineInv, BatchInv
<1>4. PICK e : e = Head(batch)
  OBVIOUS
<1>5. CASE key_for(r, e) = NoValue
  <2>1. UNCHANGED <<windows, primaries, fanout, since, incidents>>
    BY <1>4, <1>5 DEF EvalRule, memory
  <2>2. SinceInv'
    BY <1>1, <2>1 DEF EngineInv, SinceInv
  <2>3. WindowInv'
    BY <2>1 DEF EngineInv, WindowInv, KeyInv
  <2>4. IncidentInv'
    BY <2>1 DEF EngineInv, IncidentInv
  <2>5. QED
    BY <1>2, <1>3, <2>2, <2>3, <2>4 DEF EngineInv
<1>6. CASE key_for(r, e) # NoValue
  <2>1. PICK k : k = WindowKey(r, key_for(r, e), e.tenant)
    OBVIOUS
  <2>2. PICK c : c = Counted(r, e, k)
    OBVIOUS
  <2>3. PICK S : S = Looked(r, e, k)
    OBVIOUS
  <2>4. k \in Keys /\ StoreInv /\ BatchInv /\ SinceInv /\ WindowInv /\ IncidentInv
    BY <1>1, <1>4, <1>6, <2>1, LookFacts DEF EngineInv
  <2>5. KeyInv(k, S, c.w, c.p, c.f)
    BY <1>1, <1>4, <1>6, <2>1, <2>2, <2>3, <2>4, KeyLooked
  <2>6. S \in SUBSET (since[k] \cup {e})
    BY <2>3 DEF Looked
  <2>7. IF Fires(r, e, k, c) THEN Fire(r, e, k, Count(r, c)) ELSE Hold(r, e, k, c)
    BY <1>4, <1>6, <2>1, <2>2 DEF EvalRule
  <2>8. /\ windows \in [Keys -> Seq(Nat)] /\ primaries \in [Keys -> Seq(Nat)]
        /\ fanout \in [Keys -> [Values -> Nat \cup {NoValue}]]
        /\ since \in [Keys -> SUBSET Events]
        /\ \A h \in Keys : KeyInv(h, since[h], windows[h], primaries[h], fanout[h])
    BY <2>4 DEF WindowInv, SinceInv
  <2>9. NeverSeen \in [Values -> Nat \cup {NoValue}] /\ <<>> \in Seq(Nat)
    BY DEF NeverSeen
  <2>10. CASE Fires(r, e, k, c)
    <3>1. /\ windows' = [windows EXCEPT ![k] = <<>>]
          /\ primaries' = [primaries EXCEPT ![k] = <<>>]
          /\ fanout' = [fanout EXCEPT ![k] = NeverSeen]
          /\ since' = [since EXCEPT ![k] = {}]
          /\ RecordIncident(Incident(r, e, k, Count(r, c)))
      BY <2>7, <2>10 DEF Fire
    <3>2. SinceInv'
      BY <1>1, <1>4, <1>6, <2>1, <3>1, SinceStep
    <3>3. \A h \in Keys :
             /\ windows'[h] = IF h = k THEN <<>> ELSE windows[h]
             /\ primaries'[h] = IF h = k THEN <<>> ELSE primaries[h]
             /\ fanout'[h] = IF h = k THEN NeverSeen ELSE fanout[h]
             /\ since'[h] = IF h = k THEN {} ELSE since[h]
      BY <2>4, <2>8, <3>1
    <3>4. /\ {windows', primaries'} \subseteq [Keys -> Seq(Nat)]
          /\ fanout' \in [Keys -> [Values -> Nat \cup {NoValue}]]
      BY <2>8, <2>9, <3>1
    <3>5. \A h \in Keys : KeyInv(h, since'[h], windows'[h], primaries'[h], fanout'[h])
      BY <2>8, <3>3, EmptyKey
    <3>6. WindowInv'
      BY <3>4, <3>5 DEF WindowInv, KeyInv
    <3>7. IncidentInv'
      <4>1. PICK i : i = Incident(r, e, k, Count(r, c))
        OBVIOUS
      <4>2. Decides(r, e) /\ Count(r, c) >= r.threshold
        BY <2>10 DEF Fires
      <4>3. Count(r, c) \in Nat /\ (SameSubject => BackedBy(i))
        BY <1>1, <1>4, <1>6, <2>1, <2>2, <2>4, <4>1, <4>2, FireBacked
      <4>4. /\ i \in Incidents
            /\ i.tenant # NoValue => \A x \in i.basis : x.tenant = i.tenant
        BY <1>1, <1>4, <1>6, <2>1, <2>4, <4>1, <4>3, IncidentFacts
      <4>5. incidents' = Append(incidents, i) \/ incidents' = incidents
        BY <3>1, <4>1 DEF RecordIncident
      <4>6. CASE incidents' = incidents
        BY <2>4, <4>6 DEF IncidentInv
      <4>7. CASE incidents' = Append(incidents, i)
        <5>1. incidents \in Seq(Incidents)
          BY <2>4 DEF IncidentInv
        <5>2. /\ incidents' \in Seq(Incidents)
              /\ \A j \in DOMAIN incidents' :
                    \/ incidents'[j] = i
                    \/ j \in DOMAIN incidents /\ incidents'[j] = incidents[j]
          BY <4>4, <4>7, <5>1
        <5>3. ASSUME NEW j \in DOMAIN incidents'
              PROVE  /\ incidents'[j].tenant # NoValue =>
                           \A x \in incidents'[j].basis : x.tenant = incidents'[j].tenant
                     /\ SameSubject => BackedBy(incidents'[j])
          BY <2>4, <4>3, <4>4, <5>2 DEF IncidentInv
        <5>4. QED
          BY <5>2, <5>3 DEF IncidentInv, BackedBy, Near
      <4>8. QED
        BY <4>5, <4>6, <4>7
    <3>8. QED
      BY <1>2, <1>3, <3>2, <3>6, <3>7 DEF EngineInv
  <2>11. CASE ~ Fires(r, e, k, c)
    <3>1. /\ windows' = [windows EXCEPT ![k] = c.w]
          /\ primaries' = [primaries EXCEPT ![k] = c.p]
          /\ fanout' = [fanout EXCEPT ![k] = c.f]
          /\ since' = [since EXCEPT ![k] = S]
          /\ incidents' = incidents
      BY <2>3, <2>7, <2>11 DEF Hold
    <3>2. SinceInv'
      BY <1>1, <1>4, <1>6, <2>1, <2>6, <3>1, SinceStep
    <3>3. \A h \in Keys :
             /\ windows'[h] = IF h = k THEN c.w ELSE windows[h]
             /\ primaries'[h] = IF h = k THEN c.p ELSE primaries[h]
             /\ fanout'[h] = IF h = k THEN c.f ELSE fanout[h]
             /\ since'[h] = IF h = k THEN S ELSE since[h]
      BY <2>4, <2>8, <3>1
    <3>4. /\ c.w \in Seq(Nat) /\ c.p \in Seq(Nat)
          /\ c.f \in [Values -> Nat \cup {NoValue}]
      BY <2>5, <2>9 DEF KeyInv, Held, Spread
    <3>5. /\ {windows', primaries'} \subseteq [Keys -> Seq(Nat)]
          /\ fanout' \in [Keys -> [Values -> Nat \cup {NoValue}]]
      BY <2>8, <3>1, <3>4
    <3>6. \A h \in Keys : KeyInv(h, since'[h], windows'[h], primaries'[h], fanout'[h])
      BY <2>5, <2>8, <3>3
    <3>7. WindowInv'
      BY <3>5, <3>6 DEF WindowInv, KeyInv
    <3>8. IncidentInv'
      BY <2>4, <3>1 DEF IncidentInv
    <3>9. QED
      BY <1>2, <1>3, <3>2, <3>7, <3>8 DEF EngineInv
  <2>12. QED
    BY <2>10, <2>11
<1>7. QED
  BY <1>5, <1>6

LEMMA EngineStep == EngineInv /\ [Next]_vars => EngineInv'
<1> SUFFICES ASSUME EngineInv, [Next]_vars PROVE EngineInv'
  OBVIOUS
<1>1. CASE Read
  BY <1>1, ReadStep
<1>2. CASE BeginFeed \/ LookupFails
  BY <1>2, FeedStep
<1>3. CASE Notify
  <2>1. UNCHANGED <<store, cache, batch, todo, feeding, memory, incidents, since, clock>>
    BY <1>3 DEF Notify, rulesDb
  <2>2. StoreType(store')
    BY <2>1 DEF EngineInv, StoreInv
  <2>3. QED
    BY <2>1, <2>2, StoreStep
<1>4. CASE Ack \/ AckFails
  BY <1>4, AckStep
<1>5. CASE Restart
  BY <1>5, RestartStep
<1>6. CASE todo # {} /\ EvalRule(NextRule)
  <2>1. NextRule \in todo
    BY <1>6 DEF NextRule
  <2>2. QED
    BY <1>6, <2>1, EvalStep
<1>7. CASE \/ GetRules
           \/ \E s \in Tenants \cup {Star}, id \in EditedIds : PutRule(s, id) \/ DeleteRule(s, id)
  BY <1>7, RulesStep
<1>8. CASE UNCHANGED vars
  <2>1. UNCHANGED <<store, cache, batch, todo, feeding, memory, incidents, since, clock>>
    BY <1>8 DEF vars, memory
  <2>2. StoreType(store')
    BY <2>1 DEF EngineInv, StoreInv
  <2>3. QED
    BY <2>1, <2>2, StoreStep
<1>9. QED
  BY <1>1, <1>2, <1>3, <1>4, <1>5, <1>6, <1>7, <1>8 DEF Next, EngineNext

-----------------------------------------------------------------------------
(* EngineInv holds in every state, whatever rules are edited, calls fail   *)
(* or processes restart (engine.py, windows.py).                           *)
THEOREM EngineInvHolds == Spec => []EngineInv
<1>1. Init => EngineInv
  BY EngineInit
<1>2. EngineInv /\ [Next]_vars => EngineInv'
  BY EngineStep
<1>3. QED
  BY <1>1, <1>2, PTL DEF Spec

LEMMA EngineTypeOK == EngineInv => TypeOK
<1> SUFFICES ASSUME EngineInv PROVE TypeOK
  OBVIOUS
<1>1. /\ \A s \in Tenants \cup {Star}, id \in RuleIds :
            store[s][id] \in Definitions[id] \cup {NoValue}
      /\ todo \subseteq Rules /\ (~ feeding => todo = {})
      /\ feeding => batch # <<>>
  BY DEF EngineInv, StoreInv, StoreType
<1>2. ASSUME NEW k \in Keys
      PROVE  /\ Len(windows[k]) <= Cardinality(since[k])
             /\ Len(primaries[k]) <= Cardinality(since[k])
             /\ {windows[k][i] : i \in DOMAIN windows[k]} \subseteq {e.ts : e \in since[k]}
             /\ {primaries[k][i] : i \in DOMAIN primaries[k]} \subseteq {e.ts : e \in since[k]}
             /\ \A v \in Distinct(fanout[k]) : fanout[k][v] \in {e.ts : e \in since[k]}
  <2>1. PICK w, p, f, S : w = windows[k] /\ p = primaries[k] /\ f = fanout[k] /\ S = since[k]
    OBVIOUS
  <2>2. PICK P, Q, F : P = Plain(k[2]) /\ Q = Sequences(k[2]) /\ F = FanOuts(k[2])
    OBVIOUS
  <2>3. Held(w, S, P) /\ Held(p, S, Q) /\ Spread(f, S, F) /\ IsFiniteSet(S)
    BY <2>1, <2>2 DEF EngineInv, WindowInv, SinceInv, KeyInv
  <2>4. /\ Len(w) <= Cardinality(S)
        /\ {w[i] : i \in DOMAIN w} \subseteq {e.ts : e \in S}
    BY <2>3, HeldCount
  <2>5. /\ Len(p) <= Cardinality(S)
        /\ {p[i] : i \in DOMAIN p} \subseteq {e.ts : e \in S}
    BY <2>3, HeldCount
  <2>6. ASSUME NEW v \in Distinct(f) PROVE f[v] \in {e.ts : e \in S}
    <3>1. v \in Values /\ f[v] # NoValue
      BY DEF Distinct
    <3>2. PICK x \in S : x.ts = f[v]
      BY <2>3, <3>1 DEF Spread
    <3>3. QED
      BY <3>2
  <2>7. QED
    BY <2>1, <2>4, <2>5, <2>6
<1>3. QED
  BY <1>1, <1>2 DEF TypeOK

(* The windows hold times of events that were read, never more of them     *)
(* than there were events, and only valid, enabled rules are evaluated.    *)
THEOREM RulesTypeOK == Spec => []TypeOK
BY EngineInvHolds, EngineTypeOK, PTL

(* No incident that a tenant is given was counted from another tenant's    *)
(* events, whatever global rules, overrides and edits there are            *)
(* (_window_key, list_incidents).                                          *)
THEOREM TenantDisclosureHolds == Spec => []TenantDisclosure
<1>1. EngineInv => TenantDisclosure
  BY DEF EngineInv, IncidentInv, TenantDisclosure, list_incidents
<1>2. QED
  BY <1>1, EngineInvHolds, PTL

(* Every incident is backed by as many different events, or values, as it  *)
(* claims, however late events come (add_and_count, _evict) and however    *)
(* the window, threshold, grouping, scope, cooldown or severity of a rule  *)
(* are edited or overridden: only edits of what a rule counts (its action, *)
(* then_action and distinct) are excluded, since the windows outlive them  *)
(* and mix what the two definitions looked for.                            *)
THEOREM BackedHolds == SameSubject => (Spec => []Backed)
<1> SUFFICES ASSUME SameSubject PROVE Spec => []Backed
  OBVIOUS
<1>1. EngineInv => Backed
  <2> SUFFICES ASSUME EngineInv, NEW j \in DOMAIN incidents
               PROVE  BackedBy(incidents[j])
    BY DEF Backed, BackedBy, Near
  <2>1. QED
    BY DEF EngineInv, IncidentInv
<1>2. QED
  BY <1>1, EngineInvHolds, PTL

(* No burst is missed: an evaluation that finds the threshold reached in   *)
(* the newest window, with no cooldown, raises an incident (_eval, _fire). *)
(* Windows may be edited and overridden; the newest window is the shortest *)
(* of the rule's definitions, and what the rule counts stays the same.     *)
THEOREM NoneMissedHolds == SameSubject => (Spec => NoneMissed)
<1> SUFFICES ASSUME SameSubject PROVE Spec => NoneMissed
  OBVIOUS
<1>1. ASSUME EngineInv, Next, NEW r \in todo \ todo', feeding', MustFire(r)
      PROVE  since'[WindowKey(r, key_for(r, Head(batch)), Head(batch).tenant)] = {}
  <2>1. feeding /\ r \in todo
    BY <1>1 DEF EngineInv, StoreInv
  <2>2. EvalRule(r)
    <3>1. todo' # todo
      BY <1>1
    <3>2. ~ (BeginFeed \/ LookupFails \/ Restart)
      BY <1>1, <2>1 DEF BeginFeed, LookupFails, Restart
    <3>3. ~ (Read \/ Notify \/ Ack \/ AckFails \/ GetRules)
      BY <3>1 DEF Read, Notify, Ack, AckFails, GetRules
    <3>4. ~ (\E s \in Tenants \cup {Star}, id \in EditedIds : PutRule(s, id) \/ DeleteRule(s, id))
      BY <3>1 DEF PutRule, DeleteRule, Edit
    <3>5. EvalRule(NextRule)
      BY <1>1, <3>2, <3>3, <3>4 DEF Next, EngineNext
    <3>6. r = NextRule
      BY <1>1, <3>5 DEF EvalRule
    <3>7. QED
      BY <3>5, <3>6
  <2>3. PICK e : e = Head(batch)
    OBVIOUS
  <2>4. key_for(r, e) # NoValue
    BY <1>1, <2>3 DEF MustFire
  <2>5. PICK k : k = WindowKey(r, key_for(r, e), e.tenant)
    OBVIOUS
  <2>6. PICK c : c = Counted(r, e, k)
    OBVIOUS
  <2>7. StoreInv /\ BatchInv /\ SinceInv /\ WindowInv
    BY <1>1 DEF EngineInv
  <2>8. Fires(r, e, k, c)
    BY <1>1, <2>1, <2>3, <2>4, <2>5, <2>6, <2>7, FireCovers
  <2>9. since' = [since EXCEPT ![k] = {}]
    BY <2>2, <2>3, <2>4, <2>5, <2>6, <2>8 DEF EvalRule, Fire
  <2>10. k \in Keys /\ since \in [Keys -> SUBSET Events]
    BY <2>1, <2>3, <2>4, <2>5, <2>7, LookFacts DEF SinceInv
  <2>11. since'[k] = {}
    BY <2>9, <2>10
  <2>12. QED
    BY <2>3, <2>5, <2>11
<1>2. EngineInv /\ [Next]_vars =>
        [\A r \in todo \ todo' :
           feeding' /\ MustFire(r) =>
             since'[WindowKey(r, key_for(r, Head(batch)), Head(batch).tenant)] = {}]_vars
  BY <1>1
<1>3. QED
  BY <1>2, EngineInvHolds, PTL DEF Spec, NoneMissed
=============================================================================
