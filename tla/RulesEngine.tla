----------------------------- MODULE RulesEngine -----------------------------
(***************************************************************************)
(* The security rules engine (audit-rules): it rides the audit stream in a *)
(* consumer group of its own, evaluates every event against the rules of   *)
(* the event's tenant over event-time sliding windows, records incidents   *)
(* and mails the deployment's administrators.                              *)
(*                                                                         *)
(* engine.py, windows.py, rules.py, the stores of security.py, the         *)
(* delivery decision of notifier.py and the rule routes of api.py.         *)
(*                                                                         *)
(* Several publishers write the stream, so an event may be older than one  *)
(* that was read before it, by at most Lag.                                *)
(***************************************************************************)
EXTENDS Integers, Sequences, FiniteSets, FiniteSetsExt

CONSTANTS
    Tenants,        \* tenants with rows of their own in security_rules
    Star,           \* the scope of the default rows, '*'
    NoValue,        \* an absent field, row, rule set or incident
    Kinds,          \* the events' [tenant, actor, action], the time apart
    RuleIds,        \* rule identifiers
    Definitions,    \* Definitions[id]: the rules a row of id may hold
    DefaultPack,    \* default_rules(): DefaultPack[id] \in Definitions[id]
    Lag,            \* how late an event may be, in event time
    MailConfigured, \* smtp_host and admin_emails are set
    MaxTime,        \* bound: event times are 0..MaxTime
    MaxEvents,      \* bound: events read
    ReadCount,      \* bound: events per read
    EditedIds,      \* bound: the rules that are edited through the API
    MaxUpsets       \* bound: crashes, failed calls and rule edits

Serious == {"serious", "critical"}

is_sequence(r) == r.then_action # NoValue
is_fanout(r) == r.distinct # NoValue

(***************************************************************************)
(* Rule.__post_init__: what the DSL refuses.                               *)
(***************************************************************************)
Valid(d) ==
    /\ d.distinct # d.group_by
    /\ d.scope = "global" => d.audience = "deployment"
    /\ d.distinct = NoValue \/ ~ is_sequence(d)

(***************************************************************************)
(* A row's definition is a record of its fields.  put_rule checks no more  *)
(* of it than Valid, so the definitions of one identifier may differ in    *)
(* every other respect.                                                    *)
(***************************************************************************)
ASSUME RulesAssumption ==
    /\ Star \notin Tenants \cup {k.tenant : k \in Kinds}
    /\ NoValue \notin Tenants \cup Nat /\ EditedIds \subseteq RuleIds
    /\ \A id \in RuleIds :
         /\ DefaultPack[id] \in Definitions[id]
         /\ \A d \in Definitions[id] :
              /\ d.id = id /\ Valid(d) /\ {d.window, d.threshold} \subseteq Nat
              /\ d.group_by \in {"tenant", "actor"}
              /\ d.distinct \in {"tenant", "actor", NoValue}
    /\ {Lag, MaxTime, MaxEvents, ReadCount, MaxUpsets} \subseteq Nat

VARIABLES
    store,      \* security_rules: store[scope][id], a definition or NoValue
    cache,      \* the provider's cache: cache[tenant], a rule set or NoValue
    aborted,    \* the rules connection sits in a failed transaction
    batch,      \* events read and not yet acknowledged
    todo,       \* rules feed() still has to evaluate for Head(batch)
    feeding,    \* feed() is under way
    mail,       \* the incident notify_admins_mandatory is about, or NoValue
    windows, primaries, fanout, cooldowns,  \* the engine's memory, by key
    incidents,  \* security_incidents
    mailed,     \* the notifier's sent list
    since,      \* history: the events looked at for a key since its last reset
    clock,      \* history: [read, newest], how many events and how late
    budget      \* crashes, failed calls and rule edits so far

memory == <<windows, primaries, fanout, cooldowns>>
rulesDb == <<store, cache, aborted>>
vars == <<store, cache, aborted, batch, todo, feeding, mail, windows, primaries,
          fanout, cooldowns, incidents, mailed, since, clock, budget>>

EventTenants == {k.tenant : k \in Kinds}
FieldValues(field) == {k[field] : k \in Kinds} \ {NoValue}
Values == FieldValues("tenant") \cup FieldValues("actor")
Keys == UNION {(EventTenants \cup {Star}) \X {id}
                 \X UNION {FieldValues(d.group_by) : d \in Definitions[id]} : id \in RuleIds}
Rules == UNION {{d \in Definitions[id] : d.enabled} : id \in RuleIds}

(***************************************************************************)
(* windows.py.  A SlidingWindows entry is a deque of times from whose      *)
(* FRONT the old ones are popped; a DistinctWindows entry is the latest    *)
(* time of every value (NoValue: not seen).                                *)
(***************************************************************************)
\* Mutant of Evict: the entry just at the cutoff is popped as well.
EvictAtCutoff(dq, cutoff) ==
    LET kept == {i \in DOMAIN dq : dq[i] > cutoff}
    IN IF kept = {} THEN <<>> ELSE SubSeq(dq, Min(kept), Len(dq))

Evict(dq, cutoff) ==
    LET kept == {i \in DOMAIN dq : dq[i] >= cutoff}
    IN IF kept = {} THEN <<>> ELSE SubSeq(dq, Min(kept), Len(dq))

AddAndCount(dq, ts, w) == Evict(Append(dq, ts), ts - w)

Seen(last, value, ts, w) ==
    LET time == IF last[value] = NoValue THEN ts ELSE Max({last[value], ts})
    IN [v \in Values |->
          LET t == IF v = value THEN time ELSE last[v]
          IN IF t # NoValue /\ t >= ts - w THEN t ELSE NoValue]

NeverSeen == [v \in Values |-> NoValue]
Distinct(last) == {v \in Values : last[v] # NoValue}

(***************************************************************************)
(* rules.py and RulesStore.rules_for: a tenant's own row replaces the      *)
(* default one of the same id, and disabled rules are dropped.             *)
(***************************************************************************)
matches_primary(r, e) == r.action \in {NoValue, e.action}
matches_seal(r, e) == is_sequence(r) /\ e.action = r.then_action
key_for(r, e) == e[r.group_by]

\* What the rule counts, and the events on which it may fire.
Counts(r, e) == matches_primary(r, e) /\ (is_fanout(r) => e[r.distinct] # NoValue)
Decides(r, e) ==
    IF is_sequence(r) THEN matches_seal(r, e) /\ ~ matches_primary(r, e) ELSE Counts(r, e)

Row(tenant, id) ==
    IF tenant \in Tenants /\ store[tenant][id] # NoValue
    THEN store[tenant][id] ELSE store[Star][id]

rules_for(tenant) ==
    {Row(tenant, id) :
       id \in {i \in RuleIds : Row(tenant, i) # NoValue /\ Row(tenant, i).enabled}}

Seeded(s) == [s EXCEPT ![Star] = [id \in RuleIds |->
                IF s[Star][id] = NoValue THEN DefaultPack[id] ELSE s[Star][id]]]

(***************************************************************************)
(* _window_key: a global rule's key drops the tenant.                      *)
(***************************************************************************)
\* Mutant of WindowKey: the tenant is dropped from every key.
WindowKeyShared(r, key, tenant) == <<Star, r.id, key>>

WindowKey(r, key, tenant) ==
    <<IF r.scope = "global" THEN Star ELSE tenant, r.id, key>>

(***************************************************************************)
(* _eval.  Counted: the windows of the key once the rule has looked at the *)
(* event; Count: what they hold, which is compared with the threshold.     *)
(***************************************************************************)
Counted(r, e, k) ==
    [w |-> IF Counts(r, e) /\ ~ is_fanout(r) /\ ~ is_sequence(r)
           THEN AddAndCount(windows[k], e.ts, r.window) ELSE windows[k],
     p |-> IF is_sequence(r) /\ Counts(r, e)
           THEN AddAndCount(primaries[k], e.ts, r.window)
           ELSE IF matches_seal(r, e)
           THEN Evict(primaries[k], e.ts - r.window) ELSE primaries[k],
     f |-> IF is_fanout(r) /\ Counts(r, e)
           THEN Seen(fanout[k], e[r.distinct], e.ts, r.window) ELSE fanout[k]]

Count(r, c) ==
    IF is_fanout(r) THEN Cardinality(Distinct(c.f))
    ELSE IF is_sequence(r) THEN Len(c.p) ELSE Len(c.w)

(* The events the rule has looked at for the key, with this one, and among *)
(* them the ones it counts.                                                *)
Looked(r, e, k) ==
    IF Counts(r, e) \/ matches_seal(r, e) THEN since[k] \cup {e} ELSE since[k]

Evidence(r, e, k) == {x \in Looked(r, e, k) : matches_primary(r, x)}

CoolingDown(k, ts) == cooldowns[k] # NoValue /\ ts < cooldowns[k]

IncidentTenant(r, e) == IF r.scope = "global" THEN NoValue ELSE e.tenant

Incident(r, e, k, n) ==
    [rule |-> r, tenant |-> IncidentTenant(r, e), key |-> k, count |-> n,
     last |-> e, basis |-> Evidence(r, e, k)]

(***************************************************************************)
(* One rule of feed()'s loop: _eval and _fire.  The cooldown is set and    *)
(* the windows are cleared before the incident is recorded, and recording  *)
(* is best effort (PgIncidentStore.record swallows its failure).           *)
(***************************************************************************)
RecordIncident(i) ==
    \/ incidents' = Append(incidents, i) /\ UNCHANGED budget
    \/ /\ budget < MaxUpsets
       /\ budget' = budget + 1
       /\ UNCHANGED incidents

\* Mutant of Fire: the windows are not reset.
FireNoReset(r, e, k, n) ==
    /\ cooldowns' = [cooldowns EXCEPT ![k] = e.ts + r.cooldown]
    /\ UNCHANGED windows
    /\ primaries' = [primaries EXCEPT ![k] = <<>>]
    /\ fanout' = [fanout EXCEPT ![k] = NeverSeen]
    /\ since' = [since EXCEPT ![k] = {}]
    /\ mail' = IF r.severity \in Serious THEN Incident(r, e, k, n) ELSE NoValue
    /\ RecordIncident(Incident(r, e, k, n))

Fire(r, e, k, n) ==
    /\ cooldowns' = [cooldowns EXCEPT ![k] = e.ts + r.cooldown]
    /\ windows' = [windows EXCEPT ![k] = <<>>]
    /\ primaries' = [primaries EXCEPT ![k] = <<>>]
    /\ fanout' = [fanout EXCEPT ![k] = NeverSeen]
    /\ since' = [since EXCEPT ![k] = {}]
    /\ mail' = IF r.severity \in Serious THEN Incident(r, e, k, n) ELSE NoValue
    /\ RecordIncident(Incident(r, e, k, n))

Hold(r, e, k, c) ==
    /\ windows' = [windows EXCEPT ![k] = c.w]
    /\ primaries' = [primaries EXCEPT ![k] = c.p]
    /\ fanout' = [fanout EXCEPT ![k] = c.f]
    /\ since' = [since EXCEPT ![k] = Looked(r, e, k)]
    /\ UNCHANGED <<cooldowns, mail, incidents, budget>>

Fires(r, e, k, c) ==
    Decides(r, e) /\ Count(r, c) >= r.threshold /\ ~ CoolingDown(k, e.ts)

(* feed() goes through the rules in the order the query gave them; no two  *)
(* of them share a key, so one order stands for all.                       *)
NextRule == CHOOSE r \in todo : TRUE

EvalRule(r) ==
    /\ feeding /\ mail = NoValue
    /\ todo' = todo \ {r}
    /\ LET e == Head(batch)
           k == WindowKey(r, key_for(r, e), e.tenant)
           c == Counted(r, e, k)
       IN IF key_for(r, e) = NoValue
          THEN UNCHANGED <<memory, since, mail, incidents, budget>>
          ELSE IF Fires(r, e, k, c) THEN Fire(r, e, k, Count(r, c)) ELSE Hold(r, e, k, c)
    /\ UNCHANGED <<rulesDb, batch, feeding, mailed, clock>>

(***************************************************************************)
(* EmailAdminNotifier.notify_admins_mandatory, called for a serious        *)
(* incident after it was recorded; a send that fails is logged.            *)
(***************************************************************************)
deliverable(i) == i.rule.audience = "deployment" /\ i.rule.severity \in Serious

Notify ==
    /\ mail # NoValue
    /\ mail' = NoValue
    /\ IF deliverable(mail) /\ MailConfigured
       THEN \/ mailed' = mailed \cup {mail} /\ UNCHANGED budget
            \/ /\ budget < MaxUpsets
               /\ budget' = budget + 1
               /\ UNCHANGED mailed
       ELSE UNCHANGED <<mailed, budget>>
    /\ UNCHANGED <<rulesDb, batch, todo, feeding, memory, incidents, since, clock>>

(***************************************************************************)
(* The loop of main: read, feed and acknowledge one by one.  The provider  *)
(* answers from its cache, if that is not older than 30 s, or asks the     *)
(* store: the wall clock is not modelled, either may happen.               *)
(***************************************************************************)
Read ==
    /\ batch = <<>>
    /\ \E m \in 1..ReadCount :
         /\ clock.read + m <= MaxEvents
         /\ \E kinds \in [1..m -> Kinds], times \in [1..m -> 0..MaxTime] :
              LET Newest(i) == Max({clock.newest} \cup {times[j] : j \in 1..i})
              IN /\ \A i \in 1..m : times[i] >= Newest(i) - Lag
                 /\ batch' = [i \in 1..m |->
                       [tenant |-> kinds[i].tenant, actor |-> kinds[i].actor,
                        action |-> kinds[i].action, ts |-> times[i], n |-> clock.read + i]]
                 /\ clock' = [read |-> clock.read + m, newest |-> Newest(m)]
    /\ UNCHANGED <<rulesDb, todo, feeding, mail, memory, incidents, mailed, since, budget>>

BeginFeed ==
    /\ batch # <<>> /\ ~ feeding
    /\ LET t == Head(batch).tenant
       IN \/ cache[t] # NoValue /\ todo' = cache[t] /\ UNCHANGED cache
          \/ /\ ~ aborted /\ todo' = rules_for(t)
             /\ cache' = [cache EXCEPT ![t] = rules_for(t)]
    /\ feeding' = TRUE
    /\ UNCHANGED <<store, aborted, batch, mail, memory, incidents, mailed, since, clock,
                   budget>>

(* rules_for raises: feed raises, main logs it and acknowledges.  A failed *)
(* statement leaves the connection open in a failed transaction, which     *)
(* nothing rolls back; a lost connection is replaced on the next call.     *)
LookupFails ==
    /\ batch # <<>> /\ ~ feeding
    /\ \/ aborted /\ UNCHANGED <<aborted, budget>>
       \/ /\ ~ aborted /\ budget < MaxUpsets
          /\ budget' = budget + 1
          /\ aborted' \in BOOLEAN
    /\ feeding' = TRUE /\ todo' = {}
    /\ UNCHANGED <<store, cache, batch, mail, memory, incidents, mailed, since, clock>>

Ack ==
    /\ feeding /\ todo = {} /\ mail = NoValue
    /\ feeding' = FALSE
    /\ batch' = Tail(batch)
    /\ UNCHANGED <<rulesDb, todo, mail, memory, incidents, mailed, since, clock, budget>>

(* The acknowledgement fails: main backs off and reads anew, and the rest  *)
(* of the batch stays with the group, read by nobody (read asks for '>').  *)
AckFails ==
    /\ feeding /\ todo = {} /\ mail = NoValue
    /\ budget < MaxUpsets
    /\ budget' = budget + 1
    /\ feeding' = FALSE /\ batch' = <<>>
    /\ UNCHANGED <<rulesDb, todo, mail, memory, incidents, mailed, since, clock>>

EmptyMemory ==
    /\ windows' = [k \in Keys |-> <<>>] /\ primaries' = [k \in Keys |-> <<>>]
    /\ fanout' = [k \in Keys |-> NeverSeen] /\ cooldowns' = [k \in Keys |-> NoValue]
    /\ since' = [k \in Keys |-> {}]

(* The process dies at any point and is started again, by main. *)
Restart ==
    /\ budget < MaxUpsets
    /\ budget' = budget + 1
    /\ EmptyMemory
    /\ store' = Seeded(store)
    /\ cache' = [t \in EventTenants |-> NoValue] /\ aborted' = FALSE
    /\ batch' = <<>> /\ todo' = {} /\ feeding' = FALSE /\ mail' = NoValue
    /\ UNCHANGED <<incidents, mailed, clock>>

(***************************************************************************)
(* The rule routes of the API, which run in another process.  The engine   *)
(* meets the table when it looks rules up and at no other time, so an edit *)
(* during an evaluation is the same as one after it.                       *)
(***************************************************************************)
Edit(s) ==
    /\ ~ feeding /\ s # store /\ budget < MaxUpsets
    /\ budget' = budget + 1
    /\ store' = s
    /\ UNCHANGED <<cache, aborted, batch, todo, feeding, mail, memory, incidents, mailed,
                   since, clock>>

PutRule(scope, id) ==
    \E d \in Definitions[id] : Valid(d) /\ Edit([store EXCEPT ![scope][id] = d])

DeleteRule(scope, id) ==
    store[scope][id] # NoValue /\ Edit([store EXCEPT ![scope][id] = NoValue])

GetRules ==
    /\ Seeded(store) # store
    /\ store' = Seeded(store)
    /\ UNCHANGED <<cache, aborted, batch, todo, feeding, mail, memory, incidents, mailed,
                   since, clock, budget>>

-----------------------------------------------------------------------------
Init ==
    /\ store = Seeded([s \in Tenants \cup {Star} |-> [id \in RuleIds |-> NoValue]])
    /\ cache = [t \in EventTenants |-> NoValue] /\ aborted = FALSE
    /\ batch = <<>> /\ todo = {} /\ feeding = FALSE /\ mail = NoValue
    /\ windows = [k \in Keys |-> <<>>] /\ primaries = [k \in Keys |-> <<>>]
    /\ fanout = [k \in Keys |-> NeverSeen] /\ cooldowns = [k \in Keys |-> NoValue]
    /\ incidents = <<>> /\ mailed = {}
    /\ since = [k \in Keys |-> {}]
    /\ clock = [read |-> 0, newest |-> 0]
    /\ budget = 0

EngineNext ==
    \/ Read \/ BeginFeed \/ LookupFails \/ Notify \/ Ack \/ AckFails \/ Restart
    \/ todo # {} /\ EvalRule(NextRule)

Next ==
    \/ EngineNext
    \/ GetRules
    \/ \E s \in Tenants \cup {Star}, id \in EditedIds : PutRule(s, id) \/ DeleteRule(s, id)

Spec == Init /\ [][Next]_vars

-----------------------------------------------------------------------------
(***************************************************************************)
(* Properties.                                                             *)
(***************************************************************************)

(* Every variable of the engine has its type: what a window holds are the  *)
(* times of events that were read, and the rules under evaluation are      *)
(* valid, enabled definitions.                                             *)
TypeOK ==
    /\ \A s \in Tenants \cup {Star}, id \in RuleIds :
         store[s][id] \in Definitions[id] \cup {NoValue}
    /\ todo \subseteq Rules /\ (~ feeding => todo = {})
    /\ feeding => batch # <<>>
    /\ \A k \in Keys :
         LET times == {e.ts : e \in since[k]}
         IN /\ Len(windows[k]) <= Cardinality(since[k])
            /\ Len(primaries[k]) <= Cardinality(since[k])
            /\ {windows[k][i] : i \in DOMAIN windows[k]} \subseteq times
            /\ {primaries[k][i] : i \in DOMAIN primaries[k]} \subseteq times
            /\ \A v \in Distinct(fanout[k]) : fanout[k][v] \in times

(* Every incident is backed: it claims at least the rule's threshold of    *)
(* matches, and that many different events (for a fan-out rule, events     *)
(* with that many different values) of its key were read after the key's   *)
(* previous incident and lie in the rule's window before the event that    *)
(* raised it, give or take how late an event may come.  The deque is only  *)
(* popped from the front, so behind a late event an older one may survive  *)
(* (windows.py): this bounds what that can do.                             *)
Backed ==
    \A i \in {incidents[j] : j \in DOMAIN incidents} :
       LET r == i.rule
           near == {e \in i.basis : /\ e.ts <= i.last.ts + Lag
                                    /\ e.ts >= i.last.ts - r.window
                                         - (IF r.distinct = NoValue THEN Lag ELSE 0)}
       IN /\ i.count >= r.threshold
          /\ i.count <= IF r.distinct = NoValue THEN Cardinality(near)
                        ELSE Cardinality({e[r.distinct] : e \in near})

(* No burst is missed: when a rule is evaluated on an event it decides on, *)
(* the key is not cooling down and the newest window of the key already    *)
(* holds the threshold of events (or values) since the last incident, then *)
(* the evaluation raises an incident.  What eviction drops, in whatever    *)
(* order events came, never belongs to the newest window.  The windows of  *)
(* a rule outlive an edit of it, and what a shorter window evicted is gone *)
(* when the rule is given a longer one: the newest window is that of the   *)
(* shortest among the rule's definitions.                                  *)
NewestWindow(r, e, k) ==
    LET newest == Max({x.ts : x \in Looked(r, e, k)})
    IN {x \in Evidence(r, e, k) :
          \A d \in Definitions[r.id] : x.ts >= newest - d.window}

MustFire(r) ==
    LET e == Head(batch)
        k == WindowKey(r, key_for(r, e), e.tenant)
        now == NewestWindow(r, e, k)
    IN /\ key_for(r, e) # NoValue /\ Decides(r, e) /\ ~ CoolingDown(k, e.ts)
       /\ r.threshold <= IF r.distinct = NoValue THEN Cardinality(now)
                         ELSE Cardinality({x[r.distinct] : x \in now} \ {NoValue})

NoneMissed ==
    [][\A r \in todo \ todo' :
         feeding' /\ MustFire(r) =>
           since'[WindowKey(r, key_for(r, Head(batch)), Head(batch).tenant)] = {}]_vars

(* list_incidents with a tenant, which is all that require_read lets a     *)
(* tenant's own administrators ask for.                                    *)
list_incidents(tenant) ==
    {i \in {incidents[j] : j \in DOMAIN incidents} : i.tenant = tenant}

(* A tenant sees nothing of another: the incidents it is given were        *)
(* counted from events of that tenant alone, whatever global rules,        *)
(* overrides and edits there were.                                         *)
TenantDisclosure ==
    \A t \in EventTenants \ {NoValue} : \A i \in list_incidents(t) :
       \A e \in i.basis : e.tenant = t

(* The comment at engine.py:235: a serious or critical incident is always  *)
(* mailed to the administrators, once its evaluation is over.              *)
MandatoryMail ==
    ~ feeding => \A j \in DOMAIN incidents :
       incidents[j].rule.severity \in Serious => incidents[j] \in mailed
=============================================================================
