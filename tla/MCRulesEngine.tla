--------------------------- MODULE MCRulesEngine ---------------------------
EXTENDS RulesEngine, TLC

CONSTANTS t1, t2, a, burst, guess, fan

Kind(t, x, act) == [tenant |-> t, actor |-> x, action |-> act]
Def(id, scope, audience, distinct, then, n, sev) ==
    [id |-> id, enabled |-> TRUE, scope |-> scope, audience |-> audience, distinct |-> distinct,
     action |-> "fail", then_action |-> then, group_by |-> "actor", window |-> 1, threshold |-> n,
     cooldown |-> 1, severity |-> sev]

\* brute_force_login, credential_guess and a fan-out over tenants, scaled down.
MCKinds == {Kind(t1, a, "fail"), Kind(t2, a, "fail"), Kind(t1, a, "ok"),
            Kind(t1, NoValue, "fail")}
Burst == Def(burst, "tenant", "tenant", NoValue, NoValue, 2, "serious")
Guess == Def(guess, "tenant", "tenant", NoValue, "ok", 2, "warn")
Fan == Def(fan, "global", "deployment", "tenant", NoValue, 2, "critical")
MCDefinitions == (burst :> {Burst, [Burst EXCEPT !.enabled = FALSE],
                            [Burst EXCEPT !.scope = "global", !.audience = "deployment"],
                            [Burst EXCEPT !.window = 2, !.group_by = "tenant"],
                            [Burst EXCEPT !.window = 2, !.threshold = 3]})
                 @@ (guess :> {Guess}) @@ (fan :> {Fan})
MCDefaultPack == (burst :> Burst) @@ (guess :> Guess) @@ (fan :> Fan)
=============================================================================
