------------------------------ MODULE MCGateway ------------------------------
(* Small instances of Gateway for the configurations MCGateway_*.cfg.        *)
EXTENDS Gateway

CONSTANTS r1, r2, a1, a2, k1, s1, s2, t1, t2, g1, m1, x1

\* Both requests in session s1, or each in a session of its own.
OneSession == [r \in Request |-> s1]
OwnSessions == r1 :> s1 @@ r2 :> s2
OneThread == [r \in Request |-> t1]
TwoThreads == r1 :> t1 @@ r2 :> t2
OneKey == [s \in Session |-> k1]
OneModel == [r \in Request |-> m1]
OneSource == [r \in Request |-> x1]
OneFamily == [m \in Model |-> m1]

On == [enabled |-> TRUE, groups |-> {g1}, models |-> {m1}, sources |-> {x1}, max |-> 2]
AlwaysOn == {On}
OnOff == {On, [On EXCEPT !.enabled = FALSE]}
LiveKey == {[enabled |-> TRUE, group |-> g1]}
Roomy == {[capacity |-> 2, global |-> 2, session |-> 2]}
Single == {[capacity |-> 2, global |-> 1, session |-> 1]}

\* A binding left by an earlier run of the gateway.
Restored == {[account |-> a1, group |-> g1, family |-> m1, generation |-> 1]}
=============================================================================
