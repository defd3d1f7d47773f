----------------------------- MODULE MCScheduler -----------------------------
(* Small instances of Scheduler: the topologies and the stored records that *)
(* the configurations MCScheduler_*.cfg choose from.                         *)
EXTENDS Scheduler

CONSTANTS r1, r2, r3, a1, a2, k1, s1, s2, t1, t2, g1, g2, m1, m2, x1

\* r1 and r2 share session s1, r3 has session s2.
TwoSessions == Restrict(r1 :> s1 @@ r2 :> s1 @@ r3 :> s2, Request)
TwoThreads == Restrict(r1 :> t1 @@ r2 :> t2 @@ r3 :> t1, Request)
OneThread == [r \in Request |-> t1]
OneKey == [s \in Session |-> k1]
OneModel == [r \in Request |-> m1]
TwoModels == Restrict(r1 :> m1 @@ r2 :> m2, Request)
OneSource == [r \in Request |-> x1]
OneFamily == [m \in Model |-> m1]

-----------------------------------------------------------------------------
(* Records an administrator may store. *)

On(n) == [enabled |-> TRUE, groups |-> {g1}, models |-> {m1}, sources |-> {x1}, max |-> n]

\* Enabled or disabled, with room for two.
OnOff == {On(2), [On(2) EXCEPT !.enabled = FALSE]}
\* Room for one or for two.
SmallOrLarge == {On(1), On(2)}
\* In both groups for every model, or in the second group for the first model.
Assorted == {[On(1) EXCEPT !.groups = {g1, g2}, !.models = {m1, m2}],
             [On(2) EXCEPT !.groups = {g2}]}

LiveKey == {[enabled |-> TRUE, group |-> g1]}
Regrouped == {[enabled |-> TRUE, group |-> g1], [enabled |-> TRUE, group |-> g2]}

Roomy == {[capacity |-> 3, global |-> 3, session |-> 2]}
Tight == {[capacity |-> 3, global |-> 1, session |-> 2]}
Adjustable == {[capacity |-> 3, global |-> 3, session |-> 2],
               [capacity |-> 2, global |-> 2, session |-> 1]}

\* A binding left by an earlier run of the gateway.
Restored == {[account |-> a1, group |-> g1, family |-> m1, generation |-> 1]}
=============================================================================
