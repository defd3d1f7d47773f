--------------------------- MODULE SessionBindings ---------------------------
(***************************************************************************)
(* What the gateway promises about the bindings of a session, whatever     *)
(* requests, failures and restarts do: the generations are numbered        *)
(* without a gap, the requests in flight use one and the same generation,  *)
(* it is one the store has, and a session moves on only after the last of  *)
(* them is gone.  The memory may lag behind the store by one generation,   *)
(* when the acknowledgement of a commit was lost; it then never mints      *)
(* another one on top of the one it does not know.                         *)
(***************************************************************************)
EXTENDS Naturals

CONSTANTS Session, Request

VARIABLES
  durable,   \* session -> generation in the store, 0 when unbound
  current,   \* session -> generation the running process works with
  users      \* session -> requests in flight under the current generation

vars == <<durable, current, users>>

Init ==
  /\ durable \in [Session -> Nat]
  /\ current = durable
  /\ users = [s \in Session |-> {}]

\* A commit reaches the store and its acknowledgement is lost.
Persist(s) ==
  /\ users[s] = {}
  /\ durable[s] = current[s]
  /\ durable' = [durable EXCEPT ![s] = @ + 1]
  /\ UNCHANGED <<current, users>>

\* r learns that its new generation is in the store and is its first user.
Migrate(s, r) ==
  /\ users[s] = {}
  /\ durable[s] \in {current[s], current[s] + 1}
  /\ durable' = [durable EXCEPT ![s] = current[s] + 1]
  /\ current' = [current EXCEPT ![s] = @ + 1]
  /\ users' = [users EXCEPT ![s] = {r}]

Join(s, r) ==
  /\ current[s] > 0
  /\ users' = [users EXCEPT ![s] = @ \cup {r}]
  /\ UNCHANGED <<durable, current>>

Leave(s, r) ==
  /\ users' = [users EXCEPT ![s] = @ \ {r}]
  /\ UNCHANGED <<durable, current>>

\* The process ends, perhaps with commits under way, and starts again.
Restart ==
  /\ durable' \in [Session -> Nat]
  /\ \A s \in Session :
       \/ durable'[s] = durable[s]
       \/ durable'[s] = durable[s] + 1 /\ durable[s] = current[s] /\ users[s] = {}
  /\ current' = durable'
  /\ users' = [s \in Session |-> {}]

Next ==
  \/ \E s \in Session :
       \/ Persist(s)
       \/ \E r \in Request : Migrate(s, r) \/ Join(s, r) \/ Leave(s, r)
  \/ Restart

Spec == Init /\ [][Next]_vars

=============================================================================
