------------------------------ MODULE IdentityMap ------------------------------
(***************************************************************************)
(* The names under which an upstream knows the identities of one client    *)
(* session: core/identity.rs, the references of provider/references.rs and *)
(* the table identity_mappings of postgres/bindings.rs, for requests of    *)
(* several threads that run at once, over generations of the binding.      *)
(***************************************************************************)
EXTENDS Integers, FiniteSets

CONSTANTS
  Task,
  Names,    \* Names[t]: the clients' identities in the request, session and thread
  Refs,     \* Refs[t]: the object identifiers in its input
  Legacy,   \* rows <<generation, kind, client, upstream>> of older gateways
  First,    \* the generation the session has reached with them
  MaxGeneration,
  None

VARIABLES
  rows,        \* identity_mappings of the session's bindings
  generation,  \* of the session's current binding
  tasks,
  sent         \* what the upstream was sent: [task, binding, names, refs]

vars == <<rows, generation, tasks, sent>>

\* Names of the upstream: the form they have, and what they stand for. UUID v5 in the
\* namespace of a binding, and what a client named itself.
Derived(b, kind, client) == <<"v5", b, kind, client>>
Same(ref) == <<"same", 0, "item", ref>>

Key(row) == <<row[1], row[2], row[3]>>

MapAssumption ==
  /\ \A t \in Task : IsFiniteSet(Names[t]) /\ IsFiniteSet(Refs[t])
  /\ \A r, q \in Legacy : Key(r) = Key(q) => r = q
  /\ \A r \in Legacy : r[1] \in 1..First /\ r[2] \in {"thread", "item"} /\ r = <<r[1], r[2], r[3], r[4]>>
  /\ First <= MaxGeneration
  \* a UUID that an older gateway gave to a thread is that of no other thread
  /\ \A r, q \in Legacy : r[2] = "thread" /\ q[2] = "thread" /\ r[4] = q[4] => r = q
  /\ \A r \in Legacy, b \in 1..MaxGeneration : \A c \in UNION {Names[t] : t \in Task} :
       r[2] = "thread" /\ r[4] = Derived(b, "thread", c) => b = r[1] /\ c = r[3]

TypeOK ==
  /\ \A r \in rows : r[1] \in 1..MaxGeneration /\ r[2] \in {"thread", "item"}
  /\ generation \in First..MaxGeneration
  /\ \A t \in Task :
       /\ tasks[t].at \in {"queued", "leased", "loaded", "saving", "ready", "sent", "failed", "conflict", "gone"}
       /\ tasks[t].binding \in 0..MaxGeneration
  /\ \A s \in sent : s.task \in Task /\ s.binding \in 1..MaxGeneration

-----------------------------------------------------------------------------
(* IdentityMap, a value of the task. *)

Of(b) == {r \in rows : r[1] = b}

\* Old outbound mappings transformed what the client had named itself.
Generated(r) == r[4] = Derived(r[1], r[2], r[3])
Aliases(rs) == {r \in rs : r[2] = "item" /\ ~Generated(r)}

\* MUTANT: the aliases of the own binding only.
OwnOnly(t) == Aliases({r \in tasks[t].known : r[1] = tasks[t].binding})

\* import_legacy_aliases: those of the own binding, then of all others of the session.
Imported(t) == Aliases(tasks[t].known)

\* The first alias that was imported counts.
Original(t, ref) ==
  LET found == {r \in Imported(t) : r[3] = ref}
      own == {r \in found : r[1] = tasks[t].binding}
      Oldest(rs) == CHOOSE r \in rs : \A q \in rs : r[1] <= q[1]
  IN IF own # {} THEN Oldest(own)[4] ELSE IF found # {} THEN Oldest(found)[4] ELSE Same(ref)

\* outbound: what is stored, else the derived name.
Outbound(t, client) ==
  LET stored == {r \in tasks[t].known : Key(r) = <<tasks[t].binding, "thread", client>>} IN
  IF stored # {} THEN (CHOOSE r \in stored : TRUE)[4]
  ELSE Derived(tasks[t].binding, "thread", client)

Pending(t) ==
  {<<tasks[t].binding, "thread", c, Outbound(t, c)>> : c \in Names[t]} \ tasks[t].known

-----------------------------------------------------------------------------

Move(t, stage) == tasks' = [tasks EXCEPT ![t].at = stage]

Lease(t) ==
  /\ tasks[t].at = "queued"
  /\ tasks' = [tasks EXCEPT ![t] = [at |-> "leased", binding |-> generation, known |-> {}]]
  /\ UNCHANGED <<rows, generation, sent>>

\* mappings of the binding.
Load(t) ==
  /\ tasks[t].at = "leased"
  /\ tasks' = [tasks EXCEPT ![t].at = "loaded", ![t].known = Of(tasks[t].binding)]
  /\ UNCHANGED <<rows, generation, sent>>

\* From the second generation on, those of the others; then prepare.
LoadOthers(t) ==
  /\ tasks[t].at = "loaded"
  /\ tasks' = [tasks EXCEPT ![t].at = "saving",
                            ![t].known = IF tasks[t].binding > 1
                                         THEN @ \cup UNION {Of(b) : b \in (1..generation) \ {tasks[t].binding}}
                                         ELSE @]
  /\ UNCHANGED <<rows, generation, sent>>

\* One transaction; a row with another name for the identity is a conflict.
Conflicts(t) == \E p \in Pending(t), r \in rows : Key(p) = Key(r) /\ p # r

Save(t) ==
  /\ tasks[t].at = "saving"
  /\ IF Conflicts(t) THEN Move(t, "conflict") /\ UNCHANGED rows
     ELSE \/ rows' = rows \cup Pending(t) /\ Move(t, "ready")
          \/ (rows' = rows \cup Pending(t) \/ UNCHANGED rows) /\ Move(t, "failed")
  /\ UNCHANGED <<generation, sent>>

\* The lease was lost before the send permit: the request is queued again.
Requeue(t) ==
  /\ tasks[t].at = "ready"
  /\ Move(t, "queued")
  /\ UNCHANGED <<rows, generation, sent>>

Send(t) ==
  /\ tasks[t].at = "ready"
  /\ sent' = sent \cup {[task |-> t, binding |-> tasks[t].binding,
                         names |-> [c \in Names[t] |-> Outbound(t, c)],
                         refs |-> [x \in Refs[t] |-> Original(t, x)]]}
  /\ Move(t, "sent")
  /\ UNCHANGED <<rows, generation>>

\* The next request of the thread, with the same identities.
Again(t) ==
  /\ tasks[t].at \in {"sent", "failed"}
  /\ Move(t, "queued")
  /\ UNCHANGED <<rows, generation, sent>>

\* The session moves to another account, or returns to one it had.
Migrate ==
  /\ generation < MaxGeneration
  /\ generation' = generation + 1
  /\ UNCHANGED <<rows, tasks, sent>>

Restart ==
  /\ tasks' = [t \in Task |-> [at |-> "queued", binding |-> 0, known |-> {}]]
  /\ UNCHANGED <<rows, generation, sent>>

Init ==
  /\ rows = Legacy
  /\ generation = First
  /\ tasks = [t \in Task |-> [at |-> "queued", binding |-> 0, known |-> {}]]
  /\ sent = {}

Next ==
  \/ \E t \in Task : Lease(t) \/ Load(t) \/ LoadOthers(t) \/ Save(t) \/ Requeue(t) \/ Send(t) \/ Again(t)
  \/ Migrate \/ Restart

Spec == Init /\ [][Next]_vars

-----------------------------------------------------------------------------
(* Properties. *)

\* In one generation an identity has one name, whichever requests introduce it at once
\* and whenever the gateway restarts; no two identities and no two generations share a
\* name. Requests never fail over each other's names, and what was sent is stored.
IdentitiesStable ==
  /\ \A s, r \in sent : \A c \in DOMAIN s.names, d \in DOMAIN r.names :
       s.names[c] = r.names[d] <=> c = d /\ s.binding = r.binding
  /\ \A t \in Task : tasks[t].at # "conflict"
  /\ \A s \in sent : \A c \in DOMAIN s.names : <<s.binding, "thread", c, s.names[c]>> \in rows

\* An object keeps the identifier its upstream gave it, in whichever generation and by
\* whichever gateway it was handed to the client; the client's own are left alone.
OriginalsRestored ==
  \A s \in sent : \A x \in DOMAIN s.refs :
    LET issued == {r \in Legacy : r[2] = "item" /\ r[3] = x /\ ~Generated(r)} IN
    IF issued = {} THEN s.refs[x] = Same(x) ELSE \E r \in issued : s.refs[x] = r[4]

=============================================================================
