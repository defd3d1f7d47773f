------------------------------ MODULE KeyControl ------------------------------
(***************************************************************************)
(* Gateway keys, their groups and the runtime settings: the handlers of    *)
(* http/admin.rs and http/groups.rs, the tables api_keys, routing_groups   *)
(* and settings, and the copies the scheduler and LiveSettings keep.  The  *)
(* "mutations" lock serialises the handlers.  A handler awaits the store   *)
(* with the lock held; its write may fail, be applied without an answer,   *)
(* or be left behind by a client that went away.  A write is decided when  *)
(* its handler leaves it.                                                  *)
(***************************************************************************)
EXTENDS Integers

CONSTANTS
  Key, Group,
  Default,     \* DEFAULT_GROUP_ID
  Task,        \* administrators
  Request,
  MaxVersion,  \* bound on the version of the settings
  None

VARIABLES
  rows,     \* key -> its row of api_keys, or None
  groups,   \* routing_groups
  stored,   \* the version of the settings row, whose contents it names
  known,    \* key -> the scheduler's record, or None
  blocked,  \* blocked_keys
  tombs,    \* deleted_keys
  live,     \* the version LiveSettings publishes
  paused,
  lock,
  tasks,    \* task -> its operation and where it is, or None
  requests  \* request -> its key, the group it was admitted for, or None

store == <<rows, groups, stored>>
memory == <<known, blocked, tombs, live, paused>>
vars == <<store, memory, lock, tasks, requests>>

Record == [enabled : BOOLEAN, group : Group]
Row == [enabled : BOOLEAN, group : Group, deleted : BOOLEAN]

KeyOp == {"create", "enable", "disable", "update", "delete"}
GroupOp == {"new_group", "drop_group"}
Work == [op : KeyOp \cup GroupOp \cup {"settings"},
         key : Key \cup {None}, group : Group \cup {None},
         base : 0..MaxVersion,  \* the version the administrator's page shows
         at : {"open", "writing", "reloading"}]
Routed == [key : Key, group : Group, sent : BOOLEAN]

KeysAssumption ==
  /\ Default \in Group /\ MaxVersion \in Nat \ {0}
  /\ None \notin Task /\ None \notin Record /\ None \notin Row
  /\ None \notin Work /\ None \notin Routed

TypeOK ==
  /\ rows \in [Key -> Row \cup {None}] /\ groups \subseteq Group
  /\ stored \in 1..MaxVersion /\ live \in 1..MaxVersion
  /\ known \in [Key -> Record \cup {None}]
  /\ blocked \subseteq Key /\ tombs \subseteq Key /\ paused \in BOOLEAN
  /\ lock \in Task \cup {None}
  /\ tasks \in [Task -> Work \cup {None}]
  /\ requests \in [Request -> Routed \cup {None}]

-----------------------------------------------------------------------------
(* The store. *)

Present(k) == rows[k] # None /\ ~rows[k].deleted

\* What key() decodes of a row.
Decoded(k) == [enabled |-> rows[k].enabled, group |-> rows[k].group]

\* validate_groups, in the transaction of the key.
ValidGroup(g) == g \in groups

SetRow(k, row) == rows' = [rows EXCEPT ![k] = row] /\ UNCHANGED <<groups, stored>>

PutKey(w) ==
  /\ rows[w.key] = None /\ ValidGroup(w.group)
  /\ SetRow(w.key, [enabled |-> TRUE, group |-> w.group, deleted |-> FALSE])

SetEnabled(w) ==
  /\ Present(w.key)
  /\ SetRow(w.key, [rows[w.key] EXCEPT !.enabled = w.op = "enable"])

UpdateKey(w) ==
  /\ Present(w.key) /\ ValidGroup(w.group)
  /\ SetRow(w.key, [rows[w.key] EXCEPT !.group = w.group])

\* A deleted row holds no group.
DeleteKey(w) ==
  /\ Present(w.key)
  /\ SetRow(w.key, [enabled |-> FALSE, group |-> Default, deleted |-> TRUE])

CreateGroup(w) == groups' = groups \cup {w.group} /\ UNCHANGED <<rows, stored>>

\* The foreign key of api_keys, which group_error explains.
InUse(g) == \E k \in Key : rows[k] # None /\ rows[k].group = g

DropGroup(w) ==
  /\ w.group \in groups \ {Default} /\ ~InUse(w.group)
  /\ groups' = groups \ {w.group} /\ UNCHANGED <<rows, stored>>

SaveSettings(w) ==
  /\ w.base = stored /\ stored < MaxVersion
  /\ stored' = stored + 1 /\ UNCHANGED <<rows, groups>>

\* The statements of one operation, in one transaction.
Apply(w) ==
  \/ w.op = "create" /\ PutKey(w)
  \/ w.op \in {"enable", "disable"} /\ SetEnabled(w)
  \/ w.op = "update" /\ UpdateKey(w)
  \/ w.op = "delete" /\ DeleteKey(w)
  \/ w.op = "new_group" /\ CreateGroup(w)
  \/ w.op = "drop_group" /\ DropGroup(w)
  \/ w.op = "settings" /\ SaveSettings(w)

-----------------------------------------------------------------------------
(* The scheduler and LiveSettings. *)

\* update_key
Publish(k, record) ==
  /\ known' = IF k \in tombs THEN known ELSE [known EXCEPT ![k] = record]
  /\ blocked' = IF k \in tombs THEN blocked ELSE blocked \ {k}
  /\ UNCHANGED <<tombs, live, paused>>

\* remove_key
Remove(k) ==
  /\ known' = [known EXCEPT ![k] = None]
  /\ tombs' = tombs \cup {k}
  /\ UNCHANGED <<blocked, live, paused>>

PublishSettings(version) == live' = version /\ UNCHANGED <<known, blocked, tombs, paused>>

\* MUTANT: after a failure every block is lifted.
UnblockAll ==
  /\ known' = [k \in Key |-> IF Present(k) /\ k \notin tombs THEN Decoded(k) ELSE known[k]]
  /\ blocked' = {}
  /\ UNCHANGED <<tombs, live, paused>>

\* reconcile_keys: every row that is left, in update_key.
ReconcileKeys ==
  LET current == {k \in Key \ tombs : Present(k)}
  IN /\ known' = [k \in Key |-> IF k \in current THEN Decoded(k) ELSE known[k]]
     /\ blocked' = blocked \ current
     /\ UNCHANGED <<tombs, live, paused>>

\* State::check_key
CheckKey(k, g) ==
  /\ ~paused
  /\ k \notin blocked
  /\ known[k] # None /\ known[k].enabled /\ known[k].group = g

-----------------------------------------------------------------------------
(* The handlers. *)

At(t, where) == tasks[t] # None /\ tasks[t].at = where

Move(t, where) == tasks' = [tasks EXCEPT ![t].at = where] /\ UNCHANGED lock

\* The answer goes out, or the handler is dropped, and the lock with it.
End(t) ==
  /\ tasks' = [tasks EXCEPT ![t] = None]
  /\ lock' = IF lock = t THEN None ELSE lock

Job(op, k, g, base, where) ==
  [op |-> op, key |-> k, group |-> g, base |-> base, at |-> where]

\* An administrator looks at the settings and sends them back with that version.
Open(t) ==
  /\ tasks[t] = None
  /\ tasks' = [tasks EXCEPT ![t] = Job("settings", None, None, live, "open")]
  /\ UNCHANGED <<store, memory, lock, requests>>

\* The operations that block their key before they write.
Blocking == {"enable", "disable", "update", "delete"}

\* What a handler takes on, once validate_selection has found its group.
Jobs ==
  {Job(op, k, None, 0, "writing") : op \in {"enable", "disable", "delete"}, k \in Key}
  \cup {Job(op, k, g, 0, "writing") : op \in {"create", "update"}, k \in Key, g \in groups}
  \cup {Job(op, None, g, 0, "writing") : op \in GroupOp, g \in Group}

\* Takes the lock and blocks the key, up to the await of the write.
Acquire(t) ==
  /\ lock = None /\ lock' = t
  /\ \/ tasks[t] = None /\ \E w \in Jobs : tasks' = [tasks EXCEPT ![t] = w]
     \/ At(t, "open") /\ tasks' = [tasks EXCEPT ![t].at = "writing"]
  /\ blocked' = IF tasks'[t].op \in Blocking THEN blocked \cup {tasks'[t].key} ELSE blocked
  /\ UNCHANGED <<store, known, tombs, live, paused, requests>>

\* What a handler does with the answer of the store.
Published(w) ==
  \/ /\ w.op \in {"create", "enable", "disable", "update"}
     /\ Publish(w.key, [enabled |-> rows'[w.key].enabled, group |-> rows'[w.key].group])
  \/ w.op = "delete" /\ Remove(w.key)
  \/ w.op = "settings" /\ PublishSettings(stored')
  \/ w.op \in GroupOp /\ UNCHANGED memory

Written(t) ==
  /\ At(t, "writing")
  /\ Apply(tasks[t]) /\ Published(tasks[t])
  /\ End(t)
  /\ UNCHANGED requests

\* An operation that changed what is also in memory reads it again when its
\* write fails.
Reconciles(w) == w.op \in Blocking \cup {"settings"}

\* The write was refused or failed, or was applied and its answer lost.
Failed(t) ==
  /\ At(t, "writing")
  /\ Apply(tasks[t]) \/ UNCHANGED store
  /\ IF Reconciles(tasks[t]) THEN Move(t, "reloading") ELSE End(t)
  /\ UNCHANGED <<memory, requests>>

Reload(t) ==
  /\ At(t, "reloading")
  /\ \/ tasks[t].op # "settings" /\ ReconcileKeys
     \/ tasks[t].op = "settings" /\ PublishSettings(stored)
     \/ paused' = TRUE /\ UNCHANGED <<known, blocked, tombs, live>>
  /\ End(t)
  /\ UNCHANGED <<store, requests>>

\* The administrator's connection closes while the handler awaits.
Depart(t) ==
  /\ tasks[t] # None
  /\ IF At(t, "writing") THEN Apply(tasks[t]) \/ UNCHANGED store ELSE UNCHANGED store
  /\ End(t)
  /\ UNCHANGED <<memory, requests>>

-----------------------------------------------------------------------------
(* Requests. *)

\* gateway_key: key_by_hash finds an enabled row, whose group the request keeps.
Arrive(r) ==
  /\ requests[r] = None
  /\ \E k \in Key :
       /\ Present(k) /\ rows[k].enabled
       /\ requests' = [requests EXCEPT ![r] =
            [key |-> k, group |-> rows[k].group, sent |-> FALSE]]
  /\ UNCHANGED <<store, memory, lock, tasks>>

\* begin_send
Send(r) ==
  /\ requests[r] # None /\ ~requests[r].sent
  /\ CheckKey(requests[r].key, requests[r].group)
  /\ requests' = [requests EXCEPT ![r].sent = TRUE]
  /\ UNCHANGED <<store, memory, lock, tasks>>

Answer(r) ==
  /\ requests[r] # None
  /\ requests[r].sent \/ ~CheckKey(requests[r].key, requests[r].group)
  /\ requests' = [requests EXCEPT ![r] = None]
  /\ UNCHANGED <<store, memory, lock, tasks>>

-----------------------------------------------------------------------------

\* bootstrap: the scheduler is built from keys() and settings(), and finds what
\* became of a write under way.
Restart ==
  /\ \/ UNCHANGED store
     \/ \E t \in Task : At(t, "writing") /\ Apply(tasks[t])
  /\ known' = [k \in Key |-> IF Present(k)' THEN Decoded(k)' ELSE None]
  /\ live' = stored'
  /\ blocked' = {} /\ tombs' = {} /\ paused' = FALSE /\ lock' = None
  /\ tasks' = [t \in Task |-> None] /\ requests' = [r \in Request |-> None]

Init ==
  /\ rows = [k \in Key |-> None] /\ groups = {Default} /\ stored = 1
  /\ known = [k \in Key |-> None] /\ blocked = {} /\ tombs = {} /\ live = 1
  /\ paused = FALSE /\ lock = None
  /\ tasks = [t \in Task |-> None] /\ requests = [r \in Request |-> None]

Next ==
  \/ \E t \in Task :
       Open(t) \/ Acquire(t) \/ Written(t) \/ Failed(t) \/ Reload(t) \/ Depart(t)
  \/ \E r \in Request : Arrive(r) \/ Send(r) \/ Answer(r)
  \/ Restart

Spec == Init /\ [][Next]_vars

-----------------------------------------------------------------------------
(* Properties of every step. *)

\* admin.rs, check_key: whatever became of the answers of earlier writes, a
\* request goes upstream only while the stored row of its key is enabled, not
\* deleted, and in the existing group the request was routed in.
SendsByStoredKey ==
  \A r \in Request :
    requests[r] # None /\ requests'[r] # None /\ ~requests[r].sent /\ requests'[r].sent =>
      LET k == requests[r].key
      IN /\ Present(k) /\ Decoded(k) = [enabled |-> TRUE, group |-> requests[r].group]
         /\ requests[r].group \in groups

\* The scheduler works on the row of the store, or on nothing where there is none.
Agrees(k) ==
  IF Present(k) THEN known[k] = Decoded(k) /\ k \notin blocked
  ELSE known[k] = None \/ k \in blocked

\* admin.rs, reconcile_keys and save_settings: an administrator who got an
\* answer, also one of failure, finds the running gateway on what is stored, or
\* paused; no key is left blocked and no older settings are left in force.
AnswersSettled ==
  \A t \in Task :
    Written(t) \/ Reload(t) =>
      \/ paused'
      \/ tasks[t].op \in Blocking /\ \E k \in Key : k = tasks[t].key /\ Agrees(k)'
      \/ tasks[t].op = "settings" /\ live' = stored'
      \/ ~Reconciles(tasks[t])

=============================================================================
