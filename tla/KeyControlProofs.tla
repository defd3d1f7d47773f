---------------------------- MODULE KeyControlProofs ----------------------------
(***************************************************************************)
(* Proofs about KeyControl for any keys, groups, administrators and        *)
(* requests.                                                               *)
(***************************************************************************)
EXTENDS KeyControl, TLAPS

\* Whoever is past Acquire holds the lock.
LockHeld == \A t \in Task : lock = t <=> tasks[t] # None /\ tasks[t].at # "open"

\* What a handler works on.
WellFormed(w) ==
  /\ w.op \in KeyOp => w.key \in Key
  /\ w.op \in {"create", "update"} \cup GroupOp => w.group \in Group
  /\ w.at = "open" => w.op = "settings"
  /\ w.at = "reloading" => Reconciles(w)
JobsWellFormed == \A t \in Task : tasks[t] # None => WellFormed(tasks[t])

\* A key is blocked from before its row is written until the handler ends.
BlockedFirst == \A t \in Task : tasks[t] # None /\ tasks[t].op \in Blocking => tasks[t].key \in blocked

\* What the scheduler works on is what is stored.  A key whose creation was not
\* answered is stored and unknown.
FollowsStore ==
  \A k \in Key : k \notin blocked /\ known[k] # None => Present(k) /\ known[k] = Decoded(k)

Deleted(k) == rows[k] # None /\ rows[k].deleted
TombsAreDeleted == \A k \in tombs : Deleted(k)

GroupsKept == Default \in groups /\ \A k \in Key : rows[k] # None => rows[k].group \in groups

KeyInv ==
  /\ TypeOK /\ LockHeld /\ JobsWellFormed /\ BlockedFirst
  /\ FollowsStore /\ TombsAreDeleted /\ GroupsKept

-----------------------------------------------------------------------------
(* The store. *)

\* A new row of the key w is about.
LEMMA RowIsSet ==
  ASSUME TypeOK, GroupsKept, NEW k \in Key, NEW row \in Row, row.group \in groups, SetRow(k, row)
  PROVE  /\ rows' \in [Key -> Row \cup {None}] /\ groups' = groups /\ stored' = stored
         /\ rows'[k] = row /\ \A j \in Key \ {k} : rows'[j] = rows[j]
         /\ KeysAssumption => GroupsKept'
BY DEF TypeOK, GroupsKept, SetRow

\* The statements of an operation keep the tables well formed, write one key and
\* never a deleted one.
LEMMA ApplyEffect ==
  ASSUME KeysAssumption, TypeOK, GroupsKept, NEW w \in Work, WellFormed(w), Apply(w)
  PROVE  /\ rows' \in [Key -> Row \cup {None}] /\ groups' \subseteq Group /\ stored' \in 1..MaxVersion
         /\ GroupsKept'
         /\ \A k \in Key : rows'[k] # rows[k] => w.op \in KeyOp /\ k = w.key /\ ~Deleted(k)
         /\ w.op = "create" => rows[w.key] = None
         /\ w.op \in KeyOp \ {"delete"} => Present(w.key)'
         /\ w.op = "delete" => Deleted(w.key)'
<1>1. CASE w.op \in KeyOp
  <2>1. w.key \in Key
    BY <1>1 DEF WellFormed
  <2>2. PICK row \in Row :
          /\ SetRow(w.key, row) /\ row.group \in groups
          /\ w.op = "create" => rows[w.key] = None
          /\ w.op # "create" => Present(w.key)
          /\ row.deleted <=> w.op = "delete"
    <3>1. CASE w.op = "create"
      <4> DEFINE row == [enabled |-> TRUE, group |-> w.group, deleted |-> FALSE]
      <4>1. w.group \in Group /\ w.group \in groups /\ rows[w.key] = None /\ SetRow(w.key, row)
        BY <3>1 DEF Apply, PutKey, ValidGroup, WellFormed
      <4>2. row \in Row /\ row.group = w.group /\ row.deleted = FALSE
        BY <4>1 DEF Row
      <4> QED
        BY <3>1, <4>1, <4>2
    <3>2. CASE w.op \in {"enable", "disable"}
      <4> DEFINE row == [rows[w.key] EXCEPT !.enabled = w.op = "enable"]
      <4>1. Present(w.key) /\ SetRow(w.key, row)
        BY <3>2 DEF Apply, SetEnabled
      <4>2. rows[w.key] \in Row /\ ~rows[w.key].deleted /\ rows[w.key].group \in groups
        BY <2>1, <4>1 DEF Present, TypeOK, GroupsKept
      <4>3. (w.op = "enable") \in BOOLEAN
        OBVIOUS
      <4>4. row \in Row /\ row.group = rows[w.key].group /\ row.deleted = rows[w.key].deleted
        BY <4>2, <4>3 DEF Row
      <4> QED
        BY <3>2, <4>1, <4>2, <4>4
    <3>3. CASE w.op = "update"
      <4> DEFINE row == [rows[w.key] EXCEPT !.group = w.group]
      <4>1. Present(w.key) /\ SetRow(w.key, row) /\ w.group \in groups /\ w.group \in Group
        BY <3>3 DEF Apply, UpdateKey, ValidGroup, WellFormed
      <4>2. rows[w.key] \in Row /\ ~rows[w.key].deleted
        BY <2>1, <4>1 DEF Present, TypeOK
      <4>3. row \in Row /\ row.group = w.group /\ row.deleted = rows[w.key].deleted
        BY <4>1, <4>2 DEF Row
      <4> QED
        BY <3>3, <4>1, <4>2, <4>3
    <3>4. CASE w.op = "delete"
      <4> DEFINE row == [enabled |-> FALSE, group |-> Default, deleted |-> TRUE]
      <4>1. Present(w.key) /\ SetRow(w.key, row)
        BY <3>4 DEF Apply, DeleteKey
      <4>2. row \in Row /\ row.group \in groups /\ row.deleted = TRUE
        BY DEF Row, GroupsKept, TypeOK
      <4> QED
        BY <3>4, <4>1, <4>2
    <3> QED
      BY <1>1, <3>1, <3>2, <3>3, <3>4 DEF KeyOp
  <2>3. /\ rows' \in [Key -> Row \cup {None}] /\ groups' = groups /\ stored' = stored
        /\ rows'[w.key] = row /\ \A j \in Key \ {w.key} : rows'[j] = rows[j]
        /\ GroupsKept'
    BY <2>1, <2>2, RowIsSet
  <2>4. row # None
    BY DEF KeysAssumption
  <2>5. ~Deleted(w.key)
    BY <1>1, <2>2 DEF Deleted, Present
  <2>6. groups' \subseteq Group /\ stored' \in 1..MaxVersion
    BY <2>3 DEF TypeOK
  <2>7. Deleted(w.key)' <=> row.deleted
    BY <2>3, <2>4 DEF Deleted
  <2>8. Present(w.key)' <=> ~row.deleted
    BY <2>3, <2>4 DEF Present
  <2> QED
    BY <1>1, <2>2, <2>3, <2>5, <2>6, <2>7, <2>8
<1>2. CASE w.op \in GroupOp
  <2>1. rows' = rows /\ stored' = stored /\ w.group \in Group
    BY <1>2 DEF Apply, CreateGroup, DropGroup, GroupOp, WellFormed
  <2>2. CASE w.op = "new_group"
    <3>1. groups' = groups \cup {w.group}
      BY <2>2 DEF Apply, CreateGroup
    <3> QED
      BY <1>2, <2>1, <3>1 DEF TypeOK, GroupsKept, GroupOp, KeyOp
  <2>3. CASE w.op = "drop_group"
    <3>1. groups' = groups \ {w.group} /\ w.group # Default /\ ~InUse(w.group)
      BY <2>3 DEF Apply, DropGroup
    <3> QED
      BY <1>2, <2>1, <3>1 DEF TypeOK, GroupsKept, GroupOp, KeyOp, InUse
  <2> QED
    BY <1>2, <2>2, <2>3 DEF GroupOp
<1>3. CASE w.op = "settings"
  <2>1. rows' = rows /\ groups' = groups /\ stored' = stored + 1 /\ stored < MaxVersion
    BY <1>3 DEF Apply, SaveSettings
  <2> QED
    BY <1>3, <2>1 DEF TypeOK, GroupsKept, KeyOp, KeysAssumption
<1> QED
  BY <1>1, <1>2, <1>3 DEF Work

\* A write whose answer nobody gets leaves the scheduler on what is stored: the key
\* is blocked, or it is new and unknown.
LEMMA Unanswered ==
  ASSUME KeysAssumption, KeyInv, NEW t \in Task, At(t, "writing"),
         Apply(tasks[t]) \/ UNCHANGED store, UNCHANGED <<known, blocked, tombs>>
  PROVE  /\ rows' \in [Key -> Row \cup {None}] /\ groups' \subseteq Group /\ stored' \in 1..MaxVersion
         /\ GroupsKept' /\ FollowsStore' /\ TombsAreDeleted'
<1>0. TypeOK /\ GroupsKept /\ FollowsStore /\ TombsAreDeleted /\ BlockedFirst
  BY DEF KeyInv
<1>1. tasks[t] \in Work /\ tasks[t] # None /\ WellFormed(tasks[t])
  BY DEF KeyInv, TypeOK, At, JobsWellFormed
<1>2. CASE Apply(tasks[t])
  <2>1. /\ rows' \in [Key -> Row \cup {None}] /\ groups' \subseteq Group /\ stored' \in 1..MaxVersion
        /\ GroupsKept'
        /\ \A k \in Key : rows'[k] # rows[k] =>
             tasks[t].op \in KeyOp /\ k = tasks[t].key /\ ~Deleted(k)
        /\ tasks[t].op = "create" => rows[tasks[t].key] = None
    BY <1>0, <1>1, <1>2, ApplyEffect
  <2>2. \A k \in Key : k \notin blocked /\ Present(k) => rows'[k] = rows[k]
    BY <1>0, <1>1, <2>1 DEF BlockedFirst, KeyOp, Blocking, Present
  <2>3. FollowsStore'
    <3> SUFFICES ASSUME NEW k \in Key, k \notin blocked, known[k] # None
                 PROVE  Present(k)' /\ known[k] = Decoded(k)'
      BY DEF FollowsStore
    <3>1. Present(k) /\ known[k] = Decoded(k)
      BY <1>0 DEF FollowsStore
    <3>2. rows'[k] = rows[k]
      BY <2>2, <3>1
    <3> QED
      BY <3>1, <3>2 DEF Present, Decoded
  <2>4. TombsAreDeleted'
    <3> SUFFICES ASSUME NEW k \in tombs
                 PROVE  Deleted(k)'
      BY DEF TombsAreDeleted
    <3>1. Deleted(k) /\ k \in Key
      BY <1>0 DEF TombsAreDeleted, TypeOK
    <3>2. rows'[k] = rows[k]
      BY <2>1, <3>1
    <3> QED
      BY <3>1, <3>2 DEF Deleted
  <2> QED
    BY <2>1, <2>3, <2>4
<1>3. CASE UNCHANGED store
  <2>1. rows' = rows /\ groups' = groups /\ stored' = stored
    BY <1>3 DEF store
  <2>2. GroupsKept' /\ FollowsStore' /\ TombsAreDeleted'
    BY <1>0, <2>1 DEF GroupsKept, FollowsStore, TombsAreDeleted, Present, Decoded, Deleted
  <2> QED
    BY <1>0, <2>1, <2>2 DEF TypeOK
<1> QED
  BY <1>2, <1>3

-----------------------------------------------------------------------------
(* The handlers and the lock. *)

\* A handler goes on with w.
LEMMA HandlerGoesOn ==
  ASSUME KeyInv, NEW t \in Task, NEW w \in Work, KeysAssumption, WellFormed(w),
         tasks' = [tasks EXCEPT ![t] = w], lock' \in Task \cup {None},
         lock' = t <=> w.at # "open", \A u \in Task \ {t} : lock' = u <=> lock = u
  PROVE  /\ tasks' \in [Task -> Work \cup {None}] /\ LockHeld' /\ JobsWellFormed'
         /\ tasks'[t] = w /\ \A u \in Task \ {t} : tasks'[u] = tasks[u]
<1>1. /\ tasks' \in [Task -> Work \cup {None}]
      /\ tasks'[t] = w /\ \A u \in Task \ {t} : tasks'[u] = tasks[u]
  BY DEF KeyInv, TypeOK
<1>2. w # None
  BY DEF KeysAssumption
<1>3. LockHeld'
  BY <1>1, <1>2 DEF KeyInv, LockHeld
<1>4. JobsWellFormed'
  <2> SUFFICES ASSUME NEW u \in Task, tasks'[u] # None
               PROVE  WellFormed(tasks'[u])
    BY DEF JobsWellFormed, WellFormed, Reconciles
  <2> QED
    BY <1>1 DEF KeyInv, JobsWellFormed
<1> QED
  BY <1>1, <1>3, <1>4

\* A handler ends.
LEMMA HandlerEnds ==
  ASSUME KeysAssumption, KeyInv, NEW t \in Task, End(t), lock = t \/ blocked \subseteq blocked'
  PROVE  /\ tasks' \in [Task -> Work \cup {None}] /\ lock' \in Task \cup {None}
         /\ LockHeld' /\ JobsWellFormed' /\ BlockedFirst'
<1>0. TypeOK /\ LockHeld /\ JobsWellFormed /\ BlockedFirst /\ None \notin Task
  BY DEF KeyInv, KeysAssumption
<1>1. /\ tasks' \in [Task -> Work \cup {None}]
      /\ tasks'[t] = None /\ \A u \in Task \ {t} : tasks'[u] = tasks[u]
  BY <1>0 DEF TypeOK, End
<1>2. lock' \in Task \cup {None} /\ lock' # t /\ \A u \in Task \ {t} : lock' = u <=> lock = u
  BY <1>0 DEF TypeOK, End
<1>3. LockHeld'
  BY <1>0, <1>1, <1>2 DEF LockHeld
<1>4. JobsWellFormed'
  <2> SUFFICES ASSUME NEW u \in Task, tasks'[u] # None
               PROVE  WellFormed(tasks'[u])
    BY DEF JobsWellFormed, WellFormed, Reconciles
  <2> QED
    BY <1>0, <1>1 DEF JobsWellFormed
<1>5. BlockedFirst'
  <2> SUFFICES ASSUME NEW u \in Task, tasks'[u] # None, tasks'[u].op \in Blocking
               PROVE  tasks'[u].key \in blocked'
    BY DEF BlockedFirst
  <2>1. u # t /\ tasks'[u] = tasks[u]
    BY <1>1
  <2>2. tasks[u].key \in blocked /\ tasks[u].at # "open"
    BY <1>0, <2>1 DEF BlockedFirst, JobsWellFormed, WellFormed, Blocking
  <2>3. lock = u
    BY <1>0, <2>1, <2>2 DEF LockHeld
  <2> QED
    BY <2>1, <2>2, <2>3
<1> QED
  BY <1>1, <1>2, <1>3, <1>4, <1>5

\* The fields of a job.
LEMMA JobIsWork ==
  ASSUME NEW op \in KeyOp \cup GroupOp \cup {"settings"}, NEW k \in Key \cup {None},
         NEW g \in Group \cup {None}, NEW base \in 0..MaxVersion,
         NEW at \in {"open", "writing", "reloading"}
  PROVE  /\ Job(op, k, g, base, at) \in Work
         /\ Job(op, k, g, base, at).op = op /\ Job(op, k, g, base, at).key = k
         /\ Job(op, k, g, base, at).group = g /\ Job(op, k, g, base, at).at = at
BY DEF Job, Work

LEMMA OpenKeeps ==
  ASSUME KeysAssumption, KeyInv, NEW t \in Task, Open(t)
  PROVE  KeyInv'
<1> DEFINE w == Job("settings", None, None, live, "open")
<1>0. TypeOK /\ LockHeld
  BY DEF KeyInv
<1>1. w \in Work /\ WellFormed(w) /\ w.at = "open" /\ w.op = "settings"
  <2>1. live \in 0..MaxVersion
    BY <1>0 DEF TypeOK, KeysAssumption
  <2> QED
    BY <2>1 DEF Job, Work, WellFormed, KeyOp, GroupOp
<1>2. tasks' = [tasks EXCEPT ![t] = w] /\ UNCHANGED <<store, memory, lock, requests>> /\ lock # t
  BY <1>0 DEF Open, LockHeld
<1> HIDE DEF w
<1>3. /\ tasks' \in [Task -> Work \cup {None}] /\ LockHeld' /\ JobsWellFormed'
      /\ tasks'[t] = w /\ \A u \in Task \ {t} : tasks'[u] = tasks[u]
  <2>1. lock' = lock /\ lock' \in Task \cup {None}
    BY <1>0, <1>2 DEF TypeOK
  <2> QED
    BY <1>1, <1>2, <2>1, HandlerGoesOn
<1>4. BlockedFirst'
  <2>1. blocked' = blocked /\ "settings" \notin Blocking
    BY <1>2 DEF memory, Blocking
  <2> QED
    BY <1>1, <1>3, <2>1 DEF KeyInv, BlockedFirst
<1>5. FollowsStore' /\ TombsAreDeleted' /\ GroupsKept'
  BY <1>2 DEF KeyInv, FollowsStore, TombsAreDeleted, GroupsKept, Present, Decoded, Deleted, store, memory
<1>6. TypeOK'
  BY <1>0, <1>2, <1>3 DEF TypeOK, store, memory
<1> QED
  BY <1>3, <1>4, <1>5, <1>6 DEF KeyInv

LEMMA AcquireKeeps ==
  ASSUME KeysAssumption, KeyInv, NEW t \in Task, Acquire(t)
  PROVE  KeyInv'
<1>0. TypeOK /\ LockHeld /\ JobsWellFormed /\ BlockedFirst
  BY DEF KeyInv
<1>1. \E w \in Work : tasks' = [tasks EXCEPT ![t] = w] /\ WellFormed(w) /\ w.at = "writing"
  <2>1. CASE tasks[t] = None /\ \E w \in Jobs : tasks' = [tasks EXCEPT ![t] = w]
    <3>1. PICK w \in Jobs : tasks' = [tasks EXCEPT ![t] = w]
      BY <2>1
    <3>2. groups \subseteq Group /\ 0 \in 0..MaxVersion
      BY <1>0 DEF TypeOK, KeysAssumption
    <3>3. CASE w \in {Job(op, k, None, 0, "writing") : op \in {"enable", "disable", "delete"}, k \in Key}
      <4>1. PICK op \in {"enable", "disable", "delete"}, k \in Key : w = Job(op, k, None, 0, "writing")
        BY <3>3
      <4> QED
        <5>1. w \in Work /\ w.op = op /\ w.at = "writing" /\ w.key = k
          BY <3>2, <4>1, JobIsWork DEF KeyOp, GroupOp
        <5>2. WellFormed(w)
          BY <3>2, <5>1 DEF WellFormed, KeyOp, GroupOp
        <5> QED
          BY <3>1, <5>1, <5>2
    <3>4. CASE w \in {Job(op, k, g, 0, "writing") : op \in {"create", "update"}, k \in Key, g \in groups}
      <4>1. PICK op \in {"create", "update"}, k \in Key, g \in groups : w = Job(op, k, g, 0, "writing")
        BY <3>4
      <4> QED
        <5>1. w \in Work /\ w.op = op /\ w.at = "writing" /\ w.key = k /\ w.group = g
          BY <3>2, <4>1, JobIsWork DEF KeyOp, GroupOp
        <5>2. WellFormed(w)
          BY <3>2, <5>1 DEF WellFormed, KeyOp, GroupOp
        <5> QED
          BY <3>1, <5>1, <5>2
    <3>5. CASE w \in {Job(op, None, g, 0, "writing") : op \in GroupOp, g \in Group}
      <4>1. PICK op \in GroupOp, g \in Group : w = Job(op, None, g, 0, "writing")
        BY <3>5
      <4> QED
        <5>1. w \in Work /\ w.op = op /\ w.at = "writing" /\ w.group = g
          BY <3>2, <4>1, JobIsWork DEF KeyOp, GroupOp
        <5>2. WellFormed(w)
          BY <3>2, <5>1 DEF WellFormed, KeyOp, GroupOp
        <5> QED
          BY <3>1, <5>1, <5>2
    <3> QED
      BY <3>3, <3>4, <3>5 DEF Jobs
  <2>2. CASE At(t, "open") /\ tasks' = [tasks EXCEPT ![t].at = "writing"]
    <3> DEFINE w == [tasks[t] EXCEPT !.at = "writing"]
    <3>1. tasks[t] \in Work /\ WellFormed(tasks[t]) /\ tasks[t].at = "open"
      BY <1>0, <2>2 DEF At, TypeOK, JobsWellFormed
    <3>2. w \in Work /\ w.at = "writing" /\ w.op = "settings"
      BY <3>1 DEF Work, WellFormed
    <3>3. tasks' = [tasks EXCEPT ![t] = w]
      BY <2>2
    <3> HIDE DEF w
    <3>4. WellFormed(w)
      BY <3>2 DEF WellFormed, KeyOp, GroupOp
    <3> QED
      BY <3>2, <3>3, <3>4
  <2> QED
    BY <2>1, <2>2 DEF Acquire
<1>2. PICK w \in Work : tasks' = [tasks EXCEPT ![t] = w] /\ WellFormed(w) /\ w.at = "writing"
  BY <1>1
<1>3. lock = None /\ lock' = t /\ UNCHANGED <<store, known, tombs, live, paused, requests>>
  BY DEF Acquire
<1>4. /\ tasks' \in [Task -> Work \cup {None}] /\ LockHeld' /\ JobsWellFormed'
      /\ tasks'[t] = w /\ \A u \in Task \ {t} : tasks'[u] = tasks[u]
  <2>1. \A u \in Task \ {t} : lock' = u <=> lock = u
    BY <1>3 DEF KeysAssumption
  <2> QED
    BY <1>2, <1>3, <2>1, HandlerGoesOn
<1>5. blocked' = IF w.op \in Blocking THEN blocked \cup {w.key} ELSE blocked
  BY <1>4 DEF Acquire
<1>6. blocked \subseteq blocked' /\ blocked' \subseteq Key
  <2>1. w.op \in Blocking => w.key \in Key
    BY <1>2 DEF WellFormed, Blocking, KeyOp
  <2> QED
    BY <1>0, <1>5, <2>1 DEF TypeOK
<1>7. BlockedFirst'
  BY <1>0, <1>4, <1>5, <1>6 DEF BlockedFirst
<1>8. FollowsStore' /\ TombsAreDeleted' /\ GroupsKept'
  BY <1>3, <1>6 DEF KeyInv, FollowsStore, TombsAreDeleted, GroupsKept, Present, Decoded, Deleted, store
<1>9. TypeOK'
  BY <1>0, <1>3, <1>4, <1>6 DEF TypeOK, store
<1> QED
  BY <1>4, <1>7, <1>8, <1>9 DEF KeyInv

\* A row as the scheduler gets it.
LEMMA DecodedIsRecord ==
  ASSUME TypeOK, NEW k \in Key, Present(k)
  PROVE  Decoded(k) \in Record
BY DEF TypeOK, Present, Decoded, Row, Record

\* What an answered write leaves in memory is what it stored.
LEMMA PublishedFollows ==
  ASSUME KeysAssumption, KeyInv, NEW t \in Task, At(t, "writing"),
         NEW w, w = tasks[t], NEW k, k = w.key, Apply(w), Published(w)
  PROVE  /\ FollowsStore' /\ TombsAreDeleted'
         /\ known' \in [Key -> Record \cup {None}] /\ blocked' \subseteq Key /\ tombs' \subseteq Key
         /\ live' \in 1..MaxVersion /\ paused' \in BOOLEAN
         /\ w.op \in Blocking => Agrees(k)'
<1> DEFINE row == [enabled |-> rows'[k].enabled, group |-> rows'[k].group]
<1>0. TypeOK /\ GroupsKept /\ FollowsStore /\ TombsAreDeleted
  BY DEF KeyInv
<1>1. w \in Work /\ WellFormed(w)
  BY <1>0 DEF KeyInv, TypeOK, At, JobsWellFormed
<1>2. /\ rows' \in [Key -> Row \cup {None}] /\ stored' \in 1..MaxVersion
      /\ \A j \in Key : rows'[j] # rows[j] => w.op \in KeyOp /\ j = k /\ ~Deleted(j)
      /\ w.op \in KeyOp \ {"delete"} => Present(k)'
      /\ w.op = "delete" => Deleted(k)'
  BY <1>0, <1>1, ApplyEffect
<1>3. w.op \in KeyOp => k \in Key
  BY <1>1 DEF WellFormed
<1>4. \A j \in tombs : j \in Key /\ rows'[j] = rows[j] /\ Deleted(j)'
  BY <1>0, <1>2 DEF TombsAreDeleted, TypeOK, Deleted
<1>5. w.op \in KeyOp \ {"delete"} => k \notin tombs
  BY <1>2, <1>4 DEF Present, Deleted
<1>6. CASE w.op \in KeyOp \ {"delete"}
  <2>1. Publish(k, row)
    BY <1>6 DEF Published, KeyOp, GroupOp
  <2>2. /\ known' = [known EXCEPT ![k] = row] /\ blocked' = blocked \ {k}
        /\ tombs' = tombs /\ live' = live /\ paused' = paused
    BY <1>5, <1>6, <2>1 DEF Publish
  <2>3. row = Decoded(k)' /\ row \in Record
    BY <1>2, <1>3, <1>6 DEF Decoded, Present, Row, Record
  <2> HIDE DEF row
  <2>4. /\ known'[k] = Decoded(k)' /\ k \in Key
        /\ \A j \in Key \ {k} : known'[j] = known[j] /\ rows'[j] = rows[j]
    BY <1>0, <1>2, <1>3, <1>6, <2>2, <2>3 DEF TypeOK
  <2>5. FollowsStore'
    <3> SUFFICES ASSUME NEW j \in Key, j \notin blocked', known'[j] # None
                 PROVE  Present(j)' /\ known'[j] = Decoded(j)'
      BY DEF FollowsStore
    <3>1. CASE j = k
      BY <1>2, <1>6, <2>4, <3>1
    <3>2. CASE j # k
      <4>1. j \notin blocked /\ known[j] # None /\ rows'[j] = rows[j] /\ known'[j] = known[j]
        BY <2>2, <2>4, <3>2
      <4>2. Present(j) /\ known[j] = Decoded(j)
        BY <1>0, <4>1 DEF FollowsStore
      <4> QED
        BY <4>1, <4>2 DEF Present, Decoded
    <3> QED
      BY <3>1, <3>2
  <2>6. TombsAreDeleted'
    BY <1>4, <2>2 DEF TombsAreDeleted
  <2>7. Agrees(k)'
    BY <1>2, <1>6, <2>2, <2>4 DEF Agrees
  <2> QED
    BY <1>0, <2>2, <2>3, <2>5, <2>6, <2>7 DEF TypeOK
<1>7. CASE w.op = "delete"
  <2>1. /\ known' = [known EXCEPT ![k] = None] /\ blocked' = blocked
        /\ tombs' = tombs \cup {k} /\ live' = live /\ paused' = paused
    BY <1>7 DEF Published, Remove, KeyOp, GroupOp
  <2>2. k \in Key /\ Deleted(k)'
    BY <1>2, <1>3, <1>7 DEF KeyOp
  <2> HIDE DEF row
  <2>3. known'[k] = None /\ \A j \in Key \ {k} : known'[j] = known[j] /\ rows'[j] = rows[j]
    BY <1>0, <1>2, <2>1, <2>2 DEF TypeOK
  <2>4. FollowsStore'
    <3> SUFFICES ASSUME NEW j \in Key, j \notin blocked', known'[j] # None
                 PROVE  Present(j)' /\ known'[j] = Decoded(j)'
      BY DEF FollowsStore
    <3>1. j # k /\ j \notin blocked /\ known[j] # None /\ rows'[j] = rows[j] /\ known'[j] = known[j]
      BY <2>1, <2>3
    <3>2. Present(j) /\ known[j] = Decoded(j)
      BY <1>0, <3>1 DEF FollowsStore
    <3> QED
      BY <3>1, <3>2 DEF Present, Decoded
  <2>5. TombsAreDeleted'
    BY <1>4, <2>1, <2>2 DEF TombsAreDeleted
  <2>6. Agrees(k)'
    BY <2>2, <2>3 DEF Agrees, Present, Deleted
  <2> QED
    BY <1>0, <2>1, <2>2, <2>4, <2>5, <2>6 DEF TypeOK
<1>8. CASE w.op \notin KeyOp
  <2>1. known' = known /\ blocked' = blocked /\ tombs' = tombs /\ paused' = paused /\ live' \in {live, stored'}
    BY <1>8 DEF Published, KeyOp, GroupOp, PublishSettings, memory
  <2>2. rows' = rows
    BY <1>0, <1>2, <1>8 DEF TypeOK
  <2>3. FollowsStore' /\ TombsAreDeleted'
    BY <1>0, <2>1, <2>2 DEF FollowsStore, TombsAreDeleted, Present, Decoded, Deleted
  <2>4. w.op \notin Blocking
    BY <1>8 DEF KeyOp, Blocking
  <2> QED
    BY <1>0, <1>2, <2>1, <2>3, <2>4 DEF TypeOK
<1> QED
  BY <1>6, <1>7, <1>8

LEMMA WrittenKeeps ==
  ASSUME KeysAssumption, KeyInv, NEW t \in Task, Written(t)
  PROVE  KeyInv'
<1>0. TypeOK /\ GroupsKept /\ tasks[t] \in Work /\ WellFormed(tasks[t]) /\ lock = t
  BY DEF KeyInv, TypeOK, JobsWellFormed, LockHeld, Written, At
<1>1. /\ rows' \in [Key -> Row \cup {None}] /\ groups' \subseteq Group /\ stored' \in 1..MaxVersion
      /\ GroupsKept'
  BY <1>0, ApplyEffect DEF Written
<1>2. /\ FollowsStore' /\ TombsAreDeleted'
      /\ known' \in [Key -> Record \cup {None}] /\ blocked' \subseteq Key /\ tombs' \subseteq Key
      /\ live' \in 1..MaxVersion /\ paused' \in BOOLEAN
  <2>1. PICK w : w = tasks[t]
    OBVIOUS
  <2>2. PICK k : k = w.key
    OBVIOUS
  <2>3. At(t, "writing") /\ Apply(w) /\ Published(w)
    BY <2>1 DEF Written
  <2> QED
    BY <2>1, <2>2, <2>3, PublishedFollows
<1>3. /\ tasks' \in [Task -> Work \cup {None}] /\ lock' \in Task \cup {None}
      /\ LockHeld' /\ JobsWellFormed' /\ BlockedFirst'
  BY <1>0, HandlerEnds DEF Written
<1>4. requests' = requests
  BY DEF Written
<1>5. TypeOK'
  BY <1>0, <1>1, <1>2, <1>3, <1>4 DEF TypeOK
<1> QED
  BY <1>1, <1>2, <1>3, <1>5 DEF KeyInv

LEMMA FailedKeeps ==
  ASSUME KeysAssumption, KeyInv, NEW t \in Task, Failed(t)
  PROVE  KeyInv'
<1>0. TypeOK /\ tasks[t] \in Work /\ WellFormed(tasks[t]) /\ lock = t /\ BlockedFirst /\ At(t, "writing")
  BY DEF KeyInv, TypeOK, JobsWellFormed, LockHeld, Failed, At
<1>1. known' = known /\ blocked' = blocked /\ tombs' = tombs /\ live' = live /\ paused' = paused /\ requests' = requests
  BY DEF Failed, memory
<1>2. /\ rows' \in [Key -> Row \cup {None}] /\ groups' \subseteq Group /\ stored' \in 1..MaxVersion
      /\ GroupsKept' /\ FollowsStore' /\ TombsAreDeleted'
  BY <1>0, <1>1, Unanswered DEF Failed
<1>3. /\ tasks' \in [Task -> Work \cup {None}] /\ lock' \in Task \cup {None}
      /\ LockHeld' /\ JobsWellFormed' /\ BlockedFirst'
  <2>1. CASE End(t)
    BY <1>0, <2>1, HandlerEnds
  <2>2. CASE Reconciles(tasks[t]) /\ Move(t, "reloading")
    <3> DEFINE w == [tasks[t] EXCEPT !.at = "reloading"]
    <3>1. w \in Work /\ w.at = "reloading" /\ w.op = tasks[t].op /\ w.key = tasks[t].key /\ w.group = tasks[t].group
      BY <1>0 DEF Work
    <3>2. tasks' = [tasks EXCEPT ![t] = w] /\ lock' = lock
      BY <2>2 DEF Move
    <3> HIDE DEF w
    <3>3. WellFormed(w)
      BY <1>0, <2>2, <3>1 DEF WellFormed, Reconciles
    <3>4. /\ tasks' \in [Task -> Work \cup {None}] /\ LockHeld' /\ JobsWellFormed'
          /\ tasks'[t] = w /\ \A u \in Task \ {t} : tasks'[u] = tasks[u]
      <4>1. lock' \in Task \cup {None} /\ lock' = t
        BY <1>0, <3>2
      <4> QED
        BY <1>0, <3>1, <3>2, <3>3, <4>1, HandlerGoesOn
    <3>5. BlockedFirst'
      BY <1>0, <1>1, <3>1, <3>4 DEF BlockedFirst, At
    <3> QED
      BY <1>0, <3>2, <3>4, <3>5
  <2> QED
    BY <2>1, <2>2 DEF Failed
<1>4. TypeOK'
  BY <1>0, <1>1, <1>2, <1>3 DEF TypeOK
<1> QED
  BY <1>2, <1>3, <1>4 DEF KeyInv

\* What was read back is what is stored.
LEMMA ReconciledFollows ==
  ASSUME KeyInv, ReconcileKeys, rows' = rows
  PROVE  /\ FollowsStore' /\ TombsAreDeleted'
         /\ known' \in [Key -> Record \cup {None}] /\ blocked' \subseteq blocked
         /\ tombs' = tombs /\ live' = live /\ paused' = paused
         /\ \A k \in Key : k \in blocked \/ Present(k) => Agrees(k)'
<1> DEFINE current == {k \in Key \ tombs : Present(k)}
<1>0. TypeOK /\ FollowsStore /\ TombsAreDeleted
  BY DEF KeyInv
<1>1. /\ known' = [k \in Key |-> IF k \in current THEN Decoded(k) ELSE known[k]]
      /\ blocked' = blocked \ current
      /\ tombs' = tombs /\ live' = live /\ paused' = paused
  BY DEF ReconcileKeys
<1>2. \A k \in Key : k \in current <=> Present(k)
  BY <1>0 DEF TombsAreDeleted, Deleted, Present
<1>3. \A k \in Key : (Present(k)' <=> Present(k)) /\ Decoded(k)' = Decoded(k)
  BY DEF Present, Decoded
<1> HIDE DEF current
<1>4. known' \in [Key -> Record \cup {None}]
  <2>1. \A k \in Key : k \in current => Decoded(k) \in Record
    BY <1>0, <1>2, DecodedIsRecord
  <2> QED
    BY <1>0, <1>1, <2>1 DEF TypeOK
<1>5. \A k \in Key : known'[k] = IF Present(k) THEN Decoded(k) ELSE known[k]
  BY <1>1, <1>2
<1>6. FollowsStore'
  <2> SUFFICES ASSUME NEW k \in Key, k \notin blocked', known'[k] # None
               PROVE  Present(k)' /\ known'[k] = Decoded(k)'
    BY DEF FollowsStore
  <2>1. CASE Present(k)
    BY <1>3, <1>5, <2>1
  <2>2. CASE ~Present(k)
    <3>1. k \notin blocked /\ known[k] # None
      BY <1>1, <1>2, <1>5, <2>2
    <3> QED
      BY <1>0, <2>2, <3>1 DEF FollowsStore
  <2> QED
    BY <2>1, <2>2
<1>7. TombsAreDeleted'
  BY <1>0, <1>1 DEF TombsAreDeleted, Deleted
<1>8. \A k \in Key : k \in blocked \/ Present(k) => Agrees(k)'
  BY <1>1, <1>2, <1>3, <1>5 DEF Agrees
<1> QED
  BY <1>1, <1>4, <1>6, <1>7, <1>8

LEMMA ReloadKeeps ==
  ASSUME KeysAssumption, KeyInv, NEW t \in Task, Reload(t)
  PROVE  KeyInv'
<1>0. TypeOK /\ lock = t /\ FollowsStore /\ TombsAreDeleted /\ GroupsKept
  BY DEF KeyInv, LockHeld, Reload, At
<1>1. rows' = rows /\ groups' = groups /\ stored' = stored /\ requests' = requests
  BY DEF Reload, store
<1>2. /\ tasks' \in [Task -> Work \cup {None}] /\ lock' \in Task \cup {None}
      /\ LockHeld' /\ JobsWellFormed' /\ BlockedFirst'
  BY <1>0, HandlerEnds DEF Reload
<1>3. /\ FollowsStore' /\ TombsAreDeleted'
      /\ known' \in [Key -> Record \cup {None}] /\ blocked' \subseteq Key /\ tombs' \subseteq Key
      /\ live' \in 1..MaxVersion /\ paused' \in BOOLEAN
  <2>1. CASE ReconcileKeys
    BY <1>0, <1>1, <2>1, ReconciledFollows DEF TypeOK
  <2>2. CASE PublishSettings(stored) \/ (paused' = TRUE /\ UNCHANGED <<known, blocked, tombs, live>>)
    <3>1. known' = known /\ blocked' = blocked /\ tombs' = tombs
      BY <2>2 DEF PublishSettings
    <3>2. live' \in {live, stored} /\ paused' \in {paused, TRUE}
      BY <2>2 DEF PublishSettings
    <3>3. FollowsStore' /\ TombsAreDeleted'
      BY <1>0, <1>1, <3>1 DEF FollowsStore, TombsAreDeleted, Present, Decoded, Deleted
    <3> QED
      BY <1>0, <3>1, <3>2, <3>3 DEF TypeOK
  <2> QED
    BY <2>1, <2>2 DEF Reload
<1>4. GroupsKept'
  BY <1>0, <1>1 DEF GroupsKept
<1>5. TypeOK'
  BY <1>0, <1>1, <1>2, <1>3 DEF TypeOK
<1> QED
  BY <1>2, <1>3, <1>4, <1>5 DEF KeyInv

LEMMA DepartKeeps ==
  ASSUME KeysAssumption, KeyInv, NEW t \in Task, Depart(t)
  PROVE  KeyInv'
<1>0. TypeOK /\ FollowsStore /\ TombsAreDeleted /\ GroupsKept
  BY DEF KeyInv
<1>1. known' = known /\ blocked' = blocked /\ tombs' = tombs /\ live' = live /\ paused' = paused /\ requests' = requests
  BY DEF Depart, memory
<1>2. /\ tasks' \in [Task -> Work \cup {None}] /\ lock' \in Task \cup {None}
      /\ LockHeld' /\ JobsWellFormed' /\ BlockedFirst'
  BY <1>1, HandlerEnds DEF Depart
<1>3. /\ rows' \in [Key -> Row \cup {None}] /\ groups' \subseteq Group /\ stored' \in 1..MaxVersion
      /\ GroupsKept' /\ FollowsStore' /\ TombsAreDeleted'
  <2>1. CASE At(t, "writing")
    BY <1>1, <2>1, Unanswered DEF Depart
  <2>2. CASE ~At(t, "writing")
    <3>1. rows' = rows /\ groups' = groups /\ stored' = stored
      BY <2>2 DEF Depart, store
    <3>2. GroupsKept' /\ FollowsStore' /\ TombsAreDeleted'
      BY <1>0, <1>1, <3>1 DEF GroupsKept, FollowsStore, TombsAreDeleted, Present, Decoded, Deleted
    <3> QED
      BY <1>0, <3>1, <3>2 DEF TypeOK
  <2> QED
    BY <2>1, <2>2
<1>4. TypeOK'
  BY <1>0, <1>1, <1>2, <1>3 DEF TypeOK
<1> QED
  BY <1>2, <1>3, <1>4 DEF KeyInv

-----------------------------------------------------------------------------
(* Requests, restarts, and the invariant. *)

\* A step of a request changes nothing else.
LEMMA RequestsKeep ==
  ASSUME KeyInv, requests' \in [Request -> Routed \cup {None}],
         UNCHANGED <<store, memory, lock, tasks>>
  PROVE  KeyInv'
<1>1. TypeOK'
  BY DEF KeyInv, TypeOK, store, memory
<1>2. LockHeld' /\ JobsWellFormed' /\ BlockedFirst'
  <2>1. JobsWellFormed'
    BY DEF KeyInv, JobsWellFormed, WellFormed, Reconciles
  <2> QED
    BY <2>1 DEF KeyInv, LockHeld, BlockedFirst, memory
<1>3. FollowsStore' /\ TombsAreDeleted' /\ GroupsKept'
  BY DEF KeyInv, FollowsStore, TombsAreDeleted, GroupsKept, Present, Decoded, Deleted, store, memory
<1> QED
  BY <1>1, <1>2, <1>3 DEF KeyInv

LEMMA RequestKeeps ==
  ASSUME KeysAssumption, KeyInv, NEW r \in Request, Arrive(r) \/ Send(r) \/ Answer(r)
  PROVE  KeyInv'
<1>0. TypeOK
  BY DEF KeyInv
<1>1. CASE Arrive(r)
  <2>1. PICK k \in Key : /\ Present(k)
                         /\ requests' = [requests EXCEPT ![r] = [key |-> k, group |-> rows[k].group, sent |-> FALSE]]
    BY <1>1 DEF Arrive
  <2>2. rows[k].group \in Group
    BY <1>0, <2>1 DEF TypeOK, Present, Row
  <2>3. [key |-> k, group |-> rows[k].group, sent |-> FALSE] \in Routed
    BY <2>2 DEF Routed
  <2>4. requests' \in [Request -> Routed \cup {None}]
    BY <1>0, <2>1, <2>3 DEF TypeOK
  <2> QED
    BY <1>1, <2>4, RequestsKeep DEF Arrive
<1>2. CASE Send(r)
  <2>1. requests[r] \in Routed
    BY <1>0, <1>2 DEF TypeOK, Send
  <2>2. [requests[r] EXCEPT !.sent = TRUE] \in Routed
    BY <2>1 DEF Routed
  <2>3. requests' \in [Request -> Routed \cup {None}]
    BY <1>0, <1>2, <2>2 DEF TypeOK, Send
  <2> QED
    BY <1>2, <2>3, RequestsKeep DEF Send
<1>3. CASE Answer(r)
  <2>1. requests' \in [Request -> Routed \cup {None}]
    BY <1>0, <1>3 DEF TypeOK, Answer
  <2> QED
    BY <1>3, <2>1, RequestsKeep DEF Answer
<1> QED
  BY <1>1, <1>2, <1>3

\* A new process works on what is stored.
LEMMA RestartKeeps ==
  ASSUME KeysAssumption, KeyInv, Restart
  PROVE  KeyInv'
<1>0. TypeOK /\ GroupsKept
  BY DEF KeyInv
<1>1. /\ rows' \in [Key -> Row \cup {None}] /\ groups' \subseteq Group /\ stored' \in 1..MaxVersion
      /\ GroupsKept'
  <2>1. CASE UNCHANGED store
    BY <1>0, <2>1 DEF TypeOK, GroupsKept, store
  <2>2. ASSUME NEW t \in Task, At(t, "writing"), Apply(tasks[t])
        PROVE  /\ rows' \in [Key -> Row \cup {None}] /\ groups' \subseteq Group /\ stored' \in 1..MaxVersion
               /\ GroupsKept'
    <3>1. tasks[t] \in Work /\ WellFormed(tasks[t])
      BY <2>2 DEF KeyInv, TypeOK, At, JobsWellFormed
    <3> QED
      BY <1>0, <2>2, <3>1, ApplyEffect
  <2> QED
    BY <2>1, <2>2 DEF Restart
<1>2. \A k \in Key : known'[k] = IF Present(k)' THEN Decoded(k)' ELSE None
  BY DEF Restart
<1>3. /\ known' = [k \in Key |-> IF Present(k)' THEN Decoded(k)' ELSE None]
      /\ blocked' = {} /\ tombs' = {} /\ paused' = FALSE /\ lock' = None /\ live' = stored'
      /\ tasks' = [t \in Task |-> None] /\ requests' = [r \in Request |-> None]
  BY DEF Restart
<1>4. known' \in [Key -> Record \cup {None}]
  <2>1. \A k \in Key : Present(k)' => Decoded(k)' \in Record
    BY <1>1 DEF Present, Decoded, Row, Record
  <2> QED
    BY <1>3, <2>1
<1>5. TypeOK'
  BY <1>1, <1>3, <1>4 DEF TypeOK
<1>6. LockHeld' /\ JobsWellFormed' /\ BlockedFirst'
  BY <1>3 DEF LockHeld, JobsWellFormed, BlockedFirst, KeysAssumption
<1>7. FollowsStore' /\ TombsAreDeleted'
  <2>1. FollowsStore'
    BY <1>2 DEF FollowsStore
  <2> QED
    BY <1>3, <2>1 DEF TombsAreDeleted
<1> QED
  BY <1>1, <1>5, <1>6, <1>7 DEF KeyInv

LEMMA InitHolds ==
  ASSUME KeysAssumption, Init
  PROVE  KeyInv
<1>1. TypeOK
  <2>1. 1 \in 1..MaxVersion /\ Default \in Group
    BY DEF KeysAssumption
  <2>2. /\ [k \in Key |-> None] \in [Key -> Row \cup {None}]
        /\ [k \in Key |-> None] \in [Key -> Record \cup {None}]
        /\ [t \in Task |-> None] \in [Task -> Work \cup {None}]
        /\ [r \in Request |-> None] \in [Request -> Routed \cup {None}]
    OBVIOUS
  <2> QED
    BY <2>1, <2>2 DEF Init, TypeOK
<1>2. LockHeld /\ JobsWellFormed /\ BlockedFirst
  BY DEF Init, LockHeld, JobsWellFormed, BlockedFirst, KeysAssumption
<1>3. FollowsStore /\ TombsAreDeleted /\ GroupsKept
  BY DEF Init, FollowsStore, TombsAreDeleted, GroupsKept
<1> QED
  BY <1>1, <1>2, <1>3 DEF KeyInv

LEMMA NextHolds ==
  ASSUME KeysAssumption, KeyInv, [Next]_vars
  PROVE  KeyInv'
<1>1. CASE \E t \in Task : Open(t) \/ Acquire(t) \/ Written(t) \/ Failed(t) \/ Reload(t) \/ Depart(t)
  BY <1>1, OpenKeeps, AcquireKeeps, WrittenKeeps, FailedKeeps, ReloadKeeps, DepartKeeps
<1>2. CASE \E r \in Request : Arrive(r) \/ Send(r) \/ Answer(r)
  BY <1>2, RequestKeeps
<1>3. CASE Restart
  BY <1>3, RestartKeeps
<1>4. CASE UNCHANGED vars
  <2>1. UNCHANGED <<store, memory, lock, tasks>> /\ requests' = requests
    BY <1>4 DEF vars
  <2>2. requests' \in [Request -> Routed \cup {None}]
    BY <2>1 DEF KeyInv, TypeOK
  <2> QED
    BY <2>1, <2>2, RequestsKeep
<1> QED
  BY <1>1, <1>2, <1>3, <1>4 DEF Next

LEMMA KeyHolds ==
  ASSUME KeysAssumption
  PROVE  Spec => []KeyInv
<1>1. Init => KeyInv
  BY InitHolds
<1>2. KeyInv /\ [Next]_vars => KeyInv'
  BY NextHolds
<1> QED
  BY <1>1, <1>2, PTL DEF Spec

-----------------------------------------------------------------------------
(* The properties. *)

LEMMA SendFollows ==
  ASSUME KeyInv, [Next]_vars
  PROVE  SendsByStoredKey
<1>0. TypeOK /\ FollowsStore /\ GroupsKept
  BY DEF KeyInv
<1> SUFFICES ASSUME NEW r \in Request, requests[r] # None, requests'[r] # None,
                    ~requests[r].sent, requests'[r].sent
             PROVE  LET k == requests[r].key
                    IN /\ Present(k) /\ Decoded(k) = [enabled |-> TRUE, group |-> requests[r].group]
                       /\ requests[r].group \in groups
  BY DEF SendsByStoredKey
<1>1. Send(r)
  <2>1. CASE \E t \in Task : Open(t) \/ Acquire(t) \/ Written(t) \/ Failed(t) \/ Reload(t) \/ Depart(t)
    <3>1. requests' = requests
      BY <2>1 DEF Open, Acquire, Written, Failed, Reload, Depart
    <3> QED
      BY <3>1
  <2>2. ASSUME NEW q \in Request, Arrive(q)
        PROVE  Send(r)
    <3>1. requests'[r] = requests[r] \/ r = q
      BY <1>0, <2>2 DEF Arrive, TypeOK
    <3> QED
      BY <2>2, <3>1 DEF Arrive
  <2>3. ASSUME NEW q \in Request, Send(q)
        PROVE  Send(r)
    <3>1. requests'[r] = requests[r] \/ r = q
      BY <1>0, <2>3 DEF Send, TypeOK
    <3> QED
      BY <2>3, <3>1
  <2>4. ASSUME NEW q \in Request, Answer(q)
        PROVE  Send(r)
    <3>1. requests'[r] = requests[r] \/ requests'[r] = None
      BY <1>0, <2>4 DEF Answer, TypeOK
    <3> QED
      BY <3>1
  <2>5. CASE Restart
    BY <2>5 DEF Restart
  <2>6. CASE UNCHANGED vars
    BY <2>6 DEF vars
  <2> QED
    BY <2>1, <2>2, <2>3, <2>4, <2>5, <2>6 DEF Next
<1>2. requests[r] \in Routed
  BY <1>0 DEF TypeOK
<1>3. PICK k \in Key, g \in Group : k = requests[r].key /\ g = requests[r].group
  BY <1>2 DEF Routed
<1>4. k \notin blocked /\ known[k] # None /\ known[k].enabled /\ known[k].group = g
  BY <1>1, <1>3 DEF Send, CheckKey
<1>5. Present(k) /\ known[k] = Decoded(k)
  BY <1>0, <1>4 DEF FollowsStore
<1>6. rows[k] \in Row /\ rows[k].enabled /\ rows[k].group = g /\ g \in groups
  BY <1>0, <1>4, <1>5 DEF TypeOK, Present, Decoded, GroupsKept
<1>7. Decoded(k) = [enabled |-> TRUE, group |-> g]
  BY <1>6 DEF Decoded, Row
<1> QED
  BY <1>3, <1>5, <1>6, <1>7

LEMMA AnswerFollows ==
  ASSUME KeysAssumption, KeyInv
  PROVE  AnswersSettled
<1>0. TypeOK /\ JobsWellFormed /\ BlockedFirst
  BY DEF KeyInv
<1> SUFFICES ASSUME NEW t \in Task, Written(t) \/ Reload(t), ~paused', Reconciles(tasks[t])
             PROVE  \/ tasks[t].op \in Blocking /\ \E k \in Key : k = tasks[t].key /\ Agrees(k)'
                    \/ tasks[t].op = "settings" /\ live' = stored'
  BY DEF AnswersSettled
<1>1. PICK w : w = tasks[t]
  OBVIOUS
<1>2. w \in Work /\ WellFormed(w)
  BY <1>0, <1>1 DEF TypeOK, JobsWellFormed, Written, Reload, At
<1>3. w.op \in Blocking \/ w.op = "settings"
  BY <1>1 DEF Reconciles
<1>4. PICK k : k = w.key
  OBVIOUS
<1>5. w.op \in Blocking => k \in Key
  BY <1>2, <1>4 DEF WellFormed, Blocking, KeyOp
<1>6. CASE Written(t)
  <2>1. At(t, "writing") /\ Apply(w) /\ Published(w)
    BY <1>1, <1>6 DEF Written
  <2>2. w.op \in Blocking => Agrees(k)'
    BY <1>1, <1>4, <2>1, PublishedFollows
  <2>3. w.op = "settings" => live' = stored'
    BY <2>1 DEF Published, PublishSettings, GroupOp
  <2> QED
    BY <1>1, <1>3, <1>4, <1>5, <2>2, <2>3
<1>7. CASE Reload(t)
  <2>0. rows' = rows /\ stored' = stored
    BY <1>7 DEF Reload, store
  <2>1. CASE w.op # "settings" /\ ReconcileKeys
    <3>1. k \in blocked /\ w.op \in Blocking
      BY <1>0, <1>1, <1>3, <1>4, <1>7, <2>1 DEF BlockedFirst, Reload, At
    <3>2. \A j \in Key : j \in blocked \/ Present(j) => Agrees(j)'
      BY <2>0, <2>1, ReconciledFollows
    <3> QED
      BY <1>1, <1>4, <1>5, <3>1, <3>2
  <2>2. CASE w.op = "settings" /\ PublishSettings(stored)
    BY <1>1, <2>0, <2>2 DEF PublishSettings
  <2> QED
    BY <1>1, <1>7, <2>1, <2>2 DEF Reload
<1> QED
  BY <1>6, <1>7

\* admin.rs, check_key: a request goes upstream only while the stored row of its key
\* is enabled, not deleted, and in the existing group the request was routed in.
THEOREM OnlyStoredKeys ==
  ASSUME KeysAssumption
  PROVE  Spec => [][SendsByStoredKey]_vars
<1>1. KeyInv /\ [Next]_vars => SendsByStoredKey
  BY SendFollows
<1> QED
  BY <1>1, KeyHolds, PTL DEF Spec

\* admin.rs, reconcile_keys and save_settings: who got an answer finds the running
\* gateway on what is stored, or paused.
THEOREM AnswersAreTrue ==
  ASSUME KeysAssumption
  PROVE  Spec => [][AnswersSettled]_vars
<1>1. KeyInv => AnswersSettled
  BY AnswerFollows
<1> QED
  BY <1>1, KeyHolds, PTL DEF Spec

=================================================================================
