-------------------------- MODULE AccountControlProofs --------------------------
(***************************************************************************)
(* Proofs about AccountControl for any accounts, any number of tasks, any  *)
(* bounds and any operations that may fail.                                *)
(***************************************************************************)
EXTENDS AccountControl, TLAPS

-----------------------------------------------------------------------------
(* The invariant. *)

\* Whoever is past the lock holds it, and its account has stayed in memory.
WritersHold ==
  \A t \in Task : tasks[t] # None /\ tasks[t].at # "start" =>
    lock = t /\ mem[Subject(t)] # None

SwitchInv == TypeOK /\ WritersHold /\ VersionIdentifiesState

-----------------------------------------------------------------------------
(* Lemmas about single operators. *)

\* Ending a task keeps the types.
LEMMA EndType ==
  ASSUME TypeOK, NEW t \in Task, End(t)
  PROVE  /\ tasks' \in [Task -> Work \cup {None}]
         /\ lock' \in Task \cup {None}
BY DEF TypeOK, End

\* Going on to the write keeps the types.
LEMMA AwaitType ==
  ASSUME TypeOK, NEW t \in Task, At(t, "start"), NEW status \in Status, AwaitWrite(t, status)
  PROVE  /\ tasks' \in [Task -> Work \cup {None}]
         /\ lock' \in Task \cup {None}
<1>1. tasks[t] \in Work
  BY DEF TypeOK, At
<1>2. [tasks[t] EXCEPT !.at = "writing", !.status = status] \in Work
  BY <1>1 DEF Work, Status
<1>3. tasks' = [tasks EXCEPT ![t] = [tasks[t] EXCEPT !.at = "writing", !.status = status]]
  BY <1>1 DEF AwaitWrite, TypeOK, Work
<1> QED
  BY <1>2, <1>3 DEF AwaitWrite, TypeOK

\* A task that ends is not past the lock, and leaves it as the others need it.
LEMMA EndHolds ==
  ASSUME TypeOK, WritersHold, NEW t \in Task, End(t),
         \A u \in Task \ {t} : tasks[u] # None /\ tasks[u].at # "start" =>
           mem'[Subject(u)] # None
  PROVE  WritersHold'
<1> SUFFICES ASSUME NEW u \in Task, tasks'[u] # None, tasks'[u].at # "start"
             PROVE  lock' = u /\ mem'[tasks'[u].account] # None
  BY DEF WritersHold, Subject
<1>1. u # t /\ tasks'[u] = tasks[u]
  BY DEF End, TypeOK
<1>2. lock = u /\ mem'[Subject(u)] # None
  BY <1>1 DEF WritersHold
<1> QED
  BY <1>1, <1>2 DEF End, Subject

\* A task that goes on to its write takes a free lock.
LEMMA AwaitHolds ==
  ASSUME TypeOK, WritersHold, NEW t \in Task, NEW ops, Entering(t, ops),
         NEW status \in Status, AwaitWrite(t, status), mem' = mem
  PROVE  WritersHold'
<1> SUFFICES ASSUME NEW u \in Task, tasks'[u] # None, tasks'[u].at # "start"
             PROVE  lock' = u /\ mem'[tasks'[u].account] # None
  BY DEF WritersHold, Subject
<1>1. \A v \in Task : tasks[v] # None => tasks[v].at = "start"
  BY AccountAssumption DEF WritersHold, Entering
<1>2. u = t
  BY <1>1 DEF AwaitWrite, TypeOK
<1>3. tasks[t] \in Work
  BY DEF TypeOK, Entering, At
<1>4. tasks'[t].account = tasks[t].account
  BY <1>3 DEF AwaitWrite, TypeOK, Work
<1> QED
  BY <1>2, <1>4 DEF AwaitWrite, Entering, Subject

\* What a statement of the store does to its row.
Effect(t) ==
  LET a == Subject(t) IN
  /\ a \in Account \ gone
  /\ Written(t) \in Row
  /\ rows' = [rows EXCEPT ![a] = Written(t)]
  /\ gone' = IF Doing(t, {"delete"}) THEN gone \cup {a} ELSE gone
  /\ rows[a].version <= Written(t).version
  /\ rows[a].version = Written(t).version =>
       /\ Written(t).status = rows[a].status
       /\ Written(t).extra = rows[a].extra
       /\ ~Doing(t, {"delete"})
  /\ Written(t).status =
       IF Doing(t, UpdateOp \cup RenewOp) THEN rows[a].status ELSE tasks[t].status

\* A statement writes a row, and a new version with a new state.
LEMMA ApplyEffect ==
  ASSUME SwitchInv, NEW t \in Task, At(t, "writing"), Apply(t)
  PROVE  Effect(t)
<1> DEFINE a == Subject(t)
           w == Written(t)
<1>1. tasks[t] \in Work /\ a \in Account /\ rows[a] \in Row
  BY DEF SwitchInv, TypeOK, At, Work, Subject
<1>2. mem[a] # None /\ mem[a] \in Row
  BY <1>1 DEF SwitchInv, TypeOK, WritersHold, At
<1>3. a \notin gone /\ ExpectedRow(t)
  BY DEF Apply, Accepted
<1>4. w.version <= MaxVersion /\ w.credentials <= MaxCredentials
  BY DEF Apply
<1> HIDE DEF a
<1>5. CASE Doing(t, UpdateOp)
  <2>1. \E extra \in BOOLEAN :
          w = [mem[a] EXCEPT !.version = mem[a].version + 1,
                             !.credentials = rows[a].credentials, !.extra = extra]
    <3>1. mem[a].extra \in BOOLEAN
      BY <1>2 DEF Row
    <3>2. w = Edited(t)
      BY <1>5 DEF Written, Doing, UpdateOp
    <3>3. CASE Doing(t, {"policy"})
      <4>1. w = [mem[a] EXCEPT !.version = NextVersion(mem[a]),
                               !.credentials = rows[a].credentials, !.extra = ~mem[a].extra]
        BY <3>3, <3>2, Zenon DEF Edited, a
      <4> QED
        BY <4>1 DEF NextVersion
    <3>4. CASE ~Doing(t, {"policy"})
      <4>1. w = [mem[a] EXCEPT !.version = NextVersion(mem[a]),
                               !.credentials = rows[a].credentials, !.extra = mem[a].extra]
        BY <3>4, <3>2, Zenon DEF Edited, a
      <4> QED
        BY <3>1, <4>1 DEF NextVersion
    <3> QED
      BY <3>3, <3>4
  <2>2. /\ w.version = mem[a].version + 1
        /\ w.credentials = rows[a].credentials
        /\ w.status = mem[a].status
    BY <1>2, <2>1 DEF Row
  <2>4. w = [status |-> w.status, extra |-> w.extra,
             version |-> w.version, credentials |-> w.credentials]
    BY <1>2, <2>1 DEF Row
  <2>5. w.version \in 1..MaxVersion /\ w.credentials \in 1..MaxCredentials /\ w.status \in Status
    BY <1>1, <1>2, <1>4, <2>2, AccountAssumption DEF Row
  <2>6. w \in Row
    BY <2>1, <2>4, <2>5 DEF Row
  <2>7. rows[a].version = mem[a].version
    BY <1>3, <1>5 DEF ExpectedRow, Doing, UpdateOp, a
  <2>8. mem[a].status = rows[a].status
    BY <1>1, <1>2, <2>7 DEF SwitchInv, VersionIdentifiesState
  <2>9. rows[a].version < w.version
    BY <1>1, <2>2, <2>7, AccountAssumption DEF Row
  <2> QED
    BY <1>1, <1>3, <1>5, <2>2, <2>6, <2>8, <2>9 DEF Effect, Apply, Doing, a, Row
<1>6. CASE Doing(t, {"refresh", "authorize"})
  <2>1. w = [rows[a] EXCEPT !.credentials = @ + 1]
    BY <1>6 DEF Written, Doing, UpdateOp, a
  <2>2. /\ w.version = rows[a].version /\ w.status = rows[a].status
        /\ w.extra = rows[a].extra /\ w.credentials = rows[a].credentials + 1
    BY <1>1, <2>1 DEF Row
  <2>3. w \in Row
    <3>1. w.credentials \in 1..MaxCredentials
      BY <1>1, <1>4, <2>2, AccountAssumption DEF Row
    <3> QED
      BY <1>1, <2>1, <2>2, <3>1 DEF Row
  <2> QED
    BY <1>1, <1>3, <1>6, <2>2, <2>3 DEF Effect, Apply, Doing, RenewOp, a, Row
<1>7. CASE Doing(t, {"catalog"})
  <2>1. w = rows[a]
    BY <1>7 DEF Written, Doing, UpdateOp, a
  <2> QED
    BY <1>1, <1>3, <1>7, <2>1 DEF Effect, Apply, Doing, RenewOp, a, Row
<1>8. CASE ~Doing(t, UpdateOp \cup RenewOp)
  <2>1. w = [rows[a] EXCEPT !.version = rows[a].version + 1, !.status = tasks[t].status]
    BY <1>8 DEF Written, NextVersion, Doing, RenewOp, a
  <2>2. /\ w.version = rows[a].version + 1 /\ w.status = tasks[t].status
        /\ w.extra = rows[a].extra /\ w.credentials = rows[a].credentials
    BY <1>1, <2>1 DEF Row
  <2>3. w \in Row
    <3>1. w.version \in 1..MaxVersion /\ w.status \in Status
      BY <1>1, <1>4, <2>2, AccountAssumption DEF Row, Work
    <3> QED
      BY <1>1, <2>1, <2>2, <3>1 DEF Row
  <2>4. rows[a].version < w.version
    BY <1>1, <2>2, AccountAssumption DEF Row
  <2> QED
    BY <1>1, <1>3, <1>8, <2>2, <2>3, <2>4 DEF Effect, Apply, a, Row
<1> QED
  BY <1>5, <1>6, <1>7, <1>8 DEF Doing, RenewOp

-----------------------------------------------------------------------------
(* Each step keeps the invariant. *)

\* A statement of the store, answered or not, keeps it consistent with the copy.
LEMMA StoreStep ==
  ASSUME SwitchInv, NEW t \in Task, StoreKept \/ (At(t, "writing") /\ Apply(t))
  PROVE  /\ rows' \in [Account -> Row]
         /\ gone' \subseteq Account
         /\ mem' = mem => VersionIdentifiesState'
<1>1. CASE StoreKept
  BY <1>1 DEF StoreKept, SwitchInv, TypeOK, VersionIdentifiesState
<1>2. CASE At(t, "writing") /\ Apply(t)
  <2> DEFINE b == Subject(t)
  <2>1. Effect(t)
    BY <1>2, ApplyEffect
  <2>2. rows' \in [Account -> Row] /\ gone' \subseteq Account
    BY <2>1 DEF Effect, SwitchInv, TypeOK
  <2>3. ASSUME mem' = mem, NEW a \in Account, mem[a] # None
        PROVE  /\ mem[a].version <= rows'[a].version
               /\ mem[a].version = rows'[a].version =>
                    mem[a].status = rows'[a].status /\ mem[a].extra = rows'[a].extra /\ a \notin gone'
    <3>1. /\ mem[a].version \in Int /\ rows[a].version \in Int /\ rows'[a].version \in Int
          /\ mem[a].version <= rows[a].version
          /\ mem[a].version = rows[a].version =>
               mem[a].status = rows[a].status /\ mem[a].extra = rows[a].extra /\ a \notin gone
      BY <2>2, <2>3 DEF SwitchInv, TypeOK, VersionIdentifiesState, Row
    <3>2. CASE a = b
      <4>1. rows'[a] = Written(t)
        BY <2>1, <3>2 DEF Effect, SwitchInv, TypeOK
      <4>2. /\ rows[a].version <= rows'[a].version
            /\ rows[a].version = rows'[a].version =>
                 /\ rows'[a].status = rows[a].status
                 /\ rows'[a].extra = rows[a].extra
                 /\ gone' = gone
        BY <2>1, <3>2, <4>1 DEF Effect
      <4> QED
        BY <3>1, <4>2
    <3>3. CASE a # b
      <4>1. rows'[a] = rows[a] /\ (a \in gone' <=> a \in gone)
        BY <2>1, <3>3 DEF Effect, SwitchInv, TypeOK
      <4> QED
        BY <3>1, <4>1
    <3> QED
      BY <3>2, <3>3
  <2> QED
    BY <2>2, <2>3 DEF VersionIdentifiesState
<1> QED
  BY <1>1, <1>2

\* The steps of a task that finds the lock free, whichever way it goes on.
LEMMA EnterKeeps ==
  ASSUME SwitchInv, NEW t \in Task, NEW ops, Entering(t, ops),
         UNCHANGED <<rows, gone, mem, tombs, paused>>,
         blocked' \subseteq Account, windows' \in [Account -> Window], credits' \subseteq Account,
         End(t) \/ \E status \in Status : AwaitWrite(t, status)
  PROVE  SwitchInv'
<1>1. At(t, "start") /\ TypeOK /\ WritersHold
  BY DEF Entering, SwitchInv
<1>2. VersionIdentifiesState'
  BY DEF SwitchInv, VersionIdentifiesState
<1>3. CASE End(t)
  <2>1. WritersHold'
    <3>1. \A u \in Task \ {t} : tasks[u] # None /\ tasks[u].at # "start" => mem'[Subject(u)] # None
      BY <1>1 DEF WritersHold
    <3> QED
      BY <1>1, <1>3, <3>1, EndHolds
  <2> QED
    BY <1>1, <1>2, <1>3, <2>1, EndType DEF SwitchInv, TypeOK
<1>4. CASE \E status \in Status : AwaitWrite(t, status)
  <2>1. PICK status \in Status : AwaitWrite(t, status)
    BY <1>4
  <2>2. WritersHold'
    BY <1>1, <2>1, AwaitHolds
  <2>3. tasks' \in [Task -> Work \cup {None}] /\ lock' \in Task \cup {None}
    BY <1>1, <2>1, AwaitType
  <2> QED
    BY <1>1, <1>2, <2>2, <2>3 DEF SwitchInv, TypeOK
<1> QED
  BY <1>3, <1>4

\* The handlers and observers, under the lock.
LEMMA EnterStep ==
  ASSUME SwitchInv, NEW t \in Task,
         \/ SetEnabled(t) \/ Update(t) \/ Delete(t) \/ Rejected(t) \/ Observe(t)
         \/ Refresh(t) \/ Authorize(t) \/ SyncModels(t)
  PROVE  SwitchInv'
<1> DEFINE a == Subject(t)
<1>1. /\ blocked \subseteq Account /\ windows \in [Account -> Window] /\ credits \subseteq Account
      /\ tasks[t] # None => tasks[t] \in Work /\ a \in Account
      /\ mem[a] # None /\ a \in Account => mem[a].status \in Status
  BY DEF SwitchInv, TypeOK, Work, Row, Subject
<1>2. CASE SetEnabled(t)
  <2>1. Entering(t, SwitchOp) /\ UNCHANGED <<rows, gone, windows, credits, mem, tombs, paused>>
    BY <1>2 DEF SetEnabled, Block, store, scheduler
  <2>2. blocked' \subseteq Account
    BY <1>1, <1>2 DEF SetEnabled, Block, scheduler, Entering, At
  <2>3. \E status \in Status : AwaitWrite(t, status)
    BY <1>2 DEF SetEnabled, Status
  <2> QED
    BY <1>1, <2>1, <2>2, <2>3, EnterKeeps
<1>3. CASE Update(t)
  <2>1. Entering(t, UpdateOp) /\ UNCHANGED <<rows, gone, windows, credits, mem, tombs, paused>>
    BY <1>3 DEF Update, Block, store, scheduler
  <2>2. blocked' \subseteq Account
    BY <1>1, <1>3 DEF Update, Block, scheduler, Entering, At
  <2>3. End(t) \/ \E status \in Status : AwaitWrite(t, status)
    BY <1>1, <1>3 DEF Update, Entering, At
  <2> QED
    BY <1>1, <2>1, <2>2, <2>3, EnterKeeps
<1>4. CASE Delete(t)
  <2>1. Entering(t, {"delete"}) /\ UNCHANGED <<rows, gone, windows, credits, mem, tombs, paused>>
    BY <1>4 DEF Delete, Block, store
  <2>2. blocked' \subseteq Account
    BY <1>1, <1>4 DEF Delete, Block, Entering, At
  <2>3. \E status \in Status : AwaitWrite(t, status)
    BY <1>4 DEF Delete, Status
  <2> QED
    BY <1>1, <2>1, <2>2, <2>3, EnterKeeps
<1>5. CASE Rejected(t)
  <2>1. Entering(t, {"reject"}) /\ UNCHANGED <<rows, gone, windows, mem, tombs, paused>>
    BY <1>5 DEF Rejected, Block, scheduler
  <2>2. blocked' \subseteq Account /\ credits' \subseteq Account
    BY <1>1, <1>5 DEF Rejected, Block, scheduler, Entering, At
  <2>3. End(t) \/ \E status \in Status : AwaitWrite(t, status)
    BY <1>1, <1>5 DEF Rejected, Entering, At, Work
  <2> QED
    BY <1>1, <2>1, <2>2, <2>3, EnterKeeps
<1>6. CASE Observe(t)
  <2>1. Entering(t, {"observe", "poll", "reconcile"}) /\ UNCHANGED <<rows, gone, mem, tombs, paused>>
    BY <1>6 DEF Observe, Block, scheduler
  <2>2. a \in Account
    BY <1>1, <2>1 DEF Entering, At
  <2>3. blocked' \subseteq Account
    BY <1>1, <1>6, <2>2 DEF Observe, Block, scheduler
  <2>4. windows' \in [Account -> Window] /\ credits' \subseteq Account
    BY <1>1, <1>6, <2>2 DEF Observe
  <2>5. Verdict(a) \in Status
    BY DEF Verdict, Status
  <2>6. End(t) \/ \E status \in Status : AwaitWrite(t, status)
    BY <1>6, <2>5 DEF Observe
  <2> QED
    BY <2>1, <2>3, <2>4, <2>6, EnterKeeps
<1>7. ASSUME NEW op, Renew(t, op)
      PROVE  SwitchInv'
  <2>1. Entering(t, {op}) /\ UNCHANGED <<rows, gone, windows, credits, mem, tombs, blocked, paused>>
    BY <1>7 DEF Renew, store, scheduler
  <2>2. \E status \in Status : AwaitWrite(t, status)
    BY <1>1, <1>7, <2>1 DEF Renew, Entering, At
  <2> QED
    BY <1>1, <2>1, <2>2, EnterKeeps
<1> QED
  BY <1>2, <1>3, <1>4, <1>5, <1>6, <1>7 DEF Refresh, Authorize, SyncModels

\* A task that ends leaves the others as they are.
LEMMA EndKeeps ==
  ASSUME SwitchInv, NEW t \in Task, End(t), mem' = mem
  PROVE  /\ WritersHold'
         /\ tasks' \in [Task -> Work \cup {None}]
         /\ lock' \in Task \cup {None}
<1>1. TypeOK /\ WritersHold
  BY DEF SwitchInv
<1>2. \A u \in Task \ {t} : tasks[u] # None /\ tasks[u].at # "start" => mem'[Subject(u)] # None
  BY <1>1 DEF WritersHold
<1> QED
  BY <1>1, <1>2, EndHolds, EndType

\* What a failed write leads to keeps the invariant, applied or not.
LEMMA ErrorStep ==
  ASSUME SwitchInv, NEW t \in Task, Conflict(t) \/ WriteFails(t)
  PROVE  SwitchInv'
<1>1. /\ At(t, "writing") /\ AfterError(t) /\ UNCHANGED <<windows, credits>>
      /\ StoreKept \/ (At(t, "writing") /\ Apply(t))
  BY DEF Conflict, WriteFails, StoreKept, store
<1>2. tasks[t] \in Work /\ Subject(t) \in Account /\ lock = t /\ mem[Subject(t)] # None
  BY <1>1 DEF SwitchInv, TypeOK, WritersHold, At, Work, Subject
<1>3. SUFFICES /\ mem' = mem /\ tombs' = tombs
               /\ blocked' \subseteq Account /\ paused' \in BOOLEAN
               /\ WritersHold'
               /\ tasks' \in [Task -> Work \cup {None}]
               /\ lock' \in Task \cup {None}
  <2>1. /\ rows' \in [Account -> Row] /\ gone' \subseteq Account
        /\ VersionIdentifiesState'
    BY <1>1, <1>3, StoreStep
  <2> QED
    BY <1>1, <1>3, <2>1 DEF SwitchInv, TypeOK
<1>4. CASE /\ tasks' = [tasks EXCEPT ![t].at = "reloading"]
           /\ UNCHANGED <<scheduler, lock>>
  <2>1. [tasks[t] EXCEPT !.at = "reloading"] \in Work
    BY <1>2 DEF Work
  <2>2. tasks' = [tasks EXCEPT ![t] = [tasks[t] EXCEPT !.at = "reloading"]]
    BY <1>4
  <2>3. /\ tasks' \in [Task -> Work \cup {None}]
        /\ tasks'[t].account = tasks[t].account
        /\ \A u \in Task \ {t} : tasks'[u] = tasks[u]
    BY <1>2, <2>1, <2>2 DEF SwitchInv, TypeOK, Work
  <2>4. WritersHold'
    BY <1>2, <1>4, <2>3 DEF SwitchInv, WritersHold, Subject, scheduler
  <2> QED
    BY <1>4, <2>3, <2>4 DEF SwitchInv, TypeOK, scheduler
<1>5. CASE Publish(Subject(t), mem[Subject(t)]) /\ End(t)
  <2>1. mem' = mem /\ tombs' = tombs /\ blocked' \subseteq Account /\ paused' = paused
    BY <1>5 DEF Publish, SwitchInv, TypeOK
  <2> QED
    BY <1>5, <2>1, EndKeeps DEF SwitchInv, TypeOK
<1>6. CASE PauseAll /\ End(t)
  BY <1>6, EndKeeps DEF SwitchInv, TypeOK, PauseAll
<1>7. CASE UNCHANGED scheduler /\ End(t)
  BY <1>7, EndKeeps DEF SwitchInv, TypeOK, scheduler
<1> QED
  BY <1>1, <1>4, <1>5, <1>6, <1>7 DEF AfterError, OnVerdictLost

\* The answer of the store is published under its new version.
LEMMA AcknowledgedStep ==
  ASSUME SwitchInv, NEW t \in Task, Acknowledged(t)
  PROVE  SwitchInv'
<1> DEFINE b == Subject(t)
<1>1. At(t, "writing") /\ Apply(t) /\ UNCHANGED <<windows, credits>>
  BY DEF Acknowledged
<1>2. tasks[t] \in Work /\ b \in Account /\ lock = t
  BY <1>1 DEF SwitchInv, TypeOK, WritersHold, At, Work, Subject
<1>3. rows' \in [Account -> Row] /\ gone' \subseteq Account /\ Effect(t)
  BY <1>1, StoreStep, ApplyEffect
<1>4. /\ mem' \in [Account -> Row \cup {None}]
      /\ tombs' \subseteq Account /\ blocked' \subseteq Account /\ paused' \in BOOLEAN
      /\ \A a \in Account \ {b} : mem'[a] = mem[a]
      /\ mem'[b] # None /\ mem'[b] # mem[b] => mem'[b] = rows'[b] /\ b \notin gone'
  BY <1>2, <1>3 DEF Acknowledged, Remove, Publish, SwitchInv, TypeOK, Effect
<1>5. \A u \in Task \ {t} : tasks[u] # None => tasks[u].at = "start"
  BY <1>2 DEF SwitchInv, WritersHold
<1>6. /\ tasks' \in [Task -> Work \cup {None}]
      /\ lock' = None
      /\ \A u \in Task : tasks'[u] # None => tasks'[u].at = "start"
  <2>1. CASE End(t)
    BY <1>2, <1>5, <2>1 DEF End, SwitchInv, TypeOK
  <2>2. CASE /\ tasks' = [tasks EXCEPT ![t].op = "reconcile", ![t].at = "start"]
             /\ lock' = None
    <3>1. [tasks[t] EXCEPT !.op = "reconcile", !.at = "start"] \in Work
      BY <1>2 DEF Work, Op, VerdictOp
    <3>2. [tasks[t] EXCEPT !.op = "reconcile", !.at = "start"].at = "start"
      BY <1>2 DEF Work
    <3>3. tasks' = [tasks EXCEPT ![t] = [tasks[t] EXCEPT !.op = "reconcile", !.at = "start"]]
      BY <2>2 DEF SwitchInv, TypeOK
    <3> QED
      BY <1>5, <2>2, <3>1, <3>2, <3>3 DEF SwitchInv, TypeOK
  <2> QED
    BY <2>1, <2>2 DEF Acknowledged
<1>7. VersionIdentifiesState'
  <2> SUFFICES ASSUME NEW a \in Account, mem'[a] # None
               PROVE  /\ mem'[a].version <= rows'[a].version
                      /\ mem'[a].version = rows'[a].version =>
                           /\ mem'[a].status = rows'[a].status
                           /\ mem'[a].extra = rows'[a].extra
                           /\ a \notin gone'
    BY DEF VersionIdentifiesState
  <2>1. CASE mem'[a] = rows'[a] /\ a \notin gone'
    BY <1>3, <2>1 DEF Row
  <2>2. CASE a # b
    <3>1. rows'[a] = rows[a] /\ (a \in gone' <=> a \in gone) /\ mem'[a] = mem[a]
      BY <1>3, <1>4, <2>2 DEF Effect, SwitchInv, TypeOK
    <3> QED
      BY <3>1 DEF SwitchInv, VersionIdentifiesState
  <2>3. CASE a = b /\ mem'[b] = mem[b]
    <3>1. /\ mem[b].version <= rows[b].version
          /\ mem[b].version = rows[b].version =>
               mem[b].status = rows[b].status /\ mem[b].extra = rows[b].extra /\ b \notin gone
          /\ mem[b].version \in Int /\ rows[b].version \in Int
      BY <1>2, <2>3 DEF SwitchInv, TypeOK, VersionIdentifiesState, Row
    <3>2. /\ rows'[b] = Written(t) /\ rows'[b].version \in Int
          /\ rows[b].version <= rows'[b].version
          /\ rows[b].version = rows'[b].version =>
               rows'[b].status = rows[b].status /\ rows'[b].extra = rows[b].extra /\ gone' = gone
      BY <1>2, <1>3 DEF Effect, SwitchInv, TypeOK, Row
    <3> QED
      BY <2>3, <3>1, <3>2
  <2> QED
    BY <1>4, <2>1, <2>2, <2>3
<1> QED
  BY <1>1, <1>3, <1>4, <1>6, <1>7 DEF SwitchInv, TypeOK, WritersHold

\* The task that a beginning makes: the record in memory, and what it carries
\* over from there.
Begun(op, a, status) ==
  [op |-> op, account |-> a, at |-> "start", status |-> status,
   version |-> IF op \in Remembers THEN mem[a].version ELSE 1,
   credentials |-> IF op = "refresh" THEN mem[a].credentials ELSE 1]

\* A task begins with a record it finds in memory, and nothing else changes.
LEMMA Begins ==
  ASSUME NEW t \in Task, Start(t)
  PROVE  /\ UNCHANGED <<store, scheduler, lock>> /\ tasks[t] = None
         /\ \E op \in Op, a \in Account, status \in {"oauth", "quota"} :
              mem[a] # None /\ tasks' = [tasks EXCEPT ![t] = Begun(op, a, status)]
<1>1. PICK op \in Op, a \in Account, status \in {"oauth", "quota"} :
        /\ mem[a] # None
        /\ op \in {"refresh", "catalog"} =>
             \A u \in Task : ~(Doing(u, {op}) /\ Subject(u) = a)
        /\ op = "poll" => mem[a].status # "oauth"
        /\ op = "reconcile" => mem[a].status # "on" \/ mem[a].extra
        /\ op # "reject" => status = "quota"
        /\ tasks' = [tasks EXCEPT ![t] =
             [op |-> op, account |-> a, at |-> "start", status |-> status,
              version |-> IF op \in Remembers THEN mem[a].version ELSE 1,
              credentials |-> IF op = "refresh" THEN mem[a].credentials ELSE 1]]
  BY DEF Start
<1>2. mem[a] # None /\ tasks' = [tasks EXCEPT ![t] = Begun(op, a, status)]
  BY <1>1 DEF Begun
<1>3. UNCHANGED <<store, scheduler, lock>> /\ tasks[t] = None
  BY DEF Start
<1> QED
  BY <1>2, <1>3

\* Beginning, giving up before the lock, and being dropped keep the invariant.
LEMMA EdgeStep ==
  ASSUME SwitchInv, NEW t \in Task,
         Start(t) \/ NotFound(t) \/ RefreshRefused(t) \/ Dropped(t)
  PROVE  SwitchInv'
<1>1. CASE Start(t)
  <2>1. UNCHANGED <<store, scheduler, lock>> /\ tasks[t] = None
    BY <1>1 DEF Start
  <2>2. PICK op \in Op, a \in Account, status \in {"oauth", "quota"} :
          mem[a] # None /\ tasks' = [tasks EXCEPT ![t] = Begun(op, a, status)]
    BY <1>1, Begins
  <2> DEFINE version == IF op \in Remembers THEN mem[a].version ELSE 1
             credentials == IF op = "refresh" THEN mem[a].credentials ELSE 1
             new == [op |-> op, account |-> a, at |-> "start", status |-> status,
                     version |-> version, credentials |-> credentials]
  <2>3. version \in 1..MaxVersion /\ credentials \in 1..MaxCredentials
    BY <2>2, AccountAssumption DEF SwitchInv, TypeOK, Row
  <2> HIDE DEF version, credentials
  <2>4. new \in Work /\ new.at = "start"
    BY <2>3 DEF Work, Status
  <2>5. tasks' = [tasks EXCEPT ![t] = new]
    BY <2>2 DEF version, credentials, Begun
  <2> HIDE DEF new
  <2>6. tasks' \in [Task -> Work \cup {None}]
    BY <2>4, <2>5 DEF SwitchInv, TypeOK
  <2>7. WritersHold'
    BY <2>1, <2>4, <2>5 DEF SwitchInv, TypeOK, WritersHold, Subject, scheduler
  <2> QED
    BY <2>1, <2>6, <2>7 DEF SwitchInv, TypeOK, VersionIdentifiesState, store, scheduler
<1>2. CASE NotFound(t)
  <2>1. End(t) /\ UNCHANGED <<store, scheduler>>
    BY <1>2 DEF NotFound
  <2> QED
    BY <2>1, EndKeeps DEF SwitchInv, TypeOK, VersionIdentifiesState, store, scheduler
<1>3. CASE RefreshRefused(t)
  <2>1. /\ tasks' = [tasks EXCEPT ![t] = [tasks[t] EXCEPT !.op = "reject", !.status = "oauth"]]
        /\ UNCHANGED <<store, scheduler, lock>>
        /\ tasks[t] \in Work /\ tasks[t].at = "start"
    BY <1>3 DEF RefreshRefused, SwitchInv, TypeOK, At
  <2>2. /\ [tasks[t] EXCEPT !.op = "reject", !.status = "oauth"] \in Work
        /\ [tasks[t] EXCEPT !.op = "reject", !.status = "oauth"].at = "start"
    BY <2>1 DEF Work, Op, VerdictOp, Status
  <2>3. /\ tasks' \in [Task -> Work \cup {None}]
        /\ tasks'[t].at = "start"
        /\ \A u \in Task \ {t} : tasks'[u] = tasks[u]
    BY <2>1, <2>2 DEF SwitchInv, TypeOK
  <2>4. WritersHold'
    BY <2>1, <2>3 DEF SwitchInv, WritersHold, Subject, scheduler
  <2> QED
    BY <2>1, <2>3, <2>4 DEF SwitchInv, TypeOK, VersionIdentifiesState, store, scheduler
<1>4. CASE Dropped(t)
  <2>1. /\ End(t) /\ UNCHANGED <<scheduler, windows, credits>>
        /\ StoreKept \/ (At(t, "writing") /\ Apply(t))
    BY <1>4 DEF Dropped
  <2> QED
    BY <2>1, StoreStep, EndKeeps DEF SwitchInv, TypeOK, scheduler
<1> QED
  BY <1>1, <1>2, <1>3, <1>4

\* Reading the accounts back keeps the invariant.
LEMMA ReloadStep ==
  ASSUME SwitchInv, NEW t \in Task, Reload(t) \/ ReloadFails(t)
  PROVE  SwitchInv'
<1>1. lock = t
  BY DEF Reload, ReloadFails, SwitchInv, WritersHold, At
<1>2. CASE Reload(t)
  <2> DEFINE listed == Account \ (gone \cup tombs)
  <2>1. /\ mem' = [a \in Account |-> IF a \in listed THEN rows[a] ELSE mem[a]]
        /\ blocked' = blocked \ listed
        /\ End(t) /\ UNCHANGED <<store, tombs, paused>>
    BY <1>2 DEF Reload
  <2>2. WritersHold'
    BY <1>1, <2>1 DEF SwitchInv, TypeOK, WritersHold, End, Subject
  <2>3. VersionIdentifiesState'
    <3> SUFFICES ASSUME NEW a \in Account, mem'[a] # None
                 PROVE  /\ mem'[a].version <= rows[a].version
                        /\ mem'[a].version = rows[a].version =>
                             /\ mem'[a].status = rows[a].status
                             /\ mem'[a].extra = rows[a].extra
                             /\ a \notin gone
      BY <2>1 DEF VersionIdentifiesState, store
    <3>1. CASE a \in listed
      BY <2>1, <3>1 DEF SwitchInv, TypeOK, Row
    <3>2. CASE a \notin listed
      BY <2>1, <3>2 DEF SwitchInv, VersionIdentifiesState
    <3> QED
      BY <3>1, <3>2
  <2>4. mem' \in [Account -> Row \cup {None}]
    BY <2>1 DEF SwitchInv, TypeOK
  <2> QED
    BY <2>1, <2>2, <2>3, <2>4, EndType DEF SwitchInv, TypeOK, store
<1>3. CASE ReloadFails(t)
  BY <1>3, EndKeeps DEF ReloadFails, PauseAll, SwitchInv, TypeOK, VersionIdentifiesState, store
<1> QED
  BY <1>2, <1>3

\* Time, errors elsewhere and a restart keep the invariant.
LEMMA SurroundingStep ==
  ASSUME SwitchInv, Elapse \/ PausedElsewhere \/ Restart
  PROVE  SwitchInv'
<1>1. CASE Elapse
  BY <1>1 DEF Elapse, scheduler, SwitchInv, TypeOK, WritersHold, VersionIdentifiesState, Subject, Window
<1>2. CASE PausedElsewhere
  BY <1>2 DEF PausedElsewhere, PauseAll, store, SwitchInv, TypeOK, WritersHold, VersionIdentifiesState, Subject
<1>3. CASE Restart
  <2>1. rows' \in [Account -> Row] /\ gone' \subseteq Account
    <3>1. CASE StoreKept
      BY <3>1 DEF StoreKept, SwitchInv, TypeOK
    <3>2. CASE \E t \in Task : At(t, "writing") /\ Apply(t)
      BY <3>2, StoreStep
    <3> QED
      BY <1>3, <3>1, <3>2 DEF Restart
  <2>2. \A a \in Account : mem'[a] # None => mem'[a] = rows'[a] /\ a \notin gone'
    BY <1>3 DEF Restart, Loaded
  <2>3. mem' \in [Account -> Row \cup {None}]
    BY <1>3, <2>1 DEF Restart, Loaded
  <2>4. VersionIdentifiesState'
    BY <2>1, <2>2 DEF VersionIdentifiesState, Row
  <2> QED
    BY <1>3, <2>1, <2>3, <2>4 DEF Restart, SwitchInv, TypeOK, WritersHold
<1> QED
  BY <1>1, <1>2, <1>3

-----------------------------------------------------------------------------
(* The invariant holds. *)

LEMMA SwitchInvInit == Init => SwitchInv
<1> SUFFICES ASSUME Init PROVE SwitchInv
  OBVIOUS
<1>1. rows \in [Account -> Row]
  BY AccountAssumption DEF Init, Row
<1>2. TypeOK
  BY <1>1 DEF Init, TypeOK, Window
<1>3. WritersHold
  BY DEF Init, WritersHold
<1>4. VersionIdentifiesState
  BY <1>1 DEF Init, VersionIdentifiesState, Row
<1> QED
  BY <1>2, <1>3, <1>4 DEF SwitchInv

LEMMA SwitchInvStep == SwitchInv /\ [Next]_vars => SwitchInv'
<1> SUFFICES ASSUME SwitchInv, [Next]_vars PROVE SwitchInv'
  OBVIOUS
<1>1. CASE UNCHANGED vars
  BY <1>1 DEF vars, store, scheduler, SwitchInv, TypeOK, WritersHold, VersionIdentifiesState, Subject
<1>2. ASSUME NEW t \in Task, TaskStep(t)
      PROVE  SwitchInv'
  BY <1>2, EdgeStep, EnterStep, AcknowledgedStep, ErrorStep, ReloadStep DEF TaskStep
<1> QED
  BY <1>1, <1>2, SurroundingStep DEF Next

\* The rows, the scheduler's copies and the tasks are always of their types: no
\* handler reads a field of a record that is not there.
THEOREM ControlTypeCorrect == Spec => []TypeOK
<1>1. SwitchInv => TypeOK
  BY DEF SwitchInv
<1> QED
  BY <1>1, SwitchInvInit, SwitchInvStep, PTL DEF Spec

\* Who is past the mutations lock holds it, and the account it changes is in
\* memory until it is done, through dropped handlers and restarts.
THEOREM ControlConsistent == Spec => []SwitchInv
BY SwitchInvInit, SwitchInvStep, PTL DEF Spec

\* The scheduler's copy is never ahead of the store and a copy of the same version
\* says the same, whichever writes fail or are applied without an answer.
THEOREM SameVersionSameState == Spec => []VersionIdentifiesState
<1>1. SwitchInv => VersionIdentifiesState
  BY DEF SwitchInv
<1> QED
  BY <1>1, SwitchInvInit, SwitchInvStep, PTL DEF Spec

-----------------------------------------------------------------------------
(* A disabled account is not chosen.  A deletion whose write fails puts back *)
(* the record of an account that may be disabled, so this holds where those  *)
(* writes do not fail.                                                       *)

\* A write that turns its account off, or away, is under way.
TurnsOff(t) ==
  /\ At(t, "writing")
  /\ ~Doing(t, UpdateOp \cup RenewOp)
  /\ Doing(t, {"delete"}) \/ tasks[t].status # "on"

\* Whoever is about to turn an account off has blocked it.
BlockedFirst == \A t \in Task : TurnsOff(t) => Subject(t) \in blocked

GoneIsForgotten == \A a \in gone : mem[a] = None

OutInv == SwitchInv /\ DisabledStaysOut /\ BlockedFirst /\ GoneIsForgotten

\* A task under the lock is alone past it.
LEMMA Alone ==
  ASSUME SwitchInv, NEW t \in Task, lock = None \/ lock = t, NEW u \in Task \ {t}
  PROVE  ~At(u, "writing")
BY AccountAssumption DEF SwitchInv, WritersHold, At

\* Under the lock, an operation blocks the account before a write that turns it off.
LEMMA OutEnterKeeps ==
  ASSUME OutInv, NEW t \in Task, NEW ops, Entering(t, ops),
         UNCHANGED <<rows, gone, mem, paused>>,
         blocked \subseteq blocked',
         \/ End(t)
         \/ \E status \in Status :
              /\ AwaitWrite(t, status)
              /\ TurnsOff(t)' => Subject(t) \in blocked'
  PROVE  DisabledStaysOut' /\ BlockedFirst' /\ GoneIsForgotten'
<1>1. GoneIsForgotten'
  BY DEF OutInv, GoneIsForgotten
<1>2. DisabledStaysOut'
  BY DEF OutInv, DisabledStaysOut, Dispatchable
<1>3. \A u \in Task \ {t} : ~At(u, "writing")
  BY Alone DEF Entering, OutInv
<1>4. \A u \in Task \ {t} : tasks'[u] = tasks[u]
  BY DEF End, AwaitWrite, OutInv, SwitchInv, TypeOK
<1>5. TurnsOff(t)' => Subject(t)' \in blocked'
  <2>1. CASE End(t)
    BY <2>1 DEF End, TurnsOff, At, OutInv, SwitchInv, TypeOK
  <2>2. CASE \E status \in Status :
              /\ AwaitWrite(t, status)
              /\ TurnsOff(t)' => Subject(t) \in blocked'
    <3>1. tasks[t] \in Work
      BY DEF Entering, At, OutInv, SwitchInv, TypeOK
    <3>2. tasks \in [Task -> Work \cup {None}]
      BY DEF OutInv, SwitchInv, TypeOK
    <3>3. PICK status \in Status : tasks' = [tasks EXCEPT ![t].at = "writing", ![t].status = status]
      BY <2>2 DEF AwaitWrite
    <3>4. tasks'[t] = [tasks[t] EXCEPT !.at = "writing", !.status = status]
      BY <3>2, <3>3
    <3>5. Subject(t)' = Subject(t)
      BY <3>1, <3>4 DEF Subject, Work
    <3> QED
      BY <2>2, <3>5
  <2> QED
    BY <2>1, <2>2
<1> QED
  BY <1>1, <1>2, <1>3, <1>4, <1>5 DEF BlockedFirst, TurnsOff, At

\* What going on to the write leaves of the task.
LEMMA AwaitEffect ==
  ASSUME SwitchInv, NEW t \in Task, At(t, "start"), NEW status, AwaitWrite(t, status)
  PROVE  tasks'[t].op = tasks[t].op /\ tasks'[t].status = status
<1>1. tasks[t] \in Work /\ lock' = t
  BY DEF At, SwitchInv, TypeOK, AwaitWrite
<1>2. tasks'[t] = [tasks[t] EXCEPT !.at = "writing", !.status = status]
  BY DEF AwaitWrite, SwitchInv, TypeOK
<1> QED
  BY <1>1, <1>2 DEF Work

LEMMA OutEnterStep ==
  ASSUME OutInv, NEW t \in Task,
         \/ SetEnabled(t) \/ Update(t) \/ Delete(t) \/ Rejected(t) \/ Observe(t)
         \/ Refresh(t) \/ Authorize(t) \/ SyncModels(t)
  PROVE  DisabledStaysOut' /\ BlockedFirst' /\ GoneIsForgotten'
<1> DEFINE a == Subject(t)
<1>1. SwitchInv /\ (At(t, "start") => tasks[t] \in Work /\ a \in Account)
  BY DEF OutInv, SwitchInv, TypeOK, At, Work, Subject
<1>2. CASE SetEnabled(t)
  <2>1. Entering(t, SwitchOp) /\ UNCHANGED <<rows, gone, mem, paused>> /\ blocked \subseteq blocked'
    BY <1>2 DEF SetEnabled, Block, store, scheduler
  <2>2. CASE tasks[t].op = "disable"
    BY <1>2, <2>1, <2>2, OutEnterKeeps DEF SetEnabled, Block, Status
  <2>3. CASE tasks[t].op # "disable"
    <3>1. AwaitWrite(t, "on")
      BY <1>2, <2>3 DEF SetEnabled
    <3>2. tasks'[t].op = tasks[t].op /\ tasks'[t].status = "on"
      BY <1>1, <2>1, <3>1, AwaitEffect DEF Entering
    <3>3. ~TurnsOff(t)'
      BY <2>1, <2>3, <3>2 DEF TurnsOff, Entering, Doing, SwitchOp
    <3> QED
      BY <2>1, <3>1, <3>3, OutEnterKeeps DEF Status
  <2> QED
    BY <2>2, <2>3
<1>3. CASE Update(t)
  <2>1. Entering(t, UpdateOp) /\ UNCHANGED <<rows, gone, mem, paused>> /\ blocked \subseteq blocked'
    BY <1>3 DEF Update, Block, store, scheduler
  <2>2. mem[a].status \in Status
    BY <1>1, <2>1 DEF Entering, SwitchInv, TypeOK, Row
  <2> QED
    BY <1>3, <2>1, <2>2, OutEnterKeeps DEF Update, Block
<1>4. CASE Delete(t)
  <2>1. Entering(t, {"delete"}) /\ UNCHANGED <<rows, gone, mem, paused>> /\ blocked \subseteq blocked'
    BY <1>4 DEF Delete, Block, store
  <2> QED
    BY <1>4, <2>1, OutEnterKeeps DEF Delete, Block, Status
<1>5. CASE Rejected(t)
  <2>1. Entering(t, {"reject"}) /\ UNCHANGED <<rows, gone, mem, paused>> /\ blocked \subseteq blocked'
    BY <1>5 DEF Rejected, Block, scheduler
  <2>2. End(t) \/ (Block(a) /\ AwaitWrite(t, tasks[t].status) /\ tasks[t].status \in Status)
    BY <1>1, <1>5, <2>1 DEF Rejected, Entering, Work
  <2> QED
    BY <2>1, <2>2, OutEnterKeeps DEF Block
<1>6. CASE Observe(t)
  <2>1. /\ Entering(t, {"observe", "poll", "reconcile"})
        /\ UNCHANGED <<rows, gone, mem, paused>> /\ blocked \subseteq blocked'
    BY <1>6 DEF Observe, Block, scheduler
  <2>2. End(t) \/ (Block(a) /\ AwaitWrite(t, Verdict(a)))
    BY <1>6 DEF Observe
  <2>3. Verdict(a) \in Status
    BY DEF Verdict, Status
  <2> QED
    BY <2>1, <2>2, <2>3, OutEnterKeeps DEF Block
<1>7. ASSUME NEW op \in RenewOp, Renew(t, op)
      PROVE  DisabledStaysOut' /\ BlockedFirst' /\ GoneIsForgotten'
  <2>1. Entering(t, {op}) /\ UNCHANGED <<rows, gone, mem, paused>> /\ blocked \subseteq blocked'
    BY <1>7 DEF Renew, store, scheduler
  <2>2. AwaitWrite(t, mem[a].status) /\ mem[a].status \in Status
    BY <1>1, <1>7, <2>1 DEF Renew, Entering, SwitchInv, TypeOK, Row
  <2>3. tasks'[t].op = op
    BY <1>1, <2>1, <2>2, AwaitEffect DEF Entering, Doing
  <2>4. ~TurnsOff(t)'
    BY <1>7, <2>3 DEF TurnsOff, Doing, At
  <2> QED
    BY <2>1, <2>2, <2>4, OutEnterKeeps
<1> QED
  BY <1>2, <1>3, <1>4, <1>5, <1>6, <1>7 DEF Refresh, Authorize, SyncModels, RenewOp

\* A statement whose answer does not arrive leaves the account blocked, or as it was.
LEMMA UnansweredKeeps ==
  ASSUME OutInv, NEW t \in Task,
         StoreKept \/ (At(t, "writing") /\ ~Doing(t, {"delete"}) /\ Apply(t)),
         mem' = mem, paused => paused', paused' \/ blocked \subseteq blocked'
  PROVE  DisabledStaysOut' /\ GoneIsForgotten'
<1>1. CASE StoreKept
  BY <1>1 DEF OutInv, DisabledStaysOut, GoneIsForgotten, Dispatchable, StoreKept
<1>2. CASE At(t, "writing") /\ ~Doing(t, {"delete"}) /\ Apply(t)
  <2>1. Effect(t)
    BY <1>2, ApplyEffect DEF OutInv
  <2>2. GoneIsForgotten'
    BY <1>2, <2>1 DEF OutInv, GoneIsForgotten, Effect
  <2>3. DisabledStaysOut'
    <3> SUFFICES ASSUME NEW a \in Account, Dispatchable(a)'
                 PROVE  rows'[a].status = "on" /\ a \notin gone'
      BY DEF DisabledStaysOut
    <3>1. /\ Dispatchable(a) /\ rows[a].status = "on" /\ a \notin gone
      BY DEF OutInv, DisabledStaysOut, Dispatchable
    <3>2. a \notin gone' /\ a \notin blocked
      BY <1>2, <2>1, <3>1 DEF Effect, Dispatchable
    <3>3. CASE a = Subject(t)
      <4>1. rows'[a] = Written(t)
        BY <2>1, <3>3 DEF Effect, OutInv, SwitchInv, TypeOK
      <4>2. ~TurnsOff(t)
        BY <3>2, <3>3 DEF OutInv, BlockedFirst
      <4>3. Doing(t, UpdateOp \cup RenewOp) \/ tasks[t].status = "on"
        BY <1>2, <4>2 DEF TurnsOff
      <4> QED
        BY <2>1, <3>1, <3>2, <3>3, <4>1, <4>3 DEF Effect
    <3>4. CASE a # Subject(t)
      BY <2>1, <3>1, <3>2, <3>4 DEF Effect, OutInv, SwitchInv, TypeOK
    <3> QED
      BY <3>3, <3>4
  <2> QED
    BY <2>2, <2>3
<1> QED
  BY <1>1, <1>2

\* When one task leaves its write, the others have still blocked theirs.
LEMMA NotWriting ==
  ASSUME OutInv, NEW t \in Task, lock = t \/ blocked \subseteq blocked',
         ~At(t, "writing")', \A u \in Task \ {t} : tasks'[u] = tasks[u]
  PROVE  BlockedFirst'
<1> SUFFICES ASSUME NEW u \in Task, TurnsOff(u)'
             PROVE  Subject(u)' \in blocked'
  BY DEF BlockedFirst
<1>1. u # t /\ tasks'[u] = tasks[u]
  BY DEF TurnsOff
<1>2. TurnsOff(u) /\ Subject(u) \in blocked /\ Subject(u)' = Subject(u)
  BY <1>1 DEF OutInv, BlockedFirst, TurnsOff, At, Doing, Subject
<1>3. lock # t
  BY <1>1, <1>2, Alone DEF OutInv, TurnsOff
<1> QED
  BY <1>2, <1>3

\* Ending is such a step.
LEMMA EndedIsIdle ==
  ASSUME OutInv, NEW t \in Task, End(t)
  PROVE  ~At(t, "writing")' /\ \A u \in Task \ {t} : tasks'[u] = tasks[u]
BY DEF End, At, OutInv, SwitchInv, TypeOK

\* A write that fails keeps the block, or stops dispatch.
LEMMA OutErrorStep ==
  ASSUME "delete" \notin Failing, OutInv, NEW t \in Task, Conflict(t) \/ WriteFails(t)
  PROVE  DisabledStaysOut' /\ BlockedFirst' /\ GoneIsForgotten'
<1>1. /\ At(t, "writing") /\ AfterError(t) /\ tasks[t] \in Work /\ lock = t
      /\ Subject(t) \in Account /\ mem[Subject(t)] # None
  BY DEF Conflict, WriteFails, OutInv, SwitchInv, TypeOK, WritersHold, At, Work, Subject
<1>2. ~Doing(t, {"delete"})
  <2>1. CASE Conflict(t)
    <3>1. Doing(t, {"delete"}) => Subject(t) \in gone
      BY <2>1 DEF Conflict, Accepted, ExpectedRow, Doing
    <3> QED
      BY <1>1, <3>1 DEF OutInv, GoneIsForgotten
  <2>2. CASE WriteFails(t)
    BY <2>2 DEF WriteFails, Doing
  <2> QED
    BY <2>1, <2>2
<1>3. StoreKept \/ (At(t, "writing") /\ ~Doing(t, {"delete"}) /\ Apply(t))
  BY <1>1, <1>2 DEF Conflict, WriteFails, StoreKept, store
<1>4. CASE /\ tasks' = [tasks EXCEPT ![t].at = "reloading"]
           /\ UNCHANGED <<scheduler, lock>>
  <2>1. /\ tasks'[t] = [tasks[t] EXCEPT !.at = "reloading"]
        /\ \A u \in Task \ {t} : tasks'[u] = tasks[u]
    BY <1>4 DEF OutInv, SwitchInv, TypeOK
  <2>2. ~At(t, "writing")'
    BY <1>1, <2>1 DEF At, Work
  <2> QED
    BY <1>1, <1>3, <1>4, <2>1, <2>2, UnansweredKeeps, NotWriting DEF scheduler
<1>5. CASE PauseAll /\ End(t)
  BY <1>1, <1>3, <1>5, UnansweredKeeps, NotWriting, EndedIsIdle DEF PauseAll
<1>6. CASE UNCHANGED scheduler /\ End(t)
  BY <1>1, <1>3, <1>6, UnansweredKeeps, NotWriting, EndedIsIdle DEF scheduler
<1> QED
  BY <1>1, <1>2, <1>4, <1>5, <1>6 DEF AfterError, OnVerdictLost

\* The answer of the store lifts the block with the row it returned.
LEMMA OutAcknowledgedStep ==
  ASSUME OutInv, NEW t \in Task, Acknowledged(t)
  PROVE  DisabledStaysOut' /\ BlockedFirst' /\ GoneIsForgotten'
<1> DEFINE b == Subject(t)
<1>1. At(t, "writing") /\ Apply(t) /\ Effect(t) /\ lock = t /\ tasks[t] \in Work /\ b \in Account
  BY ApplyEffect DEF Acknowledged, OutInv, SwitchInv, TypeOK, WritersHold, At, Work, Subject
<1>2. BlockedFirst'
  <2>1. CASE End(t)
    BY <1>1, <2>1, NotWriting, EndedIsIdle
  <2>2. CASE tasks' = [tasks EXCEPT ![t].op = "reconcile", ![t].at = "start"]
    <3>1. tasks'[t] = [tasks[t] EXCEPT !.op = "reconcile", !.at = "start"]
      BY <1>1, <2>2 DEF OutInv, SwitchInv, TypeOK
    <3>2. \A u \in Task \ {t} : tasks'[u] = tasks[u]
      BY <2>2 DEF OutInv, SwitchInv, TypeOK
    <3>3. ~At(t, "writing")'
      BY <1>1, <3>1 DEF At, Work
    <3> QED
      BY <1>1, <3>2, <3>3, NotWriting
  <2> QED
    BY <2>1, <2>2 DEF Acknowledged
<1>3. CASE Doing(t, {"delete"})
  <2>1. Remove(b) /\ gone' = gone \cup {b} /\ rows' = [rows EXCEPT ![b] = Written(t)]
    BY <1>1, <1>3 DEF Acknowledged, Effect
  <2>2. mem'[b] = None /\ \A a \in Account \ {b} : mem'[a] = mem[a] /\ rows'[a] = rows[a]
    BY <1>1, <2>1 DEF Remove, OutInv, SwitchInv, TypeOK
  <2>3. GoneIsForgotten'
    BY <2>1, <2>2 DEF GoneIsForgotten, OutInv, SwitchInv, TypeOK
  <2>4. DisabledStaysOut'
    BY <2>1, <2>2 DEF DisabledStaysOut, Dispatchable, OutInv, Remove
  <2> QED
    BY <1>2, <2>3, <2>4
<1>4. CASE ~Doing(t, {"delete"})
  <2>1. Publish(b, rows'[b])
    BY <1>4 DEF Acknowledged
  <2>2. CASE b \in tombs
    <3>1. UNCHANGED <<mem, blocked, paused>>
      BY <2>1, <2>2 DEF Publish
    <3> QED
      BY <1>1, <1>2, <1>4, <3>1, UnansweredKeeps
  <2>3. CASE b \notin tombs
    <3>1. /\ mem' = [mem EXCEPT ![b] = rows'[b]]
          /\ blocked' = blocked \ {b} /\ paused' = paused
      BY <2>1, <2>3 DEF Publish
    <3>2. gone' = gone /\ b \notin gone /\ \A a \in Account \ {b} : rows'[a] = rows[a]
      BY <1>1, <1>4 DEF Effect, OutInv, SwitchInv, TypeOK
    <3>3. mem'[b] = rows'[b] /\ \A a \in Account \ {b} : mem'[a] = mem[a]
      BY <1>1, <3>1 DEF OutInv, SwitchInv, TypeOK
    <3>4. GoneIsForgotten'
      BY <3>2, <3>3 DEF GoneIsForgotten, OutInv, SwitchInv, TypeOK
    <3>5. DisabledStaysOut'
      BY <3>1, <3>2, <3>3 DEF DisabledStaysOut, Dispatchable, OutInv
    <3> QED
      BY <1>2, <3>4, <3>5
  <2> QED
    BY <2>2, <2>3
<1> QED
  BY <1>3, <1>4

\* Reading back unblocks what it has read.
LEMMA OutReloadStep ==
  ASSUME OutInv, NEW t \in Task, Reload(t) \/ ReloadFails(t)
  PROVE  DisabledStaysOut' /\ BlockedFirst' /\ GoneIsForgotten'
<1>1. lock = t /\ End(t)
  BY DEF Reload, ReloadFails, OutInv, SwitchInv, WritersHold, At
<1>2. BlockedFirst'
  BY <1>1, NotWriting, EndedIsIdle
<1>3. CASE Reload(t)
  <2> DEFINE listed == Account \ (gone \cup tombs)
  <2>1. /\ mem' = [a \in Account |-> IF a \in listed THEN rows[a] ELSE mem[a]]
        /\ blocked' = blocked \ listed
        /\ UNCHANGED <<rows, gone, paused>>
    BY <1>3 DEF Reload, store
  <2>2. GoneIsForgotten'
    BY <2>1 DEF GoneIsForgotten, OutInv, SwitchInv, TypeOK
  <2>3. DisabledStaysOut'
    <3> SUFFICES ASSUME NEW a \in Account, Dispatchable(a)'
                 PROVE  rows[a].status = "on" /\ a \notin gone
      BY <2>1 DEF DisabledStaysOut
    <3>1. CASE a \in listed
      BY <2>1, <3>1 DEF Dispatchable
    <3>2. CASE a \notin listed
      BY <2>1, <3>2 DEF Dispatchable, DisabledStaysOut, OutInv
    <3> QED
      BY <3>1, <3>2
  <2> QED
    BY <1>2, <2>2, <2>3
<1>4. CASE ReloadFails(t)
  BY <1>2, <1>4 DEF ReloadFails, PauseAll, store, DisabledStaysOut, Dispatchable, GoneIsForgotten, OutInv
<1> QED
  BY <1>3, <1>4

\* So do the steps at the edges of a task.
LEMMA OutEdgeStep ==
  ASSUME "delete" \notin Failing, OutInv, NEW t \in Task,
         Start(t) \/ NotFound(t) \/ RefreshRefused(t) \/ Dropped(t)
  PROVE  DisabledStaysOut' /\ BlockedFirst' /\ GoneIsForgotten'
<1>1. CASE Start(t)
  <2>1. UNCHANGED <<rows, gone, mem, blocked, paused>>
    BY <1>1 DEF Start, store, scheduler
  <2>2. PICK op \in Op, a \in Account, status \in {"oauth", "quota"} :
          tasks' = [tasks EXCEPT ![t] = Begun(op, a, status)]
    BY <1>1, Begins
  <2>3. ~At(t, "writing")' /\ \A u \in Task \ {t} : tasks'[u] = tasks[u]
    BY <2>2 DEF At, Begun, OutInv, SwitchInv, TypeOK
  <2> QED
    BY <2>1, <2>3, NotWriting DEF DisabledStaysOut, Dispatchable, GoneIsForgotten, OutInv
<1>2. CASE NotFound(t)
  BY <1>2, NotWriting, EndedIsIdle
     DEF NotFound, store, scheduler, DisabledStaysOut, Dispatchable, GoneIsForgotten, OutInv
<1>3. CASE RefreshRefused(t)
  <2>1. UNCHANGED <<rows, gone, mem, blocked, paused>>
    BY <1>3 DEF RefreshRefused, store, scheduler
  <2>2. /\ tasks' = [tasks EXCEPT ![t] = [tasks[t] EXCEPT !.op = "reject", !.status = "oauth"]]
        /\ tasks[t] \in Work /\ tasks[t].at = "start"
    BY <1>3 DEF RefreshRefused, At, OutInv, SwitchInv, TypeOK
  <2>3. ~At(t, "writing")' /\ \A u \in Task \ {t} : tasks'[u] = tasks[u]
    BY <2>2 DEF At, OutInv, SwitchInv, TypeOK, Work
  <2> QED
    BY <2>1, <2>3, NotWriting DEF DisabledStaysOut, Dispatchable, GoneIsForgotten, OutInv
<1>4. CASE Dropped(t)
  <2>1. End(t) /\ UNCHANGED scheduler
    BY <1>4 DEF Dropped
  <2>2. StoreKept \/ (At(t, "writing") /\ ~Doing(t, {"delete"}) /\ Apply(t))
    BY <1>4, AccountAssumption DEF Dropped, Doing
  <2> QED
    BY <2>1, <2>2, UnansweredKeeps, NotWriting, EndedIsIdle DEF scheduler
<1> QED
  BY <1>1, <1>2, <1>3, <1>4

\* And time, errors elsewhere and a restart, which forgets the blocks and the deleted.
LEMMA OutSurroundingStep ==
  ASSUME OutInv, Elapse \/ PausedElsewhere \/ Restart
  PROVE  DisabledStaysOut' /\ BlockedFirst' /\ GoneIsForgotten'
<1>1. CASE Elapse \/ PausedElsewhere
  <2>1. UNCHANGED <<rows, gone, mem, blocked, tasks>> /\ (paused => paused')
    BY <1>1 DEF Elapse, PausedElsewhere, PauseAll, store, scheduler
  <2> QED
    BY <2>1 DEF OutInv, DisabledStaysOut, Dispatchable, BlockedFirst, TurnsOff, At, Doing, Subject, GoneIsForgotten
<1>2. CASE Restart
  <2>1. \A a \in Account : mem'[a] # None => mem'[a] = rows'[a] /\ a \notin gone'
    BY <1>2 DEF Restart, Loaded
  <2>2. gone' \subseteq Account
    BY <1>2, SurroundingStep DEF OutInv, SwitchInv, TypeOK
  <2> QED
    BY <1>2, <2>1, <2>2 DEF Restart, DisabledStaysOut, Dispatchable, BlockedFirst, TurnsOff, At, GoneIsForgotten
<1> QED
  BY <1>1, <1>2

LEMMA OutInvInit == Init => OutInv
<1> SUFFICES ASSUME Init PROVE OutInv
  OBVIOUS
<1>1. DisabledStaysOut
  BY DEF Init, DisabledStaysOut, Dispatchable
<1> QED
  BY <1>1, SwitchInvInit DEF Init, OutInv, BlockedFirst, TurnsOff, At, GoneIsForgotten

LEMMA OutInvStep ==
  ASSUME "delete" \notin Failing
  PROVE  OutInv /\ [Next]_vars => OutInv'
<1> SUFFICES ASSUME OutInv, [Next]_vars PROVE OutInv'
  OBVIOUS
<1>1. SwitchInv'
  BY SwitchInvStep DEF OutInv
<1>2. CASE UNCHANGED vars
  BY <1>1, <1>2 DEF vars, store, scheduler, OutInv, DisabledStaysOut, Dispatchable,
                    BlockedFirst, TurnsOff, At, Doing, Subject, GoneIsForgotten
<1>3. ASSUME NEW t \in Task, TaskStep(t)
      PROVE  DisabledStaysOut' /\ BlockedFirst' /\ GoneIsForgotten'
  BY <1>3, OutEdgeStep, OutEnterStep, OutAcknowledgedStep, OutErrorStep, OutReloadStep DEF TaskStep
<1> QED
  BY <1>1, <1>2, <1>3, OutSurroundingStep DEF Next, OutInv

\* An account that the store has disabled or deleted is never chosen, as long as
\* the writes of deletions do not fail: each handler blocks before it writes, a
\* failed verdict stops dispatch, and only what was read back lifts a block.
THEOREM NotDispatchedWhenOff ==
  ASSUME "delete" \notin Failing
  PROVE  Spec => []DisabledStaysOut
<1>1. OutInv => DisabledStaysOut
  BY DEF OutInv
<1>2. OutInv /\ [Next]_vars => OutInv'
  BY OutInvStep
<1> QED
  BY <1>1, <1>2, OutInvInit, PTL DEF Spec

-----------------------------------------------------------------------------
(* Who may turn an account on, and on whose word. *)

\* What a task writes has its ground in the record it found under the lock: a
\* disable and a deletion turn the account off, a verdict turns it on only if
\* the quota had turned it off, and what was observed is of this version.
Grounded(t) ==
  /\ Doing(t, {"reject"}) => tasks[t].status \in {"oauth", "quota"}
  /\ At(t, "writing") =>
       /\ Doing(t, {"disable", "delete"}) => tasks[t].status = "admin"
       /\ Doing(t, {"observe", "poll", "reconcile"}) /\ tasks[t].status = "on" =>
            mem[Subject(t)].status = "quota"
       /\ Doing(t, {"reject", "observe", "poll"}) =>
            tasks[t].version = mem[Subject(t)].version

AllGrounded == \A t \in Task : Grounded(t)

\* A step of one task leaves the ground of the others alone: it changes the
\* copies in memory only if it holds the lock, and then nobody else writes.
LEMMA OthersGrounded ==
  ASSUME SwitchInv, AllGrounded, NEW t \in Task, mem' = mem \/ lock = t,
         \A u \in Task \ {t} : tasks'[u] = tasks[u],
         Grounded(t)'
  PROVE  AllGrounded'
<1> SUFFICES ASSUME NEW u \in Task \ {t}
             PROVE  Grounded(u)'
  BY DEF AllGrounded
<1>1. Grounded(u)
  BY DEF AllGrounded
<1>2. CASE mem' = mem
  BY <1>1, <1>2 DEF Grounded, At, Doing, Subject
<1>3. CASE lock = t
  <2>1. ~At(u, "writing")
    BY <1>3, Alone
  <2> QED
    BY <1>1, <2>1 DEF Grounded, At, Doing
<1> QED
  BY <1>2, <1>3

\* A task that is over needs no ground.
LEMMA EndGrounded ==
  ASSUME SwitchInv, NEW t \in Task, End(t)
  PROVE  Grounded(t)' /\ \A u \in Task \ {t} : tasks'[u] = tasks[u]
BY DEF End, Grounded, At, Doing, SwitchInv, TypeOK

\* A task that goes on to write a status has the ground it needs for it.
LEMMA AwaitGrounded ==
  ASSUME SwitchInv, NEW t \in Task, Grounded(t), At(t, "start"), mem' = mem,
         NEW status \in Status, AwaitWrite(t, status),
         Doing(t, {"reject"}) => status \in {"oauth", "quota"},
         Doing(t, {"disable", "delete"}) => status = "admin",
         Doing(t, {"observe", "poll", "reconcile"}) /\ status = "on" => mem[Subject(t)].status = "quota",
         Doing(t, {"reject", "observe", "poll"}) => StillCurrent(t)
  PROVE  Grounded(t)' /\ \A u \in Task \ {t} : tasks'[u] = tasks[u]
<1>1. tasks[t] \in Work /\ tasks \in [Task -> Work \cup {None}]
  BY DEF At, SwitchInv, TypeOK
<1>2. tasks' = [tasks EXCEPT ![t] = [tasks[t] EXCEPT !.at = "writing", !.status = status]]
  BY DEF AwaitWrite
<1>3. /\ tasks'[t].op = tasks[t].op /\ tasks'[t].account = tasks[t].account
      /\ tasks'[t].version = tasks[t].version /\ tasks'[t].status = status
  BY <1>1, <1>2 DEF Work
<1>4. \A u \in Task \ {t} : tasks'[u] = tasks[u]
  BY <1>1, <1>2
<1>5. tasks[t] # None
  BY DEF At
<1> QED
  BY <1>3, <1>4, <1>5 DEF Grounded, Doing, Subject, StillCurrent

\* Entering the lock, every operation checks what it is about to write.
LEMMA EnterGrounded ==
  ASSUME SwitchInv, AllGrounded, NEW t \in Task,
         \/ SetEnabled(t) \/ Update(t) \/ Delete(t) \/ Rejected(t) \/ Observe(t)
         \/ Refresh(t) \/ Authorize(t) \/ SyncModels(t)
  PROVE  AllGrounded'
<1> DEFINE a == Subject(t)
           Fit(status) ==
             /\ Doing(t, {"reject"}) => status \in {"oauth", "quota"}
             /\ Doing(t, {"disable", "delete"}) => status = "admin"
             /\ Doing(t, {"observe", "poll", "reconcile"}) /\ status = "on" => mem[a].status = "quota"
             /\ Doing(t, {"reject", "observe", "poll"}) => StillCurrent(t)
<1>1. At(t, "start") /\ mem[a] # None /\ mem' = mem /\ Grounded(t)
  BY DEF SetEnabled, Update, Delete, Rejected, Observe, Refresh, Authorize, SyncModels, Renew,
         Entering, Block, scheduler, AllGrounded
<1>2. tasks[t] \in Work /\ a \in Account /\ mem[a] \in Row
  BY <1>1 DEF At, SwitchInv, TypeOK, Work, Subject
<1>3. End(t) \/ \E status \in Status : AwaitWrite(t, status) /\ Fit(status)
  <2>1. CASE SetEnabled(t)
    BY <2>1 DEF SetEnabled, Entering, SwitchOp, Status, Doing
  <2>2. CASE Update(t)
    BY <1>2, <2>2 DEF Update, Entering, UpdateOp, Doing, Row
  <2>3. CASE Delete(t)
    BY <2>3 DEF Delete, Entering, Status, Doing
  <2>4. CASE Rejected(t)
    <3>1. Doing(t, {"reject"}) /\ tasks[t].status \in {"oauth", "quota"}
      BY <1>1, <2>4 DEF Rejected, Entering, Grounded
    <3>2. CASE End(t)
      BY <3>2
    <3>3. CASE AwaitWrite(t, tasks[t].status) /\ StillCurrent(t)
      BY <3>1, <3>3 DEF Status, Doing
    <3> QED
      BY <2>4, <3>2, <3>3 DEF Rejected
  <2>5. CASE Observe(t)
    <3>1. Doing(t, {"observe", "poll", "reconcile"}) /\ Verdict(a) \in {"on", "quota"}
      BY <2>5 DEF Observe, Entering, Verdict
    <3>2. CASE End(t)
      BY <3>2
    <3>3. CASE /\ AwaitWrite(t, Verdict(a))
               /\ tasks[t].op = "reconcile" \/ StillCurrent(t)
               /\ MayRevive(t)
               /\ (Verdict(a) = "on") # (mem[a].status = "on")
      BY <3>1, <3>3 DEF Status, Doing, MayRevive
    <3> QED
      BY <2>5, <3>2, <3>3 DEF Observe
  <2>6. CASE Refresh(t) \/ Authorize(t) \/ SyncModels(t)
    BY <1>2, <2>6 DEF Refresh, Authorize, SyncModels, Renew, Entering, Doing, Row
  <2> QED
    BY <2>1, <2>2, <2>3, <2>4, <2>5, <2>6
<1>4. Grounded(t)' /\ \A u \in Task \ {t} : tasks'[u] = tasks[u]
  <2>1. CASE End(t)
    BY <2>1, EndGrounded
  <2>2. ASSUME NEW status \in Status, AwaitWrite(t, status), Fit(status)
        PROVE  Grounded(t)' /\ \A u \in Task \ {t} : tasks'[u] = tasks[u]
    BY <1>1, <2>2, AwaitGrounded
  <2> QED
    BY <1>3, <2>1, <2>2
<1> QED
  BY <1>1, <1>4, OthersGrounded

\* Every step keeps every task grounded.
LEMMA StepKeepsGround == SwitchInv /\ AllGrounded /\ [Next]_vars => AllGrounded'
<1> SUFFICES ASSUME SwitchInv, AllGrounded, [Next]_vars
             PROVE  AllGrounded'
  OBVIOUS
<1>1. ASSUME NEW t \in Task, TaskStep(t)
      PROVE  AllGrounded'
  <2>1. CASE \/ SetEnabled(t) \/ Update(t) \/ Delete(t) \/ Rejected(t) \/ Observe(t)
             \/ Refresh(t) \/ Authorize(t) \/ SyncModels(t)
    BY <2>1, EnterGrounded
  <2>2. CASE Start(t)
    <3>1. mem' = mem
      BY <2>2 DEF Start, scheduler
    <3>2. PICK op \in Op, a \in Account, status \in {"oauth", "quota"} :
            tasks' = [tasks EXCEPT ![t] = Begun(op, a, status)]
      BY <2>2, Begins
    <3>3. /\ tasks'[t].at = "start" /\ tasks'[t].status \in {"oauth", "quota"}
          /\ \A u \in Task \ {t} : tasks'[u] = tasks[u]
      BY <3>2 DEF Begun, SwitchInv, TypeOK
    <3>4. Grounded(t)'
      BY <3>3 DEF Grounded, At, Doing
    <3> QED
      BY <3>1, <3>3, <3>4, OthersGrounded
  <2>3. CASE NotFound(t) \/ Dropped(t)
    <3>1. End(t) /\ mem' = mem
      BY <2>3 DEF NotFound, Dropped, scheduler
    <3> QED
      BY <3>1, EndGrounded, OthersGrounded
  <2>4. CASE RefreshRefused(t)
    <3>1. mem' = mem /\ tasks[t] \in Work /\ tasks[t].at = "start"
      BY <2>4 DEF RefreshRefused, scheduler, At, SwitchInv, TypeOK
    <3>2. tasks' = [tasks EXCEPT ![t] = [tasks[t] EXCEPT !.op = "reject", !.status = "oauth"]]
      BY <2>4 DEF RefreshRefused
    <3>3. /\ tasks'[t].at = "start" /\ tasks'[t].status = "oauth"
          /\ \A u \in Task \ {t} : tasks'[u] = tasks[u]
      BY <3>1, <3>2 DEF Work, SwitchInv, TypeOK
    <3>4. Grounded(t)'
      BY <3>3 DEF Grounded, At, Doing
    <3> QED
      BY <3>1, <3>3, <3>4, OthersGrounded
  <2>5. CASE Acknowledged(t) \/ Conflict(t) \/ WriteFails(t) \/ Reload(t) \/ ReloadFails(t)
    <3>1. lock = t /\ tasks[t] \in Work /\ tasks \in [Task -> Work \cup {None}]
      BY <2>5 DEF Acknowledged, Conflict, WriteFails, Reload, ReloadFails, At, SwitchInv, WritersHold, TypeOK
    <3>2. \/ End(t)
          \/ tasks' = [tasks EXCEPT ![t] = [tasks[t] EXCEPT !.op = "reconcile", !.at = "start"]]
          \/ /\ tasks' = [tasks EXCEPT ![t] = [tasks[t] EXCEPT !.at = "reloading"]]
             /\ Doing(t, SwitchOp \cup UpdateOp)
      BY <2>5 DEF Acknowledged, Conflict, WriteFails, Reload, ReloadFails, AfterError
    <3>3. CASE End(t)
      BY <3>1, <3>3, EndGrounded, OthersGrounded
    <3>4. CASE tasks' = [tasks EXCEPT ![t] = [tasks[t] EXCEPT !.op = "reconcile", !.at = "start"]]
      <4>1. /\ tasks'[t].at = "start" /\ tasks'[t].op = "reconcile"
            /\ \A u \in Task \ {t} : tasks'[u] = tasks[u]
        BY <3>1, <3>4 DEF Work
      <4>2. Grounded(t)'
        BY <4>1 DEF Grounded, At, Doing
      <4> QED
        BY <3>1, <4>1, <4>2, OthersGrounded
    <3>5. CASE /\ tasks' = [tasks EXCEPT ![t] = [tasks[t] EXCEPT !.at = "reloading"]]
               /\ Doing(t, SwitchOp \cup UpdateOp)
      <4>1. /\ tasks'[t].at = "reloading" /\ tasks'[t].op = tasks[t].op
            /\ \A u \in Task \ {t} : tasks'[u] = tasks[u]
        BY <3>1, <3>5 DEF Work
      <4>2. Grounded(t)'
        BY <3>5, <4>1 DEF Grounded, At, Doing, SwitchOp, UpdateOp
      <4> QED
        BY <3>1, <4>1, <4>2, OthersGrounded
    <3> QED
      BY <3>2, <3>3, <3>4, <3>5
  <2> QED
    BY <1>1, <2>1, <2>2, <2>3, <2>4, <2>5 DEF TaskStep
<1>2. CASE Elapse \/ PausedElsewhere \/ UNCHANGED vars
  <2>1. UNCHANGED <<mem, tasks>>
    BY <1>2 DEF Elapse, PausedElsewhere, PauseAll, scheduler, vars
  <2> QED
    BY <2>1 DEF AllGrounded, Grounded, At, Doing, Subject
<1>3. CASE Restart
  <2>1. \A t \in Task : tasks'[t] = None
    BY <1>3 DEF Restart
  <2> QED
    BY <2>1 DEF AllGrounded, Grounded, At, Doing
<1> QED
  BY <1>1, <1>2, <1>3 DEF Next

\* The status of a row changes only by the write of the task that holds the
\* lock, a switch, a deletion or a verdict, on the version it has in memory.
LEMMA WhoSwitches ==
  ASSUME SwitchInv, [Next]_vars, NEW a \in Account, Switched(a)
  PROVE  \E t \in Task :
           /\ lock = t /\ Subject(t) = a /\ At(t, "writing")
           /\ Doing(t, SwitchOp \cup VerdictOp \cup {"delete"})
           /\ rows'[a].status = tasks[t].status
           /\ ~Doing(t, {"delete"}) => mem[a].version = rows[a].version /\ mem[a].status = rows[a].status
<1>1. ~UNCHANGED rows
  BY DEF Switched
<1>2. PICK t \in Task : At(t, "writing") /\ Apply(t)
  <2>1. ASSUME NEW t \in Task, TaskStep(t)
        PROVE  At(t, "writing") /\ Apply(t)
    BY <1>1, <2>1 DEF TaskStep, Start, NotFound, RefreshRefused, SetEnabled, Update, Delete, Rejected,
         Observe, Refresh, Authorize, SyncModels, Renew, Acknowledged, Conflict, WriteFails, Reload,
         ReloadFails, Dropped, StoreKept, store
  <2>2. ~Elapse /\ ~PausedElsewhere /\ ~UNCHANGED vars
    BY <1>1 DEF Elapse, PausedElsewhere, vars, store
  <2>3. CASE Restart
    BY <1>1, <2>3 DEF Restart, StoreKept
  <2> QED
    BY <2>1, <2>2, <2>3 DEF Next
<1>3. lock = t /\ tasks[t] \in Work /\ mem[Subject(t)] # None /\ Effect(t)
  BY <1>2, ApplyEffect DEF SwitchInv, WritersHold, TypeOK, At
<1>4. Subject(t) = a
  BY <1>3 DEF Effect, Switched, SwitchInv, TypeOK
<1>5. rows'[a] = Written(t)
  BY <1>3, <1>4 DEF Effect, SwitchInv, TypeOK
<1>6. ~Doing(t, UpdateOp \cup RenewOp) /\ rows'[a].status = tasks[t].status
  BY <1>3, <1>4, <1>5 DEF Effect, Switched
<1>7. Doing(t, SwitchOp \cup VerdictOp \cup {"delete"})
  BY <1>2, <1>3, <1>6 DEF Doing, At, Work, Op
<1>8. ASSUME ~Doing(t, {"delete"})
      PROVE  mem[a].version = rows[a].version /\ mem[a].status = rows[a].status
  <2>1. mem[a].version = rows[a].version
    BY <1>2, <1>4, <1>6, <1>8 DEF Apply, Accepted, ExpectedRow, Doing, RenewOp
  <2> QED
    BY <1>3, <1>4, <2>1 DEF SwitchInv, VersionIdentifiesState
<1> QED
  BY <1>2, <1>3, <1>4, <1>6, <1>7, <1>8

LEMMA GroundedFromStart == Init => AllGrounded
BY DEF Init, AllGrounded, Grounded, At, Doing

\* No observation, late or not, turns an account on that an administrator or a
\* refused authorization has turned off.
THEOREM OnlyAdminRevives == Spec => AdminDisableHolds
<1> DEFINE Holds == \A a \in Account :
             Switched(a) /\ rows[a].status \in {"admin", "oauth"} =>
               \/ rows'[a].status # "on"
               \/ lock # None /\ Subject(lock) = a /\ Doing(lock, {"enable"})
<1>1. SwitchInv /\ AllGrounded /\ [Next]_vars => [Holds]_vars
  <2> SUFFICES ASSUME SwitchInv, AllGrounded, [Next]_vars, NEW a \in Account,
                      Switched(a), rows[a].status \in {"admin", "oauth"}, rows'[a].status = "on"
               PROVE  lock # None /\ Subject(lock) = a /\ Doing(lock, {"enable"})
    OBVIOUS
  <2>1. PICK t \in Task :
           /\ lock = t /\ Subject(t) = a /\ At(t, "writing")
           /\ Doing(t, SwitchOp \cup VerdictOp \cup {"delete"})
           /\ tasks[t].status = "on"
           /\ ~Doing(t, {"delete"}) => mem[a].status = rows[a].status
    BY WhoSwitches
  <2>2. Grounded(t)
    BY DEF AllGrounded
  <2>3. Doing(t, {"enable"})
    BY <2>1, <2>2 DEF Grounded, Doing, SwitchOp, VerdictOp
  <2> QED
    BY <2>1, <2>3, AccountAssumption
<1>2. Spec => [][Holds]_vars
  BY <1>1, SwitchInvInit, SwitchInvStep, GroundedFromStart, StepKeepsGround, PTL DEF Spec
<1> QED
  BY <1>2, PTL DEF AdminDisableHolds

\* What was observed before the account was changed does not change it: the
\* verdict of a request or a poll is on the version that is stored.
THEOREM StaleObservationIgnored == Spec => LateObservationIgnored
<1> DEFINE Current == \A a \in Account :
             /\ Switched(a)
             /\ lock # None
             /\ Doing(lock, {"reject", "observe", "poll"})
             => tasks[lock].version = rows[a].version
<1>1. SwitchInv /\ AllGrounded /\ [Next]_vars => [Current]_vars
  <2> SUFFICES ASSUME SwitchInv, AllGrounded, [Next]_vars, NEW a \in Account,
                      Switched(a), Doing(lock, {"reject", "observe", "poll"})
               PROVE  tasks[lock].version = rows[a].version
    OBVIOUS
  <2>1. PICK t \in Task :
           /\ lock = t /\ Subject(t) = a /\ At(t, "writing")
           /\ ~Doing(t, {"delete"}) => mem[a].version = rows[a].version
    BY WhoSwitches
  <2>2. Grounded(t) /\ ~Doing(t, {"delete"})
    BY <2>1 DEF AllGrounded, Doing
  <2> QED
    BY <2>1, <2>2 DEF Grounded
<1>2. Spec => [][Current]_vars
  BY <1>1, SwitchInvInit, SwitchInvStep, GroundedFromStart, StepKeepsGround, PTL DEF Spec
<1> QED
  BY <1>2, PTL DEF LateObservationIgnored

=============================================================================
