------------------------------ MODULE Scheduler ------------------------------
(***************************************************************************)
(* The in-process scheduler of the gateway, xxgate-core's scheduling.rs:   *)
(* the State behind its mutex, one action per public operation, and the    *)
(* wait loop of QueueTicket.  Every operation runs under the mutex, hence  *)
(* is one step; what may interleave is the tasks that call them.           *)
(*                                                                         *)
(* A request is an inbound HTTP call.  Its session, thread, model and      *)
(* client source are fixed when it is parsed and are constants here; the   *)
(* group is the one its key had when it was authenticated.                 *)
(*                                                                         *)
(* Time is abstracted to the set "late" of the requests whose queue        *)
(* deadline (since + queue_timeout_ms) has passed.                         *)
(***************************************************************************)
EXTENDS Integers, FiniteSets, SequencesExt

CONSTANTS
  Request, Account, Key, Session, Thread, Group, Model, Source,
  KeyOf,          \* the key a session belongs to (SessionKey.key_id)
  SessionOf,      \* the session, thread, model and source of a request
  ThreadOf,
  ModelOf,
  SourceOf,
  Family,         \* provider and access kind of a model
  Stateless,      \* requests without client identity: a session of their own
  AccountConfigs, \* the account records an administrator may store
  KeyConfigs,     \* the key records an administrator may store
  Settings,       \* the runtime settings an administrator may save
  Persisted,      \* the bindings the store may hold at startup
  AdminAccounts,  \* the accounts and keys an administrator operates on
  AdminKeys,
  MaxGeneration,  \* bound on binding generations (i64 in the code)
  None            \* absent map entry

ASSUME SchedulerAssumption ==
  /\ KeyOf \in [Session -> Key]
  /\ SessionOf \in [Request -> Session]
  /\ ThreadOf \in [Request -> Thread]
  /\ ModelOf \in [Request -> Model]
  /\ SourceOf \in [Request -> Source]
  /\ IsFiniteSet(Request)
  /\ IsFiniteSet(Account)
  /\ Stateless \subseteq Request
  /\ \A r \in Stateless, q \in Request : SessionOf[q] = SessionOf[r] => q = r
  /\ AccountConfigs \subseteq [enabled : BOOLEAN, groups : SUBSET Group,
                               models : SUBSET Model, sources : SUBSET Source,
                               max : Nat]
  /\ KeyConfigs \subseteq [enabled : BOOLEAN, group : Group]
  /\ Settings \subseteq [capacity : Nat, global : Nat, session : Nat]
  /\ Persisted \subseteq [account : Account, group : Group,
                           family : {Family[m] : m \in Model}, generation : Nat]
  /\ AdminAccounts \subseteq Account
  /\ AdminKeys \subseteq Key
  /\ MaxGeneration \in Nat
  /\ None \notin Request
  /\ None \notin Group

VARIABLES
  accounts, keys,                  \* id -> record, None when absent
  deletedAccounts, deletedKeys,    \* tombstones
  blocked, blockedKeys,            \* ids an update is in progress for
  paused,
  cfg,                             \* LiveSettings
  bindings,                        \* session -> Binding or None
  queues,                          \* session -> waiting requests, <<>> when absent
  order,                           \* rotation of the sessions that wait
  inflight, served,                \* per account
  threads,                         \* session -> thread -> request holding it
  pending,                         \* session -> request committing a binding
  leases,                          \* request -> DispatchLease, None when absent
  phase,                           \* request -> "idle", "queued", "leased", "done"
  group,                           \* request -> group, None before its arrival
  late,                            \* requests past their queue deadline
  stalled,                         \* queued requests whose wait() nobody polls
  woken                            \* queued requests with a wake-up to act on

adminVars == <<accounts, keys, deletedAccounts, deletedKeys, blocked,
               blockedKeys, paused>>
queueVars == <<queues, order>>
leaseVars == <<bindings, inflight, served, threads, pending, leases>>
taskVars  == <<phase, group, late, stalled>>
vars == <<adminVars, cfg, queueVars, leaseVars, taskVars, woken>>

-----------------------------------------------------------------------------
(* Types. *)

Phase == {"idle", "queued", "leased", "done"}

Binding == [account : Account, group : Group,
            family : {Family[m] : m \in Model}, generation : Nat]

Lease == [account : Account, binding : Binding, needsCommit : BOOLEAN,
          expected : Nat, attempts : 0..2]

ASSUME NoneAssumption == None \notin Lease \cup Binding

TypeOK ==
  /\ accounts \in [Account -> AccountConfigs \cup {None}]
  /\ keys \in [Key -> KeyConfigs \cup {None}]
  /\ deletedAccounts \subseteq Account
  /\ deletedKeys \subseteq Key
  /\ blocked \subseteq Account
  /\ blockedKeys \subseteq Key
  /\ paused \in BOOLEAN
  /\ cfg \in Settings
  /\ bindings \in [Session -> Binding \cup {None}]
  /\ queues \in [Session -> Seq(Request)]
  /\ order \in Seq(Session)
  /\ inflight \in [Account -> Nat]
  /\ served \in [Account -> Nat]
  /\ threads \in [Session -> [Thread -> Request \cup {None}]]
  /\ pending \in [Session -> Request \cup {None}]
  /\ leases \in [Request -> Lease \cup {None}]
  /\ phase \in [Request -> Phase]
  /\ group \in [Request -> Group \cup {None}]
  /\ late \subseteq Request
  /\ stalled \subseteq Request
  /\ woken \subseteq Request

-----------------------------------------------------------------------------
(* Eligibility. *)

\* check_key: the key is live and still routes to group g.
KeyAccepts(k, g) ==
  /\ ~paused
  /\ k \notin blockedKeys
  /\ keys[k] # None
  /\ keys[k].enabled
  /\ keys[k].group = g

\* An enabled account of the group that takes the request's model and source.
Serves(a, r, g) ==
  /\ accounts[a] # None
  /\ accounts[a].enabled
  /\ g \in accounts[a].groups
  /\ ModelOf[r] \in accounts[a].models
  /\ SourceOf[r] \in accounts[a].sources

\* check_eligibility.  Its early Ok for a bound account is an instance of the
\* last conjunct, and its error codes are not told apart.
Eligible(r, g) ==
  LET s == SessionOf[r] IN
  /\ KeyAccepts(KeyOf[s], g)
  /\ bindings[s] # None => bindings[s].family = Family[ModelOf[r]]
  /\ \E a \in Account \ blocked : Serves(a, r, g)

-----------------------------------------------------------------------------
(* Selection: which waiter goes next, and on which account. *)

\* MUTANT: an account at its limit still takes one more.
HasRoomForOneMore(a) == inflight[a] <= accounts[a].max

HasRoom(a) == inflight[a] < accounts[a].max

\* The accounts a waiter may use: its bound account as long as that serves it
\* (even when full), otherwise every account that is not blocked.
Candidates(r) ==
  LET b == bindings[SessionOf[r]] IN
  IF b # None /\ Serves(b.account, r, group[r])
  THEN {b.account}
  ELSE {a \in Account \ blocked : Serves(a, r, group[r])}

\* min_by_key over (inflight, served, id), ids in no particular order.
LessLoaded(a, b) ==
  \/ inflight[a] < inflight[b]
  \/ inflight[a] = inflight[b] /\ served[a] <= served[b]

Preferred(r) ==
  LET open == {a \in Candidates(r) : HasRoom(a)}
  IN  {a \in open : \A b \in open : LessLoaded(a, b)}

ActiveThreads(s) == {t \in Thread : threads[s][t] # None}

\* MUTANT: a change of the key's group does not count as a new binding.
SameAccount(r, a) ==
  LET b == bindings[SessionOf[r]]
  IN  b # None /\ b.account = a

\* The request on account a would stay in the session's binding.
SameBinding(r, a) ==
  LET b == bindings[SessionOf[r]]
  IN  b # None /\ b.account = a /\ b.group = group[r]

\* The waiter at position i is the first of its thread and the thread is idle.
ThreadFree(s, i) ==
  LET t == ThreadOf[queues[s][i]] IN
  /\ \A j \in 1..(i - 1) : ThreadOf[queues[s][j]] # t
  /\ threads[s][t] = None

\* MUTANT: any bound session may move on while requests are in flight.
JoinsAnyBinding(s, r, a) == ActiveThreads(s) # {} => bindings[s] # None

\* Every lease of the old generation drains before the session migrates,
\* including a key's group change on a shared account.
Drained(s, r, a) == ActiveThreads(s) # {} => SameBinding(r, a)

\* Position i of session s can be dispatched on account a.
Dispatchable(s, i, a) ==
  LET r == queues[s][i] IN
  /\ ThreadFree(s, i)
  /\ Eligible(r, group[r])
  /\ r \notin late
  /\ bindings[s] # None => bindings[s].account \notin blocked
  /\ a \in Preferred(r)
  /\ Drained(s, r, a)

\* MUTANT: other threads do not wait for the commit of a new binding.
SessionHasRoom(s) == Cardinality(ActiveThreads(s)) < cfg.session

SessionOpen(s) ==
  /\ Cardinality(ActiveThreads(s)) < cfg.session
  /\ pending[s] = None

Ready(s) ==
  {i \in DOMAIN queues[s] : SessionOpen(s) /\ \E a \in Account : Dispatchable(s, i, a)}

\* The waiter try_reserve selects: the first ready position of the first
\* session in rotation that has one, unless the gateway is full.
Selected(r) ==
  /\ SumFunction(inflight) < cfg.global
  /\ \E n \in DOMAIN order :
       /\ order[n] = SessionOf[r]
       /\ \A m \in 1..(n - 1) : Ready(order[m]) = {}
       /\ \E i \in Ready(order[n]) :
            /\ queues[order[n]][i] = r
            /\ \A j \in Ready(order[n]) : i <= j

-----------------------------------------------------------------------------
(* Helpers of the actions. *)

\* retain(|v| v != x) and remove(position) on a list that holds x at most once.
Without(q, x) ==
  IF \E i \in DOMAIN q : q[i] = x
  THEN RemoveAt(q, CHOOSE i \in DOMAIN q : q[i] = x)
  ELSE q

\* changed.notify_waiters(): every task inside wait() looks again.
Wake == woken' = {q \in Request : phase'[q] = "queued"}

Finish(r, p) ==
  /\ phase' = [phase EXCEPT ![r] = p]
  /\ stalled' = stalled \ {r}
  /\ late' = IF p = "done" THEN late \ {r} ELSE late
  /\ UNCHANGED group
  /\ Wake

\* MUTANT: the rotation keeps a session whose last waiter gave up.
OrderUnchanged(s, rest) == order

OrderAfterLeave(s, rest) == IF rest = <<>> THEN Without(order, s) ELSE order

\* MUTANT: a session that was just served stays in front.
OrderKeepsFront(s, rest) == IF rest = <<>> THEN Without(order, s) ELSE order

\* The session that was served goes to the back of the rotation.
OrderAfterGrant(s, rest) ==
  IF rest = <<>> THEN Without(order, s) ELSE Append(Without(order, s), s)

\* remove_waiter, run when a ticket is dropped.
LeaveQueue(r) ==
  LET s == SessionOf[r]
      rest == Without(queues[s], r)
  IN  /\ queues' = [queues EXCEPT ![s] = rest]
      /\ order' = OrderAfterLeave(s, rest)
      /\ Finish(r, "done")
      /\ UNCHANGED <<adminVars, cfg, leaseVars>>

-----------------------------------------------------------------------------
(* The queue. *)

Queued == SumFunction([s \in Session |-> Len(queues[s])])

Arrives(r, g) ==
  /\ phase[r] = "idle"
  /\ group[r] \in {None, g}

\* enqueue, accepted.  The ticket is not polled yet: gateway.rs first stores
\* the request record and spawns the task.  A request that lost its lease
\* before sending comes back with the same id, group and deadline.
Enqueue(r, g) ==
  LET s == SessionOf[r] IN
  /\ Arrives(r, g)
  /\ ~paused
  /\ Eligible(r, g)
  /\ Queued < cfg.capacity
  /\ order' = IF queues[s] = <<>> THEN Append(order, s) ELSE order
  /\ queues' = [queues EXCEPT ![s] = Append(@, r)]
  /\ phase' = [phase EXCEPT ![r] = "queued"]
  /\ group' = [group EXCEPT ![r] = g]
  /\ stalled' = stalled \cup {r}
  /\ Wake
  /\ UNCHANGED <<adminVars, cfg, leaseVars, late>>

\* enqueue, refused: storage error, not eligible or queue full.
Refuse(r, g) ==
  /\ Arrives(r, g)
  /\ paused \/ ~Eligible(r, g) \/ Queued >= cfg.capacity
  /\ phase' = [phase EXCEPT ![r] = "done"]
  /\ group' = [group EXCEPT ![r] = g]
  /\ UNCHANGED <<adminVars, cfg, queueVars, leaseVars, late, stalled, woken>>

\* The owner polls wait(): the task was spawned, or a heartbeat was delivered.
Resume(r) ==
  /\ phase[r] = "queued"
  /\ r \in stalled
  /\ stalled' = stalled \ {r}
  /\ UNCHANGED <<adminVars, cfg, queueVars, leaseVars, phase, group, late, woken>>

\* The owner is busy sending a heartbeat.  Its select polls wait() first, so
\* this happens only when wait() has nothing to act on.
Stall(r) ==
  /\ phase[r] = "queued"
  /\ r \notin stalled \cup woken \cup late
  /\ stalled' = stalled \cup {r}
  /\ UNCHANGED <<adminVars, cfg, queueVars, leaseVars, phase, group, late, woken>>

\* The queue deadline of r passes.
Elapse(r) ==
  /\ phase[r] \in {"queued", "leased"}
  /\ late' = late \cup {r}
  /\ UNCHANGED <<adminVars, cfg, queueVars, leaseVars, phase, group, stalled, woken>>

Polled(r) ==
  /\ phase[r] = "queued"
  /\ r \notin stalled
  /\ r \in woken \cup late

TimeOut(r) ==
  /\ Polled(r)
  /\ r \in late
  /\ LeaveQueue(r)

\* The client went away, the gateway shuts down, or the heartbeat failed.
Cancel(r) ==
  /\ phase[r] = "queued"
  /\ LeaveQueue(r)

\* try_reserve fails: the request is no longer eligible.
Reject(r) ==
  /\ Polled(r)
  /\ r \notin late
  /\ paused \/ ~Eligible(r, group[r])
  /\ LeaveQueue(r)

\* try_reserve returns None: wait for the next wake-up.
Park(r) ==
  /\ Polled(r)
  /\ r \notin late
  /\ ~paused
  /\ Eligible(r, group[r])
  /\ ~Selected(r)
  /\ woken' = woken \ {r}
  /\ UNCHANGED <<adminVars, cfg, queueVars, leaseVars, taskVars>>

\* The generation a new binding of session s has to follow.
GenerationOf(s) == IF bindings[s] = None THEN 0 ELSE bindings[s].generation

\* try_reserve grants account a: take the slot and, when the session has no
\* binding to this account and group, mint the next generation.
Grant(r, a) ==
  LET s == SessionOf[r]
      fresh == ~SameBinding(r, a)
      generation == GenerationOf(s)
      rest == Without(queues[s], r)
      minted == [account |-> a, group |-> group[r],
                 family |-> Family[ModelOf[r]], generation |-> generation + 1]
  IN  /\ fresh => generation < MaxGeneration
      /\ queues' = [queues EXCEPT ![s] = rest]
      /\ order' = OrderAfterGrant(s, rest)
      /\ inflight' = [inflight EXCEPT ![a] = @ + 1]
      /\ threads' = [threads EXCEPT ![s][ThreadOf[r]] = r]
      /\ pending' = IF fresh THEN [pending EXCEPT ![s] = r] ELSE pending
      /\ leases' = [leases EXCEPT ![r] =
           [account |-> a,
            binding |-> IF fresh THEN minted ELSE bindings[s],
            needsCommit |-> fresh,
            expected |-> generation,
            attempts |-> 0]]
      /\ Finish(r, "leased")
      /\ UNCHANGED <<adminVars, cfg, bindings, served>>

Reserve(r) ==
  /\ Polled(r)
  /\ r \notin late
  /\ ~paused
  /\ Eligible(r, group[r])
  /\ Selected(r)
  /\ \E i \in DOMAIN queues[SessionOf[r]], a \in Account :
       /\ queues[SessionOf[r]][i] = r
       /\ SessionOpen(SessionOf[r])
       /\ Dispatchable(SessionOf[r], i, a)
       /\ Grant(r, a)

Poll(r) == TimeOut(r) \/ Reject(r) \/ Park(r) \/ Reserve(r)

-----------------------------------------------------------------------------
(* The lease. *)

Settle(r) ==
  pending' = IF pending[SessionOf[r]] = r
             THEN [pending EXCEPT ![SessionOf[r]] = None] ELSE pending

\* gateway.rs persists and confirms a binding except for stateless requests.
KeepsBinding(r) == r \notin Stateless

\* confirm_binding, called once the store acknowledged the commit.
ConfirmBinding(r) ==
  /\ leases[r] # None
  /\ leases[r].needsCommit
  /\ KeepsBinding(r)
  /\ bindings' = [bindings EXCEPT ![SessionOf[r]] = leases[r].binding]
  /\ Settle(r)
  /\ leases' = [leases EXCEPT ![r].needsCommit = FALSE]
  /\ UNCHANGED <<adminVars, cfg, queueVars, taskVars, inflight, served, threads>>
  /\ Wake

\* confirm_stateless: one send, no binding retained.
ConfirmStateless(r) ==
  /\ leases[r] # None
  /\ leases[r].needsCommit
  /\ leases[r].expected = 0
  /\ ~KeepsBinding(r)
  /\ Settle(r)
  /\ leases' = [leases EXCEPT ![r].needsCommit = FALSE]
  /\ UNCHANGED <<adminVars, cfg, queueVars, taskVars, bindings, inflight, served, threads>>
  /\ Wake

Permit(r, previous) == leases[r].attempts = previous

\* begin_attempt(previous): the send permit, revalidated at the last moment.
BeginAttempt(r, previous) ==
  /\ leases[r] # None
  /\ ~paused
  /\ KeyAccepts(KeyOf[SessionOf[r]], group[r])
  /\ leases[r].account \notin blocked
  /\ Serves(leases[r].account, r, group[r])
  /\ ~leases[r].needsCommit
  /\ Permit(r, previous)
  /\ leases' = [leases EXCEPT ![r].attempts = previous + 1]
  /\ served' = [served EXCEPT ![leases[r].account] = @ + 1]
  /\ UNCHANGED <<adminVars, cfg, queueVars, taskVars, woken, bindings, inflight, threads, pending>>

BeginSend(r) == BeginAttempt(r, 0)

\* MUTANT: every rejection may be followed by one more recovery.
BeginNextRecovery(r) == BeginAttempt(r, leases[r].attempts)

BeginRecovery(r) == BeginAttempt(r, 1)

\* MUTANT: a lease that ends keeps its slot.
SlotKept(a) == inflight

SlotReleased(a) == [inflight EXCEPT ![a] = IF @ > 0 THEN @ - 1 ELSE 0]

\* MUTANT: a lease that ends keeps its thread.
ThreadKept(s, t) == threads[s]

ThreadReleased(s, t) == [threads[s] EXCEPT ![t] = None]

\* Drop for DispatchLease: at the end of the request, or before sending (then
\* the request may queue again).
DropLease(r) ==
  LET s == SessionOf[r]
      a == leases[r].account
      left == ThreadReleased(s, ThreadOf[r])
      vacant == \A t \in Thread : left[t] = None
  IN  /\ leases[r] # None
      /\ leases' = [leases EXCEPT ![r] = None]
      /\ inflight' = SlotReleased(a)
      /\ threads' = [threads EXCEPT ![s] = left]
      /\ pending' = IF pending[s] = r \/ vacant
                    THEN [pending EXCEPT ![s] = None] ELSE pending
      /\ \E p \in {"idle", "done"} :
           /\ p = "idle" => leases[r].attempts = 0
           /\ Finish(r, p)
      /\ UNCHANGED <<adminVars, cfg, queueVars, bindings, served>>

-----------------------------------------------------------------------------
(* The operations of the administrator and of the background workers. *)

WakeOnly ==
  /\ UNCHANGED <<cfg, queueVars, leaseVars, taskVars>>
  /\ Wake

\* update_account: also lifts the block; a deleted id is ignored.
UpdateAccount(a, c) ==
  /\ a \notin deletedAccounts
  /\ accounts' = [accounts EXCEPT ![a] = c]
  /\ blocked' = blocked \ {a}
  /\ WakeOnly
  /\ UNCHANGED <<keys, deletedAccounts, deletedKeys, blockedKeys, paused>>

UpdateKey(k, c) ==
  /\ k \notin deletedKeys
  /\ keys' = [keys EXCEPT ![k] = c]
  /\ blockedKeys' = blockedKeys \ {k}
  /\ WakeOnly
  /\ UNCHANGED <<accounts, deletedAccounts, deletedKeys, blocked, paused>>

BlockAccount(a) ==
  /\ accounts[a] # None
  /\ blocked' = blocked \cup {a}
  /\ WakeOnly
  /\ UNCHANGED <<accounts, keys, deletedAccounts, deletedKeys, blockedKeys, paused>>

\* block_key does not look the key up first.
BlockKey(k) ==
  /\ blockedKeys' = blockedKeys \cup {k}
  /\ WakeOnly
  /\ UNCHANGED <<accounts, keys, deletedAccounts, deletedKeys, blocked, paused>>

\* remove_account, called by delete_account after block_account.
RemoveAccount(a) ==
  /\ a \in blocked
  /\ deletedAccounts' = deletedAccounts \cup {a}
  /\ accounts' = [accounts EXCEPT ![a] = None]
  /\ WakeOnly
  /\ UNCHANGED <<keys, deletedKeys, blocked, blockedKeys, paused>>

RemoveKey(k) ==
  /\ k \in blockedKeys
  /\ deletedKeys' = deletedKeys \cup {k}
  /\ keys' = [keys EXCEPT ![k] = None]
  /\ WakeOnly
  /\ UNCHANGED <<accounts, deletedAccounts, blocked, blockedKeys, paused>>

\* set_paused(true): no caller ever passes false.
Pause ==
  /\ paused' = TRUE
  /\ WakeOnly
  /\ UNCHANGED <<accounts, keys, deletedAccounts, deletedKeys, blocked, blockedKeys>>

\* MUTANT: waiters keep the settings they started to wait with.
ApplySettingsSilently(c, stillLate) ==
  /\ cfg' = c
  /\ late' = stillLate
  /\ UNCHANGED <<adminVars, queueVars, leaseVars, phase, group, stalled, woken>>

\* A saved setting reaches every waiter through the watch channel; a longer
\* queue timeout takes requests out of "late" (a shorter one is Elapse).
ApplySettings(c, stillLate) ==
  /\ cfg' = c
  /\ late' = stillLate
  /\ UNCHANGED <<adminVars, queueVars, leaseVars, phase, group, stalled>>
  /\ Wake

-----------------------------------------------------------------------------

Init ==
  /\ accounts \in [Account -> AccountConfigs]
  /\ keys \in [Key -> KeyConfigs]
  /\ deletedAccounts = {}
  /\ deletedKeys = {}
  /\ blocked = {}
  /\ blockedKeys = {}
  /\ paused = FALSE
  /\ cfg \in Settings
  /\ bindings \in [Session -> Persisted \cup {None}]
  /\ \A r \in Stateless : bindings[SessionOf[r]] = None
  /\ queues = [s \in Session |-> <<>>]
  /\ order = <<>>
  /\ inflight = [a \in Account |-> 0]
  /\ served = [a \in Account |-> 0]
  /\ threads = [s \in Session |-> [t \in Thread |-> None]]
  /\ pending = [s \in Session |-> None]
  /\ leases = [r \in Request |-> None]
  /\ phase = [r \in Request |-> "idle"]
  /\ group = [r \in Request |-> None]
  /\ late = {}
  /\ stalled = {}
  /\ woken = {}

RequestStep(r) ==
  \/ \E g \in Group : Enqueue(r, g) \/ Refuse(r, g)
  \/ Resume(r) \/ Stall(r) \/ Elapse(r)
  \/ TimeOut(r) \/ Cancel(r) \/ Reject(r) \/ Park(r) \/ Reserve(r)
  \/ ConfirmBinding(r) \/ ConfirmStateless(r)
  \/ BeginSend(r) \/ BeginRecovery(r)
  \/ DropLease(r)

AdminStep ==
  \/ \E a \in AdminAccounts :
       \/ \E c \in AccountConfigs : UpdateAccount(a, c)
       \/ BlockAccount(a)
       \/ RemoveAccount(a)
  \/ \E k \in AdminKeys :
       \/ \E c \in KeyConfigs : UpdateKey(k, c)
       \/ BlockKey(k)
       \/ RemoveKey(k)
  \/ Pause
  \/ \E c \in Settings, stillLate \in SUBSET late : ApplySettings(c, stillLate)

Next == (\E r \in Request : RequestStep(r)) \/ AdminStep

Spec == Init /\ [][Next]_vars

-----------------------------------------------------------------------------
(* Properties. *)

Leased == {r \in Request : leases[r] # None}
Colleagues(r) == {q \in Leased : SessionOf[q] = SessionOf[r]}

\* The waiting lists agree with the tasks: a request whose task waits is in
\* the queue of its session exactly once, nobody else is in a queue, and the
\* rotation lists every session that has a queue exactly once (enqueue,
\* try_reserve and remove_waiter each edit queues and order separately).
QueueCoherence ==
  /\ \A r \in Request, s \in Session :
       Cardinality({i \in DOMAIN queues[s] : queues[s][i] = r})
         = IF phase[r] = "queued" /\ s = SessionOf[r] THEN 1 ELSE 0
  /\ \A s \in Session :
       Cardinality({n \in DOMAIN order : order[n] = s})
         = IF queues[s] # <<>> THEN 1 ELSE 0

\* The inductive invariant behind QueueCoherence: each list holds exactly the
\* waiters of its session, the rotation exactly the sessions with a list, and
\* none of them repeats an entry.
QueueInv ==
  /\ \A s \in Session :
       /\ IsInjective(queues[s])
       /\ Range(queues[s]) = {r \in Request : phase[r] = "queued" /\ SessionOf[r] = s}
  /\ IsInjective(order)
  /\ Range(order) = {s \in Session : queues[s] # <<>>}

\* The in-flight counter of an account is the number of leases on it, through
\* every order of granting, confirming, invalidating, deleting and dropping:
\* capacity neither leaks nor is released twice.
LeaseAccounting ==
  \A a \in Account : inflight[a] = Cardinality({r \in Leased : leases[r].account = a})

\* A lease holds its thread, and only leases hold threads: two requests of one
\* thread are never in flight together and no thread stays taken after its
\* lease is gone.
ThreadOwnership ==
  /\ \A r \in Leased : threads[SessionOf[r]][ThreadOf[r]] = r
  /\ \A s \in Session, t \in Thread :
       threads[s][t] # None =>
         /\ threads[s][t] \in Leased
         /\ SessionOf[threads[s][t]] = s
         /\ ThreadOf[threads[s][t]] = t

\* A binding that is not persisted yet is used by nobody but the lease that
\* commits it: that lease is alone in its session until it is confirmed.
CommitsAlone ==
  \A s \in Session, r \in Request :
    pending[s] = r <=> /\ r \in Leased
                       /\ leases[r].needsCommit
                       /\ Colleagues(r) = {r}
                       /\ SessionOf[r] = s

\* All requests in flight in a session share one binding generation, the one
\* the scheduler has recorded for the session.
OneBindingPerSession ==
  \A r \in Leased \ Stateless :
    ~leases[r].needsCommit => leases[r].binding = bindings[SessionOf[r]]

\* A lease was granted for the account and group its binding names, and its
\* generation follows the one the session had.
LeaseMatchesBinding ==
  \A r \in Leased :
    /\ leases[r].binding.account = leases[r].account
    /\ leases[r].binding.group = group[r]
    /\ leases[r].needsCommit =>
         leases[r].binding.generation = leases[r].expected + 1

\* A request without client identity never leaves a binding behind.
StatelessUnbound == \A r \in Stateless : bindings[SessionOf[r]] = None

\* The inductive invariant behind ThreadOwnership, CommitsAlone,
\* OneBindingPerSession, LeaseMatchesBinding and MigrationDrained: leases,
\* threads, pending commits and bindings are four records of one fact, edited
\* by different operations.
LeaseInv ==
  /\ \A r \in Request : leases[r] # None <=> phase[r] = "leased"
  /\ ThreadOwnership
  /\ \A s \in Session : pending[s] # None =>
       /\ pending[s] \in Leased
       /\ SessionOf[pending[s]] = s
       /\ leases[pending[s]].needsCommit
  /\ \A r \in Leased : leases[r].needsCommit =>
       /\ pending[SessionOf[r]] = r
       /\ leases[r].attempts = 0
       /\ leases[r].expected = GenerationOf(SessionOf[r])
       /\ \A q \in Leased : SessionOf[q] = SessionOf[r] => q = r
  /\ OneBindingPerSession
  /\ LeaseMatchesBinding
  /\ StatelessUnbound

\* No waiter sleeps through its turn: one that could be reserved now, or that
\* must be rejected now, has a wake-up to act on, unless a waiter whose own
\* deadline timer has fired is about to leave and wake everybody.
NoLostWakeup ==
  \A r \in Request :
    /\ phase[r] = "queued"
    /\ paused \/ ~Eligible(r, group[r]) \/ Selected(r)
    => r \in woken \/ \E q \in late : phase[q] = "queued"

\* A session changes binding only when no request is in flight under the old
\* one, and generations grow by one.
MigrationDrained ==
  [][\A s \in Session :
       bindings'[s] # bindings[s] =>
         /\ \A r \in Leased : SessionOf[r] = s => leases[r].binding = bindings'[s] /\ leases[r].attempts = 0
         /\ bindings'[s].generation =
              GenerationOf(s) + 1]_vars

\* A new slot is taken only within the limits of the account, of the session
\* and of the gateway as they are at that moment, however they were lowered.
WithinLimits ==
  [][/\ \A a \in Account : inflight'[a] > inflight[a] =>
          /\ inflight'[a] <= accounts[a].max
          /\ a \notin blocked
          /\ Cardinality(Leased') <= cfg.global
     /\ \A s \in Session :
          Cardinality({r \in Leased' : SessionOf[r] = s})
            > Cardinality({r \in Leased : SessionOf[r] = s}) =>
          Cardinality({r \in Leased' : SessionOf[r] = s}) <= cfg.session]_vars

-----------------------------------------------------------------------------
(* Liveness.  A task that is runnable runs, a heartbeat or the insertion of  *)
(* the request record ends, and a lease ends (the header and idle deadlines  *)
(* of gateway.rs bound every silence of an upstream).  Deadlines of waiters  *)
(* need not fire, nobody needs to cancel, and confirming or sending is not   *)
(* required.                                                                 *)

Fairness ==
  \A r \in Request :
    /\ WF_vars(Poll(r))
    /\ WF_vars(Resume(r))
    /\ WF_vars(DropLease(r))

\* An administrator does not change settings for ever.
FairSpec == Spec /\ Fairness /\ <>[][\E r \in Request : RequestStep(r)]_vars

\* README and design.md: a session whose bound account is gone migrates to
\* another account of the group, and a request waits only while no account has
\* room.  Here nothing else is in flight or queued, so the lone waiter of such
\* a session should be next.
DeletedAccountPinsNobody ==
  \A r \in Request :
    LET b == bindings[SessionOf[r]] IN
    /\ {q \in Request : phase[q] \in {"queued", "leased"}} = {r}
    /\ phase[r] = "queued"
    /\ r \notin late
    /\ Eligible(r, group[r])
    /\ b # None /\ b.account \in deletedAccounts
    /\ \E a \in Account \ blocked : Serves(a, r, group[r]) /\ HasRoom(a)
    /\ cfg.global > 0 /\ cfg.session > 0
    => Selected(r)

\* Every waiter leaves the queue, even when others come back again and again:
\* the rotation between sessions and the wake-ups starve nobody.
NoStarvation == \A r \in Request : phase[r] = "queued" ~> phase[r] # "queued"

=============================================================================
