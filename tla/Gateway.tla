------------------------------- MODULE Gateway -------------------------------
(***************************************************************************)
(* The life of a request, xxgate-core's application/gateway.rs: the task   *)
(* that queues, commits the binding, prepares, sends, recovers once and    *)
(* records the outcome, composed with the Scheduler it runs on, the store  *)
(* it awaits at every step, and restarts of the process.                   *)
(*                                                                         *)
(* A task is at one "stage" between two awaits.  While it awaits the store *)
(* the client may leave or the process end: the write then took effect or  *)
(* did not.  The accounts and keys in memory are the stored ones here.     *)
(***************************************************************************)
EXTENDS Scheduler

CONSTANTS
  Streaming,   \* requests whose client gets heartbeats while it waits
  MaxFaults,   \* bound on the store operations that fail
  MaxCrashes   \* bound on the restarts of the process

ASSUME GatewayAssumption ==
  /\ Streaming \subseteq Request
  /\ MaxFaults \in Nat
  /\ MaxCrashes \in Nat
  /\ \A b \in Persisted : b.generation > 0   \* a row of the bindings table

VARIABLES
  stage,     \* where the task of a request is
  stored,    \* session -> its rows of the bindings table, oldest first
  record,    \* request -> its row of the requests table, None when absent
  attempts,  \* request -> upstream_attempts of the task's copy of the record
  sent,      \* request -> times it really went upstream
  arrived,   \* requests in the order they were accepted
  faults, crashes

gatewayVars == <<stage, stored, record, attempts, sent, arrived, faults, crashes>>
allVars == <<vars, gatewayVars>>

Stage == {"new",         \* not arrived
          "recording",   \* begin_request
          "waiting",     \* wait_for_account
          "committing",  \* commit_binding
          "verifying",   \* session_bindings after a failed commit
          "pausing",     \* the verification did not find the commit
          "preparing",   \* mappings, credentials, model, prepare
          "again",       \* lost the reservation
          "permitted",   \* update_request before a send
          "ready",       \* about to send
          "sent",        \* upstream has it
          "completing",  \* finish_request at the terminal event
          "delivering",  \* the terminal event goes to the client
          "closing",     \* finish_request after an error
          "ended"}

Final == {"completed", "failed", "interrupted"}
Row == [state : {"queued", "inflight"} \cup Final, attempts : 0..2]
StoredRow == [binding : Binding, by : Request \cup {None}]

ASSUME RowAssumption == None \notin Row

GatewayTypeOK ==
  /\ stage \in [Request -> Stage]
  /\ stored \in [Session -> Seq(StoredRow)]
  /\ record \in [Request -> Row \cup {None}]
  /\ attempts \in [Request -> 0..2]
  /\ sent \in [Request -> 0..2]
  /\ arrived \in Seq(Request)
  /\ faults \in 0..MaxFaults
  /\ crashes \in 0..MaxCrashes

-----------------------------------------------------------------------------
(* The store.  Each operator gives the table after a statement.             *)

Finished(row) == row # None /\ row.state \in Final

\* MUTANT: the generation a commit expects is not compared.
CommitAlways(r) == TRUE

\* commit_binding's check under the lock of the session's row.
CommitAllowed(r) == Len(stored[SessionOf[r]]) = leases[r].expected

\* The session's rows with the binding r minted.
Committed(r) ==
  Append(stored[SessionOf[r]], [binding |-> leases[r].binding, by |-> r])

\* MUTANT: a row can be rewritten after it was finished.
Overwrite(r, row) == row

\* UPDATE ... WHERE finished_at IS NULL: the row of r afterwards.
WriteUnfinished(r, row) == IF Finished(record[r]) THEN record[r] ELSE row

Inserted == [state |-> "queued", attempts |-> 0]
Updated(r) == WriteUnfinished(r, [state |-> "inflight", attempts |-> attempts[r]])
Closed(r, state) == WriteUnfinished(r, [state |-> state, attempts |-> attempts[r]])

Store(r, row) == record' = [record EXCEPT ![r] = row]

\* What the store may hold when the write r awaits is abandoned or fails.
Committing(r) == stage[r] = "committing" /\ KeepsBinding(r) /\ CommitAllowed(r)

History(r) ==
  {stored[SessionOf[r]]} \cup (IF Committing(r) THEN {Committed(r)} ELSE {})

RowOutcomes(r) ==
  {record[r]} \cup
  CASE stage[r] = "recording"  -> {Inserted}
    [] stage[r] = "permitted"  -> {Updated(r)}
    [] stage[r] = "completing" -> {Closed(r, "completed"), Closed(r, "failed")}
    [] stage[r] = "closing"    -> {Closed(r, "failed")}
    [] OTHER                   -> {}

InDoubt(r) ==
  /\ \E rows \in History(r) : stored' = [stored EXCEPT ![SessionOf[r]] = rows]
  /\ \E row \in RowOutcomes(r) : Store(r, row)

-----------------------------------------------------------------------------
(* Helpers of the task. *)

GoTo(r, next) == stage' = [stage EXCEPT ![r] = next]
StoreUnchanged == UNCHANGED <<stored, record>>
Bookkeeping == <<attempts, sent, arrived, faults, crashes>>

\* execute returns: the lease is dropped before the outcome is recorded.
Abandon(r) ==
  /\ DropLease(r)
  /\ phase'[r] = "done"
  /\ GoTo(r, "closing")

-----------------------------------------------------------------------------
(* Arrival. *)

Accept(r) ==
  /\ stage[r] = "new"
  /\ \E g \in Group : Enqueue(r, g)
  /\ GoTo(r, "recording")
  /\ arrived' = Append(arrived, r)
  /\ UNCHANGED <<stored, record, attempts, sent, faults, crashes>>

\* The HTTP layer stores a "rejected" record of its own, not modelled.
TurnAway(r) ==
  /\ stage[r] = "new"
  /\ \E g \in Group : Refuse(r, g)
  /\ GoTo(r, "ended")
  /\ StoreUnchanged /\ UNCHANGED Bookkeeping

\* begin_request is acknowledged and the task is spawned.
Recorded(r) ==
  /\ stage[r] = "recording"
  /\ Store(r, Inserted)
  /\ GoTo(r, "waiting")
  /\ UNCHANGED <<vars, stored, Bookkeeping>>

\* Until then start runs in the HTTP handler, which is dropped when the client
\* leaves, and the ticket with it: no task will ever finish the record.
HandlerDropped(r) ==
  /\ stage[r] = "recording"
  /\ Cancel(r)
  /\ InDoubt(r)
  /\ GoTo(r, "ended")
  /\ UNCHANGED Bookkeeping

-----------------------------------------------------------------------------
(* wait_for_account. *)

Waiting(r) == stage[r] = "waiting"

FirstPoll(r) ==
  /\ Waiting(r)
  /\ Resume(r)
  /\ UNCHANGED gatewayVars

Heartbeat(r) ==
  /\ Waiting(r)
  /\ r \in Streaming
  /\ Stall(r)
  /\ UNCHANGED gatewayVars

\* A deadline that passes while r has a lease shows when it waits again.
Deadline(r) ==
  /\ Waiting(r)
  /\ Elapse(r)
  /\ UNCHANGED gatewayVars

KeepWaiting(r) ==
  /\ Waiting(r)
  /\ Park(r)
  /\ UNCHANGED gatewayVars

GiveUp(r) ==
  /\ Waiting(r)
  /\ TimeOut(r) \/ Reject(r)
  /\ GoTo(r, "closing")
  /\ StoreUnchanged /\ UNCHANGED Bookkeeping

\* A binding that is confirmed already needs no commit.
Reserved(r) ==
  /\ Waiting(r)
  /\ Reserve(r)
  /\ GoTo(r, IF leases'[r].needsCommit THEN "committing" ELSE "preparing")
  /\ StoreUnchanged /\ UNCHANGED Bookkeeping

\* The client left, the gateway shuts down or a heartbeat was not delivered.
WaitCancelled(r) ==
  /\ Waiting(r)
  /\ Cancel(r)
  /\ GoTo(r, "closing")
  /\ StoreUnchanged /\ UNCHANGED Bookkeeping

-----------------------------------------------------------------------------
(* The binding. *)

Commit(r) ==
  /\ Committing(r)
  /\ ConfirmBinding(r)
  /\ stored' = [stored EXCEPT ![SessionOf[r]] = Committed(r)]
  /\ GoTo(r, "preparing")
  /\ UNCHANGED <<record, Bookkeeping>>

Conflict(r) ==
  /\ stage[r] = "committing"
  /\ KeepsBinding(r)
  /\ ~CommitAllowed(r)
  /\ GoTo(r, "verifying")
  /\ UNCHANGED <<vars, stored, record, Bookkeeping>>

SendStateless(r) ==
  /\ stage[r] = "committing"
  /\ ConfirmStateless(r)
  /\ GoTo(r, "preparing")
  /\ StoreUnchanged /\ UNCHANGED Bookkeeping

\* MUTANT: a generation of the right number is taken for one's own.
FoundGeneration(r) ==
  Len(stored[SessionOf[r]]) = leases[r].binding.generation

\* The last stored binding is the one this request minted: compared by id,
\* which is unique for a request and its generation.
FoundCommit(r) ==
  LET rows == stored[SessionOf[r]] IN
  /\ rows # <<>>
  /\ Last(rows).by = r
  /\ Last(rows).binding.generation = leases[r].binding.generation

Verified(r) ==
  /\ stage[r] = "verifying"
  /\ FoundCommit(r)
  /\ ConfirmBinding(r)
  /\ GoTo(r, "preparing")
  /\ StoreUnchanged /\ UNCHANGED Bookkeeping

NotVerified(r) ==
  /\ stage[r] = "verifying"
  /\ ~FoundCommit(r)
  /\ Pause
  /\ GoTo(r, "pausing")
  /\ StoreUnchanged /\ UNCHANGED Bookkeeping

AfterPause(r) ==
  /\ stage[r] = "pausing"
  /\ Abandon(r)
  /\ StoreUnchanged /\ UNCHANGED Bookkeeping

-----------------------------------------------------------------------------
(* Preparation and the send permit. *)

\* The account was disabled since the grant, or is not what was reserved any
\* more when begin_send looks: back to the queue with the same id and deadline.
LoseReservation(r) ==
  LET a == leases[r].account IN
  /\ stage[r] = "preparing"
  /\ accounts[a] # None => a \in blocked \/ ~Serves(a, r, group[r])
  /\ DropLease(r)
  /\ phase'[r] = "idle"
  /\ GoTo(r, "again")
  /\ StoreUnchanged /\ UNCHANGED Bookkeeping

QueueAgain(r) ==
  /\ stage[r] = "again"
  /\ Enqueue(r, group[r])
  /\ GoTo(r, "waiting")
  /\ StoreUnchanged /\ UNCHANGED Bookkeeping

RefusedAgain(r) ==
  /\ stage[r] = "again"
  /\ Refuse(r, group[r])
  /\ GoTo(r, "closing")
  /\ StoreUnchanged /\ UNCHANGED Bookkeeping

TakePermit(r) ==
  /\ stage[r] = "preparing"
  /\ BeginSend(r)
  /\ attempts' = [attempts EXCEPT ![r] = 1]
  /\ GoTo(r, "permitted")
  /\ StoreUnchanged /\ UNCHANGED <<sent, arrived, faults, crashes>>

\* update_request is acknowledged, before the first send and before a second.
NoteAttempt(r) ==
  /\ stage[r] = "permitted"
  /\ Store(r, Updated(r))
  /\ GoTo(r, "ready")
  /\ UNCHANGED <<vars, stored, Bookkeeping>>

-----------------------------------------------------------------------------
(* The exchange with the upstream. *)

\* MUTANT: the transport repeats a request whose connection broke.
SentTwice(r) == [sent EXCEPT ![r] = @ + 2]

\* send_once.
SentOnce(r) == [sent EXCEPT ![r] = @ + 1]

Send(r) ==
  /\ stage[r] = "ready"
  /\ sent' = SentOnce(r)
  /\ GoTo(r, "sent")
  /\ UNCHANGED <<vars, stored, record, attempts, arrived, faults, crashes>>

\* The session was blocked by a safety rejection: the record is corrected to
\* the attempts that were made.
NotSentAfterAll(r) ==
  /\ stage[r] = "ready"
  /\ r \notin Stateless
  /\ Abandon(r)
  /\ attempts' = [attempts EXCEPT ![r] = sent[r]]
  /\ StoreUnchanged /\ UNCHANGED <<sent, arrived, faults, crashes>>

\* MUTANT: the second send does not wait for its record.
SendsAtOnce == "ready"

\* The record of the second attempt is stored before the attempt.
RecordsFirst == "permitted"

\* begin_recovery: the upstream rejected the encrypted context of the first
\* attempt; a second permit on the same lease.
Recover(r) ==
  /\ stage[r] = "sent"
  /\ attempts[r] = 1
  /\ BeginRecovery(r)
  /\ attempts' = [attempts EXCEPT ![r] = 2]
  /\ GoTo(r, RecordsFirst)
  /\ StoreUnchanged /\ UNCHANGED <<sent, arrived, faults, crashes>>

Terminal(r) ==
  /\ stage[r] = "sent"
  /\ GoTo(r, "completing")
  /\ UNCHANGED <<vars, stored, record, Bookkeeping>>

\* The terminal event is a success or a failure; the lease is still held.
Complete(r) ==
  /\ stage[r] = "completing"
  /\ \E state \in {"completed", "failed"} : Store(r, Closed(r, state))
  /\ GoTo(r, "delivering")
  /\ UNCHANGED <<vars, stored, Bookkeeping>>

Deliver(r) ==
  /\ stage[r] = "delivering"
  /\ DropLease(r)
  /\ phase'[r] = "done"
  /\ GoTo(r, "ended")
  /\ StoreUnchanged /\ UNCHANGED Bookkeeping

\* Anything else that ends execute with an error without a write in doubt: a
\* provider, credential, model or key that does not permit it, a rejection or a
\* timeout of the upstream, a full client, a read or an event that failed.
Fail(r) ==
  /\ stage[r] \in {"committing", "preparing", "ready", "sent"}
  /\ Abandon(r)
  /\ StoreUnchanged /\ UNCHANGED Bookkeeping

\* finalize after an error: not cancelled by the client any more.
Close(r) ==
  /\ stage[r] = "closing"
  /\ Store(r, Closed(r, "failed"))
  /\ GoTo(r, "ended")
  /\ UNCHANGED <<vars, stored, Bookkeeping>>

-----------------------------------------------------------------------------
(* What goes wrong around the task. *)

\* The client leaves or the gateway shuts down: execute is dropped at the
\* await it is in.
Disconnect(r) ==
  /\ stage[r] \in {"committing", "verifying", "preparing", "permitted",
                   "ready", "sent", "completing"}
  /\ Abandon(r)
  /\ InDoubt(r)
  /\ UNCHANGED Bookkeeping

\* MUTANT: the outcome of a request is dropped when it cannot be stored.
AfterLostOutcome == UNCHANGED vars

PauseForOutcome == Pause

\* A store operation fails; a write may have been applied nevertheless.
StoreFails(r) ==
  /\ faults < MaxFaults
  /\ faults' = faults + 1
  /\ InDoubt(r)
  /\ \/ /\ stage[r] = "recording"
        /\ Cancel(r)
        /\ GoTo(r, "ended")
     \/ /\ stage[r] = "committing"
        /\ KeepsBinding(r)
        /\ GoTo(r, "verifying")
        /\ UNCHANGED vars
     \/ /\ stage[r] = "verifying"
        /\ Pause
        /\ GoTo(r, "pausing")
     \/ /\ stage[r] \in {"permitted", "completing"}
        /\ Abandon(r)
     \/ /\ stage[r] = "closing"
        /\ PauseForOutcome
        /\ GoTo(r, "ended")
  /\ UNCHANGED <<attempts, sent, arrived, crashes>>

\* MUTANT: unfinished records survive a restart as they are.
NotReconciled(row) == row

\* reconcile_interrupted.
Reconciled(row) ==
  IF row # None /\ ~Finished(row) THEN [row EXCEPT !.state = "interrupted"] ELSE row

\* The process ends and starts again: writes under way are applied or not, the
\* memory is rebuilt from the store, open records are closed.
Restart ==
  /\ crashes < MaxCrashes
  /\ crashes' = crashes + 1
  /\ \E applied \in SUBSET {r \in Request : Committing(r)} :
       stored' = [s \in Session |->
         IF \E r \in applied : SessionOf[r] = s
         THEN Committed(CHOOSE r \in applied : SessionOf[r] = s)
         ELSE stored[s]]
  /\ \E row \in [Request -> UNION {RowOutcomes(r) : r \in Request}] :
       /\ \A r \in Request : row[r] \in RowOutcomes(r)
       /\ record' = [r \in Request |-> Reconciled(row[r])]
  /\ bindings' = [s \in Session |->
       IF stored'[s] = <<>> THEN None ELSE Last(stored'[s]).binding]
  /\ phase' = [r \in Request |-> IF stage[r] = "new" THEN "idle" ELSE "done"]
  /\ stage' = [r \in Request |-> IF stage[r] = "new" THEN "new" ELSE "ended"]
  /\ deletedAccounts' = {} /\ deletedKeys' = {}
  /\ blocked' = {} /\ blockedKeys' = {}
  /\ paused' = FALSE
  /\ queues' = [s \in Session |-> <<>>] /\ order' = <<>>
  /\ inflight' = [a \in Account |-> 0] /\ served' = [a \in Account |-> 0]
  /\ threads' = [s \in Session |-> [t \in Thread |-> None]]
  /\ pending' = [s \in Session |-> None]
  /\ leases' = [r \in Request |-> None]
  /\ late' = {} /\ stalled' = {} /\ woken' = {}
  /\ UNCHANGED <<accounts, keys, cfg, group, attempts, sent, arrived, faults>>

\* An administrator, or disable_observed on behalf of the upstream.
Administer ==
  /\ \E a \in AdminAccounts :
       \/ accounts[a] # None /\ \E c \in AccountConfigs : UpdateAccount(a, c)
       \/ BlockAccount(a)
       \/ RemoveAccount(a)
  /\ UNCHANGED gatewayVars

-----------------------------------------------------------------------------

GatewayInit ==
  /\ Init
  /\ stage = [r \in Request |-> "new"]
  /\ stored = [s \in Session |->
       IF bindings[s] = None THEN <<>>
       ELSE [n \in 1..bindings[s].generation |->
               [binding |-> [bindings[s] EXCEPT !.generation = n], by |-> None]]]
  /\ record = [r \in Request |-> None]
  /\ attempts = [r \in Request |-> 0]
  /\ sent = [r \in Request |-> 0]
  /\ arrived = <<>>
  /\ faults = 0
  /\ crashes = 0

\* The steps of a request's own task that nothing but the task decides.
Advance(r) ==
  \/ Recorded(r) \/ FirstPoll(r) \/ KeepWaiting(r) \/ GiveUp(r) \/ Reserved(r)
  \/ Commit(r) \/ Conflict(r) \/ SendStateless(r)
  \/ Verified(r) \/ NotVerified(r) \/ AfterPause(r)
  \/ LoseReservation(r) \/ QueueAgain(r) \/ RefusedAgain(r)
  \/ TakePermit(r) \/ NoteAttempt(r) \/ Send(r) \/ NotSentAfterAll(r)
  \/ Recover(r) \/ Terminal(r) \/ Complete(r) \/ Deliver(r)
  \/ Fail(r) \/ Close(r)

TaskStep(r) ==
  \/ Accept(r) \/ TurnAway(r) \/ HandlerDropped(r)
  \/ Advance(r)
  \/ Heartbeat(r) \/ Deadline(r) \/ WaitCancelled(r)
  \/ Disconnect(r) \/ StoreFails(r)

GatewayNext ==
  \/ \E r \in Request : TaskStep(r)
  \/ Restart
  \/ Administer

GatewaySpec == GatewayInit /\ [][GatewayNext]_allVars

-----------------------------------------------------------------------------
(* Properties. *)

Live(r) == stage[r] \notin {"new", "ended"}

\* No request is sent under a binding that the store does not have, whatever
\* became of its commit: what a lease uses is the stored row of its generation.
UsesStoredBinding ==
  \A r \in Leased \ Stateless :
    ~leases[r].needsCommit =>
      LET b == leases[r].binding IN
      /\ b.generation \in DOMAIN stored[SessionOf[r]]
      /\ stored[SessionOf[r]][b.generation].binding = b

\* The stored number of attempts is never below the number of times the request
\* really went upstream, across lost acknowledgements, cancellation and
\* restarts: usage that is missing is never recorded as "not executed".
RecordCoversSends ==
  \A r \in Request : sent[r] > 0 => record[r] # None /\ sent[r] <= record[r].attempts

\* The outcome of a request is decided once: the second finalize after an
\* ambiguous first one, and the reconciliation at startup, do not change it.
FinishedOnce ==
  [][\A r \in Request : Finished(record[r]) => record'[r] = record[r]]_allVars

\* A request that was sent is not forgotten: as long as its record is open its
\* task is at work, or dispatch is paused because the store refused the outcome.
SentNotForgotten ==
  \A r \in Request : sent[r] > 0 /\ ~Finished(record[r]) => Live(r) \/ paused

\* What a task holds at each stage: a ticket in the queue, a lease whose binding
\* is not confirmed, a lease it may send with, or nothing.
Holds(r) ==
  /\ stage[r] # "new" => group[r] # None
  /\ stage[r] \in {"new", "again"} => phase[r] = "idle"
  /\ stage[r] \in {"recording", "waiting"} => phase[r] = "queued"
  /\ stage[r] \in {"committing", "verifying", "pausing"} =>
       r \in Leased /\ leases[r].needsCommit
  /\ stage[r] \in {"preparing", "permitted", "ready", "sent", "completing",
                   "delivering"} => r \in Leased /\ ~leases[r].needsCommit
  /\ stage[r] \in {"closing", "ended"} => phase[r] = "done"

HoldsByStage == \A r \in Request : Holds(r)

\* The attempts a task counts, the sends it made and its stored record, stage
\* by stage: behind RecordCoversSends, SentNotForgotten and FinishedOnce.
Follows(r) ==
  /\ stage[r] \in {"new", "recording"} => record[r] = None
  /\ stage[r] \notin {"new", "recording", "ended"} => record[r] # None
  /\ stage[r] \in {"new", "recording", "waiting", "committing", "verifying",
                   "pausing", "preparing", "again"} =>
       attempts[r] = 0 /\ sent[r] = 0 /\ ~Finished(record[r])
  /\ stage[r] \in {"permitted", "ready"} => attempts[r] = sent[r] + 1
  /\ stage[r] \in {"sent", "completing", "delivering"} => attempts[r] = sent[r]
  /\ stage[r] \in {"permitted", "ready", "sent", "completing"} => ~Finished(record[r])
  /\ stage[r] \in {"ready", "sent", "completing"} => record[r].attempts = attempts[r]
  /\ stage[r] = "delivering" => Finished(record[r])
  /\ stage[r] = "closing" => sent[r] <= attempts[r]
  /\ sent[r] > 0 => record[r] # None /\ sent[r] <= record[r].attempts
  /\ stage[r] = "ended" /\ sent[r] > 0 => Finished(record[r]) \/ paused

RecordFollows == \A r \in Request : Follows(r)

\* The memory's binding of a session is a row of the store.  The store is at
\* most one generation ahead, and then by the commit of a request that either
\* still holds its lease, to find out or to give up, or is over for good.
RowsFollow(s) ==
  LET rows == stored[s] IN
  /\ \A n \in DOMAIN rows : rows[n].binding.generation = n
  /\ Len(rows) \in {GenerationOf(s), GenerationOf(s) + 1}
  /\ bindings[s] # None =>
       GenerationOf(s) > 0 /\ rows[GenerationOf(s)].binding = bindings[s]
  /\ Len(rows) > GenerationOf(s) =>
       LET q == Last(rows).by IN
       /\ q \in Request \ Stateless /\ SessionOf[q] = s
       /\ \/ stage[q] = "verifying" /\ leases[q].binding = Last(rows).binding
          \/ stage[q] \in {"pausing", "closing", "ended"}

StoreFollows == \A s \in Session : RowsFollow(s)

\* The inductive invariant of the request's life, beside the scheduler's own.
GatewayInv ==
  /\ HoldsByStage
  /\ RecordFollows
  /\ StoreFollows

\* What a session's users may rely on: generations without gaps, one of them in
\* use at a time, moved on only when nobody uses it (SessionBindings).
Bindings == INSTANCE SessionBindings WITH
  durable <- [s \in Session |-> Len(stored[s])],
  current <- [s \in Session |-> GenerationOf(s)],
  users <- [s \in Session |->
     {r \in Leased \ Stateless : SessionOf[r] = s /\ ~leases[r].needsCommit}]

ImplementsSessionBindings == Bindings!Spec

-----------------------------------------------------------------------------
(* Liveness.  A runnable task runs, the store answers or fails, an upstream  *)
(* answers or times out and the queue deadline is a timer that fires.  The   *)
(* client need not leave and nothing needs to fail.                          *)

GatewayFairness ==
  \A r \in Request : WF_allVars(Advance(r)) /\ WF_allVars(Deadline(r))

\* An administrator does not change accounts for ever.
FairGatewaySpec ==
  GatewaySpec /\ GatewayFairness /\ <>[][~Administer]_allVars

\* Every request that got a task reaches an outcome in the store, through lost
\* reservations and restarts, unless dispatch ends up paused.
EveryOutcomeRecorded ==
  \A r \in Request : stage[r] = "waiting" ~> Finished(record[r]) \/ paused

-----------------------------------------------------------------------------
(* What the documents say and the code does not do. *)

\* modules.md: while the outcome of a commit is unknown, the affected account
\* or session gets no new permits; a database operation of one account must not
\* block the whole pool.  Without a storage error nothing stops every session.
ClientsNeverPause == faults = 0 => ~paused

\* design.md: order is kept within a thread.  A request goes upstream for the
\* first time only after the requests of its thread that were accepted before.
Before(q, r) ==
  \E i, j \in DOMAIN arrived : arrived[i] = q /\ arrived[j] = r /\ i < j

ThreadOrder ==
  [][\A q, r \in Request :
       /\ sent[r] = 0 /\ sent'[r] = 1
       /\ Before(q, r)
       /\ SessionOf[q] = SessionOf[r] /\ ThreadOf[q] = ThreadOf[r]
       => sent[q] > 0 \/ stage[q] \in {"closing", "ended"}]_allVars

=============================================================================
