---------------------------- MODULE GatewayProofs ----------------------------
(***************************************************************************)
(* Proofs about Gateway: the scheduler's invariants hold under the life of *)
(* the requests with its failures and restarts, the stored records cover   *)
(* what was sent and are finished once, and the bindings in use are those  *)
(* of the store, as SessionBindings promises.                              *)
(***************************************************************************)
EXTENDS Gateway, SchedulerProofs

-----------------------------------------------------------------------------
(* The scheduler under the gateway. *)

\* The only operation of the administrator a task calls.
LEMMA PauseIsNext == Pause => Next
BY DEF Next, AdminStep

\* Whatever a task does, the scheduler takes at most one step for its request,
\* or stops.
LEMMA TaskIsSchedulerStep ==
  ASSUME TypeOK, HoldsByStage, NEW r \in Request, TaskStep(r)
  PROVE  RequestStep(r) \/ Pause \/ UNCHANGED vars
<1>1. CASE Accept(r) \/ TurnAway(r) \/ HandlerDropped(r)
  BY <1>1 DEF Accept, TurnAway, HandlerDropped, RequestStep
<1>2. CASE \/ Heartbeat(r) \/ Deadline(r) \/ WaitCancelled(r)
           \/ FirstPoll(r) \/ KeepWaiting(r) \/ GiveUp(r) \/ Reserved(r)
  BY <1>2 DEF Heartbeat, Deadline, WaitCancelled, FirstPoll, KeepWaiting, GiveUp,
              Reserved, RequestStep
<1>3. CASE Recorded(r) \/ Conflict(r) \/ NoteAttempt(r) \/ Send(r) \/ Terminal(r) \/ Complete(r) \/ Close(r)
  BY <1>3 DEF Recorded, Conflict, NoteAttempt, Send, Terminal, Complete, Close
<1>4. CASE Commit(r) \/ SendStateless(r) \/ Verified(r) \/ TakePermit(r) \/ Recover(r)
  BY <1>4 DEF Commit, SendStateless, Verified, TakePermit, Recover, RequestStep
<1>5. CASE NotVerified(r)
  BY <1>5 DEF NotVerified
<1>6. CASE \/ AfterPause(r) \/ LoseReservation(r) \/ NotSentAfterAll(r) \/ Deliver(r)
           \/ Fail(r) \/ Disconnect(r)
  BY <1>6 DEF AfterPause, LoseReservation, NotSentAfterAll, Deliver, Fail, Disconnect,
              Abandon, RequestStep
<1>7. CASE QueueAgain(r) \/ RefusedAgain(r)
  <2>1. group[r] \in Group
    BY <1>7 DEF QueueAgain, RefusedAgain, HoldsByStage, Holds, TypeOK
  <2>2. Enqueue(r, group[r]) \/ Refuse(r, group[r])
    BY <1>7 DEF QueueAgain, RefusedAgain
  <2> QED
    BY <2>1, <2>2 DEF RequestStep
<1>8. CASE StoreFails(r)
  BY <1>8 DEF StoreFails, Abandon, PauseForOutcome, RequestStep
<1> QED
  BY <1>1, <1>2, <1>3, <1>4, <1>5, <1>6, <1>7, <1>8 DEF TaskStep, Advance

\* A step of a request changes nobody else's ticket, lease or group, and no
\* binding but its own session's.
LEMMA OthersUndisturbed ==
  ASSUME TypeOK, NEW r \in Request, RequestStep(r) \/ Pause \/ UNCHANGED vars
  PROVE  /\ \A q \in Request \ {r} :
              phase'[q] = phase[q] /\ leases'[q] = leases[q] /\ group'[q] = group[q]
         /\ \A s \in Session \ {SessionOf[r]} : bindings'[s] = bindings[s]
         /\ paused => paused'
<1> USE DEF TypeOK, adminVars
<1>1. CASE \E g \in Group : Enqueue(r, g) \/ Refuse(r, g)
  BY <1>1 DEF Enqueue, Refuse, leaseVars
<1>2. CASE Resume(r) \/ Stall(r) \/ Elapse(r) \/ Park(r)
  BY <1>2 DEF Resume, Stall, Elapse, Park, leaseVars, taskVars
<1>3. CASE TimeOut(r) \/ Cancel(r) \/ Reject(r)
  BY <1>3 DEF TimeOut, Cancel, Reject, LeaveQueue, Finish, leaseVars
<1>4. CASE Reserve(r)
  BY <1>4 DEF Reserve, Grant, Finish
<1>5. CASE ConfirmBinding(r) \/ ConfirmStateless(r)
  BY <1>5 DEF ConfirmBinding, ConfirmStateless, taskVars
<1>6. CASE BeginSend(r) \/ BeginRecovery(r)
  BY <1>6 DEF BeginSend, BeginRecovery, BeginAttempt, taskVars
<1>7. CASE DropLease(r)
  BY <1>7 DEF DropLease, Finish
<1>8. CASE Pause \/ UNCHANGED vars
  BY <1>8 DEF Pause, WakeOnly, vars, leaseVars, taskVars
<1> QED
  BY <1>1, <1>2, <1>3, <1>4, <1>5, <1>6, <1>7, <1>8 DEF RequestStep

\* An administrator changes neither.
LEMMA AdministerOnly ==
  ASSUME Administer
  PROVE  Next /\ UNCHANGED <<phase, leases, group, bindings, paused, gatewayVars>>
<1>1. AdminStep
  BY DEF Administer, AdminStep
<1>2. UNCHANGED <<phase, leases, group, bindings, paused, gatewayVars>>
  BY DEF Administer, UpdateAccount, BlockAccount, RemoveAccount, WakeOnly, leaseVars, taskVars
<1> QED
  BY <1>1, <1>2 DEF Next

-----------------------------------------------------------------------------
(* What the store may hold after a write whose outcome is unknown. *)

LEMMA FinishedType ==
  ASSUME GatewayTypeOK, NEW r \in Request
  PROVE  /\ record[r] \in Row \cup {None}
         /\ \A row \in Row : WriteUnfinished(r, row) \in Row
         /\ Inserted \in Row /\ Updated(r) \in Row
         /\ \A state \in Final : Closed(r, state) \in Row
<1> QED
  BY RowAssumption DEF GatewayTypeOK, Row, Final, WriteUnfinished, Finished, Inserted, Updated, Closed

LEMMA OutcomeType ==
  ASSUME GatewayTypeOK, NEW r \in Request
  PROVE  RowOutcomes(r) \subseteq Row \cup {None}
BY FinishedType DEF RowOutcomes, Final

\* A commit appends the minted binding to the rows of the session.
LEMMA CommittedRows ==
  ASSUME TypeOK, GatewayTypeOK, HoldsByStage, NEW r \in Request, stage[r] = "committing"
  PROVE  /\ Committed(r) \in Seq(StoredRow)
         /\ Len(Committed(r)) = Len(stored[SessionOf[r]]) + 1
         /\ Last(Committed(r)) = [binding |-> leases[r].binding, by |-> r]
         /\ \A n \in DOMAIN stored[SessionOf[r]] : Committed(r)[n] = stored[SessionOf[r]][n]
<1>1. leases[r] \in Lease /\ SessionOf[r] \in Session
  BY SchedulerAssumption DEF HoldsByStage, Holds, Leased, TypeOK
<1>2. [binding |-> leases[r].binding, by |-> r] \in StoredRow
  BY <1>1 DEF Lease, StoredRow
<1>3. stored[SessionOf[r]] \in Seq(StoredRow)
  BY <1>1 DEF GatewayTypeOK
<1> QED
  BY <1>2, <1>3 DEF Committed, Last

\* A restart finds the rows of a session as they were, or with one commit more.
LEMMA RestartRows ==
  ASSUME Restart
  PROVE  /\ stored' = [s \in Session |-> stored'[s]]
         /\ \A s \in Session :
              \/ stored'[s] = stored[s]
              \/ \E r \in Request : /\ SessionOf[r] = s /\ Committing(r)
                                   /\ stored'[s] = Committed(r)
<1>1. PICK applied \in SUBSET {r \in Request : Committing(r)} :
        stored' = [s \in Session |->
          IF \E r \in applied : SessionOf[r] = s
          THEN Committed(CHOOSE r \in applied : SessionOf[r] = s)
          ELSE stored[s]]
  BY DEF Restart
<1> SUFFICES ASSUME NEW s \in Session, stored'[s] # stored[s]
             PROVE  \E r \in Request : /\ SessionOf[r] = s /\ Committing(r)
                                      /\ stored'[s] = Committed(r)
  BY <1>1
<1>2. \E r \in applied : SessionOf[r] = s
  BY <1>1
<1> DEFINE q == CHOOSE r \in applied : SessionOf[r] = s
<1>3. q \in applied /\ SessionOf[q] = s
  BY <1>2
<1>4. stored'[s] = Committed(q)
  BY <1>1, <1>2
<1>5. q \in Request /\ Committing(q)
  BY <1>3
<1> HIDE DEF q
<1> QED
  BY <1>3, <1>4, <1>5

-----------------------------------------------------------------------------
(* Type correctness. *)

LEMMA InDoubtType ==
  ASSUME TypeOK, GatewayTypeOK, HoldsByStage, NEW r \in Request, InDoubt(r)
  PROVE  /\ stored' \in [Session -> Seq(StoredRow)]
         /\ record' \in [Request -> Row \cup {None}]
<1>1. SessionOf[r] \in Session
  BY SchedulerAssumption
<1>2. History(r) \subseteq Seq(StoredRow)
  <2>1. stored[SessionOf[r]] \in Seq(StoredRow)
    BY <1>1 DEF GatewayTypeOK
  <2>2. Committing(r) => Committed(r) \in Seq(StoredRow)
    BY CommittedRows DEF Committing
  <2> QED
    BY <2>1, <2>2 DEF History
<1>3. RowOutcomes(r) \cup {record[r]} \subseteq Row \cup {None}
  BY OutcomeType DEF GatewayTypeOK
<1> QED
  BY <1>1, <1>2, <1>3 DEF InDoubt, Store, GatewayTypeOK

\* A second send is the last: the task counts it first and stops at two.
LEMMA TaskKeepsTypes ==
  ASSUME TypeOK, GatewayTypeOK, HoldsByStage, RecordFollows, NEW r \in Request, TaskStep(r)
  PROVE  GatewayTypeOK'
<1> USE DEF GatewayTypeOK, Stage, GoTo, Bookkeeping, StoreUnchanged, gatewayVars
<1>1. CASE Accept(r) \/ TurnAway(r)
  <2>1. stage' \in [Request -> Stage]
    BY <1>1 DEF Accept, TurnAway
  <2>2. Append(arrived, r) \in Seq(Request)
    BY AppendProperties
  <2> QED
    BY <1>1, <2>1, <2>2 DEF Accept, TurnAway
<1>2. CASE \/ Heartbeat(r) \/ Deadline(r) \/ WaitCancelled(r)
           \/ FirstPoll(r) \/ KeepWaiting(r) \/ GiveUp(r) \/ Reserved(r)
  BY <1>2 DEF Heartbeat, Deadline, WaitCancelled, FirstPoll, KeepWaiting, GiveUp, Reserved
<1>3. CASE Recorded(r) \/ NoteAttempt(r) \/ Complete(r) \/ Close(r)
  <2>1. PICK row \in Row : Store(r, row)
    BY <1>3, FinishedType DEF Recorded, NoteAttempt, Complete, Close, Final
  <2>2. record' \in [Request -> Row \cup {None}]
    BY <2>1 DEF Store
  <2> QED
    BY <1>3, <2>2 DEF Recorded, NoteAttempt, Complete, Close
<1>4. CASE Conflict(r) \/ Terminal(r) \/ SendStateless(r) \/ Verified(r) \/ NotVerified(r)
  BY <1>4 DEF Conflict, Terminal, SendStateless, Verified, NotVerified
<1>5. CASE Commit(r)
  <2>1. SessionOf[r] \in Session /\ Committed(r) \in Seq(StoredRow)
    BY <1>5, SchedulerAssumption, CommittedRows DEF Commit, Committing
  <2> QED
    BY <1>5, <2>1 DEF Commit
<1>6. CASE TakePermit(r) \/ Recover(r) \/ NotSentAfterAll(r)
  <2>1. stage' \in [Request -> Stage] /\ attempts' \in [Request -> 0..2]
    BY <1>6 DEF TakePermit, Recover, RecordsFirst, NotSentAfterAll, Abandon
  <2> QED
    BY <1>6, <2>1 DEF TakePermit, Recover, NotSentAfterAll
<1>7. CASE Send(r)
  <2>1. sent[r] + 1 \in 0..2
    BY <1>7 DEF Send, RecordFollows, Follows
  <2> QED
    BY <1>7, <2>1 DEF Send, SentOnce
<1>8. CASE AfterPause(r) \/ LoseReservation(r) \/ QueueAgain(r) \/ RefusedAgain(r) \/ Deliver(r) \/ Fail(r)
  BY <1>8 DEF AfterPause, LoseReservation, QueueAgain, RefusedAgain, Deliver, Fail, Abandon
<1>9. CASE HandlerDropped(r) \/ Disconnect(r)
  BY <1>9, InDoubtType DEF HandlerDropped, Disconnect, Abandon
<1>10. CASE StoreFails(r)
  <2>1. faults' \in 0..MaxFaults
    BY <1>10, GatewayAssumption DEF StoreFails
  <2> QED
    BY <1>10, <2>1, InDoubtType DEF StoreFails, Abandon
<1> QED
  BY <1>1, <1>2, <1>3, <1>4, <1>5, <1>6, <1>7, <1>8, <1>9, <1>10 DEF TaskStep, Advance

\* A restart builds the memory from rows of the right types.
LEMMA RestartKeepsTypes ==
  ASSUME TypeOK, GatewayTypeOK, HoldsByStage, Restart
  PROVE  TypeOK' /\ GatewayTypeOK'
<1>1. stored' \in [Session -> Seq(StoredRow)]
  <2>1. \A s \in Session : stored'[s] \in Seq(StoredRow)
    <3> SUFFICES ASSUME NEW s \in Session
                 PROVE  stored'[s] \in Seq(StoredRow)
      OBVIOUS
    <3>1. CASE stored'[s] = stored[s]
      BY <3>1 DEF GatewayTypeOK
    <3>2. CASE \E r \in Request : Committing(r) /\ stored'[s] = Committed(r)
      BY <3>2, CommittedRows DEF Committing
    <3> QED
      BY <3>1, <3>2, RestartRows
  <2> QED
    BY <2>1, RestartRows
<1>2. record' \in [Request -> Row \cup {None}]
  <2>1. PICK row \in [Request -> UNION {RowOutcomes(r) : r \in Request}] :
          /\ \A r \in Request : row[r] \in RowOutcomes(r)
          /\ record' = [r \in Request |-> Reconciled(row[r])]
    BY DEF Restart
  <2>2. \A r \in Request : row[r] \in Row \cup {None}
    BY <2>1, OutcomeType
  <2>3. \A r \in Request : Reconciled(row[r]) \in Row \cup {None}
    BY <2>2 DEF Reconciled, Row, Final
  <2> QED
    BY <2>1, <2>3
<1>3. bindings' \in [Session -> Binding \cup {None}]
  <2>1. \A rows \in Seq(StoredRow) : rows # <<>> => Last(rows).binding \in Binding
    <3> SUFFICES ASSUME NEW rows \in Seq(StoredRow), rows # <<>>
                 PROVE  Last(rows).binding \in Binding
      OBVIOUS
    <3>1. Last(rows) \in StoredRow
      BY DEF Last
    <3> QED
      BY <3>1 DEF StoredRow
  <2> QED
    BY <1>1, <2>1 DEF Restart
<1>4. /\ stage' \in [Request -> Stage] /\ phase' \in [Request -> Phase]
      /\ crashes' \in 0..MaxCrashes
  BY GatewayAssumption DEF Restart, GatewayTypeOK, Stage, Phase
<1>5. /\ deletedAccounts' \subseteq Account /\ deletedKeys' \subseteq Key
      /\ blocked' \subseteq Account /\ blockedKeys' \subseteq Key
      /\ paused' \in BOOLEAN
      /\ late' \subseteq Request /\ stalled' \subseteq Request /\ woken' \subseteq Request
  BY DEF Restart
<1>6. queues' \in [Session -> Seq(Request)] /\ order' \in Seq(Session)
  BY DEF Restart
<1>7. /\ inflight' \in [Account -> Nat] /\ served' \in [Account -> Nat]
      /\ threads' \in [Session -> [Thread -> Request \cup {None}]]
      /\ pending' \in [Session -> Request \cup {None}]
      /\ leases' \in [Request -> Lease \cup {None}]
  BY DEF Restart
<1>8. UNCHANGED <<accounts, keys, cfg, group, attempts, sent, arrived, faults>>
  BY DEF Restart
<1> QED
  BY <1>1, <1>2, <1>3, <1>4, <1>5, <1>6, <1>7, <1>8 DEF TypeOK, GatewayTypeOK

-----------------------------------------------------------------------------
(* A task and its own row. *)

\* A step of r's task writes the row of r, and the rows of r's session.
LEMMA OwnRow ==
  ASSUME TypeOK, GatewayTypeOK, NEW r \in Request, TaskStep(r)
  PROVE  /\ \A q \in Request \ {r} :
              /\ stage'[q] = stage[q] /\ record'[q] = record[q]
              /\ attempts'[q] = attempts[q] /\ sent'[q] = sent[q]
         /\ \A s \in Session \ {SessionOf[r]} : stored'[s] = stored[s]
<1> USE DEF GatewayTypeOK, GoTo, Store, Bookkeeping, StoreUnchanged, gatewayVars
<1>1. CASE Accept(r) \/ TurnAway(r) \/ Recorded(r)
  BY <1>1 DEF Accept, TurnAway, Recorded
<1>2. CASE \/ Heartbeat(r) \/ Deadline(r) \/ WaitCancelled(r)
           \/ FirstPoll(r) \/ KeepWaiting(r) \/ GiveUp(r) \/ Reserved(r)
  BY <1>2 DEF Heartbeat, Deadline, WaitCancelled, FirstPoll, KeepWaiting, GiveUp, Reserved
<1>3. CASE NoteAttempt(r) \/ Complete(r) \/ Close(r)
  BY <1>3 DEF NoteAttempt, Complete, Close
<1>4. CASE Commit(r) \/ Conflict(r) \/ Terminal(r) \/ SendStateless(r) \/ Verified(r) \/ NotVerified(r)
  BY <1>4 DEF Commit, Conflict, Terminal, SendStateless, Verified, NotVerified
<1>5. CASE TakePermit(r) \/ Recover(r) \/ NotSentAfterAll(r) \/ Send(r)
  BY <1>5 DEF TakePermit, Recover, RecordsFirst, NotSentAfterAll, Abandon, Send, SentOnce
<1>6. CASE AfterPause(r) \/ LoseReservation(r) \/ QueueAgain(r) \/ RefusedAgain(r) \/ Deliver(r) \/ Fail(r)
  BY <1>6 DEF AfterPause, LoseReservation, QueueAgain, RefusedAgain, Deliver, Fail, Abandon
<1>7. CASE HandlerDropped(r) \/ Disconnect(r)
  BY <1>7 DEF HandlerDropped, Disconnect, Abandon, InDoubt
<1>8. CASE StoreFails(r)
  BY <1>8 DEF StoreFails, Abandon, InDoubt
<1> QED
  BY <1>1, <1>2, <1>3, <1>4, <1>5, <1>6, <1>7, <1>8 DEF TaskStep, Advance

\* A task that ends its lease is done with the scheduler.
LEMMA LeavesScheduler ==
  ASSUME TypeOK, NEW r \in Request, LeaveQueue(r) \/ (DropLease(r) /\ phase'[r] = "done")
  PROVE  phase'[r] = "done" /\ group' = group
<1>1. CASE LeaveQueue(r)
  BY <1>1 DEF LeaveQueue, Finish, TypeOK
<1>2. CASE DropLease(r) /\ phase'[r] = "done"
  BY <1>2 DEF DropLease, Finish
<1> QED
  BY <1>1, <1>2

\* Confirming a lease or sending with it keeps it.
LEMMA KeepsLease ==
  ASSUME TypeOK, NEW r \in Request,
         \/ ConfirmBinding(r) \/ ConfirmStateless(r) \/ BeginSend(r) \/ BeginRecovery(r)
  PROVE  /\ leases[r] \in Lease /\ leases'[r] \in Lease
         /\ ~leases'[r].needsCommit
         /\ leases'[r].binding = leases[r].binding
         /\ phase' = phase /\ group' = group
<1>1. leases[r] \in Lease
  BY DEF ConfirmBinding, ConfirmStateless, BeginSend, BeginRecovery, BeginAttempt, TypeOK
<1>2. CASE ConfirmBinding(r) \/ ConfirmStateless(r)
  <2>1. leases' = [leases EXCEPT ![r].needsCommit = FALSE] /\ phase' = phase /\ group' = group
    BY <1>2 DEF ConfirmBinding, ConfirmStateless, taskVars
  <2>2. leases'[r] = [leases[r] EXCEPT !.needsCommit = FALSE]
    BY <2>1 DEF TypeOK
  <2>3. leases'[r] \in Lease
    BY <1>1, <2>2 DEF Lease
  <2>4. ~leases'[r].needsCommit /\ leases'[r].binding = leases[r].binding
    BY <1>1, <2>2 DEF Lease
  <2> QED
    BY <1>1, <2>1, <2>3, <2>4
<1>3. ASSUME NEW previous \in {0, 1}, BeginAttempt(r, previous)
      PROVE  /\ leases'[r] \in Lease /\ ~leases'[r].needsCommit
             /\ leases'[r].binding = leases[r].binding
             /\ phase' = phase /\ group' = group
  <2>1. /\ leases' = [leases EXCEPT ![r].attempts = previous + 1] /\ ~leases[r].needsCommit
        /\ phase' = phase /\ group' = group
    BY <1>3 DEF BeginAttempt, taskVars
  <2>2. leases'[r] = [leases[r] EXCEPT !.attempts = previous + 1] /\ previous + 1 \in 0..2
    BY <2>1 DEF TypeOK
  <2>3. leases'[r] \in Lease
    BY <1>1, <2>2 DEF Lease
  <2>4. ~leases'[r].needsCommit /\ leases'[r].binding = leases[r].binding
    BY <1>1, <2>1, <2>2 DEF Lease
  <2> QED
    BY <1>1, <2>1, <2>3, <2>4
<1> QED
  BY <1>1, <1>2, <1>3 DEF BeginSend, BeginRecovery

-----------------------------------------------------------------------------
(* What a task holds. *)

LEMMA TaskKeepsHolds ==
  ASSUME TypeOK, GatewayTypeOK, LeaseInv, HoldsByStage, NEW r \in Request, TaskStep(r)
  PROVE  HoldsByStage'
<1>1. RequestStep(r) \/ Pause \/ UNCHANGED vars
  BY TaskIsSchedulerStep
<1>2. TypeOK' /\ LeaseInv'
  <2>1. [Next]_vars
    BY <1>1, PauseIsNext DEF Next
  <2> QED
    BY <2>1, StepKeepsTypes, StepKeepsLeases
<1>3. \A q \in Request \ {r} : Holds(q)'
  BY <1>1, OthersUndisturbed, OwnRow DEF HoldsByStage, Holds, Leased
<1>4. Holds(r) /\ (phase'[r] = "leased" => r \in Leased')
  BY <1>2 DEF HoldsByStage, LeaseInv, Leased
<1>5. Holds(r)'
  <2> USE DEF GatewayTypeOK, GoTo, gatewayVars
  <2>1. CASE Accept(r) \/ QueueAgain(r)
    <3>1. PICK g \in Group : Enqueue(r, g)
      <4>1. stage[r] = "again" => group[r] \in Group
        BY <1>4 DEF Holds, TypeOK
      <4> QED
        BY <2>1, <4>1 DEF Accept, QueueAgain
    <3>2. phase'[r] = "queued" /\ group'[r] # None
      BY <3>1, SchedulerAssumption DEF Enqueue, TypeOK
    <3>3. stage'[r] \in {"recording", "waiting"}
      BY <2>1 DEF Accept, QueueAgain
    <3> QED
      BY <3>2, <3>3 DEF Holds
  <2>2. CASE TurnAway(r) \/ RefusedAgain(r)
    <3>1. PICK g \in Group : Refuse(r, g)
      <4>1. stage[r] = "again" => group[r] \in Group
        BY <1>4 DEF Holds, TypeOK
      <4> QED
        BY <2>2, <4>1 DEF TurnAway, RefusedAgain
    <3>2. phase'[r] = "done" /\ group'[r] # None
      BY <3>1, SchedulerAssumption DEF Refuse, TypeOK
    <3>3. stage'[r] \in {"closing", "ended"}
      BY <2>2 DEF TurnAway, RefusedAgain
    <3> QED
      BY <3>2, <3>3 DEF Holds
  <2>3. CASE Recorded(r) \/ Conflict(r) \/ NoteAttempt(r) \/ Send(r) \/ Terminal(r) \/ Complete(r) \/ Close(r)
    BY <1>4, <2>3 DEF Recorded, Conflict, NoteAttempt, Send, Terminal, Complete, Close, Holds,
                      vars, taskVars, leaseVars, Leased
  <2>4. CASE Heartbeat(r) \/ Deadline(r) \/ FirstPoll(r) \/ KeepWaiting(r)
    BY <1>4, <2>4 DEF Heartbeat, Deadline, FirstPoll, KeepWaiting, Waiting, Stall, Elapse, Resume,
                      Park, taskVars, Holds
  <2>5. CASE GiveUp(r) \/ WaitCancelled(r) \/ HandlerDropped(r)
    <3>1. LeaveQueue(r) /\ stage[r] # "new" /\ stage'[r] \in {"closing", "ended"}
      BY <2>5 DEF GiveUp, WaitCancelled, HandlerDropped, Waiting, TimeOut, Reject, Cancel
    <3> QED
      BY <1>4, <3>1, LeavesScheduler DEF Holds
  <2>6. CASE Reserved(r)
    <3>1. phase'[r] = "leased" /\ group' = group
      BY <2>6 DEF Reserved, Reserve, Grant, Finish, TypeOK
    <3> QED
      BY <1>4, <2>6, <3>1 DEF Reserved, Waiting, Holds, Leased
  <2>7. CASE Commit(r) \/ SendStateless(r) \/ Verified(r)
    <3>1. ConfirmBinding(r) \/ ConfirmStateless(r)
      BY <2>7 DEF Commit, SendStateless, Verified
    <3>2. stage[r] \in {"committing", "verifying"} /\ stage'[r] = "preparing"
      BY <2>7 DEF Commit, Committing, SendStateless, Verified
    <3> QED
      BY <1>2, <1>4, <3>1, <3>2, KeepsLease DEF Holds, LeaseInv, Leased
  <2>8. CASE TakePermit(r) \/ Recover(r)
    <3>1. BeginSend(r) \/ BeginRecovery(r)
      BY <2>8 DEF TakePermit, Recover
    <3>2. stage[r] \in {"preparing", "sent"} /\ stage'[r] = "permitted"
      BY <2>8 DEF TakePermit, Recover, RecordsFirst
    <3> QED
      BY <1>2, <1>4, <3>1, <3>2, KeepsLease DEF Holds, LeaseInv, Leased
  <2>9. CASE NotVerified(r)
    BY <1>4, <2>9 DEF NotVerified, Pause, WakeOnly, leaseVars, taskVars, Holds, Leased
  <2>10. CASE LoseReservation(r)
    <3>1. phase'[r] = "idle" /\ group' = group
      BY <2>10 DEF LoseReservation, DropLease, Finish
    <3> QED
      BY <1>4, <2>10, <3>1 DEF LoseReservation, Holds
  <2>11. CASE AfterPause(r) \/ NotSentAfterAll(r) \/ Deliver(r) \/ Fail(r) \/ Disconnect(r)
    <3>1. DropLease(r) /\ phase'[r] = "done" /\ stage[r] # "new" /\ stage'[r] \in {"closing", "ended"}
      BY <2>11 DEF AfterPause, NotSentAfterAll, Deliver, Fail, Disconnect, Abandon
    <3> QED
      BY <1>4, <3>1, LeavesScheduler DEF Holds
  <2>12. CASE StoreFails(r)
    <3>1. CASE stage[r] = "recording" /\ Cancel(r) /\ GoTo(r, "ended")
      BY <1>4, <3>1, LeavesScheduler DEF Cancel, Holds
    <3>2. CASE stage[r] = "committing" /\ GoTo(r, "verifying") /\ UNCHANGED vars
      BY <1>4, <3>2 DEF Holds, Leased, vars, leaseVars, taskVars
    <3>3. CASE /\ Pause
               /\ \/ stage[r] = "verifying" /\ GoTo(r, "pausing")
                  \/ stage[r] = "closing" /\ GoTo(r, "ended")
      BY <1>4, <3>3 DEF Pause, WakeOnly, leaseVars, taskVars, Holds, Leased
    <3>4. CASE stage[r] \in {"permitted", "completing"} /\ Abandon(r)
      BY <1>4, <3>4, LeavesScheduler DEF Abandon, Holds
    <3> QED
      BY <2>12, <3>1, <3>2, <3>3, <3>4 DEF StoreFails, PauseForOutcome
  <2> QED
    BY <2>1, <2>2, <2>3, <2>4, <2>5, <2>6, <2>7, <2>8, <2>9, <2>10, <2>11, <2>12 DEF TaskStep, Advance
<1> QED
  BY <1>3, <1>5 DEF HoldsByStage

-----------------------------------------------------------------------------
(* What the store knows of a request. *)

\* A write that is abandoned leaves no more than the task knows: what was sent
\* stays covered, and what was finished stays as it is.
LEMMA OutcomesCover ==
  ASSUME GatewayTypeOK, NEW r \in Request, Follows(r), NEW row \in RowOutcomes(r)
  PROVE  /\ row \in Row \cup {None}
         /\ Finished(record[r]) => row = record[r]
         /\ sent[r] > 0 => row # None /\ sent[r] <= row.attempts
         /\ record[r] # None => row # None
         /\ row # None => row \in Row
<1>1. row \in Row \cup {None} /\ record[r] \in Row \cup {None} /\ attempts[r] \in 0..2 /\ sent[r] \in 0..2
  BY OutcomeType, FinishedType DEF GatewayTypeOK
<1>2. CASE row = record[r]
  BY <1>1, <1>2 DEF Follows
<1>3. CASE stage[r] = "recording" /\ row = Inserted
  BY <1>1, <1>3, FinishedType, RowAssumption DEF Follows, Finished
<1>4. CASE \/ stage[r] = "permitted" /\ row = Updated(r)
           \/ stage[r] = "completing" /\ row \in {Closed(r, "completed"), Closed(r, "failed")}
           \/ stage[r] = "closing" /\ row = Closed(r, "failed")
  <2>1. sent[r] <= attempts[r]
    BY <1>1, <1>4 DEF Follows
  <2>2. \/ Finished(record[r]) /\ row = record[r]
        \/ ~Finished(record[r]) /\ row.attempts = attempts[r]
    BY <1>4 DEF Updated, Closed, WriteUnfinished
  <2>3. row # None
    BY <1>4, FinishedType, RowAssumption DEF Final
  <2> QED
    BY <1>1, <2>1, <2>2, <2>3 DEF Follows
<1> QED
  BY <1>2, <1>3, <1>4 DEF RowOutcomes

LEMMA TaskKeepsRecords ==
  ASSUME TypeOK, GatewayTypeOK, HoldsByStage, RecordFollows, NEW r \in Request, TaskStep(r)
  PROVE  RecordFollows'
<1>1. RequestStep(r) \/ Pause \/ UNCHANGED vars
  BY TaskIsSchedulerStep
<1>2. \A q \in Request \ {r} : Follows(q)'
  BY <1>1, OthersUndisturbed, OwnRow DEF RecordFollows, Follows, Finished
<1>3. Follows(r) /\ (paused => paused')
  BY <1>1, OthersUndisturbed DEF RecordFollows
<1>4. record[r] \in Row \cup {None} /\ attempts[r] \in 0..2 /\ sent[r] \in 0..2
  BY DEF GatewayTypeOK
<1>5. Follows(r)'
  <2> USE DEF GatewayTypeOK, GoTo, gatewayVars, Bookkeeping, StoreUnchanged, Finished
  <2>1. CASE Accept(r) \/ TurnAway(r)
    BY <1>3, <2>1 DEF Accept, TurnAway, Follows
  <2>2. CASE Recorded(r)
    BY <1>3, <2>2, FinishedType, RowAssumption DEF Recorded, Store, Inserted, Final, Follows
  <2>3. CASE Heartbeat(r) \/ Deadline(r) \/ FirstPoll(r) \/ KeepWaiting(r)
    BY <1>3, <2>3 DEF Heartbeat, Deadline, FirstPoll, KeepWaiting, Follows
  <2>4. CASE GiveUp(r) \/ WaitCancelled(r) \/ Reserved(r)
    BY <1>3, <2>4 DEF GiveUp, WaitCancelled, Reserved, Waiting, Follows
  <2>5. CASE Commit(r) \/ SendStateless(r) \/ Verified(r) \/ NotVerified(r) \/ Conflict(r)
    BY <1>3, <2>5 DEF Commit, Committing, SendStateless, Verified, NotVerified, Conflict, Follows
  <2>6. CASE AfterPause(r) \/ LoseReservation(r) \/ QueueAgain(r) \/ RefusedAgain(r)
    BY <1>3, <2>6 DEF AfterPause, LoseReservation, QueueAgain, RefusedAgain, Abandon, Follows
  <2>7. CASE TakePermit(r)
    BY <1>3, <2>7 DEF TakePermit, Follows
  <2>8. CASE NoteAttempt(r)
    <3>1. record'[r] = [state |-> "inflight", attempts |-> attempts[r]] /\ record'[r] # None
      BY <1>3, <2>8, FinishedType, RowAssumption DEF NoteAttempt, Store, Updated, WriteUnfinished, Follows
    <3> QED
      BY <1>3, <1>4, <2>8, <3>1 DEF NoteAttempt, Final, Follows
  <2>9. CASE Send(r)
    BY <1>3, <1>4, <2>9 DEF Send, SentOnce, Follows
  <2>10. CASE Recover(r)
    BY <1>3, <1>4, <2>10 DEF Recover, RecordsFirst, Follows
  <2>11. CASE Terminal(r)
    BY <1>3, <2>11 DEF Terminal, Follows
  <2>12. CASE Complete(r)
    <3>1. PICK state \in {"completed", "failed"} :
            record'[r] = [state |-> state, attempts |-> attempts[r]] /\ record'[r] # None
      BY <1>3, <2>12, FinishedType, RowAssumption DEF Complete, Store, Closed, WriteUnfinished, Follows, Final
    <3> QED
      BY <1>3, <1>4, <2>12, <3>1 DEF Complete, Final, Follows
  <2>13. CASE Deliver(r)
    BY <1>3, <2>13 DEF Deliver, Follows
  <2>14. CASE NotSentAfterAll(r) \/ Fail(r)
    BY <1>3, <1>4, <2>14 DEF NotSentAfterAll, Fail, Abandon, Follows
  <2>15. CASE Close(r)
    <3>1. Closed(r, "failed") \in RowOutcomes(r) /\ record'[r] = Closed(r, "failed")
      BY <2>15 DEF Close, Store, RowOutcomes
    <3>2. Finished(record'[r])
      <4> DEFINE row == [state |-> "failed", attempts |-> attempts[r]]
      <4>1. row \in Row
        BY <1>4 DEF Row, Final
      <4>2. row # None /\ row.state \in Final
        BY <4>1, RowAssumption DEF Final
      <4> QED
        BY <3>1, <4>2 DEF Closed, WriteUnfinished
    <3>3. sent[r] > 0 => record'[r] # None /\ sent[r] <= record'[r].attempts
      BY <1>3, <3>1, OutcomesCover
    <3>4. stage'[r] = "ended" /\ sent'[r] = sent[r]
      BY <2>15 DEF Close
    <3> QED
      BY <3>2, <3>3, <3>4 DEF Follows
  <2>16. CASE HandlerDropped(r) \/ Disconnect(r) \/ StoreFails(r)
    <3>1. InDoubt(r) /\ UNCHANGED <<attempts, sent>>
      BY <2>16 DEF HandlerDropped, Disconnect, StoreFails
    <3>2. record'[r] = record[r] \/ record'[r] \in RowOutcomes(r)
      BY <3>1 DEF InDoubt, Store
    <3>3. /\ sent[r] > 0 => record'[r] # None /\ sent[r] <= record'[r].attempts
          /\ record[r] # None => record'[r] # None
      BY <1>3, <3>2, OutcomesCover DEF Follows
    <3>4. CASE stage[r] = "recording" /\ stage'[r] = "ended"
      BY <1>3, <3>1, <3>3, <3>4 DEF Follows
    <3>5. CASE \/ stage[r] = "committing" /\ stage'[r] = "verifying"
               \/ stage[r] = "verifying" /\ stage'[r] = "pausing"
      <4>1. RowOutcomes(r) \subseteq {record[r]}
        BY <3>5 DEF RowOutcomes
      <4>2. record'[r] = record[r]
        BY <3>2, <4>1
      <4> QED
        BY <1>3, <3>1, <3>5, <4>2 DEF Follows
    <3>6. CASE /\ stage[r] \in {"committing", "verifying", "preparing", "permitted", "ready",
                              "sent", "completing"}
               /\ stage'[r] = "closing"
      <4>1. sent[r] <= attempts[r]
        BY <1>3, <1>4, <3>6 DEF Follows
      <4> QED
        BY <1>3, <3>1, <3>3, <3>6, <4>1 DEF Follows
    <3>7. CASE stage[r] = "closing" /\ stage'[r] = "ended" /\ paused'
      BY <3>1, <3>3, <3>7 DEF Follows
    <3> QED
      BY <2>16, <3>4, <3>5, <3>6, <3>7
         DEF HandlerDropped, Disconnect, StoreFails, Abandon, PauseForOutcome, Pause
  <2> QED
    BY <2>1, <2>2, <2>3, <2>4, <2>5, <2>6, <2>7, <2>8, <2>9, <2>10, <2>11, <2>12, <2>13, <2>14,
       <2>15, <2>16 DEF TaskStep, Advance
<1> QED
  BY <1>2, <1>5 DEF RecordFollows

\* No step of the task rewrites a row that was finished.
LEMMA TaskKeepsFinished ==
  ASSUME TypeOK, GatewayTypeOK, RecordFollows, NEW r \in Request, TaskStep(r),
         NEW q \in Request, Finished(record[q])
  PROVE  record'[q] = record[q]
<1>1. CASE q # r
  BY <1>1, OwnRow
<1>2. CASE q = r
  <2> USE <1>2 DEF GatewayTypeOK, GoTo, Bookkeeping, StoreUnchanged, gatewayVars, Store
  <2>1. Follows(r) /\ record[r] # None
    BY DEF RecordFollows, Finished
  <2>2. CASE Accept(r) \/ TurnAway(r) \/ Recorded(r)
    BY <2>1, <2>2 DEF Accept, TurnAway, Recorded, Follows
  <2>3. CASE NoteAttempt(r) \/ Complete(r) \/ Close(r)
    BY <2>3 DEF NoteAttempt, Complete, Close, Updated, Closed, WriteUnfinished
  <2>4. CASE InDoubt(r)
    BY <2>1, <2>4, OutcomesCover DEF InDoubt
  <2>5. CASE \/ Heartbeat(r) \/ Deadline(r) \/ WaitCancelled(r)
             \/ FirstPoll(r) \/ KeepWaiting(r) \/ GiveUp(r) \/ Reserved(r)
    BY <2>5 DEF Heartbeat, Deadline, WaitCancelled, FirstPoll, KeepWaiting, GiveUp, Reserved
  <2>6. CASE Commit(r) \/ Conflict(r) \/ Terminal(r) \/ SendStateless(r) \/ Verified(r) \/ NotVerified(r)
    BY <2>6 DEF Commit, Conflict, Terminal, SendStateless, Verified, NotVerified
  <2>7. CASE TakePermit(r) \/ Recover(r) \/ NotSentAfterAll(r) \/ Send(r)
    BY <2>7 DEF TakePermit, Recover, NotSentAfterAll, Send
  <2>8. CASE AfterPause(r) \/ LoseReservation(r) \/ QueueAgain(r) \/ RefusedAgain(r) \/ Deliver(r) \/ Fail(r)
    BY <2>8 DEF AfterPause, LoseReservation, QueueAgain, RefusedAgain, Deliver, Fail
  <2> QED
    BY <2>2, <2>3, <2>4, <2>5, <2>6, <2>7, <2>8
       DEF TaskStep, Advance, HandlerDropped, Disconnect, StoreFails
<1> QED
  BY <1>1, <1>2

-----------------------------------------------------------------------------
(* The rows of the bindings table. *)

Over == {"pausing", "closing", "ended"}

\* Who writes the bindings: a commit that is acknowledged, a verification that
\* finds it, and a commit whose acknowledgement is lost.
LEMMA WhoWritesBindings ==
  ASSUME TypeOK, GatewayTypeOK, HoldsByStage, NEW r \in Request, TaskStep(r)
  PROVE  \/ Commit(r)
         \/ Verified(r)
         \/ /\ UNCHANGED <<bindings, stored>>
            /\ stage[r] \in Over \cup {"verifying"} => stage'[r] \in Over
         \/ /\ Committing(r)
            /\ UNCHANGED bindings
            /\ stored' = [stored EXCEPT ![SessionOf[r]] = Committed(r)]
            /\ \/ stage'[r] = "closing"
               \/ stage'[r] = "verifying" /\ leases' = leases
<1> USE DEF GatewayTypeOK, GoTo, Bookkeeping, StoreUnchanged, gatewayVars, Over
<1>1. CASE Accept(r) \/ TurnAway(r) \/ QueueAgain(r) \/ RefusedAgain(r)
  BY <1>1 DEF Accept, TurnAway, QueueAgain, RefusedAgain, Enqueue, Refuse, leaseVars
<1>2. CASE \/ Heartbeat(r) \/ Deadline(r) \/ FirstPoll(r) \/ KeepWaiting(r)
  BY <1>2 DEF Heartbeat, Deadline, FirstPoll, KeepWaiting, Stall, Elapse, Resume, Park, leaseVars, Waiting
<1>3. CASE WaitCancelled(r) \/ GiveUp(r) \/ Reserved(r)
  BY <1>3 DEF WaitCancelled, GiveUp, Reserved, Waiting, Cancel, TimeOut, Reject, LeaveQueue, leaseVars,
              Reserve, Grant
<1>4. CASE Recorded(r) \/ Conflict(r) \/ NoteAttempt(r) \/ Send(r) \/ Terminal(r) \/ Complete(r) \/ Close(r)
  BY <1>4 DEF Recorded, Conflict, NoteAttempt, Send, Terminal, Complete, Close, vars, leaseVars
<1>5. CASE SendStateless(r) \/ TakePermit(r) \/ Recover(r) \/ NotVerified(r)
  BY <1>5 DEF SendStateless, TakePermit, Recover, RecordsFirst, NotVerified, ConfirmStateless,
              BeginSend, BeginRecovery, BeginAttempt, Pause, WakeOnly, leaseVars
<1>6. CASE AfterPause(r) \/ LoseReservation(r) \/ NotSentAfterAll(r) \/ Deliver(r) \/ Fail(r)
  BY <1>6 DEF AfterPause, LoseReservation, NotSentAfterAll, Deliver, Fail, Abandon, DropLease
<1>7. CASE HandlerDropped(r) \/ Disconnect(r) \/ StoreFails(r)
  <2>1. \/ stored' = stored
        \/ Committing(r) /\ stored' = [stored EXCEPT ![SessionOf[r]] = Committed(r)]
    BY <1>7 DEF HandlerDropped, Disconnect, StoreFails, InDoubt, History
  <2>2. bindings' = bindings
    BY <1>7 DEF HandlerDropped, Disconnect, StoreFails, Abandon, DropLease, Cancel, LeaveQueue,
                Pause, PauseForOutcome, WakeOnly, leaseVars, vars
  <2>3. stage[r] \in Over \cup {"verifying"} => stage'[r] \in Over
    BY <1>7 DEF HandlerDropped, Disconnect, StoreFails, Abandon
  <2>4. stage[r] = "committing" =>
          stage'[r] = "closing" \/ (stage'[r] = "verifying" /\ leases' = leases)
    BY <1>7 DEF HandlerDropped, Disconnect, StoreFails, Abandon, vars, leaseVars
  <2> QED
    BY <2>1, <2>2, <2>3, <2>4 DEF Committing
<1> QED
  BY <1>1, <1>2, <1>3, <1>4, <1>5, <1>6, <1>7 DEF TaskStep, Advance

\* The next generation of a session with a commit under way.
LEMMA NextGeneration ==
  ASSUME TypeOK, LeaseInv, NEW r \in Leased, leases[r].needsCommit
  PROVE  /\ SessionOf[r] \in Session /\ GenerationOf(SessionOf[r]) \in Nat
         /\ leases[r].expected = GenerationOf(SessionOf[r])
         /\ leases[r].binding \in Binding
         /\ leases[r].binding.generation = GenerationOf(SessionOf[r]) + 1
<1>1. SessionOf[r] \in Session /\ leases[r] \in Lease
  BY SchedulerAssumption DEF Leased, TypeOK
<1>2. bindings[SessionOf[r]] \in Binding \cup {None}
  BY <1>1 DEF TypeOK
<1>3. GenerationOf(SessionOf[r]) \in Nat
  BY <1>2 DEF GenerationOf, Binding
<1> QED
  BY <1>1, <1>3 DEF LeaseInv, LeaseMatchesBinding, Lease

\* A row that is committed continues the rows of its session.
LEMMA CommitContinues ==
  ASSUME TypeOK, GatewayTypeOK, LeaseInv, HoldsByStage, StoreFollows,
         NEW r \in Request, Committing(r)
  PROVE  LET s == SessionOf[r]
             rows == Committed(r)
         IN  /\ s \in Session
             /\ Len(stored[s]) = GenerationOf(s)
             /\ Len(rows) = GenerationOf(s) + 1
             /\ rows \in Seq(StoredRow)
             /\ \A n \in DOMAIN rows : rows[n].binding.generation = n
             /\ \A n \in DOMAIN stored[s] : rows[n] = stored[s][n]
             /\ rows[GenerationOf(s) + 1] = [binding |-> leases[r].binding, by |-> r]
             /\ leases[r].binding.generation = GenerationOf(s) + 1
<1> DEFINE s == SessionOf[r]
           rows == Committed(r)
<1>1. r \in Leased /\ leases[r].needsCommit /\ stage[r] = "committing"
  BY DEF Committing, HoldsByStage, Holds
<1>2. /\ s \in Session /\ GenerationOf(s) \in Nat
      /\ leases[r].expected = GenerationOf(s)
      /\ leases[r].binding.generation = GenerationOf(s) + 1
  BY <1>1, NextGeneration
<1>3. Len(stored[s]) = GenerationOf(s) /\ stored[s] \in Seq(StoredRow)
  BY <1>2 DEF Committing, CommitAllowed, GatewayTypeOK
<1>4. /\ rows \in Seq(StoredRow)
      /\ Len(rows) = Len(stored[s]) + 1
      /\ Last(rows) = [binding |-> leases[r].binding, by |-> r]
      /\ \A n \in DOMAIN stored[s] : rows[n] = stored[s][n]
  BY <1>1, CommittedRows
<1>5. \A n \in DOMAIN stored[s] : stored[s][n].binding.generation = n
  BY <1>2 DEF StoreFollows, RowsFollow
<1>6. rows[GenerationOf(s) + 1] = [binding |-> leases[r].binding, by |-> r]
  BY <1>3, <1>4 DEF Last
<1> HIDE DEF rows, s
<1>7. \A n \in DOMAIN rows : n \in DOMAIN stored[s] \/ n = GenerationOf(s) + 1
  BY <1>2, <1>3, <1>4
<1>8. \A n \in DOMAIN rows : rows[n].binding.generation = n
  BY <1>2, <1>4, <1>5, <1>6, <1>7
<1> QED
  BY <1>2, <1>3, <1>4, <1>6, <1>8 DEF rows, s

LEMMA TaskKeepsRows ==
  ASSUME TypeOK, GatewayTypeOK, LeaseInv, HoldsByStage, StoreFollows,
         NEW r \in Request, TaskStep(r)
  PROVE  StoreFollows'
<1> DEFINE s == SessionOf[r]
<1>1. s \in Session /\ RowsFollow(s) /\ GenerationOf(s) \in Nat /\ stored[s] \in Seq(StoredRow)
  <2>1. s \in Session
    BY SchedulerAssumption
  <2>2. bindings[s] \in Binding \cup {None}
    BY <2>1 DEF TypeOK
  <2> QED
    BY <2>1, <2>2 DEF StoreFollows, GatewayTypeOK, GenerationOf, Binding
<1>2. \A z \in Session \ {s} : RowsFollow(z)'
  <2> SUFFICES ASSUME NEW z \in Session \ {s}
               PROVE  RowsFollow(z)'
    OBVIOUS
  <2>1. bindings'[z] = bindings[z]
    BY TaskIsSchedulerStep, OthersUndisturbed
  <2>2. stored'[z] = stored[z]
    BY OwnRow
  <2>3. \A q \in Request : SessionOf[q] = z => stage'[q] = stage[q] /\ leases'[q] = leases[q]
    BY TaskIsSchedulerStep, OthersUndisturbed, OwnRow
  <2> QED
    BY <2>1, <2>2, <2>3 DEF StoreFollows, RowsFollow, GenerationOf
<1>3. RowsFollow(s)'
  <2>1. CASE Commit(r)
    <3> DEFINE rows == Committed(r)
    <3>1. /\ stored'[s] = rows
          /\ bindings'[s] = leases[r].binding
      BY <1>1, <2>1 DEF Commit, ConfirmBinding, TypeOK, GatewayTypeOK
    <3>2. /\ Len(rows) = GenerationOf(s) + 1
          /\ \A n \in DOMAIN rows : rows[n].binding.generation = n
          /\ rows[GenerationOf(s) + 1].binding = leases[r].binding
          /\ leases[r].binding.generation = GenerationOf(s) + 1
      <4>1. Committing(r)
        BY <2>1 DEF Commit
      <4>2. rows[GenerationOf(s) + 1] = [binding |-> leases[r].binding, by |-> r]
        BY <4>1, CommitContinues
      <4> QED
        BY <4>1, <4>2, CommitContinues
    <3>3. leases[r].binding # None
      BY <2>1, NextGeneration, NoneAssumption DEF Commit, ConfirmBinding, Leased
    <3>4. GenerationOf(s)' = GenerationOf(s) + 1
      BY <3>1, <3>2, <3>3 DEF GenerationOf
    <3> HIDE DEF rows
    <3> QED
      BY <1>1, <3>1, <3>2, <3>4 DEF RowsFollow
  <2>2. CASE Verified(r)
    <3> DEFINE rows == stored[s]
    <3>1. /\ stored'[s] = rows /\ bindings'[s] = leases[r].binding
          /\ stage[r] = "verifying" /\ FoundCommit(r)
      BY <1>1, <2>2 DEF Verified, StoreUnchanged, ConfirmBinding, TypeOK
    <3>2. leases[r].binding # None /\ leases[r].binding.generation = GenerationOf(s) + 1
      BY <2>2, NextGeneration, NoneAssumption DEF Verified, ConfirmBinding, Leased
    <3>3. rows # <<>> /\ Last(rows).by = r /\ Last(rows).binding.generation = GenerationOf(s) + 1
      BY <3>1, <3>2 DEF FoundCommit
    <3>4. Last(rows) = rows[Len(rows)] /\ Len(rows) \in DOMAIN rows
      BY <1>1, <3>3 DEF Last
    <3>5. Len(rows) = GenerationOf(s) + 1
      BY <1>1, <3>3, <3>4 DEF RowsFollow
    <3>6. leases[r].binding = Last(rows).binding
      BY <1>1, <3>1, <3>3, <3>5 DEF RowsFollow
    <3>7. GenerationOf(s)' = GenerationOf(s) + 1
      BY <3>1, <3>2 DEF GenerationOf
    <3> QED
      BY <1>1, <3>1, <3>4, <3>5, <3>6, <3>7 DEF RowsFollow
  <2>3. CASE /\ UNCHANGED <<bindings, stored>>
             /\ stage[r] \in Over \cup {"verifying"} => stage'[r] \in Over
    <3>1. GenerationOf(s)' = GenerationOf(s)
      BY <2>3 DEF GenerationOf
    <3>2. \A q \in Request \ {r} : stage'[q] = stage[q] /\ leases'[q] = leases[q]
      BY TaskIsSchedulerStep, OthersUndisturbed, OwnRow
    <3> QED
      BY <1>1, <2>3, <3>1, <3>2 DEF RowsFollow, Over
  <2>4. CASE /\ Committing(r)
             /\ UNCHANGED bindings
             /\ stored' = [stored EXCEPT ![s] = Committed(r)]
             /\ \/ stage'[r] = "closing"
                \/ stage'[r] = "verifying" /\ leases' = leases
    <3> DEFINE rows == Committed(r)
    <3>1. stored'[s] = rows /\ GenerationOf(s)' = GenerationOf(s)
      BY <1>1, <2>4 DEF GenerationOf, GatewayTypeOK
    <3>2. /\ Len(stored[s]) = GenerationOf(s)
          /\ Len(rows) = GenerationOf(s) + 1 /\ rows \in Seq(StoredRow)
          /\ \A n \in DOMAIN rows : rows[n].binding.generation = n
          /\ \A n \in DOMAIN stored[s] : rows[n] = stored[s][n]
          /\ rows[GenerationOf(s) + 1] = [binding |-> leases[r].binding, by |-> r]
      BY <2>4, CommitContinues
    <3> HIDE DEF rows
    <3>3. bindings[s] # None => GenerationOf(s) > 0 /\ rows[GenerationOf(s)].binding = bindings[s]
      BY <1>1, <3>2 DEF RowsFollow
    <3>4. Last(rows) = [binding |-> leases[r].binding, by |-> r]
      BY <1>1, <3>2 DEF Last
    <3>5. LET q == Last(rows).by IN
            /\ q \in Request \ Stateless /\ SessionOf[q] = s
            /\ \/ stage'[q] = "verifying" /\ leases'[q].binding = Last(rows).binding
               \/ stage'[q] \in {"pausing", "closing", "ended"}
      BY <2>4, <3>4 DEF Committing, KeepsBinding
    <3>6. UNCHANGED bindings
      BY <2>4
    <3> QED
      BY <1>1, <3>1, <3>2, <3>3, <3>5, <3>6 DEF RowsFollow
  <2> QED
    BY <2>1, <2>2, <2>3, <2>4, WhoWritesBindings
<1> QED
  BY <1>2, <1>3 DEF StoreFollows

-----------------------------------------------------------------------------
(* Restarts. *)

\* A session whose requests have no client identity has no rows.
LEMMA StatelessHasNoRows ==
  ASSUME TypeOK, GatewayTypeOK, LeaseInv, StoreFollows, NEW r \in Stateless
  PROVE  stored[SessionOf[r]] = <<>>
<1> DEFINE s == SessionOf[r]
<1>1. s \in Session /\ bindings[s] = None /\ RowsFollow(s)
  BY SchedulerAssumption DEF LeaseInv, StatelessUnbound, StoreFollows
<1>2. Len(stored[s]) \in {0, 1} /\ GenerationOf(s) = 0 /\ stored[s] \in Seq(StoredRow)
  BY <1>1 DEF RowsFollow, GenerationOf, GatewayTypeOK
<1>3. Len(stored[s]) # 1
  <2> SUFFICES ASSUME Len(stored[s]) = 1
               PROVE  FALSE
    OBVIOUS
  <2>1. Last(stored[s]).by \in Request \ Stateless /\ SessionOf[Last(stored[s]).by] = s
    BY <1>1, <1>2 DEF RowsFollow
  <2> QED
    BY <2>1, SchedulerAssumption
<1> QED
  BY <1>2, <1>3

\* After a restart the memory knows the last row of every session.
LEMMA RestartKeepsRows ==
  ASSUME TypeOK, GatewayTypeOK, LeaseInv, HoldsByStage, StoreFollows, Restart
  PROVE  /\ StoreFollows'
         /\ \A s \in Session : GenerationOf(s)' = Len(stored'[s])
         /\ StatelessUnbound'
<1>1. ASSUME NEW s \in Session
      PROVE  /\ stored'[s] \in Seq(StoredRow)
             /\ \A n \in DOMAIN stored'[s] : stored'[s][n].binding.generation = n
  <2>1. CASE stored'[s] = stored[s]
    BY <2>1 DEF StoreFollows, RowsFollow, GatewayTypeOK
  <2>2. CASE \E r \in Request : SessionOf[r] = s /\ Committing(r) /\ stored'[s] = Committed(r)
    BY <2>2, CommitContinues
  <2> QED
    BY <2>1, <2>2, RestartRows
<1>2. ASSUME NEW s \in Session
      PROVE  /\ GenerationOf(s)' = Len(stored'[s])
             /\ stored'[s] = <<>> => bindings'[s] = None
             /\ stored'[s] # <<>> => bindings'[s] = stored'[s][Len(stored'[s])].binding
  <2>1. bindings'[s] = IF stored'[s] = <<>> THEN None ELSE Last(stored'[s]).binding
    BY DEF Restart
  <2>2. CASE stored'[s] = <<>>
    BY <2>1, <2>2 DEF GenerationOf
  <2>3. CASE stored'[s] # <<>>
    <3>1. /\ Len(stored'[s]) \in DOMAIN stored'[s]
          /\ Last(stored'[s]) = stored'[s][Len(stored'[s])]
          /\ stored'[s][Len(stored'[s])] \in StoredRow
      BY <1>1, <2>3 DEF Last
    <3>2. bindings'[s] \in Binding /\ bindings'[s].generation = Len(stored'[s])
      BY <1>1, <2>1, <2>3, <3>1 DEF StoredRow
    <3> QED
      BY <2>1, <2>3, <3>1, <3>2, NoneAssumption DEF GenerationOf
  <2> QED
    BY <2>2, <2>3
<1>3. StoreFollows'
  <2> SUFFICES ASSUME NEW s \in Session
               PROVE  RowsFollow(s)'
    BY DEF StoreFollows
  <2>1. Len(stored'[s]) \in Nat /\ (bindings'[s] # None => Len(stored'[s]) > 0)
    BY <1>1, <1>2
  <2> QED
    BY <1>1, <1>2, <2>1 DEF RowsFollow
<1>4. StatelessUnbound'
  <2> SUFFICES ASSUME NEW r \in Stateless
               PROVE  bindings'[SessionOf[r]] = None
    BY DEF StatelessUnbound
  <2>1. SessionOf[r] \in Session /\ stored[SessionOf[r]] = <<>>
    BY StatelessHasNoRows, SchedulerAssumption
  <2>2. ~ \E q \in Request : SessionOf[q] = SessionOf[r] /\ Committing(q)
    BY SchedulerAssumption DEF Committing, KeepsBinding
  <2>3. stored'[SessionOf[r]] = <<>>
    BY <2>1, <2>2, RestartRows
  <2> QED
    BY <1>2, <2>1, <2>3
<1> QED
  BY <1>2, <1>3, <1>4

\* A restart finishes every record it finds.
LEMMA RestartKeepsRecords ==
  ASSUME TypeOK, GatewayTypeOK, RecordFollows, Restart
  PROVE  /\ RecordFollows'
         /\ \A r \in Request : Finished(record[r]) => record'[r] = record[r]
<1>1. PICK row \in [Request -> UNION {RowOutcomes(r) : r \in Request}] :
        /\ \A r \in Request : row[r] \in RowOutcomes(r)
        /\ record' = [r \in Request |-> Reconciled(row[r])]
  BY DEF Restart
<1>2. ASSUME NEW r \in Request
      PROVE  Follows(r)' /\ (Finished(record[r]) => record'[r] = record[r])
  <2>1. row[r] \in RowOutcomes(r) /\ record'[r] = Reconciled(row[r]) /\ Follows(r)
    BY <1>1 DEF RecordFollows
  <2>2. /\ row[r] \in Row \cup {None}
        /\ Finished(record[r]) => row[r] = record[r]
        /\ sent[r] > 0 => row[r] # None /\ sent[r] <= row[r].attempts
    BY <2>1, OutcomesCover
  <2>3. row[r] # None =>
          record'[r] # None /\ Finished(record'[r]) /\ record'[r].attempts = row[r].attempts
    <3> SUFFICES ASSUME row[r] # None
                 PROVE  /\ record'[r] # None /\ Finished(record'[r])
                        /\ record'[r].attempts = row[r].attempts
      OBVIOUS
    <3>1. row[r] \in Row
      BY <2>2
    <3>2. [row[r] EXCEPT !.state = "interrupted"] \in Row
      BY <3>1 DEF Row, Final
    <3> QED
      BY <2>1, <3>1, <3>2, RowAssumption DEF Reconciled, Finished, Row, Final
  <2>4. Finished(record[r]) => record'[r] = record[r]
    BY <2>1, <2>2 DEF Reconciled
  <2>5. CASE stage[r] = "new"
    <3>1. row[r] = None
      BY <2>1, <2>5 DEF RowOutcomes, Follows
    <3>2. stage'[r] = "new" /\ record'[r] = None /\ attempts'[r] = 0 /\ sent'[r] = 0
      BY <2>1, <2>5, <3>1 DEF Restart, Reconciled, Follows
    <3> QED
      BY <2>4, <3>2 DEF Follows, Finished
  <2>6. CASE stage[r] # "new"
    <3>1. stage'[r] = "ended" /\ sent' = sent
      BY <2>6 DEF Restart
    <3> QED
      BY <2>2, <2>3, <2>4, <3>1 DEF Follows
  <2> QED
    BY <2>5, <2>6
<1> QED
  BY <1>2 DEF RecordFollows

LEMMA RestartKeepsLeases ==
  ASSUME TypeOK, GatewayTypeOK, LeaseInv, GatewayInv, Restart
  PROVE  LeaseInv' /\ HoldsByStage'
<1>1. Leased' = {} /\ \A r \in Request : leases'[r] = None /\ phase'[r] \in {"idle", "done"}
  BY DEF Leased, Restart
<1>2. ThreadOwnership' /\ \A s \in Session : pending'[s] = None
  BY <1>1 DEF ThreadOwnership, Restart
<1>3. OneBindingPerSession' /\ LeaseMatchesBinding'
  BY <1>1 DEF OneBindingPerSession, LeaseMatchesBinding
<1>4. StatelessUnbound'
  BY RestartKeepsRows DEF GatewayInv
<1>5. HoldsByStage'
  BY DEF Restart, GatewayInv, HoldsByStage, Holds
<1> QED
  BY <1>1, <1>2, <1>3, <1>4, <1>5 DEF LeaseInv

-----------------------------------------------------------------------------
(* The invariants of the gateway. *)

LEMMA GatewayStarts == GatewayInit => TypeOK /\ GatewayTypeOK /\ LeaseInv /\ GatewayInv
<1> SUFFICES ASSUME GatewayInit
             PROVE  TypeOK /\ GatewayTypeOK /\ LeaseInv /\ GatewayInv
  OBVIOUS
<1>1. Init /\ TypeOK /\ LeaseInv
  BY InitType, InitLeases DEF GatewayInit
<1>2. ASSUME NEW s \in Session
      PROVE  stored[s] \in Seq(StoredRow) /\ RowsFollow(s)
  <2>1. CASE bindings[s] = None
    BY <2>1 DEF GatewayInit, RowsFollow, GenerationOf
  <2>2. CASE bindings[s] # None
    <3> DEFINE g == bindings[s].generation
               row(n) == [binding |-> [bindings[s] EXCEPT !.generation = n], by |-> None]
    <3>1. bindings[s] \in Binding /\ g \in Nat /\ g > 0
      BY <1>1, <2>2, GatewayAssumption DEF Init, TypeOK, Binding
    <3>2. \A n \in 1..g : row(n) \in StoredRow /\ row(n).binding.generation = n
      BY <3>1 DEF StoredRow, Binding
    <3>3. row(g).binding = bindings[s]
      BY <3>1 DEF Binding
    <3>4. stored[s] = [n \in 1..g |-> row(n)]
      BY <2>2 DEF GatewayInit
    <3> HIDE DEF row, g
    <3>5. stored[s] \in Seq(StoredRow) /\ Len(stored[s]) = g /\ DOMAIN stored[s] = 1..g
      <4>1. stored[s] \in [1..g -> StoredRow]
        BY <3>2, <3>4
      <4> QED
        BY <3>1, <4>1
    <3>6. GenerationOf(s) = g
      BY <2>2 DEF GenerationOf, g
    <3> QED
      BY <3>1, <3>2, <3>3, <3>4, <3>5, <3>6 DEF RowsFollow
  <2> QED
    BY <2>1, <2>2
<1>3. stored \in [Session -> Seq(StoredRow)]
  BY <1>2 DEF GatewayInit
<1>4. GatewayTypeOK
  <2>1. arrived \in Seq(Request) /\ 0 \in 0..MaxFaults /\ 0 \in 0..MaxCrashes
    BY GatewayAssumption DEF GatewayInit
  <2>2. stage \in [Request -> Stage] /\ record \in [Request -> Row \cup {None}]
    BY DEF GatewayInit, Stage
  <2>3. attempts \in [Request -> 0..2] /\ sent \in [Request -> 0..2]
    BY DEF GatewayInit
  <2>4. faults \in 0..MaxFaults /\ crashes \in 0..MaxCrashes
    BY <2>1 DEF GatewayInit
  <2> QED
    BY <1>3, <2>1, <2>2, <2>3, <2>4 DEF GatewayTypeOK
<1>5. HoldsByStage
  BY <1>1 DEF GatewayInit, Init, HoldsByStage, Holds
<1>6. RecordFollows
  <2> SUFFICES ASSUME NEW r \in Request
               PROVE  Follows(r)
    BY DEF RecordFollows
  <2>1. stage[r] = "new" /\ record[r] = None /\ attempts[r] = 0 /\ sent[r] = 0
    BY DEF GatewayInit
  <2> QED
    BY <2>1 DEF Follows, Finished
<1> QED
  BY <1>1, <1>2, <1>4, <1>5, <1>6 DEF GatewayInv, StoreFollows

LEMMA GatewayStepKeeps ==
  ASSUME TypeOK, GatewayTypeOK, LeaseInv, GatewayInv, [GatewayNext]_allVars
  PROVE  TypeOK' /\ GatewayTypeOK' /\ LeaseInv' /\ GatewayInv'
<1> USE DEF GatewayInv
<1>1. ASSUME NEW r \in Request, TaskStep(r)
      PROVE  TypeOK' /\ GatewayTypeOK' /\ LeaseInv' /\ GatewayInv'
  <2>1. [Next]_vars
    BY <1>1, TaskIsSchedulerStep, PauseIsNext DEF Next
  <2>2. TypeOK' /\ LeaseInv'
    BY <2>1, StepKeepsTypes, StepKeepsLeases
  <2> QED
    BY <1>1, <2>2, TaskKeepsTypes, TaskKeepsHolds, TaskKeepsRecords, TaskKeepsRows
<1>2. CASE Restart
  BY <1>2, RestartKeepsTypes, RestartKeepsLeases, RestartKeepsRecords, RestartKeepsRows
<1>3. CASE Administer
  <2>1. Next /\ UNCHANGED <<phase, leases, group, bindings, paused, gatewayVars>>
    BY <1>3, AdministerOnly
  <2>2. TypeOK' /\ LeaseInv'
    BY <2>1, StepKeepsTypes, StepKeepsLeases
  <2>3. GatewayTypeOK' /\ HoldsByStage' /\ RecordFollows'
    BY <2>1 DEF GatewayTypeOK, HoldsByStage, Holds, RecordFollows, Follows, Finished, Leased, gatewayVars
  <2>4. StoreFollows'
    BY <2>1 DEF StoreFollows, RowsFollow, GenerationOf, gatewayVars
  <2> QED
    BY <2>2, <2>3, <2>4
<1>4. CASE UNCHANGED allVars
  <2>1. UNCHANGED vars /\ UNCHANGED <<phase, leases, group, bindings, paused, gatewayVars>>
    BY <1>4 DEF allVars, vars, adminVars, leaseVars, taskVars
  <2>2. TypeOK' /\ LeaseInv'
    BY <2>1, StepKeepsTypes, StepKeepsLeases
  <2>3. GatewayTypeOK' /\ HoldsByStage' /\ RecordFollows'
    BY <2>1 DEF GatewayTypeOK, HoldsByStage, Holds, RecordFollows, Follows, Finished, Leased, gatewayVars
  <2>4. StoreFollows'
    BY <2>1 DEF StoreFollows, RowsFollow, GenerationOf, gatewayVars
  <2> QED
    BY <2>2, <2>3, <2>4
<1> QED
  BY <1>1, <1>2, <1>3, <1>4 DEF GatewayNext

\* Leases, threads, pending commits and bindings stay in agreement, and so do
\* stages, records and stored bindings, through lost acknowledgements, dropped
\* handlers and restarts.
THEOREM GatewayInvariant == GatewaySpec => [](TypeOK /\ GatewayTypeOK /\ LeaseInv /\ GatewayInv)
BY GatewayStarts, GatewayStepKeeps, PTL DEF GatewaySpec

\* The variables of the gateway keep their types; no request goes upstream more
\* than twice.
THEOREM GatewayTypeCorrect == GatewaySpec => []GatewayTypeOK
BY GatewayInvariant, PTL

\* The stored number of attempts is never below the number of sends.
THEOREM SendsAreRecorded == GatewaySpec => []RecordCoversSends
<1>1. RecordFollows => RecordCoversSends
  BY DEF RecordFollows, Follows, RecordCoversSends
<1> QED
  BY <1>1, GatewayInvariant, PTL DEF GatewayInv

\* A request that was sent has its outcome stored, a task at work on it, or has
\* stopped the dispatch.
THEOREM SentIsRemembered == GatewaySpec => []SentNotForgotten
<1>1. GatewayTypeOK /\ RecordFollows => SentNotForgotten
  BY DEF GatewayTypeOK, RecordFollows, Follows, SentNotForgotten, Live
<1> QED
  BY <1>1, GatewayInvariant, PTL DEF GatewayInv

\* Whatever became of the commits of a session, its requests in flight use a
\* binding that the store has as the row of its generation.
THEOREM StoredBindingsUsed == GatewaySpec => []UsesStoredBinding
<1>1. TypeOK /\ GatewayTypeOK /\ LeaseInv /\ StoreFollows => UsesStoredBinding
  <2> SUFFICES ASSUME TypeOK, GatewayTypeOK, LeaseInv, StoreFollows,
                      NEW r \in Leased \ Stateless, ~leases[r].needsCommit
               PROVE  /\ leases[r].binding.generation \in DOMAIN stored[SessionOf[r]]
                      /\ stored[SessionOf[r]][leases[r].binding.generation].binding = leases[r].binding
    BY DEF UsesStoredBinding
  <2> DEFINE s == SessionOf[r]
  <2>1. s \in Session /\ leases[r] \in Lease
    BY SchedulerAssumption DEF Leased, TypeOK
  <2>2. leases[r].binding = bindings[s] /\ bindings[s] \in Binding
    BY <2>1 DEF LeaseInv, OneBindingPerSession, Lease
  <2>3. bindings[s] # None /\ GenerationOf(s) = bindings[s].generation /\ GenerationOf(s) \in Nat
    BY <2>2, NoneAssumption DEF GenerationOf, Binding
  <2>4. /\ Len(stored[s]) \in {GenerationOf(s), GenerationOf(s) + 1}
        /\ GenerationOf(s) > 0
        /\ stored[s][GenerationOf(s)].binding = bindings[s]
    BY <2>1, <2>3 DEF StoreFollows, RowsFollow
  <2>5. stored[s] \in Seq(StoredRow)
    BY <2>1 DEF GatewayTypeOK
  <2> QED
    BY <2>2, <2>3, <2>4, <2>5
<1> QED
  BY <1>1, GatewayInvariant, PTL DEF GatewayInv

\* The outcome of a request is decided once.
THEOREM OutcomesAreFinal == GatewaySpec => FinishedOnce
<1> DEFINE Once == \A r \in Request : Finished(record[r]) => record'[r] = record[r]
<1>1. TypeOK /\ GatewayTypeOK /\ RecordFollows /\ [GatewayNext]_allVars => [Once]_allVars
  <2> SUFFICES ASSUME TypeOK, GatewayTypeOK, RecordFollows, GatewayNext,
                      NEW r \in Request, Finished(record[r])
               PROVE  record'[r] = record[r]
    OBVIOUS
  <2>1. ASSUME NEW q \in Request, TaskStep(q)
        PROVE  record'[r] = record[r]
    BY <2>1, TaskKeepsFinished
  <2>2. CASE Restart
    BY <2>2, RestartKeepsRecords
  <2>3. CASE Administer
    BY <2>3, AdministerOnly DEF gatewayVars
  <2> QED
    BY <2>1, <2>2, <2>3 DEF GatewayNext
<1>2. GatewaySpec => [][Once]_allVars
  BY <1>1, GatewayInvariant, PTL DEF GatewaySpec, GatewayInv
<1> QED
  BY <1>2 DEF FinishedOnce

-----------------------------------------------------------------------------
(* The gateway implements SessionBindings. *)

UsersOf(s) == {r \in Leased \ Stateless : SessionOf[r] = s /\ ~leases[r].needsCommit}

Durable == [s \in Session |-> Len(stored[s])]
Current == [s \in Session |-> GenerationOf(s)]
Users == [s \in Session |-> UsersOf(s)]

\* A step of r's task lets r in among the users of its session, or out, and
\* touches nobody else.
LEMMA OnlyOwnUse ==
  ASSUME TypeOK, GatewayTypeOK, HoldsByStage, NEW r \in Request, TaskStep(r)
  PROVE  /\ \A s \in Session \ {SessionOf[r]} : UsersOf(s)' = UsersOf(s)
         /\ UsersOf(SessionOf[r])' \ {r} = UsersOf(SessionOf[r]) \ {r}
<1>1. \A q \in Request \ {r} : leases'[q] = leases[q]
  BY TaskIsSchedulerStep, OthersUndisturbed
<1> QED
  BY <1>1 DEF UsersOf, Leased

\* A request that commits has nobody beside it.
LEMMA CommitsWithoutUsers ==
  ASSUME LeaseInv, NEW r \in Leased, leases[r].needsCommit
  PROVE  UsersOf(SessionOf[r]) = {}
BY DEF LeaseInv, UsersOf

LEMMA UseRefines ==
  ASSUME TypeOK, GatewayTypeOK, LeaseInv, GatewayInv, TypeOK', LeaseInv', NEW r \in Request,
         TaskStep(r), UNCHANGED <<bindings, stored>>
  PROVE  [Bindings!Next]_(Bindings!vars)
<1> DEFINE s == SessionOf[r]
<1>1. s \in Session /\ Durable' = Durable /\ Current' = Current
  BY SchedulerAssumption DEF Durable, Current, GenerationOf
<1>2. /\ \A z \in Session \ {s} : UsersOf(z)' = UsersOf(z)
      /\ UsersOf(s)' \ {r} = UsersOf(s) \ {r}
  BY OnlyOwnUse DEF GatewayInv
<1>3. CASE UsersOf(s)' = UsersOf(s)
  <2>1. Users' = Users
    BY <1>2, <1>3 DEF Users
  <2> QED
    BY <1>1, <2>1 DEF Bindings!vars, Durable, Current, Users, UsersOf
<1>4. CASE r \in UsersOf(s)' /\ r \notin UsersOf(s)
  <2>1. bindings[s] \in Binding
    <3>1. /\ r \in Leased' \ Stateless /\ leases'[r] \in Lease
          /\ ~leases'[r].needsCommit /\ SessionOf[r] = s
      BY <1>4 DEF UsersOf, Leased, TypeOK
    <3>2. leases'[r].binding = bindings'[s]
      BY <3>1 DEF LeaseInv, OneBindingPerSession
    <3> QED
      BY <3>1, <3>2 DEF Lease
  <2>2. Current[s] > 0
    BY <1>1, <2>1, NoneAssumption DEF Current, GatewayInv, StoreFollows, RowsFollow
  <2>3. Users' = [Users EXCEPT ![s] = @ \cup {r}]
    BY <1>1, <1>2, <1>4 DEF Users
  <2>4. Bindings!Join(s, r)
    BY <1>1, <2>2, <2>3 DEF Bindings!Join, Durable, Current, Users, UsersOf
  <2> QED
    BY <1>1, <2>4 DEF Bindings!Next
<1>5. CASE r \notin UsersOf(s)' /\ r \in UsersOf(s)
  <2>1. Users' = [Users EXCEPT ![s] = @ \ {r}]
    BY <1>1, <1>2, <1>5 DEF Users
  <2>2. Bindings!Leave(s, r)
    BY <1>1, <2>1 DEF Bindings!Leave, Durable, Current, Users, UsersOf
  <2> QED
    BY <1>1, <2>2 DEF Bindings!Next
<1> QED
  BY <1>2, <1>3, <1>4, <1>5

\* A confirmed commit is a migration, whether it was acknowledged or found.
LEMMA ConfirmRefines ==
  ASSUME TypeOK, GatewayTypeOK, LeaseInv, GatewayInv, NEW r \in Request, TaskStep(r),
         Commit(r) \/ Verified(r)
  PROVE  Bindings!Next
<1> DEFINE s == SessionOf[r]
<1>1. ConfirmBinding(r) /\ r \in Leased \ Stateless /\ leases[r].needsCommit
  BY DEF Commit, Verified, ConfirmBinding, KeepsBinding, Leased
<1>2. /\ s \in Session /\ GenerationOf(s) \in Nat
      /\ leases[r].binding \in Binding
      /\ leases[r].binding.generation = GenerationOf(s) + 1
  BY <1>1, NextGeneration
<1>3. bindings' = [bindings EXCEPT ![s] = leases[r].binding]
  BY <1>1 DEF ConfirmBinding
<1>4. Current' = [Current EXCEPT ![s] = @ + 1]
  <2>1. GenerationOf(s)' = GenerationOf(s) + 1
    BY <1>2, <1>3, NoneAssumption DEF GenerationOf, TypeOK
  <2>2. \A z \in Session \ {s} : GenerationOf(z)' = GenerationOf(z)
    BY <1>3 DEF GenerationOf, TypeOK
  <2> QED
    BY <1>2, <2>1, <2>2 DEF Current
<1>5. /\ Durable[s] \in {GenerationOf(s), GenerationOf(s) + 1}
      /\ Durable' = [Durable EXCEPT ![s] = GenerationOf(s) + 1]
  <2>1. CASE Commit(r)
    <3>1. Len(stored[s]) = GenerationOf(s) /\ Len(Committed(r)) = GenerationOf(s) + 1
      BY <2>1, CommitContinues DEF Commit, GatewayInv
    <3>2. stored' = [stored EXCEPT ![s] = Committed(r)]
      BY <2>1 DEF Commit
    <3> QED
      BY <1>2, <3>1, <3>2 DEF Durable, GatewayTypeOK
  <2>2. CASE Verified(r)
    <3>1. stored' = stored /\ Len(stored[s]) \in {GenerationOf(s), GenerationOf(s) + 1}
      BY <1>2, <2>2 DEF Verified, StoreUnchanged, GatewayInv, StoreFollows, RowsFollow
    <3>2. stored[s] \in Seq(StoredRow) /\ stored[s] # <<>> /\ Last(stored[s]).binding.generation = GenerationOf(s) + 1
      BY <1>2, <2>2 DEF Verified, FoundCommit, GatewayTypeOK
    <3>3. Last(stored[s]).binding.generation = Len(stored[s])
      BY <1>2, <3>2 DEF Last, GatewayInv, StoreFollows, RowsFollow
    <3> QED
      BY <1>2, <3>1, <3>2, <3>3 DEF Durable
  <2> QED
    BY <2>1, <2>2
<1>6. Users[s] = {} /\ Users' = [Users EXCEPT ![s] = {r}]
  <2>1. UsersOf(s) = {}
    BY <1>1, CommitsWithoutUsers
  <2>2. leases'[r] \in Lease /\ ~leases'[r].needsCommit
    BY <1>1, KeepsLease
  <2>3. r \in UsersOf(s)'
    BY <1>1, <2>2, NoneAssumption DEF UsersOf, Leased
  <2>4. UsersOf(s)' = {r} /\ \A z \in Session \ {s} : UsersOf(z)' = UsersOf(z)
    BY <2>1, <2>3, OnlyOwnUse DEF GatewayInv
  <2> QED
    BY <1>2, <2>1, <2>4 DEF Users
<1>7. Bindings!Migrate(s, r)
  BY <1>2, <1>4, <1>5, <1>6 DEF Bindings!Migrate, Durable, Current, Users, UsersOf
<1> QED
  BY <1>2, <1>7 DEF Bindings!Next

\* A commit whose acknowledgement is lost only reaches the store.
LEMMA LostCommitRefines ==
  ASSUME TypeOK, GatewayTypeOK, LeaseInv, GatewayInv, LeaseInv', HoldsByStage',
         NEW r \in Request, TaskStep(r), Committing(r), UNCHANGED bindings,
         stored' = [stored EXCEPT ![SessionOf[r]] = Committed(r)],
         stage'[r] = "closing" \/ (stage'[r] = "verifying" /\ leases' = leases)
  PROVE  Bindings!Next
<1> DEFINE s == SessionOf[r]
<1>1. r \in Leased /\ leases[r].needsCommit
  BY DEF Committing, GatewayInv, HoldsByStage, Holds
<1>2. /\ s \in Session /\ GenerationOf(s) \in Nat
      /\ Len(stored[s]) = GenerationOf(s) /\ Len(Committed(r)) = GenerationOf(s) + 1
  BY <1>1, NextGeneration, CommitContinues DEF GatewayInv
<1>3. Current' = Current /\ Durable[s] = Current[s]
  BY <1>2 DEF Current, Durable, GenerationOf
<1>4. Durable' = [Durable EXCEPT ![s] = @ + 1]
  BY <1>2 DEF Durable, GatewayTypeOK
<1>5. Users[s] = {} /\ Users' = Users
  <2>1. UsersOf(s) = {}
    BY <1>1, CommitsWithoutUsers
  <2>2. r \notin UsersOf(s)'
    BY DEF LeaseInv, HoldsByStage, Holds, UsersOf, Leased
  <2>3. UsersOf(s)' = {} /\ \A z \in Session \ {s} : UsersOf(z)' = UsersOf(z)
    BY <2>1, <2>2, OnlyOwnUse DEF GatewayInv
  <2> QED
    BY <1>2, <2>1, <2>3 DEF Users
<1>6. Bindings!Persist(s)
  BY <1>2, <1>3, <1>4, <1>5 DEF Bindings!Persist, Durable, Current, Users, UsersOf
<1> QED
  BY <1>2, <1>6 DEF Bindings!Next

\* A restart reads the generations from the store.
LEMMA RestartRefines ==
  ASSUME TypeOK, GatewayTypeOK, LeaseInv, GatewayInv, Restart
  PROVE  Bindings!Next
<1>1. Users' = [s \in Session |-> {}]
  BY DEF Users, UsersOf, Leased, Restart
<1>2. Current' = Durable'
  BY RestartKeepsRows DEF Current, Durable, GatewayInv
<1>3. ASSUME NEW s \in Session
      PROVE  /\ Durable'[s] \in Nat
             /\ \/ Durable'[s] = Durable[s]
                \/ Durable'[s] = Durable[s] + 1 /\ Durable[s] = Current[s] /\ Users[s] = {}
  <2>1. stored[s] \in Seq(StoredRow)
    BY DEF GatewayTypeOK
  <2>2. CASE stored'[s] = stored[s]
    BY <2>1, <2>2 DEF Durable
  <2>3. CASE \E r \in Request : SessionOf[r] = s /\ Committing(r) /\ stored'[s] = Committed(r)
    <3>1. PICK r \in Request : SessionOf[r] = s /\ Committing(r) /\ stored'[s] = Committed(r)
      BY <2>3
    <3>2. r \in Leased /\ leases[r].needsCommit
      BY <3>1 DEF Committing, GatewayInv, HoldsByStage, Holds
    <3>3. /\ GenerationOf(s) \in Nat
          /\ Len(stored[s]) = GenerationOf(s) /\ Len(stored'[s]) = GenerationOf(s) + 1
      BY <3>1, <3>2, NextGeneration, CommitContinues DEF GatewayInv
    <3>4. UsersOf(s) = {}
      BY <3>1, <3>2, CommitsWithoutUsers
    <3> QED
      BY <3>3, <3>4 DEF Durable, Current, Users
  <2> QED
    BY <2>2, <2>3, RestartRows
<1>4. Durable' \in [Session -> Nat]
  BY <1>3 DEF Durable
<1>5. Bindings!Restart
  BY <1>1, <1>2, <1>3, <1>4 DEF Bindings!Restart, Durable, Current, Users, UsersOf
<1> QED
  BY <1>5 DEF Bindings!Next

\* A restart, a lost acknowledgement or a request that gives up cannot make a
\* session use two generations, skip one or use one the store does not have:
\* every step of the gateway is a step of SessionBindings or none.
THEOREM GatewayImplementsBindings == GatewaySpec => ImplementsSessionBindings
<1>1. GatewayInit => Bindings!Init
  <2> SUFFICES ASSUME GatewayInit
               PROVE  Bindings!Init
    OBVIOUS
  <2>1. TypeOK /\ GatewayTypeOK /\ LeaseInv /\ GatewayInv
    BY GatewayStarts
  <2>2. ASSUME NEW s \in Session
        PROVE  Durable[s] \in Nat /\ Current[s] = Durable[s]
    <3>1. stored[s] \in Seq(StoredRow) /\ RowsFollow(s)
      BY <2>1 DEF GatewayTypeOK, GatewayInv, StoreFollows
    <3>2. ~(Len(stored[s]) > GenerationOf(s))
      <4> SUFFICES ASSUME Len(stored[s]) > GenerationOf(s)
                   PROVE  FALSE
        OBVIOUS
      <4>1. Last(stored[s]).by \in Request /\ stage[Last(stored[s]).by] # "new"
        BY <3>1 DEF RowsFollow
      <4> QED
        BY <4>1 DEF GatewayInit
    <3>3. GenerationOf(s) \in Nat
      <4>1. bindings[s] \in Binding \cup {None}
        BY <2>1 DEF TypeOK
      <4> QED
        BY <4>1 DEF GenerationOf, Binding
    <3> QED
      BY <3>1, <3>2, <3>3 DEF RowsFollow, Durable, Current
  <2>3. Users = [s \in Session |-> {}]
    BY DEF Users, UsersOf, Leased, GatewayInit, Init
  <2>4. Durable \in [Session -> Nat] /\ Current = Durable
    BY <2>2 DEF Durable, Current
  <2> QED
    BY <2>3, <2>4 DEF Bindings!Init, Durable, Current, Users, UsersOf
<1>2. TypeOK /\ GatewayTypeOK /\ LeaseInv /\ GatewayInv /\ [GatewayNext]_allVars
        => [Bindings!Next]_(Bindings!vars)
  <2> SUFFICES ASSUME TypeOK, GatewayTypeOK, LeaseInv, GatewayInv, [GatewayNext]_allVars
               PROVE  [Bindings!Next]_(Bindings!vars)
    OBVIOUS
  <2>1. TypeOK' /\ LeaseInv' /\ HoldsByStage'
    BY GatewayStepKeeps DEF GatewayInv
  <2>2. ASSUME NEW r \in Request, TaskStep(r)
        PROVE  [Bindings!Next]_(Bindings!vars)
    BY <2>1, <2>2, WhoWritesBindings, UseRefines, ConfirmRefines, LostCommitRefines DEF GatewayInv
  <2>3. CASE Restart
    BY <2>3, RestartRefines
  <2>4. CASE UNCHANGED <<stored, bindings, leases>>
    BY <2>4 DEF Bindings!vars, GenerationOf, Leased
  <2>5. Administer => UNCHANGED <<stored, bindings, leases>>
    BY AdministerOnly DEF gatewayVars
  <2>6. UNCHANGED allVars => UNCHANGED <<stored, bindings, leases>>
    BY DEF allVars, gatewayVars, vars, leaseVars
  <2> QED
    BY <2>2, <2>3, <2>4, <2>5, <2>6 DEF GatewayNext
<1> QED
  BY <1>1, <1>2, GatewayInvariant, PTL DEF GatewaySpec, ImplementsSessionBindings, Bindings!Spec

-----------------------------------------------------------------------------
(* What the scheduler guarantees on its own, under the gateway. *)

Scheduling == QueueInv /\ LeaseAccounting /\ NoLostWakeup

\* The gateway takes the steps of the scheduler, and restarts.
LEMMA GatewayStepIsNext ==
  ASSUME TypeOK, GatewayInv, [GatewayNext]_allVars
  PROVE  [Next]_vars \/ Restart
<1>1. ASSUME NEW r \in Request, TaskStep(r)
      PROVE  [Next]_vars
  BY <1>1, TaskIsSchedulerStep, PauseIsNext DEF Next, GatewayInv
<1>2. CASE Administer
  BY <1>2, AdministerOnly
<1>3. CASE UNCHANGED allVars
  BY <1>3 DEF allVars
<1> QED
  BY <1>1, <1>2, <1>3 DEF GatewayNext

\* A restart empties the lists and the counters.
LEMMA RestartKeepsScheduling ==
  ASSUME Restart
  PROVE  Scheduling' /\ Leased' = {} /\ inflight' = [a \in Account |-> 0]
<1>1. Leased' = {} /\ inflight' = [a \in Account |-> 0]
  BY DEF Restart, Leased
<1>2. \A r \in Request : phase'[r] # "queued"
  BY DEF Restart
<1>3. QueueInv'
  <2>1. IsInjective(<<>>) /\ Range(<<>>) = {}
    BY DEF IsInjective, Range
  <2>2. \A s \in Session : queues'[s] = <<>>
    BY DEF Restart
  <2>3. order' = <<>>
    BY DEF Restart
  <2> QED
    BY <1>2, <2>1, <2>2, <2>3 DEF QueueInv
<1>4. LeaseAccounting'
  <2> SUFFICES ASSUME NEW a \in Account
               PROVE  inflight'[a] = Cardinality({r \in Leased' : leases'[r].account = a})
    BY DEF LeaseAccounting
  <2>1. {r \in Leased' : leases'[r].account = a} = {}
    BY <1>1
  <2> QED
    BY <1>1, <2>1, FS_EmptySet
<1>5. NoLostWakeup'
  BY <1>2 DEF NoLostWakeup
<1> QED
  BY <1>1, <1>3, <1>4, <1>5 DEF Scheduling

\* Under the gateway too, with its restarts, the waiting lists agree with the
\* tasks, no capacity leaks and no waiter sleeps through its turn.
THEOREM SchedulingKept == GatewaySpec => [](QueueCoherence /\ LeaseAccounting /\ NoLostWakeup)
<1>1. Init => Scheduling
  <2>1. Init => NoLostWakeup
    BY DEF Init, NoLostWakeup
  <2> QED
    BY <2>1, InitQueues, InitCounts DEF Scheduling
<1>2. ASSUME TypeOK, LeaseInv, GatewayInv, Scheduling, [GatewayNext]_allVars
      PROVE  Scheduling'
  <2>1. CASE [Next]_vars
    BY <1>2, <2>1, StepKeepsQueues, StepKeepsCounts, StepKeepsWakeups DEF Scheduling
  <2>2. CASE Restart
    BY <2>2, RestartKeepsScheduling
  <2> QED
    BY <1>2, <2>1, <2>2, GatewayStepIsNext
<1>3. TypeOK /\ Scheduling => QueueCoherence /\ LeaseAccounting /\ NoLostWakeup
  BY CoherenceOfQueues DEF Scheduling
<1>4. GatewayInit => Scheduling
  BY <1>1 DEF GatewayInit
<1> QED
  BY <1>2, <1>3, <1>4, GatewayInvariant, PTL DEF GatewaySpec

\* A slot is taken within the limits under the gateway too; a restart takes none.
THEOREM GatewayWithinLimits == GatewaySpec => WithinLimits
<1>1. ASSUME TypeOK, LeaseInv, GatewayInv, LeaseAccounting, [GatewayNext]_allVars
      PROVE  StepInLimits
  <2>1. CASE [Next]_vars
    BY <1>1, <2>1, StepWithinLimits
  <2>2. CASE Restart
    <3>1. Leased' = {} /\ inflight' = [a \in Account |-> 0]
      BY <2>2, RestartKeepsScheduling
    <3>2. \A a \in Account : ~(inflight'[a] > inflight[a])
      BY <1>1, <3>1 DEF TypeOK
    <3>3. \A s \in Session : ~(Cardinality({r \in Leased' : SessionOf[r] = s})
                                 > Cardinality({r \in Leased : SessionOf[r] = s}))
      <4> SUFFICES ASSUME NEW s \in Session
                   PROVE  ~(Cardinality({r \in Leased' : SessionOf[r] = s})
                              > Cardinality({r \in Leased : SessionOf[r] = s}))
        OBVIOUS
      <4>1. {r \in Leased' : SessionOf[r] = s} = {}
        BY <3>1
      <4>2. Cardinality({r \in Leased : SessionOf[r] = s}) \in Nat
        BY SchedulerAssumption, FS_Subset, FS_CardinalityType DEF Leased
      <4> QED
        BY <4>1, <4>2, FS_EmptySet
    <3> QED
      BY <3>2, <3>3 DEF StepInLimits
  <2> QED
    BY <1>1, <2>1, <2>2, GatewayStepIsNext
<1>2. TypeOK /\ LeaseInv /\ GatewayInv /\ LeaseAccounting /\ [GatewayNext]_allVars => [StepInLimits]_vars
  BY <1>1
<1>3. GatewaySpec => [][StepInLimits]_vars
  BY <1>2, GatewayInvariant, SchedulingKept, PTL DEF GatewaySpec
<1> QED
  BY <1>3, PTL DEF WithinLimits, StepInLimits

=============================================================================
