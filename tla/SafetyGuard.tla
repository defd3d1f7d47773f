------------------------------ MODULE SafetyGuard ------------------------------
(***************************************************************************)
(* The count of upstream safety rejections per session that blocks it at   *)
(* the third: application/safety.rs, its calls in application/gateway.rs   *)
(* and the table safety_rejections.  The count in memory is filled from    *)
(* the store by every request that arrives, raised the moment a rejection  *)
(* is seen, and raised in the store when that request has ended.           *)
(***************************************************************************)
EXTENDS Integers, FiniteSets

CONSTANTS
  Session,
  Task,     \* concurrent requests
  MaxSeen,  \* bound on the rejections of a session in one life of the process
  None

Limit == 3

VARIABLES
  count,   \* session -> count in memory, 0 when absent
  stored,  \* session -> rejection_count of its row, 0 when there is none
  paused,
  tasks,
  saved,   \* history: rejections of earlier lives that were stored
  seen     \* history: rejections of this life

vars == <<count, stored, paused, tasks, saved, seen>>

\* "checked" and "leased" are the awaits before the first send, "sent" includes
\* the recovery of an attempt.
Stage == {"reading", "read", "checked", "leased", "sent", "saving"}
Work == [session : Session, at : Stage, loaded : 0..Limit, latched : BOOLEAN]

SafetyAssumption == IsFiniteSet(Task) /\ MaxSeen \in Nat /\ None \notin Work

TypeOK ==
  /\ count \in [Session -> 0..Limit]
  /\ stored \in [Session -> 0..Limit]
  /\ paused \in BOOLEAN
  /\ tasks \in [Task -> Work \cup {None}]
  /\ saved \in [Session -> Nat]
  /\ seen \in [Session -> Nat]

-----------------------------------------------------------------------------

At(t, stage) == tasks[t] # None /\ tasks[t].at = stage
SessionAt(t) == tasks[t].session
Advance(t, stage) == tasks' = [tasks EXCEPT ![t].at = stage]
End(t) == tasks' = [tasks EXCEPT ![t] = None]

\* MUTANT: the row counts on.
Uncapped(n) == n

AtMost(n) == IF n > Limit THEN Limit ELSE n

\* SafetyGuard::check.
Allowed(s) == count[s] < Limit

\* MUTANT: what was read replaces the count.
Replace(old, loaded) == loaded

\* SafetyGuard::restore: a read may be older than a rejection.
Larger(old, loaded) == IF loaded > old THEN loaded ELSE old

\* A request of a blocked session is refused without asking the store.
Arrive(t) ==
  /\ tasks[t] = None
  /\ \E s \in Session :
       /\ Allowed(s)
       /\ tasks' = [tasks EXCEPT ![t] = [session |-> s, at |-> "reading", loaded |-> 0, latched |-> FALSE]]
  /\ UNCHANGED <<count, stored, paused, saved, seen>>

\* The store answers; the task goes on later.
Read(t) ==
  /\ At(t, "reading")
  /\ tasks' = [tasks EXCEPT ![t].at = "read", ![t].loaded = stored[SessionAt(t)]]
  /\ UNCHANGED <<count, stored, paused, saved, seen>>

Restore(t) ==
  LET s == SessionAt(t) IN
  /\ At(t, "read")
  /\ count' = [count EXCEPT ![s] = Larger(@, tasks[t].loaded)]
  /\ IF count'[s] < Limit THEN Advance(t, "checked") ELSE End(t)
  /\ UNCHANGED <<stored, paused, saved, seen>>

\* The scheduler grants an account, unless dispatch is paused.
Lease(t) ==
  /\ At(t, "checked")
  /\ ~paused
  /\ IF Allowed(SessionAt(t)) THEN Advance(t, "leased") ELSE End(t)
  /\ UNCHANGED <<count, stored, paused, saved, seen>>

\* MUTANT: the check at arrival and after the queue is thought to be enough.
SendUnchecked(t) == TRUE

MaySend(t) == Allowed(SessionAt(t))

\* A rejection that was seen is saved at the end of its request.
Conclude(t) == IF tasks[t].latched THEN Advance(t, "saving") ELSE End(t)

\* The check comes after the last await before the attempt.
Send(t) ==
  /\ At(t, "leased")
  /\ IF MaySend(t) THEN Advance(t, "sent") ELSE Conclude(t)
  /\ UNCHANGED <<count, stored, paused, saved, seen>>

\* The attempt failed and is repeated, after the awaits of begin_recovery, also when
\* a rejection followed in the same chunk.  (Once per request; no bound here.)
Recover(t) ==
  /\ At(t, "sent")
  /\ Advance(t, "leased")
  /\ UNCHANGED <<count, stored, paused, saved, seen>>

\* safety_rejection.is_none()
FirstOfRequest(t) == ~tasks[t].latched

\* observe_safety_rejection, before any await, for each rejecting answer or event.
Observe(t) ==
  LET s == SessionAt(t) IN
  /\ At(t, "sent")
  /\ count' = IF FirstOfRequest(t) THEN [count EXCEPT ![s] = AtMost(@ + 1)] ELSE count
  /\ tasks' = [tasks EXCEPT ![t].latched = TRUE]
  /\ seen' = IF tasks[t].latched THEN seen ELSE [seen EXCEPT ![s] = @ + 1]
  /\ seen'[s] <= MaxSeen
  /\ UNCHANGED <<stored, paused, saved>>

\* The request ends: answered, failed, cancelled or shut down.
Finish(t) ==
  /\ tasks[t] # None /\ tasks[t].at # "saving"
  /\ Conclude(t)
  /\ UNCHANGED <<count, stored, paused, saved, seen>>

Increment(s) == stored' = [stored EXCEPT ![s] = AtMost(@ + 1)]

Save(t) ==
  /\ At(t, "saving")
  /\ Increment(SessionAt(t))
  /\ End(t)
  /\ UNCHANGED <<count, paused, saved, seen>>

\* An error, whether the row was written or not, stops dispatch.
SaveFails(t) ==
  /\ At(t, "saving")
  /\ Increment(SessionAt(t)) \/ UNCHANGED stored
  /\ paused' = TRUE
  /\ End(t)
  /\ UNCHANGED <<count, saved, seen>>

\* The process ends, during a save or not, and starts again with an empty map.
Restart ==
  /\ UNCHANGED stored \/ (\E t \in Task : At(t, "saving") /\ Increment(SessionAt(t)))
  /\ count' = [s \in Session |-> 0]
  /\ paused' = FALSE
  /\ tasks' = [t \in Task |-> None]
  /\ saved' = stored'
  /\ seen' = [s \in Session |-> 0]

Init ==
  /\ count = [s \in Session |-> 0]
  /\ stored = [s \in Session |-> 0]
  /\ paused = FALSE
  /\ tasks = [t \in Task |-> None]
  /\ saved = [s \in Session |-> 0]
  /\ seen = [s \in Session |-> 0]

TaskStep(t) ==
  \/ Arrive(t) \/ Read(t) \/ Restore(t) \/ Lease(t) \/ Send(t) \/ Recover(t)
  \/ Observe(t) \/ Finish(t) \/ Save(t) \/ SaveFails(t)

Next == (\E t \in Task : TaskStep(t)) \/ Restart

Spec == Init /\ [][Next]_vars

-----------------------------------------------------------------------------
(* Properties. *)

\* Rejections that the process must know of: those that survived the last restart
\* and those it has seen itself.
Rejections(s) == saved[s] + seen[s]

\* Once a request is past the check at its arrival the count of its session is
\* exact: each rejected request of this life once, and the stored ones, although
\* reads of the store and rejections of other requests cross.
CountIsExact ==
  \A t \in Task :
    tasks[t] # None /\ tasks[t].at \notin {"reading", "read"} =>
      count[SessionAt(t)] = AtMost(Rejections(SessionAt(t)))

\* No attempt is sent for a session with three rejections, whatever happened while
\* the request was queued or its attempt was prepared.
BlockedIsNotSent ==
  [][\A t \in Task :
       At(t, "leased") /\ At(t, "sent")' => Rejections(SessionAt(t)) < Limit]_vars

=============================================================================
