--------------------------- MODULE SchedulerProofs ---------------------------
(***************************************************************************)
(* Proofs about Scheduler for any sets of requests, accounts, keys,        *)
(* sessions and threads, and for any stored records and settings: types,   *)
(* leases, bindings and dispatch, then the waiting lists, the wake-ups and *)
(* the limits.                                                             *)
(***************************************************************************)
EXTENDS Scheduler, TLAPS, FiniteSetTheorems, SequenceTheorems, WellFoundedInduction

-----------------------------------------------------------------------------
(* Type correctness. *)

\* Removing an element from a list over S leaves a list over S.
LEMMA WithoutType ==
  ASSUME NEW S, NEW q \in Seq(S), NEW x
  PROVE  Without(q, x) \in Seq(S)
<1>1. CASE \E i \in DOMAIN q : q[i] = x
  <2>1. PICK i \in 1..Len(q) : i = CHOOSE j \in DOMAIN q : q[j] = x
    BY <1>1
  <2>2. SubSeq(q, 1, i - 1) \in Seq(S)
    <3>1. 1 \in Int /\ i - 1 \in Int /\ \A j \in 1..(i - 1) : q[j] \in S
      OBVIOUS
    <3> QED
      BY <3>1, SubSeqProperties
  <2>3. SubSeq(q, i + 1, Len(q)) \in Seq(S)
    <3>1. i + 1 \in Int /\ Len(q) \in Int /\ \A j \in (i + 1)..Len(q) : q[j] \in S
      OBVIOUS
    <3> QED
      BY <3>1, SubSeqProperties
  <2>4. SubSeq(q, 1, i - 1) \o SubSeq(q, i + 1, Len(q)) \in Seq(S)
    BY <2>2, <2>3
  <2> QED
    BY <1>1, <2>1, <2>4 DEF Without, RemoveAt
<1>2. CASE ~ \E i \in DOMAIN q : q[i] = x
  BY <1>2 DEF Without
<1> QED
  BY <1>1, <1>2

\* What Finish does to the variables of the tasks.
LEMMA FinishType ==
  ASSUME TypeOK, NEW r \in Request, NEW p \in Phase, Finish(r, p)
  PROVE  /\ phase' \in [Request -> Phase]
         /\ group' \in [Request -> Group \cup {None}]
         /\ late' \subseteq Request
         /\ stalled' \subseteq Request
         /\ woken' \subseteq Request
BY DEF TypeOK, Finish, Wake

\* Dropping a ticket keeps the types.
LEMMA LeaveQueueType ==
  ASSUME TypeOK, NEW r \in Request, LeaveQueue(r)
  PROVE  TypeOK'
<1>1. SessionOf[r] \in Session
  BY SchedulerAssumption
<1>2. Without(queues[SessionOf[r]], r) \in Seq(Request) /\ Without(order, SessionOf[r]) \in Seq(Session)
  BY <1>1, WithoutType DEF TypeOK
<1>3. queues' \in [Session -> Seq(Request)] /\ order' \in Seq(Session)
  BY <1>1, <1>2 DEF TypeOK, LeaveQueue, OrderAfterLeave
<1>4. Finish(r, "done") /\ "done" \in Phase
  BY DEF LeaveQueue, Phase
<1> QED
  BY <1>3, <1>4, FinishType DEF TypeOK, LeaveQueue, adminVars, leaseVars

\* Entering the queue, or being refused, keeps the types.
LEMMA ArrivalType ==
  ASSUME TypeOK, NEW r \in Request, NEW g \in Group, Enqueue(r, g) \/ Refuse(r, g)
  PROVE  TypeOK'
<1> USE SchedulerAssumption DEF TypeOK, Phase
<1>1. CASE Enqueue(r, g)
  <2>1. queues' \in [Session -> Seq(Request)] /\ order' \in Seq(Session)
    BY <1>1 DEF Enqueue
  <2> QED
    BY <1>1, <2>1 DEF Enqueue, Wake, adminVars, leaseVars
<1>2. CASE Refuse(r, g)
  BY <1>2 DEF Refuse, adminVars, queueVars, leaseVars
<1> QED
  BY <1>1, <1>2

\* Waiting without leaving the queue keeps the types.
LEMMA WaitingType ==
  ASSUME TypeOK, NEW r \in Request, Resume(r) \/ Stall(r) \/ Elapse(r) \/ Park(r)
  PROVE  TypeOK'
BY DEF TypeOK, Resume, Stall, Elapse, Park, adminVars, queueVars, leaseVars, taskVars

\* Granting a lease keeps the types.
LEMMA GrantType ==
  ASSUME TypeOK, NEW r \in Request, NEW a \in Account, group[r] # None, Grant(r, a)
  PROVE  TypeOK'
<1> DEFINE s == SessionOf[r]
           generation == GenerationOf(s)
           minted == [account |-> a, group |-> group[r],
                      family |-> Family[ModelOf[r]], generation |-> generation + 1]
<1>1. s \in Session /\ ThreadOf[r] \in Thread /\ ModelOf[r] \in Model
  BY SchedulerAssumption
<1>2. Without(queues[s], r) \in Seq(Request) /\ Without(order, s) \in Seq(Session)
  BY <1>1, WithoutType DEF TypeOK
<1>3. queues' \in [Session -> Seq(Request)] /\ order' \in Seq(Session)
  BY <1>1, <1>2 DEF TypeOK, Grant, OrderAfterGrant
<1>4. generation \in Nat /\ minted \in Binding
  BY <1>1 DEF TypeOK, Binding, GenerationOf
<1>5. SameBinding(r, a) => bindings[s] \in Binding
  BY <1>1 DEF TypeOK, SameBinding
<1>6. leases' \in [Request -> Lease \cup {None}]
  BY <1>4, <1>5 DEF TypeOK, Grant, Lease
<1>7. /\ inflight' \in [Account -> Nat]
      /\ threads' \in [Session -> [Thread -> Request \cup {None}]]
      /\ pending' \in [Session -> Request \cup {None}]
  BY <1>1 DEF TypeOK, Grant
<1>8. Finish(r, "leased") /\ "leased" \in Phase
  BY DEF Grant, Phase
<1> QED
  BY <1>3, <1>6, <1>7, <1>8, FinishType DEF TypeOK, Grant, adminVars

\* Every step of a lease after its grant keeps the types.
LEMMA LeaseStepType ==
  ASSUME TypeOK, NEW r \in Request,
         \/ ConfirmBinding(r) \/ ConfirmStateless(r)
         \/ BeginSend(r) \/ BeginRecovery(r) \/ DropLease(r)
  PROVE  TypeOK'
<1>1. SessionOf[r] \in Session /\ ThreadOf[r] \in Thread
  BY SchedulerAssumption
<1>2. Settle(r) => pending' \in [Session -> Request \cup {None}]
  BY <1>1 DEF TypeOK, Settle
<1>3. CASE ConfirmBinding(r)
  <2>1. leases[r] \in Lease
    BY <1>3 DEF TypeOK, ConfirmBinding
  <2>2. leases' \in [Request -> Lease \cup {None}] /\ bindings' \in [Session -> Binding \cup {None}]
    BY <1>1, <1>3, <2>1 DEF TypeOK, ConfirmBinding, Lease
  <2> QED
    BY <1>2, <1>3, <2>2 DEF TypeOK, ConfirmBinding, Wake, adminVars, queueVars, taskVars
<1>4. CASE ConfirmStateless(r)
  <2>1. leases[r] \in Lease
    BY <1>4 DEF TypeOK, ConfirmStateless
  <2>2. leases' \in [Request -> Lease \cup {None}]
    BY <1>1, <1>4, <2>1 DEF TypeOK, ConfirmStateless, Lease
  <2> QED
    BY <1>2, <1>4, <2>2 DEF TypeOK, ConfirmStateless, Wake, adminVars, queueVars, taskVars
<1>5. ASSUME NEW previous \in {0, 1}, BeginAttempt(r, previous)
      PROVE  TypeOK'
  <2>1. leases[r] \in Lease
    BY <1>5 DEF TypeOK, BeginAttempt
  <2>2. [leases[r] EXCEPT !.attempts = previous + 1] \in Lease
    BY <2>1 DEF Lease
  <2>3. leases' \in [Request -> Lease \cup {None}] /\ served' \in [Account -> Nat]
    BY <1>5, <2>1, <2>2 DEF TypeOK, BeginAttempt, Lease
  <2> QED
    BY <1>5, <2>3 DEF TypeOK, BeginAttempt, adminVars, queueVars, taskVars
<1>6. CASE DropLease(r)
  <2>1. leases[r].account \in Account
    BY <1>6 DEF TypeOK, DropLease, Lease
  <2>2. inflight' \in [Account -> Nat]
    BY <1>6, <2>1 DEF TypeOK, DropLease, SlotReleased
  <2>3. leases' \in [Request -> Lease \cup {None}]
    BY <1>6 DEF TypeOK, DropLease
  <2>4. /\ threads' \in [Session -> [Thread -> Request \cup {None}]]
        /\ pending' \in [Session -> Request \cup {None}]
    BY <1>1, <1>6 DEF TypeOK, DropLease, ThreadReleased
  <2>5. PICK p \in Phase : Finish(r, p)
    BY <1>6 DEF DropLease, Phase
  <2> QED
    BY <1>6, <2>2, <2>3, <2>4, <2>5, FinishType DEF TypeOK, DropLease, adminVars, queueVars
<1> QED
  BY <1>3, <1>4, <1>5, <1>6 DEF BeginSend, BeginRecovery

\* So does every operation of an administrator.
LEMMA AdminStepType ==
  ASSUME TypeOK, AdminStep
  PROVE  TypeOK'
<1> USE SchedulerAssumption DEF TypeOK, WakeOnly, Wake, queueVars, leaseVars, taskVars
<1>1. ASSUME NEW a \in Account, NEW c \in AccountConfigs, UpdateAccount(a, c)
      PROVE  TypeOK'
  BY <1>1 DEF UpdateAccount
<1>2. ASSUME NEW a \in Account, BlockAccount(a) \/ RemoveAccount(a)
      PROVE  TypeOK'
  BY <1>2 DEF BlockAccount, RemoveAccount
<1>3. ASSUME NEW k \in Key, NEW c \in KeyConfigs, UpdateKey(k, c)
      PROVE  TypeOK'
  BY <1>3 DEF UpdateKey
<1>4. ASSUME NEW k \in Key, BlockKey(k) \/ RemoveKey(k)
      PROVE  TypeOK'
  BY <1>4 DEF BlockKey, RemoveKey
<1>5. CASE Pause
  BY <1>5 DEF Pause
<1>6. ASSUME NEW c \in Settings, NEW stillLate \in SUBSET late, ApplySettings(c, stillLate)
      PROVE  TypeOK'
  BY <1>6 DEF ApplySettings, adminVars
<1> QED
  BY <1>1, <1>2, <1>3, <1>4, <1>5, <1>6 DEF AdminStep

\* The first state has the types, and every step keeps them.
LEMMA InitType == Init => TypeOK
<1> SUFFICES ASSUME Init
             PROVE  TypeOK
  OBVIOUS
<1>1. bindings \in [Session -> Binding \cup {None}]
  BY SchedulerAssumption DEF Init, Binding
<1>2. queues \in [Session -> Seq(Request)] /\ order \in Seq(Session)
  BY DEF Init
<1>3. threads \in [Session -> [Thread -> Request \cup {None}]]
  BY DEF Init
<1> QED
  BY <1>1, <1>2, <1>3 DEF Init, TypeOK, Phase

LEMMA StepKeepsTypes ==
  ASSUME TypeOK, [Next]_vars
  PROVE  TypeOK'
<1>1. ASSUME NEW r \in Request, RequestStep(r)
      PROVE  TypeOK'
  <2>1. ASSUME NEW g \in Group, Enqueue(r, g) \/ Refuse(r, g)
        PROVE  TypeOK'
    BY <2>1, ArrivalType
  <2>2. CASE Resume(r) \/ Stall(r) \/ Elapse(r) \/ Park(r)
    BY <2>2, WaitingType
  <2>3. CASE TimeOut(r) \/ Cancel(r) \/ Reject(r)
    BY <2>3, LeaveQueueType DEF TimeOut, Cancel, Reject
  <2>4. CASE Reserve(r)
    <3>1. PICK a \in Account : Grant(r, a)
      BY <2>4 DEF Reserve
    <3>2. group[r] # None
      BY <2>4, SchedulerAssumption DEF Reserve, Eligible, KeyAccepts, TypeOK
    <3> QED
      BY <3>1, <3>2, GrantType
  <2>5. CASE \/ ConfirmBinding(r) \/ ConfirmStateless(r)
             \/ BeginSend(r) \/ BeginRecovery(r) \/ DropLease(r)
    BY <2>5, LeaseStepType
  <2> QED
    BY <1>1, <2>1, <2>2, <2>3, <2>4, <2>5 DEF RequestStep
<1>2. CASE AdminStep
  BY <1>2, AdminStepType
<1>3. CASE UNCHANGED vars
  BY <1>3 DEF TypeOK, vars, adminVars, queueVars, leaseVars, taskVars
<1> QED
  BY <1>1, <1>2, <1>3 DEF Next

\* The value every variable has lies in the set TypeOK names for it, whatever
\* the instance: the records, generations and attempt counts stay in range.
THEOREM TypeCorrect == Spec => []TypeOK
<1>1. Init => TypeOK
  BY InitType
<1>2. TypeOK /\ [Next]_vars => TypeOK'
  BY StepKeepsTypes
<1> QED
  BY <1>1, <1>2, PTL DEF Spec

-----------------------------------------------------------------------------
(* The leases. *)

\* A step that leaves the leases alone, and the group of every leased request,
\* keeps what is known about leases.
LEMMA LeasesUndisturbed ==
  ASSUME LeaseInv, UNCHANGED leaseVars,
         \A r \in Request : phase'[r] = "leased" <=> phase[r] = "leased",
         \A r \in Leased : group'[r] = group[r]
  PROVE  LeaseInv'
<1>1. Leased' = Leased /\ \A s \in Session : GenerationOf(s)' = GenerationOf(s)
  BY DEF leaseVars, Leased, GenerationOf
<1> QED
  BY <1>1, SchedulerAssumption
     DEF LeaseInv, ThreadOwnership, OneBindingPerSession, LeaseMatchesBinding,
         StatelessUnbound, leaseVars, GenerationOf, Leased

\* The queue and its tasks, and the administrator, never touch a lease.
LEMMA QueueKeepsLeases ==
  ASSUME TypeOK, LeaseInv, NEW r \in Request,
         \/ \E g \in Group : Enqueue(r, g) \/ Refuse(r, g)
         \/ Resume(r) \/ Stall(r) \/ Elapse(r) \/ Park(r)
         \/ TimeOut(r) \/ Cancel(r) \/ Reject(r)
  PROVE  LeaseInv'
<1>1. UNCHANGED leaseVars
  BY DEF Enqueue, Refuse, Resume, Stall, Elapse, Park, TimeOut, Cancel, Reject, LeaveQueue
<1>2. \A q \in Request : phase'[q] = "leased" <=> phase[q] = "leased"
  BY DEF TypeOK, Enqueue, Refuse, Arrives, Resume, Stall, Elapse, Park, TimeOut, Cancel, Reject,
         Polled, LeaveQueue, Finish, taskVars
<1>3. \A q \in Leased : group'[q] = group[q]
  <2>1. \A q \in Leased : phase[q] = "leased" /\ q \in Request
    BY DEF LeaseInv, Leased
  <2> QED
    BY <2>1 DEF TypeOK, Enqueue, Refuse, Arrives, Resume, Stall, Elapse, Park, TimeOut, Cancel, Reject,
           Polled, LeaveQueue, Finish, taskVars
<1> QED
  BY <1>1, <1>2, <1>3, LeasesUndisturbed

LEMMA AdminKeepsLeases ==
  ASSUME LeaseInv, AdminStep
  PROVE  LeaseInv'
<1>1. UNCHANGED <<leaseVars, phase, group>>
  BY DEF AdminStep, UpdateAccount, BlockAccount, RemoveAccount, UpdateKey, BlockKey, RemoveKey,
         Pause, ApplySettings, WakeOnly, taskVars
<1> QED
  BY <1>1, LeasesUndisturbed DEF leaseVars

\* What a granted lease says of the binding it found or brings.
LEMMA GrantedLease ==
  ASSUME TypeOK, NEW r \in Request, NEW a \in Account, group[r] \in Group, Grant(r, a)
  PROVE  \E l \in Lease :
           /\ leases' = [leases EXCEPT ![r] = l]
           /\ l.binding.account = a /\ l.account = a /\ l.binding.group = group[r]
           /\ l.attempts = 0
           /\ l.expected = GenerationOf(SessionOf[r])
           /\ l.needsCommit = ~SameBinding(r, a)
           /\ l.needsCommit => l.binding.generation = l.expected + 1
           /\ ~l.needsCommit => l.binding = bindings[SessionOf[r]]
<1> DEFINE s == SessionOf[r]
           minted == [account |-> a, group |-> group[r],
                      family |-> Family[ModelOf[r]], generation |-> GenerationOf(s) + 1]
           granted(b, f) == [account |-> a, binding |-> b, needsCommit |-> f,
                             expected |-> GenerationOf(s), attempts |-> 0]
<1>1. bindings[s] \in Binding \cup {None} /\ GenerationOf(s) \in Nat
  <2>1. bindings[s] \in Binding \cup {None}
    BY SchedulerAssumption DEF TypeOK
  <2> QED
    BY <2>1 DEF GenerationOf, Binding
<1>2. CASE ~SameBinding(r, a)
  <2>1. leases' = [leases EXCEPT ![r] = granted(minted, TRUE)]
    BY <1>2 DEF Grant
  <2>2. minted \in Binding
    BY <1>1, SchedulerAssumption DEF Binding
  <2>3. granted(minted, TRUE) \in Lease
    BY <1>1, <2>2 DEF Lease
  <2> QED
    BY <1>2, <2>1, <2>3
<1>3. CASE SameBinding(r, a)
  <2>1. leases' = [leases EXCEPT ![r] = granted(bindings[s], FALSE)]
    BY <1>3 DEF Grant
  <2>2. bindings[s] \in Binding /\ bindings[s].account = a /\ bindings[s].group = group[r]
    BY <1>1, <1>3 DEF SameBinding
  <2>3. granted(bindings[s], FALSE) \in Lease
    BY <1>1, <2>2 DEF Lease
  <2> QED
    BY <1>3, <2>1, <2>2, <2>3
<1> QED
  BY <1>2, <1>3

\* A lease that is granted to a waiter finds its thread idle; if it brings a
\* new binding it finds the whole session idle.
LEMMA GrantKeepsLeases ==
  ASSUME TypeOK, LeaseInv, NEW r \in Request, Reserve(r)
  PROVE  LeaseInv'
<1> DEFINE s == SessionOf[r]
           t == ThreadOf[r]
<1>1. PICK a \in Account :
        /\ SessionOpen(s)
        /\ threads[s][t] = None
        /\ Drained(s, r, a)
        /\ Grant(r, a)
  BY DEF Reserve, Dispatchable, ThreadFree
<1>2. s \in Session /\ t \in Thread /\ phase[r] = "queued" /\ leases[r] = None
  BY SchedulerAssumption DEF Reserve, Polled, LeaseInv
<1>3. pending[s] = None
  BY <1>1 DEF SessionOpen
<1>4. PICK l \in Lease :
        /\ leases' = [leases EXCEPT ![r] = l]
        /\ l.binding.account = a /\ l.account = a /\ l.binding.group = group[r]
        /\ l.attempts = 0
        /\ l.expected = GenerationOf(s)
        /\ l.needsCommit = ~SameBinding(r, a)
        /\ l.needsCommit => l.binding.generation = l.expected + 1
        /\ ~l.needsCommit => l.binding = bindings[s]
  <2>1. group[r] \in Group
    BY SchedulerAssumption DEF Reserve, Eligible, KeyAccepts, TypeOK
  <2> QED
    BY <1>1, <2>1, GrantedLease
<1>5. l # None
  BY <1>4, NoneAssumption
<1>6. Leased' = Leased \cup {r}
  BY <1>4, <1>5 DEF Leased, TypeOK
<1>7. phase' = [phase EXCEPT ![r] = "leased"] /\ UNCHANGED <<group, bindings>>
  BY <1>1 DEF Grant, Finish
<1>8. threads' = [threads EXCEPT ![s][t] = r]
  BY <1>1 DEF Grant
<1>9. pending' = IF l.needsCommit THEN [pending EXCEPT ![s] = r] ELSE pending
  BY <1>1, <1>4 DEF Grant
<1>10. l.needsCommit => \A q \in Leased : SessionOf[q] # s
  <2> SUFFICES ASSUME l.needsCommit, NEW q \in Leased, SessionOf[q] = s
               PROVE  FALSE
    OBVIOUS
  <2>1. ActiveThreads(s) = {}
    BY <1>1, <1>4 DEF Drained
  <2>2. ThreadOf[q] \in Thread /\ q # None
    BY SchedulerAssumption DEF Leased
  <2>3. threads[s][ThreadOf[q]] = q
    BY DEF LeaseInv, ThreadOwnership
  <2> QED
    BY <2>1, <2>2, <2>3 DEF ActiveThreads
<1>11. (\A q \in Request : leases[q] # None <=> phase[q] = "leased")'
  BY <1>2, <1>4, <1>5, <1>7 DEF LeaseInv, TypeOK
<1>12. ThreadOwnership'
  BY <1>1, <1>2, <1>6, <1>8, SchedulerAssumption
     DEF LeaseInv, ThreadOwnership, TypeOK, Leased
<1>13. (\A z \in Session : pending[z] # None =>
         /\ pending[z] \in Leased
         /\ SessionOf[pending[z]] = z
         /\ leases[pending[z]].needsCommit)'
  BY <1>2, <1>4, <1>6, <1>9 DEF LeaseInv, TypeOK, Leased
<1>14. (\A q \in Leased : leases[q].needsCommit =>
         /\ pending[SessionOf[q]] = q
         /\ leases[q].attempts = 0
         /\ leases[q].expected = GenerationOf(SessionOf[q])
         /\ \A p \in Leased : SessionOf[p] = SessionOf[q] => p = q)'
  BY <1>2, <1>3, <1>4, <1>6, <1>7, <1>9, <1>10, SchedulerAssumption
     DEF LeaseInv, TypeOK, Leased, GenerationOf
<1>15. OneBindingPerSession' /\ LeaseMatchesBinding' /\ StatelessUnbound'
  BY <1>2, <1>4, <1>6, <1>7
     DEF LeaseInv, OneBindingPerSession, LeaseMatchesBinding, StatelessUnbound, TypeOK, Leased
<1> QED
  BY <1>11, <1>12, <1>13, <1>14, <1>15 DEF LeaseInv

\* Confirming ends the commit: the lease is alone in its session, so nobody
\* else holds the binding that is replaced.
LEMMA ConfirmKeepsLeases ==
  ASSUME TypeOK, LeaseInv, NEW r \in Request, ConfirmBinding(r) \/ ConfirmStateless(r)
  PROVE  LeaseInv'
<1> DEFINE s == SessionOf[r]
<1>1. s \in Session /\ r \in Leased /\ leases[r] \in Lease /\ leases[r].needsCommit
  BY SchedulerAssumption DEF ConfirmBinding, ConfirmStateless, Leased, TypeOK
<1>2. /\ pending[s] = r
      /\ leases[r].attempts = 0
      /\ leases[r].expected = GenerationOf(s)
      /\ \A q \in Leased : SessionOf[q] = s => q = r
  BY <1>1 DEF LeaseInv
<1>3. PICK l \in Lease :
        /\ leases' = [leases EXCEPT ![r] = l]
        /\ l = [leases[r] EXCEPT !.needsCommit = FALSE]
  BY <1>1 DEF ConfirmBinding, ConfirmStateless, Lease
<1>4. /\ l.needsCommit = FALSE
      /\ l.account = leases[r].account /\ l.binding = leases[r].binding
  BY <1>1, <1>3 DEF Lease
<1>5. l # None /\ Leased' = Leased
  <2>1. l # None
    BY <1>3, NoneAssumption
  <2> QED
    BY <1>1, <1>3, <2>1 DEF Leased, TypeOK
<1>6. pending' = [pending EXCEPT ![s] = None]
  BY <1>2 DEF ConfirmBinding, ConfirmStateless, Settle
<1>7. UNCHANGED <<phase, group, threads>>
  BY DEF ConfirmBinding, ConfirmStateless, taskVars
<1>8. \/ r \notin Stateless /\ bindings' = [bindings EXCEPT ![s] = leases[r].binding]
      \/ r \in Stateless /\ bindings' = bindings
  BY DEF ConfirmBinding, ConfirmStateless, KeepsBinding
<1>9. (\A q \in Request : leases[q] # None <=> phase[q] = "leased")'
  BY <1>1, <1>3, <1>5, <1>7 DEF LeaseInv, TypeOK, Leased
<1>10. ThreadOwnership'
  BY <1>5, <1>7 DEF LeaseInv, ThreadOwnership
<1>11. (\A z \in Session : pending[z] # None =>
         /\ pending[z] \in Leased
         /\ SessionOf[pending[z]] = z
         /\ leases[pending[z]].needsCommit)'
  BY <1>1, <1>2, <1>3, <1>5, <1>6 DEF LeaseInv, TypeOK, Leased
<1>12. (\A q \in Leased : leases[q].needsCommit =>
         /\ pending[SessionOf[q]] = q
         /\ leases[q].attempts = 0
         /\ leases[q].expected = GenerationOf(SessionOf[q])
         /\ \A p \in Leased : SessionOf[p] = SessionOf[q] => p = q)'
  <2> SUFFICES ASSUME NEW q \in Leased, (leases[q].needsCommit)'
               PROVE  (/\ pending[SessionOf[q]] = q
                       /\ leases[q].attempts = 0
                       /\ leases[q].expected = GenerationOf(SessionOf[q])
                       /\ \A p \in Leased : SessionOf[p] = SessionOf[q] => p = q)'
    BY <1>5
  <2>1. q # r /\ leases'[q] = leases[q] /\ q \in Request /\ SessionOf[q] \in Session
    BY <1>1, <1>3, <1>4, SchedulerAssumption DEF Leased, TypeOK
  <2>2. SessionOf[q] # s
    BY <1>2, <2>1
  <2>3. bindings'[SessionOf[q]] = bindings[SessionOf[q]]
    BY <1>8, <2>1, <2>2 DEF TypeOK
  <2> QED
    BY <1>5, <1>6, <2>1, <2>2, <2>3 DEF LeaseInv, GenerationOf, TypeOK
<1>13. OneBindingPerSession'
  <2> SUFFICES ASSUME NEW q \in Leased \ Stateless, (~leases[q].needsCommit)'
               PROVE  leases'[q].binding = bindings'[SessionOf[q]]
    BY <1>5 DEF OneBindingPerSession
  <2>1. CASE q = r
    BY <1>1, <1>3, <1>4, <1>8, <2>1 DEF TypeOK
  <2>2. CASE q # r
    <3>1. leases'[q] = leases[q] /\ SessionOf[q] # s /\ SessionOf[q] \in Session
      BY <1>2, <1>3, <2>2, SchedulerAssumption DEF Leased, TypeOK
    <3>2. bindings'[SessionOf[q]] = bindings[SessionOf[q]]
      BY <1>8, <3>1 DEF TypeOK
    <3> QED
      BY <3>1, <3>2 DEF LeaseInv, OneBindingPerSession
  <2> QED
    BY <2>1, <2>2
<1>14. LeaseMatchesBinding'
  BY <1>1, <1>3, <1>4, <1>5, <1>7 DEF LeaseInv, LeaseMatchesBinding, TypeOK, Leased
<1>15. StatelessUnbound'
  BY <1>1, <1>8, SchedulerAssumption DEF LeaseInv, StatelessUnbound, TypeOK
<1> QED
  BY <1>9, <1>10, <1>11, <1>12, <1>13, <1>14, <1>15 DEF LeaseInv

\* A send permit is taken from a confirmed lease, so only its count of attempts
\* changes.
LEMMA SendKeepsLeases ==
  ASSUME TypeOK, LeaseInv, NEW r \in Request, BeginSend(r) \/ BeginRecovery(r)
  PROVE  LeaseInv'
<1>1. PICK previous \in {0, 1} : BeginAttempt(r, previous)
  BY DEF BeginSend, BeginRecovery
<1>2. r \in Leased /\ leases[r] \in Lease /\ ~leases[r].needsCommit
  BY <1>1 DEF BeginAttempt, Leased, TypeOK
<1>3. PICK l \in Lease :
        /\ leases' = [leases EXCEPT ![r] = l]
        /\ l = [leases[r] EXCEPT !.attempts = previous + 1]
  <2>1. [leases[r] EXCEPT !.attempts = previous + 1] \in Lease
    BY <1>2 DEF Lease
  <2> QED
    BY <1>1, <1>2, <2>1 DEF BeginAttempt
<1>4. /\ l.needsCommit = leases[r].needsCommit
      /\ l.account = leases[r].account /\ l.binding = leases[r].binding
  BY <1>2, <1>3 DEF Lease
<1>5. l # None /\ Leased' = Leased
  <2>1. l # None
    BY <1>3, NoneAssumption
  <2> QED
    BY <1>2, <1>3, <2>1 DEF Leased, TypeOK
<1>6. UNCHANGED <<phase, group, threads, pending, bindings>>
  BY <1>1 DEF BeginAttempt, taskVars
<1>7. \A q \in Leased : /\ leases'[q].needsCommit = leases[q].needsCommit
                        /\ leases'[q].account = leases[q].account
                        /\ leases'[q].binding = leases[q].binding
                        /\ q # r => leases'[q] = leases[q]
  BY <1>2, <1>3, <1>4 DEF Leased, TypeOK
<1>8. (\A q \in Request : leases[q] # None <=> phase[q] = "leased")'
  BY <1>2, <1>3, <1>5, <1>6 DEF LeaseInv, TypeOK, Leased
<1>9. ThreadOwnership' /\ StatelessUnbound'
  BY <1>5, <1>6 DEF LeaseInv, ThreadOwnership, StatelessUnbound
<1>10. (\A z \in Session : pending[z] # None =>
         /\ pending[z] \in Leased
         /\ SessionOf[pending[z]] = z
         /\ leases[pending[z]].needsCommit)'
  BY <1>5, <1>6, <1>7 DEF LeaseInv
<1>11. (\A q \in Leased : leases[q].needsCommit =>
         /\ pending[SessionOf[q]] = q
         /\ leases[q].attempts = 0
         /\ leases[q].expected = GenerationOf(SessionOf[q])
         /\ \A p \in Leased : SessionOf[p] = SessionOf[q] => p = q)'
  BY <1>2, <1>5, <1>6, <1>7 DEF LeaseInv, GenerationOf
<1>12. OneBindingPerSession'
  BY <1>5, <1>6, <1>7 DEF LeaseInv, OneBindingPerSession
<1>13. LeaseMatchesBinding'
  BY <1>2, <1>5, <1>6, <1>7 DEF LeaseInv, LeaseMatchesBinding
<1> QED
  BY <1>8, <1>9, <1>10, <1>11, <1>12, <1>13 DEF LeaseInv

\* A lease that ends takes its thread and its pending commit with it, and
\* nothing of anybody else's.
LEMMA DropKeepsLeases ==
  ASSUME TypeOK, LeaseInv, NEW r \in Request, DropLease(r)
  PROVE  LeaseInv'
<1> DEFINE s == SessionOf[r]
           t == ThreadOf[r]
           vacant == \A u \in Thread : threads'[s][u] = None
<1>1. s \in Session /\ t \in Thread /\ r \in Leased
  BY SchedulerAssumption DEF DropLease, Leased
<1>2. leases' = [leases EXCEPT ![r] = None] /\ Leased' = Leased \ {r}
  BY DEF DropLease, Leased, TypeOK
<1>3. threads' = [threads EXCEPT ![s] = [threads[s] EXCEPT ![t] = None]]
  BY DEF DropLease, ThreadReleased
<1>4. pending' = IF pending[s] = r \/ vacant THEN [pending EXCEPT ![s] = None] ELSE pending
  BY <1>1, <1>3 DEF DropLease, ThreadReleased, TypeOK
<1>5. UNCHANGED <<bindings, group>> /\ \A q \in Request : phase'[q] = "leased" <=> phase[q] = "leased" /\ q # r
  BY DEF DropLease, ThreadReleased, Finish, TypeOK
<1>6. \A q \in Leased' : leases'[q] = leases[q] /\ q \in Leased /\ q # r
  BY <1>2 DEF Leased, TypeOK
<1>7. (\A q \in Request : leases[q] # None <=> phase[q] = "leased")'
  BY <1>2, <1>5 DEF LeaseInv, TypeOK
<1>8. ThreadOwnership'
  <2>1. \A q \in Leased' : threads'[SessionOf[q]][ThreadOf[q]] = q
    <3> SUFFICES ASSUME NEW q \in Leased'
                 PROVE  threads'[SessionOf[q]][ThreadOf[q]] = q
      OBVIOUS
    <3>1. SessionOf[q] \in Session /\ ThreadOf[q] \in Thread /\ threads[SessionOf[q]][ThreadOf[q]] = q
      BY <1>6, SchedulerAssumption DEF LeaseInv, ThreadOwnership, Leased
    <3>2. threads[s][t] = r
      BY <1>1 DEF LeaseInv, ThreadOwnership
    <3> QED
      BY <1>1, <1>3, <1>6, <3>1, <3>2 DEF TypeOK
  <2>2. \A z \in Session, u \in Thread : threads'[z][u] # None =>
          threads'[z][u] = threads[z][u] /\ (z # s \/ u # t)
    BY <1>1, <1>3 DEF TypeOK
  <2>3. \A z \in Session, u \in Thread : threads'[z][u] # None =>
          threads'[z][u] \in Leased' /\ SessionOf[threads'[z][u]] = z /\ ThreadOf[threads'[z][u]] = u
    BY <1>1, <1>2, <2>2 DEF LeaseInv, ThreadOwnership
  <2> QED
    BY <2>1, <2>3 DEF ThreadOwnership
<1>9. \A q \in Leased' : SessionOf[q] = s => ~vacant
  <2>1. \A q \in Leased' : q # None /\ ThreadOf[q] \in Thread
    BY SchedulerAssumption DEF Leased
  <2> QED
    BY <1>8, <2>1 DEF ThreadOwnership
<1>10. (\A z \in Session : pending[z] # None =>
         /\ pending[z] \in Leased
         /\ SessionOf[pending[z]] = z
         /\ leases[pending[z]].needsCommit)'
  <2> SUFFICES ASSUME NEW z \in Session, pending'[z] # None
               PROVE  (/\ pending[z] \in Leased
                       /\ SessionOf[pending[z]] = z
                       /\ leases[pending[z]].needsCommit)'
    OBVIOUS
  <2>1. pending'[z] = pending[z] /\ pending[z] # r
    <3>1. CASE z = s
      BY <1>1, <1>4, <3>1 DEF TypeOK
    <3>2. CASE z # s
      BY <1>1, <1>4, <3>2 DEF TypeOK, LeaseInv
    <3> QED
      BY <3>1, <3>2
  <2> QED
    BY <1>2, <1>6, <2>1 DEF LeaseInv
<1>11. (\A q \in Leased : leases[q].needsCommit =>
         /\ pending[SessionOf[q]] = q
         /\ leases[q].attempts = 0
         /\ leases[q].expected = GenerationOf(SessionOf[q])
         /\ \A p \in Leased : SessionOf[p] = SessionOf[q] => p = q)'
  <2> SUFFICES ASSUME NEW q \in Leased', leases'[q].needsCommit
               PROVE  /\ pending'[SessionOf[q]] = q
                      /\ (leases[q].attempts = 0)'
                      /\ (leases[q].expected = GenerationOf(SessionOf[q]))'
                      /\ \A p \in Leased' : SessionOf[p] = SessionOf[q] => p = q
    OBVIOUS
  <2>1. pending[SessionOf[q]] = q /\ SessionOf[q] \in Session
    BY <1>6, SchedulerAssumption DEF LeaseInv, Leased
  <2>2. pending'[SessionOf[q]] = q
    BY <1>1, <1>4, <1>6, <1>9, <2>1 DEF TypeOK
  <2> QED
    BY <1>5, <1>6, <2>2 DEF LeaseInv, GenerationOf
<1>12. OneBindingPerSession' /\ LeaseMatchesBinding' /\ StatelessUnbound'
  BY <1>5, <1>6 DEF LeaseInv, OneBindingPerSession, LeaseMatchesBinding, StatelessUnbound
<1> QED
  BY <1>7, <1>8, <1>10, <1>11, <1>12 DEF LeaseInv

\* Every step keeps what is known about leases.
LEMMA StepKeepsLeases ==
  ASSUME TypeOK, LeaseInv, [Next]_vars
  PROVE  LeaseInv'
<1>1. ASSUME NEW r \in Request, RequestStep(r)
      PROVE  LeaseInv'
  <2>1. CASE \/ \E g \in Group : Enqueue(r, g) \/ Refuse(r, g)
             \/ Resume(r) \/ Stall(r) \/ Elapse(r) \/ Park(r)
             \/ TimeOut(r) \/ Cancel(r) \/ Reject(r)
    BY <2>1, QueueKeepsLeases
  <2>2. CASE Reserve(r)
    BY <2>2, GrantKeepsLeases
  <2>3. CASE ConfirmBinding(r) \/ ConfirmStateless(r)
    BY <2>3, ConfirmKeepsLeases
  <2>4. CASE BeginSend(r) \/ BeginRecovery(r)
    BY <2>4, SendKeepsLeases
  <2>5. CASE DropLease(r)
    BY <2>5, DropKeepsLeases
  <2> QED
    BY <1>1, <2>1, <2>2, <2>3, <2>4, <2>5 DEF RequestStep
<1>2. CASE AdminStep
  BY <1>2, AdminKeepsLeases
<1>3. CASE UNCHANGED vars
  BY <1>3, LeasesUndisturbed DEF vars, taskVars
<1> QED
  BY <1>1, <1>2, <1>3 DEF Next

\* Nothing is in flight at first.
LEMMA InitLeases == Init => LeaseInv
<1> SUFFICES ASSUME Init
             PROVE  LeaseInv
  OBVIOUS
<1>1. Leased = {}
  BY DEF Init, Leased
<1>2. ThreadOwnership /\ OneBindingPerSession /\ LeaseMatchesBinding /\ StatelessUnbound
  BY <1>1 DEF Init, ThreadOwnership, OneBindingPerSession, LeaseMatchesBinding, StatelessUnbound
<1> QED
  BY <1>1, <1>2 DEF Init, LeaseInv

\* Leases, threads, pending commits and bindings stay in agreement.
THEOREM LeasesConsistent == Spec => []LeaseInv
<1>1. Init => LeaseInv
  BY InitLeases
<1>2. TypeOK /\ LeaseInv /\ [Next]_vars => LeaseInv'
  BY StepKeepsLeases
<1> QED
  BY <1>1, <1>2, TypeCorrect, PTL DEF Spec

\* No two requests of one thread are in flight together, and no thread stays
\* taken after its lease is gone.
THEOREM ThreadsOwned == Spec => []ThreadOwnership
<1>1. LeaseInv => ThreadOwnership
  BY DEF LeaseInv
<1> QED
  BY <1>1, LeasesConsistent, PTL

\* The request that commits a binding is alone in its session until it is
\* confirmed or dropped.
THEOREM CommitIsAlone == Spec => []CommitsAlone
<1>1. LeaseInv => CommitsAlone
  <2> SUFFICES ASSUME LeaseInv, NEW s \in Session, NEW r \in Request
               PROVE  pending[s] = r <=> /\ r \in Leased
                                         /\ leases[r].needsCommit
                                         /\ Colleagues(r) = {r}
                                         /\ SessionOf[r] = s
    BY DEF CommitsAlone
  <2>1. ASSUME pending[s] = r
        PROVE  r \in Leased /\ leases[r].needsCommit /\ Colleagues(r) = {r} /\ SessionOf[r] = s
    <3>1. r # None
      BY SchedulerAssumption
    <3>2. r \in Leased /\ SessionOf[r] = s /\ leases[r].needsCommit
      BY <2>1, <3>1 DEF LeaseInv
    <3>3. \A q \in Leased : SessionOf[q] = SessionOf[r] => q = r
      BY <3>2 DEF LeaseInv
    <3> QED
      BY <3>2, <3>3 DEF Colleagues
  <2>2. ASSUME r \in Leased, leases[r].needsCommit, SessionOf[r] = s
        PROVE  pending[s] = r
    BY <2>2 DEF LeaseInv
  <2> QED
    BY <2>1, <2>2
<1> QED
  BY <1>1, LeasesConsistent, PTL

\* All requests in flight in a session share the binding generation the
\* scheduler has recorded for it.
THEOREM OneGeneration == Spec => []OneBindingPerSession
<1>1. LeaseInv => OneBindingPerSession
  BY DEF LeaseInv
<1> QED
  BY <1>1, LeasesConsistent, PTL

\* A lease is on the account and group its binding names, one generation after
\* the binding it replaces.
THEOREM LeaseNamesItsBinding == Spec => []LeaseMatchesBinding
<1>1. LeaseInv => LeaseMatchesBinding
  BY DEF LeaseInv
<1> QED
  BY <1>1, LeasesConsistent, PTL

\* A request without client identity leaves no binding behind.
THEOREM NothingKeptOfStateless == Spec => []StatelessUnbound
<1>1. LeaseInv => StatelessUnbound
  BY DEF LeaseInv
<1> QED
  BY <1>1, LeasesConsistent, PTL

\* A session changes its binding only when nothing is in flight under the old
\* one, and to the next generation.
THEOREM MigrationWaits == Spec => MigrationDrained
<1> DEFINE Drains == \A s \in Session :
             bindings'[s] # bindings[s] =>
               /\ \A r \in Leased : SessionOf[r] = s =>
                    leases[r].binding = bindings'[s] /\ leases[r].attempts = 0
               /\ bindings'[s].generation = GenerationOf(s) + 1
<1>1. TypeOK /\ LeaseInv /\ [Next]_vars => [Drains]_vars
  <2> SUFFICES ASSUME TypeOK, LeaseInv, [Next]_vars,
                      NEW s \in Session, bindings'[s] # bindings[s]
               PROVE  /\ \A r \in Leased : SessionOf[r] = s =>
                           leases[r].binding = bindings'[s] /\ leases[r].attempts = 0
                      /\ bindings'[s].generation = GenerationOf(s) + 1
    OBVIOUS
  <2>1. PICK r \in Request : ConfirmBinding(r)
    <3>1. ~UNCHANGED bindings
      OBVIOUS
    <3>2. ~UNCHANGED vars
      BY <3>1 DEF vars, leaseVars
    <3>3. ~AdminStep
      BY <3>1 DEF AdminStep, UpdateAccount, BlockAccount, RemoveAccount, UpdateKey, BlockKey,
           RemoveKey, Pause, ApplySettings, WakeOnly, leaseVars
    <3>4. PICK r \in Request : RequestStep(r)
      BY <3>2, <3>3 DEF Next
    <3>5. ~ \E g \in Group : Enqueue(r, g) \/ Refuse(r, g)
      BY <3>1 DEF Enqueue, Refuse, leaseVars
    <3>6. ~(\/ Resume(r) \/ Stall(r) \/ Elapse(r) \/ Park(r)
            \/ TimeOut(r) \/ Cancel(r) \/ Reject(r))
      BY <3>1 DEF Resume, Stall, Elapse, Park, TimeOut, Cancel, Reject, LeaveQueue, leaseVars
    <3>7. ~(\/ Reserve(r) \/ ConfirmStateless(r) \/ BeginSend(r) \/ BeginRecovery(r) \/ DropLease(r))
      BY <3>1 DEF Reserve, Grant, ConfirmStateless, BeginSend, BeginRecovery, BeginAttempt, DropLease
    <3> QED
      BY <3>4, <3>5, <3>6, <3>7 DEF RequestStep
  <2>2. /\ r \in Leased /\ leases[r].needsCommit /\ SessionOf[r] \in Session
        /\ bindings' = [bindings EXCEPT ![SessionOf[r]] = leases[r].binding]
    BY <2>1, SchedulerAssumption DEF ConfirmBinding, Leased
  <2>3. SessionOf[r] = s /\ bindings'[s] = leases[r].binding
    BY <2>2 DEF TypeOK
  <2>4. /\ leases[r].attempts = 0
        /\ leases[r].expected = GenerationOf(s)
        /\ \A q \in Leased : SessionOf[q] = s => q = r
    BY <2>2, <2>3 DEF LeaseInv
  <2>5. leases[r].binding.generation = GenerationOf(s) + 1
    BY <2>2, <2>4 DEF LeaseInv, LeaseMatchesBinding
  <2> QED
    BY <2>3, <2>4, <2>5
<1>2. Spec => [][Drains]_vars
  BY <1>1, TypeCorrect, LeasesConsistent, PTL DEF Spec
<1> QED
  BY <1>2 DEF MigrationDrained

-----------------------------------------------------------------------------
(* Capacity. *)

OnAccount(a) == {r \in Leased : leases[r].account = a}

\* As long as every request keeps its lease and the account of it, and the
\* counters stay, the counters still count the leases.
LEMMA CountUndisturbed ==
  ASSUME LeaseAccounting, inflight' = inflight, Leased' = Leased,
         \A r \in Leased : leases'[r].account = leases[r].account
  PROVE  LeaseAccounting'
<1>1. \A a \in Account : OnAccount(a)' = OnAccount(a)
  BY DEF OnAccount
<1> QED
  BY <1>1 DEF LeaseAccounting, OnAccount

LEMMA GrantCounts ==
  ASSUME TypeOK, LeaseInv, LeaseAccounting, NEW r \in Request, Reserve(r)
  PROVE  LeaseAccounting'
<1>1. PICK a \in Account : Grant(r, a)
  BY DEF Reserve
<1>2. /\ inflight' = [inflight EXCEPT ![a] = @ + 1]
      /\ phase[r] = "queued" /\ r \notin Leased
  BY <1>1 DEF Grant, Reserve, Polled, LeaseInv, Leased
<1>3. PICK l : leases' = [leases EXCEPT ![r] = l] /\ l.account = a
  <2>1. group[r] \in Group
    BY SchedulerAssumption DEF Reserve, Eligible, KeyAccepts, TypeOK
  <2> QED
    BY <1>1, <2>1, GrantedLease
<1>4. Leased' = Leased \cup {r}
  <2>1. LeaseInv'
    BY GrantKeepsLeases
  <2>2. phase' = [phase EXCEPT ![r] = "leased"]
    BY <1>1 DEF Grant, Finish
  <2> QED
    BY <2>1, <2>2 DEF LeaseInv, Leased, TypeOK
<1>5. IsFiniteSet(OnAccount(a))
  BY SchedulerAssumption, FS_Subset DEF OnAccount, Leased
<1>6. OnAccount(a)' = OnAccount(a) \cup {r} /\ r \notin OnAccount(a)
  BY <1>2, <1>3, <1>4 DEF OnAccount, Leased, TypeOK
<1>7. Cardinality(OnAccount(a)') = Cardinality(OnAccount(a)) + 1
  BY <1>5, <1>6, FS_AddElement
<1>8. \A b \in Account \ {a} : OnAccount(b)' = OnAccount(b)
  BY <1>2, <1>3, <1>4 DEF OnAccount, Leased, TypeOK
<1> QED
  BY <1>2, <1>7, <1>8 DEF LeaseAccounting, OnAccount, TypeOK

LEMMA DropCounts ==
  ASSUME TypeOK, LeaseInv, LeaseAccounting, NEW r \in Request, DropLease(r)
  PROVE  LeaseAccounting'
<1>1. PICK a \in Account : r \in Leased /\ a = leases[r].account
  BY DEF DropLease, Leased, TypeOK, Lease
<1>2. leases' = [leases EXCEPT ![r] = None] /\ Leased' = Leased \ {r}
  BY DEF DropLease, Leased, TypeOK
<1>3. IsFiniteSet(OnAccount(a))
  BY SchedulerAssumption, FS_Subset DEF OnAccount, Leased
<1>4. OnAccount(a)' = OnAccount(a) \ {r} /\ r \in OnAccount(a)
  BY <1>1, <1>2 DEF OnAccount, Leased, TypeOK
<1>5. Cardinality(OnAccount(a)') = Cardinality(OnAccount(a)) - 1
  BY <1>3, <1>4, FS_RemoveElement
<1>6. inflight[a] = Cardinality(OnAccount(a)) /\ Cardinality(OnAccount(a)) > 0
  <2>1. Cardinality(OnAccount(a)) \in Nat /\ Cardinality(OnAccount(a)) # 0
    BY <1>3, <1>4, FS_CardinalityType, FS_EmptySet
  <2>2. inflight[a] = Cardinality(OnAccount(a))
    BY DEF LeaseAccounting, OnAccount
  <2> QED
    BY <2>1, <2>2
<1>7. inflight' = [inflight EXCEPT ![a] = inflight[a] - 1]
  BY <1>1, <1>6 DEF DropLease, SlotReleased, TypeOK
<1>8. \A b \in Account \ {a} : OnAccount(b)' = OnAccount(b)
  BY <1>1, <1>2 DEF OnAccount, Leased, TypeOK
<1> QED
  BY <1>1, <1>5, <1>6, <1>7, <1>8 DEF LeaseAccounting, OnAccount, TypeOK

\* The lease keeps its account when it is confirmed or used.
LEMMA UseCounts ==
  ASSUME TypeOK, LeaseInv, LeaseAccounting, NEW r \in Request,
         ConfirmBinding(r) \/ ConfirmStateless(r) \/ BeginSend(r) \/ BeginRecovery(r)
  PROVE  LeaseAccounting'
<1>1. leases[r] \in Lease /\ inflight' = inflight /\ phase' = phase
  BY DEF ConfirmBinding, ConfirmStateless, BeginSend, BeginRecovery, BeginAttempt, taskVars, TypeOK
<1>2. PICK l : leases' = [leases EXCEPT ![r] = l] /\ l.account = leases[r].account
  <2>1. CASE ConfirmBinding(r) \/ ConfirmStateless(r)
    BY <1>1, <2>1 DEF ConfirmBinding, ConfirmStateless, Lease
  <2>2. ASSUME NEW previous \in {0, 1}, BeginAttempt(r, previous)
        PROVE  \E l : leases' = [leases EXCEPT ![r] = l] /\ l.account = leases[r].account
    <3> DEFINE l == [leases[r] EXCEPT !.attempts = previous + 1]
    <3>1. leases' = [leases EXCEPT ![r] = l]
      BY <1>1, <2>2 DEF BeginAttempt, TypeOK
    <3>2. l.account = leases[r].account
      BY <1>1 DEF Lease
    <3> QED
      BY <3>1, <3>2
  <2> QED
    BY <2>1, <2>2 DEF BeginSend, BeginRecovery
<1>3. Leased' = Leased
  <2>1. LeaseInv'
    BY ConfirmKeepsLeases, SendKeepsLeases
  <2> QED
    BY <1>1, <2>1 DEF LeaseInv, Leased
<1>4. \A q \in Leased : leases'[q].account = leases[q].account
  BY <1>2 DEF Leased, TypeOK
<1> QED
  BY <1>1, <1>3, <1>4, CountUndisturbed

\* Nothing is counted at first, and every step keeps the counters right.
LEMMA InitCounts == Init => LeaseAccounting
<1> SUFFICES ASSUME Init, NEW a \in Account
             PROVE  inflight[a] = Cardinality(OnAccount(a))
  BY DEF LeaseAccounting, OnAccount
<1>1. OnAccount(a) = {}
  BY DEF Init, OnAccount, Leased
<1> QED
  BY <1>1, FS_EmptySet DEF Init

LEMMA StepKeepsCounts ==
  ASSUME TypeOK, LeaseInv, LeaseAccounting, [Next]_vars
  PROVE  LeaseAccounting'
<1>1. CASE UNCHANGED leaseVars
  BY <1>1, CountUndisturbed DEF leaseVars, Leased
<1>2. CASE ~UNCHANGED leaseVars
  <2>1. ~AdminStep /\ ~UNCHANGED vars
    BY <1>2 DEF AdminStep, UpdateAccount, BlockAccount, RemoveAccount, UpdateKey, BlockKey,
         RemoveKey, Pause, ApplySettings, WakeOnly, vars
  <2>2. PICK r \in Request : RequestStep(r)
    BY <2>1 DEF Next
  <2>3. ~ \E g \in Group : Enqueue(r, g) \/ Refuse(r, g)
    BY <1>2 DEF Enqueue, Refuse
  <2>4. ~(\/ Resume(r) \/ Stall(r) \/ Elapse(r) \/ Park(r)
          \/ TimeOut(r) \/ Cancel(r) \/ Reject(r))
    BY <1>2 DEF Resume, Stall, Elapse, Park, TimeOut, Cancel, Reject, LeaveQueue
  <2>5. CASE Reserve(r)
    BY <2>5, GrantCounts
  <2>6. CASE ConfirmBinding(r) \/ ConfirmStateless(r) \/ BeginSend(r) \/ BeginRecovery(r)
    BY <2>6, UseCounts
  <2>7. CASE DropLease(r)
    BY <2>7, DropCounts
  <2> QED
    BY <2>2, <2>3, <2>4, <2>5, <2>6, <2>7 DEF RequestStep
<1> QED
  BY <1>1, <1>2

\* Capacity neither leaks nor is given back twice: the counter of an account is
\* the number of leases on it.
THEOREM CapacityCounted == Spec => []LeaseAccounting
<1>1. TypeOK /\ LeaseInv /\ LeaseAccounting /\ [Next]_vars => LeaseAccounting'
  BY StepKeepsCounts
<1> QED
  BY <1>1, InitCounts, TypeCorrect, LeasesConsistent, PTL DEF Spec

-----------------------------------------------------------------------------
(* Least elements. *)

\* A set of naturals that is not empty has a least element.
LEMMA LeastNatural ==
  ASSUME NEW T \in SUBSET Nat, T # {}
  PROVE  \E n \in T : \A m \in T : n <= m
<1>1. \E n \in T : \A m \in T : ~(<<m, n>> \in OpToRel(<, Nat))
  BY WFMin, NatLessThanWellFounded
<1>2. PICK n \in T : \A m \in T : ~(<<m, n>> \in OpToRel(<, Nat))
  BY <1>1
<1>3. \A m \in T : ~(m < n)
  BY <1>2 DEF OpToRel
<1> QED
  BY <1>3

\* Among subsets of a finite set, some one has no proper subset.
LEMMA MinimalSubset ==
  ASSUME NEW S, IsFiniteSet(S), NEW B \in SUBSET SUBSET S, B # {}
  PROVE  \E T \in B : \A U \in B : U \subseteq T => U = T
<1>1. IsWellFoundedOn(StrictSubsetOrdering(S), SUBSET S)
  BY FS_StrictSubsetOrderingWellFounded, FS_FiniteSubsetsOfFinite
<1>2. PICK T \in B : \A U \in B : ~(<<U, T>> \in StrictSubsetOrdering(S))
  BY <1>1, WFMin
<1> QED
  BY <1>2 DEF StrictSubsetOrdering

\* SumFunction adds up a function on a finite set: any g that adds the elements
\* one at a time ends at the same sum.
LEMMA SumByWitness ==
  ASSUME NEW D, IsFiniteSet(D), NEW f \in [D -> Nat], NEW g \in [SUBSET D -> Nat],
         g[{}] = 0,
         \A T \in SUBSET D : \A x \in T : g[T] = f[x] + g[T \ {x}]
  PROVE  SumFunction(f) = g[D]
<1> DEFINE Steps(h) == h = [T \in SUBSET D |->
                              IF T = {} THEN 0
                              ELSE LET x == CHOOSE y \in T : TRUE IN f[x] + h[T \ {x}]]
           iter == CHOOSE h : Steps(h)
<1>1. SumFunction(f) = iter[D]
  BY DEF SumFunction, SumFunctionOnSet, FoldFunctionOnSet, MapThenFoldSet
<1>2. Steps(g)
  <2> DEFINE e == [T \in SUBSET D |->
                     IF T = {} THEN 0
                     ELSE LET x == CHOOSE y \in T : TRUE IN f[x] + g[T \ {x}]]
  <2>1. ASSUME NEW T \in SUBSET D
        PROVE  g[T] = e[T]
    <3>1. CASE T = {}
      BY <3>1
    <3>2. CASE T # {}
      <4>1. (CHOOSE y \in T : TRUE) \in T
        BY <3>2
      <4> QED
        BY <3>2, <4>1
    <3> QED
      BY <3>1, <3>2
  <2> QED
    BY <2>1
<1>3. Steps(iter)
  <2>1. \E h : Steps(h)
    BY <1>2
  <2> HIDE DEF Steps
  <2> QED
    BY <2>1
<1> HIDE DEF iter
<1>4. \A T \in SUBSET D : iter[T] = g[T]
  <2> SUFFICES ASSUME NEW V \in SUBSET D, iter[V] # g[V]
               PROVE  FALSE
    OBVIOUS
  <2> DEFINE B == {T \in SUBSET D : iter[T] # g[T]}
  <2>1. B \in SUBSET SUBSET D /\ B # {}
    OBVIOUS
  <2>2. PICK T \in B : \A U \in B : U \subseteq T => U = T
    <3> HIDE DEF B
    <3> QED
      BY <2>1, MinimalSubset
  <2>3. T # {}
    BY <1>3
  <2> DEFINE x == CHOOSE y \in T : TRUE
  <2>4. x \in T
    BY <2>3
  <2>5. T \ {x} \notin B
    BY <2>2, <2>4
  <2>6. iter[T] = f[x] + iter[T \ {x}]
    BY <1>3, <2>3
  <2>7. iter[T \ {x}] = g[T \ {x}]
    BY <2>5
  <2> QED
    BY <2>2, <2>4, <2>6, <2>7
<1> QED
  BY <1>1, <1>4

-----------------------------------------------------------------------------
(* Lists without repetition. *)

\* Only the empty list has no entries.
LEMMA EmptyList ==
  ASSUME NEW S, NEW q \in Seq(S)
  PROVE  Range(q) = {} <=> q = <<>>
<1>1. DOMAIN q = 1..Len(q) /\ Len(q) \in Nat
  OBVIOUS
<1>2. ASSUME q # <<>>
      PROVE  Range(q) # {}
  <2>1. 1 \in DOMAIN q
    BY <1>1, <1>2, EmptySeq
  <2> QED
    BY <2>1 DEF Range
<1>3. Range(<<>>) = {}
  BY DEF Range
<1> QED
  BY <1>2, <1>3

\* A new entry at the end of a list.
LEMMA AppendUnique ==
  ASSUME NEW S, NEW q \in Seq(S), IsInjective(q), NEW x \in S, x \notin Range(q)
  PROVE  IsInjective(Append(q, x)) /\ Range(Append(q, x)) = Range(q) \cup {x}
<1> DEFINE n == Len(q)
           p == Append(q, x)
<1>1. n \in Nat /\ DOMAIN q = 1..n /\ DOMAIN p = 1..(n + 1)
  OBVIOUS
<1>2. p[n + 1] = x /\ \A i \in 1..n : p[i] = q[i]
  OBVIOUS
<1>3. 1..(n + 1) = (1..n) \cup {n + 1}
  BY <1>1
<1> HIDE DEF n, p
<1>4. Range(p) = Range(q) \cup {x}
  <2>1. Range(p) = {p[i] : i \in (1..n) \cup {n + 1}}
    BY <1>1, <1>3 DEF Range
  <2>2. {p[i] : i \in (1..n) \cup {n + 1}} = {p[i] : i \in 1..n} \cup {p[n + 1]}
    OBVIOUS
  <2>3. {p[i] : i \in 1..n} = {q[i] : i \in 1..n}
    BY <1>2
  <2>4. Range(q) = {q[i] : i \in 1..n}
    BY <1>1 DEF Range
  <2> QED
    BY <1>2, <2>1, <2>2, <2>3, <2>4
<1>5. \A i \in 1..n : q[i] # x
  BY <1>1 DEF Range
<1>6. IsInjective(p)
  <2> SUFFICES ASSUME NEW i \in 1..(n + 1), NEW j \in 1..(n + 1), p[i] = p[j]
               PROVE  i = j
    BY <1>1 DEF IsInjective
  <2> QED
    BY <1>1, <1>2, <1>3, <1>5 DEF IsInjective
<1> QED
  BY <1>4, <1>6 DEF p

\* Taking an entry out of a list.
LEMMA WithoutUnique ==
  ASSUME NEW S, NEW q \in Seq(S), IsInjective(q), NEW x
  PROVE  IsInjective(Without(q, x)) /\ Range(Without(q, x)) = Range(q) \ {x}
<1> DEFINE n == Len(q)
<1>0. n \in Nat /\ DOMAIN q = 1..n /\ \A i \in 1..n : q[i] \in S
  OBVIOUS
<1>1. CASE \E i \in DOMAIN q : q[i] = x
  <2>1. PICK k \in 1..n : k = (CHOOSE j \in DOMAIN q : q[j] = x) /\ q[k] = x
    BY <1>0, <1>1
  <2> DEFINE u == SubSeq(q, 1, k - 1)
             m == k + 1
             v == SubSeq(q, m, n)
             p == u \o v
  <2>2. p = Without(q, x)
    BY <1>1, <2>1 DEF Without, RemoveAt
  <2> HIDE DEF n
  <2>3. u \in Seq(S) /\ Len(u) = k - 1 /\ \A i \in 1..(k - 1) : u[i] = q[i]
    <3>1. 1 \in Int /\ k - 1 \in Int /\ \A i \in 1..(k - 1) : q[i] \in S
      BY <1>0
    <3> QED
      BY <3>1, SubSeqProperties
  <2>4. v \in Seq(S) /\ Len(v) = n - k /\ \A i \in 1..(n - k) : v[i] = q[i + k]
    <3>1. k + 1 \in Int /\ n \in Int /\ \A i \in (k + 1)..n : q[i] \in S
      BY <1>0
    <3>0. m \in Int /\ n \in Int /\ \A i \in m..n : q[i] \in S
      BY <3>1
    <3>2. /\ v \in Seq(S)
          /\ Len(v) = IF m <= n THEN n - m + 1 ELSE 0
          /\ \A i \in 1..(n - m + 1) : v[i] = q[m + i - 1]
      <4> HIDE DEF m
      <4> QED
        BY <3>0, SubSeqProperties
    <3> HIDE DEF v
    <3>3. n - m + 1 = n - k /\ (m <= n \/ n - k = 0) /\ \A i \in 1..(n - k) : m + i - 1 = i + k
      BY <1>0
    <3>4. Len(v) = n - k
      BY <1>0, <3>2, <3>3
    <3>5. \A i \in 1..(n - k) : v[i] = q[i + k]
      BY <3>2, <3>3
    <3> QED
      BY <3>2, <3>4, <3>5
  <2> HIDE DEF u, v
  <2>5. Len(p) = n - 1 /\ DOMAIN p = 1..(n - 1)
    <3>1. p \in Seq(S) /\ Len(p) = Len(u) + Len(v)
      BY <2>3, <2>4, ConcatProperties
    <3>2. Len(p) = n - 1
      BY <1>0, <2>3, <2>4, <3>1
    <3> QED
      BY <3>1, <3>2
  <2>6. \A i \in 1..(n - 1) : p[i] = IF i < k THEN q[i] ELSE q[i + 1]
    <3> SUFFICES ASSUME NEW i \in 1..(n - 1)
                 PROVE  p[i] = IF i < k THEN q[i] ELSE q[i + 1]
      OBVIOUS
    <3>1. p[i] = IF i <= Len(u) THEN u[i] ELSE v[i - Len(u)]
      BY <1>0, <2>3, <2>4, ConcatProperties
    <3>2. CASE i < k
      BY <3>1, <3>2, <2>3
    <3>3. CASE ~(i < k)
      <4>1. i - (k - 1) \in 1..(n - k) /\ (i - (k - 1)) + k = i + 1
        BY <1>0, <3>3
      <4> QED
        BY <3>1, <3>3, <2>3, <2>4, <4>1
    <3> QED
      BY <3>2, <3>3
  <2> HIDE DEF p
  <2>7. IsInjective(p)
    <3> SUFFICES ASSUME NEW i \in 1..(n - 1), NEW j \in 1..(n - 1), p[i] = p[j]
                 PROVE  i = j
      BY <2>5 DEF IsInjective
    <3>1. \A a, b \in 1..n : q[a] = q[b] => a = b
      BY <1>0 DEF IsInjective
    <3> QED
      BY <1>0, <2>6, <3>1
  <2>8. ASSUME NEW y \in Range(p)
        PROVE  y \in Range(q) \ {x}
    <3>1. PICK i \in 1..(n - 1) : y = p[i]
      BY <2>5 DEF Range
    <3>2. PICK j \in 1..n : j # k /\ y = q[j]
      BY <1>0, <2>6, <3>1
    <3> QED
      BY <1>0, <2>1, <3>2 DEF Range, IsInjective
  <2>9. ASSUME NEW y \in Range(q) \ {x}
        PROVE  y \in Range(p)
    <3>1. PICK j \in 1..n : j # k /\ y = q[j]
      BY <1>0, <2>1, <2>9 DEF Range
    <3>2. PICK i \in 1..(n - 1) : i = IF j < k THEN j ELSE j - 1
      BY <1>0, <3>1
    <3>3. p[i] = y
      BY <1>0, <2>6, <3>1, <3>2
    <3> QED
      BY <2>5, <3>3 DEF Range
  <2> QED
    BY <2>2, <2>7, <2>8, <2>9
<1>2. CASE ~ \E i \in DOMAIN q : q[i] = x
  BY <1>2 DEF Without, Range
<1> QED
  BY <1>1, <1>2

-----------------------------------------------------------------------------
(* The waiting lists. *)

WaitersOf(s) == {r \in Request : phase[r] = "queued" /\ SessionOf[r] = s}

\* A step that leaves the lists alone and has the same requests waiting.
LEMMA QueuesUndisturbed ==
  ASSUME QueueInv, UNCHANGED queueVars,
         \A r \in Request : phase'[r] = "queued" <=> phase[r] = "queued"
  PROVE  QueueInv'
BY DEF QueueInv, queueVars

\* An accepted request is appended to the list of its session, and a session
\* that had no list to the rotation.
LEMMA EnqueueKeepsQueues ==
  ASSUME TypeOK, QueueInv, NEW r \in Request, NEW g \in Group, Enqueue(r, g)
  PROVE  QueueInv'
<1> DEFINE s == SessionOf[r]
           q == Append(queues[s], r)
<1>1. s \in Session /\ queues[s] \in Seq(Request) /\ order \in Seq(Session)
  BY SchedulerAssumption DEF TypeOK
<1>2. phase' = [phase EXCEPT ![r] = "queued"] /\ phase[r] # "queued"
  BY DEF Enqueue, Arrives
<1>3. r \notin Range(queues[s]) /\ IsInjective(queues[s]) /\ Range(queues[s]) = WaitersOf(s)
  BY <1>1, <1>2 DEF QueueInv, WaitersOf
<1>4. IsInjective(q) /\ Range(q) = WaitersOf(s) \cup {r}
  BY <1>1, <1>3, AppendUnique
<1>5. queues' = [queues EXCEPT ![s] = q]
  BY DEF Enqueue
<1>6. q # <<>>
  BY <1>1
<1>7. \A z \in Session : WaitersOf(z)' = IF z = s THEN WaitersOf(z) \cup {r} ELSE WaitersOf(z)
  BY <1>2 DEF WaitersOf, TypeOK
<1>8. \A z \in Session : IsInjective(queues'[z]) /\ Range(queues'[z]) = WaitersOf(z)'
  BY <1>1, <1>4, <1>5, <1>7 DEF QueueInv, WaitersOf, TypeOK
<1>9. IsInjective(order') /\ Range(order') = {z \in Session : queues'[z] # <<>>}
  <2>1. {z \in Session : queues'[z] # <<>>} = {z \in Session : queues[z] # <<>>} \cup {s}
    BY <1>1, <1>5, <1>6 DEF TypeOK
  <2>2. CASE queues[s] = <<>>
    <3>1. order' = Append(order, s) /\ s \notin Range(order)
      BY <1>1, <2>2 DEF Enqueue, QueueInv
    <3>2. IsInjective(order') /\ Range(order') = Range(order) \cup {s}
      BY <1>1, <3>1, AppendUnique DEF QueueInv
    <3> QED
      BY <2>1, <3>2 DEF QueueInv
  <2>3. CASE queues[s] # <<>>
    BY <1>1, <2>1, <2>3 DEF Enqueue, QueueInv
  <2> QED
    BY <2>2, <2>3
<1> QED
  BY <1>8, <1>9 DEF QueueInv, WaitersOf

\* A waiter that leaves, with a lease or without, is taken out of the list of
\* its session, and a session without a list out of the rotation.
LEMMA DepartureKeepsQueues ==
  ASSUME TypeOK, QueueInv, NEW r \in Request, phase[r] = "queued",
         NEW p \in Phase \ {"queued"}, phase' = [phase EXCEPT ![r] = p],
         queues' = [queues EXCEPT ![SessionOf[r]] = Without(queues[SessionOf[r]], r)],
         \/ order' = OrderAfterLeave(SessionOf[r], Without(queues[SessionOf[r]], r))
         \/ order' = OrderAfterGrant(SessionOf[r], Without(queues[SessionOf[r]], r))
  PROVE  QueueInv'
<1> DEFINE s == SessionOf[r]
           rest == Without(queues[s], r)
<1>1. s \in Session /\ queues[s] \in Seq(Request) /\ order \in Seq(Session)
  BY SchedulerAssumption DEF TypeOK
<1>2. IsInjective(queues[s]) /\ Range(queues[s]) = WaitersOf(s) /\ r \in WaitersOf(s)
  BY <1>1 DEF QueueInv, WaitersOf
<1>3. rest \in Seq(Request) /\ IsInjective(rest) /\ Range(rest) = WaitersOf(s) \ {r}
  BY <1>1, <1>2, WithoutType, WithoutUnique
<1>4. \A z \in Session : WaitersOf(z)' = IF z = s THEN WaitersOf(z) \ {r} ELSE WaitersOf(z)
  BY DEF WaitersOf, TypeOK
<1> HIDE DEF rest
<1>5. queues' = [queues EXCEPT ![s] = rest]
  BY DEF rest
<1>6. \A z \in Session : IsInjective(queues'[z]) /\ Range(queues'[z]) = WaitersOf(z)'
  BY <1>1, <1>3, <1>4, <1>5 DEF QueueInv, WaitersOf, TypeOK
<1>7. queues[s] # <<>>
  BY <1>1, <1>2, EmptyList
<1>8. s \in Range(order) /\ IsInjective(order)
  BY <1>1, <1>7 DEF QueueInv
<1>9. /\ Without(order, s) \in Seq(Session) /\ IsInjective(Without(order, s))
      /\ Range(Without(order, s)) = Range(order) \ {s}
  BY <1>1, <1>8, WithoutType, WithoutUnique
<1>10. IsInjective(order') /\ Range(order') = {z \in Session : queues'[z] # <<>>}
  <2>1. CASE rest = <<>>
    <3>1. order' = Without(order, s)
      BY <2>1 DEF OrderAfterLeave, OrderAfterGrant, rest
    <3>2. {z \in Session : queues'[z] # <<>>} = {z \in Session : queues[z] # <<>>} \ {s}
      BY <1>1, <1>5, <2>1 DEF TypeOK
    <3> QED
      BY <1>9, <3>1, <3>2 DEF QueueInv
  <2>2. CASE rest # <<>>
    <3>1. order' = order \/ order' = Append(Without(order, s), s)
      BY <2>2 DEF OrderAfterLeave, OrderAfterGrant, rest
    <3>2. {z \in Session : queues'[z] # <<>>} = {z \in Session : queues[z] # <<>>}
      BY <1>1, <1>5, <1>7, <2>2 DEF TypeOK
    <3>3. /\ IsInjective(Append(Without(order, s), s))
          /\ Range(Append(Without(order, s), s)) = Range(order)
      <4> DEFINE others == Without(order, s)
      <4>1. others \in Seq(Session) /\ IsInjective(others) /\ s \notin Range(others)
        BY <1>9
      <4> HIDE DEF others
      <4>2. IsInjective(Append(others, s)) /\ Range(Append(others, s)) = Range(others) \cup {s}
        BY <1>1, <4>1, AppendUnique
      <4>3. Range(others) \cup {s} = Range(order)
        BY <1>8, <1>9 DEF others
      <4> QED
        BY <4>2, <4>3 DEF others
    <3> QED
      BY <1>8, <3>1, <3>2, <3>3 DEF QueueInv
  <2> QED
    BY <2>1, <2>2
<1> QED
  BY <1>6, <1>10 DEF QueueInv, WaitersOf

\* Every step keeps the lists in order.
LEMMA StepKeepsQueues ==
  ASSUME TypeOK, LeaseInv, QueueInv, [Next]_vars
  PROVE  QueueInv'
<1>1. ASSUME NEW r \in Request, RequestStep(r)
      PROVE  QueueInv'
  <2>1. ASSUME NEW g \in Group, Enqueue(r, g)
        PROVE  QueueInv'
    BY <2>1, EnqueueKeepsQueues
  <2>2. ASSUME NEW g \in Group, Refuse(r, g)
        PROVE  QueueInv'
    <3>1. UNCHANGED queueVars /\ phase' = [phase EXCEPT ![r] = "done"] /\ phase[r] = "idle"
      BY <2>2 DEF Refuse, Arrives
    <3> QED
      BY <3>1, QueuesUndisturbed DEF TypeOK
  <2>3. CASE Resume(r) \/ Stall(r) \/ Elapse(r) \/ Park(r)
    <3>1. UNCHANGED queueVars /\ phase' = phase
      BY <2>3 DEF Resume, Stall, Elapse, Park, taskVars
    <3> QED
      BY <3>1, QueuesUndisturbed
  <2>4. CASE TimeOut(r) \/ Cancel(r) \/ Reject(r)
    <3>1. phase[r] = "queued" /\ LeaveQueue(r)
      BY <2>4 DEF TimeOut, Cancel, Reject, Polled
    <3>2. phase' = [phase EXCEPT ![r] = "done"] /\ "done" \in Phase \ {"queued"}
      BY <3>1 DEF LeaveQueue, Finish, Phase
    <3>3. /\ queues' = [queues EXCEPT ![SessionOf[r]] = Without(queues[SessionOf[r]], r)]
          /\ order' = OrderAfterLeave(SessionOf[r], Without(queues[SessionOf[r]], r))
      BY <3>1 DEF LeaveQueue
    <3> QED
      BY <3>1, <3>2, <3>3, DepartureKeepsQueues
  <2>5. CASE Reserve(r)
    <3>1. PICK a \in Account : phase[r] = "queued" /\ Grant(r, a)
      BY <2>5 DEF Reserve, Polled
    <3>2. phase' = [phase EXCEPT ![r] = "leased"] /\ "leased" \in Phase \ {"queued"}
      BY <3>1 DEF Grant, Finish, Phase
    <3>3. /\ queues' = [queues EXCEPT ![SessionOf[r]] = Without(queues[SessionOf[r]], r)]
          /\ order' = OrderAfterGrant(SessionOf[r], Without(queues[SessionOf[r]], r))
      BY <3>1 DEF Grant
    <3> QED
      BY <3>1, <3>2, <3>3, DepartureKeepsQueues
  <2>6. CASE ConfirmBinding(r) \/ ConfirmStateless(r) \/ BeginSend(r) \/ BeginRecovery(r)
    <3>1. UNCHANGED queueVars /\ phase' = phase
      BY <2>6 DEF ConfirmBinding, ConfirmStateless, BeginSend, BeginRecovery, BeginAttempt, taskVars
    <3> QED
      BY <3>1, QueuesUndisturbed
  <2>7. CASE DropLease(r)
    <3>1. phase[r] = "leased"
      BY <2>7 DEF DropLease, LeaseInv
    <3>2. PICK p \in {"idle", "done"} : phase' = [phase EXCEPT ![r] = p]
      BY <2>7 DEF DropLease, Finish
    <3>3. UNCHANGED queueVars
      BY <2>7 DEF DropLease
    <3> QED
      BY <3>1, <3>2, <3>3, QueuesUndisturbed DEF TypeOK
  <2> QED
    BY <1>1, <2>1, <2>2, <2>3, <2>4, <2>5, <2>6, <2>7 DEF RequestStep
<1>2. CASE AdminStep
  <2>1. UNCHANGED queueVars /\ phase' = phase
    BY <1>2 DEF AdminStep, UpdateAccount, BlockAccount, RemoveAccount, UpdateKey, BlockKey,
         RemoveKey, Pause, ApplySettings, WakeOnly, taskVars
  <2> QED
    BY <2>1, QueuesUndisturbed
<1>3. CASE UNCHANGED vars
  BY <1>3, QueuesUndisturbed DEF vars, taskVars
<1> QED
  BY <1>1, <1>2, <1>3 DEF Next

\* Nobody waits at first.
LEMMA InitQueues == Init => QueueInv
<1> SUFFICES ASSUME Init
             PROVE  QueueInv
  OBVIOUS
<1>1. IsInjective(<<>>) /\ Range(<<>>) = {}
  BY DEF IsInjective, Range
<1> QED
  BY <1>1 DEF Init, QueueInv

\* How often an entry occurs in a list without repetition.
LEMMA CountInList ==
  ASSUME NEW S, NEW q \in Seq(S), IsInjective(q), NEW x
  PROVE  Cardinality({i \in DOMAIN q : q[i] = x}) = IF x \in Range(q) THEN 1 ELSE 0
<1>1. CASE x \in Range(q)
  <2>1. PICK i \in DOMAIN q : q[i] = x
    BY <1>1 DEF Range
  <2>2. {j \in DOMAIN q : q[j] = x} = {i}
    BY <2>1 DEF IsInjective
  <2> QED
    BY <1>1, <2>2, FS_Singleton
<1>2. CASE x \notin Range(q)
  <2>1. {j \in DOMAIN q : q[j] = x} = {}
    BY <1>2 DEF Range
  <2> QED
    BY <1>2, <2>1, FS_EmptySet
<1> QED
  BY <1>1, <1>2

\* The lists say what QueueCoherence counts.
LEMMA CoherenceOfQueues ==
  ASSUME TypeOK, QueueInv
  PROVE  QueueCoherence
<1>1. ASSUME NEW r \in Request, NEW s \in Session
      PROVE  Cardinality({i \in DOMAIN queues[s] : queues[s][i] = r})
               = IF phase[r] = "queued" /\ s = SessionOf[r] THEN 1 ELSE 0
  <2>1. queues[s] \in Seq(Request) /\ IsInjective(queues[s])
    BY DEF TypeOK, QueueInv
  <2>2. r \in Range(queues[s]) <=> phase[r] = "queued" /\ s = SessionOf[r]
    BY DEF QueueInv
  <2> QED
    BY <2>1, <2>2, CountInList
<1>2. ASSUME NEW s \in Session
      PROVE  Cardinality({n \in DOMAIN order : order[n] = s})
               = IF queues[s] # <<>> THEN 1 ELSE 0
  <2>1. order \in Seq(Session) /\ IsInjective(order)
    BY DEF TypeOK, QueueInv
  <2>2. s \in Range(order) <=> queues[s] # <<>>
    BY DEF QueueInv
  <2> QED
    BY <2>1, <2>2, CountInList
<1> QED
  BY <1>1, <1>2 DEF QueueCoherence

\* The lists and the rotation hold exactly the waiters and their sessions,
\* through every order of arriving, leaving and being served.
THEOREM QueuesInOrder == Spec => []QueueInv
<1>1. TypeOK /\ LeaseInv /\ QueueInv /\ [Next]_vars => QueueInv'
  BY StepKeepsQueues
<1> QED
  BY <1>1, InitQueues, TypeCorrect, LeasesConsistent, PTL DEF Spec

\* A request that waits is in the list of its session once, nobody else is in
\* a list, and the rotation has each session with a list once.
THEOREM QueuesCoherent == Spec => []QueueCoherence
<1>1. TypeOK /\ QueueInv => QueueCoherence
  BY CoherenceOfQueues
<1> QED
  BY <1>1, TypeCorrect, QueuesInOrder, PTL

-----------------------------------------------------------------------------
(* The wake-ups. *)

\* Some account carries the least load, whatever the load and the use of the
\* accounts (min_by_key of a list that is not empty).
LEMMA LeastLoaded ==
  \A open, load, use :
    open # {} /\ (\A a \in open : load[a] \in Nat /\ use[a] \in Nat) =>
      \E a \in open : \A b \in open : load[a] < load[b] \/ (load[a] = load[b] /\ use[a] <= use[b])
<1> SUFFICES ASSUME NEW open, NEW load, NEW use, open # {},
                    \A a \in open : load[a] \in Nat /\ use[a] \in Nat
             PROVE  \E a \in open : \A b \in open :
                      load[a] < load[b] \/ (load[a] = load[b] /\ use[a] <= use[b])
  OBVIOUS
<1> DEFINE loads == {load[a] : a \in open}
<1>1. PICK m \in loads : \A n \in loads : m <= n
  <2>1. loads \in SUBSET Nat /\ loads # {}
    OBVIOUS
  <2> HIDE DEF loads
  <2> QED
    BY <2>1, LeastNatural
<1> DEFINE uses == {use[a] : a \in {b \in open : load[b] = m}}
<1>2. PICK k \in uses : \A n \in uses : k <= n
  <2>1. uses \in SUBSET Nat /\ uses # {}
    BY <1>1
  <2> HIDE DEF uses
  <2> QED
    BY <2>1, LeastNatural
<1>3. PICK a \in open : load[a] = m /\ use[a] = k
  BY <1>2
<1>4. ASSUME NEW b \in open
      PROVE  load[a] < load[b] \/ (load[a] = load[b] /\ use[a] <= use[b])
  <2>1. load[a] <= load[b]
    BY <1>1, <1>3
  <2>2. load[b] = m => use[a] <= use[b]
    BY <1>2, <1>3
  <2> QED
    BY <1>3, <2>1, <2>2
<1> QED
  BY <1>4

\* Everything the choice of the next waiter depends on.
SelectionInputs == <<adminVars, cfg, queueVars, bindings, inflight, threads, pending>>

\* The waiters in the lists are the requests that wait.
LEMMA WaiterInList ==
  ASSUME TypeOK, QueueInv, NEW s \in Session, NEW i \in DOMAIN queues[s]
  PROVE  queues[s][i] \in Request /\ phase[queues[s][i]] = "queued" /\ SessionOf[queues[s][i]] = s
<1>1. queues[s][i] \in Range(queues[s])
  BY DEF Range
<1> QED
  BY <1>1 DEF QueueInv

\* The choice stays the same in a step that changes none of its inputs, nor
\* the group or the deadline of a waiter.
LEMMA ReadyStays ==
  ASSUME TypeOK, QueueInv, UNCHANGED <<SelectionInputs, served>>,
         \A q \in Request : phase[q] = "queued" =>
           group'[q] = group[q] /\ (q \in late' <=> q \in late),
         NEW s \in Session
  PROVE  Ready(s)' = Ready(s)
<1>1. SessionOpen(s)' = SessionOpen(s) /\ queues' = queues
  BY DEF SelectionInputs, queueVars, SessionOpen, ActiveThreads
<1>2. ASSUME NEW i \in DOMAIN queues[s], NEW a \in Account
      PROVE  Dispatchable(s, i, a)' = Dispatchable(s, i, a)
  <2> DEFINE r == queues[s][i]
  <2>1. r \in Request /\ r' = r /\ group'[r] = group[r] /\ (r \in late' <=> r \in late)
    BY <1>1, <1>2, WaiterInList
  <2>2. ThreadFree(s, i)' = ThreadFree(s, i)
    BY DEF SelectionInputs, queueVars, ThreadFree
  <2> HIDE DEF r
  <2>3. Eligible(r, group[r])' = Eligible(r, group[r])
    BY <2>1 DEF SelectionInputs, adminVars, Eligible, KeyAccepts, Serves
  <2>4. Candidates(r)' = Candidates(r) /\ Drained(s, r, a)' = Drained(s, r, a)
    BY <2>1 DEF SelectionInputs, adminVars, Candidates, Serves, Drained, ActiveThreads, SameBinding
  <2>5. (a \in Preferred(r))' = (a \in Preferred(r))
    BY <2>4 DEF SelectionInputs, adminVars, Preferred, HasRoom, LessLoaded
  <2>6. blocked' = blocked /\ bindings' = bindings
    BY DEF SelectionInputs, adminVars
  <2> QED
    BY <2>1, <2>2, <2>3, <2>4, <2>5, <2>6 DEF Dispatchable, r
<1> QED
  BY <1>1, <1>2 DEF Ready

\* Who is next does not depend on how often the accounts were used, only on
\* which of the free ones it goes to.
LEMMA ReadyIgnoresUse ==
  ASSUME TypeOK, QueueInv, served' \in [Account -> Nat], UNCHANGED <<SelectionInputs, group, late>>,
         NEW s \in Session
  PROVE  Ready(s)' = Ready(s)
<1>1. SessionOpen(s)' = SessionOpen(s) /\ queues' = queues
  BY DEF SelectionInputs, queueVars, SessionOpen, ActiveThreads
<1>2. ASSUME NEW i \in DOMAIN queues[s]
      PROVE  (\E a \in Account : Dispatchable(s, i, a))' <=> \E a \in Account : Dispatchable(s, i, a)
  <2> DEFINE r == queues[s][i]
             open == {a \in Candidates(r) : HasRoom(a)}
             Best(use) == {a \in open : \A b \in open :
               inflight[a] < inflight[b] \/ (inflight[a] = inflight[b] /\ use[a] <= use[b])}
             CanGo == /\ ThreadFree(s, i)
                      /\ Eligible(r, group[r])
                      /\ r \notin late
                      /\ bindings[s] # None => bindings[s].account \notin blocked
  <2>1. r \in Request /\ r' = r /\ SessionOf[r] = s
    BY <1>1, <1>2, WaiterInList
  <2>2. inflight \in [Account -> Nat] /\ served \in [Account -> Nat]
    BY DEF TypeOK
  <2>3. bindings[s] \in Binding \cup {None}
    BY DEF TypeOK
  <2>4. ThreadFree(s, i)' = ThreadFree(s, i)
    BY DEF SelectionInputs, queueVars, ThreadFree
  <2>5. (\E a \in Account : Dispatchable(s, i, a)) <=> (CanGo /\ \E a \in Account : a \in Preferred(r) /\ Drained(s, r, a))
    BY DEF Dispatchable
  <2>6. (\E a \in Account : Dispatchable(s, i, a))' <=> (CanGo' /\ \E a \in Account : (a \in Preferred(r) /\ Drained(s, r, a))')
    BY DEF Dispatchable
  <2> HIDE DEF r
  <2>7. Eligible(r, group[r])' = Eligible(r, group[r])
    BY <2>1 DEF SelectionInputs, adminVars, Eligible, KeyAccepts, Serves
  <2>8. CanGo' = CanGo
    BY <2>1, <2>4, <2>7 DEF SelectionInputs, adminVars
  <2>9. /\ Candidates(r)' = Candidates(r)
        /\ \A a \in Account : Drained(s, r, a)' = Drained(s, r, a) /\ HasRoom(a)' = HasRoom(a)
    BY <2>1 DEF SelectionInputs, adminVars, Candidates, Serves, Drained, ActiveThreads, SameBinding, HasRoom
  <2>10. open \in SUBSET Account /\ open' = open
    <3>1. Candidates(r) \in SUBSET Account
      BY <2>1, <2>3 DEF Candidates, Binding
    <3> QED
      BY <2>9, <3>1
  <2>11. Preferred(r) = Best(served)
    BY DEF Preferred, LessLoaded
  <2>12. Preferred(r)' = Best(served')
    <3>1. Preferred(r)' = {a \in open' : \A b \in open' :
            inflight'[a] < inflight'[b] \/ (inflight'[a] = inflight'[b] /\ served'[a] <= served'[b])}
      BY <2>1 DEF Preferred, LessLoaded
    <3>2. inflight' = inflight
      BY DEF SelectionInputs
    <3> HIDE DEF open
    <3> QED
      BY <2>10, <3>1, <3>2
  <2>13. ASSUME NEW use \in [Account -> Nat]
         PROVE  (\E a \in Account : a \in Best(use) /\ Drained(s, r, a)) <=> \E a \in open : Drained(s, r, a)
    <3>1. ASSUME NEW a \in open, Drained(s, r, a)
          PROVE  \E b \in Account : b \in Best(use) /\ Drained(s, r, b)
      <4>1. CASE ActiveThreads(s) = {}
        <5>1. PICK b \in open : \A c \in open :
                inflight[b] < inflight[c] \/ (inflight[b] = inflight[c] /\ use[b] <= use[c])
          <6>1. open # {}
            BY <3>1
          <6>2. \A b \in open : inflight[b] \in Nat /\ use[b] \in Nat
            <7>1. \A b \in open : b \in Account
              BY <2>10
            <7> HIDE DEF open
            <7> QED
              BY <2>2, <2>13, <7>1
          <6> HIDE DEF open
          <6> QED
            BY <6>1, <6>2, LeastLoaded, Zenon
        <5> QED
          BY <2>10, <4>1, <5>1 DEF Drained
      <4>2. CASE ActiveThreads(s) # {}
        <5>1. SameBinding(r, a)
          BY <3>1, <4>2 DEF Drained
        <5>2. Candidates(r) = {a}
          <6>1. bindings[s] # None /\ bindings[s].account = a
            BY <2>1, <5>1 DEF SameBinding
          <6>2. Serves(a, r, group[r])
            BY <2>1, <6>1 DEF Candidates
          <6> QED
            BY <2>1, <6>1, <6>2 DEF Candidates
        <5>3. open = {a} /\ a \in Account
          BY <5>2, <2>10
        <5>4. a \in Best(use)
          BY <2>2, <5>3
        <5> QED
          BY <3>1, <5>3, <5>4
      <4> QED
        BY <4>1, <4>2
    <3>2. Best(use) \subseteq open
      OBVIOUS
    <3> HIDE DEF open, Best
    <3> QED
      BY <3>1, <3>2
  <2>14. (\E a \in Account : (a \in Preferred(r) /\ Drained(s, r, a))')
           <=> \E a \in Account : a \in Best(served') /\ Drained(s, r, a)
    <3>1. ASSUME NEW a \in Account
          PROVE  (a \in Preferred(r))' <=> a \in Best(served')
      BY <2>1, <2>12
    <3>2. \A a \in Account : Drained(s, r, a)' <=> Drained(s, r, a)
      BY <2>9
    <3> HIDE DEF Best
    <3> QED
      BY <3>1, <3>2
  <2> HIDE DEF CanGo, Best, open
  <2> QED
    BY <2>2, <2>5, <2>6, <2>8, <2>11, <2>13, <2>14
<1> QED
  BY <1>1, <1>2 DEF Ready

\* The entry of the rotation and the session it names are the same thing.
EntryNamesSession ==
  \A n \in DOMAIN order : \A s \in Session : order[n] = s => Ready(order[n]) = Ready(s)

LEMMA EntryIsSession == EntryNamesSession
BY DEF EntryNamesSession

\* With the same inputs, the same waiter is next or refused.
LEMMA ChoiceStays ==
  ASSUME TypeOK, UNCHANGED SelectionInputs,
         \A s \in Session : Ready(s)' = Ready(s),
         NEW r \in Request, group'[r] = group[r],
         (paused \/ ~Eligible(r, group[r]) \/ Selected(r))'
  PROVE  paused \/ ~Eligible(r, group[r]) \/ Selected(r)
<1>0. EntryNamesSession'
  BY EntryIsSession, PTL
<1>1. UNCHANGED <<queues, order, inflight, cfg>>
  BY DEF SelectionInputs, queueVars
<1>2. Eligible(r, group[r])' <=> Eligible(r, group[r])
  BY DEF SelectionInputs, adminVars, Eligible, KeyAccepts, Serves
<1>3. paused' = paused
  BY DEF SelectionInputs, adminVars
<1>4. \A n \in DOMAIN order : order[n] \in Session
  BY DEF TypeOK
<1>5. order \in Seq(Session)
  BY DEF TypeOK
<1>6. ASSUME Selected(r)'
      PROVE  Selected(r)
  <2>1. PICK n \in DOMAIN order :
          /\ order[n] = SessionOf[r]
          /\ \A m \in 1..(n - 1) : Ready(order[m])' = {}
          /\ \E i \in Ready(order[n])' :
               /\ queues[order[n]][i] = r
               /\ \A j \in Ready(order[n])' : i <= j
    BY <1>1, <1>6 DEF Selected
  <2>2. \A m \in 1..(n - 1) : m \in DOMAIN order
    BY <1>5
  <2>3. Ready(order[n])' = Ready(order[n]) /\ \A m \in 1..(n - 1) : Ready(order[m])' = Ready(order[m])
    BY <1>1, <1>4, <1>0, <2>2 DEF EntryNamesSession
  <2> QED
    BY <1>1, <1>6, <2>1, <2>3 DEF Selected
<1> QED
  BY <1>2, <1>3, <1>6

\* A step that wakes the waiters loses nothing.
LEMMA WakeKeepsWakeups ==
  ASSUME Wake
  PROVE  NoLostWakeup'
BY DEF Wake, NoLostWakeup

\* A step that changes neither the choice nor a waiter, and clears no wake-up.
LEMMA WakeupsUndisturbed ==
  ASSUME TypeOK, NoLostWakeup, UNCHANGED SelectionInputs,
         \A s \in Session : Ready(s)' = Ready(s),
         \A q \in Request : phase'[q] = "queued" <=> phase[q] = "queued",
         \A q \in Request : phase[q] = "queued" => group'[q] = group[q],
         late \subseteq late', woken \subseteq woken'
  PROVE  NoLostWakeup'
<1> SUFFICES ASSUME NEW r \in Request, phase'[r] = "queued",
                    (paused \/ ~Eligible(r, group[r]) \/ Selected(r))'
             PROVE  r \in woken' \/ \E q \in late' : phase'[q] = "queued"
  BY DEF NoLostWakeup
<1>1. phase[r] = "queued" /\ (paused \/ ~Eligible(r, group[r]) \/ Selected(r))
  BY ChoiceStays
<1>2. r \in woken \/ \E q \in late : phase[q] = "queued"
  BY <1>1 DEF NoLostWakeup
<1> QED
  BY <1>2 DEF TypeOK

\* The steps of a request that do not wake the others.
LEMMA QuietStepKeepsWakeups ==
  ASSUME TypeOK, TypeOK', LeaseInv, QueueInv, NoLostWakeup, NEW r \in Request,
         \/ \E g \in Group : Refuse(r, g)
         \/ Resume(r) \/ Stall(r) \/ Elapse(r) \/ Park(r)
         \/ BeginSend(r) \/ BeginRecovery(r)
  PROVE  NoLostWakeup'
<1>1. UNCHANGED SelectionInputs
  BY DEF Refuse, Resume, Stall, Elapse, Park, BeginSend, BeginRecovery, BeginAttempt,
         SelectionInputs, queueVars, leaseVars
<1>2. ASSUME NEW g \in Group, Refuse(r, g)
      PROVE  NoLostWakeup'
  <2>1. phase[r] = "idle" /\ phase' = [phase EXCEPT ![r] = "done"] /\ group' = [group EXCEPT ![r] = g]
    BY <1>2 DEF Refuse, Arrives
  <2>2. UNCHANGED <<SelectionInputs, served, late, woken>>
    BY <1>1, <1>2 DEF Refuse, leaseVars
  <2>3. \A q \in Request : phase[q] = "queued" => group'[q] = group[q]
    BY <2>1 DEF TypeOK
  <2>4. \A s \in Session : Ready(s)' = Ready(s)
    BY <2>2, <2>3, ReadyStays
  <2> QED
    BY <2>1, <2>2, <2>3, <2>4, WakeupsUndisturbed DEF TypeOK
<1>3. CASE Resume(r) \/ Stall(r)
  <2>1. UNCHANGED <<SelectionInputs, served, phase, group, late, woken>>
    BY <1>1, <1>3 DEF Resume, Stall, leaseVars
  <2>2. \A s \in Session : Ready(s)' = Ready(s)
    BY <2>1, ReadyStays
  <2> QED
    BY <2>1, <2>2, WakeupsUndisturbed
<1>4. CASE Elapse(r)
  <2>1. UNCHANGED <<SelectionInputs, served, phase, group, woken>> /\ late' = late \cup {r}
    BY <1>1, <1>4 DEF Elapse, leaseVars
  <2>2. CASE phase[r] = "queued"
    BY <2>1, <2>2 DEF NoLostWakeup
  <2>3. CASE phase[r] # "queued"
    <3>1. \A s \in Session : Ready(s)' = Ready(s)
      BY <2>1, <2>3, ReadyStays
    <3> QED
      BY <2>1, <3>1, WakeupsUndisturbed
  <2> QED
    BY <2>2, <2>3
<1>5. CASE Park(r)
  <2>1. UNCHANGED <<SelectionInputs, served, phase, group, late>> /\ woken' = woken \ {r}
    BY <1>1, <1>5 DEF Park, leaseVars, taskVars
  <2>2. \A s \in Session : Ready(s)' = Ready(s)
    BY <2>1, ReadyStays
  <2> SUFFICES ASSUME NEW q \in Request, phase'[q] = "queued",
                      (paused \/ ~Eligible(q, group[q]) \/ Selected(q))'
               PROVE  q \in woken' \/ \E z \in late' : phase'[z] = "queued"
    BY DEF NoLostWakeup
  <2>3. paused \/ ~Eligible(q, group[q]) \/ Selected(q)
    BY <2>1, <2>2, ChoiceStays
  <2>4. q # r
    BY <1>5, <2>3 DEF Park
  <2> QED
    BY <2>1, <2>3, <2>4 DEF NoLostWakeup
<1>6. CASE BeginSend(r) \/ BeginRecovery(r)
  <2>1. UNCHANGED <<SelectionInputs, group, late, phase, woken>>
    BY <1>1, <1>6 DEF BeginSend, BeginRecovery, BeginAttempt, taskVars
  <2>2. served' \in [Account -> Nat]
    BY DEF TypeOK
  <2>3. \A s \in Session : Ready(s)' = Ready(s)
    BY <2>1, <2>2, ReadyIgnoresUse
  <2> QED
    BY <2>1, <2>3, WakeupsUndisturbed
<1> QED
  BY <1>2, <1>3, <1>4, <1>5, <1>6

\* Every step keeps every waiter that could go, or must go, awake.
LEMMA StepKeepsWakeups ==
  ASSUME TypeOK, LeaseInv, QueueInv, NoLostWakeup, [Next]_vars
  PROVE  NoLostWakeup'
<1>1. ASSUME NEW r \in Request, RequestStep(r)
      PROVE  NoLostWakeup'
  <2>1. CASE \/ \E g \in Group : Refuse(r, g)
             \/ Resume(r) \/ Stall(r) \/ Elapse(r) \/ Park(r)
             \/ BeginSend(r) \/ BeginRecovery(r)
    <3>1. TypeOK'
      BY StepKeepsTypes
    <3> QED
      BY <2>1, <3>1, QuietStepKeepsWakeups
  <2>2. CASE \/ \E g \in Group : Enqueue(r, g)
             \/ TimeOut(r) \/ Cancel(r) \/ Reject(r) \/ Reserve(r)
             \/ ConfirmBinding(r) \/ ConfirmStateless(r) \/ DropLease(r)
    <3>1. Wake
      BY <2>2 DEF Enqueue, TimeOut, Cancel, Reject, LeaveQueue, Finish, Reserve, Grant,
           ConfirmBinding, ConfirmStateless, DropLease
    <3> QED
      BY <3>1, WakeKeepsWakeups
  <2> QED
    BY <1>1, <2>1, <2>2 DEF RequestStep
<1>2. CASE AdminStep
  <2>1. Wake
    BY <1>2 DEF AdminStep, UpdateAccount, BlockAccount, RemoveAccount, UpdateKey, BlockKey,
         RemoveKey, Pause, ApplySettings, WakeOnly
  <2> QED
    BY <2>1, WakeKeepsWakeups
<1>3. CASE UNCHANGED vars
  <2>1. UNCHANGED <<SelectionInputs, served, phase, group, late, woken>>
    BY <1>3 DEF vars, SelectionInputs, leaseVars, taskVars, queueVars
  <2>2. \A s \in Session : Ready(s)' = Ready(s)
    BY <2>1, ReadyStays
  <2> QED
    BY <2>1, <2>2, WakeupsUndisturbed
<1> QED
  BY <1>1, <1>2, <1>3 DEF Next

\* No wake-up is lost: a waiter that is next, or must be refused, will look
\* again, or a waiter whose deadline passed is about to leave and wake all.
THEOREM NoWakeupLost == Spec => []NoLostWakeup
<1>1. Init => NoLostWakeup
  BY DEF Init, NoLostWakeup
<1>2. TypeOK /\ LeaseInv /\ QueueInv /\ NoLostWakeup /\ [Next]_vars => NoLostWakeup'
  BY StepKeepsWakeups
<1> QED
  BY <1>1, <1>2, TypeCorrect, LeasesConsistent, QueuesInOrder, PTL DEF Spec

-----------------------------------------------------------------------------
(* The limits. *)

InSession(s) == {r \in Leased : SessionOf[r] = s}

\* The counters of all accounts together count all leases.
LEMMA SumIsLeased ==
  ASSUME TypeOK, LeaseAccounting
  PROVE  SumFunction(inflight) = Cardinality(Leased)
<1> DEFINE On(T) == {r \in Leased : leases[r].account \in T}
           g == [T \in SUBSET Account |-> Cardinality(On(T))]
<1>1. IsFiniteSet(Leased)
  BY SchedulerAssumption, FS_Subset DEF Leased
<1>2. \A T \in SUBSET Account : IsFiniteSet(On(T)) /\ Cardinality(On(T)) \in Nat
  BY <1>1, FS_Subset, FS_CardinalityType
<1>3. g \in [SUBSET Account -> Nat]
  BY <1>2
<1>4. g[{}] = 0
  <2>1. On({}) = {}
    OBVIOUS
  <2> QED
    BY <2>1, FS_EmptySet
<1>5. ASSUME NEW T \in SUBSET Account, NEW a \in T
      PROVE  g[T] = inflight[a] + g[T \ {a}]
  <2>1. /\ On(T) = OnAccount(a) \cup On(T \ {a})
        /\ OnAccount(a) \cap On(T \ {a}) = {}
    BY <1>5 DEF OnAccount
  <2>2. IsFiniteSet(OnAccount(a)) /\ IsFiniteSet(On(T \ {a}))
    BY <1>1, <1>2, FS_Subset DEF OnAccount
  <2>3. inflight[a] = Cardinality(OnAccount(a))
    BY DEF LeaseAccounting, OnAccount
  <2> HIDE DEF On
  <2>4. Cardinality(On(T)) = Cardinality(OnAccount(a)) + Cardinality(On(T \ {a})) - Cardinality({})
    BY <2>1, <2>2, FS_Union
  <2>5. T \ {a} \in SUBSET Account /\ Cardinality(OnAccount(a)) \in Nat /\ Cardinality(On(T \ {a})) \in Nat
    BY <2>2, FS_CardinalityType
  <2> QED
    BY <2>3, <2>4, <2>5, FS_EmptySet
<1>6. g[Account] = Cardinality(Leased)
  <2>1. On(Account) = Leased
    BY DEF TypeOK, Leased, Lease
  <2> QED
    BY <2>1
<1>7. inflight \in [Account -> Nat] /\ IsFiniteSet(Account)
  BY SchedulerAssumption DEF TypeOK
<1> HIDE DEF g
<1>8. SumFunction(inflight) = g[Account]
  BY <1>3, <1>4, <1>5, <1>7, SumByWitness
<1> QED
  BY <1>6, <1>8

\* A session has as many busy threads as leases.
LEMMA ThreadsAreLeases ==
  ASSUME TypeOK, ThreadOwnership, NEW s \in Session
  PROVE  Cardinality(ActiveThreads(s)) = Cardinality(InSession(s))
<1> DEFINE f == [t \in ActiveThreads(s) |-> threads[s][t]]
<1>1. IsFiniteSet(InSession(s))
  BY SchedulerAssumption, FS_Subset DEF InSession, Leased
<1>2. f \in [ActiveThreads(s) -> InSession(s)]
  BY DEF ThreadOwnership, ActiveThreads, InSession
<1>3. \A t, u \in ActiveThreads(s) : f[t] = f[u] => t = u
  BY DEF ThreadOwnership, ActiveThreads
<1>4. \A r \in InSession(s) : \E t \in ActiveThreads(s) : f[t] = r
  <2> SUFFICES ASSUME NEW r \in InSession(s)
               PROVE  \E t \in ActiveThreads(s) : f[t] = r
    OBVIOUS
  <2>1. r \in Request /\ ThreadOf[r] \in Thread /\ threads[s][ThreadOf[r]] = r /\ r # None
    BY SchedulerAssumption DEF InSession, Leased, ThreadOwnership
  <2> QED
    BY <2>1 DEF ActiveThreads
<1> HIDE DEF f
<1>5. f \in Injection(ActiveThreads(s), InSession(s)) /\ f \in Surjection(ActiveThreads(s), InSession(s))
  BY <1>2, <1>3, <1>4 DEF Injection, IsInjective, Surjection
<1> QED
  BY <1>1, <1>5, FS_Injection

\* A lease that is granted finds room on its account, in its session and in
\* the gateway.
LEMMA GrantWithinLimits ==
  ASSUME TypeOK, LeaseInv, LeaseAccounting, NEW r \in Request, Reserve(r)
  PROVE  /\ \A a \in Account : inflight'[a] > inflight[a] =>
              inflight'[a] <= accounts[a].max /\ a \notin blocked
         /\ Cardinality(Leased') <= cfg.global
         /\ \A s \in Session : InSession(s)' # InSession(s) => Cardinality(InSession(s)') <= cfg.session
<1> DEFINE s == SessionOf[r]
<1>1. PICK i \in DOMAIN queues[s], a \in Account :
        queues[s][i] = r /\ SessionOpen(s) /\ Dispatchable(s, i, a) /\ Grant(r, a)
  BY DEF Reserve
<1>2. s \in Session /\ r \notin Leased
  BY SchedulerAssumption DEF Reserve, Polled, LeaseInv, Leased
<1>3. Leased' = Leased \cup {r}
  <2>1. LeaseInv'
    BY GrantKeepsLeases
  <2>2. phase' = [phase EXCEPT ![r] = "leased"]
    BY <1>1 DEF Grant, Finish
  <2> QED
    BY <2>1, <2>2 DEF LeaseInv, Leased, TypeOK
<1>4. IsFiniteSet(Leased) /\ Cardinality(Leased) \in Nat
  BY SchedulerAssumption, FS_Subset, FS_CardinalityType DEF Leased
<1>5. cfg.global \in Nat /\ cfg.session \in Nat
  BY SchedulerAssumption DEF TypeOK
<1>6. Cardinality(Leased') <= cfg.global
  <2>1. Cardinality(Leased') = Cardinality(Leased) + 1
    BY <1>2, <1>3, <1>4, FS_AddElement
  <2>2. Cardinality(Leased) < cfg.global
    BY SumIsLeased DEF Reserve, Selected
  <2> QED
    BY <1>4, <1>5, <2>1, <2>2
<1>7. a \in Candidates(r) /\ HasRoom(a)
  BY <1>1 DEF Dispatchable, Preferred
<1>8. accounts[a].max \in Nat /\ accounts[a] # None
  <2>1. accounts[a] # None
    BY <1>7 DEF Candidates, Serves
  <2> QED
    BY <2>1, SchedulerAssumption DEF TypeOK
<1>9. a \notin blocked
  BY <1>1, <1>7 DEF Dispatchable, Candidates
<1>10. \A b \in Account : inflight'[b] > inflight[b] =>
         inflight'[b] <= accounts[b].max /\ b \notin blocked
  <2>1. inflight' = [inflight EXCEPT ![a] = @ + 1] /\ inflight \in [Account -> Nat]
    BY <1>1 DEF Grant, TypeOK
  <2> SUFFICES ASSUME NEW b \in Account, inflight'[b] > inflight[b]
               PROVE  inflight'[b] <= accounts[b].max /\ b \notin blocked
    OBVIOUS
  <2>2. b = a
    BY <2>1
  <2> QED
    BY <1>7, <1>8, <1>9, <2>1, <2>2 DEF HasRoom
<1>11. ASSUME NEW z \in Session, InSession(z)' # InSession(z)
       PROVE  Cardinality(InSession(z)') <= cfg.session
  <2>1. z = s /\ InSession(s)' = InSession(s) \cup {r} /\ r \notin InSession(s)
    BY <1>2, <1>3, <1>11 DEF InSession
  <2>2. IsFiniteSet(InSession(s)) /\ Cardinality(InSession(s)) \in Nat
    BY <1>4, FS_Subset, FS_CardinalityType DEF InSession
  <2>3. Cardinality(InSession(s)') = Cardinality(InSession(s)) + 1
    BY <2>1, <2>2, FS_AddElement
  <2>4. Cardinality(InSession(s)) < cfg.session
    BY <1>1, <1>2, ThreadsAreLeases DEF SessionOpen, LeaseInv
  <2> QED
    BY <1>5, <2>1, <2>2, <2>3, <2>4
<1> QED
  BY <1>6, <1>10, <1>11

\* Only a grant takes a slot.
LEMMA OnlyGrantsTake ==
  ASSUME TypeOK, LeaseInv, [Next]_vars, ~ \E r \in Request : Reserve(r)
  PROVE  Leased' \subseteq Leased /\ \A a \in Account : inflight'[a] <= inflight[a]
<1>1. TypeOK' /\ LeaseInv'
  BY StepKeepsTypes, StepKeepsLeases
<1>2. \A r \in Request : phase'[r] = "leased" => phase[r] = "leased"
  BY DEF Next, RequestStep, AdminStep, TypeOK, Enqueue, Refuse, Resume, Stall, Elapse, TimeOut, Cancel,
       Reject, Park, LeaveQueue, Finish, ConfirmBinding, ConfirmStateless, BeginSend, BeginRecovery,
       BeginAttempt, DropLease, UpdateAccount, BlockAccount, RemoveAccount, UpdateKey, BlockKey,
       RemoveKey, Pause, ApplySettings, WakeOnly, vars, taskVars
<1>3. Leased' \subseteq Leased
  BY <1>1, <1>2 DEF LeaseInv, Leased
<1>4. inflight' = inflight \/ \E r \in Request : DropLease(r)
  BY DEF Next, RequestStep, AdminStep, Enqueue, Refuse, Resume, Stall, Elapse, TimeOut, Cancel,
       Reject, Park, LeaveQueue, ConfirmBinding, ConfirmStateless, BeginSend, BeginRecovery,
       BeginAttempt, UpdateAccount, BlockAccount, RemoveAccount, UpdateKey, BlockKey,
       RemoveKey, Pause, ApplySettings, WakeOnly, vars, leaseVars
<1>5. \A a \in Account : inflight'[a] <= inflight[a]
  <2>1. inflight \in [Account -> Nat]
    BY DEF TypeOK
  <2>2. ASSUME NEW r \in Request, DropLease(r)
        PROVE  \A a \in Account : inflight'[a] <= inflight[a]
    <3>1. inflight' = SlotReleased(leases[r].account)
      BY <2>2 DEF DropLease
    <3> QED
      BY <2>1, <3>1 DEF SlotReleased
  <2> QED
    BY <1>4, <2>1, <2>2
<1> QED
  BY <1>3, <1>5

\* What WithinLimits says of a step.
StepInLimits ==
  /\ \A a \in Account : inflight'[a] > inflight[a] =>
       /\ inflight'[a] <= accounts[a].max
       /\ a \notin blocked
       /\ Cardinality(Leased') <= cfg.global
  /\ \A s \in Session :
       Cardinality({r \in Leased' : SessionOf[r] = s})
         > Cardinality({r \in Leased : SessionOf[r] = s}) =>
       Cardinality({r \in Leased' : SessionOf[r] = s}) <= cfg.session

LEMMA StepWithinLimits ==
  ASSUME TypeOK, LeaseInv, LeaseAccounting, [Next]_vars
  PROVE  StepInLimits
<1> USE DEF StepInLimits
<1>1. \A s \in Session : /\ {r \in Leased' : SessionOf[r] = s} = InSession(s)'
                         /\ {r \in Leased : SessionOf[r] = s} = InSession(s)
  BY DEF InSession
<1>2. CASE \E r \in Request : Reserve(r)
  <2>1. PICK r \in Request : Reserve(r)
    BY <1>2
  <2>2. \A s \in Session : Cardinality(InSession(s)') > Cardinality(InSession(s)) => InSession(s)' # InSession(s)
    <3>1. \A s \in Session : IsFiniteSet(InSession(s))
      BY SchedulerAssumption, FS_Subset DEF InSession, Leased
    <3> QED
      BY <3>1, FS_CardinalityType
  <2> QED
    BY <1>1, <2>1, <2>2, GrantWithinLimits
<1>3. CASE ~ \E r \in Request : Reserve(r)
  <2>1. Leased' \subseteq Leased /\ \A a \in Account : inflight'[a] <= inflight[a]
    BY <1>3, OnlyGrantsTake
  <2>2. \A a \in Account : inflight[a] \in Nat /\ inflight'[a] \in Nat
    <3>1. TypeOK'
      BY StepKeepsTypes
    <3> QED
      BY <3>1 DEF TypeOK
  <2>3. \A s \in Session : /\ Cardinality(InSession(s)') \in Nat /\ Cardinality(InSession(s)) \in Nat
                           /\ Cardinality(InSession(s)') <= Cardinality(InSession(s))
    <3>1. \A s \in Session : IsFiniteSet(InSession(s)) /\ InSession(s)' \subseteq InSession(s)
      BY <2>1, SchedulerAssumption, FS_Subset DEF InSession, Leased
    <3> QED
      BY <3>1, FS_Subset, FS_CardinalityType
  <2>4. \A a \in Account : ~(inflight'[a] > inflight[a])
    BY <2>1, <2>2
  <2>5. \A s \in Session : ~(Cardinality(InSession(s)') > Cardinality(InSession(s)))
    BY <2>3
  <2> QED
    BY <1>1, <2>4, <2>5
<1> QED
  BY <1>2, <1>3

\* Whatever was lowered in the meantime, a slot is taken only within the
\* limits of the account, of the session and of the gateway.
THEOREM LimitsHold == Spec => WithinLimits
<1>1. TypeOK /\ LeaseInv /\ LeaseAccounting /\ [Next]_vars => [StepInLimits]_vars
  BY StepWithinLimits
<1>2. Spec => [][StepInLimits]_vars
  BY <1>1, TypeCorrect, LeasesConsistent, CapacityCounted, PTL DEF Spec
<1> QED
  BY <1>2, PTL DEF WithinLimits, StepInLimits

=============================================================================
