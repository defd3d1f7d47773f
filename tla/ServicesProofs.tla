----------------------------- MODULE ServicesProofs -----------------------------
(***************************************************************************)
(* Proofs about the services.  QuotaReset and SafetyGuard are proved here, *)
(* for any operations, vouchers, tasks, sessions and requests.  What is    *)
(* proved elsewhere about the other components holds for their instances   *)
(* in MCServices: a step of the part is a step of the component, and any   *)
(* other step leaves the variables of the component alone or is not in a   *)
(* behaviour of the part.                                                  *)
(***************************************************************************)
EXTENDS MCServices, Sequences, TLAPS, FiniteSetTheorems

AdmissionFacts == INSTANCE AdmissionProofs WITH
  Usage <- MemoryUse, Settings <- MemorySettings, MaxBytes <- 1,
  usage <- s1, cfg <- s2, gate <- s3, readers <- s4, buffered <- s5, parser <- s6,
  rows <- s7, tasks <- s8

AuthFacts == INSTANCE AuthorizationProofs WITH
  Flow <- Task, Account <- {1, 2, 3}, Upstream <- {"u", "v"}, MaxFlows <- 1,
  flows <- s1, work <- s2, rows <- s3, known <- s4, lock <- s5, past <- s6

KeyFacts == INSTANCE KeyControlProofs WITH
  Key <- Session, Group <- {"default", "other"}, Default <- "default",
  Request <- {"request"}, MaxVersion <- 2,
  rows <- s1, groups <- s2, stored <- s3, known <- s4, blocked <- s5, tombs <- s6,
  live <- s7, paused <- s8, lock <- s9, tasks <- s10, requests <- s11

CatalogFacts == INSTANCE CatalogProofs WITH
  Account <- {1}, Handler <- {<<"handler", 1>>, <<"handler", 2>>}, Lists <- ModelLists,
  Aliases <- {<<"alias", "n">>}, MaxVersion <- 2,
  edition <- s1, models <- s2, rows <- s3, known <- s4, syncing <- s5, lock <- s6,
  work <- s7, job <- s8, unheard <- s9

JobFacts == INSTANCE CatalogProofs WITH
  Account <- {1, 2}, Handler <- {}, Lists <- ModelLists,
  Aliases <- {<<"alias", "n">>}, MaxVersion <- 2,
  edition <- s1, models <- s2, rows <- s3, known <- s4, syncing <- s5, lock <- s6,
  work <- s7, job <- s8, unheard <- s9

-----------------------------------------------------------------------------
(* Quota resets. *)

\* Whoever has read the journal holds the lock.
OneAtWork == \A t \in Task : tasks[t] # None /\ tasks[t].at # "start" => lock = t

\* What the holder of the lock has found in the journal is still so.
JournalAsRead ==
  \A t \in Task : tasks[t] # None =>
    /\ tasks[t].at \in {"listing", "journaling"} => journal[tasks[t].op] = None
    /\ tasks[t].at \in {"sending", "waiting", "finishing"} =>
         /\ journal[tasks[t].op] # None
         /\ journal[tasks[t].op].credit = tasks[t].credit
         /\ journal[tasks[t].op].result = None

AnswerTrue ==
  \A t \in Task : At(t, "finishing") =>
    /\ decided[tasks[t].op] # None
    /\ decided[tasks[t].op] = "reset" <=> tasks[t].code \in {"reset", "already_redeemed"}

OnePending == \A first, second \in Pending : first = second

ResetInv ==
  /\ TypeOK /\ OneAtWork /\ JournalAsRead /\ AnswerTrue
  /\ OnePending /\ JournalCoversCalls /\ RecordedOutcomeTrue

-----------------------------------------------------------------------------
(* Quota resets: single operators. *)

\* The upstream's decisions stay.
LEMMA CarryOutEffect ==
  ASSUME ResetAssumption, TypeOK, NEW call \in Call, CarryOut(call)
  PROVE  /\ left' \subseteq Voucher
         /\ decided' \in [Operation -> Outcome \cup {None}]
         /\ decided'[call.op] # None
         /\ \A op \in Operation : decided[op] # None => decided'[op] = decided[op]
<1>1. call.op \in Operation
  BY DEF Call
<1>2. None \notin Outcome
  BY DEF ResetAssumption, Code
<1>3. CASE decided[call.op] # None
  BY <1>3 DEF CarryOut, upstream, TypeOK
<1>4. CASE decided[call.op] = None
  BY <1>1, <1>2, <1>4 DEF CarryOut, TypeOK, Outcome
<1> QED
  BY <1>3, <1>4

\* Whether or not anybody reads the answer.
LEMMA UnansweredEffect ==
  ASSUME ResetAssumption, TypeOK, NEW t \in Task, At(t, "waiting"), Unanswered(t)
  PROVE  /\ left' \subseteq Voucher
         /\ decided' \in [Operation -> Outcome \cup {None}]
         /\ late' \subseteq Call
         /\ \A op \in Operation : decided[op] # None => decided'[op] = decided[op]
<1>1. CallOf(t) \in Call
  BY DEF TypeOK, At, Work, CallOf, Call
<1> QED
  BY <1>1, CarryOutEffect DEF Unanswered, TypeOK, upstream

\* A new row is the only pending one.
LEMMA InsertEffect ==
  ASSUME ResetAssumption, ResetInv, NEW t \in Task, At(t, "journaling"), Insert(t)
  PROVE  /\ journal' \in [Operation -> Row \cup {None}]
         /\ tasks[t].op \in Operation /\ journal[tasks[t].op] = None
         /\ journal'[tasks[t].op] # None
         /\ journal'[tasks[t].op].credit = tasks[t].credit
         /\ journal'[tasks[t].op].result = None
         /\ \A op \in Operation \ {tasks[t].op} : journal'[op] = journal[op]
         /\ OnePending' /\ JournalCoversCalls /\ (called' = called => JournalCoversCalls')
         /\ \A op \in Operation : journal'[op] # None /\ journal'[op].result # None
             => journal'[op] = journal[op]
<1> DEFINE o == tasks[t].op
           row == [credit |-> tasks[t].credit, result |-> None]
<1>1. o \in Operation /\ row \in Row /\ journal[o] = None
  BY DEF ResetInv, TypeOK, JournalAsRead, At, Work, Row
<1>2. row # None /\ row.credit = tasks[t].credit /\ row.result = None
  BY <1>1 DEF ResetAssumption
<1> HIDE DEF row
<1>3. journal' = [journal EXCEPT ![o] = row]
  BY DEF Insert, row
<1>4. /\ journal' \in [Operation -> Row \cup {None}] /\ journal'[o] = row
      /\ \A op \in Operation \ {o} : journal'[op] = journal[op]
  BY <1>1, <1>3 DEF ResetInv, TypeOK
<1>5. OnePending'
  <2>1. \A op \in Pending' : op = o
    BY <1>4 DEF Insert, Pending
  <2> QED
    BY <2>1 DEF OnePending
<1>6. JournalCoversCalls /\ (called' = called => JournalCoversCalls')
  <2>1. ASSUME called' = called, NEW call \in called
        PROVE  journal'[call.op] # None /\ journal'[call.op].credit = call.credit
    <3>1. journal[call.op] # None /\ call.op \in Operation /\ journal[call.op].credit = call.credit
      BY DEF ResetInv, TypeOK, JournalCoversCalls, Call
    <3> QED
      BY <1>1, <1>4, <3>1
  <2> QED
    BY <2>1 DEF ResetInv, JournalCoversCalls
<1> QED
  BY <1>1, <1>2, <1>4, <1>5, <1>6

\* The result that is recorded is the upstream's.
LEMMA CompleteEffect ==
  ASSUME ResetAssumption, ResetInv, NEW t \in Task, At(t, "finishing"), Complete(t),
         UNCHANGED <<decided, called>>
  PROVE  /\ journal' \in [Operation -> Row \cup {None}]
         /\ OnePending' /\ JournalCoversCalls' /\ RecordedOutcomeTrue'
<1> DEFINE o == tasks[t].op
           row == [journal[o] EXCEPT !.result = tasks[t].code]
<1>1. /\ o \in Operation /\ tasks[t].code \in Code \cup {None}
      /\ journal[o] # None /\ journal[o] \in Row /\ journal[o].result = None
  BY DEF ResetInv, TypeOK, JournalAsRead, At, Work
<1>2. row \in Row /\ row.credit = journal[o].credit /\ row.result = tasks[t].code
  BY <1>1 DEF Row
<1> HIDE DEF row
<1>3. journal' = [journal EXCEPT ![o] = row]
  BY DEF Complete, row
<1>4. /\ journal' \in [Operation -> Row \cup {None}] /\ journal'[o] = row
      /\ \A op \in Operation \ {o} : journal'[op] = journal[op]
  BY <1>1, <1>2, <1>3 DEF ResetInv, TypeOK
<1>5. Pending' \subseteq Pending
  BY <1>1, <1>4 DEF Pending
<1>6. OnePending'
  BY <1>5 DEF ResetInv, OnePending
<1>7. RecordedOutcomeTrue'
  BY <1>1, <1>2, <1>4 DEF ResetInv, RecordedOutcomeTrue, AnswerTrue
<1>8. row # None
  BY <1>2 DEF ResetAssumption
<1>9. JournalCoversCalls'
  <2> SUFFICES ASSUME NEW call \in called
               PROVE  journal'[call.op] # None /\ journal'[call.op].credit = call.credit
    BY DEF JournalCoversCalls
  <2>1. call.op \in Operation /\ journal[call.op] # None /\ journal[call.op].credit = call.credit
    BY DEF ResetInv, TypeOK, JournalCoversCalls, Call
  <2> QED
    BY <1>2, <1>4, <1>8, <2>1
<1> QED
  BY <1>4, <1>6, <1>7, <1>9

\* The holder of the lock goes on: it alone is past the start.
LEMMA GoesOn ==
  ASSUME ResetAssumption, ResetInv, NEW t \in Task, lock \in {None, t}, lock' = t,
         NEW w \in Work, tasks' = [tasks EXCEPT ![t] = w],
         w.at \in {"listing", "journaling"} => journal'[w.op] = None,
         w.at \in {"sending", "waiting", "finishing"} =>
           /\ journal'[w.op] # None
           /\ journal'[w.op].credit = w.credit
           /\ journal'[w.op].result = None,
         w.at = "finishing" =>
           /\ decided'[w.op] # None
           /\ decided'[w.op] = "reset" <=> w.code \in {"reset", "already_redeemed"}
  PROVE  /\ tasks' \in [Task -> Work \cup {None}] /\ lock' \in Task \cup {None}
         /\ OneAtWork' /\ JournalAsRead' /\ AnswerTrue'
<1>1. tasks'[t] = w /\ \A u \in Task \ {t} : tasks'[u] = tasks[u]
  BY DEF ResetInv, TypeOK
<1>2. \A u \in Task \ {t} : tasks'[u] # None => tasks'[u].at = "start"
  BY <1>1 DEF ResetInv, OneAtWork, ResetAssumption
<1>3. tasks' \in [Task -> Work \cup {None}]
  BY DEF ResetInv, TypeOK
<1>4. OneAtWork'
  BY <1>1, <1>2 DEF OneAtWork
<1>5. JournalAsRead' /\ AnswerTrue'
  BY <1>1, <1>2 DEF JournalAsRead, AnswerTrue, At
<1> QED
  BY <1>3, <1>4, <1>5

\* The holder of the lock ends: nobody is past the start.
LEMMA HolderEnds ==
  ASSUME ResetAssumption, ResetInv, NEW t \in Task, tasks[t] # None,
         tasks[t].at # "start", End(t)
  PROVE  /\ tasks' \in [Task -> Work \cup {None}] /\ lock' \in Task \cup {None}
         /\ OneAtWork' /\ JournalAsRead' /\ AnswerTrue'
<1>1. lock = t
  BY DEF ResetInv, OneAtWork
<1>2. \A u \in Task : tasks'[u] # None => tasks'[u].at = "start"
  BY <1>1 DEF End, ResetInv, OneAtWork, TypeOK
<1>3. tasks' \in [Task -> Work \cup {None}] /\ lock' \in Task \cup {None}
  BY DEF End, ResetInv, TypeOK
<1> QED
  BY <1>2, <1>3 DEF OneAtWork, JournalAsRead, AnswerTrue, At

\* A task that has not read anything ends.
LEMMA StarterEnds ==
  ASSUME ResetInv, NEW t \in Task, At(t, "start"), End(t), UNCHANGED <<journal, decided>>
  PROVE  /\ tasks' \in [Task -> Work \cup {None}] /\ lock' \in Task \cup {None}
         /\ OneAtWork' /\ JournalAsRead' /\ AnswerTrue'
<1>1. tasks'[t] = None /\ \A u \in Task \ {t} : tasks'[u] = tasks[u]
  BY DEF End, ResetInv, TypeOK
<1>2. \A u \in Task \ {t} : tasks[u] # None /\ tasks[u].at # "start" => lock = u /\ lock' = u
  BY DEF End, ResetInv, OneAtWork
<1>3. tasks' \in [Task -> Work \cup {None}] /\ lock' \in Task \cup {None}
  BY DEF End, ResetInv, TypeOK
<1>4. OneAtWork'
  BY <1>1, <1>2 DEF OneAtWork
<1>5. JournalAsRead' /\ AnswerTrue'
  BY <1>1 DEF ResetInv, JournalAsRead, AnswerTrue, At
<1> QED
  BY <1>3, <1>4, <1>5

-----------------------------------------------------------------------------
(* Quota resets: each step keeps the invariant. *)

\* Up to the insert nothing but the task changes.
LEMMA PrepareStep ==
  ASSUME ResetAssumption, ResetInv, NEW t \in Task,
         Ask(t) \/ Resume(t) \/ Enter(t) \/ List(t) \/ GiveUp(t)
  PROVE  ResetInv'
<1>1. UNCHANGED <<journal, left, decided, late, called>>
  BY DEF Ask, Resume, Enter, List, GiveUp, upstream
<1>2. SUFFICES /\ tasks' \in [Task -> Work \cup {None}] /\ lock' \in Task \cup {None}
               /\ OneAtWork' /\ JournalAsRead' /\ AnswerTrue'
  BY <1>1, <1>2
     DEF ResetInv, TypeOK, OnePending, Pending, JournalCoversCalls, RecordedOutcomeTrue
<1>3. CASE Ask(t)
  <2>1. PICK op \in Operation, credit \in Voucher :
          tasks' = [tasks EXCEPT ![t] = [op |-> op, credit |-> credit, at |-> "start", code |-> None]]
    BY <1>3 DEF Ask
  <2> DEFINE w == [op |-> op, credit |-> credit, at |-> "start", code |-> None]
  <2>2. w \in Work /\ w.at = "start"
    BY DEF Work, Stage
  <2> HIDE DEF w
  <2>3. tasks' = [tasks EXCEPT ![t] = w] /\ lock' = lock /\ tasks[t] = None
    BY <1>3, <2>1 DEF Ask, w
  <2>4. /\ tasks' \in [Task -> Work \cup {None}] /\ tasks'[t].at = "start"
        /\ \A u \in Task \ {t} : tasks'[u] = tasks[u]
    BY <2>2, <2>3 DEF ResetInv, TypeOK
  <2>5. OneAtWork' /\ JournalAsRead' /\ AnswerTrue'
    BY <1>1, <2>3, <2>4 DEF ResetInv, OneAtWork, JournalAsRead, AnswerTrue, At
  <2> QED
    BY <2>3, <2>4, <2>5 DEF ResetInv, TypeOK
<1>4. ASSUME NEW stage \in Stage, At(t, "start") \/ At(t, "listing"), Advance(t, stage),
             lock \in {None, t}, lock' = t,
             stage \in {"listing", "journaling"} => journal[tasks[t].op] = None,
             stage = "sending" => /\ journal[tasks[t].op] # None
                                  /\ journal[tasks[t].op].credit = tasks[t].credit
                                  /\ journal[tasks[t].op].result = None,
             stage \notin {"waiting", "finishing"}
      PROVE  /\ tasks' \in [Task -> Work \cup {None}] /\ lock' \in Task \cup {None}
             /\ OneAtWork' /\ JournalAsRead' /\ AnswerTrue'
  <2> DEFINE w == [tasks[t] EXCEPT !.at = stage]
  <2>1. w \in Work /\ w.at = stage /\ w.op = tasks[t].op /\ w.credit = tasks[t].credit
    BY <1>4 DEF ResetInv, TypeOK, At, Work
  <2>2. tasks' = [tasks EXCEPT ![t] = w]
    BY <1>4 DEF Advance
  <2> HIDE DEF w
  <2> QED
    BY <1>1, <1>4, <2>1, <2>2, GoesOn
<1>5. CASE Resume(t)
  <2>1. CASE Advance(t, "sending") /\ lock' = t /\ journal[tasks[t].op].credit = tasks[t].credit
             /\ ~Settled(tasks[t].op)
    BY <1>4, <1>5, <2>1 DEF Resume, Stage, Settled
  <2>2. CASE End(t)
    BY <1>1, <1>5, <2>2, StarterEnds DEF Resume
  <2> QED
    BY <1>5, <2>1, <2>2 DEF Resume
<1>6. CASE Enter(t)
  <2>1. CASE Advance(t, "listing") /\ lock' = t
    BY <1>4, <1>6, <2>1 DEF Enter, Stage
  <2>2. CASE End(t)
    BY <1>1, <1>6, <2>2, StarterEnds DEF Enter
  <2> QED
    BY <1>6, <2>1, <2>2 DEF Enter
<1>7. CASE List(t)
  <2>1. lock = t /\ journal[tasks[t].op] = None
    BY <1>7 DEF List, At, ResetInv, OneAtWork, JournalAsRead
  <2>2. CASE Advance(t, "journaling") /\ lock' = lock
    BY <1>4, <1>7, <2>1, <2>2 DEF List, Stage
  <2>3. CASE End(t)
    BY <1>7, <2>3, HolderEnds DEF List, At
  <2> QED
    BY <1>7, <2>2, <2>3 DEF List
<1>8. CASE GiveUp(t)
  BY <1>1, <1>8, HolderEnds, StarterEnds DEF GiveUp, At
<1> QED
  BY <1>3, <1>5, <1>6, <1>7, <1>8

\* begin_reset, answered or not.
LEMMA JournalStep ==
  ASSUME ResetAssumption, ResetInv, NEW t \in Task, Journal(t) \/ JournalFails(t)
  PROVE  ResetInv'
<1>1. /\ At(t, "journaling") /\ UNCHANGED <<left, decided, late, called>>
      /\ Insert(t) \/ UNCHANGED journal
      /\ lock = t /\ tasks[t] \in Work
  BY DEF Journal, JournalFails, upstream, ResetInv, OneAtWork, At, TypeOK
<1>2. /\ journal' \in [Operation -> Row \cup {None}]
      /\ OnePending' /\ JournalCoversCalls' /\ RecordedOutcomeTrue'
  <2>1. CASE Insert(t)
    BY <1>1, <2>1, InsertEffect DEF ResetInv, RecordedOutcomeTrue
  <2>2. CASE UNCHANGED journal
    BY <1>1, <2>2
       DEF ResetInv, TypeOK, OnePending, Pending, JournalCoversCalls, RecordedOutcomeTrue
  <2> QED
    BY <1>1, <2>1, <2>2
<1>3. CASE Journal(t)
  <2> DEFINE w == [tasks[t] EXCEPT !.at = "sending"]
  <2>1. w \in Work /\ w.at = "sending" /\ w.op = tasks[t].op /\ w.credit = tasks[t].credit
    BY <1>1 DEF Work, Stage
  <2>2. tasks' = [tasks EXCEPT ![t] = w] /\ lock' = lock /\ Insert(t)
    BY <1>3 DEF Journal, Advance
  <2> HIDE DEF w
  <2>3. /\ journal'[w.op] # None /\ journal'[w.op].credit = w.credit
        /\ journal'[w.op].result = None
    BY <1>1, <2>1, <2>2, InsertEffect
  <2> QED
    BY <1>1, <1>2, <2>1, <2>2, <2>3, GoesOn DEF ResetInv, TypeOK
<1>4. CASE JournalFails(t)
  BY <1>1, <1>2, <1>4, HolderEnds DEF JournalFails, AfterJournalError, At, ResetInv, TypeOK
<1> QED
  BY <1>3, <1>4

\* The call goes out under the journaled operation.
LEMMA SendStep ==
  ASSUME ResetAssumption, ResetInv, NEW t \in Task, Send(t)
  PROVE  ResetInv'
<1> DEFINE w == [tasks[t] EXCEPT !.at = "waiting"]
<1>1. /\ At(t, "sending") /\ UNCHANGED <<journal, left, decided, late, lock>>
      /\ called' = called \cup {CallOf(t)}
      /\ lock = t /\ tasks[t] \in Work
  BY DEF Send, upstream, ResetInv, OneAtWork, At, TypeOK
<1>2. /\ journal[tasks[t].op] # None /\ journal[tasks[t].op].credit = tasks[t].credit
      /\ journal[tasks[t].op].result = None
  BY <1>1 DEF ResetInv, JournalAsRead, At
<1>3. w \in Work /\ w.at = "waiting" /\ w.op = tasks[t].op /\ w.credit = tasks[t].credit
  BY <1>1 DEF Work, Stage
<1>4. tasks' = [tasks EXCEPT ![t] = w]
  BY DEF Send, Advance
<1> HIDE DEF w
<1>5. CallOf(t) \in Call /\ CallOf(t).op = tasks[t].op /\ CallOf(t).credit = tasks[t].credit
  BY <1>1 DEF CallOf, Call, Work
<1>6. JournalCoversCalls' /\ called' \subseteq Call
  BY <1>1, <1>2, <1>5 DEF ResetInv, TypeOK, JournalCoversCalls
<1>7. /\ tasks' \in [Task -> Work \cup {None}] /\ lock' \in Task \cup {None}
      /\ OneAtWork' /\ JournalAsRead' /\ AnswerTrue'
  BY <1>1, <1>2, <1>3, <1>4, GoesOn
<1> QED
  BY <1>1, <1>6, <1>7 DEF ResetInv, TypeOK, OnePending, Pending, RecordedOutcomeTrue

\* An answer is the upstream's decision.
LEMMA AnswerStep ==
  ASSUME ResetAssumption, ResetInv, NEW t \in Task, Answer(t)
  PROVE  ResetInv'
<1>1. /\ At(t, "waiting") /\ UNCHANGED <<journal, late, called, lock>>
      /\ lock = t /\ tasks[t] \in Work /\ CarryOut(CallOf(t))
  BY DEF Answer, ResetInv, OneAtWork, At, TypeOK
<1>2. CallOf(t) \in Call /\ CallOf(t).op = tasks[t].op /\ tasks[t].op \in Operation
  BY <1>1 DEF CallOf, Call, Work
<1>3. /\ left' \subseteq Voucher /\ decided' \in [Operation -> Outcome \cup {None}]
      /\ decided'[tasks[t].op] # None
      /\ \A op \in Operation : decided[op] # None => decided'[op] = decided[op]
  BY <1>1, <1>2, CarryOutEffect DEF ResetInv
<1>4. PICK code \in Answered(tasks[t].op) :
        tasks' = [tasks EXCEPT ![t].at = "finishing", ![t].code = code]
  BY DEF Answer
<1>5. /\ code \in Code
      /\ decided'[tasks[t].op] = "reset" <=> code \in {"reset", "already_redeemed"}
  <2>1. CASE decided[tasks[t].op] = "reset"
    BY <1>2, <1>3, <1>4, <2>1 DEF Answered, Code, Outcome, ResetAssumption
  <2>2. CASE decided[tasks[t].op] # "reset"
    <3>1. code = decided'[tasks[t].op] /\ decided'[tasks[t].op] \in Outcome
      BY <1>2, <1>3, <1>4, <2>2 DEF Answered
    <3> QED
      BY <3>1 DEF Code, Outcome
  <2> QED
    BY <2>1, <2>2
<1> DEFINE w == [tasks[t] EXCEPT !.at = "finishing", !.code = code]
<1>6. w \in Work /\ w.at = "finishing" /\ w.op = tasks[t].op /\ w.credit = tasks[t].credit
          /\ w.code = code
  BY <1>1, <1>5 DEF Work, Stage
<1>7. tasks' = [tasks EXCEPT ![t] = w]
  BY <1>1, <1>4 DEF ResetInv, TypeOK
<1> HIDE DEF w
<1>8. /\ journal[w.op] # None /\ journal[w.op].credit = w.credit /\ journal[w.op].result = None
  BY <1>1, <1>6 DEF ResetInv, JournalAsRead, At
<1>9. /\ tasks' \in [Task -> Work \cup {None}] /\ lock' \in Task \cup {None}
      /\ OneAtWork' /\ JournalAsRead' /\ AnswerTrue'
  BY <1>1, <1>3, <1>5, <1>6, <1>7, <1>8, GoesOn
<1>10. RecordedOutcomeTrue'
  BY <1>1, <1>3 DEF ResetInv, RecordedOutcomeTrue
<1> QED
  BY <1>1, <1>3, <1>9, <1>10 DEF ResetInv, TypeOK, OnePending, Pending, JournalCoversCalls

\* The upstream may decide without an answer; nothing is recorded.
LEMMA UndecidedKept ==
  ASSUME ResetInv, UNCHANGED <<journal, called>>,
         left' \subseteq Voucher, decided' \in [Operation -> Outcome \cup {None}], late' \subseteq Call,
         \A op \in Operation : decided[op] # None => decided'[op] = decided[op],
         tasks' \in [Task -> Work \cup {None}], lock' \in Task \cup {None},
         OneAtWork', JournalAsRead', AnswerTrue'
  PROVE  ResetInv'
<1>1. RecordedOutcomeTrue'
  BY DEF ResetInv, RecordedOutcomeTrue
<1> QED
  BY <1>1 DEF ResetInv, TypeOK, OnePending, Pending, JournalCoversCalls

\* The end of a call, with or without an answer.
LEMMA EndStep ==
  ASSUME ResetAssumption, ResetInv, NEW t \in Task, Unconfirmed(t) \/ Finish(t)
  PROVE  ResetInv'
<1>1. /\ tasks' \in [Task -> Work \cup {None}] /\ lock' \in Task \cup {None}
      /\ OneAtWork' /\ JournalAsRead' /\ AnswerTrue'
  BY HolderEnds DEF Unconfirmed, Finish, At
<1>2. CASE Unconfirmed(t)
  <2>1. UNCHANGED <<journal, called>> /\ At(t, "waiting") /\ Unanswered(t)
    BY <1>2 DEF Unconfirmed, OnUnconfirmed
  <2> QED
    BY <1>1, <2>1, UnansweredEffect, UndecidedKept DEF ResetInv
<1>3. CASE Finish(t)
  <2>1. UNCHANGED <<left, decided, late, called>> /\ At(t, "finishing")
    BY <1>3 DEF Finish, upstream
  <2>2. CASE Complete(t)
    BY <1>1, <2>1, <2>2, CompleteEffect DEF ResetInv, TypeOK
  <2>3. CASE UNCHANGED journal
    BY <1>1, <2>1, <2>3, UndecidedKept DEF ResetInv, TypeOK
  <2> QED
    BY <1>3, <2>2, <2>3 DEF Finish
<1> QED
  BY <1>2, <1>3

\* What happens outside of a task.
LEMMA OutsideStep ==
  ASSUME ResetAssumption, ResetInv, Late \/ Elsewhere \/ Restart
  PROVE  ResetInv'
<1>1. ASSUME UNCHANGED <<journal, lock, tasks>>,
             \A op \in Operation : decided[op] # None => decided'[op] = decided[op]
      PROVE  /\ tasks' \in [Task -> Work \cup {None}] /\ lock' \in Task \cup {None}
             /\ OneAtWork' /\ JournalAsRead' /\ AnswerTrue'
  <2>1. \A t \in Task : tasks[t] # None => tasks[t].op \in Operation
    BY DEF ResetInv, TypeOK, Work
  <2>2. AnswerTrue'
    BY <1>1, <2>1 DEF ResetInv, AnswerTrue, At
  <2> QED
    BY <1>1, <2>2 DEF ResetInv, TypeOK, OneAtWork, JournalAsRead
<1>2. CASE Late
  <2>1. PICK call \in late : CarryOut(call) /\ late' = late \ {call}
    BY <1>2 DEF Late
  <2>2. call \in Call
    BY DEF ResetInv, TypeOK
  <2>3. UNCHANGED <<journal, called, lock, tasks>>
    BY <1>2 DEF Late
  <2>4. /\ left' \subseteq Voucher /\ decided' \in [Operation -> Outcome \cup {None}]
        /\ \A op \in Operation : decided[op] # None => decided'[op] = decided[op]
    BY <2>1, <2>2, CarryOutEffect DEF ResetInv
  <2> QED
    BY <1>1, <2>1, <2>3, <2>4, UndecidedKept DEF ResetInv, TypeOK
<1>3. CASE Elsewhere
  BY <1>1, <1>3, UndecidedKept DEF Elsewhere, ResetInv, TypeOK
<1>4. CASE Restart
  <2>1. /\ tasks' \in [Task -> Work \cup {None}] /\ lock' \in Task \cup {None}
        /\ OneAtWork' /\ JournalAsRead' /\ AnswerTrue' /\ called' = called
    BY <1>4 DEF Restart, OneAtWork, JournalAsRead, AnswerTrue, At
  <2>2. CASE UNCHANGED <<journal, upstream, late>>
    BY <2>1, <2>2, UndecidedKept DEF upstream, ResetInv, TypeOK
  <2>3. ASSUME NEW t \in Task, Interrupted(t)
        PROVE  ResetInv'
    <3>1. CASE At(t, "journaling") /\ Insert(t) /\ UNCHANGED <<upstream, late>>
      <4>1. /\ journal' \in [Operation -> Row \cup {None}]
            /\ OnePending' /\ JournalCoversCalls' /\ RecordedOutcomeTrue'
        BY <2>1, <3>1, InsertEffect DEF ResetInv, RecordedOutcomeTrue, upstream
      <4> QED
        BY <2>1, <3>1, <4>1 DEF ResetInv, TypeOK, upstream
    <3>2. CASE At(t, "waiting") /\ Unanswered(t) /\ UNCHANGED journal
      BY <2>1, <3>2, UnansweredEffect, UndecidedKept DEF ResetInv
    <3>3. CASE At(t, "finishing") /\ Complete(t) /\ UNCHANGED <<upstream, late>>
      BY <2>1, <3>3, CompleteEffect DEF ResetInv, TypeOK, upstream
    <3> QED
      BY <2>3, <3>1, <3>2, <3>3 DEF Interrupted
  <2> QED
    BY <1>4, <2>2, <2>3 DEF Restart
<1> QED
  BY <1>2, <1>3, <1>4

-----------------------------------------------------------------------------
(* Quota resets: the invariant holds. *)

LEMMA ResetInvInit == ASSUME ResetAssumption, Init PROVE ResetInv
BY DEF Init, ResetInv, TypeOK, OneAtWork, JournalAsRead, AnswerTrue, At, OnePending, Pending,
       JournalCoversCalls, RecordedOutcomeTrue

LEMMA ResetInvStep == ASSUME ResetAssumption, ResetInv, [Next]_vars PROVE ResetInv'
<1>1. CASE UNCHANGED vars
  BY <1>1
     DEF vars, upstream, ResetInv, TypeOK, OneAtWork, JournalAsRead, AnswerTrue, At, OnePending,
              Pending, JournalCoversCalls, RecordedOutcomeTrue
<1>2. ASSUME NEW t \in Task, TaskStep(t)
      PROVE  ResetInv'
  BY <1>2, PrepareStep, JournalStep, SendStep, AnswerStep, EndStep DEF TaskStep
<1> QED
  BY <1>1, <1>2, OutsideStep DEF Next

\* The services take the steps of QuotaReset, or none.
LEMMA ResetIsImplemented == [ServicesNext]_allVars => [Next]_vars
BY DEF ServicesNext, allVars

LEMMA ResetIsAssumed == ResetAssumption
BY ServicesAssumption DEF ServicesAssumption

LEMMA ResetHolds == ServicesSpec => []ResetInv
<1>1. ServicesInit => ResetInv
  BY ResetIsAssumed, ResetInvInit DEF ServicesInit
<1>2. ResetInv /\ [ServicesNext]_allVars => ResetInv'
  BY ResetIsAssumed, ResetIsImplemented, ResetInvStep
<1> QED
  BY <1>1, <1>2, PTL DEF ServicesSpec

\* A voucher is only ever spent under a journal row that names it, and the journal
\* keeps it, through failed inserts, timeouts, repetitions and restarts.
THEOREM CallsAreJournaled == ServicesSpec => []JournalCoversCalls
<1>1. ResetInv => JournalCoversCalls
  BY DEF ResetInv
<1> QED
  BY <1>1, ResetHolds, PTL

\* At most one operation of those that were sent is unconfirmed.
THEOREM NextAfterConfirmed == ServicesSpec => []OneUnconfirmed
<1>1. ResetInv => OneUnconfirmed
  BY DEF ResetInv, TypeOK, JournalCoversCalls, OnePending, Pending, OneUnconfirmed, Call
<1> QED
  BY <1>1, ResetHolds, PTL

\* A recorded result is the decision of the upstream, whatever was repeated,
\* given up or late.
THEOREM OutcomeIsTrue == ServicesSpec => []RecordedOutcomeTrue
<1>1. ResetInv => RecordedOutcomeTrue
  BY DEF ResetInv
<1> QED
  BY <1>1, ResetHolds, PTL

\* A confirmed operation is never sent again.
THEOREM SentUntilConfirmed == ServicesSpec => ConfirmedNotRepeated
<1>1. ResetInv /\ [ServicesNext]_allVars =>
        [\A t \in Task : At(t, "sending") /\ At(t, "waiting")' => journal[tasks[t].op].result = None]_vars
  BY DEF ResetInv, JournalAsRead, At
<1> QED
  BY <1>1, ResetHolds, PTL DEF ServicesSpec, ConfirmedNotRepeated

-----------------------------------------------------------------------------
(* Safety rejections. *)

\* Requests whose rejection is counted in memory and not yet in the store.
Unsaved(s) == {t \in Request : requests[t] # None /\ requests[t].latched /\ requests[t].session = s}

\* The row holds what survived the restart and no more than was seen.
RowBounded ==
  \A s \in Session :
    /\ saved[s] <= stored[s]
    /\ stored[s] + Cardinality(Unsaved(s)) <= saved[s] + seen[s]

\* The count is exact, or no request has brought the row into memory yet.
CountedOrFresh ==
  \A s \in Session : count[s] = Safety!AtMost(Safety!Rejections(s)) \/ (count[s] = 0 /\ seen[s] = 0)

\* What a task has read is as old as the restart at most, and not from the future.
ReadBounded ==
  \A t \in Request : Safety!At(t, "read") =>
    /\ saved[Safety!SessionAt(t)] <= requests[t].loaded
    /\ requests[t].loaded <= Safety!Rejections(Safety!SessionAt(t))

SavingIsLatched ==
  \A t \in Request : requests[t] # None =>
    /\ requests[t].at = "saving" => requests[t].latched
    /\ requests[t].latched => requests[t].at \in {"leased", "sent", "saving"}

SafetyInv ==
  /\ Safety!TypeOK /\ RowBounded /\ CountedOrFresh /\ ReadBounded /\ SavingIsLatched
      /\ Safety!CountIsExact

-----------------------------------------------------------------------------
(* Safety rejections: single operators. *)

LEMMA AtMostBounds ==
  ASSUME NEW n \in Nat
  PROVE  Safety!AtMost(n) \in 0..Safety!Limit /\ Safety!AtMost(n) <= n
             /\ Safety!AtMost(Safety!AtMost(n) + 1) = Safety!AtMost(n + 1)
BY DEF Safety!AtMost, Safety!Limit

\* The unsaved requests can be counted, one by one.
LEMMA UnsavedCounts ==
  ASSUME Safety!SafetyAssumption, NEW s \in Session
  PROVE  /\ IsFiniteSet(Unsaved(s))
         /\ Cardinality(Unsaved(s)) \in Nat
<1>1. Unsaved(s) \subseteq Request
  BY DEF Unsaved
<1>2. IsFiniteSet(Request)
  BY DEF Safety!SafetyAssumption, Safety!IsFiniteSet, IsFiniteSet
<1>3. IsFiniteSet(Unsaved(s))
  BY <1>1, <1>2, FS_Subset
<1> QED
  BY <1>3, FS_CardinalityType

\* A step of one task that counts no rejection keeps the invariant, if the task
\* goes on as it may.
LEMMA RequestMoves ==
  ASSUME Safety!SafetyAssumption, SafetyInv, NEW t \in Request, NEW w \in Safety!Work \cup {None},
         requests' = [requests EXCEPT ![t] = w],
         UNCHANGED <<stored, saved, seen>>,
         count' \in [Session -> 0..Safety!Limit], paused' \in BOOLEAN,
         CountedOrFresh',
         \A s \in Session : count[s] = Safety!AtMost(Safety!Rejections(s)) => count'[s] = count[s],
         w # None =>
           /\ w.latched => requests[t] # None /\ requests[t].latched /\ w.session = requests[t].session
           /\ w.at = "saving" => w.latched
           /\ w.latched => w.at \in {"leased", "sent", "saving"}
           /\ w.at = "read" => saved[w.session] <= w.loaded /\ w.loaded <= Safety!Rejections(w.session)
           /\ w.at \notin {"reading", "read"}
               => count'[w.session] = Safety!AtMost(Safety!Rejections(w.session))
  PROVE  SafetyInv'
<1>1. requests'[t] = w /\ \A u \in Request \ {t} : requests'[u] = requests[u]
  BY DEF SafetyInv, Safety!TypeOK
<1>2. RowBounded'
  <2>1. \A s \in Session : Unsaved(s)' \subseteq Unsaved(s)
    BY <1>1 DEF Unsaved
  <2>2. \A s \in Session : Cardinality(Unsaved(s)') <= Cardinality(Unsaved(s))
            /\ Cardinality(Unsaved(s)') \in Nat
    BY <2>1, UnsavedCounts, FS_Subset, FS_CardinalityType
  <2> QED
    BY <2>2, UnsavedCounts DEF SafetyInv, RowBounded, Safety!TypeOK
<1>3. \A s \in Session : Safety!Rejections(s)' = Safety!Rejections(s)
  BY DEF Safety!Rejections
<1>4. ReadBounded' /\ SavingIsLatched'
  BY <1>1, <1>3
     DEF SafetyInv, ReadBounded, SavingIsLatched, Safety!At, Safety!SessionAt, Safety!Rejections
<1>5. Safety!CountIsExact'
  <2> SUFFICES ASSUME NEW u \in Request, requests'[u] # None, requests'[u].at \notin {"reading", "read"}
               PROVE  count'[requests'[u].session]
                        = Safety!AtMost(saved'[requests'[u].session] + seen'[requests'[u].session])
    BY DEF Safety!CountIsExact, Safety!SessionAt, Safety!Rejections, Safety!AtMost
  <2>1. CASE u = t
    BY <1>1, <2>1 DEF Safety!Rejections
  <2>2. CASE u # t
    <3>1. requests'[u] = requests[u] /\ requests[u].session \in Session
      BY <1>1, <2>2 DEF SafetyInv, Safety!TypeOK, Safety!Work
    <3>2. count[requests[u].session] = Safety!AtMost(Safety!Rejections(requests[u].session))
      BY <3>1 DEF SafetyInv, Safety!CountIsExact, Safety!SessionAt
    <3> QED
      BY <3>1, <3>2 DEF Safety!Rejections
  <2> QED
    BY <2>1, <2>2
<1>6. Safety!TypeOK'
  BY DEF SafetyInv, Safety!TypeOK
<1> QED
  BY <1>2, <1>4, <1>5, <1>6 DEF SafetyInv

-----------------------------------------------------------------------------
(* Safety rejections: each step keeps the invariant. *)

LEMMA RestoreStep ==
  ASSUME Safety!SafetyAssumption, SafetyInv, NEW t \in Request, Safety!Restore(t)
  PROVE  SafetyInv'
<1> DEFINE s == Safety!SessionAt(t)
           loaded == requests[t].loaded
<1>1. /\ requests[t] # None /\ requests[t] \in Safety!Work /\ requests[t].at = "read"
          /\ s \in Session /\ loaded \in 0..Safety!Limit
      /\ UNCHANGED <<stored, paused, saved, seen>>
      /\ count' = [count EXCEPT ![s] = Safety!Larger(@, loaded)]
  BY DEF Safety!Restore, Safety!At, SafetyInv, Safety!TypeOK, Safety!Work, Safety!SessionAt
<1>2. saved[s] <= loaded /\ loaded <= Safety!Rejections(s) /\ Safety!Rejections(s) \in Nat
  BY <1>1
     DEF SafetyInv, Safety!TypeOK, ReadBounded, Safety!At, Safety!Rejections, Safety!SessionAt
<1>3. count'[s] = Safety!AtMost(Safety!Rejections(s)) /\ \A r \in Session \ {s} : count'[r] = count[r]
  <2>1. count'[s] = Safety!Larger(count[s], loaded) /\ \A r \in Session \ {s} : count'[r] = count[r]
    BY <1>1 DEF SafetyInv, Safety!TypeOK
  <2>2. CASE count[s] = Safety!AtMost(Safety!Rejections(s))
    BY <1>1, <1>2, <2>1, <2>2 DEF Safety!Larger, Safety!AtMost, Safety!Limit
  <2>3. CASE count[s] = 0 /\ seen[s] = 0
    <3>1. Safety!Rejections(s) = saved[s]
      BY <1>1, <2>3 DEF Safety!Rejections, SafetyInv, Safety!TypeOK
    <3>2. loaded = Safety!Rejections(s)
      BY <1>1, <1>2, <3>1 DEF SafetyInv, Safety!TypeOK
    <3> QED
      BY <1>1, <1>2, <2>1, <2>3, <3>2 DEF Safety!Larger, Safety!AtMost, Safety!Limit
  <2> QED
    BY <1>1, <2>1, <2>2, <2>3 DEF SafetyInv, CountedOrFresh
<1>4. count' \in [Session -> 0..Safety!Limit]
  BY <1>1, <1>2, <1>3, AtMostBounds DEF SafetyInv, Safety!TypeOK
<1>5. CountedOrFresh' /\ \A r \in Session : count[r] = Safety!AtMost(Safety!Rejections(r))
          => count'[r] = count[r]
  BY <1>1, <1>3 DEF SafetyInv, CountedOrFresh, Safety!Rejections
<1>6. ~requests[t].latched
  BY <1>1 DEF SafetyInv, SavingIsLatched
<1>7. CASE Safety!Advance(t, "checked")
  <2> DEFINE w == [requests[t] EXCEPT !.at = "checked"]
  <2>1. w \in Safety!Work /\ w.at = "checked" /\ w.session = s /\ ~w.latched
    BY <1>1, <1>6 DEF Safety!Work, Safety!Stage, Safety!SessionAt
  <2>2. requests' = [requests EXCEPT ![t] = w]
    BY <1>7 DEF Safety!Advance
  <2> HIDE DEF w
  <2> QED
    BY <1>1, <1>3, <1>4, <1>5, <2>1, <2>2, RequestMoves DEF SafetyInv, Safety!TypeOK
<1>8. CASE Safety!End(t)
  BY <1>1, <1>4, <1>5, <1>8, RequestMoves DEF Safety!End, SafetyInv, Safety!TypeOK
<1> QED
  BY <1>7, <1>8 DEF Safety!Restore

\* The other steps that count nothing.
LEMMA QuietStep ==
  ASSUME Safety!SafetyAssumption, SafetyInv, NEW t \in Request,
         \/ Safety!Arrive(t) \/ Safety!Read(t) \/ Safety!Lease(t) \/ Safety!Send(t)
             \/ Safety!Recover(t) \/ Safety!Finish(t)
  PROVE  SafetyInv'
<1>1. UNCHANGED <<count, stored, paused, saved, seen>>
  BY DEF Safety!Arrive, Safety!Read, Safety!Lease, Safety!Send, Safety!Recover, Safety!Finish
<1>2. CountedOrFresh' /\ count' \in [Session -> 0..Safety!Limit] /\ paused' \in BOOLEAN
  BY <1>1 DEF SafetyInv, Safety!TypeOK, CountedOrFresh, Safety!Rejections
<1>3. CASE Safety!End(t)
  BY <1>1, <1>2, <1>3, RequestMoves DEF Safety!End
<1>4. CASE Safety!Arrive(t)
  <2>1. PICK s \in Session :
          requests' = [requests EXCEPT ![t] = [session |-> s, at |-> "reading", loaded |-> 0, latched |-> FALSE]]
    BY <1>4 DEF Safety!Arrive
  <2> DEFINE w == [session |-> s, at |-> "reading", loaded |-> 0, latched |-> FALSE]
  <2>2. w \in Safety!Work /\ w.at = "reading" /\ ~w.latched
    BY DEF Safety!Work, Safety!Stage, Safety!Limit
  <2>3. requests' = [requests EXCEPT ![t] = w]
    BY <2>1
  <2> HIDE DEF w
  <2> QED
    BY <1>1, <1>2, <2>2, <2>3, RequestMoves
<1>5. CASE Safety!Read(t)
  <2> DEFINE s == Safety!SessionAt(t)
             w == [requests[t] EXCEPT !.at = "read", !.loaded = stored[s]]
  <2>1. requests[t] \in Safety!Work /\ requests[t].at = "reading" /\ s \in Session
            /\ stored[s] \in 0..Safety!Limit
    BY <1>5 DEF Safety!Read, Safety!At, SafetyInv, Safety!TypeOK, Safety!Work, Safety!SessionAt
  <2>2. ~requests[t].latched
    BY <1>5, <2>1 DEF Safety!Read, Safety!At, SafetyInv, SavingIsLatched
  <2>3. /\ w \in Safety!Work /\ w.at = "read" /\ w.session = s /\ w.loaded = stored[s] /\ ~w.latched
    BY <2>1, <2>2 DEF Safety!Work, Safety!Stage, Safety!SessionAt
  <2>4. saved[s] <= stored[s] /\ stored[s] <= Safety!Rejections(s)
    BY <2>1, UnsavedCounts DEF SafetyInv, RowBounded, Safety!TypeOK, Safety!Rejections
  <2>5. requests' = [requests EXCEPT ![t] = w]
    BY <1>5 DEF Safety!Read
  <2> HIDE DEF w
  <2> QED
    BY <1>1, <1>2, <2>1, <2>3, <2>4, <2>5, RequestMoves
<1>6. ASSUME NEW stage \in {"leased", "sent", "saving"}, Safety!Advance(t, stage), requests[t] # None,
             requests[t].at \notin {"reading", "read"},
             stage = "saving" => requests[t].latched
      PROVE  SafetyInv'
  <2> DEFINE w == [requests[t] EXCEPT !.at = stage]
  <2>1. requests[t] \in Safety!Work /\ requests[t].session \in Session
    BY <1>6 DEF SafetyInv, Safety!TypeOK, Safety!Work
  <2>2. w \in Safety!Work /\ w.at = stage /\ w.session = requests[t].session
            /\ (w.latched <=> requests[t].latched)
    BY <2>1 DEF Safety!Work, Safety!Stage
  <2>3. requests' = [requests EXCEPT ![t] = w]
    BY <1>6 DEF Safety!Advance
  <2>4. count[requests[t].session] = Safety!AtMost(Safety!Rejections(requests[t].session))
    BY <1>6 DEF SafetyInv, Safety!CountIsExact, Safety!SessionAt
  <2> HIDE DEF w
  <2> QED
    BY <1>1, <1>2, <1>6, <2>1, <2>2, <2>3, <2>4, RequestMoves
<1>7. CASE Safety!Lease(t)
  BY <1>3, <1>6, <1>7 DEF Safety!Lease, Safety!At
<1>8. CASE Safety!Conclude(t) /\ requests[t] # None
  <2>1. CASE requests[t].latched
    BY <1>6, <1>8, <2>1 DEF Safety!Conclude, SafetyInv, SavingIsLatched
  <2>2. CASE ~requests[t].latched
    BY <1>3, <1>8, <2>2 DEF Safety!Conclude
  <2> QED
    BY <2>1, <2>2
<1>9. CASE Safety!Send(t) \/ Safety!Recover(t) \/ Safety!Finish(t)
  BY <1>6, <1>8, <1>9 DEF Safety!Send, Safety!Recover, Safety!Finish, Safety!At
<1> QED
  BY <1>4, <1>5, <1>7, <1>8, <1>9

\* The counted rejection is counted in memory and among the unsaved ones.
LEMMA ObserveStep ==
  ASSUME Safety!SafetyAssumption, SafetyInv, NEW t \in Request, Safety!Observe(t)
  PROVE  SafetyInv'
<1> DEFINE w == [requests[t] EXCEPT !.latched = TRUE]
<1>0. PICK s \in Session : s = Safety!SessionAt(t)
  BY DEF Safety!Observe, Safety!At, SafetyInv, Safety!TypeOK, Safety!Work, Safety!SessionAt
<1>1. /\ requests[t] # None /\ requests[t] \in Safety!Work /\ requests[t].at = "sent"
          /\ s = Safety!SessionAt(t)
      /\ requests' = [requests EXCEPT ![t] = w]
      /\ UNCHANGED <<stored, paused, saved>>
  BY <1>0 DEF Safety!Observe, Safety!At, SafetyInv, Safety!TypeOK, Safety!Work, Safety!SessionAt
<1>2. w \in Safety!Work /\ w.at = "sent" /\ w.session = s /\ w.latched
  BY <1>1 DEF Safety!Work, Safety!SessionAt
<1>3. count[s] = Safety!AtMost(Safety!Rejections(s)) /\ Safety!Rejections(s) \in Nat
  BY <1>1 DEF SafetyInv, Safety!TypeOK, Safety!CountIsExact, Safety!Rejections
<1>4. requests'[t] = w /\ \A u \in Request \ {t} : requests'[u] = requests[u]
  BY <1>1 DEF SafetyInv, Safety!TypeOK
<1>5. CASE requests[t].latched
  <2>1. UNCHANGED <<count, seen>>
    BY <1>5 DEF Safety!Observe, Safety!FirstOfRequest
  <2>2. CountedOrFresh' /\ count' \in [Session -> 0..Safety!Limit] /\ paused' \in BOOLEAN
    BY <1>1, <2>1 DEF SafetyInv, Safety!TypeOK, CountedOrFresh, Safety!Rejections
  <2>3. w.session = requests[t].session
    BY <1>1 DEF Safety!Work
  <2> HIDE DEF w
  <2> QED
    BY <1>1, <1>2, <1>3, <1>5, <2>1, <2>2, <2>3, RequestMoves
<1>6. CASE ~requests[t].latched
  <2>1. /\ count' = [count EXCEPT ![s] = Safety!AtMost(@ + 1)]
        /\ seen' = [seen EXCEPT ![s] = @ + 1]
    BY <1>1, <1>6 DEF Safety!Observe, Safety!FirstOfRequest
  <2>2. /\ count'[s] = Safety!AtMost(count[s] + 1) /\ seen'[s] = seen[s] + 1
        /\ \A r \in Session \ {s} : count'[r] = count[r] /\ seen'[r] = seen[r]
        /\ saved' = saved /\ stored' = stored
    BY <1>1, <2>1 DEF SafetyInv, Safety!TypeOK
  <2>3. Safety!AtMost(count[s] + 1) = Safety!AtMost(Safety!Rejections(s) + 1)
            /\ Safety!AtMost(count[s] + 1) \in 0..Safety!Limit
    BY <1>3 DEF Safety!AtMost, Safety!Limit
  <2>4. Safety!TypeOK'
    <3>1. count' \in [Session -> 0..Safety!Limit] /\ seen' \in [Session -> Nat]
      BY <1>1, <2>1, <2>3 DEF SafetyInv, Safety!TypeOK
    <3>2. requests' \in [Request -> Safety!Work \cup {None}]
      BY <1>1, <1>2 DEF SafetyInv, Safety!TypeOK
    <3> QED
      BY <1>1, <3>1, <3>2 DEF SafetyInv, Safety!TypeOK
  <2>5. saved'[s] + seen'[s] = Safety!Rejections(s) + 1
            /\ count'[s] = Safety!AtMost(Safety!Rejections(s) + 1)
    BY <1>1, <2>2, <2>3 DEF SafetyInv, Safety!TypeOK, Safety!Rejections
  <2>6. RowBounded'
    <3>1. Unsaved(s)' = Unsaved(s) \cup {t} /\ t \notin Unsaved(s)
      <4>1. w # None
        BY <1>2 DEF Safety!SafetyAssumption
      <4> HIDE DEF w
      <4>2. Unsaved(s)' = {u \in Request : requests'[u] # None /\ requests'[u].latched
                /\ requests'[u].session = s}
        BY DEF Unsaved
      <4> QED
        BY <1>2, <1>4, <1>6, <4>1, <4>2 DEF Unsaved
    <3>2. Cardinality(Unsaved(s)') = Cardinality(Unsaved(s)) + 1
      BY <1>1, <3>1, UnsavedCounts, FS_AddElement
    <3>3. \A r \in Session \ {s} : Unsaved(r)' = Unsaved(r)
      BY <1>1, <1>2, <1>4, <1>6 DEF Unsaved
    <3>4. ASSUME NEW r \in Session
          PROVE  saved'[r] <= stored'[r] /\ stored'[r] + Cardinality(Unsaved(r)') <= saved'[r] + seen'[r]
      <4>1. /\ saved[r] <= stored[r] /\ stored[r] + Cardinality(Unsaved(r)) <= saved[r] + seen[r]
            /\ Cardinality(Unsaved(r)) \in Nat
        BY UnsavedCounts DEF SafetyInv, RowBounded
      <4> QED
        BY <1>1, <2>2, <3>2, <3>3, <4>1 DEF SafetyInv, Safety!TypeOK
    <3> QED
      BY <3>4 DEF RowBounded
  <2>7. CountedOrFresh'
    <3> SUFFICES ASSUME NEW r \in Session
                 PROVE  count'[r] = Safety!AtMost(saved'[r] + seen'[r]) \/ (count'[r] = 0 /\ seen'[r] = 0)
      BY DEF CountedOrFresh, Safety!Rejections, Safety!AtMost
    <3> QED
      BY <2>2, <2>5 DEF SafetyInv, CountedOrFresh, Safety!Rejections
  <2>8. ReadBounded'
    <3> SUFFICES ASSUME NEW u \in Request, requests'[u] # None, requests'[u].at = "read"
                 PROVE  /\ saved'[requests'[u].session] <= requests'[u].loaded
                        /\ requests'[u].loaded <= saved'[requests'[u].session] + seen'[requests'[u].session]
      BY DEF ReadBounded, Safety!At, Safety!SessionAt, Safety!Rejections
    <3>1. u # t /\ requests'[u] = requests[u]
      BY <1>2, <1>4
    <3>2. requests[u].session \in Session /\ requests[u].loaded \in Nat
      BY <3>1 DEF SafetyInv, Safety!TypeOK, Safety!Work
    <3>3. saved[requests[u].session] <= requests[u].loaded
              /\ requests[u].loaded <= Safety!Rejections(requests[u].session)
      BY <3>1 DEF SafetyInv, ReadBounded, Safety!At, Safety!SessionAt
    <3>4. seen'[requests[u].session] >= seen[requests[u].session]
      BY <2>2, <3>2 DEF SafetyInv, Safety!TypeOK
    <3> QED
      BY <2>2, <2>4, <3>1, <3>2, <3>3, <3>4 DEF SafetyInv, Safety!TypeOK, Safety!Rejections
  <2>9. SavingIsLatched'
    BY <1>2, <1>4 DEF SafetyInv, SavingIsLatched
  <2>10. Safety!CountIsExact'
    <3> SUFFICES ASSUME NEW u \in Request, requests'[u] # None, requests'[u].at \notin {"reading", "read"}
                 PROVE  count'[requests'[u].session]
                          = Safety!AtMost(saved'[requests'[u].session] + seen'[requests'[u].session])
      BY DEF Safety!CountIsExact, Safety!SessionAt, Safety!Rejections, Safety!AtMost
    <3>1. CASE requests'[u].session = s
      BY <2>5, <3>1
    <3>2. CASE requests'[u].session # s
      <4>1. requests'[u] = requests[u] /\ requests[u].session \in Session
        BY <1>2, <1>4, <3>2 DEF SafetyInv, Safety!TypeOK, Safety!Work
      <4>2. count[requests[u].session] = Safety!AtMost(Safety!Rejections(requests[u].session))
        BY <4>1 DEF SafetyInv, Safety!CountIsExact, Safety!SessionAt
      <4> QED
        BY <2>2, <3>2, <4>1, <4>2 DEF Safety!Rejections
    <3> QED
      BY <3>1, <3>2
  <2> QED
    BY <2>4, <2>6, <2>7, <2>8, <2>9, <2>10 DEF SafetyInv
<1> QED
  BY <1>5, <1>6

\* A rejection that the row counts is no longer unsaved.
LEMMA SaveRejectionStep ==
  ASSUME Safety!SafetyAssumption, SafetyInv, NEW t \in Request, Safety!Save(t) \/ Safety!SaveFails(t)
  PROVE  SafetyInv'
<1>0. PICK s \in Session : s = Safety!SessionAt(t)
  BY DEF Safety!Save, Safety!SaveFails, Safety!At, SafetyInv, Safety!TypeOK, Safety!Work,
     Safety!SessionAt
<1>1. /\ requests[t] # None /\ requests[t].at = "saving" /\ requests[t].latched /\ requests[t].session = s
      /\ requests' = [requests EXCEPT ![t] = None]
      /\ Safety!Increment(s) \/ UNCHANGED stored
      /\ paused' \in BOOLEAN
      /\ UNCHANGED <<count, saved, seen>>
  BY <1>0 DEF Safety!Save, Safety!SaveFails, Safety!End, Safety!At, Safety!SessionAt,
     SafetyInv, Safety!TypeOK, Safety!Work, SavingIsLatched
<1>2. requests'[t] = None /\ \A u \in Request \ {t} : requests'[u] = requests[u]
  BY <1>1 DEF SafetyInv, Safety!TypeOK
<1>3. /\ stored' \in [Session -> 0..Safety!Limit]
      /\ stored'[s] \in {stored[s], Safety!AtMost(stored[s] + 1)}
      /\ \A r \in Session \ {s} : stored'[r] = stored[r]
  BY <1>1 DEF Safety!Increment, SafetyInv, Safety!TypeOK, Safety!AtMost, Safety!Limit
<1>4. Safety!TypeOK'
  BY <1>1, <1>3 DEF SafetyInv, Safety!TypeOK
<1>5. RowBounded'
  <2>1. Unsaved(s)' = Unsaved(s) \ {t} /\ t \in Unsaved(s)
    <3>1. Unsaved(s)' = {u \in Request : requests'[u] # None /\ requests'[u].latched
              /\ requests'[u].session = s}
      BY <1>1 DEF Unsaved
    <3> QED
      BY <1>1, <1>2, <3>1 DEF Unsaved
  <2>2. Cardinality(Unsaved(s)') = Cardinality(Unsaved(s)) - 1
    BY <1>1, <2>1, UnsavedCounts, FS_RemoveElement
  <2>3. \A r \in Session \ {s} : Unsaved(r)' = Unsaved(r)
    BY <1>1, <1>2 DEF Unsaved
  <2>4. stored[s] <= stored'[s] /\ stored'[s] <= stored[s] + 1
    BY <1>1, <1>3 DEF SafetyInv, Safety!TypeOK, Safety!AtMost, Safety!Limit
  <2>5. ASSUME NEW r \in Session
        PROVE  saved'[r] <= stored'[r] /\ stored'[r] + Cardinality(Unsaved(r)') <= saved'[r] + seen'[r]
    <3>1. /\ saved[r] <= stored[r] /\ stored[r] + Cardinality(Unsaved(r)) <= saved[r] + seen[r]
          /\ Cardinality(Unsaved(r)) \in Nat
      BY UnsavedCounts DEF SafetyInv, RowBounded
    <3>2. stored[r] \in Nat /\ stored'[r] \in Nat /\ saved[r] \in Nat /\ seen[r] \in Nat
      BY <1>3 DEF SafetyInv, Safety!TypeOK
    <3> QED
      BY <1>1, <1>3, <2>2, <2>3, <2>4, <3>1, <3>2
  <2> QED
    BY <2>5 DEF RowBounded
<1>6. CountedOrFresh'
  BY <1>1 DEF SafetyInv, CountedOrFresh, Safety!Rejections
<1>7. ReadBounded' /\ SavingIsLatched'
  BY <1>1, <1>2
     DEF SafetyInv, ReadBounded, SavingIsLatched, Safety!At, Safety!SessionAt, Safety!Rejections
<1>8. Safety!CountIsExact'
  BY <1>1, <1>2 DEF SafetyInv, Safety!CountIsExact, Safety!SessionAt, Safety!Rejections
<1> QED
  BY <1>4, <1>5, <1>6, <1>7, <1>8 DEF SafetyInv

\* A restart forgets what was not stored.
LEMMA ForgetStep ==
  ASSUME Safety!SafetyAssumption, SafetyInv, Safety!Restart
  PROVE  SafetyInv'
<1>1. stored' \in [Session -> 0..Safety!Limit]
  BY DEF Safety!Restart, Safety!Increment, SafetyInv, Safety!TypeOK, Safety!AtMost, Safety!Limit
<1>2. /\ count' = [s \in Session |-> 0] /\ seen' = [s \in Session |-> 0] /\ saved' = stored'
      /\ requests' = [t \in Request |-> None] /\ paused' = FALSE
  BY DEF Safety!Restart
<1>3. Safety!TypeOK'
  <2>1. count' \in [Session -> 0..Safety!Limit] /\ saved' \in [Session -> Nat]
            /\ seen' \in [Session -> Nat]
    BY <1>1, <1>2 DEF Safety!Limit
  <2>2. paused' \in BOOLEAN /\ requests' \in [Request -> Safety!Work \cup {None}]
    BY <1>2
  <2> QED
    BY <1>1, <2>1, <2>2 DEF Safety!TypeOK
<1>4. RowBounded'
  <2>1. \A s \in Session : Unsaved(s)' = {}
    BY <1>2 DEF Unsaved
  <2> QED
    BY <1>1, <1>2, <2>1, FS_EmptySet DEF RowBounded
<1>5. CountedOrFresh' /\ ReadBounded' /\ SavingIsLatched' /\ Safety!CountIsExact'
  BY <1>2 DEF CountedOrFresh, ReadBounded, SavingIsLatched, Safety!CountIsExact, Safety!At
<1> QED
  BY <1>3, <1>4, <1>5 DEF SafetyInv

LEMMA SafetyInvInit ==
  ASSUME Safety!SafetyAssumption, Safety!Init
  PROVE  SafetyInv
<1>1. Safety!TypeOK
  <2>1. /\ count \in [Session -> 0..Safety!Limit] /\ stored \in [Session -> 0..Safety!Limit]
        /\ saved \in [Session -> Nat] /\ seen \in [Session -> Nat]
    BY DEF Safety!Init, Safety!Limit
  <2>2. paused \in BOOLEAN /\ requests \in [Request -> Safety!Work \cup {None}]
    BY DEF Safety!Init
  <2> QED
    BY <2>1, <2>2 DEF Safety!TypeOK
<1>2. RowBounded
  <2>1. \A s \in Session : Unsaved(s) = {}
    BY DEF Safety!Init, Unsaved
  <2> QED
    BY <2>1, FS_EmptySet DEF Safety!Init, RowBounded
<1>3. CountedOrFresh /\ ReadBounded /\ SavingIsLatched /\ Safety!CountIsExact
  BY
     DEF Safety!Init, CountedOrFresh, ReadBounded, SavingIsLatched, Safety!CountIsExact, Safety!At
<1> QED
  BY <1>1, <1>2, <1>3 DEF SafetyInv

LEMMA SafetyInvStep ==
  ASSUME Safety!SafetyAssumption, SafetyInv, [Safety!Next]_(Safety!vars)
  PROVE  SafetyInv'
<1>1. CASE UNCHANGED Safety!vars
  BY <1>1
     DEF Safety!vars, SafetyInv, Safety!TypeOK, RowBounded, Unsaved, CountedOrFresh, ReadBounded,
              SavingIsLatched, Safety!CountIsExact, Safety!Rejections, Safety!At, Safety!SessionAt
<1>2. ASSUME NEW t \in Request, Safety!TaskStep(t)
      PROVE  SafetyInv'
  BY <1>2, QuietStep, RestoreStep, ObserveStep, SaveRejectionStep DEF Safety!TaskStep
<1> QED
  BY <1>1, <1>2, ForgetStep DEF Safety!Next

\* The services take the steps of SafetyGuard, or none.
LEMMA SafetyIsImplemented == [ServicesNext]_allVars => [Safety!Next]_(Safety!vars)
BY DEF ServicesNext, allVars, safetyVars, Safety!vars

LEMMA SafetyIsAssumed == Safety!SafetyAssumption
BY ServicesAssumption DEF ServicesAssumption

LEMMA SafetyHolds == ServicesSpec => []SafetyInv
<1>1. ServicesInit => SafetyInv
  BY SafetyIsAssumed, SafetyInvInit DEF ServicesInit
<1>2. SafetyInv /\ [ServicesNext]_allVars => SafetyInv'
  BY SafetyIsAssumed, SafetyIsImplemented, SafetyInvStep
<1> QED
  BY <1>1, <1>2, PTL DEF ServicesSpec

\* application/safety.rs: behind the check at its arrival a request sees each
\* rejection of its session once, for any number of sessions and requests and any
\* crossing of reads, rejections, saves and restarts.
THEOREM ServicesCountExact == ServicesSpec => []CountIsExact
<1>1. SafetyInv => CountIsExact
  BY DEF SafetyInv, CountIsExact
<1> QED
  BY <1>1, SafetyHolds, PTL

\* application/safety.rs: the check before an attempt lets no session through that
\* has been rejected three times.
THEOREM ServicesBlockedNotSent == ServicesSpec => BlockedIsNotSent
<1> DEFINE Safe == \A t \in Request : Safety!At(t, "leased") /\ Safety!At(t, "sent")'
               => Safety!Rejections(Safety!SessionAt(t)) < Safety!Limit
<1>1. ASSUME SafetyInv, [Safety!Next]_(Safety!vars)
      PROVE  Safe
  <2> SUFFICES ASSUME NEW t \in Request, Safety!At(t, "leased"), Safety!At(t, "sent")'
               PROVE  Safety!Rejections(Safety!SessionAt(t)) < Safety!Limit
    OBVIOUS
  <2>1. requests' # requests /\ requests[t] \in Safety!Work /\ Safety!SessionAt(t) \in Session
            /\ requests'[t] # None
    BY <1>1 DEF Safety!At, SafetyInv, Safety!TypeOK, Safety!Work, Safety!SessionAt
  <2>2. ~Safety!Restart
    BY <2>1 DEF Safety!Restart
  <2>3. PICK u \in Request : Safety!TaskStep(u)
    BY <1>1, <2>1, <2>2 DEF Safety!Next, Safety!vars
  <2>4. u = t
    <3>1. \A w \in Request \ {u} : requests'[w] = requests[w]
      BY <1>1, <2>3 DEF Safety!TaskStep, Safety!Arrive, Safety!Read, Safety!Restore,
         Safety!Lease, Safety!Send, Safety!Recover, Safety!Observe, Safety!Finish,
         Safety!Save, Safety!Conclude,
                  Safety!SaveFails, Safety!Advance, Safety!End, SafetyInv, Safety!TypeOK
    <3> QED
      BY <3>1 DEF Safety!At
  <2>5. Safety!Send(t)
    BY <1>1, <2>1, <2>3, <2>4 DEF Safety!TaskStep, Safety!Arrive, Safety!Read, Safety!Restore,
       Safety!Lease, Safety!Recover, Safety!Observe, Safety!Finish, Safety!Conclude,
       Safety!Save,
                      Safety!SaveFails, Safety!Advance, Safety!End, Safety!At, SafetyInv, Safety!TypeOK, Safety!Work
  <2>6. Safety!MaySend(t)
    BY <1>1, <2>1, <2>5 DEF Safety!Send, Safety!Conclude, Safety!Advance, Safety!End,
       Safety!At, SafetyInv, Safety!TypeOK, Safety!Work
  <2>7. count[Safety!SessionAt(t)] = Safety!AtMost(Safety!Rejections(Safety!SessionAt(t)))
    BY <1>1 DEF SafetyInv, Safety!CountIsExact, Safety!At
  <2>8. Safety!Rejections(Safety!SessionAt(t)) \in Nat
    BY <1>1, <2>1 DEF SafetyInv, Safety!TypeOK, Safety!Rejections
  <2> QED
    BY <2>6, <2>7, <2>8 DEF Safety!MaySend, Safety!Allowed, Safety!AtMost, Safety!Limit
<1>2. SafetyInv /\ [ServicesNext]_allVars => [Safe]_(Safety!vars)
  BY <1>1, SafetyIsImplemented
<1> QED
  BY <1>2, SafetyHolds, PTL DEF ServicesSpec, BlockedIsNotSent, Safety!BlockedIsNotSent

-----------------------------------------------------------------------------
(* Memory admission. *)

InAdmission == part = "admission"

\* A behaviour is one of a single part.
LEMMA AdmissionStays == ServicesSpec => []InAdmission \/ []~InAdmission
<1>1. InAdmission /\ [ServicesNext]_allVars => InAdmission'
  BY DEF ServicesNext, allVars, InAdmission
<1>2. ~InAdmission /\ [ServicesNext]_allVars => ~InAdmission'
  BY DEF ServicesNext, allVars, InAdmission
<1> QED
  BY <1>1, <1>2, PTL DEF ServicesSpec

\* Every behaviour of the part "admission" is one of Admission.
LEMMA AdmissionIsImplemented == ServicesSpec /\ InAdmission => AdmissionFacts!Spec
<1>1. ServicesInit /\ InAdmission => AdmissionFacts!Init
  BY DEF InAdmission, ServicesInit, Admitted!Init, AdmissionFacts!Init, Admitted!Fresh,
     AdmissionFacts!Fresh
<1>2. Admitted!Next => AdmissionFacts!Next
  BY
     DEF Admitted!Next, Admitted!TaskStep, Admitted!Environment, Admitted!Status, Admitted!Restart,
         Admitted!Enter, Admitted!Frame, Admitted!BodyEnd, Admitted!Lock,
         Admitted!ParseCheck, Admitted!Parsed, Admitted!Refuse, Admitted!StartsInsert,
         Admitted!Started, Admitted!StartFails, Admitted!OnInsertError,
         Admitted!RecordRefusal, Admitted!CloseRefusal, Admitted!RunEnds,
         Admitted!Disconnect, Admitted!Fails, Admitted!Passes, Admitted!Leave,
         Admitted!Release, Admitted!Insert, Admitted!Close, Admitted!Measured,
         Admitted!MayReuse, Admitted!Refuses, Admitted!High, Admitted!Low, Admitted!Domains,
         Admitted!Fresh, Admitted!At, Admitted!Move, Admitted!Holds, Admitted!Buffers,
         AdmissionFacts!Next, AdmissionFacts!TaskStep, AdmissionFacts!Environment,
         AdmissionFacts!Status, AdmissionFacts!Restart, AdmissionFacts!Enter,
         AdmissionFacts!Frame, AdmissionFacts!BodyEnd, AdmissionFacts!Lock,
         AdmissionFacts!ParseCheck, AdmissionFacts!Parsed, AdmissionFacts!Refuse,
         AdmissionFacts!StartsInsert, AdmissionFacts!Started, AdmissionFacts!StartFails,
         AdmissionFacts!OnInsertError, AdmissionFacts!RecordRefusal,
         AdmissionFacts!CloseRefusal, AdmissionFacts!RunEnds, AdmissionFacts!Disconnect,
         AdmissionFacts!Fails, AdmissionFacts!Passes, AdmissionFacts!Leave,
         AdmissionFacts!Release, AdmissionFacts!Insert, AdmissionFacts!Close,
         AdmissionFacts!Measured, AdmissionFacts!MayReuse, AdmissionFacts!Refuses,
         AdmissionFacts!High, AdmissionFacts!Low, AdmissionFacts!Domains,
         AdmissionFacts!Fresh, AdmissionFacts!At, AdmissionFacts!Move, AdmissionFacts!Holds,
         AdmissionFacts!Buffers
<1>3. InAdmission /\ [ServicesNext]_allVars => [AdmissionFacts!Next]_(AdmissionFacts!vars)
  <2>1. UNCHANGED partVars => UNCHANGED AdmissionFacts!vars
    BY DEF partVars, AdmissionFacts!vars
  <2>2. part = "admission" /\ PartNext => Admitted!Next
    BY DEF PartNext, InAdmission
  <2> QED
    BY <1>2, <2>1, <2>2 DEF ServicesNext, allVars, InAdmission
<1> QED
  BY <1>1, <1>3, AdmissionStays, PTL DEF ServicesSpec, AdmissionFacts!Spec

LEMMA AdmissionIsAssumed == AdmissionFacts!AdmissionAssumption
BY ServicesAssumption DEF ServicesAssumption, Admitted!AdmissionAssumption,
   AdmissionFacts!AdmissionAssumption, Admitted!IsFiniteSet, AdmissionFacts!IsFiniteSet,
   Admitted!Row, AdmissionFacts!Row

\* memory.rs and public.rs: readers and buffered bytes are counted exactly, and a
\* refused request has no task.
THEOREM ServicesAdmission == ServicesSpec => []AdmissionHolds
<1>1. AdmissionFacts!Spec => []AdmissionFacts!AdmissionCounted /\ []AdmissionFacts!RefusedNeverRuns
  BY AdmissionIsAssumed, AdmissionFacts!PermitsReturned, AdmissionFacts!RefusalIsFinal
<1>2. AdmissionFacts!AdmissionCounted /\ AdmissionFacts!RefusedNeverRuns => AdmissionHolds
  <2>1. AdmissionFacts!AdmissionCounted => Admitted!AdmissionCounted
    BY
       DEF AdmissionFacts!AdmissionCounted, Admitted!AdmissionCounted, AdmissionFacts!Cardinality,
      Admitted!Cardinality, AdmissionFacts!MapThenSumSet, Admitted!MapThenSumSet,
      AdmissionFacts!MapThenFoldSet, Admitted!MapThenFoldSet, AdmissionFacts!Holds,
      Admitted!Holds, AdmissionFacts!At, Admitted!At
  <2>2. AdmissionFacts!RefusedNeverRuns => Admitted!RefusedNeverRuns
    BY DEF AdmissionFacts!RefusedNeverRuns, Admitted!RefusedNeverRuns
  <2> QED
    BY <2>1, <2>2 DEF AdmissionHolds
<1>3. ~InAdmission => AdmissionHolds
  BY DEF AdmissionHolds, InAdmission
<1> QED
  BY <1>1, <1>2, <1>3, AdmissionStays, AdmissionIsImplemented, PTL

\* memory.rs: a body is read only below the threshold of this moment.
THEOREM ServicesEntry == ServicesSpec => EnteredBelowThreshold
<1> DEFINE Below == part = "admission" => Admitted!EntersBelowThreshold
<1>1. AdmissionFacts!Spec => [][AdmissionFacts!EntersBelowThreshold]_(AdmissionFacts!vars)
  BY AdmissionIsAssumed, AdmissionFacts!MeasuredOnEntry
<1>2. AdmissionFacts!EntersBelowThreshold => Below
  BY DEF AdmissionFacts!EntersBelowThreshold, Admitted!EntersBelowThreshold, AdmissionFacts!At,
    Admitted!At, AdmissionFacts!High, Admitted!High, AdmissionFacts!Low, Admitted!Low,
    AdmissionFacts!Domains, Admitted!Domains
<1>3. UNCHANGED AdmissionFacts!vars => Below
  BY DEF AdmissionFacts!vars, Admitted!EntersBelowThreshold, Admitted!At
<1>4. ~InAdmission => Below
  BY DEF InAdmission
<1>5. [AdmissionFacts!EntersBelowThreshold]_(AdmissionFacts!vars) => [Below]_allVars
  BY <1>2, <1>3
<1>6. ~InAdmission => [Below]_allVars
  BY <1>4
<1>7. ServicesSpec => [][Below]_allVars
  <2> HIDE DEF Below
  <2> QED
    BY <1>1, <1>5, <1>6, AdmissionStays, AdmissionIsImplemented, PTL
<1> QED
  BY <1>7 DEF EnteredBelowThreshold

-----------------------------------------------------------------------------
(* Gateway keys. *)

InKeys == part = "keys"

LEMMA KeysStay == ServicesSpec => []InKeys \/ []~InKeys
<1>1. InKeys /\ [ServicesNext]_allVars => InKeys'
  BY DEF ServicesNext, allVars, InKeys
<1>2. ~InKeys /\ [ServicesNext]_allVars => ~InKeys'
  BY DEF ServicesNext, allVars, InKeys
<1> QED
  BY <1>1, <1>2, PTL DEF ServicesSpec

\* What a handler does with an answer of the store is the same.
LEMMA SameAnswers ==
  ASSUME NEW t
  PROVE  /\ Keys!Written(t) <=> KeyFacts!Written(t)
         /\ Keys!Reload(t) <=> KeyFacts!Reload(t)
<1>1. ASSUME NEW w
      PROVE  Keys!Apply(w) <=> KeyFacts!Apply(w)
  BY DEF
         Keys!Apply, KeyFacts!Apply, Keys!PutKey, KeyFacts!PutKey, Keys!SetEnabled,
         KeyFacts!SetEnabled, Keys!UpdateKey, KeyFacts!UpdateKey, Keys!DeleteKey,
         KeyFacts!DeleteKey, Keys!CreateGroup, KeyFacts!CreateGroup, Keys!DropGroup,
         KeyFacts!DropGroup, Keys!SaveSettings, KeyFacts!SaveSettings, Keys!Present,
         KeyFacts!Present, Keys!ValidGroup, KeyFacts!ValidGroup, Keys!InUse,
         KeyFacts!InUse, Keys!SetRow, KeyFacts!SetRow
<1>2. ASSUME NEW w
      PROVE  Keys!Published(w) <=> KeyFacts!Published(w)
  BY DEF
         Keys!Published, KeyFacts!Published, Keys!Publish, KeyFacts!Publish, Keys!Remove,
         KeyFacts!Remove, Keys!PublishSettings, KeyFacts!PublishSettings, Keys!GroupOp,
         KeyFacts!GroupOp, Keys!memory, KeyFacts!memory
<1>3. Keys!ReconcileKeys <=> KeyFacts!ReconcileKeys
  BY DEF
         Keys!ReconcileKeys, KeyFacts!ReconcileKeys, Keys!Present, KeyFacts!Present,
         Keys!Decoded, KeyFacts!Decoded
<1>4. Keys!At(t, "writing") /\ Keys!End(t) <=> KeyFacts!At(t, "writing") /\ KeyFacts!End(t)
  BY DEF Keys!At, KeyFacts!At, Keys!End, KeyFacts!End
<1>5. Keys!Written(t) <=> KeyFacts!Written(t)
  BY <1>1, <1>2, <1>4 DEF Keys!Written, KeyFacts!Written
<1>6. Keys!Reload(t) <=> KeyFacts!Reload(t)
  BY <1>3 DEF
         Keys!Reload, KeyFacts!Reload, Keys!At, KeyFacts!At, Keys!End, KeyFacts!End,
         Keys!PublishSettings, KeyFacts!PublishSettings, Keys!store, KeyFacts!store
<1> QED
  BY <1>5, <1>6

\* Every behaviour of the part "keys" is one of KeyControl.
LEMMA KeysAreImplemented == ServicesSpec /\ InKeys => KeyFacts!Spec
<1>1. ServicesInit /\ InKeys => KeyFacts!Init
  BY DEF InKeys, ServicesInit, Keys!Init, KeyFacts!Init
<1>2. Keys!Next => KeyFacts!Next
  <2>1. ASSUME NEW w
        PROVE  Keys!Apply(w) <=> KeyFacts!Apply(w)
    BY DEF
           Keys!Apply, KeyFacts!Apply, Keys!PutKey, KeyFacts!PutKey, Keys!SetEnabled,
           KeyFacts!SetEnabled, Keys!UpdateKey, KeyFacts!UpdateKey, Keys!DeleteKey,
           KeyFacts!DeleteKey, Keys!CreateGroup, KeyFacts!CreateGroup, Keys!DropGroup,
           KeyFacts!DropGroup, Keys!SaveSettings, KeyFacts!SaveSettings, Keys!Present,
           KeyFacts!Present, Keys!ValidGroup, KeyFacts!ValidGroup, Keys!InUse,
           KeyFacts!InUse, Keys!SetRow, KeyFacts!SetRow
  <2>2. ASSUME NEW t \in Task, Keys!Open(t) \/ Keys!Acquire(t)
        PROVE  KeyFacts!Open(t) \/ KeyFacts!Acquire(t)
    BY <2>2 DEF
           Keys!Open, KeyFacts!Open, Keys!Acquire, KeyFacts!Acquire, Keys!Job,
           KeyFacts!Job, Keys!Jobs, KeyFacts!Jobs, Keys!GroupOp, KeyFacts!GroupOp,
           Keys!Blocking, KeyFacts!Blocking, Keys!At, KeyFacts!At, Keys!store,
           KeyFacts!store, Keys!memory, KeyFacts!memory
  <2>3. ASSUME NEW t \in Task, Keys!Written(t)
        PROVE  KeyFacts!Written(t)
    BY <2>3, SameAnswers
  <2>4. ASSUME NEW t \in Task, Keys!Failed(t) \/ Keys!Depart(t)
        PROVE  KeyFacts!Failed(t) \/ KeyFacts!Depart(t)
    BY <2>1, <2>4 DEF
           Keys!Failed, KeyFacts!Failed, Keys!Depart, KeyFacts!Depart, Keys!Reconciles,
           KeyFacts!Reconciles, Keys!Blocking, KeyFacts!Blocking, Keys!Move, KeyFacts!Move,
           Keys!End, KeyFacts!End, Keys!At, KeyFacts!At, Keys!store, KeyFacts!store,
           Keys!memory, KeyFacts!memory
  <2>5. ASSUME NEW t \in Task, Keys!Reload(t)
        PROVE  KeyFacts!Reload(t)
    BY <2>5, SameAnswers
  <2>6. ASSUME NEW r, Keys!Arrive(r) \/ Keys!Send(r) \/ Keys!Answer(r)
        PROVE  KeyFacts!Arrive(r) \/ KeyFacts!Send(r) \/ KeyFacts!Answer(r)
    BY <2>6 DEF
           Keys!Arrive, KeyFacts!Arrive, Keys!Send, KeyFacts!Send, Keys!Answer,
           KeyFacts!Answer, Keys!CheckKey, KeyFacts!CheckKey, Keys!Present,
           KeyFacts!Present, Keys!store, KeyFacts!store, Keys!memory, KeyFacts!memory
  <2>7. Keys!Restart => KeyFacts!Restart
    BY <2>1 DEF
           Keys!Restart, KeyFacts!Restart, Keys!Present, KeyFacts!Present, Keys!Decoded,
           KeyFacts!Decoded, Keys!At, KeyFacts!At, Keys!store, KeyFacts!store
  <2> QED
    BY <2>2, <2>3, <2>4, <2>5, <2>6, <2>7 DEF Keys!Next, KeyFacts!Next
<1>3. InKeys /\ [ServicesNext]_allVars => [KeyFacts!Next]_(KeyFacts!vars)
  <2>1. UNCHANGED partVars => UNCHANGED KeyFacts!vars
    BY DEF partVars, KeyFacts!vars, KeyFacts!store, KeyFacts!memory
  <2>2. part = "keys" /\ PartNext => Keys!Next
    BY DEF PartNext, InKeys
  <2> QED
    BY <1>2, <2>1, <2>2 DEF ServicesNext, allVars, InKeys
<1> QED
  BY <1>1, <1>3, KeysStay, PTL DEF ServicesSpec, KeyFacts!Spec

LEMMA KeysAreAssumed == KeyFacts!KeysAssumption
BY ServicesAssumption DEF ServicesAssumption, Keys!KeysAssumption, KeyFacts!KeysAssumption,
   Keys!Record, KeyFacts!Record, Keys!Row, KeyFacts!Row, Keys!Work, KeyFacts!Work,
   Keys!Routed, KeyFacts!Routed, Keys!KeyOp, KeyFacts!KeyOp, Keys!GroupOp, KeyFacts!GroupOp

\* admin.rs: a request is sent only under the key row in the store, and a change
\* that was answered leaves memory on what is stored, or the gateway paused.
THEOREM ServicesKeys == ServicesSpec => KeysFollowStore
<1> DEFINE Follows == part = "keys" => Keys!SendsByStoredKey /\ Keys!AnswersSettled
<1>1. KeyFacts!Spec => [][KeyFacts!SendsByStoredKey]_(KeyFacts!vars)
  BY KeysAreAssumed, KeyFacts!OnlyStoredKeys
<1>2. KeyFacts!Spec => []KeyFacts!KeyInv
  BY KeysAreAssumed, KeyFacts!KeyHolds
<1>3. KeyFacts!KeyInv => Keys!AnswersSettled
  <2>1. KeyFacts!KeyInv => KeyFacts!AnswersSettled
    BY KeysAreAssumed, KeyFacts!AnswerFollows
  <2>2. KeyFacts!AnswersSettled => Keys!AnswersSettled
    <3>1. ASSUME NEW k
          PROVE  Keys!Agrees(k)' <=> KeyFacts!Agrees(k)'
      BY DEF
             Keys!Agrees, KeyFacts!Agrees, Keys!Present, KeyFacts!Present, Keys!Decoded,
             KeyFacts!Decoded
    <3>2. ASSUME NEW w
          PROVE  Keys!Reconciles(w) <=> KeyFacts!Reconciles(w)
      BY DEF Keys!Reconciles, KeyFacts!Reconciles, Keys!Blocking, KeyFacts!Blocking
    <3> QED
      BY <3>1, <3>2, SameAnswers
         DEF Keys!AnswersSettled, KeyFacts!AnswersSettled, Keys!Blocking,
         KeyFacts!Blocking
  <2> QED
    BY <2>1, <2>2
<1>4. KeyFacts!SendsByStoredKey => Keys!SendsByStoredKey
  BY DEF Keys!SendsByStoredKey, KeyFacts!SendsByStoredKey, Keys!Present, KeyFacts!Present,
         Keys!Decoded, KeyFacts!Decoded
<1>5. UNCHANGED KeyFacts!vars => Keys!SendsByStoredKey
  BY DEF KeyFacts!vars, Keys!SendsByStoredKey
<1>6. KeyFacts!KeyInv /\ [KeyFacts!SendsByStoredKey]_(KeyFacts!vars) => [Follows]_allVars
  BY <1>3, <1>4, <1>5
<1>7. ~InKeys => [Follows]_allVars
  BY DEF InKeys
<1>8. ServicesSpec => [][Follows]_allVars
  <2> HIDE DEF Follows
  <2> QED
    BY <1>1, <1>2, <1>6, <1>7, KeysStay, KeysAreImplemented, PTL
<1> QED
  BY <1>8 DEF KeysFollowStore

-----------------------------------------------------------------------------
(* Authorizations. *)

InAuthorization == part = "authorization"

LEMMA AuthorizationStays == ServicesSpec => []InAuthorization \/ []~InAuthorization
<1>1. InAuthorization /\ [ServicesNext]_allVars => InAuthorization'
  BY DEF ServicesNext, allVars, InAuthorization
<1>2. ~InAuthorization /\ [ServicesNext]_allVars => ~InAuthorization'
  BY DEF ServicesNext, allVars, InAuthorization
<1> QED
  BY <1>1, <1>2, PTL DEF ServicesSpec

\* Every behaviour of the part "authorization" is one of Authorizations.
LEMMA AuthorizationIsImplemented == ServicesSpec /\ InAuthorization => AuthFacts!Spec
<1>1. ServicesInit /\ InAuthorization => AuthFacts!Init
  BY DEF InAuthorization, ServicesInit,
         Authorized!Init, AuthFacts!Init, Authorized!Idle, AuthFacts!Idle
<1>2. Authorized!Next => AuthFacts!Next
  <2>1. ASSUME NEW f \in Task, Authorized!StartBrowser(f) \/ Authorized!StartDevice(f)
        PROVE  AuthFacts!StartBrowser(f) \/ AuthFacts!StartDevice(f)
    BY <2>1 DEF
           Authorized!StartBrowser, AuthFacts!StartBrowser,
           Authorized!StartDevice, AuthFacts!StartDevice, Authorized!Start,
           AuthFacts!Start, Authorized!At, AuthFacts!At, Authorized!Room,
           AuthFacts!Room, Authorized!Current, AuthFacts!Current,
           Authorized!Listed, AuthFacts!Listed, Authorized!Pruned,
           AuthFacts!Pruned, Authorized!Cardinality, AuthFacts!Cardinality
  <2>2. ASSUME NEW f \in Task, Authorized!DeviceCode(f) \/ Authorized!Poll(f)
        PROVE  AuthFacts!DeviceCode(f) \/ AuthFacts!Poll(f)
    BY <2>2 DEF
           Authorized!DeviceCode, AuthFacts!DeviceCode, Authorized!Poll,
           AuthFacts!Poll, Authorized!At, AuthFacts!At, Authorized!Move,
           AuthFacts!Move, Authorized!Show, AuthFacts!Show,
           Authorized!Listed, AuthFacts!Listed, Authorized!Exchange,
           AuthFacts!Exchange, Authorized!Fail, AuthFacts!Fail,
           Authorized!Conclude, AuthFacts!Conclude
  <2>3. ASSUME NEW f \in Task, Authorized!Complete(f) \/ Authorized!Cancel(f)
        PROVE  AuthFacts!Complete(f) \/ AuthFacts!Cancel(f)
    BY <2>3 DEF
           Authorized!Complete, AuthFacts!Complete, Authorized!Cancel,
           AuthFacts!Cancel, Authorized!Current, AuthFacts!Current,
           Authorized!Listed, AuthFacts!Listed, Authorized!Taken,
           AuthFacts!Taken, Authorized!Exchange, AuthFacts!Exchange,
           Authorized!Move, AuthFacts!Move, Authorized!At, AuthFacts!At
  <2>4. ASSUME NEW f \in Task, Authorized!Tokens(f) \/ Authorized!Import(f)
        PROVE  AuthFacts!Tokens(f) \/ AuthFacts!Import(f)
    BY <2>4 DEF
           Authorized!Tokens, AuthFacts!Tokens, Authorized!Import,
           AuthFacts!Import, Authorized!At, AuthFacts!At, Authorized!Fail,
           AuthFacts!Fail, Authorized!Move, AuthFacts!Move,
           Authorized!Conclude, AuthFacts!Conclude, Authorized!Listed,
           AuthFacts!Listed
  <2>5. ASSUME NEW f \in Task, Authorized!Acquire(f)
        PROVE  AuthFacts!Acquire(f)
    BY <2>5 DEF
           Authorized!Acquire, AuthFacts!Acquire, Authorized!At,
           AuthFacts!At, Authorized!Suits, AuthFacts!Suits,
           Authorized!Managed, AuthFacts!Managed, Authorized!Fresh,
           AuthFacts!Fresh, Authorized!Fail, AuthFacts!Fail, Authorized!Move,
           AuthFacts!Move, Authorized!Conclude, AuthFacts!Conclude,
           Authorized!Listed, AuthFacts!Listed
  <2>6. ASSUME NEW f \in Task, Authorized!Save(f) \/ Authorized!SaveFails(f)
        PROVE  AuthFacts!Save(f) \/ AuthFacts!SaveFails(f)
    BY <2>6 DEF
           Authorized!Save, AuthFacts!Save, Authorized!SaveFails,
           AuthFacts!SaveFails, Authorized!At, AuthFacts!At,
           Authorized!Apply, AuthFacts!Apply, Authorized!MayWrite,
           AuthFacts!MayWrite, Authorized!Insertion, AuthFacts!Insertion,
           Authorized!Written, AuthFacts!Written, Authorized!Unanswered,
           AuthFacts!Unanswered, Authorized!Move, AuthFacts!Move,
           Authorized!Conclude, AuthFacts!Conclude, Authorized!Fail,
           AuthFacts!Fail, Authorized!Listed, AuthFacts!Listed
  <2>7. ASSUME NEW f \in Task, Authorized!Depart(f) \/ Authorized!Expire(f)
        PROVE  AuthFacts!Depart(f) \/ AuthFacts!Expire(f)
    BY <2>7 DEF
           Authorized!Depart, AuthFacts!Depart, Authorized!Expire,
           AuthFacts!Expire, Authorized!At, AuthFacts!At, Authorized!Move,
           AuthFacts!Move, Authorized!Current, AuthFacts!Current,
           Authorized!Listed, AuthFacts!Listed
  <2>8. ASSUME Authorized!Reload \/ Authorized!Restart
        PROVE  AuthFacts!Reload \/ AuthFacts!Restart
    BY <2>8 DEF
           Authorized!Reload, AuthFacts!Reload, Authorized!Restart,
           AuthFacts!Restart, Authorized!At, AuthFacts!At, Authorized!Apply,
           AuthFacts!Apply, Authorized!MayWrite, AuthFacts!MayWrite,
           Authorized!Insertion, AuthFacts!Insertion, Authorized!Written,
           AuthFacts!Written, Authorized!Unanswered, AuthFacts!Unanswered
  <2>9. ASSUME NEW a, Authorized!DeleteAccount(a)
        PROVE  AuthFacts!DeleteAccount(a)
    BY <2>9 DEF
           Authorized!DeleteAccount, AuthFacts!DeleteAccount
  <2> QED
    BY <2>1, <2>2, <2>3, <2>4, <2>5, <2>6, <2>7, <2>8, <2>9 DEF
           Authorized!Next, AuthFacts!Next, Authorized!FlowStep,
           AuthFacts!FlowStep
<1>3. InAuthorization /\ [ServicesNext]_allVars => [AuthFacts!Next]_(AuthFacts!vars)
  <2>1. UNCHANGED partVars => UNCHANGED AuthFacts!vars
    BY DEF partVars, AuthFacts!vars
  <2>2. part = "authorization" /\ PartNext => Authorized!Next
    BY DEF PartNext, InAuthorization
  <2> QED
    BY <1>2, <2>1, <2>2 DEF ServicesNext, allVars, InAuthorization
<1> QED
  BY <1>1, <1>3, AuthorizationStays, PTL DEF ServicesSpec, AuthFacts!Spec

LEMMA AuthorizationIsAssumed == AuthFacts!AuthorizationAssumption
BY ServicesAssumption DEF ServicesAssumption,
   Authorized!AuthorizationAssumption, AuthFacts!AuthorizationAssumption,
   Authorized!Entry, AuthFacts!Entry, Authorized!Record, AuthFacts!Record,
   Authorized!IsFiniteSet, AuthFacts!IsFiniteSet

\* oauth.rs, oauth_browser.rs and admin.rs: a code is exchanged once, the page of a
\* flow tells what is stored, and an upstream account is managed once.
THEOREM ServicesAuthorizations == ServicesSpec => []AuthorizationsHold
<1>1. AuthFacts!Spec => /\ []AuthFacts!ExchangedOnce /\ []AuthFacts!OutcomeShown
                        /\ []AuthFacts!ManagedOnce
  BY AuthorizationIsAssumed, AuthFacts!CodeExchangedOnce, AuthFacts!PageIsTrue,
     AuthFacts!AccountManagedOnce
<1>2. AuthFacts!ExchangedOnce /\ AuthFacts!OutcomeShown /\ AuthFacts!ManagedOnce =>
        AuthorizationsHold
  BY DEF AuthorizationsHold,
         Authorized!ExchangedOnce, AuthFacts!ExchangedOnce,
         Authorized!OutcomeShown, AuthFacts!OutcomeShown,
         Authorized!ManagedOnce, AuthFacts!ManagedOnce, Authorized!Orphan,
         AuthFacts!Orphan, Authorized!Listed, AuthFacts!Listed, Authorized!At,
         AuthFacts!At
<1>3. ~InAuthorization => AuthorizationsHold
  BY DEF AuthorizationsHold, InAuthorization
<1> QED
  BY <1>1, <1>2, <1>3, AuthorizationStays, AuthorizationIsImplemented, PTL

-----------------------------------------------------------------------------
(* Catalogs. *)

InCatalog == part = "catalog"

LEMMA CatalogStays == ServicesSpec => []InCatalog \/ []~InCatalog
<1>1. InCatalog /\ [ServicesNext]_allVars => InCatalog'
  BY DEF ServicesNext, allVars, InCatalog
<1>2. ~InCatalog /\ [ServicesNext]_allVars => ~InCatalog'
  BY DEF ServicesNext, allVars, InCatalog
<1> QED
  BY <1>1, <1>2, PTL DEF ServicesSpec

\* Every behaviour of the part "catalog" is one of Catalogs.
LEMMA CatalogIsImplemented == ServicesSpec /\ InCatalog => CatalogFacts!Spec
<1>1. ServicesInit /\ InCatalog => CatalogFacts!Init
  BY DEF InCatalog, ServicesInit,
         Synced!Init, CatalogFacts!Init, Synced!Idle, CatalogFacts!Idle,
         Synced!NoJob, CatalogFacts!NoJob, Synced!Process,
         CatalogFacts!Process, Synced!Workers, CatalogFacts!Workers,
         Synced!Worker, CatalogFacts!Worker
<1>2. Synced!Next => CatalogFacts!Next
  <2>0. Synced!Process = CatalogFacts!Process
    BY DEF
           Synced!Process, CatalogFacts!Process, Synced!Workers,
           CatalogFacts!Workers, Synced!Worker, CatalogFacts!Worker
  <2>1. ASSUME NEW p \in Synced!Process, Synced!Begin(p) \/ Synced!Fetch(p) \/ Synced!Settle(p)
        PROVE  CatalogFacts!Begin(p) \/ CatalogFacts!Fetch(p) \/ CatalogFacts!Settle(p)
    BY <2>1 DEF
           Synced!Begin, CatalogFacts!Begin, Synced!Fetch,
           CatalogFacts!Fetch, Synced!Settle, CatalogFacts!Settle,
           Synced!Alone, CatalogFacts!Alone, Synced!Leave,
           CatalogFacts!Leave, Synced!Move, CatalogFacts!Move, Synced!At,
           CatalogFacts!At, Synced!Idle, CatalogFacts!Idle
  <2>2. ASSUME NEW p \in Synced!Process, Synced!Add(p) \/ Synced!Save(p) \/ Synced!SyncFails(p)
        PROVE  CatalogFacts!Add(p) \/ CatalogFacts!Save(p) \/ CatalogFacts!SyncFails(p)
    BY <2>2 DEF
           Synced!Add, CatalogFacts!Add, Synced!Save, CatalogFacts!Save,
           Synced!SyncFails, CatalogFacts!SyncFails, Synced!Unanswered,
           CatalogFacts!Unanswered, Synced!Missing, CatalogFacts!Missing,
           Synced!Configured, CatalogFacts!Configured, Synced!Found,
           CatalogFacts!Found, Synced!Put, CatalogFacts!Put,
           Synced!SaveCatalog, CatalogFacts!SaveCatalog, Synced!PutAccount,
           CatalogFacts!PutAccount, Synced!Leave, CatalogFacts!Leave,
           Synced!Move, CatalogFacts!Move, Synced!At, CatalogFacts!At,
           Synced!Idle, CatalogFacts!Idle
  <2>3. ASSUME NEW h, Synced!Updated(h) \/ Synced!UpdateFails(h) \/ Synced!Depart(h)
        PROVE  CatalogFacts!Updated(h) \/ CatalogFacts!UpdateFails(h) \/ CatalogFacts!Depart(h)
    BY <2>3 DEF
           Synced!Updated, CatalogFacts!Updated, Synced!UpdateFails,
           CatalogFacts!UpdateFails, Synced!Depart, CatalogFacts!Depart,
           Synced!Unanswered, CatalogFacts!Unanswered, Synced!Missing,
           CatalogFacts!Missing, Synced!Configured, CatalogFacts!Configured,
           Synced!Found, CatalogFacts!Found, Synced!Put, CatalogFacts!Put,
           Synced!SaveCatalog, CatalogFacts!SaveCatalog, Synced!PutAccount,
           CatalogFacts!PutAccount, Synced!Leave, CatalogFacts!Leave,
           Synced!Move, CatalogFacts!Move, Synced!At, CatalogFacts!At,
           Synced!Idle, CatalogFacts!Idle
  <2>4. ASSUME NEW h, NEW a, Synced!Ask(h, a) \/ Synced!Update(h, a)
        PROVE  CatalogFacts!Ask(h, a) \/ CatalogFacts!Update(h, a)
    BY <2>4 DEF
           Synced!Ask, CatalogFacts!Ask, Synced!Update, CatalogFacts!Update,
           Synced!At, CatalogFacts!At
  <2>5. ASSUME NEW a, Synced!Report(a) \/ Synced!DeleteAccount(a)
        PROVE  CatalogFacts!Report(a) \/ CatalogFacts!DeleteAccount(a)
    BY <2>5 DEF
           Synced!Report, CatalogFacts!Report, Synced!DeleteAccount,
           CatalogFacts!DeleteAccount, Synced!At, CatalogFacts!At,
           Synced!Worker, CatalogFacts!Worker, Synced!Idle, CatalogFacts!Idle
  <2>6. ASSUME Synced!StartJob \/ Synced!FinishJob
        PROVE  CatalogFacts!StartJob \/ CatalogFacts!FinishJob
    BY <2>0, <2>6 DEF
           Synced!StartJob, CatalogFacts!StartJob, Synced!FinishJob,
           CatalogFacts!FinishJob, Synced!Worker, CatalogFacts!Worker,
           Synced!Process, CatalogFacts!Process, Synced!Workers,
           CatalogFacts!Workers, Synced!At, CatalogFacts!At
  <2>7. ASSUME Synced!SaveModel \/ Synced!Publish
        PROVE  CatalogFacts!SaveModel \/ CatalogFacts!Publish
    BY <2>7 DEF
           Synced!SaveModel, CatalogFacts!SaveModel, Synced!Publish,
           CatalogFacts!Publish, Synced!Put, CatalogFacts!Put
  <2>8. ASSUME Synced!Restart
        PROVE  CatalogFacts!Restart
    BY <2>0, <2>8 DEF
           Synced!Restart, CatalogFacts!Restart, Synced!Process,
           CatalogFacts!Process, Synced!Workers, CatalogFacts!Workers,
           Synced!Worker, CatalogFacts!Worker, Synced!NoJob,
           CatalogFacts!NoJob, Synced!At, CatalogFacts!At, Synced!Unanswered,
           CatalogFacts!Unanswered, Synced!Missing, CatalogFacts!Missing,
           Synced!Configured, CatalogFacts!Configured, Synced!Found,
           CatalogFacts!Found, Synced!Put, CatalogFacts!Put,
           Synced!SaveCatalog, CatalogFacts!SaveCatalog, Synced!PutAccount,
           CatalogFacts!PutAccount, Synced!Idle, CatalogFacts!Idle
  <2> QED
    BY <2>0, <2>1, <2>2, <2>3, <2>4, <2>5, <2>6, <2>7, <2>8 DEF
           Synced!Next, CatalogFacts!Next, Synced!SyncStep,
           CatalogFacts!SyncStep
<1>3. InCatalog /\ [ServicesNext]_allVars => [CatalogFacts!Next]_(CatalogFacts!vars)
  <2>1. UNCHANGED partVars => UNCHANGED CatalogFacts!vars
    BY DEF partVars, CatalogFacts!vars
  <2>2. part = "catalog" /\ PartNext => Synced!Next
    BY DEF PartNext, InCatalog
  <2> QED
    BY <1>2, <2>1, <2>2 DEF ServicesNext, allVars, InCatalog
<1> QED
  BY <1>1, <1>3, CatalogStays, PTL DEF ServicesSpec, CatalogFacts!Spec

LEMMA CatalogIsAssumed == CatalogFacts!CatalogAssumption
BY ServicesAssumption DEF ServicesAssumption,
   Synced!CatalogAssumption, CatalogFacts!CatalogAssumption, Synced!Model,
   CatalogFacts!Model, Synced!Workers, CatalogFacts!Workers, Synced!Worker,
   CatalogFacts!Worker, Synced!Process, CatalogFacts!Process, Synced!Record,
   CatalogFacts!Record

LEMMA CatalogFollows ==
  ServicesSpec /\ InCatalog =>
    [][Synced!NeverOlder /\ Synced!StoredIsConfigured /\ Synced!JobTruthful]_allVars
<1> DEFINE Kept == Synced!NeverOlder /\ Synced!StoredIsConfigured /\ Synced!JobTruthful
<1>1. CatalogFacts!Spec => []CatalogFacts!CatalogInv
  BY CatalogIsAssumed, CatalogFacts!CatalogHolds
<1>2. CatalogFacts!CatalogInv /\ [CatalogFacts!Next]_(CatalogFacts!vars) => Kept
  <2>1. CatalogFacts!CatalogInv /\ [CatalogFacts!Next]_(CatalogFacts!vars)
            => CatalogFacts!NeverOlder /\ CatalogFacts!StoredIsConfigured
    BY CatalogIsAssumed, CatalogFacts!KeepsOrder
  <2>2. CatalogFacts!NeverOlder => Synced!NeverOlder
    BY DEF Synced!NeverOlder, CatalogFacts!NeverOlder
  <2>3. CatalogFacts!StoredIsConfigured => Synced!StoredIsConfigured
    BY DEF Synced!StoredIsConfigured, CatalogFacts!StoredIsConfigured, Synced!Configured,
       CatalogFacts!Configured
  <2>4. CatalogFacts!CatalogInv => Synced!JobTruthful
    BY DEF CatalogFacts!CatalogInv, Synced!JobTruthful, CatalogFacts!JobTruthful, Synced!At,
       CatalogFacts!At,
           Synced!Worker, CatalogFacts!Worker
  <2> QED
    BY <2>1, <2>2, <2>3, <2>4
<1>3. ServicesSpec /\ InCatalog => [][Kept]_allVars
  <2> HIDE DEF Kept
  <2> QED
    BY <1>1, <1>2, CatalogIsImplemented, PTL DEF CatalogFacts!Spec
<1> QED
  BY <1>3

InJob == part = "job"

LEMMA JobStays == ServicesSpec => []InJob \/ []~InJob
<1>1. InJob /\ [ServicesNext]_allVars => InJob'
  BY DEF ServicesNext, allVars, InJob
<1>2. ~InJob /\ [ServicesNext]_allVars => ~InJob'
  BY DEF ServicesNext, allVars, InJob
<1> QED
  BY <1>1, <1>2, PTL DEF ServicesSpec

\* Every behaviour of the part "job" is one of Catalogs.
LEMMA JobIsImplemented == ServicesSpec /\ InJob => JobFacts!Spec
<1>1. ServicesInit /\ InJob => JobFacts!Init
  BY DEF InJob, ServicesInit,
         AllSynced!Init, JobFacts!Init, AllSynced!Idle, JobFacts!Idle,
         AllSynced!NoJob, JobFacts!NoJob, AllSynced!Process, JobFacts!Process,
         AllSynced!Workers, JobFacts!Workers, AllSynced!Worker, JobFacts!Worker
<1>2. AllSynced!Next => JobFacts!Next
  <2>0. AllSynced!Process = JobFacts!Process
    BY DEF
           AllSynced!Process, JobFacts!Process, AllSynced!Workers,
           JobFacts!Workers, AllSynced!Worker, JobFacts!Worker
  <2>1. ASSUME NEW p \in AllSynced!Process, AllSynced!Begin(p) \/ AllSynced!Fetch(p)
                   \/ AllSynced!Settle(p)
        PROVE  JobFacts!Begin(p) \/ JobFacts!Fetch(p) \/ JobFacts!Settle(p)
    BY <2>1 DEF
           AllSynced!Begin, JobFacts!Begin, AllSynced!Fetch, JobFacts!Fetch,
           AllSynced!Settle, JobFacts!Settle, AllSynced!Alone,
           JobFacts!Alone, AllSynced!Leave, JobFacts!Leave, AllSynced!Move,
           JobFacts!Move, AllSynced!At, JobFacts!At, AllSynced!Idle,
           JobFacts!Idle
  <2>2. ASSUME NEW p \in AllSynced!Process, AllSynced!Add(p) \/ AllSynced!Save(p)
                   \/ AllSynced!SyncFails(p)
        PROVE  JobFacts!Add(p) \/ JobFacts!Save(p) \/ JobFacts!SyncFails(p)
    BY <2>2 DEF
           AllSynced!Add, JobFacts!Add, AllSynced!Save, JobFacts!Save,
           AllSynced!SyncFails, JobFacts!SyncFails, AllSynced!Unanswered,
           JobFacts!Unanswered, AllSynced!Missing, JobFacts!Missing,
           AllSynced!Configured, JobFacts!Configured, AllSynced!Found,
           JobFacts!Found, AllSynced!Put, JobFacts!Put,
           AllSynced!SaveCatalog, JobFacts!SaveCatalog, AllSynced!PutAccount,
           JobFacts!PutAccount, AllSynced!Leave, JobFacts!Leave,
           AllSynced!Move, JobFacts!Move, AllSynced!At, JobFacts!At,
           AllSynced!Idle, JobFacts!Idle
  <2>3. ASSUME NEW h, AllSynced!Updated(h) \/ AllSynced!UpdateFails(h) \/ AllSynced!Depart(h)
        PROVE  JobFacts!Updated(h) \/ JobFacts!UpdateFails(h) \/ JobFacts!Depart(h)
    BY <2>3 DEF
           AllSynced!Updated, JobFacts!Updated, AllSynced!UpdateFails,
           JobFacts!UpdateFails, AllSynced!Depart, JobFacts!Depart,
           AllSynced!Unanswered, JobFacts!Unanswered, AllSynced!Missing,
           JobFacts!Missing, AllSynced!Configured, JobFacts!Configured,
           AllSynced!Found, JobFacts!Found, AllSynced!Put, JobFacts!Put,
           AllSynced!SaveCatalog, JobFacts!SaveCatalog, AllSynced!PutAccount,
           JobFacts!PutAccount, AllSynced!Leave, JobFacts!Leave,
           AllSynced!Move, JobFacts!Move, AllSynced!At, JobFacts!At,
           AllSynced!Idle, JobFacts!Idle
  <2>4. ASSUME NEW h, NEW a, AllSynced!Ask(h, a) \/ AllSynced!Update(h, a)
        PROVE  JobFacts!Ask(h, a) \/ JobFacts!Update(h, a)
    BY <2>4 DEF
           AllSynced!Ask, JobFacts!Ask, AllSynced!Update, JobFacts!Update,
           AllSynced!At, JobFacts!At
  <2>5. ASSUME NEW a, AllSynced!Report(a) \/ AllSynced!DeleteAccount(a)
        PROVE  JobFacts!Report(a) \/ JobFacts!DeleteAccount(a)
    BY <2>5 DEF
           AllSynced!Report, JobFacts!Report, AllSynced!DeleteAccount,
           JobFacts!DeleteAccount, AllSynced!At, JobFacts!At,
           AllSynced!Worker, JobFacts!Worker, AllSynced!Idle, JobFacts!Idle
  <2>6. ASSUME AllSynced!StartJob \/ AllSynced!FinishJob
        PROVE  JobFacts!StartJob \/ JobFacts!FinishJob
    BY <2>0, <2>6 DEF
           AllSynced!StartJob, JobFacts!StartJob, AllSynced!FinishJob,
           JobFacts!FinishJob, AllSynced!Worker, JobFacts!Worker,
           AllSynced!Process, JobFacts!Process, AllSynced!Workers,
           JobFacts!Workers, AllSynced!At, JobFacts!At
  <2>7. ASSUME AllSynced!SaveModel \/ AllSynced!Publish
        PROVE  JobFacts!SaveModel \/ JobFacts!Publish
    BY <2>7 DEF
           AllSynced!SaveModel, JobFacts!SaveModel, AllSynced!Publish,
           JobFacts!Publish, AllSynced!Put, JobFacts!Put
  <2>8. ASSUME AllSynced!Restart
        PROVE  JobFacts!Restart
    BY <2>0, <2>8 DEF
           AllSynced!Restart, JobFacts!Restart, AllSynced!Process,
           JobFacts!Process, AllSynced!Workers, JobFacts!Workers,
           AllSynced!Worker, JobFacts!Worker, AllSynced!NoJob,
           JobFacts!NoJob, AllSynced!At, JobFacts!At, AllSynced!Unanswered,
           JobFacts!Unanswered, AllSynced!Missing, JobFacts!Missing,
           AllSynced!Configured, JobFacts!Configured, AllSynced!Found,
           JobFacts!Found, AllSynced!Put, JobFacts!Put,
           AllSynced!SaveCatalog, JobFacts!SaveCatalog, AllSynced!PutAccount,
           JobFacts!PutAccount, AllSynced!Idle, JobFacts!Idle
  <2> QED
    BY <2>0, <2>1, <2>2, <2>3, <2>4, <2>5, <2>6, <2>7, <2>8 DEF
           AllSynced!Next, JobFacts!Next, AllSynced!SyncStep,
           JobFacts!SyncStep
<1>3. InJob /\ [ServicesNext]_allVars => [JobFacts!Next]_(JobFacts!vars)
  <2>1. UNCHANGED partVars => UNCHANGED JobFacts!vars
    BY DEF partVars, JobFacts!vars
  <2>2. part = "job" /\ PartNext => AllSynced!Next
    BY DEF PartNext, InJob
  <2> QED
    BY <1>2, <2>1, <2>2 DEF ServicesNext, allVars, InJob
<1> QED
  BY <1>1, <1>3, JobStays, PTL DEF ServicesSpec, JobFacts!Spec

LEMMA JobIsAssumed == JobFacts!CatalogAssumption
BY ServicesAssumption DEF ServicesAssumption,
   AllSynced!CatalogAssumption, JobFacts!CatalogAssumption, AllSynced!Model,
   JobFacts!Model, AllSynced!Workers, JobFacts!Workers, AllSynced!Worker,
   JobFacts!Worker, AllSynced!Process, JobFacts!Process, AllSynced!Record,
   JobFacts!Record

LEMMA JobFollows ==
  ServicesSpec /\ InJob =>
    [][AllSynced!NeverOlder /\ AllSynced!StoredIsConfigured /\ AllSynced!JobTruthful]_allVars
<1> DEFINE Kept == AllSynced!NeverOlder /\ AllSynced!StoredIsConfigured /\ AllSynced!JobTruthful
<1>1. JobFacts!Spec => []JobFacts!CatalogInv
  BY JobIsAssumed, JobFacts!CatalogHolds
<1>2. JobFacts!CatalogInv /\ [JobFacts!Next]_(JobFacts!vars) => Kept
  <2>1. JobFacts!CatalogInv /\ [JobFacts!Next]_(JobFacts!vars)
            => JobFacts!NeverOlder /\ JobFacts!StoredIsConfigured
    BY JobIsAssumed, JobFacts!KeepsOrder
  <2>2. JobFacts!NeverOlder => AllSynced!NeverOlder
    BY DEF AllSynced!NeverOlder, JobFacts!NeverOlder
  <2>3. JobFacts!StoredIsConfigured => AllSynced!StoredIsConfigured
    BY DEF AllSynced!StoredIsConfigured, JobFacts!StoredIsConfigured, AllSynced!Configured,
       JobFacts!Configured
  <2>4. JobFacts!CatalogInv => AllSynced!JobTruthful
    BY DEF JobFacts!CatalogInv, AllSynced!JobTruthful, JobFacts!JobTruthful, AllSynced!At,
       JobFacts!At,
           AllSynced!Worker, JobFacts!Worker
  <2> QED
    BY <2>1, <2>2, <2>3, <2>4
<1>3. ServicesSpec /\ InJob => [][Kept]_allVars
  <2> HIDE DEF Kept
  <2> QED
    BY <1>1, <1>2, JobIsImplemented, PTL DEF JobFacts!Spec
<1> QED
  BY <1>3

\* catalog.rs: a stored catalog is not replaced by an older one, its models have rows,
\* and the page of the job over all accounts tells what is under way.
THEOREM ServicesCatalogs == ServicesSpec => CatalogsKept
<1> DEFINE Single == Synced!NeverOlder /\ Synced!StoredIsConfigured /\ Synced!JobTruthful
           All == AllSynced!NeverOlder /\ AllSynced!StoredIsConfigured /\ AllSynced!JobTruthful
           Kept == /\ part = "catalog" => Synced!NeverOlder /\ Synced!StoredIsConfigured
                                            /\ Synced!JobTruthful
                   /\ part = "job" => AllSynced!NeverOlder /\ AllSynced!StoredIsConfigured
                                        /\ AllSynced!JobTruthful
<1>1. InCatalog /\ [Single]_allVars => [Kept]_allVars
  BY DEF InCatalog
<1>2. InJob /\ [All]_allVars => [Kept]_allVars
  BY DEF InJob
<1>3. ~InCatalog /\ ~InJob => [Kept]_allVars
  BY DEF InCatalog, InJob
<1>4. ServicesSpec /\ InCatalog => [][Single]_allVars
  BY CatalogFollows
<1>5. ServicesSpec /\ InJob => [][All]_allVars
  BY JobFollows
<1>6. ServicesSpec => [][Kept]_allVars
  <2> HIDE DEF Single, All, Kept
  <2> QED
    BY <1>1, <1>2, <1>3, <1>4, <1>5, CatalogStays, JobStays, PTL
<1> QED
  BY <1>6 DEF CatalogsKept

-----------------------------------------------------------------------------
(* Identities of a request. *)

ClientValue == {"a", "b", "c"}

\* What is resolved is what the input says.
InputInv ==
  part = "input" =>
    /\ s1 \in GivenInputs /\ s2 \in {"received", "failed", "resolved", "prepared"}
    /\ s2 = "received" => s3 = None
    /\ s2 \in {"resolved", "prepared"} =>
         /\ Ids!Valid(s1)
         /\ s3 = IF Ids!SessionOf(s1) = None THEN None
                 ELSE [session |-> Ids!SessionOf(s1), thread |-> Ids!ThreadOf(s1)]
    /\ s2 = "prepared" =>
         /\ s4["session header"] = Ids!OrElse(Ids!FromHeader, Ids!ResolvedSession)
         /\ s4["thread header"] = Ids!OrElse(Ids!Name(s1.thread["header"]), Ids!ResolvedThread)
         /\ s4["client request header"] = Ids!ResolvedThread
         /\ s4["turn session"] = Ids!Turn(s1.session, Ids!ResolvedSession)
         /\ s4["turn thread"] = Ids!Turn(s1.thread, Ids!ResolvedThread)
         /\ s4["meta session"] = Ids!Name(s1.session["meta"])
         /\ s4["meta thread"] = Ids!Name(s1.thread["meta"])
         /\ s4["meta conversation"] = Ids!Name(s1.conversation["meta"])
         /\ s4["cache headers"] = IF Ids!Stateless THEN Ids!Cache ELSE {}

\* A coherent identity has one value at most, wherever it was given.
LEMMA OneValue ==
  ASSUME NEW field, Ids!Coherent(field), Ids!Has(field)
  PROVE  /\ Ids!The(field) \in Ids!Values(field)
         /\ \A v \in Ids!Values(field) : v = Ids!The(field)
<1>1. Ids!The(field) \in Ids!Values(field)
  BY DEF Ids!The, Ids!Has
<1>2. IsFiniteSet(Ids!Values(field))
  <2>1. Ids!Values(field) \subseteq {field["header"], field["meta"], field["turn"]}
    BY DEF Ids!Values, Ids!Source
  <2>2. IsFiniteSet({field["header"], field["meta"], field["turn"]})
    <3>1. IsFiniteSet({field["header"]})
      BY FS_Singleton
    <3>2. IsFiniteSet({field["header"]} \cup {field["meta"]})
      BY <3>1, FS_AddElement
    <3>3. IsFiniteSet(({field["header"]} \cup {field["meta"]}) \cup {field["turn"]})
      BY <3>2, FS_AddElement
    <3>4. {field["header"], field["meta"], field["turn"]}
            = ({field["header"]} \cup {field["meta"]}) \cup {field["turn"]}
      OBVIOUS
    <3> QED
      BY <3>3, <3>4
  <2> QED
    BY <2>1, <2>2, FS_Subset
<1>3. Cardinality(Ids!Values(field)) <= 1
  BY DEF Ids!Coherent, Ids!Cardinality, Cardinality, Ids!IsFiniteSet, IsFiniteSet
<1>4. ASSUME NEW v \in Ids!Values(field), v # Ids!The(field)
      PROVE  FALSE
  <2> DEFINE one == {Ids!The(field)}
  <2>1. Cardinality(one) = 1 /\ IsFiniteSet(one)
    BY FS_Singleton
  <2>2. Cardinality(one \cup {v}) = 2
    <3>1. v \notin one
      BY <1>4
    <3> HIDE DEF one
    <3> QED
      BY <2>1, <3>1, FS_AddElement
  <2>3. one \cup {v} \subseteq Ids!Values(field)
    BY <1>1, <1>4
  <2>4. Cardinality(one \cup {v}) <= Cardinality(Ids!Values(field))
    BY <1>2, <2>3, FS_Subset
  <2>5. Cardinality(Ids!Values(field)) \in Nat
    BY <1>2, FS_CardinalityType
  <2> QED
    BY <1>3, <2>2, <2>4, <2>5
<1> QED
  BY <1>1, <1>4

\* What may be given in a place is a value, or counts for nothing.
LEMMA GivenValues ==
  ASSUME Ids!InputAssumption, NEW field \in [Ids!Source -> Ids!Signal]
  PROVE  /\ \A p \in Ids!Source : field[p] \in ClientValue => field[p] \in Ids!Values(field)
         /\ Ids!Coherent(field) => Ids!Values(field) \subseteq ClientValue
<1>1. \A p \in Ids!Source : field[p] \in ClientValue => field[p] \in Ids!Values(field)
  BY DEF Ids!InputAssumption, Ids!Values, ClientValue
<1>2. Ids!Coherent(field) => Ids!Values(field) \subseteq ClientValue
  BY DEF Ids!Coherent, Ids!Values, Ids!Signal, ClientValue
<1> QED
  BY <1>1, <1>2

\* What an input resolves to.
LEMMA Resolution ==
  ASSUME Ids!InputAssumption, NEW i \in Ids!Inputs, Ids!Valid(i)
  PROVE  /\ Ids!SessionOf(i) \in ClientValue \cup {None}
         /\ Ids!ThreadOf(i) \in ClientValue \cup {None}
         /\ Ids!SessionOf(i) = None <=>
              ~(Ids!Has(i.session) \/ Ids!Has(i.thread) \/ Ids!Has(i.conversation) \/ i.kind = "search")
         /\ Ids!SessionOf(i) # None => Ids!ThreadOf(i) # None
         /\ \A p \in Ids!Source : i.session[p] \in ClientValue => Ids!SessionOf(i) = i.session[p]
         /\ \A p \in Ids!Source : i.thread[p] \in ClientValue => Ids!ThreadOf(i) = i.thread[p]
         /\ Ids!Has(i.session) => Ids!SessionOf(i) \in Ids!Values(i.session)
         /\ Ids!Has(i.thread) => Ids!ThreadOf(i) \in Ids!Values(i.thread)
         /\ Ids!Has(i.conversation) /\ ~Ids!Has(i.session)
             => Ids!SessionOf(i) \in Ids!Values(i.conversation)
         /\ Ids!Has(i.conversation) /\ ~Ids!Has(i.thread)
             => Ids!ThreadOf(i) \in Ids!Values(i.conversation)
<1>1. /\ i.session \in [Ids!Source -> Ids!Signal] /\ i.thread \in [Ids!Source -> Ids!Signal]
      /\ i.conversation \in [Ids!Source -> Ids!Signal] /\ i.id \in ClientValue
      /\ i.kind \in {"responses", "search"}
      /\ Ids!Coherent(i.session) /\ Ids!Coherent(i.thread) /\ Ids!Coherent(i.conversation)
  BY DEF Ids!Inputs, Ids!Valid, ClientValue
<1>2. None \notin ClientValue
  BY DEF Ids!InputAssumption, ClientValue
<1>3. ASSUME NEW field \in {i.session, i.thread, i.conversation}
      PROVE  /\ Ids!Has(field) => Ids!The(field) \in Ids!Values(field) /\ Ids!The(field) \in ClientValue
             /\ \A p \in Ids!Source : field[p] \in ClientValue
                 => Ids!Has(field) /\ field[p] = Ids!The(field)
  <2>1. field \in [Ids!Source -> Ids!Signal] /\ Ids!Coherent(field)
    BY <1>1, <1>3
  <2>2. Ids!Has(field) => Ids!The(field) \in Ids!Values(field)
            /\ \A v \in Ids!Values(field) : v = Ids!The(field)
    BY <2>1, OneValue
  <2>3. \A p \in Ids!Source : field[p] \in ClientValue => field[p] \in Ids!Values(field)
    BY <2>1, GivenValues
  <2>4. Ids!Values(field) \subseteq ClientValue
    BY <2>1, GivenValues
  <2> QED
    BY <2>2, <2>3, <2>4 DEF Ids!Has
<1>4. Ids!SessionOf(i) =
        IF Ids!Has(i.session) THEN Ids!The(i.session)
        ELSE IF Ids!Has(i.conversation) THEN Ids!The(i.conversation)
        ELSE IF Ids!Has(i.thread) THEN Ids!The(i.thread)
        ELSE IF i.kind = "search" THEN i.id ELSE None
  BY DEF Ids!SessionOf
<1>5. Ids!ThreadOf(i) =
        IF Ids!Has(i.thread) THEN Ids!The(i.thread)
        ELSE IF Ids!Has(i.conversation) THEN Ids!The(i.conversation)
        ELSE Ids!SessionOf(i)
  BY DEF Ids!ThreadOf
<1> QED
  BY <1>1, <1>2, <1>3, <1>4, <1>5

LEMMA InputIsAssumed == Ids!InputAssumption
BY ServicesAssumption DEF ServicesAssumption

LEMMA InputInvInit == ServicesInit => InputInv
BY DEF ServicesInit, InputInv, Ids!Init

LEMMA InputInvStep == InputInv /\ [ServicesNext]_allVars => InputInv'
<1> SUFFICES ASSUME InputInv, [ServicesNext]_allVars, part' = "input"
             PROVE  InputInv'
  BY DEF InputInv
<1>1. part = "input" /\ (Ids!Next \/ UNCHANGED partVars)
  BY DEF ServicesNext, PartNext, allVars, Ids!Next
<1>2. CASE UNCHANGED <<s1, s2, s3, s4>>
  BY <1>1, <1>2 DEF InputInv, Ids!OrElse, Ids!FromHeader, Ids!ResolvedSession,
     Ids!ResolvedThread, Ids!Turn, Ids!Stateless, Ids!Cache
<1>3. CASE Ids!Parse
  BY <1>1, <1>3 DEF Ids!Parse, InputInv
<1>4. CASE Ids!Prepare
  <2> DEFINE Place(p) ==
        CASE p = "session header" -> Ids!OrElse(Ids!FromHeader, Ids!ResolvedSession)
          [] p = "thread header" -> Ids!OrElse(Ids!Name(s1.thread["header"]), Ids!ResolvedThread)
          [] p = "client request header" -> Ids!ResolvedThread
          [] p = "turn session" -> Ids!Turn(s1.session, Ids!ResolvedSession)
          [] p = "turn thread" -> Ids!Turn(s1.thread, Ids!ResolvedThread)
          [] p \in {"turn window", "window header"} -> Ids!Window
          [] p = "meta session" -> Ids!Name(s1.session["meta"])
          [] p = "meta thread" -> Ids!Name(s1.thread["meta"])
          [] p = "meta conversation" -> Ids!Name(s1.conversation["meta"])
          [] p = "cache" -> Ids!Cache
          [] p = "cache headers" -> IF Ids!Stateless THEN Ids!Cache ELSE {}
  <2>1. s2 = "resolved" /\ s2' = "prepared" /\ s4' = [p \in Ids!Place |-> Place(p)]
            /\ UNCHANGED <<s1, s3>>
    BY <1>4 DEF Ids!Prepare
  <2>2. \A p \in Ids!Place : s4'[p] = Place(p)
    BY <2>1
  <2>3. /\ s4'["session header"] = Ids!OrElse(Ids!FromHeader, Ids!ResolvedSession)
        /\ s4'["thread header"] = Ids!OrElse(Ids!Name(s1.thread["header"]), Ids!ResolvedThread)
        /\ s4'["client request header"] = Ids!ResolvedThread
        /\ s4'["turn session"] = Ids!Turn(s1.session, Ids!ResolvedSession)
        /\ s4'["turn thread"] = Ids!Turn(s1.thread, Ids!ResolvedThread)
        /\ s4'["meta session"] = Ids!Name(s1.session["meta"])
        /\ s4'["meta thread"] = Ids!Name(s1.thread["meta"])
        /\ s4'["meta conversation"] = Ids!Name(s1.conversation["meta"])
        /\ s4'["cache headers"] = IF Ids!Stateless THEN Ids!Cache ELSE {}
    BY <2>2 DEF Ids!Place
  <2> HIDE DEF Place
  <2> QED
    BY <1>1, <2>1, <2>3 DEF InputInv, Ids!OrElse, Ids!FromHeader, Ids!ResolvedSession,
       Ids!ResolvedThread, Ids!Turn, Ids!Stateless, Ids!Cache
<1> QED
  BY <1>1, <1>2, <1>3, <1>4 DEF Ids!Next, Ids!Done, Ids!vars, partVars

\* A prepared request names what it resolves to, and no other.
LEMMA OneIdentity ==
  ASSUME InputInv, part = "input"
  PROVE  Ids!OneIdentityUpstream /\ Ids!NoIdentityLost
<1> SUFFICES ASSUME s2 \in {"resolved", "prepared"}
             PROVE  Ids!OneIdentityUpstream /\ Ids!NoIdentityLost
  BY DEF Ids!OneIdentityUpstream, Ids!NoIdentityLost
<1> DEFINE session == Ids!SessionOf(s1)
           thread == Ids!ThreadOf(s1)
<1>1. s1 \in Ids!Inputs /\ Ids!Valid(s1) /\ Ids!InputAssumption
  BY InputIsAssumed DEF InputInv, Ids!InputAssumption
<1>2. /\ session \in ClientValue \cup {None} /\ thread \in ClientValue \cup {None}
      /\ session = None <=>
              ~(Ids!Has(s1.session) \/ Ids!Has(s1.thread) \/ Ids!Has(s1.conversation)
                  \/ s1.kind = "search")
      /\ session # None => thread # None
      /\ \A p \in Ids!Source : s1.session[p] \in ClientValue => session = s1.session[p]
      /\ \A p \in Ids!Source : s1.thread[p] \in ClientValue => thread = s1.thread[p]
  BY <1>1, Resolution
<1>3. /\ Ids!Has(s1.session) => session \in Ids!Values(s1.session)
      /\ Ids!Has(s1.thread) => thread \in Ids!Values(s1.thread)
      /\ Ids!Has(s1.conversation) /\ ~Ids!Has(s1.session) => session \in Ids!Values(s1.conversation)
      /\ Ids!Has(s1.conversation) /\ ~Ids!Has(s1.thread) => thread \in Ids!Values(s1.conversation)
  BY <1>1, Resolution
<1>4. /\ s3 = IF session = None THEN None ELSE [session |-> session, thread |-> thread]
      /\ s2 = "prepared" =>
           /\ s4["session header"] = Ids!OrElse(Ids!FromHeader, Ids!ResolvedSession)
           /\ s4["thread header"] = Ids!OrElse(Ids!Name(s1.thread["header"]), Ids!ResolvedThread)
           /\ s4["client request header"] = Ids!ResolvedThread
           /\ s4["turn session"] = Ids!Turn(s1.session, Ids!ResolvedSession)
           /\ s4["turn thread"] = Ids!Turn(s1.thread, Ids!ResolvedThread)
           /\ s4["meta session"] = Ids!Name(s1.session["meta"])
           /\ s4["meta thread"] = Ids!Name(s1.thread["meta"])
           /\ s4["meta conversation"] = Ids!Name(s1.conversation["meta"])
           /\ s4["cache headers"] = IF Ids!Stateless THEN Ids!Cache ELSE {}
  BY DEF InputInv
<1>5. None \notin [session : ClientValue, thread : ClientValue] /\ None \notin ClientValue
  BY <1>1 DEF Ids!InputAssumption, ClientValue
<1>6. \A v : Ids!Name(v) = IF v \in ClientValue THEN {Ids!Mapped("thread", v)} ELSE {}
  BY DEF Ids!Name, ClientValue
<1> HIDE DEF session, thread
<1>7. CASE session = None
  <2>1. s3 = None /\ Ids!Stateless
    BY <1>4, <1>7 DEF Ids!Stateless
  <2>2. /\ \A p \in Ids!Source : s1.session[p] \notin ClientValue
        /\ \A p \in Ids!Source : s1.thread[p] \notin ClientValue
        /\ \A p \in Ids!Source : s1.conversation[p] \notin ClientValue
    <3>1. ~Ids!Has(s1.session) /\ ~Ids!Has(s1.thread) /\ ~Ids!Has(s1.conversation)
      BY <1>2, <1>7
    <3>2. /\ s1.session \in [Ids!Source -> Ids!Signal] /\ s1.thread \in [Ids!Source -> Ids!Signal]
          /\ s1.conversation \in [Ids!Source -> Ids!Signal]
      BY <1>1 DEF Ids!Inputs
    <3> QED
      BY <1>1, <3>1, <3>2, GivenValues DEF Ids!Has
  <2>3. Ids!ResolvedSession = {} /\ Ids!ResolvedThread = {}
    BY <2>1 DEF Ids!ResolvedSession, Ids!ResolvedThread
  <2>4. s2 = "prepared" =>
          /\ s4["session header"] = {} /\ s4["thread header"] = {} /\ s4["client request header"] = {}
          /\ s4["turn session"] = {} /\ s4["turn thread"] = {} /\ s4["meta session"] = {}
          /\ s4["meta thread"] = {} /\ s4["meta conversation"] = {}
    BY <1>4, <1>6, <2>2, <2>3 DEF Ids!OrElse, Ids!FromHeader, Ids!Turn, Ids!Source
  <2>5. s1.kind # "search"
    BY <1>2, <1>7
  <2>6. s2 = "prepared" /\ s4["cache headers"] # {} => s4["cache headers"] = {Ids!Partition(s1.cache)}
    BY <1>4, <2>1, <2>5 DEF Ids!Cache
  <2>7. Ids!OneIdentityUpstream
    BY <2>1, <2>4, <2>6 DEF Ids!OneIdentityUpstream, Ids!SessionPlaces, Ids!ThreadPlaces
  <2>8. Ids!NoIdentityLost
    BY <1>2, <1>7, <2>1 DEF Ids!NoIdentityLost
  <2> QED
    BY <2>7, <2>8
<1>8. CASE session # None
  <2>1. session \in ClientValue /\ thread \in ClientValue
    BY <1>2, <1>8
  <2>2. s3 # None /\ s3.session = session /\ s3.thread = thread
    <3>1. s3 = [session |-> session, thread |-> thread]
      BY <1>4, <1>8
    <3>2. s3 \in [session : ClientValue, thread : ClientValue]
      BY <2>1, <3>1
    <3> QED
      BY <1>5, <3>1, <3>2
  <2>3. ~Ids!Stateless
    BY <2>2 DEF Ids!Stateless
  <2> DEFINE S == {Ids!Mapped("thread", session)}
             T == {Ids!Mapped("thread", thread)}
  <2>4. Ids!ResolvedSession = S /\ Ids!ResolvedThread = T
    BY <1>6, <2>1, <2>2, <2>3 DEF Ids!ResolvedSession, Ids!ResolvedThread
  <2>5. /\ \A p \in Ids!Source : Ids!Name(s1.session[p]) \in {{}, S}
        /\ \A p \in Ids!Source : Ids!Name(s1.thread[p]) \in {{}, T}
    BY <1>2, <1>6
  <2>6. S # {} /\ T # {} /\ {"header", "meta", "turn"} = Ids!Source
    BY DEF Ids!Source
  <2> HIDE DEF S, T
  <2>7. s2 = "prepared" =>
          /\ s4["session header"] = S \/ Ids!Shadowed
          /\ s4["turn session"] \in {{}, S} /\ s4["meta session"] \in {{}, S}
    <3>1. s1.session["header"] = None /\ s1.conversation["header"] \notin ClientValue
              => Ids!FromHeader = {}
      BY <1>6 DEF Ids!FromHeader
    <3>2. s1.session["header"] # None => Ids!FromHeader \in {{}, S}
      BY <2>5, <2>6 DEF Ids!FromHeader
    <3>3. s1.session["header"] = None /\ s1.conversation["header"] \in ClientValue => Ids!Shadowed
      BY DEF Ids!Shadowed, ClientValue
    <3> QED
      BY <1>4, <2>4, <2>5, <2>6, <3>1, <3>2, <3>3 DEF Ids!OrElse, Ids!Turn
  <2>8. s2 = "prepared" =>
          /\ s4["thread header"] = T /\ s4["client request header"] = T
          /\ s4["turn thread"] \in {{}, T} /\ s4["meta thread"] \in {{}, T}
    BY <1>4, <2>4, <2>5, <2>6 DEF Ids!OrElse, Ids!Turn
  <2>9. s2 = "prepared" => s4["cache headers"] = {}
    BY <1>4, <2>3
  <2>10. Ids!OneIdentityUpstream
    <3>1. \A p \in Ids!SessionPlaces \ {"session header"} : p \in {"turn session", "meta session"}
      BY DEF Ids!SessionPlaces
    <3>2. \A p \in Ids!ThreadPlaces : p \in {"thread header", "client request header", "turn thread", "meta thread"}
      BY DEF Ids!ThreadPlaces
    <3>3. S = {Ids!Mapped("thread", s3.session)} /\ T = {Ids!Mapped("thread", s3.thread)}
      BY <2>2 DEF S, T
    <3> QED
      BY <2>3, <2>6, <2>7, <2>8, <2>9, <3>1, <3>2, <3>3 DEF Ids!OneIdentityUpstream
  <2>11. Ids!NoIdentityLost
    BY <1>2, <1>3, <1>8, <2>2 DEF Ids!NoIdentityLost
  <2> QED
    BY <2>10, <2>11
<1> QED
  BY <1>7, <1>8

-----------------------------------------------------------------------------
(* Names of a client's identities, and of objects. *)

MapTask == {"t1", "t2"}
Client == UNION {{"s", t} : t \in MapTask}

\* The name of an identity in a generation: that of the older gateways, else the
\* derived one.
NameOf(b, c) ==
  LET old == {r \in OldRows : Mapped!Key(r) = <<b, "thread", c>>} IN
  IF old # {} THEN (CHOOSE r \in old : TRUE)[4] ELSE Mapped!Derived(b, "thread", c)

ThreadRow(b, c) == <<b, "thread", c, NameOf(b, c)>>
MapRow == OldRows \cup {ThreadRow(b, c) : b \in 1..3, c \in Client}

\* What an object is called upstream.
RefTrue(x, name) ==
  LET issued == {r \in OldRows : r[2] = "item" /\ r[3] = x /\ ~Mapped!Generated(r)} IN
  IF issued = {} THEN name = Mapped!Same(x) ELSE \E r \in issued : name = r[4]

\* What a task has loaded is stored and lacks no row that the older gateways left in
\* its generation; before it sends, none that they left in any.
TaskTrue(t) ==
  LET w == s3[t] IN
  /\ w.known \subseteq s1
  /\ w.at \in {"leased", "loaded", "saving", "ready"} => w.binding \in 2..s2
  /\ w.at \in {"loaded", "saving", "ready"} =>
       \A r \in OldRows : r[1] = w.binding => r \in w.known
  /\ w.at \in {"saving", "ready"} => OldRows \subseteq w.known
  /\ w.at = "ready" => \A c \in {"s", t} : ThreadRow(w.binding, c) \in s1
  /\ w.at # "conflict"

SentTrue(s) ==
  /\ s.binding \in 1..3
  /\ \A c \in DOMAIN s.names :
       c \in Client /\ s.names[c] = NameOf(s.binding, c) /\ ThreadRow(s.binding, c) \in s1
  /\ \A x \in DOMAIN s.refs : RefTrue(x, s.refs[x])

MapWork ==
  [at : {"queued", "leased", "loaded", "saving", "ready", "sent", "failed", "conflict"},
   binding : 0..3, known : SUBSET MapRow]

MapInv ==
  part = "mapping" =>
    /\ OldRows \subseteq s1 /\ s1 \subseteq MapRow
    /\ s2 \in 2..3
    /\ s3 \in [MapTask -> MapWork]
    /\ \A t \in MapTask : TaskTrue(t)
    /\ \A s \in s4 : SentTrue(s)

LEMMA OldRowsAssumed ==
  /\ \A r, q \in OldRows : Mapped!Key(r) = Mapped!Key(q) => r = q
  /\ \A r \in OldRows : r[1] \in 1..2 /\ r[2] \in {"thread", "item"} /\ r = <<r[1], r[2], r[3], r[4]>>
  /\ \A r, q \in OldRows : r[2] = "thread" /\ q[2] = "thread" /\ r[4] = q[4] => r = q
  /\ \A r \in OldRows, b \in 1..3 : \A c \in Client :
       r[2] = "thread" /\ r[4] = Mapped!Derived(b, "thread", c) => b = r[1] /\ c = r[3]
<1>1. Mapped!MapAssumption
  BY ServicesAssumption DEF ServicesAssumption
<1>2. Client = UNION {[u \in {"t1", "t2"} |-> {"s", u}][t] : t \in {"t1", "t2"}}
  BY DEF Client, MapTask
<1> QED
  BY <1>1, <1>2 DEF Mapped!MapAssumption

\* A row of an older gateway for a thread is the row of its name.
LEMMA NameIsOld ==
  ASSUME NEW b, NEW c
  PROVE  /\ \A r \in OldRows : Mapped!Key(r) = <<b, "thread", c>> => r = ThreadRow(b, c)
         /\ ThreadRow(b, c) \notin OldRows => NameOf(b, c) = Mapped!Derived(b, "thread", c)
<1> DEFINE old == {r \in OldRows : Mapped!Key(r) = <<b, "thread", c>>}
<1>1. NameOf(b, c) = IF old # {} THEN (CHOOSE r \in old : TRUE)[4] ELSE Mapped!Derived(b, "thread", c)
  BY DEF NameOf
<1>2. CASE old = {}
  BY <1>1, <1>2
<1>3. CASE old # {}
  <2> DEFINE chosen == CHOOSE r \in old : TRUE
  <2>1. chosen \in old
    BY <1>3
  <2>2. chosen \in OldRows /\ Mapped!Key(chosen) = <<b, "thread", c>> /\ NameOf(b, c) = chosen[4]
    BY <1>1, <1>3, <2>1
  <2> HIDE DEF chosen, old
  <2>3. chosen = <<b, "thread", c, chosen[4]>>
    <3>1. chosen = <<chosen[1], chosen[2], chosen[3], chosen[4]>>
      BY <2>2, OldRowsAssumed
    <3>2. chosen[1] = b /\ chosen[2] = "thread" /\ chosen[3] = c
      BY <2>2 DEF Mapped!Key
    <3> QED
      BY <3>1, <3>2
  <2>4. chosen = ThreadRow(b, c)
    BY <2>2, <2>3 DEF ThreadRow
  <2>5. \A r \in OldRows : Mapped!Key(r) = <<b, "thread", c>> => r = chosen
    BY <2>2, OldRowsAssumed
  <2> QED
    BY <2>2, <2>4, <2>5
<1> QED
  BY <1>2, <1>3

LEMMA RowKey ==
  ASSUME NEW b, NEW c
  PROVE  /\ ThreadRow(b, c)[1] = b /\ ThreadRow(b, c)[2] = "thread" /\ ThreadRow(b, c)[3] = c
         /\ ThreadRow(b, c)[4] = NameOf(b, c)
         /\ Mapped!Key(ThreadRow(b, c)) = <<b, "thread", c>>
BY DEF ThreadRow, Mapped!Key

\* No two identities and no two generations share a name.
LEMMA NamesDistinct ==
  ASSUME NEW b \in 1..3, NEW d \in 1..3, NEW c \in Client, NEW e \in Client,
         NameOf(b, c) = NameOf(d, e)
  PROVE  b = d /\ c = e
<1> DEFINE r == ThreadRow(b, c)
           q == ThreadRow(d, e)
<1>1. /\ r[1] = b /\ r[2] = "thread" /\ r[3] = c /\ r[4] = NameOf(b, c)
      /\ q[1] = d /\ q[2] = "thread" /\ q[3] = e /\ q[4] = NameOf(d, e)
  BY RowKey
<1>2. /\ r \notin OldRows => NameOf(b, c) = Mapped!Derived(b, "thread", c)
      /\ q \notin OldRows => NameOf(d, e) = Mapped!Derived(d, "thread", e)
  BY NameIsOld
<1> HIDE DEF r, q
<1>3. CASE r \in OldRows /\ q \in OldRows
  BY <1>1, <1>3, OldRowsAssumed
<1>4. CASE r \in OldRows /\ q \notin OldRows
  BY <1>1, <1>2, <1>4, OldRowsAssumed
<1>5. CASE r \notin OldRows /\ q \in OldRows
  <2>1. q[4] = Mapped!Derived(b, "thread", c)
    BY <1>1, <1>2, <1>5
  <2> QED
    BY <1>1, <1>5, <2>1, OldRowsAssumed
<1>6. CASE r \notin OldRows /\ q \notin OldRows
  BY <1>2, <1>6 DEF Mapped!Derived
<1> QED
  BY <1>3, <1>4, <1>5, <1>6

\* What a task sends is the name, whatever it has loaded.
LEMMA SendsName ==
  ASSUME NEW t, NEW c, s3[t].known \subseteq MapRow,
         \A r \in OldRows : r[1] = s3[t].binding => r \in s3[t].known
  PROVE  Mapped!Outbound(t, c) = NameOf(s3[t].binding, c)
<1> DEFINE b == s3[t].binding
           known == s3[t].known
           found == {r \in known : Mapped!Key(r) = <<b, "thread", c>>}
<1>1. Mapped!Outbound(t, c) =
        IF found # {} THEN (CHOOSE r \in found : TRUE)[4] ELSE Mapped!Derived(b, "thread", c)
  BY DEF Mapped!Outbound
<1>2. \A r \in found : r = ThreadRow(b, c)
  <2> SUFFICES ASSUME NEW r \in known, Mapped!Key(r) = <<b, "thread", c>>
               PROVE  r = ThreadRow(b, c)
    OBVIOUS
  <2>1. CASE r \in OldRows
    BY <2>1, NameIsOld
  <2>2. CASE r \notin OldRows
    <3>1. PICK d \in 1..3, e \in Client : r = ThreadRow(d, e)
      BY <2>2 DEF MapRow
    <3>2. Mapped!Key(r) = <<d, "thread", e>>
      BY <3>1, RowKey
    <3>3. d = b /\ e = c
      BY <3>2
    <3> QED
      BY <3>1, <3>3
  <2> QED
    BY <2>1, <2>2
<1>3. found = {} => NameOf(b, c) = Mapped!Derived(b, "thread", c)
  <2> SUFFICES ASSUME found = {}, ThreadRow(b, c) \in OldRows
               PROVE  FALSE
    BY NameIsOld
  <2>1. ThreadRow(b, c) \in known /\ Mapped!Key(ThreadRow(b, c)) = <<b, "thread", c>>
    BY RowKey
  <2> QED
    BY <2>1
<1>4. ThreadRow(b, c)[4] = NameOf(b, c)
  BY RowKey
<1>5. found # {} => (CHOOSE r \in found : TRUE) \in found
  OBVIOUS
<1> HIDE DEF found, known, b
<1>6. found # {} => (CHOOSE r \in found : TRUE)[4] = NameOf(b, c)
  BY <1>2, <1>4, <1>5
<1>7. Mapped!Outbound(t, c) = NameOf(b, c)
  BY <1>1, <1>3, <1>6
<1> QED
  BY <1>7 DEF b

\* What a task stores are rows of these names, which no other row contradicts.
LEMMA StoresNames ==
  ASSUME NEW t \in MapTask, s3[t].known \subseteq MapRow, s1 \subseteq MapRow, s3[t].known \subseteq s1,
         s3[t].binding \in 1..3,
         \A r \in OldRows : r[1] = s3[t].binding => r \in s3[t].known
  PROVE  /\ Mapped!Pending(t) \subseteq {ThreadRow(s3[t].binding, c) : c \in {"s", t}}
         /\ \A c \in {"s", t} : ThreadRow(s3[t].binding, c) \in s1 \cup Mapped!Pending(t)
         /\ Mapped!Pending(t) \subseteq MapRow
         /\ ~Mapped!Conflicts(t)
<1> DEFINE b == s3[t].binding
           names == {<<b, "thread", c, Mapped!Outbound(t, c)>> : c \in {"s", t}}
<1>1. Mapped!Pending(t) = names \ s3[t].known
  BY DEF Mapped!Pending, MapTask
<1>2. \A c \in {"s", t} : <<b, "thread", c, Mapped!Outbound(t, c)>> = ThreadRow(b, c)
  BY SendsName DEF ThreadRow
<1>3. names = {ThreadRow(b, c) : c \in {"s", t}}
  BY <1>2
<1>4. {"s", t} \subseteq Client
  BY DEF Client
<1>5. names \subseteq MapRow
  BY <1>3, <1>4 DEF MapRow
<1> HIDE DEF names
<1>6. ~Mapped!Conflicts(t)
  <2> SUFFICES ASSUME NEW p \in names, NEW r \in MapRow, Mapped!Key(p) = Mapped!Key(r)
               PROVE  p = r
    BY <1>1 DEF Mapped!Conflicts
  <2>1. PICK c \in {"s", t} : p = ThreadRow(b, c)
    BY <1>3
  <2>2. Mapped!Key(r) = <<b, "thread", c>>
    BY <2>1, RowKey
  <2>3. CASE r \in OldRows
    BY <2>1, <2>2, <2>3, NameIsOld
  <2>4. CASE r \notin OldRows
    <3>1. PICK d \in 1..3, e \in Client : r = ThreadRow(d, e)
      BY <2>4 DEF MapRow
    <3>2. Mapped!Key(r) = <<d, "thread", e>>
      BY <3>1, RowKey
    <3>3. d = b /\ e = c
      BY <2>2, <3>2
    <3> QED
      BY <2>1, <3>1, <3>3
  <2> QED
    BY <2>3, <2>4
<1> QED
  BY <1>1, <1>3, <1>5, <1>6

\* An object that an older gateway named is called by one of its names.
LEMMA SendsOriginal ==
  ASSUME NEW t, NEW x, s3[t].known \subseteq MapRow, OldRows \subseteq s3[t].known
  PROVE  RefTrue(x, Mapped!Original(t, x))
<1> DEFINE found == {r \in Mapped!Imported(t) : r[3] = x}
           own == {r \in found : r[1] = s3[t].binding}
           Oldest(rs) == CHOOSE r \in rs : \A q \in rs : r[1] <= q[1]
           issued == {r \in OldRows : r[2] = "item" /\ r[3] = x /\ ~Mapped!Generated(r)}
<1>1. Mapped!Original(t, x) =
        IF own # {} THEN Oldest(own)[4] ELSE IF found # {} THEN Oldest(found)[4] ELSE Mapped!Same(x)
  BY DEF Mapped!Original
<1>2. found = issued
  <2>1. \A r \in MapRow : r[2] = "item" => r \in OldRows
    BY RowKey DEF MapRow
  <2> QED
    BY <2>1 DEF Mapped!Imported, Mapped!Aliases
<1>3. ASSUME NEW rs, rs \subseteq issued, rs # {}
      PROVE  Oldest(rs) \in issued
  <2>1. \A r \in rs : r[1] \in 1..2
    BY <1>3, OldRowsAssumed
  <2>2. \E r \in rs : \A q \in rs : r[1] <= q[1]
    <3>1. CASE \E r \in rs : r[1] = 1
      BY <2>1, <3>1
    <3>2. CASE ~\E r \in rs : r[1] = 1
      <4>1. \A r \in rs : r[1] = 2
        BY <2>1, <3>2
      <4> QED
        BY <1>3, <4>1
    <3> QED
      BY <3>1, <3>2
  <2>3. Oldest(rs) \in rs
    BY <2>2
  <2> QED
    BY <1>3, <2>3
<1>4. own \subseteq issued /\ found \subseteq issued
  BY <1>2
<1>5. RefTrue(x, Mapped!Original(t, x)) <=>
        IF issued = {} THEN Mapped!Original(t, x) = Mapped!Same(x)
        ELSE \E r \in issued : Mapped!Original(t, x) = r[4]
  BY DEF RefTrue
<1>6. found = {} => own = {}
  OBVIOUS
<1> HIDE DEF found, own, issued, Oldest
<1>7. CASE issued = {}
  BY <1>1, <1>2, <1>5, <1>6, <1>7
<1>8. CASE issued # {}
  <2>1. found # {} /\ Oldest(found) \in issued
    BY <1>2, <1>3, <1>4, <1>8
  <2>2. own # {} => Oldest(own) \in issued
    BY <1>3, <1>4
  <2> QED
    BY <1>1, <1>5, <1>8, <2>1, <2>2
<1> QED
  BY <1>7, <1>8

LEMMA MapInvInit == ServicesInit => MapInv
<1> SUFFICES ASSUME ServicesInit, part = "mapping"
             PROVE  MapInv
  BY DEF MapInv
<1>1. /\ s1 = OldRows /\ s2 = 2 /\ s4 = {}
      /\ s3 = [t \in MapTask |-> [at |-> "queued", binding |-> 0, known |-> {}]]
  BY DEF ServicesInit, Mapped!Init, MapTask
<1>2. OldRows \subseteq MapRow
  BY DEF MapRow
<1>3. [at |-> "queued", binding |-> 0, known |-> {}] \in MapWork
  BY DEF MapWork
<1>4. \A t \in MapTask : TaskTrue(t)
  BY <1>1 DEF TaskTrue
<1> QED
  BY <1>1, <1>2, <1>3, <1>4 DEF MapInv

\* Facts about a task that the steps need.
LEMMA TaskFacts ==
  ASSUME MapInv, part = "mapping", NEW t \in MapTask
  PROVE  /\ s3[t] \in MapWork /\ s3[t].known \subseteq MapRow /\ s3[t].binding \in 0..3
         /\ TaskTrue(t) /\ DOMAIN s3 = MapTask
BY DEF MapInv, MapWork

\* A step of one task.
LEMMA OneTask ==
  ASSUME MapInv, part = "mapping", part' = part, NEW t \in MapTask, NEW w \in MapWork,
         s3' = [s3 EXCEPT ![t] = w], s1 \subseteq s1', s1' \subseteq MapRow, s2' = s2,
         w.known \subseteq s1',
         w.at \in {"leased", "loaded", "saving", "ready"} => w.binding \in 2..s2,
         w.at \in {"loaded", "saving", "ready"} =>
           \A r \in OldRows : r[1] = w.binding => r \in w.known,
         w.at \in {"saving", "ready"} => OldRows \subseteq w.known,
         w.at = "ready" => \A c \in {"s", t} : ThreadRow(w.binding, c) \in s1',
         w.at # "conflict",
         \A s \in s4' : s \in s4 \/ SentTrue(s)'
  PROVE  MapInv'
<1>1. s3 \in [MapTask -> MapWork] /\ s3' \in [MapTask -> MapWork] /\ s3'[t] = w
  BY DEF MapInv
<1>2. \A u \in MapTask \ {t} : s3'[u] = s3[u]
  BY <1>1
<1>3. \A u \in MapTask : TaskTrue(u)'
  <2> SUFFICES ASSUME NEW u \in MapTask
               PROVE  TaskTrue(u)'
    OBVIOUS
  <2>1. CASE u = t
    BY <1>1, <2>1 DEF TaskTrue
  <2>2. CASE u # t
    <3>1. TaskTrue(u) /\ s3'[u] = s3[u]
      BY <1>2, <2>2 DEF MapInv
    <3> QED
      BY <3>1 DEF TaskTrue
  <2> QED
    BY <2>1, <2>2
<1>4. \A s \in s4' : SentTrue(s)'
  <2> SUFFICES ASSUME NEW s \in s4'
               PROVE  SentTrue(s)'
    OBVIOUS
  <2>1. CASE s \in s4
    <3>1. SentTrue(s)
      BY <2>1 DEF MapInv
    <3> QED
      BY <3>1 DEF SentTrue
  <2> QED
    BY <2>1
<1>5. OldRows \subseteq s1' /\ s2' \in 2..3
  BY DEF MapInv
<1> QED
  BY <1>1, <1>3, <1>4, <1>5 DEF MapInv

LEMMA MapInvStep == MapInv /\ [ServicesNext]_allVars => MapInv'
<1> SUFFICES ASSUME MapInv, [ServicesNext]_allVars, part' = "mapping"
             PROVE  MapInv'
  BY DEF MapInv
<1>1. part = "mapping" /\ (Mapped!Next \/ UNCHANGED partVars)
  BY DEF ServicesNext, PartNext, allVars
<1>2. /\ OldRows \subseteq s1 /\ s1 \subseteq MapRow /\ s2 \in 2..3 /\ s3 \in [MapTask -> MapWork]
  BY <1>1 DEF MapInv
<1>3. CASE UNCHANGED <<s1, s2, s3, s4>>
  BY <1>1, <1>3 DEF MapInv, TaskTrue, SentTrue
<1>4. ASSUME NEW t \in MapTask,
             \/ Mapped!Lease(t) \/ Mapped!Load(t) \/ Mapped!LoadOthers(t) \/ Mapped!Save(t)
             \/ Mapped!Requeue(t) \/ Mapped!Send(t) \/ Mapped!Again(t)
      PROVE  MapInv'
  <2>1. s3[t] \in MapWork /\ s3[t].known \subseteq MapRow /\ s3[t].binding \in 0..3 /\ TaskTrue(t)
    BY <1>1, TaskFacts
  <2> DEFINE w == s3[t]
             Moved(at) == [w EXCEPT !.at = at]
  <2>2. PICK a, b, k : w = [at |-> a, binding |-> b, known |-> k]
    BY <2>1 DEF MapWork
  <2>3. w.at = a /\ w.binding = b /\ w.known = k
    BY <2>2
  <2>4. b \in 0..3 /\ k \subseteq MapRow
    BY <2>1, <2>3
  <2>5. /\ k \subseteq s1
        /\ a \in {"leased", "loaded", "saving", "ready"} => b \in 2..s2
        /\ a \in {"loaded", "saving", "ready"} => \A r \in OldRows : r[1] = b => r \in k
        /\ a \in {"saving", "ready"} => OldRows \subseteq k
        /\ a = "ready" => \A c \in {"s", t} : ThreadRow(b, c) \in s1
    BY <2>1, <2>3 DEF TaskTrue
  <2>6. \A at : Moved(at) = [at |-> at, binding |-> b, known |-> k]
    BY <2>2
  <2>7. \A at \in {"queued", "leased", "loaded", "saving", "ready", "sent", "failed", "conflict"} :
          [at |-> at, binding |-> b, known |-> k] \in MapWork
    BY <2>4 DEF MapWork
  <2> HIDE DEF w, Moved
  <2>8. CASE Mapped!Lease(t)
    <3>0. PICK new : new = [at |-> "leased", binding |-> s2, known |-> {}]
      OBVIOUS
    <3>1. s3' = [s3 EXCEPT ![t] = new] /\ UNCHANGED <<s1, s2, s4>>
      BY <2>8, <3>0 DEF Mapped!Lease
    <3>2. new \in MapWork /\ new.at = "leased" /\ new.known = {} /\ new.binding = s2
      BY <1>2, <3>0 DEF MapWork
    <3>3. new.known \subseteq s1' /\ new.binding \in 2..s2 /\ \A s \in s4' : s \in s4
      BY <1>2, <3>1, <3>2
    <3> QED
      BY <1>1, <1>2, <3>1, <3>2, <3>3, OneTask
  <2>9. CASE Mapped!Load(t)
    <3>0. PICK new : new = [at |-> "loaded", binding |-> b, known |-> Mapped!Of(b)]
      OBVIOUS
    <3>1. a = "leased" /\ s3' = [s3 EXCEPT ![t].at = "loaded", ![t].known = Mapped!Of(b)]
              /\ UNCHANGED <<s1, s2, s4>>
      BY <2>3, <2>9 DEF Mapped!Load, w
    <3>2. s3' = [s3 EXCEPT ![t] = new]
      <4>1. [[w EXCEPT !.at = "loaded"] EXCEPT !.known = Mapped!Of(b)] = new
        <5>1. [w EXCEPT !.at = "loaded"] = [at |-> "loaded", binding |-> b, known |-> k]
          BY <2>6 DEF Moved
        <5>2. [[at |-> "loaded", binding |-> b, known |-> k] EXCEPT !.known = Mapped!Of(b)] = new
          BY <3>0
        <5> QED
          BY <5>1, <5>2
      <4> QED
        BY <1>2, <3>1, <4>1 DEF w
    <3>3. Mapped!Of(b) \subseteq s1 /\ \A r \in OldRows : r[1] = b => r \in Mapped!Of(b)
      BY <1>2 DEF Mapped!Of
    <3>4. new \in MapWork /\ new.at = "loaded" /\ new.known = Mapped!Of(b) /\ new.binding = b
      BY <1>2, <2>4, <3>0, <3>3 DEF MapWork
    <3>5. /\ new.known \subseteq s1' /\ new.binding \in 2..s2 /\ \A s \in s4' : s \in s4
          /\ \A r \in OldRows : r[1] = new.binding => r \in new.known
      BY <1>2, <2>5, <3>1, <3>3, <3>4
    <3> QED
      BY <1>1, <1>2, <3>1, <3>2, <3>3, <3>4, <3>5, OneTask
  <2>10. CASE Mapped!LoadOthers(t)
    <3>8. PICK others : others = UNION {Mapped!Of(o) : o \in (1..s2) \ {b}}
      OBVIOUS
    <3>0. PICK new : new = [at |-> "saving", binding |-> b, known |-> k \cup others]
      OBVIOUS
    <3>1. /\ a = "loaded" /\ UNCHANGED <<s1, s2, s4>>
          /\ s3' = [s3 EXCEPT ![t].at = "saving",
                              ![t].known = IF b > 1 THEN @ \cup others ELSE @]
      BY <2>3, <2>10, <3>8 DEF Mapped!LoadOthers, w
    <3>2. b \in 2..s2
      BY <2>5, <3>1
    <3>3. s3' = [s3 EXCEPT ![t] = new]
      <4>1. [[w EXCEPT !.at = "saving"] EXCEPT !.known = k \cup others] = new
        <5>1. [w EXCEPT !.at = "saving"] = [at |-> "saving", binding |-> b, known |-> k]
          BY <2>6 DEF Moved
        <5> QED
          <6>1. [[at |-> "saving", binding |-> b, known |-> k] EXCEPT !.known = k \cup others] = new
            BY <3>0
          <6> QED
            BY <5>1, <6>1
      <4>2. b > 1 /\ w.known = k
        BY <1>2, <2>3, <3>2
      <4> QED
        BY <1>2, <3>1, <4>1, <4>2 DEF w
    <3>4. others \subseteq s1
      BY <3>8 DEF Mapped!Of
    <3>5. OldRows \subseteq k \cup others
      <4> SUFFICES ASSUME NEW r \in OldRows, r \notin k
                   PROVE  r \in others
        OBVIOUS
      <4>1. r[1] \in 1..2 /\ r[1] # b
        BY <2>5, <3>1, OldRowsAssumed
      <4>2. r[1] \in (1..s2) \ {b} /\ r \in Mapped!Of(r[1])
        BY <1>2, <4>1 DEF Mapped!Of
      <4> QED
        BY <3>8, <4>2
    <3>6. new \in MapWork /\ new.at = "saving" /\ new.known = k \cup others /\ new.binding = b
      BY <1>2, <2>4, <3>0, <3>4 DEF MapWork
    <3>7. new.known \subseteq s1 /\ OldRows \subseteq new.known
      BY <2>5, <3>4, <3>5, <3>6
    <3> QED
      BY <1>1, <1>2, <3>1, <3>2, <3>3, <3>6, <3>7, OneTask
  <2>11. CASE Mapped!Save(t)
    <3>1. a = "saving"
      BY <2>3, <2>11 DEF Mapped!Save, w
    <3>2. b \in 1..3 /\ OldRows \subseteq k
      BY <1>2, <2>5, <3>1
    <3>3. /\ Mapped!Pending(t) \subseteq MapRow /\ ~Mapped!Conflicts(t)
          /\ \A c \in {"s", t} : ThreadRow(b, c) \in s1 \cup Mapped!Pending(t)
      BY <1>2, <2>3, <2>4, <2>5, <3>2, StoresNames DEF w
    <3>4. PICK at \in {"ready", "failed"} :
            /\ s3' = [s3 EXCEPT ![t].at = at]
            /\ s1' \in {s1, s1 \cup Mapped!Pending(t)}
            /\ at = "ready" => s1' = s1 \cup Mapped!Pending(t)
            /\ UNCHANGED <<s2, s4>>
      BY <2>11, <3>3 DEF Mapped!Save, Mapped!Move
    <3>5. s3' = [s3 EXCEPT ![t] = Moved(at)]
      BY <3>4 DEF Moved, w
    <3>6. Moved(at) \in MapWork /\ Moved(at).at = at /\ Moved(at).known = k /\ Moved(at).binding = b
      BY <2>6, <2>7
    <3>7. s1 \subseteq s1' /\ s1' \subseteq MapRow /\ (at = "ready"
              => \A c \in {"s", t} : ThreadRow(b, c) \in s1')
      BY <1>2, <3>3, <3>4
    <3>8. k \subseteq s1' /\ b \in 2..s2 /\ \A s \in s4' : s \in s4
      BY <2>5, <3>1, <3>4, <3>7
    <3> QED
      BY <1>1, <1>2, <3>2, <3>4, <3>5, <3>6, <3>7, <3>8, OneTask
  <2>12. CASE Mapped!Requeue(t) \/ Mapped!Again(t)
    <3>1. s3' = [s3 EXCEPT ![t] = Moved("queued")] /\ UNCHANGED <<s1, s2, s4>>
      BY <2>12 DEF Mapped!Requeue, Mapped!Again, Mapped!Move, Moved, w
    <3>2. Moved("queued") \in MapWork /\ Moved("queued").at = "queued" /\ Moved("queued").known = k
      BY <2>6, <2>7
    <3> QED
      BY <1>1, <1>2, <2>5, <3>1, <3>2, OneTask
  <2>13. CASE Mapped!Send(t)
    <3>0. PICK new :
            new = [task |-> t, binding |-> b,
                   names |-> [c \in {"s", t} |-> Mapped!Outbound(t, c)],
                   refs |-> [x \in {"alias1", "alias2", "own", "new"} |-> Mapped!Original(t, x)]]
      OBVIOUS
    <3>1. a = "ready" /\ s3' = [s3 EXCEPT ![t] = Moved("sent")] /\ s4' = s4 \cup {new}
              /\ UNCHANGED <<s1, s2>>
      BY <2>3, <2>13, <3>0 DEF Mapped!Send, Mapped!Move, Moved, w, MapTask
    <3>2. Moved("sent") \in MapWork /\ Moved("sent").at = "sent" /\ Moved("sent").known = k
      BY <2>6, <2>7
    <3>3. b \in 1..3 /\ OldRows \subseteq k
      BY <1>2, <2>5, <3>1
    <3>4. /\ \A c : Mapped!Outbound(t, c) = NameOf(b, c)
          /\ \A x : RefTrue(x, Mapped!Original(t, x))
      BY <2>3, <2>4, <3>3, SendsName, SendsOriginal DEF w
    <3>5. {"s", t} \subseteq Client
      BY DEF Client
    <3>6. /\ new.binding = b /\ DOMAIN new.names = {"s", t}
          /\ \A c \in {"s", t} : new.names[c] = NameOf(b, c)
          /\ \A x \in DOMAIN new.refs : new.refs[x] = Mapped!Original(t, x)
      BY <3>0, <3>4
    <3>7. SentTrue(new)
      BY <2>5, <3>1, <3>3, <3>4, <3>5, <3>6 DEF SentTrue
    <3>8. SentTrue(new)'
      BY <3>1, <3>7 DEF SentTrue
    <3> QED
      BY <1>1, <1>2, <2>5, <3>1, <3>2, <3>8, OneTask
  <2> QED
    BY <1>4, <2>8, <2>9, <2>10, <2>11, <2>12, <2>13
<1>5. CASE Mapped!Migrate
  <2>1. s2' = s2 + 1 /\ s2' \in 2..3 /\ UNCHANGED <<s1, s3, s4>>
    BY <1>2, <1>5 DEF Mapped!Migrate
  <2>2. \A t \in MapTask : TaskTrue(t)'
    <3> SUFFICES ASSUME NEW t \in MapTask
                 PROVE  TaskTrue(t)'
      OBVIOUS
    <3>1. TaskTrue(t) /\ s3'[t] = s3[t] /\ s1' = s1
      BY <1>1, <2>1, TaskFacts
    <3>2. \A b \in 2..s2 : b \in 2..s2'
      BY <1>2, <2>1
    <3> QED
      BY <3>1, <3>2 DEF TaskTrue
  <2>3. \A s \in s4' : SentTrue(s)'
    BY <1>1, <2>1 DEF MapInv, SentTrue
  <2> QED
    BY <1>1, <1>2, <2>1, <2>2, <2>3 DEF MapInv
<1>6. CASE Mapped!Restart
  <2>1. /\ s3' = [t \in MapTask |-> [at |-> "queued", binding |-> 0, known |-> {}]]
        /\ UNCHANGED <<s1, s2, s4>>
    BY <1>6 DEF Mapped!Restart, MapTask
  <2>2. [at |-> "queued", binding |-> 0, known |-> {}] \in MapWork
    BY DEF MapWork
  <2>3. \A t \in MapTask : TaskTrue(t)'
    BY <2>1 DEF TaskTrue
  <2>4. \A s \in s4' : SentTrue(s)'
    BY <1>1, <2>1 DEF MapInv, SentTrue
  <2> QED
    BY <1>2, <2>1, <2>2, <2>3, <2>4 DEF MapInv
<1> QED
  BY <1>1, <1>3, <1>4, <1>5, <1>6 DEF Mapped!Next, partVars, MapTask

LEMMA NamesKept ==
  ASSUME MapInv, part = "mapping"
  PROVE  Mapped!IdentitiesStable /\ Mapped!OriginalsRestored
<1>1. \A s \in s4 : SentTrue(s)
  BY DEF MapInv
<1>2. \A s, r \in s4 : \A c \in DOMAIN s.names, d \in DOMAIN r.names :
        s.names[c] = r.names[d] <=> c = d /\ s.binding = r.binding
  <2> SUFFICES ASSUME NEW s \in s4, NEW r \in s4, NEW c \in DOMAIN s.names, NEW d \in DOMAIN r.names
               PROVE  s.names[c] = r.names[d] <=> c = d /\ s.binding = r.binding
    OBVIOUS
  <2>1. s.binding \in 1..3 /\ c \in Client /\ s.names[c] = NameOf(s.binding, c)
    BY <1>1 DEF SentTrue
  <2>2. r.binding \in 1..3 /\ d \in Client /\ r.names[d] = NameOf(r.binding, d)
    BY <1>1 DEF SentTrue
  <2>3. NameOf(s.binding, c) = NameOf(r.binding, d) => s.binding = r.binding /\ c = d
    BY <2>1, <2>2, NamesDistinct
  <2> QED
    BY <2>1, <2>2, <2>3
<1>3. \A t \in MapTask : s3[t].at # "conflict"
  BY TaskFacts DEF TaskTrue
<1>4. \A s \in s4 : \A c \in DOMAIN s.names : <<s.binding, "thread", c, s.names[c]>> \in s1
  <2> SUFFICES ASSUME NEW s \in s4, NEW c \in DOMAIN s.names
               PROVE  <<s.binding, "thread", c, s.names[c]>> \in s1
    OBVIOUS
  <2>1. s.names[c] = NameOf(s.binding, c) /\ ThreadRow(s.binding, c) \in s1
    BY <1>1 DEF SentTrue
  <2> QED
    BY <2>1 DEF ThreadRow
<1>5. Mapped!IdentitiesStable
  BY <1>2, <1>3, <1>4 DEF Mapped!IdentitiesStable, MapTask
<1>6. Mapped!OriginalsRestored
  BY <1>1 DEF SentTrue, RefTrue, Mapped!OriginalsRestored
<1> QED
  BY <1>5, <1>6

\* The upstream knows a request under one identity, a thread under one name for each
\* binding, and gets back the names it gave to objects: ingress.rs, request.rs,
\* identity.rs and references.rs.
THEOREM ServicesIdentities == ServicesSpec => []IdentitiesKept
<1>1. ServicesInit => InputInv /\ MapInv
  BY InputInvInit, MapInvInit
<1>2. (InputInv /\ MapInv) /\ [ServicesNext]_allVars => (InputInv /\ MapInv)'
  BY InputInvStep, MapInvStep
<1>3. InputInv /\ MapInv => IdentitiesKept
  BY OneIdentity, NamesKept DEF IdentitiesKept
<1> QED
  BY <1>1, <1>2, <1>3, PTL DEF ServicesSpec

-----------------------------------------------------------------------------
(* Quotas. *)

\* Nothing is known from the future, and no credits are older than a rejection.
QuotaInv ==
  part = "quota" =>
    /\ s1 \in 0..3
    /\ s2 \in Seq([at : 0..3]) /\ Len(s2) <= 3
    /\ s3 \in 1..Len(s2) \cup {None} /\ (s3 = None => Len(s2) = 0)
    /\ Quotas!NewestQuotaWins
    /\ s4 \in Quotas!Credits \cup {None} /\ (s4 # None => s4.at <= s1)
    /\ s5 \in [Task -> Quotas!Credits \cup {None}]
    /\ \A t \in Task : s5[t] # None => s5[t].at <= s1
    /\ s6 \in 0..3 \cup {None}
    /\ s6 # None => s6 <= s1 /\ s4 # None /\ s6 <= s4.at

LEMMA QuotasAssumed ==
  /\ None \notin 0..3 /\ None \notin 1..3 /\ None \notin Quotas!Credits
  /\ Quotas!Credits = [at : 0..3, plenty : BOOLEAN, blocked : BOOLEAN]
<1>1. Quotas!QuotaAssumption
  BY ServicesAssumption DEF ServicesAssumption
<1> QED
  BY <1>1 DEF Quotas!QuotaAssumption, Quotas!Time, Quotas!Credits

LEMMA QuotaInvInit == ServicesInit => QuotaInv
<1> SUFFICES ASSUME ServicesInit, part = "quota"
             PROVE  QuotaInv
  BY DEF QuotaInv
<1>1. s1 = 0 /\ s2 = <<>> /\ s3 = None /\ s4 = None /\ s5 = [t \in Task |-> None] /\ s6 = None
  BY DEF ServicesInit, Quotas!Init
<1>2. Quotas!NewestQuotaWins
  BY <1>1 DEF Quotas!NewestQuotaWins
<1> QED
  BY <1>1, <1>2 DEF QuotaInv

\* Whatever is stored last, the one observed last stays in force.
LEMMA NewestStays ==
  ASSUME QuotaInv, part = "quota", NEW at \in 0..3, Quotas!SaveQuota([at |-> at])
  PROVE  /\ s2' \in Seq([at : 0..3]) /\ Len(s2') <= 3
         /\ s3' \in 1..Len(s2')
         /\ Quotas!NewestQuotaWins'
<1> DEFINE n == Len(s2)
<1>1. /\ s2 \in Seq([at : 0..3]) /\ n \in Nat /\ n < 3 /\ s3 \in 1..n \cup {None}
  BY DEF QuotaInv, Quotas!SaveQuota
<1>2. /\ s2' = Append(s2, [at |-> at])
      /\ s3' = IF s3 = None \/ s2[s3].at <= at THEN n + 1 ELSE s3
  BY DEF Quotas!SaveQuota, Quotas!Newer
<1>3. /\ s2' \in Seq([at : 0..3]) /\ Len(s2') = n + 1 /\ s2'[n + 1] = [at |-> at]
      /\ \A i \in 1..n : s2'[i] = s2[i]
  BY <1>1, <1>2
<1>4. \A i \in 1..n : s2[i] \in [at : 0..3] /\ s2[i].at \in 0..3
  <2>1. \A i \in 1..n : s2[i] \in [at : 0..3]
    <3> DEFINE Seen == [at : 0..3]
    <3>1. s2 \in Seq(Seen)
      BY <1>1
    <3> HIDE DEF Seen
    <3>2. \A i \in 1..n : s2[i] \in Seen
      BY <3>1
    <3> QED
      BY <3>2 DEF Seen
  <2>2. \A snapshot \in [at : 0..3] : snapshot.at \in 0..3
    OBVIOUS
  <2> QED
    BY <2>1, <2>2
<1>5. s2'[n + 1].at = at
  BY <1>3
<1>6. DOMAIN s2' = 1..(n + 1) /\ s2' # <<>> /\ DOMAIN s2 = 1..n
  BY <1>1, <1>3
<1>7. s3 \in 1..n => \A i \in 1..n :
        i = s3 \/ s2[i].at < s2[s3].at \/ (s2[i].at = s2[s3].at /\ i < s3)
  BY <1>6 DEF QuotaInv, Quotas!NewestQuotaWins, Quotas!Before
<1>8. s3 = None => n = 0
  BY DEF QuotaInv
<1>9. s3' \in 1..(n + 1)
  BY <1>1, <1>2
<1>10. \A i \in 1..(n + 1) :
         i = s3' \/ s2'[i].at < s2'[s3'].at \/ (s2'[i].at = s2'[s3'].at /\ i < s3')
  <2>1. CASE s3 = None
    BY <1>2, <1>8, <1>9, <2>1
  <2>2. CASE s3 # None
    <3>1. s3 \in 1..n /\ s2[s3].at \in 0..3 /\ s2'[s3].at = s2[s3].at
      BY <1>1, <1>3, <1>4, <2>2
    <3>2. \A i \in 1..n : s2'[i].at = s2[i].at /\ s2[i].at \in 0..3
      BY <1>3, <1>4
    <3>3. CASE s2[s3].at <= at
      BY <1>1, <1>2, <1>5, <1>7, <3>1, <3>2, <3>3
    <3>4. CASE ~(s2[s3].at <= at)
      BY <1>1, <1>2, <1>5, <1>7, <2>2, <3>1, <3>2, <3>4
    <3> QED
      BY <3>3, <3>4
  <2> QED
    BY <2>1, <2>2
<1>11. Quotas!NewestQuotaWins'
  BY <1>6, <1>10 DEF Quotas!NewestQuotaWins, Quotas!Before
<1> QED
  BY <1>1, <1>3, <1>9, <1>11

LEMMA QuotaInvStep == QuotaInv /\ [ServicesNext]_allVars => QuotaInv'
<1> SUFFICES ASSUME QuotaInv, [ServicesNext]_allVars, part' = "quota"
             PROVE  QuotaInv'
  BY DEF QuotaInv
<1>1. part = "quota" /\ (Quotas!Next \/ UNCHANGED partVars)
  BY DEF ServicesNext, PartNext, allVars
<1>2. /\ s1 \in 0..3 /\ s2 \in Seq([at : 0..3]) /\ Len(s2) <= 3 /\ s3 \in 1..Len(s2) \cup {None}
      /\ (s3 = None => Len(s2) = 0) /\ Quotas!NewestQuotaWins
      /\ s4 \in Quotas!Credits \cup {None} /\ (s4 # None => s4.at <= s1)
      /\ s5 \in [Task -> Quotas!Credits \cup {None}]
      /\ \A t \in Task : s5[t] # None => s5[t].at <= s1
      /\ s6 \in 0..3 \cup {None}
      /\ s6 # None => s6 <= s1 /\ s4 # None /\ s6 <= s4.at
  BY <1>1 DEF QuotaInv
<1>3. UNCHANGED <<s2, s3>> => Quotas!NewestQuotaWins'
  BY <1>2 DEF Quotas!NewestQuotaWins, Quotas!Before
<1>4. None \notin 0..3 /\ \A c \in Quotas!Credits : c # None /\ c.at \in 0..3
  BY QuotasAssumed
<1>5. CASE UNCHANGED <<s1, s2, s3, s4, s5, s6>>
  BY <1>1, <1>2, <1>3, <1>5 DEF QuotaInv
<1>6. ASSUME NEW t \in Task, Quotas!Observe(t)
      PROVE  QuotaInv'
  <2>1. PICK plenty \in BOOLEAN, blocked \in BOOLEAN :
          s5' = [s5 EXCEPT ![t] = [at |-> s1, plenty |-> plenty, blocked |-> blocked]]
    BY <1>6 DEF Quotas!Observe
  <2>2. PICK observed : observed = [at |-> s1, plenty |-> plenty, blocked |-> blocked]
    OBVIOUS
  <2>3. UNCHANGED <<s1, s2, s3, s4, s6>>
    BY <1>6 DEF Quotas!Observe
  <2>4. observed \in Quotas!Credits /\ observed.at = s1
    BY <1>2, <2>2, QuotasAssumed
  <2>5. s5' \in [Task -> Quotas!Credits \cup {None}]
            /\ \A u \in Task : s5'[u] = IF u = t THEN observed ELSE s5[u]
    BY <1>2, <2>1, <2>2, <2>4
  <2>6. \A u \in Task : s5'[u] # None => s5'[u].at <= s1
    BY <1>2, <2>4, <2>5
  <2> QED
    BY <1>1, <1>2, <1>3, <2>3, <2>5, <2>6 DEF QuotaInv
<1>7. ASSUME NEW t \in Task, Quotas!Store(t)
      PROVE  QuotaInv'
  <2>1. /\ s5[t] # None /\ Quotas!SaveQuota([at |-> s5[t].at]) /\ UNCHANGED <<s1, s6>>
        /\ s5' = [s5 EXCEPT ![t] = None]
        /\ s4' \in {s4, IF s4 = None \/ s4.at <= s5[t].at THEN s5[t] ELSE s4}
    BY <1>7 DEF Quotas!Store, Quotas!SaveCredits
  <2>2. s5[t] \in Quotas!Credits /\ s5[t].at \in 0..3 /\ s5[t].at <= s1
    BY <1>2, <1>4, <2>1
  <2>3. PICK observed : observed = s5[t]
    OBVIOUS
  <2>4. /\ s2' \in Seq([at : 0..3]) /\ Len(s2') <= 3
        /\ s3' \in 1..Len(s2') /\ None \notin 1..Len(s2')
        /\ Quotas!NewestQuotaWins'
    <3>1. observed.at \in 0..3 /\ Quotas!SaveQuota([at |-> observed.at])
      BY <2>1, <2>2, <2>3
    <3> QED
      BY <1>1, <3>1, NewestStays, QuotasAssumed
  <2>5. s5' \in [Task -> Quotas!Credits \cup {None}] /\ \A u \in Task : s5'[u] # None => s5'[u].at <= s1
    BY <1>2, <2>1
  <2>6. s4' \in Quotas!Credits \cup {None} /\ (s4' # None => s4'.at <= s1)
    BY <1>2, <2>1, <2>2
  <2>7. s6 # None => s4' # None /\ s6 <= s4'.at
    <3> SUFFICES ASSUME s6 # None
                 PROVE  s4' # None /\ s6 <= s4'.at
      OBVIOUS
    <3>1. s4 \in Quotas!Credits /\ s6 \in 0..3 /\ s6 <= s4.at /\ s4.at \in 0..3
      BY <1>2, <1>4
    <3> QED
      BY <1>4, <2>1, <2>2, <3>1
  <2> QED
    BY <1>1, <1>2, <2>1, <2>4, <2>5, <2>6, <2>7 DEF QuotaInv
<1>8. ASSUME NEW t \in Task, Quotas!Drop(t)
      PROVE  QuotaInv'
  <2>1. s5' = [s5 EXCEPT ![t] = None] /\ UNCHANGED <<s1, s2, s3, s4, s6>>
    BY <1>8 DEF Quotas!Drop
  <2>2. s5' \in [Task -> Quotas!Credits \cup {None}] /\ \A u \in Task : s5'[u] # None => s5'[u].at <= s1
    BY <1>2, <2>1
  <2> QED
    BY <1>1, <1>2, <1>3, <2>1, <2>2 DEF QuotaInv
<1>9. CASE Quotas!Reject
  <2> DEFINE noted == [s4 EXCEPT !.blocked = TRUE, !.at = s1]
  <2>1. /\ s4 # None /\ s6' = s1 /\ UNCHANGED <<s1, s2, s3, s5>>
        /\ s4' = IF s4 = None \/ s4.at <= noted.at THEN noted ELSE s4
    BY <1>9 DEF Quotas!Reject, Quotas!SaveCredits
  <2>2. noted \in Quotas!Credits /\ noted.at = s1
    <3>1. s4 \in [at : 0..3, plenty : BOOLEAN, blocked : BOOLEAN]
      BY <1>2, <2>1, QuotasAssumed
    <3>2. noted \in [at : 0..3, plenty : BOOLEAN, blocked : BOOLEAN]
      BY <1>2, <3>1
    <3>3. noted.at = s1
      BY <3>1
    <3> QED
      BY <3>2, <3>3, QuotasAssumed
  <2> HIDE DEF noted
  <2>3. s4' = noted
    BY <1>2, <2>1, <2>2
  <2>4. s4' \in Quotas!Credits /\ s4'.at = s1 /\ s4' # None
    BY <1>4, <2>2, <2>3
  <2> QED
    BY <1>1, <1>2, <1>3, <2>1, <2>4 DEF QuotaInv
<1>10. CASE Quotas!Tick
  <2>1. s1 < 3 /\ s1' = s1 + 1 /\ UNCHANGED <<s2, s3, s4, s5, s6>>
    BY <1>10 DEF Quotas!Tick
  <2>2. s1' \in 0..3 /\ \A x \in 0..3 : x <= s1 => x <= s1'
    BY <1>2, <2>1
  <2>3. \A t \in Task : s5'[t] # None => s5'[t].at <= s1'
    BY <1>2, <1>4, <2>1, <2>2
  <2>4. s4' # None => s4'.at <= s1'
    BY <1>2, <1>4, <2>1, <2>2
  <2>5. s6' # None => s6' <= s1'
    BY <1>2, <2>1, <2>2
  <2> QED
    BY <1>1, <1>2, <1>3, <2>1, <2>2, <2>3, <2>4, <2>5 DEF QuotaInv
<1> QED
  BY <1>1, <1>5, <1>6, <1>7, <1>8, <1>9, <1>10 DEF Quotas!Next, partVars

\* gateway.rs and migration 0018: in whatever order quotas and credits are stored, those
\* observed last are in force, and a rejection outlives the credits that were seen before.
THEOREM ServicesQuotas == ServicesSpec => []QuotasInOrder
<1>1. QuotaInv => QuotasInOrder
  <2> SUFFICES ASSUME QuotaInv, part = "quota"
               PROVE  Quotas!NewestQuotaWins /\ Quotas!RejectionOutlivesCredits
    BY DEF QuotasInOrder
  <2> QED
    BY DEF QuotaInv, Quotas!RejectionOutlivesCredits
<1> QED
  BY <1>1, QuotaInvInit, QuotaInvStep, PTL DEF ServicesSpec

-----------------------------------------------------------------------------
(* A stream between its upstream and its client. The variables of the part *)
(* are, in this order, kind, input, upstream, decoder, chunk, hold, record,*)
(* row, latched, disable, sent and task.                                   *)

\* The attempt under way, its events, and how many of them were handled.
Attempted == s7.attempts
Events == s3[Attempted]
Handled == Len(Events) - Len(s5)

UsageOf(events, n) ==
  [tokens |-> Stream!Tokens(events, n), images |-> Cardinality(Stream!Images(events, n))]

StreamItem == [event : StreamEvents, number : Nat, usage : Stream!Usage]
StreamTask ==
  [at : Stream!Stage, error : Stream!Error
      \cup {None}, finalized : BOOLEAN, delivered : BOOLEAN, client : BOOLEAN]

StreamTypes ==
  /\ s1 \in {"stream", "document", "unary"}
  /\ s3 \in [1..2 -> Seq(StreamEvents)]
  /\ s5 \in Seq(StreamItem)
  /\ s6 \in [on : BOOLEAN, events : Seq(Nat)]
  /\ s7 \in [attempts : 0..2, usage : Stream!Usage]
  /\ s8 \in Stream!Row \cup {None}
  /\ s9 \in BOOLEAN
  /\ s11 \in Seq((0..2) \X Nat)
  /\ s12 \in StreamTask

\* An attempt ends with its terminal event.
TerminalsLast ==
  \A a \in 1..2 : \A i \in 1..Len(s3[a]) : Stream!Terminal(s3[a][i]) => i = Len(s3[a])

\* What the first attempt must be for another one.
DidNothing ==
  /\ \A i \in 1..Len(s3[1]) : ~s3[1][i].work
  /\ s3[1] # <<>> => s3[1][Len(s3[1])].body \notin s2

\* What was sent are the first events of the attempt; its end only after the outcome
\* was stored.
SentInOrder ==
  /\ s11 # <<>> => s1 = "stream" /\ Attempted \in 1..2
  /\ \A i \in 1..Len(s11) :
       /\ s11[i] = <<Attempted, i>> /\ i <= Len(Events)
       /\ Stream!Terminal(Events[i]) => s12.delivered /\ s8 # None

\* What is stored as complete is what the attempt has reported.
RowCharged ==
  s1 # "unary" /\ s8 # None /\ s8.state = "completed" =>
    /\ s8.attempts \in 1..2 /\ s3[s8.attempts] # <<>>
    /\ s3[s8.attempts][Len(s3[s8.attempts])].kind = "completed"
    /\ s8.usage = UsageOf(s3[s8.attempts], Len(s3[s8.attempts]))

StreamCommon ==
  /\ StreamTypes /\ TerminalsLast /\ Stream!RejectionsLatched /\ RowCharged
  /\ s3[2] # <<>> => Attempted = 2
  /\ Attempted = 2 => DidNothing

\* Before an answer.
NoAnswerYet ==
  /\ Attempted \in 1..2 /\ Events = <<>> /\ s5 = <<>> /\ s8 = None /\ s11 = <<>>

\* Events of the chunk that are left, with the figures up to each.
Chunked ==
  /\ s1 # "unary" /\ Attempted \in 1..2 /\ Len(s5) <= Len(Events)
  /\ \A i \in 1..Len(s5) :
       /\ s5[i].number = Handled + i /\ s5[i].event = Events[Handled + i]
       /\ s5[i].usage = UsageOf(Events, Handled + i)

Decoding ==
  /\ Chunked /\ s8 = None
  /\ s4.tokens = Stream!Tokens(Events, Len(Events))
  /\ s4.images = Stream!Images(Events, Len(Events))
  /\ ~s4.terminal => \A i \in 1..Len(Events) : ~Stream!Terminal(Events[i])

\* The first n events are held back.
Held(n) ==
  /\ Attempted = 1 /\ s11 = <<>> /\ Len(s6.events) = n
  /\ \A i \in 1..n : s6.events[i] = i /\ ~Events[i].work

\* Nothing is held back any more, and the client of a stream has n events.
Flushed(n) == ~s6.on /\ s6.events = <<>> /\ (s1 = "stream" => Len(s11) = n)

Draining ==
  /\ ~s6.on
  /\ IF s1 = "stream"
     THEN /\ Len(s11) + Len(s6.events) = Handled
          /\ \A i \in 1..Len(s6.events) : s6.events[i] = Len(s11) + i
     ELSE s6.events = <<>>

Ending ==
  s1 # "unary" =>
    /\ Chunked /\ s5 # <<>> /\ Flushed(Handled)
    /\ Stream!Terminal(s5[1].event) /\ s7.usage = s5[1].usage

StreamStages ==
  /\ s12.at \in {"checking", "sending", "unary"} => NoAnswerYet
  /\ s12.at = "unary" => s1 = "unary"
  /\ s12.at = "reading" =>
       Decoding /\ s5 = <<>> /\ (IF s6.on THEN Held(Handled) ELSE Flushed(Handled))
  /\ s12.at = "handling" =>
       Decoding /\ s5 # <<>> /\ (IF s6.on THEN Held(Handled) ELSE Flushed(Handled))
  /\ s12.at = "draining" => Decoding /\ s5 # <<>> /\ Draining
  /\ s12.at = "observing" =>
       /\ Decoding /\ s5 # <<>>
       /\ IF s6.on THEN Held(Handled + 1) /\ ~Stream!Terminal(s5[1].event) ELSE Flushed(Handled)
  /\ s12.at = "delivering" =>
       Decoding /\ s5 # <<>> /\ Flushed(Handled) /\ ~Stream!Terminal(s5[1].event) /\ s1 = "stream"
  /\ s12.at = "finishing" => Attempted \in 1..2 /\ s8 = None /\ Ending
  /\ s12.at = "last" => Attempted \in 1..2 /\ s8 # None /\ Ending /\ s12.finalized
  /\ s12.at = "recovering" => Attempted = 1 /\ s8 = None /\ s11 = <<>> /\ DidNothing
  /\ s12.at = "ended" => s12.finalized \/ s12.error # None
  /\ s12.at # "done" => SentInOrder

StreamInv ==
  part = "stream" =>
    /\ StreamCommon /\ StreamStages
    /\ Stream!OneAttemptDelivered /\ Stream!RepeatedWithoutWork /\ Stream!OutcomeOfLastAttempt

-----------------------------------------------------------------------------
(* The figures told by a sequence of events.                              *)

LEMMA LargestOfSome ==
  ASSUME NEW n \in Nat, NEW S, S \subseteq 1..n, S # {}
  PROVE  \E i \in S : \A j \in S : j <= i
<1> DEFINE T == {n - i : i \in S}
           R == OpToRel(<, Nat)
<1>1. T \subseteq Nat /\ T # {}
  <2>1. \A i \in S : n - i \in Nat
    OBVIOUS
  <2>2. \E i \in S : n - i \in T
    OBVIOUS
  <2> QED
    BY <2>1, <2>2
<1>2. \A x, y \in Nat : y < x => <<y, x>> \in R
  BY DEF OpToRel
<1>3. IsWellFoundedOn(R, Nat)
  BY NatLessThanWellFounded
<1> HIDE DEF R
<1>4. PICK x \in T : \A y \in T : ~(<<y, x>> \in R)
  BY <1>1, <1>3, WFMin
<1>5. PICK i \in S : x = n - i
  BY <1>4
<1>6. \A j \in S : j <= i
  <2> SUFFICES ASSUME NEW j \in S, ~(j <= i)
               PROVE  FALSE
    OBVIOUS
  <2>1. n - j \in T /\ n - j \in Nat /\ n - i \in Nat /\ n - j < n - i
    OBVIOUS
  <2> QED
    BY <1>2, <1>4, <1>5, <2>1
<1> QED
  BY <1>6

\* The last figure told by the first n events.
LEMMA LastFigure ==
  ASSUME NEW events, NEW n \in Nat
  PROVE  /\ (\A i \in 1..n : events[i].tokens = None) => Stream!Tokens(events, n) = None
         /\ \A i \in 1..n :
              events[i].tokens # None /\ (\A j \in 1..n : j > i => events[j].tokens = None)
                => Stream!Tokens(events, n) = events[i].tokens
         /\ (\A i \in 1..n : events[i].tokens = None)
              \/ \E i \in 1..n : events[i].tokens # None /\ \A j \in 1..n : j > i
                  => events[j].tokens = None
<1> DEFINE told == {i \in 1..n : events[i].tokens # None}
           latest == CHOOSE i \in told : \A j \in told : j <= i
<1>1. Stream!Tokens(events, n) = IF told = {} THEN None ELSE events[latest].tokens
  BY DEF Stream!Tokens
<1>2. told # {} => \E i \in told : \A j \in told : j <= i
  BY LargestOfSome
<1>3. told # {} => latest \in told /\ \A j \in told : j <= latest
  BY <1>2
<1>4. ASSUME NEW i \in 1..n, events[i].tokens # None, \A j \in 1..n : j > i => events[j].tokens = None
      PROVE  Stream!Tokens(events, n) = events[i].tokens
  <2>1. i \in told /\ \A j \in told : j <= i
    BY <1>4
  <2>2. latest \in told /\ i <= latest
    BY <1>3, <2>1
  <2>3. latest = i
    BY <2>1, <2>2
  <2> QED
    BY <1>1, <2>1, <2>3
<1>5. told # {} => latest \in 1..n /\ events[latest].tokens # None
          /\ \A j \in 1..n : j > latest => events[j].tokens = None
  BY <1>3
<1>6. told = {} <=> \A i \in 1..n : events[i].tokens = None
  OBVIOUS
<1> HIDE DEF told, latest
<1> QED
  BY <1>1, <1>4, <1>5, <1>6

\* Events that follow others.
LEMMA FiguresAdd ==
  ASSUME NEW u \in Seq(StreamEvents), NEW v \in Seq(StreamEvents), NEW n \in 1..Len(v)
  PROVE  /\ Stream!Tokens(u \o v, Len(u) + n) =
              IF Stream!Tokens(v, n) = None THEN Stream!Tokens(u, Len(u)) ELSE Stream!Tokens(v, n)
         /\ Stream!Images(u \o v, Len(u) + n) = Stream!Images(u, Len(u)) \cup Stream!Images(v, n)
<1> DEFINE w == u \o v
           m == Len(u)
<1>1. m \in Nat /\ n \in Nat /\ Len(v) \in Nat /\ n <= Len(v) /\ m + n \in Nat
  OBVIOUS
<1>2. \A i \in 1..m : w[i] = u[i]
  OBVIOUS
<1>3. \A i \in 1..n : w[m + i] = v[i]
  OBVIOUS
<1>4. \A i \in 1..(m + n) : i \in 1..m \/ (i - m \in 1..n /\ i = m + (i - m))
  BY <1>1
<1> HIDE DEF w, m
<1>5. Stream!Tokens(w, m + n) = IF Stream!Tokens(v, n) = None THEN Stream!Tokens(u, m) ELSE Stream!Tokens(v, n)
  <2>1. CASE \A i \in 1..n : v[i].tokens = None
    <3>1. Stream!Tokens(v, n) = None
      BY <1>1, <2>1, LastFigure
    <3>2. \A i \in 1..(m + n) : i > m => w[i].tokens = None
      <4> SUFFICES ASSUME NEW i \in 1..(m + n), i > m
                   PROVE  w[i].tokens = None
        OBVIOUS
      <4>1. i - m \in 1..n /\ i = m + (i - m)
        BY <1>1
      <4>2. w[i] = v[i - m]
        BY <1>3, <4>1
      <4> QED
        BY <2>1, <4>1, <4>2
    <3>3. CASE \A i \in 1..m : u[i].tokens = None
      <4>1. \A i \in 1..(m + n) : w[i].tokens = None
        BY <1>1, <1>2, <1>4, <3>2, <3>3
      <4>2. Stream!Tokens(w, m + n) = None /\ Stream!Tokens(u, m) = None
        BY <1>1, <3>3, <4>1, LastFigure
      <4> QED
        BY <3>1, <4>2
    <3>4. CASE ~\A i \in 1..m : u[i].tokens = None
      <4>1. PICK i \in 1..m : u[i].tokens # None /\ \A j \in 1..m : j > i => u[j].tokens = None
        BY <1>1, <3>4, LastFigure
      <4>2. i \in 1..(m + n) /\ w[i].tokens # None
        BY <1>1, <1>2, <4>1
      <4>3. \A j \in 1..(m + n) : j > i => w[j].tokens = None
        <5> SUFFICES ASSUME NEW j \in 1..(m + n), j > i
                     PROVE  w[j].tokens = None
          OBVIOUS
        <5>1. CASE j \in 1..m
          BY <1>2, <4>1, <5>1
        <5>2. CASE j \notin 1..m
          BY <1>1, <3>2, <5>2
        <5> QED
          BY <5>1, <5>2
      <4>4. Stream!Tokens(w, m + n) = w[i].tokens
        BY <1>1, <4>2, <4>3, LastFigure
      <4>5. Stream!Tokens(u, m) = u[i].tokens
        BY <1>1, <4>1, LastFigure
      <4> QED
        BY <1>2, <3>1, <4>4, <4>5
    <3> QED
      BY <3>3, <3>4
  <2>2. CASE ~\A i \in 1..n : v[i].tokens = None
    <3>1. PICK i \in 1..n : v[i].tokens # None /\ \A j \in 1..n : j > i => v[j].tokens = None
      BY <1>1, <2>2, LastFigure
    <3>2. Stream!Tokens(v, n) = v[i].tokens
      BY <1>1, <3>1, LastFigure
    <3>3. m + i \in 1..(m + n) /\ w[m + i].tokens = v[i].tokens
      BY <1>1, <1>3
    <3>4. \A j \in 1..(m + n) : j > m + i => w[j].tokens = None
      <4> SUFFICES ASSUME NEW j \in 1..(m + n), j > m + i
                   PROVE  w[j].tokens = None
        OBVIOUS
      <4>1. j - m \in 1..n /\ j - m > i /\ j = m + (j - m)
        BY <1>1
      <4>2. w[j] = v[j - m]
        BY <1>3, <4>1
      <4> QED
        BY <3>1, <4>1, <4>2
    <3>5. Stream!Tokens(w, m + n) = w[m + i].tokens
      BY <1>1, <3>1, <3>3, <3>4, LastFigure
    <3> QED
      BY <3>1, <3>2, <3>3, <3>5
  <2> QED
    BY <2>1, <2>2
<1>6. Stream!Images(w, m + n) = Stream!Images(u, m) \cup Stream!Images(v, n)
  <2>1. ASSUME NEW x
        PROVE  x \in Stream!Images(w, m + n) <=> x \in Stream!Images(u, m) \/ x \in Stream!Images(v, n)
    <3>1. x \in Stream!Images(w, m + n) <=> \E i \in 1..(m + n) : x \in w[i].images
      BY DEF Stream!Images
    <3>2. x \in Stream!Images(u, m) <=> \E i \in 1..m : x \in u[i].images
      BY DEF Stream!Images
    <3>3. x \in Stream!Images(v, n) <=> \E i \in 1..n : x \in v[i].images
      BY DEF Stream!Images
    <3>4. (\E i \in 1..(m + n) : x \in w[i].images) => (\E i \in 1..m : x \in u[i].images)
              \/ \E i \in 1..n : x \in v[i].images
      BY <1>2, <1>3, <1>4
    <3>5. (\E i \in 1..m : x \in u[i].images) => \E i \in 1..(m + n) : x \in w[i].images
      <4> SUFFICES ASSUME NEW i \in 1..m, x \in u[i].images
                   PROVE  \E j \in 1..(m + n) : x \in w[j].images
        OBVIOUS
      <4>1. i \in 1..(m + n) /\ w[i] = u[i]
        BY <1>1, <1>2
      <4> QED
        BY <4>1
    <3>6. (\E i \in 1..n : x \in v[i].images) => \E i \in 1..(m + n) : x \in w[i].images
      <4> SUFFICES ASSUME NEW i \in 1..n, x \in v[i].images
                   PROVE  \E j \in 1..(m + n) : x \in w[j].images
        OBVIOUS
      <4>1. m + i \in 1..(m + n) /\ w[m + i] = v[i]
        BY <1>1, <1>3
      <4> QED
        BY <4>1
    <3> QED
      BY <3>1, <3>2, <3>3, <3>4, <3>5, <3>6
  <2> QED
    BY <2>1
<1> QED
  BY <1>5, <1>6 DEF w, m

-----------------------------------------------------------------------------
(* Every step of a stream keeps StreamInv.                                  *)

LEMMA StreamAssumed ==
  /\ \A e \in StreamEvents :
       /\ e.kind \in {"created", "delta", "item", "limits", "completed", "failed"}
       /\ e.work \in BOOLEAN /\ e.tokens \in Nat \cup {None} /\ e.images \subseteq {"i", "j"}
       /\ e.body # None => e.kind = "failed"
  /\ None \notin Nat /\ None \notin Stream!Error /\ None \notin Stream!Row
<1>1. Stream!StreamAssumption
  BY ServicesAssumption DEF ServicesAssumption
<1> QED
  BY <1>1 DEF Stream!StreamAssumption, Stream!EventFields

\* The error an event tells of.
LEMMA ObservedError ==
  ASSUME NEW e \in StreamEvents
  PROVE  /\ Stream!Observed(e) \in Stream!Error \cup {None}
         /\ Stream!Observed(e) = None <=> e.kind # "failed"
         /\ e.body = "policy" => Stream!Observed(e) = "upstream_content_policy_violation"
<1>1. Stream!Code(502, e.body) \in Stream!Error
  BY DEF Stream!Code, Stream!Error
<1>2. None \notin Stream!Error
  BY StreamAssumed
<1>3. e.body = "policy" => e.kind = "failed"
          /\ Stream!Code(502, e.body) = "upstream_content_policy_violation"
  <2>1. None \notin {"upstream_invalid_request", "upstream_content_policy_violation"}
    BY <1>2 DEF Stream!Error
  <2>2. "policy" # None
    <3>1. Stream!StreamAssumption
      BY ServicesAssumption DEF ServicesAssumption
    <3> QED
      BY <3>1 DEF Stream!StreamAssumption, Stream!Failure
  <2> QED
    BY <2>2, StreamAssumed DEF Stream!Code
<1> QED
  BY <1>1, <1>2, <1>3 DEF Stream!Observed

\* The figures are figures.
LEMMA FiguresType ==
  ASSUME NEW u \in Seq(StreamEvents), NEW n \in 0..Len(u)
  PROVE  UsageOf(u, n) \in Stream!Usage
<1>1. n \in Nat /\ \A i \in 1..n : u[i] \in StreamEvents
  OBVIOUS
<1>2. Stream!Tokens(u, n) \in Nat \cup {None}
  <2>1. \A i \in 1..n : u[i].tokens \in Nat \cup {None}
    BY <1>1, StreamAssumed
  <2> QED
    BY <1>1, <2>1, LastFigure
<1>3. Stream!Images(u, n) \subseteq {"i", "j"}
  <2>1. \A i \in 1..n : u[i].images \subseteq {"i", "j"}
    BY <1>1, StreamAssumed
  <2> QED
    BY <2>1 DEF Stream!Images
<1>4. Cardinality(Stream!Images(u, n)) \in 0..2
  <2>1. Cardinality({"i"}) = 1 /\ IsFiniteSet({"i"})
    BY FS_Singleton
  <2>2. Cardinality({"i"} \cup {"j"}) = 2 /\ IsFiniteSet({"i"} \cup {"j"})
    <3>1. /\ IsFiniteSet({"i"} \cup {"j"})
          /\ Cardinality({"i"} \cup {"j"}) =
               IF "j" \in {"i"} THEN Cardinality({"i"}) ELSE Cardinality({"i"}) + 1
      BY <2>1, FS_AddElement
    <3>2. "j" \notin {"i"}
      OBVIOUS
    <3>3. Cardinality({"i"}) + 1 = 2
      BY <2>1
    <3> QED
      BY <3>1, <3>2, <3>3
  <2>3. {"i", "j"} = {"i"} \cup {"j"}
    OBVIOUS
  <2>4. IsFiniteSet(Stream!Images(u, n)) /\ Cardinality(Stream!Images(u, n)) <= 2
    BY <1>3, <2>2, <2>3, FS_Subset
  <2>5. Cardinality(Stream!Images(u, n)) \in Nat
    BY <2>4, FS_CardinalityType
  <2> QED
    BY <2>4, <2>5
<1> QED
  BY <1>2, <1>4 DEF UsageOf, Stream!Usage

LEMMA StreamGoes ==
  ASSUME s12 \in StreamTask, NEW stage \in Stream!Stage, Stream!Go(stage)
  PROVE  /\ s12' \in StreamTask /\ s12'.at = stage /\ s12'.error = s12.error
         /\ s12'.finalized = s12.finalized /\ s12'.delivered = s12.delivered
BY DEF Stream!Go, StreamTask

LEMMA StreamEnds ==
  ASSUME s12 \in StreamTask, NEW error \in Stream!Error, Stream!End(error)
  PROVE  /\ s12' \in StreamTask /\ s12'.at = "ended" /\ s12'.error # None
         /\ s12'.finalized = s12.finalized /\ s12'.delivered = s12.delivered
<1>1. error # None
  BY StreamAssumed
<1> QED
  BY <1>1 DEF Stream!End, StreamTask, Stream!Stage

\* The parts of the types.
LEMMA StreamTyped ==
  StreamTypes =>
    /\ Attempted \in 0..2 /\ s7.usage \in Stream!Usage
    /\ Attempted \in 1..2 => Events \in Seq(StreamEvents)
    /\ s3[1] \in Seq(StreamEvents) /\ s3[2] \in Seq(StreamEvents)
    /\ s6.on \in BOOLEAN /\ s6.events \in Seq(Nat)
    /\ s12.at \in Stream!Stage
BY DEF StreamTypes, StreamTask, Attempted, Events

LEMMA CommonStays ==
  ASSUME StreamCommon, StreamTypes', UNCHANGED <<s1, s2, s3, s8, s9>>, s7'.attempts = s7.attempts
  PROVE  StreamCommon'
BY DEF StreamCommon, TerminalsLast, Stream!RejectionsLatched, RowCharged, DidNothing, Attempted

LEMMA SentStays ==
  ASSUME SentInOrder, UNCHANGED <<s1, s3, s11>>, s7'.attempts = s7.attempts,
         s12.delivered => s12'.delivered, s8 # None => s8' # None
  PROVE  SentInOrder'
BY DEF SentInOrder, Attempted, Events

\* What a client has in order, it may have; what the stages say, the outcome says.
LEMMA StreamProps ==
  StreamCommon /\ SentInOrder =>
    Stream!OneAttemptDelivered /\ Stream!RepeatedWithoutWork /\ Stream!OutcomeOfLastAttempt
<1> SUFFICES ASSUME StreamCommon, SentInOrder
             PROVE  Stream!OneAttemptDelivered /\ Stream!RepeatedWithoutWork
                        /\ Stream!OutcomeOfLastAttempt
  OBVIOUS
<1>1. /\ s11 \in Seq((0..2) \X Nat) /\ DOMAIN s11 = 1..Len(s11) /\ Len(s11) \in Nat
      /\ s3[1] \in Seq(StreamEvents) /\ s3[2] \in Seq(StreamEvents)
  BY StreamTyped DEF StreamCommon, StreamTypes
<1>2. \A i \in 1..Len(s11) :
        /\ s11[i] = <<Attempted, i>> /\ Attempted \in 1..2
        /\ Stream!Terminal(Events[i]) => s12.delivered /\ s8 # None
  BY <1>1 DEF SentInOrder
<1>3. \A i \in 1..Len(s11) : s11[i] # Stream!Failed /\ Stream!Source(i) = Attempted
  BY <1>2 DEF Stream!Failed, Stream!Source
<1>4. Stream!Delivered = 1..Len(s11)
  BY <1>1, <1>3 DEF Stream!Delivered
<1>5. Stream!OneAttemptDelivered
  <2>1. \A i \in 1..Len(s11) : 1 \in 1..Len(s11)
    BY <1>1
  <2> QED
    BY <1>1, <1>2, <1>3, <1>4, <2>1 DEF Stream!OneAttemptDelivered
<1>6. Stream!RepeatedWithoutWork
  <2>1. DOMAIN s3[1] = 1..Len(s3[1])
    BY <1>1
  <2>2. s3[2] # <<>> \/ s7.attempts = 2 => Attempted = 2 /\ DidNothing
    BY DEF StreamCommon, Attempted
  <2> QED
    BY <1>3, <1>4, <2>1, <2>2
       DEF Stream!RepeatedWithoutWork, Stream!Attempt, DidNothing, Stream!Last
<1>7. Stream!OutcomeOfLastAttempt
  <2>1. s1 # "unary" /\ s8 # None /\ s8.state = "completed" =>
          /\ s3[s8.attempts] # <<>> /\ s3[s8.attempts][Len(s3[s8.attempts])].kind = "completed"
          /\ s8.usage = UsageOf(s3[s8.attempts], Len(s3[s8.attempts]))
    BY DEF StreamCommon, RowCharged
  <2>2. \A i \in 1..Len(s11) : Stream!Terminal(s3[Stream!Source(i)][i]) => s8 # None
    BY <1>2, <1>3 DEF Events
  <2> QED
    BY <1>4, <2>1, <2>2 DEF Stream!OutcomeOfLastAttempt, UsageOf, Stream!Charged, Stream!Last,
       Stream!Cardinality, Cardinality
<1> QED
  BY <1>5, <1>6, <1>7

LEMMA StreamPropsNext ==
  (StreamCommon /\ SentInOrder)' =>
    (Stream!OneAttemptDelivered /\ Stream!RepeatedWithoutWork /\ Stream!OutcomeOfLastAttempt)'
BY StreamProps, PTL

\* An end that leaves what was sent and stored as it is, or stores the outcome.
LEMMA EndsAnyway ==
  ASSUME StreamInv, part = "stream", s12.at # "done",
         s12' \in StreamTask, s12'.at = "ended", s12'.finalized \/ s12'.error # None,
         s12.delivered => s12'.delivered, UNCHANGED <<s1, s2, s3, s11>>, s7'.attempts = s7.attempts,
         s8 # None => s8' # None,
         StreamTypes', RowCharged', Stream!RejectionsLatched'
  PROVE  StreamInv'
<1>1. StreamCommon /\ SentInOrder
  BY DEF StreamInv, StreamStages
<1>2. SentInOrder'
  BY <1>1, SentStays
<1>3. StreamCommon'
  BY <1>1 DEF StreamCommon, TerminalsLast, DidNothing, Attempted
<1>4. StreamStages'
  BY <1>2 DEF StreamStages
<1> QED
  BY <1>2, <1>3, <1>4, StreamPropsNext DEF StreamInv

\* What holds before a step of the stream.
LEMMA StreamOpens ==
  StreamInv /\ part = "stream" =>
    /\ StreamCommon /\ StreamStages /\ StreamTypes /\ s12 \in StreamTask
    /\ s12.at # "done" => SentInOrder
    /\ s3[1] \in Seq(StreamEvents) /\ s3[2] \in Seq(StreamEvents)
BY StreamTyped DEF StreamInv, StreamStages, StreamCommon, StreamTypes

\* What holds after a step is a matter of the next stage.
LEMMA StreamCloses ==
  (StreamCommon /\ SentInOrder /\ StreamStages)' => StreamInv'
BY StreamPropsNext DEF StreamInv

LEMMA StreamChecks ==
  ASSUME StreamInv, part = "stream", Stream!Check
  PROVE  StreamInv'
<1>1. /\ s12.at = "checking" /\ UNCHANGED <<s1, s2, s3, s4, s5, s6, s8, s9, s10, s11>>
      /\ \/ Stream!Go("sending") /\ UNCHANGED s7
         \/ s7' = [s7 EXCEPT !.attempts = @ - 1] /\ Stream!End("blocked")
  BY DEF Stream!Check, Stream!At
<1>2. StreamCommon /\ StreamTypes /\ s12 \in StreamTask /\ NoAnswerYet /\ SentInOrder
  BY <1>1, StreamOpens DEF StreamStages
<1>3. CASE Stream!Go("sending") /\ UNCHANGED s7
  <2>1. s12' \in StreamTask /\ s12'.at = "sending" /\ s12'.delivered = s12.delivered
    BY <1>2, <1>3, StreamGoes DEF Stream!Stage
  <2>2. StreamTypes'
    BY <1>1, <1>2, <1>3, <2>1 DEF StreamTypes
  <2>3. StreamCommon' /\ SentInOrder'
    BY <1>1, <1>2, <1>3, <2>1, <2>2, CommonStays, SentStays
  <2>4. NoAnswerYet'
    BY <1>1, <1>2, <1>3 DEF NoAnswerYet, Attempted, Events
  <2>5. StreamStages'
    BY <2>1, <2>3, <2>4 DEF StreamStages
  <2> QED
    BY <2>3, <2>5, StreamCloses
<1>4. CASE s7' = [s7 EXCEPT !.attempts = @ - 1] /\ Stream!End("blocked")
  <2>1. s12' \in StreamTask /\ s12'.at = "ended" /\ s12'.error # None
    BY <1>2, <1>4, StreamEnds DEF Stream!Error
  <2>2. s7 \in [attempts : 0..2, usage : Stream!Usage] /\ s7.attempts \in 1..2
    BY <1>2 DEF StreamTypes, NoAnswerYet, Attempted
  <2>3. s7' \in [attempts : 0..2, usage : Stream!Usage] /\ s7'.attempts = s7.attempts - 1
    BY <1>4, <2>2
  <2>4. StreamTypes'
    BY <1>1, <1>2, <2>1, <2>3 DEF StreamTypes
  <2>5. SentInOrder'
    BY <1>1, <1>2 DEF SentInOrder, NoAnswerYet
  <2>6. s3[2] = <<>> /\ s7'.attempts # 2
    BY <1>2, <2>2, <2>3 DEF StreamCommon, NoAnswerYet, Attempted, Events
  <2>7. StreamCommon'
    BY <1>1, <1>2, <2>4, <2>6
       DEF StreamCommon, TerminalsLast, Stream!RejectionsLatched, RowCharged, Attempted
  <2>8. StreamStages'
    BY <2>1, <2>5 DEF StreamStages
  <2> QED
    BY <2>5, <2>7, <2>8, StreamCloses
<1> QED
  BY <1>1, <1>3, <1>4

LEMMA StreamAccepted ==
  ASSUME StreamInv, part = "stream", Stream!Accepted
  PROVE  StreamInv'
<1>1. /\ s12.at = "sending" /\ UNCHANGED <<s1, s2, s3, s5, s7, s8, s9, s10, s11>>
      /\ Stream!Go(IF s1 = "unary" THEN "unary" ELSE "reading")
      /\ s4' = [terminal |-> FALSE, tokens |-> None, images |-> {}]
      /\ s6' = [on |-> s7.attempts = 1 /\ s1 # "unary" /\ s2 # {}, events |-> <<>>]
  BY DEF Stream!Accepted, Stream!At, Stream!FreshDecoder, Stream!Attempt
<1>2. StreamCommon /\ StreamTypes /\ s12 \in StreamTask /\ NoAnswerYet /\ SentInOrder
  BY <1>1, StreamOpens DEF StreamStages
<1>3. /\ s12' \in StreamTask /\ s12'.at = (IF s1 = "unary" THEN "unary" ELSE "reading")
      /\ s12'.delivered = s12.delivered
  BY <1>1, <1>2, StreamGoes DEF Stream!Stage
<1>4. s6'.on \in BOOLEAN /\ s6'.events = <<>> /\ s6' \in [on : BOOLEAN, events : Seq(Nat)]
      /\ (s6'.on => s7.attempts = 1)
  <2> DEFINE on == s7.attempts = 1 /\ s1 # "unary" /\ s2 # {}
  <2>1. on \in BOOLEAN /\ (on => s7.attempts = 1) /\ s6' = [on |-> on, events |-> <<>>]
    BY <1>1
  <2> HIDE DEF on
  <2>2. s6'.on = on /\ s6'.events = <<>>
    BY <2>1
  <2>3. s6' \in [on : BOOLEAN, events : Seq(Nat)]
    BY <2>1
  <2> QED
    BY <2>1, <2>2, <2>3
<1>5. StreamTypes'
  BY <1>1, <1>2, <1>3, <1>4 DEF StreamTypes
<1>6. StreamCommon' /\ SentInOrder'
  BY <1>1, <1>2, <1>3, <1>5, CommonStays, SentStays
<1>7. NoAnswerYet'
  BY <1>1, <1>2 DEF NoAnswerYet, Attempted, Events
<1>8. CASE s1 = "unary"
  <2>1. StreamStages'
    BY <1>1, <1>3, <1>6, <1>7, <1>8 DEF StreamStages
  <2> QED
    BY <1>6, <2>1, StreamCloses
<1>9. CASE s1 # "unary"
  <2>1. Events' = <<>> /\ Len(Events') = 0 /\ s5' = <<>> /\ Len(s5') = 0 /\ Handled' = 0
    BY <1>7 DEF NoAnswerYet, Handled
  <2>2. Chunked'
    BY <1>1, <1>7, <1>9, <2>1 DEF Chunked, NoAnswerYet
  <2>3. Stream!Tokens(Events', 0) = None /\ Stream!Images(Events', 0) = {}
    BY LastFigure DEF Stream!Images
  <2>4. s4'.tokens = None /\ s4'.images = {}
    BY <1>1
  <2>5. Decoding'
    BY <1>7, <2>1, <2>2, <2>3, <2>4 DEF Decoding, NoAnswerYet
  <2>6. s6'.on => Held(0)'
    BY <1>1, <1>4, <1>7, <2>1 DEF Held, NoAnswerYet, Attempted
  <2>7. ~s6'.on => Flushed(0)'
    BY <1>4, <1>7 DEF Flushed, NoAnswerYet
  <2>8. StreamStages'
    BY <1>3, <1>6, <1>9, <2>1, <2>5, <2>6, <2>7 DEF StreamStages
  <2> QED
    BY <1>6, <2>8, StreamCloses
<1> QED
  BY <1>8, <1>9

\* The input loses what was rejected.
LEMMA RecoveryBegins ==
  ASSUME StreamCommon, s12 \in StreamTask, NEW rejection, Stream!BeginRecovery(rejection),
         UNCHANGED <<s1, s3, s4, s5, s7, s8, s9, s10, s11>>, Attempted = 1, s8 = None, s11 = <<>>,
         \A i \in 1..Len(s3[1]) : ~s3[1][i].work,
         s3[1] # <<>> => s3[1][Len(s3[1])].body \notin s2'
  PROVE  StreamInv'
<1>1. s12' \in StreamTask /\ s12'.at = "recovering"
  BY StreamGoes DEF Stream!BeginRecovery, Stream!Stage
<1>2. s6' \in [on : BOOLEAN, events : Seq(Nat)]
  BY DEF Stream!BeginRecovery
<1>3. StreamTypes'
  BY <1>1, <1>2 DEF StreamCommon, StreamTypes
<1>4. StreamCommon'
  BY <1>3 DEF StreamCommon, TerminalsLast, Stream!RejectionsLatched, RowCharged, Attempted
<1>5. SentInOrder'
  BY DEF SentInOrder
<1>6. Attempted' = 1 /\ DidNothing'
  BY DEF Attempted, DidNothing
<1>7. StreamStages'
  BY <1>1, <1>5, <1>6 DEF StreamStages
<1> QED
  BY <1>4, <1>5, <1>7, StreamCloses

LEMMA StreamRefused ==
  ASSUME StreamInv, part = "stream", Stream!Refused
  PROVE  StreamInv'
<1>1. /\ s12.at = "sending" /\ UNCHANGED <<s1, s3, s4, s5, s7, s8, s11>>
      /\ \E status \in {400, 401, 502}, body \in Stream!Failure :
           \/ \E rejection :
                s7.attempts = 1 /\ Stream!BeginRecovery(rejection) /\ UNCHANGED <<s9, s10>>
           \/ /\ Stream!End(Stream!Code(status, body)) /\ UNCHANGED <<s2, s6>>
              /\ s9' = (s9 \/ body = "policy")
  BY DEF Stream!Refused, Stream!At, Stream!Attempt
<1>2. StreamCommon /\ StreamTypes /\ s12 \in StreamTask /\ NoAnswerYet /\ SentInOrder
  BY <1>1, StreamOpens DEF StreamStages
<1>3. ASSUME NEW rejection, s7.attempts = 1, Stream!BeginRecovery(rejection), UNCHANGED <<s9, s10>>
      PROVE  StreamInv'
  <2>1. Attempted = 1 /\ s3[1] = <<>> /\ Len(s3[1]) = 0 /\ s8 = None /\ s11 = <<>>
    BY <1>2, <1>3 DEF NoAnswerYet, Attempted, Events
  <2> QED
    BY <1>1, <1>2, <1>3, <2>1, RecoveryBegins
<1>4. ASSUME NEW status \in {400, 401, 502}, NEW body \in Stream!Failure,
             Stream!End(Stream!Code(status, body)), UNCHANGED <<s2, s6>>, s9' = (s9 \/ body = "policy")
      PROVE  StreamInv'
  <2>1. Stream!Code(status, body) \in Stream!Error
    BY DEF Stream!Code, Stream!Error
  <2>2. s12' \in StreamTask /\ s12'.at = "ended" /\ s12'.error # None /\ s12'.delivered = s12.delivered
    BY <1>2, <1>4, <2>1, StreamEnds
  <2>3. s9' \in BOOLEAN /\ (s9 => s9')
    <3>1. CASE body = "policy"
      BY <1>4, <3>1
    <3>2. CASE body # "policy"
      BY <1>2, <1>4, <3>2 DEF StreamTypes
    <3> QED
      BY <3>1, <3>2
  <2>4. StreamTypes'
    BY <1>1, <1>2, <1>4, <2>2, <2>3 DEF StreamTypes
  <2>5. RowCharged' /\ Stream!RejectionsLatched'
    BY <1>1, <1>2, <2>3 DEF StreamCommon, RowCharged, Stream!RejectionsLatched
  <2> QED
    BY <1>1, <1>4, <2>2, <2>4, <2>5, EndsAnyway
<1> QED
  BY <1>1, <1>3, <1>4

LEMMA StreamRecovers ==
  ASSUME StreamInv, part = "stream", Stream!Recover
  PROVE  StreamInv'
<1>1. /\ s12.at = "recovering" /\ UNCHANGED <<s1, s2, s3, s4, s6, s8, s9, s10, s11>>
      /\ s7' = [attempts |-> 2, usage |-> [tokens |-> None, images |-> 0]]
      /\ Stream!Go("checking") /\ s5' = <<>>
  BY DEF Stream!Recover, Stream!At, Stream!NoUsage
<1>2. /\ StreamCommon /\ StreamTypes /\ s12 \in StreamTask /\ SentInOrder
      /\ Attempted = 1 /\ s8 = None /\ s11 = <<>> /\ DidNothing
  BY <1>1, StreamOpens DEF StreamStages
<1>3. s12' \in StreamTask /\ s12'.at = "checking"
  BY <1>1, <1>2, StreamGoes DEF Stream!Stage
<1>4. s7' \in [attempts : 0..2, usage : Stream!Usage] /\ Attempted' = 2
  BY <1>1 DEF Stream!Usage, Attempted
<1>5. s5' \in Seq(StreamItem)
  BY <1>1
<1>6. StreamTypes'
  BY <1>1, <1>2, <1>3, <1>4, <1>5 DEF StreamTypes
<1>7. DidNothing'
  BY <1>1, <1>2 DEF DidNothing
<1>8. StreamCommon'
  BY <1>1, <1>2, <1>4, <1>6, <1>7
     DEF StreamCommon, TerminalsLast, Stream!RejectionsLatched, RowCharged
<1>9. SentInOrder'
  BY <1>1, <1>2 DEF SentInOrder
<1>10. NoAnswerYet'
  <2>1. s3[2] = <<>>
    BY <1>2 DEF StreamCommon
  <2> QED
    BY <1>1, <1>2, <1>4, <2>1 DEF NoAnswerYet, Events
<1>11. StreamStages'
  BY <1>3, <1>9, <1>10 DEF StreamStages
<1> QED
  BY <1>8, <1>9, <1>11, StreamCloses

LEMMA StreamDocument ==
  ASSUME StreamInv, part = "stream", Stream!Document
  PROVE  StreamInv'
<1>1. /\ s12.at = "unary" /\ UNCHANGED <<s1, s2, s3, s4, s5, s6, s8, s9, s10, s11>>
          /\ Stream!Go("finishing")
      /\ \E tokens \in {None, 1} : s7' = [s7 EXCEPT !.usage = [tokens |-> tokens, images |-> 0]]
  BY DEF Stream!Document, Stream!At
<1>2. StreamCommon /\ StreamTypes /\ s12 \in StreamTask /\ NoAnswerYet /\ SentInOrder /\ s1 = "unary"
  BY <1>1, StreamOpens DEF StreamStages
<1>3. s12' \in StreamTask /\ s12'.at = "finishing" /\ s12'.delivered = s12.delivered
  BY <1>1, <1>2, StreamGoes DEF Stream!Stage
<1>4. PICK usage \in Stream!Usage : s7' = [s7 EXCEPT !.usage = usage]
  <2>1. \A tokens \in {None, 1} : [tokens |-> tokens, images |-> 0] \in Stream!Usage
    BY DEF Stream!Usage
  <2> QED
    BY <1>1, <2>1
<1>5. s7' \in [attempts : 0..2, usage : Stream!Usage] /\ s7'.attempts = s7.attempts
  BY <1>2, <1>4 DEF StreamTypes
<1>6. StreamTypes'
  BY <1>1, <1>2, <1>3, <1>5 DEF StreamTypes
<1>7. StreamCommon' /\ SentInOrder'
  BY <1>1, <1>2, <1>3, <1>5, <1>6, CommonStays, SentStays
<1>8. Attempted' \in 1..2 /\ s8' = None /\ s1' = "unary"
  BY <1>1, <1>2, <1>5 DEF NoAnswerYet, Attempted
<1>9. StreamStages'
  BY <1>3, <1>7, <1>8 DEF StreamStages, Ending
<1> QED
  BY <1>7, <1>9, StreamCloses

\* The chunk and the decoder do not change.
LEMMA DecodingStays ==
  ASSUME UNCHANGED <<s1, s3, s5>>, s7'.attempts = s7.attempts
  PROVE  /\ Attempted' = Attempted /\ Events' = Events /\ Handled' = Handled
         /\ Chunked => Chunked'
         /\ Decoding /\ UNCHANGED <<s4, s8>> => Decoding'
<1>1. Attempted' = Attempted /\ Events' = Events /\ Handled' = Handled
  BY DEF Attempted, Events, Handled
<1>2. Chunked => Chunked'
  BY <1>1 DEF Chunked
<1> QED
  BY <1>1, <1>2 DEF Decoding

\* The event to be handled.
LEMMA NextEvent ==
  ASSUME StreamCommon, Chunked, s5 # <<>>
  PROVE  /\ Stream!Current = s5[1] /\ s5[1] \in StreamItem
         /\ Events \in Seq(StreamEvents) /\ Len(s5) \in Nat \ {0} /\ Len(Events) \in Nat
         /\ Handled \in Nat /\ Handled + 1 \in 1..Len(Events) /\ Handled = Len(Events) - Len(s5)
         /\ s5[1].number = Handled + 1 /\ s5[1].event = Events[Handled + 1]
         /\ s5[1].usage = UsageOf(Events, Handled + 1)
         /\ s5[1].event \in StreamEvents
         /\ Stream!Terminal(s5[1].event) => Handled + 1 = Len(Events)
         /\ \A i \in 1..Handled : ~Stream!Terminal(Events[i])
<1>1. /\ Attempted \in 1..2 /\ Events \in Seq(StreamEvents) /\ s5 \in Seq(StreamItem)
      /\ Len(s5) \in Nat \ {0} /\ Len(s5) <= Len(Events) /\ Len(Events) \in Nat
  BY StreamTyped DEF StreamCommon, StreamTypes, Chunked
<1>2. Handled = Len(Events) - Len(s5) /\ Handled \in Nat /\ Handled + 1 \in 1..Len(Events)
          /\ 1 \in 1..Len(s5)
  BY <1>1 DEF Handled
<1>3. /\ s5[1].number = Handled + 1 /\ s5[1].event = Events[Handled + 1]
      /\ s5[1].usage = UsageOf(Events, Handled + 1)
  BY <1>2 DEF Chunked
<1>4. s5[1] \in StreamItem /\ s5[1].event \in StreamEvents
  <2>1. s5[1] \in StreamItem
    BY <1>1, <1>2
  <2> QED
    BY <2>1 DEF StreamItem
<1>5. Stream!Current = s5[1]
  BY <1>1 DEF Stream!Current
<1>6. \A i \in 1..Len(Events) : Stream!Terminal(Events[i]) => i = Len(Events)
  BY <1>1 DEF StreamCommon, TerminalsLast, Events
<1>7. \A i \in 1..Handled : i \in 1..Len(Events) /\ i # Len(Events)
  BY <1>1, <1>2
<1> QED
  BY <1>1, <1>2, <1>3, <1>4, <1>5, <1>6, <1>7

\* The event was handled.
LEMMA ChunkShrinks ==
  ASSUME StreamCommon, Decoding, s5 # <<>>, s5' = Tail(s5), UNCHANGED <<s1, s3, s4, s8>>,
         s7'.attempts = s7.attempts
  PROVE  /\ Decoding' /\ Handled' = Handled + 1 /\ Events' = Events /\ Attempted' = Attempted
         /\ s5' \in Seq(StreamItem) /\ Stream!Following \in {"reading", "handling"}
         /\ Stream!Following = "reading" <=> s5' = <<>>
<1>1. Attempted' = Attempted /\ Events' = Events
  BY DEF Attempted, Events
<1>2. /\ s5 \in Seq(StreamItem) /\ Len(s5) \in Nat \ {0} /\ Len(Events) \in Nat /\ Len(s5) <= Len(Events)
      /\ Handled = Len(Events) - Len(s5) /\ Handled \in Nat
  <2>1. Chunked
    BY DEF Decoding
  <2> QED
    BY <2>1, NextEvent DEF StreamCommon, StreamTypes, Chunked
<1>3. /\ s5' \in Seq(StreamItem) /\ Len(s5') = Len(s5) - 1
      /\ \A i \in 1..Len(s5') : s5'[i] = s5[i + 1] /\ i + 1 \in 1..Len(s5)
  BY <1>2
<1>4. Handled' = Len(Events) - Len(s5')
  BY <1>1 DEF Handled
<1>5. Handled' = Handled + 1
  BY <1>2, <1>3, <1>4
<1>6. \A i \in 1..Len(s5') :
        /\ s5'[i].number = Handled + (i + 1) /\ s5'[i].event = Events[Handled + (i + 1)]
        /\ s5'[i].usage = UsageOf(Events, Handled + (i + 1))
  BY <1>3 DEF Decoding, Chunked
<1>7. \A i \in 1..Len(s5') : Handled + (i + 1) = Handled' + i
  BY <1>2, <1>3, <1>5
<1>8. Chunked'
  <2>1. Len(s5') <= Len(Events)
    BY <1>2, <1>3
  <2>2. \A i \in 1..Len(s5') :
          /\ s5'[i].number = Handled' + i /\ s5'[i].event = Events'[Handled' + i]
          /\ s5'[i].usage = UsageOf(Events', Handled' + i)
    BY <1>1, <1>6, <1>7
  <2> QED
    BY <1>1, <2>1, <2>2 DEF Decoding, Chunked
<1>9. Decoding'
  BY <1>1, <1>8 DEF Decoding
<1>10. Stream!Following = "reading" <=> s5' = <<>>
  <2>1. \A T : \A q \in Seq(T) : q = <<>> <=> Len(q) = 0
    OBVIOUS
  <2>2. s5' = <<>> <=> Len(s5') = 0
    BY <1>3, <2>1
  <2>3. PICK n \in Nat : n = Len(s5)
    BY <1>2
  <2>4. n = 1 <=> n - 1 = 0
    BY <2>3
  <2>5. Len(s5') = n - 1
    BY <1>3, <2>3
  <2>6. Stream!Following = "reading" <=> Len(s5) = 1
    BY DEF Stream!Following
  <2> QED
    BY <2>2, <2>3, <2>4, <2>5, <2>6, Zenon
<1> QED
  BY <1>1, <1>3, <1>5, <1>9, <1>10 DEF Stream!Following

\* The client gets the next event.
LEMMA SendsNext ==
  ASSUME StreamTypes, SentInOrder, s1 = "stream", Attempted \in 1..2, Len(s11) + 1 <= Len(Events),
         s11' = Append(s11, <<Attempted, Len(s11) + 1>>), UNCHANGED <<s1, s3>>, s7'.attempts = s7.attempts,
         s12.delivered => s12'.delivered, s8 # None => s8' # None,
         Stream!Terminal(Events[Len(s11) + 1]) => s12'.delivered /\ s8' # None
  PROVE  SentInOrder' /\ s11' \in Seq((0..2) \X Nat) /\ Len(s11') = Len(s11) + 1
<1>1. Attempted' = Attempted /\ Events' = Events
  BY DEF Attempted, Events
<1>2. s11 \in Seq((0..2) \X Nat) /\ Len(s11) \in Nat /\ <<Attempted, Len(s11) + 1>> \in (0..2) \X Nat
  BY DEF StreamTypes
<1>3. /\ s11' \in Seq((0..2) \X Nat) /\ Len(s11') = Len(s11) + 1
      /\ s11'[Len(s11) + 1] = <<Attempted, Len(s11) + 1>> /\ \A i \in 1..Len(s11) : s11'[i] = s11[i]
  <2> HIDE DEF Attempted
  <2> QED
    BY <1>2
<1>4. \A i \in 1..Len(s11') : i \in 1..Len(s11) \/ i = Len(s11) + 1
  BY <1>2, <1>3
<1>5. \A i \in 1..Len(s11') :
        /\ s11'[i] = <<Attempted, i>> /\ i <= Len(Events)
        /\ Stream!Terminal(Events[i]) => s12'.delivered /\ s8' # None
  <2> SUFFICES ASSUME NEW i \in 1..Len(s11')
               PROVE  /\ s11'[i] = <<Attempted, i>> /\ i <= Len(Events)
                      /\ Stream!Terminal(Events[i]) => s12'.delivered /\ s8' # None
    OBVIOUS
  <2>1. CASE i \in 1..Len(s11)
    BY <1>3, <2>1 DEF SentInOrder
  <2>2. CASE i = Len(s11) + 1
    BY <1>3, <2>2
  <2> QED
    BY <1>4, <2>1, <2>2
<1> QED
  BY <1>1, <1>3, <1>5 DEF SentInOrder

\* Other events are held back.
LEMMA HoldsOther ==
  ASSUME NEW T, NEW hold \in [on : BOOLEAN, events : T], NEW events \in T
  PROVE  /\ [hold EXCEPT !.events = events] \in [on : BOOLEAN, events : T]
         /\ [hold EXCEPT !.events = events].on = hold.on
         /\ [hold EXCEPT !.events = events].events = events
  OBVIOUS

LEMMA StreamHandles ==
  ASSUME StreamInv, part = "stream", Stream!Handle
  PROVE  StreamInv'
<1> DEFINE e == s5[1].event
<1>1. s12.at = "handling" /\ UNCHANGED <<s1, s3, s4, s5, s7, s8, s9, s10, s11>>
  BY DEF Stream!Handle, Stream!At
<1>2. /\ StreamCommon /\ StreamTypes /\ s12 \in StreamTask /\ SentInOrder
      /\ Decoding /\ Chunked /\ s5 # <<>> /\ s8 = None
      /\ IF s6.on THEN Held(Handled) ELSE Flushed(Handled)
  BY <1>1, StreamOpens DEF StreamStages, Decoding
<1>3. /\ Stream!Current = s5[1] /\ s5[1].number = Handled + 1 /\ Handled \in Nat
      /\ e = Events[Handled + 1] /\ e \in StreamEvents
      /\ Events \in Seq(StreamEvents) /\ Handled + 1 \in 1..Len(Events) /\ Len(Events) \in Nat
      /\ Stream!Terminal(e) => Handled + 1 = Len(Events)
  BY <1>2, NextEvent
<1> HIDE DEF e
<1>4. \/ /\ s6.on /\ Stream!Recoverable(Stream!Rejection(e)) /\ Stream!BeginRecovery(Stream!Rejection(e))
      \/ /\ s6.on /\ Stream!IsPreamble(e) /\ UNCHANGED s2 /\ Stream!Go("observing")
         /\ s6' = [s6 EXCEPT !.events = Append(@, Handled + 1)]
      \/ /\ s6.on /\ UNCHANGED s2 /\ Stream!Go("draining")
         /\ s6' = [on |-> FALSE, events |-> IF s1 = "stream" THEN s6.events ELSE <<>>]
      \/ ~s6.on /\ UNCHANGED <<s2, s6>> /\ Stream!Go("observing")
  <2>1. s6.on \in BOOLEAN
    BY <1>2, StreamTyped
  <2> QED
    BY <1>3, <2>1 DEF Stream!Handle, Stream!Number, Stream!Owed, e
<1>5. /\ Attempted' = Attempted /\ Events' = Events /\ Handled' = Handled /\ Decoding' /\ s5' # <<>>
  BY <1>1, <1>2, DecodingStays
<1>6. s6 \in [on : BOOLEAN, events : Seq(Nat)]
  BY <1>2 DEF StreamTypes
<1>7. CASE s6.on /\ Stream!Recoverable(Stream!Rejection(e)) /\ Stream!BeginRecovery(Stream!Rejection(e))
  <2>1. Stream!Rejection(e) # None
    BY <1>7 DEF Stream!Recoverable
  <2>2. e.kind = "failed" /\ ~e.work /\ Stream!Rejection(e) = e.body
    BY <2>1 DEF Stream!Rejection
  <2>3. Handled + 1 = Len(Events) /\ e = Events[Len(Events)]
    BY <1>3, <2>2 DEF Stream!Terminal
  <2>4. Attempted = 1 /\ Events = s3[1] /\ s11 = <<>> /\ \A i \in 1..Handled : ~Events[i].work
    BY <1>2, <1>7 DEF Held, Events
  <2>5. \A i \in 1..Len(s3[1]) : ~s3[1][i].work
    <3>1. \A i \in 1..Len(Events) : i \in 1..Handled \/ i = Handled + 1
      BY <1>3, <2>3
    <3> QED
      BY <1>3, <2>2, <2>4, <3>1
  <2>6. s2' = s2 \ {e.body}
    BY <1>7, <2>2 DEF Stream!BeginRecovery, Stream!Cleaned
  <2>7. s3[1][Len(s3[1])].body \notin s2'
    BY <2>3, <2>4, <2>6
  <2> QED
    BY <1>1, <1>2, <1>7, <2>4, <2>5, <2>7, RecoveryBegins
<1>8. CASE /\ s6.on /\ Stream!IsPreamble(e) /\ UNCHANGED s2 /\ Stream!Go("observing")
           /\ s6' = [s6 EXCEPT !.events = Append(@, Handled + 1)]
  <2>1. s12' \in StreamTask /\ s12'.at = "observing" /\ s12'.delivered = s12.delivered
    BY <1>2, <1>8, StreamGoes DEF Stream!Stage
  <2>2. s6' \in [on : BOOLEAN, events : Seq(Nat)] /\ s6'.on /\ s6'.events = Append(s6.events, Handled + 1)
    <3>1. s6.events \in Seq(Nat)
      BY <1>6
    <3>2. Append(s6.events, Handled + 1) \in Seq(Nat)
      BY <1>3, <3>1
    <3>3. s6' = [s6 EXCEPT !.events = Append(s6.events, Handled + 1)] /\ s6.on
      BY <1>8
    <3> QED
      BY <1>6, <3>2, <3>3, HoldsOther
  <2>3. StreamTypes'
    BY <1>1, <1>2, <2>1, <2>2 DEF StreamTypes
  <2>4. StreamCommon' /\ SentInOrder'
    BY <1>1, <1>2, <1>8, <2>1, <2>3, CommonStays, SentStays
  <2>5. ~Stream!Terminal(e) /\ ~e.work
    BY <1>8 DEF Stream!IsPreamble, Stream!Terminal
  <2>6. Held(Handled)
    BY <1>2, <1>8
  <2>7. /\ Len(s6'.events) = Handled + 1
        /\ \A i \in 1..(Handled + 1) : s6'.events[i] = i /\ ~Events[i].work
    <3>1. s6.events \in Seq(Nat) /\ Len(s6.events) = Handled
      BY <1>6, <2>6 DEF Held
    <3>2. /\ Len(s6'.events) = Handled + 1 /\ s6'.events[Handled + 1] = Handled + 1
          /\ \A i \in 1..Handled : s6'.events[i] = s6.events[i]
      BY <1>3, <2>2, <3>1
    <3>3. \A i \in 1..(Handled + 1) : i \in 1..Handled \/ i = Handled + 1
      BY <1>3
    <3> QED
      BY <1>3, <2>5, <2>6, <3>2, <3>3 DEF Held
  <2>8. (Held(Handled + 1))'
    BY <1>1, <1>5, <2>6, <2>7 DEF Held
  <2>9. StreamStages'
    BY <1>1, <1>5, <2>1, <2>2, <2>4, <2>5, <2>8 DEF StreamStages, e
  <2> QED
    BY <2>4, <2>9, StreamCloses
<1>9. CASE /\ s6.on /\ UNCHANGED s2 /\ Stream!Go("draining")
           /\ s6' = [on |-> FALSE, events |-> IF s1 = "stream" THEN s6.events ELSE <<>>]
  <2>1. s12' \in StreamTask /\ s12'.at = "draining" /\ s12'.delivered = s12.delivered
    BY <1>2, <1>9, StreamGoes DEF Stream!Stage
  <2>2. s6' \in [on : BOOLEAN, events : Seq(Nat)] /\ ~s6'.on
        /\ s6'.events = (IF s1 = "stream" THEN s6.events ELSE <<>>)
    <3>1. PICK events \in Seq(Nat) : events = IF s1 = "stream" THEN s6.events ELSE <<>>
      <4>1. s6.events \in Seq(Nat) /\ <<>> \in Seq(Nat)
        BY <1>6
      <4> QED
        BY <4>1
    <3>2. s6' = [on |-> FALSE, events |-> events]
      BY <1>9, <3>1
    <3> QED
      BY <3>1, <3>2
  <2>3. StreamTypes'
    BY <1>1, <1>2, <2>1, <2>2 DEF StreamTypes
  <2>4. StreamCommon' /\ SentInOrder'
    BY <1>1, <1>2, <1>9, <2>1, <2>3, CommonStays, SentStays
  <2>5. Held(Handled)
    BY <1>2, <1>9
  <2>6. Draining'
    <3>1. s11' = <<>> /\ Len(s11') = 0
      BY <1>1, <2>5 DEF Held
    <3>2. CASE s1 = "stream"
      <4>1. Len(s6'.events) = Handled /\ \A i \in 1..Handled : s6'.events[i] = i
        BY <2>2, <2>5, <3>2 DEF Held
      <4>2. Len(s11') + Len(s6'.events) = Handled
        BY <1>3, <3>1, <4>1
      <4>3. \A i \in 1..Handled : Len(s11') + i = i
        BY <1>3, <3>1
      <4> QED
        BY <1>1, <1>5, <2>2, <3>2, <4>1, <4>2, <4>3 DEF Draining
    <3>3. CASE s1 # "stream"
      BY <1>1, <2>2, <3>3 DEF Draining
    <3> QED
      BY <3>2, <3>3
  <2>7. StreamStages'
    BY <1>5, <2>1, <2>4, <2>6 DEF StreamStages
  <2> QED
    BY <2>4, <2>7, StreamCloses
<1>10. CASE ~s6.on /\ UNCHANGED <<s2, s6>> /\ Stream!Go("observing")
  <2>1. s12' \in StreamTask /\ s12'.at = "observing" /\ s12'.delivered = s12.delivered
    BY <1>2, <1>10, StreamGoes DEF Stream!Stage
  <2>2. StreamTypes'
    BY <1>1, <1>2, <1>10, <2>1 DEF StreamTypes
  <2>3. StreamCommon' /\ SentInOrder'
    BY <1>1, <1>2, <1>10, <2>1, <2>2, CommonStays, SentStays
  <2>4. (Flushed(Handled))'
    BY <1>1, <1>2, <1>5, <1>10 DEF Flushed
  <2>5. StreamStages'
    BY <1>5, <1>10, <2>1, <2>3, <2>4 DEF StreamStages
  <2> QED
    BY <2>3, <2>5, StreamCloses
<1> QED
  BY <1>4, <1>7, <1>8, <1>9, <1>10

LEMMA StreamDrains ==
  ASSUME StreamInv, part = "stream", Stream!Drain
  PROVE  StreamInv'
<1>1. /\ s12.at = "draining" /\ UNCHANGED <<s1, s2, s3, s4, s5, s7, s8, s9, s10>>
      /\ \/ s6.events = <<>> /\ Stream!Go("observing") /\ UNCHANGED <<s6, s11>>
         \/ /\ s6.events # <<>> /\ s11' = Append(s11, <<s7.attempts, Head(s6.events)>>)
            /\ s6' = [s6 EXCEPT !.events = Tail(@)] /\ UNCHANGED s12
  BY DEF Stream!Drain, Stream!At, Stream!Attempt
<1>2. /\ StreamCommon /\ StreamTypes /\ s12 \in StreamTask /\ SentInOrder
      /\ Decoding /\ Chunked /\ s5 # <<>> /\ Draining /\ Attempted \in 1..2
  BY <1>1, StreamOpens DEF StreamStages, Decoding, Chunked
<1>3. /\ Handled \in Nat /\ Handled + 1 \in 1..Len(Events) /\ Len(Events) \in Nat
      /\ \A i \in 1..Handled : ~Stream!Terminal(Events[i])
  BY <1>2, NextEvent
<1>4. Attempted' = Attempted /\ Events' = Events /\ Handled' = Handled /\ Decoding' /\ s5' # <<>>
  BY <1>1, <1>2, DecodingStays
<1>5. s6 \in [on : BOOLEAN, events : Seq(Nat)] /\ Len(s11) \in Nat
  BY <1>2 DEF StreamTypes
<1>6. CASE s6.events = <<>> /\ Stream!Go("observing") /\ UNCHANGED <<s6, s11>>
  <2>1. s12' \in StreamTask /\ s12'.at = "observing" /\ s12'.delivered = s12.delivered
    BY <1>2, <1>6, StreamGoes DEF Stream!Stage
  <2>2. StreamTypes'
    BY <1>1, <1>2, <1>6, <2>1 DEF StreamTypes
  <2>3. StreamCommon' /\ SentInOrder'
    BY <1>1, <1>2, <1>6, <2>1, <2>2, CommonStays, SentStays
  <2>4. s1 = "stream" => Len(s11) = Handled
    BY <1>2, <1>3, <1>5, <1>6 DEF Draining
  <2>5. (Flushed(Handled))'
    BY <1>1, <1>2, <1>4, <1>6, <2>4 DEF Flushed, Draining
  <2>6. StreamStages'
    BY <1>2, <1>4, <1>6, <2>1, <2>3, <2>5 DEF StreamStages, Draining
  <2> QED
    BY <2>3, <2>6, StreamCloses
<1>7. CASE /\ s6.events # <<>> /\ s11' = Append(s11, <<s7.attempts, Head(s6.events)>>)
           /\ s6' = [s6 EXCEPT !.events = Tail(@)] /\ UNCHANGED s12
  <2>1. PICK held : held = s6.events
    OBVIOUS
  <2>2. s1 = "stream" /\ held \in Seq(Nat) /\ Len(held) \in Nat \ {0}
        /\ Len(s11) + Len(held) = Handled /\ \A i \in 1..Len(held) : held[i] = Len(s11) + i
    BY <1>2, <1>5, <1>7, <2>1 DEF Draining
  <2>3. Head(held) = Len(s11) + 1 /\ Len(s11) + 1 \in 1..Handled
    BY <1>3, <1>5, <2>2
  <2>4. s6' \in [on : BOOLEAN, events : Seq(Nat)] /\ s6'.on = s6.on /\ s6'.events = Tail(held)
    <3>1. Tail(held) \in Seq(Nat)
      BY <2>2
    <3>2. s6' = [s6 EXCEPT !.events = Tail(held)]
      BY <1>7, <2>1
    <3> QED
      BY <1>5, <3>1, <3>2, HoldsOther
  <2>5. s11' = Append(s11, <<Attempted, Len(s11) + 1>>) /\ Len(s11) + 1 <= Len(Events)
        /\ ~Stream!Terminal(Events[Len(s11) + 1])
    BY <1>3, <1>7, <2>1, <2>3 DEF Attempted
  <2>6. SentInOrder' /\ s11' \in Seq((0..2) \X Nat) /\ Len(s11') = Len(s11) + 1
    BY <1>1, <1>2, <1>7, <2>2, <2>5, SendsNext
  <2>7. StreamTypes'
    BY <1>1, <1>2, <1>7, <2>4, <2>6 DEF StreamTypes
  <2>8. StreamCommon'
    BY <1>1, <1>2, <2>7, CommonStays
  <2>9. Draining'
    <3>1. Len(Tail(held)) = Len(held) - 1
              /\ \A i \in 1..Len(Tail(held)) : Tail(held)[i] = held[i + 1] /\ i + 1 \in 1..Len(held)
      BY <2>2
    <3>2. Len(s11') + Len(Tail(held)) = Handled
      <4>1. PICK m \in Nat, n \in Nat \ {0} : m = Len(s11) /\ n = Len(held) /\ m + n = Handled
        BY <1>5, <2>2
      <4>2. Len(s11') = m + 1 /\ Len(Tail(held)) = n - 1
        BY <2>6, <3>1, <4>1
      <4> QED
        BY <4>1, <4>2
    <3>3. \A i \in 1..Len(Tail(held)) : Tail(held)[i] = Len(s11') + i
      BY <1>5, <2>2, <2>6, <3>1
    <3> QED
      BY <1>1, <1>2, <1>4, <2>2, <2>4, <3>2, <3>3 DEF Draining
  <2>10. StreamStages'
    BY <1>1, <1>4, <1>7, <2>6, <2>9 DEF StreamStages
  <2> QED
    BY <2>6, <2>8, <2>10, StreamCloses
<1> QED
  BY <1>1, <1>6, <1>7

LEMMA StreamObserves ==
  ASSUME StreamInv, part = "stream", Stream!Observe
  PROVE  StreamInv'
<1> DEFINE e == s5[1].event
<1>1. s12.at = "observing" /\ UNCHANGED <<s1, s2, s3, s4, s6, s8, s9, s11>>
  BY DEF Stream!Observe, Stream!At
<1>2. /\ StreamCommon /\ StreamTypes /\ s12 \in StreamTask /\ SentInOrder
      /\ Decoding /\ Chunked /\ s5 # <<>> /\ s8 = None /\ Attempted \in 1..2
      /\ IF s6.on THEN Held(Handled + 1) /\ ~Stream!Terminal(e) ELSE Flushed(Handled)
  BY <1>1, StreamOpens DEF StreamStages, Decoding, Chunked
<1>3. Stream!Current = s5[1] /\ s5[1] \in StreamItem
  BY <1>2, NextEvent
<1>4. /\ s7' = [s7 EXCEPT !.usage = s5[1].usage]
      /\ \/ Stream!Terminal(e) /\ Stream!Go("finishing") /\ UNCHANGED s5
         \/ ~Stream!Terminal(e) /\ s1 = "stream" /\ ~s6.on /\ Stream!Go("delivering") /\ UNCHANGED s5
         \/ ~Stream!Terminal(e) /\ (s1 # "stream" \/ s6.on) /\ Stream!Go(Stream!Following)
             /\ s5' = Tail(s5)
  BY <1>3 DEF Stream!Observe
<1>5. s7' \in [attempts : 0..2, usage : Stream!Usage] /\ s7'.attempts = s7.attempts
          /\ s7'.usage = s5[1].usage
  <2>1. s7 \in [attempts : 0..2, usage : Stream!Usage] /\ s5[1].usage \in Stream!Usage
    BY <1>2, <1>3 DEF StreamTypes, StreamItem
  <2> QED
    BY <1>4, <2>1
<1>6. UNCHANGED s5 => /\ Decoding' /\ Chunked' /\ Handled' = Handled /\ Attempted' = Attempted
  BY <1>1, <1>2, <1>5, DecodingStays
<1>7. CASE Stream!Terminal(e) /\ Stream!Go("finishing") /\ UNCHANGED s5
  <2>1. s12' \in StreamTask /\ s12'.at = "finishing" /\ s12'.delivered = s12.delivered
    BY <1>2, <1>7, StreamGoes DEF Stream!Stage
  <2>2. StreamTypes'
    BY <1>1, <1>2, <1>5, <1>7, <2>1 DEF StreamTypes
  <2>3. StreamCommon' /\ SentInOrder'
    BY <1>1, <1>2, <1>5, <2>1, <2>2, CommonStays, SentStays
  <2>4. ~s6.on
    BY <1>2, <1>7
  <2>5. (Flushed(Handled))'
    BY <1>1, <1>2, <1>6, <1>7, <2>4 DEF Flushed
  <2>6. Ending'
    BY <1>2, <1>5, <1>6, <1>7, <2>5 DEF Ending
  <2>7. Attempted' \in 1..2 /\ s8' = None
    BY <1>1, <1>2, <1>6, <1>7
  <2>8. StreamStages'
    BY <2>1, <2>3, <2>6, <2>7 DEF StreamStages
  <2> QED
    BY <2>3, <2>8, StreamCloses
<1>8. CASE ~Stream!Terminal(e) /\ s1 = "stream" /\ ~s6.on /\ Stream!Go("delivering") /\ UNCHANGED s5
  <2>1. s12' \in StreamTask /\ s12'.at = "delivering" /\ s12'.delivered = s12.delivered
    BY <1>2, <1>8, StreamGoes DEF Stream!Stage
  <2>2. StreamTypes'
    BY <1>1, <1>2, <1>5, <1>8, <2>1 DEF StreamTypes
  <2>3. StreamCommon' /\ SentInOrder'
    BY <1>1, <1>2, <1>5, <2>1, <2>2, CommonStays, SentStays
  <2>4. (Flushed(Handled))'
    BY <1>1, <1>2, <1>6, <1>8 DEF Flushed
  <2>5. ~Stream!Terminal(s5'[1].event) /\ s1' = "stream" /\ s5' # <<>>
    BY <1>1, <1>2, <1>8
  <2>6. StreamStages'
    BY <1>6, <1>8, <2>1, <2>3, <2>4, <2>5 DEF StreamStages
  <2> QED
    BY <2>3, <2>6, StreamCloses
<1>9. CASE ~Stream!Terminal(e) /\ (s1 # "stream" \/ s6.on) /\ Stream!Go(Stream!Following)
          /\ s5' = Tail(s5)
  <2>1. /\ Decoding' /\ Handled' = Handled + 1 /\ Events' = Events /\ Attempted' = Attempted
        /\ s5' \in Seq(StreamItem) /\ Stream!Following \in {"reading", "handling"}
        /\ Stream!Following = "reading" <=> s5' = <<>>
    BY <1>1, <1>2, <1>5, <1>9, ChunkShrinks
  <2>2. s12' \in StreamTask /\ s12'.at = Stream!Following /\ s12'.delivered = s12.delivered
    BY <1>2, <1>9, <2>1, StreamGoes DEF Stream!Stage
  <2>3. StreamTypes'
    BY <1>1, <1>2, <1>5, <2>1, <2>2 DEF StreamTypes
  <2>4. StreamCommon' /\ SentInOrder'
    BY <1>1, <1>2, <1>5, <2>2, <2>3, CommonStays, SentStays
  <2>5. s6'.on => (Held(Handled))'
    BY <1>1, <1>2, <2>1 DEF Held
  <2>6. ~s6'.on => (Flushed(Handled))'
    BY <1>1, <1>2, <1>9 DEF Flushed
  <2>7. StreamStages'
    BY <2>1, <2>2, <2>4, <2>5, <2>6 DEF StreamStages
  <2> QED
    BY <2>4, <2>7, StreamCloses
<1> QED
  BY <1>4, <1>7, <1>8, <1>9

LEMMA StreamDelivers ==
  ASSUME StreamInv, part = "stream", Stream!Deliver
  PROVE  StreamInv'
<1>1. /\ s12.at = "delivering" /\ UNCHANGED <<s1, s2, s3, s4, s6, s7, s8, s9, s10>>
      /\ s11' = Append(s11, <<s7.attempts, Stream!Current.number>>) /\ s5' = Tail(s5)
      /\ Stream!Go(Stream!Following)
  BY DEF Stream!Deliver, Stream!At, Stream!Attempt, Stream!Number
<1>2. /\ StreamCommon /\ StreamTypes /\ s12 \in StreamTask /\ SentInOrder
      /\ Decoding /\ Chunked /\ s5 # <<>> /\ Flushed(Handled) /\ ~Stream!Terminal(s5[1].event)
          /\ s1 = "stream"
      /\ Attempted \in 1..2
  BY <1>1, StreamOpens DEF StreamStages, Decoding, Chunked
<1>3. /\ Stream!Current = s5[1] /\ s5[1].number = Handled + 1 /\ Handled \in Nat /\ Len(Events) \in Nat
      /\ Handled + 1 \in 1..Len(Events) /\ s5[1].event = Events[Handled + 1]
  BY <1>2, NextEvent
<1>4. /\ Decoding' /\ Handled' = Handled + 1 /\ Events' = Events /\ Attempted' = Attempted
      /\ s5' \in Seq(StreamItem) /\ Stream!Following \in {"reading", "handling"}
      /\ Stream!Following = "reading" <=> s5' = <<>>
  BY <1>1, <1>2, ChunkShrinks
<1>5. s12' \in StreamTask /\ s12'.at = Stream!Following /\ s12'.delivered = s12.delivered
  BY <1>1, <1>2, <1>4, StreamGoes DEF Stream!Stage
<1>6. ~s6.on /\ s6.events = <<>> /\ Len(s11) = Handled
  BY <1>2 DEF Flushed
<1>7. /\ s11' = Append(s11, <<Attempted, Len(s11) + 1>>) /\ Len(s11) + 1 <= Len(Events)
      /\ ~Stream!Terminal(Events[Len(s11) + 1])
  BY <1>1, <1>2, <1>3, <1>6 DEF Attempted
<1>8. SentInOrder' /\ s11' \in Seq((0..2) \X Nat) /\ Len(s11') = Len(s11) + 1
  BY <1>1, <1>2, <1>5, <1>7, SendsNext
<1>9. StreamTypes'
  BY <1>1, <1>2, <1>4, <1>5, <1>8 DEF StreamTypes
<1>10. StreamCommon'
  BY <1>1, <1>2, <1>9, CommonStays
<1>11. (Flushed(Handled))' /\ ~s6'.on
  BY <1>1, <1>4, <1>6, <1>8 DEF Flushed
<1>12. StreamStages'
  BY <1>4, <1>5, <1>8, <1>11 DEF StreamStages
<1> QED
  BY <1>8, <1>10, <1>12, StreamCloses

\* The outcome of a stream is what the last event of its attempt says.
LEMMA StoresOutcome ==
  ASSUME StreamCommon, Attempted \in 1..2, s8 = None, Ending, Stream!Store(Stream!Outcome),
         UNCHANGED <<s1, s3>>
  PROVE  s8' \in Stream!Row /\ s8' # None /\ RowCharged'
<1> DEFINE state == IF Stream!Outcome = None THEN "completed"
                    ELSE IF Stream!Outcome = "cancelled" THEN "cancelled" ELSE "failed"
<1>1. s8' = [state |-> state, attempts |-> Attempted, usage |-> s7.usage]
  BY DEF Stream!Store, Stream!Attempt, Attempted
<1>2. s7.usage \in Stream!Usage
  BY StreamTyped DEF StreamCommon
<1>3. state \in {"completed", "failed", "cancelled"} /\ (state = "completed" => Stream!Outcome = None)
  OBVIOUS
<1> HIDE DEF state
<1>4. s8' \in Stream!Row /\ s8'.attempts = Attempted /\ s8'.usage = s7.usage /\ s8'.state = state
  BY <1>1, <1>2, <1>3 DEF Stream!Row
<1>5. s8' # None
  BY <1>4, StreamAssumed
<1>6. ASSUME s1 # "unary", state = "completed"
      PROVE  /\ Events # <<>> /\ Events[Len(Events)].kind = "completed"
             /\ s7.usage = UsageOf(Events, Len(Events))
  <2>1. Chunked /\ s5 # <<>> /\ Stream!Terminal(s5[1].event) /\ s7.usage = s5[1].usage
    BY <1>6 DEF Ending
  <2>2. /\ Stream!Current = s5[1] /\ s5[1].event \in StreamEvents
        /\ Handled + 1 = Len(Events) /\ s5[1].event = Events[Handled + 1]
        /\ s5[1].usage = UsageOf(Events, Handled + 1) /\ Handled \in Nat /\ Events \in Seq(StreamEvents)
    BY <2>1, NextEvent
  <2>3. Stream!Observed(s5[1].event) = None
    BY <1>3, <1>6, <2>2 DEF Stream!Outcome
  <2>4. s5[1].event.kind = "completed"
    BY <2>1, <2>2, <2>3, ObservedError DEF Stream!Terminal
  <2>5. Events # <<>>
    BY <2>2
  <2> QED
    BY <2>1, <2>2, <2>4, <2>5
<1>7. RowCharged'
  BY <1>4, <1>6 DEF RowCharged, Events
<1> QED
  BY <1>4, <1>5, <1>7

LEMMA StreamFinishes ==
  ASSUME StreamInv, part = "stream", Stream!Finish
  PROVE  StreamInv'
<1>1. /\ s12.at = "finishing" /\ UNCHANGED <<s1, s2, s3, s4, s5, s6, s7, s9, s10, s11>>
      /\ \/ /\ Stream!Store(Stream!Outcome)
            /\ s12' = [s12 EXCEPT !.at = "last", !.finalized = TRUE]
         \/ (Stream!Store(Stream!Outcome) \/ UNCHANGED s8) /\ Stream!End("storage")
  BY DEF Stream!Finish, Stream!At
<1>2. /\ StreamCommon /\ StreamTypes /\ s12 \in StreamTask /\ SentInOrder
      /\ Attempted \in 1..2 /\ s8 = None /\ Ending
  BY <1>1, StreamOpens DEF StreamStages
<1>3. Stream!Store(Stream!Outcome) => s8' \in Stream!Row /\ s8' # None /\ RowCharged'
  BY <1>1, <1>2, StoresOutcome
<1>4. CASE /\ Stream!Store(Stream!Outcome)
           /\ s12' = [s12 EXCEPT !.at = "last", !.finalized = TRUE]
  <2>1. /\ s12' \in StreamTask /\ s12'.at = "last" /\ s12'.delivered = s12.delivered /\ s12'.finalized
    BY <1>2, <1>4 DEF StreamTask, Stream!Stage
  <2>2. StreamTypes'
    BY <1>1, <1>2, <1>3, <1>4, <2>1 DEF StreamTypes
  <2>3. SentInOrder'
    BY <1>1, <1>2, <2>1, SentStays
  <2>4. StreamCommon'
    BY <1>1, <1>2, <1>3, <1>4, <2>2
       DEF StreamCommon, TerminalsLast, Stream!RejectionsLatched, DidNothing, Attempted
  <2>5. Attempted' = Attempted /\ Handled' = Handled /\ (Chunked => Chunked')
    BY <1>1, DecodingStays
  <2>6. Ending'
    BY <1>1, <1>2, <2>5 DEF Ending, Flushed
  <2>7. StreamStages'
    BY <1>2, <1>3, <1>4, <2>1, <2>3, <2>5, <2>6 DEF StreamStages
  <2> QED
    BY <2>3, <2>4, <2>7, StreamCloses
<1>5. CASE (Stream!Store(Stream!Outcome) \/ UNCHANGED s8) /\ Stream!End("storage")
  <2>1. s12' \in StreamTask /\ s12'.at = "ended" /\ s12'.error # None /\ s12'.delivered = s12.delivered
    BY <1>2, <1>5, StreamEnds DEF Stream!Error
  <2>2. RowCharged' /\ s8' \in Stream!Row \cup {None}
    BY <1>1, <1>2, <1>3, <1>5 DEF StreamCommon, StreamTypes, RowCharged
  <2>3. StreamTypes' /\ Stream!RejectionsLatched'
    BY <1>1, <1>2, <2>1, <2>2 DEF StreamTypes, StreamCommon, Stream!RejectionsLatched
  <2> QED
    BY <1>1, <1>2, <2>1, <2>2, <2>3, EndsAnyway
<1> QED
  BY <1>1, <1>4, <1>5

LEMMA StreamDeliversLast ==
  ASSUME StreamInv, part = "stream", Stream!DeliverLast
  PROVE  StreamInv'
<1>1. /\ s12.at = "last" /\ UNCHANGED <<s1, s2, s3, s4, s5, s6, s7, s8, s9, s10>>
      /\ s11' = (IF s1 = "stream" THEN Append(s11, <<s7.attempts, Stream!Current.number>>) ELSE s11)
      /\ s12' = [s12 EXCEPT !.at = "ended", !.delivered = TRUE, !.error = Stream!Outcome]
  BY DEF Stream!DeliverLast, Stream!At, Stream!Attempt, Stream!Number
<1>2. /\ StreamCommon /\ StreamTypes /\ s12 \in StreamTask /\ SentInOrder
      /\ Attempted \in 1..2 /\ s8 # None /\ Ending /\ s12.finalized
  BY <1>1, StreamOpens DEF StreamStages
<1>3. Stream!Outcome \in Stream!Error \cup {None}
  <2>1. CASE s1 = "unary"
    BY <2>1 DEF Stream!Outcome
  <2>2. CASE s1 # "unary"
    <3>1. Stream!Current.event \in StreamEvents
      BY <1>2, <2>2, NextEvent DEF Ending
    <3> QED
      BY <2>2, <3>1, ObservedError DEF Stream!Outcome
  <2> QED
    BY <2>1, <2>2
<1>4. PICK error \in Stream!Error \cup {None} : error = Stream!Outcome
  BY <1>3
<1>5. s12' = [s12 EXCEPT !.at = "ended", !.delivered = TRUE, !.error = error]
  BY <1>1, <1>4
<1>6. /\ s12' \in StreamTask /\ s12'.at = "ended" /\ s12'.delivered /\ s12'.finalized
  BY <1>2, <1>5 DEF StreamTask, Stream!Stage
<1>7. SentInOrder' /\ s11' \in Seq((0..2) \X Nat)
  <2>1. CASE s1 # "stream"
    <3>1. UNCHANGED s11
      BY <1>1, <2>1
    <3> QED
      BY <1>1, <1>2, <1>6, <3>1, SentStays DEF StreamTypes
  <2>2. CASE s1 = "stream"
    <3>1. Chunked /\ s5 # <<>> /\ Len(s11) = Handled
      BY <1>2, <2>2 DEF Ending, Flushed
    <3>2. /\ Stream!Current = s5[1] /\ s5[1].number = Handled + 1 /\ Handled + 1 \in 1..Len(Events)
          /\ Len(Events) \in Nat
      BY <1>2, <3>1, NextEvent
    <3>3. s11' = Append(s11, <<Attempted, Len(s11) + 1>>) /\ Len(s11) + 1 <= Len(Events)
      BY <1>1, <2>2, <3>1, <3>2 DEF Attempted
    <3> QED
      BY <1>1, <1>2, <1>6, <2>2, <3>3, SendsNext
  <2> QED
    BY <2>1, <2>2
<1>8. StreamTypes'
  BY <1>1, <1>2, <1>6, <1>7 DEF StreamTypes
<1>9. StreamCommon'
  BY <1>1, <1>2, <1>8, CommonStays
<1>10. StreamStages'
  BY <1>6, <1>7 DEF StreamStages
<1> QED
  BY <1>7, <1>9, <1>10, StreamCloses

\* An end without an outcome.
LEMMA StreamStops ==
  ASSUME StreamInv, part = "stream", Stream!Interrupted \/ Stream!Fails
  PROVE  StreamInv'
<1>1. /\ s12.at # "done" /\ UNCHANGED <<s1, s2, s3, s4, s5, s6, s7, s8, s9, s10, s11>>
      /\ Stream!End("interrupted") \/ Stream!End("storage")
  BY DEF Stream!Interrupted, Stream!Fails, Stream!At
<1>2. StreamCommon /\ StreamTypes /\ s12 \in StreamTask
  BY StreamOpens
<1>3. s12' \in StreamTask /\ s12'.at = "ended" /\ s12'.error # None /\ s12'.delivered = s12.delivered
  BY <1>1, <1>2, StreamEnds DEF Stream!Error
<1>4. StreamTypes' /\ RowCharged' /\ Stream!RejectionsLatched'
  BY <1>1, <1>2, <1>3 DEF StreamTypes, StreamCommon, RowCharged, Stream!RejectionsLatched
<1> QED
  BY <1>1, <1>3, <1>4, EndsAnyway

LEMMA StreamCancels ==
  ASSUME StreamInv, part = "stream", Stream!Cancel
  PROVE  StreamInv'
<1>1. /\ s12.at # "done" /\ UNCHANGED <<s1, s2, s3, s4, s5, s6, s7, s9, s10, s11>>
      /\ \E client \in BOOLEAN :
           s12' = [s12 EXCEPT !.at = "ended", !.error = "cancelled", !.client = client]
      /\ UNCHANGED s8 \/ (s12.at = "finishing" /\ Stream!Store(Stream!Outcome))
  BY DEF Stream!Cancel, Stream!At
<1>2. StreamCommon /\ StreamTypes /\ s12 \in StreamTask
  BY StreamOpens
<1>3. "cancelled" \in Stream!Error /\ "cancelled" # None
  <2>1. "cancelled" \in Stream!Error
    BY DEF Stream!Error
  <2> QED
    BY <2>1, StreamAssumed
<1>4. s12' \in StreamTask /\ s12'.at = "ended" /\ s12'.error # None /\ s12'.delivered = s12.delivered
  <2>1. PICK client \in BOOLEAN :
          s12' = [s12 EXCEPT !.at = "ended", !.error = "cancelled", !.client = client]
    BY <1>1
  <2>2. s12' \in StreamTask
    BY <1>2, <1>3, <2>1 DEF StreamTask, Stream!Stage
  <2>3. s12'.at = "ended" /\ s12'.error = "cancelled" /\ s12'.delivered = s12.delivered
    BY <1>2, <2>1 DEF StreamTask
  <2> QED
    BY <1>3, <2>2, <2>3
<1>5. s8' \in Stream!Row \cup {None} /\ (s8 # None => s8' # None) /\ RowCharged'
  <2>1. CASE UNCHANGED s8
    BY <1>1, <1>2, <2>1 DEF StreamTypes, StreamCommon, RowCharged
  <2>2. CASE s12.at = "finishing" /\ Stream!Store(Stream!Outcome)
    <3>1. Attempted \in 1..2 /\ s8 = None /\ Ending
      BY <2>2, StreamOpens DEF StreamStages
    <3> QED
      BY <1>1, <1>2, <2>2, <3>1, StoresOutcome
  <2> QED
    BY <1>1, <2>1, <2>2
<1>6. StreamTypes' /\ Stream!RejectionsLatched'
  BY <1>1, <1>2, <1>4, <1>5 DEF StreamTypes, StreamCommon, Stream!RejectionsLatched
<1> QED
  BY <1>1, <1>4, <1>5, <1>6, EndsAnyway

LEMMA StreamConcludes ==
  ASSUME StreamInv, part = "stream", Stream!Conclude
  PROVE  StreamInv'
<1>1. /\ s12.at = "ended" /\ UNCHANGED <<s1, s2, s3, s4, s5, s6, s7, s9, s10, s11>>
      /\ (~s12.finalized /\ Stream!Store(s12.error)) \/ UNCHANGED s8
      /\ Stream!Go("answering")
  BY DEF Stream!Conclude, Stream!At
<1>2. /\ StreamCommon /\ StreamTypes /\ s12 \in StreamTask /\ SentInOrder
      /\ (s12.finalized \/ s12.error # None)
  BY <1>1, StreamOpens DEF StreamStages
<1>3. s12' \in StreamTask /\ s12'.at = "answering" /\ s12'.delivered = s12.delivered
  BY <1>1, <1>2, StreamGoes DEF Stream!Stage
<1>4. UNCHANGED s8 \/ (s8' \in Stream!Row /\ s8'.state # "completed")
  <2> SUFFICES ASSUME s8 = None, Stream!Store(s12.error), s12.error # None
               PROVE  s8' \in Stream!Row /\ s8'.state # "completed"
    BY <1>1, <1>2 DEF Stream!Store
  <2>1. PICK state \in {"failed", "cancelled"} :
          state = IF s12.error = "cancelled" THEN "cancelled" ELSE "failed"
    OBVIOUS
  <2>2. PICK usage \in Stream!Usage :
          usage = IF s7.attempts = 0 THEN [tokens |-> None, images |-> 0] ELSE s7.usage
    <3>1. [tokens |-> None, images |-> 0] \in Stream!Usage
      BY DEF Stream!Usage
    <3>2. s7.usage \in Stream!Usage
      BY <1>2, StreamTyped
    <3> QED
      BY <3>1, <3>2
  <2>3. s8' = [state |-> state, attempts |-> s7.attempts, usage |-> usage]
    BY <2>1, <2>2 DEF Stream!Store, Stream!Attempt, Stream!NoUsage
  <2>4. s7.attempts \in 0..2
    BY <1>2 DEF StreamTypes
  <2> QED
    BY <2>1, <2>2, <2>3, <2>4 DEF Stream!Row
<1>5. s8' \in Stream!Row \cup {None} /\ (s8 # None => s8' # None) /\ RowCharged'
  <2>1. CASE UNCHANGED s8
    BY <1>1, <1>2, <2>1 DEF StreamTypes, StreamCommon, RowCharged
  <2>2. CASE s8' \in Stream!Row /\ s8'.state # "completed"
    BY <2>2, StreamAssumed DEF RowCharged
  <2> QED
    BY <1>4, <2>1, <2>2
<1>6. StreamTypes'
  BY <1>1, <1>2, <1>3, <1>5 DEF StreamTypes
<1>7. SentInOrder'
  BY <1>1, <1>2, <1>3, <1>5, SentStays
<1>8. StreamCommon'
  BY <1>1, <1>2, <1>5, <1>6
     DEF StreamCommon, TerminalsLast, Stream!RejectionsLatched, DidNothing, Attempted
<1>9. StreamStages'
  BY <1>3, <1>7 DEF StreamStages
<1> QED
  BY <1>7, <1>8, <1>9, StreamCloses

LEMMA StreamAnswers ==
  ASSUME StreamInv, part = "stream", Stream!Answer
  PROVE  StreamInv'
<1>1. /\ s12.at = "answering" /\ UNCHANGED <<s1, s2, s3, s4, s5, s6, s7, s8, s9, s10>>
      /\ UNCHANGED s11 \/ (~s12.delivered /\ s11' = Append(s11, Stream!Failed))
      /\ Stream!Go("done")
  BY DEF Stream!Answer, Stream!At
<1>2. /\ StreamCommon /\ StreamTypes /\ s12 \in StreamTask /\ SentInOrder
      /\ Stream!RepeatedWithoutWork
  BY <1>1, StreamOpens DEF StreamInv
<1>3. s12' \in StreamTask /\ s12'.at = "done" /\ s12'.delivered = s12.delivered
  BY <1>1, <1>2, StreamGoes DEF Stream!Stage
<1>4. StreamStages'
  BY <1>3 DEF StreamStages
<1>5. CASE UNCHANGED s11
  <2>1. StreamTypes'
    BY <1>1, <1>2, <1>3, <1>5 DEF StreamTypes
  <2>2. StreamCommon' /\ SentInOrder'
    BY <1>1, <1>2, <1>3, <1>5, <2>1, CommonStays, SentStays
  <2> QED
    BY <1>4, <2>2, StreamCloses
<1>6. CASE ~s12.delivered /\ s11' = Append(s11, Stream!Failed)
  <2> DEFINE n == Len(s11)
  <2>1. s11 \in Seq((0..2) \X Nat) /\ n \in Nat /\ Stream!Failed \in (0..2) \X Nat
    BY <1>2 DEF StreamTypes, Stream!Failed
  <2>2. /\ s11' \in Seq((0..2) \X Nat) /\ Len(s11') = n + 1 /\ DOMAIN s11' = 1..(n + 1)
        /\ s11'[n + 1] = Stream!Failed /\ \A i \in 1..n : s11'[i] = s11[i]
    BY <1>6, <2>1
  <2>3. \A i \in 1..n :
          /\ s11'[i] = <<s7.attempts, i>> /\ s7.attempts \in 1..2
          /\ i <= Len(Events) /\ ~Stream!Terminal(s3[s7.attempts][i])
    BY <1>2, <1>6, <2>1, <2>2 DEF SentInOrder, Attempted, Events
  <2> HIDE DEF n
  <2>4. \A i \in 1..n : s11'[i] # Stream!Failed /\ s11'[i][1] = s7.attempts
    BY <2>3 DEF Stream!Failed
  <2>5. \A i \in 1..(n + 1) : i \in 1..n \/ i = n + 1
    BY <2>1
  <2>6. \A i \in 1..n : i \in 1..(n + 1) /\ 1 \in 1..n
    BY <2>1
  <2>7. Stream!Delivered' = 1..n
    BY <2>2, <2>4, <2>5, <2>6 DEF Stream!Delivered
  <2>8. DOMAIN s11' \ 1..n = {n + 1}
    BY <2>1, <2>2, <2>5
  <2>9. \A i \in 1..n : Stream!Source(i)' = s7.attempts
    BY <2>4 DEF Stream!Source
  <2>10. Stream!OneAttemptDelivered'
    <3>1. \A i \in 1..n : s11'[i] = <<Stream!Source(1)', i>>
      BY <2>3, <2>6, <2>9
    <3>2. \A i \in 1..n : ~Stream!Terminal(s3'[Stream!Source(i)'][i])
      BY <1>1, <2>3, <2>9
    <3> QED
      BY <2>2, <2>7, <2>8, <3>1, <3>2 DEF Stream!OneAttemptDelivered
  <2>11. StreamTypes'
    BY <1>1, <1>2, <1>3, <2>2 DEF StreamTypes
  <2>12. StreamCommon'
    BY <1>1, <1>2, <2>11, CommonStays
  <2>13. Stream!RepeatedWithoutWork'
    <3>1. s3[2] # <<>> \/ s7.attempts = 2 => Attempted = 2 /\ DidNothing
      BY <1>2 DEF StreamCommon, Attempted
    <3>2. DOMAIN s3[1] = 1..Len(s3[1])
      BY StreamOpens
    <3> QED
      BY <1>1, <2>7, <2>9, <3>1, <3>2
         DEF Stream!RepeatedWithoutWork, Stream!Attempt, DidNothing, Stream!Last, Attempted
  <2>14. Stream!OutcomeOfLastAttempt'
    <3>1. s1 # "unary" /\ s8 # None /\ s8.state = "completed" =>
            /\ s3[s8.attempts] # <<>> /\ s3[s8.attempts][Len(s3[s8.attempts])].kind = "completed"
            /\ s8.usage = UsageOf(s3[s8.attempts], Len(s3[s8.attempts]))
      BY <1>2 DEF StreamCommon, RowCharged
    <3>2. \A i \in 1..n : ~Stream!Terminal(s3'[Stream!Source(i)'][i])
      BY <1>1, <2>3, <2>9
    <3> QED
      BY <1>1, <2>7, <3>1, <3>2
         DEF Stream!OutcomeOfLastAttempt, UsageOf, Stream!Charged, Stream!Last,
         Stream!Cardinality, Cardinality
  <2> QED
    BY <1>4, <2>10, <2>12, <2>13, <2>14 DEF StreamInv
<1> QED
  BY <1>1, <1>5, <1>6

LEMMA StreamPushes ==
  ASSUME StreamInv, part = "stream", Stream!Push
  PROVE  StreamInv'
<1>1. s12.at = "reading" /\ ~s4.terminal /\ UNCHANGED <<s1, s2, s6, s7, s8, s10, s11>>
          /\ Stream!Go("handling")
  BY DEF Stream!Push, Stream!At
<1>2. /\ StreamCommon /\ StreamTypes /\ s12 \in StreamTask /\ SentInOrder
      /\ Decoding /\ Chunked /\ s5 = <<>> /\ s8 = None /\ Attempted \in 1..2 /\ s1 # "unary"
      /\ (IF s6.on THEN Held(Handled) ELSE Flushed(Handled))
  BY <1>1, StreamOpens DEF StreamStages, Decoding, Chunked
<1>3. PICK events \in Seq(StreamEvents) \ {<<>>} :
        /\ \A i \in 1..Len(events) - 1 : ~Stream!Terminal(events[i])
        /\ s3' = [s3 EXCEPT ![s7.attempts] = @ \o events]
        /\ s5' = [i \in DOMAIN events |->
             [event |-> events[i], number |-> Len(s3[s7.attempts]) + i,
              usage |-> [tokens |-> Stream!Decode(s4, events, i).tokens,
                         images |-> Cardinality(Stream!Decode(s4, events, i).images)]]]
        /\ s4' = Stream!Decode(s4, events, Len(events))
        /\ Stream!Latch(events)
  <2>1. \A events \in Stream!BoundedSeq(StreamEvents, 2) \ {<<>>} : events \in Seq(StreamEvents) \ {<<>>}
    <3>1. Stream!BoundedSeq(StreamEvents, 2) = UNION {[1..n -> StreamEvents] : n \in 0..2}
      BY DEF Stream!BoundedSeq, Stream!SeqOf
    <3>2. \A T : \A n \in 0..2 : \A q \in [1..n -> T] : q \in Seq(T)
      OBVIOUS
    <3>3. \A n \in 0..2 : \A q \in [1..n -> StreamEvents] : q \in Seq(StreamEvents)
      BY <3>2
    <3>4. \A events \in UNION {[1..n -> StreamEvents] : n \in 0..2} :
            \E n \in 0..2 : events \in [1..n -> StreamEvents]
      OBVIOUS
    <3> QED
      BY <3>1, <3>3, <3>4
  <2>2. PICK events \in Stream!BoundedSeq(StreamEvents, 2) \ {<<>>} :
          /\ \A i \in 1..Len(events) - 1 : ~Stream!Terminal(events[i])
          /\ s3' = [s3 EXCEPT ![s7.attempts] = @ \o events]
          /\ s5' = [i \in DOMAIN events |->
               [event |-> events[i], number |-> Len(s3[s7.attempts]) + i,
                usage |-> [tokens |-> Stream!Decode(s4, events, i).tokens,
                           images |-> Cardinality(Stream!Decode(s4, events, i).images)]]]
          /\ s4' = Stream!Decode(s4, events, Len(events))
          /\ Stream!Latch(events)
    BY Zenon DEF Stream!Push, Stream!Attempt, Stream!Cardinality, Cardinality
  <2> QED
    BY <2>1, <2>2
<1> DEFINE m == Len(Events)
           k == Len(events)
           all == Events \o events
<1>4. /\ Events \in Seq(StreamEvents) /\ m \in Nat /\ k \in Nat \ {0} /\ DOMAIN events = 1..k
      /\ all \in Seq(StreamEvents) /\ Len(all) = m + k /\ Handled = m
      /\ \A i \in 1..m : all[i] = Events[i]
      /\ \A i \in 1..k : all[m + i] = events[i] /\ events[i] \in StreamEvents
      /\ \A i \in 1..(m + k) : i \in 1..m \/ (i - m \in 1..k /\ i = m + (i - m))
  <2>1. Events \in Seq(StreamEvents) /\ m \in Nat /\ k \in Nat \ {0} /\ DOMAIN events = 1..k
    BY <1>2, StreamTyped
  <2>2. all \in Seq(StreamEvents) /\ Len(all) = m + k /\ \A i \in 1..m : all[i] = Events[i]
    BY <2>1
  <2>3. \A i \in 1..k : all[m + i] = events[i] /\ events[i] \in StreamEvents
    BY <2>1
  <2>4. Handled = m
    BY <1>2, <2>1 DEF Handled
  <2>5. \A i \in 1..(m + k) : i \in 1..m \/ (i - m \in 1..k /\ i = m + (i - m))
    BY <2>1
  <2> QED
    BY <2>1, <2>2, <2>3, <2>4, <2>5
<1>5. /\ Attempted' = Attempted /\ Events' = all
      /\ s3' \in [1..2 -> Seq(StreamEvents)]
      /\ \A a \in 1..2 : a # Attempted => s3'[a] = s3[a]
  <2>1. s3 \in [1..2 -> Seq(StreamEvents)] /\ s7.attempts = Attempted
    BY <1>2 DEF StreamTypes, Attempted
  <2>2. s3' = [s3 EXCEPT ![Attempted] = all]
    BY <1>3, <2>1 DEF Events
  <2> HIDE DEF all
  <2>3. s3' \in [1..2 -> Seq(StreamEvents)] /\ s3'[Attempted] = all
            /\ \A a \in 1..2 : a # Attempted => s3'[a] = s3[a]
    BY <1>2, <1>4, <2>1, <2>2
  <2>4. Attempted' = Attempted
    BY <1>1 DEF Attempted
  <2> QED
    BY <2>3, <2>4 DEF Events
<1>6. \A i \in 1..m : ~Stream!Terminal(Events[i])
  BY <1>1, <1>2 DEF Decoding
<1> DEFINE usage(i) == [tokens |-> Stream!Decode(s4, events, i).tokens,
                        images |-> Cardinality(Stream!Decode(s4, events, i).images)]
<1>7. \A i \in 1..k : usage(i) = UsageOf(all, m + i) /\ UsageOf(all, m + i) \in Stream!Usage
  <2> SUFFICES ASSUME NEW i \in 1..k
               PROVE  usage(i) = UsageOf(all, m + i) /\ UsageOf(all, m + i) \in Stream!Usage
    OBVIOUS
  <2>1. s4.tokens = Stream!Tokens(Events, m) /\ s4.images = Stream!Images(Events, m)
    BY <1>2 DEF Decoding
  <2>2. /\ Stream!Tokens(all, m + i) =
             IF Stream!Tokens(events, i) = None THEN Stream!Tokens(Events, m) ELSE Stream!Tokens(events, i)
        /\ Stream!Images(all, m + i) = Stream!Images(Events, m) \cup Stream!Images(events, i)
    BY <1>4, FiguresAdd
  <2>3. Stream!Decode(s4, events, i).tokens = Stream!Tokens(all, m + i)
        /\ Stream!Decode(s4, events, i).images = Stream!Images(all, m + i)
    BY <2>1, <2>2 DEF Stream!Decode
  <2>4. m + i \in 0..Len(all)
    BY <1>4
  <2> HIDE DEF all
  <2> QED
    BY <1>4, <2>3, <2>4, FiguresType DEF UsageOf
<1>8. s4'.tokens = Stream!Tokens(all, m + k) /\ s4'.images = Stream!Images(all, m + k)
      /\ (s4'.terminal <=> Stream!Terminal(events[k]))
  <2>1. s4.tokens = Stream!Tokens(Events, m) /\ s4.images = Stream!Images(Events, m)
    BY <1>2 DEF Decoding
  <2>2. /\ Stream!Tokens(all, m + k) =
             IF Stream!Tokens(events, k) = None THEN Stream!Tokens(Events, m) ELSE Stream!Tokens(events, k)
        /\ Stream!Images(all, m + k) = Stream!Images(Events, m) \cup Stream!Images(events, k)
    BY <1>4, FiguresAdd
  <2>3. s4'.terminal <=> Stream!Terminal(events[k])
    <3>1. PICK t \in BOOLEAN : t <=> Stream!Terminal(events[k])
      OBVIOUS
    <3>2. t = Stream!Terminal(events[k])
      BY <3>1 DEF Stream!Terminal
    <3>3. s4'.terminal = t
      BY <1>3, <3>2 DEF Stream!Decode
    <3> QED
      BY <3>1, <3>3
  <2> QED
    BY <1>3, <2>1, <2>2, <2>3 DEF Stream!Decode
<1>9. /\ s5' \in Seq(StreamItem) /\ Len(s5') = k /\ s5' # <<>>
      /\ \A i \in 1..k :
           s5'[i].event = events[i] /\ s5'[i].number = m + i /\ s5'[i].usage = UsageOf(all, m + i)
  <2> DEFINE item(i) == [event |-> events[i], number |-> m + i, usage |-> usage(i)]
  <2>1. s5' = [i \in 1..k |-> item(i)]
    BY <1>3, <1>4 DEF Events, Attempted
  <2> HIDE DEF usage, all, m, k
  <2>2. \A i \in 1..k : item(i) \in StreamItem
    <3> SUFFICES ASSUME NEW i \in 1..k
                 PROVE  item(i) \in StreamItem
      OBVIOUS
    <3>1. events[i] \in StreamEvents /\ m + i \in Nat /\ usage(i) \in Stream!Usage
      BY <1>4, <1>7
    <3> QED
      BY <3>1 DEF StreamItem
  <2>3. \A i \in 1..k : item(i).event = events[i] /\ item(i).number = m + i
            /\ item(i).usage = UsageOf(all, m + i)
    BY <1>7
  <2> HIDE DEF item
  <2>4. s5' \in [1..k -> StreamItem] /\ \A i \in 1..k : s5'[i] = item(i)
    BY <2>1, <2>2
  <2>5. s5' \in Seq(StreamItem) /\ Len(s5') = k /\ s5' # <<>>
    <3>1. \A T : \A q \in [1..k -> T] : q \in Seq(T) /\ Len(q) = k
      BY <1>4
    <3>2. s5' \in Seq(StreamItem) /\ Len(s5') = k
      BY <2>4, <3>1
    <3> QED
      BY <1>4, <3>2
  <2> QED
    BY <2>3, <2>4, <2>5
<1> HIDE DEF m, k, all, usage
<1>10. Handled' = m
  BY <1>4, <1>5, <1>9 DEF Handled
<1>11. Chunked'
  <2>1. k <= m + k
    BY <1>4
  <2>2. \A i \in 1..k :
          s5'[i].number = m + i /\ s5'[i].event = all[m + i] /\ s5'[i].usage = UsageOf(all, m + i)
    BY <1>4, <1>9
  <2> QED
    BY <1>1, <1>2, <1>4, <1>5, <1>9, <1>10, <2>1, <2>2 DEF Chunked
<1>12. \A i \in 1..(m + k) : Stream!Terminal(all[i]) => i = m + k /\ Stream!Terminal(events[k])
  <2> SUFFICES ASSUME NEW i \in 1..(m + k), Stream!Terminal(all[i])
               PROVE  i = m + k /\ Stream!Terminal(events[k])
    OBVIOUS
  <2>1. i \notin 1..m
    BY <1>4, <1>6
  <2>2. i - m \in 1..k /\ i = m + (i - m)
    BY <1>4, <2>1
  <2>3. Stream!Terminal(events[i - m])
    BY <1>4, <2>2
  <2>4. i - m \notin 1..k - 1
    BY <1>3, <2>3 DEF k
  <2>5. i - m = k
    BY <1>4, <2>2, <2>4
  <2> QED
    BY <2>2, <2>3, <2>5
<1>13. Decoding'
  <2>1. ~s4'.terminal => \A i \in 1..(m + k) : ~Stream!Terminal(all[i])
    BY <1>8, <1>12
  <2> QED
    BY <1>1, <1>2, <1>4, <1>5, <1>8, <1>11, <2>1 DEF Decoding
<1>14. s12' \in StreamTask /\ s12'.at = "handling" /\ s12'.delivered = s12.delivered
  BY <1>1, <1>2, StreamGoes DEF Stream!Stage
<1>15. s9' \in BOOLEAN /\ (s9 => s9')
       /\ ((\E i \in 1..k : Stream!Observed(events[i]) = "upstream_content_policy_violation") => s9')
  <2>1. CASE \E i \in DOMAIN events : Stream!Observed(events[i]) = "upstream_content_policy_violation"
    <3>1. s9'
      BY <1>3, <2>1 DEF Stream!Latch
    <3>2. s9' \in BOOLEAN
      BY <1>3, <2>1 DEF Stream!Latch
    <3> QED
      BY <3>1, <3>2
  <2>2. CASE ~\E i \in DOMAIN events : Stream!Observed(events[i]) = "upstream_content_policy_violation"
    <3>1. s9 \in BOOLEAN
      BY <1>2 DEF StreamTypes
    <3>2. s9' <=> s9
      BY <1>3, <2>2 DEF Stream!Latch
    <3>3. s9' \in BOOLEAN
      BY <1>3 DEF Stream!Latch
    <3> QED
      BY <1>4, <2>2, <3>2, <3>3
  <2> QED
    BY <2>1, <2>2
<1>16. StreamTypes'
  BY <1>1, <1>2, <1>5, <1>9, <1>14, <1>15 DEF StreamTypes
<1>17. TerminalsLast'
  <2>1. \A i \in 1..Len(all) : Stream!Terminal(all[i]) => i = Len(all)
    BY <1>4, <1>12
  <2> QED
    BY <1>2, <1>5, <2>1 DEF StreamCommon, TerminalsLast, Events
<1>18. Stream!RejectionsLatched'
  <2> SUFFICES ASSUME NEW a \in 1..2, NEW i \in DOMAIN s3'[a], s3'[a][i].body = "policy"
               PROVE  s9'
    BY DEF Stream!RejectionsLatched
  <2>1. CASE a # Attempted
    BY <1>2, <1>5, <1>15, <2>1 DEF StreamCommon, Stream!RejectionsLatched
  <2>2. CASE a = Attempted
    <3>1. s3'[a] = all /\ i \in 1..(m + k)
      <4>1. s3'[a] = all
        BY <1>5, <2>2 DEF Events
      <4>2. DOMAIN all = 1..(m + k)
        BY <1>4
      <4> QED
        BY <4>1, <4>2
    <3>2. CASE i \in 1..m
      <4>1. all[i] = s3[a][i] /\ i \in DOMAIN s3[a]
        BY <1>4, <2>2, <3>2 DEF Events, m
      <4> QED
        BY <1>2, <1>15, <3>1, <4>1 DEF StreamCommon, Stream!RejectionsLatched
    <3>3. CASE i - m \in 1..k /\ i = m + (i - m)
      <4>1. all[i] = events[i - m] /\ events[i - m] \in StreamEvents
        BY <1>4, <3>3
      <4>2. Stream!Observed(events[i - m]) = "upstream_content_policy_violation"
        BY <3>1, <4>1, ObservedError
      <4> QED
        BY <1>15, <3>3, <4>2
    <3> QED
      BY <1>4, <3>1, <3>2, <3>3
  <2> QED
    BY <2>1, <2>2
<1>19. StreamCommon'
  <2>1. RowCharged'
    BY <1>1, <1>2 DEF RowCharged
  <2>2. s3'[2] # <<>> => Attempted' = 2
    BY <1>2, <1>5 DEF StreamCommon
  <2>3. Attempted' = 2 => DidNothing'
    BY <1>1, <1>2, <1>5 DEF StreamCommon, DidNothing
  <2> QED
    BY <1>16, <1>17, <1>18, <2>1, <2>2, <2>3 DEF StreamCommon
<1>20. SentInOrder'
  <2>1. \A i \in 1..Len(s11) :
          /\ s11[i] = <<Attempted, i>> /\ i <= m + k
          /\ Stream!Terminal(all[i]) => s12'.delivered /\ s8 # None
    <3> SUFFICES ASSUME NEW i \in 1..Len(s11)
                 PROVE  /\ s11[i] = <<Attempted, i>> /\ i <= m + k
                        /\ Stream!Terminal(all[i]) => s12'.delivered /\ s8 # None
      OBVIOUS
    <3>1. s11[i] = <<Attempted, i>> /\ i <= m
      BY <1>2 DEF SentInOrder, m
    <3>2. Len(s11) \in Nat
      BY <1>2 DEF StreamTypes
    <3>3. i \in 1..m
      BY <1>4, <3>1, <3>2
    <3> QED
      BY <1>4, <1>6, <3>1, <3>3
  <2> QED
    BY <1>1, <1>2, <1>4, <1>5, <2>1 DEF SentInOrder
<1>21. IF s6'.on THEN (Held(Handled))' ELSE (Flushed(Handled))'
  <2>1. CASE s6.on
    <3>1. Held(m)
      BY <1>2, <1>4, <2>1
    <3>2. \A i \in 1..m : s6.events[i] = i /\ ~all[i].work
      BY <1>4, <3>1 DEF Held
    <3> QED
      BY <1>1, <1>5, <1>10, <2>1, <3>1, <3>2 DEF Held
  <2>2. CASE ~s6.on
    BY <1>1, <1>2, <1>4, <1>10, <2>2 DEF Flushed
  <2> QED
    BY <2>1, <2>2
<1>22. StreamStages'
  BY <1>9, <1>13, <1>14, <1>20, <1>21 DEF StreamStages
<1> QED
  BY <1>19, <1>20, <1>22, StreamCloses

LEMMA StreamInvInit == ServicesInit => StreamInv
<1> SUFFICES ASSUME ServicesInit, part = "stream"
             PROVE  StreamInv
  BY DEF StreamInv
<1>1. /\ s1 \in {"stream", "document", "unary"}
      /\ s3 = [a \in 1..2 |-> <<>>] /\ s5 = <<>>
      /\ s6 = [on |-> FALSE, events |-> <<>>]
      /\ s7 = [attempts |-> 1, usage |-> [tokens |-> None, images |-> 0]]
      /\ s8 = None /\ s9 = FALSE /\ s11 = <<>>
      /\ s12 = [at |-> "checking", error |-> None, finalized |-> FALSE, delivered |-> FALSE, client |-> TRUE]
  BY DEF ServicesInit, Stream!Init, Stream!NoUsage
<1>2. s12 \in StreamTask /\ s12.at = "checking"
  BY <1>1 DEF StreamTask, Stream!Stage
<1>3. s7 \in [attempts : 0..2, usage : Stream!Usage] /\ Attempted = 1
  BY <1>1 DEF Stream!Usage, Attempted
<1>4. s6 \in [on : BOOLEAN, events : Seq(Nat)]
  BY <1>1
<1>5. s3 \in [1..2 -> Seq(StreamEvents)] /\ s3[1] = <<>> /\ s3[2] = <<>> /\ \A a \in 1..2 : s3[a] = <<>>
  BY <1>1
<1>6. s5 \in Seq(StreamItem) /\ s11 \in Seq((0..2) \X Nat) /\ s9 \in BOOLEAN
  <2>1. \A T : <<>> \in Seq(T)
    OBVIOUS
  <2>2. s9 \in BOOLEAN
    BY <1>1
  <2> QED
    BY <1>1, <2>1, <2>2
<1>7. StreamTypes
  BY <1>1, <1>2, <1>3, <1>4, <1>5, <1>6 DEF StreamTypes
<1>8. StreamCommon
  BY <1>1, <1>3, <1>5, <1>7
     DEF StreamCommon, TerminalsLast, Stream!RejectionsLatched, RowCharged
<1>9. SentInOrder
  BY <1>1 DEF SentInOrder
<1>10. NoAnswerYet
  BY <1>1, <1>3, <1>5 DEF NoAnswerYet, Events
<1>11. StreamStages
  BY <1>2, <1>9, <1>10 DEF StreamStages
<1> QED
  BY <1>8, <1>9, <1>11, StreamProps DEF StreamInv

\* Nothing happens.
LEMMA StreamRests ==
  ASSUME StreamInv, part = "stream", UNCHANGED partVars
  PROVE  StreamInv'
<1>1. UNCHANGED <<s1, s2, s3, s4, s5, s6, s7, s8, s9, s10, s11, s12>>
  BY DEF partVars
<1>2. StreamCommon /\ StreamTypes /\ StreamStages /\ (s12.at # "done" => SentInOrder)
  BY StreamOpens
<1>3. Attempted' = Attempted /\ Events' = Events /\ Handled' = Handled /\ (Chunked => Chunked')
  BY <1>1, DecodingStays
<1>4. StreamTypes'
  BY <1>1, <1>2 DEF StreamTypes
<1>5. StreamCommon'
  BY <1>1, <1>2, <1>4, CommonStays
<1>6. SentInOrder => SentInOrder'
  BY <1>1, SentStays
<1>7. Stream!OneAttemptDelivered' /\ Stream!RepeatedWithoutWork' /\ Stream!OutcomeOfLastAttempt'
  BY <1>1 DEF StreamInv, Stream!OneAttemptDelivered, Stream!RepeatedWithoutWork,
     Stream!OutcomeOfLastAttempt,
     Stream!Delivered, Stream!Source, Stream!Charged, Stream!Attempt
<1>8. /\ NoAnswerYet => NoAnswerYet'
      /\ Decoding => Decoding'
      /\ \A n \in {Handled, Handled + 1} : (Held(n) => (Held(n))') /\ (Flushed(n) => (Flushed(n))')
      /\ Draining => Draining'
      /\ DidNothing => DidNothing'
  <2>1. NoAnswerYet => NoAnswerYet'
    BY <1>1, <1>3 DEF NoAnswerYet
  <2>2. Decoding => Decoding'
    BY <1>1, <1>3, DecodingStays
  <2>3. \A n \in {Handled, Handled + 1} : (Held(n) => (Held(n))') /\ (Flushed(n) => (Flushed(n))')
    BY <1>1, <1>3 DEF Held, Flushed
  <2>4. Draining => Draining'
    BY <1>1, <1>3 DEF Draining
  <2>5. DidNothing => DidNothing'
    BY <1>1 DEF DidNothing
  <2> QED
    BY <2>1, <2>2, <2>3, <2>4, <2>5
<1>9. Ending => Ending'
  BY <1>1, <1>3, <1>8 DEF Ending
<1>10. StreamStages'
  BY <1>1, <1>2, <1>3, <1>6, <1>8, <1>9 DEF StreamStages
<1> QED
  BY <1>5, <1>7, <1>10 DEF StreamInv

LEMMA StreamInvStep == StreamInv /\ [ServicesNext]_allVars => StreamInv'
<1> SUFFICES ASSUME StreamInv, [ServicesNext]_allVars, part' = "stream"
             PROVE  StreamInv'
  BY DEF StreamInv
<1>1. part = "stream" /\ (Stream!Next \/ UNCHANGED partVars)
  BY DEF ServicesNext, PartNext, allVars
<1>2. CASE UNCHANGED partVars
  BY <1>1, <1>2, StreamRests
<1>3. CASE Stream!Next
  <2>1. CASE Stream!Done
    <3>1. UNCHANGED partVars
      BY <2>1 DEF Stream!Done, Stream!vars, partVars
    <3> QED
      BY <1>2, <3>1
  <2> QED
    BY <1>1, <1>3, <2>1, StreamChecks, StreamAccepted, StreamRefused, StreamPushes, StreamStops,
       StreamHandles, StreamDrains, StreamObserves, StreamDelivers, StreamFinishes, StreamDeliversLast,
       StreamDocument, StreamRecovers, StreamCancels, StreamConcludes, StreamAnswers DEF Stream!Next
<1> QED
  BY <1>1, <1>2, <1>3

\* gateway.rs, events.rs and recovery.rs: a client gets the events of one attempt in
\* their order and without a gap, whatever is held back, repeated or dropped; an
\* attempt that did work is never repeated, what is stored as complete is what the
\* last attempt has reported, and a rejection that was decoded is not forgotten.
THEOREM ServicesStream == ServicesSpec => []StreamOutcome
<1>1. StreamInv => StreamOutcome
  BY DEF StreamInv, StreamCommon, StreamOutcome
<1> QED
  BY <1>1, StreamInvInit, StreamInvStep, PTL DEF ServicesSpec

=================================================================================
