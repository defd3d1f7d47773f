------------------------------ MODULE QuotaReset ------------------------------
(***************************************************************************)
(* Quota resets of one account: application/resets.rs and the table        *)
(* account_reset_operations.  An administrator spends a reset voucher of   *)
(* the upstream under an operation id of its own.  The operation is        *)
(* journaled before it is sent; while its outcome is unknown it can only   *)
(* be sent again as it was, through timeouts, failed writes and restarts.  *)
(***************************************************************************)
EXTENDS Integers, FiniteSets

CONSTANTS
  Operation,  \* operation ids, chosen by the administrator's pages
  Voucher,    \* numbered in the order of ResetCredits::next, soonest expiry first
  Task,       \* concurrent consume_reset calls
  None

VARIABLES
  journal,  \* operation -> its row, None when there is none
  left,     \* vouchers the upstream would still accept
  decided,  \* operation -> what the upstream has decided about it
  late,     \* calls given up that may still arrive
  called,   \* history: the calls sent
  lock,     \* holder of the account's reset lock
  tasks

upstream == <<left, decided>>
vars == <<journal, upstream, late, called, lock, tasks>>

Outcome == {"reset", "nothing_to_reset", "no_credit"}
Code == Outcome \cup {"already_redeemed"}
Call == [op : Operation, credit : Voucher]
Row == [credit : Voucher, result : Code \cup {None}]

ResetAssumption ==
  /\ Voucher \subseteq Nat
  /\ None \notin Operation /\ None \notin Task
  /\ None \notin Code /\ None \notin Row

Stage == {"start", "listing", "journaling", "sending", "waiting", "finishing"}
Work == [op : Operation, credit : Voucher, at : Stage, code : Code \cup {None}]

TypeOK ==
  /\ journal \in [Operation -> Row \cup {None}]
  /\ left \subseteq Voucher
  /\ decided \in [Operation -> Outcome \cup {None}]
  /\ late \subseteq Call
  /\ called \subseteq Call
  /\ lock \in Task \cup {None}
  /\ tasks \in [Task -> Work \cup {None}]

-----------------------------------------------------------------------------
(* The upstream, as far as the gateway relies on it: redeem_request_id makes *)
(* a call idempotent.                                                        *)

\* The call is carried out; a repeated operation keeps its first outcome.
CarryOut(call) ==
  IF decided[call.op] # None
  THEN UNCHANGED upstream
  ELSE \/ /\ call.credit \in left
          /\ left' = left \ {call.credit}
          /\ decided' = [decided EXCEPT ![call.op] = "reset"]
       \/ /\ decided' = [decided EXCEPT ![call.op] =
               IF call.credit \in left THEN "nothing_to_reset" ELSE "no_credit"]
          /\ UNCHANGED left

\* The answer to a call that has just been carried out.
Answered(op) ==
  IF decided[op] = "reset" THEN {"reset", "already_redeemed"} ELSE {decided'[op]}

\* A voucher expires, or is spent by another client of the account.
Elsewhere ==
  /\ \E v \in left : left' = left \ {v}
  /\ UNCHANGED <<journal, decided, late, called, lock, tasks>>

\* A call that was given up arrives after all.
Late ==
  /\ \E call \in late : CarryOut(call) /\ late' = late \ {call}
  /\ UNCHANGED <<journal, called, lock, tasks>>

-----------------------------------------------------------------------------
(* consume_reset. *)

At(t, stage) == tasks[t] # None /\ tasks[t].at = stage
CallOf(t) == [op |-> tasks[t].op, credit |-> tasks[t].credit]
Advance(t, stage) == tasks' = [tasks EXCEPT ![t].at = stage]
End(t) == tasks' = [tasks EXCEPT ![t] = None] /\ lock' = IF lock = t THEN None ELSE lock

\* MUTANT: an operation whose outcome is unknown is not looked for.
NoPending == {}

\* Rows that are not completed; the unique index one_pending_reset_per_account
\* allows one.
Pending == {op \in Operation : journal[op] # None /\ journal[op].result = None}

\* MUTANT: a confirmed operation is sent like any other.
NeverSettled(op) == FALSE

Settled(op) == journal[op].result # None

Ask(t) ==
  /\ tasks[t] = None
  /\ \E op \in Operation, credit \in Voucher :
       tasks' = [tasks EXCEPT ![t] = [op |-> op, credit |-> credit, at |-> "start", code |-> None]]
  /\ UNCHANGED <<journal, upstream, late, called, lock>>

\* A known operation is answered from its row, or sent again with its voucher.
Resume(t) ==
  LET op == tasks[t].op IN
  /\ At(t, "start") /\ lock = None
  /\ journal[op] # None
  /\ IF journal[op].credit = tasks[t].credit /\ ~Settled(op)
     THEN Advance(t, "sending") /\ lock' = t
     ELSE End(t)
  /\ UNCHANGED <<journal, upstream, late, called>>

\* A new one needs that none is pending, then asks for the vouchers.
Enter(t) ==
  /\ At(t, "start") /\ lock = None
  /\ journal[tasks[t].op] = None
  /\ IF Pending = {} THEN Advance(t, "listing") /\ lock' = t ELSE End(t)
  /\ UNCHANGED <<journal, upstream, late, called>>

\* Only the voucher that the page showed, when it is still the next one.
List(t) ==
  /\ At(t, "listing")
  /\ IF /\ tasks[t].credit \in left
        /\ \A v \in left : tasks[t].credit <= v
     THEN Advance(t, "journaling") /\ UNCHANGED lock
     ELSE End(t)
  /\ UNCHANGED <<journal, upstream, late, called>>

\* begin_reset.
Insert(t) ==
  /\ Pending = {}
  /\ journal' = [journal EXCEPT ![tasks[t].op] = [credit |-> tasks[t].credit, result |-> None]]

Journal(t) ==
  /\ At(t, "journaling")
  /\ Insert(t)
  /\ Advance(t, "sending")
  /\ UNCHANGED <<upstream, late, called, lock>>

\* MUTANT: the voucher is spent although the operation may not be journaled.
SendAnyway(t) == Advance(t, "sending") /\ UNCHANGED lock

AfterJournalError(t) == End(t)

\* The insert is answered with an error, applied or not.
JournalFails(t) ==
  /\ At(t, "journaling")
  /\ Insert(t) \/ UNCHANGED journal
  /\ AfterJournalError(t)
  /\ UNCHANGED <<upstream, late, called>>

\* An error of the store, the credentials or the list of vouchers.
GiveUp(t) ==
  /\ \E stage \in {"start", "listing", "sending"} : At(t, stage)
  /\ End(t)
  /\ UNCHANGED <<journal, upstream, late, called>>

Send(t) ==
  /\ At(t, "sending")
  /\ called' = called \cup {CallOf(t)}
  /\ Advance(t, "waiting")
  /\ UNCHANGED <<journal, upstream, late, lock>>

Answer(t) ==
  /\ At(t, "waiting")
  /\ CarryOut(CallOf(t))
  /\ \E code \in Answered(tasks[t].op) :
       tasks' = [tasks EXCEPT ![t].at = "finishing", ![t].code = code]
  /\ UNCHANGED <<journal, late, called, lock>>

\* Nobody reads the answer: the call was carried out, or may yet be, or is lost.
Unanswered(t) ==
  \/ CarryOut(CallOf(t)) /\ UNCHANGED late
  \/ late' = late \cup {CallOf(t)} /\ UNCHANGED upstream
  \/ UNCHANGED <<late, upstream>>

\* MUTANT: an operation without an answer is closed.
CloseUnanswered(t) ==
  journal' = [journal EXCEPT ![tasks[t].op].result = "no_credit"]

\* The operation stays pending.
OnUnconfirmed(t) == UNCHANGED journal

\* The thirty seconds are over, the connection broke, or the answer is an error or
\* unknown.
Unconfirmed(t) ==
  /\ At(t, "waiting")
  /\ Unanswered(t)
  /\ OnUnconfirmed(t)
  /\ End(t)
  /\ UNCHANGED called

\* finish_reset.
Complete(t) ==
  /\ ~Settled(tasks[t].op)
  /\ journal' = [journal EXCEPT ![tasks[t].op].result = tasks[t].code]

Finish(t) ==
  /\ At(t, "finishing")
  /\ Complete(t) \/ UNCHANGED journal  \* the store may fail, applied or not
  /\ End(t)
  /\ UNCHANGED <<upstream, late, called>>

-----------------------------------------------------------------------------

\* What a process that ends in the middle leaves behind.
Interrupted(t) ==
  \/ At(t, "journaling") /\ Insert(t) /\ UNCHANGED <<upstream, late>>
  \/ At(t, "waiting") /\ Unanswered(t) /\ UNCHANGED journal
  \/ At(t, "finishing") /\ Complete(t) /\ UNCHANGED <<upstream, late>>

Restart ==
  /\ UNCHANGED <<journal, upstream, late>> \/ (\E t \in Task : Interrupted(t))
  /\ lock' = None
  /\ tasks' = [t \in Task |-> None]
  /\ UNCHANGED called

Init ==
  /\ journal = [op \in Operation |-> None]
  /\ left = Voucher
  /\ decided = [op \in Operation |-> None]
  /\ late = {}
  /\ called = {}
  /\ lock = None
  /\ tasks = [t \in Task |-> None]

TaskStep(t) ==
  \/ Ask(t) \/ Resume(t) \/ Enter(t) \/ List(t) \/ Journal(t) \/ JournalFails(t)
  \/ GiveUp(t) \/ Send(t) \/ Answer(t) \/ Unconfirmed(t) \/ Finish(t)

Next == (\E t \in Task : TaskStep(t)) \/ Late \/ Elsewhere \/ Restart

Spec == Init /\ [][Next]_vars

-----------------------------------------------------------------------------
(* Properties. *)

\* Whatever has been sent is in the journal with that voucher, so an operation is
\* never sent with two vouchers and none is spent that a restart forgets.
JournalCoversCalls ==
  \A call \in called : journal[call.op] # None /\ journal[call.op].credit = call.credit

\* Two operations are never unconfirmed at once: a new voucher is not risked while
\* the fate of the last one is unknown.
OneUnconfirmed ==
  \A first, second \in called :
    first.op # second.op => journal[first.op].result # None \/ journal[second.op].result # None

\* A recorded result is what the upstream decided, however many calls of the
\* operation were sent, given up, or arrive later.
RecordedOutcomeTrue ==
  \A op \in Operation : journal[op] # None /\ journal[op].result # None =>
    /\ decided[op] # None
    /\ decided[op] = "reset" <=> journal[op].result \in {"reset", "already_redeemed"}

\* An operation whose result is recorded is never sent again, not even by a task
\* that asked for it before the result was known.
ConfirmedNotRepeated ==
  [][\A t \in Task :
       At(t, "sending") /\ At(t, "waiting")' => journal[tasks[t].op].result = None]_vars

=============================================================================
