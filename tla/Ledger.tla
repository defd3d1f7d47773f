-------------------------------- MODULE Ledger --------------------------------
(***************************************************************************)
(* What requests cost, added up: finish_request, reconcile_interrupted and *)
(* cleanup of postgres/requests.rs and the statements in                   *)
(* account_spending_increment.sql and account_spending.sql.  A request     *)
(* that ends writes its row, the totals of the hour in which it was        *)
(* created and, when it had an account, an entry and the totals of the     *)
(* hour in which it finished, all in one transaction.  Reports read whole  *)
(* hours from the totals and the rest of a period from the entries.        *)
(*                                                                         *)
(* Time is counted in ticks, HourLength of them in an hour.                *)
(***************************************************************************)
EXTENDS Pricing, FiniteSets

CONSTANTS
  Request,
  Bills,       \* what a request may turn out to have used and to cost
  HourLength,  \* ticks of an hour (integer)
  Kept,        \* hours that entries and totals are kept (31 days)
  Details,     \* ticks that the rows of finished requests are kept
  MaxTime      \* bound on the clock

LedgerAssumption ==
  /\ HourLength \in Nat \ {0}
  /\ Kept \in Nat
  /\ Details \in Nat
  /\ MaxTime \in Nat
  /\ \A bill \in Bills : bill.attempts = 0 \/ bill.account

VARIABLES
  now,
  up,        \* the process serves requests
  rows,      \* request -> its row, None before begin_request and after cleanup
  hourly,    \* hour -> requests counted in request_hourly, with their sums
  entries,   \* account_spending_entries: request -> entry, None without one
  spending,  \* account_spending_hourly: hour -> totals, None without a row
  tasks,     \* request -> where its task is, None without one
  outcomes   \* request -> what it wrote when it finished, never forgotten

stored == <<rows, hourly, entries, spending>>
vars == <<now, up, stored, tasks, outcomes>>

Time == 0..MaxTime
Hour(time) == time \div HourLength
Hours == 0..Hour(MaxTime)

Open(r) == rows[r] # None /\ rows[r].finished = None

\* failed: finish_request failed once, the task tries again with the error.
Phase == {"running", "failed"}

-----------------------------------------------------------------------------
(* The bill of a request when it ends. *)

\* Charged to the main quota of its account: not the model with its own pool.
Main(bill) == bill.attempts > 0 /\ ~bill.spark

Valuation(bill) ==
  IF bill.attempts = 0 THEN NotExecuted
  ELSE IF bill.kind = "search" THEN SearchValue(bill.calls, bill.rate)
  ELSE Value(bill.answer, bill.requested, bill.price)

Tokens(bill, side) ==
  IF bill.attempts = 0 \/ bill.kind = "search" THEN None ELSE bill.answer[side]

\* A request that the process left behind: the row has neither usage nor price.
LeftBehind(bill) == IF bill.kind = "search" THEN SearchValue(0, bill.rate).cny ELSE None

Outcome(r, state, bill, cny, tokens) ==
  [created |-> rows[r].created, finished |-> now, state |-> state,
   account |-> bill.account, cny |-> cny, main |-> Main(bill), tokens |-> tokens]

\* finalize
Ended(r, state, bill) ==
  Outcome(r, state, bill, Valuation(bill).cny, [s \in Sides |-> Tokens(bill, s)])

\* reconcile_interrupted
Interrupted(r, bill) ==
  Outcome(r, "interrupted", bill, LeftBehind(bill), [s \in Sides |-> None])

-----------------------------------------------------------------------------
(* The transaction of finish_request. *)

Cny(e) == IF e.cny = None THEN 0 ELSE e.cny
One(condition) == IF condition THEN 1 ELSE 0
Missing(e) == \E s \in Sides : e.tokens[s] = None

\* A row of request_hourly.
Unused == [requests |-> 0, completed |-> 0, cny |-> 0, unpriced |-> 0]

AddRequest(total, e) ==
  [requests |-> total.requests + 1,
   completed |-> total.completed + One(e.state = "completed"),
   cny |-> total.cny + Cny(e),
   unpriced |-> total.unpriced + One(e.cny = None)]

\* NULL only as long as nothing is known.
AddKnown(x, y) == IF x = None THEN y ELSE IF y = None THEN x ELSE x + y

\* A row of account_spending_hourly.
Nothing == [cny |-> 0, requests |-> 0, unpriced |-> 0,
            codex_cny |-> 0, codex_requests |-> 0, codex_unpriced |-> 0,
            tokens |-> [s \in Sides |-> None], missing |-> 0]

Spent(total, e) ==
  [cny |-> total.cny + Cny(e),
   requests |-> total.requests + 1,
   unpriced |-> total.unpriced + One(e.cny = None),
   codex_cny |-> total.codex_cny + (IF e.main THEN Cny(e) ELSE 0),
   codex_requests |-> total.codex_requests + One(e.main),
   codex_unpriced |-> total.codex_unpriced + One(e.main /\ e.cny = None),
   tokens |-> [s \in Sides |-> AddKnown(total.tokens[s], e.tokens[s])],
   missing |-> total.missing + One(Missing(e))]

\* WHERE id = $1 AND finished_at IS NULL
Unfinished(r) == Open(r)

\* All of it, or nothing when the row is finished already.
Write(r, e) ==
  IF ~Unfinished(r) THEN UNCHANGED <<stored, outcomes>>
  ELSE
  /\ rows' = [rows EXCEPT ![r].finished = now, ![r].state = e.state]
  /\ hourly' = [hourly EXCEPT ![Hour(e.created)] = AddRequest(@, e)]
  /\ entries' = IF e.account THEN [entries EXCEPT ![r] = e] ELSE entries
  /\ spending' = IF e.account
                 THEN [spending EXCEPT ![Hour(now)] =
                         Spent(IF @ = None THEN Nothing ELSE @, e)]
                 ELSE spending
  /\ outcomes' = [outcomes EXCEPT ![r] = e]

NotWritten == UNCHANGED <<stored, outcomes>>

-----------------------------------------------------------------------------
(* Steps. *)

Begin(r) ==
  /\ up
  /\ rows[r] = None /\ outcomes[r] = None
  /\ rows' = [rows EXCEPT ![r] = [created |-> now, finished |-> None, state |-> "running"]]
  /\ tasks' = [tasks EXCEPT ![r] = "running"]
  /\ UNCHANGED <<now, up, hourly, entries, spending, outcomes>>

TaskAt(r, phase) == tasks' = [tasks EXCEPT ![r] = phase]

\* The upstream's work is stored as completed while the task still runs; an
\* error of the store, with the transaction applied or not, becomes the error of
\* the request.
Complete(r) ==
  /\ tasks[r] = "running"
  /\ \/ /\ \E bill \in Bills : bill.attempts > 0 /\ Write(r, Ended(r, "completed", bill))
        /\ TaskAt(r, None) \/ TaskAt(r, "failed")
     \/ NotWritten /\ TaskAt(r, "failed")
  /\ UNCHANGED <<now, up>>

\* The end of a task with an error.  When this cannot be stored either, the row
\* is left as it is.  "failed" stands for cancelled and rejected as well.
Fail(r) ==
  /\ tasks[r] # None
  /\ IF rows[r] = None THEN NotWritten
     ELSE (\E bill \in Bills : Write(r, Ended(r, "failed", bill))) \/ NotWritten
  /\ TaskAt(r, None)
  /\ UNCHANGED <<now, up>>

\* With no open row the end of the process changes nothing.
Crash ==
  /\ up
  /\ \E r \in Request : Open(r)
  /\ up' = FALSE
  /\ tasks' = [r \in Request |-> None]
  /\ UNCHANGED <<now, stored, outcomes>>

\* One row of reconcile_interrupted; an error ends the start of the process, and
\* the next start goes on with the rows that are left.
Reconcile(r) ==
  /\ ~up /\ Open(r)
  /\ \E bill \in Bills : Write(r, Interrupted(r, bill))
  /\ UNCHANGED <<now, up, tasks>>

Serve ==
  /\ ~up
  /\ \A r \in Request : ~Open(r)
  /\ up' = TRUE
  /\ UNCHANGED <<now, stored, tasks, outcomes>>

\* The start of the oldest hour that is kept: whole hours only, from both tables.
Oldest == (Hour(now) - Kept) * HourLength

\* Details are kept for Details ticks after the creation of a request.
Cleanup ==
  /\ up
  /\ rows' = [r \in Request |->
       IF rows[r] # None /\ ~Open(r) /\ rows[r].created < now - Details THEN None ELSE rows[r]]
  /\ entries' = [r \in Request |->
       IF entries[r] # None /\ entries[r].finished < Oldest THEN None ELSE entries[r]]
  /\ spending' = [h \in Hours |-> IF h * HourLength < Oldest THEN None ELSE spending[h]]
  /\ UNCHANGED <<now, up, hourly, tasks, outcomes>>

Tick ==
  /\ now < MaxTime
  /\ now' = now + 1
  /\ UNCHANGED <<up, stored, tasks, outcomes>>

Init ==
  /\ now = 0
  /\ up = TRUE
  /\ rows = [r \in Request |-> None]
  /\ hourly = [h \in Hours |-> Unused]
  /\ entries = [r \in Request |-> None]
  /\ spending = [h \in Hours |-> None]
  /\ tasks = [r \in Request |-> None]
  /\ outcomes = [r \in Request |-> None]

Next ==
  \/ \E r \in Request : Begin(r) \/ Complete(r) \/ Fail(r) \/ Reconcile(r)
  \/ Crash \/ Serve \/ Cleanup \/ Tick

Spec == Init /\ [][Next]_vars

-----------------------------------------------------------------------------
(* The report of a period that starts after "from" and ends at "to". *)

Add(parts) ==
  LET sum(Field(_)) == MapThenSumSet(Field, parts)
      known(s) == {p \in parts : p.tokens[s] # None}
  IN
  [cny |-> sum(LAMBDA p : p.cny),
   requests |-> sum(LAMBDA p : p.requests),
   unpriced |-> sum(LAMBDA p : p.unpriced),
   tokens |-> [s \in Sides |->
     IF parts = {} THEN 0
     ELSE IF known(s) = {} THEN None ELSE MapThenSumSet(LAMBDA p : p.tokens[s], known(s))],
   missing |-> sum(LAMBDA p : p.missing)]

\* A part of a report: a whole hour ("id" tells it from the others) or an entry.
OfHour(h, main) ==
  LET t == spending[h] IN
  [id |-> h, cny |-> IF main THEN t.codex_cny ELSE t.cny,
   requests |-> IF main THEN t.codex_requests ELSE t.requests,
   unpriced |-> IF main THEN t.codex_unpriced ELSE t.unpriced,
   tokens |-> t.tokens, missing |-> t.missing]

OfEntry(r, e) ==
  [id |-> r, cny |-> Cny(e), requests |-> 1, unpriced |-> One(e.cny = None),
   tokens |-> e.tokens, missing |-> One(Missing(e))]

\* MUTANT: the hour in which the period starts counts as a whole hour.
FromItsHour(from, to) == {h \in Hours : Hour(from) <= h /\ h < Hour(to)}

WholeHours(from, to) == {h \in Hours : Hour(from) < h /\ h < Hour(to)}

\* The rest of the first hour, and the last hour when it is another one.
AtTheEdges(e, from, to) ==
  \/ from < e.finished /\ e.finished < (Hour(from) + 1) * HourLength /\ e.finished <= to
  \/ Hour(from) < Hour(to) /\ Hour(to) * HourLength <= e.finished /\ e.finished <= to

Report(from, to, main) ==
  LET edge == {r \in Request : /\ entries[r] # None
                               /\ AtTheEdges(entries[r], from, to)
                               /\ main => entries[r].main}
  IN Add({OfHour(h, main) : h \in {i \in WholeHours(from, to) : spending[i] # None}}
         \cup {OfEntry(r, entries[r]) : r \in edge})

-----------------------------------------------------------------------------
(* Properties. *)

TypeOK ==
  /\ now \in Time
  /\ up \in BOOLEAN
  /\ \A r \in Request : rows[r] # None =>
       rows[r].created \in Time /\ rows[r].finished \in Time \cup {None}
  /\ DOMAIN hourly = Hours /\ DOMAIN spending = Hours
  /\ DOMAIN entries = Request /\ DOMAIN outcomes = Request
  /\ tasks \in [Request -> Phase \cup {None}]

\* finish_request: a request that ends is counted once, with the outcome that its
\* row keeps, although the store's answer may be lost, the task tries again and a
\* restart closes what is open.
CountedOnce ==
  /\ \A h \in Hours :
       LET ended == {r \in Request : outcomes[r] # None /\ Hour(outcomes[r].created) = h}
           of(state) == {r \in ended : outcomes[r].state \in state}
       IN /\ hourly[h].requests = Cardinality(ended)
          /\ hourly[h].completed = Cardinality(of({"completed"}))
          /\ hourly[h].cny = MapThenSumSet(LAMBDA r : Cny(outcomes[r]), ended)
          /\ hourly[h].unpriced = Cardinality({r \in ended : outcomes[r].cny = None})
  /\ \A r \in Request : rows[r] # None /\ ~Open(r) =>
       outcomes[r] # None /\ outcomes[r].state = rows[r].state

\* account_spending.sql: the report of any period within the kept hours is the sum
\* over exactly the requests of the account that finished in it, whether they are
\* read from entries or totals.  (The report of the main quota does not show
\* tokens.)
ReportIsExact ==
  \A from \in Time, to \in 0..now, main \in BOOLEAN :
    from < to /\ Oldest <= from =>
      LET inside == {r \in Request : /\ outcomes[r] # None /\ outcomes[r].account
                                     /\ from < outcomes[r].finished /\ outcomes[r].finished <= to
                                     /\ main => outcomes[r].main}
          due == Add({OfEntry(r, outcomes[r]) : r \in inside})
          report == Report(from, to, main)
      IN IF main
         THEN /\ report.cny = due.cny /\ report.requests = due.requests
              /\ report.unpriced = due.unpriced
         ELSE report = due
=============================================================================
