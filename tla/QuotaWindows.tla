----------------------------- MODULE QuotaWindows -----------------------------
(***************************************************************************)
(* What is known of a quota window of one account: the credits of quota.rs,*)
(* and the tables quota_snapshots, account_current_quotas and              *)
(* account_extra_credits.  Requests and polls read quotas from headers,    *)
(* events and answers of the upstream and store them some time later, in   *)
(* any order; whatever was observed last must win.  When an account is     *)
(* switched on or off for its quota is in AccountControl.                  *)
(***************************************************************************)
EXTENDS Integers, Sequences

CONSTANTS
  Task,
  Fresh,    \* quota_stale_after_secs
  MaxTime, MaxSnapshots,
  None

VARIABLES
  now,
  snapshots,  \* quota_snapshots of one window, in the order of their ids
  current,    \* account_current_quotas: the id of a snapshot, or None
  credits,    \* account_extra_credits: one row, or None
  tasks,      \* task -> the observation it has yet to store, or None
  rejected    \* when the upstream last rejected a request for its quota, or None

vars == <<now, snapshots, current, credits, tasks, rejected>>

Time == 0..MaxTime

Credits == [at : Time, plenty : BOOLEAN, blocked : BOOLEAN]
Snapshot == [at : Time]

QuotaAssumption ==
  /\ Fresh \in Nat /\ MaxTime \in Nat /\ MaxSnapshots \in Nat
  /\ None \notin Time /\ None \notin 1..MaxSnapshots /\ None \notin Credits

\* ExtraCredits::available
Available ==
  /\ credits # None
  /\ ~credits.blocked
  /\ credits.at <= now /\ now - credits.at <= Fresh
  /\ credits.plenty

-----------------------------------------------------------------------------
(* The store. *)

\* MUTANT: what is stored last wins.
Latest(id, snapshot) == TRUE

\* The trigger of migration 0018; the new row has the larger id.
Newer(id, snapshot) == snapshots[id].at <= snapshot.at

\* save_quotas
SaveQuota(snapshot) ==
  /\ Len(snapshots) < MaxSnapshots
  /\ snapshots' = Append(snapshots, snapshot)
  /\ current' = IF current = None \/ Newer(current, snapshot) THEN Len(snapshots) + 1 ELSE current

\* save_extra_credits
SaveCredits(row) == IF credits = None \/ credits.at <= row.at THEN row ELSE credits

-----------------------------------------------------------------------------
(* Steps. *)

\* An answer is read, and will be stored at some later time.  What it says of the
\* quota itself does not matter here; its credits may be out of use.
Observe(t) ==
  /\ tasks[t] = None
  /\ Len(snapshots) < MaxSnapshots
  /\ \E plenty, blocked \in BOOLEAN :
       tasks' = [tasks EXCEPT ![t] = [at |-> now, plenty |-> plenty, blocked |-> blocked]]
  /\ UNCHANGED <<now, snapshots, current, credits, rejected>>

\* apply_quota_observation: the quotas, and then the credits when the answer had
\* any and the store did not fail before.
Store(t) ==
  /\ tasks[t] # None
  /\ SaveQuota([at |-> tasks[t].at])
  /\ credits' \in {credits, SaveCredits(tasks[t])}
  /\ tasks' = [tasks EXCEPT ![t] = None]
  /\ UNCHANGED <<now, rejected>>

\* The account was changed meanwhile, or the store failed.
Drop(t) ==
  /\ tasks[t] # None
  /\ tasks' = [tasks EXCEPT ![t] = None]
  /\ UNCHANGED <<now, snapshots, current, credits, rejected>>

\* disable_observed with a quota reason: credits that are known did not help.
Reject ==
  /\ credits # None
  /\ credits' = SaveCredits([credits EXCEPT !.blocked = TRUE, !.at = now])
  /\ rejected' = now
  /\ UNCHANGED <<now, snapshots, current, tasks>>

Tick ==
  /\ now < MaxTime
  /\ now' = now + 1
  /\ UNCHANGED <<snapshots, current, credits, tasks, rejected>>

Init ==
  /\ now = 0
  /\ snapshots = <<>>
  /\ current = None
  /\ credits = None
  /\ tasks = [t \in Task |-> None]
  /\ rejected = None

Next == (\E t \in Task : Observe(t) \/ Store(t) \/ Drop(t)) \/ Reject \/ Tick

Spec == Init /\ [][Next]_vars

-----------------------------------------------------------------------------
(* Properties. *)

TypeOK ==
  /\ now \in Time
  /\ \A i \in DOMAIN snapshots : snapshots[i] \in Snapshot
  /\ current \in DOMAIN snapshots \cup {None}
  /\ credits \in Credits \cup {None}
  /\ tasks \in [Task -> Credits \cup {None}]
  /\ rejected \in Time \cup {None}

\* By the time of observation, and the ids where that is equal.
Before(i, j) ==
  snapshots[i].at < snapshots[j].at \/ (snapshots[i].at = snapshots[j].at /\ i < j)

\* Migration 0018: the current quota is the one that was observed last, in
\* whatever order the observations were stored.
NewestQuotaWins ==
  IF snapshots = <<>> THEN current = None
  ELSE \A i \in DOMAIN snapshots : i = current \/ Before(i, current)

\* disable_observed: once the upstream has rejected a request for its quota, the
\* account goes on with extra credits only when they were seen after that.
RejectionOutlivesCredits == rejected # None /\ Available => rejected <= credits.at
=============================================================================
