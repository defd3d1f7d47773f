------------------------------ MODULE QuotaCycles ------------------------------
(***************************************************************************)
(* reports.rs, quota_cycle: the part of the history of a quota window that *)
(* belongs to the upstream's current cycle, over which account_reports.rs  *)
(* adds up costs and extrapolates them.  Observations are stored in any    *)
(* order.                                                                  *)
(***************************************************************************)
EXTENDS Integers, Sequences, SequencesExt

CONSTANTS
  Length,  \* of the window
  Used,    \* percentages
  Reset,   \* times of a reset
  MaxTime, MaxPoints,
  None

CyclesAssumption ==
  /\ Used \subseteq Nat /\ Reset \subseteq Nat
  /\ Length \in Nat /\ MaxTime \in Nat /\ MaxPoints \in Nat

VARIABLES
  snapshots,  \* quota_snapshots of the window, in the order of their ids
  now

vars == <<snapshots, now>>

Time == 0..MaxTime

\* An upstream tells when the window resets, or it does not.
Point == [at : Time, used : Used, resets : Reset \cup {None}]

Store ==
  /\ Len(snapshots) < MaxPoints
  /\ \E point \in Point : point.at <= now /\ snapshots' = Append(snapshots, point)
  /\ UNCHANGED now

Tick == now < MaxTime /\ now' = now + 1 /\ UNCHANGED snapshots

Init == snapshots = <<>> /\ now = 0

Next == Store \/ Tick

Spec == Init /\ [][Next]_vars

Before(i, j) ==
  snapshots[i].at < snapshots[j].at \/ (snapshots[i].at = snapshots[j].at /\ i < j)

\* The observations of the window, by time and id.
Points ==
  LET order == SetToSortSeq(DOMAIN snapshots, Before)
  IN [i \in DOMAIN order |-> snapshots[order[i]]]

\* Another cycle: the reset has moved, or less is used than before.
Differs(point, next, reset) == point.resets # reset \/ point.used > next.used

\* After a reset the period begins with what was observed next.
Restarted(start, first) == IF first.at > start THEN first.at ELSE start

\* The latest observation tells of a cycle that is under way.
InCycle(last) == last.resets # None /\ last.resets > now /\ last.resets - Length <= last.at

\* Backwards from the latest observation to the first of its segment.
CurrentCycle ==
  LET points == Points
      n == Len(points)
      last == points[n]
      start == last.resets - Length
      early(k) == points[k].at < start
      ends == {i \in 1..(n - 1) : early(i) \/ Differs(points[i], points[i + 1], last.resets)}
      k == CHOOSE i \in ends : \A j \in ends : j <= i
      first == IF ends = {} THEN points[1] ELSE points[k + 1]
  IN IF n = 0 THEN None
     ELSE IF ~InCycle(last) THEN None
     ELSE [starts |-> IF ends = {} \/ early(k) THEN start ELSE Restarted(start, first),
           first |-> first, last |-> last]

-----------------------------------------------------------------------------
(* Properties. *)

TypeOK == snapshots \in Seq(Point) /\ Len(snapshots) <= MaxPoints /\ now \in Time

\* reports.rs: the period of a report lies within one cycle of the upstream: what
\* was observed after its start has the same reset and never less usage than
\* before.
PeriodWithinCycle ==
  LET cycle == CurrentCycle
      inside == SelectSeq(Points, LAMBDA p : p.at > cycle.starts)
  IN cycle # None =>
       /\ cycle.starts <= cycle.first.at
       /\ \A i \in DOMAIN inside :
            /\ inside[i].resets = cycle.last.resets
            /\ i > 1 => inside[i - 1].used <= inside[i].used
=============================================================================
