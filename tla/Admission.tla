------------------------------- MODULE Admission -------------------------------
(***************************************************************************)
(* The way of a request into the gateway: the memory gate of               *)
(* core/memory.rs, the reading and parsing of bodies in http/public.rs and *)
(* core/memory_json.rs, and the record that a refused request leaves in    *)
(* the store.  What runs after start() is the subject of Gateway.          *)
(***************************************************************************)
EXTENDS Integers, FiniteSets, FiniteSetsExt

CONSTANTS
  Task,      \* requests
  Usage,     \* measurements, functions from memory domains to percents
  Settings,  \* records of reject, resume (percents) and readers (a limit)
  MaxBytes,  \* length of the longest body, in frames
  None

VARIABLES
  usage,     \* what the probe would measure now
  cfg,       \* the published settings
  gate,      \* sample, failed, recent, blocked of memory::State
  readers,   \* memory::State.readers
  buffered,  \* MemoryBudget.used
  parser,    \* holder of the parser mutex
  rows,      \* request -> its row in the table requests
  tasks

vars == <<usage, cfg, gate, readers, buffered, parser, rows, tasks>>

\* "running" has left the handler for its own task; "begin" and "finish" are the
\* transactions that record a refusal.
Stage == {"new", "reading", "locking", "parsing", "starting", "inserting",
          "running", "begin", "finish", "refused", "answered", "gone"}
Row == [state : {"queued", "rejected", "completed", "interrupted"}, open : BOOLEAN]
Gate == [sample : Usage \cup {None}, recent : BOOLEAN, blocked : BOOLEAN]

AdmissionAssumption ==
  IsFiniteSet(Task) /\ MaxBytes \in Nat /\ None \notin Task /\ None \notin Row

TypeOK ==
  /\ usage \in Usage /\ cfg \in Settings
  /\ gate \in Gate
  /\ readers \in 0..Cardinality(Task)
  /\ buffered \in Nat
  /\ parser \in Task \cup {None}
  /\ rows \in [Task -> Row \cup {None}]
  /\ tasks \in [Task -> [at : Stage, bytes : 0..MaxBytes]]

-----------------------------------------------------------------------------
(* The memory gate. *)

Domains(sample) == DOMAIN sample
High(sample) == \E d \in Domains(sample) : sample[d] >= cfg.reject
Low(sample) == \A d \in Domains(sample) : sample[d] <= cfg.resume

\* MUTANT: a sample of the last milliseconds is good enough for anybody.
Reused(fresh) == gate.recent

\* Somebody else's sample is at most twenty milliseconds old.
MayReuse(fresh) == ~fresh /\ gate.recent

\* status_locked: a sample that fails is no sample, and keeps the flag as it is.
Measured(fresh, works) ==
  LET sample == IF MayReuse(fresh) THEN gate.sample ELSE IF works THEN usage ELSE None IN
  [sample |-> sample, recent |-> TRUE,
   blocked |-> IF sample = None THEN gate.blocked
               ELSE High(sample) \/ (gate.blocked /\ ~Low(sample))]

Refuses(g) == g.blocked \/ g.sample = None

-----------------------------------------------------------------------------
(* The handler. *)

At(t, stage) == tasks[t].at = stage
Move(t, stage) == tasks' = [tasks EXCEPT ![t].at = stage]

Holds(t) == tasks[t].at \in {"reading", "locking", "parsing", "starting", "inserting"}
Buffers(t) == Holds(t) \/ At(t, "running")

\* MUTANT: a permit is given back by those who come to the end only.
Kept(t, g) == readers' = readers /\ gate' = g

\* ReadingPermit::drop makes the next sample a new one.
Release(t, g) ==
  IF Holds(t)
  THEN readers' = readers - 1 /\ gate' = [g EXCEPT !.recent = FALSE]
  ELSE readers' = readers /\ gate' = g

\* The handler returns or is dropped: so are permit, parser guard and buffer.
Leave(t, stage, g) ==
  /\ tasks' = [tasks EXCEPT ![t] = [at |-> stage, bytes |-> 0]]
  /\ Release(t, g)
  /\ buffered' = IF Buffers(t) THEN buffered - tasks[t].bytes ELSE buffered
  /\ parser' = IF parser = t THEN None ELSE parser

\* MemoryAdmission::check refuses the request, or lets it go on.
Fails(t, fresh) ==
  \E works \in BOOLEAN :
    LET g == Measured(fresh, works) IN Refuses(g) /\ Leave(t, "begin", g)

Passes(fresh) ==
  \E works \in BOOLEAN :
    LET g == Measured(fresh, works) IN ~Refuses(g) /\ gate' = g

\* The key is good, MemoryAdmission::enter samples anew.
Enter(t) ==
  /\ At(t, "new")
  /\ \E works \in BOOLEAN :
       LET g == Measured(TRUE, works) IN
       IF Refuses(g) \/ readers >= cfg.readers
       THEN Leave(t, "begin", g)
       ELSE /\ gate' = g
            /\ readers' = readers + 1
            /\ Move(t, "reading")
            /\ UNCHANGED <<buffered, parser>>
  /\ UNCHANGED <<usage, cfg, rows>>

Frame(t) ==
  /\ At(t, "reading") /\ tasks[t].bytes < MaxBytes
  /\ \/ Fails(t, FALSE)
     \/ /\ Passes(FALSE)
        /\ tasks' = [tasks EXCEPT ![t].bytes = @ + 1]
        /\ buffered' = buffered + 1
        /\ UNCHANGED <<readers, parser>>
  /\ UNCHANGED <<usage, cfg, rows>>

BodyEnd(t) ==
  /\ At(t, "reading")
  /\ \/ Fails(t, TRUE)
     \/ Passes(TRUE) /\ Move(t, "locking") /\ UNCHANGED <<readers, buffered, parser>>
  /\ UNCHANGED <<usage, cfg, rows>>

Lock(t) ==
  /\ At(t, "locking") /\ parser = None
  /\ parser' = t
  /\ Move(t, "parsing")
  /\ UNCHANGED <<usage, cfg, gate, readers, buffered, rows>>

\* Before the first node, after every 4096 and at long strings.
ParseCheck(t) ==
  /\ At(t, "parsing")
  /\ \/ Fails(t, TRUE)
     \/ Passes(TRUE) /\ UNCHANGED <<tasks, readers, buffered, parser>>
  /\ UNCHANGED <<usage, cfg, rows>>

\* The document is valid, the last check before start().
Parsed(t) ==
  /\ At(t, "parsing")
  /\ \/ Fails(t, TRUE)
     \/ Passes(TRUE) /\ Move(t, "starting") /\ parser' = None /\ UNCHANGED <<readers, buffered>>
  /\ UNCHANGED <<usage, cfg, rows>>

\* No key, a bad encoding, a slow, broken or long body, no JSON, an invalid request,
\* or start() fails before its first write.
Refuse(t) ==
  /\ \E stage \in {"new", "reading", "parsing", "starting"} : At(t, stage)
  /\ Leave(t, "begin", gate)
  /\ UNCHANGED <<usage, cfg, rows>>

-----------------------------------------------------------------------------
(* The record. *)

\* begin_request; a second row for the request violates the primary key.
Insert(t, state) ==
  /\ rows[t] = None
  /\ rows' = [rows EXCEPT ![t] = [state |-> state, open |-> TRUE]]

\* finish_request does nothing to a closed row.
Close(t, state) ==
  rows' = IF rows[t] # None /\ rows[t].open
          THEN [rows EXCEPT ![t] = [state |-> state, open |-> FALSE]]
          ELSE rows

StartsInsert(t) ==
  /\ At(t, "starting")
  /\ Move(t, "inserting")
  /\ UNCHANGED <<usage, cfg, gate, readers, buffered, parser, rows>>

\* The request has its own task, the permit ends and the buffer stays with the task.
Started(t) ==
  /\ At(t, "inserting")
  /\ Insert(t, "queued")
  /\ Move(t, "running")
  /\ Release(t, gate)
  /\ UNCHANGED <<usage, cfg, buffered, parser>>

OnInsertError(t) == Leave(t, "begin", gate)

\* begin_request answers with an error, applied or not.
StartFails(t) ==
  /\ At(t, "inserting")
  /\ Insert(t, "queued") \/ UNCHANGED rows
  /\ OnInsertError(t)
  /\ UNCHANGED <<usage, cfg>>

\* handle() records the refusal; an error is logged and the answer stays the same.
RecordRefusal(t) ==
  /\ At(t, "begin")
  /\ \/ Insert(t, "rejected") /\ Move(t, "finish")
     \/ (Insert(t, "rejected") \/ UNCHANGED rows) /\ Move(t, "refused")
  /\ UNCHANGED <<usage, cfg, gate, readers, buffered, parser>>

CloseRefusal(t) ==
  /\ At(t, "finish")
  /\ Close(t, "rejected") \/ UNCHANGED rows
  /\ Move(t, "refused")
  /\ UNCHANGED <<usage, cfg, gate, readers, buffered, parser>>

\* The task ends, see Gateway.
RunEnds(t) ==
  /\ At(t, "running")
  /\ Close(t, "completed")
  /\ Leave(t, "answered", gate)
  /\ UNCHANGED <<usage, cfg>>

\* The client leaves; a write under way is applied or not.
Disconnect(t) ==
  /\ Holds(t) \/ At(t, "begin") \/ At(t, "finish")
  /\ \/ UNCHANGED rows
     \/ At(t, "inserting") /\ Insert(t, "queued")
     \/ At(t, "begin") /\ Insert(t, "rejected")
     \/ At(t, "finish") /\ Close(t, "rejected")
  /\ Leave(t, "gone", gate)
  /\ UNCHANGED <<usage, cfg>>

-----------------------------------------------------------------------------

\* Memory is used and freed, twenty milliseconds pass, settings are published.
Environment ==
  /\ \/ usage' \in Usage /\ UNCHANGED <<cfg, gate>>
     \/ gate' = [gate EXCEPT !.recent = FALSE] /\ UNCHANGED <<usage, cfg>>
     \/ cfg' \in Settings /\ UNCHANGED <<usage, gate>>
  /\ UNCHANGED <<readers, buffered, parser, rows, tasks>>

\* MemoryAdmission::status, from the console.
Status ==
  /\ \E works \in BOOLEAN : gate' = Measured(FALSE, works)
  /\ UNCHANGED <<usage, cfg, readers, buffered, parser, rows, tasks>>

Fresh == [sample |-> None, recent |-> FALSE, blocked |-> FALSE]

\* reconcile_interrupted closes what the last process left open.
Restart ==
  /\ rows' = [t \in Task |-> IF rows[t] = None \/ ~rows[t].open THEN rows[t]
                             ELSE [state |-> "interrupted", open |-> FALSE]]
  /\ tasks' = [t \in Task |-> IF tasks[t].at \in {"refused", "answered", "new"} THEN tasks[t]
                              ELSE [at |-> "gone", bytes |-> 0]]
  /\ gate' = Fresh /\ readers' = 0 /\ buffered' = 0 /\ parser' = None
  /\ UNCHANGED <<usage, cfg>>

Init ==
  /\ usage \in Usage /\ cfg \in Settings
  /\ gate = Fresh
  /\ readers = 0 /\ buffered = 0 /\ parser = None
  /\ rows = [t \in Task |-> None]
  /\ tasks = [t \in Task |-> [at |-> "new", bytes |-> 0]]

TaskStep(t) ==
  \/ Enter(t) \/ Frame(t) \/ BodyEnd(t) \/ Lock(t) \/ ParseCheck(t) \/ Parsed(t) \/ Refuse(t)
  \/ StartsInsert(t) \/ Started(t) \/ StartFails(t) \/ RecordRefusal(t) \/ CloseRefusal(t)
  \/ RunEnds(t) \/ Disconnect(t)

Next == (\E t \in Task : TaskStep(t)) \/ Environment \/ Status \/ Restart

Spec == Init /\ [][Next]_vars

-----------------------------------------------------------------------------
(* Properties. *)

\* However requests are refused, dropped or handed over, each permit and each
\* buffered byte is given back once, and one body at most is being parsed.
AdmissionCounted ==
  /\ readers = Cardinality({t \in Task : Holds(t)})
  /\ buffered = MapThenSumSet(LAMBDA t : tasks[t].bytes, Task)
  /\ \A t \in Task : At(t, "parsing") <=> parser = t

\* A request that its client was told is refused is never run: its row, if any, is
\* not that of an execution, although the insertion may have answered with an error.
\* A request that was run has a row.
RefusedNeverRuns ==
  \A t \in Task :
    /\ tasks[t].at \in {"begin", "finish", "refused"} =>
         rows[t] = None \/ rows[t].state # "completed"
    /\ tasks[t].at \in {"running", "answered"} => rows[t] # None

\* A property of every step.  A body is read only if the memory in use at this
\* moment, not at the last sample, is below the threshold, and below the lower one
\* when the gate was closed.
EntersBelowThreshold ==
  \A t \in Task :
    At(t, "new") /\ At(t, "reading")' =>
      ~High(usage) /\ (gate.blocked => Low(usage))

=============================================================================
