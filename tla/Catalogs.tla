------------------------------- MODULE Catalogs -------------------------------
(***************************************************************************)
(* The catalogs of models that accounts are found to have: sync_models of  *)
(* application/catalog.rs, the job over all accounts of http/catalog.rs,   *)
(* the table model_catalog, and update_account of http/admin.rs, which     *)
(* writes the whole record in memory back, catalog included.  A write is   *)
(* decided when its handler leaves it.  What an account's update, deletion *)
(* and switch are good for is the subject of AccountControl.               *)
(***************************************************************************)
EXTENDS Integers, Sequences

CONSTANTS
  Account,
  Handler,     \* administrators' requests
  Lists,       \* the upstream's catalogs, in the order of their publication
  Aliases,     \* rows <<id, upstream model>> that administrators may save
  MaxVersion,  \* bound on the version of an account
  None

Model == UNION {Lists[e] : e \in DOMAIN Lists}

VARIABLES
  edition,  \* of the upstream's catalog
  models,   \* the table model_catalog: rows <<id, upstream model>>
  rows,     \* account -> its row, or None
  known,    \* account -> the scheduler's record, or None
  syncing,  \* model_sync_locks
  lock,     \* holder of "mutations"
  work,     \* handlers and the workers of the job
  job,      \* AppState.model_sync
  unheard   \* accounts with a write that was applied and not answered

vars == <<edition, models, rows, known, syncing, lock, work, job, unheard>>

Worker(a) == <<"worker", a>>
Workers == {Worker(a) : a \in Account}
Process == Handler \cup Workers

\* A catalog is its edition, 0 before the first.
Record == [version : Nat, edition : 0..Len(Lists)]
Stage == {"idle", "waiting", "fetching", "settling", "adding", "updating", "reporting"}
Work == [at : Stage, account : Account \cup {None}, fetched : 0..Len(Lists)]
Progress == [running : BOOLEAN, total : SUBSET Account, completed : SUBSET Account]

CatalogAssumption ==
  /\ Lists \in Seq(SUBSET Model) /\ Lists # <<>> /\ MaxVersion \in Nat
  /\ Handler \cap Workers = {}
  /\ None \notin Account /\ None \notin Process /\ None \notin Record

TypeOK ==
  /\ edition \in DOMAIN Lists
  /\ models \subseteq Aliases \cup {<<m, m>> : m \in Model}
  /\ rows \in [Account -> Record \cup {None}] /\ known \in [Account -> Record \cup {None}]
  /\ syncing \in [Account -> Process \cup {None}] /\ lock \in Process \cup {None}
  /\ work \in [Process -> Work]
  /\ job \in Progress /\ job.completed \subseteq job.total
  /\ unheard \subseteq Account

-----------------------------------------------------------------------------
(* The store. *)

Configured(m) == \E row \in models : m \in {row[1], row[2]}

\* put_model: a new row, or another upstream for one that is there.
Put(row) == models' = {other \in models : other[1] # row[1]} \cup {row}

\* save_model_catalog changes nothing else in the row.
SaveCatalog(a, e) ==
  rows[a] # None /\ rows' = [rows EXCEPT ![a].edition = e]

\* put_account with the record in memory and the version it has there.
PutAccount(a) ==
  /\ rows[a] # None /\ rows[a].version = known[a].version
  /\ rows' = [rows EXCEPT ![a] = [version |-> @.version + 1, edition |-> known[a].edition]]

-----------------------------------------------------------------------------
(* sync_models. *)

At(p, stage) == work[p].at = stage
Move(p, stage) == work' = [work EXCEPT ![p].at = stage]

Idle == [at |-> "idle", account |-> None, fetched |-> 0]

\* MUTANT: synchronizations of an account do not wait for each other.
AnyTime(a) == TRUE

Alone(a) == syncing[a] = None

\* sync_account
Ask(h, a) ==
  /\ At(h, "idle")
  /\ work' = [work EXCEPT ![h] = [at |-> "waiting", account |-> a, fetched |-> 0]]
  /\ UNCHANGED <<edition, models, rows, known, syncing, lock, job, unheard>>

Begin(p) ==
  /\ At(p, "waiting") /\ Alone(work[p].account)
  /\ syncing' = [syncing EXCEPT ![work[p].account] = p]
  /\ Move(p, "fetching")
  /\ UNCHANGED <<edition, models, rows, known, lock, job, unheard>>

\* The upstream answers with its catalog of this moment, or no catalog is to be had.
Fetch(p) ==
  /\ At(p, "fetching")
  /\ \E e \in {0} \cup (IF known[work[p].account] # None THEN {edition} ELSE {}) :
       work' = [work EXCEPT ![p].at = "settling", ![p].fetched = e]
  /\ UNCHANGED <<edition, models, rows, known, syncing, lock, job, unheard>>

\* Guards are dropped; a worker has yet to report.
Leave(p) ==
  /\ work' = [work EXCEPT ![p] = IF p \in Handler THEN Idle ELSE [@ EXCEPT !.at = "reporting"]]
  /\ syncing' = [a \in Account |-> IF syncing[a] = p THEN None ELSE syncing[a]]
  /\ lock' = IF lock = p THEN None ELSE lock

Settle(p) ==
  /\ At(p, "settling") /\ lock = None
  /\ IF known[work[p].account] = None THEN Leave(p)
     ELSE lock' = p /\ Move(p, "adding") /\ UNCHANGED syncing
  /\ UNCHANGED <<edition, models, rows, known, job, unheard>>

\* Models of the answer that no row names.
Missing(p) ==
  IF work[p].fetched = 0 THEN {} ELSE {m \in Lists[work[p].fetched] : ~Configured(m)}

Add(p) ==
  /\ At(p, "adding")
  /\ \E m \in Missing(p) : Put(<<m, m>>)
  /\ UNCHANGED <<edition, rows, known, syncing, lock, work, job, unheard>>

\* Without an answer of the upstream the catalog in memory stays, with the error.
Found(p) == IF work[p].fetched = 0 THEN known[work[p].account].edition ELSE work[p].fetched

Save(p) ==
  LET a == work[p].account IN
  /\ At(p, "adding") /\ Missing(p) = {}
  /\ SaveCatalog(a, Found(p))
  /\ known' = [known EXCEPT ![a] = rows'[a]]
  /\ unheard' = unheard \ {a}
  /\ Leave(p)
  /\ UNCHANGED <<edition, models, job>>

\* A write under way has been applied, without an answer.
Unanswered(p) ==
  LET a == work[p].account IN
  \/ /\ At(p, "adding")
     /\ \E m \in Missing(p) : Put(<<m, m>>)
     /\ UNCHANGED <<rows, unheard>>
  \/ /\ At(p, "adding") /\ Missing(p) = {} /\ SaveCatalog(a, Found(p))
     /\ unheard' = unheard \cup {a} /\ UNCHANGED models
  \/ /\ At(p, "updating") /\ PutAccount(a)
     /\ unheard' = unheard \cup {a} /\ UNCHANGED models

\* A read or a write fails, the write perhaps after it was applied.
SyncFails(p) ==
  /\ At(p, "adding")
  /\ Unanswered(p) \/ UNCHANGED <<models, rows, unheard>>
  /\ Leave(p)
  /\ UNCHANGED <<edition, known, job>>

\* The administrator's connection closes while the handler awaits.
Depart(h) ==
  /\ ~At(h, "idle")
  /\ Unanswered(h) \/ UNCHANGED <<models, rows, unheard>>
  /\ Leave(h)
  /\ UNCHANGED <<edition, known, job>>

-----------------------------------------------------------------------------
(* The job. *)

NoJob == [running |-> FALSE, total |-> {}, completed |-> {}]

\* sync_all: one worker for each account, four at a time in the code.
StartJob ==
  /\ ~job.running
  /\ LET accounts == {a \in Account : known[a] # None} IN
     /\ job' = [running |-> TRUE, total |-> accounts, completed |-> {}]
     /\ work' = [p \in Process |->
                   IF \E a \in accounts : p = Worker(a)
                   THEN [at |-> "waiting", account |-> p[2], fetched |-> 0] ELSE work[p]]
  /\ UNCHANGED <<edition, models, rows, known, syncing, lock, unheard>>

Report(a) ==
  /\ At(Worker(a), "reporting")
  /\ work' = [work EXCEPT ![Worker(a)] = Idle]
  /\ job' = [job EXCEPT !.completed = @ \cup {a}]
  /\ UNCHANGED <<edition, models, rows, known, syncing, lock, unheard>>

FinishJob ==
  /\ job.running /\ \A a \in Account : At(Worker(a), "idle")
  /\ job' = [job EXCEPT !.running = FALSE]
  /\ UNCHANGED <<edition, models, rows, known, syncing, lock, work, unheard>>

-----------------------------------------------------------------------------
(* The other operations of administrators. *)

\* update_account, with the version in memory; any other is refused at once.
Update(h, a) ==
  /\ At(h, "idle") /\ lock = None /\ known[a] # None
  /\ known[a].version < MaxVersion
  /\ lock' = h
  /\ work' = [work EXCEPT ![h] = [at |-> "updating", account |-> a, fetched |-> 0]]
  /\ UNCHANGED <<edition, models, rows, known, syncing, job, unheard>>

Updated(h) ==
  /\ At(h, "updating")
  /\ PutAccount(work[h].account)
  /\ known' = [known EXCEPT ![work[h].account] = rows'[work[h].account]]
  /\ unheard' = unheard \ {work[h].account}
  /\ Leave(h)
  /\ UNCHANGED <<edition, models, job>>

\* All accounts are read again after an error, unless the store fails then too.
UpdateFails(h) ==
  /\ At(h, "updating")
  /\ \/ Unanswered(h) /\ UNCHANGED known
     \/ UNCHANGED <<models, rows, known, unheard>>
     \/ /\ PutAccount(work[h].account) \/ UNCHANGED rows
        /\ known' = [a \in Account |-> IF rows'[a] # None THEN rows'[a] ELSE known[a]]
        /\ unheard' = {} /\ UNCHANGED models
  /\ Leave(h)
  /\ UNCHANGED <<edition, job>>

\* save_model, whether it is answered or not.
SaveModel ==
  /\ lock = None
  /\ \E row \in Aliases : Put(row)
  /\ UNCHANGED <<edition, rows, known, syncing, lock, work, job, unheard>>

DeleteAccount(a) ==
  /\ lock = None /\ known[a] # None
  /\ rows' = [rows EXCEPT ![a] = None] /\ known' = [known EXCEPT ![a] = None]
  /\ UNCHANGED <<edition, models, syncing, lock, work, job, unheard>>

-----------------------------------------------------------------------------
(* The rest of the world. *)

Publish ==
  /\ edition < Len(Lists)
  /\ edition' = edition + 1
  /\ UNCHANGED <<models, rows, known, syncing, lock, work, job, unheard>>

Restart ==
  /\ \/ UNCHANGED <<models, rows>>
     \/ \E p \in Process : Unanswered(p)
  /\ known' = rows' /\ unheard' = {}
  /\ syncing' = [a \in Account |-> None] /\ lock' = None
  /\ work' = [p \in Process |-> Idle] /\ job' = NoJob
  /\ UNCHANGED edition

Init ==
  /\ edition = 1
  /\ models \in SUBSET Aliases /\ \A r, q \in models : r[1] = q[1] => r = q
  /\ rows = [a \in Account |-> [version |-> 1, edition |-> 0]]
  /\ known = rows
  /\ syncing = [a \in Account |-> None] /\ lock = None
  /\ work = [p \in Process |-> Idle] /\ job = NoJob
  /\ unheard = {}

SyncStep(p) == Begin(p) \/ Fetch(p) \/ Settle(p) \/ Add(p) \/ Save(p) \/ SyncFails(p)

Next ==
  \/ \E p \in Process : SyncStep(p)
  \/ \E h \in Handler :
       \/ Updated(h) \/ UpdateFails(h) \/ Depart(h)
       \/ \E a \in Account : Ask(h, a) \/ Update(h, a)
  \/ \E a \in Account : Report(a)
  \/ \E a \in Account : DeleteAccount(a)
  \/ StartJob \/ FinishJob \/ SaveModel \/ Publish \/ Restart

Spec == Init /\ [][Next]_vars

-----------------------------------------------------------------------------
(* Properties. *)

\* A property of every step.  However the job, the handlers of single accounts and
\* updates overlap, a stored catalog is never replaced by one that the upstream had
\* published earlier, unless a write of the account was applied without an answer; and
\* memory is on the row of the store, with the same exception.
NeverOlder ==
  \A a \in Account :
    /\ rows[a] # None /\ rows'[a] # None /\ rows'[a].edition < rows[a].edition => a \in unheard
    /\ rows[a] # None /\ known[a] # rows[a] => a \in unheard

\* A property of every step.  When a newer catalog is stored, each of its models has a
\* row already, by its name or as the upstream of an alias, whatever failed before.
StoredIsConfigured ==
  \A a \in Account :
    rows[a] # None /\ rows'[a] # None /\ rows'[a].edition > rows[a].edition =>
      \A m \in Lists[rows'[a].edition] : Configured(m)

\* The page of the job: while it runs each account has been reported or is worked on,
\* afterwards all have been, and no worker is left.
JobTruthful ==
  /\ \A a \in Account : ~At(Worker(a), "idle") <=> a \in job.total \ job.completed
  /\ ~job.running => job.completed = job.total

=============================================================================
