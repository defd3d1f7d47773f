----------------------------- MODULE CatalogProofs -----------------------------
(***************************************************************************)
(* Proofs about Catalogs for any accounts, handlers, catalogs of the       *)
(* upstream and aliases.                                                   *)
(***************************************************************************)
EXTENDS Catalogs, TLAPS

\* A catalog in the store is one that was published, the one in memory is no newer,
\* and it differs only where an answer was lost.
Follows(a) ==
  /\ rows[a] = None <=> known[a] = None
  /\ rows[a] # None => known[a].edition <= rows[a].edition /\ rows[a].edition <= edition
  /\ rows[a] # None /\ known[a] # rows[a] => a \in unheard

\* A synchronization under way holds its account, and what it has fetched is no older
\* than what is stored.
Current(p) ==
  /\ work[p].at # "idle" => work[p].account \in Account
  /\ work[p].at \in {"fetching", "settling", "adding"} => syncing[work[p].account] = p
  /\ work[p].at \in {"settling", "adding"} /\ work[p].fetched # 0 =>
       /\ work[p].fetched <= edition
       /\ rows[work[p].account] # None => rows[work[p].account].edition <= work[p].fetched

MemoryFollows == \A a \in Account : Follows(a)
SyncsCurrent == \A p \in Process : Current(p)

CatalogInv == TypeOK /\ MemoryFollows /\ SyncsCurrent /\ JobTruthful

-----------------------------------------------------------------------------
(* What a step leaves alone. *)

LEMMA WorkersAreProcesses ==
  ASSUME CatalogAssumption
  PROVE  /\ \A a \in Account : Worker(a) \in Process /\ Worker(a) \notin Handler
         /\ \A a, b \in Account : Worker(a) = Worker(b) => a = b
         /\ \A p \in Process : p \notin Handler => \E a \in Account : p = Worker(a)
         /\ None \notin Process
BY DEF CatalogAssumption, Process, Workers, Worker

LEMMA EditionsAreNumbers ==
  ASSUME CatalogAssumption
  PROVE  Len(Lists) \in Nat /\ Len(Lists) > 0 /\ DOMAIN Lists = 1..Len(Lists)
BY DEF CatalogAssumption

\* The catalogs that others wrote are no newer, if any.
LEMMA OthersCurrent ==
  ASSUME CatalogAssumption, CatalogInv, TypeOK', edition' >= edition, NEW q \in Process, work'[q] = work[q],
         \A a \in Account : syncing[a] = q => syncing'[a] = q,
         \A a \in Account : syncing[a] = q /\ rows'[a] # None =>
           rows[a] # None /\ rows'[a].edition <= rows[a].edition
  PROVE  Current(q)'
<1>1. /\ edition \in Nat /\ edition' \in Nat /\ work[q].fetched \in Nat
      /\ \A a \in Account : /\ rows[a] # None => rows[a].edition \in Nat
                            /\ rows'[a] # None => rows'[a].edition \in Nat
  <2>1. edition \in Nat /\ edition' \in Nat
    BY EditionsAreNumbers DEF CatalogInv, TypeOK
  <2>2. work[q].fetched \in Nat
    BY EditionsAreNumbers DEF CatalogInv, TypeOK, Work
  <2>3. \A a \in Account : rows[a] # None => rows[a].edition \in Nat
    BY EditionsAreNumbers DEF CatalogInv, TypeOK, Record
  <2>4. \A a \in Account : rows'[a] # None => rows'[a].edition \in Nat
    BY EditionsAreNumbers DEF TypeOK, Record
  <2> QED
    BY <2>1, <2>2, <2>3, <2>4
<1>2. Current(q)
  BY DEF CatalogInv, SyncsCurrent
<1> QED
  BY <1>1, <1>2 DEF Current

\* The job sees only which workers are idle.
LEMMA JobKept ==
  ASSUME CatalogInv, job' = job,
         \A a \in Account : work'[Worker(a)].at = "idle" <=> work[Worker(a)].at = "idle"
  PROVE  JobTruthful'
BY DEF CatalogInv, JobTruthful, At

\* A process goes on without having written.
LEMMA GoesOn ==
  ASSUME CatalogAssumption, CatalogInv, NEW p \in Process, NEW w \in Work, work' = [work EXCEPT ![p] = w],
         UNCHANGED <<edition, models, rows, known, job, unheard>>,
         lock' \in Process \cup {None}, syncing' \in [Account -> Process \cup {None}],
         \A a \in Account : syncing[a] \in {None, p} \/ syncing'[a] = syncing[a],
         p \in Workers => w.at # "idle" /\ work[p].at # "idle",
         Current(p)'
  PROVE  CatalogInv'
<1>1. work' \in [Process -> Work] /\ work'[p] = w /\ \A q \in Process \ {p} : work'[q] = work[q]
  BY DEF CatalogInv, TypeOK
<1>2. TypeOK'
  BY <1>1 DEF CatalogInv, TypeOK
<1>3. MemoryFollows'
  BY DEF CatalogInv, MemoryFollows, Follows
<1>4. SyncsCurrent'
  <2>1. ASSUME NEW q \in Process \ {p}
        PROVE  Current(q)'
    <3>1. \A a \in Account : syncing[a] = q => syncing'[a] = q
      BY <2>1, WorkersAreProcesses
    <3>2. \A a \in Account : rows'[a] # None => rows[a] # None /\ rows'[a].edition <= rows[a].edition
      BY EditionsAreNumbers DEF CatalogInv, TypeOK, Record
    <3>3. edition' >= edition
      BY EditionsAreNumbers DEF CatalogInv, TypeOK
    <3> QED
      BY <1>1, <1>2, <3>1, <3>2, <3>3, OthersCurrent
  <2> QED
    BY <2>1 DEF SyncsCurrent
<1>5. JobTruthful'
  <2>1. ASSUME NEW a \in Account
        PROVE  work'[Worker(a)].at = "idle" <=> work[Worker(a)].at = "idle"
    BY <1>1, WorkersAreProcesses DEF Workers
  <2> QED
    BY <2>1, JobKept
<1> QED
  BY <1>2, <1>3, <1>4, <1>5 DEF CatalogInv

-----------------------------------------------------------------------------
(* Writes. *)

\* p has written the row of a, which stays in order.
Wrote(p, a) ==
  /\ rows[a] # None /\ rows' \in [Account -> Record \cup {None}] /\ rows'[a] # None
  /\ \A b \in Account \ {a} : rows'[b] = rows[b]
  /\ known[a].edition <= rows'[a].edition /\ rows'[a].edition <= edition
  /\ syncing[a] # p => rows'[a].edition <= rows[a].edition

\* What is stored is what was fetched, or what was in memory.
LEMMA SaveCatalogEffect ==
  ASSUME CatalogAssumption, CatalogInv, NEW p \in Process, At(p, "adding"),
         SaveCatalog(work[p].account, Found(p))
  PROVE  /\ work[p].account \in Account /\ Wrote(p, work[p].account)
         /\ rows'[work[p].account].edition = Found(p)
         /\ syncing[work[p].account] = p
<1> DEFINE a == work[p].account
<1>1. a \in Account /\ syncing[a] = p /\ Current(p) /\ rows[a] # None /\ rows[a] \in Record
      /\ known[a] # None /\ known[a] \in Record /\ work[p].fetched \in 0..Len(Lists) /\ Follows(a)
  <2>1. Current(p) /\ a \in Account /\ syncing[a] = p /\ rows[a] # None
    BY DEF CatalogInv, SyncsCurrent, Current, At, SaveCatalog
  <2>2. Follows(a) /\ known[a] # None
    BY <2>1 DEF CatalogInv, MemoryFollows, Follows
  <2>3. rows[a] \in Record /\ known[a] \in Record
    BY <2>1, <2>2 DEF CatalogInv, TypeOK
  <2>4. work[p].fetched \in 0..Len(Lists)
    BY DEF CatalogInv, TypeOK, Work
  <2> QED
    BY <2>1, <2>2, <2>3, <2>4
<1>2. /\ Found(p) \in 0..Len(Lists) /\ known[a].edition <= Found(p) /\ Found(p) <= edition
  <2>1. /\ rows[a].edition \in Nat /\ known[a].edition \in 0..Len(Lists) /\ edition \in Nat
        /\ known[a].edition <= rows[a].edition /\ rows[a].edition <= edition
    BY <1>1, EditionsAreNumbers DEF CatalogInv, TypeOK, Record, Follows
  <2>2. CASE work[p].fetched = 0
    BY <1>1, <2>1, <2>2, EditionsAreNumbers DEF Found
  <2>3. CASE work[p].fetched # 0
    <3>1. work[p].fetched <= edition /\ rows[a].edition <= work[p].fetched
      BY <1>1, <2>3 DEF Current, At
    <3> QED
      BY <1>1, <2>1, <2>3, <3>1, EditionsAreNumbers DEF Found
  <2> QED
    BY <2>2, <2>3
<1>3. PICK r \in Record : r = [rows[a] EXCEPT !.edition = Found(p)]
  BY <1>1, <1>2 DEF Record
<1>4. r.edition = Found(p) /\ r # None
  BY <1>1, <1>3 DEF Record, CatalogAssumption
<1>5. rows' = [rows EXCEPT ![a] = r]
  BY <1>3 DEF SaveCatalog
<1>6. rows' \in [Account -> Record \cup {None}] /\ rows'[a] = r
      /\ \A b \in Account \ {a} : rows'[b] = rows[b]
  BY <1>1, <1>5 DEF CatalogInv, TypeOK
<1> QED
  BY <1>1, <1>2, <1>4, <1>6 DEF Wrote

\* The catalog in memory is no newer than the one it replaces.
LEMMA PutAccountEffect ==
  ASSUME CatalogAssumption, CatalogInv, NEW p \in Process, NEW a \in Account, PutAccount(a)
  PROVE  Wrote(p, a) /\ rows'[a].edition <= rows[a].edition
<1>1. Follows(a) /\ rows[a] # None /\ known[a] # None
  BY DEF CatalogInv, MemoryFollows, Follows, PutAccount
<1>2. rows[a] \in Record /\ known[a] \in Record
  BY <1>1 DEF CatalogInv, TypeOK
<1> DEFINE r == [version |-> rows[a].version + 1, edition |-> known[a].edition]
<1>3. r \in Record /\ r.edition = known[a].edition
  BY <1>2 DEF Record
<1>4. r # None
  BY <1>3 DEF CatalogAssumption
<1>5. rows' = [rows EXCEPT ![a] = r]
  BY DEF PutAccount
<1> HIDE DEF r
<1>6. rows' \in [Account -> Record \cup {None}] /\ rows'[a] = r
      /\ \A b \in Account \ {a} : rows'[b] = rows[b]
  BY <1>3, <1>5 DEF CatalogInv, TypeOK
<1>7. /\ known[a].edition \in Nat /\ rows[a].edition \in Nat /\ edition \in Nat
      /\ known[a].edition <= rows[a].edition /\ rows[a].edition <= edition
  BY <1>1, <1>2, EditionsAreNumbers DEF CatalogInv, TypeOK, Record, Follows
<1> QED
  BY <1>1, <1>3, <1>4, <1>6, <1>7 DEF Wrote

\* A new row has the name of a model, or is an alias.
LEMMA PutEffect ==
  ASSUME CatalogInv, NEW row \in Aliases \cup {<<m, m>> : m \in Model}, Put(row)
  PROVE  models' \subseteq Aliases \cup {<<m, m>> : m \in Model}
BY DEF CatalogInv, TypeOK, Put

LEMMA MissingIsModels ==
  ASSUME CatalogAssumption, CatalogInv, NEW p \in Process
  PROVE  Missing(p) \subseteq Model
<1>1. work[p].fetched \in 0..Len(Lists)
  BY DEF CatalogInv, TypeOK, Work
<1> QED
  BY <1>1, EditionsAreNumbers DEF Missing, Model

\* A write without an answer is one row of a model, or the row of an account that is
\* marked.
LEMMA UnansweredEffect ==
  ASSUME CatalogAssumption, CatalogInv, NEW p \in Process, Unanswered(p)
  PROVE  /\ models' \subseteq Aliases \cup {<<m, m>> : m \in Model}
         /\ work[p].at # "idle"
         /\ \/ UNCHANGED <<rows, unheard>>
            \/ \E a \in Account : Wrote(p, a) /\ unheard' = unheard \cup {a}
<1> DEFINE a == work[p].account
<1>1. CASE At(p, "adding") /\ (\E m \in Missing(p) : Put(<<m, m>>)) /\ UNCHANGED <<rows, unheard>>
  BY <1>1, PutEffect, MissingIsModels DEF At
<1>2. CASE /\ At(p, "adding") /\ SaveCatalog(a, Found(p))
           /\ unheard' = unheard \cup {a} /\ UNCHANGED models
  <2>1. models' \subseteq Aliases \cup {<<m, m>> : m \in Model} /\ work[p].at # "idle"
    BY <1>2 DEF CatalogInv, TypeOK, At
  <2>2. a \in Account /\ Wrote(p, a)
    BY <1>2, SaveCatalogEffect
  <2> QED
    BY <1>2, <2>1, <2>2
<1>3. CASE /\ At(p, "updating") /\ PutAccount(a)
           /\ unheard' = unheard \cup {a} /\ UNCHANGED models
  <2>1. models' \subseteq Aliases \cup {<<m, m>> : m \in Model} /\ work[p].at # "idle"
    BY <1>3 DEF CatalogInv, TypeOK, At
  <2>2. a \in Account
    BY <1>3 DEF CatalogInv, SyncsCurrent, Current, At
  <2>3. Wrote(p, a)
    BY <1>3, <2>2, PutAccountEffect
  <2> QED
    BY <1>3, <2>1, <2>2, <2>3
<1> QED
  BY <1>1, <1>2, <1>3 DEF Unanswered

\* What memory is told, it follows; what it is not told is marked.
LEMMA AnswerFollows ==
  ASSUME CatalogAssumption, CatalogInv, NEW p \in Process, NEW a \in Account, Wrote(p, a), UNCHANGED edition,
         \/ known' = [known EXCEPT ![a] = rows'[a]] /\ unheard' = unheard \ {a}
         \/ known' = known /\ unheard' = unheard \cup {a}
  PROVE  /\ MemoryFollows' /\ unheard' \subseteq Account
         /\ known' \in [Account -> Record \cup {None}] /\ rows' \in [Account -> Record \cup {None}]
<1>1. /\ known' \in [Account -> Record \cup {None}] /\ rows' \in [Account -> Record \cup {None}]
      /\ unheard' \subseteq Account
  BY DEF CatalogInv, TypeOK, Wrote
<1>2. \A b \in Account \ {a} : known'[b] = known[b] /\ rows'[b] = rows[b] /\ (b \in unheard' <=> b \in unheard)
  BY DEF CatalogInv, TypeOK, Wrote
<1>3. ASSUME NEW b \in Account \ {a}
      PROVE  Follows(b)'
  BY <1>2, <1>3 DEF CatalogInv, MemoryFollows, Follows
<1>4. Follows(a)'
  <2>1. rows[a] # None /\ known[a] # None /\ rows'[a] # None /\ rows'[a] \in Record
    BY DEF CatalogInv, TypeOK, MemoryFollows, Follows, Wrote
  <2>2. rows'[a].edition \in Nat /\ rows'[a].edition <= edition /\ known[a].edition <= rows'[a].edition
    BY <2>1, EditionsAreNumbers DEF Record, Wrote
  <2>3. CASE known' = [known EXCEPT ![a] = rows'[a]]
    <3>1. known'[a] = rows'[a]
      BY <2>3 DEF CatalogInv, TypeOK
    <3> QED
      BY <2>1, <2>2, <3>1 DEF Follows
  <2>4. CASE known' = known /\ unheard' = unheard \cup {a}
    BY <2>1, <2>2, <2>4 DEF Follows
  <2> QED
    BY <2>3, <2>4
<1> QED
  BY <1>1, <1>3, <1>4 DEF MemoryFollows

\* A process ends, perhaps with a write.
LEMMA LeaveKeeps ==
  ASSUME CatalogAssumption, CatalogInv, NEW p \in Process, work[p].at # "idle", Leave(p),
         UNCHANGED <<edition, job>>,
         models' \subseteq Aliases \cup {<<m, m>> : m \in Model},
         known' \in [Account -> Record \cup {None}], unheard' \subseteq Account, MemoryFollows',
         UNCHANGED rows \/ \E a \in Account : Wrote(p, a)
  PROVE  CatalogInv'
<1> DEFINE w == IF p \in Handler THEN Idle ELSE [work[p] EXCEPT !.at = "reporting"]
<1>1. /\ work[p] \in Work /\ work[p].account \in Account
      /\ rows' \in [Account -> Record \cup {None}]
  BY DEF CatalogInv, TypeOK, SyncsCurrent, Current, Wrote
<1>2. /\ w \in Work /\ (w.at = "idle" <=> p \in Handler) /\ w.at \in {"idle", "reporting"}
      /\ w.at # "idle" => w.account \in Account
  <2>1. CASE p \in Handler
    BY <2>1, EditionsAreNumbers DEF Idle, Work, Stage
  <2>2. CASE p \notin Handler
    <3>1. [work[p] EXCEPT !.at = "reporting"] \in Work
      BY <1>1 DEF Work, Stage
    <3> QED
      BY <1>1, <2>2, <3>1 DEF Work
  <2> QED
    BY <2>1, <2>2
<1>3. work' = [work EXCEPT ![p] = w]
  BY DEF Leave
<1> HIDE DEF w
<1>4. work' \in [Process -> Work] /\ work'[p] = w /\ \A q \in Process \ {p} : work'[q] = work[q]
  BY <1>2, <1>3 DEF CatalogInv, TypeOK
<1>5. /\ syncing' \in [Account -> Process \cup {None}] /\ lock' \in Process \cup {None}
      /\ \A a \in Account : syncing[a] # p => syncing'[a] = syncing[a]
  BY DEF Leave, CatalogInv, TypeOK
<1>6. TypeOK'
  BY <1>1, <1>4, <1>5 DEF CatalogInv, TypeOK
<1>7. SyncsCurrent'
  <2>1. Current(p)'
    BY <1>2, <1>4 DEF Current
  <2>2. ASSUME NEW q \in Process \ {p}
        PROVE  Current(q)'
    <3>1. \A a \in Account : rows[a] # None => rows[a].edition \in Nat
      BY EditionsAreNumbers DEF CatalogInv, TypeOK, Record
    <3>2. \A a \in Account : syncing[a] = q /\ rows'[a] # None =>
            rows[a] # None /\ rows'[a].edition <= rows[a].edition
      BY <2>2, <3>1 DEF Wrote
    <3>3. edition' >= edition
      BY EditionsAreNumbers DEF CatalogInv, TypeOK
    <3>4. \A a \in Account : syncing[a] = q => syncing'[a] = q
      BY <1>5, <2>2
    <3> QED
      BY <1>4, <1>6, <3>2, <3>3, <3>4, OthersCurrent
  <2> QED
    BY <2>1, <2>2 DEF SyncsCurrent
<1>8. JobTruthful'
  <2>1. ASSUME NEW a \in Account
        PROVE  work'[Worker(a)].at = "idle" <=> work[Worker(a)].at = "idle"
    BY <1>2, <1>4, WorkersAreProcesses
  <2> QED
    BY <2>1, JobKept
<1> QED
  BY <1>6, <1>7, <1>8 DEF CatalogInv

\* Or without one.
LEMMA LeaveOnly ==
  ASSUME CatalogAssumption, CatalogInv, NEW p \in Process, work[p].at # "idle", Leave(p),
         UNCHANGED <<edition, models, rows, known, job, unheard>>
  PROVE  CatalogInv'
<1>1. MemoryFollows'
  BY DEF CatalogInv, MemoryFollows, Follows
<1> QED
  BY <1>1, LeaveKeeps DEF CatalogInv, TypeOK

\* Or without having been answered.
LEMMA LeaveUnanswered ==
  ASSUME CatalogAssumption, CatalogInv, NEW p \in Process, work[p].at # "idle", Leave(p),
         UNCHANGED <<edition, known, job>>,
         Unanswered(p) \/ UNCHANGED <<models, rows, unheard>>
  PROVE  CatalogInv'
<1>1. CASE UNCHANGED <<models, rows, unheard>>
  BY <1>1, LeaveOnly
<1>2. CASE Unanswered(p)
  <2>1. CASE UNCHANGED <<rows, unheard>>
    <3>1. MemoryFollows'
      BY <2>1 DEF CatalogInv, MemoryFollows, Follows
    <3> QED
      BY <1>2, <2>1, <3>1, UnansweredEffect, LeaveKeeps DEF CatalogInv, TypeOK
  <2>2. ASSUME NEW a \in Account, Wrote(p, a), unheard' = unheard \cup {a}
        PROVE  CatalogInv'
    <3>1. MemoryFollows' /\ unheard' \subseteq Account /\ known' \in [Account -> Record \cup {None}]
      BY <2>2, AnswerFollows
    <3> QED
      BY <1>2, <2>2, <3>1, UnansweredEffect, LeaveKeeps
  <2> QED
    BY <1>2, <2>1, <2>2, UnansweredEffect
<1> QED
  BY <1>1, <1>2

-----------------------------------------------------------------------------
(* Each step keeps the invariant. *)

\* A synchronization takes its account, asks the upstream and takes the lock.
LEMMA SyncMoves ==
  ASSUME CatalogAssumption, CatalogInv, NEW p \in Process, Begin(p) \/ Fetch(p) \/ Settle(p)
  PROVE  CatalogInv'
<1> DEFINE a == work[p].account
<1>1. /\ work[p].at \in {"waiting", "fetching", "settling"} /\ work[p] \in Work /\ a \in Account
      /\ Current(p) /\ UNCHANGED <<edition, models, rows, known, job, unheard>>
  BY DEF Begin, Fetch, Settle, At, CatalogInv, TypeOK, SyncsCurrent, Current
<1>2. CASE Begin(p)
  <2>1. PICK w \in Work : w = [work[p] EXCEPT !.at = "fetching"]
    BY <1>1 DEF Work, Stage
  <2>2. w.at = "fetching" /\ w.account = a
    BY <1>1, <2>1 DEF Work
  <2>3. work' = [work EXCEPT ![p] = w] /\ lock' = lock /\ syncing' = [syncing EXCEPT ![a] = p] /\ syncing[a] = None
    BY <1>2, <2>1 DEF Begin, Move, Alone
  <2>4. /\ work'[p] = w /\ syncing'[a] = p /\ syncing' \in [Account -> Process \cup {None}]
        /\ \A b \in Account \ {a} : syncing'[b] = syncing[b]
    BY <1>1, <2>3 DEF CatalogInv, TypeOK
  <2>5. Current(p)'
    BY <1>1, <2>2, <2>4 DEF Current
  <2> QED
    BY <1>1, <2>2, <2>3, <2>4, <2>5, GoesOn DEF CatalogInv, TypeOK
<1>3. CASE Fetch(p)
  <2>1. PICK e \in {0, edition} : work' = [work EXCEPT ![p].at = "settling", ![p].fetched = e]
    BY <1>3 DEF Fetch
  <2>2. e \in 0..Len(Lists) /\ e <= edition /\ edition \in Nat
    BY EditionsAreNumbers DEF CatalogInv, TypeOK
  <2>3. PICK w \in Work : w = [work[p] EXCEPT !.at = "settling", !.fetched = e]
    BY <1>1, <2>2 DEF Work, Stage
  <2>4. w.at = "settling" /\ w.account = a /\ w.fetched = e
    BY <1>1, <2>3 DEF Work
  <2>5. work' = [work EXCEPT ![p] = w] /\ UNCHANGED <<lock, syncing>>
    BY <1>3, <2>1, <2>3 DEF Fetch, CatalogInv, TypeOK
  <2>6. work'[p] = w /\ syncing[a] = p
    BY <1>1, <1>3, <2>5 DEF Fetch, At, Current, CatalogInv, TypeOK
  <2>7. rows[a] # None => rows[a].edition <= edition
    BY <1>1 DEF CatalogInv, MemoryFollows, Follows
  <2>8. Current(p)'
    BY <1>1, <2>1, <2>2, <2>4, <2>5, <2>6, <2>7 DEF Current
  <2> QED
    BY <1>1, <2>4, <2>5, <2>8, GoesOn DEF CatalogInv, TypeOK
<1>4. CASE Settle(p)
  <2>1. CASE Leave(p)
    BY <1>1, <2>1, LeaveOnly
  <2>2. CASE lock' = p /\ Move(p, "adding") /\ UNCHANGED syncing
    <3>1. PICK w \in Work : w = [work[p] EXCEPT !.at = "adding"]
      BY <1>1 DEF Work, Stage
    <3>2. w.at = "adding" /\ w.account = a /\ w.fetched = work[p].fetched
      BY <1>1, <3>1 DEF Work
    <3>3. work' = [work EXCEPT ![p] = w]
      BY <2>2, <3>1 DEF Move
    <3>4. work'[p] = w /\ work[p].at = "settling"
      BY <1>4, <3>3 DEF Settle, At, CatalogInv, TypeOK
    <3>5. Current(p)'
      BY <1>1, <2>2, <3>2, <3>4 DEF Current
    <3> QED
      BY <1>1, <2>2, <3>2, <3>3, <3>5, GoesOn DEF CatalogInv, TypeOK
  <2> QED
    BY <1>4, <2>1, <2>2 DEF Settle
<1> QED
  BY <1>2, <1>3, <1>4

\* Only the table of models changes.
LEMMA ModelsStep ==
  ASSUME CatalogAssumption, CatalogInv, SaveModel \/ \E p \in Process : Add(p)
  PROVE  CatalogInv'
<1>1. UNCHANGED <<edition, rows, known, syncing, lock, work, job, unheard>>
  BY DEF SaveModel, Add
<1>2. models' \subseteq Aliases \cup {<<m, m>> : m \in Model}
  BY PutEffect, MissingIsModels DEF SaveModel, Add
<1> QED
  BY <1>1, <1>2 DEF CatalogInv, TypeOK, MemoryFollows, Follows, SyncsCurrent, Current, JobTruthful, At

LEMMA SaveStep ==
  ASSUME CatalogAssumption, CatalogInv, NEW p \in Process, Save(p)
  PROVE  CatalogInv'
<1> DEFINE a == work[p].account
<1>1. /\ At(p, "adding") /\ SaveCatalog(a, Found(p)) /\ known' = [known EXCEPT ![a] = rows'[a]]
      /\ unheard' = unheard \ {a} /\ Leave(p) /\ UNCHANGED <<edition, models, job>>
  BY DEF Save
<1>2. a \in Account /\ Wrote(p, a)
  BY <1>1, SaveCatalogEffect
<1>3. MemoryFollows' /\ unheard' \subseteq Account /\ known' \in [Account -> Record \cup {None}]
  BY <1>1, <1>2, AnswerFollows
<1> QED
  BY <1>1, <1>2, <1>3, LeaveKeeps DEF At, CatalogInv, TypeOK

LEMMA UnsavedStep ==
  ASSUME CatalogAssumption, CatalogInv, NEW p \in Process, SyncFails(p) \/ Depart(p)
  PROVE  CatalogInv'
BY LeaveUnanswered DEF SyncFails, Depart, At

\* update_account, answered or not, and the reload of all accounts.
LEMMA UpdateEnds ==
  ASSUME CatalogAssumption, CatalogInv, NEW h \in Handler, Updated(h) \/ UpdateFails(h)
  PROVE  CatalogInv'
<1> DEFINE a == work[h].account
<1>1. h \in Process /\ work[h].at = "updating" /\ a \in Account /\ Leave(h) /\ UNCHANGED <<edition, job>>
  BY DEF Updated, UpdateFails, At, Process, CatalogInv, SyncsCurrent, Current
<1>2. CASE Updated(h)
  <2>1. /\ PutAccount(a) /\ known' = [known EXCEPT ![a] = rows'[a]] /\ unheard' = unheard \ {a}
        /\ UNCHANGED models
    BY <1>2 DEF Updated
  <2>2. Wrote(h, a)
    BY <1>1, <2>1, PutAccountEffect
  <2>3. MemoryFollows' /\ unheard' \subseteq Account /\ known' \in [Account -> Record \cup {None}]
    BY <1>1, <2>1, <2>2, AnswerFollows
  <2> QED
    BY <1>1, <2>1, <2>2, <2>3, LeaveKeeps DEF CatalogInv, TypeOK
<1>3. CASE UpdateFails(h)
  <2>1. CASE (Unanswered(h) /\ UNCHANGED known) \/ UNCHANGED <<models, rows, known, unheard>>
    BY <1>1, <2>1, LeaveUnanswered
  <2>2. CASE /\ PutAccount(a) \/ UNCHANGED rows
             /\ known' = [b \in Account |-> IF rows'[b] # None THEN rows'[b] ELSE known[b]]
             /\ unheard' = {} /\ UNCHANGED models
    <3>1. UNCHANGED rows \/ Wrote(h, a)
      BY <1>1, <2>2, PutAccountEffect
    <3>2. /\ rows' \in [Account -> Record \cup {None}]
          /\ \A b \in Account : /\ rows'[b] = None <=> rows[b] = None
                                /\ rows'[b] # None => rows'[b].edition <= edition
      BY <1>1, <3>1 DEF CatalogInv, TypeOK, MemoryFollows, Follows, Wrote
    <3>3. known' \in [Account -> Record \cup {None}]
      BY <2>2, <3>2 DEF CatalogInv, TypeOK
    <3>4. ASSUME NEW b \in Account
          PROVE  Follows(b)'
      <4>1. known'[b] = IF rows'[b] # None THEN rows'[b] ELSE known[b]
        BY <2>2
      <4>2. rows[b] = None => known[b] = None
        BY DEF CatalogInv, MemoryFollows, Follows
      <4>3. rows'[b] # None => rows'[b].edition \in Nat
        BY <3>2, EditionsAreNumbers DEF Record
      <4> QED
        BY <1>1, <3>2, <4>1, <4>2, <4>3 DEF Follows
    <3> QED
      BY <1>1, <2>2, <3>1, <3>3, <3>4, LeaveKeeps DEF MemoryFollows, CatalogInv, TypeOK
  <2> QED
    BY <1>3, <2>1, <2>2 DEF UpdateFails
<1> QED
  BY <1>2, <1>3

\* sync_account and update_account begin.
LEMMA HandlerBegins ==
  ASSUME CatalogAssumption, CatalogInv, NEW h \in Handler, NEW a \in Account, Ask(h, a) \/ Update(h, a)
  PROVE  CatalogInv'
<1>1. PICK stage \in {"waiting", "updating"} :
        work' = [work EXCEPT ![h] = [at |-> stage, account |-> a, fetched |-> 0]]
  BY DEF Ask, Update
<1>2. PICK w \in Work : w = [at |-> stage, account |-> a, fetched |-> 0]
  <2>1. 0 \in 0..Len(Lists) /\ stage \in Stage
    BY EditionsAreNumbers DEF Stage
  <2>2. [at |-> stage, account |-> a, fetched |-> 0] \in Work
    BY <2>1 DEF Work
  <2> QED
    BY <2>2
<1>3. /\ h \in Process /\ h \notin Workers /\ lock' \in Process \cup {None}
      /\ UNCHANGED <<edition, models, rows, known, syncing, job, unheard>>
  BY DEF Ask, Update, Process, CatalogAssumption, CatalogInv, TypeOK
<1>4. work' = [work EXCEPT ![h] = w] /\ work'[h] = w
  BY <1>1, <1>2, <1>3 DEF CatalogInv, TypeOK
<1>5. Current(h)'
  BY <1>2, <1>4 DEF Current
<1> QED
  BY <1>3, <1>4, <1>5, GoesOn DEF CatalogInv, TypeOK

\* The job starts when no worker is left, and ends so.
LEMMA JobStep ==
  ASSUME CatalogAssumption, CatalogInv, StartJob \/ FinishJob \/ \E a \in Account : Report(a)
  PROVE  CatalogInv'
<1>1. UNCHANGED <<edition, models, rows, known, syncing, lock, unheard>>
  BY DEF StartJob, FinishJob, Report
<1>2. SUFFICES work' \in [Process -> Work] /\ job' \in Progress /\ job'.completed \subseteq job'.total
               /\ SyncsCurrent' /\ JobTruthful'
  <2>1. MemoryFollows'
    BY <1>1 DEF CatalogInv, MemoryFollows, Follows
  <2> QED
    BY <1>1, <1>2, <2>1 DEF CatalogInv, TypeOK
<1>3. CASE StartJob
  <2> DEFINE accounts == {a \in Account : known[a] # None}
  <2>1. /\ job' = [running |-> TRUE, total |-> accounts, completed |-> {}]
        /\ work' = [p \in Process |->
                      IF \E a \in accounts : p = Worker(a)
                      THEN [at |-> "waiting", account |-> p[2], fetched |-> 0] ELSE work[p]]
        /\ ~job.running
    BY <1>3 DEF StartJob
  <2>2. \A a \in accounts : work'[Worker(a)] = [at |-> "waiting", account |-> a, fetched |-> 0]
    BY <2>1, WorkersAreProcesses DEF Worker
  <2>3. ASSUME NEW a \in accounts
         PROVE  work'[Worker(a)].at = "waiting" /\ work'[Worker(a)].account = a /\ a \in Account
    <3>1. work'[Worker(a)] = [at |-> "waiting", account |-> a, fetched |-> 0]
      BY <2>2
    <3>2. a \in Account
      OBVIOUS
    <3> QED
      BY <3>1, <3>2
  <2>4. \A p \in Process : work'[p] = work[p] \/ \E a \in accounts : p = Worker(a)
    BY <2>1
  <2>5. \A a \in Account \ accounts : work'[Worker(a)] = work[Worker(a)]
    BY <2>4, WorkersAreProcesses
  <2>6. ASSUME NEW a \in Account
        PROVE  [at |-> "waiting", account |-> a, fetched |-> 0] \in Work
    <3>1. 0 \in 0..Len(Lists) /\ "waiting" \in Stage
      BY EditionsAreNumbers DEF Stage
    <3> QED
      BY <3>1 DEF Work
  <2>7. work' \in [Process -> Work]
    <3>1. ASSUME NEW p \in Process
          PROVE  work'[p] \in Work
      BY <2>2, <2>4, <2>6 DEF CatalogInv, TypeOK
    <3> QED
      BY <2>1, <3>1
  <2>8. SyncsCurrent'
    <3>1. ASSUME NEW p \in Process
          PROVE  Current(p)'
      <4>1. CASE work'[p] = work[p]
        BY <1>1, <4>1 DEF CatalogInv, SyncsCurrent, Current
      <4>2. ASSUME NEW a \in accounts, p = Worker(a)
            PROVE  Current(p)'
        BY <2>3, <4>2 DEF Current
      <4> QED
        BY <2>4, <4>1, <4>2
    <3> QED
      BY <3>1 DEF SyncsCurrent
  <2>9. \A a \in Account : work[Worker(a)].at = "idle"
    BY <2>1 DEF CatalogInv, JobTruthful, At
  <2>10. \A a \in Account : work'[Worker(a)].at # "idle" <=> a \in accounts
    BY <2>5, <2>9, <2>3
  <2>11. JobTruthful'
    BY <2>1, <2>10 DEF JobTruthful, At
  <2> QED
    BY <2>1, <2>7, <2>8, <2>11 DEF Progress
<1>4. CASE FinishJob
  <2>1. job' = [job EXCEPT !.running = FALSE] /\ work' = work /\ \A a \in Account : work[Worker(a)].at = "idle"
    BY <1>4 DEF FinishJob, At
  <2>2. /\ job' \in Progress /\ job'.total = job.total /\ job'.completed = job.completed /\ ~job'.running
        /\ job.total \subseteq Account /\ job.completed \subseteq job.total
    BY <2>1 DEF CatalogInv, TypeOK, Progress
  <2>3. \A a \in Account : a \notin job.total \ job.completed
    BY <2>1 DEF CatalogInv, JobTruthful, At
  <2>4. JobTruthful'
    <3>1. job.total = job.completed
      BY <2>2, <2>3
    <3> QED
      BY <2>1, <2>2, <3>1 DEF JobTruthful, At
  <2>5. SyncsCurrent'
    BY <1>1, <2>1 DEF CatalogInv, SyncsCurrent, Current
  <2> QED
    BY <2>1, <2>2, <2>4, <2>5 DEF CatalogInv, TypeOK
<1>5. ASSUME NEW a \in Account, Report(a)
      PROVE  /\ work' \in [Process -> Work] /\ job' \in Progress /\ job'.completed \subseteq job'.total
             /\ SyncsCurrent' /\ JobTruthful'
  <2>1. /\ work' = [work EXCEPT ![Worker(a)] = Idle] /\ job' = [job EXCEPT !.completed = @ \cup {a}]
        /\ work[Worker(a)].at = "reporting" /\ Worker(a) \in Process
    BY <1>5, WorkersAreProcesses DEF Report, At
  <2>2. a \in job.total \ job.completed
    BY <2>1 DEF CatalogInv, JobTruthful, At
  <2>3. /\ job' \in Progress /\ job'.total = job.total /\ job'.completed = job.completed \cup {a}
        /\ job'.running = job.running /\ job'.completed \subseteq job'.total
    BY <2>1, <2>2 DEF CatalogInv, TypeOK, Progress
  <2>4. Idle \in Work /\ Idle.at = "idle"
    BY EditionsAreNumbers DEF Idle, Work, Stage
  <2>5. /\ work' \in [Process -> Work] /\ work'[Worker(a)].at = "idle"
        /\ \A q \in Process \ {Worker(a)} : work'[q] = work[q]
    BY <2>1, <2>4 DEF CatalogInv, TypeOK
  <2>6. SyncsCurrent'
    <3>1. ASSUME NEW q \in Process
          PROVE  Current(q)'
      BY <1>1, <2>5 DEF CatalogInv, SyncsCurrent, Current
    <3> QED
      BY <3>1 DEF SyncsCurrent
  <2>7. \A b \in Account \ {a} : work'[Worker(b)] = work[Worker(b)]
    BY <2>5, WorkersAreProcesses
  <2>8. job.running
    BY <2>2 DEF CatalogInv, JobTruthful
  <2>9. JobTruthful'
    BY <2>2, <2>3, <2>5, <2>7, <2>8 DEF CatalogInv, JobTruthful, At
  <2> QED
    BY <2>3, <2>5, <2>6, <2>9
<1> QED
  BY <1>3, <1>4, <1>5

\* An account is deleted, or the upstream publishes.
LEMMA WorldStep ==
  ASSUME CatalogAssumption, CatalogInv, Publish \/ \E a \in Account : DeleteAccount(a)
  PROVE  CatalogInv'
<1>1. UNCHANGED <<models, syncing, lock, work, job, unheard>>
  BY DEF Publish, DeleteAccount
<1>2. edition \in Nat /\ edition' \in DOMAIN Lists /\ edition' >= edition
  BY EditionsAreNumbers DEF Publish, DeleteAccount, CatalogInv, TypeOK
<1>3. /\ rows' \in [Account -> Record \cup {None}] /\ known' \in [Account -> Record \cup {None}]
      /\ \A a \in Account : \/ rows'[a] = rows[a] /\ known'[a] = known[a]
                            \/ rows'[a] = None /\ known'[a] = None
  BY DEF Publish, DeleteAccount, CatalogInv, TypeOK
<1>4. TypeOK'
  BY <1>1, <1>2, <1>3 DEF CatalogInv, TypeOK
<1>5. \A a \in Account : rows[a] # None => rows[a].edition \in Nat
  BY EditionsAreNumbers DEF CatalogInv, TypeOK, Record
<1>6. MemoryFollows'
  <2>1. edition' \in Nat
    BY <1>2, EditionsAreNumbers
  <2> QED
    BY <1>1, <1>2, <1>3, <1>5, <2>1 DEF CatalogInv, MemoryFollows, Follows
<1>7. SyncsCurrent'
  <2>1. \A q \in Process : Current(q)'
    BY <1>1, <1>2, <1>3, <1>4, <1>5, OthersCurrent
  <2> QED
    BY <2>1 DEF SyncsCurrent
<1>8. JobTruthful'
  BY <1>1, JobKept
<1> QED
  BY <1>4, <1>6, <1>7, <1>8 DEF CatalogInv

\* Memory is read from the store, and nothing is under way.
Rested ==
  /\ syncing = [a \in Account |-> None] /\ lock = None
  /\ work = [p \in Process |-> Idle] /\ job = NoJob /\ known = rows /\ unheard = {}
  /\ rows \in [Account -> Record \cup {None}] /\ edition \in DOMAIN Lists
  /\ models \subseteq Aliases \cup {<<m, m>> : m \in Model}
  /\ \A a \in Account : rows[a] # None => rows[a].edition <= edition

LEMMA RestedInOrder == ASSUME CatalogAssumption, Rested PROVE CatalogInv
<1>1. Idle \in Work /\ Idle.at = "idle"
  BY EditionsAreNumbers DEF Idle, Work, Stage
<1>2. NoJob \in Progress /\ NoJob.completed = {} /\ NoJob.total = {}
  BY DEF NoJob, Progress
<1>3. \A p \in Process : work[p].at = "idle"
  BY <1>1 DEF Rested
<1>4. TypeOK
  BY <1>1, <1>2 DEF TypeOK, Rested
<1>5. \A a \in Account : rows[a] # None => rows[a].edition \in Nat
  BY EditionsAreNumbers DEF Record, Rested
<1>6. MemoryFollows
  <2>1. ASSUME NEW a \in Account
        PROVE  Follows(a)
    BY <1>5 DEF Follows, Rested
  <2> QED
    BY <2>1 DEF MemoryFollows
<1>7. SyncsCurrent
  BY <1>3 DEF SyncsCurrent, Current
<1>8. JobTruthful
  BY <1>2, <1>3, WorkersAreProcesses DEF JobTruthful, At, Rested
<1> QED
  BY <1>4, <1>6, <1>7, <1>8 DEF CatalogInv

LEMMA RestedInOrderNext == ASSUME CatalogAssumption PROVE Rested' => CatalogInv'
<1>1. Rested => CatalogInv
  BY RestedInOrder
<1> QED
  BY <1>1, PTL

LEMMA CatalogInvInit == ASSUME CatalogAssumption, Init PROVE CatalogInv
<1> DEFINE r == [version |-> 1, edition |-> 0]
<1>1. r \in Record /\ r.edition = 0 /\ r # None
  <2>1. r \in Record
    BY EditionsAreNumbers DEF Record
  <2> QED
    BY <2>1 DEF CatalogAssumption
<1>2. rows = [a \in Account |-> r]
  BY DEF Init
<1> HIDE DEF r
<1>3. rows \in [Account -> Record \cup {None}] /\ \A a \in Account : rows[a].edition = 0
  BY <1>1, <1>2
<1>4. edition = 1 /\ edition \in DOMAIN Lists
  BY EditionsAreNumbers DEF Init
<1>5. models \subseteq Aliases
  BY DEF Init
<1>6. Rested
  BY <1>3, <1>4, <1>5 DEF Init, Rested
<1> QED
  BY <1>6, RestedInOrder

\* The store keeps what was written; the rest is forgotten.
LEMMA RestartStep ==
  ASSUME CatalogAssumption, CatalogInv, Restart
  PROVE  CatalogInv'
<1>1. /\ models' \subseteq Aliases \cup {<<m, m>> : m \in Model}
      /\ UNCHANGED rows \/ \E p \in Process, a \in Account : Wrote(p, a)
  BY UnansweredEffect DEF Restart, CatalogInv, TypeOK
<1>2. /\ rows' \in [Account -> Record \cup {None}]
      /\ \A a \in Account : rows'[a] # None => rows'[a].edition <= edition
  BY <1>1 DEF CatalogInv, TypeOK, MemoryFollows, Follows, Wrote
<1>3. edition' = edition /\ edition \in DOMAIN Lists
  BY DEF Restart, CatalogInv, TypeOK
<1>4. Rested'
  BY <1>1, <1>2, <1>3 DEF Restart, Rested
<1> QED
  BY <1>4, RestedInOrderNext

LEMMA CatalogInvStep == ASSUME CatalogAssumption, CatalogInv, [Next]_vars PROVE CatalogInv'
<1>1. CASE UNCHANGED vars
  BY <1>1 DEF vars, CatalogInv, TypeOK, MemoryFollows, Follows, SyncsCurrent, Current, JobTruthful, At
<1>2. ASSUME NEW p \in Process, SyncStep(p)
      PROVE  CatalogInv'
  BY <1>2, SyncMoves, ModelsStep, SaveStep, UnsavedStep DEF SyncStep
<1>3. ASSUME NEW h \in Handler,
             \/ Updated(h) \/ UpdateFails(h) \/ Depart(h)
             \/ \E a \in Account : Ask(h, a) \/ Update(h, a)
      PROVE  CatalogInv'
  <2>1. h \in Process
    BY DEF Process
  <2> QED
    BY <1>3, <2>1, UnsavedStep, UpdateEnds, HandlerBegins
<1> QED
  BY <1>1, <1>2, <1>3, JobStep, ModelsStep, WorldStep, RestartStep DEF Next

LEMMA CatalogHolds == ASSUME CatalogAssumption PROVE Spec => []CatalogInv
<1>1. Init => CatalogInv
  BY CatalogInvInit
<1>2. CatalogInv /\ [Next]_vars => CatalogInv'
  BY CatalogInvStep
<1> QED
  BY <1>1, <1>2, PTL DEF Spec

-----------------------------------------------------------------------------
(* What a step does to a row. *)

\* A row is written with what was fetched or with what is in memory, or goes.
LEMMA RowStep ==
  ASSUME CatalogAssumption, CatalogInv, [Next]_vars, NEW a \in Account, rows'[a] # rows[a], rows'[a] # None
  PROVE  \/ PutAccount(a)
         \/ \E p \in Process : /\ At(p, "adding") /\ work[p].account = a /\ Missing(p) = {}
                               /\ SaveCatalog(a, Found(p))
<1> DEFINE Saved(p) == /\ At(p, "adding") /\ Missing(p) = {}
                       /\ SaveCatalog(work[p].account, Found(p))
           Written(b) == PutAccount(b) \/ \E p \in Process : work[p].account = b /\ Saved(p)
<1>1. ASSUME NEW p \in Process, work[p].at # "idle",
             Unanswered(p) \/ Saved(p) \/ (At(p, "updating") /\ PutAccount(work[p].account)) \/ UNCHANGED rows
      PROVE  UNCHANGED rows \/ \E b \in Account : Written(b)
  <2>1. work[p].account \in Account
    BY <1>1 DEF CatalogInv, SyncsCurrent, Current
  <2> QED
    BY <1>1, <2>1 DEF Unanswered
<1>2. ASSUME NEW b \in Account, Written(b)
      PROVE  b = a
  BY <1>2 DEF PutAccount, SaveCatalog, CatalogInv, TypeOK
<1>3. ASSUME NEW p \in Process, SyncStep(p)
      PROVE  UNCHANGED rows \/ \E b \in Account : Written(b)
  <2>1. CASE Begin(p) \/ Fetch(p) \/ Settle(p) \/ Add(p)
    BY <2>1 DEF Begin, Fetch, Settle, Add
  <2>2. CASE Save(p) \/ SyncFails(p)
    BY <1>1, <2>2 DEF Save, SyncFails, At
  <2> QED
    BY <1>3, <2>1, <2>2 DEF SyncStep
<1>4. ASSUME NEW h \in Handler, Updated(h) \/ UpdateFails(h) \/ Depart(h)
      PROVE  UNCHANGED rows \/ \E b \in Account : Written(b)
  <2>1. h \in Process /\ work[h].at # "idle"
    BY <1>4 DEF Process, Updated, UpdateFails, Depart, At
  <2> QED
    BY <1>1, <1>4, <2>1 DEF Updated, UpdateFails, Depart, At
<1>5. ASSUME Restart
      PROVE  UNCHANGED rows \/ \E b \in Account : Written(b)
  <2> HIDE DEF Written
  <2>1. ASSUME NEW p \in Process, Unanswered(p)
        PROVE  UNCHANGED rows \/ \E b \in Account : Written(b)
    <3>1. work[p].at # "idle"
      BY <2>1 DEF Unanswered, At
    <3> QED
      BY <1>1, <2>1, <3>1
  <2> QED
    BY <1>5, <2>1 DEF Restart
<1>6. ASSUME NEW b \in Account, DeleteAccount(b)
      PROVE  FALSE
  BY <1>6 DEF DeleteAccount, CatalogInv, TypeOK
<1>7. UNCHANGED rows \/ \E b \in Account : Written(b)
  <2> HIDE DEF Written
  <2>1. CASE UNCHANGED vars
    BY <2>1 DEF vars
  <2>2. ASSUME NEW h \in Handler, NEW b \in Account, Ask(h, b) \/ Update(h, b)
        PROVE  UNCHANGED rows
    BY <2>2 DEF Ask, Update
  <2>3. CASE StartJob \/ FinishJob \/ SaveModel \/ Publish \/ \E b \in Account : Report(b)
    BY <2>3 DEF StartJob, FinishJob, SaveModel, Publish, Report
  <2>4. CASE \/ \E p \in Process : SyncStep(p)
             \/ \E h \in Handler : \/ Updated(h) \/ UpdateFails(h) \/ Depart(h)
                                  \/ \E b \in Account : Ask(h, b) \/ Update(h, b)
    BY <1>3, <1>4, <2>2, <2>4
  <2> QED
    BY <1>5, <1>6, <2>1, <2>3, <2>4 DEF Next
<1> QED
  BY <1>2, <1>7

LEMMA KeepsOrder ==
  ASSUME CatalogAssumption, CatalogInv, [Next]_vars
  PROVE  NeverOlder /\ StoredIsConfigured
<1>1. ASSUME NEW a \in Account, rows[a] # None, rows'[a] # None, rows'[a] # rows[a]
      PROVE  /\ rows'[a].edition < rows[a].edition => a \in unheard
             /\ rows'[a].edition > rows[a].edition => \A m \in Lists[rows'[a].edition] : Configured(m)
  <2>1. /\ rows[a] \in Record /\ known[a] # None /\ known[a] \in Record /\ Follows(a)
        /\ rows[a].edition \in Nat /\ known[a].edition \in Nat
    <3>1. Follows(a) /\ known[a] # None
      BY <1>1 DEF CatalogInv, MemoryFollows, Follows
    <3>2. rows[a] \in Record /\ known[a] \in Record
      BY <1>1, <3>1 DEF CatalogInv, TypeOK
    <3> QED
      BY <3>1, <3>2, EditionsAreNumbers DEF Record
  <2>2. ASSUME rows'[a].edition = known[a].edition
        PROVE  /\ rows'[a].edition < rows[a].edition => a \in unheard
               /\ ~(rows'[a].edition > rows[a].edition)
    BY <1>1, <2>1, <2>2 DEF Follows
  <2>3. CASE PutAccount(a)
    <3>1. rows'[a].edition = known[a].edition
      BY <2>3 DEF PutAccount, CatalogInv, TypeOK
    <3> QED
      BY <2>2, <3>1
  <2>4. ASSUME NEW p \in Process, At(p, "adding"), work[p].account = a, Missing(p) = {}, SaveCatalog(a, Found(p))
        PROVE  /\ rows'[a].edition < rows[a].edition => a \in unheard
               /\ rows'[a].edition > rows[a].edition => \A m \in Lists[rows'[a].edition] : Configured(m)
    <3>1. rows'[a].edition = Found(p)
      BY <2>4, SaveCatalogEffect
    <3>2. CASE work[p].fetched = 0
      BY <2>2, <2>4, <3>1, <3>2 DEF Found
    <3>3. CASE work[p].fetched # 0
      <4>1. rows'[a].edition = work[p].fetched /\ work[p].fetched \in Nat
        BY <3>1, <3>3, EditionsAreNumbers DEF Found, CatalogInv, TypeOK, Work
      <4>2. rows[a].edition <= work[p].fetched
        BY <1>1, <2>4, <3>3 DEF CatalogInv, SyncsCurrent, Current, At
      <4>3. \A m \in Lists[work[p].fetched] : Configured(m)
        BY <2>4, <3>3 DEF Missing
      <4> QED
        BY <2>1, <4>1, <4>2, <4>3
    <3> QED
      BY <3>2, <3>3
  <2> QED
    BY <1>1, <2>3, <2>4, RowStep
<1>2. \A a \in Account : rows[a] # None => rows[a].edition \in Nat
  BY EditionsAreNumbers DEF CatalogInv, TypeOK, Record
<1>3. NeverOlder
  BY <1>1, <1>2 DEF CatalogInv, MemoryFollows, Follows, NeverOlder
<1>4. StoredIsConfigured
  BY <1>1, <1>2 DEF StoredIsConfigured
<1> QED
  BY <1>3, <1>4

\* catalog.rs: a stored catalog is not replaced by an older one, and memory is on the
\* row in the store, unless the answer of a write was lost.
THEOREM OlderNeverStored == ASSUME CatalogAssumption PROVE Spec => [][NeverOlder]_vars
<1>1. CatalogInv /\ [Next]_vars => NeverOlder
  BY KeepsOrder
<1> QED
  BY <1>1, CatalogHolds, PTL DEF Spec

\* catalog.rs: the models of a catalog that is stored have rows already.
THEOREM ModelsBeforeCatalog == ASSUME CatalogAssumption PROVE Spec => [][StoredIsConfigured]_vars
<1>1. CatalogInv /\ [Next]_vars => StoredIsConfigured
  BY KeepsOrder
<1> QED
  BY <1>1, CatalogHolds, PTL DEF Spec

\* http/catalog.rs: the page of the job tells what is under way.
THEOREM JobIsTruthful == ASSUME CatalogAssumption PROVE Spec => []JobTruthful
<1>1. CatalogInv => JobTruthful
  BY DEF CatalogInv
<1> QED
  BY <1>1, CatalogHolds, PTL

=============================================================================
