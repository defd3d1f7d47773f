---------------------------- MODULE Authorizations ----------------------------
(***************************************************************************)
(* How accounts come under management: the flows of http/oauth.rs (a code  *)
(* shown to the administrator and polled for) and http/oauth_browser.rs (a *)
(* link whose callback is pasted), the import of credentials in            *)
(* http/admin.rs, and save_credentials, where they meet under the          *)
(* "mutations" lock.  What becomes of a managed account is the subject of  *)
(* AccountControl.                                                         *)
(***************************************************************************)
EXTENDS Integers, FiniteSets

CONSTANTS
  Flow,      \* authorizations and imports, each started once
  Account,   \* ids of accounts, never given twice
  Upstream,  \* accounts of the upstream
  MaxFlows,  \* flows that are kept at a time, 16 in the code
  None

VARIABLES
  flows,  \* AppState.oauth: flow -> its entry, or None
  work,   \* flow -> its handler or task
  rows,   \* account -> its row of the table accounts, or None
  known,  \* account -> the scheduler's record, or None
  lock,   \* holder of "mutations"
  past    \* flow -> what has happened to it

vars == <<flows, work, rows, known, lock, past>>

\* "late" is past expires, "verifier" is Flow.browser.
Entry == [status : {"starting", "pending", "exchanging", "completed", "failed"},
          verifier : BOOLEAN, late : BOOLEAN]

\* A credential version is named by the flow that wrote it.
Record == [upstream : Upstream, by : Flow \cup {None}]

Stage == {"new", "asking", "offered", "polling", "exchanging", "locking", "writing", "ended"}
Work == [at : Stage, kind : {"device", "browser", "import", None},
         target : Account \cup {None}, upstream : Upstream \cup {None}]

\* "lost" is a write that was applied and not answered.
Past == [exchanges : 0..2, cancelled : BOOLEAN, saved : BOOLEAN, lost : {"insert", "update", None}]

AuthorizationAssumption ==
  /\ MaxFlows \in Nat \ {0} /\ IsFiniteSet(Flow)
  /\ None \notin Flow /\ None \notin Account /\ None \notin Upstream
  /\ None \notin Entry /\ None \notin Record /\ None \notin {"insert", "update"}

TypeOK ==
  /\ flows \in [Flow -> Entry \cup {None}]
  /\ work \in [Flow -> Work]
  /\ rows \in [Account -> Record \cup {None}] /\ known \in [Account -> Record \cup {None}]
  /\ lock \in Flow \cup {None}
  /\ past \in [Flow -> Past]

-----------------------------------------------------------------------------
(* The table of flows. *)

Listed(f) == flows[f] # None
Current(f) == Listed(f) /\ ~flows[f].late

Pruned == [f \in Flow |-> IF Current(f) THEN flows[f] ELSE None]
Room == Cardinality({f \in Flow : Current(f)}) < MaxFlows

Show(f, status) == IF Listed(f) THEN [flows EXCEPT ![f].status = status] ELSE flows

\* The outcome is shown for another five minutes, if the flow is still there.
Conclude(f, status) ==
  flows' = IF Listed(f) THEN [flows EXCEPT ![f].status = status, ![f].late = FALSE] ELSE flows

At(f, stage) == work[f].at = stage
Move(f, stage) == work' = [work EXCEPT ![f].at = stage]
Fail(f) == Move(f, "ended") /\ Conclude(f, "failed")

-----------------------------------------------------------------------------
(* The flows. *)

\* start of both kinds; without room the old entries are gone all the same.
Start(f, kind, stage, entry) ==
  /\ At(f, "new")
  /\ \/ /\ Room
        /\ \E target \in {a \in Account : known[a] # None} \cup {None} :
             work' = [work EXCEPT ![f] = [at |-> stage, kind |-> kind, target |-> target, upstream |-> None]]
        /\ flows' = [Pruned EXCEPT ![f] = entry]
     \/ ~Room /\ flows' = Pruned /\ UNCHANGED work
  /\ UNCHANGED <<rows, known, lock, past>>

StartBrowser(f) ==
  Start(f, "browser", "offered", [status |-> "pending", verifier |-> TRUE, late |-> FALSE])

StartDevice(f) ==
  Start(f, "device", "asking", [status |-> "starting", verifier |-> FALSE, late |-> FALSE])

\* The upstream gives a code, or the flow is removed. A handler that is dropped here
\* leaves it as it is.
DeviceCode(f) ==
  /\ At(f, "asking")
  /\ \/ Move(f, "polling") /\ flows' = Show(f, "pending")
     \/ Move(f, "ended") /\ flows' = [flows EXCEPT ![f] = None]
     \/ Move(f, "ended") /\ UNCHANGED flows
  /\ UNCHANGED <<rows, known, lock, past>>

Exchange(f) ==
  /\ Move(f, "exchanging")
  /\ past' = [past EXCEPT ![f].exchanges = IF @ < 2 THEN @ + 1 ELSE @]

\* The administrator has approved the code; or it is refused, or its time is over.
Poll(f) ==
  /\ At(f, "polling")
  /\ \/ Exchange(f) /\ UNCHANGED flows
     \/ Fail(f) /\ UNCHANGED past
  /\ UNCHANGED <<rows, known, lock>>

\* MUTANT: the verifier is given up when the exchange has ended.
Borrowed(entry) == [entry EXCEPT !.status = "exchanging"]

\* The verifier is taken before the first await.
Taken(entry) == [entry EXCEPT !.status = "exchanging", !.verifier = FALSE]

\* A callback that belongs to the flow; any other changes nothing.
Complete(f) ==
  /\ Current(f) /\ flows[f].verifier
  /\ flows' = [flows EXCEPT ![f] = Taken(flows[f])]
  /\ Exchange(f)
  /\ UNCHANGED <<rows, known, lock>>

\* An exchange cannot be cancelled while its flow is listed. Any other answer is that it
\* is, also when the flow has expired and been pruned with its exchange under way.
Cancel(f) ==
  /\ work[f].kind = "browser"
  /\ Listed(f) => flows[f].status # "exchanging"
  /\ IF Listed(f) /\ flows[f].verifier
     THEN flows' = [flows EXCEPT ![f] = None] /\ Move(f, "ended")
     ELSE UNCHANGED <<flows, work>>
  /\ past' = [past EXCEPT ![f].cancelled = @ \/ At(f, "offered")]
  /\ UNCHANGED <<rows, known, lock>>

\* The answer with the tokens, and whose they are.
Tokens(f) ==
  /\ At(f, "exchanging")
  /\ \/ /\ \E u \in Upstream : work' = [work EXCEPT ![f].at = "locking", ![f].upstream = u]
        /\ UNCHANGED flows
     \/ Fail(f)
  /\ UNCHANGED <<rows, known, lock, past>>

\* create_account, with credentials from a file.
Import(f) ==
  /\ At(f, "new")
  /\ \E u \in Upstream :
       work' = [work EXCEPT ![f] = [at |-> "locking", kind |-> "import", target |-> None, upstream |-> u]]
  /\ UNCHANGED <<flows, rows, known, lock, past>>

-----------------------------------------------------------------------------
(* save_credentials and create_account. *)

Managed(u) == \E a \in Account : known[a] # None /\ known[a].upstream = u

Fresh(a) == \A f \in Flow : work[f].target # a

\* The account that is authorized again belongs to these credentials, or there is none.
Suits(f) ==
  LET u == work[f].upstream IN
  IF work[f].target = None THEN ~Managed(u)
  ELSE \E record \in {known[work[f].target]} \ {None} : record.upstream = u

\* The checks under the lock; a new account gets its id.
Acquire(f) ==
  /\ At(f, "locking") /\ lock = None
  /\ IF Suits(f)
     THEN /\ \E a \in Account :
               /\ IF work[f].target = None THEN Fresh(a) /\ rows[a] = None /\ known[a] = None
                  ELSE a = work[f].target
               /\ work' = [work EXCEPT ![f].at = "writing", ![f].target = a]
          /\ lock' = f /\ UNCHANGED flows
     ELSE Fail(f) /\ UNCHANGED lock
  /\ UNCHANGED <<rows, known, past>>

Written(f) == [upstream |-> work[f].upstream, by |-> f]

\* put_account without a version, or update_credentials with the one in memory.
Insertion(f) == known[work[f].target] = None
MayWrite(f) == LET a == work[f].target IN Insertion(f) \/ rows[a] = known[a]

Apply(f) ==
  /\ MayWrite(f)
  /\ rows' = [rows EXCEPT ![work[f].target] = Written(f)]

\* Applied, without an answer.
Unanswered(f) ==
  /\ Apply(f)
  /\ past' = [past EXCEPT ![f].saved = TRUE, ![f].lost = IF Insertion(f) THEN "insert" ELSE "update"]

Save(f) ==
  /\ At(f, "writing")
  /\ Apply(f)
  /\ known' = [known EXCEPT ![work[f].target] = Written(f)]
  /\ Move(f, "ended") /\ Conclude(f, "completed") /\ lock' = None
  /\ past' = [past EXCEPT ![f].saved = TRUE]

\* A conflict, or an error of the store, applied or not. The handler of an import may
\* be dropped here, with the same effect.
SaveFails(f) ==
  /\ At(f, "writing")
  /\ Unanswered(f) \/ UNCHANGED <<rows, past>>
  /\ Fail(f) /\ lock' = None
  /\ UNCHANGED known

\* The administrator leaves while an import waits.
Depart(f) ==
  /\ At(f, "locking") /\ work[f].kind = "import"
  /\ Move(f, "ended")
  /\ UNCHANGED <<flows, rows, known, lock, past>>

-----------------------------------------------------------------------------
(* The rest of the gateway. *)

\* Fifteen minutes, or five after the outcome.
Expire(f) ==
  /\ Current(f)
  /\ flows' = [flows EXCEPT ![f].late = TRUE]
  /\ UNCHANGED <<work, rows, known, lock, past>>

\* An operation on another account fails, and all accounts are read again.
Reload ==
  /\ lock = None
  /\ known' = [a \in Account |-> IF rows[a] # None THEN rows[a] ELSE known[a]]
  /\ UNCHANGED <<flows, work, rows, lock, past>>

DeleteAccount(a) ==
  /\ lock = None /\ known[a] # None
  /\ rows' = [rows EXCEPT ![a] = None] /\ known' = [known EXCEPT ![a] = None]
  /\ UNCHANGED <<flows, work, lock, past>>

\* The flows are in memory only.
Restart ==
  /\ \/ UNCHANGED <<rows, past>>
     \/ \E f \in Flow : At(f, "writing") /\ Unanswered(f)
  /\ known' = rows'
  /\ flows' = [f \in Flow |-> None]
  /\ work' = [f \in Flow |-> IF At(f, "new") THEN work[f] ELSE [work[f] EXCEPT !.at = "ended"]]
  /\ lock' = None

Idle == [at |-> "new", kind |-> None, target |-> None, upstream |-> None]

\* At most one account is managed at first.
Init ==
  /\ \E present \in SUBSET Account, u \in Upstream :
       /\ \A a, b \in present : a = b
       /\ rows = [a \in Account |-> IF a \in present THEN [upstream |-> u, by |-> None] ELSE None]
  /\ known = rows
  /\ flows = [f \in Flow |-> None]
  /\ work = [f \in Flow |-> Idle]
  /\ lock = None
  /\ past = [f \in Flow |-> [exchanges |-> 0, cancelled |-> FALSE, saved |-> FALSE, lost |-> None]]

FlowStep(f) ==
  \/ StartBrowser(f) \/ StartDevice(f) \/ DeviceCode(f) \/ Poll(f) \/ Complete(f) \/ Cancel(f)
  \/ Tokens(f) \/ Import(f) \/ Acquire(f) \/ Save(f) \/ SaveFails(f) \/ Depart(f) \/ Expire(f)

Next ==
  \/ \E f \in Flow : FlowStep(f)
  \/ \E a \in Account : DeleteAccount(a)
  \/ Reload \/ Restart

Spec == Init /\ [][Next]_vars

-----------------------------------------------------------------------------
(* Properties. *)

\* oauth_browser.rs: however often and in whatever order a callback is submitted and a
\* flow is cancelled, expires and is pruned, its code is exchanged once, and never
\* after an administrator was told that the flow is cancelled.
ExchangedOnce ==
  \A f \in Flow :
    /\ past[f].exchanges <= 1
    /\ past[f].cancelled => past[f].exchanges = 0 /\ ~past[f].saved

\* The page of a flow tells the truth: a success is in the store and an error means
\* that it is not, unless the store's answer was lost; a flow whose task has ended is
\* not shown as under way, but for a device flow that was left before it had a code.
OutcomeShown ==
  \A f \in Flow : Listed(f) =>
    /\ flows[f].status = "completed" => past[f].saved /\ past[f].lost = None
    /\ flows[f].status = "failed" => past[f].saved = (past[f].lost # None)
    /\ At(f, "ended") => flows[f].status \in {"completed", "failed", "starting"}

\* save_credentials and create_account: an upstream account is managed once, although
\* authorizations and imports of it run at once and the table has no such constraint;
\* only a row whose insertion was not answered can have a second one beside it. New
\* credentials of an account are those of the same upstream account.
Orphan(a) == \E f \in Flow : past[f].lost = "insert" /\ work[f].target = a

ManagedOnce ==
  /\ \A a, b \in Account :
       a # b /\ rows[a] # None /\ rows[b] # None /\ rows[a].upstream = rows[b].upstream =>
         Orphan(a) \/ Orphan(b)
  /\ \A a \in Account : rows[a] # None /\ rows[a].by # None =>
       work[rows[a].by].target = a /\ work[rows[a].by].upstream = rows[a].upstream

=============================================================================
