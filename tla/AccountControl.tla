---------------------------- MODULE AccountControl ----------------------------
(***************************************************************************)
(* The switch of an account: application/gateway.rs (set_enabled,          *)
(* disable_observed, the quota observations, credentials), the             *)
(* administrator's handlers in http/admin.rs and the accounts table.  One  *)
(* "mutations" lock serialises the changes; each writes the store first    *)
(* and the scheduler's copy of the record afterwards, and may fail or be   *)
(* dropped (its HTTP client left, its timeout fired) while it awaits the   *)
(* store.                                                                  *)
(*                                                                         *)
(* "status" is enabled and disable_reason in one: "on" or the reason.      *)
(***************************************************************************)
EXTENDS Integers, FiniteSets

CONSTANTS
  Account,
  Task,        \* handlers, request tasks and workers that change accounts
  Failing,     \* operations whose write may be answered by an error
  Uncertain,   \* those whose write may be applied although no answer says so
  MaxVersion, MaxCredentials,  \* bounds on version, credential_version (i64)
  None

SwitchOp  == {"enable", "disable"}
VerdictOp == {"reject", "observe", "poll", "reconcile"}
UpdateOp  == {"edit", "policy"}  \* "policy" changes use_extra_credits
RenewOp   == {"refresh", "authorize", "catalog"}
Op == SwitchOp \cup VerdictOp \cup UpdateOp \cup RenewOp \cup {"delete"}

ASSUME AccountAssumption ==
  /\ Uncertain \subseteq Failing
  /\ Failing \subseteq Op
  /\ MaxVersion \in Nat \ {0}
  /\ MaxCredentials \in Nat \ {0}
  /\ None \notin Account \cup Task

VARIABLES
  rows,      \* account -> its row of the accounts table
  gone,      \* accounts whose row has deleted_at
  windows,   \* account -> current quota window in the store
  credits,   \* accounts with fresh, unblocked extra credits in the store
  mem,       \* account -> record in the scheduler, None when absent
  tombs,     \* the scheduler's deleted_accounts
  blocked,
  paused,
  lock,      \* holder of the mutations lock
  tasks      \* task -> what it is doing, None when idle

store == <<rows, gone, windows, credits>>
scheduler == <<mem, tombs, blocked, paused>>
vars == <<store, scheduler, lock, tasks>>

Status == {"on", "admin", "oauth", "quota"}
Row == [status : Status, extra : BOOLEAN,
        version : 1..MaxVersion, credentials : 1..MaxCredentials]

\* "unknown": never observed; "spent": exhausted and before its reset.
Window == {"unknown", "open", "spent"}

\* What the task read when it started, and where it is: before the lock, at the
\* write, or reading all accounts after a write that failed.
Work == [op : Op, account : Account, version : 1..MaxVersion,
         credentials : 1..MaxCredentials, at : {"start", "writing", "reloading"},
         status : Status]

TypeOK ==
  /\ rows \in [Account -> Row]
  /\ gone \subseteq Account
  /\ windows \in [Account -> Window]
  /\ credits \subseteq Account
  /\ mem \in [Account -> Row \cup {None}]
  /\ tombs \subseteq Account
  /\ blocked \subseteq Account
  /\ paused \in BOOLEAN
  /\ lock \in Task \cup {None}
  /\ tasks \in [Task -> Work \cup {None}]

-----------------------------------------------------------------------------
(* The scheduler's side; each is one step under its mutex. *)

\* update_account: a record that is not deleted replaces the old one and lifts
\* the block.
Publish(a, record) ==
  /\ mem' = IF a \in tombs THEN mem ELSE [mem EXCEPT ![a] = record]
  /\ blocked' = IF a \in tombs THEN blocked ELSE blocked \ {a}
  /\ UNCHANGED <<tombs, paused>>

Block(a) == blocked' = blocked \cup {a} /\ UNCHANGED <<mem, tombs, paused>>

Remove(a) ==
  /\ mem' = [mem EXCEPT ![a] = None]
  /\ tombs' = tombs \cup {a}
  /\ UNCHANGED <<blocked, paused>>

PauseAll == paused' = TRUE /\ UNCHANGED <<mem, tombs, blocked>>

\* try_reserve may choose the account.
Dispatchable(a) ==
  mem[a] # None /\ mem[a].status = "on" /\ a \notin blocked /\ ~paused

-----------------------------------------------------------------------------
(* Tasks. *)

At(t, where) == tasks[t] # None /\ tasks[t].at = where
Doing(t, ops) == tasks[t] # None /\ tasks[t].op \in ops
Subject(t) == tasks[t].account

End(t) == tasks' = [tasks EXCEPT ![t] = None] /\ lock' = IF lock = t THEN None ELSE lock

\* Under the lock, at the await of the write that sets "status".
AwaitWrite(t, status) ==
  /\ lock' = t
  /\ tasks' = [tasks EXCEPT ![t].at = "writing", ![t].status = status]

\* The operations that compare with the version they began with.
Remembers == UpdateOp \cup {"reject", "observe", "poll", "refresh"}

\* A task begins with the record it finds in memory: the page of an
\* administrator, the account of a lease, or the account a worker polls.
Start(t) ==
  /\ tasks[t] = None
  /\ \E op \in Op, a \in Account, status \in {"oauth", "quota"} :
       /\ mem[a] # None
       /\ op \in {"refresh", "catalog"} =>
            \A u \in Task : ~(Doing(u, {op}) /\ Subject(u) = a)
       /\ op = "poll" => mem[a].status # "oauth"
       /\ op = "reconcile" => mem[a].status # "on" \/ mem[a].extra
       /\ op # "reject" => status = "quota"
       /\ tasks' = [tasks EXCEPT ![t] =
            [op |-> op, account |-> a, at |-> "start", status |-> status,
             version |-> IF op \in Remembers THEN mem[a].version ELSE 1,
             credentials |-> IF op = "refresh" THEN mem[a].credentials ELSE 1]]
  /\ UNCHANGED <<store, scheduler, lock>>

Entering(t, ops) ==
  /\ At(t, "start") /\ Doing(t, ops)
  /\ lock = None
  /\ mem[Subject(t)] # None

NotFound(t) ==
  /\ At(t, "start")
  /\ lock = None
  /\ mem[Subject(t)] = None
  /\ End(t)
  /\ UNCHANGED <<store, scheduler>>

\* set_enabled blocks before it disables; it uses the version it finds now.
SetEnabled(t) ==
  /\ Entering(t, SwitchOp)
  /\ IF tasks[t].op = "disable"
     THEN Block(Subject(t)) /\ AwaitWrite(t, "admin")
     ELSE UNCHANGED scheduler /\ AwaitWrite(t, "on")
  /\ UNCHANGED store

\* update_account of the administrator: the version its page showed.
Update(t) ==
  /\ Entering(t, UpdateOp)
  /\ IF tasks[t].version = mem[Subject(t)].version
     THEN Block(Subject(t)) /\ AwaitWrite(t, mem[Subject(t)].status)
     ELSE End(t) /\ UNCHANGED scheduler
  /\ UNCHANGED store

Delete(t) ==
  /\ Entering(t, {"delete"})
  /\ Block(Subject(t))
  /\ AwaitWrite(t, "admin")
  /\ UNCHANGED store

\* MUTANT: an observation is believed however old it is.
AnyVersion(t) == TRUE

\* A late answer must not undo what an administrator decided meanwhile.
StillCurrent(t) == tasks[t].version = mem[Subject(t)].version

\* disable_observed: a rejection by the upstream.
Rejected(t) ==
  LET a == Subject(t) IN
  /\ Entering(t, {"reject"})
  /\ IF mem[a].status = "on" /\ StillCurrent(t)
     THEN /\ \/ Block(a) /\ AwaitWrite(t, tasks[t].status)
             \/ UNCHANGED scheduler /\ End(t)  \* the credits were not stored
          /\ credits' \in {credits} \cup
               (IF tasks[t].status = "quota" THEN {credits \ {a}} ELSE {})
     ELSE End(t) /\ UNCHANGED <<scheduler, credits>>
  /\ UNCHANGED <<rows, gone, windows>>

\* reconcile_quota_locked looks at accounts that are on, and at those the quota
\* turned off when it may turn them on: the ticker always may, a poll when the
\* account uses extra credits, the headers and events of a request never.
MayRevive(t) ==
  LET a == Subject(t) IN
  \/ mem[a].status = "on"
  \/ /\ mem[a].status = "quota"
     /\ tasks[t].op = "reconcile" \/ (tasks[t].op = "poll" /\ mem[a].extra)

\* MUTANT: an exhausted quota disables without a reason.
VerdictWithoutReason(a) ==
  IF windows'[a] = "spent" /\ ~(mem[a].extra /\ a \in credits') THEN None ELSE "on"

\* quota_blocked over the windows of the subscription, the ones that extra
\* credits cover.
Verdict(a) ==
  IF windows'[a] = "spent" /\ ~(mem[a].extra /\ a \in credits') THEN "quota" ELSE "on"

\* apply_quota_observation saves what was observed, then the account is
\* reconciled with the stored windows.
Observe(t) ==
  LET a == Subject(t)
      on == mem[a].status = "on"
  IN
  /\ Entering(t, {"observe", "poll", "reconcile"})
  /\ IF tasks[t].op # "reconcile" /\ StillCurrent(t)
     THEN /\ \E w \in Window \ {"unknown"} :
               windows' \in {windows, [windows EXCEPT ![a] = w]}
          /\ credits' \in {credits, credits \cup {a}, credits \ {a}}
     ELSE UNCHANGED <<windows, credits>>
  /\ \/ /\ tasks[t].op = "reconcile" \/ StillCurrent(t)
        /\ MayRevive(t)
        /\ windows'[a] # "unknown"
        /\ (Verdict(a) = "on") # on
        /\ Block(a)
        /\ AwaitWrite(t, Verdict(a))
     \/ \* nothing to change, or the store failed before
        End(t) /\ UNCHANGED scheduler
  /\ UNCHANGED <<rows, gone>>

\* Writes that neither block the account nor give it a new version.
Renew(t, op) ==
  /\ Entering(t, {op})
  /\ AwaitWrite(t, mem[Subject(t)].status)
  /\ UNCHANGED <<store, scheduler>>

\* credentials(): the new tokens, for the credential_version it started with.
Refresh(t) == Renew(t, "refresh")

\* save_credentials of an authorization flow.
Authorize(t) == Renew(t, "authorize")

\* sync_models at save_model_catalog.
SyncModels(t) == Renew(t, "catalog")

\* The upstream refuses the refresh token.
RefreshRefused(t) ==
  /\ At(t, "start") /\ Doing(t, {"refresh"})
  /\ tasks' = [tasks EXCEPT ![t].op = "reject", ![t].status = "oauth"]
  /\ UNCHANGED <<store, scheduler, lock>>

-----------------------------------------------------------------------------
(* The write in the store, and its answers. *)

\* MUTANT: the last writer of a row wins.
AnyRow(t) == TRUE

\* The version, or credential_version, the caller expects.
ExpectedRow(t) ==
  LET a == Subject(t) IN
  CASE Doing(t, {"refresh"})            -> rows[a].credentials = tasks[t].credentials
    [] Doing(t, {"authorize"})          -> rows[a].credentials = mem[a].credentials
    [] Doing(t, {"catalog", "delete"})  -> TRUE
    [] OTHER                            -> rows[a].version = mem[a].version

Accepted(t) == Subject(t) \notin gone /\ ExpectedRow(t)

\* MUTANT: turning the switch is not a new version.
SameVersion(row) == row.version

NextVersion(row) == row.version + 1

\* put_account writes the record of the caller.
Edited(t) ==
  LET a == Subject(t) IN
  [mem[a] EXCEPT !.version = NextVersion(mem[a]),
                 !.credentials = rows[a].credentials,
                 !.extra = IF Doing(t, {"policy"}) THEN ~@ ELSE @]

\* The row after the statement.
Written(t) ==
  LET a == Subject(t) IN
  CASE Doing(t, UpdateOp) -> Edited(t)
    [] Doing(t, {"refresh", "authorize"}) -> [rows[a] EXCEPT !.credentials = @ + 1]
    [] Doing(t, {"catalog"}) -> rows[a]
    [] OTHER -> [rows[a] EXCEPT !.version = NextVersion(rows[a]), !.status = tasks[t].status]

\* The statement of t takes effect.
Apply(t) ==
  LET a == Subject(t) IN
  /\ Accepted(t)
  /\ Written(t).version <= MaxVersion
  /\ Written(t).credentials <= MaxCredentials
  /\ rows' = [rows EXCEPT ![a] = Written(t)]
  /\ gone' = IF Doing(t, {"delete"}) THEN gone \cup {a} ELSE gone

StoreKept == UNCHANGED <<rows, gone>>

Acknowledged(t) ==
  LET a == Subject(t) IN
  /\ At(t, "writing")
  /\ Apply(t)
  /\ IF Doing(t, {"delete"}) THEN Remove(a) ELSE Publish(a, rows'[a])
  /\ IF Doing(t, {"policy"})
     THEN /\ tasks' = [tasks EXCEPT ![t].op = "reconcile", ![t].at = "start"]
          /\ lock' = None
     ELSE End(t)
  /\ UNCHANGED <<windows, credits>>

\* MUTANT: an observer that cannot store its verdict lets the account go on.
UnblockOnly(t) == Publish(Subject(t), mem[Subject(t)])

\* A verdict that cannot be stored stops dispatch.
OnVerdictLost(t) == PauseAll

\* What the callers do when the write is answered with an error.
AfterError(t) ==
  \/ /\ Doing(t, SwitchOp \cup UpdateOp)
     /\ tasks' = [tasks EXCEPT ![t].at = "reloading"]
     /\ UNCHANGED <<scheduler, lock>>
  \/ /\ Doing(t, {"delete"})  \* the record from before the block
     /\ Publish(Subject(t), mem[Subject(t)])
     /\ End(t)
  \/ /\ Doing(t, VerdictOp)
     /\ OnVerdictLost(t)
     /\ End(t)
  \/ /\ Doing(t, RenewOp)
     /\ UNCHANGED scheduler
     /\ End(t)

\* No row, or another version.
Conflict(t) ==
  /\ At(t, "writing")
  /\ ~Accepted(t)
  /\ AfterError(t)
  /\ UNCHANGED store

WriteFails(t) ==
  /\ At(t, "writing")
  /\ tasks[t].op \in Failing
  /\ AfterError(t)
  /\ StoreKept \/ (tasks[t].op \in Uncertain /\ Apply(t))
  /\ UNCHANGED <<windows, credits>>

\* store.accounts() lists the rows that are not deleted.
Reload(t) ==
  LET listed == Account \ (gone \cup tombs) IN
  /\ At(t, "reloading")
  /\ mem' = [a \in Account |-> IF a \in listed THEN rows[a] ELSE mem[a]]
  /\ blocked' = blocked \ listed
  /\ End(t)
  /\ UNCHANGED <<store, tombs, paused>>

ReloadFails(t) ==
  /\ At(t, "reloading")
  /\ PauseAll
  /\ End(t)
  /\ UNCHANGED store

\* The handler or the request task is dropped at an await: the lock is free,
\* nothing is undone.
Dropped(t) ==
  /\ tasks[t] # None
  /\ End(t)
  /\ \/ StoreKept
     \/ At(t, "writing") /\ tasks[t].op \in Uncertain /\ Apply(t)
  /\ UNCHANGED <<scheduler, windows, credits>>

-----------------------------------------------------------------------------

\* A window passes its reset, credits become stale.
Elapse ==
  /\ \E a \in Account :
       \/ /\ windows[a] = "spent"
          /\ windows' = [windows EXCEPT ![a] = "open"]
          /\ UNCHANGED credits
       \/ /\ a \in credits
          /\ credits' = credits \ {a}
          /\ UNCHANGED windows
  /\ UNCHANGED <<rows, gone, scheduler, lock, tasks>>

\* A storage error elsewhere, such as an outcome that could not be stored.
PausedElsewhere == PauseAll /\ UNCHANGED <<store, lock, tasks>>

Loaded == [a \in Account |-> IF a \in gone' THEN None ELSE rows'[a]]

\* The process ends and starts again on the rows of the store.
Restart ==
  /\ StoreKept \/ (\E t \in Task : At(t, "writing") /\ Apply(t))
  /\ mem' = Loaded
  /\ tombs' = {} /\ blocked' = {} /\ paused' = FALSE
  /\ lock' = None
  /\ tasks' = [t \in Task |-> None]
  /\ UNCHANGED <<windows, credits>>

\* create_account and a first authorization store accounts disabled.
Init ==
  /\ rows \in [Account -> [status : Status, extra : BOOLEAN, version : {1}, credentials : {1}]]
  /\ gone = {}
  /\ windows = [a \in Account |-> "unknown"]
  /\ credits = {}
  /\ mem = rows
  /\ tombs = {}
  /\ blocked = {}
  /\ paused = FALSE
  /\ lock = None
  /\ tasks = [t \in Task |-> None]

TaskStep(t) ==
  \/ Start(t) \/ NotFound(t) \/ RefreshRefused(t)
  \/ SetEnabled(t) \/ Update(t) \/ Delete(t) \/ Rejected(t) \/ Observe(t)
  \/ Refresh(t) \/ Authorize(t) \/ SyncModels(t)
  \/ Acknowledged(t) \/ Conflict(t) \/ WriteFails(t)
  \/ Reload(t) \/ ReloadFails(t)
  \/ Dropped(t)

Next == (\E t \in Task : TaskStep(t)) \/ Elapse \/ PausedElsewhere \/ Restart

Spec == Init /\ [][Next]_vars

-----------------------------------------------------------------------------
(* Properties. *)

\* An account that the store has disabled or deleted is never chosen by the
\* scheduler, through failed writes, dropped handlers and restarts: blocking
\* comes before the write and is lifted only with a record that was read back.
DisabledStaysOut ==
  \A a \in Account : Dispatchable(a) => rows[a].status = "on" /\ a \notin gone

\* The scheduler's copy is never ahead of the store, and a copy of the same
\* version says the same: that is what makes the version checks sound, although
\* credentials and catalogs are written without a new version.
VersionIdentifiesState ==
  \A a \in Account : mem[a] # None =>
    /\ mem[a].version <= rows[a].version
    /\ mem[a].version = rows[a].version =>
         mem[a].status = rows[a].status /\ mem[a].extra = rows[a].extra /\ a \notin gone

Switched(a) == rows'[a].status # rows[a].status

\* An account that an administrator or a refused authorization has turned off
\* is turned on by an administrator only: no observation revives it, not even
\* one that works on a copy from before.
AdminDisableHolds ==
  [][\A a \in Account :
       Switched(a) /\ rows[a].status \in {"admin", "oauth"} =>
         \/ rows'[a].status # "on"
         \/ lock # None /\ Subject(lock) = a /\ Doing(lock, {"enable"})]_vars

\* What a request, a poll or a refresh observed before an administrator changed
\* the account does not change it afterwards.
LateObservationIgnored ==
  [][\A a \in Account :
       /\ Switched(a)
       /\ lock # None
       /\ Doing(lock, {"reject", "observe", "poll"})
       => tasks[lock].version = rows[a].version]_vars

\* design.md: nothing but the administrator's switch enables an account again; a
\* quota that resets never does.  (Accounts that use extra credits are excepted
\* by README.md.)
OnlyAdminEnables ==
  [][\A a \in Account :
       Switched(a) /\ rows'[a].status = "on" /\ ~rows[a].extra =>
         lock # None /\ Doing(lock, {"enable"})]_vars

=============================================================================
