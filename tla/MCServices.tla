------------------------------ MODULE MCServices ------------------------------
(***************************************************************************)
(* The components that stand beside the request path.  They share no state *)
(* in the code, so a behaviour of this module is one of a single component *)
(* ("part").  QuotaReset and SafetyGuard have variables of their own and   *)
(* rest in their initial states while another part runs; the other parts   *)
(* take the variables s1, s2, ... in turn, and the ones a part does not    *)
(* need stay None.                                                         *)
(***************************************************************************)
EXTENDS QuotaReset, TLC

CONSTANTS Request, Session, MaxSeen
VARIABLES part, count, stored, paused, requests, saved, seen,
          s1, s2, s3, s4, s5, s6, s7, s8, s9, s10, s11, s12

safetyVars == <<count, stored, paused, requests, saved, seen>>
partVars == <<s1, s2, s3, s4, s5, s6, s7, s8, s9, s10, s11, s12>>
allVars == <<part, vars, safetyVars, partVars>>

Parts == {"reset", "safety", "admission", "stream", "input", "mapping", "price",
          "ledger", "quota", "cycle", "keys", "authorization", "framing", "catalog", "job"}

Safety == INSTANCE SafetyGuard WITH Task <- Request, tasks <- requests

-----------------------------------------------------------------------------
(* The instances of the other components. *)

\* In steps of the thresholds: nothing in use, between the two, above them, and
\* each of the two domains.
MemoryUse == {[host |-> h, cgroup |-> c] : h \in {0, 1, 2}, c \in {0}}
               \cup {[host |-> 0, cgroup |-> 2], [host |-> 2, cgroup |-> 1]}
MemorySettings == {[reject |-> 2, resume |-> 0, readers |-> 1],
                   [reject |-> 2, resume |-> 1, readers |-> 2]}

Admitted == INSTANCE Admission WITH
  Usage <- MemoryUse, Settings <- MemorySettings, MaxBytes <- 1,
  usage <- s1, cfg <- s2, gate <- s3, readers <- s4, buffered <- s5, parser <- s6,
  rows <- s7, tasks <- s8

StreamEvent(kind, work, tokens, images, body) ==
  [kind |-> kind, work |-> work, tokens |-> tokens, images |-> images, body |-> body]
StreamEvents ==
  { StreamEvent("created", FALSE, None, {}, None),
    StreamEvent("created", TRUE, 1, {}, None),
    StreamEvent("item", TRUE, None, {"i"}, None),
    StreamEvent("limits", FALSE, None, {}, None),
    StreamEvent("completed", TRUE, 2, {"i", "j"}, None),
    StreamEvent("failed", FALSE, None, {}, "reasoning"),
    StreamEvent("failed", TRUE, 1, {}, "reasoning"),
    StreamEvent("failed", FALSE, None, {}, "policy") }

Stream == INSTANCE EventStream WITH
  Event <- StreamEvents, Input <- {{}, {"reasoning"}, {"reasoning", "tool"}},
  MaxEvents <- 3, MaxPreamble <- 1,
  kind <- s1, input <- s2, upstream <- s3, decoder <- s4, chunk <- s5, hold <- s6,
  record <- s7, row <- s8, latched <- s9, disable <- s10, sent <- s11, task <- s12

CONSTANTS Blank, Bad
Signals(h, m, t) == [header : h, meta : m, turn : t]
GivenInputs ==
  [ kind : {"responses", "search"},
    session : Signals({None, Blank, "a", "b"}, {None, "a"}, {None, Blank, "a"}),
    conversation : Signals({None, Blank, "b"}, {None, "c"}, {None}),
    thread : Signals({None, "b"}, {None, "c"}, {None, Blank}),
    window : Signals({None, "a"}, {None}, {None, Blank}),
    cache : {None, "a", "c", Bad}, id : {"c"} ]

Ids == INSTANCE IdentityInput WITH
  Value <- {"a", "b", "c"}, Given <- GivenInputs,
  input <- s1, stage <- s2, resolved <- s3, out <- s4

\* Rows of older gateways: aliases of two generations, a name that is no longer
\* derived that way, and an object that the client named with what is derived.
OldRows ==
  { <<1, "thread", "s", <<"old", 1, "thread", "s">>>>,
    <<1, "item", "alias1", <<"old", 1, "item", "alias1">>>>,
    <<2, "item", "alias2", <<"old", 2, "item", "alias2">>>>,
    <<1, "item", "own", <<"v5", 1, "item", "own">>>>,
    <<2, "item", "own", <<"v5", 2, "item", "own">>>> }

Mapped == INSTANCE IdentityMap WITH
  Task <- {"t1", "t2"},
  Names <- [t \in {"t1", "t2"} |-> {"s", t}],
  Refs <- [t \in {"t1", "t2"} |-> {"alias1", "alias2", "own", "new"}],
  Legacy <- OldRows, First <- 2, MaxGeneration <- 3,
  rows <- s1, generation <- s2, tasks <- s3, sent <- s4

\* Bills of a request: refused before it was sent, answered, and with a usage that
\* the upstream did not tell.
TextAnswer(input) ==
  [source |-> "responses", input |-> input, output |-> 1, cached |-> 0, reasoning |-> None,
   images |-> <<>>, count |-> 0, tier |-> None, complete |-> TRUE]
TextPrice ==
  [input |-> 1, cached |-> 1, output |-> 3, image_input |-> None, image_output |-> None,
   per_image |-> None, fast |-> None]
Bill(attempts, account, spark, answer) ==
  [attempts |-> attempts, account |-> account, kind |-> "responses", spark |-> spark,
   calls |-> 0, rate |-> None, answer |-> answer, requested |-> None, price |-> TextPrice]

Books == INSTANCE Ledger WITH
  Request <- Task,
  Bills <- { Bill(0, FALSE, FALSE, TextAnswer(2)), Bill(1, TRUE, FALSE, TextAnswer(2)),
             Bill(1, TRUE, TRUE, TextAnswer(None)) },
  HourLength <- 2, Kept <- 2, Details <- 1, MaxTime <- 5,
  now <- s1, up <- s2, rows <- s3, hourly <- s4, entries <- s5, spending <- s6,
  tasks <- s7, outcomes <- s8

\* Answers to price: every combination of totals that are told or not, with up to
\* two images, and standalone images.
ImageUsage == {None, [input |-> None, output |-> 0], [input |-> 1, output |-> 1]}
Images == {<<>>} \cup {<<i>> : i \in ImageUsage} \cup (ImageUsage \X ImageUsage)
Answers ==
  [ source : {"responses"}, input : {None, 0, 2}, output : {1}, cached : {None, 0, 1},
    reasoning : {None, 2}, images : Images, count : {0}, tier : {None, "fast", "default"},
    complete : {TRUE} ]
  \cup
  [ source : {"images"}, input : {None, 1, 2}, output : {1}, cached : {0}, reasoning : {None},
    images : {<<i>> : i \in ImageUsage}, count : {1, 2}, tier : {None}, complete : BOOLEAN ]
Prices ==
  {None} \cup
  { p \in [ input : {2}, cached : {1, 2}, output : {3}, image_input : {None, 4},
            image_output : {None, 5}, per_image : {None, 7}, fast : {None, 2} ] :
      p.per_image # None => p.image_input = None /\ p.image_output = None }

Quotas == INSTANCE QuotaWindows WITH
  Fresh <- 1, MaxTime <- 3, MaxSnapshots <- 3,
  now <- s1, snapshots <- s2, current <- s3, credits <- s4, tasks <- s5, rejected <- s6

Cycles == INSTANCE QuotaCycles WITH
  Length <- 3, Used <- {1, 2}, Reset <- {2, 3, 4}, MaxTime <- 2, MaxPoints <- 3,
  snapshots <- s1, now <- s2

Keys == INSTANCE KeyControl WITH
  Key <- Session, Group <- {"default", "other"}, Default <- "default",
  Request <- {"request"}, MaxVersion <- 2,
  rows <- s1, groups <- s2, stored <- s3, known <- s4, blocked <- s5, tombs <- s6,
  live <- s7, paused <- s8, lock <- s9, tasks <- s10, requests <- s11

Authorized == INSTANCE Authorizations WITH
  Flow <- Task, Account <- {1, 2, 3}, Upstream <- {"u", "v"}, MaxFlows <- 1,
  flows <- s1, work <- s2, rows <- s3, known <- s4, lock <- s5, past <- s6

\* Bytes of a byte order mark belong to text behind the beginning.
Framed == INSTANCE Framing WITH
  Byte <- {":", "cr", "lf", "b1", "b2"}, Mark <- <<"b1", "b2">>, Limit <- 4, MaxBytes <- 7,
  received <- s1, prefix <- s2, started <- s3, skip <- s4, line <- s5, buffer <- s6,
  pushed <- s7, events <- s8, failed <- s9

\* Requests for one account beside the job, and the job over two accounts.
ModelLists == <<{"m"}, {"m", "n"}>>

Synced == INSTANCE Catalogs WITH
  Account <- {1}, Handler <- {<<"handler", 1>>, <<"handler", 2>>}, Lists <- ModelLists,
  Aliases <- {<<"alias", "n">>}, MaxVersion <- 2,
  edition <- s1, models <- s2, rows <- s3, known <- s4, syncing <- s5, lock <- s6,
  work <- s7, job <- s8, unheard <- s9

AllSynced == INSTANCE Catalogs WITH
  Account <- {1, 2}, Handler <- {}, Lists <- ModelLists,
  Aliases <- {<<"alias", "n">>}, MaxVersion <- 2,
  edition <- s1, models <- s2, rows <- s3, known <- s4, syncing <- s5, lock <- s6,
  work <- s7, job <- s8, unheard <- s9

-----------------------------------------------------------------------------
(* The parts. *)

\* The variables that a part leaves None.
After2 == <<s3, s4, s5, s6, s7, s8, s9, s10, s11, s12>>
After4 == <<s5, s6, s7, s8, s9, s10, s11, s12>>
After6 == <<s7, s8, s9, s10, s11, s12>>
After8 == <<s9, s10, s11, s12>>
After9 == <<s10, s11, s12>>
After11 == <<s12>>

NoneAfter11 == s12 = None
NoneAfter9 == s10 = None /\ s11 = None /\ NoneAfter11
NoneAfter8 == s9 = None /\ NoneAfter9
NoneAfter6 == s7 = None /\ s8 = None /\ NoneAfter8
NoneAfter4 == s5 = None /\ s6 = None /\ NoneAfter6
NoneAfter2 == s3 = None /\ s4 = None /\ NoneAfter4

PricingInit ==
  /\ s1 \in Answers /\ s2 \in {None, "fast"} /\ s3 \in Prices /\ s4 = None
Valued ==
  /\ s4 = None
  /\ s4' = Books!Value(s1, s2, s3)
  /\ UNCHANGED <<s1, s2, s3>>

ServicesInit ==
  /\ part \in Parts
  /\ Init /\ Safety!Init
  /\ \/ part \in {"reset", "safety"} /\ s1 = None /\ s2 = None /\ NoneAfter2
     \/ part = "admission" /\ Admitted!Init /\ NoneAfter8
     \/ part = "stream" /\ Stream!Init
     \/ part = "input" /\ Ids!Init /\ NoneAfter4
     \/ part = "mapping" /\ Mapped!Init /\ NoneAfter4
     \/ part = "price" /\ PricingInit /\ NoneAfter4
     \/ part = "ledger" /\ Books!Init /\ NoneAfter8
     \/ part = "quota" /\ Quotas!Init /\ NoneAfter6
     \/ part = "cycle" /\ Cycles!Init /\ NoneAfter2
     \/ part = "keys" /\ Keys!Init /\ NoneAfter11
     \/ part = "authorization" /\ Authorized!Init /\ NoneAfter6
     \/ part = "framing" /\ Framed!Init /\ NoneAfter9
     \/ part = "catalog" /\ Synced!Init /\ NoneAfter9
     \/ part = "job" /\ AllSynced!Init /\ NoneAfter9

PartNext ==
  \/ part = "admission" /\ Admitted!Next /\ UNCHANGED After8
  \/ part = "stream" /\ Stream!Next
  \/ part = "input" /\ Ids!Next /\ UNCHANGED After4
  \/ part = "mapping" /\ Mapped!Next /\ UNCHANGED After4
  \/ part = "price" /\ Valued /\ UNCHANGED After4
  \/ part = "ledger" /\ Books!Next /\ UNCHANGED After8
  \/ part = "quota" /\ Quotas!Next /\ UNCHANGED After6
  \/ part = "cycle" /\ Cycles!Next /\ UNCHANGED After2
  \/ part = "keys" /\ Keys!Next /\ UNCHANGED After11
  \/ part = "authorization" /\ Authorized!Next /\ UNCHANGED After6
  \/ part = "framing" /\ Framed!Next /\ UNCHANGED After9
  \/ part = "catalog" /\ Synced!Next /\ UNCHANGED After9
  \/ part = "job" /\ AllSynced!Next /\ UNCHANGED After9
  \* their clocks, samples and streams end at a bound
  \/ part \in {"price", "ledger", "quota", "cycle", "framing"} /\ UNCHANGED partVars

ServicesNext ==
  \/ part = "reset" /\ Next /\ UNCHANGED <<part, safetyVars, partVars>>
  \/ part = "safety" /\ Safety!Next /\ UNCHANGED <<part, vars, partVars>>
  \/ PartNext /\ UNCHANGED <<part, vars, safetyVars>>

ServicesSpec == ServicesInit /\ [][ServicesNext]_allVars

ASSUME ServicesAssumption ==
  /\ ResetAssumption /\ Safety!SafetyAssumption
  /\ Admitted!AdmissionAssumption /\ Stream!StreamAssumption /\ Ids!InputAssumption /\ Mapped!MapAssumption
  /\ Books!LedgerAssumption /\ Quotas!QuotaAssumption /\ Cycles!CyclesAssumption
  /\ Keys!KeysAssumption /\ Authorized!AuthorizationAssumption
  /\ Framed!FramingAssumption /\ Synced!CatalogAssumption /\ AllSynced!CatalogAssumption

\* Operation and Request have the same members: no part uses both.
Symmetry == Permutations(Task) \cup Permutations(Operation)

-----------------------------------------------------------------------------
(* Properties; what each says of the code is at its definition in the component. *)

\* The types of all components.
ServicesTypeOK ==
  /\ TypeOK /\ Safety!TypeOK
  /\ part = "admission" => Admitted!TypeOK
  /\ part = "stream" => Stream!TypeOK
  /\ part = "input" => Ids!TypeOK
  /\ part = "mapping" => Mapped!TypeOK
  /\ part = "ledger" => Books!TypeOK
  /\ part = "quota" => Quotas!TypeOK
  /\ part = "cycle" => Cycles!TypeOK
  /\ part = "keys" => Keys!TypeOK
  /\ part = "authorization" => Authorized!TypeOK
  /\ part = "framing" => Framed!TypeOK
  /\ part = "catalog" => Synced!TypeOK
  /\ part = "job" => AllSynced!TypeOK

\* application/safety.rs: each rejected request counts once.
CountIsExact == Safety!CountIsExact

\* application/safety.rs: a session with three rejections sends nothing.
BlockedIsNotSent == Safety!BlockedIsNotSent

\* memory.rs and public.rs: readers and buffered bytes are counted exactly, and a
\* refused request has no task.
AdmissionHolds ==
  part = "admission" => Admitted!AdmissionCounted /\ Admitted!RefusedNeverRuns

\* memory.rs: a body is read only below the threshold of this moment.
EnteredBelowThreshold == [][part = "admission" => Admitted!EntersBelowThreshold]_allVars

\* wire.rs: the events of a stream do not depend on how it is cut.
EventsExact == part = "framing" => Framed!EventsExact

\* gateway.rs and events.rs: a client gets the events of one attempt, each once, and one
\* end; only an attempt that did nothing is repeated, the stored outcome is that of the
\* last one, and rejections are latched.
StreamOutcome ==
  part = "stream" =>
    /\ Stream!OneAttemptDelivered /\ Stream!RepeatedWithoutWork
    /\ Stream!OutcomeOfLastAttempt /\ Stream!RejectionsLatched

\* ingress.rs, request.rs, identity.rs and references.rs: the upstream knows a
\* request under one identity, a thread under one name for each binding, and gets
\* back the names it gave to objects.
IdentitiesKept ==
  /\ part = "input" => Ids!OneIdentityUpstream /\ Ids!NoIdentityLost
  /\ part = "mapping" => Mapped!IdentitiesStable /\ Mapped!OriginalsRestored

\* pricing.rs, requests.rs, account_spending.sql and reports.rs: nothing that is unknown
\* is priced, every request is counted once, the spending of a period is the sum over
\* the requests that finished in it, and the period of a quota lies within one cycle.
ReportsExact ==
  /\ part = "price" /\ s4 # None => Books!OnlyKnownSums(s1, s2, s3)
  /\ part = "ledger" => Books!CountedOnce /\ Books!ReportIsExact
  /\ part = "cycle" => Cycles!PeriodWithinCycle

\* gateway.rs and migration 0018: the quotas observed last are the ones in force, and
\* a rejection outlives older credits.
QuotasInOrder == part = "quota" => Quotas!NewestQuotaWins /\ Quotas!RejectionOutlivesCredits

\* oauth.rs, oauth_browser.rs and admin.rs: a code is exchanged once, the page of a flow
\* tells what is stored, and an upstream account is managed once.
AuthorizationsHold ==
  part = "authorization" =>
    Authorized!ExchangedOnce /\ Authorized!OutcomeShown /\ Authorized!ManagedOnce

\* admin.rs: a request is sent only under the key row in the store, and a change
\* that was answered leaves memory on what is stored, or the gateway paused.
KeysFollowStore == [][part = "keys" => Keys!SendsByStoredKey /\ Keys!AnswersSettled]_allVars

\* catalog.rs: a stored catalog is not replaced by an older one, its models have rows,
\* and the page of the job over all accounts tells what is under way.
CatalogsKept ==
  [][ /\ part = "catalog" => Synced!NeverOlder /\ Synced!StoredIsConfigured /\ Synced!JobTruthful
      /\ part = "job" => AllSynced!NeverOlder /\ AllSynced!StoredIsConfigured
                           /\ AllSynced!JobTruthful ]_allVars

=============================================================================
