-------------------------- MODULE AuthorizationProofs --------------------------
(***************************************************************************)
(* Proofs about Authorizations for any flows, accounts, upstream accounts  *)
(* and size of the table of flows.                                         *)
(***************************************************************************)
EXTENDS Authorizations, TLAPS

\* What a flow's entry, its handler and its history have to do with each other.
InOrder(f) ==
  /\ At(f, "new") => flows[f] = None
  /\ work[f].at \in {"new", "asking", "offered", "polling"} => past[f].exchanges = 0
  /\ ~At(f, "ended") => ~past[f].saved /\ past[f].lost = None
  /\ work[f].at \in {"locking", "writing"} => work[f].upstream \in Upstream
  /\ past[f].exchanges <= 1
  /\ past[f].cancelled => /\ flows[f] = None /\ work[f].at \in {"offered", "ended"}
                          /\ past[f].exchanges = 0 /\ ~past[f].saved
  /\ work[f].kind = "import" => flows[f] = None

\* What the page of a flow shows.
Shown(f) ==
  Listed(f) =>
    /\ flows[f].verifier <=> At(f, "offered")
    /\ At(f, "asking") => flows[f].status = "starting"
    /\ flows[f].status \in {"completed", "failed"} => At(f, "ended")
    /\ flows[f].status = "completed" => past[f].saved /\ past[f].lost = None
    /\ flows[f].status = "failed" => (past[f].saved <=> past[f].lost # None)
    /\ At(f, "ended") => flows[f].status \in {"completed", "failed", "starting"}

FlowsInOrder == \A f \in Flow : InOrder(f) /\ Shown(f)

\* The holder of the lock writes what still suits the accounts in memory.
WriterSuits ==
  \A f \in Flow :
    /\ At(f, "writing") <=> lock = f
    /\ At(f, "writing") =>
         LET a == work[f].target IN
         /\ a \in Account
         /\ known[a] = None => ~Managed(work[f].upstream)
         /\ known[a] # None => known[a].upstream = work[f].upstream

\* Memory lags behind the store by an insertion without an answer only, and never
\* differs from it in whose account it is.
MemoryFollows ==
  \A a \in Account :
    /\ known[a] # None => rows[a] # None /\ rows[a].upstream = known[a].upstream
    /\ rows[a] # None /\ known[a] = None => Orphan(a)

\* A row names the flow that wrote it, which has come to its end.
WrittenByFlow ==
  \A a \in Account : rows[a] # None /\ rows[a].by # None =>
    LET f == rows[a].by IN
    At(f, "ended") /\ work[f].target = a /\ work[f].upstream = rows[a].upstream

OneOfEach ==
  \A a, b \in Account :
    a # b /\ rows[a] # None /\ rows[b] # None /\ rows[a].upstream = rows[b].upstream =>
      Orphan(a) \/ Orphan(b)

AccountsInOrder == MemoryFollows /\ WrittenByFlow /\ OneOfEach

AuthInv == TypeOK /\ FlowsInOrder /\ WriterSuits /\ AccountsInOrder

-----------------------------------------------------------------------------
(* What a step leaves alone. *)

Ordered(f) == InOrder(f) /\ Shown(f)

\* An entry that is pruned or grows late shows nothing else.
LEMMA OthersInOrder ==
  ASSUME FlowsInOrder, NEW g \in Flow, work'[g] = work[g], past'[g] = past[g],
         flows'[g] # None => /\ flows[g] # None /\ flows'[g].status = flows[g].status
                             /\ flows'[g].verifier = flows[g].verifier
  PROVE  Ordered(g)'
<1>1. InOrder(g)'
  BY DEF FlowsInOrder, InOrder, At
<1>2. Shown(g)'
  BY DEF FlowsInOrder, Shown, Listed, At
<1> QED
  BY <1>1, <1>2 DEF Ordered

\* What has been lost stays so.
LEMMA OrphanStays ==
  ASSUME AuthorizationAssumption, AuthInv, NEW a \in Account, Orphan(a),
         \A g \in Flow : At(g, "ended") => work'[g] = work[g] /\ past'[g].lost = past[g].lost
  PROVE  Orphan(a)'
<1>1. PICK g \in Flow : past[g].lost = "insert" /\ work[g].target = a
  BY DEF Orphan
<1>2. At(g, "ended")
  BY <1>1 DEF AuthInv, FlowsInOrder, InOrder, AuthorizationAssumption
<1> QED
  BY <1>1, <1>2 DEF Orphan

LEMMA AccountsKept ==
  ASSUME AuthorizationAssumption, AuthInv, UNCHANGED <<rows, known>>,
         \A g \in Flow : At(g, "ended") => work'[g] = work[g] /\ past'[g].lost = past[g].lost
  PROVE  AccountsInOrder'
<1>1. \A a \in Account : Orphan(a) => Orphan(a)'
  BY OrphanStays
<1>2. MemoryFollows' /\ OneOfEach'
  BY <1>1 DEF AuthInv, AccountsInOrder, MemoryFollows, OneOfEach
<1>3. \A a \in Account : rows[a] # None /\ rows[a].by # None => rows[a].by \in Flow
  BY DEF AuthInv, TypeOK, Record
<1>4. WrittenByFlow'
  BY <1>3 DEF AuthInv, AccountsInOrder, WrittenByFlow, At
<1> QED
  BY <1>2, <1>4 DEF AccountsInOrder

LEMMA WriterKept ==
  ASSUME AuthInv, UNCHANGED <<known, lock>>,
         \A g \in Flow : At(g, "writing") \/ At(g, "writing")' => work'[g] = work[g]
  PROVE  WriterSuits'
BY DEF AuthInv, WriterSuits, At, Managed

\* A step of one flow before it has the lock.
LEMMA FlowMoves ==
  ASSUME AuthorizationAssumption, AuthInv, NEW f \in Flow,
         UNCHANGED <<rows, known, lock>>, TypeOK', Ordered(f)',
         \/ work'[f] = work[f]
         \/ work[f].at \notin {"writing", "ended"} /\ work'[f].at # "writing",
         past'[f].lost = past[f].lost,
         \A g \in Flow \ {f} :
           /\ work'[g] = work[g] /\ past'[g] = past[g]
           /\ flows'[g] # None => /\ flows[g] # None /\ flows'[g].status = flows[g].status
                                  /\ flows'[g].verifier = flows[g].verifier
  PROVE  AuthInv'
<1>1. FlowsInOrder'
  <2>1. \A g \in Flow \ {f} : Ordered(g)'
    BY OthersInOrder DEF AuthInv
  <2> QED
    BY <2>1 DEF FlowsInOrder, Ordered
<1>2. AccountsInOrder'
  BY AccountsKept DEF At
<1>3. WriterSuits'
  BY WriterKept DEF At
<1> QED
  BY <1>1, <1>2, <1>3 DEF AuthInv

LEMMA Moves ==
  ASSUME TypeOK, NEW f \in Flow, NEW stage \in Stage, Move(f, stage)
  PROVE  /\ work' \in [Flow -> Work]
         /\ work'[f].at = stage /\ work'[f].kind = work[f].kind
         /\ work'[f].target = work[f].target /\ work'[f].upstream = work[f].upstream
         /\ \A g \in Flow \ {f} : work'[g] = work[g]
BY DEF TypeOK, Move, Work

LEMMA Concludes ==
  ASSUME TypeOK, NEW f \in Flow, NEW status \in {"completed", "failed"}, Conclude(f, status)
  PROVE  /\ flows' \in [Flow -> Entry \cup {None}]
         /\ flows'[f] # None => /\ flows[f] # None /\ flows'[f].status = status
                                /\ flows'[f].verifier = flows[f].verifier
         /\ \A g \in Flow \ {f} : flows'[g] = flows[g]
<1>1. CASE flows[f] = None
  BY <1>1 DEF TypeOK, Conclude, Listed
<1>2. CASE flows[f] # None
  <2>1. flows[f] \in Entry
    BY <1>2 DEF TypeOK
  <2>2. PICK e \in Entry : e = [flows[f] EXCEPT !.status = status, !.late = FALSE]
    BY <2>1 DEF Entry
  <2>3. e.status = status /\ e.verifier = flows[f].verifier
    BY <2>1, <2>2 DEF Entry
  <2>4. flows' = [flows EXCEPT ![f] = e]
    BY <1>2, <2>2 DEF Conclude, Listed
  <2> QED
    BY <1>2, <2>3, <2>4 DEF TypeOK
<1> QED
  BY <1>1, <1>2

\* A flow that fails before its credentials are written.
LEMMA FailsInOrder ==
  ASSUME AuthorizationAssumption, AuthInv, NEW f \in Flow, Fail(f),
         work[f].at \in {"polling", "exchanging", "locking"}, UNCHANGED <<rows, known, lock, past>>
  PROVE  AuthInv'
<1>1. /\ work' \in [Flow -> Work] /\ work'[f].at = "ended" /\ work'[f].kind = work[f].kind
      /\ \A g \in Flow \ {f} : work'[g] = work[g]
  BY Moves DEF Fail, AuthInv, Stage
<1>2. /\ flows' \in [Flow -> Entry \cup {None}]
      /\ flows'[f] # None => /\ flows[f] # None /\ flows'[f].status = "failed"
                             /\ flows'[f].verifier = flows[f].verifier
      /\ \A g \in Flow \ {f} : flows'[g] = flows[g]
  BY Concludes DEF Fail, AuthInv
<1>3. InOrder(f) /\ Shown(f) /\ ~At(f, "ended")
  BY DEF AuthInv, FlowsInOrder, At
<1>4. InOrder(f)'
  BY <1>1, <1>2, <1>3 DEF InOrder, At
<1>5. Shown(f)'
  BY <1>1, <1>2, <1>3 DEF Shown, InOrder, Listed, At
<1>6. TypeOK'
  BY <1>1, <1>2 DEF AuthInv, TypeOK
<1> QED
  BY <1>1, <1>2, <1>4, <1>5, <1>6, FlowMoves DEF Ordered

-----------------------------------------------------------------------------
(* Each step keeps the invariant. *)

\* start prunes the table.
LEMMA StartStep ==
  ASSUME AuthorizationAssumption, AuthInv, NEW f \in Flow, StartBrowser(f) \/ StartDevice(f)
  PROVE  AuthInv'
<1>1. PICK kind \in {"browser", "device"}, stage \in {"offered", "asking"}, entry \in Entry :
        /\ Start(f, kind, stage, entry)
        /\ entry.verifier <=> stage = "offered"
        /\ entry.status = IF stage = "offered" THEN "pending" ELSE "starting"
  <2>1. CASE StartBrowser(f)
    <3>1. [status |-> "pending", verifier |-> TRUE, late |-> FALSE] \in Entry
      BY DEF Entry
    <3> QED
      BY <2>1, <3>1 DEF StartBrowser
  <2>2. CASE StartDevice(f)
    <3>1. [status |-> "starting", verifier |-> FALSE, late |-> FALSE] \in Entry
      BY DEF Entry
    <3> QED
      BY <2>2, <3>1 DEF StartDevice
  <2> QED
    BY <2>1, <2>2
<1>2. At(f, "new") /\ UNCHANGED <<rows, known, lock, past>>
  BY <1>1 DEF Start
<1>3. /\ Pruned \in [Flow -> Entry \cup {None}]
      /\ \A g \in Flow : Pruned[g] \in {flows[g], None}
  BY DEF Pruned, Current, Listed, AuthInv, TypeOK
<1>4. InOrder(f) /\ Shown(f) /\ flows[f] = None /\ Pruned[f] = None
  BY <1>2 DEF AuthInv, FlowsInOrder, InOrder, Pruned, Current, Listed
<1>5. CASE flows' = Pruned /\ UNCHANGED work
  <2>1. InOrder(f)' /\ Shown(f)'
    BY <1>2, <1>4, <1>5 DEF InOrder, Shown, Listed, At
  <2>2. TypeOK'
    BY <1>2, <1>3, <1>5 DEF AuthInv, TypeOK
  <2>3. \A g \in Flow \ {f} :
          /\ work'[g] = work[g] /\ past'[g] = past[g]
          /\ flows'[g] # None => flows'[g] = flows[g]
    BY <1>2, <1>3, <1>5
  <2> QED
    BY <1>2, <1>5, <2>1, <2>2, <2>3, FlowMoves DEF Ordered
<1>6. ASSUME flows' = [Pruned EXCEPT ![f] = entry],
             NEW target \in {a \in Account : known[a] # None} \cup {None},
             work' = [work EXCEPT ![f] = [at |-> stage, kind |-> kind, target |-> target, upstream |-> None]]
      PROVE  AuthInv'
  <2> DEFINE w == [at |-> stage, kind |-> kind, target |-> target, upstream |-> None]
  <2>1. w \in Work /\ w.at = stage /\ w.kind = kind
    BY DEF Work, Stage
  <2>2. work' = [work EXCEPT ![f] = w]
    BY <1>6
  <2> HIDE DEF w
  <2>3. /\ work' \in [Flow -> Work] /\ work'[f] = w /\ \A g \in Flow \ {f} : work'[g] = work[g]
        /\ flows' \in [Flow -> Entry \cup {None}] /\ flows'[f] = entry
        /\ \A g \in Flow \ {f} : flows'[g] \in {flows[g], None}
    BY <1>3, <1>6, <2>1, <2>2 DEF AuthInv, TypeOK
  <2>4. kind # "import" /\ past[f].exchanges = 0 /\ ~past[f].cancelled
    BY <1>2, <1>4 DEF InOrder, At
  <2>5. InOrder(f)'
    BY <1>2, <1>4, <2>1, <2>3, <2>4 DEF InOrder, At
  <2>6. Shown(f)'
    BY <1>1, <1>2, <2>1, <2>3 DEF Shown, Listed, At
  <2>7. TypeOK'
    BY <1>2, <2>3 DEF AuthInv, TypeOK
  <2>8. work[f].at \notin {"writing", "ended"} /\ work'[f].at # "writing"
    BY <1>2, <2>1, <2>3 DEF At
  <2> QED
    BY <1>2, <2>3, <2>5, <2>6, <2>7, <2>8, FlowMoves DEF Ordered
<1> QED
  BY <1>1, <1>5, <1>6 DEF Start

\* The answer to a device flow.
LEMMA DeviceCodeStep ==
  ASSUME AuthorizationAssumption, AuthInv, NEW f \in Flow, DeviceCode(f)
  PROVE  AuthInv'
<1>1. At(f, "asking") /\ UNCHANGED <<rows, known, lock, past>>
  BY DEF DeviceCode
<1>2. PICK stage \in {"polling", "ended"} :
        /\ Move(f, stage)
        /\ \/ stage = "polling" /\ flows' = Show(f, "pending")
           \/ stage = "ended" /\ flows' = [flows EXCEPT ![f] = None]
           \/ stage = "ended" /\ UNCHANGED flows
  BY DEF DeviceCode
<1>3. /\ work' \in [Flow -> Work] /\ work'[f].at = stage /\ work'[f].kind = work[f].kind
      /\ \A g \in Flow \ {f} : work'[g] = work[g]
  BY <1>2, Moves DEF AuthInv, Stage
<1>4. /\ flows' \in [Flow -> Entry \cup {None}]
      /\ flows'[f] # None => /\ flows[f] # None /\ flows'[f].verifier = flows[f].verifier
                             /\ stage = "polling" => flows'[f].status = "pending"
                             /\ stage = "ended" => flows'[f].status = flows[f].status
      /\ \A g \in Flow \ {f} : flows'[g] = flows[g]
  <2>1. CASE stage = "polling" /\ flows' = Show(f, "pending") /\ flows[f] # None
    <3>1. flows[f] \in Entry
      BY <2>1 DEF AuthInv, TypeOK
    <3>2. PICK e \in Entry : e = [flows[f] EXCEPT !.status = "pending"]
      BY <3>1 DEF Entry
    <3>3. e.status = "pending" /\ e.verifier = flows[f].verifier
      BY <3>1, <3>2 DEF Entry
    <3>4. flows' = [flows EXCEPT ![f] = e]
      BY <2>1, <3>2 DEF Show, Listed, AuthInv, TypeOK
    <3> QED
      BY <2>1, <3>3, <3>4 DEF AuthInv, TypeOK
  <2>2. CASE stage = "polling" /\ flows' = Show(f, "pending") /\ flows[f] = None
    BY <2>2 DEF Show, Listed, AuthInv, TypeOK
  <2>3. CASE stage = "ended" /\ flows' = [flows EXCEPT ![f] = None]
    BY <2>3 DEF AuthInv, TypeOK
  <2>4. CASE stage = "ended" /\ UNCHANGED flows
    BY <2>4 DEF AuthInv, TypeOK
  <2> QED
    BY <1>2, <2>1, <2>2, <2>3, <2>4
<1>5. InOrder(f) /\ Shown(f)
  BY DEF AuthInv, FlowsInOrder
<1>6. InOrder(f)'
  BY <1>1, <1>3, <1>4, <1>5 DEF InOrder, At
<1>7. Shown(f)'
  BY <1>1, <1>3, <1>4, <1>5 DEF Shown, Listed, At
<1>8. TypeOK'
  BY <1>1, <1>3, <1>4 DEF AuthInv, TypeOK
<1> QED
  BY <1>1, <1>3, <1>4, <1>6, <1>7, <1>8, FlowMoves DEF Ordered, At

\* A code is given up for its tokens by a flow that has not done so.
LEMMA ExchangeEffect ==
  ASSUME AuthInv, NEW f \in Flow, Exchange(f), work[f].at \in {"offered", "polling"}, ~past[f].cancelled
  PROVE  /\ work' \in [Flow -> Work] /\ work'[f].at = "exchanging" /\ work'[f].kind = work[f].kind
         /\ past' \in [Flow -> Past] /\ past'[f].exchanges = 1 /\ past'[f].lost = past[f].lost
         /\ (past'[f].saved <=> past[f].saved) /\ ~past'[f].cancelled
         /\ \A g \in Flow \ {f} : work'[g] = work[g] /\ past'[g] = past[g]
<1>1. past[f] \in Past /\ past[f].exchanges = 0
  BY DEF AuthInv, TypeOK, FlowsInOrder, InOrder
<1>2. PICK p \in Past : p = [past[f] EXCEPT !.exchanges = 1]
  <2>1. [past[f] EXCEPT !.exchanges = 1] \in Past
    BY <1>1 DEF Past
  <2> QED
    BY <2>1
<1>3. p.exchanges = 1 /\ p.lost = past[f].lost /\ p.saved = past[f].saved /\ p.cancelled = past[f].cancelled
  BY <1>1, <1>2 DEF Past
<1>4. past' = [past EXCEPT ![f] = p]
  BY <1>1, <1>2 DEF Exchange, AuthInv, TypeOK
<1>5. past' \in [Flow -> Past] /\ past'[f] = p /\ \A g \in Flow \ {f} : past'[g] = past[g]
  BY <1>4 DEF AuthInv, TypeOK
<1>6. /\ work' \in [Flow -> Work] /\ work'[f].at = "exchanging" /\ work'[f].kind = work[f].kind
      /\ \A g \in Flow \ {f} : work'[g] = work[g]
  BY Moves DEF AuthInv, Stage, Exchange
<1> QED
  BY <1>3, <1>5, <1>6

LEMMA PollStep ==
  ASSUME AuthorizationAssumption, AuthInv, NEW f \in Flow, Poll(f)
  PROVE  AuthInv'
<1>1. At(f, "polling") /\ UNCHANGED <<rows, known, lock>>
  BY DEF Poll
<1>2. CASE Fail(f) /\ UNCHANGED past
  BY <1>1, <1>2, FailsInOrder DEF At
<1>3. CASE Exchange(f) /\ UNCHANGED flows
  <2>1. InOrder(f) /\ Shown(f) /\ ~past[f].cancelled
    BY <1>1 DEF AuthInv, FlowsInOrder, InOrder, At
  <2>2. /\ work' \in [Flow -> Work] /\ work'[f].at = "exchanging" /\ work'[f].kind = work[f].kind
        /\ past' \in [Flow -> Past] /\ past'[f].exchanges = 1 /\ past'[f].lost = past[f].lost
        /\ (past'[f].saved <=> past[f].saved) /\ ~past'[f].cancelled
        /\ \A g \in Flow \ {f} : work'[g] = work[g] /\ past'[g] = past[g]
    BY <1>1, <1>3, <2>1, ExchangeEffect DEF At
  <2>3. InOrder(f)'
    BY <1>1, <1>3, <2>1, <2>2 DEF InOrder, At
  <2>4. Shown(f)'
    BY <1>1, <1>3, <2>1, <2>2 DEF Shown, Listed, At
  <2>5. TypeOK'
    BY <1>1, <1>3, <2>2 DEF AuthInv, TypeOK
  <2> QED
    BY <1>1, <1>3, <2>2, <2>3, <2>4, <2>5, FlowMoves DEF Ordered, At
<1> QED
  BY <1>2, <1>3 DEF Poll

\* Whoever takes the verifier is the only one to have it.
LEMMA CompleteStep ==
  ASSUME AuthorizationAssumption, AuthInv, NEW f \in Flow, Complete(f)
  PROVE  AuthInv'
<1>1. flows[f] \in Entry /\ flows[f].verifier /\ UNCHANGED <<rows, known, lock>>
  BY DEF Complete, Current, Listed, AuthInv, TypeOK
<1>2. InOrder(f) /\ Shown(f) /\ At(f, "offered") /\ ~past[f].cancelled
  <2>1. InOrder(f) /\ Shown(f)
    BY DEF AuthInv, FlowsInOrder
  <2> QED
    BY <1>1, <2>1 DEF Shown, InOrder, Complete, Current, Listed
<1>3. PICK e \in Entry : e = Taken(flows[f])
  BY <1>1 DEF Entry, Taken
<1>4. e.status = "exchanging" /\ ~e.verifier /\ flows' = [flows EXCEPT ![f] = e]
  BY <1>1, <1>3 DEF Entry, Taken, Complete
<1>5. /\ work' \in [Flow -> Work] /\ work'[f].at = "exchanging" /\ work'[f].kind = work[f].kind
      /\ past' \in [Flow -> Past] /\ past'[f].exchanges = 1 /\ past'[f].lost = past[f].lost
      /\ (past'[f].saved <=> past[f].saved) /\ ~past'[f].cancelled
      /\ \A g \in Flow \ {f} : work'[g] = work[g] /\ past'[g] = past[g]
  BY <1>2, ExchangeEffect DEF At, Complete
<1>6. /\ flows' \in [Flow -> Entry \cup {None}] /\ flows'[f] = e
      /\ \A g \in Flow \ {f} : flows'[g] = flows[g]
  BY <1>4 DEF AuthInv, TypeOK
<1>7. InOrder(f)'
  BY <1>1, <1>2, <1>5 DEF InOrder, At, Complete, Current, Listed
<1>8. Shown(f)'
  BY <1>4, <1>5, <1>6 DEF Shown, Listed, At
<1>9. TypeOK'
  BY <1>1, <1>5, <1>6 DEF AuthInv, TypeOK
<1> QED
  BY <1>1, <1>2, <1>5, <1>6, <1>7, <1>8, <1>9, FlowMoves DEF Ordered, At

\* A cancelled flow has given its verifier back, or has lost it with its entry.
LEMMA CancelStep ==
  ASSUME AuthorizationAssumption, AuthInv, NEW f \in Flow, Cancel(f)
  PROVE  AuthInv'
<1>1. /\ UNCHANGED <<rows, known, lock>> /\ work[f].kind = "browser"
      /\ past' = [past EXCEPT ![f].cancelled = @ \/ At(f, "offered")]
  BY DEF Cancel
<1>2. InOrder(f) /\ Shown(f) /\ past[f] \in Past
  BY DEF AuthInv, TypeOK, FlowsInOrder
<1>3. /\ past' \in [Flow -> Past] /\ past'[f].exchanges = past[f].exchanges
      /\ past'[f].lost = past[f].lost /\ (past'[f].saved <=> past[f].saved)
      /\ (past'[f].cancelled <=> past[f].cancelled \/ At(f, "offered"))
      /\ \A g \in Flow \ {f} : past'[g] = past[g]
  <2>1. PICK c \in BOOLEAN : c <=> past[f].cancelled \/ At(f, "offered")
    OBVIOUS
  <2>2. PICK p \in Past : p = [past[f] EXCEPT !.cancelled = c]
    <3>1. [past[f] EXCEPT !.cancelled = c] \in Past
      BY <1>2 DEF Past
    <3> QED
      BY <3>1
  <2>3. /\ p.exchanges = past[f].exchanges /\ p.lost = past[f].lost
        /\ p.saved = past[f].saved /\ p.cancelled = c
    BY <1>2, <2>2 DEF Past
  <2>4. (past[f].cancelled \/ At(f, "offered")) = c
    BY <1>2, <2>1 DEF Past
  <2>5. past' = [past EXCEPT ![f] = p]
    BY <1>1, <2>2, <2>4 DEF AuthInv, TypeOK
  <2>6. past' \in [Flow -> Past] /\ past'[f] = p /\ \A g \in Flow \ {f} : past'[g] = past[g]
    BY <2>5 DEF AuthInv, TypeOK
  <2> QED
    BY <2>1, <2>3, <2>6
<1>4. CASE flows[f] # None /\ flows[f].verifier
  <2>1. flows' = [flows EXCEPT ![f] = None] /\ Move(f, "ended") /\ At(f, "offered")
    BY <1>2, <1>4 DEF Cancel, Listed, Shown
  <2>2. /\ work' \in [Flow -> Work] /\ work'[f].at = "ended" /\ work'[f].kind = work[f].kind
        /\ \A g \in Flow \ {f} : work'[g] = work[g]
    BY <2>1, Moves DEF AuthInv, Stage
  <2>3. /\ flows' \in [Flow -> Entry \cup {None}] /\ flows'[f] = None
        /\ \A g \in Flow \ {f} : flows'[g] = flows[g]
    BY <2>1 DEF AuthInv, TypeOK
  <2>4. InOrder(f)' /\ Shown(f)'
    BY <1>2, <1>3, <2>1, <2>2, <2>3 DEF InOrder, Shown, Listed, At
  <2>5. TypeOK'
    BY <1>1, <1>3, <2>2, <2>3 DEF AuthInv, TypeOK
  <2> QED
    BY <1>1, <1>3, <2>1, <2>2, <2>3, <2>4, <2>5, FlowMoves DEF Ordered, At
<1>5. CASE ~(flows[f] # None /\ flows[f].verifier)
  <2>1. UNCHANGED <<flows, work>>
    BY <1>5 DEF Cancel, Listed
  <2>2. At(f, "offered") => flows[f] = None
    BY <1>2, <1>5 DEF Shown, Listed
  <2>3. InOrder(f)'
    BY <1>2, <1>3, <2>1, <2>2 DEF InOrder, At
  <2>4. Shown(f)'
    BY <1>2, <1>3, <2>1 DEF Shown, Listed, At
  <2>5. TypeOK'
    BY <1>1, <1>3, <2>1 DEF AuthInv, TypeOK
  <2> QED
    BY <1>1, <1>3, <2>1, <2>3, <2>4, <2>5, FlowMoves DEF Ordered
<1> QED
  BY <1>4, <1>5

LEMMA TokensStep ==
  ASSUME AuthorizationAssumption, AuthInv, NEW f \in Flow, Tokens(f)
  PROVE  AuthInv'
<1>1. At(f, "exchanging") /\ UNCHANGED <<rows, known, lock, past>>
  BY DEF Tokens
<1>2. CASE Fail(f)
  BY <1>1, <1>2, FailsInOrder DEF At
<1>3. ASSUME NEW u \in Upstream, work' = [work EXCEPT ![f].at = "locking", ![f].upstream = u],
             UNCHANGED flows
      PROVE  AuthInv'
  <2>1. work[f] \in Work /\ InOrder(f) /\ Shown(f)
    BY DEF AuthInv, TypeOK, FlowsInOrder
  <2>2. PICK w \in Work : w = [work[f] EXCEPT !.at = "locking", !.upstream = u]
    BY <2>1 DEF Work, Stage
  <2>3. w.at = "locking" /\ w.kind = work[f].kind /\ w.upstream \in Upstream
    BY <2>1, <2>2 DEF Work
  <2>4. /\ work' \in [Flow -> Work] /\ work'[f] = w
        /\ \A g \in Flow \ {f} : work'[g] = work[g]
    BY <1>3, <2>2 DEF AuthInv, TypeOK
  <2>5. InOrder(f)'
    BY <1>1, <1>3, <2>1, <2>3, <2>4 DEF InOrder, At
  <2>6. Shown(f)'
    BY <1>1, <1>3, <2>1, <2>3, <2>4 DEF Shown, Listed, At
  <2>7. TypeOK'
    BY <1>1, <1>3, <2>4 DEF AuthInv, TypeOK
  <2> QED
    BY <1>1, <1>3, <2>3, <2>4, <2>5, <2>6, <2>7, FlowMoves DEF Ordered, At
<1> QED
  BY <1>2, <1>3 DEF Tokens

\* An import begins, or is left while it waits.
LEMMA ImportStep ==
  ASSUME AuthorizationAssumption, AuthInv, NEW f \in Flow, Import(f) \/ Depart(f)
  PROVE  AuthInv'
<1>1. /\ work[f].at \in {"new", "locking"} /\ UNCHANGED <<flows, rows, known, lock, past>>
      /\ InOrder(f) /\ Shown(f)
  BY DEF Import, Depart, At, AuthInv, FlowsInOrder
<1>2. flows[f] = None
  BY <1>1 DEF Import, Depart, At, InOrder
<1>3. PICK w \in Work :
        /\ \/ w.at = "locking" /\ w.upstream \in Upstream
           \/ w.at = "ended"
        /\ work' = [work EXCEPT ![f] = w]
  <2>1. CASE Import(f)
    <3>1. PICK u \in Upstream :
            work' = [work EXCEPT ![f] = [at |-> "locking", kind |-> "import", target |-> None, upstream |-> u]]
      BY <2>1 DEF Import
    <3>2. [at |-> "locking", kind |-> "import", target |-> None, upstream |-> u] \in Work
      BY DEF Work, Stage
    <3> QED
      BY <3>1, <3>2
  <2>2. CASE Depart(f)
    <3>1. work[f] \in Work
      BY DEF AuthInv, TypeOK
    <3>2. [work[f] EXCEPT !.at = "ended"] \in Work /\ [work[f] EXCEPT !.at = "ended"].at = "ended"
      BY <3>1 DEF Work, Stage
    <3>3. work' = [work EXCEPT ![f] = [work[f] EXCEPT !.at = "ended"]]
      BY <2>2 DEF Depart, Move
    <3> QED
      BY <3>2, <3>3
  <2> QED
    BY <2>1, <2>2
<1>4. /\ work' \in [Flow -> Work] /\ work'[f] = w /\ \A g \in Flow \ {f} : work'[g] = work[g]
  BY <1>3 DEF AuthInv, TypeOK
<1>5. ~past[f].cancelled
  BY <1>1 DEF InOrder
<1>6. InOrder(f)'
  BY <1>1, <1>2, <1>3, <1>4, <1>5 DEF InOrder, At
<1>7. Shown(f)'
  BY <1>1, <1>2 DEF Shown, Listed
<1>8. TypeOK'
  BY <1>1, <1>4 DEF AuthInv, TypeOK
<1> QED
  BY <1>1, <1>3, <1>4, <1>6, <1>7, <1>8, FlowMoves DEF Ordered

\* Time passes for an entry.
LEMMA ExpireStep ==
  ASSUME AuthorizationAssumption, AuthInv, NEW f \in Flow, Expire(f)
  PROVE  AuthInv'
<1>1. flows[f] \in Entry /\ UNCHANGED <<work, rows, known, lock, past>>
  BY DEF Expire, Current, Listed, AuthInv, TypeOK
<1>2. PICK e \in Entry : e = [flows[f] EXCEPT !.late = TRUE]
  BY <1>1 DEF Entry
<1>3. e.status = flows[f].status /\ e.verifier = flows[f].verifier
  BY <1>1, <1>2 DEF Entry
<1>4. flows' = [flows EXCEPT ![f] = e]
  BY <1>2 DEF Expire
<1>5. /\ flows' \in [Flow -> Entry \cup {None}] /\ flows'[f] = e /\ flows[f] # None
      /\ \A g \in Flow \ {f} : flows'[g] = flows[g]
  BY <1>4 DEF AuthInv, TypeOK, Expire, Current, Listed
<1>6. Ordered(f)'
  BY <1>1, <1>3, <1>5, OthersInOrder DEF AuthInv
<1>7. TypeOK'
  BY <1>1, <1>5 DEF AuthInv, TypeOK
<1> QED
  BY <1>1, <1>5, <1>6, <1>7, FlowMoves DEF Ordered

\* The checks under the lock.
LEMMA AcquireStep ==
  ASSUME AuthorizationAssumption, AuthInv, NEW f \in Flow, Acquire(f)
  PROVE  AuthInv'
<1>1. At(f, "locking") /\ lock = None /\ UNCHANGED <<rows, known, past>>
  BY DEF Acquire
<1>2. CASE Fail(f) /\ UNCHANGED lock
  BY <1>1, <1>2, FailsInOrder DEF At
<1>3. ASSUME Suits(f), NEW a \in Account,
             IF work[f].target = None THEN Fresh(a) /\ rows[a] = None /\ known[a] = None
             ELSE a = work[f].target,
             work' = [work EXCEPT ![f].at = "writing", ![f].target = a],
             lock' = f, UNCHANGED flows
      PROVE  AuthInv'
  <2>1. work[f] \in Work /\ InOrder(f) /\ Shown(f)
    BY DEF AuthInv, TypeOK, FlowsInOrder
  <2>2. PICK w \in Work : w = [work[f] EXCEPT !.at = "writing", !.target = a]
    BY <2>1 DEF Work, Stage
  <2>3. w.at = "writing" /\ w.kind = work[f].kind /\ w.target = a /\ w.upstream = work[f].upstream
    BY <2>1, <2>2 DEF Work
  <2>4. /\ work' \in [Flow -> Work] /\ work'[f] = w
        /\ \A g \in Flow \ {f} : work'[g] = work[g]
    BY <1>3, <2>2 DEF AuthInv, TypeOK
  <2>5. InOrder(f)'
    BY <1>1, <1>3, <2>1, <2>3, <2>4 DEF InOrder, At
  <2>6. Shown(f)'
    BY <1>1, <1>3, <2>1, <2>3, <2>4 DEF Shown, Listed, At
  <2>7. \A g \in Flow \ {f} : Ordered(g)'
    BY <1>1, <1>3, <2>4, OthersInOrder DEF AuthInv
  <2>8. FlowsInOrder'
    BY <2>5, <2>6, <2>7 DEF FlowsInOrder, Ordered
  <2>9. AccountsInOrder'
    BY <1>1, <2>4, AccountsKept DEF At
  <2>10. /\ known[a] = None => ~Managed(work[f].upstream)
         /\ known[a] # None => known[a].upstream = work[f].upstream
    <3>1. CASE work[f].target = None
      BY <1>3, <3>1 DEF Suits
    <3>2. CASE work[f].target # None
      BY <1>3, <3>2 DEF Suits
    <3> QED
      BY <3>1, <3>2
  <2>11. \A g \in Flow : ~At(g, "writing")
    BY <1>1 DEF AuthInv, WriterSuits, AuthorizationAssumption
  <2>12. WriterSuits'
    <3>1. \A u : Managed(u)' <=> Managed(u)
      BY <1>1 DEF Managed
    <3> QED
      BY <1>1, <1>3, <2>3, <2>4, <2>10, <2>11, <3>1 DEF WriterSuits, At
  <2>13. TypeOK'
    BY <1>1, <1>3, <2>4 DEF AuthInv, TypeOK
  <2> QED
    BY <2>8, <2>9, <2>12, <2>13 DEF AuthInv
<1> QED
  BY <1>1, <1>2, <1>3 DEF Acquire

\* What is written under the lock is the only managed account of the upstream's.
LEMMA WriteEffect ==
  ASSUME AuthorizationAssumption, AuthInv, NEW f \in Flow, At(f, "writing"), Apply(f),
         work'[f].at = "ended", work'[f].target = work[f].target,
         work'[f].upstream = work[f].upstream,
         \A g \in Flow \ {f} : At(g, "ended") => work'[g] = work[g] /\ past'[g].lost = past[g].lost
  PROVE  LET a == work[f].target IN
         /\ a \in Account /\ Written(f) \in Record /\ Written(f) # None
         /\ Written(f).upstream = work[f].upstream
         /\ rows' \in [Account -> Record \cup {None}] /\ rows'[a] = Written(f)
         /\ \A b \in Account \ {a} : rows'[b] = rows[b]
         /\ \A b \in Account : Orphan(b) => Orphan(b)'
         /\ WrittenByFlow' /\ OneOfEach'
<1>1. PICK a \in Account, u \in Upstream : a = work[f].target /\ u = work[f].upstream
  BY DEF AuthInv, WriterSuits, FlowsInOrder, InOrder, At
<1>2. PICK row \in Record : row = Written(f) /\ row.upstream = u /\ row.by = f /\ row # None
  <2>1. [upstream |-> u, by |-> f] \in Record
    BY DEF Record
  <2> QED
    BY <1>1, <2>1 DEF Written, AuthorizationAssumption
<1>3. /\ rows' \in [Account -> Record \cup {None}] /\ rows'[a] = row
      /\ \A b \in Account \ {a} : rows'[b] = rows[b]
  BY <1>1, <1>2 DEF Apply, AuthInv, TypeOK
<1>4. \A b \in Account : Orphan(b) => Orphan(b)'
  BY OrphanStays DEF At
<1>5. WrittenByFlow'
  <2>1. \A b \in Account : rows[b] # None /\ rows[b].by # None => rows[b].by \in Flow
    BY DEF AuthInv, TypeOK, Record
  <2>2. \A b \in Account \ {a} : rows[b] # None /\ rows[b].by # None =>
          LET g == rows[b].by IN
          g # f /\ At(g, "ended") /\ work[g].target = b /\ work[g].upstream = rows[b].upstream
    BY DEF AuthInv, AccountsInOrder, WrittenByFlow, At
  <2> QED
    BY <1>1, <1>2, <1>3, <2>1, <2>2 DEF WrittenByFlow, At
<1>6. ASSUME NEW c \in Account \ {a}, rows[c] # None, rows[c].upstream = u
      PROVE  Orphan(a) \/ Orphan(c)
  <2>1. CASE known[a] = None
    <3>1. ~Managed(u)
      BY <1>1, <2>1 DEF AuthInv, WriterSuits
    <3>2. known[c] = None
      BY <1>6, <3>1 DEF Managed, AuthInv, AccountsInOrder, MemoryFollows
    <3> QED
      BY <1>6, <3>2 DEF AuthInv, AccountsInOrder, MemoryFollows
  <2>2. CASE known[a] # None
    <3>1. known[a].upstream = u
      BY <1>1, <2>2 DEF AuthInv, WriterSuits
    <3>2. rows[a] # None /\ rows[a].upstream = u
      BY <2>2, <3>1 DEF AuthInv, AccountsInOrder, MemoryFollows
    <3> QED
      BY <1>6, <3>2 DEF AuthInv, AccountsInOrder, OneOfEach
  <2> QED
    BY <2>1, <2>2
<1>7. OneOfEach'
  <2>1. SUFFICES ASSUME NEW b \in Account, NEW c \in Account, b # c,
                        rows'[b] # None, rows'[c] # None, rows'[b].upstream = rows'[c].upstream
                 PROVE  Orphan(b)' \/ Orphan(c)'
    BY DEF OneOfEach
  <2>2. Orphan(b) \/ Orphan(c)
    <3>1. CASE b = a
      BY <1>2, <1>3, <1>6, <2>1, <3>1
    <3>2. CASE c = a
      BY <1>2, <1>3, <1>6, <2>1, <3>2
    <3>3. CASE b # a /\ c # a
      BY <1>3, <2>1, <3>3 DEF AuthInv, AccountsInOrder, OneOfEach
    <3> QED
      BY <3>1, <3>2, <3>3
  <2> QED
    BY <1>4, <2>2
<1> QED
  BY <1>1, <1>2, <1>3, <1>4, <1>5, <1>7

LEMMA LostEffect ==
  ASSUME AuthorizationAssumption, AuthInv, NEW f \in Flow, At(f, "writing"),
         NEW lost \in {"insert", "update", None},
         past' = [past EXCEPT ![f].saved = TRUE, ![f].lost = lost]
  PROVE  /\ past' \in [Flow -> Past] /\ past'[f].saved /\ past'[f].lost = lost
         /\ past'[f].exchanges = past[f].exchanges /\ ~past'[f].cancelled
         /\ \A g \in Flow \ {f} : past'[g] = past[g]
<1>1. past[f] \in Past /\ ~past[f].cancelled
  BY DEF AuthInv, TypeOK, FlowsInOrder, InOrder, At
<1>2. PICK p \in Past : p = [past[f] EXCEPT !.saved = TRUE, !.lost = lost]
  <2>1. [past[f] EXCEPT !.saved = TRUE, !.lost = lost] \in Past
    BY <1>1 DEF Past
  <2> QED
    BY <2>1
<1>3. p.saved /\ p.lost = lost /\ p.exchanges = past[f].exchanges /\ p.cancelled = past[f].cancelled
  BY <1>1, <1>2 DEF Past
<1>4. past' \in [Flow -> Past] /\ past'[f] = p /\ \A g \in Flow \ {f} : past'[g] = past[g]
  BY <1>2 DEF AuthInv, TypeOK
<1> QED
  BY <1>1, <1>3, <1>4

\* The holder of the lock comes to its end.
LEMMA WriterEnds ==
  ASSUME AuthorizationAssumption, AuthInv, NEW f \in Flow, At(f, "writing"),
         NEW status \in {"completed", "failed"}, Move(f, "ended"), Conclude(f, status), lock' = None,
         past' \in [Flow -> Past], past'[f].exchanges = past[f].exchanges, ~past'[f].cancelled,
         \A g \in Flow \ {f} : past'[g] = past[g],
         status = "completed" => past'[f].saved /\ past'[f].lost = None,
         status = "failed" => (past'[f].saved <=> past'[f].lost # None)
  PROVE  /\ work' \in [Flow -> Work] /\ flows' \in [Flow -> Entry \cup {None}]
         /\ work'[f].at = "ended" /\ work'[f].target = work[f].target
         /\ work'[f].upstream = work[f].upstream
         /\ \A g \in Flow \ {f} : work'[g] = work[g]
         /\ FlowsInOrder' /\ WriterSuits'
<1>1. /\ work' \in [Flow -> Work]
      /\ work'[f].at = "ended" /\ work'[f].kind = work[f].kind
      /\ work'[f].target = work[f].target /\ work'[f].upstream = work[f].upstream
      /\ \A g \in Flow \ {f} : work'[g] = work[g]
  BY Moves DEF AuthInv, Stage
<1>2. /\ flows' \in [Flow -> Entry \cup {None}]
      /\ flows'[f] # None => /\ flows[f] # None /\ flows'[f].status = status
                             /\ flows'[f].verifier = flows[f].verifier
      /\ \A g \in Flow \ {f} : flows'[g] = flows[g]
  BY Concludes DEF AuthInv
<1>3. InOrder(f) /\ Shown(f)
  BY DEF AuthInv, FlowsInOrder
<1>4. InOrder(f)'
  BY <1>1, <1>2, <1>3 DEF InOrder, At
<1>5. Shown(f)'
  BY <1>1, <1>2, <1>3 DEF Shown, Listed, At
<1>6. \A g \in Flow \ {f} : Ordered(g)'
  BY <1>1, <1>2, OthersInOrder DEF AuthInv
<1>7. FlowsInOrder'
  BY <1>4, <1>5, <1>6 DEF FlowsInOrder, Ordered
<1>8. WriterSuits'
  <2>1. \A g \in Flow : ~At(g, "writing")'
    BY <1>1 DEF AuthInv, WriterSuits, At
  <2> QED
    BY <2>1 DEF WriterSuits, AuthorizationAssumption
<1> QED
  BY <1>1, <1>2, <1>7, <1>8

LEMMA SaveStep ==
  ASSUME AuthorizationAssumption, AuthInv, NEW f \in Flow, Save(f)
  PROVE  AuthInv'
<1>1. past' = [past EXCEPT ![f].saved = TRUE] /\ past[f] \in Past /\ past[f].lost = None
  BY DEF Save, AuthInv, TypeOK, FlowsInOrder, InOrder, At
<1>2. past' = [past EXCEPT ![f].saved = TRUE, ![f].lost = None]
  <2>1. [past[f] EXCEPT !.saved = TRUE] = [past[f] EXCEPT !.saved = TRUE, !.lost = None]
    BY <1>1 DEF Past
  <2> QED
    BY <1>1, <2>1 DEF AuthInv, TypeOK
<1>3. /\ past' \in [Flow -> Past] /\ past'[f].saved /\ past'[f].lost = None
      /\ past'[f].exchanges = past[f].exchanges /\ ~past'[f].cancelled
      /\ \A g \in Flow \ {f} : past'[g] = past[g]
  BY <1>2, LostEffect DEF Save
<1>4. /\ work' \in [Flow -> Work] /\ flows' \in [Flow -> Entry \cup {None}]
      /\ work'[f].at = "ended" /\ work'[f].target = work[f].target
      /\ work'[f].upstream = work[f].upstream
      /\ \A g \in Flow \ {f} : work'[g] = work[g]
      /\ FlowsInOrder' /\ WriterSuits'
  BY <1>3, WriterEnds DEF Save
<1>5. PICK a : a = work[f].target
  OBVIOUS
<1>6. /\ a \in Account /\ Written(f) \in Record /\ Written(f) # None
      /\ rows' \in [Account -> Record \cup {None}] /\ rows'[a] = Written(f)
      /\ \A b \in Account \ {a} : rows'[b] = rows[b]
      /\ \A b \in Account : Orphan(b) => Orphan(b)'
      /\ WrittenByFlow' /\ OneOfEach'
  BY <1>3, <1>4, <1>5, WriteEffect DEF Save
<1>7. /\ known' \in [Account -> Record \cup {None}] /\ known'[a] = Written(f)
      /\ \A b \in Account \ {a} : known'[b] = known[b]
  BY <1>5, <1>6 DEF Save, AuthInv, TypeOK
<1>8. MemoryFollows'
  BY <1>6, <1>7 DEF AuthInv, AccountsInOrder, MemoryFollows
<1>9. TypeOK'
  BY <1>3, <1>4, <1>6, <1>7 DEF AuthInv, TypeOK, Save
<1> QED
  BY <1>4, <1>6, <1>8, <1>9 DEF AuthInv, AccountsInOrder

\* Without an answer the row may be there, and memory on what it was.
LEMMA UnansweredEffect ==
  ASSUME AuthorizationAssumption, AuthInv, NEW f \in Flow, At(f, "writing"), Unanswered(f),
         work'[f].at = "ended", work'[f].target = work[f].target,
         work'[f].upstream = work[f].upstream,
         \A g \in Flow \ {f} : At(g, "ended") => work'[g] = work[g]
  PROVE  /\ past' \in [Flow -> Past] /\ past'[f].saved /\ past'[f].lost # None
         /\ past'[f].exchanges = past[f].exchanges /\ ~past'[f].cancelled
         /\ \A g \in Flow \ {f} : past'[g] = past[g]
         /\ rows' \in [Account -> Record \cup {None}]
         /\ WrittenByFlow' /\ OneOfEach'
         /\ known' = known => MemoryFollows'
<1>1. PICK a : a = work[f].target
  OBVIOUS
<1>2. PICK lost \in {"insert", "update"} : lost = IF known[a] = None THEN "insert" ELSE "update"
  OBVIOUS
<1>3. past' = [past EXCEPT ![f].saved = TRUE, ![f].lost = lost] /\ lost # None
  BY <1>1, <1>2 DEF Unanswered, Insertion, AuthorizationAssumption
<1>4. /\ past' \in [Flow -> Past] /\ past'[f].saved /\ past'[f].lost = lost
      /\ past'[f].exchanges = past[f].exchanges /\ ~past'[f].cancelled
      /\ \A g \in Flow \ {f} : past'[g] = past[g]
  BY <1>3, LostEffect
<1>5. /\ a \in Account /\ Written(f) # None /\ Written(f).upstream = work[f].upstream
      /\ rows' \in [Account -> Record \cup {None}] /\ rows'[a] = Written(f)
      /\ \A b \in Account \ {a} : rows'[b] = rows[b]
      /\ \A b \in Account : Orphan(b) => Orphan(b)'
      /\ WrittenByFlow' /\ OneOfEach'
  BY <1>1, <1>4, WriteEffect DEF Unanswered
<1>6. ASSUME known' = known
      PROVE  MemoryFollows'
  <2>1. known[a] = None => Orphan(a)'
    BY <1>1, <1>2, <1>4 DEF Orphan
  <2>2. known[a] # None => known[a].upstream = work[f].upstream
    BY <1>1 DEF AuthInv, WriterSuits
  <2> QED
    BY <1>5, <1>6, <2>1, <2>2 DEF AuthInv, AccountsInOrder, MemoryFollows
<1> QED
  BY <1>3, <1>4, <1>5, <1>6

LEMMA SaveFailsStep ==
  ASSUME AuthorizationAssumption, AuthInv, NEW f \in Flow, SaveFails(f)
  PROVE  AuthInv'
<1>1. /\ At(f, "writing") /\ Move(f, "ended") /\ Conclude(f, "failed") /\ lock' = None
      /\ known' = known
  BY DEF SaveFails, Fail
<1>2. /\ work' \in [Flow -> Work]
      /\ work'[f].at = "ended" /\ work'[f].target = work[f].target
      /\ work'[f].upstream = work[f].upstream
      /\ \A g \in Flow \ {f} : work'[g] = work[g]
  BY <1>1, Moves DEF AuthInv, Stage
<1>3. past[f] \in Past /\ ~past[f].saved /\ past[f].lost = None /\ ~past[f].cancelled
  BY <1>1 DEF AuthInv, TypeOK, FlowsInOrder, InOrder, At
<1>4. CASE Unanswered(f)
  <2>1. /\ past' \in [Flow -> Past] /\ past'[f].saved /\ past'[f].lost # None
        /\ past'[f].exchanges = past[f].exchanges /\ ~past'[f].cancelled
        /\ \A g \in Flow \ {f} : past'[g] = past[g]
        /\ rows' \in [Account -> Record \cup {None}] /\ AccountsInOrder'
    BY <1>1, <1>2, <1>4, UnansweredEffect DEF AccountsInOrder
  <2>2. FlowsInOrder' /\ WriterSuits' /\ flows' \in [Flow -> Entry \cup {None}]
    BY <1>1, <2>1, WriterEnds
  <2>3. TypeOK'
    BY <1>1, <1>2, <2>1, <2>2 DEF AuthInv, TypeOK
  <2> QED
    BY <2>1, <2>2, <2>3 DEF AuthInv
<1>5. CASE UNCHANGED <<rows, past>>
  <2>1. past' \in [Flow -> Past] /\ \A g \in Flow : past'[g] = past[g]
    BY <1>5 DEF AuthInv, TypeOK
  <2>2. FlowsInOrder' /\ WriterSuits' /\ flows' \in [Flow -> Entry \cup {None}]
    BY <1>1, <1>3, <2>1, WriterEnds
  <2>3. AccountsInOrder'
    BY <1>1, <1>2, <1>5, AccountsKept DEF At
  <2>4. TypeOK'
    BY <1>1, <1>2, <1>5, <2>1, <2>2 DEF AuthInv, TypeOK
  <2> QED
    BY <2>2, <2>3, <2>4 DEF AuthInv
<1> QED
  BY <1>4, <1>5 DEF SaveFails

\* While nobody holds the lock.
LEMMA ElsewhereStep ==
  ASSUME AuthorizationAssumption, AuthInv,
         Reload \/ \E a \in Account : DeleteAccount(a)
  PROVE  AuthInv'
<1>1. lock = None /\ UNCHANGED <<flows, work, lock, past>>
  BY DEF Reload, DeleteAccount
<1>2. FlowsInOrder'
  <2>1. \A g \in Flow : Ordered(g)'
    BY <1>1, OthersInOrder DEF AuthInv
  <2> QED
    BY <2>1 DEF FlowsInOrder, Ordered
<1>3. WriterSuits'
  <2>1. \A g \in Flow : ~At(g, "writing")
    BY <1>1 DEF AuthInv, WriterSuits, AuthorizationAssumption
  <2> QED
    BY <1>1, <2>1 DEF WriterSuits, At, AuthorizationAssumption
<1>4. \A b \in Account : Orphan(b)' <=> Orphan(b)
  BY <1>1 DEF Orphan
<1>5. /\ rows' \in [Account -> Record \cup {None}] /\ known' \in [Account -> Record \cup {None}]
      /\ \A b \in Account :
           \/ rows'[b] = rows[b] /\ known'[b] = known[b]
           \/ rows'[b] = None /\ known'[b] = None
           \/ rows[b] # None /\ rows'[b] = rows[b] /\ known'[b] = rows[b]
  <2>1. CASE Reload
    BY <2>1 DEF Reload, AuthInv, TypeOK
  <2>2. ASSUME NEW a \in Account, DeleteAccount(a)
        PROVE  /\ rows' \in [Account -> Record \cup {None}] /\ known' \in [Account -> Record \cup {None}]
               /\ \A b \in Account :
                    \/ rows'[b] = rows[b] /\ known'[b] = known[b]
                    \/ rows'[b] = None /\ known'[b] = None
    BY <2>2 DEF DeleteAccount, AuthInv, TypeOK
  <2> QED
    BY <2>1, <2>2
<1>6. MemoryFollows' /\ OneOfEach'
  BY <1>4, <1>5 DEF AuthInv, AccountsInOrder, MemoryFollows, OneOfEach
<1>7. WrittenByFlow'
  <2>1. \A f : At(f, "ended")' <=> At(f, "ended")
    BY <1>1 DEF At
  <2> QED
    BY <1>1, <1>5, <2>1 DEF AuthInv, AccountsInOrder, WrittenByFlow
<1>8. TypeOK'
  BY <1>1, <1>5 DEF AuthInv, TypeOK
<1> QED
  BY <1>2, <1>3, <1>6, <1>7, <1>8 DEF AuthInv, AccountsInOrder

\* The flows are gone; a write under way may have been applied.
LEMMA RestartStep ==
  ASSUME AuthorizationAssumption, AuthInv, Restart
  PROVE  AuthInv'
<1>1. /\ known' = rows' /\ lock' = None /\ flows' = [f \in Flow |-> None]
      /\ work' = [f \in Flow |-> IF At(f, "new") THEN work[f] ELSE [work[f] EXCEPT !.at = "ended"]]
  BY DEF Restart
<1>2. work' \in [Flow -> Work]
  <2>1. \A f \in Flow : work[f] \in Work
    BY DEF AuthInv, TypeOK
  <2>2. \A w \in Work : [w EXCEPT !.at = "ended"] \in Work
    BY DEF Work, Stage
  <2> QED
    BY <1>1, <2>1, <2>2
<1>3. \A f \in Flow :
        /\ At(f, "new") => work'[f] = work[f]
        /\ ~At(f, "new") => /\ work'[f].at = "ended" /\ work'[f].kind = work[f].kind
                            /\ work'[f].target = work[f].target
                            /\ work'[f].upstream = work[f].upstream
        /\ At(f, "ended") => work'[f] = work[f]
  <2>1. SUFFICES ASSUME NEW f \in Flow
                 PROVE  /\ At(f, "new") => work'[f] = work[f]
                        /\ ~At(f, "new") => /\ work'[f].at = "ended" /\ work'[f].kind = work[f].kind
                                            /\ work'[f].target = work[f].target
                                            /\ work'[f].upstream = work[f].upstream
                        /\ At(f, "ended") => work'[f] = work[f]
    OBVIOUS
  <2>2. work[f] \in Work
    BY DEF AuthInv, TypeOK
  <2>3. At(f, "ended") => [work[f] EXCEPT !.at = "ended"] = work[f]
    BY <2>2 DEF Work, At
  <2> QED
    BY <1>1, <2>2, <2>3 DEF Work
<1>4. /\ past' \in [Flow -> Past] /\ rows' \in [Account -> Record \cup {None}]
      /\ WrittenByFlow' /\ OneOfEach'
      /\ \A f \in Flow : \/ past'[f] = past[f]
                         \/ /\ At(f, "writing") /\ ~past'[f].cancelled
                            /\ past'[f].exchanges = past[f].exchanges
  <2>1. CASE UNCHANGED <<rows, past>>
    <3>1. \A b \in Account : Orphan(b) => Orphan(b)'
      BY <1>3, <2>1, OrphanStays
    <3>2. \A b \in Account : rows[b] # None /\ rows[b].by # None => rows[b].by \in Flow
      BY DEF AuthInv, TypeOK, Record
    <3>3. WrittenByFlow'
      BY <1>3, <2>1, <3>2 DEF AuthInv, AccountsInOrder, WrittenByFlow, At
    <3>4. OneOfEach'
      BY <2>1, <3>1 DEF AuthInv, AccountsInOrder, OneOfEach
    <3> QED
      BY <2>1, <3>3, <3>4 DEF AuthInv, TypeOK
  <2>2. ASSUME NEW f \in Flow, At(f, "writing"), Unanswered(f)
        PROVE  /\ past' \in [Flow -> Past] /\ rows' \in [Account -> Record \cup {None}]
               /\ WrittenByFlow' /\ OneOfEach'
               /\ \A g \in Flow : \/ past'[g] = past[g]
                                  \/ /\ At(g, "writing") /\ ~past'[g].cancelled
                                     /\ past'[g].exchanges = past[g].exchanges
    BY <1>3, <2>2, UnansweredEffect DEF At
  <2> QED
    BY <2>1, <2>2 DEF Restart
<1>5. FlowsInOrder'
  <2>1. SUFFICES ASSUME NEW f \in Flow
                 PROVE  InOrder(f)' /\ Shown(f)'
    BY DEF FlowsInOrder
  <2>2. InOrder(f) /\ flows'[f] = None
    BY <1>1 DEF AuthInv, FlowsInOrder
  <2>3. InOrder(f)'
    BY <1>3, <1>4, <2>2 DEF InOrder, At
  <2> QED
    BY <2>2, <2>3 DEF Shown, Listed
<1>6. WriterSuits'
  <2>1. \A f \in Flow : ~At(f, "writing")'
    BY <1>3 DEF At
  <2> QED
    BY <1>1, <2>1 DEF WriterSuits, AuthorizationAssumption
<1>7. AccountsInOrder'
  BY <1>1, <1>4 DEF AccountsInOrder, MemoryFollows
<1>8. TypeOK'
  BY <1>1, <1>2, <1>4 DEF TypeOK
<1> QED
  BY <1>5, <1>6, <1>7, <1>8 DEF AuthInv

-----------------------------------------------------------------------------
(* The invariant holds. *)

\* At most one account is managed at first.
LEMMA AuthInvInit == ASSUME AuthorizationAssumption, Init PROVE AuthInv
<1>1. PICK present \in SUBSET Account, u \in Upstream :
        /\ \A a, b \in present : a = b
        /\ rows = [a \in Account |-> IF a \in present THEN [upstream |-> u, by |-> None] ELSE None]
  BY DEF Init
<1>2. [upstream |-> u, by |-> None] \in Record
  BY DEF Record
<1>3. Idle \in Work /\ Idle.at = "new" /\ Idle.kind = None /\ Idle.target = None
  BY DEF Idle, Work, Stage
<1>4. /\ known = rows /\ lock = None
      /\ \A f \in Flow : flows[f] = None /\ work[f] = Idle
      /\ \A f \in Flow : /\ past[f] = [exchanges |-> 0, cancelled |-> FALSE, saved |-> FALSE, lost |-> None]
                         /\ past[f].exchanges = 0 /\ ~past[f].cancelled /\ ~past[f].saved
                         /\ past[f].lost = None
  BY DEF Init
<1>5. TypeOK
  <2>1. rows \in [Account -> Record \cup {None}] /\ known = rows
    BY <1>1, <1>2, <1>4
  <2>2. work \in [Flow -> Work] /\ flows \in [Flow -> Entry \cup {None}] /\ lock = None
    BY <1>3 DEF Init
  <2>3. [exchanges |-> 0, cancelled |-> FALSE, saved |-> FALSE, lost |-> None] \in Past
    BY DEF Past
  <2>4. past \in [Flow -> Past]
    BY <2>3 DEF Init
  <2> QED
    BY <2>1, <2>2, <2>4 DEF TypeOK
<1>6. FlowsInOrder
  <2>1. SUFFICES ASSUME NEW f \in Flow
                 PROVE  InOrder(f) /\ Shown(f)
    BY DEF FlowsInOrder
  <2> QED
    BY <1>3, <1>4 DEF InOrder, Shown, Listed, At
<1>7. WriterSuits
  BY <1>3, <1>4 DEF WriterSuits, At, AuthorizationAssumption
<1>8. AccountsInOrder
  <2>1. \A a \in Account : rows[a] # None => a \in present /\ rows[a].by = None
    BY <1>1
  <2> QED
    BY <1>1, <1>4, <2>1 DEF AccountsInOrder, MemoryFollows, WrittenByFlow, OneOfEach
<1> QED
  BY <1>5, <1>6, <1>7, <1>8 DEF AuthInv

LEMMA AuthInvStep == ASSUME AuthorizationAssumption, AuthInv, [Next]_vars PROVE AuthInv'
<1>1. CASE UNCHANGED vars
  <2>1. UNCHANGED <<flows, work, rows, known, lock, past>>
    BY <1>1 DEF vars
  <2>2. FlowsInOrder'
    <3>1. \A g \in Flow : Ordered(g)'
      BY <2>1, OthersInOrder DEF AuthInv
    <3> QED
      BY <3>1 DEF FlowsInOrder, Ordered
  <2>3. WriterSuits' /\ AccountsInOrder'
    BY <2>1, WriterKept, AccountsKept
  <2> QED
    BY <2>1, <2>2, <2>3 DEF AuthInv, TypeOK
<1>2. ASSUME NEW f \in Flow, FlowStep(f)
      PROVE  AuthInv'
  BY <1>2, StartStep, DeviceCodeStep, PollStep, CompleteStep, CancelStep, TokensStep, ImportStep,
     AcquireStep, SaveStep, SaveFailsStep, ExpireStep DEF FlowStep
<1> QED
  BY <1>1, <1>2, ElsewhereStep, RestartStep DEF Next

LEMMA AuthHolds == ASSUME AuthorizationAssumption PROVE Spec => []AuthInv
<1>1. Init => AuthInv
  BY AuthInvInit
<1>2. AuthInv /\ [Next]_vars => AuthInv'
  BY AuthInvStep
<1> QED
  BY <1>1, <1>2, PTL DEF Spec

\* oauth_browser.rs: a code is exchanged once, and never after its flow was cancelled.
THEOREM CodeExchangedOnce == ASSUME AuthorizationAssumption PROVE Spec => []ExchangedOnce
<1>1. AuthInv => ExchangedOnce
  BY DEF AuthInv, FlowsInOrder, InOrder, ExchangedOnce
<1> QED
  BY <1>1, AuthHolds, PTL

\* oauth.rs: the page of a flow tells what is stored.
THEOREM PageIsTrue == ASSUME AuthorizationAssumption PROVE Spec => []OutcomeShown
<1>1. AuthInv => OutcomeShown
  <2>1. SUFFICES ASSUME AuthInv, NEW f \in Flow, Listed(f)
                 PROVE  /\ flows[f].status = "completed" => past[f].saved /\ past[f].lost = None
                        /\ flows[f].status = "failed" => past[f].saved = (past[f].lost # None)
                        /\ At(f, "ended") => flows[f].status \in {"completed", "failed", "starting"}
    BY DEF OutcomeShown
  <2>2. Shown(f) /\ past[f].saved \in BOOLEAN
    BY <2>1 DEF AuthInv, FlowsInOrder, TypeOK, Past
  <2>3. flows[f].status = "failed" => past[f].saved = (past[f].lost # None)
    BY <2>1, <2>2 DEF Shown
  <2> QED
    BY <2>1, <2>2, <2>3 DEF Shown
<1> QED
  BY <1>1, AuthHolds, PTL

\* save_credentials and create_account: an upstream account is managed once.
THEOREM AccountManagedOnce == ASSUME AuthorizationAssumption PROVE Spec => []ManagedOnce
<1>1. AuthInv => ManagedOnce
  BY DEF AuthInv, AccountsInOrder, OneOfEach, WrittenByFlow, ManagedOnce
<1> QED
  BY <1>1, AuthHolds, PTL

=============================================================================
