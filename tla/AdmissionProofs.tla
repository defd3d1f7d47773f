---------------------------- MODULE AdmissionProofs ----------------------------
(***************************************************************************)
(* Proofs about Admission for any finite set of requests, any measurements *)
(* and any settings.                                                       *)
(***************************************************************************)
EXTENDS Admission, TLAPS, FiniteSetTheorems, WellFoundedInduction

Early == {"new", "reading", "locking", "parsing", "starting", "inserting"}
Holding == {"reading", "locking", "parsing", "starting", "inserting"}
Work == [at : Stage, bytes : 0..MaxBytes]

\* The places of readers, and the frames in memory one by one.
Place(w) == IF w.at \in Holding THEN 1 ELSE 0
Holders == {t \in Task : Holds(t)}
Frames == {f \in Task \X (1..MaxBytes) : f[2] <= tasks[f[1]].bytes}

\* What the row of a request at a stage may be.
RowFits(stage, row) ==
  /\ stage \in Early => row = None
  /\ stage \in {"begin", "finish", "refused"} => row = None \/ row.state # "completed"
  /\ stage \in {"running", "answered"} => row # None

RowsByStage == \A t \in Task : RowFits(tasks[t].at, rows[t])
BytesByStage == \A t \in Task : tasks[t].bytes > 0 => Buffers(t)

\* AdmissionCounted with both counters as sizes of sets.
CountedOnce ==
  /\ readers = Cardinality(Holders)
  /\ buffered = Cardinality(Frames)
  /\ \A t \in Task : At(t, "parsing") <=> parser = t

AdmissionInv == TypeOK /\ CountedOnce /\ BytesByStage /\ RowsByStage

-----------------------------------------------------------------------------
(* The two counters. *)

LEMMA TaskIsFinite ==
  ASSUME AdmissionAssumption
  PROVE  /\ IsFiniteSet(Holders) /\ Cardinality(Holders) \in 0..Cardinality(Task)
         /\ IsFiniteSet(Frames) /\ Cardinality(Frames) \in Nat
<1>1. Holders \in SUBSET Task
  BY DEF Holders
<1>2. IsFiniteSet(Holders) /\ Cardinality(Holders) <= Cardinality(Task)
  BY <1>1, FS_Subset DEF AdmissionAssumption
<1>3. Cardinality(Holders) \in Nat /\ Cardinality(Task) \in Nat
  BY <1>2, FS_CardinalityType DEF AdmissionAssumption
<1>4. IsFiniteSet(1..MaxBytes)
  BY FS_Interval DEF AdmissionAssumption
<1>5. IsFiniteSet(Task \X (1..MaxBytes))
  BY <1>4, FS_Product DEF AdmissionAssumption
<1>6. Frames \in SUBSET (Task \X (1..MaxBytes))
  BY DEF Frames
<1>7. IsFiniteSet(Frames)
  BY <1>5, <1>6, FS_Subset
<1> QED
  BY <1>2, <1>3, <1>7, FS_CardinalityType

\* One request takes or gives back its place: the set of holders changes by it.
LEMMA HoldersMove ==
  ASSUME AdmissionAssumption, TypeOK, NEW t \in Task, NEW w \in Work,
         tasks' = [tasks EXCEPT ![t] = w]
  PROVE  Cardinality(Holders') = Cardinality(Holders) + Place(w) - Place(tasks[t])
<1>0. IsFiniteSet(Holders) /\ Cardinality(Holders) \in Nat
  BY TaskIsFinite
<1>1. \A u \in Task : tasks'[u] = IF u = t THEN w ELSE tasks[u]
  BY DEF TypeOK
<1>2. Holders' = {u \in Task : tasks'[u].at \in Holding}
  BY DEF Holders, Holds, Holding
<1>3. Holders = {u \in Task : tasks[u].at \in Holding}
  BY DEF Holders, Holds, Holding
<1>4. CASE w.at \in Holding
  <2>1. Holders' = Holders \cup {t}
    <3>1. \A u \in Task : u \in Holders' <=> u \in Holders \/ u = t
      BY <1>1, <1>2, <1>3, <1>4
    <3> QED
      BY <3>1, <1>2, <1>3
  <2>2. t \in Holders <=> tasks[t].at \in Holding
    BY <1>3
  <2> QED
    <3>1. Cardinality(Holders \cup {t}) = IF t \in Holders THEN Cardinality(Holders)
                                                          ELSE Cardinality(Holders) + 1
      BY <1>0, FS_AddElement, Zenon
    <3> QED
      BY <1>0, <1>4, <2>1, <2>2, <3>1 DEF Place
<1>5. CASE w.at \notin Holding
  <2>1. Holders' = Holders \ {t}
    <3>1. \A u \in Task : u \in Holders' <=> u \in Holders /\ u # t
      BY <1>1, <1>2, <1>3, <1>5
    <3> QED
      BY <3>1, <1>2, <1>3
  <2>2. t \in Holders <=> tasks[t].at \in Holding
    BY <1>3
  <2> QED
    <3>1. Cardinality(Holders \ {t}) = IF t \in Holders THEN Cardinality(Holders) - 1
                                                         ELSE Cardinality(Holders)
      BY <1>0, FS_RemoveElement, Zenon
    <3> QED
      BY <1>0, <1>5, <2>1, <2>2, <3>1 DEF Place
<1> QED
  BY <1>4, <1>5

\* The frames of one request.
LEMMA OwnFrames ==
  ASSUME NEW t, NEW n \in Nat
  PROVE  IsFiniteSet({t} \X (1..n)) /\ Cardinality({t} \X (1..n)) = n
<1>1. IsFiniteSet(1..n) /\ Cardinality(1..n) = n
  BY FS_Interval
<1>2. IsFiniteSet({t}) /\ Cardinality({t}) = 1
  BY FS_Singleton
<1> QED
  BY <1>1, <1>2, FS_Product

\* One request gets or drops frames.
LEMMA FramesMove ==
  ASSUME AdmissionAssumption, TypeOK, NEW t \in Task, NEW w \in Work,
         tasks' = [tasks EXCEPT ![t] = w]
  PROVE  Cardinality(Frames') = Cardinality(Frames) + w.bytes - tasks[t].bytes
<1> DEFINE Old == {t} \X (1..tasks[t].bytes)
           New == {t} \X (1..w.bytes)
           Rest == Frames \ Old
<1>0. IsFiniteSet(Frames) /\ Cardinality(Frames) \in Nat
  BY TaskIsFinite
<1>1. /\ MaxBytes \in Nat
      /\ w.bytes \in 0..MaxBytes /\ \A u \in Task : tasks[u].bytes \in 0..MaxBytes
  BY DEF TypeOK, Work, AdmissionAssumption
<1>2. \A u \in Task : tasks'[u] = IF u = t THEN w ELSE tasks[u]
  BY DEF TypeOK
<1>3. Frames' = {f \in Task \X (1..MaxBytes) : f[2] <= tasks'[f[1]].bytes}
  BY DEF Frames
<1>4. Old \subseteq Frames
  BY <1>1 DEF Frames
<1>5. Frames' = Rest \cup New
  <2>1. ASSUME NEW u \in Task, NEW i \in 1..MaxBytes
        PROVE  <<u, i>> \in Frames' <=> <<u, i>> \in Rest \cup New
    <3>1. <<u, i>> \in Frames' <=> i <= tasks'[u].bytes
      BY <1>3
    <3>2. <<u, i>> \in Frames <=> i <= tasks[u].bytes
      BY DEF Frames
    <3>3. <<u, i>> \in Old <=> u = t /\ i <= tasks[t].bytes
      BY <1>1
    <3>4. <<u, i>> \in New <=> u = t /\ i <= w.bytes
      BY <1>1
    <3> QED
      BY <1>2, <3>1, <3>2, <3>3, <3>4
  <2>2. Frames' \subseteq Task \X (1..MaxBytes) /\ Rest \subseteq Task \X (1..MaxBytes)
    BY <1>3 DEF Frames
  <2>3. New \subseteq Task \X (1..MaxBytes)
    BY <1>1
  <2> HIDE DEF New, Rest
  <2> QED
    BY <2>1, <2>2, <2>3
<1>6. Rest \cap New = {}
  <2>1. \A i \in 1..MaxBytes : <<t, i>> \notin Rest
    <3> SUFFICES ASSUME NEW i \in 1..MaxBytes, <<t, i>> \in Frames
                 PROVE  <<t, i>> \in Old
      OBVIOUS
    <3>1. i <= tasks[t].bytes
      BY DEF Frames
    <3> QED
      BY <1>1, <3>1
  <2>2. New \subseteq {t} \X (1..MaxBytes)
    BY <1>1
  <2>3. \A f \in New : \E i \in 1..MaxBytes : f = <<t, i>>
    BY <2>2
  <2> HIDE DEF Rest, New
  <2> QED
    BY <2>1, <2>3
<1>7. IsFiniteSet(Rest) /\ Cardinality(Rest) = Cardinality(Frames) - tasks[t].bytes
  <2>1. Frames \cap Old = Old
    BY <1>4
  <2>2. Cardinality(Old) = tasks[t].bytes
    <3>1. tasks[t].bytes \in Nat
      BY <1>1
    <3> QED
      BY <3>1, OwnFrames, Zenon
  <2> HIDE DEF Old
  <2> QED
    <3>1. /\ IsFiniteSet(Frames \ Old)
          /\ Cardinality(Frames \ Old) = Cardinality(Frames) - Cardinality(Frames \cap Old)
      BY <1>0, FS_Difference, Zenon
    <3> QED
      BY <2>1, <2>2, <3>1
<1>8. IsFiniteSet(New) /\ Cardinality(New) = w.bytes
  <2>1. w.bytes \in Nat
    BY <1>1
  <2> QED
    BY <2>1, OwnFrames, Zenon
<1>9. Cardinality(Rest \cup New) = Cardinality(Rest) + Cardinality(New) - Cardinality({})
  <2> HIDE DEF Rest, New
  <2> QED
    BY <1>6, <1>7, <1>8, FS_Union
<1> HIDE DEF Rest, New
<1> QED
  BY <1>0, <1>1, <1>5, <1>7, <1>8, <1>9, FS_EmptySet

-----------------------------------------------------------------------------
(* The sum of buffered bytes. *)

\* Among subsets of a finite set, some one has no proper subset.
LEMMA MinimalSubset ==
  ASSUME NEW S, IsFiniteSet(S), NEW B \in SUBSET SUBSET S, B # {}
  PROVE  \E T \in B : \A U \in B : U \subseteq T => U = T
<1>1. IsWellFoundedOn(StrictSubsetOrdering(S), SUBSET S)
  BY FS_StrictSubsetOrderingWellFounded, FS_FiniteSubsetsOfFinite
<1>2. PICK T \in B : \A U \in B : ~(<<U, T>> \in StrictSubsetOrdering(S))
  BY <1>1, WFMin
<1> QED
  BY <1>2 DEF StrictSubsetOrdering

\* The frames of a set of requests.
FramesOf(T) == {f \in Frames : f[1] \in T}

\* Adding one request adds its bytes.
LEMMA FramesAdd ==
  ASSUME AdmissionAssumption, TypeOK, NEW T \in SUBSET Task, NEW t \in T
  PROVE  Cardinality(FramesOf(T)) = tasks[t].bytes + Cardinality(FramesOf(T \ {t}))
<1> DEFINE Own == {t} \X (1..tasks[t].bytes)
<1>1. t \in Task /\ tasks[t].bytes \in 0..MaxBytes /\ tasks[t].bytes \in Nat /\ MaxBytes \in Nat
  BY DEF TypeOK, AdmissionAssumption
<1>2. IsFiniteSet(Own) /\ Cardinality(Own) = tasks[t].bytes
  BY <1>1, OwnFrames, Zenon
<1>3. FramesOf(T) \subseteq Frames /\ FramesOf(T \ {t}) \subseteq Frames
  BY DEF FramesOf
<1>4. IsFiniteSet(FramesOf(T \ {t})) /\ Cardinality(FramesOf(T \ {t})) \in Nat
  BY <1>3, TaskIsFinite, FS_Subset, FS_CardinalityType
<1>5. FramesOf(T) = Own \cup FramesOf(T \ {t})
  <2>1. ASSUME NEW u \in Task, NEW i \in 1..MaxBytes
        PROVE  <<u, i>> \in FramesOf(T) <=> <<u, i>> \in Own \/ <<u, i>> \in FramesOf(T \ {t})
    <3>1. <<u, i>> \in Own <=> u = t /\ i <= tasks[t].bytes
      BY <1>1
    <3>2. <<u, i>> \in Frames <=> i <= tasks[u].bytes
      BY DEF Frames
    <3> QED
      BY <3>1, <3>2 DEF FramesOf
  <2>2. FramesOf(T) \subseteq Task \X (1..MaxBytes) /\ FramesOf(T \ {t}) \subseteq Task \X (1..MaxBytes)
    BY <1>3 DEF Frames
  <2>3. Own \subseteq Task \X (1..MaxBytes)
    BY <1>1
  <2> HIDE DEF Own
  <2> QED
    BY <2>1, <2>2, <2>3
<1>6. Own \cap FramesOf(T \ {t}) = {}
  BY DEF FramesOf
<1> HIDE DEF Own
<1>7. Cardinality(Own \cup FramesOf(T \ {t}))
        = Cardinality(Own) + Cardinality(FramesOf(T \ {t})) - Cardinality(Own \cap FramesOf(T \ {t}))
  BY <1>2, <1>4, FS_Union, Zenon
<1>8. Cardinality(Own \cap FramesOf(T \ {t})) = 0
  BY <1>6, FS_EmptySet
<1> QED
  BY <1>1, <1>2, <1>4, <1>5, <1>7, <1>8

\* The sum over the requests is the number of frames.
LEMMA SumOfBytes ==
  ASSUME AdmissionAssumption, TypeOK
  PROVE  MapThenSumSet(LAMBDA t : tasks[t].bytes, Task) = Cardinality(Frames)
<1> DEFINE g == [T \in SUBSET Task |-> Cardinality(FramesOf(T))]
           Steps(h) == h = [T \in SUBSET Task |->
                              IF T = {} THEN 0
                              ELSE LET x == CHOOSE y \in T : TRUE
                                   IN  tasks[x].bytes + h[T \ {x}]]
           iter == CHOOSE h : Steps(h)
<1>1. MapThenSumSet(LAMBDA t : tasks[t].bytes, Task) = iter[Task]
  BY DEF MapThenSumSet, MapThenFoldSet
<1>2. Steps(g)
  <2> DEFINE e == [T \in SUBSET Task |->
                     IF T = {} THEN 0
                     ELSE LET x == CHOOSE y \in T : TRUE IN tasks[x].bytes + g[T \ {x}]]
  <2>1. ASSUME NEW T \in SUBSET Task
        PROVE  g[T] = e[T]
    <3>1. CASE T = {}
      <4>1. FramesOf({}) = {}
        BY DEF FramesOf
      <4> QED
        BY <3>1, <4>1, FS_EmptySet
    <3>2. CASE T # {}
      <4> DEFINE x == CHOOSE y \in T : TRUE
      <4>1. x \in T
        BY <3>2
      <4> HIDE DEF x
      <4>2. Cardinality(FramesOf(T)) = tasks[x].bytes + Cardinality(FramesOf(T \ {x}))
        BY <4>1, FramesAdd
      <4>3. e[T] = tasks[x].bytes + g[T \ {x}]
        BY <3>2 DEF x
      <4> QED
        BY <4>2, <4>3
    <3> QED
      BY <3>1, <3>2
  <2> QED
    BY <2>1
<1>3. Steps(iter)
  <2>1. \E h : Steps(h)
    BY <1>2
  <2> HIDE DEF Steps
  <2> QED
    BY <2>1
<1> HIDE DEF iter
<1>4. \A T \in SUBSET Task : iter[T] = g[T]
  <2> SUFFICES ASSUME NEW V \in SUBSET Task, iter[V] # g[V]
               PROVE  FALSE
    OBVIOUS
  <2> DEFINE B == {T \in SUBSET Task : iter[T] # g[T]}
  <2>1. B \in SUBSET SUBSET Task /\ B # {}
    OBVIOUS
  <2>2. PICK T \in B : \A U \in B : U \subseteq T => U = T
    <3> HIDE DEF B
    <3> QED
      BY <2>1, MinimalSubset DEF AdmissionAssumption
  <2>3. T # {}
    BY <1>2, <1>3
  <2> DEFINE x == CHOOSE y \in T : TRUE
  <2>4. x \in T
    BY <2>3
  <2>5. T \ {x} \notin B
    BY <2>2, <2>4
  <2>6. iter[T] = tasks[x].bytes + iter[T \ {x}] /\ g[T] = tasks[x].bytes + g[T \ {x}]
    <3>1. iter[T] = tasks[x].bytes + iter[T \ {x}]
      BY <1>3, <2>3
    <3>2. g[T] = tasks[x].bytes + g[T \ {x}]
      BY <1>2, <2>3
    <3> QED
      BY <3>1, <3>2
  <2>7. iter[T \ {x}] = g[T \ {x}]
    BY <2>5
  <2> QED
    BY <2>2, <2>6, <2>7
<1>5. FramesOf(Task) = Frames
  BY DEF FramesOf, Frames
<1> QED
  BY <1>1, <1>4, <1>5

-----------------------------------------------------------------------------
(* The steps of one request. *)

\* A sample and a flag, whoever measures.
LEMMA MeasuredIsGate ==
  ASSUME TypeOK, NEW fresh \in BOOLEAN, NEW works \in BOOLEAN
  PROVE  Measured(fresh, works) \in Gate
<1> DEFINE sample == IF MayReuse(fresh) THEN gate.sample ELSE IF works THEN usage ELSE None
           flag == IF sample = None THEN gate.blocked ELSE High(sample) \/ (gate.blocked /\ ~Low(sample))
<1>1. sample \in Usage \cup {None}
  BY DEF TypeOK, Gate
<1>2. gate.blocked \in BOOLEAN
  BY DEF TypeOK, Gate
<1>3. flag \in BOOLEAN
  <2> HIDE DEF sample
  <2> QED
    BY <1>2, Zenon DEF High, Low
<1>4. Measured(fresh, works) = [sample |-> sample, recent |-> TRUE, blocked |-> flag]
  BY DEF Measured
<1> HIDE DEF sample, flag
<1> QED
  BY <1>1, <1>3, <1>4 DEF Gate

\* A request comes to another stage with its bytes, its place, the parser and its
\* row: what keeps the invariant.
LEMMA TaskMoves ==
  ASSUME AdmissionAssumption, AdmissionInv, NEW t \in Task, NEW w \in Work,
         NEW row \in Row \cup {None},
         tasks' = [tasks EXCEPT ![t] = w],
         rows' = [rows EXCEPT ![t] = row], RowFits(w.at, row),
         usage' = usage, cfg' = cfg, gate' \in Gate,
         readers' = readers + Place(w) - Place(tasks[t]),
         buffered' = buffered + w.bytes - tasks[t].bytes,
         w.bytes > 0 => w.at \in Holding \cup {"running"},
         w.at = "parsing" => parser \in {None, t},
         parser' = IF w.at = "parsing" THEN t ELSE IF parser = t THEN None ELSE parser
  PROVE  AdmissionInv'
<1>0. TypeOK /\ CountedOnce /\ BytesByStage /\ RowsByStage
  BY DEF AdmissionInv
<1>1. \A u \in Task : tasks'[u] = IF u = t THEN w ELSE tasks[u]
  BY <1>0 DEF TypeOK
<1>2. \A u \in Task : rows'[u] = IF u = t THEN row ELSE rows[u]
  BY <1>0 DEF TypeOK
<1>3. tasks' \in [Task -> Work] /\ rows' \in [Task -> Row \cup {None}]
  BY <1>0 DEF TypeOK, Work
<1>4. readers' = Cardinality(Holders')
  BY <1>0, HoldersMove DEF CountedOnce
<1>5. buffered' = Cardinality(Frames')
  BY <1>0, FramesMove DEF CountedOnce
<1>6. readers' \in 0..Cardinality(Task) /\ buffered' \in Nat
  <2>1. Holders' \in SUBSET Task
    BY DEF Holders
  <2>2. IsFiniteSet(Holders') /\ Cardinality(Holders') <= Cardinality(Task)
    BY <2>1, FS_Subset DEF AdmissionAssumption
  <2>3. Cardinality(Holders') \in Nat /\ Cardinality(Task) \in Nat
    BY <2>2, FS_CardinalityType DEF AdmissionAssumption
  <2>4. IsFiniteSet(1..MaxBytes)
    BY FS_Interval DEF AdmissionAssumption
  <2>5. IsFiniteSet(Task \X (1..MaxBytes))
    BY <2>4, FS_Product DEF AdmissionAssumption
  <2>6. Frames' \in SUBSET (Task \X (1..MaxBytes))
    BY DEF Frames
  <2>7. IsFiniteSet(Frames')
    BY <2>5, <2>6, FS_Subset
  <2>8. Cardinality(Frames') \in Nat
    BY <2>7, FS_CardinalityType
  <2> QED
    BY <1>4, <1>5, <2>2, <2>3, <2>8
<1>7. parser' \in Task \cup {None}
  BY <1>0 DEF TypeOK
<1>8. TypeOK'
  BY <1>0, <1>3, <1>6, <1>7 DEF TypeOK, Work
<1>9. \A u \in Task : At(u, "parsing")' <=> parser' = u
  <2> SUFFICES ASSUME NEW u \in Task
               PROVE  tasks'[u].at = "parsing" <=> parser' = u
    BY DEF At
  <2>1. None \notin Task
    BY DEF AdmissionAssumption
  <2>2. \A v \in Task : tasks[v].at = "parsing" <=> parser = v
    BY <1>0 DEF CountedOnce, At
  <2>3. CASE u = t
    BY <1>1, <2>1, <2>3
  <2>4. CASE u # t
    <3>1. tasks'[u].at = "parsing" <=> parser = u
      BY <1>1, <2>2, <2>4
    <3>2. parser' = u <=> parser = u
      BY <2>1, <2>4
    <3> QED
      BY <3>1, <3>2
  <2> QED
    BY <2>3, <2>4
<1>10. BytesByStage'
  <2> SUFFICES ASSUME NEW u \in Task, tasks'[u].bytes > 0
               PROVE  tasks'[u].at \in Holding \cup {"running"}
    BY DEF BytesByStage, Buffers, Holds, At, Holding
  <2>1. CASE u = t
    BY <1>1, <2>1
  <2>2. CASE u # t
    BY <1>0, <1>1, <2>2 DEF BytesByStage, Buffers, Holds, At, Holding
  <2> QED
    BY <2>1, <2>2
<1>11. RowsByStage'
  <2>1. \A u \in Task : RowFits(tasks'[u].at, rows'[u])
    BY <1>0, <1>1, <1>2 DEF RowsByStage
  <2> QED
    BY <2>1 DEF RowsByStage
<1> QED
  BY <1>4, <1>5, <1>8, <1>9, <1>10, <1>11 DEF AdmissionInv, CountedOnce

\* A handler or task that ends gives everything back.
LEMMA LeaveKeeps ==
  ASSUME AdmissionAssumption, AdmissionInv, NEW t \in Task,
         NEW stage \in {"begin", "answered", "gone"}, NEW g \in Gate,
         NEW row \in Row \cup {None}, rows' = [rows EXCEPT ![t] = row], RowFits(stage, row),
         Leave(t, stage, g), UNCHANGED <<usage, cfg>>
  PROVE  AdmissionInv'
<1> DEFINE w == [at |-> stage, bytes |-> 0]
<1>0. TypeOK /\ BytesByStage
  BY DEF AdmissionInv
<1>1. w \in Work /\ w.at = stage /\ w.bytes = 0
  BY DEF Work, Stage, AdmissionAssumption
<1>2. tasks' = [tasks EXCEPT ![t] = w]
  BY DEF Leave
<1>3. gate' \in Gate
  BY <1>0 DEF Leave, Release, Gate
<1>4. readers \in Int /\ buffered \in Int /\ tasks[t].bytes \in Nat
  BY <1>0 DEF TypeOK, AdmissionAssumption
<1>5. readers' = readers + Place(w) - Place(tasks[t])
  <2>1. Place(w) = 0
    BY <1>1 DEF Place, Holding
  <2>2. Holds(t) <=> tasks[t].at \in Holding
    BY DEF Holds, Holding
  <2> HIDE DEF w
  <2> QED
    BY <1>4, <2>1, <2>2 DEF Leave, Release, Place
<1>6. buffered' = buffered + w.bytes - tasks[t].bytes
  <2>1. ~Buffers(t) => tasks[t].bytes = 0
    BY <1>0, <1>4 DEF BytesByStage
  <2>2. buffered' = IF Buffers(t) THEN buffered - tasks[t].bytes ELSE buffered
    BY DEF Leave
  <2> HIDE DEF w
  <2> QED
    BY <1>1, <1>4, <2>1, <2>2
<1>7. parser' = IF parser = t THEN None ELSE parser
  BY DEF Leave
<1>8. usage' = usage /\ cfg' = cfg /\ w.at # "parsing" /\ ~(w.bytes > 0) /\ RowFits(w.at, row)
  BY <1>1
<1> HIDE DEF w
<1> QED
  BY <1>1, <1>2, <1>3, <1>5, <1>6, <1>7, <1>8, TaskMoves

\* A step that moves the request to another stage with the bytes it has.
LEMMA MoveKeeps ==
  ASSUME AdmissionAssumption, AdmissionInv, NEW t \in Task, NEW stage \in Stage,
         Move(t, stage),
         NEW row \in Row \cup {None}, rows' = [rows EXCEPT ![t] = row], RowFits(stage, row),
         UNCHANGED <<usage, cfg, buffered>>, gate' \in Gate,
         tasks[t].bytes > 0 => stage \in Holding \cup {"running"},
         readers' = readers + Place([at |-> stage]) - Place(tasks[t]),
         stage = "parsing" => parser \in {None, t},
         parser' = IF stage = "parsing" THEN t ELSE IF parser = t THEN None ELSE parser
  PROVE  AdmissionInv'
<1> DEFINE w == [at |-> stage, bytes |-> tasks[t].bytes]
<1>0. TypeOK
  BY DEF AdmissionInv
<1>1. w \in Work /\ w.at = stage /\ w.bytes = tasks[t].bytes
  BY <1>0 DEF Work, TypeOK
<1>2. tasks' = [tasks EXCEPT ![t] = w]
  <2>1. [tasks[t] EXCEPT !.at = stage] = w
    BY <1>0 DEF TypeOK
  <2>2. tasks' = [tasks EXCEPT ![t] = [tasks[t] EXCEPT !.at = stage]]
    BY DEF Move
  <2> HIDE DEF w
  <2> QED
    BY <2>1, <2>2
<1>3. Place(w) = Place([at |-> stage])
  BY <1>1 DEF Place
<1>4. buffered' = buffered + w.bytes - tasks[t].bytes
  BY <1>0, <1>1 DEF TypeOK, AdmissionAssumption
<1>5. usage' = usage /\ cfg' = cfg
  OBVIOUS
<1> HIDE DEF w
<1> QED
  BY <1>1, <1>2, <1>3, <1>4, <1>5, TaskMoves

\* A row that stays, with tasks[t] at a stage that it fits.
LEMMA RowStays ==
  ASSUME AdmissionInv, NEW t \in Task
  PROVE  /\ rows[t] \in Row \cup {None} /\ rows = [rows EXCEPT ![t] = rows[t]]
         /\ RowFits(tasks[t].at, rows[t])
         /\ tasks[t].at \in Early => rows[t] = None
BY DEF AdmissionInv, TypeOK, RowsByStage, RowFits

\* A check that fails ends the handler of a request without a row.
LEMMA FailsKeeps ==
  ASSUME AdmissionAssumption, AdmissionInv, NEW t \in Task, NEW fresh \in BOOLEAN,
         tasks[t].at \in Early, Fails(t, fresh), UNCHANGED <<usage, cfg, rows>>
  PROVE  AdmissionInv'
<1>1. PICK works \in BOOLEAN : Leave(t, "begin", Measured(fresh, works))
  BY DEF Fails
<1>2. Measured(fresh, works) \in Gate
  BY MeasuredIsGate DEF AdmissionInv
<1>3. rows' = [rows EXCEPT ![t] = rows[t]] /\ rows[t] = None
  BY RowStays
<1>4. RowFits("begin", rows[t])
  BY <1>3 DEF RowFits, Early
<1> QED
  BY <1>1, <1>2, <1>3, <1>4, LeaveKeeps

LEMMA PassesIsGate ==
  ASSUME TypeOK, NEW fresh \in BOOLEAN, Passes(fresh)
  PROVE  gate' \in Gate
BY MeasuredIsGate DEF Passes

LEMMA EnterKeeps ==
  ASSUME AdmissionAssumption, AdmissionInv, NEW t \in Task, Enter(t)
  PROVE  AdmissionInv'
<1>0. TypeOK /\ BytesByStage /\ CountedOnce
  BY DEF AdmissionInv
<1>1. tasks[t].at = "new" /\ rows[t] = None /\ rows' = [rows EXCEPT ![t] = None]
  BY RowStays DEF Enter, At, Early
<1>2. PICK works \in BOOLEAN :
        \/ Leave(t, "begin", Measured(TRUE, works))
        \/ /\ gate' = Measured(TRUE, works)
           /\ readers' = readers + 1
           /\ Move(t, "reading")
           /\ UNCHANGED <<buffered, parser>>
  BY DEF Enter
<1>3. Measured(TRUE, works) \in Gate
  BY <1>0, MeasuredIsGate
<1>4. UNCHANGED <<usage, cfg>>
  BY DEF Enter
<1>5. CASE Leave(t, "begin", Measured(TRUE, works))
  <2>1. RowFits("begin", None)
    BY DEF RowFits, Early
  <2> QED
    BY <1>1, <1>3, <1>4, <1>5, <2>1, LeaveKeeps
<1>6. CASE /\ gate' = Measured(TRUE, works)
           /\ readers' = readers + 1
           /\ Move(t, "reading")
           /\ UNCHANGED <<buffered, parser>>
  <2>1. RowFits("reading", None)
    BY DEF RowFits
  <2>2. readers' = readers + Place([at |-> "reading"]) - Place(tasks[t])
    BY <1>0, <1>1, <1>6 DEF Place, Holding, TypeOK
  <2>3. parser # t
    BY <1>0, <1>1 DEF CountedOnce, At
  <2>4. tasks[t].bytes > 0 => "reading" \in Holding \cup {"running"}
    BY DEF Holding
  <2> QED
    BY <1>1, <1>3, <1>4, <1>6, <2>1, <2>2, <2>3, <2>4, MoveKeeps DEF Stage
<1> QED
  BY <1>2, <1>5, <1>6

LEMMA FrameKeeps ==
  ASSUME AdmissionAssumption, AdmissionInv, NEW t \in Task, Frame(t)
  PROVE  AdmissionInv'
<1>0. TypeOK /\ CountedOnce
  BY DEF AdmissionInv
<1>1. tasks[t].at = "reading" /\ tasks[t].bytes < MaxBytes /\ UNCHANGED <<usage, cfg, rows>>
  BY DEF Frame, At
<1>2. CASE Fails(t, FALSE)
  BY <1>1, <1>2, FailsKeeps DEF Early
<1>3. CASE ~Fails(t, FALSE)
  <2> DEFINE w == [at |-> "reading", bytes |-> tasks[t].bytes + 1]
  <2>1. /\ Passes(FALSE)
        /\ tasks' = [tasks EXCEPT ![t].bytes = @ + 1]
        /\ buffered' = buffered + 1
        /\ UNCHANGED <<readers, parser>>
    BY <1>3 DEF Frame
  <2>2. gate' \in Gate
    BY <1>0, <2>1, PassesIsGate
  <2>3. w \in Work /\ w.at = "reading" /\ w.bytes = tasks[t].bytes + 1
    BY <1>0, <1>1 DEF Work, Stage, TypeOK, AdmissionAssumption
  <2>4. tasks' = [tasks EXCEPT ![t] = w]
    <3>1. [tasks[t] EXCEPT !.bytes = tasks[t].bytes + 1] = w
      BY <1>0, <1>1 DEF TypeOK
    <3>2. tasks' = [tasks EXCEPT ![t] = [tasks[t] EXCEPT !.bytes = tasks[t].bytes + 1]]
      BY <2>1
    <3> HIDE DEF w
    <3> QED
      BY <3>1, <3>2
  <2>5. rows' = [rows EXCEPT ![t] = None] /\ rows[t] = None
    BY <1>1, RowStays DEF Early
  <2>6. RowFits(w.at, None)
    BY <2>3 DEF RowFits
  <2>7. readers' = readers + Place(w) - Place(tasks[t])
    <3>1. Place(w) = Place(tasks[t])
      BY <1>1, <2>3 DEF Place
    <3>2. Place(tasks[t]) \in Int
      BY DEF Place
    <3> HIDE DEF w
    <3> QED
      BY <1>0, <2>1, <3>1, <3>2 DEF TypeOK
  <2>8. buffered' = buffered + w.bytes - tasks[t].bytes
    BY <1>0, <2>1, <2>3 DEF TypeOK, AdmissionAssumption
  <2>9. w.at \in Holding /\ w.at # "parsing" /\ parser # t
    BY <1>0, <1>1, <2>3 DEF Holding, CountedOnce, At
  <2>10. parser' = parser
    BY <2>1
  <2> HIDE DEF w
  <2> QED
    BY <1>1, <2>2, <2>3, <2>4, <2>5, <2>6, <2>7, <2>8, <2>9, <2>10, TaskMoves
<1> QED
  BY <1>2, <1>3

\* The steps of a handler with a place that go on to another stage with a place,
\* without a row.
LEMMA GoesOn ==
  ASSUME AdmissionAssumption, AdmissionInv, NEW t \in Task, NEW stage \in Holding,
         tasks[t].at \in Holding, Move(t, stage), gate' \in Gate,
         UNCHANGED <<usage, cfg, rows, readers, buffered>>,
         stage = "parsing" => parser \in {None, t},
         parser' = IF stage = "parsing" THEN t ELSE IF parser = t THEN None ELSE parser
  PROVE  AdmissionInv'
<1>1. rows' = [rows EXCEPT ![t] = None]
  BY RowStays DEF Early, Holding
<1>2. RowFits(stage, None) /\ stage \in Stage
  BY DEF RowFits, Holding, Stage
<1>3. readers' = readers + Place([at |-> stage]) - Place(tasks[t])
  BY DEF Place, AdmissionInv, TypeOK, AdmissionAssumption
<1> QED
  BY <1>1, <1>2, <1>3, MoveKeeps

LEMMA BodyEndKeeps ==
  ASSUME AdmissionAssumption, AdmissionInv, NEW t \in Task, BodyEnd(t)
  PROVE  AdmissionInv'
<1>1. tasks[t].at = "reading" /\ UNCHANGED <<usage, cfg, rows>> /\ TypeOK /\ CountedOnce
  BY DEF BodyEnd, At, AdmissionInv
<1>2. CASE Fails(t, TRUE)
  BY <1>1, <1>2, FailsKeeps DEF Early
<1>3. CASE Passes(TRUE) /\ Move(t, "locking") /\ UNCHANGED <<readers, buffered, parser>>
  <2>1. gate' \in Gate
    BY <1>1, <1>3, PassesIsGate
  <2>2. parser # t
    BY <1>1 DEF CountedOnce, At
  <2> QED
    BY <1>1, <1>3, <2>1, <2>2, GoesOn DEF Holding
<1> QED
  BY <1>2, <1>3 DEF BodyEnd

LEMMA LockKeeps ==
  ASSUME AdmissionAssumption, AdmissionInv, NEW t \in Task, Lock(t)
  PROVE  AdmissionInv'
<1>1. gate' \in Gate
  BY DEF Lock, AdmissionInv, TypeOK
<1> QED
  BY <1>1, GoesOn DEF Lock, At, Holding

LEMMA ParseCheckKeeps ==
  ASSUME AdmissionAssumption, AdmissionInv, NEW t \in Task, ParseCheck(t)
  PROVE  AdmissionInv'
<1>1. tasks[t].at = "parsing" /\ UNCHANGED <<usage, cfg, rows>> /\ TypeOK /\ CountedOnce
  BY DEF ParseCheck, At, AdmissionInv
<1>2. CASE Fails(t, TRUE)
  BY <1>1, <1>2, FailsKeeps DEF Early
<1>3. CASE Passes(TRUE) /\ UNCHANGED <<tasks, readers, buffered, parser>>
  <2>1. gate' \in Gate
    BY <1>1, <1>3, PassesIsGate
  <2>2. parser = t
    BY <1>1 DEF CountedOnce, At
  <2>3. Move(t, "parsing")
    BY <1>1, <1>3 DEF Move, TypeOK
  <2> QED
    BY <1>1, <1>3, <2>1, <2>2, <2>3, GoesOn DEF Holding
<1> QED
  BY <1>2, <1>3 DEF ParseCheck

LEMMA ParsedKeeps ==
  ASSUME AdmissionAssumption, AdmissionInv, NEW t \in Task, Parsed(t)
  PROVE  AdmissionInv'
<1>1. tasks[t].at = "parsing" /\ UNCHANGED <<usage, cfg, rows>> /\ TypeOK /\ CountedOnce
  BY DEF Parsed, At, AdmissionInv
<1>2. CASE Fails(t, TRUE)
  BY <1>1, <1>2, FailsKeeps DEF Early
<1>3. CASE Passes(TRUE) /\ Move(t, "starting") /\ parser' = None /\ UNCHANGED <<readers, buffered>>
  <2>1. gate' \in Gate
    BY <1>1, <1>3, PassesIsGate
  <2>2. parser = t
    BY <1>1 DEF CountedOnce, At
  <2> QED
    BY <1>1, <1>3, <2>1, <2>2, GoesOn DEF Holding
<1> QED
  BY <1>2, <1>3 DEF Parsed

LEMMA RefuseKeeps ==
  ASSUME AdmissionAssumption, AdmissionInv, NEW t \in Task, Refuse(t)
  PROVE  AdmissionInv'
<1>1. tasks[t].at \in Early /\ gate \in Gate
  BY DEF Refuse, At, Early, AdmissionInv, TypeOK
<1>2. rows' = [rows EXCEPT ![t] = None]
  BY <1>1, RowStays DEF Refuse
<1>3. RowFits("begin", None)
  BY DEF RowFits, Early
<1> QED
  BY <1>1, <1>2, <1>3, LeaveKeeps DEF Refuse

LEMMA StartsInsertKeeps ==
  ASSUME AdmissionAssumption, AdmissionInv, NEW t \in Task, StartsInsert(t)
  PROVE  AdmissionInv'
<1>1. tasks[t].at = "starting" /\ gate' \in Gate
  BY DEF StartsInsert, At, AdmissionInv, TypeOK
<1>2. parser # t
  BY <1>1 DEF AdmissionInv, CountedOnce, At
<1> QED
  BY <1>1, <1>2, GoesOn DEF StartsInsert, Holding

\* The row of an insertion.
LEMMA InsertGivesRow ==
  ASSUME AdmissionAssumption, NEW t \in Task, NEW state \in {"queued", "rejected"}, Insert(t, state)
  PROVE  \E row \in Row : /\ rows' = [rows EXCEPT ![t] = row]
                          /\ row # None /\ row.state = state
<1> DEFINE row == [state |-> state, open |-> TRUE]
<1>1. row \in Row /\ row.state = state
  BY DEF Row
<1>2. row # None
  BY <1>1 DEF AdmissionAssumption
<1> QED
  BY <1>1, <1>2 DEF Insert

\* The row of a statement that finishes a request.
LEMMA CloseGivesRow ==
  ASSUME AdmissionAssumption, TypeOK, NEW t \in Task,
         NEW state \in {"rejected", "completed"}, Close(t, state)
  PROVE  \E row \in Row \cup {None} :
           /\ rows' = [rows EXCEPT ![t] = row]
           /\ row = rows[t] \/ (rows[t] # None /\ row # None /\ row.state = state)
<1> DEFINE closed == [state |-> state, open |-> FALSE]
<1>1. closed \in Row /\ closed # None /\ closed.state = state
  <2>1. closed \in Row /\ closed.state = state
    BY DEF Row
  <2> QED
    BY <2>1 DEF AdmissionAssumption
<1>2. CASE rows[t] # None /\ rows[t].open
  <2>1. rows' = [rows EXCEPT ![t] = closed]
    BY <1>2 DEF Close
  <2> HIDE DEF closed
  <2> QED
    BY <1>1, <1>2, <2>1
<1>3. CASE ~(rows[t] # None /\ rows[t].open)
  <2>1. rows' = [rows EXCEPT ![t] = rows[t]] /\ rows[t] \in Row \cup {None}
    BY <1>3 DEF Close, TypeOK
  <2> QED
    BY <2>1
<1> QED
  BY <1>2, <1>3

LEMMA StartedKeeps ==
  ASSUME AdmissionAssumption, AdmissionInv, NEW t \in Task, Started(t)
  PROVE  AdmissionInv'
<1>0. TypeOK /\ CountedOnce
  BY DEF AdmissionInv
<1>1. tasks[t].at = "inserting"
  BY DEF Started, At
<1>2. PICK row \in Row : rows' = [rows EXCEPT ![t] = row] /\ row # None
  BY InsertGivesRow DEF Started
<1>3. RowFits("running", row)
  BY <1>2 DEF RowFits, Early
<1>4. readers' = readers - 1 /\ gate' = [gate EXCEPT !.recent = FALSE]
  BY <1>1 DEF Started, Release, Holds
<1>5. gate' \in Gate
  BY <1>0, <1>4 DEF TypeOK, Gate
<1>6. readers' = readers + Place([at |-> "running"]) - Place(tasks[t])
  BY <1>0, <1>1, <1>4 DEF Place, Holding, TypeOK
<1>7. parser' = parser /\ parser # t
  BY <1>0, <1>1 DEF CountedOnce, At, Started
<1>8. Move(t, "running") /\ UNCHANGED <<usage, cfg, buffered>>
  BY DEF Started
<1> QED
  BY <1>2, <1>3, <1>5, <1>6, <1>7, <1>8, MoveKeeps DEF Stage

LEMMA StartFailsKeeps ==
  ASSUME AdmissionAssumption, AdmissionInv, NEW t \in Task, StartFails(t)
  PROVE  AdmissionInv'
<1>1. tasks[t].at \in Early /\ gate \in Gate
  BY DEF StartFails, At, Early, AdmissionInv, TypeOK
<1>2. \E row \in Row \cup {None} : rows' = [rows EXCEPT ![t] = row] /\ RowFits("begin", row)
  <2>1. CASE Insert(t, "queued")
    <3>1. PICK row \in Row : rows' = [rows EXCEPT ![t] = row] /\ row # None /\ row.state = "queued"
      BY <2>1, InsertGivesRow
    <3>2. RowFits("begin", row)
      BY <3>1 DEF RowFits, Early
    <3> QED
      BY <3>1, <3>2
  <2>2. CASE UNCHANGED rows
    <3>1. rows' = [rows EXCEPT ![t] = None]
      BY <1>1, <2>2, RowStays
    <3>2. RowFits("begin", None)
      BY DEF RowFits, Early
    <3> QED
      BY <3>1, <3>2
  <2> QED
    BY <2>1, <2>2 DEF StartFails
<1> QED
  BY <1>1, <1>2, LeaveKeeps DEF StartFails, OnInsertError

\* The record of a refusal goes on without a place or bytes.
LEMMA RecordKeeps ==
  ASSUME AdmissionAssumption, AdmissionInv, NEW t \in Task,
         tasks[t].at \in {"begin", "finish"}, NEW stage \in {"finish", "refused"}, Move(t, stage),
         NEW row \in Row \cup {None}, rows' = [rows EXCEPT ![t] = row],
         row = None \/ row.state # "completed",
         UNCHANGED <<usage, cfg, gate, readers, buffered, parser>>
  PROVE  AdmissionInv'
<1>0. TypeOK /\ CountedOnce /\ BytesByStage
  BY DEF AdmissionInv
<1>1. ~(tasks[t].bytes > 0) /\ parser # t
  BY <1>0 DEF BytesByStage, Buffers, Holds, At, CountedOnce
<1>2. readers' = readers + Place([at |-> stage]) - Place(tasks[t])
  BY <1>0 DEF Place, Holding, TypeOK
<1>3. gate' \in Gate /\ stage \in Stage
  BY <1>0 DEF TypeOK, Stage
<1>4. RowFits(stage, row)
  BY DEF RowFits, Early
<1> QED
  BY <1>1, <1>2, <1>3, <1>4, MoveKeeps

LEMMA RecordRefusalKeeps ==
  ASSUME AdmissionAssumption, AdmissionInv, NEW t \in Task, RecordRefusal(t)
  PROVE  AdmissionInv'
<1>1. tasks[t].at = "begin" /\ UNCHANGED <<usage, cfg, gate, readers, buffered, parser>>
  BY DEF RecordRefusal, At
<1>2. PICK stage \in {"finish", "refused"} : Move(t, stage)
  BY DEF RecordRefusal
<1>3. CASE Insert(t, "rejected")
  <2>1. PICK row \in Row : rows' = [rows EXCEPT ![t] = row] /\ row.state = "rejected"
    BY <1>3, InsertGivesRow
  <2> QED
    BY <1>1, <1>2, <2>1, RecordKeeps
<1>4. CASE UNCHANGED rows
  <2>1. /\ rows[t] \in Row \cup {None} /\ rows' = [rows EXCEPT ![t] = rows[t]]
        /\ rows[t] = None \/ rows[t].state # "completed"
    BY <1>1, <1>4, RowStays DEF RowFits
  <2> QED
    BY <1>1, <1>2, <2>1, RecordKeeps
<1> QED
  BY <1>3, <1>4 DEF RecordRefusal

LEMMA CloseRefusalKeeps ==
  ASSUME AdmissionAssumption, AdmissionInv, NEW t \in Task, CloseRefusal(t)
  PROVE  AdmissionInv'
<1>1. tasks[t].at = "finish" /\ UNCHANGED <<usage, cfg, gate, readers, buffered, parser>>
  BY DEF CloseRefusal, At
<1>2. rows[t] = None \/ rows[t].state # "completed"
  BY <1>1, RowStays DEF RowFits
<1>3. Move(t, "refused") /\ TypeOK
  BY DEF CloseRefusal, AdmissionInv
<1>4. CASE Close(t, "rejected")
  <2>1. PICK row \in Row \cup {None} :
          /\ rows' = [rows EXCEPT ![t] = row]
          /\ row = rows[t] \/ (rows[t] # None /\ row # None /\ row.state = "rejected")
    BY <1>3, <1>4, CloseGivesRow
  <2> QED
    BY <1>1, <1>2, <1>3, <2>1, RecordKeeps
<1>5. CASE UNCHANGED rows
  <2>1. rows[t] \in Row \cup {None} /\ rows' = [rows EXCEPT ![t] = rows[t]]
    BY <1>5, RowStays
  <2> QED
    BY <1>1, <1>2, <1>3, <2>1, RecordKeeps
<1> QED
  BY <1>4, <1>5 DEF CloseRefusal

LEMMA RunEndsKeeps ==
  ASSUME AdmissionAssumption, AdmissionInv, NEW t \in Task, RunEnds(t)
  PROVE  AdmissionInv'
<1>1. tasks[t].at = "running" /\ gate \in Gate /\ TypeOK
  BY DEF RunEnds, At, AdmissionInv, TypeOK
<1>2. rows[t] # None
  BY <1>1, RowStays DEF RowFits
<1>3. PICK row \in Row \cup {None} :
        /\ rows' = [rows EXCEPT ![t] = row]
        /\ row = rows[t] \/ (rows[t] # None /\ row # None /\ row.state = "completed")
  BY <1>1, CloseGivesRow DEF RunEnds
<1>4. RowFits("answered", row)
  BY <1>2, <1>3 DEF RowFits, Early
<1> QED
  BY <1>1, <1>3, <1>4, LeaveKeeps DEF RunEnds

LEMMA DisconnectKeeps ==
  ASSUME AdmissionAssumption, AdmissionInv, NEW t \in Task, Disconnect(t)
  PROVE  AdmissionInv'
<1>1. gate \in Gate /\ TypeOK
  BY DEF AdmissionInv, TypeOK
<1>2. \E row \in Row \cup {None} : rows' = [rows EXCEPT ![t] = row]
  <2>1. CASE UNCHANGED rows
    BY <2>1, RowStays
  <2>2. CASE Insert(t, "queued") \/ Insert(t, "rejected")
    BY <2>2, InsertGivesRow
  <2>3. CASE Close(t, "rejected")
    BY <1>1, <2>3, CloseGivesRow
  <2> QED
    BY <2>1, <2>2, <2>3 DEF Disconnect
<1>3. \A row : RowFits("gone", row)
  BY DEF RowFits, Early
<1> QED
  BY <1>1, <1>2, <1>3, LeaveKeeps DEF Disconnect

-----------------------------------------------------------------------------
(* The other steps, and the invariant. *)

\* What is around the requests changes.
LEMMA SurroundingsKeep ==
  ASSUME AdmissionInv, usage' \in Usage, cfg' \in Settings, gate' \in Gate,
         UNCHANGED <<readers, buffered, parser, rows, tasks>>
  PROVE  AdmissionInv'
<1>1. Holders' = Holders /\ Frames' = Frames
  BY DEF Holders, Frames, Holds
<1>2. TypeOK'
  BY DEF AdmissionInv, TypeOK
<1>3. CountedOnce'
  BY <1>1 DEF AdmissionInv, CountedOnce, At
<1>4. BytesByStage' /\ RowsByStage'
  BY DEF AdmissionInv, BytesByStage, Buffers, Holds, At, RowsByStage
<1> QED
  BY <1>2, <1>3, <1>4 DEF AdmissionInv

\* A process without requests: nothing is counted.
LEMMA EmptyProcess ==
  ASSUME AdmissionAssumption, usage' \in Usage, cfg' \in Settings, gate' = Fresh,
         readers' = 0, buffered' = 0, parser' = None,
         rows' \in [Task -> Row \cup {None}], RowsByStage',
         tasks' \in [Task -> Work],
         \A t \in Task : /\ tasks'[t].bytes = 0
                         /\ tasks'[t].at \notin Holding
  PROVE  AdmissionInv'
<1>1. Holders' = {} /\ Frames' = {}
  <2>1. Holders' = {}
    BY DEF Holders, Holds, Holding
  <2>2. Frames' = {f \in Task \X (1..MaxBytes) : f[2] <= tasks'[f[1]].bytes}
    BY DEF Frames
  <2>3. \A f \in Task \X (1..MaxBytes) : ~(f[2] <= tasks'[f[1]].bytes)
    BY DEF AdmissionAssumption
  <2> QED
    BY <2>1, <2>2, <2>3
<1>2. gate' \in Gate
  BY DEF Fresh, Gate
<1>3. Cardinality(Task) \in Nat /\ None \notin Task
  BY FS_CardinalityType DEF AdmissionAssumption
<1>4. TypeOK'
  BY <1>2, <1>3 DEF TypeOK, Work
<1>5. CountedOnce'
  BY <1>1, <1>3, FS_EmptySet DEF CountedOnce, At, Holding
<1>6. BytesByStage'
  BY DEF BytesByStage
<1> QED
  BY <1>4, <1>5, <1>6 DEF AdmissionInv

LEMMA RestartKeeps ==
  ASSUME AdmissionAssumption, AdmissionInv, Restart
  PROVE  AdmissionInv'
<1>0. TypeOK /\ RowsByStage /\ BytesByStage
  BY DEF AdmissionInv
<1> DEFINE closed == [state |-> "interrupted", open |-> FALSE]
           gone == [at |-> "gone", bytes |-> 0]
<1>1. closed \in Row /\ closed # None /\ closed.state = "interrupted"
  <2>1. closed \in Row /\ closed.state = "interrupted"
    BY DEF Row
  <2> QED
    BY <2>1 DEF AdmissionAssumption
<1>2. gone \in Work /\ gone.at = "gone" /\ gone.bytes = 0
  BY DEF Work, Stage, AdmissionAssumption
<1>3. \A t \in Task : rows'[t] = IF rows[t] = None \/ ~rows[t].open THEN rows[t] ELSE closed
  BY DEF Restart
<1>4. \A t \in Task : tasks'[t] = IF tasks[t].at \in {"refused", "answered", "new"} THEN tasks[t] ELSE gone
  BY DEF Restart
<1>5. DOMAIN rows' = Task /\ DOMAIN tasks' = Task
  BY DEF Restart
<1>6. rows' = [t \in Task |-> rows'[t]] /\ tasks' = [t \in Task |-> tasks'[t]]
  BY DEF Restart
<1> HIDE DEF closed, gone
<1>7. rows' \in [Task -> Row \cup {None}]
  BY <1>0, <1>1, <1>3, <1>6 DEF TypeOK
<1>8. tasks' \in [Task -> Work]
  BY <1>0, <1>2, <1>4, <1>6 DEF TypeOK, Work
<1>9. ASSUME NEW t \in Task
      PROVE  RowFits(tasks'[t].at, rows'[t])
  <2>1. RowFits(tasks[t].at, rows[t])
    BY <1>0 DEF RowsByStage
  <2>2. CASE tasks[t].at = "new"
    BY <1>3, <1>4, <2>1, <2>2 DEF RowFits, Early
  <2>3. CASE tasks[t].at = "refused"
    BY <1>1, <1>3, <1>4, <2>1, <2>3 DEF RowFits, Early
  <2>4. CASE tasks[t].at = "answered"
    BY <1>1, <1>3, <1>4, <2>1, <2>4 DEF RowFits, Early
  <2>5. CASE tasks[t].at \notin {"refused", "answered", "new"}
    BY <1>2, <1>4, <2>5 DEF RowFits, Early
  <2> QED
    BY <2>2, <2>3, <2>4, <2>5
<1>10. RowsByStage'
  BY <1>9 DEF RowsByStage
<1>11. \A t \in Task : tasks'[t].bytes = 0 /\ tasks'[t].at \notin Holding
  <2> SUFFICES ASSUME NEW t \in Task
               PROVE  tasks'[t].bytes = 0 /\ tasks'[t].at \notin Holding
    OBVIOUS
  <2>1. tasks[t].bytes \in Nat
    BY <1>0 DEF TypeOK, AdmissionAssumption
  <2>2. tasks[t].at \in {"refused", "answered", "new"} => ~(tasks[t].bytes > 0)
    BY <1>0 DEF BytesByStage, Buffers, Holds, At
  <2> QED
    BY <1>2, <1>4, <2>1, <2>2 DEF Holding
<1>12. usage' \in Usage /\ cfg' \in Settings
  BY <1>0 DEF Restart, TypeOK
<1> QED
  BY <1>7, <1>8, <1>10, <1>11, <1>12, EmptyProcess DEF Restart

LEMMA InitHolds ==
  ASSUME AdmissionAssumption, Init
  PROVE  AdmissionInv
<1>1. Holders = {} /\ Frames = {}
  <2>1. \A t \in Task : tasks[t].at = "new" /\ tasks[t].bytes = 0
    BY DEF Init
  <2>2. \A f \in Task \X (1..MaxBytes) : ~(f[2] <= tasks[f[1]].bytes)
    BY <2>1 DEF AdmissionAssumption
  <2> QED
    BY <2>1, <2>2 DEF Holders, Holds, Frames
<1>2. gate \in Gate
  BY DEF Init, Fresh, Gate
<1>3. Cardinality(Task) \in Nat /\ None \notin Task
  BY FS_CardinalityType DEF AdmissionAssumption
<1>4. TypeOK
  BY <1>2, <1>3 DEF Init, TypeOK, Stage, AdmissionAssumption
<1>5. CountedOnce
  BY <1>1, <1>3, FS_EmptySet DEF CountedOnce, Init, At
<1>6. BytesByStage /\ RowsByStage
  BY DEF Init, BytesByStage, RowsByStage, RowFits
<1> QED
  BY <1>4, <1>5, <1>6 DEF AdmissionInv

LEMMA NextHolds ==
  ASSUME AdmissionAssumption, AdmissionInv, [Next]_vars
  PROVE  AdmissionInv'
<1>0. TypeOK
  BY DEF AdmissionInv
<1>1. ASSUME NEW t \in Task, TaskStep(t)
      PROVE  AdmissionInv'
  BY <1>1, EnterKeeps, FrameKeeps, BodyEndKeeps, LockKeeps, ParseCheckKeeps, ParsedKeeps,
     RefuseKeeps, StartsInsertKeeps, StartedKeeps, StartFailsKeeps, RecordRefusalKeeps,
     CloseRefusalKeeps, RunEndsKeeps, DisconnectKeeps DEF TaskStep
<1>2. CASE Environment
  <2>1. usage' \in Usage /\ cfg' \in Settings
    BY <1>0, <1>2 DEF Environment, TypeOK
  <2>2. gate' \in Gate
    BY <1>0, <1>2 DEF Environment, TypeOK, Gate
  <2> QED
    BY <1>2, <2>1, <2>2, SurroundingsKeep DEF Environment
<1>3. CASE Status
  <2>1. gate' \in Gate
    BY <1>0, <1>3, MeasuredIsGate DEF Status
  <2> QED
    BY <1>0, <1>3, <2>1, SurroundingsKeep DEF Status, TypeOK
<1>4. CASE UNCHANGED vars
  BY <1>0, <1>4, SurroundingsKeep DEF vars, TypeOK
<1> QED
  BY <1>1, <1>2, <1>3, <1>4, RestartKeeps DEF Next

\* Counters, stages, bytes and rows agree through every step of the handlers,
\* departures and restarts included.
LEMMA AdmissionHolds ==
  ASSUME AdmissionAssumption
  PROVE  Spec => []AdmissionInv
<1>1. Init => AdmissionInv
  BY InitHolds
<1>2. AdmissionInv /\ [Next]_vars => AdmissionInv'
  BY NextHolds
<1> QED
  BY <1>1, <1>2, PTL DEF Spec

-----------------------------------------------------------------------------
(* Theorems. *)

\* memory.rs and public.rs: each permit and each buffered byte is given back once,
\* however a request is refused, dropped or handed over to its task, and one body
\* at most is being parsed.
THEOREM PermitsReturned ==
  ASSUME AdmissionAssumption
  PROVE  Spec => []AdmissionCounted
<1>1. AdmissionInv => AdmissionCounted
  BY SumOfBytes DEF AdmissionInv, CountedOnce, AdmissionCounted, Holders
<1> QED
  BY <1>1, AdmissionHolds, PTL

\* public.rs: a request whose client was told that it is refused is never run, and
\* one that was run has its row.
THEOREM RefusalIsFinal ==
  ASSUME AdmissionAssumption
  PROVE  Spec => []RefusedNeverRuns
<1>1. AdmissionInv => RefusedNeverRuns
  BY DEF AdmissionInv, RowsByStage, RowFits, RefusedNeverRuns
<1> QED
  BY <1>1, AdmissionHolds, PTL

\* memory.rs: a body is read only if the memory in use at this moment is below the
\* threshold, and below the lower one if the gate was closed.
THEOREM MeasuredOnEntry ==
  ASSUME AdmissionAssumption
  PROVE  Spec => [][EntersBelowThreshold]_vars
<1>1. ASSUME AdmissionInv, [Next]_vars
      PROVE  EntersBelowThreshold
  <2> SUFFICES ASSUME NEW t \in Task, tasks[t].at = "new", tasks'[t].at = "reading"
               PROVE  ~High(usage) /\ (gate.blocked => Low(usage))
    BY DEF EntersBelowThreshold, At
  <2>0. TypeOK
    BY <1>1 DEF AdmissionInv
  <2>1. Enter(t)
    <3>1. tasks' # tasks
      OBVIOUS
    <3>2. ~Restart
      BY <3>1, <2>0 DEF Restart, TypeOK
    <3>3. PICK u \in Task : TaskStep(u)
      BY <1>1, <3>1, <3>2 DEF Next, vars, Environment, Status
    <3>4. \A v \in Task \ {u} : tasks'[v] = tasks[v]
      BY <2>0, <3>3 DEF TaskStep, Enter, Frame, BodyEnd, Lock, ParseCheck, Parsed, Refuse,
        StartsInsert, Started, StartFails, RecordRefusal, CloseRefusal, RunEnds, Disconnect,
        Fails, Leave, Move, OnInsertError, TypeOK
    <3>5. u = t
      BY <3>4
    <3>6. \A stage \in Stage \ {"reading"} : ~Move(t, stage)
      BY <2>0 DEF Move, TypeOK
    <3>7. \A stage \in Stage \ {"reading"}, g \in {gate} : ~Leave(t, stage, g)
      BY <2>0 DEF Leave, TypeOK
    <3> QED
      BY <3>3, <3>5, <3>6, <3>7 DEF TaskStep, Frame, BodyEnd, Lock, ParseCheck, Parsed, Refuse,
        StartsInsert, Started, StartFails, RecordRefusal, CloseRefusal, RunEnds, Disconnect,
        OnInsertError, At, Stage, Holds
  <2>2. PICK works \in BOOLEAN : ~Refuses(Measured(TRUE, works))
    <3>1. \A g : ~Leave(t, "begin", g)
      BY <2>0 DEF Leave, TypeOK
    <3> QED
      BY <2>1, <3>1 DEF Enter
  <2> DEFINE sample == IF works THEN usage ELSE None
             flag == IF sample = None THEN gate.blocked ELSE High(sample) \/ (gate.blocked /\ ~Low(sample))
  <2>3. Measured(TRUE, works) = [sample |-> sample, recent |-> TRUE, blocked |-> flag]
    BY DEF Measured, MayReuse
  <2>4. sample # None /\ ~flag
    <3>0. flag \in BOOLEAN
      <4>1. gate.blocked \in BOOLEAN
        BY <2>0 DEF TypeOK, Gate
      <4> HIDE DEF sample
      <4> QED
        BY <4>1, Zenon DEF High, Low
    <3> HIDE DEF sample, flag
    <3>1. PICK g : g = Measured(TRUE, works)
      OBVIOUS
    <3>2. g = [sample |-> sample, recent |-> TRUE, blocked |-> flag]
      BY <2>3, <3>1, Zenon
    <3>3. ~g.blocked /\ g.sample # None
      BY <2>2, <3>1, Zenon DEF Refuses
    <3> QED
      BY <3>0, <3>2, <3>3
  <2>5. sample = usage
    BY <2>4
  <2>6. ~(High(usage) \/ (gate.blocked /\ ~Low(usage)))
    BY <2>4, <2>5, Zenon
  <2> QED
    BY <2>6
<1>2. AdmissionInv /\ [Next]_vars => [EntersBelowThreshold]_vars
  BY <1>1
<1> QED
  BY <1>2, AdmissionHolds, PTL DEF Spec

================================================================================
