------------------------- MODULE LikeReconcileProofs -------------------------
(***************************************************************************)
(* Proofs about LikePersist and, in the second half, about LikeReconcile,  *)
(* which extends it: for any events, any numbers of workers and            *)
(* reconcilers, statements that fail or not, any threshold and any bounds  *)
(* on what goes wrong.                                                     *)
(***************************************************************************)
EXTENDS LikeReconcile, TLAPS

-----------------------------------------------------------------------------
(* LikePersist. *)

\* The states and fields of a worker.
LEMMA RunningCall ==
    ASSUME TypeOK, NEW w \in Workers
    PROVE  /\ worker[w].pc \in {"upsert", "apply"} =>
                 /\ worker[w] \in [pc : {"upsert", "apply"}, e : Events]
                 /\ worker[w].e \in Events
                 /\ worker[w].e.u \in Users /\ worker[w].e.v \in Videos
                 /\ worker[w].e.liked \in BOOLEAN /\ worker[w].e.ts \in Nat
                 /\ <<worker[w].e.u, worker[w].e.v>> \in Pairs
<1>1. worker[w] \in {Idle} \cup [pc : {"upsert", "apply"}, e : Events]
    BY DEF TypeOK
<1>2. CASE worker[w] = Idle
    BY <1>2 DEF Idle
<1>3. CASE worker[w] \in [pc : {"upsert", "apply"}, e : Events]
    BY <1>3, PersistAssumption DEF Pairs
<1> QED
    BY <1>1, <1>2, <1>3

\* A row that an event was upserted into is a row.
LEMMA UpsertedRow ==
    ASSUME NEW row \in [liked : BOOLEAN, ts : Int], NEW e, e.liked \in BOOLEAN, e.ts \in Nat
    PROVE  Upserted(row, e) \in [liked : BOOLEAN, ts : Int]
    BY DEF Upserted

\* An upsert keeps the rows well typed.
LEMMA UpsertIsTyped ==
    ASSUME TypeOK, NEW e \in Events, UpsertLike(e)
    PROVE  record' \in [Pairs -> [liked : BOOLEAN, ts : Int]]
<1>1. e.liked \in BOOLEAN /\ e.ts \in Nat
    BY PersistAssumption
<1>2. \A k \in Pairs : Upserted(record[k], e) \in [liked : BOOLEAN, ts : Int]
    BY <1>1, UpsertedRow DEF TypeOK, RepoTypeOK
<1> QED
    BY <1>2 DEF TypeOK, RepoTypeOK, UpsertLike

\* Every step keeps the types.
LEMMA StepIsTyped == TypeOK /\ [Next]_vars => TypeOK'
<1> SUFFICES ASSUME TypeOK, [Next]_vars PROVE TypeOK'
    OBVIOUS
<1> USE DEF TypeOK, RepoTypeOK
<1>1. ASSUME NEW w \in Workers, NEW e \in Events, HandleBatch(w, e) PROVE TypeOK'
    BY <1>1 DEF HandleBatch, Idle
<1>2. ASSUME NEW w \in Workers, Upsert(w) PROVE TypeOK'
    <2>1. worker[w].e \in Events /\ worker[w] \in [pc : {"upsert", "apply"}, e : Events]
        BY <1>2, RunningCall DEF Upsert
    <2>2. record' \in [Pairs -> [liked : BOOLEAN, ts : Int]]
        BY <1>2, <2>1, UpsertIsTyped DEF Upsert
    <2>3. worker' \in [Workers -> {Idle} \cup [pc : {"upsert", "apply"}, e : Events]]
        BY <1>2, <2>1 DEF Upsert
    <2> QED
        BY <1>2, <2>1, <2>2, <2>3 DEF Upsert
<1>3. ASSUME NEW w \in Workers, UpsertFails(w) PROVE TypeOK'
    <2>1. worker[w].e \in Events
        BY <1>3, RunningCall DEF UpsertFails
    <2>2. record' \in [Pairs -> [liked : BOOLEAN, ts : Int]]
        BY <1>3, <2>1, UpsertIsTyped DEF UpsertFails
    <2> QED
        BY <1>3, <2>1, <2>2 DEF UpsertFails
<1>4. ASSUME NEW w \in Workers, Apply(w) PROVE TypeOK'
    <2> DEFINE d == Delta(worker[w].e)
    <2>0. worker[w].e.v \in Videos
        BY <1>4, RunningCall DEF Apply
    <2>1. worker[w].e.v \in Videos /\ d \in Int
        BY <2>0 DEF Delta
    <2>2. \A n \in Nat : Most(0, n + d) \in Nat
        BY <2>1 DEF Most
    <2>3. \A m, n \in Int : Least(m, n + d) \in Int
        BY <2>1 DEF Least
    <2>4. stats' \in [Videos -> Nat]
        BY <1>4, <2>1, <2>2 DEF Apply, ApplyCountDeltas
    <2>5. net' \in [Videos -> Int]
        BY <1>4, <2>1 DEF Apply
    <2>6. low' \in [Videos -> Int]
        BY <1>4, <2>1, <2>3 DEF Apply
    <2> QED
        BY <1>4, <2>4, <2>5, <2>6 DEF Apply
<1>5. ASSUME NEW w \in Workers, ApplyFails(w) PROVE TypeOK'
    BY <1>5 DEF ApplyFails
<1>6. CASE UNCHANGED vars
    BY <1>6 DEF vars
<1> QED
    BY <1>1, <1>2, <1>3, <1>4, <1>5, <1>6 DEF Next

\* The tables and the calls stay well typed (mysql_repo.go, consumer.go).
THEOREM TypeCorrect == Spec => []TypeOK
<1>1. Init => TypeOK
    BY DEF Init, RepoInit, TypeOK, RepoTypeOK, NoRow, Pairs
<1> QED
    BY <1>1, StepIsTyped, PTL DEF Spec

-----------------------------------------------------------------------------
\* Upserting one more event keeps a row the newest of the events stored for it.
LEMMA UpsertKeepsNewest ==
    ASSUME TypeOK, RecordIsNewest, NEW e \in Events,
           UpsertLike(e), stored' = stored \cup {e}
    PROVE  RecordIsNewest'
<1> DEFINE key == <<e.u, e.v>>
<1>1. e.liked \in BOOLEAN /\ e.ts \in Nat /\ key \in Pairs
    BY PersistAssumption DEF Pairs
<1>2. \A x \in stored : x.ts \in Nat
    BY PersistAssumption DEF TypeOK
<1> SUFFICES ASSUME NEW k \in Pairs
             PROVE  IF StoredFor(k)' = {} THEN record'[k] = NoRow
                    ELSE /\ \A x \in StoredFor(k)' : x.ts <= record'[k].ts
                         /\ \E x \in StoredFor(k)' : record'[k] = [liked |-> x.liked, ts |-> x.ts]
    BY DEF RecordIsNewest
<1>3. CASE k # key
    <2>1. record'[k] = record[k] /\ StoredFor(k)' = StoredFor(k)
        BY <1>3 DEF UpsertLike, TypeOK, RepoTypeOK, StoredFor
    <2> QED
        BY <2>1 DEF RecordIsNewest
<1>4. CASE k = key
    <2>1. StoredFor(k)' = StoredFor(k) \cup {e}
        BY <1>4 DEF StoredFor
    <2>2. record'[k] = Upserted(record[k], e)
        BY <1>1, <1>4 DEF UpsertLike, TypeOK, RepoTypeOK
    <2>3. record[k] \in [liked : BOOLEAN, ts : Int]
        BY DEF TypeOK, RepoTypeOK
    <2>4. \A x \in StoredFor(k) : x.ts \in Nat /\ x.ts <= record[k].ts
        BY <1>2 DEF RecordIsNewest, StoredFor
    <2>5. CASE record[k] = NoRow
        <3>1. \A x \in StoredFor(k) : x.ts <= -1
            BY <2>4, <2>5 DEF NoRow
        <3>2. StoredFor(k) = {}
            BY <2>4, <3>1
        <3> QED
            BY <1>1, <2>1, <2>2, <2>5, <3>2 DEF Upserted
    <2>6. CASE record[k] # NoRow /\ e.ts > record[k].ts
        <3>1. record'[k] = [liked |-> e.liked, ts |-> e.ts]
            BY <2>2, <2>6 DEF Upserted
        <3>2. \A x \in StoredFor(k) : x.ts <= e.ts
            BY <1>1, <2>3, <2>4, <2>6
        <3> QED
            BY <1>1, <2>1, <3>1, <3>2
    <2>7. CASE record[k] # NoRow /\ ~(e.ts > record[k].ts)
        <3>1. record'[k] = record[k] /\ e.ts <= record[k].ts
            BY <1>1, <2>2, <2>3, <2>7 DEF Upserted
        <3>2. \E x \in StoredFor(k) : record[k] = [liked |-> x.liked, ts |-> x.ts]
            BY <2>7 DEF RecordIsNewest
        <3> QED
            BY <2>1, <2>4, <3>1, <3>2
    <2> QED
        BY <2>5, <2>6, <2>7
<1> QED
    BY <1>3, <1>4

\* Every step keeps the rows the newest.
LEMMA StepKeepsNewest == TypeOK /\ RecordIsNewest /\ [Next]_vars => RecordIsNewest'
<1> SUFFICES ASSUME TypeOK, RecordIsNewest, [Next]_vars PROVE RecordIsNewest'
    OBVIOUS
<1>1. CASE UNCHANGED <<record, stored>>
    BY <1>1 DEF RecordIsNewest, StoredFor
<1>2. CASE \E e \in Events : UpsertLike(e) /\ stored' = stored \cup {e}
    BY <1>2, UpsertKeepsNewest
<1>3. \/ UNCHANGED <<record, stored>>
      \/ \E e \in Events : UpsertLike(e) /\ stored' = stored \cup {e}
    BY RunningCall DEF Next, vars, HandleBatch, Upsert, UpsertFails, Apply, ApplyFails
<1> QED
    BY <1>1, <1>2, <1>3

\* Events may come in any order and any number of times, statements may fail with
\* or without an effect: a row of like_record holds the newest state stored for it
\* (mysql_repo.go:18-34).
THEOREM RecordHoldsNewest == Spec => []RecordIsNewest
<1>1. Init => RecordIsNewest
    BY DEF Init, RepoInit, RecordIsNewest, StoredFor
<1>2. Spec => []TypeOK
    BY TypeCorrect
<1> QED
    BY <1>1, <1>2, StepKeepsNewest, PTL DEF Spec

-----------------------------------------------------------------------------
\* Adding a delta to a count with GREATEST(0, .) raises the deepest deficit by
\* what is cut off.
LEMMA ClampedSum ==
    ASSUME NEW n \in Int, NEW l \in Int, NEW d \in Int
    PROVE  Most(0, (n - l) + d) = (n + d) - Least(l, n + d)
    BY DEF Most, Least

\* Every step keeps a count off by the deepest deficit.
LEMMA StepKeepsDeficit ==
    TypeOK /\ CountIsOffByDeepestDeficit /\ [Next]_vars => CountIsOffByDeepestDeficit'
<1> SUFFICES ASSUME TypeOK, CountIsOffByDeepestDeficit, [Next]_vars
             PROVE  CountIsOffByDeepestDeficit'
    OBVIOUS
<1>1. CASE UNCHANGED <<stats, net, low>>
    BY <1>1 DEF CountIsOffByDeepestDeficit
<1>2. ASSUME NEW w \in Workers, Apply(w) PROVE CountIsOffByDeepestDeficit'
    <2> DEFINE e == worker[w].e
    <2>0. e.v \in Videos
        BY <1>2, RunningCall DEF Apply
    <2>1. e.v \in Videos /\ Delta(e) \in Int
        BY <2>0 DEF Delta
    <2>2. stats[e.v] = net[e.v] - low[e.v] /\ net[e.v] \in Int /\ low[e.v] \in Int
        BY <2>1 DEF CountIsOffByDeepestDeficit, TypeOK
    <2>3. Most(0, (net[e.v] - low[e.v]) + Delta(e)) = (net[e.v] + Delta(e)) - Least(low[e.v], net[e.v] + Delta(e))
        BY <2>1, <2>2, ClampedSum
    <2>4. stats'[e.v] = net'[e.v] - low'[e.v]
        BY <1>2, <2>1, <2>2, <2>3 DEF Apply, ApplyCountDeltas, TypeOK, RepoTypeOK
    <2>5. \A v \in Videos \ {e.v} : stats'[v] = stats[v] /\ net'[v] = net[v] /\ low'[v] = low[v]
        BY <1>2 DEF Apply, ApplyCountDeltas, TypeOK, RepoTypeOK
    <2> QED
        BY <2>4, <2>5 DEF CountIsOffByDeepestDeficit
<1>3. UNCHANGED <<stats, net, low>> \/ \E w \in Workers : Apply(w)
    BY DEF Next, vars, HandleBatch, Upsert, UpsertFails, ApplyFails
<1> QED
    BY <1>1, <1>2, <1>3

\* What GREATEST(0, .) forgives an unlike that came before its like stays in the
\* count for good, and nothing else does (mysql_repo.go:46).
THEOREM CountOffByDeficit == Spec => []CountIsOffByDeepestDeficit
<1>1. Init => CountIsOffByDeepestDeficit
    BY DEF Init, RepoInit, CountIsOffByDeepestDeficit
<1>2. Spec => []TypeOK
    BY TypeCorrect
<1> QED
    BY <1>1, <1>2, StepKeepsDeficit, PTL DEF Spec

-----------------------------------------------------------------------------
(* LikeReconcile. *)

\* The states and fields of a pass.
LEMMA RunningPass ==
    ASSUME ReconcileTypeOK, NEW r \in Reconcilers
    PROVE  /\ rec[r].pc = "scan" => rec[r].todo \in SUBSET Videos
           /\ rec[r].pc = "table" => /\ rec[r].todo \in SUBSET Videos
                                     /\ rec[r].v \in Videos /\ rec[r].seen \in Nat
           /\ rec[r].pc = "again" => /\ rec[r].todo \in SUBSET Videos
                                     /\ rec[r].v \in Videos /\ rec[r].db \in Nat
           /\ rec[r].pc = "repair" => /\ rec[r].todo \in SUBSET Videos
                                      /\ rec[r].v \in Videos /\ rec[r].delta \in Int
<1> DEFINE S == [pc : {"scan"}, todo : (SUBSET Videos) \ {{}}]
           T == [pc : {"table"}, todo : SUBSET Videos, v : Videos, seen : Nat]
           A == [pc : {"again"}, todo : SUBSET Videos, v : Videos, db : Nat]
           R == [pc : {"repair"}, todo : SUBSET Videos, v : Videos, delta : Int]
<1>1. rec[r] \in {Resting} \cup S \cup T \cup A \cup R
    BY DEF ReconcileTypeOK, PassTypes
<1>2. CASE rec[r] = Resting
    BY <1>2 DEF Resting
<1>3. CASE rec[r] \in S
    BY <1>3
<1>4. CASE rec[r] \in T
    BY <1>4
<1>5. CASE rec[r] \in A
    BY <1>5
<1>6. CASE rec[r] \in R
    BY <1>6
<1> QED
    BY <1>1, <1>2, <1>3, <1>4, <1>5, <1>6

\* A scan of what is left is a state of a pass.
LEMMA ScanningIsTyped ==
    ASSUME NEW todo \in SUBSET Videos
    PROVE  Scanning(todo) \in PassTypes
<1>1. CASE todo = {}
    BY <1>1 DEF Scanning, PassTypes
<1>2. CASE todo # {}
    <2>1. [pc |-> "scan", todo |-> todo] \in [pc : {"scan"}, todo : (SUBSET Videos) \ {{}}]
        BY <1>2
    <2> QED
        BY <1>2, <2>1 DEF Scanning, PassTypes
<1> QED
    BY <1>1, <1>2

\* Steps of the like service and of the workers keep the types.
LEMMA WorldIsTyped ==
    ASSUME ReconcileTypeOK,
           \/ \E e \in Events : CountEvent(e) \/ CountEventAgain(e)
           \/ Persist
    PROVE  ReconcileTypeOK'
<1> USE DEF ReconcileTypeOK
<1>1. \A e \in Events : e.v \in Videos /\ Delta(e) \in Int
    BY PersistAssumption DEF Delta
<1>2. TypeOK'
    <2>1. [Next]_vars
        BY DEF CountEvent, CountEventAgain, Persist
    <2> QED
        BY <2>1, StepIsTyped
<1>3. ASSUME NEW e \in Events, CountEvent(e) PROVE ReconcileTypeOK'
    BY <1>1, <1>2, <1>3 DEF CountEvent, Stirred, recVars
<1>4. ASSUME NEW e \in Events, CountEventAgain(e) PROVE ReconcileTypeOK'
    BY <1>1, <1>2, <1>4 DEF CountEventAgain, Stirred, recVars
<1>5. CASE Persist
    BY <1>2, <1>5 DEF Persist, counterVars, recVars
<1> QED
    BY <1>3, <1>4, <1>5

\* So do the steps of a pass.
LEMMA PassIsTyped ==
    ASSUME ReconcileTypeOK, NEW r \in Reconcilers, PassStep(r) \/ CallFails(r)
    PROVE  ReconcileTypeOK'
<1> DEFINE Typed == rec \in [Reconcilers -> PassTypes]
<1>1. Typed /\ calm \in [Reconcilers -> BOOLEAN] /\ cnt \in [Videos -> Int] /\ errors \in Nat
    BY DEF ReconcileTypeOK, PassTypes
<1>2. \A v \in Videos : stats[v] \in Nat /\ Count(v) \in Nat
    BY DEF ReconcileTypeOK, TypeOK, RepoTypeOK, Count, Most
<1>3. TypeOK' /\ twice' \subseteq counted' /\ counted' \subseteq Events
    <2>1. UNCHANGED vars /\ UNCHANGED <<counted, twice>>
        BY DEF PassStep, Pass, ReadCount, ReadTable, ReadAgain, Repair, CallFails, counterVars
    <2>2. TypeOK'
        BY <2>1, StepIsTyped DEF ReconcileTypeOK
    <2> QED
        BY <2>1, <2>2 DEF ReconcileTypeOK
<1>4. CASE Pass(r)
    <2>1. Keyed \in SUBSET Videos
        BY PersistAssumption DEF Keyed, ReconcileTypeOK
    <2>2. Scanning(Keyed) \in PassTypes
        BY <2>1, ScanningIsTyped
    <2> QED
        BY <1>1, <1>3, <1>4, <2>2 DEF Pass, ReconcileTypeOK, PassTypes, counterVars
<1>5. ASSUME NEW v \in Videos, ReadCount(r, v) PROVE ReconcileTypeOK'
    <2> DEFINE new == [pc |-> "table", todo |-> rec[r].todo \ {v}, v |-> v, seen |-> Count(v)]
    <2>1. rec[r].todo \ {v} \in SUBSET Videos
        BY <1>5, RunningPass DEF ReadCount
    <2>2. new \in PassTypes
        BY <1>2, <2>1 DEF PassTypes
    <2>3. rec' \in [Reconcilers -> PassTypes]
        BY <1>1, <1>5, <2>2 DEF ReadCount
    <2> QED
        BY <1>1, <1>3, <1>5, <2>3 DEF ReadCount, ReconcileTypeOK, PassTypes, counterVars
<1>6. CASE ReadTable(r)
    <2> DEFINE new == [pc |-> "again", todo |-> rec[r].todo, v |-> rec[r].v, db |-> stats[rec[r].v]]
    <2>1. rec[r].todo \in SUBSET Videos /\ rec[r].v \in Videos
        BY <1>6, RunningPass DEF ReadTable
    <2>2. new \in PassTypes
        BY <1>2, <2>1 DEF PassTypes
    <2>3. Scanning(rec[r].todo) \in PassTypes
        BY <2>1, ScanningIsTyped
    <2>4. rec' \in [Reconcilers -> PassTypes]
        BY <1>1, <1>6, <2>2, <2>3 DEF ReadTable
    <2>5. calm' \in [Reconcilers -> BOOLEAN]
        BY <1>1, <1>6 DEF ReadTable
    <2> QED
        BY <1>1, <1>3, <1>6, <2>4, <2>5 DEF ReadTable, ReconcileTypeOK, PassTypes, counterVars
<1>7. CASE ReadAgain(r)
    <2> DEFINE delta == rec[r].db - Count(rec[r].v)
               new == [pc |-> "repair", todo |-> rec[r].todo, v |-> rec[r].v, delta |-> delta]
    <2>1. rec[r].todo \in SUBSET Videos /\ rec[r].v \in Videos /\ rec[r].db \in Nat
        BY <1>7, RunningPass DEF ReadAgain
    <2>2. delta \in Int
        BY <1>2, <2>1
    <2>3. new \in PassTypes
        BY <2>1, <2>2 DEF PassTypes
    <2>4. Scanning(rec[r].todo) \in PassTypes
        BY <2>1, ScanningIsTyped
    <2>5. rec' \in [Reconcilers -> PassTypes]
        BY <1>1, <1>7, <2>3, <2>4 DEF ReadAgain
    <2> QED
        BY <1>1, <1>3, <1>7, <2>5 DEF ReadAgain, ReconcileTypeOK, PassTypes, counterVars
<1>8. CASE Repair(r)
    <2>1. rec[r].todo \in SUBSET Videos /\ rec[r].v \in Videos /\ rec[r].delta \in Int
        BY <1>8, RunningPass DEF Repair
    <2>2. Scanning(rec[r].todo) \in PassTypes
        BY <2>1, ScanningIsTyped
    <2>3. rec' \in [Reconcilers -> PassTypes]
        BY <1>1, <1>8, <2>2 DEF Repair
    <2>4. cnt' \in [Videos -> Int]
        BY <1>1, <1>8, <2>1 DEF Repair
    <2>5. calm' \in [Reconcilers -> BOOLEAN]
        BY <1>1, <1>8 DEF Repair, Stirred
    <2> QED
        BY <1>1, <1>3, <1>8, <2>3, <2>4, <2>5 DEF Repair, ReconcileTypeOK, PassTypes
<1>9. CASE CallFails(r)
    <2>1. rec[r].pc # "scan" => rec[r].todo \in SUBSET Videos
        <3>1. rec[r] \in PassTypes
            BY <1>1
        <3>2. rec[r].pc \in {"resting", "scan", "table", "again", "repair"}
            BY <3>1 DEF PassTypes, Resting
        <3> QED
            BY <1>9, <3>2, RunningPass DEF CallFails
    <2>2. Resting \in PassTypes
        BY DEF PassTypes
    <2>3. rec[r].pc # "scan" => Scanning(rec[r].todo) \in PassTypes
        BY <2>1, ScanningIsTyped
    <2>4. rec' \in [Reconcilers -> PassTypes]
        BY <1>1, <1>9, <2>2, <2>3 DEF CallFails
    <2> QED
        BY <1>1, <1>3, <1>9, <2>4 DEF CallFails, ReconcileTypeOK, PassTypes, counterVars
<1> QED
    BY <1>4, <1>5, <1>6, <1>7, <1>8, <1>9 DEF PassStep

LEMMA ReconcileStepIsTyped == ReconcileTypeOK /\ [ReconcileNext]_allVars => ReconcileTypeOK'
<1> SUFFICES ASSUME ReconcileTypeOK, [ReconcileNext]_allVars PROVE ReconcileTypeOK'
    OBVIOUS
<1>1. CASE (\E e \in Events : CountEvent(e) \/ CountEventAgain(e)) \/ Persist
    BY <1>1, WorldIsTyped
<1>2. CASE \E r \in Reconcilers : PassStep(r) \/ CallFails(r)
    BY <1>2, PassIsTyped
<1>3. CASE UNCHANGED allVars
    <2>1. TypeOK'
        BY <1>3, StepIsTyped DEF allVars, ReconcileTypeOK
    <2> QED
        BY <1>3, <2>1 DEF allVars, counterVars, recVars, ReconcileTypeOK
<1> QED
    BY <1>1, <1>2, <1>3 DEF ReconcileNext

LEMMA ReconcileStartIsTyped == ReconcileInit => ReconcileTypeOK
<1> SUFFICES ASSUME ReconcileInit PROVE ReconcileTypeOK
    OBVIOUS
<1>1. TypeOK
    BY DEF ReconcileInit, Init, RepoInit, TypeOK, RepoTypeOK, NoRow, Pairs
<1> QED
    BY <1>1 DEF ReconcileInit, ReconcileTypeOK, PassTypes

\* The counters, the tables and the passes stay well typed (reconcile.go).
THEOREM ReconcileTypeCorrect == ReconcileSpec => []ReconcileTypeOK
    BY ReconcileStartIsTyped, ReconcileStepIsTyped, PTL DEF ReconcileSpec

-----------------------------------------------------------------------------
(* Why a repair lands: while nothing moved, what a pass read is still so. *)

CalmKnows ==
    \A r \in Reconcilers : calm[r] =>
        /\ rec[r].pc = "again" => rec[r].db = stats[rec[r].v]
        /\ rec[r].pc = "repair" => rec[r].delta = stats[rec[r].v] - Count(rec[r].v)

\* Scanning on leaves nothing to know.
LEMMA ScanningKnowsNothing ==
    \A todo : Scanning(todo).pc \notin {"again", "repair"}
    BY DEF Scanning, Resting

\* A step outside a pass stirs those who read what it moves.
LEMMA WorldKeepsCalm ==
    ASSUME ReconcileTypeOK, CalmKnows,
           \/ \E e \in Events : CountEvent(e) \/ CountEventAgain(e)
           \/ Persist
    PROVE  CalmKnows'
<1> SUFFICES ASSUME NEW r \in Reconcilers, calm'[r]
             PROVE  /\ rec'[r].pc = "again" => rec'[r].db = stats'[rec'[r].v]
                    /\ rec'[r].pc = "repair" => rec'[r].delta = stats'[rec'[r].v] - Most(0, cnt'[rec'[r].v])
    BY DEF CalmKnows, Count
<1>1. rec[r].pc \in {"again", "repair"} => rec[r].v \in Videos
    BY RunningPass
<1>2. ASSUME NEW e \in Events, CountEvent(e) \/ CountEventAgain(e)
      PROVE  /\ calm[r] /\ rec' = rec /\ stats' = stats
             /\ rec[r].pc \in {"again", "repair"} => rec[r].v # e.v /\ cnt'[rec[r].v] = cnt[rec[r].v]
    BY <1>1, <1>2 DEF CountEvent, CountEventAgain, Stirred, recVars, vars, ReconcileTypeOK
<1>3. CASE Persist
    <2>1. calm[r] /\ rec' = rec /\ cnt' = cnt
        BY <1>3 DEF Persist, counterVars, recVars
    <2>2. rec[r].pc \in {"again", "repair"} => stats'[rec[r].v] = stats[rec[r].v]
        BY <1>3 DEF Persist
    <2> QED
        BY <2>1, <2>2 DEF CalmKnows, Count
<1> QED
    BY <1>2, <1>3 DEF CalmKnows, Count

\* A step of a pass learns what is so, or ends the turn, and a repair stirs the
\* others.
LEMMA PassKeepsCalm ==
    ASSUME ReconcileTypeOK, CalmKnows, NEW q \in Reconcilers, PassStep(q) \/ CallFails(q)
    PROVE  CalmKnows'
<1> SUFFICES ASSUME NEW r \in Reconcilers, calm'[r]
             PROVE  /\ rec'[r].pc = "again" => rec'[r].db = stats'[rec'[r].v]
                    /\ rec'[r].pc = "repair" => rec'[r].delta = stats'[rec'[r].v] - Most(0, cnt'[rec'[r].v])
    BY DEF CalmKnows, Count
<1>1. rec \in [Reconcilers -> PassTypes] /\ calm \in [Reconcilers -> BOOLEAN]
    BY DEF ReconcileTypeOK, PassTypes
<1>2. stats' = stats
    BY DEF PassStep, Pass, ReadCount, ReadTable, ReadAgain, Repair, CallFails, vars
<1>3. CASE r # q
    <2>1. rec'[r] = rec[r]
        BY <1>1, <1>3 DEF PassStep, Pass, ReadCount, ReadTable, ReadAgain, Repair, CallFails
    <2>2. CASE Repair(q)
        <3>1. calm[r] /\ (rec[r].pc \in {"again", "repair"} => rec[r].v # rec[q].v)
            BY <1>1, <1>3, <2>2 DEF Repair, Stirred
        <3>2. rec[r].pc \in {"again", "repair"} => cnt'[rec[r].v] = cnt[rec[r].v]
            BY <2>2, <3>1, RunningPass DEF Repair, ReconcileTypeOK
        <3> QED
            BY <1>2, <2>1, <3>1, <3>2 DEF CalmKnows, Count
    <2>3. CASE ~ Repair(q)
        <3>1. cnt' = cnt
            BY <2>3 DEF PassStep, Pass, ReadCount, ReadTable, ReadAgain, CallFails, counterVars
        <3>2. calm[r]
            BY <1>1, <1>3, <2>3 DEF PassStep, Pass, ReadCount, ReadTable, ReadAgain, CallFails
        <3> QED
            BY <1>2, <2>1, <3>1, <3>2 DEF CalmKnows, Count
    <2> QED
        BY <2>2, <2>3
<1>4. CASE r = q
    <2>1. CASE Pass(q)
        BY <1>1, <1>4, <2>1, ScanningKnowsNothing DEF Pass
    <2>2. ASSUME NEW v \in Videos, ReadCount(q, v) PROVE rec'[r].pc \notin {"again", "repair"}
        BY <1>1, <1>4, <2>2 DEF ReadCount
    <2>3. CASE ReadTable(q)
        <3>1. \/ rec'[r] = [pc |-> "again", todo |-> rec[q].todo, v |-> rec[q].v, db |-> stats[rec[q].v]]
              \/ rec'[r] = Scanning(rec[q].todo)
            BY <1>1, <1>4, <2>3 DEF ReadTable
        <3> QED
            BY <1>2, <3>1, ScanningKnowsNothing
    <2>4. CASE ReadAgain(q)
        <3> DEFINE delta == rec[q].db - Count(rec[q].v)
        <3>1. \/ rec'[r] = [pc |-> "repair", todo |-> rec[q].todo, v |-> rec[q].v, delta |-> delta]
              \/ rec'[r] = Scanning(rec[q].todo)
            BY <1>1, <1>4, <2>4 DEF ReadAgain
        <3>2. rec[q].db = stats[rec[q].v] /\ cnt' = cnt
            <4>1. calm[r]
                BY <1>1, <1>4, <2>4 DEF ReadAgain
            <4> QED
                BY <1>4, <2>4, <4>1 DEF ReadAgain, CalmKnows, counterVars
        <3> QED
            BY <1>2, <3>1, <3>2, ScanningKnowsNothing DEF Count
    <2>5. CASE Repair(q)
        BY <1>1, <1>4, <2>5 DEF Repair, Stirred
    <2>6. CASE CallFails(q)
        <3>1. rec'[r] = Resting \/ rec'[r] = Scanning(rec[q].todo)
            BY <1>1, <1>4, <2>6 DEF CallFails
        <3> QED
            BY <3>1, ScanningKnowsNothing DEF Resting
    <2> QED
        BY <2>1, <2>2, <2>3, <2>4, <2>5, <2>6 DEF PassStep
<1> QED
    BY <1>3, <1>4

LEMMA StepKeepsCalm ==
    ReconcileTypeOK /\ CalmKnows /\ [ReconcileNext]_allVars => CalmKnows'
<1> SUFFICES ASSUME ReconcileTypeOK, CalmKnows, [ReconcileNext]_allVars PROVE CalmKnows'
    OBVIOUS
<1>1. CASE (\E e \in Events : CountEvent(e) \/ CountEventAgain(e)) \/ Persist
    BY <1>1, WorldKeepsCalm
<1>2. CASE \E r \in Reconcilers : PassStep(r) \/ CallFails(r)
    BY <1>2, PassKeepsCalm
<1>3. CASE UNCHANGED allVars
    BY <1>3 DEF allVars, counterVars, recVars, vars, CalmKnows, Count
<1> QED
    BY <1>1, <1>2, <1>3 DEF ReconcileNext

\* The step that ends a turn at "repair" without an error is the repair itself.
LEMMA RepairedByRepair ==
    ASSUME ReconcileTypeOK, ReconcileNext, NEW r \in Reconcilers, Repaired(r)
    PROVE  Repair(r)
<1>1. rec \in [Reconcilers -> PassTypes] /\ errors \in Nat /\ rec'[r] # rec[r] /\ errors' # errors + 1
    BY DEF ReconcileTypeOK, PassTypes, Repaired
<1>2. PICK q \in Reconcilers : PassStep(q)
    BY <1>1 DEF ReconcileNext, CountEvent, CountEventAgain, Persist, CallFails, recVars
<1>3. q = r
    BY <1>1, <1>2 DEF PassStep, Pass, ReadCount, ReadTable, ReadAgain, Repair
<1> QED
    BY <1>2, <1>3 DEF PassStep, Pass, ReadCount, ReadTable, ReadAgain, Repaired, Resting

\* However many reconcilers and workers run, a repair made while neither the
\* counter nor the row moved since the row was read brings the counter to the
\* row's count (reconcile.go:78-116).
THEOREM RepairLands == ReconcileSpec => RepairLandsOnTable
<1> DEFINE Lands == \A r \in Reconcilers :
                        Repaired(r) /\ calm[r] => LandsOn(rec[r].v, cnt[rec[r].v])
<1>1. ReconcileInit => CalmKnows
    BY DEF ReconcileInit, CalmKnows
<1>2. ReconcileTypeOK /\ CalmKnows /\ [ReconcileNext]_allVars => [Lands]_allVars
    <2> SUFFICES ASSUME ReconcileTypeOK, CalmKnows, ReconcileNext,
                        NEW r \in Reconcilers, Repaired(r), calm[r]
                 PROVE  LandsOn(rec[r].v, cnt[rec[r].v])
        OBVIOUS
    <2> DEFINE v == rec[r].v
    <2>1. Repair(r)
        BY RepairedByRepair
    <2>2. v \in Videos /\ rec[r].delta = stats[v] - Count(v)
        BY <2>1, RunningPass DEF Repair, CalmKnows
    <2>3. cnt[v] \in Int /\ stats[v] \in Nat /\ cnt'[v] = cnt[v] + rec[r].delta
        BY <2>1, <2>2 DEF Repair, ReconcileTypeOK, TypeOK, RepoTypeOK
    <2> QED
        BY <2>2, <2>3 DEF LandsOn, Count, Most
<1>3. ReconcileSpec => []ReconcileTypeOK
    BY ReconcileTypeCorrect
<1> QED
    BY <1>1, <1>2, <1>3, StepKeepsCalm, PTL DEF ReconcileSpec, RepairLandsOnTable
=============================================================================
