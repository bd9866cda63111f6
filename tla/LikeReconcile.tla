---------------------------- MODULE LikeReconcile ----------------------------
(***************************************************************************)
(* The like reconciler, internal/like/reconcile.go, beside the two         *)
(* processes it runs against: the workers that persist events              *)
(* (LikePersist), and the like service, of which only what reaches a       *)
(* counter in Redis is kept here.                                          *)
(*                                                                         *)
(* LikeService establishes that each event's +1 or -1 reaches the counter  *)
(* once, before or after the event is persisted, except for a pipeline     *)
(* that failed half way and is sent again.  (A change of the gate whose    *)
(* reply was lost is no event: it reaches neither counter nor table.)      *)
(*                                                                         *)
(* A pass of the reconciler is four calls per video, and the rest of the   *)
(* world, the reconcilers of other replicas included, moves between them.  *)
(***************************************************************************)
EXTENDS LikePersist, FiniteSets

CONSTANTS
    Reconcilers,   \* the processes that run one
    Threshold,     \* the difference that is put up with
    MaxTwice,      \* bound: events whose delta is sent twice
    MaxErrors      \* bound: calls of the reconciler that return an error

ASSUME ReconcileAssumption ==
    /\ Threshold \in Nat /\ MaxTwice \in Nat /\ MaxErrors \in Nat

VARIABLES
    cnt,       \* likecnt:{vid}:{vid % 16} in Redis
    counted,   \* the events whose delta has reached cnt
    twice,     \* those whose delta has reached it a second time
    rec,       \* the pass each reconciler makes
    calm,      \* history: rec[r] has read the table, and counter and row are as they were then
    errors

counterVars == <<cnt, counted, twice>>
recVars == <<rec, errors>>
allVars == <<vars, counterVars, recVars, calm>>

Abs(n) == IF n < 0 THEN -n ELSE n

\* Mutant of Count: the sum as it is.
CountUnclamped(v) == cnt[v]

\* Count of read.go: the sum of the shards, a negative one shown as 0.
Count(v) == Most(0, cnt[v])

\* The videos SCAN finds a key of: those whose counter was ever written.
Keyed == {e.v : e \in counted}

\* A reconciler between two passes, or in one with the videos todo to look at.
Resting == [pc |-> "resting"]
Scanning(todo) == IF todo = {} THEN Resting ELSE [pc |-> "scan", todo |-> todo]

PassTypes ==
    {Resting} \cup [pc : {"scan"}, todo : (SUBSET Videos) \ {{}}]
    \cup [pc : {"table"}, todo : SUBSET Videos, v : Videos, seen : Nat]
    \cup [pc : {"again"}, todo : SUBSET Videos, v : Videos, db : Nat]
    \cup [pc : {"repair"}, todo : SUBSET Videos, v : Videos, delta : Int]

ReconcileTypeOK ==
    /\ TypeOK
    /\ cnt \in [Videos -> Int]
    /\ twice \subseteq counted /\ counted \subseteq Events
    /\ rec \in [Reconcilers -> PassTypes]
    /\ calm \in [Reconcilers -> BOOLEAN]
    /\ errors \in Nat

ReconcileInit ==
    /\ Init
    /\ cnt = [v \in Videos |-> 0]
    /\ counted = {} /\ twice = {}
    /\ rec = [r \in Reconcilers |-> Resting]
    /\ calm = [r \in Reconcilers |-> FALSE]
    /\ errors = 0

-----------------------------------------------------------------------------
(* The like service and the workers. *)

\* Nobody is calm any more whose video moved.
Stirred(v) ==
    [r \in Reconcilers |-> calm[r] /\ ~(rec[r].pc \in {"again", "repair"} /\ rec[r].v = v)]

\* The increment or decrement of an event reaches the counter.
CountEvent(e) ==
    /\ e \notin counted
    /\ counted' = counted \cup {e}
    /\ cnt' = [cnt EXCEPT ![e.v] = @ + Delta(e)]
    /\ calm' = Stirred(e.v)
    /\ UNCHANGED <<vars, twice, recVars>>

\* It reaches it again: the flush it was part of failed after it was applied,
\* and the batch was put back whole.
CountEventAgain(e) ==
    /\ e \in counted \ twice
    /\ Cardinality(twice) < MaxTwice
    /\ twice' = twice \cup {e}
    /\ cnt' = [cnt EXCEPT ![e.v] = @ + Delta(e)]
    /\ calm' = Stirred(e.v)
    /\ UNCHANGED <<vars, counted, recVars>>

Persist ==
    /\ Next
    /\ calm' = [r \in Reconcilers |->
                   calm[r] /\ (rec[r].pc \in {"again", "repair"} => stats'[rec[r].v] = stats[rec[r].v])]
    /\ UNCHANGED <<counterVars, recVars>>

-----------------------------------------------------------------------------
(* A pass: Run, reconcile and syncVideo. *)

\* The ticker fires and the keys are scanned; the pass is over with the last.
Pass(r) ==
    /\ rec[r] = Resting
    /\ rec' = [rec EXCEPT ![r] = Scanning(Keyed)]
    /\ UNCHANGED <<vars, counterVars, calm, errors>>

\* svc.Count for one of the keys.
ReadCount(r, v) ==
    /\ rec[r].pc = "scan" /\ v \in rec[r].todo
    /\ rec' = [rec EXCEPT ![r] = [pc |-> "table", todo |-> rec[r].todo \ {v}, v |-> v, seen |-> Count(v)]]
    /\ UNCHANGED <<vars, counterVars, calm, errors>>

\* Mutants of ReadTable: the sign of the difference is forgotten, and the second
\* read is spared.
ReadTableOneSided(r) ==
    /\ rec[r].pc = "table"
    /\ LET q == rec[r]
           db == stats[q.v]
       IN IF q.seen - db > Threshold
          THEN /\ rec' = [rec EXCEPT ![r] = [pc |-> "again", todo |-> q.todo, v |-> q.v, db |-> db]]
               /\ calm' = [calm EXCEPT ![r] = TRUE]
          ELSE /\ rec' = [rec EXCEPT ![r] = Scanning(q.todo)]
               /\ UNCHANGED calm
    /\ UNCHANGED <<vars, counterVars, errors>>

ReadTableOnly(r) ==
    /\ rec[r].pc = "table"
    /\ LET q == rec[r]
           db == stats[q.v]
       IN IF Abs(q.seen - db) > Threshold
          THEN /\ rec' = [rec EXCEPT ![r] =
                            [pc |-> "repair", todo |-> q.todo, v |-> q.v, delta |-> db - q.seen]]
               /\ calm' = [calm EXCEPT ![r] = TRUE]
          ELSE /\ rec' = [rec EXCEPT ![r] = Scanning(q.todo)]
               /\ UNCHANGED calm
    /\ UNCHANGED <<vars, counterVars, errors>>

\* repo.GetLikeCount; a difference within the threshold is left alone.
ReadTable(r) ==
    /\ rec[r].pc = "table"
    /\ LET q == rec[r]
           db == stats[q.v]
       IN IF Abs(q.seen - db) > Threshold
          THEN /\ rec' = [rec EXCEPT ![r] = [pc |-> "again", todo |-> q.todo, v |-> q.v, db |-> db]]
               /\ calm' = [calm EXCEPT ![r] = TRUE]
          ELSE /\ rec' = [rec EXCEPT ![r] = Scanning(q.todo)]
               /\ UNCHANGED calm
    /\ UNCHANGED <<vars, counterVars, errors>>

\* syncVideo reads the counter once more and aims for the table's count.
ReadAgain(r) ==
    /\ rec[r].pc = "again"
    /\ LET q == rec[r]
           delta == q.db - Count(q.v)
       IN rec' = [rec EXCEPT ![r] =
                     IF delta = 0 THEN Scanning(q.todo)
                     ELSE [pc |-> "repair", todo |-> q.todo, v |-> q.v, delta |-> delta]]
    /\ calm' = [calm EXCEPT ![r] = @ /\ rec'[r].pc = "repair"]
    /\ UNCHANGED <<vars, counterVars, errors>>

\* INCRBY on the shard vid % 16; other reconcilers' counters have moved.
Repair(r) ==
    /\ rec[r].pc = "repair"
    /\ cnt' = [cnt EXCEPT ![rec[r].v] = @ + rec[r].delta]
    /\ calm' = [Stirred(rec[r].v) EXCEPT ![r] = FALSE]
    /\ rec' = [rec EXCEPT ![r] = Scanning(rec[r].todo)]
    /\ UNCHANGED <<vars, counted, twice, errors>>

\* A SCAN that fails ends the pass; any other call that fails, the video's turn.
\* (An INCRBY that was executed although it returned an error is a Repair.)
CallFails(r) ==
    /\ rec[r].pc # "resting" /\ errors < MaxErrors
    /\ errors' = errors + 1
    /\ rec' = [rec EXCEPT ![r] = IF rec[r].pc = "scan" THEN Resting ELSE Scanning(rec[r].todo)]
    /\ calm' = [calm EXCEPT ![r] = FALSE]
    /\ UNCHANGED <<vars, counterVars>>

PassStep(r) ==
    \/ Pass(r) \/ (\E v \in Videos : ReadCount(r, v)) \/ ReadTable(r)
    \/ ReadAgain(r) \/ Repair(r)

ReconcileNext ==
    \/ \E e \in Events : CountEvent(e) \/ CountEventAgain(e)
    \/ Persist
    \/ \E r \in Reconcilers : PassStep(r) \/ CallFails(r)

\* The ticker fires again and again and Redis and MySQL answer.  Users need not
\* like, and nothing makes the workers persist.
ReconcileSpec ==
    /\ ReconcileInit /\ [][ReconcileNext]_allVars
    /\ \A r \in Reconcilers : WF_allVars(PassStep(r))

-----------------------------------------------------------------------------
(* Properties. *)

\* A repair lands on the table's count although the counter was read twice and
\* the table once on the way (reconcile.go:78-116): whatever moved before the
\* table was read does no harm, and only what moves after it does.  A counter
\* below zero is shown as 0 and lifted by the table's count.
LandsOn(v, was) == IF was < 0 THEN cnt'[v] = was + stats[v] ELSE cnt'[v] = stats[v]
Repaired(r) == rec[r].pc = "repair" /\ rec'[r].pc # "repair" /\ errors' = errors
RepairLandsOnTable ==
    [][\A r \in Reconcilers :
          Repaired(r) /\ calm[r] => LandsOn(rec[r].v, cnt[rec[r].v])]_allVars

\* Two reconcilers hold a repair of the same video: each has read the difference
\* that the other is about to make up for.
Contested(v) ==
    \E q, r \in Reconcilers :
        /\ q # r /\ rec[q].pc = "repair" /\ rec[r].pc = "repair"
        /\ rec[q].v = v /\ rec[r].v = v

\* However events were counted and persisted, in whatever order or twice,
\* and whatever repairs were made meanwhile from numbers that lagged behind, each
\* added once more by another replica or not, the count shown settles within the
\* threshold of the table (reconcile.go:11), unless two replicas go on repairing
\* the video at the same time for ever (reconcile.go:103-116).
Converges ==
    \A v \in Videos :
        <>[]~Contested(v) => <>[](v \notin Keyed \/ Abs(Count(v) - stats[v]) <= Threshold)
=============================================================================
