----------------------------- MODULE LikePersist -----------------------------
(***************************************************************************)
(* Persisting like events: Consumer.HandleBatch of internal/like/          *)
(* consumer.go over the two tables of internal/like/mysql_repo.go, called  *)
(* by the workers of cmd/server and cmd/likeworker with one event at a     *)
(* time.                                                                   *)
(*                                                                         *)
(* The environment is any message queue: events arrive in any order and    *)
(* again after an error.  A statement that returns an error may or may not *)
(* have been committed.                                                    *)
(***************************************************************************)
EXTENDS LikeRepo

CONSTANTS
    Events,     \* the LikeEvents there are, each [id, u, v, liked, ts]
    Workers,    \* the goroutines that call HandleBatch
    Failing,    \* TRUE: statements may return errors
    MaxCalls    \* bound: calls of HandleBatch

ASSUME PersistAssumption ==
    /\ \A e \in Events : e.u \in Users /\ e.v \in Videos /\ e.liked \in BOOLEAN /\ e.ts \in Nat
    /\ Failing \in BOOLEAN /\ MaxCalls \in Nat

VARIABLES
    worker,   \* the call each worker runs
    net,      \* history: the sum of the deltas applied to each video's count
    low,      \* history: the lowest value that sum ever had
    stored,   \* history: the events UpsertLike was committed for
    calls

vars == <<record, stats, worker, net, low, stored, calls>>

Least(a, b) == IF a <= b THEN a ELSE b
Idle == [pc |-> "idle"]

TypeOK ==
    /\ RepoTypeOK
    /\ worker \in [Workers -> {Idle} \cup [pc : {"upsert", "apply"}, e : Events]]
    /\ net \in [Videos -> Int] /\ low \in [Videos -> Int]
    /\ stored \subseteq Events
    /\ calls \in Nat

Init ==
    /\ RepoInit
    /\ worker = [w \in Workers |-> Idle]
    /\ net = [v \in Videos |-> 0] /\ low = [v \in Videos |-> 0]
    /\ stored = {}
    /\ calls = 0

-----------------------------------------------------------------------------
\* The queue hands an event to a worker.
HandleBatch(w, e) ==
    /\ worker[w] = Idle /\ calls < MaxCalls
    /\ worker' = [worker EXCEPT ![w] = [pc |-> "upsert", e |-> e]]
    /\ calls' = calls + 1
    /\ UNCHANGED <<record, stats, net, low, stored>>

Upsert(w) ==
    /\ worker[w].pc = "upsert"
    /\ UpsertLike(worker[w].e)
    /\ stored' = stored \cup {worker[w].e}
    /\ worker' = [worker EXCEPT ![w].pc = "apply"]
    /\ UNCHANGED <<stats, net, low, calls>>

\* UpsertLike returns an error and HandleBatch returns it, before any count is
\* touched.
UpsertFails(w) ==
    /\ Failing
    /\ worker[w].pc = "upsert"
    /\ \/ UpsertLike(worker[w].e) /\ stored' = stored \cup {worker[w].e}
       \/ UNCHANGED <<record, stored>>
    /\ worker' = [worker EXCEPT ![w] = Idle]
    /\ UNCHANGED <<stats, net, low, calls>>

Apply(w) ==
    /\ worker[w].pc = "apply"
    /\ LET e == worker[w].e
       IN /\ ApplyCountDeltas(e)
          /\ net' = [net EXCEPT ![e.v] = @ + Delta(e)]
          /\ low' = [low EXCEPT ![e.v] = Least(@, net[e.v] + Delta(e))]
    /\ worker' = [worker EXCEPT ![w] = Idle]
    /\ UNCHANGED <<record, stored, calls>>

\* ApplyCountDeltas returns an error; had it been committed, Apply describes
\* what it did, and the queue delivers the event again either way.
ApplyFails(w) ==
    /\ Failing
    /\ worker[w].pc = "apply"
    /\ worker' = [worker EXCEPT ![w] = Idle]
    /\ UNCHANGED <<record, stats, net, low, stored, calls>>

Next ==
    \E w \in Workers :
        \/ \E e \in Events : HandleBatch(w, e)
        \/ Upsert(w) \/ UpsertFails(w) \/ Apply(w) \/ ApplyFails(w)

Spec == Init /\ [][Next]_vars

-----------------------------------------------------------------------------
(* Properties. *)

StoredFor(k) == {e \in stored : <<e.u, e.v>> = k}

\* Whatever order events arrive in and however often, a like_record row holds
\* the newest state stored for its user and video: the timestamp is the
\* greatest there is and the status is that of an event with this timestamp.
\* (mysql_repo.go:19, no newer state is overwritten.)
RecordIsNewest ==
    \A k \in Pairs :
        IF StoredFor(k) = {} THEN record[k] = NoRow
        ELSE /\ \A e \in StoredFor(k) : e.ts <= record[k].ts
             /\ \E e \in StoredFor(k) : record[k] = [liked |-> e.liked, ts |-> e.ts]

\* The stored count is off by exactly the deepest deficit the order of delivery
\* produced: GREATEST(0, .) forgives an unlike that overtook its like, and the
\* like then counts for good.
CountIsOffByDeepestDeficit ==
    \A v \in Videos : stats[v] = net[v] - low[v]
=============================================================================
