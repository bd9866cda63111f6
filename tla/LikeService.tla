----------------------------- MODULE LikeService -----------------------------
(***************************************************************************)
(* The Redis like service: internal/like/service.go (Like, Unlike),        *)
(* internal/like/aggregator.go (the in-memory counter aggregator) and      *)
(* internal/like/read.go (Count), with the shutdown order of               *)
(* cmd/server/main.go.                                                     *)
(*                                                                         *)
(* A request runs in its own goroutine.  It passes the user's Redis SET    *)
(* (the dedupe gate), then accounts for its +1 or -1, then stamps its      *)
(* event with the wall clock and publishes it; other requests and the      *)
(* aggregator run between any two of those steps.  Every writer of a       *)
(* video's counter uses the one shard vid % CounterShards, so the sum of   *)
(* the 16 shards that Count reads is that shard: cnt[v].                   *)
(*                                                                         *)
(* A command may be executed and its reply lost.  The client library sends *)
(* it again, so that the second execution answers, or gives up, so that    *)
(* the caller has an error for a command that took effect.  A call loses   *)
(* one reply at most; more are more calls.                                 *)
(***************************************************************************)
EXTENDS Integers, FiniteSets

CONSTANTS
    Users, Videos,
    Procs,        \* the request goroutines
    Wirings,      \* where agg may start: "wait" once SetCounterWriter was called, "none"
                  \* when it was not, so that Like writes Redis itself
    Faults,       \* the faults that may happen, a subset of FaultKinds
    MaxOps,       \* bound: calls of Like and Unlike
    MaxFaults,    \* bound: Redis calls that fail or lose their reply
    MaxTime       \* bound: the wall clock, in milliseconds

FaultKinds == {"gate",      \* SADD or SREM fails or loses its reply
               "exec",      \* a pipeline fails and none of it was applied
               "partial",   \* a pipeline fails after part of it was applied
               "incr",      \* a synchronous INCRBY or DECRBY fails or loses its reply
               "shutdown",  \* SIGTERM
               "timeout",   \* srv.Shutdown gives up on the requests in flight
               "crash"}     \* the process dies

ASSUME LikeAssumption ==
    /\ IsFiniteSet(Users) /\ IsFiniteSet(Procs)
    /\ Wirings \subseteq {"none", "wait"}
    /\ Faults \subseteq FaultKinds
    /\ MaxOps \in Nat /\ MaxFaults \in Nat /\ MaxTime \in Nat

VARIABLES
    liked,    \* the userlike:{uid} SETs, as pairs <<uid, vid>>
    cnt,      \* likecnt:{vid}:{vid % 16} in Redis
    req,      \* the request each goroutine runs
    deltas,   \* CounterAggregator.deltas; an absent key is 0
    batch,    \* the map flush has swapped out and is sending
    agg,      \* where CounterAggregator.Run is, or "none"
    server,   \* "running", "cancelled" (ctx done) or "exited"
    now,      \* the wall clock
    skew,     \* history: what lost replies have added to each video's count, net
    ops, failures

counterVars == <<cnt, deltas, batch, agg>>
vars == <<liked, cnt, req, deltas, batch, agg, server, now, skew, ops, failures>>

Ops == {"like", "unlike"}
Delta(op) == IF op = "like" THEN 1 ELSE -1
Zero == [v \in Videos |-> 0]
Likers(v) == {u \in Users : <<u, v>> \in liked}

\* Requests of goroutines by where they are: a request is "gated" once SADD
\* or SREM changed the set, "counted" once its delta is accounted for,
\* "stamped" once its event has a timestamp, and "undo" when the synchronous
\* INCRBY failed and the gate has to be put back.
Idle == [pc |-> "idle"]
Active == [pc : {"gated", "counted", "undo"},
           u : Users, v : Videos, op : Ops]
Stamped == [pc : {"stamped"}, u : Users, v : Videos, op : Ops, ts : Nat]

TypeOK ==
    /\ liked \subseteq Users \X Videos
    /\ cnt \in [Videos -> Int]
    /\ req \in [Procs -> {Idle} \cup Active \cup Stamped]
    /\ deltas \in [Videos -> Int]
    /\ batch \in [Videos -> Int]
    /\ agg \in {"none", "wait", "exec", "lastExec", "stopped"}
    /\ server \in {"running", "cancelled", "exited"}
    /\ now \in Nat /\ ops \in Nat /\ failures \in Nat
    /\ skew \in [Videos -> Int]

Init ==
    /\ liked = {}
    /\ cnt = Zero
    /\ req = [p \in Procs |-> Idle]
    /\ deltas = Zero /\ batch = Zero
    /\ agg \in Wirings
    /\ server = "running"
    /\ now = 0 /\ ops = 0 /\ failures = 0
    /\ skew = Zero

-----------------------------------------------------------------------------
(* The request goroutine. *)

\* The sets after SADD or SREM.
Toggled(u, v, op) == IF op = "like" THEN liked \cup {<<u, v>>} ELSE liked \ {<<u, v>>}

\* Mutant of Gate: the reply of SADD or SREM is not looked at.
GateUnchecked(p, u, v, op) ==
    /\ server # "exited" /\ ops < MaxOps
    /\ req[p] = Idle
    /\ ops' = ops + 1
    /\ liked' = Toggled(u, v, op)
    /\ req' = [req EXCEPT ![p] = [pc |-> "gated", u |-> u, v |-> v, op |-> op]]
    /\ UNCHANGED <<counterVars, server, now, skew, failures>>

\* SADD (Like) or SREM (Unlike): only a reply of 1 lets the request go on; on
\* a reply of 0 the call returns changed = false having written nothing.
Gate(p, u, v, op) ==
    /\ server # "exited" /\ ops < MaxOps
    /\ req[p] = Idle
    /\ ops' = ops + 1
    /\ IF (op = "like") = (<<u, v>> \notin liked)
       THEN /\ liked' = Toggled(u, v, op)
            /\ req' = [req EXCEPT ![p] = [pc |-> "gated", u |-> u, v |-> v, op |-> op]]
       ELSE UNCHANGED <<liked, req>>
    /\ UNCHANGED <<counterVars, server, now, skew, failures>>

\* SADD or SREM returns an error, or its answer is that of its second execution,
\* which is 0: the call returns, having counted and published nothing, whether or
\* not the set was changed.
GateFails(p, u, v, op) ==
    /\ server # "exited" /\ ops < MaxOps
    /\ "gate" \in Faults /\ failures < MaxFaults
    /\ req[p] = Idle
    /\ ops' = ops + 1 /\ failures' = failures + 1
    /\ \/ UNCHANGED <<liked, skew>>
       \/ /\ (op = "like") = (<<u, v>> \notin liked)
          /\ liked' = Toggled(u, v, op)
          /\ skew' = [skew EXCEPT ![v] = @ - Delta(op)]
    /\ UNCHANGED <<counterVars, req, server, now>>

\* counter.Add(vid, +-1), under the aggregator's mutex.
Add(p) ==
    /\ agg # "none"
    /\ req[p].pc = "gated"
    /\ deltas' = [deltas EXCEPT ![req[p].v] = @ + Delta(req[p].op)]
    /\ req' = [req EXCEPT ![p].pc = "counted"]
    /\ UNCHANGED <<liked, cnt, batch, agg, server, now, skew, ops, failures>>

\* INCRBY or DECRBY by the request itself, when no aggregator was injected.
IncrBy(p) ==
    /\ agg = "none"
    /\ req[p].pc = "gated"
    /\ cnt' = [cnt EXCEPT ![req[p].v] = @ + Delta(req[p].op)]
    /\ req' = [req EXCEPT ![p].pc = "counted"]
    /\ UNCHANGED <<liked, deltas, batch, agg, server, now, skew, ops, failures>>

\* INCRBY fails, having been executed or not; the next step undoes the gate,
\* errors of that ignored.
IncrByFails(p) ==
    /\ agg = "none"
    /\ "incr" \in Faults /\ failures < MaxFaults
    /\ req[p].pc = "gated"
    /\ \/ UNCHANGED cnt
       \/ cnt' = [cnt EXCEPT ![req[p].v] = @ + Delta(req[p].op)]
    /\ req' = [req EXCEPT ![p].pc = "undo"]
    /\ failures' = failures + 1
    /\ UNCHANGED <<liked, deltas, batch, agg, server, now, skew, ops>>

\* INCRBY is executed, its reply lost, and executed again.
IncrByTwice(p) ==
    /\ agg = "none"
    /\ "incr" \in Faults /\ failures < MaxFaults
    /\ req[p].pc = "gated"
    /\ cnt' = [cnt EXCEPT ![req[p].v] = @ + 2 * Delta(req[p].op)]
    /\ req' = [req EXCEPT ![p].pc = "counted"]
    /\ failures' = failures + 1
    /\ UNCHANGED <<liked, deltas, batch, agg, server, now, skew, ops>>

\* SREM after a failed like, SADD after a failed unlike, with the context that
\* the INCRBY may have failed for: it may fail too, unnoticed.  The call then
\* returns the error of the INCRBY and publishes nothing.
UndoGate(p) ==
    /\ req[p].pc = "undo"
    /\ LET pair == <<req[p].u, req[p].v>>
       IN \/ liked' = IF req[p].op = "like" THEN liked \ {pair} ELSE liked \cup {pair}
          \/ UNCHANGED liked
    /\ req' = [req EXCEPT ![p] = Idle]
    /\ UNCHANGED <<counterVars, server, now, skew, ops, failures>>

\* Mutant of Stamp: the event is built without its timestamp.
StampMissing(p) ==
    /\ req[p].pc = "counted"
    /\ req' = [req EXCEPT ![p].pc = "stamped"]
    /\ UNCHANGED <<liked, counterVars, server, now, skew, ops, failures>>

\* time.Now().UnixMilli(), evaluated before producer.Publish is called.
Stamp(p) ==
    /\ req[p].pc = "counted"
    /\ req' = [req EXCEPT ![p] = [pc |-> "stamped", u |-> req[p].u, v |-> req[p].v,
                                  op |-> req[p].op, ts |-> now]]
    /\ UNCHANGED <<liked, counterVars, server, now, skew, ops, failures>>

\* producer.Publish; its error is ignored and the call returns changed = true.
\* Where the event goes is the business of the module that composes the bus.
Publish(p) ==
    /\ req[p].pc = "stamped"
    /\ req' = [req EXCEPT ![p] = Idle]
    /\ UNCHANGED <<liked, counterVars, server, now, skew, ops, failures>>

-----------------------------------------------------------------------------
(* CounterAggregator.Run and flush. *)

\* A tick: flush swaps the map under the mutex and sends it without the lock.
\* An empty map makes flush return at once, which changes nothing.
FlushTake ==
    /\ agg = "wait" /\ server # "exited"
    /\ deltas # Zero
    /\ batch' = deltas /\ deltas' = Zero
    /\ agg' = "exec"
    /\ UNCHANGED <<liked, cnt, req, server, now, skew, ops, failures>>

\* ctx.Done(): one last flush, with a context of its own, and Run returns.
LastFlushTake ==
    /\ agg = "wait" /\ server = "cancelled"
    /\ batch' = deltas /\ deltas' = Zero
    /\ agg' = IF deltas = Zero THEN "stopped" ELSE "lastExec"
    /\ UNCHANGED <<liked, cnt, req, server, now, skew, ops, failures>>

AfterExec == IF agg = "exec" THEN "wait" ELSE "stopped"

\* pipe.Exec returns nil: every INCRBY of the batch was applied.
ExecOK ==
    /\ agg \in {"exec", "lastExec"} /\ server # "exited"
    /\ cnt' = [v \in Videos |-> cnt[v] + batch[v]]
    /\ batch' = Zero
    /\ agg' = AfterExec
    /\ UNCHANGED <<liked, req, deltas, server, now, skew, ops, failures>>

\* Mutant of ExecFails: the batch replaces the map instead of being merged into
\* it, so what was added during the flush is lost.
ExecFailsReplacing(applied) ==
    /\ agg \in {"exec", "lastExec"} /\ server # "exited"
    /\ "exec" \in Faults /\ failures < MaxFaults
    /\ applied = {}
    /\ deltas' = batch
    /\ batch' = Zero
    /\ agg' = AfterExec
    /\ failures' = failures + 1
    /\ UNCHANGED <<liked, cnt, req, server, now, skew, ops>>

\* Mutant of ExecFails: the error is ignored.
ExecFailsIgnored(applied) ==
    /\ agg \in {"exec", "lastExec"} /\ server # "exited"
    /\ "exec" \in Faults /\ failures < MaxFaults
    /\ applied = {}
    /\ batch' = Zero
    /\ agg' = AfterExec
    /\ failures' = failures + 1
    /\ UNCHANGED <<liked, cnt, req, deltas, server, now, skew, ops>>

\* pipe.Exec returns an error, the INCRBYs of the videos in applied having been
\* executed; the whole batch goes back to deltas, so that these are sent again.
\* A flush whose context was cancelled under it fails the same way.
ExecFails(applied) ==
    /\ agg \in {"exec", "lastExec"} /\ server # "exited"
    /\ \/ "exec" \in Faults /\ failures < MaxFaults
       \/ agg = "exec" /\ server = "cancelled"
    /\ applied # {} => "partial" \in Faults /\ failures < MaxFaults
    /\ cnt' = [v \in Videos |-> IF v \in applied THEN cnt[v] + batch[v] ELSE cnt[v]]
    /\ skew' = [v \in Videos |-> IF v \in applied THEN skew[v] + batch[v] ELSE skew[v]]
    /\ deltas' = [v \in Videos |-> deltas[v] + batch[v]]
    /\ batch' = Zero
    /\ agg' = AfterExec
    /\ failures' = IF failures < MaxFaults THEN failures + 1 ELSE failures
    /\ UNCHANGED <<liked, req, server, now, ops>>

-----------------------------------------------------------------------------
(* The process and the clock. *)

\* SIGTERM: main calls cancel() before srv.Shutdown, so requests are still
\* accepted and run after ctx is done.
Cancel ==
    /\ "shutdown" \in Faults
    /\ server = "running" /\ server' = "cancelled"
    /\ UNCHANGED <<liked, counterVars, req, now, skew, ops, failures>>

\* srv.Shutdown returns when no request is in flight, and main returns without
\* waiting for the aggregator's goroutine; or the process dies.  What it held is
\* gone, the requests in flight included.
Exit ==
    /\ \/ /\ server = "cancelled"
          /\ (\A p \in Procs : req[p] = Idle) \/ "timeout" \in Faults
       \/ server # "exited" /\ "crash" \in Faults
    /\ server' = "exited"
    /\ req' = [p \in Procs |-> Idle]
    /\ deltas' = Zero /\ batch' = Zero /\ agg' = "stopped"
    /\ UNCHANGED <<liked, cnt, now, skew, ops, failures>>

Tick ==
    /\ now < MaxTime /\ now' = now + 1
    /\ UNCHANGED <<liked, counterVars, req, server, skew, ops, failures>>

RequestStep(p) ==
    \/ Add(p) \/ IncrBy(p) \/ UndoGate(p) \/ Stamp(p) \/ Publish(p)

Next ==
    \/ \E p \in Procs :
          \/ \E u \in Users, v \in Videos, op \in Ops : Gate(p, u, v, op) \/ GateFails(p, u, v, op)
          \/ RequestStep(p)
          \/ IncrByFails(p) \/ IncrByTwice(p)
    \/ FlushTake \/ LastFlushTake \/ ExecOK
    \/ \E applied \in SUBSET Videos : ExecFails(applied)
    \/ Cancel \/ Exit \/ Tick

\* Goroutines are scheduled, the ticker fires every 100 ms and a Redis call
\* returns.  Users need not call, and nothing makes the process stop.
Fairness ==
    /\ \A p \in Procs : WF_vars(RequestStep(p))
    /\ WF_vars(FlushTake)
    /\ WF_vars(ExecOK \/ ExecFails({}))

Spec == Init /\ [][Next]_vars
FairSpec == Spec /\ Fairness

-----------------------------------------------------------------------------
(* read.go *)

\* Count: the sum of the shards, a negative total shown as 0.
Shown(n) == IF n < 0 THEN 0 ELSE n
Count(v) == Shown(cnt[v])

-----------------------------------------------------------------------------
(* Properties. *)

\* Goroutines that passed the gate for v and whose delta is not yet accounted
\* for.
Owing(v, op) ==
    {p \in Procs : req[p].pc = "gated" /\ req[p].v = v /\ req[p].op = op}

\* How far v's counter is off once everything on its way to it arrives: what
\* Redis holds, what the aggregator holds, what a flush is sending and what
\* requests still owe, against the number of users in the gate.
Drift(v) ==
    cnt[v] + deltas[v] + batch[v] + Cardinality(Owing(v, "like"))
        - Cardinality(Owing(v, "unlike")) - Cardinality(Likers(v))

\* No like is lost or counted twice, wherever it is: as long as the process is
\* up, each video's count is off by what lost replies account for and by nothing
\* else, through interleaved requests of one user, flushes, failed flushes put
\* back, and the last flush of a shutdown.  A lost reply of SADD or SREM leaves
\* out the one change it let through, and a flush that fails after some of its
\* videos were written counts these twice; without either the drift is zero.
\* (Without the aggregator, until a call failed.)
Conservation ==
    server # "exited" /\ (agg # "none" \/ failures = 0) => \A v \in Videos : Drift(v) = skew[v]

\* Without the aggregator a failed INCRBY is compensated by undoing the gate in
\* a second step (service.go:77-80, 104-107), and requests of the same user may
\* pass in between; each call that fails or loses its reply then costs at most one
\* count, never more.
DriftBoundedByFailures ==
    agg = "none" => \A v \in Videos : Drift(v) <= failures /\ -Drift(v) <= failures

\* A graceful stop keeps the last window: once the process is gone every
\* video's counter in Redis is the number of its likers (aggregator.go:45).  The
\* code does not keep this promise (main.go:331), and no run claims it.
NothingLostAtExit ==
    server = "exited" => \A v \in Videos : cnt[v] = Cardinality(Likers(v))

\* The count shown settles on the number of users in the gate, off by what lost
\* replies account for, whatever order requests, flushes and failed flushes took
\* (aggregator.go:13), unless the process stops or a synchronous INCRBY failed.
CountSettles ==
    \A v \in Videos :
        <>[](\/ Count(v) = Shown(Cardinality(Likers(v)) + skew[v])
             \/ server # "running" \/ (agg = "none" /\ failures > 0))
=============================================================================
