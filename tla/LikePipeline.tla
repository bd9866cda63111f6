---------------------------- MODULE LikePipeline ----------------------------
(***************************************************************************)
(* The whole like path: requests pass the Redis gate and publish their     *)
(* events (LikeService), the Redis stream carries them (RedisStreamBus),   *)
(* and the handler subscribed in cmd/server and cmd/likeworker writes them *)
(* to the tables (LikeRepo), one statement at a time.  Nothing ties an     *)
(* event to the change of the gate it tells of: requests of one user       *)
(* overlap, a reply, a Publish or the server is lost in between.           *)
(*                                                                         *)
(* The aggregator's flushes and the order of a shutdown are LikeService's  *)
(* business: the counters are not read here, and a crash at any moment     *)
(* does to the requests what a shutdown may do.                            *)
(*                                                                         *)
(* A message is the index of its event in payload, the JSON of which       *)
(* always decodes.                                                         *)
(***************************************************************************)
EXTENDS LikeRepo, Sequences, FiniteSets

CONSTANTS
    Procs, MaxOps, MaxTime, SvcFaults, MaxFaults,                      \* LikeService
    Consumers, MaxRetry, BatchSize, XAddCopies, BusFaults, MaxStops,   \* RedisStreamBus
    DBFails,    \* statements that may return an error: a subset of {"upsert", "apply"}
    MaxDBFails  \* bound: statements that return an error

\* What the two modules and the handler assume.
ASSUME PipelineAssumption ==
    /\ IsFiniteSet(Users) /\ IsFiniteSet(Procs) /\ MaxOps \in Nat /\ MaxTime \in Nat
    /\ SvcFaults \subseteq {"gate", "crash"} /\ MaxFaults \in Nat
    /\ MaxRetry \in Nat \ {0} /\ BatchSize \in Nat \ {0}
    /\ XAddCopies \subseteq {0, 1, 2} /\ XAddCopies # {}
    /\ BusFaults \subseteq {"stop", "crash", "read", "ack"} /\ MaxStops \in Nat
    /\ DBFails \subseteq {"upsert", "apply"} /\ MaxDBFails \in Nat

VARIABLES
    liked, cnt, req, deltas, batch, agg, server, now, skew, ops, failures,
    log, last, pel, slice, pc, cancelled, dlq, sent, done, calls, dropped, stops,
    payload,    \* the events published, by message
    stage,      \* per consumer: the statement its handler is at
    dbFailures,
    alone       \* history: the pairs of user and video whose last change of the gate was made
                \* with no other request of theirs under way, and by a call that published its
                \* event or still may

svcVars == <<liked, cnt, req, deltas, batch, agg, server, now, skew, ops, failures>>
busVars == <<log, last, pel, slice, pc, cancelled, dlq, sent, done, calls, dropped, stops>>
repoVars == <<record, stats>>
vars == <<svcVars, busVars, repoVars, payload, stage, dbFailures, alone>>

\* cmd/server and cmd/like inject the aggregator.
Svc == INSTANCE LikeService WITH Wirings <- {"wait"}, Faults <- SvcFaults
Bus == INSTANCE RedisStreamBus WITH Msgs <- 1 .. MaxOps, Faults <- BusFaults

Event == [u : Users, v : Videos, liked : BOOLEAN, ts : Nat]

\* The types of the parts; their modules prove them.
TypeOK ==
    /\ Svc!TypeOK /\ Bus!TypeOK /\ RepoTypeOK
    /\ payload \in Seq(Event)
    /\ stage \in [Consumers -> {"upsert", "apply"}]
    /\ dbFailures \in Nat
    /\ alone \subseteq Pairs

Init ==
    /\ Svc!Init /\ Bus!Init /\ RepoInit
    /\ payload = <<>>
    /\ stage = [c \in Consumers |-> "upsert"]
    /\ dbFailures = 0
    /\ alone = Pairs

-----------------------------------------------------------------------------
\* The requests of a user and a video that are under way.
UnderWay(k) == {p \in Procs : req[p] # Svc!Idle /\ <<req[p].u, req[p].v>> = k}

\* SADD or SREM.
Gate(p, u, v, op) ==
    /\ Svc!Gate(p, u, v, op)
    /\ alone' = IF liked' = liked THEN alone
                ELSE IF UnderWay(<<u, v>>) = {} THEN alone \cup {<<u, v>>} ELSE alone \ {<<u, v>>}
    /\ UNCHANGED <<busVars, repoVars, payload, stage, dbFailures>>

GateFails(p, u, v, op) ==
    /\ Svc!GateFails(p, u, v, op)
    /\ alone' = IF liked' = liked THEN alone ELSE alone \ {<<u, v>>}
    /\ UNCHANGED <<busVars, repoVars, payload, stage, dbFailures>>

\* busProducer.Publish: the request's event goes to the stream.
Publish(p) ==
    /\ Svc!Publish(p)
    /\ Bus!Publish(Len(payload) + 1)
    /\ payload' = Append(payload, [u |-> req[p].u, v |-> req[p].v,
                                   liked |-> req[p].op = "like", ts |-> req[p].ts])
    /\ UNCHANGED <<repoVars, stage, dbFailures, alone>>

\* The XADD fails and leaves nothing; Like and Unlike drop the error.
PublishFails(p) ==
    /\ 0 \in XAddCopies
    /\ Svc!Publish(p)
    /\ alone' = alone \ {<<req[p].u, req[p].v>>}
    /\ UNCHANGED <<busVars, repoVars, payload, stage, dbFailures>>

\* The server is gone, and with it the requests that were under way.
Exit ==
    /\ Svc!Exit
    /\ alone' = {k \in alone : UnderWay(k) = {}}
    /\ UNCHANGED <<busVars, repoVars, payload, stage, dbFailures>>

SvcStep ==
    /\ (\E p \in Procs : Svc!Add(p) \/ Svc!Stamp(p)) \/ Svc!Tick
    /\ UNCHANGED <<busVars, repoVars, payload, stage, dbFailures, alone>>

BusStep(c) ==
    /\ \/ Bus!XReadGroup(c) \/ Bus!ReadReplyLost(c) \/ Bus!CallHandler(c)
       \/ Bus!DeadLetter(c) \/ Bus!Requeue(c) \/ Bus!XAck(c)
       \/ Bus!Stop(c) \/ Bus!RunReturns(c) \/ Bus!Restart(c)
    /\ UNCHANGED <<svcVars, repoVars, payload, stage, dbFailures, alone>>

\* The process dies in the middle of anything, its handler included.
Crash(c) ==
    /\ Bus!Crash(c)
    /\ stage' = [stage EXCEPT ![c] = "upsert"]
    /\ UNCHANGED <<svcVars, repoVars, payload, dbFailures, alone>>

\* The event the handler of consumer c was called with.
Handled(c) == payload[Bus!Current(c).msg]

\* HandleBatch, first statement.
Upsert(c) ==
    /\ pc[c] = "handling" /\ stage[c] = "upsert"
    /\ UpsertLike(Handled(c))
    /\ stage' = [stage EXCEPT ![c] = "apply"]
    /\ UNCHANGED <<svcVars, busVars, stats, payload, dbFailures, alone>>

\* HandleBatch, second statement; the handler returns nil.
Apply(c) ==
    /\ stage[c] = "apply"
    /\ ApplyCountDeltas(Handled(c))
    /\ Bus!HandlerOK(c)
    /\ stage' = [stage EXCEPT ![c] = "upsert"]
    /\ UNCHANGED <<svcVars, record, payload, dbFailures, alone>>

\* A statement returns an error, committed or not, and the handler returns it.
StatementFails(c) ==
    /\ stage[c] \in DBFails /\ dbFailures < MaxDBFails
    /\ Bus!HandlerFails(c)
    /\ \/ UNCHANGED repoVars
       \/ stage[c] = "upsert" /\ UpsertLike(Handled(c)) /\ UNCHANGED stats
       \/ stage[c] = "apply" /\ ApplyCountDeltas(Handled(c)) /\ UNCHANGED record
    /\ stage' = [stage EXCEPT ![c] = "upsert"]
    /\ dbFailures' = dbFailures + 1
    /\ UNCHANGED <<svcVars, payload, alone>>

Next ==
    \/ \E p \in Procs :
          \/ \E u \in Users, v \in Videos, op \in {"like", "unlike"} :
                Gate(p, u, v, op) \/ GateFails(p, u, v, op)
          \/ Publish(p) \/ PublishFails(p)
    \/ SvcStep \/ Exit
    \/ \E c \in Consumers : BusStep(c) \/ Crash(c) \/ Upsert(c) \/ Apply(c) \/ StatementFails(c)

Spec == Init /\ [][Next]_vars

-----------------------------------------------------------------------------
(* Properties. *)

\* The events of a user and a video, by message.
Key(i) == <<payload[i].u, payload[i].v>>
EventsOf(k) == {i \in 1 .. Len(payload) : Key(i) = k}

\* The row of a user and a video says what the user did last, as the gate has it,
\* once the handler has accepted the last event, whatever retries, copies, crashes and
\* failing statements make of the order of the events (cmd/likeworker/main.go:107,
\* mysql_repo.go:19: out-of-order messages must not overwrite the newest state).
\* The stamp is what orders them: another event of the pair may not have the same
\* millisecond.  And the last event must tell of the last change of the gate: that is
\* so unless the change was made while another request of the same user and video was
\* between its own change and its event, or its event was never published.
RecordFollowsGate ==
    \A k \in alone :
        UnderWay(k) = {} =>
            /\ EventsOf(k) = {} => (record[k].liked <=> k \in liked)
            /\ \A i \in EventsOf(k) :
                  i \in done /\ (\A j \in EventsOf(k) \ {i} : j < i /\ payload[j].ts # payload[i].ts)
                      => (record[k].liked <=> k \in liked)
=============================================================================
