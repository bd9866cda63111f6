------------------------- MODULE LikePipelineProofs -------------------------
(***************************************************************************)
(* Proofs about LikePipeline, for any users, videos, goroutines, consumers *)
(* and calls, any batch size and retry limit, and whatever faults the      *)
(* service, the bus and the tables have: why the row of a user and a video *)
(* ends up saying what the user did last, and which changes of the gate it *)
(* follows.                                                                *)
(***************************************************************************)
EXTENDS LikePipeline, SequenceTheorems, FiniteSetTheorems, TLAPS

\* What is proved about the parts.
SvcPart == INSTANCE LikeServiceProofs WITH Wirings <- {"wait"}, Faults <- SvcFaults
BusPart == INSTANCE RedisStreamBusProofs WITH Msgs <- 1 .. MaxOps, Faults <- BusFaults

LEMMA PartsAssumptions == SvcPart!LikeAssumption /\ BusPart!BusAssumption
<1>1. SvcPart!LikeAssumption
    BY PipelineAssumption DEF SvcPart!LikeAssumption, SvcPart!FaultKinds, IsFiniteSet, SvcPart!IsFiniteSet
<1>2. BusPart!BusAssumption
    BY PipelineAssumption DEF BusPart!BusAssumption, BusPart!FaultKinds
<1> QED
    BY <1>1, <1>2

\* The requests that run, and the user and the video of each.
Running == {p \in Procs : req[p].pc # "idle"}
Target(p) == <<req[p].u, req[p].v>>

\* Messages are numbered as they are published; a call publishes at most one.
Numbered ==
    /\ sent = 1 .. Len(payload)
    /\ BusPart!FromSenders
    /\ ops <= MaxOps /\ Len(payload) + Cardinality(Running) <= ops

\* No stamp is later than the clock.
Clocked ==
    /\ \A i \in 1 .. Len(payload) : payload[i].ts <= now
    /\ \A p \in Procs : req[p].pc = "stamped" => req[p].ts <= now

\* A pair whose last change of the gate was made alone: one request of it may still be
\* under way, the one that made the change, and stamps its event after the others; or
\* else the last event tells of that change, and has the latest stamp.
Newest(k, i) == i \in EventsOf(k) /\ \A j \in EventsOf(k) : j <= i
GateOf(k) ==
    /\ \A p, q \in UnderWay(k) : p = q
    /\ \A p \in UnderWay(k) :
          /\ req[p].op = "like" <=> k \in liked
          /\ req[p].pc = "stamped" => \A i \in EventsOf(k) : payload[i].ts <= req[p].ts
    /\ UnderWay(k) = {} =>
          /\ EventsOf(k) = {} => k \notin liked
          /\ \A i \in EventsOf(k) :
                Newest(k, i) => /\ payload[i].liked <=> k \in liked
                                /\ \A j \in EventsOf(k) : payload[j].ts <= payload[i].ts
GateFollowed == \A k \in alone : GateOf(k)

\* A row is that of one of the events, and none older than an accepted one or
\* one whose first statement has been executed.
RowOf(k) == record[k] = NoRow \/ \E i \in EventsOf(k) :
                                    record[k] = [liked |-> payload[i].liked, ts |-> payload[i].ts]
Stored(i) == record[Key(i)].ts >= payload[i].ts
RowsStored ==
    /\ \A k \in Pairs : RowOf(k)
    /\ \A i \in done : Stored(i)
    /\ \A c \in Consumers :
          stage[c] = "apply" => pc[c] = "handling" /\ Stored(BusPart!Current(c).msg)

Typed == TypeOK /\ BusPart!SlicesDelivered
Inv == Typed /\ Numbered /\ Clocked /\ GateFollowed /\ RowsStored

-----------------------------------------------------------------------------
(* The parts of a step. *)

\* The modules say the same of the parts as the ones that the pipeline is made of.
LEMMA PartsTyped ==
    ASSUME TypeOK
    PROVE  SvcPart!TypeOK /\ BusPart!TypeOK
    BY DEF TypeOK, Svc!TypeOK, SvcPart!TypeOK, Svc!Idle, SvcPart!Idle, Svc!Active, SvcPart!Active,
           Svc!Stamped, SvcPart!Stamped, Svc!Ops, SvcPart!Ops,
           Bus!TypeOK, BusPart!TypeOK, Bus!Entry, BusPart!Entry, Bus!PCs, BusPart!PCs

\* Cardinalities of running requests are numbers.
LEMMA RunningIsFinite == IsFiniteSet(Running) /\ Cardinality(Running) \in Nat
<1>1. Running \subseteq Procs /\ IsFiniteSet(Procs)
    BY PipelineAssumption DEF Running
<1> QED
    BY <1>1, FS_Subset, FS_CardinalityType

\* A request that publishes has a message of its own left.
LEMMA MessageLeft ==
    ASSUME TypeOK, Numbered, NEW p \in Procs, Svc!Publish(p)
    PROVE  /\ Len(payload) \in Nat /\ Len(payload) + 1 \in 1 .. MaxOps
           /\ p \in Running
<1>1. Len(payload) \in Nat /\ ops \in Nat /\ MaxOps \in Nat
    BY PipelineAssumption, LenProperties DEF TypeOK, Svc!TypeOK
<1>2. p \in Running
    BY DEF Running, Svc!Publish
<1>3. Cardinality(Running) \in Nat /\ Cardinality(Running) # 0
    BY <1>2, RunningIsFinite, FS_EmptySet
<1> QED
    BY <1>1, <1>2, <1>3 DEF Numbered

\* Every step is one of the service or leaves it alone.
LEMMA StepOfService ==
    ASSUME [Next]_vars
    PROVE  [SvcPart!Next]_svcVars
<1>1. ASSUME SvcStep \/ Exit PROVE SvcPart!Next
    BY <1>1 DEF SvcStep, Exit, SvcPart!Next, SvcPart!RequestStep,
          Svc!Add, SvcPart!Add, Svc!Stamp, SvcPart!Stamp, Svc!Tick, SvcPart!Tick, Svc!Exit, SvcPart!Exit,
          Svc!Idle, SvcPart!Idle, Svc!counterVars, SvcPart!counterVars, Svc!Delta, SvcPart!Delta,
          Svc!Zero, SvcPart!Zero
<1>5. ASSUME NEW p \in Procs, NEW u \in Users, NEW v \in Videos, NEW op \in {"like", "unlike"},
             Gate(p, u, v, op) \/ GateFails(p, u, v, op)
      PROVE  SvcPart!Next
    <2>1. SvcPart!Gate(p, u, v, op) \/ SvcPart!GateFails(p, u, v, op)
        BY <1>5 DEF Gate, GateFails, Svc!Gate, SvcPart!Gate, Svc!GateFails, SvcPart!GateFails,
              Svc!Toggled, SvcPart!Toggled, Svc!Idle, SvcPart!Idle,
              Svc!counterVars, SvcPart!counterVars, Svc!Delta, SvcPart!Delta
    <2> QED
        BY <2>1 DEF SvcPart!Next, SvcPart!Ops
<1>2. ASSUME NEW p \in Procs, Publish(p) \/ PublishFails(p) PROVE SvcPart!Next
    BY <1>2 DEF Publish, PublishFails, Svc!Publish, SvcPart!Publish, SvcPart!Next, SvcPart!RequestStep,
                Svc!Idle, SvcPart!Idle, Svc!counterVars, SvcPart!counterVars
<1>3. ASSUME NEW c \in Consumers, BusStep(c) \/ Crash(c) \/ Upsert(c) \/ Apply(c) \/ StatementFails(c)
      PROVE  UNCHANGED svcVars
    BY <1>3 DEF BusStep, Crash, Upsert, Apply, StatementFails
<1>4. CASE UNCHANGED vars
    BY <1>4 DEF vars
<1> QED
    BY <1>1, <1>2, <1>3, <1>4, <1>5 DEF Next

\* What a request does to the bus: nothing, unless it publishes.
LEMMA RequestsBesideBus ==
    ASSUME \/ SvcStep \/ Exit \/ \E p \in Procs : PublishFails(p)
           \/ \E p \in Procs, u \in Users, v \in Videos, op \in {"like", "unlike"} :
                 Gate(p, u, v, op) \/ GateFails(p, u, v, op)
    PROVE  UNCHANGED <<busVars, repoVars, payload, stage, dbFailures>>
    BY DEF SvcStep, Exit, PublishFails, Gate, GateFails

\* Every step is one of the bus or leaves it alone.
LEMMA StepOfBus ==
    ASSUME TypeOK, Numbered, [Next]_vars
    PROVE  [BusPart!Next]_busVars
<1>1. CASE UNCHANGED busVars
    BY <1>1
<1>2. ASSUME NEW p \in Procs, Publish(p) PROVE BusPart!Next
    <2>1. Len(payload) + 1 \in 1 .. MaxOps
        BY <1>2, MessageLeft DEF Publish
    <2>2. BusPart!Publish(Len(payload) + 1)
        BY <1>2 DEF Publish, Bus!Publish, BusPart!Publish, Bus!XAdd, BusPart!XAdd
    <2> QED
        BY <2>1, <2>2 DEF BusPart!Next
<1>3. ASSUME NEW c \in Consumers, BusStep(c) PROVE BusPart!Next
    BY <1>3 DEF BusStep, BusPart!Next, BusPart!RunTopic, BusPart!HandleMessage,
          Bus!XReadGroup, BusPart!XReadGroup, Bus!ReadReplyLost, BusPart!ReadReplyLost,
          Bus!CallHandler, BusPart!CallHandler, Bus!DeadLetter, BusPart!DeadLetter,
          Bus!Requeue, BusPart!Requeue, Bus!XAck, BusPart!XAck, Bus!Stop, BusPart!Stop,
          Bus!RunReturns, BusPart!RunReturns, Bus!Restart, BusPart!Restart,
          Bus!Current, BusPart!Current, Bus!XAdd, BusPart!XAdd, Bus!Copies, BusPart!Copies,
          Bus!NoSlice, BusPart!NoSlice, Bus!streamVars, BusPart!streamVars,
          Bus!historyVars, BusPart!historyVars, Bus!NextEntry, BusPart!NextEntry,
          Bus!Dropped, BusPart!Dropped
<1>4. ASSUME NEW c \in Consumers, Crash(c) \/ Apply(c) \/ StatementFails(c) PROVE BusPart!Next
    BY <1>4 DEF Crash, Apply, StatementFails, BusPart!Next, BusPart!RunTopic, BusPart!HandleMessage,
          Bus!Crash, BusPart!Crash, Bus!HandlerOK, BusPart!HandlerOK,
          Bus!HandlerFails, BusPart!HandlerFails, Bus!Current, BusPart!Current,
          Bus!NoSlice, BusPart!NoSlice, Bus!streamVars, BusPart!streamVars,
          Bus!historyVars, BusPart!historyVars
<1>5. ASSUME NEW c \in Consumers, Upsert(c) PROVE UNCHANGED busVars
    BY <1>5 DEF Upsert
<1>6. CASE UNCHANGED vars
    BY <1>6 DEF vars
<1> QED
    BY <1>1, <1>2, <1>3, <1>4, <1>5, <1>6, RequestsBesideBus DEF Next

-----------------------------------------------------------------------------
(* Types and numbers. *)

\* The fields of a request that runs.
LEMMA RunningRequest ==
    ASSUME TypeOK, NEW p \in Procs, req[p].pc # "idle"
    PROVE  /\ req[p].u \in Users /\ req[p].v \in Videos /\ req[p].op \in {"like", "unlike"}
           /\ Target(p) \in Pairs
           /\ req[p].pc = "stamped" => req[p].ts \in Nat
<1>1. req[p] \in {Svc!Idle} \cup Svc!Active \cup Svc!Stamped
    BY DEF TypeOK, Svc!TypeOK
<1>2. CASE req[p] = Svc!Idle
    BY <1>2 DEF Svc!Idle
<1>3. CASE req[p] \in Svc!Active
    BY <1>3 DEF Svc!Active, Svc!Ops, Target, Pairs
<1>4. CASE req[p] \in Svc!Stamped
    BY <1>4 DEF Svc!Stamped, Svc!Ops, Target, Pairs
<1> QED
    BY <1>1, <1>2, <1>3, <1>4

\* The requests under way for a pair are the running ones that target it.
LEMMA UnderWayRuns ==
    ASSUME TypeOK, NEW p \in Procs, NEW k
    PROVE  p \in UnderWay(k) <=> req[p].pc # "idle" /\ Target(p) = k
<1>1. req[p] \in {Svc!Idle} \cup Svc!Active \cup Svc!Stamped
    BY DEF TypeOK, Svc!TypeOK
<1>2. req[p] = Svc!Idle <=> req[p].pc = "idle"
    BY <1>1 DEF Svc!Idle, Svc!Active, Svc!Stamped
<1> QED
    BY <1>2 DEF UnderWay, Target

\* The events published are events of a user and a video.
LEMMA EventsTyped ==
    ASSUME TypeOK
    PROVE  /\ Len(payload) \in Nat
           /\ \A i \in 1 .. Len(payload) : payload[i] \in Event /\ Key(i) \in Pairs
<1>1. payload \in Seq(Event)
    BY DEF TypeOK
<1>2. \A i \in 1 .. Len(payload) : payload[i] \in Event
    BY <1>1, ElementOfSeq
<1> QED
    BY <1>1, <1>2, LenProperties DEF Event, Key, Pairs

\* A handler is called with an event that was published.
LEMMA HandledEvent ==
    ASSUME Typed, Numbered, NEW c \in Consumers, pc[c] = "handling"
    PROVE  \E m \in 1 .. Len(payload) :
              /\ BusPart!Current(c).msg = m /\ Bus!Current(c).msg = m
              /\ Handled(c) = payload[m] /\ payload[m] \in Event /\ Key(m) \in Pairs
<1> DEFINE m == BusPart!Current(c).msg
<1>1. slice[c].next \in 1 .. Len(log) /\ BusPart!Current(c) = log[slice[c].next]
    BY PartsTyped, PartsAssumptions, BusPart!CurrentEntry DEF Typed, BusPart!AtWork, BusPart!Current
<1>2. m \in 1 .. Len(payload)
    BY <1>1 DEF Numbered, BusPart!FromSenders
<1>3. Bus!Current(c).msg = m
    BY DEF Bus!Current, BusPart!Current
<1>4. Handled(c) = payload[m]
    BY <1>3 DEF Handled
<1> HIDE DEF m
<1>5. payload[m] \in Event /\ Key(m) \in Pairs
    BY <1>2, EventsTyped DEF Typed
<1> QED
    BY <1>2, <1>3, <1>4, <1>5 DEF m

\* What publishing does to the events.
LEMMA PublishAppends ==
    ASSUME Typed, Numbered, NEW p \in Procs, Publish(p), NEW n, n = Len(payload)
    PROVE  /\ n \in Nat /\ n + 1 \in 1 .. MaxOps /\ p \in Running
           /\ payload' \in Seq(Event) /\ Len(payload') = n + 1
           /\ \A i \in 1 .. n : payload'[i] = payload[i]
           /\ payload'[n + 1].u = req[p].u /\ payload'[n + 1].v = req[p].v
           /\ payload'[n + 1].liked <=> req[p].op = "like"
           /\ payload'[n + 1].ts = req[p].ts
           /\ sent' = sent \cup {n + 1}
<1>1. n \in Nat /\ n + 1 \in 1 .. MaxOps /\ p \in Running
    BY MessageLeft DEF Typed, Publish
<1> DEFINE e == [u |-> req[p].u, v |-> req[p].v, liked |-> req[p].op = "like", ts |-> req[p].ts]
<1>2. e \in Event
    <2>1. req[p].pc = "stamped"
        BY DEF Publish, Svc!Publish
    <2> QED
        BY <2>1, RunningRequest DEF Typed, Event
<1>3. payload' = Append(payload, e) /\ payload \in Seq(Event)
    BY DEF Publish, Typed, TypeOK
<1>6. e.u = req[p].u /\ e.v = req[p].v /\ (e.liked <=> req[p].op = "like") /\ e.ts = req[p].ts
    OBVIOUS
<1> HIDE DEF e
<1>4. /\ payload' \in Seq(Event) /\ Len(payload') = n + 1
      /\ \A i \in 1 .. n : payload'[i] = payload[i]
      /\ payload'[n + 1] = e
    BY <1>2, <1>3, AppendProperties
<1>5. sent' = sent \cup {n + 1}
    BY DEF Publish, Bus!Publish
<1> QED
    BY <1>1, <1>4, <1>5, <1>6

\* The statements keep the tables well typed.
LEMMA StatementsTyped ==
    ASSUME RepoTypeOK, NEW e \in Event
    PROVE  /\ UpsertLike(e) => record' \in [Pairs -> [liked : BOOLEAN, ts : Int]]
           /\ ApplyCountDeltas(e) => stats' \in [Videos -> Nat]
<1>1. e.u \in Users /\ e.v \in Videos /\ e.liked \in BOOLEAN /\ e.ts \in Nat
    BY DEF Event
<1>2. \A row \in [liked : BOOLEAN, ts : Int] : Upserted(row, e) \in [liked : BOOLEAN, ts : Int]
    BY <1>1 DEF Upserted
<1>3. \A n \in Nat : Most(0, n + Delta(e)) \in Nat
    BY DEF Most, Delta
<1>4. UpsertLike(e) => record' \in [Pairs -> [liked : BOOLEAN, ts : Int]]
    BY <1>2 DEF UpsertLike, RepoTypeOK
<1>5. ApplyCountDeltas(e) => stats' \in [Videos -> Nat]
    BY <1>1, <1>3 DEF ApplyCountDeltas, RepoTypeOK
<1> QED
    BY <1>4, <1>5

\* Every step keeps the types.
LEMMA StepIsTyped == Typed /\ Numbered /\ [Next]_vars => Typed'
<1> SUFFICES ASSUME Typed, Numbered, [Next]_vars PROVE Typed'
    OBVIOUS
<1>1. BusPart!TypeOK' /\ BusPart!SlicesDelivered'
    BY PartsTyped, StepOfBus, PartsAssumptions, BusPart!StepIsTyped DEF Typed, busVars, BusPart!vars
<1>2. SvcPart!TypeOK'
    BY PartsTyped, StepOfService, PartsAssumptions, SvcPart!StepIsTyped DEF Typed, svcVars, SvcPart!vars
<1>3. Svc!TypeOK' /\ Bus!TypeOK'
    BY <1>1, <1>2 DEF Svc!TypeOK, SvcPart!TypeOK, Svc!Idle, SvcPart!Idle, Svc!Active, SvcPart!Active,
              Svc!Stamped, SvcPart!Stamped, Svc!Ops, SvcPart!Ops,
              Bus!TypeOK, BusPart!TypeOK, Bus!Entry, BusPart!Entry, Bus!PCs, BusPart!PCs
<1> DEFINE Rest == /\ RepoTypeOK /\ payload \in Seq(Event)
                   /\ stage \in [Consumers -> {"upsert", "apply"}] /\ dbFailures \in Nat
<1>10. alone' \subseteq Pairs
    <2>1. alone \subseteq Pairs
        BY DEF Typed, TypeOK
    <2>2. ASSUME NEW p \in Procs, NEW u \in Users, NEW v \in Videos, NEW op \in {"like", "unlike"},
                 Gate(p, u, v, op) \/ GateFails(p, u, v, op)
          PROVE  alone' \subseteq Pairs
        BY <2>1, <2>2 DEF Gate, GateFails, Pairs
    <2>3. ASSUME NEW p \in Procs, Publish(p) \/ PublishFails(p) PROVE alone' \subseteq Pairs
        BY <2>1, <2>3 DEF Publish, PublishFails
    <2>4. ASSUME SvcStep \/ Exit \/ UNCHANGED vars PROVE alone' \subseteq Pairs
        BY <2>1, <2>4 DEF SvcStep, Exit, vars
    <2>5. ASSUME NEW c \in Consumers, BusStep(c) \/ Crash(c) \/ Upsert(c) \/ Apply(c) \/ StatementFails(c)
          PROVE  alone' \subseteq Pairs
        BY <2>1, <2>5 DEF BusStep, Crash, Upsert, Apply, StatementFails
    <2> QED
        BY <2>2, <2>3, <2>4, <2>5 DEF Next
<1>4. Rest
    BY DEF Typed, TypeOK
<1>5. ASSUME NEW p \in Procs, Publish(p) PROVE Rest'
    <2>1. payload' \in Seq(Event)
        BY <1>5, PublishAppends
    <2> QED
        BY <1>4, <1>5, <2>1 DEF Publish, RepoTypeOK, repoVars
<1>6. ASSUME UNCHANGED <<repoVars, payload, stage, dbFailures>> PROVE Rest'
    BY <1>4, <1>6 DEF RepoTypeOK, repoVars
<1>7. ASSUME NEW c \in Consumers, Crash(c) PROVE Rest'
    BY <1>4, <1>7 DEF Crash, RepoTypeOK, repoVars
<1>8. ASSUME NEW c \in Consumers, Upsert(c) \/ Apply(c) \/ StatementFails(c) PROVE Rest'
    <2>1. pc[c] = "handling"
        BY <1>8 DEF Upsert, Apply, StatementFails, Bus!HandlerOK, Bus!HandlerFails
    <2>2. Handled(c) \in Event
        BY <2>1, HandledEvent
    <2>3. /\ UNCHANGED record \/ UpsertLike(Handled(c))
          /\ UNCHANGED stats \/ ApplyCountDeltas(Handled(c))
        BY <1>8 DEF Upsert, Apply, StatementFails, repoVars
    <2>4. RepoTypeOK'
        BY <1>4, <2>2, <2>3, StatementsTyped DEF RepoTypeOK
    <2>5. /\ payload' = payload /\ dbFailures' \in Nat
          /\ stage' \in [Consumers -> {"upsert", "apply"}]
        BY <1>4, <1>8 DEF Upsert, Apply, StatementFails
    <2> QED
        BY <1>4, <2>4, <2>5
<1>9. Rest'
    BY <1>5, <1>6, <1>7, <1>8, RequestsBesideBus DEF Next, vars, BusStep
<1> QED
    BY <1>1, <1>3, <1>9, <1>10 DEF Typed, TypeOK

-----------------------------------------------------------------------------
(* What a step does to the requests and the events: a request passes the    *)
(* gate, slips through it unnoticed, accounts for its delta, takes its      *)
(* stamp, publishes or fails to; the server is gone; or only the clock and  *)
(* the calls move.                                                          *)

Passes(p, u, v, op) ==
    /\ req[p].pc = "idle" /\ ops < MaxOps /\ ops' = ops + 1
    /\ op \in {"like", "unlike"} /\ (op = "like") = (<<u, v>> \notin liked)
    /\ liked' = IF op = "like" THEN liked \cup {<<u, v>>} ELSE liked \ {<<u, v>>}
    /\ req' = [req EXCEPT ![p] = [pc |-> "gated", u |-> u, v |-> v, op |-> op]]
    /\ alone' = IF UnderWay(<<u, v>>) = {} THEN alone \cup {<<u, v>>} ELSE alone \ {<<u, v>>}
    /\ UNCHANGED <<payload, sent, now>>
Slips(k) ==
    /\ ops < MaxOps /\ ops' = ops + 1
    /\ liked' = liked \cup {k} \/ liked' = liked \ {k}
    /\ alone' = alone \ {k}
    /\ UNCHANGED <<req, payload, sent, now>>
Counts(p) ==
    /\ req[p].pc = "gated"
    /\ req' = [req EXCEPT ![p] = [pc |-> "counted", u |-> req[p].u, v |-> req[p].v, op |-> req[p].op]]
    /\ UNCHANGED <<liked, payload, sent, now, ops, alone>>
StampsNow(p) ==
    /\ req[p].pc = "counted"
    /\ req' = [req EXCEPT ![p] = [pc |-> "stamped", u |-> req[p].u, v |-> req[p].v,
                                  op |-> req[p].op, ts |-> now]]
    /\ UNCHANGED <<liked, payload, sent, now, ops, alone>>
Forgets(P) ==
    /\ req' = [p \in Procs |-> IF p \in P THEN Svc!Idle ELSE req[p]]
    /\ alone' \subseteq alone /\ \A k \in alone' : UnderWay(k) \cap P = {}
    /\ UNCHANGED <<liked, payload, sent, now, ops>>
OnlyCalls ==
    /\ ops' = ops \/ (ops < MaxOps /\ ops' = ops + 1)
    /\ now' = now \/ now' = now + 1
    /\ UNCHANGED <<liked, req, payload, sent, alone>>

LEMMA StepOfRequest ==
    ASSUME Typed, [Next]_vars
    PROVE  \/ \E p \in Procs :
                 \/ \E u \in Users, v \in Videos, op \in {"like", "unlike"} : Passes(p, u, v, op)
                 \/ Counts(p) \/ StampsNow(p) \/ Publish(p)
           \/ \E k \in Pairs : Slips(k)
           \/ \E P \in SUBSET Procs : Forgets(P)
           \/ OnlyCalls
<1>0. req = [p \in Procs |-> req[p]]
    BY DEF Typed, TypeOK, Svc!TypeOK
<1>1. ASSUME SvcStep
      PROVE  OnlyCalls \/ \E p \in Procs : Counts(p) \/ StampsNow(p)
    <2>1. UNCHANGED <<payload, sent, alone>>
        BY <1>1 DEF SvcStep, busVars
    <2>3. ASSUME NEW p \in Procs, Svc!Add(p) PROVE Counts(p)
        <3>1. req[p] \in Svc!Active
            BY <2>3 DEF Svc!Add, Typed, TypeOK, Svc!TypeOK, Svc!Idle, Svc!Stamped
        <3>2. [req[p] EXCEPT !.pc = "counted"]
                 = [pc |-> "counted", u |-> req[p].u, v |-> req[p].v, op |-> req[p].op]
            BY <3>1 DEF Svc!Active
        <3>3. req' = [req EXCEPT ![p] = [req[p] EXCEPT !.pc = "counted"]]
            BY <2>3 DEF Svc!Add
        <3> QED
            BY <2>1, <2>3, <3>2, <3>3 DEF Svc!Add, Counts
    <2>4. ASSUME NEW p \in Procs, Svc!Stamp(p) PROVE StampsNow(p)
        BY <2>1, <2>4 DEF Svc!Stamp, StampsNow, Svc!counterVars
    <2>5. ASSUME Svc!Tick PROVE OnlyCalls
        BY <2>1, <2>5 DEF Svc!Tick, OnlyCalls
    <2> QED
        BY <1>1, <2>3, <2>4, <2>5 DEF SvcStep
<1>2. ASSUME NEW c \in Consumers, BusStep(c) \/ Crash(c) \/ Upsert(c) \/ Apply(c) \/ StatementFails(c)
      PROVE  OnlyCalls
    <2>1. UNCHANGED <<svcVars, payload, alone>>
        BY <1>2 DEF BusStep, Crash, Upsert, Apply, StatementFails
    <2>2. sent' = sent
        BY <1>2 DEF BusStep, Crash, Upsert, Apply, StatementFails, busVars, Bus!historyVars,
              Bus!XReadGroup, Bus!ReadReplyLost, Bus!CallHandler, Bus!DeadLetter, Bus!Requeue, Bus!XAck,
              Bus!Stop, Bus!RunReturns, Bus!Restart, Bus!Crash, Bus!HandlerOK, Bus!HandlerFails
    <2> QED
        BY <2>1, <2>2 DEF svcVars, OnlyCalls
<1>3. CASE UNCHANGED vars
    BY <1>3 DEF vars, svcVars, busVars, OnlyCalls
<1>4. ASSUME NEW p \in Procs, NEW u \in Users, NEW v \in Videos, NEW op \in {"like", "unlike"},
             Gate(p, u, v, op)
      PROVE  Passes(p, u, v, op) \/ OnlyCalls
    <2>1. UNCHANGED <<payload, sent>>
        BY <1>4 DEF Gate, busVars
    <2>2. CASE (op = "like") = (<<u, v>> \notin liked)
        <3>1. liked' # liked
            BY <1>4, <2>2 DEF Gate, Svc!Gate, Svc!Toggled
        <3> QED
            BY <1>4, <2>1, <2>2, <3>1 DEF Gate, Svc!Gate, Svc!Idle, Svc!Toggled, Passes
    <2>3. CASE ~((op = "like") = (<<u, v>> \notin liked))
        BY <1>4, <2>1, <2>3 DEF Gate, Svc!Gate, OnlyCalls
    <2> QED
        BY <2>2, <2>3
<1>5. ASSUME NEW p \in Procs, NEW u \in Users, NEW v \in Videos, NEW op \in {"like", "unlike"},
             GateFails(p, u, v, op)
      PROVE  Slips(<<u, v>>) \/ OnlyCalls
    BY <1>5 DEF GateFails, Svc!GateFails, Svc!Toggled, busVars, Slips, OnlyCalls
<1>6. ASSUME NEW p \in Procs, PublishFails(p) PROVE Forgets({p})
    <2>1. req[p].pc # "idle" /\ UNCHANGED <<liked, payload, sent, now, ops>>
        BY <1>6 DEF PublishFails, Svc!Publish, busVars
    <2>2. req' = [q \in Procs |-> IF q \in {p} THEN Svc!Idle ELSE req[q]]
        BY <1>0, <1>6 DEF PublishFails, Svc!Publish
    <2>3. alone' = alone \ {Target(p)}
        BY <1>6 DEF PublishFails, Target
    <2>4. \A k \in alone' : UnderWay(k) \cap {p} = {}
        BY <2>3 DEF UnderWay, Target
    <2> QED
        BY <2>1, <2>2, <2>3, <2>4 DEF Forgets
<1>7. ASSUME Exit PROVE Forgets(Procs)
    BY <1>7 DEF Exit, Svc!Exit, busVars, Forgets
<1>8. \A u \in Users, v \in Videos : <<u, v>> \in Pairs
    BY DEF Pairs
<1> QED
    BY <1>1, <1>2, <1>3, <1>4, <1>5, <1>6, <1>7, <1>8 DEF Next

\* Every step keeps the numbering.
LEMMA StepKeepsNumbered == Typed /\ Numbered /\ [Next]_vars => Numbered'
<1> SUFFICES ASSUME Typed, Numbered, [Next]_vars PROVE Numbered'
    OBVIOUS
<1>1. BusPart!FromSenders'
    BY PartsTyped, StepOfBus, PartsAssumptions, BusPart!StepIsFromSenders
       DEF Typed, Numbered, busVars, BusPart!vars
<1> DEFINE n == Len(payload)
           Room == /\ sent' = 1 .. Len(payload')
                   /\ ops' <= MaxOps /\ Len(payload') + Cardinality(Running') <= ops'
<1>2. /\ n \in Nat /\ ops \in Nat /\ MaxOps \in Nat /\ Cardinality(Running) \in Nat
      /\ IsFiniteSet(Running) /\ req = [p \in Procs |-> req[p]]
      /\ sent = 1 .. n /\ ops <= MaxOps /\ n + Cardinality(Running) <= ops
    BY PipelineAssumption, EventsTyped, RunningIsFinite DEF Typed, TypeOK, Svc!TypeOK, Numbered
<1>3. ASSUME NEW p \in Procs, NEW u \in Users, NEW v \in Videos, NEW op \in {"like", "unlike"},
             Passes(p, u, v, op)
      PROVE  Room
    <2>1. Running' = Running \cup {p} /\ p \notin Running
        BY <1>2, <1>3 DEF Passes, Running
    <2>2. Cardinality(Running') = Cardinality(Running) + 1
        BY <1>2, <2>1, FS_AddElement
    <2> QED
        BY <1>2, <1>3, <2>2 DEF Passes
<1>4. ASSUME NEW p \in Procs, Counts(p) \/ StampsNow(p) PROVE Room
    <2>1. Running' = Running
        BY <1>2, <1>4 DEF Counts, StampsNow, Running
    <2> QED
        BY <1>2, <1>4, <2>1 DEF Counts, StampsNow
<1>5. ASSUME NEW p \in Procs, Publish(p) PROVE Room
    <2>1. Running' = Running \ {p} /\ p \in Running /\ ops' = ops
        BY <1>2, <1>5 DEF Publish, Svc!Publish, Svc!Idle, Running
    <2>2. Cardinality(Running') = Cardinality(Running) - 1
        BY <1>2, <2>1, FS_RemoveElement
    <2>3. Len(payload') = n + 1 /\ sent' = sent \cup {n + 1}
        BY <1>5, PublishAppends
    <2> HIDE DEF n
    <2>4. sent' = 1 .. n + 1
        BY <1>2, <2>3
    <2> QED
        BY <1>2, <2>1, <2>2, <2>3, <2>4
<1>6. ASSUME OnlyCalls \/ \E k \in Pairs : Slips(k) PROVE Room
    <2>1. Running' = Running
        BY <1>6 DEF OnlyCalls, Slips, Running
    <2> QED
        BY <1>2, <1>6, <2>1 DEF OnlyCalls, Slips
<1>8. ASSUME NEW P \in SUBSET Procs, Forgets(P) PROVE Room
    <2>1. Running' \subseteq Running
        BY <1>8 DEF Forgets, Running, Svc!Idle
    <2>2. Cardinality(Running') <= Cardinality(Running) /\ Cardinality(Running') \in Nat
        BY <1>2, <2>1, FS_Subset, FS_CardinalityType
    <2> QED
        BY <1>2, <1>8, <2>2 DEF Forgets
<1>7. Room
    BY <1>3, <1>4, <1>5, <1>6, <1>8, StepOfRequest
<1> QED
    BY <1>1, <1>7 DEF Numbered

\* Publishing adds an event, the last one, to those of its user and video.
LEMMA PublishAddsEvent ==
    ASSUME Typed, Numbered, NEW p \in Procs, Publish(p), NEW n, n = Len(payload), NEW k
    PROVE  /\ EventsOf(k) \subseteq 1 .. n
           /\ EventsOf(k)' = IF k = Target(p) THEN EventsOf(k) \cup {n + 1} ELSE EventsOf(k)
<1>1. /\ n \in Nat /\ Len(payload') = n + 1
      /\ \A i \in 1 .. n : payload'[i] = payload[i]
      /\ payload'[n + 1].u = req[p].u /\ payload'[n + 1].v = req[p].v
    BY PublishAppends
<1>2. EventsOf(k) = {i \in 1 .. n : <<payload[i].u, payload[i].v>> = k}
    BY DEF EventsOf, Key
<1>3. EventsOf(k)' = {i \in 1 .. n + 1 : <<payload'[i].u, payload'[i].v>> = k}
    BY <1>1 DEF EventsOf, Key
<1>4. 1 .. n + 1 = (1 .. n) \cup {n + 1}
    BY <1>1
<1> QED
    BY <1>1, <1>2, <1>3, <1>4 DEF Target

\* Every step keeps the stamps at or before the clock.
LEMMA StepKeepsClocked == Typed /\ Numbered /\ Clocked /\ [Next]_vars => Clocked'
<1> SUFFICES ASSUME Typed, Numbered, Clocked, [Next]_vars PROVE Clocked'
    OBVIOUS
<1>1. /\ now \in Nat /\ req = [p \in Procs |-> req[p]]
      /\ \A i \in 1 .. Len(payload) : payload[i].ts \in Nat
      /\ \A p \in Procs : req[p].pc = "stamped" => req[p].ts \in Nat
    BY EventsTyped, RunningRequest DEF Typed, TypeOK, Svc!TypeOK, Event
<1> DEFINE Kept == /\ payload' = payload
                   /\ now' \in Nat /\ now' >= now
                   /\ \A q \in Procs : req'[q].pc = "stamped" =>
                         req'[q].ts = now' \/ req'[q] = req[q]
<1>2. ASSUME NEW p \in Procs, NEW u \in Users, NEW v \in Videos, NEW op \in {"like", "unlike"},
             Passes(p, u, v, op)
      PROVE  Kept
    BY <1>1, <1>2 DEF Passes
<1>3. ASSUME NEW p \in Procs, Counts(p) PROVE Kept
    BY <1>1, <1>3 DEF Counts
<1>4. ASSUME NEW p \in Procs, StampsNow(p) PROVE Kept
    BY <1>1, <1>4 DEF StampsNow
<1>5. ASSUME NEW P \in SUBSET Procs, Forgets(P) PROVE Kept
    BY <1>1, <1>5 DEF Forgets, Svc!Idle
<1>6. ASSUME OnlyCalls \/ \E k \in Pairs : Slips(k) PROVE Kept
    BY <1>1, <1>6 DEF OnlyCalls, Slips
<1>7. ASSUME Kept PROVE Clocked'
    BY <1>1, <1>7 DEF Clocked
<1>8. ASSUME NEW p \in Procs, Publish(p) PROVE Clocked'
    <2>1. PICK n : n = Len(payload)
        OBVIOUS
    <2>2. /\ n \in Nat /\ Len(payload') = n + 1
          /\ \A i \in 1 .. n : payload'[i] = payload[i]
          /\ payload'[n + 1].ts = req[p].ts
        BY <1>8, <2>1, PublishAppends
    <2>3. /\ req[p].pc = "stamped" /\ now' = now
          /\ \A q \in Procs : req'[q].pc = "stamped" => req'[q] = req[q]
        BY <1>1, <1>8 DEF Publish, Svc!Publish, Svc!Idle
    <2>4. \A i \in 1 .. Len(payload') : i \in 1 .. n \/ i = n + 1
        BY <2>2
    <2> QED
        BY <2>1, <2>2, <2>3, <2>4 DEF Clocked
<1> HIDE DEF Kept
<1> QED
    BY <1>2, <1>3, <1>4, <1>5, <1>6, <1>7, <1>8, StepOfRequest

-----------------------------------------------------------------------------
(* The gate and the events. *)

\* What a step leaves of a pair that it does not touch.
LEMMA GateUntouched ==
    ASSUME NEW k, GateOf(k), payload' = payload, k \in liked' <=> k \in liked,
           UnderWay(k)' = UnderWay(k),
           \A q \in UnderWay(k) :
               /\ req'[q].op = req[q].op
               /\ req'[q].pc = "stamped" => req[q].pc = "stamped" /\ req'[q].ts = req[q].ts
    PROVE  GateOf(k)'
<1>1. EventsOf(k)' = EventsOf(k)
    BY DEF EventsOf, Key
<1>2. \A i : Newest(k, i)' <=> Newest(k, i)
    BY <1>1 DEF Newest
<1> QED
    BY <1>1, <1>2 DEF GateOf

\* A request that passes the gate.
LEMMA PassKeepsGate ==
    ASSUME Typed, Typed', GateFollowed, NEW p \in Procs, NEW u \in Users, NEW v \in Videos,
           NEW op \in {"like", "unlike"}, Passes(p, u, v, op), NEW k \in alone'
    PROVE  GateOf(k)'
<1>1. req = [q \in Procs |-> req[q]]
    BY DEF Typed, TypeOK, Svc!TypeOK
<1>2. /\ req'[p].pc = "gated" /\ req'[p].u = u /\ req'[p].v = v /\ req'[p].op = op
      /\ \A q \in Procs \ {p} : req'[q] = req[q]
      /\ req[p].pc = "idle" /\ payload' = payload
    BY <1>1 DEF Passes
<1>3. req'[p] # Svc!Idle
    BY <1>2 DEF Svc!Idle
<1>4. p \in UnderWay(<<u, v>>)' /\ \A q \in Procs \ {p} : q \in UnderWay(k)' <=> q \in UnderWay(k)
    BY <1>2, <1>3 DEF UnderWay
<1>5. p \notin UnderWay(k) /\ UnderWay(k) \subseteq Procs /\ UnderWay(k)' \subseteq Procs
    BY <1>2, UnderWayRuns DEF Typed, UnderWay
<1>6. CASE k = <<u, v>>
    <2>1. UnderWay(k) = {}
        BY <1>6 DEF Passes
    <2>2. UnderWay(k)' = {p}
        BY <1>4, <1>5, <1>6, <2>1
    <2>3. op = "like" <=> k \in liked'
        BY <1>6 DEF Passes
    <2> QED
        BY <1>2, <2>2, <2>3 DEF GateOf
<1>7. CASE k # <<u, v>>
    <2>1. k \in liked' <=> k \in liked
        BY <1>7 DEF Passes
    <2>2. k \in alone
        BY <1>7 DEF Passes
    <2>3. p \notin UnderWay(k)'
        BY <1>2, <1>7 DEF UnderWay
    <2>4. UnderWay(k)' = UnderWay(k)
        BY <1>4, <1>5, <2>3
    <2>5. GateOf(k) /\ \A q \in UnderWay(k) : req'[q] = req[q]
        BY <1>2, <1>5, <2>2 DEF GateFollowed
    <2> QED
        BY <1>2, <2>1, <2>4, <2>5, GateUntouched
<1> QED
    BY <1>6, <1>7

\* A request that takes its stamp: no event has a later one.
LEMMA StampKeepsGate ==
    ASSUME Typed, Clocked, GateFollowed, NEW p \in Procs, StampsNow(p), NEW k \in alone'
    PROVE  GateOf(k)'
<1>1. req = [q \in Procs |-> req[q]]
    BY DEF Typed, TypeOK, Svc!TypeOK
<1>2. /\ payload' = payload /\ liked' = liked /\ alone' = alone
      /\ req[p] # Svc!Idle /\ req'[p] # Svc!Idle /\ req'[p].ts = now
      /\ req'[p].u = req[p].u /\ req'[p].v = req[p].v /\ req'[p].op = req[p].op
      /\ \A q \in Procs \ {p} : req'[q] = req[q]
    BY <1>1 DEF StampsNow, Svc!Idle
<1>3. UnderWay(k)' = UnderWay(k) /\ UnderWay(k) \subseteq Procs
    BY <1>2 DEF UnderWay
<1>4. GateOf(k)
    BY <1>2 DEF GateFollowed
<1>5. EventsOf(k)' = EventsOf(k) /\ EventsOf(k) \subseteq 1 .. Len(payload)
    BY <1>2 DEF EventsOf, Key
<1>6. \A i : Newest(k, i)' <=> Newest(k, i)
    BY <1>5 DEF Newest
<1>7. \A i \in EventsOf(k) : payload[i].ts <= now
    BY <1>5 DEF Clocked
<1>8. ASSUME NEW q \in UnderWay(k)
      PROVE  /\ req'[q].op = "like" <=> k \in liked'
             /\ req'[q].pc = "stamped" => \A i \in EventsOf(k) : payload[i].ts <= req'[q].ts
    <2>1. CASE q = p
        BY <1>2, <1>4, <1>7, <2>1 DEF GateOf
    <2>2. CASE q # p
        BY <1>2, <1>3, <1>4, <2>2 DEF GateOf
    <2> QED
        BY <2>1, <2>2
<1> QED
    BY <1>2, <1>3, <1>4, <1>5, <1>6, <1>8 DEF GateOf

\* A request that publishes: its event is the last one, and says what the gate has.
LEMMA PublishKeepsGate ==
    ASSUME Typed, Numbered, GateFollowed, NEW p \in Procs, Publish(p), NEW k \in alone'
    PROVE  GateOf(k)'
<1>1. PICK n : n = Len(payload)
    OBVIOUS
<1>2. /\ n \in Nat
      /\ \A i \in 1 .. n : payload'[i] = payload[i]
      /\ payload'[n + 1].liked <=> req[p].op = "like"
      /\ payload'[n + 1].ts = req[p].ts
    BY <1>1, PublishAppends
<1>3. /\ EventsOf(k) \subseteq 1 .. n
      /\ EventsOf(k)' = IF k = Target(p) THEN EventsOf(k) \cup {n + 1} ELSE EventsOf(k)
    BY <1>1, PublishAddsEvent
<1>4. /\ liked' = liked /\ alone' = alone /\ req[p].pc = "stamped" /\ req'[p] = Svc!Idle
      /\ \A q \in Procs \ {p} : req'[q] = req[q]
    BY DEF Publish, Svc!Publish, Typed, TypeOK, Svc!TypeOK
<1>5. UnderWay(k)' = UnderWay(k) \ {p} /\ UnderWay(k) \subseteq Procs
    BY <1>4 DEF UnderWay
<1>6. p \in UnderWay(k) <=> k = Target(p)
    BY <1>4, UnderWayRuns DEF Typed
<1>7. GateOf(k)
    BY <1>4 DEF GateFollowed
<1>8. CASE k = Target(p)
    <2>1. UnderWay(k)' = {}
        BY <1>5, <1>6, <1>7, <1>8 DEF GateOf
    <2>2. /\ req[p].op = "like" <=> k \in liked
          /\ \A i \in EventsOf(k) : payload[i].ts <= req[p].ts
        BY <1>4, <1>6, <1>7, <1>8 DEF GateOf
    <2>3. n + 1 \in EventsOf(k)' /\ EventsOf(k)' \subseteq 1 .. n + 1
        BY <1>2, <1>3, <1>8
    <2>4. ASSUME NEW i, Newest(k, i)' PROVE i = n + 1
        <3>1. i \in EventsOf(k)' /\ n + 1 <= i
            BY <2>3, <2>4 DEF Newest
        <3> QED
            BY <1>2, <2>3, <3>1
    <2>5. req[p].ts \in Nat
        BY <1>4, RunningRequest DEF Typed
    <2>6. ASSUME NEW j \in EventsOf(k)' PROVE payload'[j].ts <= payload'[n + 1].ts
        <3>1. CASE j = n + 1
            BY <1>2, <2>5, <3>1
        <3>2. CASE j \in EventsOf(k)
            BY <1>2, <1>3, <2>2, <3>2
        <3> QED
            BY <1>3, <1>8, <3>1, <3>2
    <2> QED
        BY <1>2, <1>4, <2>1, <2>2, <2>3, <2>4, <2>6 DEF GateOf
<1>9. CASE k # Target(p)
    <2>1. EventsOf(k)' = EventsOf(k) /\ \A i \in EventsOf(k) : payload'[i] = payload[i]
        BY <1>2, <1>3, <1>9
    <2>2. \A i : Newest(k, i)' <=> Newest(k, i)
        BY <2>1 DEF Newest
    <2>3. UnderWay(k)' = UnderWay(k) /\ \A q \in UnderWay(k) : req'[q] = req[q]
        BY <1>4, <1>5, <1>6, <1>9
    <2> QED
        BY <1>4, <1>7, <2>1, <2>2, <2>3 DEF GateOf
<1> QED
    BY <1>8, <1>9

\* Every step keeps the gate of a pair last changed alone the same as its last event,
\* but for the request under way.
LEMMA StepKeepsGate ==
    Typed /\ Typed' /\ Numbered /\ Clocked /\ GateFollowed /\ [Next]_vars => GateFollowed'
<1> SUFFICES ASSUME Typed, Typed', Numbered, Clocked, GateFollowed, [Next]_vars, NEW k \in alone'
             PROVE  GateOf(k)'
    BY DEF GateFollowed
<1>1. req = [q \in Procs |-> req[q]]
    BY DEF Typed, TypeOK, Svc!TypeOK
<1>2. ASSUME NEW p \in Procs, Counts(p) PROVE GateOf(k)'
    <2>1. /\ payload' = payload /\ liked' = liked /\ alone' = alone
          /\ req[p] # Svc!Idle /\ req'[p] # Svc!Idle /\ req'[p].pc # "stamped"
          /\ req'[p].u = req[p].u /\ req'[p].v = req[p].v /\ req'[p].op = req[p].op
          /\ \A q \in Procs \ {p} : req'[q] = req[q]
        BY <1>1, <1>2 DEF Counts, Svc!Idle
    <2>2. UnderWay(k)' = UnderWay(k) /\ UnderWay(k) \subseteq Procs
        BY <2>1 DEF UnderWay
    <2>3. GateOf(k)
        BY <2>1 DEF GateFollowed
    <2>4. \A q \in UnderWay(k) :
              /\ req'[q].op = req[q].op
              /\ req'[q].pc = "stamped" => req[q].pc = "stamped" /\ req'[q].ts = req[q].ts
        BY <2>1, <2>2
    <2> QED
        BY <2>1, <2>2, <2>3, <2>4, GateUntouched
<1>3. ASSUME NEW P \in SUBSET Procs, Forgets(P) PROVE GateOf(k)'
    <2>1. /\ payload' = payload /\ liked' = liked /\ k \in alone /\ UnderWay(k) \cap P = {}
          /\ \A q \in Procs : req'[q] = IF q \in P THEN Svc!Idle ELSE req[q]
        BY <1>3 DEF Forgets
    <2>2. UnderWay(k)' = UnderWay(k) /\ \A q \in UnderWay(k) : req'[q] = req[q]
        BY <2>1 DEF UnderWay
    <2> QED
        BY <2>1, <2>2, GateUntouched DEF GateFollowed
<1>4. ASSUME OnlyCalls \/ \E l \in Pairs : Slips(l) PROVE GateOf(k)'
    <2>1. /\ payload' = payload /\ req' = req /\ k \in alone /\ (k \in liked' <=> k \in liked)
        BY <1>4 DEF OnlyCalls, Slips
    <2>2. UnderWay(k)' = UnderWay(k)
        BY <2>1 DEF UnderWay
    <2> QED
        BY <2>1, <2>2, GateUntouched DEF GateFollowed
<1> QED
    BY <1>2, <1>3, <1>4, PassKeepsGate, StampKeepsGate, PublishKeepsGate, StepOfRequest

-----------------------------------------------------------------------------
(* The rows and the events. *)

\* Upserting an event keeps rows those of events and raises their timestamps.
LEMMA UpsertRaises ==
    ASSUME Typed, \A k \in Pairs : RowOf(k), payload' = payload,
           NEW m \in 1 .. Len(payload), UpsertLike(payload[m])
    PROVE  /\ \A k \in Pairs : RowOf(k)'
           /\ \A i \in 1 .. Len(payload) : Stored(i) => Stored(i)'
           /\ Stored(m)'
<1> DEFINE e == payload[m]
<1>1. /\ e.liked \in BOOLEAN /\ e.ts \in Nat /\ Key(m) \in Pairs /\ Key(m) = <<e.u, e.v>>
      /\ record \in [Pairs -> [liked : BOOLEAN, ts : Int]]
      /\ \A i \in 1 .. Len(payload) : payload[i].ts \in Nat /\ Key(i) \in Pairs
    BY EventsTyped DEF Typed, TypeOK, RepoTypeOK, Event, Key
<1>2. /\ record'[Key(m)] = Upserted(record[Key(m)], e)
      /\ \A k \in Pairs : k # Key(m) => record'[k] = record[k]
    BY <1>1 DEF UpsertLike
<1>3. ASSUME NEW k \in Pairs PROVE RowOf(k)'
    <2>1. EventsOf(k)' = EventsOf(k)
        BY DEF EventsOf, Key
    <2>2. CASE record'[k] = record[k]
        BY <2>1, <2>2 DEF RowOf
    <2>3. CASE record'[k] # record[k]
        <3>1. k = Key(m) /\ record'[k] = [liked |-> e.liked, ts |-> e.ts]
            BY <1>2, <2>3 DEF Upserted
        <3>2. m \in EventsOf(k)
            BY <3>1 DEF EventsOf
        <3> QED
            BY <2>1, <3>1, <3>2 DEF RowOf
    <2> QED
        BY <2>2, <2>3
<1>4. record[Key(m)] \in [liked : BOOLEAN, ts : Int]
    BY <1>1
<1>5. Upserted(record[Key(m)], e).ts >= e.ts
    BY <1>1, <1>4 DEF Upserted
<1>6. Upserted(record[Key(m)], e).ts >= record[Key(m)].ts /\ Upserted(record[Key(m)], e).ts \in Int
    <2>1. CASE record[Key(m)] = NoRow
        BY <1>1, <2>1 DEF Upserted, NoRow
    <2>2. CASE record[Key(m)] # NoRow
        BY <1>1, <1>4, <2>2 DEF Upserted
    <2> QED
        BY <2>1, <2>2
<1> HIDE DEF e
<1>7. ASSUME NEW i \in 1 .. Len(payload), Stored(i) PROVE record'[Key(i)].ts >= payload[i].ts
    <2>1. payload[i].ts \in Nat /\ Key(i) \in Pairs /\ record[Key(i)].ts \in Int
        BY <1>1
    <2>2. CASE Key(i) = Key(m)
        BY <1>2, <1>6, <1>7, <2>1, <2>2 DEF Stored
    <2>3. CASE Key(i) # Key(m)
        BY <1>2, <1>7, <2>1, <2>3 DEF Stored
    <2> QED
        BY <2>2, <2>3
<1>8. \A i : Key(i)' = Key(i)
    BY DEF Key
<1>9. Stored(m)'
    BY <1>2, <1>5, <1>8 DEF Stored, e
<1> QED
    BY <1>3, <1>7, <1>8, <1>9 DEF Stored

\* A consumer whose slice does not move stays at the same entry.
LEMMA SameEntry ==
    ASSUME Typed, Numbered, [Next]_vars, NEW c \in Consumers, pc[c] = "handling", slice'[c] = slice[c]
    PROVE  BusPart!Current(c)' = BusPart!Current(c)
<1>1. slice[c].next \in 1 .. Len(log)
    BY PartsTyped, PartsAssumptions, BusPart!CurrentEntry DEF Typed, BusPart!AtWork
<1>2. \A i \in 1 .. Len(log) : log'[i] = log[i]
    BY PartsTyped, PartsAssumptions, StepOfBus, BusPart!LogGrows
       DEF Typed, busVars, BusPart!vars, BusPart!Growing
<1> QED
    BY <1>1, <1>2 DEF BusPart!Current

\* Handlers beside the one of c go on where they were.
LEMMA OthersKeepStage ==
    ASSUME Typed, Numbered, RowsStored, [Next]_vars,
           \A i \in 1 .. Len(payload) : Stored(i) => Stored(i)',
           NEW c \in Consumers, stage[c] = "apply", pc'[c] = "handling", slice'[c] = slice[c]
    PROVE  pc'[c] = "handling" /\ Stored(BusPart!Current(c).msg)'
<1>1. pc[c] = "handling" /\ Stored(BusPart!Current(c).msg)
    BY DEF RowsStored
<1>2. PICK m \in 1 .. Len(payload) : BusPart!Current(c).msg = m
    BY <1>1, HandledEvent
<1>3. BusPart!Current(c).msg' = m
    BY <1>1, <1>2, SameEntry
<1>4. Stored(m)'
    BY <1>1, <1>2
<1> QED
    BY <1>3, <1>4 DEF Stored, Key

\* A step that leaves the tables alone keeps the rows.
LEMMA TablesAlone ==
    ASSUME Typed, Numbered, RowsStored, [Next]_vars, record' = record, payload' = payload, done' = done,
           \A c \in Consumers :
               stage'[c] = "apply" => stage[c] = "apply" /\ pc'[c] = "handling" /\ slice'[c] = slice[c]
    PROVE  RowsStored'
<1>1. \A k \in Pairs : RowOf(k)'
    BY DEF RowsStored, RowOf, EventsOf, Key
<1>2. \A i : Stored(i) => Stored(i)'
    BY DEF Stored, Key
<1>3. \A i \in done' : Stored(i)'
    BY <1>2 DEF RowsStored
<1>4. \A c \in Consumers : stage'[c] = "apply" => pc'[c] = "handling" /\ Stored(BusPart!Current(c).msg)'
    BY <1>2, OthersKeepStage
<1> QED
    BY <1>1, <1>3, <1>4 DEF RowsStored

\* Publishing adds an event that is stored nowhere yet, and takes no row's event away.
LEMMA PublishKeepsRows ==
    ASSUME Typed, Numbered, RowsStored, [Next]_vars, NEW p \in Procs, Publish(p)
    PROVE  RowsStored'
<1>1. PICK n : n = Len(payload)
    OBVIOUS
<1>2. n \in Nat /\ \A i \in 1 .. n : payload'[i] = payload[i]
    BY <1>1, PublishAppends
<1>3. UNCHANGED <<record, stage, pc, slice, done>>
    BY DEF Publish, Bus!Publish, repoVars
<1>4. ASSUME NEW k \in Pairs PROVE RowOf(k)'
    <2>1. /\ EventsOf(k) \subseteq 1 .. n /\ EventsOf(k) \subseteq EventsOf(k)'
        BY <1>1, PublishAddsEvent
    <2>2. RowOf(k)
        BY DEF RowsStored
    <2> QED
        BY <1>2, <1>3, <2>1, <2>2 DEF RowOf
<1>5. \A i \in 1 .. Len(payload) : Stored(i) => Stored(i)'
    BY <1>1, <1>2, <1>3 DEF Stored, Key
<1>6. done \subseteq 1 .. Len(payload)
    BY DEF Numbered, BusPart!FromSenders
<1>7. \A i \in done' : Stored(i)'
    BY <1>3, <1>5, <1>6 DEF RowsStored
<1>8. \A c \in Consumers : stage'[c] = "apply" => pc'[c] = "handling" /\ Stored(BusPart!Current(c).msg)'
    BY <1>3, <1>5, OthersKeepStage DEF RowsStored
<1> QED
    BY <1>4, <1>7, <1>8 DEF RowsStored

\* The handler of c makes a step: it upserts its event, has nothing left to do, or
\* gives up, the statement it was at executed or not.
LEMMA HandlerKeepsRows ==
    ASSUME Typed, Numbered, RowsStored, [Next]_vars, NEW c \in Consumers,
           Upsert(c) \/ Apply(c) \/ StatementFails(c)
    PROVE  RowsStored'
<1>1. pc[c] = "handling"
    BY DEF Upsert, Apply, StatementFails, Bus!HandlerOK, Bus!HandlerFails
<1>2. PICK m \in 1 .. Len(payload) :
          BusPart!Current(c).msg = m /\ Bus!Current(c).msg = m /\ Handled(c) = payload[m]
    BY <1>1, HandledEvent
<1>3. /\ payload' = payload /\ slice' = slice
      /\ record' = record \/ UpsertLike(payload[m])
      /\ \A d \in Consumers \ {c} : pc'[d] = pc[d] /\ stage'[d] = stage[d]
    BY <1>2 DEF Upsert, Apply, StatementFails, Bus!HandlerOK, Bus!HandlerFails, busVars, repoVars,
                Typed, TypeOK, Bus!TypeOK
<1>4. \A k \in Pairs : RowOf(k)
    BY DEF RowsStored
<1>5. /\ \A k \in Pairs : RowOf(k)'
      /\ \A i \in 1 .. Len(payload) : Stored(i) => Stored(i)'
    <2>1. CASE record' = record
        BY <1>3, <1>4, <2>1 DEF RowOf, EventsOf, Key, Stored
    <2>2. CASE UpsertLike(payload[m])
        BY <1>3, <1>4, <2>2, UpsertRaises
    <2> QED
        BY <1>3, <2>1, <2>2
<1>6. done \subseteq 1 .. Len(payload) /\ \A i \in done : Stored(i)'
    BY <1>5 DEF Numbered, BusPart!FromSenders, RowsStored
<1>7. \A d \in Consumers \ {c} :
          stage'[d] = "apply" => pc'[d] = "handling" /\ Stored(BusPart!Current(d).msg)'
    BY <1>3, <1>5, OthersKeepStage DEF RowsStored
<1>8. CASE Upsert(c)
    <2>1. done' = done /\ pc' = pc /\ UpsertLike(payload[m])
        BY <1>2, <1>8 DEF Upsert, busVars
    <2>2. Stored(m)'
        BY <1>3, <1>4, <2>1, UpsertRaises
    <2>3. BusPart!Current(c).msg' = m
        BY <1>1, <1>2, <1>3, SameEntry
    <2>4. Stored(BusPart!Current(c).msg)'
        BY <2>2, <2>3 DEF Stored, Key
    <2> QED
        BY <1>1, <1>5, <1>6, <1>7, <2>1, <2>4 DEF RowsStored
<1>9. CASE Apply(c)
    <2>1. stage'[c] = "upsert" /\ done' = done \cup {m} /\ stage[c] = "apply"
        BY <1>2, <1>9 DEF Apply, Bus!HandlerOK, Typed, TypeOK
    <2>2. Stored(m)'
        BY <1>2, <1>5, <2>1 DEF RowsStored
    <2>3. \A i \in done' : Stored(i)'
        BY <1>6, <2>1, <2>2
    <2> QED
        BY <1>5, <1>7, <2>1, <2>3 DEF RowsStored
<1>10. CASE StatementFails(c)
    <2>1. stage'[c] = "upsert" /\ done' = done
        BY <1>10 DEF StatementFails, Bus!HandlerFails, Bus!historyVars, Typed, TypeOK
    <2> QED
        BY <1>5, <1>6, <1>7, <2>1 DEF RowsStored
<1> QED
    BY <1>8, <1>9, <1>10

\* Every step keeps the rows those of events, and none behind an accepted one.
LEMMA StepKeepsRows == Typed /\ Numbered /\ RowsStored /\ [Next]_vars => RowsStored'
<1> SUFFICES ASSUME Typed, Numbered, RowsStored, [Next]_vars PROVE RowsStored'
    OBVIOUS
<1>1. /\ stage \in [Consumers -> {"upsert", "apply"}]
      /\ pc = [c \in Consumers |-> pc[c]] /\ slice = [c \in Consumers |-> slice[c]]
      /\ \A c \in Consumers : stage[c] = "apply" => pc[c] = "handling"
    BY DEF Typed, TypeOK, Bus!TypeOK, RowsStored
<1>2. ASSUME UNCHANGED <<busVars, repoVars, payload, stage, dbFailures>> PROVE RowsStored'
    <2>1. UNCHANGED <<record, payload, done, stage, pc, slice>>
        BY <1>2 DEF busVars, repoVars
    <2> QED
        BY <1>1, <2>1, TablesAlone
<1>3. ASSUME NEW c \in Consumers, BusStep(c) PROVE RowsStored'
    <2>1. UNCHANGED <<record, payload, stage, done>>
        BY <1>3 DEF BusStep, repoVars, Bus!historyVars,
              Bus!XReadGroup, Bus!ReadReplyLost, Bus!CallHandler, Bus!DeadLetter, Bus!Requeue, Bus!XAck,
              Bus!Stop, Bus!RunReturns, Bus!Restart
    <2>2. \A d \in Consumers : pc[d] = "handling" => pc'[d] = "handling" /\ slice'[d] = slice[d]
        BY <1>1, <1>3 DEF BusStep,
              Bus!XReadGroup, Bus!ReadReplyLost, Bus!CallHandler, Bus!DeadLetter, Bus!Requeue, Bus!XAck,
              Bus!Stop, Bus!RunReturns, Bus!Restart, Bus!NextEntry
    <2> QED
        BY <1>1, <2>1, <2>2, TablesAlone
<1>4. ASSUME NEW c \in Consumers, Crash(c) PROVE RowsStored'
    <2>1. UNCHANGED <<record, payload, done>>
        BY <1>4 DEF Crash, repoVars, Bus!Crash, Bus!historyVars
    <2>2. /\ stage'[c] = "upsert"
          /\ \A d \in Consumers \ {c} : stage'[d] = stage[d] /\ pc'[d] = pc[d] /\ slice'[d] = slice[d]
        BY <1>1, <1>4 DEF Crash, Bus!Crash
    <2> QED
        BY <1>1, <2>1, <2>2, TablesAlone
<1> QED
    BY <1>2, <1>3, <1>4, RequestsBesideBus, PublishKeepsRows, HandlerKeepsRows DEF Next, vars

-----------------------------------------------------------------------------
\* The invariant holds at the start, and every step keeps it.
LEMMA InvStarts == Init => Inv
<1> SUFFICES ASSUME Init PROVE Inv
    OBVIOUS
<1>1. SvcPart!Init /\ BusPart!Init
    BY DEF Init, Svc!Init, SvcPart!Init, Svc!Zero, SvcPart!Zero, Svc!Idle, SvcPart!Idle,
           Bus!Init, BusPart!Init, Bus!NoSlice, BusPart!NoSlice
<1>2. SvcPart!TypeOK /\ BusPart!TypeOK /\ BusPart!SlicesDelivered
    BY <1>1, PartsAssumptions, SvcPart!StartIsTyped, BusPart!StartIsTyped
<1>3. Typed
    <2>1. Svc!TypeOK /\ Bus!TypeOK
        BY <1>2 DEF Svc!TypeOK, SvcPart!TypeOK, Svc!Idle, SvcPart!Idle, Svc!Active, SvcPart!Active,
              Svc!Stamped, SvcPart!Stamped, Svc!Ops, SvcPart!Ops,
              Bus!TypeOK, BusPart!TypeOK, Bus!Entry, BusPart!Entry, Bus!PCs, BusPart!PCs
    <2> QED
        BY <1>2, <2>1 DEF Init, RepoInit, Typed, TypeOK, RepoTypeOK, NoRow
<1>4. /\ payload = <<>> /\ Len(payload) = 0 /\ sent = {} /\ done = {} /\ log = <<>> /\ ops = 0
      /\ liked = {} /\ now = 0 /\ \A p \in Procs : req[p].pc = "idle"
      /\ \A c \in Consumers : stage[c] = "upsert"
      /\ \A k \in Pairs : record[k] = NoRow /\ UnderWay(k) = {}
      /\ alone = Pairs
    BY DEF UnderWay, Init, Svc!Init, Svc!Idle, Bus!Init, RepoInit
<1>5. Running = {} /\ \A k : EventsOf(k) = {}
    BY <1>4 DEF Running, EventsOf
<1>6. Numbered
    <2>1. Cardinality(Running) = 0 /\ MaxOps \in Nat
        BY <1>5, FS_EmptySet, PipelineAssumption
    <2>2. Len(log) = 0
        BY <1>4
    <2> QED
        BY <1>4, <2>1, <2>2 DEF Numbered, BusPart!FromSenders
<1>7. Clocked
    BY <1>4, <1>5 DEF Clocked
<1>8. GateFollowed
    BY <1>4, <1>5 DEF GateFollowed, GateOf
<1>9. RowsStored
    BY <1>4 DEF RowsStored, RowOf
<1> QED
    BY <1>3, <1>6, <1>7, <1>8, <1>9 DEF Inv

\* The invariant makes row and gate agree, if the stamp of the last event is its own.
LEMMA RowsAgree == Inv => RecordFollowsGate
<1> SUFFICES ASSUME Inv, NEW k \in alone, UnderWay(k) = {}
             PROVE  /\ EventsOf(k) = {} => (record[k].liked <=> k \in liked)
                    /\ \A i \in EventsOf(k) :
                          i \in done /\ (\A j \in EventsOf(k) \ {i} : j < i /\ payload[j].ts # payload[i].ts)
                             => (record[k].liked <=> k \in liked)
    BY DEF RecordFollowsGate
<1>1. /\ k \in Pairs /\ RowOf(k) /\ GateOf(k)
      /\ \A i \in EventsOf(k) : i \in 1 .. Len(payload) /\ Key(i) = k /\ payload[i].ts \in Nat
    BY EventsTyped DEF Inv, Typed, TypeOK, RowsStored, GateFollowed, EventsOf, Event
<1>2. CASE EventsOf(k) = {}
    BY <1>1, <1>2 DEF RowOf, GateOf, NoRow
<1>3. ASSUME NEW i \in EventsOf(k), i \in done,
             \A j \in EventsOf(k) \ {i} : j < i /\ payload[j].ts # payload[i].ts
      PROVE  record[k].liked <=> k \in liked
    <2>1. Newest(k, i)
        BY <1>1, <1>3 DEF Newest
    <2>2. /\ payload[i].liked <=> k \in liked
          /\ \A j \in EventsOf(k) : payload[j].ts <= payload[i].ts
        BY <1>1, <2>1 DEF GateOf
    <2>3. record[k].ts >= payload[i].ts /\ payload[i].ts \in Nat
        BY <1>1, <1>3 DEF Inv, RowsStored, Stored
    <2>4. PICK j \in EventsOf(k) : record[k] = [liked |-> payload[j].liked, ts |-> payload[j].ts]
        BY <1>1, <2>3 DEF RowOf, NoRow
    <2>5. payload[j].ts = payload[i].ts
        BY <1>1, <2>2, <2>3, <2>4
    <2>6. j = i
        BY <1>3, <2>5
    <2> QED
        BY <2>2, <2>4, <2>6
<1> QED
    BY <1>2, <1>3

\* The parts of the whole path stay well typed (service.go:62-113, mq.go:83-171,
\* mysql_repo.go:18-67), whatever requests overlap and whatever fails.
THEOREM TypeCorrect == Spec => []TypeOK
<1>1. Init => Typed /\ Numbered
    BY InvStarts DEF Inv
<1>2. Typed /\ Numbered /\ [Next]_vars => Typed' /\ Numbered'
    BY StepIsTyped, StepKeepsNumbered
<1>3. Typed => TypeOK
    BY DEF Typed
<1> QED
    BY <1>1, <1>2, <1>3, PTL DEF Spec

\* The row in MySQL says what the gate in Redis does once the handler has accepted the
\* last event of the user and the video, whatever retries, crashes, failing statements
\* and lost replies make of the order of the events (service.go:62-113, mq.go:83-171,
\* mysql_repo.go:18-34): for every pair whose last change of the gate overlapped no
\* other request of theirs and was published, unless another of its events carries the
\* same millisecond.  Requests may overlap at other times, and events be lost.
THEOREM RecordFollows == Spec => []RecordFollowsGate
<1>1. Inv /\ [Next]_vars => Inv'
    <2>1. Inv /\ [Next]_vars => Typed'
        BY StepIsTyped DEF Inv
    <2> QED
        BY <2>1, StepKeepsNumbered, StepKeepsClocked, StepKeepsGate, StepKeepsRows DEF Inv
<1> QED
    BY <1>1, InvStarts, RowsAgree, PTL DEF Spec
=============================================================================
