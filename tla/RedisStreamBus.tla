--------------------------- MODULE RedisStreamBus ---------------------------
(***************************************************************************)
(* RedisStreamBus of pkg/mq/mq.go: one topic, its Redis stream and its     *)
(* consumer group "shortvideo", read by several processes (cmd/server and  *)
(* cmd/likeworker, each with its own consumer name).                       *)
(*                                                                         *)
(* The stream is an append-only log; the group's last-delivered id is the  *)
(* index last; an entry that was delivered and not acknowledged is in the  *)
(* group's pending entries list, pel.  Consumers only ever read ">", the   *)
(* entries after last, so nothing takes an entry out of pel except the     *)
(* XACK of the process that read it.  A restarted process has a new        *)
(* consumer name (its start time is part of it), hence it starts with      *)
(* nothing to do.                                                          *)
(*                                                                         *)
(* Topics are independent: Run starts one runTopic goroutine for each.     *)
(* It starts them for subscribed topics only and no handler is ever        *)
(* removed, so the h == nil branch of handleMessage is never taken.        *)
(***************************************************************************)
EXTENDS Integers, Sequences

CONSTANTS
    Msgs,         \* the payloads that may be published, each at most once
    Consumers,    \* the processes that run the bus
    MaxRetry,     \* maxRetry
    BatchSize,    \* Count of XREADGROUP (10)
    XAddCopies,   \* entries an XADD may leave behind: 1; 0 when it fails; 2 when the client
                  \* library sends it again after its reply was lost
    Faults,       \* the other faults, a subset of FaultKinds
    MaxStops      \* bound: stops, crashes and lost replies

FaultKinds == {"stop",     \* the process gets SIGTERM: its ctx is cancelled
               "crash",    \* the process dies
               "read",     \* the reply to an XREADGROUP is lost
               "ack"}      \* an XACK fails

ASSUME BusAssumption ==
    /\ MaxRetry \in Nat \ {0} /\ BatchSize \in Nat \ {0}
    /\ XAddCopies \subseteq {0, 1, 2} /\ XAddCopies # {}
    /\ Faults \subseteq FaultKinds /\ MaxStops \in Nat

VARIABLES
    log,        \* the entries of the stream, oldest first
    last,       \* the group's last-delivered id
    pel,        \* indices of the pending entries
    slice,      \* per consumer: the entries next..hi of its reply still to be handled
    pc,         \* per consumer: where runTopic and handleMessage are
    cancelled,  \* consumers whose ctx is done
    dlq,        \* messages in {topic}:dlq
    sent,       \* messages that Publish has left in the stream
    done,       \* messages the handler has accepted
    calls,      \* how often the handler was called with each message
    dropped,    \* history: failed messages whose XADD left nothing, in a process that
                \* goes on to acknowledge them
    stops

streamVars == <<log, last, pel, dlq>>
historyVars == <<sent, done, calls, dropped>>
vars == <<log, last, pel, slice, pc, cancelled, dlq, sent, done, calls,
          dropped, stops>>

Entry == [msg : Msgs, attempts : Nat]
PCs == {"reading", "picked", "handling", "failed", "ack", "down"}

TypeOK ==
    /\ log \in Seq(Entry)
    /\ last \in 0 .. Len(log)
    /\ pel \subseteq 1 .. last
    /\ slice \in [Consumers -> [next : Nat, hi : Nat]]
    /\ pc \in [Consumers -> PCs]
    /\ cancelled \subseteq Consumers
    /\ dlq \subseteq Msgs /\ sent \subseteq Msgs /\ done \subseteq Msgs /\ dropped \subseteq Msgs
    /\ calls \in [Msgs -> Nat]
    /\ stops \in Nat

NoSlice == [next |-> 1, hi |-> 0]

Init ==
    /\ log = <<>> /\ last = 0 /\ pel = {}
    /\ slice = [c \in Consumers |-> NoSlice]
    /\ pc = [c \in Consumers |-> "reading"]
    /\ cancelled = {}
    /\ dlq = {} /\ sent = {} /\ done = {} /\ dropped = {}
    /\ calls = [m \in Msgs |-> 0]
    /\ stops = 0

\* The entry consumer c is at in its loop over the reply.
Current(c) == log[slice[c].next]

\* The stream after an XADD that left n copies of e.
XAdd(e, n) == log \o [i \in 1 .. n |-> e]

\* Copies an XADD of consumer c may leave: none once its ctx is done.
Copies(c) == IF c \in cancelled THEN {0} ELSE XAddCopies

\* The messages lost for good once c, whose XADD left n copies, goes on to XACK.  (A
\* process whose ctx is done cannot acknowledge either: its message stays pending.)
Dropped(c, n) == IF n = 0 /\ c \notin cancelled THEN dropped \cup {Current(c).msg} ELSE dropped

\* On to the next entry of the reply; after the last one runTopic looks at ctx and
\* reads again.
NextEntry(c) ==
    LET s == slice[c]
    IN /\ slice' = [slice EXCEPT ![c] = IF s.next = s.hi THEN NoSlice ELSE [s EXCEPT !.next = @ + 1]]
       /\ pc' = [pc EXCEPT ![c] = IF s.next = s.hi THEN "reading" ELSE "picked"]

-----------------------------------------------------------------------------
\* Publish: XADD has left the message, with attempts 0.  (When XADD fails and leaves
\* nothing, nothing changes here; the caller gets the error.)
Publish(m) ==
    /\ m \notin sent
    /\ sent' = sent \cup {m}
    /\ \E n \in XAddCopies \ {0} : log' = XAdd([msg |-> m, attempts |-> 0], n)
    /\ UNCHANGED <<last, pel, slice, pc, cancelled, dlq, done, calls, dropped, stops>>

\* Mutant of XReadGroup: the group's last-delivered id runs past the stream.
XReadGroupPastEnd(c) ==
    /\ pc[c] = "reading" /\ c \notin cancelled
    /\ last < Len(log)
    /\ slice' = [slice EXCEPT ![c] = [next |-> last + 1, hi |-> Len(log)]]
    /\ pel' = pel \cup (last + 1 .. Len(log))
    /\ last' = last + BatchSize
    /\ pc' = [pc EXCEPT ![c] = "picked"]
    /\ UNCHANGED <<log, cancelled, dlq, historyVars, stops>>

\* XREADGROUP ">" returns up to BatchSize entries, which become pending.  (It
\* blocks, and runTopic loops, while there are none.)
XReadGroup(c) ==
    /\ pc[c] = "reading" /\ c \notin cancelled
    /\ last < Len(log)
    /\ LET hi == IF last + BatchSize < Len(log) THEN last + BatchSize ELSE Len(log)
       IN /\ slice' = [slice EXCEPT ![c] = [next |-> last + 1, hi |-> hi]]
          /\ pel' = pel \cup (last + 1 .. hi)
          /\ last' = hi
    /\ pc' = [pc EXCEPT ![c] = "picked"]
    /\ UNCHANGED <<log, cancelled, dlq, historyVars, stops>>

\* The group has moved on but the reply does not arrive: runTopic sleeps and
\* reads again, from the next entry.
ReadReplyLost(c) ==
    /\ "read" \in Faults /\ stops < MaxStops
    /\ pc[c] = "reading" /\ c \notin cancelled
    /\ last < Len(log)
    /\ LET hi == IF last + BatchSize < Len(log) THEN last + BatchSize ELSE Len(log)
       IN pel' = pel \cup (last + 1 .. hi) /\ last' = hi
    /\ stops' = stops + 1
    /\ UNCHANGED <<log, slice, pc, cancelled, dlq, historyVars>>

\* handleMessage calls the handler ...
CallHandler(c) ==
    /\ pc[c] = "picked"
    /\ calls' = [calls EXCEPT ![Current(c).msg] = @ + 1]
    /\ pc' = [pc EXCEPT ![c] = "handling"]
    /\ UNCHANGED <<streamVars, slice, cancelled, sent, done, dropped, stops>>

\* ... which returns nil ...
HandlerOK(c) ==
    /\ pc[c] = "handling"
    /\ done' = done \cup {Current(c).msg}
    /\ pc' = [pc EXCEPT ![c] = "ack"]
    /\ UNCHANGED <<streamVars, slice, cancelled, sent, calls, dropped, stops>>

\* ... or an error.
HandlerFails(c) ==
    /\ pc[c] = "handling"
    /\ pc' = [pc EXCEPT ![c] = "failed"]
    /\ UNCHANGED <<streamVars, slice, cancelled, historyVars, stops>>

\* attempts + 1 >= maxRetry: XADD to the dead letter stream; its error is
\* dropped and XACK follows either way.
DeadLetter(c) ==
    /\ pc[c] = "failed" /\ Current(c).attempts + 1 >= MaxRetry
    /\ \E n \in Copies(c) :
          /\ dlq' = IF n = 0 THEN dlq ELSE dlq \cup {Current(c).msg}
          /\ dropped' = Dropped(c, n)
    /\ pc' = [pc EXCEPT ![c] = "ack"]
    /\ UNCHANGED <<log, last, pel, slice, cancelled, sent, done, calls, stops>>

\* Mutant of Requeue: the attempt is not counted.
RequeueUncounted(c) ==
    /\ pc[c] = "failed" /\ Current(c).attempts + 1 < MaxRetry
    /\ \E n \in Copies(c) : log' = XAdd(Current(c), n) /\ dropped' = Dropped(c, n)
    /\ pc' = [pc EXCEPT ![c] = "ack"]
    /\ UNCHANGED <<last, pel, slice, cancelled, dlq, sent, done, calls, stops>>

\* Mutant of Requeue: a failed message is neither added again nor acknowledged but
\* left pending, as if the group delivered it once more.
RequeueLeftPending(c) ==
    /\ pc[c] = "failed" /\ Current(c).attempts + 1 < MaxRetry
    /\ NextEntry(c)
    /\ UNCHANGED <<streamVars, cancelled, historyVars, stops>>

\* Otherwise the message is added again, at the tail; its error is dropped and
\* XACK follows either way.
Requeue(c) ==
    /\ pc[c] = "failed" /\ Current(c).attempts + 1 < MaxRetry
    /\ \E n \in Copies(c) :
          /\ log' = XAdd([msg |-> Current(c).msg, attempts |-> Current(c).attempts + 1], n)
          /\ dropped' = Dropped(c, n)
    /\ pc' = [pc EXCEPT ![c] = "ack"]
    /\ UNCHANGED <<last, pel, slice, cancelled, dlq, sent, done, calls, stops>>

\* Mutant of XAck: the entries up to the end of the reply are acknowledged at once.
XAckWholeReply(c) ==
    /\ pc[c] = "ack"
    /\ \/ c \notin cancelled /\ pel' = pel \ (slice[c].next .. slice[c].hi)
       \/ (c \in cancelled \/ "ack" \in Faults) /\ UNCHANGED pel
    /\ NextEntry(c)
    /\ UNCHANGED <<log, last, cancelled, dlq, historyVars, stops>>

\* XACK, whose error is dropped, and on to the next entry.
XAck(c) ==
    /\ pc[c] = "ack"
    /\ \/ c \notin cancelled /\ pel' = pel \ {slice[c].next}
       \/ (c \in cancelled \/ "ack" \in Faults) /\ UNCHANGED pel
    /\ NextEntry(c)
    /\ UNCHANGED <<log, last, cancelled, dlq, historyVars, stops>>

\* SIGTERM cancels ctx: calls to Redis fail from here on, but the loop over the
\* reply goes on to its end.
Stop(c) ==
    /\ "stop" \in Faults /\ stops < MaxStops
    /\ pc[c] # "down" /\ c \notin cancelled
    /\ cancelled' = cancelled \cup {c}
    /\ stops' = stops + 1
    /\ UNCHANGED <<streamVars, slice, pc, historyVars>>

\* runTopic finds ctx done and returns.
RunReturns(c) ==
    /\ pc[c] = "reading" /\ c \in cancelled
    /\ pc' = [pc EXCEPT ![c] = "down"]
    /\ UNCHANGED <<streamVars, slice, cancelled, historyVars, stops>>

Crash(c) ==
    /\ "crash" \in Faults /\ stops < MaxStops
    /\ pc[c] # "down"
    /\ pc' = [pc EXCEPT ![c] = "down"]
    /\ slice' = [slice EXCEPT ![c] = NoSlice]
    /\ stops' = stops + 1
    /\ UNCHANGED <<streamVars, cancelled, historyVars>>

\* The process is started again: XGroupCreateMkStream fails, the group being
\* there, and NewRedisStreamBus makes up a new consumer name.
Restart(c) ==
    /\ pc[c] = "down"
    /\ pc' = [pc EXCEPT ![c] = "reading"]
    /\ cancelled' = cancelled \ {c}
    /\ UNCHANGED <<streamVars, slice, historyVars, stops>>

HandleMessage(c) ==
    \/ CallHandler(c) \/ HandlerOK(c) \/ HandlerFails(c)
    \/ DeadLetter(c) \/ Requeue(c) \/ XAck(c)

RunTopic(c) == XReadGroup(c) \/ HandleMessage(c) \/ RunReturns(c) \/ Restart(c)

Next ==
    \/ \E m \in Msgs : Publish(m)
    \/ \E c \in Consumers : RunTopic(c) \/ ReadReplyLost(c) \/ Stop(c) \/ Crash(c)

\* A process that runs keeps running its loop, a handler returns, and a process
\* that went down is started again.
Fairness == \A c \in Consumers : WF_vars(RunTopic(c))

Spec == Init /\ [][Next]_vars
FairSpec == Spec /\ Fairness

-----------------------------------------------------------------------------
(* Properties. *)

\* The bus keeps the contract of Delivery: one handler call at a time for a
\* message, none after it was accepted, at most MaxRetry of them, and the dead
\* letter stream only after the last.
Handled(m) == \E c \in Consumers : pc[c] = "handling" /\ Current(c).msg = m

Status(m) ==
    IF m \in done THEN "done"
    ELSE IF m \in dlq THEN "dead"
    ELSE IF Handled(m) THEN "trying"
    ELSE IF m \in sent THEN "pending" ELSE "unsent"

Contract == INSTANCE Delivery
                WITH status <- [m \in Msgs |-> Status(m)], tries <- calls

KeepsContract == Contract!Spec

\* A handler that returns an error is called again, and no message is left
\* unattended (mq.go:20): every message sent is accepted or dead-lettered in
\* the end, a process that went down having been started again.  The code does
\* not keep this promise (mq.go:119), and no run claims it.
EverySentSettles == \A m \in Msgs : m \in sent ~> m \in done \cup dlq

\* As long as no process stops, crashes or loses a reply they all do, however often
\* the handler fails and whichever acknowledgements are lost, but for the messages
\* whose XADD failed after the handler did.
SettlesUndisturbed ==
    \A m \in Msgs : m \in sent ~> (m \in done \cup dlq \cup dropped \/ stops > 0)

\* The one way in which a message leaves the bus is the XADD whose error handleMessage
\* drops before it acknowledges (mq.go:160-169, against mq.go:20): any other message
\* that was sent is still to be delivered, pending in the group, accepted or
\* dead-lettered, whatever processes stop, crash, lose replies or fail to acknowledge.
NoneVanishes ==
    \A m \in sent :
        \/ m \in done \cup dlq \cup dropped
        \/ \E i \in 1 .. Len(log) : log[i].msg = m /\ (i > last \/ i \in pel)
=============================================================================
