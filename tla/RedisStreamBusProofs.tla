------------------------ MODULE RedisStreamBusProofs ------------------------
(***************************************************************************)
(* Proofs about RedisStreamBus, for any messages, any number of consumers, *)
(* any batch size and retry limit, and whatever faults there are.          *)
(***************************************************************************)
EXTENDS RedisStreamBus, SequenceTheorems, TLAPS

\* A consumer that handles entries is within what the group has delivered.
AtWork(c) == pc[c] \in {"picked", "handling", "failed", "ack"}
SlicesDelivered ==
    \A c \in Consumers :
        AtWork(c) => 1 <= slice[c].next /\ slice[c].next <= slice[c].hi /\ slice[c].hi <= last

\* new is the log with n copies of e after it.
Appended(new, e, n) ==
    /\ Len(new) = Len(log) + n
    /\ \A i \in 1 .. Len(log) : new[i] = log[i]
    /\ \A i \in Len(log) + 1 .. Len(log) + n : new[i] = e

\* An XADD of e to the log puts copies of e at its end.
LEMMA XAddAppends ==
    ASSUME log \in Seq(Entry), NEW e \in Entry, NEW n \in 0 .. 2
    PROVE  XAdd(e, n) \in Seq(Entry) /\ Appended(XAdd(e, n), e, n)
<1> DEFINE t == [i \in 1 .. n |-> e]
<1>1. t \in Seq(Entry) /\ Len(t) = n
    OBVIOUS
<1>2. \A i \in 1 .. n : t[i] = e
    OBVIOUS
<1> HIDE DEF t
<1>3. /\ log \o t \in Seq(Entry)
      /\ Len(log \o t) = Len(log) + Len(t)
      /\ \A i \in 1 .. Len(log) + Len(t) :
            (log \o t)[i] = IF i <= Len(log) THEN log[i] ELSE t[i - Len(log)]
    BY <1>1, ConcatProperties
<1>4. Len(log) \in Nat
    BY LenProperties
<1> QED
    BY <1>1, <1>2, <1>3, <1>4 DEF XAdd, t, Appended

\* So the entry after the old end is e if there is one.
LEMMA FirstAppended ==
    ASSUME log \in Seq(Entry), NEW e \in Entry, NEW n \in 0 .. 2, n # 0, log' = XAdd(e, n)
    PROVE  /\ Len(log') >= Len(log) + 1 /\ log'[Len(log) + 1] = e
           /\ \A i \in 1 .. Len(log) : log'[i] = log[i]
<1>1. Appended(log', e, n)
    BY XAddAppends
<1>2. Len(log) \in Nat
    BY LenProperties
<1>3. n >= 1
    OBVIOUS
<1>4. Len(log) + 1 \in Len(log) + 1 .. Len(log) + n
    BY <1>2, <1>3
<1> QED
    BY <1>1, <1>2, <1>3, <1>4 DEF Appended

\* The entry a consumer is at is an entry of the log.
LEMMA CurrentEntry ==
    ASSUME TypeOK, SlicesDelivered, NEW c \in Consumers, AtWork(c)
    PROVE  /\ slice[c].next \in 1 .. last /\ slice[c].next \in 1 .. Len(log)
           /\ Current(c) \in Entry /\ Current(c).msg \in Msgs /\ Current(c).attempts \in Nat
<1>1. slice[c].next \in 1 .. last
    BY DEF TypeOK, SlicesDelivered
<1>2. slice[c].next \in 1 .. Len(log) /\ Len(log) \in Nat
    BY <1>1, LenProperties DEF TypeOK
<1>3. Current(c) \in Entry
    BY <1>2, ElementOfSeq DEF TypeOK, Current
<1> QED
    BY <1>1, <1>2, <1>3 DEF Entry

-----------------------------------------------------------------------------
(* Every step keeps the types and the slices. *)

Growing ==
    /\ log' \in Seq(Entry)
    /\ Len(log) <= Len(log')
    /\ \A i \in 1 .. Len(log) : log'[i] = log[i]

LEMMA XAddGrows ==
    ASSUME log \in Seq(Entry), NEW e \in Entry, NEW n \in 0 .. 2, log' = XAdd(e, n)
    PROVE  Growing
<1>1. log' \in Seq(Entry) /\ Appended(log', e, n)
    BY XAddAppends
<1>2. Len(log) \in Nat
    BY LenProperties
<1> QED
    BY <1>1, <1>2 DEF Growing, Appended

\* The log is only ever appended to.
LEMMA LogGrows ==
    ASSUME TypeOK, SlicesDelivered, [Next]_vars
    PROVE  Growing
<1>1. log \in Seq(Entry) /\ Len(log) \in Nat /\ XAddCopies \subseteq 0 .. 2
    BY BusAssumption, LenProperties DEF TypeOK
<1>2. ASSUME NEW m \in Msgs, Publish(m) PROVE Growing
    <2>1. PICK e \in Entry : e = [msg |-> m, attempts |-> 0]
        BY DEF Entry
    <2>2. PICK n \in 0 .. 2 : log' = XAdd(e, n)
        BY <1>1, <1>2, <2>1 DEF Publish
    <2> QED
        BY <1>1, <2>2, XAddGrows
<1>3. ASSUME NEW c \in Consumers, Requeue(c) PROVE Growing
    <2>1. Current(c) \in Entry /\ Current(c).msg \in Msgs /\ Current(c).attempts \in Nat
        BY <1>3, CurrentEntry DEF Requeue, AtWork
    <2>2. PICK e \in Entry : e = [msg |-> Current(c).msg, attempts |-> Current(c).attempts + 1]
        <3>1. [msg |-> Current(c).msg, attempts |-> Current(c).attempts + 1] \in Entry
            BY <2>1 DEF Entry
        <3> QED
            BY <3>1
    <2>3. Copies(c) \subseteq 0 .. 2
        BY <1>1 DEF Copies
    <2>4. PICK n \in 0 .. 2 : log' = XAdd(e, n)
        BY <1>3, <2>2, <2>3 DEF Requeue
    <2> QED
        BY <1>1, <2>4, XAddGrows
<1>4. CASE log' = log
    BY <1>1, <1>4 DEF Growing
<1>5. \/ log' = log \/ (\E m \in Msgs : Publish(m)) \/ (\E c \in Consumers : Requeue(c))
    BY DEF Next, RunTopic, HandleMessage, XReadGroup, CallHandler, HandlerOK, HandlerFails, DeadLetter,
           XAck, RunReturns, Restart, ReadReplyLost, Stop, Crash, vars, streamVars
<1> QED
    BY <1>2, <1>3, <1>4, <1>5

\* What XREADGROUP delivers begins after what it delivered before.
LEMMA ReadDelivers ==
    ASSUME TypeOK, last < Len(log), NEW hi,
           hi = IF last + BatchSize < Len(log) THEN last + BatchSize ELSE Len(log)
    PROVE  hi \in Nat /\ last + 1 <= hi /\ hi <= Len(log)
<1>1. Len(log) \in Nat /\ last \in Nat /\ BatchSize \in Nat \ {0}
    BY BusAssumption, LenProperties DEF TypeOK
<1> QED
    BY <1>1

LEMMA StepIsTyped == TypeOK /\ SlicesDelivered /\ [Next]_vars => TypeOK' /\ SlicesDelivered'
<1> SUFFICES ASSUME TypeOK, SlicesDelivered, [Next]_vars PROVE TypeOK' /\ SlicesDelivered'
    OBVIOUS
<1>0. /\ Growing /\ log \in Seq(Entry) /\ Len(log) \in Nat /\ Len(log') \in Nat
      /\ last \in Nat /\ last <= Len(log)
      /\ pc \in [Consumers -> PCs] /\ slice \in [Consumers -> [next : Nat, hi : Nat]]
      /\ NoSlice \in [next : Nat, hi : Nat]
    BY LogGrows, LenProperties DEF TypeOK, Growing, NoSlice
<1>1. ASSUME NEW m \in Msgs, Publish(m) PROVE TypeOK' /\ SlicesDelivered'
    BY <1>0, <1>1 DEF Publish, TypeOK, SlicesDelivered, AtWork, Growing
<1>2. ASSUME NEW c \in Consumers, XReadGroup(c) PROVE TypeOK' /\ SlicesDelivered'
    <2> DEFINE hi == IF last + BatchSize < Len(log) THEN last + BatchSize ELSE Len(log)
    <2>1. hi \in Nat /\ last + 1 <= hi /\ hi <= Len(log)
        BY <1>2, ReadDelivers DEF XReadGroup
    <2>2. /\ last' = hi /\ pel' = pel \cup (last + 1 .. hi)
          /\ slice' = [slice EXCEPT ![c] = [next |-> last + 1, hi |-> hi]]
          /\ pc' = [pc EXCEPT ![c] = "picked"] /\ log' = log
        BY <1>2 DEF XReadGroup
    <2> HIDE DEF hi
    <2>3. pel' \subseteq 1 .. last'
        BY <1>0, <2>1, <2>2 DEF TypeOK
    <2>4. slice' \in [Consumers -> [next : Nat, hi : Nat]]
        BY <1>0, <2>1, <2>2
    <2>5. TypeOK'
        BY <1>0, <1>2, <2>1, <2>2, <2>3, <2>4 DEF XReadGroup, TypeOK, PCs, historyVars
    <2>6. ASSUME NEW d \in Consumers, AtWork(d)'
          PROVE  1 <= slice'[d].next /\ slice'[d].next <= slice'[d].hi /\ slice'[d].hi <= last'
        <3>1. CASE d = c
            BY <1>0, <2>1, <2>2, <3>1
        <3>2. CASE d # c
            <4>1. AtWork(d) /\ slice'[d] = slice[d]
                BY <1>0, <2>2, <2>6, <3>2 DEF AtWork
            <4> QED
                BY <1>0, <2>1, <2>2, <4>1 DEF SlicesDelivered
        <3> QED
            BY <3>1, <3>2
    <2> QED
        BY <2>5, <2>6 DEF SlicesDelivered
<1>3. ASSUME NEW c \in Consumers, ReadReplyLost(c) PROVE TypeOK' /\ SlicesDelivered'
    <2> DEFINE hi == IF last + BatchSize < Len(log) THEN last + BatchSize ELSE Len(log)
    <2>1. hi \in Nat /\ last + 1 <= hi /\ hi <= Len(log)
        BY <1>3, ReadDelivers DEF ReadReplyLost
    <2>2. last' = hi /\ pel' = pel \cup (last + 1 .. hi) /\ log' = log
        BY <1>3 DEF ReadReplyLost
    <2> HIDE DEF hi
    <2>3. pel' \subseteq 1 .. last'
        BY <1>0, <2>1, <2>2 DEF TypeOK
    <2> QED
        BY <1>0, <1>3, <2>1, <2>2, <2>3 DEF ReadReplyLost, TypeOK, historyVars, SlicesDelivered, AtWork
<1>4. ASSUME NEW c \in Consumers,
             CallHandler(c) \/ HandlerOK(c) \/ HandlerFails(c) \/ DeadLetter(c) \/ Requeue(c)
      PROVE  TypeOK' /\ SlicesDelivered'
    <2>1. /\ AtWork(c) /\ slice' = slice /\ last' = last /\ pel' = pel /\ cancelled' = cancelled
          /\ \E to \in {"handling", "ack", "failed"} : pc' = [pc EXCEPT ![c] = to]
        BY <1>4 DEF CallHandler, HandlerOK, HandlerFails, DeadLetter, Requeue, AtWork, streamVars
    <2>2. Current(c).msg \in Msgs
        BY <2>1, CurrentEntry
    <2>3. dlq' \subseteq Msgs
        BY <1>4, <2>2 DEF CallHandler, HandlerOK, HandlerFails, DeadLetter, Requeue, streamVars, TypeOK
    <2>4. done' \subseteq Msgs /\ sent' \subseteq Msgs /\ dropped' \subseteq Msgs /\ stops' \in Nat
        BY <1>4, <2>2 DEF CallHandler, HandlerOK, HandlerFails, DeadLetter, Requeue, Dropped, historyVars,
                          TypeOK
    <2>5. calls' \in [Msgs -> Nat]
        <3>1. CASE CallHandler(c)
            BY <2>2, <3>1 DEF CallHandler, TypeOK
        <3>2. CASE calls' = calls
            BY <3>2 DEF TypeOK
        <3> QED
            BY <1>4, <3>1, <3>2 DEF HandlerOK, HandlerFails, DeadLetter, Requeue, historyVars
    <2>6. pc' \in [Consumers -> PCs]
        BY <1>0, <2>1 DEF PCs
    <2>7. TypeOK'
        BY <1>0, <2>1, <2>3, <2>4, <2>5, <2>6 DEF TypeOK, Growing
    <2>8. SlicesDelivered'
        BY <1>0, <2>1 DEF SlicesDelivered, AtWork
    <2> QED
        BY <2>7, <2>8
<1>5. ASSUME NEW c \in Consumers, XAck(c) PROVE TypeOK' /\ SlicesDelivered'
    <2> DEFINE s == slice[c]
               new == IF s.next = s.hi THEN NoSlice ELSE [s EXCEPT !.next = @ + 1]
    <2>1. AtWork(c) /\ s \in [next : Nat, hi : Nat]
        BY <1>0, <1>5 DEF XAck, AtWork
    <2>2. /\ slice' = [slice EXCEPT ![c] = new] /\ pel' \subseteq pel
          /\ pc' = [pc EXCEPT ![c] = IF s.next = s.hi THEN "reading" ELSE "picked"]
        BY <1>5 DEF XAck, NextEntry
    <2>3. new \in [next : Nat, hi : Nat]
        BY <1>0, <2>1
    <2>4. s.next # s.hi => 1 <= new.next /\ new.next <= new.hi /\ new.hi <= last
        BY <2>1 DEF SlicesDelivered
    <2> HIDE DEF new
    <2>5. TypeOK'
        BY <1>0, <1>5, <2>2, <2>3 DEF XAck, TypeOK, PCs, historyVars
    <2>6. SlicesDelivered'
        BY <1>0, <1>5, <2>2, <2>4 DEF XAck, SlicesDelivered, AtWork
    <2> QED
        BY <2>5, <2>6
<1>6. ASSUME NEW c \in Consumers, Stop(c) \/ RunReturns(c) \/ Crash(c) \/ Restart(c)
      PROVE  TypeOK' /\ SlicesDelivered'
    <2>1. TypeOK'
        <3>1. /\ log' = log /\ last' = last /\ pel' = pel /\ dlq' = dlq
              /\ sent' = sent /\ done' = done /\ calls' = calls /\ dropped' = dropped
              /\ stops' \in {stops, stops + 1}
              /\ slice' \in {slice, [slice EXCEPT ![c] = NoSlice]}
              /\ cancelled' \in {cancelled, cancelled \cup {c}, cancelled \ {c}}
              /\ \E to \in {"down", "reading"} : pc' \in {pc, [pc EXCEPT ![c] = to]}
            <4>1. CASE Stop(c)
                BY <4>1 DEF Stop, streamVars, historyVars
            <4>2. CASE RunReturns(c)
                BY <4>2 DEF RunReturns, streamVars, historyVars
            <4>3. CASE Crash(c)
                BY <4>3 DEF Crash, streamVars, historyVars
            <4>4. CASE Restart(c)
                BY <4>4 DEF Restart, streamVars, historyVars
            <4> QED
                BY <1>6, <4>1, <4>2, <4>3, <4>4
        <3>2. slice' \in [Consumers -> [next : Nat, hi : Nat]]
            BY <1>0, <3>1
        <3>3. pc' \in [Consumers -> PCs]
            BY <1>0, <3>1 DEF PCs
        <3>4. cancelled' \subseteq Consumers /\ stops' \in Nat
            <4>1. cancelled \subseteq Consumers /\ stops \in Nat
                BY DEF TypeOK
            <4> QED
                BY <3>1, <4>1
        <3> QED
            BY <3>1, <3>2, <3>3, <3>4 DEF TypeOK
    <2>2. SlicesDelivered'
        <3>1. last' = last /\ \A d \in Consumers : AtWork(d)' => AtWork(d) /\ slice'[d] = slice[d]
            BY <1>0, <1>6 DEF Stop, RunReturns, Crash, Restart, streamVars, AtWork
        <3> QED
            BY <3>1 DEF SlicesDelivered
    <2> QED
        BY <2>1, <2>2
<1>7. CASE UNCHANGED vars
    BY <1>7 DEF vars, TypeOK, SlicesDelivered, AtWork
<1> QED
    BY <1>1, <1>2, <1>3, <1>4, <1>5, <1>6, <1>7 DEF Next, RunTopic, HandleMessage

LEMMA StartIsTyped == Init => TypeOK /\ SlicesDelivered
    BY EmptySeq DEF Init, TypeOK, SlicesDelivered, AtWork, NoSlice, PCs

\* The stream, the group and the consumers stay well typed (mq.go).
THEOREM TypeCorrect == Spec => []TypeOK
    BY StartIsTyped, StepIsTyped, PTL DEF Spec

-----------------------------------------------------------------------------
(* Why no message vanishes: what is about to be acknowledged lives on further  *)
(* down the stream. *)

Live(j) == j > last \/ j \in pel
SettledMsg(m) == m \in done \cup dlq \cup dropped
LivesAfter(i, m) == \E j \in 1 .. Len(log) : i < j /\ log[j].msg = m /\ Live(j)

AcksCovered ==
    \A c \in Consumers :
        pc[c] = "ack" /\ c \notin cancelled =>
            SettledMsg(Current(c).msg) \/ LivesAfter(slice[c].next, Current(c).msg)

\* A step that acknowledges nothing leaves what lives alive.
LEMMA StaysAlive ==
    ASSUME TypeOK, Growing, last' >= last, last' <= Len(log'),
           pel \cup (last + 1 .. last') \subseteq pel', last \in Nat, last' \in Nat,
           done \subseteq done', dlq \subseteq dlq', dropped \subseteq dropped'
    PROVE  /\ \A m : SettledMsg(m) => SettledMsg(m)'
           /\ \A m : \A i \in Nat : LivesAfter(i, m) => LivesAfter(i, m)'
<1>1. Len(log) \in Nat /\ Len(log') \in Nat
    BY LenProperties DEF TypeOK, Growing
<1>2. \A j \in 1 .. Len(log) : Live(j) => Live(j)' /\ log'[j] = log[j] /\ j \in 1 .. Len(log')
    BY <1>1 DEF Live, Growing
<1> QED
    BY <1>2 DEF SettledMsg, LivesAfter

\* An acknowledgement takes an entry out whose message lives further down.
LEMMA AckLeavesCovered ==
    ASSUME TypeOK, SlicesDelivered, AcksCovered, NEW c \in Consumers, XAck(c)
    PROVE  \A m : \A i \in Nat : LivesAfter(i, m) => SettledMsg(m) \/ LivesAfter(i, m)'
<1> SUFFICES ASSUME NEW i \in Nat, NEW m, LivesAfter(i, m)
             PROVE  SettledMsg(m) \/ LivesAfter(i, m)'
    OBVIOUS
<1> DEFINE k == slice[c].next
<1>1. /\ log' = log /\ last' = last /\ k \in 1 .. Len(log) /\ Len(log) \in Nat /\ last \in Nat
    BY CurrentEntry, LenProperties DEF XAck, AtWork, TypeOK
<1>2. PICK j \in 1 .. Len(log) : i < j /\ log[j].msg = m /\ Live(j)
    BY DEF LivesAfter
<1>3. CASE pel' = pel
    BY <1>1, <1>2, <1>3 DEF LivesAfter, Live
<1>4. CASE c \notin cancelled /\ pel' = pel \ {k}
    <2>1. CASE j # k
        BY <1>1, <1>2, <1>4, <2>1 DEF LivesAfter, Live
    <2>2. CASE j = k
        <3>1. SettledMsg(m) \/ LivesAfter(k, m)
            BY <1>2, <1>4, <2>2 DEF AcksCovered, XAck, Current
        <3>2. ASSUME NEW x \in 1 .. Len(log), k < x, log[x].msg = m, Live(x)
              PROVE  LivesAfter(i, m)'
            <4>1. Live(x)' /\ i < x
                BY <1>1, <1>2, <1>4, <2>2, <3>2 DEF Live
            <4> QED
                BY <1>1, <3>2, <4>1 DEF LivesAfter
        <3> QED
            BY <3>1, <3>2 DEF LivesAfter
    <2> QED
        BY <2>1, <2>2
<1> QED
    BY <1>3, <1>4 DEF XAck

\* Every other step lets what was delivered, accepted and dead-lettered only grow.
LEMMA OthersGrow ==
    ASSUME TypeOK, SlicesDelivered, [Next]_vars, ~ \E c \in Consumers : XAck(c)
    PROVE  /\ last' >= last /\ pel \cup (last + 1 .. last') \subseteq pel'
           /\ done \subseteq done' /\ dlq \subseteq dlq' /\ dropped \subseteq dropped'
<1>0. last \in Nat /\ last + 0 = last /\ last + 1 .. last = {}
    BY LenProperties DEF TypeOK
<1>1. ASSUME NEW c \in Consumers, XReadGroup(c) \/ ReadReplyLost(c)
      PROVE  last' >= last /\ pel \cup (last + 1 .. last') \subseteq pel'
    <2> DEFINE hi == IF last + BatchSize < Len(log) THEN last + BatchSize ELSE Len(log)
    <2>1. hi \in Nat /\ last + 1 <= hi
        BY <1>1, ReadDelivers DEF XReadGroup, ReadReplyLost
    <2>2. last' = hi /\ pel' = pel \cup (last + 1 .. hi)
        BY <1>1 DEF XReadGroup, ReadReplyLost
    <2> HIDE DEF hi
    <2> QED
        BY <1>0, <2>1, <2>2
<1>2. \/ last' = last /\ pel' = pel
      \/ \E c \in Consumers : XReadGroup(c) \/ ReadReplyLost(c)
    BY DEF Next, RunTopic, HandleMessage, Publish, CallHandler, HandlerOK, HandlerFails, DeadLetter,
           Requeue, RunReturns, Restart, Stop, Crash, vars, streamVars
<1>3. done \subseteq done' /\ dlq \subseteq dlq' /\ dropped \subseteq dropped'
    BY DEF Next, RunTopic, HandleMessage, Publish, XReadGroup, ReadReplyLost, CallHandler, HandlerOK,
           HandlerFails, DeadLetter, Requeue, Dropped, RunReturns, Restart, Stop, Crash, vars,
           streamVars, historyVars
<1> QED
    BY <1>0, <1>1, <1>2, <1>3

LEMMA OthersKeepAlive ==
    ASSUME TypeOK, SlicesDelivered, [Next]_vars, ~ \E c \in Consumers : XAck(c)
    PROVE  /\ \A m : SettledMsg(m) => SettledMsg(m)'
           /\ \A m : \A i \in Nat : LivesAfter(i, m) => LivesAfter(i, m)'
<1>1. TypeOK' /\ Growing
    BY StepIsTyped, LogGrows
<1>2. last \in Nat /\ last' \in Nat /\ last' <= Len(log')
    BY <1>1, LenProperties DEF TypeOK, Growing
<1> QED
    BY <1>1, <1>2, OthersGrow, StaysAlive

\* What a consumer takes to be settled when it comes to acknowledge is so, or its XADD
\* failed and the message is among the dropped.
LEMMA ReachesAckCovered ==
    ASSUME TypeOK, SlicesDelivered, NEW c \in Consumers, c \notin cancelled,
           HandlerOK(c) \/ DeadLetter(c) \/ Requeue(c)
    PROVE  SettledMsg(Current(c).msg)' \/ LivesAfter(slice[c].next, Current(c).msg)'
<1>0. /\ Current(c).msg \in Msgs /\ Current(c).attempts \in Nat
      /\ slice[c].next \in 1 .. Len(log) /\ Len(log) \in Nat /\ log \in Seq(Entry)
      /\ last \in Nat /\ last <= Len(log) /\ slice' = slice /\ last' = last
    BY CurrentEntry, LenProperties DEF HandlerOK, DeadLetter, Requeue, AtWork, TypeOK, streamVars
<1>1. Copies(c) \subseteq 0 .. 2
    BY BusAssumption DEF Copies
<1>2. CASE HandlerOK(c)
    BY <1>0, <1>2 DEF HandlerOK, SettledMsg, Current, streamVars
<1>3. CASE DeadLetter(c)
    BY <1>0, <1>1, <1>3 DEF DeadLetter, Dropped, SettledMsg, Current
<1>4. CASE Requeue(c)
    <2> DEFINE new == Len(log) + 1
    <2>1. [msg |-> Current(c).msg, attempts |-> Current(c).attempts + 1] \in Entry
        BY <1>0 DEF Entry
    <2>2. PICK e \in Entry : e = [msg |-> Current(c).msg, attempts |-> Current(c).attempts + 1]
        BY <2>1
    <2>3. PICK n \in 0 .. 2 : log' = XAdd(e, n) /\ dropped' = Dropped(c, n)
        BY <1>1, <1>4, <2>2 DEF Requeue
    <2>3a. CASE n = 0
        <3>1. Growing
            BY <1>0, <2>3, XAddGrows
        <3>2. Current(c)' = Current(c) /\ dropped' = dropped \cup {Current(c).msg}
            BY <1>0, <2>3, <2>3a, <3>1 DEF Current, Dropped, Growing
        <3> QED
            BY <3>2 DEF SettledMsg
    <2>3b. CASE n # 0
        <3>1. /\ Len(log') >= Len(log) + 1 /\ log'[Len(log) + 1] = e
              /\ \A i \in 1 .. Len(log) : log'[i] = log[i]
            BY <1>0, <2>3, <2>3b, FirstAppended
        <3>2. new \in 1 .. Len(log') /\ log'[new].msg = Current(c).msg /\ slice[c].next < new /\ new > last'
            <4>1. log' \in Seq(Entry)
                BY <1>0, <2>3, XAddGrows DEF Growing
            <4>2. Len(log') \in Nat
                BY <4>1, LenProperties
            <4> QED
                BY <1>0, <2>2, <3>1, <4>2
        <3>3. Current(c)' = Current(c)
            BY <1>0, <3>1 DEF Current
        <3> HIDE DEF new
        <3> QED
            BY <1>0, <3>2, <3>3 DEF LivesAfter, Live
    <2> QED
        BY <2>3a, <2>3b
<1> QED
    BY <1>2, <1>3, <1>4

LEMMA StepKeepsCover ==
    ASSUME TypeOK, SlicesDelivered, AcksCovered, [Next]_vars
    PROVE  AcksCovered'
<1> SUFFICES ASSUME NEW d \in Consumers, pc'[d] = "ack", d \notin cancelled'
             PROVE  SettledMsg(Current(d).msg)' \/ LivesAfter(slice[d].next, Current(d).msg)'
    BY DEF AcksCovered
<1>0. /\ pc \in [Consumers -> PCs] /\ slice \in [Consumers -> [next : Nat, hi : Nat]]
      /\ Growing
    BY LogGrows DEF TypeOK
<1>1. CASE \E c \in Consumers : c = d /\ (HandlerOK(c) \/ DeadLetter(c) \/ Requeue(c))
    <2>1. d \notin cancelled /\ slice' = slice
        BY <1>1 DEF HandlerOK, DeadLetter, Requeue
    <2> QED
        BY <1>1, <2>1, ReachesAckCovered
<1>2. CASE pc[d] = "ack" /\ d \notin cancelled /\ slice'[d] = slice[d]
    <2>1. slice[d].next \in Nat /\ slice[d].next \in 1 .. Len(log)
        BY <1>0, <1>2, CurrentEntry DEF AtWork
    <2>2. Current(d)' = Current(d)
        BY <1>0, <1>2, <2>1 DEF Growing, Current
    <2>3. SettledMsg(Current(d).msg) \/ LivesAfter(slice[d].next, Current(d).msg)
        BY <1>2 DEF AcksCovered
    <2>4. CASE \E c \in Consumers : XAck(c)
        <3>1. SettledMsg(Current(d).msg) => SettledMsg(Current(d).msg)'
            BY <2>2, <2>4 DEF XAck, SettledMsg, historyVars
        <3>2. PICK k \in Nat : k = slice[d].next
            BY <2>1
        <3>3. PICK m : m = Current(d).msg
            OBVIOUS
        <3>4. SettledMsg(m) \/ LivesAfter(k, m)'
            BY <2>3, <2>4, <3>2, <3>3, AckLeavesCovered
        <3>5. k = slice'[d].next /\ m = Current(d)'.msg
            BY <1>2, <2>2, <3>2, <3>3
        <3> QED
            BY <3>1, <3>2, <3>3, <3>4, <3>5
    <2>5. CASE ~ \E c \in Consumers : XAck(c)
        BY <1>2, <2>1, <2>2, <2>3, <2>5, OthersKeepAlive DEF SettledMsg, LivesAfter
    <2> QED
        BY <2>4, <2>5
<1>3. \/ \E c \in Consumers : c = d /\ (HandlerOK(c) \/ DeadLetter(c) \/ Requeue(c))
      \/ pc[d] = "ack" /\ d \notin cancelled /\ slice'[d] = slice[d]
    <2>1. CASE UNCHANGED vars
        BY <2>1 DEF vars
    <2>2. CASE \E m \in Msgs : Publish(m)
        BY <2>2 DEF Publish
    <2>3. ASSUME NEW c \in Consumers,
                 \/ HandlerOK(c) \/ DeadLetter(c) \/ Requeue(c)
                 \/ XReadGroup(c) \/ CallHandler(c) \/ HandlerFails(c) \/ RunReturns(c) \/ Restart(c)
                 \/ XAck(c) \/ Stop(c) \/ Crash(c) \/ ReadReplyLost(c)
          PROVE  \/ c = d /\ (HandlerOK(c) \/ DeadLetter(c) \/ Requeue(c))
                 \/ pc[d] = "ack" /\ d \notin cancelled /\ slice'[d] = slice[d]
        <3>1. CASE HandlerOK(c) \/ DeadLetter(c) \/ Requeue(c)
            <4>1. pc' = [pc EXCEPT ![c] = "ack"] /\ cancelled' = cancelled /\ slice' = slice
                BY <3>1 DEF HandlerOK, DeadLetter, Requeue
            <4> QED
                BY <1>0, <3>1, <4>1
        <3>2. CASE XReadGroup(c) \/ CallHandler(c) \/ HandlerFails(c) \/ RunReturns(c) \/ Restart(c)
            BY <1>0, <3>2 DEF XReadGroup, CallHandler, HandlerFails, RunReturns, Restart
        <3>3. CASE XAck(c)
            BY <1>0, <3>3 DEF XAck, NextEntry
        <3>4. CASE Stop(c) \/ Crash(c) \/ ReadReplyLost(c)
            BY <1>0, <3>4 DEF Stop, Crash, ReadReplyLost
        <3> QED
            BY <2>3, <3>1, <3>2, <3>3, <3>4
    <2> QED
        BY <2>1, <2>2, <2>3 DEF Next, RunTopic, HandleMessage
<1> QED
    BY <1>1, <1>2, <1>3

LEMMA StepLosesNone ==
    ASSUME TypeOK, SlicesDelivered, AcksCovered, NoneVanishes, [Next]_vars
    PROVE  NoneVanishes'
<1> SUFFICES ASSUME NEW m \in sent'
             PROVE  SettledMsg(m)' \/ LivesAfter(0, m)'
    BY DEF NoneVanishes, SettledMsg, LivesAfter, Live
<1>0. log \in Seq(Entry) /\ Len(log) \in Nat /\ last \in Nat /\ last <= Len(log)
    BY LenProperties DEF TypeOK
<1>1. CASE m \in sent
    <2>1. SettledMsg(m) \/ LivesAfter(0, m)
        BY <1>0, <1>1 DEF NoneVanishes, SettledMsg, LivesAfter, Live
    <2>2. CASE \E c \in Consumers : XAck(c)
        <3>1. SettledMsg(m) => SettledMsg(m)'
            BY <2>2 DEF XAck, SettledMsg, historyVars
        <3> QED
            BY <2>1, <2>2, <3>1, AckLeavesCovered
    <2>3. CASE ~ \E c \in Consumers : XAck(c)
        BY <2>1, <2>3, OthersKeepAlive
    <2> QED
        BY <2>2, <2>3
<1>2. CASE m \notin sent
    <2>1. sent' = sent \/ \E x \in Msgs : Publish(x)
        BY DEF Next, RunTopic, HandleMessage, Publish, XReadGroup, ReadReplyLost, CallHandler,
            HandlerOK, HandlerFails, DeadLetter, Requeue, XAck, RunReturns, Restart, Stop, Crash, vars,
            historyVars
    <2>2. PICK x \in Msgs : Publish(x)
        BY <1>2, <2>1
    <2>3. x = m
        BY <1>2, <2>2 DEF Publish
    <2>4. PICK e \in Entry : e = [msg |-> m, attempts |-> 0]
        BY <2>3 DEF Entry
    <2>5. PICK n \in 0 .. 2 : n # 0 /\ log' = XAdd(e, n)
        BY <2>2, <2>3, <2>4, BusAssumption DEF Publish
    <2>6. Len(log') >= Len(log) + 1 /\ log'[Len(log) + 1] = e
        BY <1>0, <2>5, FirstAppended
    <2>7. PICK k \in Nat : k = Len(log) + 1
        BY <1>0
    <2>8. k \in 1 .. Len(log') /\ 0 < k /\ log'[k].msg = m /\ k > last'
        BY <1>0, <2>2, <2>5, <2>4, <2>6, <2>7 DEF Publish
    <2> QED
        BY <2>8 DEF LivesAfter, Live
<1> QED
    BY <1>1, <1>2

\* The error that handleMessage drops when it adds a failed message again is the only
\* way in which one vanishes: every other message that was sent is still to be
\* delivered, pending, accepted or dead-lettered, whatever processes stop, crash, lose
\* replies or fail to acknowledge and however often the client library repeats an XADD
\* (mq.go:83-171).
THEOREM NoMessageVanishes == Spec => []NoneVanishes
<1>1. Init => AcksCovered /\ NoneVanishes
    BY DEF Init, AcksCovered, NoneVanishes
<1>2. TypeOK /\ SlicesDelivered /\ AcksCovered /\ NoneVanishes /\ [Next]_vars
          => AcksCovered' /\ NoneVanishes'
    BY StepKeepsCover, StepLosesNone
<1> QED
    BY <1>1, <1>2, StartIsTyped, StepIsTyped, PTL DEF Spec

-----------------------------------------------------------------------------
\* Entries carry messages that were sent, and only these are accepted.
FromSenders == done \subseteq sent /\ \A i \in 1 .. Len(log) : log[i].msg \in sent

\* Every step keeps it so.
LEMMA StepIsFromSenders ==
    ASSUME TypeOK, SlicesDelivered, FromSenders, [Next]_vars
    PROVE  FromSenders'
<1>1. log \in Seq(Entry) /\ Len(log) \in Nat /\ XAddCopies \subseteq 0 .. 2
    BY BusAssumption, LenProperties DEF TypeOK
<1>2. \A c \in Consumers : AtWork(c) => Current(c).msg \in sent
    BY CurrentEntry DEF FromSenders, Current
<1>3. ASSUME NEW e \in Entry, NEW n \in 0 .. 2, log' = XAdd(e, n), e.msg \in sent', sent \subseteq sent',
             done' = done
      PROVE  FromSenders'
    <2>1. /\ Len(log') = Len(log) + n
          /\ \A i \in 1 .. Len(log) : log'[i] = log[i]
          /\ \A i \in Len(log) + 1 .. Len(log) + n : log'[i] = e
        <3>1. Appended(log', e, n)
            BY <1>1, <1>3, XAddAppends
        <3> QED
            BY <3>1 DEF Appended
    <2>2. \A i \in 1 .. Len(log') : i \in 1 .. Len(log) \/ i \in Len(log) + 1 .. Len(log) + n
        BY <1>1, <2>1
    <2>3. \A i \in 1 .. Len(log') : log'[i].msg \in sent'
        BY <1>3, <2>1, <2>2 DEF FromSenders
    <2> QED
        BY <1>3, <2>3 DEF FromSenders
<1>4. ASSUME NEW m \in Msgs, Publish(m) PROVE FromSenders'
    <2>1. [msg |-> m, attempts |-> 0] \in Entry
        BY DEF Entry
    <2>2. PICK n \in 0 .. 2 : log' = XAdd([msg |-> m, attempts |-> 0], n)
        BY <1>1, <1>4 DEF Publish
    <2> QED
        BY <1>3, <1>4, <2>1, <2>2 DEF Publish
<1>5. ASSUME NEW c \in Consumers, Requeue(c) PROVE FromSenders'
    <2>1. Current(c).msg \in Msgs /\ Current(c).msg \in sent /\ Current(c).attempts \in Nat
        BY <1>2, <1>5, CurrentEntry DEF Requeue, AtWork
    <2>2. [msg |-> Current(c).msg, attempts |-> Current(c).attempts + 1] \in Entry
        BY <2>1 DEF Entry
    <2>3. PICK n \in 0 .. 2 :
              log' = XAdd([msg |-> Current(c).msg, attempts |-> Current(c).attempts + 1], n)
        BY <1>1, <1>5 DEF Requeue, Copies
    <2> QED
        BY <1>3, <1>5, <2>1, <2>2, <2>3 DEF Requeue, historyVars
<1>6. ASSUME NEW c \in Consumers, HandlerOK(c) PROVE FromSenders'
    BY <1>2, <1>6 DEF HandlerOK, AtWork, FromSenders, streamVars
<1>7. CASE UNCHANGED <<log, sent, done>>
    BY <1>7 DEF FromSenders
<1>8. \/ UNCHANGED <<log, sent, done>> \/ \E m \in Msgs : Publish(m)
      \/ \E c \in Consumers : Requeue(c) \/ HandlerOK(c)
    BY DEF Next, RunTopic, HandleMessage, XReadGroup, CallHandler, HandlerFails, DeadLetter,
           XAck, RunReturns, Restart, ReadReplyLost, Stop, Crash, vars, streamVars, historyVars
<1> QED
    BY <1>4, <1>5, <1>6, <1>7, <1>8

-----------------------------------------------------------------------------
(* How the bus keeps the contract of Delivery.  A message has at most one open *)
(* entry, one that is still to be delivered or that a consumer has not settled *)
(* yet, and no two consumers have the same entry; the open entry tells what    *)
(* has become of its message.                                                  *)

\* The entries consumer c has read and not yet settled.
Owned(c) == {i \in slice[c].next .. slice[c].hi :
                AtWork(c) /\ ~(pc[c] = "ack" /\ i = slice[c].next)}
Open(i) == i > last \/ \E c \in Consumers : i \in Owned(c)

\* The handler has been called for entry i and the failure, if it failed, is not settled.
Begun(i) == \E c \in Consumers : pc[c] \in {"handling", "failed"} /\ slice[c].next = i

OneOwner == \A c, d \in Consumers : \A i \in Owned(c) \cap Owned(d) : c = d
OneCopy ==
    \A i, j \in 1 .. Len(log) : Open(i) /\ Open(j) /\ log[i].msg = log[j].msg => i = j
Accounted ==
    \A i \in 1 .. Len(log) :
        Open(i) => /\ log[i].msg \notin done \cup dlq
                   /\ log[i].attempts < MaxRetry
                   /\ calls[log[i].msg] = log[i].attempts + IF Begun(i) THEN 1 ELSE 0
OnlySent ==
    /\ \A i \in 1 .. Len(log) : log[i].msg \in sent
    /\ \A m \in Msgs \ sent : calls[m] = 0 /\ m \notin done \cup dlq

Orderly == TypeOK /\ SlicesDelivered /\ OneOwner /\ OneCopy /\ Accounted /\ OnlySent

LEMMA OwnedDelivered ==
    ASSUME TypeOK, SlicesDelivered
    PROVE  /\ last \in Nat /\ Len(log) \in Nat /\ last <= Len(log) /\ log \in Seq(Entry)
           /\ pc \in [Consumers -> PCs] /\ slice \in [Consumers -> [next : Nat, hi : Nat]]
           /\ \A c \in Consumers : Owned(c) \subseteq 1 .. last
           /\ \A i \in 1 .. Len(log) : log[i] \in Entry /\ log[i].msg \in Msgs /\ log[i].attempts \in Nat
<1>1. /\ last \in Nat /\ Len(log) \in Nat /\ last <= Len(log) /\ log \in Seq(Entry)
      /\ pc \in [Consumers -> PCs] /\ slice \in [Consumers -> [next : Nat, hi : Nat]]
    BY LenProperties DEF TypeOK
<1>2. ASSUME NEW c \in Consumers PROVE Owned(c) \subseteq 1 .. last
    BY <1>1 DEF Owned, SlicesDelivered
<1>3. ASSUME NEW i \in 1 .. Len(log)
      PROVE  log[i] \in Entry /\ log[i].msg \in Msgs /\ log[i].attempts \in Nat
    <2>1. log[i] \in Entry
        BY <1>1, ElementOfSeq
    <2> QED
        BY <2>1 DEF Entry
<1> QED
    BY <1>1, <1>2, <1>3

\* The entry a consumer works on is open, nobody else's, and the only open one of its
\* message.
LEMMA WorkIsExclusive ==
    ASSUME Orderly, NEW c \in Consumers, pc[c] \in {"picked", "handling", "failed"}
    PROVE  /\ slice[c].next \in Owned(c) /\ Open(slice[c].next) /\ slice[c].next \in 1 .. Len(log)
           /\ Current(c).msg \in sent \ (done \cup dlq) /\ Current(c).msg \in Msgs
           /\ Current(c).attempts \in Nat /\ Current(c).attempts < MaxRetry
           /\ calls[Current(c).msg] = Current(c).attempts + IF pc[c] = "picked" THEN 0 ELSE 1
           /\ \A d \in Consumers \ {c} :
                 /\ slice[c].next \notin Owned(d)
                 /\ pc[d] \in {"picked", "handling", "failed"} =>
                       slice[d].next # slice[c].next /\ Current(d).msg # Current(c).msg
<1> DEFINE k == slice[c].next
<1>0. TypeOK /\ SlicesDelivered /\ OneOwner /\ OneCopy /\ Accounted /\ OnlySent
    BY DEF Orderly
<1>1. \A d \in Consumers : pc[d] \in {"picked", "handling", "failed"} =>
          slice[d].next \in Owned(d) /\ slice[d].next \in 1 .. Len(log)
    BY <1>0, OwnedDelivered DEF Owned, AtWork, SlicesDelivered
<1>2. k \in Owned(c) /\ Open(k) /\ k \in 1 .. Len(log) /\ Current(c) = log[k]
    BY <1>1 DEF Open, Current
<1>3. \A d \in Consumers \ {c} : k \notin Owned(d)
    BY <1>0, <1>2 DEF OneOwner
<1>4. ASSUME NEW d \in Consumers \ {c}, pc[d] \in {"picked", "handling", "failed"}
      PROVE  slice[d].next # k /\ Current(d).msg # Current(c).msg
    <2>1. slice[d].next # k
        BY <1>1, <1>3, <1>4
    <2>2. Open(slice[d].next) /\ slice[d].next \in 1 .. Len(log)
        BY <1>1, <1>4 DEF Open
    <2> QED
        BY <1>0, <1>2, <2>1, <2>2 DEF OneCopy, Current
<1>5. Begun(k) <=> pc[c] # "picked"
    BY <1>4 DEF Begun
<1>6. /\ log[k].msg \notin done \cup dlq /\ log[k].attempts < MaxRetry
      /\ calls[log[k].msg] = log[k].attempts + IF Begun(k) THEN 1 ELSE 0
      /\ log[k].msg \in sent /\ log[k].msg \in Msgs /\ log[k].attempts \in Nat
    BY <1>0, <1>2, OwnedDelivered DEF Accounted, OnlySent
<1> QED
    BY <1>2, <1>3, <1>4, <1>5, <1>6

\* As long as no entry is added, what is open only closes.
LEMMA ClosingKeepsApart ==
    ASSUME Orderly, log' = log,
           \A i \in 1 .. Len(log) : Open(i)' => Open(i),
           \A c, d \in Consumers : \A i \in Owned(c)' \cap Owned(d)' : c = d
    PROVE  OneOwner' /\ OneCopy'
<1>1. OneOwner'
    BY DEF OneOwner
<1>2. OneCopy'
    BY DEF OneCopy, Orderly
<1> QED
    BY <1>1, <1>2

\* What a step that adds no entry must do to keep the account of the open ones.
LEMMA AddingNoneKeepsOrder ==
    ASSUME Orderly, TypeOK', SlicesDelivered', log' = log, sent' = sent,
           \A i \in 1 .. Len(log) : Open(i)' => Open(i),
           \A c, d \in Consumers : \A i \in Owned(c)' \cap Owned(d)' : c = d,
           \A i \in 1 .. Len(log) :
              Open(i)' => /\ log[i].msg \notin done' \cup dlq'
                          /\ calls'[log[i].msg] = log[i].attempts + IF Begun(i)' THEN 1 ELSE 0,
           \A m \in Msgs \ sent : calls'[m] = 0 /\ m \notin done' \cup dlq'
    PROVE  Orderly'
<1>1. OneOwner' /\ OneCopy'
    BY ClosingKeepsApart
<1>2. Accounted' /\ OnlySent'
    BY DEF Accounted, OnlySent, Orderly
<1> QED
    BY <1>1, <1>2 DEF Orderly

\* Steps that only hand entries over or drop them.
LEMMA HandingOverKeepsOrder ==
    ASSUME Orderly, TypeOK', SlicesDelivered', log' = log, NEW c \in Consumers,
           XReadGroup(c) \/ ReadReplyLost(c) \/ XAck(c) \/ Stop(c) \/ RunReturns(c) \/ Crash(c) \/ Restart(c)
    PROVE  Orderly'
<1>0. /\ last \in Nat /\ Len(log) \in Nat /\ last <= Len(log) /\ log \in Seq(Entry)
      /\ pc \in [Consumers -> PCs] /\ slice \in [Consumers -> [next : Nat, hi : Nat]]
      /\ \A d \in Consumers : Owned(d) \subseteq 1 .. last
      /\ OneOwner /\ OneCopy /\ Accounted /\ OnlySent
    BY OwnedDelivered DEF Orderly
<1>1. sent' = sent /\ calls' = calls /\ done' = done /\ dlq' = dlq
    BY DEF XReadGroup, ReadReplyLost, XAck, Stop, RunReturns, Crash, Restart, streamVars, historyVars
<1>2. /\ last' \in Nat /\ last <= last'
      /\ \A d \in Consumers : Owned(d)' \subseteq Owned(d) \/ (d = c /\ Owned(d)' \subseteq last + 1 .. last')
    <2>1. \A d \in Consumers \ {c} : pc'[d] = pc[d] /\ slice'[d] = slice[d] /\ Owned(d)' = Owned(d)
        BY <1>0 DEF XReadGroup, ReadReplyLost, XAck, NextEntry, Stop, RunReturns, Crash, Restart, Owned, AtWork
    <2>2. CASE XReadGroup(c) \/ ReadReplyLost(c)
        <3> DEFINE hi == IF last + BatchSize < Len(log) THEN last + BatchSize ELSE Len(log)
        <3>1. hi \in Nat /\ last + 1 <= hi /\ last' = hi
            BY <2>2, ReadDelivers DEF XReadGroup, ReadReplyLost, Orderly
        <3>2. \/ slice' = [slice EXCEPT ![c] = [next |-> last + 1, hi |-> hi]]
              \/ slice' = slice /\ pc' = pc
            BY <2>2 DEF XReadGroup, ReadReplyLost
        <3> HIDE DEF hi
        <3>3. Owned(c)' \subseteq Owned(c) \/ Owned(c)' \subseteq last + 1 .. last'
            BY <1>0, <3>1, <3>2 DEF Owned, AtWork
        <3> QED
            BY <1>0, <2>1, <3>1, <3>3
    <2>3. CASE XAck(c)
        <3>1. Owned(c)' \subseteq Owned(c)
            BY <1>0, <2>3 DEF XAck, NextEntry, Owned, AtWork, NoSlice
        <3> QED
            BY <1>0, <2>1, <2>3, <3>1 DEF XAck
    <2>4. CASE Stop(c) \/ RunReturns(c) \/ Crash(c) \/ Restart(c)
        <3>1. Owned(c)' \subseteq Owned(c)
            BY <1>0, <2>4 DEF Stop, RunReturns, Crash, Restart, Owned, AtWork, NoSlice
        <3> QED
            BY <1>0, <2>1, <2>4, <3>1 DEF Stop, RunReturns, Crash, Restart, streamVars
    <2> QED
        BY <2>2, <2>3, <2>4
<1>2a. \A d \in Consumers : \A i \in Owned(d)' : i \in Owned(d) \/ (d = c /\ i \in Nat /\ i > last)
    BY <1>0, <1>2
<1>3. ASSUME NEW i \in 1 .. Len(log), Open(i)' PROVE Open(i)
    <2>1. CASE i > last'
        BY <1>0, <1>2, <2>1 DEF Open
    <2>2. CASE \E d \in Consumers : i \in Owned(d)'
        BY <1>2a, <2>2 DEF Open
    <2> QED
        BY <1>3, <2>1, <2>2 DEF Open
<1>4. ASSUME NEW a \in Consumers, NEW b \in Consumers, NEW i \in Owned(a)' \cap Owned(b)'
      PROVE  a = b
    <2>1. CASE i \in Owned(a) /\ i \in Owned(b)
        BY <1>0, <2>1 DEF OneOwner
    <2>2. CASE ~(i \in Owned(a) /\ i \in Owned(b))
        <3>1. i > last /\ i \in Nat
            BY <1>2a, <2>2
        <3>2. i \notin Owned(a) /\ i \notin Owned(b)
            BY <1>0, <3>1
        <3> QED
            BY <1>2a, <3>2
    <2> QED
        BY <2>1, <2>2
<1>5. ASSUME NEW i \in 1 .. Len(log), Open(i)'
      PROVE  Begun(i)' <=> Begun(i)
    <2>1. \A d \in Consumers \ {c} : pc'[d] = pc[d] /\ slice'[d] = slice[d] /\ Owned(d)' = Owned(d)
        BY <1>0 DEF XReadGroup, ReadReplyLost, XAck, NextEntry, Stop, RunReturns, Crash, Restart, Owned, AtWork
    <2>2. CASE ~(Crash(c) /\ pc[c] \in {"handling", "failed"})
        <3>1. \/ pc[c] \notin {"handling", "failed"} /\ pc'[c] \notin {"handling", "failed"}
              \/ pc'[c] = pc[c] /\ slice'[c] = slice[c]
            BY <1>0, <2>2 DEF XReadGroup, ReadReplyLost, XAck, NextEntry, Stop, RunReturns, Crash, Restart
        <3> QED
            BY <2>1, <3>1 DEF Begun
    <2>3. CASE Crash(c) /\ pc[c] \in {"handling", "failed"}
        <3>1. pc'[c] = "down" /\ Owned(c)' = {} /\ last' = last
            BY <1>0, <2>3 DEF Crash, Owned, AtWork, streamVars
        <3>2. slice[c].next \in 1 .. last /\ \A d \in Consumers \ {c} : slice[c].next \notin Owned(d)
            BY <1>0, <2>3, WorkIsExclusive
        <3>3. i > last \/ \E d \in Consumers \ {c} : i \in Owned(d)
            BY <1>5, <2>1, <3>1 DEF Open
        <3>4. i # slice[c].next
            BY <1>0, <3>2, <3>3
        <3> QED
            BY <2>1, <3>1, <3>4 DEF Begun
    <2> QED
        BY <2>2, <2>3
<1> QED
    BY <1>0, <1>1, <1>2, <1>3, <1>4, <1>5, AddingNoneKeepsOrder DEF Accounted, OnlySent

\* Steps of handleMessage that add no entry.
LEMMA HandlingKeepsOrder ==
    ASSUME Orderly, TypeOK', SlicesDelivered', log' = log, NEW c \in Consumers,
           CallHandler(c) \/ HandlerOK(c) \/ HandlerFails(c) \/ DeadLetter(c) \/ Requeue(c)
    PROVE  Orderly'
<1> DEFINE k == slice[c].next
<1>0. /\ last \in Nat /\ Len(log) \in Nat /\ last <= Len(log) /\ log \in Seq(Entry)
      /\ pc \in [Consumers -> PCs] /\ slice \in [Consumers -> [next : Nat, hi : Nat]]
      /\ OneOwner /\ OneCopy /\ Accounted /\ OnlySent /\ calls \in [Msgs -> Nat]
      /\ \A i \in 1 .. Len(log) : log[i].msg \in Msgs
    BY OwnedDelivered DEF Orderly, TypeOK
<1>1. /\ pc[c] \in {"picked", "handling", "failed"} /\ slice' = slice /\ last' = last /\ sent' = sent
      /\ \E to \in {"handling", "ack", "failed"} : pc' = [pc EXCEPT ![c] = to]
      /\ pc'[c] = "failed" => pc[c] = "handling"
    BY <1>0 DEF CallHandler, HandlerOK, HandlerFails, DeadLetter, Requeue, streamVars, historyVars
<1>2. /\ k \in Owned(c) /\ Open(k) /\ k \in 1 .. Len(log) /\ Current(c) = log[k]
      /\ log[k].msg \in sent \ (done \cup dlq) /\ log[k].msg \in Msgs
      /\ log[k].attempts \in Nat
      /\ calls[log[k].msg] = log[k].attempts + IF pc[c] = "picked" THEN 0 ELSE 1
      /\ \A d \in Consumers \ {c} : k \notin Owned(d)
      /\ \A d \in Consumers \ {c} : pc[d] \in {"handling", "failed"} => slice[d].next # k
    BY <1>1, WorkIsExclusive DEF Current
<1>3. \A d \in Consumers : /\ Owned(d)' \subseteq Owned(d)
                           /\ d = c /\ pc'[c] = "ack" => k \notin Owned(d)'
    BY <1>0, <1>1 DEF Owned, AtWork
<1>4. /\ \A i \in 1 .. Len(log) : Open(i)' => Open(i)
      /\ pc'[c] = "ack" => ~Open(k)'
    <2>1. k <= last
        BY <1>0, <1>2, OwnedDelivered DEF Orderly
    <2> QED
        BY <1>0, <1>1, <1>2, <1>3, <2>1 DEF Open
<1>5. \A a, b \in Consumers : \A i \in Owned(a)' \cap Owned(b)' : a = b
    BY <1>0, <1>3 DEF OneOwner
<1>6. /\ done' \subseteq done \cup {log[k].msg} /\ dlq' \subseteq dlq \cup {log[k].msg}
      /\ pc'[c] # "ack" => done' = done /\ dlq' = dlq
      /\ calls' = IF pc[c] = "picked" THEN [calls EXCEPT ![log[k].msg] = @ + 1] ELSE calls
      /\ pc'[c] = "handling" <=> pc[c] = "picked"
    BY <1>0, <1>2 DEF CallHandler, HandlerOK, HandlerFails, DeadLetter, Requeue, streamVars, historyVars
<1>7. ASSUME NEW i \in 1 .. Len(log), Open(i)'
      PROVE  /\ log[i].msg \notin done' \cup dlq'
             /\ calls'[log[i].msg] = log[i].attempts + IF Begun(i)' THEN 1 ELSE 0
    <2>1. CASE i = k
        <3>1. pc'[c] \in {"handling", "failed"}
            BY <1>0, <1>1, <1>4, <1>7, <2>1
        <3>2. Begun(i)'
            BY <1>1, <2>1, <3>1 DEF Begun
        <3>3. calls'[log[k].msg] = log[k].attempts + 1
            BY <1>0, <1>2, <1>6
        <3> QED
            BY <1>2, <1>6, <2>1, <3>1, <3>2, <3>3
    <2>2. CASE i # k
        <3>1. Open(i) /\ log[i].msg # log[k].msg
            BY <1>0, <1>2, <1>4, <1>7, <2>2 DEF OneCopy
        <3>2. Begun(i)' <=> Begun(i)
            BY <1>0, <1>1, <2>2 DEF Begun
        <3>3. calls'[log[i].msg] = calls[log[i].msg]
            BY <1>0, <1>6, <3>1
        <3> QED
            BY <1>0, <1>6, <3>1, <3>2, <3>3 DEF Accounted
    <2> QED
        BY <2>1, <2>2
<1>8. \A m \in Msgs \ sent : calls'[m] = 0 /\ m \notin done' \cup dlq'
    BY <1>0, <1>2, <1>6 DEF OnlySent
<1> QED
    <2>1. sent' = sent /\ \A i \in 1 .. Len(log) : Open(i)' => Open(i)
        BY <1>1, <1>4
    <2> HIDE DEF k
    <2> QED
        BY <1>5, <1>7, <1>8, <2>1, AddingNoneKeepsOrder

\* Steps that add the one open entry of a message.
LEMMA AddingOneKeepsOrder ==
    ASSUME Orderly, TypeOK', SlicesDelivered', NEW e \in Entry, log' = XAdd(e, 1), last' = last,
           \A c \in Consumers : Owned(c)' \subseteq Owned(c),
           \A i \in 1 .. Len(log) :
              Open(i)' => log[i].msg # e.msg /\ (Begun(i)' <=> Begun(i)),
           NEW new, new = Len(log) + 1, ~Begun(new)', sent \subseteq sent', sent' \subseteq Msgs, e.msg \in sent',
           e.msg \notin done \cup dlq, e.attempts < MaxRetry, calls[e.msg] = e.attempts,
           calls' = calls, done' = done, dlq' = dlq
    PROVE  Orderly'
<1>0. /\ last \in Nat /\ Len(log) \in Nat /\ last <= Len(log) /\ log \in Seq(Entry)
      /\ OneOwner /\ OneCopy /\ Accounted /\ OnlySent
    BY OwnedDelivered DEF Orderly
<1>1. /\ Len(log') = new /\ log'[new] = e /\ \A i \in 1 .. Len(log) : log'[i] = log[i]
    <2>0. 1 \in 0 .. 2
        OBVIOUS
    <2>1. Appended(log', e, 1)
        BY <1>0, <2>0, XAddAppends
    <2> QED
        BY <1>0, <2>1 DEF Appended
<1>2. \A i \in 1 .. Len(log') : i \in 1 .. Len(log) \/ i = new
    BY <1>0, <1>1
<1>3. \A i \in 1 .. Len(log) : Open(i)' => Open(i) /\ i # new
    BY <1>0 DEF Open
<1>4. OneOwner'
    BY <1>0 DEF OneOwner
<1>5. OneCopy'
    BY <1>0, <1>1, <1>2, <1>3 DEF OneCopy
<1>6. Accounted'
    <2>2. ASSUME NEW i \in 1 .. Len(log'), Open(i)'
          PROVE  /\ log'[i].msg \notin done \cup dlq /\ log'[i].attempts < MaxRetry
                 /\ calls[log'[i].msg] = log'[i].attempts + IF Begun(i)' THEN 1 ELSE 0
        <3>1. CASE i \in 1 .. Len(log)
            BY <1>0, <1>1, <1>3, <2>2, <3>1 DEF Accounted
        <3>2. CASE i = new
            <4>1. e.attempts \in Nat
                BY DEF Entry
            <4>2. ~Begun(i)'
                BY <3>2 DEF Begun
            <4> QED
                BY <1>1, <3>2, <4>1, <4>2
        <3> QED
            BY <1>2, <3>1, <3>2
    <2> QED
        BY <2>2 DEF Accounted
<1>7. OnlySent'
    BY <1>0, <1>1, <1>2 DEF OnlySent
<1> QED
    BY <1>4, <1>5, <1>6, <1>7 DEF Orderly

LEMMA NothingAdded ==
    ASSUME log \in Seq(Entry), NEW e \in Entry
    PROVE  XAdd(e, 0) = log
<1>1. [i \in 1 .. 0 |-> e] = << >>
    OBVIOUS
<1> QED
    BY <1>1 DEF XAdd

LEMMA StepKeepsOrder ==
    ASSUME Orderly, [Next]_vars, XAddCopies \subseteq {0, 1}
    PROVE  Orderly'
<1>0. /\ TypeOK' /\ SlicesDelivered' /\ TypeOK /\ SlicesDelivered
      /\ last \in Nat /\ Len(log) \in Nat /\ last <= Len(log) /\ log \in Seq(Entry)
      /\ pc \in [Consumers -> PCs] /\ slice \in [Consumers -> [next : Nat, hi : Nat]]
      /\ OneOwner /\ OneCopy /\ Accounted /\ OnlySent /\ sent' \subseteq Msgs
      /\ \A c \in Consumers : Owned(c) \subseteq 1 .. last
    BY StepIsTyped, OwnedDelivered DEF Orderly, TypeOK
<1>1. ASSUME NEW m \in Msgs, Publish(m) PROVE Orderly'
    <2>1. PICK e \in Entry : e = [msg |-> m, attempts |-> 0]
        BY DEF Entry
    <2>2. /\ log' = XAdd(e, 1) /\ m \notin sent /\ sent' = sent \cup {m} /\ UNCHANGED <<last, pel, slice, pc>>
          /\ calls' = calls /\ done' = done /\ dlq' = dlq
        BY <1>1, <2>1 DEF Publish
    <2>3. /\ \A c \in Consumers : Owned(c)' = Owned(c)
          /\ \A i : Begun(i)' <=> Begun(i)
        BY <2>2 DEF Owned, AtWork, Begun
    <2> DEFINE new == Len(log) + 1
    <2>4. \A c \in Consumers : pc'[c] \in {"handling", "failed"} => slice'[c].next # new
        <3>1. \A c \in Consumers : pc[c] \in {"handling", "failed"} => slice[c].next \in 1 .. Len(log)
            BY <1>0, CurrentEntry DEF AtWork
        <3> QED
            BY <1>0, <2>2, <3>1
    <2>5. \A i \in 1 .. Len(log) : log[i].msg # m
        BY <1>0, <2>2 DEF OnlySent
    <2>6. m \notin done \cup dlq /\ calls[m] = 0 /\ e.msg = m /\ e.attempts = 0 /\ 0 < MaxRetry
        BY <1>0, <2>1, <2>2, BusAssumption DEF OnlySent
    <2> QED
        <3>1. PICK k : k = new
            OBVIOUS
        <3>2. ~Begun(k)' /\ k = Len(log) + 1
            BY <2>4, <3>1 DEF Begun
        <3> HIDE DEF new
        <3> QED
            BY <1>0, <2>2, <2>3, <2>5, <2>6, <3>2, AddingOneKeepsOrder
<1>2. ASSUME NEW c \in Consumers, Requeue(c) PROVE Orderly'
    <2> DEFINE k == slice[c].next
    <2>1. /\ k \in Owned(c) /\ Open(k) /\ k \in 1 .. Len(log) /\ Current(c) = log[k]
          /\ log[k].msg \in sent \ (done \cup dlq) /\ log[k].msg \in Msgs /\ log[k].attempts \in Nat
          /\ calls[log[k].msg] = log[k].attempts + 1
          /\ \A d \in Consumers \ {c} : k \notin Owned(d)
          /\ \A d \in Consumers \ {c} : pc[d] \in {"handling", "failed"} => slice[d].next # k
        BY <1>2, WorkIsExclusive DEF Current, Requeue
    <2>2. PICK e \in Entry : e = [msg |-> log[k].msg, attempts |-> log[k].attempts + 1]
        <3>1. [msg |-> log[k].msg, attempts |-> log[k].attempts + 1] \in Entry
            BY <2>1 DEF Entry
        <3> QED
            BY <3>1
    <2>3. \/ log' = XAdd(e, 0) \/ log' = XAdd(e, 1)
        BY <1>2, <2>1, <2>2 DEF Requeue, Copies
    <2>4. CASE log' = XAdd(e, 0)
        BY <1>0, <1>2, <2>4, NothingAdded, HandlingKeepsOrder
    <2>5. CASE log' = XAdd(e, 1)
        <3>1. /\ last' = last /\ slice' = slice /\ pc[c] = "failed" /\ pc' = [pc EXCEPT ![c] = "ack"]
              /\ calls' = calls /\ done' = done /\ dlq' = dlq /\ sent' = sent
              /\ log[k].attempts + 1 < MaxRetry
            BY <1>2, <2>1 DEF Requeue, historyVars
        <3>2. \A d \in Consumers : Owned(d)' \subseteq Owned(d) /\ k \notin Owned(d)'
            BY <1>0, <2>1, <3>1 DEF Owned, AtWork
        <3>3. k <= last
            BY <1>0, <2>1
        <3>4. ASSUME NEW i \in 1 .. Len(log), Open(i)'
              PROVE  log[i].msg # e.msg /\ (Begun(i)' <=> Begun(i))
            <4>1. Open(i) /\ i # k
                BY <1>0, <3>1, <3>2, <3>3, <3>4 DEF Open
            <4>2. log[i].msg # log[k].msg
                BY <1>0, <2>1, <4>1 DEF OneCopy
            <4>3. Begun(i)' <=> Begun(i)
                BY <1>0, <3>1, <4>1 DEF Begun
            <4> QED
                BY <2>2, <4>2, <4>3
        <3>4a. PICK new : new = Len(log) + 1
            OBVIOUS
        <3>5. ~Begun(new)'
            <4>1. \A d \in Consumers : pc[d] \in {"handling", "failed"} => slice[d].next \in 1 .. Len(log)
                BY <1>0, CurrentEntry DEF AtWork
            <4> QED
                BY <1>0, <3>1, <3>4a, <4>1 DEF Begun
        <3>6. /\ e.msg \in sent' /\ e.msg \notin done \cup dlq /\ e.attempts < MaxRetry
              /\ calls[e.msg] = e.attempts
            BY <2>1, <2>2, <3>1
        <3> QED
            BY <1>0, <2>5, <3>1, <3>2, <3>4, <3>5, <3>6, <3>4a, AddingOneKeepsOrder
    <2> QED
        BY <2>3, <2>4, <2>5
<1>3. ASSUME NEW c \in Consumers,
             CallHandler(c) \/ HandlerOK(c) \/ HandlerFails(c) \/ DeadLetter(c)
      PROVE  Orderly'
    <2>1. log' = log
        BY <1>3 DEF CallHandler, HandlerOK, HandlerFails, DeadLetter, streamVars
    <2> QED
        BY <1>0, <1>3, <2>1, HandlingKeepsOrder
<1>4. ASSUME NEW c \in Consumers,
             \/ XReadGroup(c) \/ ReadReplyLost(c) \/ XAck(c) \/ Stop(c) \/ RunReturns(c)
             \/ Crash(c) \/ Restart(c)
      PROVE  Orderly'
    <2>1. log' = log
        BY <1>4 DEF XReadGroup, ReadReplyLost, XAck, Stop, RunReturns, Crash, Restart, streamVars
    <2> QED
        BY <1>0, <1>4, <2>1, HandingOverKeepsOrder
<1>5. CASE UNCHANGED vars
    <2>1. TypeOK' /\ SlicesDelivered' /\ OnlySent'
        BY <1>0, <1>5 DEF vars, TypeOK, SlicesDelivered, OnlySent
    <2>2. /\ \A i : (Open(i)' <=> Open(i)) /\ (Begun(i)' <=> Begun(i))
          /\ \A c : Owned(c)' = Owned(c)
        BY <1>5 DEF vars, Open, Owned, Begun, AtWork
    <2>3. OneOwner' /\ OneCopy' /\ Accounted'
        BY <1>0, <1>5, <2>2 DEF vars, OneOwner, OneCopy, Accounted
    <2> QED
        BY <2>1, <2>3 DEF Orderly
<1> QED
    BY <1>1, <1>2, <1>3, <1>4, <1>5 DEF Next, RunTopic, HandleMessage

LEMMA StartsInOrder == Init => Orderly
<1> SUFFICES ASSUME Init PROVE Orderly
    OBVIOUS
<1>1. TypeOK /\ SlicesDelivered
    BY StartIsTyped
<1>2. /\ log = << >> /\ Len(log) = 0 /\ 1 .. 0 = {} /\ \A c \in Consumers : Owned(c) = {}
    BY DEF Init, Owned, AtWork
<1> QED
    BY <1>1, <1>2 DEF Init, Orderly, OneOwner, OneCopy, Accounted, OnlySent

-----------------------------------------------------------------------------
(* Every step of the bus is a step of Delivery or leaves it where it is. *)

\* A step of consumer c changes nothing about what the others are handling.
LEMMA OthersHandling ==
    ASSUME Orderly, [Next]_vars, NEW d \in Consumers, pc[d] = "handling",
           pc'[d] = pc[d], slice'[d] = slice[d]
    PROVE  Current(d)' = Current(d)
<1>1. slice[d].next \in 1 .. Len(log)
    BY WorkIsExclusive
<1> QED
    BY <1>1, LogGrows DEF Orderly, Current, Growing

LEMMA OneStatusMoves ==
    ASSUME NEW m \in Msgs, NEW from, NEW to, Status(m) = from, Status(m)' = to,
           \A x \in Msgs \ {m} : Status(x)' = Status(x)
    PROVE  Contract!Move(m, from, to)
    BY DEF Contract!Move

\* The statuses stay as they are when nothing is sent, accepted or dead-lettered and
\* no consumer begins or ends a call.
LEMMA StatusStays ==
    ASSUME Orderly, [Next]_vars, sent' = sent, done' = done, dlq' = dlq, calls' = calls,
           \A d \in Consumers : (pc'[d] = "handling") <=> (pc[d] = "handling"),
           \A d \in Consumers : pc[d] = "handling" => slice'[d] = slice[d]
    PROVE  UNCHANGED Contract!vars
<1>1. \A d \in Consumers : pc[d] = "handling" => Current(d)' = Current(d)
    BY OthersHandling
<1>2. \A m \in Msgs : Handled(m)' <=> Handled(m)
    BY <1>1 DEF Handled
<1>3. \A m \in Msgs : Status(m)' = Status(m)
    BY <1>2 DEF Status
<1> QED
    BY <1>3 DEF Contract!vars

\* A step of consumer c that begins or ends a call.
LEMMA CallMovesStatus ==
    ASSUME Orderly, [Next]_vars, NEW c \in Consumers, pc[c] \in {"picked", "handling", "failed"},
           NEW m, m = Current(c).msg, NEW to \in PCs, pc' = [pc EXCEPT ![c] = to],
           \A d \in Consumers \ {c} : slice'[d] = slice[d],
           to = "handling" => slice'[c] = slice[c] /\ log' = log, sent' = sent,
           done' = done \/ done' = done \cup {m}, dlq' = dlq \/ dlq' = dlq \cup {m}
    PROVE  /\ m \in Msgs
           /\ \A x \in Msgs \ {m} : Status(x)' = Status(x)
           /\ Status(m) = IF pc[c] = "handling" THEN "trying" ELSE "pending"
           /\ Status(m)' = IF m \in done' THEN "done" ELSE IF m \in dlq' THEN "dead"
                           ELSE IF to = "handling" THEN "trying" ELSE "pending"
<1>0. pc \in [Consumers -> PCs]
    BY DEF Orderly, TypeOK
<1>1. /\ m \in sent \ (done \cup dlq) /\ m \in Msgs
      /\ \A d \in Consumers \ {c} : pc[d] = "handling" => Current(d).msg # m
    BY WorkIsExclusive
<1>2. \A d \in Consumers \ {c} : /\ pc'[d] = pc[d]
                                 /\ pc[d] = "handling" => Current(d)' = Current(d)
    BY <1>0, OthersHandling
<1>3. pc'[c] = to /\ (to = "handling" => Current(c)' = Current(c))
    BY <1>0 DEF Current
<1>4. Handled(m) <=> pc[c] = "handling"
    BY <1>1 DEF Handled
<1>5. Handled(m)' <=> to = "handling"
    BY <1>1, <1>2, <1>3 DEF Handled
<1>6. \A x \in Msgs \ {m} : Handled(x)' <=> Handled(x)
    BY <1>1, <1>2, <1>3 DEF Handled
<1>7. \A x \in Msgs \ {m} : Status(x)' = Status(x)
    BY <1>6 DEF Status
<1>8. Status(m) = IF pc[c] = "handling" THEN "trying" ELSE "pending"
    BY <1>1, <1>4 DEF Status
<1>9. Status(m)' = IF m \in done' THEN "done" ELSE IF m \in dlq' THEN "dead"
                   ELSE IF to = "handling" THEN "trying" ELSE "pending"
    BY <1>1, <1>5 DEF Status
<1> QED
    BY <1>1, <1>7, <1>8, <1>9

LEMMA StepIsDelivery ==
    ASSUME Orderly, [Next]_vars, XAddCopies \subseteq {0, 1}
    PROVE  [Contract!Next]_(Contract!vars)
<1>0. /\ pc \in [Consumers -> PCs] /\ slice \in [Consumers -> [next : Nat, hi : Nat]]
      /\ calls \in [Msgs -> Nat] /\ log \in Seq(Entry)
      /\ OnlySent /\ TypeOK /\ SlicesDelivered
    BY DEF Orderly, TypeOK
<1>1. ASSUME NEW m \in Msgs, Publish(m) PROVE Contract!Send(m)
    <2>1. /\ m \notin sent /\ m \notin done \cup dlq /\ pc' = pc /\ slice' = slice
          /\ sent' = sent \cup {m} /\ done' = done /\ dlq' = dlq /\ calls' = calls
        BY <1>0, <1>1 DEF Publish, OnlySent
    <2>2. \A x \in Msgs : Handled(x)' <=> Handled(x)
        BY <2>1, OthersHandling DEF Handled
    <2>3. ~Handled(m)
        BY <2>1, WorkIsExclusive DEF Handled
    <2>4. /\ Status(m) = "unsent" /\ Status(m)' = "pending"
          /\ \A x \in Msgs \ {m} : Status(x)' = Status(x)
        BY <2>1, <2>2, <2>3 DEF Status
    <2> QED
        BY <2>1, <2>4, OneStatusMoves DEF Contract!Send
<1>2. ASSUME NEW c \in Consumers, CallHandler(c) PROVE \E m \in Msgs : Contract!Try(m)
    <2>0. PICK m : m = Current(c).msg
        OBVIOUS
    <2>1. /\ pc[c] = "picked" /\ pc' = [pc EXCEPT ![c] = "handling"] /\ log' = log /\ slice' = slice
          /\ sent' = sent /\ done' = done /\ dlq' = dlq /\ calls' = [calls EXCEPT ![m] = @ + 1]
        BY <2>0, <1>2 DEF CallHandler, streamVars
    <2>2. /\ m \in Msgs /\ m \notin done \cup dlq /\ calls[m] < MaxRetry
        BY <1>0, <2>0, <2>1, WorkIsExclusive, SMTT(30)
    <2>3. /\ \A x \in Msgs \ {m} : Status(x)' = Status(x)
          /\ Status(m) = "pending" /\ Status(m)' = "trying"
        BY <2>0, <2>1, <2>2, CallMovesStatus DEF PCs
    <2>4. Contract!Move(m, "pending", "trying")
        BY <2>2, <2>3, OneStatusMoves
    <2> QED
        BY <2>1, <2>2, <2>4 DEF Contract!Try
<1>3. ASSUME NEW c \in Consumers, HandlerOK(c) PROVE \E m \in Msgs : Contract!Succeed(m)
    <2>0. PICK m : m = Current(c).msg
        OBVIOUS
    <2>1. /\ pc[c] = "handling" /\ pc' = [pc EXCEPT ![c] = "ack"] /\ slice' = slice
          /\ sent' = sent /\ done' = done \cup {m} /\ dlq' = dlq /\ calls' = calls
        BY <2>0, <1>3 DEF HandlerOK, streamVars
    <2>2. /\ m \in Msgs /\ \A x \in Msgs \ {m} : Status(x)' = Status(x)
          /\ Status(m) = "trying" /\ Status(m)' = "done"
        BY <2>0, <2>1, CallMovesStatus DEF PCs
    <2> QED
        BY <2>1, <2>2, OneStatusMoves DEF Contract!Succeed
<1>4. ASSUME NEW c \in Consumers, pc[c] = "handling", HandlerFails(c) \/ Crash(c)
      PROVE  \E m \in Msgs : Contract!Fail(m)
    <2>0. PICK m : m = Current(c).msg
        OBVIOUS
    <2>1. /\ \A d \in Consumers \ {c} : slice'[d] = slice[d]
          /\ sent' = sent /\ done' = done /\ dlq' = dlq /\ calls' = calls
        BY <1>0, <1>4 DEF HandlerFails, Crash, streamVars, historyVars
    <2>2. PICK to \in {"failed", "down"} : pc' = [pc EXCEPT ![c] = to]
        BY <1>4 DEF HandlerFails, Crash
    <2>3. m \in Msgs /\ m \notin done \cup dlq
        BY <1>4, <2>0, WorkIsExclusive
    <2>4. /\ \A x \in Msgs \ {m} : Status(x)' = Status(x)
          /\ Status(m) = "trying" /\ Status(m)' = "pending"
        BY <1>4, <2>0, <2>1, <2>2, <2>3, CallMovesStatus DEF PCs
    <2> QED
        BY <2>1, <2>3, <2>4, OneStatusMoves DEF Contract!Fail
<1>5. ASSUME NEW c \in Consumers, DeadLetter(c), dlq' # dlq PROVE \E m \in Msgs : Contract!Bury(m)
    <2>0. PICK m : m = Current(c).msg
        OBVIOUS
    <2>1. /\ pc[c] = "failed" /\ pc' = [pc EXCEPT ![c] = "ack"] /\ slice' = slice
          /\ sent' = sent /\ done' = done /\ dlq' = dlq \cup {m} /\ calls' = calls
          /\ Current(c).attempts + 1 >= MaxRetry
        BY <2>0, <1>5 DEF DeadLetter, historyVars
    <2>2. /\ m \in Msgs /\ m \notin done /\ calls[m] = MaxRetry
        <3>1. /\ m \in Msgs /\ m \notin done /\ calls[m] = Current(c).attempts + 1
              /\ Current(c).attempts \in Nat /\ Current(c).attempts < MaxRetry
            BY <2>0, <2>1, WorkIsExclusive
        <3>2. MaxRetry \in Nat
            BY BusAssumption
        <3> QED
            BY <2>1, <3>1, <3>2
    <2>3. /\ \A x \in Msgs \ {m} : Status(x)' = Status(x)
          /\ Status(m) = "pending" /\ Status(m)' = "dead"
        BY <2>0, <2>1, <2>2, CallMovesStatus DEF PCs
    <2> QED
        BY <2>1, <2>2, <2>3, OneStatusMoves DEF Contract!Bury
<1>6. ASSUME NEW c \in Consumers,
             \/ XReadGroup(c) \/ ReadReplyLost(c) \/ Requeue(c) \/ XAck(c) \/ Stop(c) \/ RunReturns(c)
             \/ Restart(c) \/ (DeadLetter(c) /\ dlq' = dlq) \/ (Crash(c) /\ pc[c] # "handling")
      PROVE  UNCHANGED Contract!vars
    <2>1. sent' = sent /\ done' = done /\ dlq' = dlq /\ calls' = calls
        BY <1>6 DEF XReadGroup, ReadReplyLost, Requeue, XAck, Stop, RunReturns, Restart, DeadLetter,
                    Crash, streamVars, historyVars
    <2>2. \A d \in Consumers : /\ (pc'[d] = "handling") <=> (pc[d] = "handling")
                               /\ pc[d] = "handling" => slice'[d] = slice[d]
        BY <1>0, <1>6 DEF XReadGroup, ReadReplyLost, Requeue, XAck, NextEntry, Stop, RunReturns, Restart,
                          DeadLetter, Crash
    <2> QED
        BY <2>1, <2>2, StatusStays
<1>7. CASE UNCHANGED vars
    BY <1>7, StatusStays DEF vars
<1>8. ASSUME NEW c \in Consumers, HandlerFails(c) PROVE pc[c] = "handling"
    BY <1>8 DEF HandlerFails
<1> QED
    BY <1>1, <1>2, <1>3, <1>4, <1>5, <1>6, <1>7, <1>8
    DEF Next, RunTopic, HandleMessage, Contract!Next, Contract!Attend

LEMMA StartIsDelivery == Init => Contract!Init
<1> SUFFICES ASSUME Init PROVE Contract!Init
    OBVIOUS
<1>1. \A m \in Msgs : Status(m) = "unsent"
    BY DEF Init, Status, Handled
<1> QED
    BY <1>1 DEF Init, Contract!Init

\* If an XADD never leaves two entries, the bus keeps the contract of Delivery whatever
\* processes stop, crash, lose replies or fail to acknowledge: one call of the handler at
\* a time for a message, at most MaxRetry of them, none after it was accepted, and the
\* dead letter stream only after the last has failed (mq.go:83-171).
THEOREM BusImplementsDelivery ==
    ASSUME XAddCopies \subseteq {0, 1}
    PROVE  Spec => KeepsContract
<1>1. Init => Orderly /\ Contract!Init
    BY StartsInOrder, StartIsDelivery
<1>2. Orderly /\ [Next]_vars => Orderly' /\ [Contract!Next]_(Contract!vars)
    BY StepKeepsOrder, StepIsDelivery
<1> QED
    BY <1>1, <1>2, PTL DEF Spec, KeepsContract, Contract!Spec
=============================================================================
