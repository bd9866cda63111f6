---------------------------- MODULE ChanBusProofs ----------------------------
(***************************************************************************)
(* Proofs about ChanBus, for any publishers, any buffer and any number of  *)
(* messages, whether or not Run is called or cancelled.                    *)
(***************************************************************************)
EXTENDS ChanBus, SequenceTheorems, TLAPS

LEMMA StartIsTyped == Init => TypeOK
<1> SUFFICES ASSUME Init PROVE TypeOK
    OBVIOUS
<1>1. blocked = <<>> /\ blocked \in Seq(Publishers)
    BY EmptySeq DEF Init
<1>2. buffered \in 0 .. Cap /\ calls \in 0 .. MaxMsgs
    BY ChanBusAssumption DEF Init
<1>3. runner \in {"absent", "select", "handler", "returned"} /\ cancelled \in BOOLEAN
    BY ChanBusAssumption DEF Init
<1> QED
    BY <1>1, <1>2, <1>3 DEF TypeOK

\* Every step keeps the types.
LEMMA StepIsTyped == TypeOK /\ [Next]_vars => TypeOK'
<1> SUFFICES ASSUME TypeOK, [Next]_vars PROVE TypeOK'
    OBVIOUS
<1> USE ChanBusAssumption DEF TypeOK
<1>1. ASSUME NEW p \in Publishers, Publish(p) PROVE TypeOK'
    <2>1. CASE buffered < Cap
        BY <1>1, <2>1 DEF Publish
    <2>2. CASE ~ buffered < Cap
        <3>1. blocked' = Append(blocked, p) /\ buffered' = buffered
            BY <1>1, <2>2 DEF Publish
        <3>2. blocked' \in Seq(Publishers)
            BY <3>1, AppendProperties
        <3> QED
            BY <1>1, <3>1, <3>2 DEF Publish
    <2> QED
        BY <2>1, <2>2
<1>2. CASE Receive
    <2>1. CASE blocked = <<>>
        BY <1>2, <2>1 DEF Receive
    <2>2. CASE blocked # <<>>
        <3>1. blocked' \in Seq(Publishers)
            BY <1>2, <2>2, HeadTailProperties DEF Receive
        <3> QED
            BY <1>2, <2>2, <3>1 DEF Receive
    <2> QED
        BY <2>1, <2>2
<1>3. CASE Handle \/ Done \/ Cancel \/ UNCHANGED vars
    BY <1>3 DEF Handle, Done, Cancel, vars
<1> QED
    BY <1>1, <1>2, <1>3 DEF Next, Run

\* The buffer never holds more than its capacity, publishers wait only at a full one,
\* and the rest is well typed (mq.go:38-51, 199-225).
THEOREM TypeCorrect == Spec => []TypeOK
    BY StartIsTyped, StepIsTyped, PTL DEF Spec
=============================================================================
