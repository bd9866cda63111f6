-------------------------- MODULE LikeServiceProofs --------------------------
(***************************************************************************)
(* Proofs about LikeService: type correctness, that no like is lost or     *)
(* counted twice while the process is up, and how far failing INCRBYs can  *)
(* take a count, for any numbers of users, videos, goroutines, calls and   *)
(* failed flushes.                                                         *)
(***************************************************************************)
EXTENDS LikeService, FiniteSetTheorems, TLAPS

\* Where a step of the request goroutine leaves a well-typed request.
LEMMA ActiveRequest ==
    ASSUME TypeOK, NEW p \in Procs, req[p].pc \in {"gated", "counted", "undo"}
    PROVE  req[p] \in Active
<1>1. req[p] \in {Idle} \cup Active \cup Stamped
  BY DEF TypeOK
<1>2. req[p] # Idle
  BY DEF Idle
<1>3. req[p] \notin Stamped
  BY DEF Stamped
<1> QED
  BY <1>1, <1>2, <1>3

\* Every step keeps the types.
LEMMA StepIsTyped == TypeOK /\ [Next]_vars => TypeOK'
<1> SUFFICES ASSUME TypeOK, [Next]_vars PROVE TypeOK'
  OBVIOUS
<1> USE DEF TypeOK, counterVars
<1>1. ASSUME NEW p \in Procs, NEW u \in Users, NEW v \in Videos, NEW op \in Ops,
             Gate(p, u, v, op)
      PROVE  TypeOK'
  BY <1>1 DEF Gate, Toggled, Active, Idle
<1>1a. ASSUME NEW p \in Procs, NEW u \in Users, NEW v \in Videos, NEW op \in Ops,
             GateFails(p, u, v, op)
      PROVE  TypeOK'
  <2>1. Delta(op) \in Int /\ Toggled(u, v, op) \subseteq Users \X Videos
    BY DEF Delta, Toggled
  <2> QED
    BY <1>1a, <2>1 DEF GateFails
<1>2. ASSUME NEW p \in Procs, Add(p) \/ IncrBy(p)
      PROVE  TypeOK'
  <2>1. req[p] \in Active
    BY <1>2, ActiveRequest DEF Add, IncrBy
  <2>2. Delta(req[p].op) \in Int
    BY DEF Delta
  <2>3. [req[p] EXCEPT !.pc = "counted"] \in Active
    BY <2>1 DEF Active
  <2> QED
    BY <1>2, <2>1, <2>2, <2>3 DEF Add, IncrBy, Active
<1>3. ASSUME NEW p \in Procs, IncrByFails(p) \/ IncrByTwice(p)
      PROVE  TypeOK'
  <2>1. req[p] \in Active
    BY <1>3, ActiveRequest DEF IncrByFails, IncrByTwice
  <2>2. [req[p] EXCEPT !.pc = "undo"] \in Active /\ [req[p] EXCEPT !.pc = "counted"] \in Active
    BY <2>1 DEF Active
  <2>3. Delta(req[p].op) \in Int /\ 2 * Delta(req[p].op) \in Int
    BY DEF Delta
  <2> QED
    BY <1>3, <2>2, <2>3 DEF IncrByFails, IncrByTwice
<1>4. ASSUME NEW p \in Procs, UndoGate(p)
      PROVE  TypeOK'
  <2>1. req[p] \in Active
    BY <1>4, ActiveRequest DEF UndoGate
  <2> QED
    BY <1>4, <2>1 DEF UndoGate, Active
<1>5. ASSUME NEW p \in Procs, Stamp(p)
      PROVE  TypeOK'
  <2>1. req[p] \in Active
    BY <1>5, ActiveRequest DEF Stamp
  <2> QED
    BY <1>5, <2>1 DEF Stamp, Active, Stamped
<1>6. ASSUME NEW p \in Procs, Publish(p)
      PROVE  TypeOK'
  BY <1>6 DEF Publish
<1>7. CASE FlushTake
  BY <1>7 DEF FlushTake, Zero
<1>8. CASE LastFlushTake
  BY <1>8 DEF LastFlushTake, Zero
<1>9. CASE ExecOK
  BY <1>9 DEF ExecOK, Zero, AfterExec
<1>10. ASSUME NEW applied \in SUBSET Videos, ExecFails(applied)
       PROVE  TypeOK'
  BY <1>10, LikeAssumption DEF ExecFails, Zero, AfterExec
<1>11. CASE Cancel
  BY <1>11 DEF Cancel
<1>12. CASE Exit
  BY <1>12 DEF Exit, Zero
<1>13. CASE Tick
  BY <1>13 DEF Tick
<1>14. CASE UNCHANGED vars
  BY <1>14 DEF vars
<1> QED
  BY <1>1, <1>1a, <1>2, <1>3, <1>4, <1>5, <1>6, <1>7, <1>8, <1>9, <1>10, <1>11,
     <1>12, <1>13, <1>14 DEF Next, RequestStep

LEMMA StartIsTyped == Init => TypeOK
BY LikeAssumption DEF Init, TypeOK, Zero

\* Every variable keeps its type: the service's steps never leave a request,
\* a counter or the aggregator in a shape the code has no case for.
THEOREM TypeCorrect == Spec => []TypeOK
BY StartIsTyped, StepIsTyped, PTL DEF Spec

-----------------------------------------------------------------------------
(* No like is lost or counted twice. *)

\* The strengthening.  A flush overwrites batch, so batch must be empty
\* whenever none is under way; and a request undoes its gate only where there
\* is no aggregator and an INCRBY has failed.
IInv ==
    /\ TypeOK
    /\ Conservation
    /\ agg \notin {"exec", "lastExec"} => batch = Zero
    /\ \A p \in Procs : req[p].pc = "undo" => agg = "none" /\ failures > 0

\* The sets that Drift counts are finite, so their cardinalities are numbers.
LEMMA CountedSetsFinite ==
    ASSUME NEW v
    PROVE  /\ IsFiniteSet(Likers(v)) /\ Cardinality(Likers(v)) \in Nat
           /\ \A op \in Ops : IsFiniteSet(Owing(v, op)) /\ Cardinality(Owing(v, op)) \in Nat
<1>1. Likers(v) \subseteq Users /\ \A op \in Ops : Owing(v, op) \subseteq Procs
  BY DEF Likers, Owing
<1>2. IsFiniteSet(Likers(v)) /\ \A op \in Ops : IsFiniteSet(Owing(v, op))
  BY <1>1, FS_Subset, LikeAssumption
<1> QED
  BY <1>2, FS_CardinalityType

LEMMA DriftIsInt ==
    ASSUME TypeOK, NEW v \in Videos
    PROVE  Drift(v) \in Int
<1>1. /\ Cardinality(Likers(v)) \in Nat
      /\ Cardinality(Owing(v, "like")) \in Nat /\ Cardinality(Owing(v, "unlike")) \in Nat
  BY CountedSetsFinite DEF Ops
<1>2. cnt[v] \in Int /\ deltas[v] \in Int /\ batch[v] \in Int
  BY DEF TypeOK
<1> QED
  BY <1>1, <1>2 DEF Drift

\* A step that leaves the gate and the set of owing requests alone keeps the
\* drift when it keeps the sum of the three counters.
LEMMA DriftUnchanged ==
    ASSUME NEW v \in Videos, TypeOK, TypeOK',
           Likers(v)' = Likers(v), \A op \in Ops : Owing(v, op)' = Owing(v, op),
           cnt'[v] + deltas'[v] + batch'[v] = cnt[v] + deltas[v] + batch[v]
    PROVE  Drift(v)' = Drift(v)
<1>1. /\ Cardinality(Likers(v)) \in Nat
      /\ Cardinality(Owing(v, "like")) \in Nat /\ Cardinality(Owing(v, "unlike")) \in Nat
  BY CountedSetsFinite DEF Ops
<1>2. /\ cnt[v] \in Int /\ deltas[v] \in Int /\ batch[v] \in Int
      /\ cnt'[v] \in Int /\ deltas'[v] \in Int /\ batch'[v] \in Int
  BY DEF TypeOK
<1>3. /\ Cardinality(Likers(v))' = Cardinality(Likers(v))
      /\ Cardinality(Owing(v, "like"))' = Cardinality(Owing(v, "like"))
      /\ Cardinality(Owing(v, "unlike"))' = Cardinality(Owing(v, "unlike"))
  BY DEF Ops
<1> QED
  BY <1>1, <1>2, <1>3 DEF Drift

\* A change that SADD or SREM makes moves the number of likers by the delta.
LEMMA ToggleMovesLikers ==
    ASSUME NEW u \in Users, NEW w \in Videos, NEW op \in Ops, NEW v \in Videos,
           (op = "like") = (<<u, w>> \notin liked), liked' = Toggled(u, w, op)
    PROVE  Cardinality(Likers(v))' = Cardinality(Likers(v)) + (IF v = w THEN Delta(op) ELSE 0)
<1>1. CASE v # w
  <2>1. Likers(v)' = Likers(v)
    BY <1>1 DEF Likers, Toggled
  <2> QED
    BY <1>1, <2>1, CountedSetsFinite
<1>2. CASE v = w
  <2>1. Likers(v)' = IF op = "like" THEN Likers(v) \cup {u} ELSE Likers(v) \ {u}
    BY <1>2 DEF Likers, Toggled
  <2>2. (op = "like") <=> (u \notin Likers(v))
    BY <1>2 DEF Likers
  <2>3. CASE op = "like"
    <3>1. Cardinality(Likers(v) \cup {u}) = Cardinality(Likers(v)) + 1
      BY <2>2, <2>3, FS_AddElement, CountedSetsFinite
    <3> QED
      BY <1>2, <2>1, <2>3, <3>1, CountedSetsFinite DEF Delta
  <2>4. CASE op # "like"
    <3>1. Cardinality(Likers(v) \ {u}) = Cardinality(Likers(v)) - 1
      BY <2>2, <2>4, FS_RemoveElement, CountedSetsFinite
    <3> QED
      BY <1>2, <2>1, <2>4, <3>1, CountedSetsFinite DEF Delta
  <2> QED
    BY <2>3, <2>4
<1> QED
  BY <1>1, <1>2

\* Passing the gate changes the set of likers and the set of requests that owe
\* by one each, in step.
LEMMA GateKeepsDrift ==
    ASSUME TypeOK, TypeOK', NEW p \in Procs, NEW u \in Users, NEW w \in Videos, NEW op \in Ops,
           Gate(p, u, w, op), NEW v \in Videos
    PROVE  Drift(v)' = Drift(v)
<1>1. CASE UNCHANGED <<liked, req>>
  <2>1. Likers(v)' = Likers(v) /\ \A o \in Ops : Owing(v, o)' = Owing(v, o)
    BY <1>1 DEF Likers, Owing
  <2> QED
    BY <2>1, DriftUnchanged DEF Gate, counterVars
<1>2. CASE /\ (op = "like") = (<<u, w>> \notin liked)
           /\ liked' = Toggled(u, w, op)
           /\ req' = [req EXCEPT ![p] = [pc |-> "gated", u |-> u, v |-> w, op |-> op]]
  <2>0. req[p].pc = "idle"
    BY DEF Gate, Idle
  <2>1. \A o \in Ops : Owing(v, o)' = IF v = w /\ o = op THEN Owing(v, o) \cup {p} ELSE Owing(v, o)
    BY <1>2, <2>0 DEF Owing, TypeOK
  <2>2. p \notin Owing(v, op)
    BY <2>0 DEF Owing
  <2>3. CASE v # w
    <3>1. Likers(v)' = Likers(v)
      BY <1>2, <2>3 DEF Likers, Toggled
    <3> QED
      BY <2>1, <2>3, <3>1, DriftUnchanged DEF Gate, counterVars
  <2>4. CASE v = w
    <3>1. Cardinality(Owing(v, op))' = Cardinality(Owing(v, op)) + 1
      <4>1. Owing(v, op)' = Owing(v, op) \cup {p}
        BY <2>1, <2>4
      <4>2. Cardinality(Owing(v, op) \cup {p}) = Cardinality(Owing(v, op)) + 1
        BY <2>2, FS_AddElement, CountedSetsFinite
      <4> QED
        BY <4>1, <4>2
    <3>4. Cardinality(Likers(v))' = Cardinality(Likers(v)) + Delta(op)
      BY <1>2, <2>4, ToggleMovesLikers
    <3>5. \A o \in Ops \ {op} : Cardinality(Owing(v, o))' = Cardinality(Owing(v, o))
      BY <2>1
    <3>6. cnt'[v] = cnt[v] /\ deltas'[v] = deltas[v] /\ batch'[v] = batch[v]
      BY DEF Gate, counterVars
    <3>7. /\ Cardinality(Likers(v)) \in Nat
          /\ Cardinality(Owing(v, "like")) \in Nat /\ Cardinality(Owing(v, "unlike")) \in Nat
          /\ cnt[v] \in Int /\ deltas[v] \in Int /\ batch[v] \in Int
      BY CountedSetsFinite DEF Ops, TypeOK
    <3>8. CASE op = "like"
      BY <3>8, <3>1, <3>4, <3>5, <3>6, <3>7 DEF Drift, Ops, Delta
    <3>9. CASE op = "unlike"
      BY <3>9, <3>1, <3>4, <3>5, <3>6, <3>7 DEF Drift, Ops, Delta
    <3> QED
      BY <3>8, <3>9 DEF Ops
  <2> QED
    BY <2>3, <2>4
<1> QED
  BY <1>1, <1>2 DEF Gate

\* A gate that changed the set without the request knowing moves the drift by what
\* the lost reply is charged with.
LEMMA LostReplySkews ==
    ASSUME TypeOK, TypeOK', NEW p \in Procs, NEW u \in Users, NEW w \in Videos, NEW op \in Ops,
           GateFails(p, u, w, op), NEW v \in Videos
    PROVE  /\ Drift(v)' = Drift(v) + skew'[v] - skew[v]
           /\ skew'[v] - skew[v] \in {-1, 0, 1}
<1>1. /\ Cardinality(Likers(v)) \in Nat
      /\ Cardinality(Owing(v, "like")) \in Nat /\ Cardinality(Owing(v, "unlike")) \in Nat
      /\ cnt[v] \in Int /\ deltas[v] \in Int /\ batch[v] \in Int /\ skew[v] \in Int
  BY CountedSetsFinite DEF Ops, TypeOK
<1>2. /\ Cardinality(Owing(v, "like"))' = Cardinality(Owing(v, "like"))
      /\ Cardinality(Owing(v, "unlike"))' = Cardinality(Owing(v, "unlike"))
      /\ cnt' = cnt /\ deltas' = deltas /\ batch' = batch
  BY DEF GateFails, counterVars, Owing
<1>3. CASE liked' = liked /\ skew' = skew
  <2>1. Cardinality(Likers(v))' = Cardinality(Likers(v))
    BY <1>3 DEF Likers
  <2> QED
    BY <1>1, <1>2, <1>3, <2>1 DEF Drift
<1>4. CASE /\ (op = "like") = (<<u, w>> \notin liked) /\ liked' = Toggled(u, w, op)
           /\ skew' = [skew EXCEPT ![w] = @ - Delta(op)]
  <2>1. Cardinality(Likers(v))' = Cardinality(Likers(v)) + (IF v = w THEN Delta(op) ELSE 0)
    BY <1>4, ToggleMovesLikers
  <2>2. skew'[v] = skew[v] - (IF v = w THEN Delta(op) ELSE 0)
    BY <1>1, <1>4 DEF TypeOK, Delta
  <2>3. (IF v = w THEN Delta(op) ELSE 0) \in {-1, 0, 1}
    BY DEF Delta
  <2> QED
    BY <1>1, <1>2, <2>1, <2>2, <2>3 DEF Drift
<1> QED
  BY <1>3, <1>4 DEF GateFails

\* Once a request is past the step that counts it, it owes nothing: the drift
\* moves by what was counted less what was owed.
LEMMA OwedSettled ==
    ASSUME TypeOK, TypeOK', NEW p \in Procs, NEW w \in Videos, NEW op \in Ops,
           req[p].pc = "gated", req[p].v = w, req[p].op = op,
           req'[p].pc # "gated", \A q \in Procs \ {p} : req'[q] = req[q],
           liked' = liked, NEW v \in Videos
    PROVE  Drift(v)' = Drift(v) + (cnt'[v] + deltas'[v] + batch'[v]) - (cnt[v] + deltas[v] + batch[v])
                        - (IF v = w THEN Delta(op) ELSE 0)
<1>1. \A o \in Ops : Owing(v, o)' = IF v = w /\ o = op THEN Owing(v, o) \ {p} ELSE Owing(v, o)
  BY DEF Owing
<1>2. v = w => p \in Owing(v, op)
  BY DEF Owing
<1>3. Likers(v)' = Likers(v)
  BY DEF Likers
<1>4. /\ Cardinality(Likers(v)) \in Nat
      /\ Cardinality(Owing(v, "like")) \in Nat /\ Cardinality(Owing(v, "unlike")) \in Nat
      /\ cnt[v] \in Int /\ deltas[v] \in Int /\ batch[v] \in Int
      /\ cnt'[v] \in Int /\ deltas'[v] \in Int /\ batch'[v] \in Int
  BY CountedSetsFinite DEF Ops, TypeOK
<1>5. Cardinality(Likers(v))' = Cardinality(Likers(v))
  BY <1>3
<1>6. CASE v # w
  <2>1. \A o \in Ops : Cardinality(Owing(v, o))' = Cardinality(Owing(v, o))
    BY <1>1, <1>6
  <2> QED
    BY <1>4, <1>5, <1>6, <2>1 DEF Drift, Ops
<1>7. CASE v = w
  <2>1. Cardinality(Owing(v, op))' = Cardinality(Owing(v, op)) - 1
    <3>1. Owing(v, op)' = Owing(v, op) \ {p}
      BY <1>1, <1>7
    <3>2. Cardinality(Owing(v, op) \ {p}) = Cardinality(Owing(v, op)) - 1
      BY <1>2, <1>7, FS_RemoveElement, CountedSetsFinite
    <3> QED
      BY <3>1, <3>2
  <2>2. \A o \in Ops \ {op} : Cardinality(Owing(v, o))' = Cardinality(Owing(v, o))
    BY <1>1
  <2>3. CASE op = "like"
    BY <2>3, <1>4, <1>5, <1>7, <2>1, <2>2 DEF Drift, Ops, Delta
  <2>4. CASE op = "unlike"
    BY <2>4, <1>4, <1>5, <1>7, <2>1, <2>2 DEF Drift, Ops, Delta
  <2> QED
    BY <2>3, <2>4 DEF Ops
<1> QED
  BY <1>6, <1>7

\* The request whose delta a step accounts for, or fails to.
Counting(p) == Add(p) \/ IncrBy(p) \/ IncrByFails(p) \/ IncrByTwice(p)

LEMMA CountingRequest ==
    ASSUME TypeOK, TypeOK', NEW p \in Procs, Counting(p)
    PROVE  /\ req[p].pc = "gated" /\ req[p].v \in Videos /\ req[p].op \in Ops
           /\ req'[p].pc \in {"counted", "undo"}
           /\ req'[p].v = req[p].v /\ req'[p].op = req[p].op
           /\ \A q \in Procs \ {p} : req'[q] = req[q]
           /\ liked' = liked
<1>1. req[p] \in Active /\ req[p].pc = "gated"
  BY ActiveRequest DEF Counting, Add, IncrBy, IncrByFails, IncrByTwice
<1> QED
  BY <1>1 DEF Counting, Add, IncrBy, IncrByFails, IncrByTwice, TypeOK, Active

\* Accounting for a request's delta, in the aggregator or in Redis, settles
\* exactly what the request owed.
LEMMA AccountKeepsDrift ==
    ASSUME TypeOK, TypeOK', NEW p \in Procs, Add(p) \/ IncrBy(p), NEW v \in Videos
    PROVE  Drift(v)' = Drift(v)
<1>1. Counting(p)
  BY DEF Counting
<1>2. PICK w \in Videos, op \in Ops : w = req[p].v /\ op = req[p].op
  BY <1>1, CountingRequest
<1>3. Drift(v)' = Drift(v) + (cnt'[v] + deltas'[v] + batch'[v]) - (cnt[v] + deltas[v] + batch[v])
                   - (IF v = w THEN Delta(op) ELSE 0)
  <2>1. req'[p].pc # "gated"
    BY <1>1, CountingRequest
  <2> QED
    BY <1>1, <1>2, <2>1, CountingRequest, OwedSettled
<1>4. cnt'[v] + deltas'[v] + batch'[v]
        = cnt[v] + deltas[v] + batch[v] + (IF v = w THEN Delta(op) ELSE 0)
  BY <1>2 DEF Add, IncrBy, TypeOK, Delta
<1>5. Drift(v) \in Int /\ cnt[v] + deltas[v] + batch[v] \in Int /\ (IF v = w THEN Delta(op) ELSE 0) \in Int
  BY DriftIsInt DEF TypeOK, Delta
<1> QED
  BY <1>3, <1>4, <1>5

\* While the process is up no like is lost and none is counted twice, however
\* requests, flushes and failed flushes interleave, but for what commands executed
\* with their replies lost account for: a change of the gate that its request never
\* knew of, and the part of a failed pipeline that is sent again.  (Where the
\* request counts by itself, until a call fails.)  For every number of users,
\* videos, goroutines, calls and failures.
THEOREM NoLikeLost == Spec => []Conservation
<1>1. Init => IInv
  <2> SUFFICES ASSUME Init PROVE IInv
    OBVIOUS
  <2>1. TypeOK /\ batch = Zero /\ \A p \in Procs : req[p].pc # "undo"
    BY LikeAssumption DEF Init, TypeOK, Zero, Idle
  <2>2. ASSUME NEW v \in Videos PROVE Drift(v) = skew[v]
    <3>1. Likers(v) = {} /\ Owing(v, "like") = {} /\ Owing(v, "unlike") = {}
      BY DEF Init, Likers, Owing, Idle
    <3>2. cnt[v] = 0 /\ deltas[v] = 0 /\ batch[v] = 0 /\ skew[v] = 0
      BY DEF Init, Zero
    <3> QED
      BY <3>1, <3>2, FS_EmptySet DEF Drift
  <2> QED
    BY <2>1, <2>2 DEF IInv, Conservation
<1>2. IInv /\ TypeOK' /\ [Next]_vars => IInv'
  <2> SUFFICES ASSUME IInv, TypeOK', [Next]_vars PROVE IInv'
    OBVIOUS
  <2> USE DEF IInv
  \* Steps that move each video's drift by what they charge to lost replies, while
  \* the drift is promised at all, and after which the two other conjuncts hold,
  \* preserve the invariant.
  <2>0. ASSUME server' # "exited" /\ (agg' # "none" \/ failures' = 0)
                 => /\ server # "exited" /\ (agg # "none" \/ failures = 0)
                    /\ \A v \in Videos : Drift(v)' = Drift(v) + skew'[v] - skew[v],
               agg' \notin {"exec", "lastExec"} => batch' = Zero,
               \A p \in Procs : req'[p].pc = "undo" => agg' = "none" /\ failures' > 0
        PROVE  IInv'
    <3>1. Zero' = Zero
      BY DEF Zero
    <3>2. ASSUME server' # "exited", agg' # "none" \/ failures' = 0, NEW v \in Videos
          PROVE  Drift(v)' = skew'[v]
      <4>1. Drift(v)' = Drift(v) + skew'[v] - skew[v] /\ Drift(v) = skew[v]
        BY <2>0, <3>2 DEF Conservation
      <4>2. skew[v] \in Int /\ skew'[v] \in Int
        BY DEF TypeOK
      <4> QED
        BY <4>1, <4>2
    <3>3. Conservation'
      BY <3>2 DEF Conservation
    <3> QED
      BY <2>0, <3>1, <3>3
  \* Steps that lose no reply.
  <2>0a. ASSUME skew' = skew,
                server' # "exited" /\ (agg' # "none" \/ failures' = 0)
                  => /\ server # "exited" /\ (agg # "none" \/ failures = 0)
                     /\ \A v \in Videos : Drift(v)' = Drift(v),
                agg' \notin {"exec", "lastExec"} => batch' = Zero,
                \A p \in Procs : req'[p].pc = "undo" => agg' = "none" /\ failures' > 0
         PROVE  IInv'
    <3>1. ASSUME NEW v \in Videos, Drift(v)' = Drift(v)
          PROVE  Drift(v)' = Drift(v) + skew'[v] - skew[v]
      BY <2>0a, <3>1, DriftIsInt DEF TypeOK
    <3> QED
      BY <2>0, <2>0a, <3>1
  <2>1. ASSUME NEW p \in Procs, NEW u \in Users, NEW v \in Videos, NEW op \in Ops,
               Gate(p, u, v, op)
        PROVE  IInv'
    <3>1. \A w \in Videos : Drift(w)' = Drift(w)
      BY <2>1, GateKeepsDrift
    <3>2. \A q \in Procs : req'[q].pc = "undo" => req[q].pc = "undo"
      BY <2>1 DEF Gate, TypeOK
    <3> QED
      BY <2>0a, <2>1, <3>1, <3>2 DEF Gate, counterVars
  <2>1a. ASSUME NEW p \in Procs, NEW u \in Users, NEW v \in Videos, NEW op \in Ops,
                GateFails(p, u, v, op)
         PROVE  IInv'
    <3>1. \A w \in Videos : Drift(w)' = Drift(w) + skew'[w] - skew[w]
      BY <2>1a, LostReplySkews
    <3>2. failures' # 0 /\ (\A q \in Procs : req'[q].pc = "undo" => failures' > 0)
      BY <2>1a DEF GateFails, TypeOK
    <3> QED
      BY <2>0, <2>1a, <3>1, <3>2 DEF GateFails, counterVars
  <2>2. ASSUME NEW p \in Procs, Add(p) \/ IncrBy(p)
        PROVE  IInv'
    <3>1. \A w \in Videos : Drift(w)' = Drift(w)
      BY <2>2, AccountKeepsDrift
    <3>2. req[p] \in Active
      BY <2>2, ActiveRequest DEF Add, IncrBy
    <3>3. \A q \in Procs : req'[q].pc = "undo" => req[q].pc = "undo"
      BY <2>2, <3>2 DEF Add, IncrBy, TypeOK, Active
    <3> QED
      BY <2>0a, <2>2, <3>1, <3>3 DEF Add, IncrBy
  \* Once an INCRBY failed, Conservation promises nothing without the aggregator.
  <2>3. ASSUME NEW p \in Procs, IncrByFails(p) \/ IncrByTwice(p) \/ UndoGate(p)
        PROVE  IInv'
    <3>1. agg' = "none" /\ failures' > 0
      BY <2>3 DEF IncrByFails, IncrByTwice, UndoGate, TypeOK, counterVars
    <3>2. batch' = batch /\ agg = "none"
      BY <2>3 DEF IncrByFails, IncrByTwice, UndoGate, counterVars
    <3> QED
      BY <2>0, <3>1, <3>2
  <2>4. ASSUME NEW p \in Procs, Stamp(p) \/ Publish(p)
        PROVE  IInv'
    <3>1. req[p].pc # "gated" /\ req'[p].pc \notin {"gated", "undo"}
      BY <2>4 DEF Stamp, Publish, Idle, TypeOK
    <3>2. \A q \in Procs \ {p} : req'[q] = req[q]
      BY <2>4 DEF Stamp, Publish, TypeOK
    <3>3. ASSUME NEW v \in Videos PROVE Drift(v)' = Drift(v)
      <4>1. \A op \in Ops : Owing(v, op)' = Owing(v, op)
        BY <3>1, <3>2 DEF Owing
      <4>2. Likers(v)' = Likers(v)
        BY <2>4 DEF Stamp, Publish, Likers
      <4> QED
        BY <2>4, <4>1, <4>2, DriftUnchanged DEF Stamp, Publish, counterVars
    <3> QED
      BY <2>0a, <2>4, <3>1, <3>2, <3>3 DEF Stamp, Publish, counterVars
  \* The remaining steps leave the gate and the requests alone.
  <2>5. ASSUME liked' = liked, req' = req, skew' = skew,
               server' # "exited" => server # "exited",
               \/ agg' = agg /\ failures' = failures
               \/ agg # "none" /\ agg' # "none",
               agg' \notin {"exec", "lastExec"} => batch' = Zero,
               \A v \in Videos : cnt'[v] + deltas'[v] + batch'[v] = cnt[v] + deltas[v] + batch[v]
        PROVE  IInv'
    <3>1. ASSUME NEW v \in Videos PROVE Drift(v)' = Drift(v)
      <4>1. Likers(v)' = Likers(v) /\ \A op \in Ops : Owing(v, op)' = Owing(v, op)
        BY <2>5 DEF Likers, Owing
      <4> QED
        BY <2>5, <4>1, DriftUnchanged
    <3> QED
      BY <2>0a, <2>5, <3>1
  <2>6. CASE FlushTake
    BY <2>5, <2>6 DEF FlushTake, Zero, TypeOK
  <2>7. CASE LastFlushTake
    BY <2>5, <2>7 DEF LastFlushTake, Zero, TypeOK
  <2>8. CASE ExecOK
    BY <2>5, <2>8 DEF ExecOK, Zero, AfterExec, TypeOK
  <2>9. ASSUME NEW applied \in SUBSET Videos, ExecFails(applied)
        PROVE  IInv'
    <3>1. ASSUME NEW v \in Videos PROVE Drift(v)' = Drift(v) + skew'[v] - skew[v]
      <4>1. /\ Cardinality(Likers(v)) \in Nat
            /\ Cardinality(Owing(v, "like")) \in Nat /\ Cardinality(Owing(v, "unlike")) \in Nat
        BY CountedSetsFinite DEF Ops
      <4>2. /\ Cardinality(Likers(v))' = Cardinality(Likers(v))
            /\ Cardinality(Owing(v, "like"))' = Cardinality(Owing(v, "like"))
            /\ Cardinality(Owing(v, "unlike"))' = Cardinality(Owing(v, "unlike"))
        BY <2>9 DEF ExecFails, Likers, Owing
      <4>3. /\ cnt[v] \in Int /\ deltas[v] \in Int /\ batch[v] \in Int /\ skew[v] \in Int
            /\ deltas'[v] = deltas[v] + batch[v] /\ batch'[v] = 0
            /\ cnt'[v] = IF v \in applied THEN cnt[v] + batch[v] ELSE cnt[v]
            /\ skew'[v] = IF v \in applied THEN skew[v] + batch[v] ELSE skew[v]
        BY <2>9 DEF ExecFails, TypeOK, Zero
      <4> QED
        BY <4>1, <4>2, <4>3 DEF Drift
    <3>2. \A p \in Procs : req'[p].pc # "undo"
      BY <2>9 DEF ExecFails
    <3>3. agg # "none" /\ server' = server /\ server # "exited" /\ batch' = Zero
      BY <2>9 DEF ExecFails
    <3> QED
      BY <2>0, <3>1, <3>2, <3>3
  <2>10. CASE Cancel
    BY <2>5, <2>10 DEF Cancel, counterVars
  <2>11. CASE Exit
    BY <2>0a, <2>11 DEF Exit, Idle
  <2>12. CASE Tick
    BY <2>5, <2>12 DEF Tick, counterVars
  <2>13. CASE UNCHANGED vars
    BY <2>5, <2>13 DEF vars
  <2> QED
    BY <2>1, <2>1a, <2>2, <2>3, <2>4, <2>6, <2>7, <2>8, <2>9, <2>10, <2>11, <2>12, <2>13
       DEF Next, RequestStep
<1>3. IInv => Conservation
  BY DEF IInv
<1> QED
  BY <1>1, <1>2, <1>3, TypeCorrect, PTL DEF Spec

-----------------------------------------------------------------------------
(* Without the aggregator a failed INCRBY costs at most one count.         *)

\* Requests that are about to put the gate back.
Undoing(v, op) ==
    {p \in Procs : req[p].pc = "undo" /\ req[p].v = v /\ req[p].op = op}

\* The strengthening.  A failed like has lowered the drift by one, or left it alone
\* when the INCRBY was executed, and its undo raises it by one or not at all; so
\* the failure pays for the undo that is pending, and an undo that never raises the
\* drift leaves it one too low at most.
Slack(v) ==
    /\ Drift(v) <= failures - Cardinality(Undoing(v, "like"))
    /\ -Drift(v) <= failures - Cardinality(Undoing(v, "unlike"))

DriftInv == TypeOK /\ (agg = "none" => \A v \in Videos : Slack(v))

LEMMA UndoingFinite ==
    ASSUME NEW v, NEW op
    PROVE  IsFiniteSet(Undoing(v, op)) /\ Cardinality(Undoing(v, op)) \in Nat
<1>1. Undoing(v, op) \subseteq Procs
  BY DEF Undoing
<1> QED
  BY <1>1, FS_Subset, FS_CardinalityType, LikeAssumption

\* A step that keeps the drift, the failures and the requests about to undo
\* keeps the slack.
LEMMA SlackUnchanged ==
    ASSUME NEW v \in Videos, Slack(v), Drift(v)' = Drift(v), failures' = failures,
           \A op \in Ops : Undoing(v, op)' = Undoing(v, op)
    PROVE  Slack(v)'
<1>1. /\ Cardinality(Undoing(v, "like"))' = Cardinality(Undoing(v, "like"))
      /\ Cardinality(Undoing(v, "unlike"))' = Cardinality(Undoing(v, "unlike"))
  BY DEF Ops
<1> QED
  BY <1>1 DEF Slack

\* A failing INCRBY turns what a request owes into an undo that is pending: the
\* drift moves by one against the change that was to be counted, or not at all when
\* the INCRBY was executed.
LEMMA FailureKeepsSlack ==
    ASSUME TypeOK, TypeOK', NEW p \in Procs, IncrByFails(p), NEW v \in Videos, Slack(v)
    PROVE  Slack(v)'
<1>1. Counting(p)
  BY DEF Counting
<1>2. PICK w \in Videos, op \in Ops : w = req[p].v /\ op = req[p].op
  BY <1>1, CountingRequest
<1>3. /\ req[p].pc = "gated" /\ req[p].v = w /\ req[p].op = op
      /\ req'[p].v = w /\ req'[p].op = op /\ req'[p].pc = "undo"
      /\ \A q \in Procs \ {p} : req'[q] = req[q]
      /\ liked' = liked /\ failures' = failures + 1
  BY <1>1, <1>2, CountingRequest DEF IncrByFails, TypeOK
<1>4. Drift(v)' = Drift(v) + (cnt'[v] + deltas'[v] + batch'[v]) - (cnt[v] + deltas[v] + batch[v])
                   - (IF v = w THEN Delta(op) ELSE 0)
  BY <1>3, OwedSettled
<1>5. cnt'[v] + deltas'[v] + batch'[v]
        \in {cnt[v] + deltas[v] + batch[v],
            cnt[v] + deltas[v] + batch[v] + (IF v = w THEN Delta(op) ELSE 0)}
  BY <1>3 DEF IncrByFails, TypeOK, Delta
<1>6. /\ Drift(v) \in Int /\ failures \in Nat /\ cnt[v] + deltas[v] + batch[v] \in Int
      /\ Delta(op) \in Int
      /\ Cardinality(Undoing(v, "like")) \in Nat /\ Cardinality(Undoing(v, "unlike")) \in Nat
  BY DriftIsInt, UndoingFinite DEF TypeOK, Delta
<1>7. Drift(v)' \in {Drift(v), Drift(v) - (IF v = w THEN Delta(op) ELSE 0)}
  BY <1>4, <1>5, <1>6
<1>8. \A o \in Ops : Undoing(v, o)' = IF v = w /\ o = op THEN Undoing(v, o) \cup {p} ELSE Undoing(v, o)
  BY <1>3 DEF Undoing
<1>9. CASE v # w
  <2>1. /\ Cardinality(Undoing(v, "like"))' = Cardinality(Undoing(v, "like"))
        /\ Cardinality(Undoing(v, "unlike"))' = Cardinality(Undoing(v, "unlike"))
    BY <1>8, <1>9 DEF Ops
  <2> QED
    BY <1>3, <1>6, <1>7, <1>9, <2>1 DEF Slack
<1>10. CASE v = w
  <2>1. Cardinality(Undoing(v, op))' = Cardinality(Undoing(v, op)) + 1
    <3>1. Undoing(v, op)' = Undoing(v, op) \cup {p} /\ p \notin Undoing(v, op)
      BY <1>3, <1>8, <1>10 DEF Undoing
    <3> QED
      BY <3>1, FS_AddElement, UndoingFinite
  <2>2. \A o \in Ops \ {op} : Cardinality(Undoing(v, o))' = Cardinality(Undoing(v, o))
    BY <1>8
  <2>3. CASE op = "like"
    BY <2>3, <1>3, <1>6, <1>7, <1>10, <2>1, <2>2 DEF Slack, Ops, Delta
  <2>4. CASE op = "unlike"
    BY <2>4, <1>3, <1>6, <1>7, <1>10, <2>1, <2>2 DEF Slack, Ops, Delta
  <2> QED
    BY <2>3, <2>4 DEF Ops
<1> QED
  BY <1>9, <1>10

\* An INCRBY executed twice moves the drift by one more than was owed.
LEMMA RepetitionKeepsSlack ==
    ASSUME TypeOK, TypeOK', NEW p \in Procs, IncrByTwice(p), NEW v \in Videos, Slack(v)
    PROVE  Slack(v)'
<1>1. Counting(p)
  BY DEF Counting
<1>2. PICK w \in Videos, op \in Ops : w = req[p].v /\ op = req[p].op
  BY <1>1, CountingRequest
<1>3. /\ req[p].pc = "gated" /\ req[p].v = w /\ req[p].op = op /\ req'[p].pc = "counted"
      /\ \A q \in Procs \ {p} : req'[q] = req[q]
      /\ liked' = liked /\ failures' = failures + 1
  BY <1>1, <1>2, CountingRequest DEF IncrByTwice, TypeOK
<1>4. Drift(v)' = Drift(v) + (cnt'[v] + deltas'[v] + batch'[v]) - (cnt[v] + deltas[v] + batch[v])
                   - (IF v = w THEN Delta(op) ELSE 0)
  BY <1>3, OwedSettled
<1>5. cnt'[v] + deltas'[v] + batch'[v]
        = cnt[v] + deltas[v] + batch[v] + (IF v = w THEN 2 * Delta(op) ELSE 0)
  BY <1>3 DEF IncrByTwice, TypeOK, Delta
<1>6. /\ Drift(v) \in Int /\ failures \in Nat /\ cnt[v] + deltas[v] + batch[v] \in Int
      /\ Cardinality(Undoing(v, "like")) \in Nat /\ Cardinality(Undoing(v, "unlike")) \in Nat
  BY DriftIsInt, UndoingFinite DEF TypeOK
<1>7. Drift(v)' \in {Drift(v) - 1, Drift(v), Drift(v) + 1}
  BY <1>4, <1>5, <1>6 DEF Delta
<1>8. /\ Undoing(v, "like")' = Undoing(v, "like")
      /\ Undoing(v, "unlike")' = Undoing(v, "unlike")
  BY <1>3 DEF Undoing
<1>9. /\ Cardinality(Undoing(v, "like"))' = Cardinality(Undoing(v, "like"))
      /\ Cardinality(Undoing(v, "unlike"))' = Cardinality(Undoing(v, "unlike"))
  BY <1>8
<1> QED
  BY <1>3, <1>6, <1>7, <1>9 DEF Slack

\* An undo puts the gate back, or finds it put back by another request of the
\* user, or fails: the drift moves back by one or stays.
LEMMA UndoKeepsSlack ==
    ASSUME TypeOK, TypeOK', NEW p \in Procs, UndoGate(p), NEW v \in Videos, Slack(v)
    PROVE  Slack(v)'
<1>0. req[p] \in Active
  BY ActiveRequest DEF UndoGate
<1>1. PICK u \in Users, w \in Videos, op \in Ops :
         u = req[p].u /\ w = req[p].v /\ op = req[p].op /\ req[p].pc = "undo"
  BY <1>0 DEF Active, UndoGate, Ops
<1>2. req'[p].pc = "idle" /\ \A q \in Procs \ {p} : req'[q] = req[q]
  BY DEF UndoGate, TypeOK, Idle
<1>3. \A o \in Ops : Owing(v, o)' = Owing(v, o)
  BY <1>1, <1>2 DEF Owing
<1>4. \A o \in Ops : Undoing(v, o)' = IF v = w /\ o = op THEN Undoing(v, o) \ {p} ELSE Undoing(v, o)
  BY <1>1, <1>2 DEF Undoing
<1>5. cnt' = cnt /\ deltas' = deltas /\ batch' = batch /\ failures' = failures
  BY DEF UndoGate, counterVars
<1>6. /\ Drift(v) \in Int /\ failures \in Nat
      /\ Cardinality(Undoing(v, "like")) \in Nat /\ Cardinality(Undoing(v, "unlike")) \in Nat
  BY DriftIsInt, UndoingFinite DEF TypeOK
<1>7. CASE v # w
  <2>1. Likers(v)' = Likers(v)
    BY <1>1, <1>7 DEF UndoGate, Likers
  <2>2. Drift(v)' = Drift(v)
    BY <1>3, <1>5, <2>1, DriftUnchanged
  <2>3. \A o \in Ops : Undoing(v, o)' = Undoing(v, o)
    BY <1>4, <1>7
  <2> QED
    BY <1>5, <2>2, <2>3, SlackUnchanged
<1>8. CASE v = w
  <2>1. Cardinality(Undoing(v, op))' = Cardinality(Undoing(v, op)) - 1
    <3>1. Undoing(v, op)' = Undoing(v, op) \ {p} /\ p \in Undoing(v, op)
      BY <1>1, <1>4, <1>8 DEF Undoing
    <3> QED
      BY <3>1, FS_RemoveElement, UndoingFinite
  <2>2. \A o \in Ops \ {op} : Cardinality(Undoing(v, o))' = Cardinality(Undoing(v, o))
    BY <1>4
  <2>3. Likers(v)' \in {Likers(v), IF op = "like" THEN Likers(v) \ {u} ELSE Likers(v) \cup {u}}
    <3>1. CASE liked' = liked
      BY <3>1 DEF Likers
    <3>2. CASE liked' = IF op = "like" THEN liked \ {<<u, v>>} ELSE liked \cup {<<u, v>>}
      BY <3>2 DEF Likers
    <3> QED
      BY <1>1, <1>8, <3>1, <3>2 DEF UndoGate
  <2>4. Cardinality(Likers(v))' \in {Cardinality(Likers(v)), Cardinality(Likers(v)) - Delta(op)}
    <3>1. CASE Likers(v)' = Likers(v)
      BY <3>1
    <3>2. CASE op = "like" /\ Likers(v)' = Likers(v) \ {u} /\ u \in Likers(v)
      <4>1. Cardinality(Likers(v) \ {u}) = Cardinality(Likers(v)) - 1
        BY <3>2, FS_RemoveElement, CountedSetsFinite
      <4> QED
        BY <3>2, <4>1 DEF Delta
    <3>3. CASE op = "unlike" /\ Likers(v)' = Likers(v) \cup {u} /\ u \notin Likers(v)
      <4>1. Cardinality(Likers(v) \cup {u}) = Cardinality(Likers(v)) + 1
        BY <3>3, FS_AddElement, CountedSetsFinite
      <4>2. Cardinality(Likers(v)) \in Nat
        BY CountedSetsFinite
      <4> QED
        BY <3>3, <4>1, <4>2 DEF Delta
    <3> QED
      BY <2>3, <3>1, <3>2, <3>3 DEF Ops
  <2>5. /\ Cardinality(Likers(v)) \in Nat
        /\ Cardinality(Owing(v, "like")) \in Nat /\ Cardinality(Owing(v, "unlike")) \in Nat
        /\ cnt[v] \in Int /\ deltas[v] \in Int /\ batch[v] \in Int
    BY CountedSetsFinite DEF Ops, TypeOK
  <2>6. /\ Cardinality(Owing(v, "like"))' = Cardinality(Owing(v, "like"))
        /\ Cardinality(Owing(v, "unlike"))' = Cardinality(Owing(v, "unlike"))
    BY <1>3 DEF Ops
  <2>7. Drift(v)' \in {Drift(v), Drift(v) + Delta(op)}
    BY <1>5, <2>4, <2>5, <2>6 DEF Drift, Delta
  <2>8. CASE op = "like"
    BY <2>8, <1>5, <1>6, <2>1, <2>2, <2>7 DEF Slack, Ops, Delta
  <2>9. CASE op = "unlike"
    BY <2>9, <1>5, <1>6, <2>1, <2>2, <2>7 DEF Slack, Ops, Delta
  <2> QED
    BY <2>8, <2>9 DEF Ops
<1> QED
  BY <1>7, <1>8

\* Where each request counts by itself, every call that fails or loses its reply
\* costs at most one count, whichever requests of the same user run between the failure and the
\* undo and whether or not the undo succeeds (service.go:77-80, 104-107): for
\* every number of users, videos, goroutines, calls and failures.
THEOREM DriftBounded == Spec => []DriftBoundedByFailures
<1>1. Init => DriftInv
  <2> SUFFICES ASSUME Init PROVE DriftInv
    OBVIOUS
  <2>1. TypeOK
    BY LikeAssumption DEF Init, TypeOK, Zero
  <2>2. ASSUME NEW v \in Videos PROVE Slack(v)
    <3>1. /\ Likers(v) = {} /\ Owing(v, "like") = {} /\ Owing(v, "unlike") = {}
          /\ Undoing(v, "like") = {} /\ Undoing(v, "unlike") = {}
      BY DEF Init, Likers, Owing, Undoing, Idle
    <3>2. cnt[v] = 0 /\ deltas[v] = 0 /\ batch[v] = 0 /\ failures = 0
      BY DEF Init, Zero
    <3> QED
      BY <3>1, <3>2, FS_EmptySet DEF Drift, Slack
  <2> QED
    BY <2>1, <2>2 DEF DriftInv
<1>2. DriftInv /\ TypeOK' /\ [Next]_vars => DriftInv'
  <2> SUFFICES ASSUME DriftInv, TypeOK', [Next]_vars, agg' = "none", NEW v \in Videos
               PROVE  Slack(v)'
    BY DEF DriftInv
  <2>0. agg = "none" /\ TypeOK /\ Slack(v)
    <3>1. ASSUME NEW p \in Procs, NEW u \in Users, NEW w \in Videos, NEW op \in Ops,
                 Gate(p, u, w, op) \/ GateFails(p, u, w, op)
          PROVE  agg = "none"
      BY <3>1 DEF Gate, GateFails, counterVars
    <3>2. ASSUME NEW p \in Procs, RequestStep(p) \/ IncrByFails(p) \/ IncrByTwice(p)
          PROVE  agg = "none"
      BY <3>2 DEF RequestStep, Add, IncrBy, IncrByFails, IncrByTwice, UndoGate, Stamp, Publish,
                  counterVars
    <3>3. CASE FlushTake \/ LastFlushTake \/ ExecOK \/ \E applied \in SUBSET Videos : ExecFails(applied)
      BY <3>3 DEF FlushTake, LastFlushTake, ExecOK, ExecFails, AfterExec
    <3>4. CASE Cancel \/ Exit \/ Tick \/ UNCHANGED vars
      BY <3>4 DEF Cancel, Exit, Tick, vars, counterVars, DriftInv
    <3> QED
      BY <3>1, <3>2, <3>3, <3>4 DEF Next, DriftInv
  <2>1. ASSUME NEW p \in Procs, NEW u \in Users, NEW w \in Videos, NEW op \in Ops,
               Gate(p, u, w, op)
        PROVE  Slack(v)'
    <3>1. Drift(v)' = Drift(v)
      BY <2>0, <2>1, GateKeepsDrift
    <3>2. \A o \in Ops : Undoing(v, o)' = Undoing(v, o)
      BY <2>0, <2>1 DEF Gate, TypeOK, Undoing, Idle
    <3> QED
      BY <2>0, <2>1, <3>1, <3>2, SlackUnchanged DEF Gate
  <2>1a. ASSUME NEW p \in Procs, NEW u \in Users, NEW w \in Videos, NEW op \in Ops,
                GateFails(p, u, w, op)
         PROVE  Slack(v)'
    <3>1. Drift(v)' = Drift(v) + skew'[v] - skew[v] /\ skew'[v] - skew[v] \in {-1, 0, 1}
      BY <2>0, <2>1a, LostReplySkews
    <3>2. /\ Undoing(v, "like")' = Undoing(v, "like")
          /\ Undoing(v, "unlike")' = Undoing(v, "unlike")
      BY <2>1a DEF GateFails, Undoing
    <3>3. /\ Cardinality(Undoing(v, "like"))' = Cardinality(Undoing(v, "like"))
          /\ Cardinality(Undoing(v, "unlike"))' = Cardinality(Undoing(v, "unlike"))
      BY <3>2
    <3>4. /\ Drift(v) \in Int /\ failures \in Nat /\ failures' = failures + 1
          /\ skew[v] \in Int /\ skew'[v] \in Int
          /\ Cardinality(Undoing(v, "like")) \in Nat /\ Cardinality(Undoing(v, "unlike")) \in Nat
      BY <2>0, <2>1a, DriftIsInt, UndoingFinite DEF TypeOK, GateFails
    <3>5. Drift(v)' \in {Drift(v) - 1, Drift(v), Drift(v) + 1}
      BY <3>1, <3>4
    <3> QED
      BY <2>0, <3>3, <3>4, <3>5 DEF Slack
  <2>2. ASSUME NEW p \in Procs, Add(p) \/ IncrBy(p)
        PROVE  Slack(v)'
    <3>1. Drift(v)' = Drift(v)
      BY <2>0, <2>2, AccountKeepsDrift
    <3>2. req[p] \in Active /\ req[p].pc = "gated"
      BY <2>0, <2>2, ActiveRequest DEF Add, IncrBy
    <3>3. req'[p].pc = "counted" /\ \A q \in Procs \ {p} : req'[q] = req[q]
      BY <2>0, <2>2, <3>2 DEF Add, IncrBy, TypeOK, Active
    <3>4. \A o \in Ops : Undoing(v, o)' = Undoing(v, o)
      BY <3>2, <3>3 DEF Undoing
    <3> QED
      BY <2>0, <2>2, <3>1, <3>4, SlackUnchanged DEF Add, IncrBy
  <2>3. ASSUME NEW p \in Procs, IncrByFails(p)
        PROVE  Slack(v)'
    BY <2>0, <2>3, FailureKeepsSlack
  <2>3a. ASSUME NEW p \in Procs, IncrByTwice(p)
         PROVE  Slack(v)'
    BY <2>0, <2>3a, RepetitionKeepsSlack
  <2>4. ASSUME NEW p \in Procs, UndoGate(p)
        PROVE  Slack(v)'
    BY <2>0, <2>4, UndoKeepsSlack
  <2>5. ASSUME NEW p \in Procs, Stamp(p) \/ Publish(p)
        PROVE  Slack(v)'
    <3>1. req[p].pc \notin {"gated", "undo"} /\ req'[p].pc \notin {"gated", "undo"}
      BY <2>0, <2>5 DEF Stamp, Publish, Idle, TypeOK
    <3>2. \A q \in Procs \ {p} : req'[q] = req[q]
      BY <2>0, <2>5 DEF Stamp, Publish, TypeOK
    <3>3. \A op \in Ops : Owing(v, op)' = Owing(v, op) /\ Undoing(v, op)' = Undoing(v, op)
      BY <3>1, <3>2 DEF Owing, Undoing
    <3>4. Likers(v)' = Likers(v)
      BY <2>5 DEF Stamp, Publish, Likers
    <3>5. Drift(v)' = Drift(v)
      BY <2>0, <2>5, <3>3, <3>4, DriftUnchanged DEF Stamp, Publish, counterVars
    <3> QED
      BY <2>0, <2>5, <3>3, <3>5, SlackUnchanged DEF Stamp, Publish
  \* The aggregator, which does not run, the process and the clock.
  <2>6. CASE Cancel \/ Tick \/ UNCHANGED vars
    <3>1. UNCHANGED <<liked, req, cnt, deltas, batch, failures>>
      BY <2>6 DEF Cancel, Tick, vars, counterVars
    <3>2. /\ \A op \in Ops : Owing(v, op)' = Owing(v, op) /\ Undoing(v, op)' = Undoing(v, op)
          /\ Likers(v)' = Likers(v)
      BY <3>1 DEF Owing, Undoing, Likers
    <3>3. Drift(v)' = Drift(v)
      BY <2>0, <3>1, <3>2, DriftUnchanged
    <3> QED
      BY <2>0, <3>1, <3>2, <3>3, SlackUnchanged
  <2>7. ~(FlushTake \/ LastFlushTake \/ ExecOK \/ Exit)
        /\ ~ \E applied \in SUBSET Videos : ExecFails(applied)
    BY <2>0 DEF FlushTake, LastFlushTake, ExecOK, ExecFails, Exit
  <2> QED
    BY <2>1, <2>1a, <2>2, <2>3, <2>3a, <2>4, <2>5, <2>6, <2>7 DEF Next, RequestStep
<1>3. DriftInv => DriftBoundedByFailures
  <2> SUFFICES ASSUME DriftInv, agg = "none", NEW v \in Videos
               PROVE  Drift(v) <= failures /\ -Drift(v) <= failures
    BY DEF DriftBoundedByFailures
  <2>1. /\ Drift(v) \in Int /\ failures \in Nat /\ Slack(v)
        /\ Cardinality(Undoing(v, "like")) \in Nat /\ Cardinality(Undoing(v, "unlike")) \in Nat
    BY DriftIsInt, UndoingFinite DEF DriftInv, TypeOK
  <2> QED
    BY <2>1 DEF Slack
<1> QED
  BY <1>1, <1>2, <1>3, TypeCorrect, PTL DEF Spec
=============================================================================
