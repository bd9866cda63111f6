----------------------------- MODULE FeedProofs -----------------------------
(***************************************************************************)
(* Proofs about the two halves of the feeds: Fanout, which writes them,    *)
(* for any number of authors, users, workers and videos, any batch size    *)
(* and any retry limit; and FollowingFeed, which reads them, for any       *)
(* number of authors and videos, any page size, any limits the client asks *)
(* for, any follows, unfollows and changes of a count meanwhile, and any   *)
(* reads that fail.                                                        *)
(***************************************************************************)
EXTENDS Fanout, FollowingFeed, SequenceTheorems, FiniteSetTheorems, TLAPS

\* What a page of a follower list leaves out lies after the next cursor, and a
\* page that is the last leaves nothing out (mysql_repo.go:26-67).
LEMMA PageCoversUpToNext ==
    ASSUME NEW rest \in SUBSET Users, NEW page, NEW next, FirstPage(rest, page, next)
    PROVE  /\ page \subseteq Users
           /\ next \in Nat
           /\ \A u \in rest : u \in page \/ (next # 0 /\ u > next)
<1>1. CASE page = rest /\ next = 0
    BY <1>1
<1>2. CASE /\ page \subseteq rest
           /\ \A u \in page, x \in rest \ page : u < x
           /\ next \in page
    BY <1>2, FanoutAssumption, SMT
<1> QED
    BY <1>1, <1>2 DEF FirstPage

\* The states and fields of a call, given that its worker runs one.
LEMMA RunningCall ==
    ASSUME TypeOK, NEW w \in Workers
    PROVE  /\ worker[w].pc = "list" =>
                 /\ worker[w] \in [pc : {"list"}, v : Videos, cursor : Nat]
                 /\ worker[w].v \in Videos /\ worker[w].cursor \in Nat
           /\ worker[w].pc = "push" =>
                 /\ worker[w] \in [pc : {"push"}, v : Videos, page : SUBSET Users, next : Nat]
                 /\ worker[w].v \in Videos /\ worker[w].page \subseteq Users
                 /\ worker[w].next \in Nat
           /\ worker[w].pc \in {"idle", "list", "push"}
           /\ worker[w].pc = "idle" <=> worker[w] = Idle
<1>1. worker[w] \in {Idle}
           \cup [pc : {"list"}, v : Videos, cursor : Nat]
           \cup [pc : {"push"}, v : Videos, page : SUBSET Users, next : Nat]
    BY DEF TypeOK
<1>2. CASE worker[w] = Idle
    BY <1>2 DEF Idle
<1>3. CASE worker[w] \in [pc : {"list"}, v : Videos, cursor : Nat]
    BY <1>3 DEF Idle
<1>4. CASE worker[w] \in [pc : {"push"}, v : Videos, page : SUBSET Users, next : Nat]
    BY <1>4 DEF Idle
<1> QED
    BY <1>1, <1>2, <1>3, <1>4

\* A push keeps inboxes and the record of whom a video reached well typed.
LEMMA PushIsTyped ==
    ASSUME TypeOK, NEW added \in SUBSET Users, NEW trimmed \in SUBSET Users, NEW v \in Videos,
           PushTo(added, trimmed, v)
    PROVE  /\ inbox' \in [Users -> SUBSET Videos]
           /\ pushed' \in [Videos -> SUBSET Users]
           /\ arrived' \in [Users -> SUBSET Videos] /\ untrimmed' \subseteq Users
<1>1. ASSUME NEW u \in Users
      PROVE  LET box == inbox[u] \cup (IF u \in added THEN {v} ELSE {})
             IN (IF u \in trimmed THEN Trim(box) ELSE box) \in SUBSET Videos
    BY DEF TypeOK, Trim
<1>2. inbox' \in [Users -> SUBSET Videos]
    BY <1>1 DEF PushTo
<1> QED
    BY <1>2 DEF TypeOK, PushTo, Note

-----------------------------------------------------------------------------
\* Every variable keeps its type: among the rest, a call in progress has a
\* cursor or a page, and no task is handled more than MaxRetry times.
THEOREM TypeCorrect == Spec => []TypeOK
<1>1. Init => TypeOK
    <2> SUFFICES ASSUME Init PROVE TypeOK
        OBVIOUS
    <2>1. authorOf \in Seq(Authors) /\ Len(authorOf) <= MaxVideos
        BY FanoutAssumption, SMT DEF Init
    <2>2. tries \in [Videos -> 0 .. MaxRetry]
        BY FanoutAssumption, SMT DEF Init
    <2> QED
        BY <2>1, <2>2 DEF Init, TypeOK
<1>2. TypeOK /\ [Next]_vars => TypeOK'
    <2> SUFFICES ASSUME TypeOK, [Next]_vars PROVE TypeOK'
        OBVIOUS
    <2>1. ASSUME NEW a \in Authors, NEW outcome \in {"ok", "noOutbox", "noTask"},
                 PublishFanout(a, outcome)
          PROVE TypeOK'
        <3> DEFINE v == Len(authorOf) + 1
        <3>1. v \in Videos /\ authorOf' = Append(authorOf, a)
            BY <2>1 DEF PublishFanout
        <3>2. authorOf' \in Seq(Authors) /\ Len(authorOf') <= MaxVideos
            BY <3>1, FanoutAssumption, SMT DEF TypeOK, Videos
        <3>3. Trim(outbox[a] \cup {v}) \in SUBSET Videos
            BY <3>1 DEF TypeOK, Trim
        <3>4. outbox' \in [Authors -> SUBSET Videos]
            BY <2>1, <3>3 DEF PublishFanout, TypeOK
        <3>5. task' \in [Videos -> {"none", "pending", "handling", "done", "dead"}]
            BY <2>1, <3>1 DEF PublishFanout, TypeOK
        <3> QED
            BY <2>1, <3>2, <3>4, <3>5 DEF PublishFanout, boxVars, TypeOK
    <2>2. ASSUME NEW w \in Workers, NEW v \in Videos, Handle(w, v)
          PROVE TypeOK'
        <3>1. tries' \in [Videos -> 0 .. MaxRetry]
            BY <2>2, FanoutAssumption, SMT DEF Handle, boxVars, TypeOK
        <3>2. worker' \in [Workers -> {Idle}
                  \cup [pc : {"list"}, v : Videos, cursor : Nat]
                  \cup [pc : {"push"}, v : Videos, page : SUBSET Users, next : Nat]]
            BY <2>2 DEF Handle, boxVars, TypeOK
        <3>3. owed' \in [Videos -> SUBSET Users]
            BY <2>2 DEF Handle, TypeOK, FollowersOf
        <3> QED
            BY <2>2, <3>1, <3>2, <3>3 DEF Handle, boxVars, TypeOK
    <2>3. ASSUME NEW w \in Workers, ListFollowers(w)
          PROVE TypeOK'
        <3> DEFINE rest == {u \in FollowersOf(authorOf[worker[w].v]) : u > worker[w].cursor}
        <3>1. PICK page \in SUBSET rest, next \in rest \cup {0} :
                 /\ FirstPage(rest, page, next)
                 /\ worker' = [worker EXCEPT ![w] =
                        [pc |-> "push", v |-> worker[w].v, page |-> page, next |-> next]]
            BY <2>3 DEF ListFollowers
        <3>2. rest \in SUBSET Users
            BY DEF FollowersOf
        <3>3. page \subseteq Users /\ next \in Nat
            BY <3>1, <3>2, PageCoversUpToNext
        <3>4. worker[w].v \in Videos
            BY <2>3, RunningCall DEF ListFollowers
        <3> QED
            BY <2>3, <3>1, <3>3, <3>4 DEF ListFollowers, boxVars, TypeOK
    <2>4. ASSUME NEW w \in Workers, Push(w)
          PROVE TypeOK'
        <3>1. /\ worker[w].v \in Videos /\ worker[w].page \subseteq Users /\ worker[w].next \in Nat
              /\ PushTo(worker[w].page, worker[w].page, worker[w].v)
            BY <2>4, RunningCall DEF Push
        <3>2. /\ inbox' \in [Users -> SUBSET Videos] /\ pushed' \in [Videos -> SUBSET Users]
              /\ arrived' \in [Users -> SUBSET Videos] /\ untrimmed' \subseteq Users
            BY <3>1, PushIsTyped
        <3>3. CASE worker[w].next = 0
            BY <2>4, <3>1, <3>2, <3>3 DEF Push, TypeOK
        <3>4. CASE worker[w].next # 0
            <4> DEFINE job == [pc |-> "list", v |-> worker[w].v, cursor |-> worker[w].next]
            <4>1. job \in [pc : {"list"}, v : Videos, cursor : Nat]
                BY <3>1
            <4>2. worker' = [worker EXCEPT ![w] = job]
                BY <2>4, <3>4 DEF Push
            <4>3. worker' \in [Workers -> {Idle}
                      \cup [pc : {"list"}, v : Videos, cursor : Nat]
                      \cup [pc : {"push"}, v : Videos, page : SUBSET Users, next : Nat]]
                BY <4>1, <4>2 DEF TypeOK
            <4> QED
                BY <2>4, <3>2, <3>4, <4>3 DEF Push, TypeOK
        <3> QED
            BY <3>3, <3>4
    <2>5. ASSUME NEW w \in Workers, NEW added \in SUBSET Users, NEW trimmed \in SUBSET Users,
                 Fails(w, added, trimmed)
          PROVE TypeOK'
        <3>1. worker[w].v \in Videos /\ PushTo(added, trimmed, worker[w].v)
            BY <2>5, RunningCall DEF Fails
        <3>2. /\ inbox' \in [Users -> SUBSET Videos] /\ pushed' \in [Videos -> SUBSET Users]
              /\ arrived' \in [Users -> SUBSET Videos] /\ untrimmed' \subseteq Users
            BY <3>1, PushIsTyped
        <3> QED
            BY <2>5, <3>1, <3>2 DEF Fails, TypeOK
    <2>6. ASSUME NEW u \in Users, NEW a \in Authors, Follow(u, a)
          PROVE TypeOK'
        BY <2>6 DEF Follow, boxVars, TypeOK
    <2>7. ASSUME NEW u \in Users, NEW a \in Authors, Unfollow(u, a)
          PROVE TypeOK'
        BY <2>7 DEF Unfollow, boxVars, TypeOK
    <2>9. ASSUME NEW u \in Users, ExpireInbox(u)
          PROVE TypeOK'
        BY <2>9 DEF ExpireInbox, TypeOK
    <2>8. CASE UNCHANGED vars
        BY <2>8 DEF vars, boxVars, TypeOK
    <2> QED
        BY <2>1, <2>2, <2>3, <2>4, <2>5, <2>6, <2>7, <2>8, <2>9 DEF Next
<1> QED
    BY <1>1, <1>2, PTL DEF Spec
-----------------------------------------------------------------------------
(* The inductive invariant behind FollowersServed. *)

Busy(w) == worker[w].pc \in {"list", "push"}

\* A worker's task is being handled, and those it owes the video to follow its
\* author.
Handling(w) ==
    LET v == worker[w].v
    IN /\ task[v] = "handling"
       /\ v <= Len(authorOf)
       /\ owed[v] \subseteq FollowersOf(authorOf[v])

\* Up to the cursor everyone owed the video was reached; while a page is being
\* pushed, everyone was reached, is on the page, or comes after it.
ReachedSoFar(w) ==
    LET job == worker[w]
    IN /\ job.pc = "list" =>
             \A u \in owed[job.v] : u <= job.cursor => u \in pushed[job.v]
       /\ job.pc = "push" =>
             \A u \in owed[job.v] :
                 u \in pushed[job.v] \/ u \in job.page \/ (job.next # 0 /\ u > job.next)

\* Two workers never handle the same task.
OneWorkerEach ==
    \A w, x \in Workers : Busy(w) /\ Busy(x) /\ worker[w].v = worker[x].v => w = x

NoTaskBeforeVideo == \A v \in Videos : v > Len(authorOf) => task[v] = "none"

IInv ==
    /\ TypeOK
    /\ \A w \in Workers : Busy(w) => Handling(w) /\ ReachedSoFar(w)
    /\ OneWorkerEach
    /\ NoTaskBeforeVideo
    /\ FollowersServed

\* A call of worker w that changes neither the list of authors nor another
\* task leaves the other workers' progress alone, as long as pushes only add.
LEMMA OthersUndisturbed ==
    ASSUME IInv, NEW w \in Workers, NEW x \in Workers, x # w, Busy(w), Busy(x),
           worker'[x] = worker[x], authorOf' = authorOf, followers' = followers, owed' = owed,
           \A v \in Videos : v # worker[w].v => task'[v] = task[v],
           \A v \in Videos : pushed[v] \subseteq pushed'[v]
    PROVE  (Handling(x) /\ ReachedSoFar(x))'
<1>1. Handling(x) /\ ReachedSoFar(x)
    BY DEF IInv
<1>2. worker[x].v \in Videos /\ worker[w].v \in Videos
    BY RunningCall DEF IInv, Busy
<1>3. worker[x].v # worker[w].v
    BY DEF IInv, OneWorkerEach
<1>4. task'[worker[x].v] = task[worker[x].v] /\ pushed[worker[x].v] \subseteq pushed'[worker[x].v]
    BY <1>2, <1>3
<1> QED
    BY <1>1, <1>4 DEF Handling, ReachedSoFar, FollowersOf

-----------------------------------------------------------------------------
\* Whoever follows an author from the beginning to the end of a successful call
\* of Handle is reached by it, with any page size and whatever the other
\* workers, retries, follows and unfollows do meanwhile (fanout.go:34-53).
THEOREM EveryFollowerServed == Spec => []FollowersServed
<1>1. Init => IInv
    <2> SUFFICES ASSUME Init PROVE IInv
        OBVIOUS
    <2>1. TypeOK
        <3>1. authorOf \in Seq(Authors) /\ Len(authorOf) <= MaxVideos
            BY FanoutAssumption, SMT DEF Init
        <3>2. tries \in [Videos -> 0 .. MaxRetry]
            BY FanoutAssumption, SMT DEF Init
        <3> QED
            BY <3>1, <3>2 DEF Init, TypeOK
    <2>2. \A w \in Workers : ~Busy(w)
        BY DEF Init, Busy, Idle
    <2> QED
        BY <2>1, <2>2 DEF Init, IInv, OneWorkerEach, NoTaskBeforeVideo, FollowersServed
<1>2. IInv /\ TypeOK' /\ [Next]_vars => IInv'
    <2> SUFFICES ASSUME IInv, TypeOK', [Next]_vars PROVE IInv'
        OBVIOUS
    <2> USE DEF IInv
    <2>1. ASSUME NEW a \in Authors, NEW outcome \in {"ok", "noOutbox", "noTask"},
                 PublishFanout(a, outcome)
          PROVE IInv'
        <3> DEFINE n == Len(authorOf) + 1
        <3>1. /\ n \in Videos /\ authorOf' = Append(authorOf, a)
              /\ UNCHANGED <<followers, worker, pushed, owed>>
              /\ \A v \in Videos : v # n => task'[v] = task[v]
              /\ task'[n] \in {"pending", task[n]}
            BY <2>1 DEF PublishFanout, boxVars, TypeOK
        <3>2. /\ authorOf \in Seq(Authors) /\ Len(authorOf') = n
              /\ \A v \in Videos : v <= Len(authorOf) => authorOf'[v] = authorOf[v]
            BY <3>1, SMT DEF TypeOK, Videos
        <3>3. Len(authorOf) \in Nat /\ n \in Nat /\ \A v \in Videos : v \in Nat
            BY <3>2, SMT DEF Videos
        <3>4. task[n] = "none"
            BY <3>1, <3>3, SMT DEF NoTaskBeforeVideo
        <3>5. ASSUME NEW w \in Workers, Busy(w)'
              PROVE (Handling(w) /\ ReachedSoFar(w))'
            <4>1. Busy(w) /\ Handling(w) /\ ReachedSoFar(w) /\ worker[w].v \in Videos
                BY <3>1, <3>5, RunningCall DEF Busy
            <4>2. worker[w].v # n /\ worker[w].v <= Len(authorOf')
                BY <4>1, <3>2, <3>3, SMT DEF Handling
            <4>3. task'[worker[w].v] = task[worker[w].v] /\ authorOf'[worker[w].v] = authorOf[worker[w].v]
                BY <4>1, <4>2, <3>1, <3>2 DEF Handling
            <4> QED
                BY <3>1, <4>1, <4>2, <4>3 DEF Handling, ReachedSoFar, FollowersOf
        <3>6. OneWorkerEach'
            BY <3>1 DEF OneWorkerEach, Busy
        <3>7. NoTaskBeforeVideo'
            <4> SUFFICES ASSUME NEW v \in Videos, v > Len(authorOf') PROVE task'[v] = "none"
                BY DEF NoTaskBeforeVideo
            <4>1. v # n /\ v > Len(authorOf)
                BY <3>2, <3>3, SMT
            <4> QED
                BY <4>1, <3>1 DEF NoTaskBeforeVideo
        <3>8. FollowersServed'
            BY <3>1, <3>4 DEF FollowersServed
        <3> QED
            BY <3>5, <3>6, <3>7, <3>8
    <2>2. ASSUME NEW w \in Workers, NEW v \in Videos, Handle(w, v)
          PROVE IInv'
        <3>1. /\ worker[w] = Idle /\ task[v] = "pending"
              /\ UNCHANGED <<authorOf, followers, pushed>>
              /\ \A x \in Videos : task'[x] = IF x = v THEN "handling" ELSE task[x]
              /\ \A x \in Videos : owed'[x] = IF x = v THEN FollowersOf(authorOf[v]) ELSE owed[x]
              /\ worker'[w] = [pc |-> "list", v |-> v, cursor |-> 0]
              /\ \A x \in Workers : x # w => worker'[x] = worker[x]
            BY <2>2 DEF Handle, boxVars, TypeOK
        <3>2. v <= Len(authorOf)
            <4>1. Len(authorOf) \in Nat /\ v \in Nat
                BY SMT DEF TypeOK, Videos
            <4>2. ~(v > Len(authorOf))
                BY <3>1 DEF NoTaskBeforeVideo
            <4> QED
                BY <4>1, <4>2
        <3>3. \A x \in Workers : Busy(x) => worker[x].v # v /\ worker[x].v \in Videos /\ x # w
            BY <3>1, RunningCall DEF Handling, Busy, Idle
        <3>4. ASSUME NEW x \in Workers, Busy(x)'
              PROVE (Handling(x) /\ ReachedSoFar(x))'
            <4>1. CASE x = w
                <5>1. /\ worker'[w].v = v /\ worker'[w].cursor = 0 /\ worker'[w].pc = "list"
                      /\ task'[v] = "handling" /\ owed'[v] = FollowersOf(authorOf[v])
                    BY <3>1
                <5>2. Handling(w)'
                    <6>1. v <= Len(authorOf')
                        BY <3>1, <3>2
                    <6>2. {u \in Users : <<authorOf'[v], u>> \in followers'} = FollowersOf(authorOf[v])
                        BY <3>1 DEF FollowersOf
                    <6>3. owed'[v] \subseteq {u \in Users : <<authorOf'[v], u>> \in followers'}
                        BY <5>1, <6>2
                    <6> QED
                        BY <5>1, <6>1, <6>3 DEF Handling, FollowersOf
                <5>3. \A u \in FollowersOf(authorOf[v]) : ~(u <= 0)
                    BY FanoutAssumption, SMT DEF FollowersOf
                <5> QED
                    BY <4>1, <5>1, <5>2, <5>3, <3>1 DEF ReachedSoFar
            <4>2. CASE x # w
                <5>1. worker'[x] = worker[x] /\ Busy(x) /\ Handling(x) /\ ReachedSoFar(x)
                    BY <3>1, <3>4, <4>2 DEF Busy
                <5>2. worker[x].v \in Videos /\ worker[x].v # v
                    BY <5>1, <3>3
                <5>3. /\ task'[worker[x].v] = task[worker[x].v]
                      /\ owed'[worker[x].v] = owed[worker[x].v]
                    BY <5>2, <3>1
                <5>4. Handling(x)'
                    BY <5>1, <5>3, <3>1 DEF Handling, FollowersOf
                <5>5. ReachedSoFar(x)'
                    BY <5>1, <5>3, <3>1 DEF ReachedSoFar
                <5> QED
                    BY <5>4, <5>5
            <4> QED
                BY <4>1, <4>2
        <3>5. OneWorkerEach'
            <4> SUFFICES ASSUME NEW x \in Workers, NEW y \in Workers, Busy(x)', Busy(y)',
                                (worker[x].v = worker[y].v)'
                         PROVE x = y
                BY DEF OneWorkerEach
            <4>1. \A z \in Workers : Busy(z)' /\ z # w => Busy(z) /\ worker'[z].v = worker[z].v
                BY <3>1 DEF Busy
            <4>2. worker'[w].v = v
                BY <3>1
            <4>3. CASE x # w /\ y # w
                BY <4>1, <4>3 DEF OneWorkerEach
            <4>4. CASE x = w /\ y # w
                BY <4>1, <4>2, <4>4, <3>3
            <4>5. CASE x # w /\ y = w
                BY <4>1, <4>2, <4>5, <3>3
            <4>6. CASE x = w /\ y = w
                BY <4>6
            <4> QED
                BY <4>3, <4>4, <4>5, <4>6
        <3>6. NoTaskBeforeVideo'
            <4>1. \A x \in Videos : x > Len(authorOf) => x # v
                BY <3>2, SMT DEF TypeOK, Videos
            <4> QED
                BY <3>1, <4>1 DEF NoTaskBeforeVideo
        <3>7. FollowersServed'
            BY <3>1 DEF FollowersServed
        <3> QED
            BY <3>4, <3>5, <3>6, <3>7
    <2>3. ASSUME NEW w \in Workers, ListFollowers(w)
          PROVE IInv'
        <3> DEFINE job == worker[w]
                   rest == {u \in FollowersOf(authorOf[job.v]) : u > job.cursor}
        <3>1. PICK page \in SUBSET rest, next \in rest \cup {0} :
                 /\ FirstPage(rest, page, next)
                 /\ worker' = [worker EXCEPT ![w] =
                        [pc |-> "push", v |-> job.v, page |-> page, next |-> next]]
            BY <2>3 DEF ListFollowers
        <3>2. /\ job.pc = "list" /\ UNCHANGED <<authorOf, followers, task, pushed, owed>>
              /\ worker'[w] = [pc |-> "push", v |-> job.v, page |-> page, next |-> next]
              /\ \A x \in Workers : x # w => worker'[x] = worker[x]
            BY <2>3, <3>1 DEF ListFollowers, boxVars, TypeOK
        <3>3. Busy(w) /\ Handling(w) /\ ReachedSoFar(w) /\ job.v \in Videos /\ job.cursor \in Nat
            BY <3>2, RunningCall DEF Busy
        <3>4. rest \in SUBSET Users
            BY DEF FollowersOf
        <3>5. \A u \in rest : u \in page \/ (next # 0 /\ u > next)
            BY <3>1, <3>4, PageCoversUpToNext
        <3>6. ASSUME NEW u \in owed[job.v]
              PROVE u \in pushed[job.v] \/ u \in page \/ (next # 0 /\ u > next)
            <4>1. u \in FollowersOf(authorOf[job.v]) /\ u \in Nat
                BY <3>3, FanoutAssumption DEF Handling, FollowersOf
            <4>2. u <= job.cursor \/ u \in rest
                BY <4>1, <3>3, SMT
            <4> QED
                BY <4>2, <3>2, <3>3, <3>5 DEF ReachedSoFar
        <3>7. ASSUME NEW x \in Workers, Busy(x)'
              PROVE (Handling(x) /\ ReachedSoFar(x))'
            <4>1. CASE x = w
                BY <4>1, <3>2, <3>3, <3>6 DEF Handling, ReachedSoFar, FollowersOf
            <4>2. CASE x # w
                BY <4>2, <3>2, <3>7 DEF Handling, ReachedSoFar, FollowersOf, Busy
            <4> QED
                BY <4>1, <4>2
        <3>8. OneWorkerEach'
            BY <3>2, <3>3 DEF OneWorkerEach, Busy
        <3> QED
            BY <3>2, <3>7, <3>8 DEF NoTaskBeforeVideo, FollowersServed
    <2>4. ASSUME NEW w \in Workers, Push(w)
          PROVE IInv'
        <3> DEFINE job == worker[w]
        <3>1. /\ job.pc = "push" /\ Busy(w) /\ Handling(w) /\ ReachedSoFar(w)
              /\ job.v \in Videos /\ job.page \subseteq Users /\ job.next \in Nat
              /\ UNCHANGED <<authorOf, followers, owed>>
            BY <2>4, RunningCall DEF Push, Busy
        <3>2. \A v \in Videos : pushed'[v] = IF v = job.v THEN pushed[v] \cup job.page ELSE pushed[v]
            <4>1. pushed' = [pushed EXCEPT ![job.v] = @ \cup job.page]
                BY <2>4 DEF Push, PushTo, Note
            <4> QED
                BY <4>1 DEF TypeOK
        <3>3. /\ \A x \in Workers : x # w => worker'[x] = worker[x]
              /\ \A v \in Videos : v # job.v => task'[v] = task[v]
            BY <2>4 DEF Push, TypeOK
        <3>4. \A x \in Workers : x # w /\ Busy(x)' => (Handling(x) /\ ReachedSoFar(x))'
            BY <3>1, <3>2, <3>3, OthersUndisturbed DEF Busy
        <3>5. CASE job.next = 0
            <4>1. worker'[w] = Idle /\ task'[job.v] = "done"
                BY <2>4, <3>1, <3>5 DEF Push, TypeOK
            <4>2. ~Busy(w)'
                BY <4>1 DEF Busy, Idle
            <4>3. owed'[job.v] \subseteq pushed'[job.v]
                BY <3>1, <3>2, <3>5 DEF ReachedSoFar
            <4>4. FollowersServed'
                BY <3>1, <3>2, <3>3, <4>3 DEF FollowersServed
            <4>5. OneWorkerEach'
                BY <3>3, <4>2 DEF OneWorkerEach, Busy
            <4>6. NoTaskBeforeVideo'
                <5> SUFFICES ASSUME NEW v \in Videos, v > Len(authorOf) PROVE task'[v] = "none"
                    BY <3>1 DEF NoTaskBeforeVideo
                <5>1. task[v] = "none" /\ task[job.v] = "handling"
                    BY <3>1 DEF NoTaskBeforeVideo, Handling
                <5> QED
                    BY <3>3, <5>1
            <4> QED
                BY <3>4, <4>2, <4>4, <4>5, <4>6
        <3>6. CASE job.next # 0
            <4>1. /\ worker'[w] = [pc |-> "list", v |-> job.v, cursor |-> job.next]
                  /\ task' = task
                BY <2>4, <3>1, <3>6 DEF Push, TypeOK
            <4>2. \A u \in owed[job.v] : u <= job.next => u \in pushed'[job.v]
                <5> SUFFICES ASSUME NEW u \in owed[job.v], u <= job.next
                             PROVE u \in pushed[job.v] \cup job.page
                    BY <3>1, <3>2
                <5>1. u \in Nat
                    BY <3>1, FanoutAssumption DEF Handling, FollowersOf
                <5>2. ~(u > job.next)
                    BY <5>1, <3>1, SMT
                <5> QED
                    BY <5>2, <3>1 DEF ReachedSoFar
            <4>3. (Handling(w) /\ ReachedSoFar(w))'
                BY <3>1, <4>1, <4>2 DEF Handling, ReachedSoFar, FollowersOf
            <4>4. FollowersServed'
                BY <3>1, <3>2, <4>1 DEF FollowersServed
            <4>5. OneWorkerEach'
                BY <3>1, <3>3, <4>1 DEF OneWorkerEach, Busy
            <4>6. NoTaskBeforeVideo'
                BY <3>1, <4>1 DEF NoTaskBeforeVideo
            <4> QED
                BY <3>4, <4>3, <4>4, <4>5, <4>6
        <3> QED
            BY <3>5, <3>6
    <2>5. ASSUME NEW w \in Workers, NEW added \in SUBSET Users, NEW trimmed \in SUBSET Users,
                 Fails(w, added, trimmed)
          PROVE IInv'
        <3> DEFINE job == worker[w]
        <3>1. /\ Busy(w) /\ Handling(w) /\ job.v \in Videos
              /\ UNCHANGED <<authorOf, followers, owed>>
            BY <2>5, RunningCall DEF Fails, Busy
        <3>2. \A v \in Videos : pushed'[v] = IF v = job.v THEN pushed[v] \cup added ELSE pushed[v]
            <4>1. pushed' = [pushed EXCEPT ![job.v] = @ \cup added]
                BY <2>5 DEF Fails, PushTo, Note
            <4> QED
                BY <4>1 DEF TypeOK
        <3>3. /\ worker'[w] = Idle
              /\ \A x \in Workers : x # w => worker'[x] = worker[x]
              /\ \A v \in Videos : v # job.v => task'[v] = task[v]
              /\ task'[job.v] \in {"pending", "dead"}
            BY <2>5, <3>1 DEF Fails, TypeOK
        <3>4. \A x \in Workers : x # w /\ Busy(x)' => (Handling(x) /\ ReachedSoFar(x))'
            BY <3>1, <3>2, <3>3, OthersUndisturbed DEF Busy
        <3>5. ~Busy(w)'
            BY <3>3 DEF Busy, Idle
        <3>6. FollowersServed'
            BY <3>1, <3>2, <3>3 DEF FollowersServed
        <3>7. OneWorkerEach'
            BY <3>3, <3>5 DEF OneWorkerEach, Busy
        <3>8. NoTaskBeforeVideo'
            BY <3>1, <3>3, SMT DEF NoTaskBeforeVideo, Handling, TypeOK, Videos
        <3> QED
            BY <3>4, <3>5, <3>6, <3>7, <3>8
    <2>6. ASSUME NEW u \in Users, NEW a \in Authors, Follow(u, a)
          PROVE IInv'
        BY <2>6 DEF Follow, boxVars, Busy, Handling, ReachedSoFar, FollowersOf, OneWorkerEach,
                    NoTaskBeforeVideo, FollowersServed
    <2>7. ASSUME NEW u \in Users, NEW a \in Authors, Unfollow(u, a)
          PROVE IInv'
        <3>1. /\ UNCHANGED <<authorOf, task, worker, pushed>>
              /\ followers' = followers \ {<<a, u>>}
              /\ \A v \in Videos : /\ owed'[v] \subseteq owed[v]
                                   /\ v <= Len(authorOf) /\ authorOf[v] = a => u \notin owed'[v]
            BY <2>7 DEF Unfollow, boxVars, TypeOK
        <3>2. ASSUME NEW w \in Workers, Busy(w)'
              PROVE (Handling(w) /\ ReachedSoFar(w))'
            <4>1. Busy(w) /\ Handling(w) /\ ReachedSoFar(w) /\ worker[w].v \in Videos
                BY <3>1, <3>2, RunningCall DEF Busy
            <4>2. Handling(w)'
                BY <4>1, <3>1 DEF Handling, FollowersOf
            <4>3. ReachedSoFar(w)'
                BY <4>1, <3>1 DEF ReachedSoFar
            <4> QED
                BY <4>2, <4>3
        <3> QED
            BY <3>1, <3>2 DEF OneWorkerEach, Busy, NoTaskBeforeVideo, FollowersServed
    <2>9. ASSUME NEW u \in Users, ExpireInbox(u)
          PROVE IInv'
        BY <2>9 DEF ExpireInbox, Busy, Handling, ReachedSoFar, FollowersOf, OneWorkerEach,
                    NoTaskBeforeVideo, FollowersServed
    <2>8. CASE UNCHANGED vars
        BY <2>8 DEF vars, boxVars, Busy, Handling, ReachedSoFar, FollowersOf, OneWorkerEach,
                    NoTaskBeforeVideo, FollowersServed
    <2> QED
        BY <2>1, <2>2, <2>3, <2>4, <2>5, <2>6, <2>7, <2>8, <2>9 DEF Next
<1>3. IInv => FollowersServed
    BY DEF IInv
<1> QED
    BY <1>1, <1>2, <1>3, TypeCorrect, PTL DEF Spec

-----------------------------------------------------------------------------
(* Inboxes and the trimming of sorted sets. *)

\* The entries of a sorted set with a higher score than v.
Above(box, v) == {w \in box : w > v}

\* A set of videos is finite, and no part of it is larger.
LEMMA VideosAreFinite ==
    ASSUME NEW box \in SUBSET Videos
    PROVE  /\ IsFiniteSet(box) /\ Cardinality(box) \in Nat
           /\ \A part \in SUBSET box : Cardinality(part) <= Cardinality(box)
<1>1. IsFiniteSet(Videos)
    BY FanoutAssumption, FS_Interval DEF Videos
<1>2. IsFiniteSet(box)
    BY <1>1, FS_Subset
<1> QED
    BY <1>2, FS_Subset, FS_CardinalityType

\* Among some videos there is a newest.
LEMMA NewestExists ==
    ASSUME NEW box \in SUBSET Videos, box # {}
    PROVE  \E v \in box : \A w \in box : w <= v
<1> DEFINE ages == {MaxVideos - v : v \in box}
<1>1. \A v \in box : v \in Nat /\ v <= MaxVideos /\ MaxVideos \in Nat
    BY FanoutAssumption DEF Videos
<1>2. ages \subseteq Nat /\ ages # {}
    BY <1>1
<1> HIDE DEF ages
<1>3. PICK a \in ages : \A b \in ages : ~(<<b, a>> \in OpToRel(<, Nat))
    BY <1>2, NatLessThanWellFounded, WFMin
<1>4. ASSUME NEW b \in ages PROVE a <= b
    <2>1. b \in Nat /\ a \in Nat
        BY <1>2
    <2>2. ~(b < a)
        BY <1>3, <2>1, Zenon DEF OpToRel
    <2> QED
        BY <2>1, <2>2
<1>5. PICK v \in box : a = MaxVideos - v
    BY DEF ages
<1>6. ASSUME NEW w \in box PROVE w <= v
    <2>1. MaxVideos - w \in ages
        BY DEF ages
    <2> QED
        BY <1>1, <1>4, <1>5, <2>1
<1> QED
    BY <1>6

\* Trimming forgets what an inbox has lost of the videos it was given, as long as it
\* holds the newest of them: what it has lost is too old to come back.
LEMMA TrimmedBefore ==
    ASSUME NEW given \in SUBSET Videos, NEW box \in SUBSET given, Trim(given) \subseteq box,
           NEW more \in SUBSET Videos
    PROVE  Trim(box \cup more) = Trim(given \cup more)
<1> DEFINE B == box \cup more
           C == given \cup more
<1>0. /\ B \subseteq C /\ C \in SUBSET Videos /\ B \in SUBSET Videos
      /\ \A x, y \in Videos : x \in Nat /\ y \in Nat
    <2>1. \A x \in Videos : x \in Nat
        BY FanoutAssumption DEF Videos
    <2> QED
        BY <2>1
<1>1. \A box1, box2 \in SUBSET Videos : \A x \in Videos :
          Above(box1, x) \subseteq Above(box2, x)
              => /\ Cardinality(Above(box1, x)) <= Cardinality(Above(box2, x))
                 /\ Cardinality(Above(box1, x)) \in Nat /\ Cardinality(Above(box2, x)) \in Nat
    <2> SUFFICES ASSUME NEW box1 \in SUBSET Videos, NEW box2 \in SUBSET Videos, NEW x \in Videos,
                        Above(box1, x) \subseteq Above(box2, x)
                 PROVE  /\ Cardinality(Above(box1, x)) <= Cardinality(Above(box2, x))
                        /\ Cardinality(Above(box1, x)) \in Nat
                        /\ Cardinality(Above(box2, x)) \in Nat
        OBVIOUS
    <2>1. Above(box2, x) \in SUBSET Videos /\ Above(box1, x) \in SUBSET Videos
        BY DEF Above
    <2> QED
        BY <2>1, VideosAreFinite
<1>2. ASSUME NEW x \in Trim(C) PROVE x \in Trim(B)
    <2>1. x \in C /\ x \in Videos /\ Cardinality(Above(C, x)) < TimelineMax
        BY <1>0 DEF Trim, Above
    <2>2. Above(given, x) \subseteq Above(C, x) /\ Above(B, x) \subseteq Above(C, x)
        BY <1>0 DEF Above
    <2>3. /\ Cardinality(Above(given, x)) < TimelineMax
          /\ Cardinality(Above(B, x)) < TimelineMax
        <3> HIDE DEF B, C
        <3>1. /\ Cardinality(Above(given, x)) <= Cardinality(Above(C, x))
              /\ Cardinality(Above(given, x)) \in Nat /\ Cardinality(Above(C, x)) \in Nat
            BY <1>0, <1>1, <2>1, <2>2
        <3>2. /\ Cardinality(Above(B, x)) <= Cardinality(Above(C, x))
              /\ Cardinality(Above(B, x)) \in Nat
            BY <1>0, <1>1, <2>1, <2>2
        <3>3. TimelineMax \in Nat
            BY FanoutAssumption
        <3> QED
            BY <2>1, <3>1, <3>2, <3>3
    <2>4. x \in B
        <3>1. CASE x \in given
            BY <2>3, <3>1 DEF Trim, Above
        <3> QED
            BY <2>1, <3>1
    <2> QED
        BY <2>3, <2>4 DEF Trim, Above
<1>3. ASSUME NEW x \in Trim(B) PROVE x \in Trim(C)
    <2>1. x \in B /\ x \in Videos /\ Cardinality(Above(B, x)) < TimelineMax
        BY <1>0 DEF Trim, Above
    <2>2. CASE Above(C, x) \subseteq B
        <3>1. Above(C, x) = Above(B, x)
            BY <1>0, <2>2 DEF Above
        <3> QED
            BY <1>0, <2>1, <3>1 DEF Trim, Above
    <2>3. CASE ~(Above(C, x) \subseteq B)
        <3> DEFINE cut == given \ box
        <3>1. PICK w \in cut : w > x
            BY <2>3 DEF Above
        <3>2. PICK m \in cut : \A y \in cut : y <= m
            BY <3>1, NewestExists
        <3>3. m \in Videos /\ m > x
            BY <1>0, <2>1, <3>1, <3>2
        <3>4. Cardinality(Above(given, m)) >= TimelineMax
            <4>1. Above(given, m) \in SUBSET Videos
                BY DEF Above
            <4> QED
                BY <3>2, <4>1, VideosAreFinite, FanoutAssumption DEF Trim, Above
        <3>5. Above(given, m) \subseteq Above(B, x)
            BY <1>0, <2>1, <3>2, <3>3 DEF Above
        <3>6. Cardinality(Above(given, m)) <= Cardinality(Above(B, x))
            <4>1. Above(B, x) \in SUBSET Videos
                BY <1>0 DEF Above
            <4> QED
                BY <3>5, <4>1, VideosAreFinite
        <3>7. /\ Cardinality(Above(given, m)) \in Nat /\ Cardinality(Above(B, x)) \in Nat
              /\ TimelineMax \in Nat
            <4>1. Above(B, x) \in SUBSET Videos /\ Above(given, m) \in SUBSET Videos
                BY <1>0 DEF Above
            <4> QED
                BY <4>1, VideosAreFinite, FanoutAssumption
        <3> QED
            BY <2>1, <3>4, <3>6, <3>7
    <2> QED
        BY <2>2, <2>3
<1> QED
    BY <1>2, <1>3

\* A push, wherever its pipeline ended, leaves the inboxes the newest of what arrived.
LEMMA PushKeepsNewest ==
    ASSUME TypeOK, InboxKeepsNewest, NEW added \in SUBSET Users, NEW trimmed \in SUBSET Users,
           NEW v \in Videos, PushTo(added, trimmed, v)
    PROVE  InboxKeepsNewest'
<1> SUFFICES ASSUME NEW u \in Users
             PROVE  /\ Trim(arrived'[u]) \subseteq inbox'[u] /\ inbox'[u] \subseteq arrived'[u]
                    /\ u \notin untrimmed' => inbox'[u] = Trim(arrived'[u])
    BY DEF InboxKeepsNewest, Trim
<1> DEFINE more == IF u \in added THEN {v} ELSE {}
<1>1. /\ arrived[u] \in SUBSET Videos /\ inbox[u] \in SUBSET arrived[u]
      /\ Trim(arrived[u]) \subseteq inbox[u] /\ more \in SUBSET Videos
      /\ u \notin untrimmed => inbox[u] = Trim(arrived[u])
    BY DEF TypeOK, InboxKeepsNewest
<1>2. /\ arrived'[u] = arrived[u] \cup more
      /\ untrimmed' = (untrimmed \cup added) \ trimmed
      /\ inbox'[u] = IF u \in trimmed THEN Trim(inbox[u] \cup more) ELSE inbox[u] \cup more
    BY DEF PushTo, Note
<1> HIDE DEF more
<1>3. Trim(inbox[u] \cup more) = Trim(arrived[u] \cup more)
    BY <1>1, TrimmedBefore
<1>4. \A box : Trim(box) \subseteq box
    BY DEF Trim
<1>5. CASE u \in trimmed
    BY <1>1, <1>2, <1>3, <1>4, <1>5
<1>6. CASE u \notin trimmed
    <2>1. Trim(arrived[u] \cup more) \subseteq inbox[u] \cup more
        BY <1>3, <1>4
    <2>2. ASSUME u \notin untrimmed' PROVE inbox'[u] = Trim(arrived'[u])
        <3>1. more = {} /\ u \notin untrimmed
            BY <1>2, <1>6, <2>2 DEF more
        <3> QED
            BY <1>1, <1>2, <1>6, <3>1
    <2> QED
        BY <1>1, <1>2, <1>6, <2>1, <2>2
<1> QED
    BY <1>5, <1>6

\* Whatever order workers and retries push in, wherever a pipeline ends and whatever
\* expires: an inbox has lost none of the newest TimelineMax videos since it last
\* expired, and holds no more unless a trim is outstanding (store.go:14, 46-57;
\* fanout.go:33).
THEOREM InboxesKeepNewest == Spec => []InboxKeepsNewest
<1>1. Init => InboxKeepsNewest
    BY DEF Init, InboxKeepsNewest, Trim
<1>2. TypeOK /\ InboxKeepsNewest /\ [Next]_vars => InboxKeepsNewest'
    <2> SUFFICES ASSUME TypeOK, InboxKeepsNewest, [Next]_vars PROVE InboxKeepsNewest'
        OBVIOUS
    <2>1. ASSUME NEW w \in Workers, Push(w) PROVE InboxKeepsNewest'
        <3>1. /\ worker[w].v \in Videos /\ worker[w].page \in SUBSET Users
              /\ PushTo(worker[w].page, worker[w].page, worker[w].v)
            BY <2>1, RunningCall DEF Push
        <3> QED
            BY <3>1, PushKeepsNewest
    <2>2. ASSUME NEW w \in Workers, NEW added \in SUBSET Users, NEW trimmed \in SUBSET Users,
                 Fails(w, added, trimmed)
          PROVE InboxKeepsNewest'
        <3>1. worker[w].v \in Videos /\ PushTo(added, trimmed, worker[w].v)
            BY <2>2, RunningCall DEF Fails
        <3> QED
            BY <3>1, PushKeepsNewest
    <2>3. ASSUME NEW u \in Users, ExpireInbox(u) PROVE InboxKeepsNewest'
        <3>1. /\ \A x \in Users : /\ inbox'[x] = IF x = u THEN {} ELSE inbox[x]
                                  /\ arrived'[x] = IF x = u THEN {} ELSE arrived[x]
              /\ untrimmed' = untrimmed \ {u}
            BY <2>3 DEF ExpireInbox, TypeOK
        <3>2. Trim({}) = {}
            BY DEF Trim
        <3>3. ASSUME NEW x \in Users
              PROVE  /\ Trim(arrived'[x]) \subseteq inbox'[x] /\ inbox'[x] \subseteq arrived'[x]
                     /\ x \notin untrimmed' => inbox'[x] = Trim(arrived'[x])
            <4>1. CASE x = u
                BY <3>1, <3>2, <4>1
            <4>2. CASE x # u
                BY <3>1, <4>2 DEF InboxKeepsNewest
            <4> QED
                BY <4>1, <4>2
        <3> QED
            BY <3>3 DEF InboxKeepsNewest, Trim
    <2>4. CASE UNCHANGED boxVars
        BY <2>4 DEF boxVars, InboxKeepsNewest, Trim
    <2>5. \/ \E w \in Workers : Push(w) \/ \E added, trimmed \in SUBSET Users : Fails(w, added, trimmed)
          \/ \E u \in Users : ExpireInbox(u)
          \/ UNCHANGED boxVars
        BY DEF Next, PublishFanout, Handle, ListFollowers, Follow, Unfollow, vars
    <2> QED
        BY <2>1, <2>2, <2>3, <2>4, <2>5
<1> QED
    BY <1>1, <1>2, TypeCorrect, PTL DEF Spec

-----------------------------------------------------------------------------
(* What paging relies on. *)

Numbered == Len(ts) <= MaxVideos /\ \A v \in Published : ts[v] > 0

\* A request that runs belongs to a client that pages; before its first request
\* the client has nothing.
InSession ==
    /\ reader.pc # "none" => state = "paging"
    /\ state = "new" => /\ cursor = 0 /\ steady.pushed = {} /\ steady.pulled = {}
                        /\ \A v \in Videos : seen[v] = 0

BelowCursor == \A v \in reader.found : Before(v)

SeenAbove == \A v \in Videos : seen[v] > 0 => v \in Published /\ (state = "paging" => ~Before(v))

\* What the client is owed, and what of it is still to come.
InReach == steady.pushed \subseteq ownInbox /\ steady.pulled \subseteq Pullable
Owed == (steady.pushed \cup steady.pulled) \ Tied
StillToCome == state = "paging" => \A v \in Owed : seen[v] > 0 \/ Before(v)

\* The reads so far hold v, or Fetch others that are not older.
AtLeast(v) == {w \in reader.found : ts[w] >= ts[v]}
Covered(v) == v \in reader.found \/ Cardinality(AtLeast(v)) >= Fetch

PushedCovered == reader.pc # "none" => \A v \in steady.pushed : Before(v) => Covered(v)
PulledAhead ==
    /\ reader.pc = "bigVs" => \A v \in steady.pulled : authorOf[v] \in reader.left \cup reader.bigVs
    /\ reader.pc = "pull" => \A v \in steady.pulled :
                                authorOf[v] \in reader.left \/ (Before(v) => Covered(v))

-----------------------------------------------------------------------------
(* Types, spelled out. *)

\* What the types say of the videos published, and of what is read and owed.
LEMMA ReadFacts ==
    ASSUME ReadTypeOK, Numbered
    PROVE  /\ Len(ts) \in Nat /\ Published \subseteq Videos /\ Published \subseteq Nat
           /\ IsFiniteSet(Published)
           /\ \A v \in Published : ts[v] \in Nat /\ ts[v] > 0 /\ authorOf[v] \in Authors
           /\ reader.found \subseteq Published /\ IsFiniteSet(reader.found)
           /\ steady.pushed \subseteq Published /\ steady.pulled \subseteq Published
           /\ cursor \in Nat
<1>1. Len(ts) \in Nat /\ Len(ts) <= MaxVideos /\ MaxVideos \in Nat
    BY FollowingFeedAssumption, LenProperties DEF ReadTypeOK, Numbered
<1>2. Published \subseteq Videos /\ Published \subseteq Nat
    BY <1>1 DEF Published, Videos
<1>3. IsFiniteSet(Published)
    BY <1>1, FS_Interval DEF Published
<1>4. \A v \in Published : ts[v] \in Nat
    BY ElementOfSeq DEF ReadTypeOK, Published
<1>5. \A v \in Published : authorOf[v] \in Authors
    <2>1. authorOf \in Seq(Authors) /\ Len(authorOf) = Len(ts)
        BY DEF ReadTypeOK
    <2> QED
        BY <2>1, ElementOfSeq DEF Published
<1>6. reader.found \subseteq Published /\ IsFiniteSet(reader.found)
    <2>1. reader.found \in SUBSET Published
        BY DEF ReadTypeOK
    <2> QED
        BY <1>3, <2>1, FS_Subset
<1>7. steady.pushed \subseteq Published /\ steady.pulled \subseteq Published /\ cursor \in Nat
    BY DEF ReadTypeOK
<1> QED
    BY <1>1, <1>2, <1>3, <1>4, <1>5, <1>6, <1>7 DEF Numbered

\* A page is not longer than what each read fetches.
LEMMA PageFits == PageSize \in Nat /\ PageSize > 0 /\ Fetch \in Nat /\ PageSize <= Fetch
<1>1. PageSize \in Nat /\ PageSize > 0 /\ FetchFactor \in Nat /\ FetchFactor >= 1
    BY FollowingFeedAssumption
<1>2. \A p, f \in Nat : f >= 1 => p * f \in Nat /\ p <= p * f
    OBVIOUS
<1> QED
    BY <1>1, <1>2 DEF Fetch

-----------------------------------------------------------------------------
(* Reading sorted sets. *)

\* What Highest leaves out is not newer than any it took, of which there are n.
LEMMA LeftOut ==
    ASSUME NEW box, IsFiniteSet(box), NEW n \in Nat, NEW top \in Highest(box, n),
           NEW v \in box, v \notin top
    PROVE  top \subseteq box /\ Cardinality(top) = n /\ \A w \in top : ts[w] >= ts[v]
<1>1. /\ top \in SUBSET box
      /\ Cardinality(top) = IF Cardinality(box) < n THEN Cardinality(box) ELSE n
      /\ \A w \in top : ts[w] >= ts[v]
    BY DEF Highest
<1>2. Cardinality(box) # Cardinality(top)
    BY <1>1, FS_Subset
<1> QED
    BY <1>1, <1>2

\* With n entries in the box that are not older than v, what Highest takes is n
\* entries and none is older.
LEMMA EnoughAbove ==
    ASSUME NEW box, IsFiniteSet(box), NEW n \in Nat, NEW top \in Highest(box, n),
           NEW t \in Nat, \A w \in box : ts[w] \in Nat,
           NEW above, above = {w \in box : ts[w] >= t}, Cardinality(above) >= n
    PROVE  Cardinality(top) = n /\ \A w \in top : ts[w] >= t
<1>1. /\ top \in SUBSET box
      /\ Cardinality(top) = IF Cardinality(box) < n THEN Cardinality(box) ELSE n
      /\ \A x \in top, w \in box \ top : ts[x] >= ts[w]
    BY DEF Highest
<1>2. /\ Cardinality(box) \in Nat /\ Cardinality(above) \in Nat /\ Cardinality(above) <= Cardinality(box)
      /\ IsFiniteSet(above) /\ IsFiniteSet(top)
    <2>1. above \in SUBSET box
        OBVIOUS
    <2> QED
        BY <1>1, <2>1, FS_Subset, FS_CardinalityType
<1>3. Cardinality(top) = n
    BY <1>1, <1>2
<1>4. ASSUME NEW w \in top, ~(ts[w] >= t) PROVE FALSE
    <2>1. w \in box /\ ts[w] \in Nat /\ w \notin above
        BY <1>1, <1>4
    <2>2. above \subseteq top
        <3> SUFFICES ASSUME NEW x \in above, x \notin top PROVE FALSE
            OBVIOUS
        <3>1. x \in box /\ ts[x] \in Nat /\ ts[x] >= t
            OBVIOUS
        <3>2. ts[w] >= ts[x]
            BY <1>1, <3>1
        <3> QED
            BY <1>4, <2>1, <3>1, <3>2
    <2>3. above \in SUBSET (top \ {w})
        BY <2>1, <2>2
    <2>4. IsFiniteSet(top \ {w}) /\ Cardinality(top \ {w}) = n - 1
        BY <1>2, <1>3, FS_RemoveElement
    <2>5. Cardinality(above) <= n - 1
        BY <2>3, <2>4, FS_Subset
    <2> QED
        BY <1>2, <2>5
<1> QED
    BY <1>3, <1>4

\* The least of the scores on a page.
LEMMA LeastScore ==
    ASSUME NEW page, page # {}, \A v \in page : ts[v] \in Nat,
           NEW next, next = CHOOSE t \in {ts[v] : v \in page} : \A v \in page : t <= ts[v]
    PROVE  (\E v \in page : next = ts[v]) /\ \A v \in page : next <= ts[v]
<1> DEFINE scores == {ts[v] : v \in page}
<1>1. scores \subseteq Nat /\ scores # {}
    OBVIOUS
<1> HIDE DEF scores
<1>2. PICK t \in scores : \A u \in scores : ~(<<u, t>> \in OpToRel(<, Nat))
    BY <1>1, NatLessThanWellFounded, WFMin
<1>3. ASSUME NEW u \in scores PROVE t <= u
    <2>1. u \in Nat /\ t \in Nat
        BY <1>1
    <2>2. ~(u < t)
        BY <1>2, <2>1 DEF OpToRel
    <2> QED
        BY <2>1, <2>2
<1>4. \E u \in {ts[v] : v \in page} : \A v \in page : u <= ts[v]
    BY <1>3 DEF scores
<1>5. next \in {ts[v] : v \in page} /\ \A v \in page : next <= ts[v]
    BY <1>4
<1> QED
    BY <1>5

\* A read covers what it could have returned.
LEMMA ReadCovers ==
    ASSUME ReadTypeOK, Numbered, NEW box \in SUBSET Published, NEW found \in ReadZSet(box)
    PROVE  /\ found \subseteq {v \in box : Before(v)}
           /\ \A v \in box : Before(v) =>
                 \/ v \in found
                 \/ Cardinality(found) >= Fetch /\ \A w \in found : ts[w] >= ts[v]
<1> DEFINE rest == {v \in box : Before(v)}
<1>1. IsFiniteSet(rest)
    <2>1. rest \in SUBSET Published
        OBVIOUS
    <2> QED
        BY <2>1, ReadFacts, FS_Subset
<1>2. found \in Highest(rest, Fetch) /\ Fetch \in Nat
    BY PageFits DEF ReadZSet
<1>3. found \subseteq rest
    BY <1>2 DEF Highest
<1>4. ASSUME NEW v \in box, Before(v), v \notin found
      PROVE  Cardinality(found) = Fetch /\ \A w \in found : ts[w] >= ts[v]
    <2>1. v \in rest
        BY <1>4
    <2> HIDE DEF rest
    <2> QED
        BY <1>1, <1>2, <1>4, <2>1, LeftOut
<1> QED
    BY <1>2, <1>3, <1>4
-----------------------------------------------------------------------------
(* Every step keeps the types. *)

\* What the request holds and what the client is owed, as records of these fields.
LEMMA FieldsTyped ==
    ASSUME ReadTypeOK
    PROVE  /\ reader.pc \in {"none", "followees", "bigVs", "pull"} /\ reader.found \subseteq Published
           /\ reader.left \subseteq Authors /\ reader.bigVs \subseteq Authors
           /\ reader = [pc |-> reader.pc, found |-> reader.found,
                        left |-> reader.left, bigVs |-> reader.bigVs]
           /\ steady = [pushed |-> steady.pushed, pulled |-> steady.pulled]
    BY DEF ReadTypeOK

\* The videos there were stay as they were.
LEMMA PublishAdds ==
    ASSUME ReadTypeOK, Numbered, NEW a \in Authors, NEW t \in 1 .. MaxVideos, Publish(a, t)
    PROVE  /\ Len(ts') = Len(ts) + 1 /\ Len(authorOf') = Len(ts) + 1
           /\ ts' \in Seq(Nat) /\ authorOf' \in Seq(Authors)
           /\ Published' = Published \cup {Len(ts) + 1} /\ Len(ts) + 1 \notin Published
           /\ ts'[Len(ts) + 1] = t /\ Len(ts) + 1 \in Videos
           /\ \A v \in Published : ts'[v] = ts[v] /\ authorOf'[v] = authorOf[v]
<1>1. ts' = Append(ts, t) /\ authorOf' = Append(authorOf, a) /\ Len(ts) + 1 \in Videos
    BY DEF Publish
<1>2. ts \in Seq(Nat) /\ authorOf \in Seq(Authors) /\ Len(authorOf) = Len(ts) /\ Len(ts) \in Nat /\ t \in Nat
    BY ReadFacts DEF ReadTypeOK
<1>3. /\ Len(ts') = Len(ts) + 1 /\ ts' \in Seq(Nat) /\ ts'[Len(ts) + 1] = t
      /\ \A v \in 1 .. Len(ts) : ts'[v] = ts[v]
    BY <1>1, <1>2, AppendProperties
<1>4. /\ Len(authorOf') = Len(ts) + 1 /\ authorOf' \in Seq(Authors)
      /\ \A v \in 1 .. Len(ts) : authorOf'[v] = authorOf[v]
    BY <1>1, <1>2, AppendProperties
<1>5. 1 .. Len(ts) + 1 = (1 .. Len(ts)) \cup {Len(ts) + 1} /\ Len(ts) + 1 \notin 1 .. Len(ts)
    BY <1>2
<1> QED
    BY <1>1, <1>3, <1>4, <1>5 DEF Published

\* Publishing, the world around the reader and the request keep the types.
LEMMA PublishTyped ==
    ASSUME ReadTypeOK, Numbered, NEW a \in Authors, NEW t \in 1 .. MaxVideos, Publish(a, t)
    PROVE  ReadTypeOK' /\ Numbered'
<1>1. /\ undelivered' = undelivered \cup {Len(ts) + 1} /\ ownInbox' = ownInbox /\ reader' = reader
      /\ steady' = steady /\ changes' = changes /\ cursor' = cursor /\ seen' = seen /\ state' = state
      /\ follows' = follows /\ isBig' = isBig /\ cache' = cache
    BY DEF Publish, relVars, clientVars
<1>2. Published \subseteq Published' /\ Len(ts) + 1 \in Published'
    BY PublishAdds
<1>3. undelivered' \subseteq Published' /\ ownInbox' \subseteq Published'
    BY <1>1, <1>2 DEF ReadTypeOK
<1>4. reader' \in [pc : {"none", "followees", "bigVs", "pull"}, found : SUBSET Published',
                   left : SUBSET Authors, bigVs : SUBSET Authors]
    BY <1>1, <1>2, FieldsTyped
<1>5. steady' \in [pushed : SUBSET Published', pulled : SUBSET Published']
    <2>1. steady.pushed \in SUBSET Published /\ steady.pulled \in SUBSET Published
        BY DEF ReadTypeOK
    <2> QED
        BY <1>1, <1>2, <2>1, FieldsTyped
<1>6. ReadTypeOK'
    <2>1. ts' \in Seq(Nat) /\ authorOf' \in Seq(Authors) /\ Len(ts') = Len(authorOf')
        BY PublishAdds
    <2>2. /\ follows' \subseteq Authors /\ isBig' \subseteq Authors
          /\ cache' \in [Authors -> {"none", "big", "small"}]
          /\ cursor' \in Nat /\ seen' \in [Videos -> Nat] /\ state' \in {"new", "paging", "atEnd"}
          /\ changes' \in Nat
        BY <1>1 DEF ReadTypeOK
    <2> QED
        BY <1>3, <1>4, <1>5, <2>1, <2>2 DEF ReadTypeOK
<1>7. Numbered'
    <2>1. Len(ts') <= MaxVideos
        BY PublishAdds, ReadFacts, FollowingFeedAssumption DEF Videos
    <2>2. t > 0
        OBVIOUS
    <2>3. \A v \in Published' : ts'[v] > 0
        BY <2>2, PublishAdds DEF Numbered
    <2> QED
        BY <2>1, <2>3 DEF Numbered
<1> QED
    BY <1>6, <1>7

LEMMA WorldTyped ==
    ASSUME ReadTypeOK, Numbered,
           \/ \E v \in Videos : Deliver(v)
           \/ \E a \in Authors, what \in {"follow", "unfollow", "gain", "lose", "expire"} : Change(a, what)
           \/ InboxExpires
    PROVE  ReadTypeOK' /\ Numbered'
<1>1. CASE \E v \in Videos : Deliver(v)
    <2>1. /\ undelivered' \subseteq undelivered /\ ownInbox' \subseteq ownInbox \cup undelivered
          /\ UNCHANGED <<ts, authorOf, relVars, reader, clientVars, steady, changes>>
        BY <1>1 DEF Deliver
    <2> QED
        BY <2>1 DEF ReadTypeOK, Numbered, Published, relVars, clientVars
<1>2. CASE \E a \in Authors, what \in {"follow", "unfollow", "gain", "lose", "expire"} : Change(a, what)
    <2>0. PICK a \in Authors, what \in {"follow", "unfollow", "gain", "lose", "expire"} : Change(a, what)
        BY <1>2
    <2>1. /\ UNCHANGED <<ts, authorOf, undelivered, ownInbox, reader, cursor, seen, state>>
          /\ changes' = changes + 1 /\ steady' = [steady EXCEPT !.pulled = @ \cap Pullable']
          /\ follows' \in {follows, follows \cup {a}, follows \ {a}}
          /\ isBig' \in {isBig, isBig \cup {a}, isBig \ {a}}
          /\ cache' \in {cache, [cache EXCEPT ![a] = "none"]}
        BY <2>0 DEF Change, Disturbed, feedVars, clientVars
    <2>2. follows' \subseteq Authors /\ isBig' \subseteq Authors /\ changes' \in Nat
        BY <2>1 DEF ReadTypeOK
    <2>3. cache' \in [Authors -> {"none", "big", "small"}]
        BY <2>1 DEF ReadTypeOK
    <2>4. steady' \in [pushed : SUBSET Published, pulled : SUBSET Published]
        <3>1. steady \in [pushed : SUBSET Published, pulled : SUBSET Published]
            BY DEF ReadTypeOK
        <3> QED
            BY <2>1, <3>1
    <2>5. Published' = Published
        BY <2>1 DEF Published
    <2> QED
        BY <2>1, <2>2, <2>3, <2>4, <2>5 DEF ReadTypeOK, Numbered
<1>3. CASE InboxExpires
    <2>1. /\ ownInbox' = {} /\ steady' = [steady EXCEPT !.pushed = {}] /\ changes' = changes + 1
          /\ UNCHANGED <<ts, authorOf, undelivered, relVars, reader, clientVars>>
        BY <1>3 DEF InboxExpires, Disturbed
    <2>2. steady' \in [pushed : SUBSET Published, pulled : SUBSET Published]
        BY <2>1 DEF ReadTypeOK
    <2>3. Published' = Published /\ changes' \in Nat
        BY <2>1 DEF Published, ReadTypeOK
    <2> QED
        BY <2>1, <2>2, <2>3 DEF ReadTypeOK, Numbered, relVars, clientVars
<1> QED
    BY <1>1, <1>2, <1>3

\* A step of the request that leaves the videos and the client alone.
LEMMA RequestTyped ==
    ASSUME ReadTypeOK, Numbered,
           \/ ReadInbox \/ ListFollowees \/ (\E a \in Authors : IsBigV(a)) \/ AllCounted
           \/ \E a \in Authors : ReadOutbox(a)
    PROVE  ReadTypeOK' /\ Numbered'
<1> USE FieldsTyped
<1>1. /\ UNCHANGED <<feedVars, follows, isBig, cursor, seen>>
      /\ state' \in {state, "paging"} /\ changes' \in {changes, changes + 1}
    BY DEF ReadInbox, ListFollowees, IsBigV, AllCounted, ReadOutbox, Disturbed, relVars, clientVars
<1>2. Published' = Published
    BY <1>1 DEF feedVars, Published
<1>3. cache' \in [Authors -> {"none", "big", "small"}]
    <2>1. ASSUME NEW a \in Authors, IsBigV(a) PROVE cache' \in [Authors -> {"none", "big", "small"}]
        BY <2>1 DEF IsBigV, ReadTypeOK
    <2>2. CASE UNCHANGED cache
        BY <2>2 DEF ReadTypeOK
    <2> QED
        BY <2>1, <2>2 DEF ReadInbox, ListFollowees, AllCounted, ReadOutbox, relVars
<1>4. steady' \in [pushed : SUBSET Published, pulled : SUBSET Published]
    <2>1. CASE steady' = steady
        BY <2>1 DEF ReadTypeOK
    <2>2. CASE steady' = [pushed |-> ownInbox, pulled |-> Pullable]
        <3>1. ownInbox \subseteq Published /\ Pullable \subseteq Published
            BY DEF ReadTypeOK, Pullable, Outbox
        <3> QED
            BY <2>2, <3>1
    <2>3. CASE \E kept, gone : steady' = [steady EXCEPT !.pulled = (@ \cap kept) \ gone]
        <3>1. PICK kept, gone : steady' = [steady EXCEPT !.pulled = (@ \cap kept) \ gone]
            BY <2>3
        <3>2. steady \in [pushed : SUBSET Published, pulled : SUBSET Published]
            BY DEF ReadTypeOK
        <3> QED
            BY <3>1, <3>2
    <2>4. ASSUME NEW a \in Authors, IsBigV(a)
          PROVE  \E kept, gone : steady' = [steady EXCEPT !.pulled = (@ \cap kept) \ gone]
        <3>1. PICK count : Judged(a, count)
            BY <2>4 DEF IsBigV
        <3> QED
            BY <3>1 DEF Judged
    <2>5. CASE \E a \in Authors : steady' = [steady EXCEPT !.pulled = @ \ Outbox(a)]
        <3>1. PICK gone : steady' = [steady EXCEPT !.pulled = @ \ gone]
            BY <2>5
        <3>2. steady \in [pushed : SUBSET Published, pulled : SUBSET Published]
            BY DEF ReadTypeOK
        <3> QED
            BY <3>1, <3>2
    <2> QED
        BY <2>1, <2>2, <2>3, <2>4, <2>5 DEF ReadInbox, ListFollowees, AllCounted, ReadOutbox
<1>5. reader' \in [pc : {"none", "followees", "bigVs", "pull"}, found : SUBSET Published,
                   left : SUBSET Authors, bigVs : SUBSET Authors]
    <2>1. CASE ReadInbox
        <3>1. PICK found \in ReadZSet(ownInbox) : reader' = [NoRequest EXCEPT !.pc = "followees", !.found = found]
            BY <2>1 DEF ReadInbox
        <3>2. found \subseteq Published
            BY ReadCovers DEF ReadTypeOK
        <3> QED
            BY <3>1, <3>2 DEF NoRequest
    <2>2. CASE ListFollowees
        <3>1. reader' = [reader EXCEPT !.pc = "bigVs", !.left = follows] /\ follows \subseteq Authors
            BY <2>2 DEF ListFollowees, ReadTypeOK
        <3> QED
            BY <3>1
    <2>3. ASSUME NEW a \in Authors, IsBigV(a)
          PROVE  reader' \in [pc : {"none", "followees", "bigVs", "pull"}, found : SUBSET Published,
                              left : SUBSET Authors, bigVs : SUBSET Authors]
        <3>1. \/ reader' = [reader EXCEPT !.left = @ \ {a}, !.bigVs = @ \cup {a}]
              \/ reader' = [reader EXCEPT !.left = @ \ {a}, !.bigVs = @]
            BY <2>3 DEF IsBigV, Judged
        <3> QED
            BY <3>1
    <2>4. CASE AllCounted
        BY <2>4 DEF AllCounted
    <2>5. ASSUME NEW a \in Authors, ReadOutbox(a)
          PROVE  reader' \in [pc : {"none", "followees", "bigVs", "pull"}, found : SUBSET Published,
                              left : SUBSET Authors, bigVs : SUBSET Authors]
        <3>1. CASE \E found \in ReadZSet(Outbox(a)) :
                      reader' = [reader EXCEPT !.left = @ \ {a}, !.found = @ \cup found]
            <4>1. PICK found \in ReadZSet(Outbox(a)) :
                      reader' = [reader EXCEPT !.left = @ \ {a}, !.found = @ \cup found]
                BY <3>1
            <4>2. Outbox(a) \in SUBSET Published
                BY DEF Outbox
            <4>3. found \subseteq Published
                BY <4>2, ReadCovers
            <4> QED
                BY <4>1, <4>3
        <3>2. CASE reader' = [reader EXCEPT !.left = @ \ {a}]
            BY <3>2
        <3> QED
            BY <2>5, <3>1, <3>2 DEF ReadOutbox
    <2> QED
        BY <2>1, <2>2, <2>3, <2>4, <2>5
<1> QED
    BY <1>1, <1>2, <1>3, <1>4, <1>5 DEF ReadTypeOK, Numbered, feedVars
-----------------------------------------------------------------------------
(* The reply. *)

\* One reply: what was merged, what of it the client is given, and its next cursor.
ReplyOf(merged, items, next) ==
    /\ reader.pc = "pull" /\ reader.left = {}
    /\ merged \subseteq reader.found /\ merged \in Highest(reader.found, PageSize)
    /\ items \subseteq merged
    /\ \A v \in Videos : seen'[v] = IF v \in items THEN seen[v] + 1 ELSE seen[v]
    /\ \/ Cardinality(merged) < PageSize /\ next = 0
       \/ /\ Cardinality(merged) = PageSize /\ next > 0
          /\ (\E v \in merged : next = ts[v]) /\ \A v \in merged : next <= ts[v]
    /\ next \in Nat /\ cursor' = next /\ state' = IF next = 0 THEN "atEnd" ELSE "paging"
    /\ steady'.pushed = steady.pushed \ (merged \ items)
    /\ steady'.pulled = steady.pulled \ (merged \ items)
    /\ steady' = [pushed |-> steady.pushed \ (merged \ items),
                  pulled |-> steady.pulled \ (merged \ items)]
    /\ seen' \in [Videos -> Nat] /\ changes' \in {changes, changes + 1}
    /\ reader' = NoRequest
    /\ UNCHANGED <<ts, authorOf, undelivered, ownInbox, follows, isBig, cache>>

\* Every reply is one: a full page has a positive next cursor, any other has 0.
LEMMA ReplyIsOne ==
    ASSUME ReadTypeOK, Numbered, Reply
    PROVE  \E merged, items, next : ReplyOf(merged, items, next)
<1>0. /\ reader.pc = "pull" /\ reader.left = {} /\ reader' = NoRequest
      /\ UNCHANGED <<ts, authorOf, undelivered, ownInbox, follows, isBig, cache>>
      /\ changes' \in {changes, changes + 1}
    BY DEF Reply, Disturbed, feedVars, relVars
<1>1. PICK merged \in Highest(reader.found, PageSize), limit \in Limits :
       \E unread \in SUBSET merged : \E items \in Highest(merged \ unread, limit) :
          /\ seen' = [v \in Videos |-> IF v \in items THEN seen[v] + 1 ELSE seen[v]]
          /\ LET next == IF Cardinality(merged) < PageSize THEN 0
                         ELSE CHOOSE t \in {ts[v] : v \in merged} : \A v \in merged : t <= ts[v]
             IN /\ cursor' = next
                /\ state' = IF next = 0 THEN "atEnd" ELSE "paging"
          /\ steady' = [pushed |-> steady.pushed \ (merged \ items),
                        pulled |-> steady.pulled \ (merged \ items)]
    BY DEF Reply
<1>2. PICK next : next = IF Cardinality(merged) < PageSize THEN 0
                         ELSE CHOOSE t \in {ts[v] : v \in merged} : \A v \in merged : t <= ts[v]
    OBVIOUS
<1>3. PICK unread \in SUBSET merged : \E items \in Highest(merged \ unread, limit) :
          /\ seen' = [v \in Videos |-> IF v \in items THEN seen[v] + 1 ELSE seen[v]]
          /\ cursor' = next
          /\ state' = IF next = 0 THEN "atEnd" ELSE "paging"
          /\ steady' = [pushed |-> steady.pushed \ (merged \ items),
                        pulled |-> steady.pulled \ (merged \ items)]
    BY <1>1, <1>2
<1>12. PICK items \in Highest(merged \ unread, limit) :
          /\ seen' = [v \in Videos |-> IF v \in items THEN seen[v] + 1 ELSE seen[v]]
          /\ cursor' = next
          /\ state' = IF next = 0 THEN "atEnd" ELSE "paging"
          /\ steady' = [pushed |-> steady.pushed \ (merged \ items),
                        pulled |-> steady.pulled \ (merged \ items)]
    BY <1>3
<1>4. /\ merged \subseteq reader.found /\ items \subseteq merged
      /\ Cardinality(merged) = IF Cardinality(reader.found) < PageSize
                               THEN Cardinality(reader.found) ELSE PageSize
    BY DEF Highest
<1>5. IsFiniteSet(merged) /\ Cardinality(merged) \in Nat /\ Cardinality(merged) <= PageSize
    <2>1. IsFiniteSet(merged)
        BY <1>4, ReadFacts, FS_Subset
    <2>2. Cardinality(reader.found) \in Nat
        BY ReadFacts, FS_CardinalityType
    <2> QED
        BY <1>4, <2>1, <2>2, PageFits, FS_CardinalityType
<1>6. \A v \in merged : ts[v] \in Nat /\ ts[v] > 0
    BY <1>4, ReadFacts
<1>7. \/ Cardinality(merged) < PageSize /\ next = 0
      \/ /\ Cardinality(merged) = PageSize /\ next > 0
         /\ (\E v \in merged : next = ts[v]) /\ \A v \in merged : next <= ts[v]
    <2>1. CASE Cardinality(merged) < PageSize
        BY <1>2, <2>1
    <2>2. CASE ~(Cardinality(merged) < PageSize)
        <3>1. Cardinality(merged) = PageSize /\ merged # {}
            BY <1>5, <2>2, PageFits, FS_EmptySet
        <3>2. next = CHOOSE t \in {ts[v] : v \in merged} : \A v \in merged : t <= ts[v]
            BY <1>2, <2>2
        <3>3. (\E v \in merged : next = ts[v]) /\ \A v \in merged : next <= ts[v]
            BY <1>6, <3>1, <3>2, LeastScore
        <3> QED
            BY <1>6, <3>1, <3>3
    <2> QED
        BY <2>1, <2>2
<1>8. next \in Nat
    BY <1>6, <1>7
<1>9. seen' \in [Videos -> Nat] /\ \A v \in Videos : seen'[v] = IF v \in items THEN seen[v] + 1 ELSE seen[v]
    <2>1. seen \in [Videos -> Nat]
        BY DEF ReadTypeOK
    <2> QED
        BY <1>12, <2>1
<1>10. /\ steady'.pushed = steady.pushed \ (merged \ items)
       /\ steady'.pulled = steady.pulled \ (merged \ items)
    BY <1>12
<1>11. ReplyOf(merged, items, next)
    BY <1>0, <1>12, <1>4, <1>7, <1>8, <1>9, <1>10 DEF ReplyOf
<1> QED
    BY <1>11

LEMMA ReplyTyped ==
    ASSUME ReadTypeOK, Numbered, Reply
    PROVE  ReadTypeOK' /\ Numbered'
<1>1. PICK merged, items, next : ReplyOf(merged, items, next)
    BY ReplyIsOne
<1>2. /\ UNCHANGED <<ts, authorOf, undelivered, ownInbox, follows, isBig, cache>>
      /\ changes' \in Nat /\ Published' = Published
    BY <1>1 DEF ReplyOf, Published, ReadTypeOK
<1>3. steady' \in [pushed : SUBSET Published, pulled : SUBSET Published]
    <2>1. steady.pushed \in SUBSET Published /\ steady.pulled \in SUBSET Published
        BY DEF ReadTypeOK
    <2> QED
        BY <1>1, <2>1 DEF ReplyOf
<1>4. reader' \in [pc : {"none", "followees", "bigVs", "pull"}, found : SUBSET Published,
                   left : SUBSET Authors, bigVs : SUBSET Authors]
    BY <1>1 DEF ReplyOf, NoRequest
<1>5. cursor' \in Nat /\ seen' \in [Videos -> Nat] /\ state' \in {"new", "paging", "atEnd"}
    BY <1>1 DEF ReplyOf
<1> QED
    BY <1>2, <1>3, <1>4, <1>5 DEF ReadTypeOK, Numbered

LEMMA ReadStepTyped ==
    ASSUME ReadTypeOK, Numbered, [ReadNext]_readVars
    PROVE  ReadTypeOK' /\ Numbered'
<1>1. CASE UNCHANGED readVars
    BY <1>1 DEF readVars, feedVars, relVars, clientVars, ReadTypeOK, Numbered, Published
<1> QED
    BY <1>1, PublishTyped, WorldTyped, RequestTyped, ReplyTyped DEF ReadNext

LEMMA ReadStartTyped == ReadInit => ReadTypeOK /\ Numbered
<1> SUFFICES ASSUME ReadInit PROVE ReadTypeOK /\ Numbered
    OBVIOUS
<1>1. ts = <<>> /\ authorOf = <<>> /\ <<>> \in Seq(Nat) /\ <<>> \in Seq(Authors) /\ Len(<<>>) = 0
    BY EmptySeq DEF ReadInit
<1>2. Published = {}
    BY <1>1 DEF Published
<1>3. /\ follows \subseteq Authors /\ isBig \subseteq Authors
      /\ cache \in [Authors -> {"none", "big", "small"}]
    BY DEF ReadInit
<1>4. /\ undelivered = {} /\ ownInbox = {} /\ reader = NoRequest /\ steady = [pushed |-> {}, pulled |-> {}]
      /\ cursor = 0 /\ seen = [v \in Videos |-> 0] /\ state = "new" /\ changes = 0
    BY DEF ReadInit
<1>5. seen \in [Videos -> Nat]
    BY <1>4
<1> QED
    BY <1>1, <1>2, <1>3, <1>4, <1>5, FollowingFeedAssumption DEF ReadTypeOK, Numbered, NoRequest
-----------------------------------------------------------------------------
(* What paging relies on survives every step.  Publishing and what happens to *)
(* the user's relations:                                                     *)

Paging ==
    /\ InSession /\ BelowCursor /\ SeenAbove /\ NoVideoTwice
    /\ InReach /\ StillToCome /\ PushedCovered /\ PulledAhead /\ EndMeansComplete

LEMMA PublishKeepsPaging ==
    ASSUME ReadTypeOK, Numbered, Paging, NEW a \in Authors, NEW t \in 1 .. MaxVideos, Publish(a, t)
    PROVE  Paging'
<1>0. /\ undelivered' = undelivered \cup {Len(ts) + 1} /\ ownInbox' = ownInbox /\ reader' = reader
      /\ steady' = steady /\ cursor' = cursor /\ seen' = seen /\ state' = state
      /\ follows' = follows /\ cache' = cache
    BY DEF Publish, relVars, clientVars
<1>1. /\ Published \subseteq Published'
      /\ \A v \in Published : ts'[v] = ts[v] /\ authorOf'[v] = authorOf[v]
    BY PublishAdds
<1>2. /\ reader.found \subseteq Published
      /\ steady.pushed \subseteq Published /\ steady.pulled \subseteq Published
    BY ReadFacts
<1>3. \A v \in Published : Before(v)' <=> Before(v)
    BY <1>0, <1>1 DEF Before
<1>4. \A v \in Published : Covered(v)' <=> Covered(v)
    <2> SUFFICES ASSUME NEW v \in Published PROVE Covered(v)' <=> Covered(v)
        OBVIOUS
    <2>1. AtLeast(v)' = AtLeast(v)
        BY <1>0, <1>1, <1>2 DEF AtLeast
    <2> QED
        BY <1>0, <2>1 DEF Covered, Fetch
<1>5. Owed' \subseteq Owed
    <2>1. Tied \subseteq Tied'
        <3> SUFFICES ASSUME NEW v \in Published, NEW w \in Published \ {v}, ts[w] = ts[v]
                     PROVE  v \in Tied'
            BY DEF Tied
        <3>1. v \in Published' /\ w \in Published' \ {v} /\ ts'[w] = ts'[v]
            BY <1>1
        <3> QED
            BY <3>1 DEF Tied
    <2> QED
        BY <1>0, <2>1 DEF Owed
<1>6. Pullable \subseteq Pullable'
    <2> SUFFICES ASSUME NEW b \in follows, cache[b] = "big", NEW v \in Published, authorOf[v] = b
                 PROVE  v \in Pullable'
        BY DEF Pullable, Outbox
    <2>1. v \in Published' /\ authorOf'[v] = b /\ b \in follows' /\ cache'[b] = "big"
        BY <1>0, <1>1
    <2> QED
        BY <2>1 DEF Pullable, Outbox
<1>7. InSession' /\ NoVideoTwice'
    BY <1>0 DEF Paging, InSession, NoVideoTwice
<1>8. BelowCursor' /\ SeenAbove'
    BY <1>0, <1>1, <1>2, <1>3 DEF Paging, BelowCursor, SeenAbove
<1>9. InReach'
    BY <1>0, <1>6 DEF Paging, InReach
<1>10. StillToCome' /\ EndMeansComplete'
    <2>1. Owed \subseteq Published
        BY <1>2 DEF Owed
    <2>2. \A v \in Owed : seen'[v] = seen[v] /\ (Before(v)' <=> Before(v))
        BY <1>0, <1>3, <2>1
    <2> QED
        BY <1>0, <1>5, <2>2 DEF Paging, StillToCome, EndMeansComplete, Owed
<1>11. PushedCovered' /\ PulledAhead'
    BY <1>0, <1>1, <1>2, <1>3, <1>4 DEF Paging, PushedCovered, PulledAhead
<1> QED
    BY <1>7, <1>8, <1>9, <1>10, <1>11 DEF Paging

\* Videos, the cursor and what was found stay the same, and with them these.
LEMMA SameView ==
    ASSUME UNCHANGED <<ts, authorOf, cursor>>
    PROVE  /\ Published' = Published /\ Tied' = Tied
           /\ \A v : Before(v)' <=> Before(v)
           /\ \A b : Outbox(b)' = Outbox(b)
           /\ reader'.found = reader.found => \A v : Covered(v)' <=> Covered(v)
<1>1. Published' = Published
    BY DEF Published
<1>2. Tied' = Tied /\ (\A v : Before(v)' <=> Before(v)) /\ \A b : Outbox(b)' = Outbox(b)
    BY <1>1 DEF Tied, Before, Outbox
<1>3. ASSUME NEW v, reader'.found = reader.found PROVE Covered(v)' <=> Covered(v)
    <2>1. AtLeast(v)' = AtLeast(v)
        BY <1>3 DEF AtLeast
    <2> QED
        BY <1>3, <2>1 DEF Covered, Fetch
<1> QED
    BY <1>1, <1>2, <1>3

LEMMA DeliverKeepsPaging ==
    ASSUME ReadTypeOK, Numbered, Paging, NEW d \in Videos, Deliver(d)
    PROVE  Paging'
<1>0. /\ ownInbox \subseteq ownInbox'
      /\ UNCHANGED <<ts, authorOf, follows, cache, reader, cursor, seen, state, steady>>
    BY DEF Deliver, relVars, clientVars
<1>1. /\ Tied' = Tied /\ Published' = Published /\ Pullable' = Pullable
      /\ \A v : (Before(v)' <=> Before(v)) /\ (Covered(v)' <=> Covered(v))
    BY <1>0, SameView DEF Pullable
<1>2. Owed' = Owed
    BY <1>0, <1>1 DEF Owed
<1> QED
    BY <1>0, <1>1, <1>2 DEF Paging, InSession, BelowCursor, SeenAbove, NoVideoTwice, InReach,
        StillToCome, PushedCovered, PulledAhead, EndMeansComplete, Owed

LEMMA ChangeKeepsPaging ==
    ASSUME ReadTypeOK, Numbered, Paging, NEW a \in Authors,
           NEW what \in {"follow", "unfollow", "gain", "lose", "expire"}, Change(a, what)
    PROVE  Paging'
<1>0. /\ UNCHANGED <<ts, authorOf, ownInbox, reader, cursor, seen, state>>
      /\ steady'.pushed = steady.pushed
      /\ steady'.pulled = steady.pulled \cap Pullable'
    <2>1. UNCHANGED <<ts, authorOf, ownInbox, reader, cursor, seen, state>>
        BY DEF Change, feedVars, clientVars
    <2>2. PICK still : still = Pullable'
        OBVIOUS
    <2>3. steady' = [steady EXCEPT !.pulled = @ \cap still]
        BY <2>2 DEF Change
    <2>4. steady \in [pushed : SUBSET Published, pulled : SUBSET Published]
        BY DEF ReadTypeOK
    <2>5. steady'.pushed = steady.pushed /\ steady'.pulled = steady.pulled \cap still
        BY <2>3, <2>4
    <2> QED
        BY <2>1, <2>2, <2>5
<1>1. /\ Tied' = Tied /\ Published' = Published
      /\ \A v : (Before(v)' <=> Before(v)) /\ (Covered(v)' <=> Covered(v))
    BY <1>0, SameView
<1>2. Owed' \subseteq Owed
    BY <1>0, <1>1 DEF Owed
<1>3. InSession' /\ BelowCursor' /\ SeenAbove' /\ NoVideoTwice'
    BY <1>0, <1>1 DEF Paging, InSession, BelowCursor, SeenAbove, NoVideoTwice
<1>4. InReach'
    BY <1>0 DEF Paging, InReach
<1>5. StillToCome' /\ EndMeansComplete'
    BY <1>0, <1>1, <1>2 DEF Paging, StillToCome, EndMeansComplete, Owed
<1>6. PushedCovered' /\ PulledAhead'
    BY <1>0, <1>1 DEF Paging, PushedCovered, PulledAhead
<1> QED
    BY <1>3, <1>4, <1>5, <1>6 DEF Paging

LEMMA InboxExpiresKeepsPaging ==
    ASSUME ReadTypeOK, Numbered, Paging, InboxExpires
    PROVE  Paging'
<1>0. /\ UNCHANGED <<ts, authorOf, follows, cache, reader, cursor, seen, state>>
      /\ steady'.pushed = {} /\ steady'.pulled = steady.pulled
    BY FieldsTyped DEF InboxExpires, relVars, clientVars
<1>1. /\ Tied' = Tied /\ Published' = Published /\ Pullable' = Pullable
      /\ \A v : (Before(v)' <=> Before(v)) /\ (Covered(v)' <=> Covered(v))
    BY <1>0, SameView DEF Pullable
<1>2. Owed' \subseteq Owed
    BY <1>0, <1>1 DEF Owed
<1>3. InSession' /\ BelowCursor' /\ SeenAbove' /\ NoVideoTwice' /\ InReach'
    BY <1>0, <1>1 DEF Paging, InSession, BelowCursor, SeenAbove, NoVideoTwice, InReach
<1>4. StillToCome' /\ EndMeansComplete'
    BY <1>0, <1>1, <1>2 DEF Paging, StillToCome, EndMeansComplete, Owed
<1>5. PushedCovered' /\ PulledAhead'
    BY <1>0, <1>1 DEF Paging, PushedCovered, PulledAhead
<1> QED
    BY <1>3, <1>4, <1>5 DEF Paging

-----------------------------------------------------------------------------
(* The request. *)

LEMMA ReadInboxKeepsPaging ==
    ASSUME ReadTypeOK, Numbered, Paging, ReadInbox
    PROVE  Paging'
<1>1. PICK found \in ReadZSet(ownInbox) :
          reader' = [NoRequest EXCEPT !.pc = "followees", !.found = found]
    BY DEF ReadInbox
<1>2. reader'.pc = "followees" /\ reader'.found = found
    BY <1>1 DEF NoRequest
<1>3. /\ state # "atEnd" /\ state' = "paging"
      /\ UNCHANGED <<ts, authorOf, ownInbox, follows, cache, cursor, seen>>
      /\ state = "new" => steady'.pushed = ownInbox /\ steady'.pulled = Pullable
      /\ state # "new" => steady' = steady
    BY DEF ReadInbox, feedVars, relVars
<1>4. state = "paging" \/ state = "new"
    BY <1>3 DEF ReadTypeOK
<1>5. ownInbox \in SUBSET Published
    BY DEF ReadTypeOK
<1>6. /\ found \subseteq {v \in ownInbox : Before(v)}
      /\ \A v \in ownInbox : Before(v) =>
             v \in found \/ (Cardinality(found) >= Fetch /\ \A w \in found : ts[w] >= ts[v])
    BY <1>5, ReadCovers
<1>7. /\ Tied' = Tied /\ Published' = Published /\ \A v : Before(v)' <=> Before(v)
    BY <1>3, SameView
<1>8. InSession' /\ BelowCursor'
    BY <1>2, <1>3, <1>6, <1>7 DEF InSession, BelowCursor
<1>9. SeenAbove' /\ NoVideoTwice'
    BY <1>3, <1>4, <1>7 DEF Paging, InSession, SeenAbove, NoVideoTwice
<1>10. InReach'
    <2>1. Pullable' = Pullable
        BY <1>3, SameView DEF Pullable
    <2> QED
        BY <1>3, <2>1 DEF Paging, InReach
<1>11. StillToCome'
    <2>1. CASE state = "new"
        <3>1. cursor' = 0
            BY <1>3, <2>1 DEF Paging, InSession
        <3> QED
            BY <3>1 DEF StillToCome, Before
    <2>2. CASE state = "paging"
        BY <1>3, <1>7, <2>2 DEF Paging, StillToCome, Owed
    <2> QED
        BY <1>4, <2>1, <2>2
<1>12. PushedCovered'
    <2> SUFFICES ASSUME NEW v \in steady'.pushed, Before(v)' PROVE Covered(v)'
        BY DEF PushedCovered
    <2>1. v \in ownInbox /\ Before(v)
        BY <1>3, <1>7 DEF Paging, InReach
    <2>2. CASE v \in found
        BY <1>2, <2>2 DEF Covered
    <2>3. CASE Cardinality(found) >= Fetch /\ \A w \in found : ts[w] >= ts[v]
        <3>1. AtLeast(v)' = found
            BY <1>2, <1>3, <2>3 DEF AtLeast
        <3> QED
            BY <2>3, <3>1 DEF Covered, Fetch
    <2> QED
        BY <1>6, <2>1, <2>2, <2>3
<1>13. PulledAhead' /\ EndMeansComplete'
    BY <1>2, <1>3 DEF PulledAhead, EndMeansComplete
<1> QED
    BY <1>8, <1>9, <1>10, <1>11, <1>12, <1>13 DEF Paging

\* Steps that change nothing but the request, and count big Vs.
LEMMA AskingKeepsPaging ==
    ASSUME ReadTypeOK, Numbered, Paging,
           UNCHANGED <<ts, authorOf, ownInbox, follows, cursor, seen, state>>,
           reader.pc # "none", reader'.found = reader.found,
           steady'.pushed = steady.pushed, steady'.pulled \subseteq steady.pulled,
           steady'.pulled \subseteq Pullable', PulledAhead'
    PROVE  Paging'
<1>1. /\ Tied' = Tied /\ Published' = Published
      /\ \A v : (Before(v)' <=> Before(v)) /\ (Covered(v)' <=> Covered(v))
    BY SameView
<1>2. Owed' \subseteq Owed
    BY <1>1 DEF Owed
<1>3. InSession' /\ BelowCursor' /\ SeenAbove' /\ NoVideoTwice'
    BY <1>1 DEF Paging, InSession, BelowCursor, SeenAbove, NoVideoTwice
<1>4. InReach' /\ StillToCome' /\ EndMeansComplete'
    BY <1>1, <1>2 DEF Paging, InReach, StillToCome, EndMeansComplete, Owed
<1>5. PushedCovered'
    BY <1>1 DEF Paging, PushedCovered
<1> QED
    BY <1>3, <1>4, <1>5 DEF Paging

LEMMA ListFolloweesKeepsPaging ==
    ASSUME ReadTypeOK, Numbered, Paging, ListFollowees
    PROVE  Paging'
<1>1. /\ reader.pc = "followees" /\ reader'.pc = "bigVs" /\ reader'.left = follows
      /\ reader'.found = reader.found
      /\ UNCHANGED <<ts, authorOf, ownInbox, follows, cache, cursor, seen, state, steady>>
    BY FieldsTyped DEF ListFollowees, feedVars, relVars, clientVars
<1>2. Pullable' = Pullable
    BY <1>1, SameView DEF Pullable
<1>3. \A v \in steady.pulled : authorOf[v] \in follows
    BY DEF Paging, InReach, Pullable, Outbox
<1>4. PulledAhead'
    BY <1>1, <1>3 DEF PulledAhead
<1>5. steady.pulled \subseteq Pullable'
    BY <1>2 DEF Paging, InReach
<1> QED
    BY <1>1, <1>4, <1>5, AskingKeepsPaging

LEMMA IsBigVKeepsPaging ==
    ASSUME ReadTypeOK, Numbered, Paging, NEW a \in Authors, IsBigV(a)
    PROVE  Paging'
<1>1. /\ reader.pc = "bigVs"
      /\ UNCHANGED <<ts, authorOf, ownInbox, follows, cursor, seen, state>>
    BY DEF IsBigV, feedVars, clientVars
<1>2. PICK count : Judged(a, count)
    BY DEF IsBigV
<1>3. PICK gone : gone = IF count = "big" THEN {} ELSE Outbox(a)
    OBVIOUS
<1>4. PICK pullable : pullable = Pullable'
    OBVIOUS
<1>5. /\ reader'.pc = "bigVs" /\ reader'.found = reader.found
      /\ reader'.left = reader.left \ {a}
      /\ reader'.bigVs = IF count = "big" THEN reader.bigVs \cup {a} ELSE reader.bigVs
    BY <1>1, <1>2, FieldsTyped DEF Judged
<1>6. steady'.pushed = steady.pushed /\ steady'.pulled = (steady.pulled \cap pullable) \ gone
    <2>1. steady' = [steady EXCEPT !.pulled = (@ \cap pullable) \ gone]
        BY <1>2, <1>3, <1>4 DEF Judged
    <2> QED
        BY <2>1, FieldsTyped
<1>7. PulledAhead'
    <2> SUFFICES ASSUME NEW v \in steady'.pulled PROVE authorOf[v] \in reader'.left \cup reader'.bigVs
        BY <1>1, <1>5 DEF PulledAhead
    <2>1. v \in steady.pulled /\ v \notin gone
        BY <1>6
    <2>2. authorOf[v] \in reader.left \cup reader.bigVs
        BY <1>1, <2>1 DEF Paging, PulledAhead
    <2>3. CASE count = "big"
        BY <1>5, <2>2, <2>3
    <2>4. CASE count # "big"
        <3>1. v \in Published /\ v \notin Outbox(a)
            BY <1>3, <2>1, <2>4, ReadFacts
        <3> QED
            BY <1>5, <2>2, <2>4, <3>1 DEF Outbox
    <2> QED
        BY <2>3, <2>4
<1> QED
    BY <1>1, <1>4, <1>5, <1>6, <1>7, AskingKeepsPaging

LEMMA AllCountedKeepsPaging ==
    ASSUME ReadTypeOK, Numbered, Paging, AllCounted
    PROVE  Paging'
<1>1. /\ reader.pc = "bigVs" /\ reader.left = {} /\ reader'.pc = "pull" /\ reader'.left = reader.bigVs
      /\ reader'.found = reader.found
      /\ UNCHANGED <<ts, authorOf, ownInbox, follows, cache, cursor, seen, state, steady>>
    BY FieldsTyped DEF AllCounted, feedVars, relVars, clientVars
<1>2. Pullable' = Pullable
    BY <1>1, SameView DEF Pullable
<1>3. PulledAhead'
    BY <1>1 DEF Paging, PulledAhead
<1>4. steady.pulled \subseteq Pullable'
    BY <1>2 DEF Paging, InReach
<1> QED
    BY <1>1, <1>3, <1>4, AskingKeepsPaging

LEMMA ReadOutboxKeepsPaging ==
    ASSUME ReadTypeOK, Numbered, Paging, NEW a \in Authors, ReadOutbox(a)
    PROVE  Paging'
<1>0. /\ reader.pc = "pull"
      /\ UNCHANGED <<ts, authorOf, ownInbox, follows, cache, cursor, seen, state>>
    BY DEF ReadOutbox, feedVars, relVars, clientVars
<1>1. PICK got : /\ got = {} \/ got \in ReadZSet(Outbox(a))
                 /\ reader'.pc = "pull" /\ reader'.left = reader.left \ {a}
                 /\ reader'.found = reader.found \cup got
                 /\ \/ got \in ReadZSet(Outbox(a)) /\ steady' = steady
                    \/ got = {} /\ steady'.pushed = steady.pushed /\ steady'.pulled = steady.pulled \ Outbox(a)
    <2>1. ASSUME NEW found \in ReadZSet(Outbox(a)),
                 reader' = [reader EXCEPT !.left = @ \ {a}, !.found = @ \cup found], UNCHANGED steady
          PROVE  /\ reader'.pc = "pull" /\ reader'.left = reader.left \ {a}
                 /\ reader'.found = reader.found \cup found
        BY <1>0, <2>1, FieldsTyped
    <2>2. ASSUME NEW gone, gone = Outbox(a), reader' = [reader EXCEPT !.left = @ \ {a}],
                 steady' = [steady EXCEPT !.pulled = @ \ gone]
          PROVE  /\ reader'.pc = "pull" /\ reader'.left = reader.left \ {a}
                 /\ reader'.found = reader.found \cup {}
                 /\ steady'.pushed = steady.pushed /\ steady'.pulled = steady.pulled \ gone
        BY <1>0, <2>2, FieldsTyped
    <2> QED
        BY <2>1, <2>2 DEF ReadOutbox
<1>2. Outbox(a) \in SUBSET Published
    BY DEF Outbox
<1>3. /\ got \subseteq {v \in Outbox(a) : Before(v)}
      /\ got \in ReadZSet(Outbox(a)) => \A v \in Outbox(a) : Before(v) =>
             v \in got \/ (Cardinality(got) >= Fetch /\ \A w \in got : ts[w] >= ts[v])
    BY <1>1, <1>2, ReadCovers
<1>4. /\ Tied' = Tied /\ Published' = Published /\ Pullable' = Pullable
      /\ \A v : Before(v)' <=> Before(v)
    BY <1>0, SameView DEF Pullable
<1>5. /\ IsFiniteSet(reader'.found) /\ Fetch \in Nat
    <2>1. reader'.found \in SUBSET Published
        BY <1>1, <1>2, <1>3, ReadFacts
    <2> QED
        BY <2>1, ReadFacts, PageFits, FS_Subset
<1>6. ASSUME NEW v, NEW others \in SUBSET reader'.found, Cardinality(others) >= Fetch,
             \A w \in others : ts[w] >= ts[v]
      PROVE  Covered(v)'
    <2>1. AtLeast(v)' \in SUBSET reader'.found /\ others \in SUBSET (AtLeast(v)')
        BY <1>0, <1>6 DEF AtLeast
    <2>2. IsFiniteSet(AtLeast(v)')
        BY <1>5, <2>1, FS_Subset
    <2>3. Cardinality(others) <= Cardinality(AtLeast(v)') /\ Cardinality(others) \in Nat
          /\ Cardinality(AtLeast(v)') \in Nat
        BY <2>1, <2>2, FS_Subset, FS_CardinalityType
    <2>4. Cardinality(AtLeast(v)') >= Fetch
        BY <1>5, <1>6, <2>3
    <2> QED
        BY <2>4 DEF Covered, Fetch
<1>7. ASSUME NEW v, Covered(v) PROVE Covered(v)'
    <2>1. CASE v \in reader.found
        BY <1>1, <2>1 DEF Covered
    <2>2. CASE Cardinality(AtLeast(v)) >= Fetch
        <3>1. PICK others : others = AtLeast(v)
            OBVIOUS
        <3>2. others \in SUBSET reader'.found /\ \A w \in others : ts[w] >= ts[v]
            BY <1>1, <3>1 DEF AtLeast
        <3> QED
            BY <1>6, <2>2, <3>1, <3>2
    <2> QED
        BY <1>7, <2>1, <2>2 DEF Covered
<1>8. /\ steady'.pushed = steady.pushed /\ steady'.pulled \subseteq steady.pulled
      /\ Owed' \subseteq Owed
    BY <1>1, <1>4 DEF Owed
<1>9. InSession' /\ SeenAbove' /\ NoVideoTwice' /\ InReach'
    BY <1>0, <1>1, <1>4, <1>8 DEF Paging, InSession, SeenAbove, NoVideoTwice, InReach
<1>10. BelowCursor'
    BY <1>1, <1>3, <1>4 DEF Paging, BelowCursor
<1>11. StillToCome' /\ EndMeansComplete'
    BY <1>0, <1>4, <1>8 DEF Paging, StillToCome, EndMeansComplete, Owed
<1>12. PushedCovered'
    BY <1>0, <1>4, <1>7, <1>8 DEF Paging, PushedCovered
<1>13. PulledAhead'
    <2> SUFFICES ASSUME NEW v \in steady'.pulled, authorOf[v] \notin reader'.left, Before(v)
                 PROVE  Covered(v)'
        BY <1>0, <1>1, <1>4 DEF PulledAhead
    <2>1. v \in steady.pulled /\ (authorOf[v] \in reader.left \/ Covered(v))
        BY <1>0, <1>8 DEF Paging, PulledAhead
    <2>2. CASE Covered(v)
        BY <1>7, <2>2
    <2>3. CASE authorOf[v] \in reader.left
        <3>1. v \in Outbox(a)
            BY <1>1, <2>1, <2>3, ReadFacts DEF Outbox
        <3>2. got \in ReadZSet(Outbox(a))
            BY <1>1, <3>1
        <3>3. CASE v \in got
            BY <1>1, <3>3 DEF Covered
        <3>4. CASE Cardinality(got) >= Fetch /\ \A w \in got : ts[w] >= ts[v]
            <4>1. got \in SUBSET reader'.found
                BY <1>1
            <4> QED
                BY <1>6, <3>4, <4>1
        <3> QED
            BY <1>3, <3>1, <3>2, <3>3, <3>4
    <2> QED
        BY <2>1, <2>2, <2>3
<1> QED
    BY <1>9, <1>10, <1>11, <1>12, <1>13 DEF Paging
\* What the client was owed and this reply does not show is below the next cursor.
LEMMA LeftForLater ==
    ASSUME ReadTypeOK, Numbered, Paging, NEW merged, NEW items, NEW next, ReplyOf(merged, items, next),
           NEW v \in Owed, v \notin merged, Before(v)
    PROVE  next > ts[v]
<1>0. /\ reader.pc = "pull" /\ reader.left = {} /\ merged \in Highest(reader.found, PageSize)
      /\ merged \subseteq reader.found
    BY DEF ReplyOf
<1>1. /\ v \in Published /\ ts[v] \in Nat /\ v \notin Tied /\ IsFiniteSet(reader.found)
      /\ \A w \in reader.found : w \in Published /\ ts[w] \in Nat
    BY ReadFacts DEF Owed
<1>2. Covered(v)
    BY <1>0 DEF Paging, PushedCovered, PulledAhead, Owed
<1>3. Cardinality(merged) = PageSize /\ \A w \in merged : ts[w] >= ts[v]
    <2>1. CASE v \in reader.found
        BY <1>0, <1>1, <2>1, PageFits, LeftOut
    <2>2. CASE Cardinality(AtLeast(v)) >= Fetch
        <3>1. PICK t : t = ts[v]
            OBVIOUS
        <3>2. PICK above : above = {w \in reader.found : ts[w] >= t}
            OBVIOUS
        <3>3. above = AtLeast(v)
            BY <3>1, <3>2 DEF AtLeast
        <3>4. Cardinality(above) \in Nat
            <4>1. above \in SUBSET reader.found
                BY <3>2
            <4> QED
                BY <1>1, <4>1, FS_Subset, FS_CardinalityType
        <3>5. Cardinality(above) >= PageSize
            BY <2>2, <3>3, <3>4, PageFits
        <3> QED
            BY <1>0, <1>1, <3>1, <3>2, <3>5, PageFits, EnoughAbove
    <2> QED
        BY <1>2, <2>1, <2>2 DEF Covered
<1>4. PICK w \in merged : next = ts[w]
    BY <1>3, PageFits DEF ReplyOf
<1>5. w \in Published \ {v} /\ ts[w] # ts[v]
    BY <1>0, <1>1 DEF Tied
<1> QED
    BY <1>0, <1>1, <1>3, <1>4, <1>5

LEMMA ReplyKeepsPaging ==
    ASSUME ReadTypeOK, Numbered, Paging, Reply
    PROVE  Paging'
<1>0. PICK merged, items, next : ReplyOf(merged, items, next)
    BY ReplyIsOne
<1>1. /\ merged \subseteq reader.found /\ items \subseteq merged /\ next \in Nat
      /\ \A v \in Videos : seen'[v] = IF v \in items THEN seen[v] + 1 ELSE seen[v]
      /\ cursor' = next /\ state' = (IF next = 0 THEN "atEnd" ELSE "paging")
      /\ next > 0 => \A v \in merged : next <= ts[v]
      /\ reader'.pc = "none" /\ reader'.found = {}
      /\ UNCHANGED <<ts, authorOf, ownInbox, follows, cache>>
    BY <1>0 DEF ReplyOf, NoRequest
<1>2. /\ reader.found \subseteq Published /\ Published \subseteq Videos
      /\ (\A v \in Published : ts[v] \in Nat) /\ cursor \in Nat
      /\ steady.pushed \subseteq Published /\ steady.pulled \subseteq Published
      /\ seen \in [Videos -> Nat] /\ state = "paging"
    <2>1. seen \in [Videos -> Nat]
        BY DEF ReadTypeOK
    <2>2. state = "paging"
        BY <1>0 DEF ReplyOf, Paging, InSession
    <2> QED
        BY <2>1, <2>2, ReadFacts
<1>3. Published' = Published /\ Tied' = Tied /\ Pullable' = Pullable
    <2>1. Published' = Published
        BY <1>1 DEF Published
    <2> QED
        BY <1>1, <2>1 DEF Tied, Pullable, Outbox
<1>4. \A v \in items : seen[v] = 0 /\ Before(v) /\ v \in Videos
    <2> SUFFICES ASSUME NEW v \in items PROVE seen[v] = 0 /\ Before(v) /\ v \in Videos
        OBVIOUS
    <2>1. Before(v) /\ v \in Videos
        BY <1>1, <1>2 DEF Paging, BelowCursor
    <2> QED
        BY <1>2, <2>1 DEF Paging, SeenAbove
<1>5. /\ steady'.pushed = steady.pushed \ (merged \ items)
      /\ steady'.pulled = steady.pulled \ (merged \ items)
    BY <1>0 DEF ReplyOf
<1>6. InSession' /\ BelowCursor' /\ PushedCovered' /\ PulledAhead'
    BY <1>1 DEF InSession, BelowCursor, PushedCovered, PulledAhead
<1>7. NoVideoTwice'
    BY <1>1, <1>2, <1>4 DEF Paging, NoVideoTwice
<1>8. SeenAbove'
    <2> SUFFICES ASSUME NEW v \in Videos, seen'[v] > 0
                 PROVE  v \in Published /\ (next # 0 => ~(next = 0 \/ ts[v] < next))
        BY <1>1, <1>3 DEF SeenAbove, Before
    <2>1. CASE v \in items
        BY <1>1, <1>2, <2>1
    <2>2. CASE v \notin items
        <3>1. v \in Published /\ cursor # 0 /\ ~(ts[v] < cursor)
            BY <1>1, <1>2, <2>2 DEF Paging, SeenAbove, Before
        <3>2. ASSUME next # 0 PROVE ~(ts[v] < next)
            <4>1. PICK w \in merged : next = ts[w]
                BY <1>0, <3>2 DEF ReplyOf
            <4>2. ts[w] < cursor
                BY <1>1, <3>1, <4>1 DEF Paging, BelowCursor, Before
            <4> QED
                BY <1>1, <1>2, <3>1, <4>1, <4>2
        <3> QED
            BY <3>1, <3>2
    <2> QED
        BY <2>1, <2>2
<1>9. InReach'
    BY <1>1, <1>3, <1>5 DEF Paging, InReach
<1>10. ASSUME NEW v \in Owed' PROVE seen'[v] > 0 \/ (next > ts[v] /\ ts[v] \in Nat)
    <2>1. v \in Owed /\ v \notin merged \ items /\ v \in Published /\ v \in Videos
        BY <1>2, <1>3, <1>5 DEF Owed
    <2>2. CASE v \in items
        BY <1>1, <1>2, <2>1, <2>2
    <2>3. CASE v \notin items /\ seen[v] > 0
        BY <1>1, <2>1, <2>3
    <2>4. CASE v \notin merged /\ ~(seen[v] > 0)
        <3>1. Before(v)
            BY <1>2, <2>1, <2>4 DEF Paging, StillToCome
        <3> QED
            BY <1>0, <1>2, <2>1, <2>4, <3>1, LeftForLater
    <2> QED
        BY <2>1, <2>2, <2>3, <2>4
<1>11. StillToCome'
    BY <1>1, <1>10 DEF StillToCome, Before
<1>12. EndMeansComplete'
    <2> SUFFICES ASSUME next = 0, NEW v \in Owed' PROVE seen'[v] > 0
        BY <1>1 DEF EndMeansComplete, Owed
    <2> QED
        BY <1>10
<1> QED
    BY <1>6, <1>7, <1>8, <1>9, <1>11, <1>12 DEF Paging

-----------------------------------------------------------------------------
(* The theorems. *)

ReadInv == ReadTypeOK /\ Numbered /\ Paging

\* The inductive invariant holds at first, and every step keeps it.
LEMMA ReadInvStarts == ReadInit => ReadInv
<1> SUFFICES ASSUME ReadInit PROVE Paging
    BY ReadStartTyped DEF ReadInv
<1>1. /\ reader = NoRequest /\ cursor = 0 /\ seen = [v \in Videos |-> 0] /\ state = "new"
      /\ steady = [pushed |-> {}, pulled |-> {}]
    BY DEF ReadInit
<1>2. reader.pc = "none" /\ reader.found = {} /\ steady.pushed = {} /\ steady.pulled = {}
    BY <1>1 DEF NoRequest
<1>3. \A v \in Videos : seen[v] = 0
    BY <1>1
<1> QED
    BY <1>1, <1>2, <1>3 DEF Paging, InSession, BelowCursor, SeenAbove, NoVideoTwice, InReach, StillToCome,
        PushedCovered, PulledAhead, EndMeansComplete

LEMMA ReadInvStep == ReadInv /\ [ReadNext]_readVars => ReadInv'
<1> SUFFICES ASSUME ReadTypeOK, Numbered, Paging, [ReadNext]_readVars PROVE Paging'
    BY ReadStepTyped DEF ReadInv
<1>1. CASE UNCHANGED readVars
    <2>1. UNCHANGED <<ts, authorOf, ownInbox, follows, cache, reader, cursor, seen, state, steady>>
        BY <1>1 DEF readVars, feedVars, relVars, clientVars
    <2>2. /\ Tied' = Tied /\ Published' = Published /\ Pullable' = Pullable
          /\ \A v : (Before(v)' <=> Before(v)) /\ (Covered(v)' <=> Covered(v))
        BY <2>1, SameView DEF Pullable
    <2>3. Owed' = Owed
        BY <2>1, <2>2 DEF Owed
    <2> QED
        BY <2>1, <2>2, <2>3 DEF Paging, InSession, BelowCursor, SeenAbove, NoVideoTwice, InReach,
            StillToCome, PushedCovered, PulledAhead, EndMeansComplete, Owed
<1>2. CASE ReadNext
    BY <1>2, PublishKeepsPaging, DeliverKeepsPaging, ChangeKeepsPaging, InboxExpiresKeepsPaging, ReadInboxKeepsPaging,
       ListFolloweesKeepsPaging, IsBigVKeepsPaging, AllCountedKeepsPaging, ReadOutboxKeepsPaging,
       ReplyKeepsPaging DEF ReadNext
<1> QED
    BY <1>1, <1>2

\* The state of a read, of the client that pages and of what it is owed stays
\* within its types.
THEOREM ReadTypeCorrect == ReadSpec => []ReadTypeOK
<1>1. ReadInv => ReadTypeOK
    BY DEF ReadInv
<1> QED
    BY <1>1, ReadInvStarts, ReadInvStep, PTL DEF ReadSpec

\* No video is shown twice, whichever of the inbox and the outboxes it was read
\* from and however often (mergeDedupe, service.go:106; the open bound of
\* readZSetByScore, read.go:21): a page is strictly below its cursor, and what
\* was shown is not.
THEOREM ShownOnce == ReadSpec => []NoVideoTwice
<1>1. ReadInv => NoVideoTwice
    BY DEF ReadInv, Paging
<1> QED
    BY <1>1, ReadInvStarts, ReadInvStep, PTL DEF ReadSpec

\* A client at the end has seen every video pushed to it before it began and
\* every video it could pull throughout (service.go:55-102), but for ties, what a
\* page lost after its cursor was taken, authors whose count or outbox could not
\* be read, and an inbox that expired.  A read that leaves a video out holds Fetch
\* others that are not older, so a page taken from the reads is full and its
\* cursor stays above the video.
THEOREM EndIsComplete == ReadSpec => []EndMeansComplete
<1>1. ReadInv => EndMeansComplete
    BY DEF ReadInv, Paging
<1> QED
    BY <1>1, ReadInvStarts, ReadInvStep, PTL DEF ReadSpec
=============================================================================
