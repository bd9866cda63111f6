------------------------------- MODULE Fanout -------------------------------
(***************************************************************************)
(* Fan-out on write: PublishFanout of cmd/server/main.go puts a video into *)
(* its author's outbox and publishes a task; FanoutWorker.Handle of        *)
(* internal/feed/fanout.go pages through the author's followers            *)
(* (ListFollowers of internal/relation/mysql_repo.go and of                *)
(* internal/store/store.go) and pushes the video into their inboxes        *)
(* (internal/feed/store.go), by a pipeline that is no transaction.         *)
(*                                                                         *)
(* The queue keeps the contract of Delivery: a task that failed is handled *)
(* again, from the first page, at most MaxRetry times in all.  Users       *)
(* follow and unfollow, and inboxes expire, between any two steps of a     *)
(* worker.                                                                 *)
(***************************************************************************)
EXTENDS Feeds

CONSTANTS
    Users,         \* the ids of the users who may follow, positive integers
    Workers,       \* the goroutines that run Handle
    BatchSize,     \* fanoutBatchSize (500)
    TimelineMax,   \* timelineMaxSize (2000)
    MaxRetry

ASSUME FanoutAssumption ==
    /\ Users \subseteq Nat \ {0} /\ IsFiniteSet(Users)
    /\ BatchSize \in Nat \ {0} /\ TimelineMax \in Nat \ {0}
    /\ MaxRetry \in Nat \ {0} /\ MaxVideos \in Nat

VARIABLES
    followers,  \* pairs <<author, user>>
    outbox,     \* feed:outbox:{author}
    inbox,      \* feed:inbox:{user}
    task,       \* per video: what became of its task
    tries,      \* per video: calls of Handle
    worker,     \* the call each worker runs
    pushed,     \* history, per video: the users it was pushed to
    arrived,    \* history, per user: the videos pushed to it since its inbox last expired
    untrimmed,  \* history: the users to whom a video was added and nothing trimmed since
    owed        \* history, per video: who has followed since the call in progress began

boxVars == <<inbox, pushed, arrived, untrimmed>>
vars == <<authorOf, followers, outbox, boxVars, task, tries, worker, owed>>

Idle == [pc |-> "idle"]

TypeOK ==
    /\ authorOf \in Seq(Authors) /\ Len(authorOf) <= MaxVideos
    /\ followers \subseteq Authors \X Users
    /\ outbox \in [Authors -> SUBSET Videos]
    /\ inbox \in [Users -> SUBSET Videos]
    /\ task \in [Videos -> {"none", "pending", "handling", "done", "dead"}]
    /\ tries \in [Videos -> 0 .. MaxRetry]
    /\ worker \in [Workers -> {Idle}
           \cup [pc : {"list"}, v : Videos, cursor : Nat]
           \cup [pc : {"push"}, v : Videos, page : SUBSET Users, next : Nat]]
    /\ pushed \in [Videos -> SUBSET Users]
    /\ arrived \in [Users -> SUBSET Videos] /\ untrimmed \subseteq Users
    /\ owed \in [Videos -> SUBSET Users]

Init ==
    /\ authorOf = <<>>
    /\ followers = {}
    /\ outbox = [a \in Authors |-> {}] /\ inbox = [u \in Users |-> {}]
    /\ task = [v \in Videos |-> "none"] /\ tries = [v \in Videos |-> 0]
    /\ worker = [w \in Workers |-> Idle]
    /\ pushed = [v \in Videos |-> {}] /\ owed = [v \in Videos |-> {}]
    /\ arrived = [u \in Users |-> {}] /\ untrimmed = {}

FollowersOf(a) == {u \in Users : <<a, u>> \in followers}

\* ZREMRANGEBYRANK key 0 -(max+1): all but the TimelineMax newest are removed.
Trim(box) == {v \in box : Cardinality({w \in box : w > v}) < TimelineMax}

-----------------------------------------------------------------------------
\* PublishFanout, after CreateVideo: the outbox first; if that fails the task is
\* not published, and if publishing fails the outbox keeps the video.  Either
\* error is only logged.
PublishFanout(a, outcome) ==
    LET v == Len(authorOf) + 1
    IN /\ v \in Videos
       /\ authorOf' = Append(authorOf, a)
       /\ outbox' = IF outcome = "noOutbox" THEN outbox
                    ELSE [outbox EXCEPT ![a] = Trim(@ \cup {v})]
       /\ task' = IF outcome = "ok" THEN [task EXCEPT ![v] = "pending"] ELSE task
       /\ UNCHANGED <<followers, boxVars, tries, worker, owed>>

\* Mutant of Handle: the cursor is not initialised.
HandleNoCursor(w, v) ==
    /\ worker[w] = Idle
    /\ task[v] = "pending" /\ tries[v] < MaxRetry
    /\ task' = [task EXCEPT ![v] = "handling"]
    /\ tries' = [tries EXCEPT ![v] = @ + 1]
    /\ worker' = [worker EXCEPT ![w] = [pc |-> "list", v |-> v]]
    /\ UNCHANGED <<authorOf, followers, outbox, boxVars, owed>>

\* The queue gives the task to a worker.
Handle(w, v) ==
    /\ worker[w] = Idle
    /\ task[v] = "pending" /\ tries[v] < MaxRetry
    /\ task' = [task EXCEPT ![v] = "handling"]
    /\ tries' = [tries EXCEPT ![v] = @ + 1]
    /\ worker' = [worker EXCEPT ![w] = [pc |-> "list", v |-> v, cursor |-> 0]]
    /\ owed' = [owed EXCEPT ![v] = FollowersOf(authorOf[v])]
    /\ UNCHANGED <<authorOf, followers, outbox, boxVars>>

\* Mutant of FirstPage: the rows are not ordered by id.
FirstPageUnordered(rest, page, next) ==
    /\ page \subseteq rest
    /\ \/ Cardinality(rest) <= BatchSize /\ page = rest /\ next = 0
       \/ Cardinality(page) = BatchSize /\ page # rest /\ next \in page

\* One page of a follower list: the BatchSize smallest of the ids after the
\* cursor, and the last of them as the next cursor; or all that are left, and 0.
FirstPage(rest, page, next) ==
    /\ page \subseteq rest
    /\ \/ Cardinality(rest) <= BatchSize /\ page = rest /\ next = 0
       \/ /\ Cardinality(page) = BatchSize /\ page # rest
          /\ \A u \in page, x \in rest \ page : u < x
          /\ next \in page /\ \A u \in page : u <= next

ListFollowers(w) ==
    /\ worker[w].pc = "list"
    /\ LET rest == {u \in FollowersOf(authorOf[worker[w].v]) : u > worker[w].cursor}
       IN \E page \in SUBSET rest, next \in rest \cup {0} :
             /\ FirstPage(rest, page, next)
             /\ worker' = [worker EXCEPT ![w] =
                               [pc |-> "push", v |-> worker[w].v, page |-> page, next |-> next]]
    /\ UNCHANGED <<authorOf, followers, outbox, boxVars, task, tries, owed>>

\* What a pipeline notes: whom its ZADDs reached, and whom its trims.
Note(added, trimmed, v) ==
    /\ pushed' = [pushed EXCEPT ![v] = @ \cup added]
    /\ arrived' = [u \in Users |-> IF u \in added THEN arrived[u] \cup {v} ELSE arrived[u]]
    /\ untrimmed' = (untrimmed \cup added) \ trimmed

\* Mutant of PushTo: an inbox is trimmed before the video is added to it.
PushToTrimsFirst(added, trimmed, v) ==
    /\ inbox' = [u \in Users |-> (IF u \in trimmed THEN Trim(inbox[u]) ELSE inbox[u])
                                   \cup (IF u \in added THEN {v} ELSE {})]
    /\ Note(added, trimmed, v)

\* The pipeline of BatchPushToInbox has added the video to the inboxes of some users
\* and trimmed those of some; which, depends on how far it came and on which of its
\* commands failed.
PushTo(added, trimmed, v) ==
    /\ inbox' = [u \in Users |->
                    LET box == inbox[u] \cup (IF u \in added THEN {v} ELSE {})
                    IN IF u \in trimmed THEN Trim(box) ELSE box]
    /\ Note(added, trimmed, v)

\* BatchPushToInbox succeeds (it is not called for an empty page); Handle goes
\* on to the next page or returns nil.
Push(w) ==
    LET job == worker[w]
    IN /\ job.pc = "push"
       /\ PushTo(job.page, job.page, job.v)
       /\ IF job.next = 0
          THEN /\ worker' = [worker EXCEPT ![w] = Idle]
               /\ task' = [task EXCEPT ![job.v] = "done"]
          ELSE /\ worker' = [worker EXCEPT ![w] = [pc |-> "list", v |-> job.v, cursor |-> job.next]]
               /\ UNCHANGED task
       /\ UNCHANGED <<authorOf, followers, outbox, tries, owed>>

\* A step returns an error, any commands of a pipeline having been executed; Handle
\* returns it and the queue takes the task back, or sets it aside.
Fails(w, added, trimmed) ==
    LET job == worker[w]
    IN /\ \/ job.pc = "list" /\ added = {} /\ trimmed = {}
          \/ job.pc = "push" /\ added \subseteq job.page /\ trimmed \subseteq job.page
       /\ PushTo(added, trimmed, job.v)
       /\ worker' = [worker EXCEPT ![w] = Idle]
       /\ task' = [task EXCEPT ![job.v] = IF tries[job.v] < MaxRetry THEN "pending" ELSE "dead"]
       /\ UNCHANGED <<authorOf, followers, outbox, tries, owed>>

Follow(u, a) ==
    /\ <<a, u>> \notin followers
    /\ followers' = followers \cup {<<a, u>>}
    /\ UNCHANGED <<authorOf, outbox, boxVars, task, tries, worker, owed>>

\* Inboxes keep what was pushed.
Unfollow(u, a) ==
    /\ <<a, u>> \in followers
    /\ followers' = followers \ {<<a, u>>}
    /\ owed' = [v \in Videos |-> IF v <= Len(authorOf) /\ authorOf[v] = a
                                 THEN owed[v] \ {u} ELSE owed[v]]
    /\ UNCHANGED <<authorOf, outbox, boxVars, task, tries, worker>>

\* EXPIRE: an inbox that nothing was pushed to for inboxTTL is gone.
ExpireInbox(u) ==
    /\ inbox[u] # {}
    /\ inbox' = [inbox EXCEPT ![u] = {}]
    /\ arrived' = [arrived EXCEPT ![u] = {}]
    /\ untrimmed' = untrimmed \ {u}
    /\ UNCHANGED <<authorOf, followers, outbox, task, tries, worker, pushed, owed>>

Next ==
    \/ \E a \in Authors, outcome \in {"ok", "noOutbox", "noTask"} : PublishFanout(a, outcome)
    \/ \E w \in Workers :
          \/ \E v \in Videos : Handle(w, v)
          \/ ListFollowers(w) \/ Push(w)
          \/ \E added, trimmed \in SUBSET Users : Fails(w, added, trimmed)
    \/ \E u \in Users :
          (\E a \in Authors : Follow(u, a) \/ Unfollow(u, a)) \/ ExpireInbox(u)

Spec == Init /\ [][Next]_vars

-----------------------------------------------------------------------------
(* Properties. *)

\* When Handle has returned nil, everyone who followed the author from the
\* beginning of the call to its end was reached, although the follower list
\* changed between the pages (fanout.go:34-53).
FollowersServed == \A v \in Videos : task[v] = "done" => owed[v] \subseteq pushed[v]

\* Since it last expired an inbox has lost none of the newest TimelineMax of the videos
\* pushed to it, in whatever order workers and retries pushed them, and holds no others
\* unless a pipeline ended between adding a video and trimming (fanout.go:33, retries
\* are safe; store.go:14, only the oldest are cut off).
InboxKeepsNewest ==
    \A u \in Users :
        /\ Trim(arrived[u]) \subseteq inbox[u] /\ inbox[u] \subseteq arrived[u]
        /\ u \notin untrimmed => inbox[u] = Trim(arrived[u])
=============================================================================
