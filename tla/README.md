# A verification of go-shortvideo in TLA+

This directory specifies the core of the go-shortvideo backend in TLA+,
model-checks it with TLC and proves part of it with TLAPS. Paths such as
`internal/like/service.go:87` are relative to the repository's root.

1. [The system](#1-the-system)
2. [What is hard about it](#2-what-is-hard-about-it)
3. [The modules and the code](#3-the-modules-and-the-code)
4. [What the runs check](#4-what-the-runs-check)
5. [What is proved](#5-what-is-proved)
6. [Where the code and its documents part](#6-where-the-code-and-its-documents-part)
7. [What is not modelled](#7-what-is-not-modelled)

To repeat everything: `tlc -workers 2 -config <run>.cfg <module>` for each run of
the table in section 4, and `tlapm <module>.tla` for each of the eight modules whose
name ends in `Proofs`.

## 1. The system

The server (`cmd/server`) is one process; `cmd/like`, `cmd/likeworker`,
`cmd/fanout`, `cmd/feed` and `cmd/transcode` run parts of it as processes of
their own. Shared state lives in MySQL (or in memory) and in Redis; the parts
talk through calls, through those two, and through a message bus.

| Component | State it keeps | Operations | Talks to |
|---|---|---|---|
| Like service (`internal/like`: `service.go`, `aggregator.go`, `read.go`) | in Redis a SET of liked videos per user and a sharded counter per video; in memory the aggregator's `deltas` | `Like`, `Unlike`, `Count`, the aggregator's `Add`, `Run`, `flush` | publishes `like_events` to the bus |
| Like persistence (`consumer.go`, `mysql_repo.go`, `cmd/likeworker`) | `like_record` rows, `video_stats` | `HandleBatch` = `UpsertLike`, then `ApplyCountDeltas` | is called by the bus |
| Like reconciler (`reconcile.go`) | none | a periodic comparison of Redis counters with MySQL | writes the like service's counters |
| Bus on Redis Streams (`pkg/mq`) | a stream per topic, the group's position and pending entries, a dead letter stream | `Publish`, `Run`, retry by requeueing, acknowledgement | calls the handlers |
| Bus on a Go channel (`pkg/mq`) | one buffered channel | `Publish` (a blocking send), `Run` | calls the handlers |
| Store (`internal/store`) | users, videos, likes, comments, follows and their indexes and counts, in memory or in MySQL | create, update, like, unlike, comment, follow, unfollow, paged lists | used by every handler |
| Fan-out (`internal/feed/fanout.go`, `store.go`) | outboxes and inboxes, sorted sets in Redis trimmed to a maximum size | `PublishFanout`, the worker's `Handle` | pages through the follower list, called by the bus |
| Following feed (`internal/feed/service.go`, `read.go`, `pull.go`) | none | `GetFollowingFeed`, paged | inbox, relation service, outboxes of big-V authors |
| Relations (`internal/relation`) | follower tables, a cached follower count per author | `Follow`, `Unfollow`, pages of followers, `IsBigV` | read by fan-out and feed |
| Recommendation (`internal/rec`) | hot and fresh pools, the videos each user has seen | recall, filters, ranking, background refresh | store, Redis |
| Transcoding (`internal/transcode`, `cmd/transcode`) | a video's status and URLs, files | `Handle` for one task | called by the bus, writes the store |
| Rate limiting (`pkg/ratelimit`), login protection (`pkg/security`) | token buckets, failure windows | `Allow`, clean-up | in front of the handlers |
| HTTP handlers (`internal/api`) | none | one per route | all of the above |
| Authentication, audit, metrics, tracing, configuration, clients | no state the others depend on | | |

The main paths:

* *A like.* The handler calls `Like`: `SADD` on the user's set is the gate, the
  increment goes to the aggregator (or straight to Redis where none was
  injected), the event is stamped with the wall clock and published. Every
  100 ms the aggregator flushes. The bus hands the event to `HandleBatch`, which
  writes the row and then the count.
* *A video.* `PublishVideo` creates the row, publishes a transcode task, writes
  the author's outbox and publishes a fan-out task; the fan-out worker pushes
  the video into each follower's inbox, page by page of the follower list.
* *A feed.* `GetFollowingFeed` merges the inbox with the outboxes of the big-V
  authors the user follows, read concurrently, and answers a page and a cursor.

## 2. What is hard about it

Every component above is easy when calls come one at a time. What is hard to
test, and what the properties are for (each hazard is listed with its line in
`PROJECT.json`):

* **Interleavings.** A request is several Redis calls, and requests of one user
  overlap (the undo of a failed count, the stamp taken after the gate). Three replicas
  reconcile the same counters. `flush`
  sends a map while `Add` fills the next one. A fan-out pages over a list that
  changes. A feed page merges reads of different moments.
* **Failures half way.** Two statements without a transaction in `HandleBatch`, a
  pipeline put back after an error or cut off between adding and trimming, a reply that
  is lost after its command was executed, an event that is not published after the gate
  was passed, a read that loses rows without an error, an outbox that cannot be read.
* **Delivery.** Events come late, twice, out of order; a consumer stops or
  crashes holding messages; a retry counts attempts in the message itself.
* **Boundaries.** Cursors that are ids (store) or milliseconds (feed), pages cut
  twice, a trimmed inbox, a full channel.
* **Checked, then used.** The reconciler compares two numbers, reads one again and adds
  a third, while both move. A page of recommendations is filtered against a set that
  other requests add to.
* **Stages that undo one another.** Recall, ranking, two filters, re-ranking, injection.
  Encoding over files that an earlier attempt uploaded.
* **Stopping.** The order in which `cmd/server` cancels, drains and exits.

What makes each component correct:

| Component | Correct means |
|---|---|
| Like service | counter = number of likers, up to what is on its way and what lost replies account for; nothing lost at a stop |
| Persistence | the row is the newest state; the count agrees with the rows |
| Buses | a message is handled until it is accepted or its retries are used up; never again after that; none vanishes unnoticed; publishers are not held up |
| Like path as a whole | the row ends up saying what the gate says |
| Store | counts and indexes agree with what they count and mirror |
| Paged lists, feed | nothing twice, in order, and the end means the end |
| Fan-out | every follower is served; an inbox holds the newest of what was pushed since it last expired |
| Reconciler | a repair lands on the table's count; in the end counter and table agree within the threshold |
| Recommendation | nothing twice on a page; what was seen does not come back while there is something new; whoever keeps asking sees everything |
| Transcoding | published URLs play; the status tells what became of the video and never stays "transcoding" |
| Rate limiting | never more than rate and burst allow; clean-up forgets nothing that matters |

## 3. The modules and the code

| Module | Models | Uses |
|---|---|---|
| `LikeService` | `service.go`, `aggregator.go`, `read.go` and the shutdown of `cmd/server/main.go` | |
| `LikeRepo` | the two statements of `mysql_repo.go` and the in-memory repositories of the two commands | |
| `LikePersist` | `HandleBatch` of `consumer.go`, by several workers, on any sequence of events | `LikeRepo` |
| `Delivery` | what `pkg/mq` promises (abstract) | |
| `RedisStreamBus` | `RedisStreamBus` of `mq.go` | implements `Delivery` |
| `ChanBus` | `ChanBus` of `mq.go` | |
| `LikePipeline` | the path from request to row | `LikeService`, `RedisStreamBus`, `LikeRepo` |
| `Store` | the operations of `store.go` | |
| `StoreFeed` | a client that pages through the store's lists by `writeFeed` | `Store` |
| `Feeds` | the videos published and their authors, for the two modules below | |
| `Fanout` | `PublishFanout`, `FanoutWorker.Handle`, the trimmed sorted sets | `Feeds` |
| `FollowingFeed` | `GetFollowingFeed`, the handler in front of it, and a client that pages | `Feeds` |
| `LikeReconcile` | `reconcile.go` beside the workers and the counters | `LikePersist` |
| `Transcode` | `internal/transcode`, the upload that publishes a task, the workers' wiring | `Delivery` |
| `Recommend` | `internal/rec` and its wiring | |
| `LikeServiceProofs`, `LikeReconcileProofs`, `RedisStreamBusProofs`, `LikePipelineProofs`, `ChanBusProofs`, `StoreProofs`, `FeedProofs`, `TranscodeProofs` | theorems | the module they are named for; `LikeReconcileProofs` also `LikePersist`, which `LikeReconcile` extends, `StoreProofs` also `StoreFeed` and `Recommend`, `FeedProofs` is about `Fanout` and `FollowingFeed`, and `LikePipelineProofs` the lemmas about its two parts (`INSTANCE`) |
| `MC*` | symmetry and inputs for TLC | |

`PROJECT.json` maps every definition to its lines. The correspondences that need
a word:

**LikeService.** An action is one Redis call, one critical section of the
aggregator's mutex, or one evaluation of `time.Now()`. `liked` is the union of
the `userlike:{uid}` sets. `cnt[v]` is the sum of the 16 shards: every writer
of a video uses the shard `vid % 16`, so that the sum is one shard. `req[p]` is
where a goroutine is: past the gate, past the counter, stamped, or about to
undo. `agg` is where `Run` and `flush` are; its initial value is chosen from
`Wirings`, with `"none"` for a service without `SetCounterWriter`. `Cancel`, then `Exit`
once no request is in flight (or `srv.Shutdown` timed out), are
`cmd/server/main.go:326-338`; under the fault `"crash"` the process may end at any moment.
Any call to Redis may fail without effect, or be executed and its reply lost: then the
caller has an error, or the client library sent the command again and the answer is the
second one's. For `SADD` and `SREM` (`GateFails`) that answer is an error or 0, and the
request returns without counting or publishing, though the set may have changed
(`service.go:65-71`, `93-99`); for the synchronous `INCRBY` it is an error after an effect
(`IncrByFails`) or an effect twice (`IncrByTwice`); a pipeline (`ExecFails`) may have
applied any of its commands before it fails. `skew[v]`, history, is what the lost replies
of the gate and of pipelines account for in the count of `v`. `MaxTime` bounds
the clock, `MaxOps` the calls and `MaxFaults` the failures.

**LikeRepo, LikePersist.** A row is its status and its `event_ts`; `Upserted` is
the `ON DUPLICATE KEY UPDATE`, which keeps whichever timestamp is newer, and on a
tie the row that is there. `ApplyCountDeltas` is `GREATEST(0, count + delta)`. The two
statements are two actions; either may return an error, committed or not.

**RedisStreamBus.** `log` is the stream, `last` the group's last delivered entry,
`pel` its pending entries, `slice[c]` the reply that consumer `c` works through. A message that is
requeued is a new entry with the attempts increased, and the old one is
acknowledged. A stopped consumer finishes its slice with calls that all fail. A restarted
consumer has a new name, so that nobody asks for the pending entries of the old
one. `XAddCopies` says how many entries an XADD may leave: 1; 0 when it fails; 2 when its
reply was lost and it was sent again. The history variables `sent`, `done` and `calls`
record what the outside saw, and are what the refinement of `Delivery` is stated with;
`dropped` holds the messages whose requeueing or dead-lettering XADD failed while the
process was running, which `handleMessage` does not look at (`mq.go:160-169`). (A process
that was told to stop does not acknowledge either: its message stays pending.)

**ChanBus.** Which message is where is the Go runtime's business, so the channel is the
number it holds, and what is modelled is what the code decides: who blocks, that `Run`
goes on after a handler's error, what ends it, and that some processes never call it
(`Runners`: `cmd/like`, and `cmd/server` without `features.mq_enabled`).

**LikePipeline.** Conjoins the actions of its parts: publishing is
`Svc!Publish` together with `Bus!Publish`, or without it when the XADD fails
(`PublishFails`), as `service.go:83-84` and `110` drop that error; the handler's two
statements run while the bus is in `handling`, and their outcome is `Bus!HandlerOK` or
`Bus!HandlerFails`. Gates may lose their replies, and the server may die between a gate and
its event (`SvcFaults`). Flushes are left to `LikeService`: nothing here reads the counters.
`alone`, history, holds the pairs of user and video whose last change of the gate overlapped
no other request of theirs and was made by a call that published its event or still may.

**Store.** One action per operation: in memory it runs under the lock, in MySQL
it is one statement or transaction. `Like` and `Unlike` look the user up in the
in-memory maps in either case, which are empty over MySQL, so that they only
succeed in memory (`MemUserIds`). Ids are positions.

**StoreFeed.** A client asks page after page with limits of its choice (below, at and
above the two limits of `clampLimit`) while the store's operations go on between the
pages. `CutPage` is a page of which `scanVideos` lost the tail.

**Fanout.** `followers` is listed in pages by user id as `ListFollowers` does;
`worker[w]` is at the list call or at the push. `BatchPushToInbox` is a pipeline and no
transaction: one that fails (`Fails`) has executed any of its ZADDs and any of its trims,
each for any of the users of its page. `ExpireInbox` is the EXPIRE of `inboxTTL`; a push
renews it, and when it strikes is left open. `arrived[u]`, history, is what was pushed to
`u` since its inbox last expired, `untrimmed` the users to whom something was added and
nothing trimmed since, and `owed[v]` holds those who followed the author from
the start of the (last) call until now. The queue is the one `RedisStreamBus`
describes, abbreviated to what it promises: a task is pending, running, done or
dead. (`AppendToOutbox` is a `TxPipeline` and one step.)

**FollowingFeed.** One request is the chain `ReadInbox`, `ListFollowees`, `IsBigV`
per followee, `AllCounted`, `ReadOutbox` per big V, `Reply`; the world moves
between any two. Reads return the highest scores below the cursor, ties either
way. Failures that the code passes over are in the steps: `IsBigV` goes to the table on any
error of the cache, fails to write the cache, and skips a followee whose count the table does
not give either (`relation/service.go:53-56`, `70-84`); an outbox that cannot be read is left
out (`pull.go`); `Reply` leaves out any rows that `GetVideo` does not give, after the cursor
was computed (`cmd/server/main.go:456-470`). Such failures and the changes of the world count
against `MaxChanges`. A request that fails as a whole changes nothing and is asked again.
The client stops at `next_cursor = 0`. `steady`, history, is what the client
is entitled to: what was in its inbox when it began (until the inbox expires), and what it
could pull then and ever since, without what was dropped in one of these ways.
`bigVFollowerThreshold` is abstracted to membership in `isBig`, a cached count to the
verdict it gives.

**LikeReconcile.** A pass is `Pass` (the tick and the SCAN), then for each key found
`ReadCount`, `ReadTable`, and where the two differ by more than the threshold `ReadAgain`
and `Repair`; each is one call, and any may fail (`CallFails`). Each replica of the server
has a reconciler of its own. Of the like service only
what reaches a counter is kept: `CountEvent` adds an event's delta once, before or after
the event is persisted, which is what `Conservation` of `LikeService` establishes, and
`CountEventAgain` adds it a second time (a pipeline that was applied although it returned an
error). The other exception that property makes, a gate whose reply was lost, makes no
event and reaches neither counter nor table. The persistence is the
whole of `LikePersist`. `calm[r]`, history, holds from reading the table until the repair,
unless a counter or a row of the video moves, another reconciler's repair included.

**Transcode.** `worker[w]` is where `Handle` is, and its steps are its calls: the status
write, `MkdirAll`, one ffmpeg run per resolution that is not larger than the video, the
uploads, the URL write and the last status write. `fits` is the number of those
resolutions; an attempt that cannot probe the video takes it for 1920 by 1080 and encodes
all of them (`worker.go:59-62`), which `AllEncoded` leaves open for each attempt.
`UpdateStatus` and `UpdatePlayURLs` may be lost without a trace, as their errors are
dropped. `file` and `stored` hold the outputs that are whole: an encoding removes its
output from `file` first (`-y` truncates) and an upload of a file that is not whole
leaves an object that is not. `delivery` and `tries` are `Delivery`'s
state; a task that was added to the stream twice is two elements of `Tasks` with one
video. `spared`, history, is the videos of which no write was dropped, no worker died
and no directory was refused. The cover takes part only in the uploads.

**Recommend.** Of the four shards, which always hold the same, one is kept, and of the users
one. A video is its number, the order of `created_at`; heat is any order (`Hottest`).
`MultiRecall`, `FilterSeen` and `GiveAnswer` are the three moments at which a request
looks at or changes shared state; everything between is a function of what it holds
(`MergeAndRank`, `DiversityRerank`, `FreshInjection`, `PageOf`). A loop that appends what passes a test is `Keep`, defined by
the rank of a position rather than by recursion, so that it can be proved about. That every entry has author 0 and
that a fresh entry outranks every hot one are facts of `zRevRange` and of the scales of the
scores, not simplifications. `RefreshPools` is a series of ZADDs of which any may fail.
`served` and `dropped` are history.

## 4. What the runs check

| Run | Module | Shows | Size |
|---|---|---|---|
| `like_counted` | `MCLikeService` | with the aggregator a count is off by what lost replies account for and nothing else, without it by at most one per failure; the count settles | 736 000 states |
| `bus_contract` | `MCRedisStreamBus` | the stream bus implements `Delivery`; nothing vanishes but by an XADD that fails; all else settles until something stops | 255 000 |
| `chan_bus` | `MCChanBus` | no publisher is held up while `Run` runs | 300 |
| `persist_any_order` | `MCLikePersist` | newest row wins; what the clamp at zero costs | 17 000 |
| `pipeline_record` | `MCLikePipeline` | with overlapping requests, failing publishes, crashes, stops and retries: when the row agrees with the gate | 2.6 million |
| `store_memory` | `MCStore` | counts and indexes | 694 000 |
| `feed_paging` | `MCStoreFeed` | paging through a list that changes, with lost rows | 51 000 |
| `fanout` | `MCFanout` | followers served, inboxes keep the newest | 269 000 |
| `following_feed` | `MCFollowingFeed` | no video twice, and the end means the end | 7.0 million |
| `reconcile` | `MCLikeReconcile` | a repair lands on the table; two reconcilers bring counter and table together | 1.2 million |
| `transcode` | `MCTranscode` | published URLs play, the status tells the outcome and does not stay "transcoding" | 761 000 |
| `recommend` | `MCRecommend` | what a page may hold; everything is shown in the end | 775 000 |

The properties:

* `Conservation` (LikeService): for each video, counter + aggregator + flush in
  flight + what requests owe − likers = `skew`, which only lost replies change: a gate
  whose reply is lost is not counted, a pipeline's part that was applied before it failed is
  counted twice. It holds in every state before the exit
  with the aggregator, and without it until a call fails. It is what an
  increment lost or doubled between `Add` and `flush`, or by putting back a
  batch, would break.
* `DriftBoundedByFailures`: the undo of a failed INCRBY is a second step and may
  undo another request's like; even so each call that fails or loses its reply costs at most
  one.
* `CountSettles`: the count shown ends up at the number of likers and `skew`.
* `KeepsContract`: the refinement of `Delivery`: no handler call after a success, at
  most `MaxRetry` calls, dead letters only after the last. `NoneVanishes`: a
  sent message is somewhere, unless its XADD failed and was not looked at: there is no other
  way to lose one. `SettlesUndisturbed`: any other is accepted or dead-lettered unless a
  process stopped, crashed or lost a reply.
* `PublishReturnsWhileRunning` (ChanBus): a publisher blocked on the full channel gets
  through whatever handlers return, unless `Run` was told to stop or never started.
* `RecordIsNewest`, `CountIsOffByDeepestDeficit` (LikePersist): the second says
  exactly what `GREATEST(0, ..)` does to a count when an unlike overtakes its
  like: the stored count ends up too high by the deepest deficit.
* `RecordFollowsGate` (LikePipeline): once the handler has accepted the last event of a
  user and a video, the row says what the gate says, whatever is still on its way, if no other
  of their events has the last one's stamp and the pair is in `alone`. The two
  conditions are what the code lacks: it stamps after the gate, and it goes on when the event
  is not published (section 6). Every change made alone mends what went wrong before. (The
  module's types are those of its parts, which the parts' runs check, and are proved.)
* `LikeCountExact`, `FollowIndexesAgree`, `CommentsIndexed` (Store).
* `NewestFirst`, `EndMeansComplete` (StoreFeed): the second is conditional on no
  page having lost *all* its rows: a page that lost some costs nothing, as
  the cursor comes from the rows it still has.
* `FollowersServed`, `InboxKeepsNewest` (Fanout): the second says that none of the newest
  is lost by trimming, before or after a half-executed pipeline, and that only after one
  of those an inbox holds more than its limit.
* `NoVideoTwice`, `EndMeansComplete` (FollowingFeed): the second grants the code
  what it is known to drop (section 6) and nothing else.
* `RepairLandsOnTable` (LikeReconcile): whatever happened between the first read and the
  read of the table, a repair brings the counter to the table's count if neither moved
  after it; a negative counter, which reads as 0, is lifted by that count. `Converges`:
  with events counted and persisted in any order or twice, and repairs made from
  numbers that lag behind or added a second time by the other replica, the count shown settles
  within the threshold, unless two replicas find themselves repairing the same video at once
  over and over for ever (`Contested`), which they may (section 6).
* `PublishedURLsPlay` (Transcode): in every state every URL of a row names a whole file
  or object, while the video's task is in the queue once. `StatusTellsOutcome`: once
  all tasks of a video are settled it is not "transcoding", "failed" only if one of them
  was given up, and has transcoded URLs only if one was accepted, with any number of
  copies. `LeavesTranscoding`: it does not stay "transcoding" either. Both are about the
  videos in `spared`.
* `NoVideoTwice`, `RepeatsOneBesideNew` (Recommend): a page is without duplicates, though
  three stages build it from two overlapping lists, and the injected video is the only
  one that may have been seen before. `SeenWasServed`: nothing is filtered out that
  was never shown. `EveryRecallableShown`: a user who keeps asking is shown all
  that stays at the top of the fresh pool, whatever fails and however requests overlap.

**Bounds.** Two users and one video are enough for everything about a counter,
as videos do not interact except inside one batch; two goroutines give every
overlap of two requests, and four calls let each overlap be followed by another
call. Two failures allow a failed flush of a failed flush. The bus has two
messages, two consumers, replies of two and two attempts: a message can be
requeued behind another, read by the other consumer, and dead-lettered; two stops
stop both. `XAddCopies = {0, 1}` makes every XADD one that may fail; two copies are two
deliveries, which `Delivery` does not allow and `NoneVanishes` is proved with. The pipeline
has two goroutines and three calls of one user: two may overlap and a third may follow, or
like, unlike, like, with any two reordered by a retry; one service fault, one stop and one
failing statement; two consumers that read an entry each; a clock of two milliseconds. The
store needs two of
everything for each to be confused with another. A paging client has four videos and
pages of two, so that there is a page boundary with videos on both sides, and
still room for videos published meanwhile. Fan-out has two followers in pages of one
and inboxes of one, so that both limits bite: there is a page boundary with a
follower on either side, and a second video to be trimmed. The feed has pages of two, three
videos and the least over-fetching (`FetchFactor = 1`, where the code has 3):
the properties do not depend on it, and the least is the hardest.
Two reconcilers run over one video with two users' likes and an unlike, one worker whose
three calls give every order and some repetition, one event counted twice, one failing call
and a threshold of 1, so that there are differences on both sides of it; `LikePersist` has a
run of its own for failing statements. Transcoding has one
video (videos share nothing), two copies of its task, two workers, two resolutions
(so that some may succeed and some fail; of the video's size one of them fits, or
both where it cannot be probed), two attempts and one crash. Recommendation has
two overlapping requests, three videos, pages of two with one video per author, recall of
two: every limit of the pipeline cuts something, and there is room for one video
beside what is recalled.
Symmetry is used only in runs without liveness and where the sets are
interchangeable. `CHECK_DEADLOCK FALSE` everywhere: the bounds stop the model, and
a quiet system may stop.

**Fairness.** `LikeService`: goroutines run, the ticker fires, a Redis call returns
(with success or an error); nobody has to call and nothing makes the process
stop. `RedisStreamBus`: a process that runs keeps running its loop (the loop has
no exit but `ctx.Done()`), handlers return, and a process that went down is started again,
which is what the deployment does. `ChanBus`: `Run` is scheduled and handlers
return. `SettlesUndisturbed` excludes the stops instead of assuming them away.
`LikeReconcile`: the ticker fires and the pass goes on (`PassStep`); users need not like, nothing
makes the workers persist, and a failing call is never forced nor excluded; how the steps of two
reconcilers fall is left open, hence the hypothesis of `Converges`.
`Transcode`: ffmpeg, the storage and the database answer one way or the other, so a worker
goes on with its task, and an idle worker reads the queue; which outcome a step has is
left open, and a dead worker stays dead. `Recommend`: every request ends; that the user
keeps asking is the hypothesis of `EveryRecallableShown`, not an assumption.

## 5. What is proved

TLAPS proves, for every value of the constants that satisfies the named assumptions:

* **`LikeServiceProofs!TypeCorrect`**: `Spec => []TypeOK`.
* **`LikeServiceProofs!NoLikeLost`**: `Spec => []Conservation`, for any number of users,
  videos, goroutines, calls and failures and under every fault, with or without the
  aggregator. The inductive invariant adds two conjuncts:
  `batch` is empty whenever no flush is under way (otherwise the next flush would
  overwrite increments), and a request undoes its gate only where there is no
  aggregator and an INCRBY has failed (otherwise undoing would change the likers
  behind the count). The heart is four lemmas: passing the gate
  changes likers and owing requests in step (`GateKeepsDrift`); a gate whose reply is lost
  moves the likers and `skew` in step (`LostReplySkews`); accounting for a
  delta settles what the request owed (`AccountKeepsDrift`); all other steps only
  move counts between the three places (`DriftUnchanged`). They rest on the
  library's theorems about cardinalities.
* **`LikeServiceProofs!DriftBounded`**: `Spec => []DriftBoundedByFailures`. The bound is
  not inductive by itself: between the failed INCRBY, executed or not, and its undo the gate
  still has the change, and the undo may fail or undo another request's. `Slack` counts the requests that
  are about to undo, by direction: a failure moves the drift one way and its undo may move it
  back or not, so while the undo is pending the bound keeps room for both.
* **`FeedProofs!TypeCorrect`** and **`FeedProofs!EveryFollowerServed`**, about `Fanout`:
  `Spec => []FollowersServed`, for any page size, number of users, workers, videos
  and retries. The inductive invariant says of a call in progress that everyone it
  still owes the video follows the author (`Handling`), and was reached if up to
  the cursor, or is on the page in hand, or lies beyond it (`ReachedSoFar`); that two
  workers never handle the same task (`OneWorkerEach`); and that there is no task
  before its video. `PageCoversUpToNext` is why a page may be cut: it leaves out only
  ids beyond the next cursor. Follows and unfollows between pages keep the invariant
  because pages are cut by user id, not by position.
* **`FeedProofs!InboxesKeepNewest`**: `Spec => []InboxKeepsNewest`, whichever commands of a
  failing pipeline are executed and whenever an inbox expires. A box that holds the newest of
  all that arrived, and perhaps more, gives the same newest when it is trimmed
  (`TrimmedBefore`): what an earlier trimming cut off is too old to come back. So a pipeline
  cut off between adding and trimming leaves at most too much, and the next trim makes up
  for it (`PushKeepsNewest`).
* **`FeedProofs`**, about `FollowingFeed`: `ReadTypeCorrect`, `ShownOnce`
  (`ReadSpec => []NoVideoTwice`) and `EndIsComplete` (`ReadSpec => []EndMeansComplete`), for any
  page size and limits, any number of authors and videos, any changes between two
  reads and any reads that fail. The inductive invariant `Paging` says that what a request has found is below the
  cursor and what was seen is not, which is why nothing is shown twice; that what the client is
  owed is still in its inbox or pullable (`InReach`), and has been seen or is still
  below the cursor (`StillToCome`). The heart is what the reads so far say of an owed video:
  they hold it, or `Fetch` others that are not older (`Covered`); for a pushed one from
  the first read on (`PushedCovered`), for one to be pulled as soon as its author's outbox was
  read, and until then its author is still on the list (`PulledAhead`). As a page is not
  longer than `Fetch`, one that leaves such a video out is full of videos that are not
  older (`EnoughAbove`), and with ties excluded its cursor stays above the video
  (`LeftForLater`). `Paging` was checked by TLC on the instance of the run first.
* **`LikeReconcileProofs`**, about `LikePersist`: `TypeCorrect`, `RecordHoldsNewest` (`Spec => []RecordIsNewest`) and
  `CountOffByDeficit` (`Spec => []CountIsOffByDeepestDeficit`), for any events, workers and
  failures. Both are inductive beside `TypeOK`. `UpsertKeepsNewest` has the case of a
  tie, where the row stays as it is; `ClampedSum` is the arithmetic of `GREATEST(0, ..)`
  against the running minimum.
* **`LikeReconcileProofs`**, about `LikeReconcile`: `ReconcileTypeCorrect` and `RepairLands`
  (`ReconcileSpec => RepairLandsOnTable`), for any number of reconcilers, workers and
  events and any threshold. The inductive invariant `CalmKnows` says what a calm reconciler
  knows: the count it took from the table is still there, and the difference it is about to
  add is from the counter as it still is.
* **`RedisStreamBusProofs`**: `TypeCorrect`, and `NoMessageVanishes`
  (`Spec => []NoneVanishes`), for any number of messages, consumers and retries and under every
  fault, XADDs that fail or are executed twice among them. `SlicesDelivered` says that
  a consumer works on entries the group has delivered. `AcksCovered` is the heart: a
  consumer about to acknowledge an entry has its message accepted, dead-lettered, dropped
  by a failed XADD, or requeued further down the log as an entry that is itself still to be delivered or pending.
* **`RedisStreamBusProofs!BusImplementsDelivery`**: `Spec => KeepsContract`, which is
  `Delivery`'s specification under the refinement mapping `Status`, if an XADD leaves at most one
  entry (`XAddCopies \subseteq {0, 1}`; two copies are two deliveries, and the contract
  fails). The invariant `Orderly` says that a message has at most one open entry, one still
  to be delivered or in a consumer's hands, that no two consumers own the same entry,
  and that the attempts in the open entry tell how often the handler was called. A handler's
  call, its end and a dead letter are then steps of `Delivery`, everything else stutters
  (`StepIsDelivery`).
* **`LikePipelineProofs`**: `TypeCorrect`, and `RecordFollows`
  (`Spec => []RecordFollowsGate`), for any number of users, videos, goroutines, consumers,
  retries and failures, whatever requests overlap and under every fault of the gate, the
  server, the bus and the tables. The invariant: messages are numbered as they are published
  and the log carries only these (`Numbered`); no stamp is later than the clock (`Clocked`), so
  that a request that stamps while no other of its pair is under way stamps at or after all
  their events; of a pair in `alone`, either the one request that made the last change is still
  under way, or the last event tells of that change and has the latest stamp (`GateFollowed`);
  a row is that of some event, and none older than an accepted one or one whose first
  statement was executed (`RowsStored`). Once the last event is accepted and shares its
  stamp with no other, the row is its row. Nothing is assumed of requests that overlap: they
  take the pair out of `alone`, and the next change that is made alone puts it back. The
  lemmas about the service and the bus are instances of those in their own proof modules.
* **`ChanBusProofs`**: `TypeCorrect`: the buffer holds at most its capacity and publishers wait
  only at a full one, for any capacity and number of publishers.
* **`StoreProofs`**: `TypeCorrect`, `IndexesAgree`, `LikesCounted` and `CommentListsHold`
  (`FollowIndexesAgree`, `LikeCountExact`, `CommentsIndexed`), for any number of users, videos
  and comments, in memory and over MySQL. Each is inductive with `TypeOK`; the like count rests on the
  library's cardinality theorems, the comment lists on their being increasing.
* **`StoreProofs`**, about `StoreFeed`: `FeedTypeCorrect`, `PagesDescend` (`FeedSpec => []NewestFirst`)
  and `EndIsComplete` (`FeedSpec => []EndMeansComplete`), for any limits and any number of
  pages. First what a page is: entries of the list below the cursor, in descending order, with
  nothing left out above its last (`PageFound`), though it is defined entry by entry by its
  rank; that each rank is taken (`RankExists`) is shown by a least counterexample. The
  invariant `PagingInv` then ties the cursor to the last entry seen and says that every
  steady entry has been seen or is still below the cursor.
* **`StoreProofs`**, about `Recommend`: `RecTypeCorrect`, `PagesDistinct`
  (`RecSpec => []NoVideoTwice`), `RepeatsOne` (`RecSpec => []RepeatsOneBesideNew`, if
  `MaxPerAuthor < 10`; the code has 2) and `SeenWasGiven` (`RecSpec => []SeenWasServed`), for
  any number of videos and requests and any limits. Each stage from the recalled lists to the
  page has its lemma: what it keeps are entries it was given (`KeepFacts`), joined
  lists share nothing (`MergedListed`), re-ranking without authors keeps the first `MaxPerAuthor`
  (`Reranked`), and injection into fewer than ten appends at most one (`Injected`: from ten
  entries on a fifth is two, which is why the bound on `MaxPerAuthor` is needed). So a page is
  led by an unseen video and has at most one that was seen (`PageRepeatsOne`), whatever was
  recalled and whichever call failed. `Answerable` and `Modest` carry this from the filter to
  the answer.
* **`TranscodeProofs`**: `TypeCorrect`, `StatusTruthful` (`Spec => []StatusTellsOutcome`) and
  `PublishedPlays` (`Spec => []PublishedURLsPlay`), for any number of videos, tasks,
  workers, resolutions, retries and crashes. `OneHandEach`: a task being tried is in at most
  one worker's hands, and what a worker holds is being tried. `RowsAccounted`: of a
  spared video, a row that says "transcoding" has a worker that will change it, one that
  says "failed" a task that is to be retried, tried or was given up, and one with
  transcoded URLs a task accepted or about to be. `LonesSound`: of a video with one task,
  what the row names is whole, nobody encodes over it once it is published, and what a
  worker has collected is whole. Every step is either of the queue, or returns an error, or
  goes on with the task (`StepSplit`), and the lemmas follow that split.

Assumptions on constants are the `...Assumption` of each module (finite sets where something is counted,
naturals as bounds, known names of faults); the runs evaluate them.

The library's induction theorems take an operator as a parameter and cannot be used with the
installed provers; where a fact needs induction over numbers, the proof takes the least element of a
set of naturals (`NatLessThanWellFounded` with `WFMin`, which are about sets) instead.

Only model-checked: liveness (`CountSettles`, `SettlesUndisturbed`, `PublishReturnsWhileRunning`,
`Converges`, `LeavesTranscoding`, `EveryRecallableShown`), which needs fairness and `ENABLED`.
Every invariant and action property of the runs, and the refinement, is proved, under the conditions given with it.

## 6. Where the code and its documents part

Each of these was seen as a counterexample of TLC while modelling. The properties of
section 4 are stated so as not to promise what the code does not do. Promises that the
code makes of itself and does not keep:

* `cmd/server/main.go:331` cancels and returns without waiting for the aggregator, although
  `aggregator.go:45` flushes once more before leaving so as not to lose the last window.
  (`NothingLostAtExit` of `LikeService`, with `Wirings = {"wait"}`, `Faults = {"shutdown"}`.)
* `pkg/mq/mq.go:119` reads only new entries (`>`), so that entries pending at a stop are
  never retried, although `mq.go:20` promises a retry. (`EverySentSettles` of
  `RedisStreamBus` under `FairSpec`, with `Faults = {"stop"}`.)
* The stamp is taken after the gate (`like/service.go:87`), so that a newer stamp may belong to
  the older of two overlapping requests, and the guard against out-of-order messages
  (`cmd/likeworker/main.go:107`, `like/mysql_repo.go:19`) keeps the wrong state. Two events of
  one millisecond do the same. (`RecordFollowsGate` of `LikePipeline` with `Pairs` in the place
  of `alone`, without any fault.)
* The error of the requeueing XADD is dropped and the old entry acknowledged
  (`mq.go:166`): a message can vanish, against the retry that `mq.go:20` promises.
  (`NoneVanishes` of `RedisStreamBus` without `dropped`, in `bus_contract`.) An XADD that is
  executed twice makes two deliveries: set `XAddCopies = {1, 2}` and `KeepsContract` fails.

Others:

* A pipeline that fails after part of it was applied is put back whole, and the
  applied part counts twice (`aggregator.go:74`): `skew` in `Conservation`.
* A `SADD` or `SREM` that is executed and whose reply is lost, or that the client library
  sends again and Redis answers with 0, changes the set of likes, and the request neither
  counts nor publishes (`service.go:65-71`, `93-99`): the count and the table stay
  one behind the gate, so that the reconciler sees no difference either. The user's next change
  starts from the changed set: it is counted and published, and only the row is right again. This
  is the rest of `skew`, and why such a pair leaves `alone`.
* An event whose publication fails is gone (`service.go:83-84`, `110`), as is one whose process
  dies after the gate: the row stays behind the gate until the user's next change.
* Without the aggregator, a failed INCRBY whose undo fails, or undoes another
  request's change, parts counter and gate for good; `read.go:11` calls negative
  counts transient.
* Deltas are applied whether or not the row changed, in a statement of their
  own (`consumer.go:40`): a redelivered or half-failed batch moves the count away from
  the rows.
* A second account of the same name takes the first one's index entry in memory
  (`store.go:112`), where MySQL has a unique key.
* `cmd/like/main.go:29` publishes to a channel bus that nothing runs: after 1024
  events every request blocks, where `service.go:83` says persisting does not
  hold up the main path. In `chan_bus` this is the initial state with `runner = "absent"`; without
  `features.mq_enabled` the server does the same.
* `ListVideos` answers a failed query with an empty page, which `README.md:97`
  tells clients to take for the end (`store.go:394`).
* `README.md:97` tells clients to stop at an empty page; the following feed answers its last
  page with cursor 0, which asked for again is the first page (`feed/service.go:80`).
* `follow.go:58` cuts the page to the client's limit after the cursor was computed from
  the whole page: what was cut is never shown.
* A video whose row cannot be read, for a failed query as for a deleted row, is left out of
  its page (`cmd/server/main.go:456-470`, `cmd/feed/main.go:96-106`) while the cursor moves past
  it: it is never shown to a client that pages on.
* An author whose follower count or outbox cannot be read is left out of one page
  (`relation/service.go:53-56`, `feed/pull.go`), and the cursor moves past what they published.
* An inbox to which nothing was pushed for 30 days expires as a whole (`feed/store.go:15`, `53`),
  unread videos included; the pulled ones are still there.
* A pipeline of `BatchPushToInbox` that ends between a ZADD and its trim leaves an inbox above
  its limit, until the next push to it.
* The feed's cursor is a millisecond and the interval is open (`feed/read.go:21`): of
  two videos of one millisecond the second may be skipped at a page boundary.
* An unfollow leaves what was already pushed (`README.md:90` says the feed shows those
  one follows).
* Two reconcilers that find the same difference add it twice, so that the counter is off by as
  much on the other side, and may do so again at every tick: it swings for ever between d and
  −d. Three turn d into −2d and that into 4d. `deploy/k8s/deployment.yaml:6` runs three replicas
  and `configmap.yaml:11` enables the reconciler in each, on tickers that start with them.
  (`Converges` without its hypothesis, in `reconcile`: around a table's count of 2 the counter
  goes 4, 0, 4, ...)
* A counter below zero is read as 0, so a repair adds too little; it takes a second
  pass. `LandsOn` says so.
* The source of a task is a path on the machine that took the upload
  (`transcode/worker.go:49`): a worker elsewhere fails all its attempts, and the row stays
  "ready" with the upload.
* A refused `MkdirAll` (`worker.go:66`) or a dropped status write (`worker.go:54`, `101`, `116`)
  leaves a video "transcoding", hence `spared`.
* A video smaller than 640 by 360 has no resolution to be encoded to and ends as "failed"
  (`worker.go:100`), although its upload plays.
* A second copy of a task encodes over the files that the first one published.
* `PrunePools` removes from the hot pool what scores below a time in milliseconds, which
  every heat does (`rec/store.go:59-62`, `scorer.go:20-27`): each tick empties it.
* The fresh pool is filled at the start only (`cmd/server/main.go:226-229`), and with ten
  videos: `ListVideos(0, 1000)` clamps 1000 to 10 (`store.go:906`).
* A recalled entry's author is always 0 (`rec/store.go:169-181`), so that
  `FilterSelfAuthor` removes nothing and `DiversityRerank` leaves two entries; a page has at most
  three, and `next_cursor` is always 0.
* `FreshInjection` does not know what was seen (`scorer.go:127-135`): a page may repeat one
  video, against `filter.go:8`.
* The request's cursor is not used (`rec/service.go:51`), and nothing calls `SetCFForUser`.

## 7. What is not modelled

| Component | Why not |
|---|---|
| Rate limiting | the buckets are a library's (`golang.org/x/time/rate`) behind one mutex; the window on Redis is one atomic INCR on a key per second |
| Login protection, security headers | a map of counters behind one mutex; constants |
| Handlers | beyond paging, uploading and recommending they parse, call one operation and format |
| `MysqlRepo.Follow`/`Unfollow` as two statements | no command calls them; the server follows through `Store`, in one transaction |
| Collaborative filtering pools, `GenerateHLS`, `BatchTranscode` | no caller |
| Authentication, audit, metrics, tracing, configuration, clients | no state that others depend on; calls into libraries |
| Partial loss of Redis or MySQL data | the code takes no measure against it |
