---------------------------- MODULE FollowingFeed ----------------------------
(***************************************************************************)
(* Reading the following feed: GetFollowingFeed of internal/feed/          *)
(* service.go, read.go and pull.go, the big-V test of                      *)
(* internal/relation/service.go, and FollowingFeed of                      *)
(* internal/api/follow.go in front of them, for one user who pages.        *)
(*                                                                         *)
(* A page is put together from several reads: the user's inbox, the list   *)
(* of followees, a cached follower count for each, and the outbox of each  *)
(* followee that counts as a big V.  Authors publish, fan-out delivers,    *)
(* counts change, the user follows and unfollows, and its inbox expires     *)
(* between any two reads.                                                  *)
(*                                                                         *)
(* A video's score is its time of publication in milliseconds, ts[v], which *)
(* two videos may share.  The client takes next_cursor = 0 for the end.     *)
(* Inboxes and outboxes stay below timelineMaxSize (Fanout has the limit). *)
(***************************************************************************)
EXTENDS Feeds

CONSTANTS
    PageSize,     \* pageSize (10)
    FetchFactor,  \* how many pages each read fetches (3)
    Limits,       \* the limits the client asks for, one for each request
    MaxChanges    \* bound: follows, unfollows, changes of a count, what expires, reads that fail

ASSUME FollowingFeedAssumption ==
    /\ PageSize \in Nat \ {0} /\ FetchFactor \in Nat \ {0}
    /\ Limits \subseteq Nat
    /\ MaxVideos \in Nat /\ MaxChanges \in Nat

Fetch == PageSize * FetchFactor

VARIABLES
    ts,             \* the score of each video published
    undelivered,    \* videos whose fan-out has not reached this user
    ownInbox,       \* the user's inbox; an author's outbox is all of its videos
    follows,        \* the authors the user follows
    isBig,          \* authors with at least bigVFollowerThreshold followers
    cache,          \* bigv:cnt:{author}, as "big", "small" or "none"
    reader,         \* the request in progress
    cursor, seen,   \* the client: the cursor it asks with, how often it saw each video
    state,          \* the client: "new", "paging" or "atEnd"
    steady,         \* history: videos pushed before the client began, and videos it could
                    \* pull then and ever since, less those the code dropped on the way
    changes

feedVars == <<ts, authorOf, undelivered, ownInbox>>
relVars == <<follows, isBig, cache>>
clientVars == <<cursor, seen, state>>
readVars == <<feedVars, relVars, reader, clientVars, steady, changes>>

Published == 1 .. Len(ts)
NoRequest == [pc |-> "none", found |-> {}, left |-> {}, bigVs |-> {}]

ReadTypeOK ==
    /\ ts \in Seq(Nat) /\ authorOf \in Seq(Authors) /\ Len(ts) = Len(authorOf)
    /\ undelivered \subseteq Published /\ ownInbox \subseteq Published
    /\ follows \subseteq Authors /\ isBig \subseteq Authors
    /\ cache \in [Authors -> {"none", "big", "small"}]
    /\ reader \in [pc : {"none", "followees", "bigVs", "pull"}, found : SUBSET Published,
                   left : SUBSET Authors, bigVs : SUBSET Authors]
    /\ cursor \in Nat
    /\ seen \in [Videos -> Nat]
    /\ state \in {"new", "paging", "atEnd"}
    /\ steady \in [pushed : SUBSET Published, pulled : SUBSET Published]
    /\ changes \in Nat

\* The user follows some of the authors; counts may have been cached by other
\* users' requests, long ago.
ReadInit ==
    /\ ts = <<>> /\ authorOf = <<>> /\ undelivered = {} /\ ownInbox = {}
    /\ follows \in SUBSET Authors /\ isBig \in SUBSET Authors /\ cache \in [Authors -> {"none", "big", "small"}]
    /\ reader = NoRequest
    /\ cursor = 0 /\ seen = [v \in Videos |-> 0] /\ state = "new"
    /\ steady = [pushed |-> {}, pulled |-> {}] /\ changes = 0

-----------------------------------------------------------------------------
(* Reading sorted sets. *)

Before(v) == cursor = 0 \/ ts[v] < cursor

\* Mutant of Highest: cut to size before the scores are compared.
HighestUnsorted(box, n) ==
    {top \in SUBSET box : Cardinality(top) = IF Cardinality(box) < n THEN Cardinality(box) ELSE n}

\* The n entries of box with the highest scores; ties may fall either way.
Highest(box, n) ==
    {top \in SUBSET box :
        /\ Cardinality(top) = IF Cardinality(box) < n THEN Cardinality(box) ELSE n
        /\ \A v \in top, w \in box \ top : ts[v] >= ts[w]}

\* Mutant of ReadZSet: the interval is closed at the cursor.
ReadZSetClosed(box) == Highest({v \in box : cursor = 0 \/ ts[v] <= cursor}, Fetch)

\* readZSetByScore: the Fetch highest scores strictly below the cursor.
ReadZSet(box) == Highest({v \in box : Before(v)}, Fetch)

Outbox(a) == {v \in Published : authorOf[v] = a}

\* Videos the client can be given now besides those in its inbox: those of the
\* authors it follows whose cached count says big V.
Pullable == UNION {Outbox(a) : a \in {b \in follows : cache[b] = "big"}}

-----------------------------------------------------------------------------
(* The world around the reader. *)

\* One more of the MaxChanges.
Disturbed == changes < MaxChanges /\ changes' = changes + 1

\* The time of the latest video; the clock need not show more than the next
\* millisecond, as only the order of scores matters.
Latest == IF ts = <<>> THEN 0 ELSE ts[Len(ts)]

\* Mutant of Publish: the video is put on its way without a score.
PublishNoScore(a, t) ==
    LET v == Len(ts) + 1
    IN /\ v \in Videos
       /\ authorOf' = Append(authorOf, a)
       /\ undelivered' = undelivered \cup {v}
       /\ UNCHANGED <<ts, ownInbox, relVars, reader, clientVars, steady, changes>>

\* PublishFanout: the outbox at once, the inboxes by the fan-out worker.
Publish(a, t) ==
    LET v == Len(ts) + 1
    IN /\ v \in Videos
       /\ t = Latest + 1 \/ (t = Latest /\ t > 0)
       /\ ts' = Append(ts, t)
       /\ authorOf' = Append(authorOf, a)
       /\ undelivered' = undelivered \cup {v}
       /\ UNCHANGED <<ownInbox, relVars, reader, clientVars, steady, changes>>

\* The fan-out worker comes to this user: every author is fanned out, a big V
\* as well.
Deliver(v) ==
    /\ v \in undelivered
    /\ undelivered' = undelivered \ {v}
    /\ ownInbox' = IF authorOf[v] \in follows THEN ownInbox \cup {v} ELSE ownInbox
    /\ UNCHANGED <<ts, authorOf, relVars, reader, clientVars, steady, changes>>

\* The user follows or unfollows; an author gains or loses its 100000th
\* follower; a cached count reaches its TTL.
Change(a, what) ==
    /\ Disturbed
    /\ \/ what = "follow" /\ follows' = follows \cup {a} /\ UNCHANGED <<isBig, cache>>
       \/ what = "unfollow" /\ follows' = follows \ {a} /\ UNCHANGED <<isBig, cache>>
       \/ what = "gain" /\ isBig' = isBig \cup {a} /\ UNCHANGED <<follows, cache>>
       \/ what = "lose" /\ isBig' = isBig \ {a} /\ UNCHANGED <<follows, cache>>
       \/ what = "expire" /\ cache' = [cache EXCEPT ![a] = "none"] /\ UNCHANGED <<follows, isBig>>
    /\ UNCHANGED <<feedVars, reader, clientVars>>
    /\ steady' = [steady EXCEPT !.pulled = @ \cap Pullable']

\* Nothing was pushed to the user for inboxTTL.
InboxExpires ==
    /\ Disturbed
    /\ ownInbox # {} /\ ownInbox' = {}
    /\ steady' = [steady EXCEPT !.pushed = {}]
    /\ UNCHANGED <<ts, authorOf, undelivered, relVars, reader, clientVars>>

-----------------------------------------------------------------------------
(* GetFollowingFeed. *)

\* ReadInbox.  (The client notes what is in reach when it begins.)
ReadInbox ==
    /\ state # "atEnd" /\ reader.pc = "none"
    /\ \E found \in ReadZSet(ownInbox) :
          reader' = [NoRequest EXCEPT !.pc = "followees", !.found = found]
    /\ state' = "paging"
    /\ steady' = IF state = "new" THEN [pushed |-> ownInbox, pulled |-> Pullable] ELSE steady
    /\ UNCHANGED <<feedVars, relVars, cursor, seen, changes>>

ListFollowees ==
    /\ reader.pc = "followees"
    /\ reader' = [reader EXCEPT !.pc = "bigVs", !.left = follows]
    /\ UNCHANGED <<feedVars, relVars, clientVars, steady, changes>>

\* What IsBigV found for a followee: a count, or "none" and the followee is skipped.
Judged(a, count) ==
    /\ reader' = [reader EXCEPT !.left = @ \ {a},
                                !.bigVs = IF count = "big" THEN @ \cup {a} ELSE @]
    /\ steady' = [steady EXCEPT !.pulled =
                      (@ \cap Pullable') \ (IF count = "big" THEN {} ELSE Outbox(a))]

\* IsBigV of one followee: the cached count; if there is none or the cache fails, the
\* count of the table, which is cached unless SET fails; if the table fails too, none.
IsBigV(a) ==
    LET counted == IF a \in isBig THEN "big" ELSE "small"
        hit == cache[a] # "none"
    IN /\ reader.pc = "bigVs" /\ a \in reader.left
       /\ UNCHANGED <<feedVars, follows, isBig, clientVars>>
       /\ \/ hit /\ UNCHANGED <<cache, changes>> /\ Judged(a, cache[a])
          \/ /\ IF hit THEN Disturbed ELSE UNCHANGED changes
             /\ cache' = [cache EXCEPT ![a] = counted] /\ Judged(a, counted)
          \/ Disturbed /\ UNCHANGED cache /\ (Judged(a, counted) \/ Judged(a, "none"))

AllCounted ==
    /\ reader.pc = "bigVs" /\ reader.left = {}
    /\ reader' = [reader EXCEPT !.pc = "pull", !.left = reader.bigVs]
    /\ UNCHANGED <<feedVars, relVars, clientVars, steady, changes>>

\* One of the goroutines of readBigVOutboxesConcurrently; a failed read is
\* skipped.
ReadOutbox(a) ==
    /\ reader.pc = "pull" /\ a \in reader.left
    /\ \/ /\ \E found \in ReadZSet(Outbox(a)) :
                reader' = [reader EXCEPT !.left = @ \ {a}, !.found = @ \cup found]
          /\ UNCHANGED <<steady, changes>>
       \/ /\ Disturbed
          /\ reader' = [reader EXCEPT !.left = @ \ {a}]
          /\ steady' = [steady EXCEPT !.pulled = @ \ Outbox(a)]
    /\ UNCHANGED <<feedVars, relVars, clientVars>>

\* mergeDedupe, the next cursor, the details of the videos (those whose row cannot be
\* read are skipped), and the truncation to the client's limit.
Reply ==
    /\ reader.pc = "pull" /\ reader.left = {}
    /\ \E merged \in Highest(reader.found, PageSize), limit \in Limits :
       \E unread \in SUBSET merged : \E items \in Highest(merged \ unread, limit) :
          /\ IF unread = {} THEN UNCHANGED changes ELSE Disturbed
          /\ seen' = [v \in Videos |-> IF v \in items THEN seen[v] + 1 ELSE seen[v]]
          /\ LET next == IF Cardinality(merged) < PageSize THEN 0
                         ELSE CHOOSE t \in {ts[v] : v \in merged} : \A v \in merged : t <= ts[v]
             IN /\ cursor' = next
                /\ state' = IF next = 0 THEN "atEnd" ELSE "paging"
          /\ steady' = [pushed |-> steady.pushed \ (merged \ items),
                        pulled |-> steady.pulled \ (merged \ items)]
    /\ reader' = NoRequest
    /\ UNCHANGED <<feedVars, relVars>>

ReadNext ==
    \/ \E a \in Authors, t \in 1 .. MaxVideos : Publish(a, t)
    \/ \E v \in Videos : Deliver(v)
    \/ \E a \in Authors, what \in {"follow", "unfollow", "gain", "lose", "expire"} : Change(a, what)
    \/ InboxExpires
    \/ ReadInbox \/ ListFollowees \/ (\E a \in Authors : IsBigV(a)) \/ AllCounted
    \/ (\E a \in Authors : ReadOutbox(a)) \/ Reply

ReadSpec == ReadInit /\ [][ReadNext]_readVars

-----------------------------------------------------------------------------
(* Properties. *)

\* No video is shown twice, although it may be both pushed and pulled and
\* arrives while the client pages (service.go:106, read.go:21).
NoVideoTwice == \A v \in Videos : seen[v] <= 1

\* Videos published in the same millisecond as another.
Tied == {v \in Published : \E w \in Published \ {v} : ts[w] = ts[v]}

\* A client that has come to the end (service.go:25) has seen every video that
\* was pushed to it before it began and every video it could pull from the first
\* page to the last, although every page merges reads of different moments and
\* cuts each of them.  It may miss what the code drops: a video published in the
\* same millisecond as another (the cursor is a bare millisecond); of a page whose
\* cursor is already taken, the videos whose row cannot be read and the tail that
\* follow.go cuts to the client's limit; the outbox of an author whose count or
\* outbox could not be read; an inbox that expired.
EndMeansComplete ==
    state = "atEnd" =>
        \A v \in (steady.pushed \cup steady.pulled) \ Tied : seen[v] > 0
=============================================================================
