------------------------------ MODULE StoreFeed ------------------------------
(***************************************************************************)
(* Paging through a video list of the store: ListVideos, ListUserVideos    *)
(* and FollowingFeed of internal/store/store.go, served by writeFeed of    *)
(* internal/api/video.go (and by FollowingFeed of internal/api/follow.go   *)
(* when no feed service is injected).                                      *)
(*                                                                         *)
(* A client asks with max_id = 0 first, then with the next_cursor of the   *)
(* page before, until a page is empty, and may change its limit on the     *)
(* way.  Each page is one query; videos are published and users follow and *)
(* unfollow between pages.  The other operations of Store change nothing   *)
(* that the lists select by.                                               *)
(***************************************************************************)
EXTENDS Store

CONSTANTS
    Limits,         \* the limits clients ask for, any integers
    DefaultLimit,   \* 10
    MaxLimit,       \* 50
    BrokenReads     \* TRUE: reading rows from MySQL may fail

ASSUME FeedAssumption ==
    /\ Limits \subseteq Int
    /\ DefaultLimit \in Nat \ {0} /\ MaxLimit \in Nat /\ DefaultLimit <= MaxLimit
    /\ BrokenReads \in BOOLEAN

VARIABLES
    list,     \* the list the client pages through, [kind, of]
    cursor,   \* the max_id it asks with next
    seen,     \* the videos it was given, in order
    atEnd,    \* it was given an empty page
    steady,   \* history: videos in the list when the client began, and in it ever since
    emptied   \* history: a read error left a page of the client's without any row

feedVars == <<list, cursor, seen, atEnd, steady, emptied>>

Lists == [kind : {"all", "author", "following"}, of : UserIds]

FeedTypeOK ==
    /\ TypeOK
    /\ list \in Lists \cup {[kind |-> "none", of |-> 0]}
    /\ cursor \in 0 .. Len(videos)
    /\ seen \in Seq(VideoIds)
    /\ atEnd \in BOOLEAN
    /\ steady \subseteq VideoIds
    /\ emptied \in BOOLEAN

FeedInit ==
    /\ Init
    /\ list = [kind |-> "none", of |-> 0]
    /\ cursor = 0 /\ seen = <<>> /\ atEnd = FALSE /\ steady = {} /\ emptied = FALSE

-----------------------------------------------------------------------------
clampLimit(limit) == IF limit <= 0 \/ limit > MaxLimit THEN DefaultLimit ELSE limit

\* Whether a video is in a list, whatever its status.
Selects(l, v) ==
    CASE l.kind = "all" -> TRUE
      [] l.kind = "author" -> videos[v].author = l.of
      [] l.kind = "following" -> <<l.of, videos[v].author>> \in following
      [] OTHER -> FALSE

InList(l) == {v \in VideoIds : Selects(l, v)}

\* Mutant of Page: a video with the cursor's own id is listed again.
PageInclusive(l, maxID, limit) ==
    LET found == {v \in InList(l) : maxID = 0 \/ v <= maxID}
        n == IF Cardinality(found) < clampLimit(limit) THEN Cardinality(found) ELSE clampLimit(limit)
    IN [i \in 1 .. n |-> CHOOSE v \in found : Cardinality({w \in found : w > v}) = i - 1]

\* Mutant of Page: truncated before it is sorted, here from the oldest.
PageTruncatedFirst(l, maxID, limit) ==
    LET found == {v \in InList(l) : maxID = 0 \/ v < maxID}
        n == IF Cardinality(found) < clampLimit(limit) THEN Cardinality(found) ELSE clampLimit(limit)
    IN [i \in 1 .. n |-> CHOOSE v \in found : Cardinality({w \in found : w < v}) = n - i]

\* The page: ids below max_id (0 for no bound), greatest first, at most limit.
Page(l, maxID, limit) ==
    LET found == {v \in InList(l) : maxID = 0 \/ v < maxID}
        n == IF Cardinality(found) < clampLimit(limit) THEN Cardinality(found) ELSE clampLimit(limit)
    IN [i \in 1 .. n |-> CHOOSE v \in found : Cardinality({w \in found : w > v}) = i - 1]

\* A client begins to page: it notes what the list holds.
Begin(l) ==
    /\ list.kind = "none"
    /\ list' = l
    /\ steady' = InList(l)
    /\ UNCHANGED <<vars, cursor, seen, atEnd, emptied>>

\* Mutant of WriteFeed: the end is marked by a cursor no id has.
WriteFeedEndMark(page) ==
    /\ list.kind # "none" /\ ~atEnd
    /\ seen' = seen \o page
    /\ cursor' = IF page = <<>> THEN -1 ELSE page[Len(page)]
    /\ atEnd' = (page = <<>>)
    /\ UNCHANGED <<vars, list, steady>>

\* writeFeed.  next_cursor is the last id of the page, or 0 for an empty page,
\* which is how the client knows that it is at the end.
WriteFeed(page) ==
    /\ list.kind # "none" /\ ~atEnd
    /\ seen' = seen \o page
    /\ cursor' = IF page = <<>> THEN 0 ELSE page[Len(page)]
    /\ atEnd' = (page = <<>>)
    /\ UNCHANGED <<vars, list, steady>>

\* One request.
NextPage(limit) == WriteFeed(Page(list, cursor, limit)) /\ UNCHANGED emptied

\* A read error in scanVideos, which keeps the n rows it has and does not look
\* at rows.Err(); ListVideos also answers a failed query with no rows.
CutPage(limit, n) ==
    /\ DB /\ BrokenReads
    /\ n < Len(Page(list, cursor, limit))
    /\ WriteFeed(SubSeq(Page(list, cursor, limit), 1, n))
    /\ emptied' = (emptied \/ n = 0)

\* Publishing, following and unfollowing between two pages.
StoreStep ==
    /\ \/ \E n \in Names : CreateUser(n)
       \/ \E a \in UserIds, url \in URLs : CreateVideo(a, url)
       \/ \E u, f \in UserIds : Follow(u, f) \/ Unfollow(u, f)
    /\ UNCHANGED <<list, cursor, seen, atEnd, emptied>>
    /\ steady' = steady \cap InList(list)'

FeedNext ==
    \/ \E l \in Lists : Begin(l)
    \/ \E limit \in Limits : NextPage(limit) \/ \E n \in 0 .. MaxLimit : CutPage(limit, n)
    \/ StoreStep

FeedSpec == FeedInit /\ [][FeedNext]_<<vars, feedVars>>

-----------------------------------------------------------------------------
(* Properties. *)

\* Newest first and no video twice, across pages of different sizes, pages cut
\* short and whatever is published or followed between them.
NewestFirst == \A i, j \in 1 .. Len(seen) : i < j => seen[i] > seen[j]

\* An empty page means the end (README.md:97): by then the client was given
\* every video that was in the list when it began and never left it.  A page
\* that a read error cut short costs nothing, since the next cursor is taken
\* from the rows it still has, unless it lost them all.
EndMeansComplete ==
    atEnd /\ ~emptied => steady \subseteq {seen[i] : i \in 1 .. Len(seen)}
=============================================================================
