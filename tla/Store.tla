-------------------------------- MODULE Store --------------------------------
(***************************************************************************)
(* internal/store/store.go: users, videos, likes, comments and follows.    *)
(*                                                                         *)
(* DB = FALSE is the in-memory store: every operation runs under its       *)
(* RWMutex, so it is one action.  DB = TRUE is the MySQL store: an         *)
(* operation is one statement or one transaction, preceded by checks that  *)
(* rows exist; rows of users and videos are never deleted, so the checks   *)
(* still hold when the transaction commits and the operation is one action *)
(* too.  A failed call changes nothing and is not an action.               *)
(*                                                                         *)
(* Ids are the auto-increment sequences: a user, video or comment is its   *)
(* position in users, videos or comments.                                  *)
(***************************************************************************)
EXTENDS Integers, Sequences, FiniteSets

CONSTANTS
    DB,          \* TRUE: MySQL, FALSE: memory
    Names,       \* usernames
    URLs,        \* play URLs; "" stands for none
    Qualities,   \* the resolutions a transcode may deliver
    MaxUsers, MaxVideos, MaxComments   \* bounds

Statuses == {"uploading", "transcoding", "ready", "failed"}

ASSUME StoreAssumption ==
    /\ DB \in BOOLEAN /\ "" \notin URLs
    /\ MaxUsers \in Nat /\ MaxVideos \in Nat /\ MaxComments \in Nat

VARIABLES
    users,          \* the username of each user
    userByName,     \* in memory only: the user a name leads to, 0 for none
    videos,
    userLikes,      \* pairs <<user, video>>
    following,      \* pairs <<follower, followee>>
    followers,      \* the reverse index: pairs <<followee, follower>>
    comments,
    videoComments   \* the comment ids of each video, in order

vars == <<users, userByName, videos, userLikes, following, followers, comments, videoComments>>

UserIds == 1 .. Len(users)
VideoIds == 1 .. Len(videos)

\* Like and Unlike look into the in-memory maps whatever the store; those are
\* empty when the data is in MySQL.
MemUserIds == IF DB THEN {} ELSE UserIds

Video == [author : Nat, playURL : URLs, playURLs : SUBSET Qualities, status : Statuses,
          likeCount : Nat, commentCount : Nat]

TypeOK ==
    /\ users \in Seq(Names)
    /\ userByName \in [Names -> 0 .. Len(users)]
    /\ videos \in Seq(Video)
    /\ userLikes \subseteq UserIds \X VideoIds
    /\ following \subseteq UserIds \X UserIds
    /\ followers \subseteq UserIds \X UserIds
    /\ comments \in Seq([video : VideoIds, user : UserIds])
    /\ videoComments \in [VideoIds -> Seq(1 .. Len(comments))]

Init ==
    /\ users = <<>>
    /\ userByName = [n \in Names |-> 0]
    /\ videos = <<>>
    /\ userLikes = {} /\ following = {} /\ followers = {}
    /\ comments = <<>>
    /\ videoComments = <<>>

-----------------------------------------------------------------------------
\* MySQL has UNIQUE KEY uk_username; the map is simply overwritten.
CreateUser(n) ==
    /\ Len(users) < MaxUsers
    /\ DB => \A u \in UserIds : users[u] # n
    /\ users' = Append(users, n)
    /\ userByName' = IF DB THEN userByName ELSE [userByName EXCEPT ![n] = Len(users) + 1]
    /\ UNCHANGED <<videos, userLikes, following, followers, comments, videoComments>>

\* A new video is ready at once; a transcode may change that later.
CreateVideo(a, url) ==
    /\ Len(videos) < MaxVideos
    /\ a \in UserIds
    /\ videos' = Append(videos, [author |-> a, playURL |-> url, playURLs |-> {},
                                 status |-> "ready", likeCount |-> 0, commentCount |-> 0])
    /\ videoComments' = Append(videoComments, <<>>)
    /\ UNCHANGED <<users, userByName, userLikes, following, followers, comments>>

UpdateVideoStatus(v, s) ==
    /\ v \in VideoIds
    /\ videos' = [videos EXCEPT ![v].status = s]
    /\ UNCHANGED <<users, userByName, userLikes, following, followers, comments, videoComments>>

\* Empty arguments leave what is there.
UpdateVideoPlaybackURLs(v, url, qs) ==
    /\ v \in VideoIds
    /\ videos' = [videos EXCEPT ![v].playURL = IF url = "" THEN @ ELSE url,
                                ![v].playURLs = IF qs = {} THEN @ ELSE qs]
    /\ UNCHANGED <<users, userByName, userLikes, following, followers, comments, videoComments>>

\* Mutant of Like: a second like of the same user counts again.
LikeAgain(u, v) ==
    /\ u \in MemUserIds /\ v \in VideoIds
    /\ userLikes' = userLikes \cup {<<u, v>>}
    /\ videos' = [videos EXCEPT ![v].likeCount = @ + 1]
    /\ UNCHANGED <<users, userByName, following, followers, comments, videoComments>>

Like(u, v) ==
    /\ u \in MemUserIds /\ v \in VideoIds
    /\ <<u, v>> \notin userLikes
    /\ userLikes' = userLikes \cup {<<u, v>>}
    /\ videos' = [videos EXCEPT ![v].likeCount = @ + 1]
    /\ UNCHANGED <<users, userByName, following, followers, comments, videoComments>>

\* Mutant of Unlike: it does not look whether the user likes the video, nor at
\* zero.
UnlikeUnchecked(u, v) ==
    /\ u \in MemUserIds /\ v \in VideoIds
    /\ userLikes' = userLikes \ {<<u, v>>}
    /\ videos' = [videos EXCEPT ![v].likeCount = @ - 1]
    /\ UNCHANGED <<users, userByName, following, followers, comments, videoComments>>

\* The count does not go below zero.
Unlike(u, v) ==
    /\ u \in MemUserIds /\ v \in VideoIds
    /\ <<u, v>> \in userLikes
    /\ userLikes' = userLikes \ {<<u, v>>}
    /\ videos' = [videos EXCEPT ![v].likeCount = IF @ > 0 THEN @ - 1 ELSE @]
    /\ UNCHANGED <<users, userByName, following, followers, comments, videoComments>>

\* Mutant of AddComment: the count is forgotten.
AddCommentUncounted(v, u) ==
    /\ Len(comments) < MaxComments
    /\ u \in UserIds /\ v \in VideoIds
    /\ comments' = Append(comments, [video |-> v, user |-> u])
    /\ videoComments' = [videoComments EXCEPT ![v] = Append(@, Len(comments) + 1)]
    /\ UNCHANGED <<users, userByName, videos, userLikes, following, followers>>

\* Row, index and count together, under the lock or in a transaction.
AddComment(v, u) ==
    /\ Len(comments) < MaxComments
    /\ u \in UserIds /\ v \in VideoIds
    /\ comments' = Append(comments, [video |-> v, user |-> u])
    /\ videoComments' = [videoComments EXCEPT ![v] = Append(@, Len(comments) + 1)]
    /\ videos' = [videos EXCEPT ![v].commentCount = @ + 1]
    /\ UNCHANGED <<users, userByName, userLikes, following, followers>>

Follow(u, f) ==
    /\ u # f
    /\ u \in UserIds /\ f \in UserIds
    /\ following' = following \cup {<<u, f>>}
    /\ followers' = followers \cup {<<f, u>>}
    /\ UNCHANGED <<users, userByName, videos, userLikes, comments, videoComments>>

\* Mutant of Unfollow: the reverse index keeps the pair.
UnfollowOneSided(u, f) ==
    /\ following' = following \ {<<u, f>>}
    /\ UNCHANGED <<users, userByName, videos, userLikes, followers, comments, videoComments>>

\* No check that the users exist.
Unfollow(u, f) ==
    /\ following' = following \ {<<u, f>>}
    /\ followers' = followers \ {<<f, u>>}
    /\ UNCHANGED <<users, userByName, videos, userLikes, comments, videoComments>>

Next ==
    \/ \E n \in Names : CreateUser(n)
    \/ \E a \in UserIds, url \in URLs : CreateVideo(a, url)
    \/ \E v \in VideoIds, s \in Statuses : UpdateVideoStatus(v, s)
    \/ \E v \in VideoIds, url \in URLs \cup {""}, qs \in SUBSET Qualities :
          UpdateVideoPlaybackURLs(v, url, qs)
    \/ \E u \in UserIds, v \in VideoIds : Like(u, v) \/ Unlike(u, v) \/ AddComment(v, u)
    \/ \E u, f \in UserIds : Follow(u, f) \/ Unfollow(u, f)

Spec == Init /\ [][Next]_vars

-----------------------------------------------------------------------------
(* Queries. *)

HasLiked(u, v) == <<u, v>> \in userLikes

\* FollowStats: how many the user follows and how many follow the user.
FollowStats(u) ==
    <<Cardinality({p \in following : p[1] = u}), Cardinality({p \in followers : p[1] = u})>>

-----------------------------------------------------------------------------
(* Properties. *)

Likers(v) == {u \in UserIds : HasLiked(u, v)}

\* The like count of a video is the number of users who like it, after any
\* sequence of likes and unlikes: Unlike's guard against a negative count
\* (store.go:502) never hides a miscount.
LikeCountExact ==
    \A v \in VideoIds : videos[v].likeCount = Cardinality(Likers(v))

\* The two follow indexes mirror each other: A follows B exactly when B lists A
\* as a follower.  The feed is read through the one, fan-out through the other.
FollowIndexesAgree ==
    \A u, f \in UserIds : <<u, f>> \in following <=> <<f, u>> \in followers

\* A video's comment list holds the ids of its comments, each once and in the
\* order they were made, and its count is the length of the list.
CommentsIndexed ==
    \A v \in VideoIds :
        /\ videos[v].commentCount = Len(videoComments[v])
        /\ \A i, j \in 1 .. Len(videoComments[v]) : i < j => videoComments[v][i] < videoComments[v][j]
        /\ \A c \in 1 .. Len(comments) :
              comments[c].video = v <=> \E i \in 1 .. Len(videoComments[v]) : videoComments[v][i] = c
=============================================================================
