----------------------------- MODULE StoreProofs -----------------------------
(***************************************************************************)
(* Proofs about Store, in memory and in MySQL; about StoreFeed, a client   *)
(* that pages through its lists: for any names, URLs, resolutions and      *)
(* limits and any number of users, videos and comments; and about          *)
(* Recommend, whose pools are filled from the newest of these lists: for   *)
(* any number of videos and requests and any limits of recall, ranking and *)
(* page.                                                                   *)
(***************************************************************************)
EXTENDS StoreFeed, Recommend, SequenceTheorems, FiniteSetTheorems, TLAPS

\* A function over an initial segment is a sequence.
LEMMA FunctionIsSequence ==
    ASSUME NEW S, NEW n \in Nat, NEW f \in [1 .. n -> S]
    PROVE  f \in Seq(S) /\ Len(f) = n
<1>1. f \in Seq(S)
    BY SeqDef
<1>2. Len(f) \in Nat /\ 1 .. Len(f) = 1 .. n
    BY <1>1, LenProperties
<1> QED
    BY <1>1, <1>2

LEMMA Counted ==
    ASSUME TypeOK
    PROVE  Len(users) \in Nat /\ Len(videos) \in Nat /\ Len(comments) \in Nat
    BY LenProperties DEF TypeOK

\* Changing the row of one video keeps the rows typed and leaves the others alone.
LEMMA RowChanged ==
    ASSUME TypeOK, NEW v \in VideoIds, NEW row \in Video, videos' = [videos EXCEPT ![v] = row]
    PROVE  /\ videos' \in Seq(Video) /\ Len(videos') = Len(videos) /\ VideoIds' = VideoIds
           /\ \A w \in VideoIds : videos'[w] = IF w = v THEN row ELSE videos[w]
    BY ExceptSeq DEF TypeOK, VideoIds

LEMMA RowOfVideo ==
    ASSUME TypeOK, NEW v \in VideoIds
    PROVE  videos[v] \in Video
    BY ElementOfSeq DEF TypeOK, VideoIds

-----------------------------------------------------------------------------
(* Every operation keeps the types. *)

LEMMA CreateUserTyped ==
    ASSUME TypeOK, NEW n \in Names, CreateUser(n)
    PROVE  TypeOK'
<1>1. users' \in Seq(Names) /\ Len(users') = Len(users) + 1 /\ UserIds \subseteq UserIds'
    BY Counted, AppendProperties DEF TypeOK, CreateUser, UserIds
<1>2. userByName' \in [Names -> 0 .. Len(users')]
    BY <1>1, Counted DEF TypeOK, CreateUser
<1>3. VideoIds' = VideoIds
    BY DEF CreateUser, VideoIds
<1>4. comments \in Seq([video : VideoIds, user : UserIds'])
    <2>1. [video : VideoIds, user : UserIds] \subseteq [video : VideoIds, user : UserIds']
        BY <1>1
    <2>2. comments \in Seq([video : VideoIds, user : UserIds])
        BY DEF TypeOK
    <2> QED
        BY <2>1, <2>2, SeqMonotonic
<1>5. /\ userLikes \subseteq UserIds' \X VideoIds /\ following \subseteq UserIds' \X UserIds'
      /\ followers \subseteq UserIds' \X UserIds'
    BY <1>1 DEF TypeOK
<1>6. /\ videos' = videos /\ userLikes' = userLikes /\ following' = following
      /\ followers' = followers /\ comments' = comments /\ videoComments' = videoComments
    BY DEF CreateUser
<1>7. videos \in Seq(Video) /\ videoComments \in [VideoIds -> Seq(1 .. Len(comments))]
    BY DEF TypeOK
<1> QED
    BY <1>1, <1>2, <1>3, <1>4, <1>5, <1>6, <1>7 DEF TypeOK

LEMMA CreateVideoTyped ==
    ASSUME TypeOK, NEW a \in UserIds, NEW url \in URLs, CreateVideo(a, url)
    PROVE  TypeOK'
<1> DEFINE row == [author |-> a, playURL |-> url, playURLs |-> {}, status |-> "ready",
                   likeCount |-> 0, commentCount |-> 0]
           ids == 1 .. Len(comments)
<1>1. row \in Video
    BY Counted DEF Video, Statuses, UserIds
<1>2. videos' \in Seq(Video) /\ Len(videos') = Len(videos) + 1 /\ VideoIds \subseteq VideoIds'
    BY <1>1, Counted, AppendProperties DEF TypeOK, CreateVideo, VideoIds
<1>3. videoComments \in Seq(Seq(ids)) /\ Len(videoComments) = Len(videos)
    <2>1. videoComments \in [1 .. Len(videos) -> Seq(ids)] /\ Len(videos) \in Nat
        BY Counted DEF TypeOK, VideoIds
    <2> HIDE DEF ids
    <2> QED
        BY <2>1, FunctionIsSequence
<1>4. <<>> \in Seq(ids)
    BY EmptySeq
<1>5. videoComments' \in Seq(Seq(ids)) /\ Len(videoComments') = Len(videos) + 1
    BY <1>3, <1>4, AppendProperties DEF CreateVideo
<1>6. videoComments' \in [VideoIds' -> Seq(ids)]
    BY <1>2, <1>5, LenProperties DEF VideoIds
<1>7. comments' \in Seq([video : VideoIds', user : UserIds])
    <2>1. comments \in Seq([video : VideoIds, user : UserIds])
        BY DEF TypeOK
    <2>2. [video : VideoIds, user : UserIds] \subseteq [video : VideoIds', user : UserIds]
        BY <1>2
    <2> QED
        BY <2>1, <2>2, SeqMonotonic DEF CreateVideo
<1>8. UserIds' = UserIds /\ comments' = comments
    BY DEF CreateVideo, UserIds
<1> HIDE DEF row
<1>9. /\ users' \in Seq(Names) /\ userByName' \in [Names -> 0 .. Len(users')]
      /\ following' \subseteq UserIds \X UserIds /\ followers' \subseteq UserIds \X UserIds
    BY DEF TypeOK, CreateVideo
<1>10. userLikes' \subseteq UserIds \X VideoIds'
    BY <1>2 DEF TypeOK, CreateVideo
<1> QED
    BY <1>2, <1>6, <1>7, <1>8, <1>9, <1>10 DEF TypeOK

\* The operations that change one row of videos and perhaps the likes.
LEMMA VideoChangeTyped ==
    ASSUME TypeOK, NEW v \in VideoIds, NEW row \in Video, videos' = [videos EXCEPT ![v] = row],
           userLikes' \subseteq UserIds \X VideoIds,
           UNCHANGED <<users, userByName, following, followers, comments, videoComments>>
    PROVE  TypeOK'
    BY RowChanged DEF TypeOK, UserIds

LEMMA AddCommentTyped ==
    ASSUME TypeOK, NEW u \in UserIds, NEW v \in VideoIds, AddComment(v, u)
    PROVE  TypeOK'
<1> DEFINE row == [videos[v] EXCEPT !.commentCount = @ + 1]
           comment == [video |-> v, user |-> u]
           n == Len(comments)
<1>1. videos' = [videos EXCEPT ![v] = row] /\ row \in Video
    <2>1. videos[v] \in Video
        BY RowOfVideo
    <2>2. row \in Video
        BY <2>1 DEF Video
    <2>3. videos' = [videos EXCEPT ![v] = row]
        BY DEF AddComment
    <2> QED
        BY <2>2, <2>3
<1>2. videos' \in Seq(Video) /\ VideoIds' = VideoIds
    BY <1>1, RowChanged
<1>3. n \in Nat /\ comments' \in Seq([video : VideoIds, user : UserIds]) /\ Len(comments') = n + 1
    BY Counted, AppendProperties DEF TypeOK, AddComment
<1>4. \A w \in VideoIds : videoComments[w] \in Seq(1 .. n + 1)
    <2>1. 1 .. n \subseteq 1 .. n + 1
        BY <1>3
    <2>2. \A w \in VideoIds : videoComments[w] \in Seq(1 .. n)
        BY DEF TypeOK
    <2> HIDE DEF n
    <2> QED
        BY <2>1, <2>2, SeqMonotonic
<1>5. Append(videoComments[v], n + 1) \in Seq(1 .. n + 1)
    <2>1. n + 1 \in 1 .. n + 1
        BY <1>3
    <2> QED
        BY <1>4, <2>1, AppendProperties
<1>6. videoComments' = [videoComments EXCEPT ![v] = Append(videoComments[v], n + 1)]
    BY DEF AddComment
<1>7. videoComments' \in [VideoIds -> Seq(1 .. n + 1)]
    <2> HIDE DEF n
    <2> QED
        BY <1>4, <1>5, <1>6 DEF TypeOK
<1>8. UserIds' = UserIds
    BY DEF AddComment, UserIds
<1> HIDE DEF row, n
<1> QED
    BY <1>2, <1>3, <1>7, <1>8 DEF TypeOK, AddComment

LEMMA StepIsTyped == TypeOK /\ [Next]_vars => TypeOK'
<1> SUFFICES ASSUME TypeOK, [Next]_vars PROVE TypeOK'
    OBVIOUS
<1>1. ASSUME NEW n \in Names, CreateUser(n) PROVE TypeOK'
    BY <1>1, CreateUserTyped
<1>2. ASSUME NEW a \in UserIds, NEW url \in URLs, CreateVideo(a, url) PROVE TypeOK'
    BY <1>2, CreateVideoTyped
<1>3. ASSUME NEW v \in VideoIds, NEW s \in Statuses, UpdateVideoStatus(v, s) PROVE TypeOK'
    <2>1. [videos[v] EXCEPT !.status = s] \in Video
        BY RowOfVideo DEF Video
    <2> QED
        BY <1>3, <2>1, VideoChangeTyped DEF UpdateVideoStatus, TypeOK
<1>4. ASSUME NEW v \in VideoIds, NEW url \in URLs \cup {""}, NEW qs \in SUBSET Qualities,
             UpdateVideoPlaybackURLs(v, url, qs)
      PROVE  TypeOK'
    <2> DEFINE row == [videos[v] EXCEPT !.playURL = IF url = "" THEN @ ELSE url,
                                        !.playURLs = IF qs = {} THEN @ ELSE qs]
    <2>1. row \in Video
        BY RowOfVideo DEF Video
    <2>2. videos' = [videos EXCEPT ![v] = row]
        BY <1>4 DEF UpdateVideoPlaybackURLs
    <2> HIDE DEF row
    <2> QED
        BY <1>4, <2>1, <2>2, VideoChangeTyped DEF UpdateVideoPlaybackURLs, TypeOK
<1>5. ASSUME NEW u \in UserIds, NEW v \in VideoIds, Like(u, v) \/ Unlike(u, v) PROVE TypeOK'
    <2>1. PICK row \in Video : videos' = [videos EXCEPT ![v] = row]
        <3>1. CASE Like(u, v)
            <4>1. [videos[v] EXCEPT !.likeCount = @ + 1] \in Video
                BY RowOfVideo DEF Video
            <4> QED
                BY <3>1, <4>1 DEF Like
        <3>2. CASE Unlike(u, v)
            <4>1. [videos[v] EXCEPT !.likeCount = IF @ > 0 THEN @ - 1 ELSE @] \in Video
                BY RowOfVideo DEF Video
            <4> QED
                BY <3>2, <4>1 DEF Unlike
        <3> QED
            BY <1>5, <3>1, <3>2
    <2>2. userLikes' \subseteq UserIds \X VideoIds
        BY <1>5 DEF Like, Unlike, TypeOK
    <2> QED
        BY <1>5, <2>1, <2>2, VideoChangeTyped DEF Like, Unlike
<1>6. ASSUME NEW u \in UserIds, NEW v \in VideoIds, AddComment(v, u) PROVE TypeOK'
    BY <1>6, AddCommentTyped
<1>7. ASSUME NEW u \in UserIds, NEW f \in UserIds, Follow(u, f) \/ Unfollow(u, f) PROVE TypeOK'
    <2>1. following' \subseteq UserIds \X UserIds /\ followers' \subseteq UserIds \X UserIds
        BY <1>7 DEF Follow, Unfollow, TypeOK
    <2>2. /\ users' = users /\ userByName' = userByName /\ videos' = videos
          /\ userLikes' = userLikes /\ comments' = comments /\ videoComments' = videoComments
        BY <1>7 DEF Follow, Unfollow
    <2>3. UserIds' = UserIds /\ VideoIds' = VideoIds
        BY <2>2 DEF UserIds, VideoIds
    <2> QED
        BY <2>1, <2>2, <2>3 DEF TypeOK
<1>8. CASE UNCHANGED vars
    BY <1>8 DEF vars, TypeOK, UserIds, VideoIds
<1> QED
    BY <1>1, <1>2, <1>3, <1>4, <1>5, <1>6, <1>7, <1>8 DEF Next

LEMMA StartIsTyped == Init => TypeOK
<1> SUFFICES ASSUME Init PROVE TypeOK
    OBVIOUS
<1>1. VideoIds = {}
    BY EmptySeq DEF Init, VideoIds
<1>2. videoComments \in [VideoIds -> Seq(1 .. Len(comments))]
    BY <1>1 DEF Init
<1>3. userByName \in [Names -> 0 .. Len(users)]
    BY EmptySeq DEF Init
<1>4. userLikes = {} /\ following = {} /\ followers = {}
    BY DEF Init
<1>5. users \in Seq(Names) /\ videos \in Seq(Video) /\ comments \in Seq([video : VideoIds, user : UserIds])
    BY EmptySeq DEF Init
<1> QED
    BY <1>2, <1>3, <1>4, <1>5 DEF TypeOK

\* The tables and indexes stay well typed: no index leads to a row that is not
\* there (store.go:27-43).
THEOREM TypeCorrect == Spec => []TypeOK
    BY StartIsTyped, StepIsTyped, PTL DEF Spec

-----------------------------------------------------------------------------
(* The follow indexes. *)

LEMMA StepKeepsIndexes ==
    ASSUME TypeOK, FollowIndexesAgree, [Next]_vars
    PROVE  FollowIndexesAgree'
<1> DEFINE Mirrored(s, t) == \A u, f : <<u, f>> \in s <=> <<f, u>> \in t
<1>1. Mirrored(following, followers)
    BY DEF TypeOK, FollowIndexesAgree
<1>2. ASSUME NEW u \in UserIds, NEW f \in UserIds, Follow(u, f) \/ Unfollow(u, f)
      PROVE  Mirrored(following', followers')
    <2> SUFFICES ASSUME NEW a, NEW b
                 PROVE  <<a, b>> \in following' <=> <<b, a>> \in followers'
        OBVIOUS
    <2>1. <<a, b>> \in following <=> <<b, a>> \in followers
        BY <1>1
    <2>2. <<a, b>> = <<u, f>> <=> <<b, a>> = <<f, u>>
        OBVIOUS
    <2> QED
        BY <1>2, <2>1, <2>2 DEF Follow, Unfollow
<1>3. \/ following' = following /\ followers' = followers
      \/ \E u, f \in UserIds : Follow(u, f) \/ Unfollow(u, f)
    BY DEF Next, CreateUser, CreateVideo, UpdateVideoStatus, UpdateVideoPlaybackURLs, Like, Unlike,
           AddComment, vars
<1>4. Mirrored(following', followers')
    BY <1>1, <1>2, <1>3
<1> QED
    BY <1>4 DEF FollowIndexesAgree

\* A follows B exactly when B lists A as a follower, after any sequence of calls
\* (store.go:646-730).
THEOREM IndexesAgree == Spec => []FollowIndexesAgree
<1>1. Init => FollowIndexesAgree
    BY DEF Init, FollowIndexesAgree
<1> QED
    BY <1>1, StartIsTyped, StepIsTyped, StepKeepsIndexes, PTL DEF Spec

-----------------------------------------------------------------------------
(* The like counts. *)

LEMMA LikersFinite ==
    ASSUME TypeOK
    PROVE  IsFiniteSet(UserIds) /\ \A v : IsFiniteSet(Likers(v))
<1>1. IsFiniteSet(UserIds)
    BY Counted, FS_Interval DEF UserIds
<1>2. \A v : Likers(v) \in SUBSET UserIds
    BY DEF Likers
<1> QED
    BY <1>1, <1>2, FS_Subset

\* A like or an unlike moves the count of its video with its likers.
LEMMA LikeKeepsCounts ==
    ASSUME TypeOK, LikeCountExact, NEW u \in UserIds, NEW v \in VideoIds, Like(u, v)
    PROVE  LikeCountExact'
<1> DEFINE row == [videos[v] EXCEPT !.likeCount = @ + 1]
<1>1. row \in Video /\ videos' = [videos EXCEPT ![v] = row]
      /\ row.likeCount = videos[v].likeCount + 1
    BY RowOfVideo DEF Like, Video
<1>2. /\ VideoIds' = VideoIds /\ UserIds' = UserIds
      /\ \A w \in VideoIds : videos'[w] = IF w = v THEN row ELSE videos[w]
    BY <1>1, RowChanged DEF Like, UserIds
<1>3. u \notin Likers(v)
    BY DEF Like, Likers, HasLiked
<1>4. \A w \in VideoIds : Likers(w)' = IF w = v THEN Likers(v) \cup {u} ELSE Likers(w)
    BY <1>2 DEF Like, Likers, HasLiked
<1>5. Cardinality(Likers(v) \cup {u}) = Cardinality(Likers(v)) + 1
    BY <1>3, LikersFinite, FS_AddElement
<1> HIDE DEF row
<1> QED
    BY <1>1, <1>2, <1>4, <1>5 DEF LikeCountExact

LEMMA UnlikeKeepsCounts ==
    ASSUME TypeOK, LikeCountExact, NEW u \in UserIds, NEW v \in VideoIds, Unlike(u, v)
    PROVE  LikeCountExact'
<1> DEFINE row == [videos[v] EXCEPT !.likeCount = IF @ > 0 THEN @ - 1 ELSE @]
<1>1. u \in Likers(v)
    BY DEF Unlike, Likers, HasLiked
<1>2. /\ Cardinality(Likers(v)) \in Nat /\ Cardinality(Likers(v)) # 0
      /\ Cardinality(Likers(v) \ {u}) = Cardinality(Likers(v)) - 1
    BY <1>1, LikersFinite, FS_RemoveElement, FS_CardinalityType, FS_EmptySet
<1>3. videos[v].likeCount = Cardinality(Likers(v))
    BY DEF LikeCountExact
<1>4. row \in Video /\ videos' = [videos EXCEPT ![v] = row]
    BY RowOfVideo DEF Unlike, Video
<1>5. row.likeCount = Cardinality(Likers(v) \ {u})
    BY <1>2, <1>3, RowOfVideo DEF Video
<1>6. /\ VideoIds' = VideoIds /\ UserIds' = UserIds
      /\ \A w \in VideoIds : videos'[w] = IF w = v THEN row ELSE videos[w]
    BY <1>4, RowChanged DEF Unlike, UserIds
<1>7. \A w \in VideoIds : Likers(w)' = IF w = v THEN Likers(v) \ {u} ELSE Likers(w)
    BY <1>6 DEF Unlike, Likers, HasLiked
<1> HIDE DEF row
<1> QED
    BY <1>5, <1>6, <1>7 DEF LikeCountExact

\* A new user likes nothing, and no one likes a new video.
LEMMA NewRowsUnliked ==
    ASSUME TypeOK, LikeCountExact,
           \/ \E n \in Names : CreateUser(n)
           \/ \E a \in UserIds, url \in URLs : CreateVideo(a, url)
    PROVE  LikeCountExact'
<1>1. \A p \in userLikes : p[1] \in UserIds /\ p[2] \in VideoIds
    BY DEF TypeOK
<1>2. Len(users) \in Nat /\ Len(videos) \in Nat
    BY Counted
<1>3. CASE \E n \in Names : CreateUser(n)
    <2>1. Len(users') = Len(users) + 1 /\ videos' = videos /\ userLikes' = userLikes
        BY <1>3, AppendProperties DEF CreateUser, TypeOK
    <2>2. \A v \in VideoIds : Likers(v)' = Likers(v)
        BY <1>1, <1>2, <2>1 DEF Likers, HasLiked, UserIds
    <2> QED
        BY <2>1, <2>2 DEF LikeCountExact, VideoIds
<1>4. CASE \E a \in UserIds, url \in URLs : CreateVideo(a, url)
    <2> DEFINE new == Len(videos) + 1
    <2>1. PICK a \in UserIds, url \in URLs : CreateVideo(a, url)
        BY <1>4
    <2>2. PICK row \in Video : row.likeCount = 0 /\ videos' = Append(videos, row)
        <3>1. [author |-> a, playURL |-> url, playURLs |-> {}, status |-> "ready",
               likeCount |-> 0, commentCount |-> 0] \in Video
            BY <1>2 DEF Video, Statuses, UserIds
        <3> QED
            BY <2>1, <3>1 DEF CreateVideo
    <2>3. /\ Len(videos') = new /\ videos'[new].likeCount = 0
          /\ \A v \in VideoIds : videos'[v] = videos[v]
        BY <2>2, AppendProperties DEF TypeOK, VideoIds
    <2>4. userLikes' = userLikes /\ UserIds' = UserIds
        BY <2>1 DEF CreateVideo, UserIds
    <2>5. \A v : Likers(v)' = Likers(v)
        BY <2>4 DEF Likers, HasLiked
    <2>6. new \notin VideoIds /\ VideoIds' = VideoIds \cup {new}
        BY <1>2, <2>3 DEF VideoIds
    <2>7. Likers(new) = {}
        BY <1>1, <2>6 DEF Likers, HasLiked
    <2>8. Cardinality(Likers(new)) = 0
        BY <2>7, FS_EmptySet
    <2> HIDE DEF new
    <2> QED
        BY <2>3, <2>5, <2>6, <2>8 DEF LikeCountExact
<1> QED
    BY <1>3, <1>4

\* A change that leaves likes and like counts alone.
LEMMA OtherRowsKeepCounts ==
    ASSUME TypeOK, LikeCountExact, NEW v \in VideoIds, NEW row \in Video,
           videos' = [videos EXCEPT ![v] = row], row.likeCount = videos[v].likeCount,
           userLikes' = userLikes, users' = users
    PROVE  LikeCountExact'
<1>1. \A w : Likers(w)' = Likers(w)
    BY DEF Likers, HasLiked, UserIds
<1>2. /\ VideoIds' = VideoIds
      /\ \A w \in VideoIds : videos'[w] = IF w = v THEN row ELSE videos[w]
    BY RowChanged
<1>3. \A w \in VideoIds : videos'[w].likeCount = videos[w].likeCount
    BY <1>2
<1>4. \A w \in VideoIds : videos[w].likeCount = Cardinality(Likers(w))
    BY DEF LikeCountExact
<1>5. \A w \in VideoIds' : videos'[w].likeCount = Cardinality(Likers(w)')
    BY <1>1, <1>2, <1>3, <1>4
<1> QED
    BY <1>5 DEF LikeCountExact

LEMMA StepKeepsCounts ==
    ASSUME TypeOK, LikeCountExact, [Next]_vars
    PROVE  LikeCountExact'
<1>1. ASSUME NEW v \in VideoIds, NEW s \in Statuses, UpdateVideoStatus(v, s)
      PROVE  LikeCountExact'
    <2>1. [videos[v] EXCEPT !.status = s] \in Video
        BY RowOfVideo DEF Video
    <2> QED
        BY <1>1, <2>1, RowOfVideo, OtherRowsKeepCounts DEF UpdateVideoStatus, Video
<1>2. ASSUME NEW v \in VideoIds, NEW url \in URLs \cup {""}, NEW qs \in SUBSET Qualities,
             UpdateVideoPlaybackURLs(v, url, qs)
      PROVE  LikeCountExact'
    <2> DEFINE row == [videos[v] EXCEPT !.playURL = IF url = "" THEN @ ELSE url,
                                        !.playURLs = IF qs = {} THEN @ ELSE qs]
    <2>1. row \in Video /\ row.likeCount = videos[v].likeCount
        BY RowOfVideo DEF Video
    <2>2. videos' = [videos EXCEPT ![v] = row]
        BY <1>2 DEF UpdateVideoPlaybackURLs
    <2> HIDE DEF row
    <2> QED
        BY <1>2, <2>1, <2>2, OtherRowsKeepCounts DEF UpdateVideoPlaybackURLs
<1>3. ASSUME NEW u \in UserIds, NEW v \in VideoIds, AddComment(v, u)
      PROVE  LikeCountExact'
    <2> DEFINE row == [videos[v] EXCEPT !.commentCount = @ + 1]
    <2>1. row \in Video /\ row.likeCount = videos[v].likeCount
        BY RowOfVideo DEF Video
    <2>2. videos' = [videos EXCEPT ![v] = row]
        BY <1>3 DEF AddComment
    <2> HIDE DEF row
    <2> QED
        BY <1>3, <2>1, <2>2, OtherRowsKeepCounts DEF AddComment
<1>4. CASE users' = users /\ videos' = videos /\ userLikes' = userLikes
    BY <1>4 DEF LikeCountExact, Likers, HasLiked, UserIds, VideoIds
<1>5. \/ users' = users /\ videos' = videos /\ userLikes' = userLikes
      \/ \E n \in Names : CreateUser(n)
      \/ \E a \in UserIds, url \in URLs : CreateVideo(a, url)
      \/ \E v \in VideoIds, s \in Statuses : UpdateVideoStatus(v, s)
      \/ \E v \in VideoIds, url \in URLs \cup {""}, qs \in SUBSET Qualities :
            UpdateVideoPlaybackURLs(v, url, qs)
      \/ \E u \in UserIds, v \in VideoIds : Like(u, v) \/ Unlike(u, v) \/ AddComment(v, u)
    BY DEF Next, Follow, Unfollow, vars
<1> QED
    BY <1>1, <1>2, <1>3, <1>4, <1>5, LikeKeepsCounts, UnlikeKeepsCounts, NewRowsUnliked

\* The like count of a video is the number of its likers after any sequence of
\* calls, so that Unlike never meets the zero it guards against (store.go:458-506).
THEOREM LikesCounted == Spec => []LikeCountExact
<1>1. Init => LikeCountExact
    BY EmptySeq DEF Init, LikeCountExact, VideoIds
<1> QED
    BY <1>1, StartIsTyped, StepIsTyped, StepKeepsCounts, PTL DEF Spec

-----------------------------------------------------------------------------
(* The comment lists. *)

Increasing(s) == \A i, j \in 1 .. Len(s) : i < j => s[i] < s[j]
Listed(s, c) == \E i \in 1 .. Len(s) : s[i] = c

\* A number greater than those of an increasing list, put at its end.
LEMMA ListExtended ==
    ASSUME NEW n \in Nat, NEW old \in Seq(1 .. n), NEW new, new = Append(old, n + 1),
           Increasing(old)
    PROVE  /\ Len(new) = Len(old) + 1 /\ Increasing(new)
           /\ \A c \in 1 .. n : Listed(new, c) <=> Listed(old, c)
           /\ Listed(new, n + 1)
<1>1. PICK k \in Nat : k = Len(old)
    BY LenProperties
<1>2. \A i \in 1 .. k : old[i] \in 1 .. n
    BY <1>1, ElementOfSeq
<1>3. Len(new) = k + 1 /\ new[k + 1] = n + 1 /\ \A i \in 1 .. k : new[i] = old[i]
    <2>1. 1 .. n \subseteq Nat /\ n + 1 \in Nat
        OBVIOUS
    <2>2. old \in Seq(Nat)
        BY <2>1, SeqMonotonic
    <2> QED
        BY <1>1, <2>1, <2>2, AppendProperties
<1>4. \A i \in 1 .. k + 1 : i \in 1 .. k \/ i = k + 1
    OBVIOUS
<1>5. \A i, j \in 1 .. k + 1 : i < j => new[i] < new[j]
    <2> SUFFICES ASSUME NEW i \in 1 .. k + 1, NEW j \in 1 .. k + 1, i < j
                 PROVE  new[i] < new[j]
        OBVIOUS
    <2>1. i \in 1 .. k /\ new[i] = old[i] /\ old[i] \in 1 .. n
        BY <1>2, <1>3
    <2>2. CASE j = k + 1
        BY <1>3, <2>1, <2>2
    <2>3. CASE j \in 1 .. k
        BY <1>1, <1>3, <2>1, <2>3 DEF Increasing
    <2> QED
        BY <1>4, <2>2, <2>3
<1>6. \A c \in 1 .. n : (\E i \in 1 .. k + 1 : new[i] = c) <=> \E i \in 1 .. k : old[i] = c
    <2>1. \A c \in 1 .. n : c # n + 1
        OBVIOUS
    <2>2. \A i \in 1 .. k : i \in 1 .. k + 1
        OBVIOUS
    <2> QED
        BY <1>3, <1>4, <2>1, <2>2
<1>7. k + 1 \in 1 .. k + 1
    OBVIOUS
<1> QED
    BY <1>1, <1>2, <1>3, <1>5, <1>6, <1>7 DEF Increasing, Listed

\* A comment goes to the end of its video's list, and to no other.
LEMMA AddCommentIndexes ==
    ASSUME TypeOK, CommentsIndexed, NEW u \in UserIds, NEW v \in VideoIds, AddComment(v, u)
    PROVE  CommentsIndexed'
<1> DEFINE row == [videos[v] EXCEPT !.commentCount = @ + 1]
           comment == [video |-> v, user |-> u]
<1>1. PICK n \in Nat : n = Len(comments)
    BY Counted
<1>2. row \in Video /\ videos' = [videos EXCEPT ![v] = row]
      /\ row.commentCount = videos[v].commentCount + 1
    <2>1. videos[v] \in Video
        BY RowOfVideo
    <2>2. row \in Video /\ row.commentCount = videos[v].commentCount + 1
        BY <2>1 DEF Video
    <2>3. videos' = [videos EXCEPT ![v] = row]
        BY DEF AddComment
    <2> QED
        BY <2>2, <2>3
<1>3. /\ VideoIds' = VideoIds
      /\ \A w \in VideoIds : videos'[w] = IF w = v THEN row ELSE videos[w]
    BY <1>2, RowChanged
<1>4. /\ Len(comments') = n + 1 /\ comments'[n + 1].video = v
      /\ \A c \in 1 .. n : comments'[c] = comments[c]
    <2>1. comments \in Seq([video : VideoIds, user : UserIds])
          /\ comment \in [video : VideoIds, user : UserIds]
        BY DEF TypeOK
    <2> QED
        BY <1>1, <2>1, AppendProperties DEF AddComment
<1>5. /\ \A w \in VideoIds : videoComments[w] \in Seq(1 .. n)
      /\ videoComments' = [videoComments EXCEPT ![v] = Append(videoComments[v], n + 1)]
      /\ videoComments \in [VideoIds -> Seq(1 .. n)]
    BY <1>1 DEF TypeOK, AddComment
<1>6. ASSUME NEW w \in VideoIds
      PROVE  /\ videos'[w].commentCount = Len(videoComments'[w])
             /\ Increasing(videoComments'[w])
             /\ \A c \in 1 .. n + 1 : comments'[c].video = w <=> Listed(videoComments'[w], c)
    <2>1. PICK old \in Seq(1 .. n) : old = videoComments[w]
        BY <1>5
    <2>2. /\ videos[w].commentCount = Len(old) /\ Increasing(old)
          /\ \A c \in 1 .. n : comments[c].video = w <=> Listed(old, c)
        BY <1>1, <2>1 DEF CommentsIndexed, Increasing, Listed
    <2>3. Len(old) \in Nat /\ \A i \in 1 .. Len(old) : old[i] \in 1 .. n
        BY LenProperties, ElementOfSeq
    <2>4. CASE w = v
        <3>1. PICK new : new = Append(old, n + 1)
            OBVIOUS
        <3>2. videoComments'[w] = new /\ videos'[w].commentCount = Len(old) + 1
            BY <1>2, <1>3, <1>5, <2>1, <2>2, <2>4, <3>1
        <3>3. /\ Len(new) = Len(old) + 1 /\ Increasing(new)
              /\ \A c \in 1 .. n : Listed(new, c) <=> Listed(old, c)
              /\ Listed(new, n + 1)
            <4>1. Increasing(old)
                BY <2>2
            <4>2. \A s : s = Append(old, n + 1) =>
                      /\ Len(s) = Len(old) + 1 /\ Increasing(s)
                      /\ \A c \in 1 .. n : Listed(s, c) <=> Listed(old, c)
                      /\ Listed(s, n + 1)
                BY <4>1, ListExtended
            <4> QED
                BY <3>1, <4>2
        <3>4. ASSUME NEW c \in 1 .. n + 1
              PROVE  comments'[c].video = w <=> Listed(new, c)
            <4>1. CASE c = n + 1
                BY <1>4, <2>4, <3>3, <4>1
            <4>2. CASE c \in 1 .. n
                BY <1>4, <2>2, <3>3, <4>2
            <4> QED
                BY <4>1, <4>2
        <3> QED
            BY <3>2, <3>3, <3>4
    <2>5. CASE w # v
        <3>1. videoComments'[w] = old /\ videos'[w] = videos[w]
            BY <1>3, <1>5, <2>1, <2>5
        <3>2. ~ Listed(old, n + 1)
            BY <2>3 DEF Listed
        <3>3. ASSUME NEW c \in 1 .. n + 1
              PROVE  comments'[c].video = w <=> Listed(old, c)
            <4>1. CASE c = n + 1
                BY <1>4, <2>5, <3>2, <4>1
            <4>2. CASE c \in 1 .. n
                BY <1>4, <2>2, <4>2
            <4> QED
                BY <4>1, <4>2
        <3> QED
            BY <2>2, <3>1, <3>3
    <2> QED
        BY <2>4, <2>5
<1> QED
    BY <1>3, <1>4, <1>6 DEF CommentsIndexed, Increasing, Listed

\* A new video has no comments yet.
LEMMA CreateVideoIndexes ==
    ASSUME TypeOK, CommentsIndexed, NEW a \in UserIds, NEW url \in URLs, CreateVideo(a, url)
    PROVE  CommentsIndexed'
<1> DEFINE new == Len(videos) + 1
           ids == 1 .. Len(comments)
<1>1. PICK row \in Video : row.commentCount = 0 /\ videos' = Append(videos, row)
    <2>1. [author |-> a, playURL |-> url, playURLs |-> {}, status |-> "ready",
           likeCount |-> 0, commentCount |-> 0] \in Video
        BY Counted DEF Video, Statuses, UserIds
    <2> QED
        BY <2>1 DEF CreateVideo
<1>2. /\ Len(videos') = new /\ videos'[new].commentCount = 0
      /\ \A v \in VideoIds : videos'[v] = videos[v]
    BY <1>1, AppendProperties DEF TypeOK, VideoIds
<1>3. videoComments \in [1 .. Len(videos) -> Seq(ids)] /\ <<>> \in Seq(ids)
    BY EmptySeq DEF TypeOK, VideoIds
<1>4. videoComments \in Seq(Seq(ids)) /\ Len(videoComments) = Len(videos)
    <2> HIDE DEF ids
    <2> QED
        BY <1>3, Counted, FunctionIsSequence
<1>5. /\ videoComments'[new] = <<>>
      /\ \A v \in VideoIds : videoComments'[v] = videoComments[v]
    <2> HIDE DEF ids
    <2> QED
        BY <1>3, <1>4, AppendProperties DEF CreateVideo, VideoIds
<1>6. comments' = comments /\ \A c \in 1 .. Len(comments) : comments[c].video \in VideoIds
    <2>1. comments \in Seq([video : VideoIds, user : UserIds])
        BY DEF TypeOK
    <2>2. \A c \in 1 .. Len(comments) : comments[c] \in [video : VideoIds, user : UserIds]
        BY <2>1, ElementOfSeq
    <2> QED
        BY <2>2 DEF CreateVideo
<1>7. new \notin VideoIds /\ VideoIds' = VideoIds \cup {new}
    BY <1>2, Counted DEF VideoIds
<1>8. Len(<<>>) = 0
    BY EmptySeq
<1> HIDE DEF new
<1>9. \A v \in VideoIds :
        /\ videos'[v].commentCount = Len(videoComments'[v])
        /\ \A i, j \in 1 .. Len(videoComments'[v]) :
              i < j => videoComments'[v][i] < videoComments'[v][j]
        /\ \A c \in 1 .. Len(comments') :
              comments'[c].video = v
                  <=> \E i \in 1 .. Len(videoComments'[v]) : videoComments'[v][i] = c
    <2>1. \A v \in VideoIds :
            videos'[v] = videos[v] /\ videoComments'[v] = videoComments[v]
        BY <1>2, <1>5
    <2> QED
        BY <1>6, <2>1 DEF CommentsIndexed
<1>10. /\ videos'[new].commentCount = Len(videoComments'[new])
       /\ \A i, j \in 1 .. Len(videoComments'[new]) :
             i < j => videoComments'[new][i] < videoComments'[new][j]
       /\ \A c \in 1 .. Len(comments') :
             comments'[c].video = new
                 <=> \E i \in 1 .. Len(videoComments'[new]) : videoComments'[new][i] = c
    BY <1>2, <1>5, <1>6, <1>7, <1>8
<1> QED
    <2> SUFFICES ASSUME NEW v \in VideoIds'
                 PROVE  /\ videos'[v].commentCount = Len(videoComments'[v])
                        /\ \A i, j \in 1 .. Len(videoComments'[v]) :
                              i < j => videoComments'[v][i] < videoComments'[v][j]
                        /\ \A c \in 1 .. Len(comments') :
                              comments'[c].video = v
                                  <=> \E i \in 1 .. Len(videoComments'[v]) : videoComments'[v][i] = c
        BY DEF CommentsIndexed
    <2>1. CASE v \in VideoIds
        BY <1>9, <2>1
    <2>2. CASE v = new
        BY <1>10, <2>2
    <2> QED
        BY <1>7, <2>1, <2>2

\* A change of a row that leaves the number of comments alone.
LEMMA OtherRowsKeepLists ==
    ASSUME TypeOK, CommentsIndexed, NEW v \in VideoIds, NEW row \in Video,
           videos' = [videos EXCEPT ![v] = row], row.commentCount = videos[v].commentCount,
           comments' = comments, videoComments' = videoComments
    PROVE  CommentsIndexed'
<1>1. /\ VideoIds' = VideoIds
      /\ \A w \in VideoIds : videos'[w] = IF w = v THEN row ELSE videos[w]
    BY RowChanged
<1>2. \A w \in VideoIds : videos'[w].commentCount = videos[w].commentCount
    BY <1>1
<1> QED
    BY <1>1, <1>2 DEF CommentsIndexed

LEMMA StepKeepsLists ==
    ASSUME TypeOK, CommentsIndexed, [Next]_vars
    PROVE  CommentsIndexed'
<1>1. ASSUME NEW v \in VideoIds, NEW s \in Statuses, UpdateVideoStatus(v, s)
      PROVE  CommentsIndexed'
    <2>1. [videos[v] EXCEPT !.status = s] \in Video
        BY RowOfVideo DEF Video
    <2> QED
        BY <1>1, <2>1, RowOfVideo, OtherRowsKeepLists DEF UpdateVideoStatus, Video
<1>2. ASSUME NEW v \in VideoIds, NEW url \in URLs \cup {""}, NEW qs \in SUBSET Qualities,
             UpdateVideoPlaybackURLs(v, url, qs)
      PROVE  CommentsIndexed'
    <2> DEFINE row == [videos[v] EXCEPT !.playURL = IF url = "" THEN @ ELSE url,
                                        !.playURLs = IF qs = {} THEN @ ELSE qs]
    <2>1. row \in Video /\ row.commentCount = videos[v].commentCount
        BY RowOfVideo DEF Video
    <2>2. videos' = [videos EXCEPT ![v] = row]
        BY <1>2 DEF UpdateVideoPlaybackURLs
    <2> HIDE DEF row
    <2> QED
        BY <1>2, <2>1, <2>2, OtherRowsKeepLists DEF UpdateVideoPlaybackURLs
<1>3. ASSUME NEW u \in UserIds, NEW v \in VideoIds, Like(u, v) \/ Unlike(u, v)
      PROVE  CommentsIndexed'
    <2>1. PICK row \in Video :
              row.commentCount = videos[v].commentCount /\ videos' = [videos EXCEPT ![v] = row]
        <3>1. CASE Like(u, v)
            <4> DEFINE row == [videos[v] EXCEPT !.likeCount = @ + 1]
            <4>1. row \in Video /\ row.commentCount = videos[v].commentCount
                BY RowOfVideo DEF Video
            <4> QED
                BY <3>1, <4>1 DEF Like
        <3>2. CASE Unlike(u, v)
            <4> DEFINE row == [videos[v] EXCEPT !.likeCount = IF @ > 0 THEN @ - 1 ELSE @]
            <4>1. row \in Video /\ row.commentCount = videos[v].commentCount
                BY RowOfVideo DEF Video
            <4> QED
                BY <3>2, <4>1 DEF Unlike
        <3> QED
            BY <1>3, <3>1, <3>2
    <2> QED
        BY <1>3, <2>1, OtherRowsKeepLists DEF Like, Unlike
<1>4. CASE videos' = videos /\ comments' = comments /\ videoComments' = videoComments
    BY <1>4 DEF CommentsIndexed, VideoIds
<1>5. \/ videos' = videos /\ comments' = comments /\ videoComments' = videoComments
      \/ \E a \in UserIds, url \in URLs : CreateVideo(a, url)
      \/ \E v \in VideoIds, s \in Statuses : UpdateVideoStatus(v, s)
      \/ \E v \in VideoIds, url \in URLs \cup {""}, qs \in SUBSET Qualities :
            UpdateVideoPlaybackURLs(v, url, qs)
      \/ \E u \in UserIds, v \in VideoIds : Like(u, v) \/ Unlike(u, v) \/ AddComment(v, u)
    BY DEF Next, CreateUser, Follow, Unfollow, vars
<1> QED
    BY <1>1, <1>2, <1>3, <1>4, <1>5, AddCommentIndexes, CreateVideoIndexes

\* A video's list holds the ids of its comments, once each and in order, and its
\* count is their number (store.go:538-602).
THEOREM CommentListsHold == Spec => []CommentsIndexed
<1>1. Init => CommentsIndexed
    BY EmptySeq DEF Init, CommentsIndexed, VideoIds
<1> QED
    BY <1>1, StartIsTyped, StepIsTyped, StepKeepsLists, PTL DEF Spec

-----------------------------------------------------------------------------
(* Paging: finite sets of ids and the ranks of their members. *)

\* The members of S greater than v: as many as the rank of v.
Above(S, v) == {w \in S : w > v}

Bounded(S) == S \in SUBSET Nat /\ \E n \in Nat : \A s \in S : s <= n

\* A set of naturals that is not empty has a least member.
LEMMA LeastExists ==
    ASSUME NEW S \in SUBSET Nat, S # {}
    PROVE  \E x \in S : \A y \in S : x <= y
<1>1. PICK x \in S : \A y \in S : ~(<<y, x>> \in OpToRel(<, Nat))
    BY NatLessThanWellFounded, WFMin
<1>2. ASSUME NEW y \in S PROVE x <= y
    <2>1. y \in Nat /\ x \in Nat
        OBVIOUS
    <2>2. ~(y < x)
        BY <1>1, <2>1, Zenon DEF OpToRel
    <2> QED
        BY <2>1, <2>2
<1> QED
    BY <1>2

LEMMA GreatestExists ==
    ASSUME NEW S, Bounded(S), S # {}
    PROVE  \E v \in S : \A w \in S : w <= v
<1>1. PICK n \in Nat : \A s \in S : s <= n
    BY DEF Bounded
<1>2. \A s \in S : s \in Nat /\ n - s \in Nat
    BY <1>1 DEF Bounded
<1> DEFINE ages == {n - v : v \in S}
<1>3. ages \in SUBSET Nat /\ ages # {}
    BY <1>2
<1> HIDE DEF ages
<1>4. PICK a \in ages : \A b \in ages : a <= b
    BY <1>3, LeastExists
<1>5. PICK v \in S : a = n - v
    BY DEF ages
<1>6. ASSUME NEW w \in S PROVE w <= v
    <2>1. n - w \in ages
        BY DEF ages
    <2> QED
        BY <1>2, <1>4, <1>5, <2>1
<1> QED
    BY <1>6

LEMMA PartsAreFinite ==
    ASSUME NEW S, Bounded(S)
    PROVE  /\ IsFiniteSet(S) /\ Cardinality(S) \in Nat
           /\ \A T \in SUBSET S : /\ Bounded(T) /\ IsFiniteSet(T)
                                  /\ Cardinality(T) \in Nat /\ Cardinality(T) <= Cardinality(S)
           /\ Cardinality(S) = 0 => S = {}
<1>1. IsFiniteSet(S)
    BY FS_BoundedSetOfNaturals DEF Bounded
<1>2. ASSUME NEW T \in SUBSET S
      PROVE  /\ Bounded(T) /\ IsFiniteSet(T)
             /\ Cardinality(T) \in Nat /\ Cardinality(T) <= Cardinality(S)
    <2>1. Bounded(T)
        BY DEF Bounded
    <2> QED
        BY <1>1, <2>1, FS_Subset, FS_CardinalityType
<1> QED
    BY <1>1, <1>2, FS_CardinalityType, FS_EmptySet

\* A member and what is above it: one more than its rank.
LEMMA OneMoreThanRank ==
    ASSUME NEW S, Bounded(S), NEW v \in S
    PROVE  /\ Above(S, v) \cup {v} \in SUBSET S /\ Above(S, v) \in SUBSET S
           /\ Cardinality(Above(S, v)) \in Nat
           /\ Cardinality(Above(S, v) \cup {v}) = Cardinality(Above(S, v)) + 1
<1>1. Above(S, v) \in SUBSET S /\ v \notin Above(S, v)
    <2>1. v \in Nat
        BY DEF Bounded
    <2> QED
        BY <2>1 DEF Above
<1>2. IsFiniteSet(Above(S, v)) /\ Cardinality(Above(S, v)) \in Nat
    BY <1>1, PartsAreFinite
<1> QED
    BY <1>1, <1>2, FS_AddElement

\* The greater member has the smaller rank.
LEMMA RanksDiffer ==
    ASSUME NEW S, Bounded(S), NEW v \in S, NEW w \in S, v < w
    PROVE  Cardinality(Above(S, w)) < Cardinality(Above(S, v))
<1>1. Above(S, w) \cup {w} \in SUBSET Above(S, v)
    <2>1. v \in Nat /\ w \in Nat /\ \A x \in S : x \in Nat
        BY DEF Bounded
    <2>2. \A x \in S : x > w => x > v
        BY <2>1
    <2> QED
        BY <2>1, <2>2 DEF Above
<1>2. Above(S, v) \in SUBSET S
    BY DEF Above
<1>3. Cardinality(Above(S, w) \cup {w}) <= Cardinality(Above(S, v))
    BY <1>1, <1>2, PartsAreFinite
<1>4. /\ Cardinality(Above(S, w) \cup {w}) = Cardinality(Above(S, w)) + 1
      /\ Cardinality(Above(S, w)) \in Nat /\ Cardinality(Above(S, v)) \in Nat
    BY OneMoreThanRank
<1> QED
    BY <1>3, <1>4

\* Every rank below the number of members is some member's.
LEMMA RankExists ==
    ASSUME NEW S, Bounded(S), NEW r \in Nat, r < Cardinality(S)
    PROVE  \E v \in S : Cardinality(Above(S, v)) = r
<1> DEFINE Missing == {k \in Nat : k < Cardinality(S) /\ \A v \in S : Cardinality(Above(S, v)) # k}
<1>0. IsFiniteSet(S) /\ Cardinality(S) \in Nat /\ \A w \in S : w \in Nat
    BY PartsAreFinite DEF Bounded
<1>1. \A k \in Missing : k \in Nat /\ k < Cardinality(S) /\ \A v \in S : Cardinality(Above(S, v)) # k
    OBVIOUS
<1>2. \A k \in Nat : k < Cardinality(S) => k \in Missing \/ \E v \in S : Cardinality(Above(S, v)) = k
    OBVIOUS
<1> HIDE DEF Missing
<1>3. ASSUME Missing # {} PROVE FALSE
    <2>1. PICK k \in Missing : \A y \in Missing : k <= y
        <3>1. Missing \in SUBSET Nat
            BY <1>1
        <3> QED
            BY <1>3, <3>1, LeastExists
    <2>2. k \in Nat /\ k < Cardinality(S) /\ \A v \in S : Cardinality(Above(S, v)) # k
        BY <1>1
    <2>3. CASE k = 0
        <3>1. S # {}
            BY <1>0, <2>2, FS_EmptySet
        <3>2. PICK v \in S : \A w \in S : w <= v
            BY <3>1, GreatestExists
        <3>3. \A w \in S : ~(w > v)
            BY <1>0, <3>2
        <3>4. Above(S, v) = {}
            BY <3>3 DEF Above
        <3> QED
            BY <2>2, <2>3, <3>4, FS_EmptySet
    <2>4. CASE k # 0
        <3>1. k - 1 \in Nat /\ k - 1 < Cardinality(S) /\ ~(k <= k - 1)
            BY <1>0, <2>2, <2>4
        <3>2. PICK v \in S : Cardinality(Above(S, v)) = k - 1
            BY <1>2, <2>1, <3>1
        <3>3. PICK T : T = Above(S, v) \cup {v}
            OBVIOUS
        <3>4. T \in SUBSET S /\ Cardinality(T) = Cardinality(Above(S, v)) + 1
            BY <3>3, OneMoreThanRank
        <3>5. Cardinality(T) = k
            BY <2>2, <3>2, <3>4
        <3>6. S \ T # {} /\ S \ T \in SUBSET S
            BY <1>0, <2>2, <3>4, <3>5
        <3>7. PICK x \in S \ T : \A w \in S \ T : w <= x
            BY <3>6, GreatestExists, PartsAreFinite
        <3>8. x <= v /\ x # v
            BY <1>0, <3>3, <3>7 DEF Above
        <3>9. \A w \in S : w > x <=> w \in T
            BY <1>0, <3>3, <3>7, <3>8 DEF Above
        <3>10. Above(S, x) = T
            BY <3>4, <3>9 DEF Above
        <3> QED
            BY <2>2, <3>5, <3>7, <3>10
    <2> QED
        BY <2>3, <2>4
<1> QED
    BY <1>2, <1>3

-----------------------------------------------------------------------------
(* One page. *)

Found(l, maxID) == {v \in InList(l) : maxID = 0 \/ v < maxID}

\* A page is the newest of what was found: newest first, nothing left out above its last
\* row, and empty only when nothing was found.
IsPage(p, found) ==
    /\ p \in Seq(found) /\ Len(p) \in Nat
    /\ \A i, j \in 1 .. Len(p) : i < j => p[i] > p[j]
    /\ Len(p) # 0 => \A v \in found : v >= p[Len(p)] => \E i \in 1 .. Len(p) : p[i] = v

LEMMA RankedIsPage ==
    ASSUME NEW found, Bounded(found), NEW k \in Nat, NEW p \in [1 .. k -> found],
           \A i \in 1 .. k : Cardinality(Above(found, p[i])) = i - 1
    PROVE  IsPage(p, found) /\ Len(p) = k
<1>1. p \in Seq(found) /\ Len(p) = k
    BY FunctionIsSequence
<1>2. \A v \in found : v \in Nat /\ Cardinality(Above(found, v)) \in Nat
    BY OneMoreThanRank DEF Bounded
<1>3. \A v, w \in found : v < w => Cardinality(Above(found, w)) < Cardinality(Above(found, v))
    BY RanksDiffer
<1>4. ASSUME NEW i \in 1 .. k, NEW j \in 1 .. k, i < j PROVE p[i] > p[j]
    <2>1. PICK v \in found, w \in found : v = p[i] /\ w = p[j]
        OBVIOUS
    <2>2. Cardinality(Above(found, v)) < Cardinality(Above(found, w))
        BY <1>4, <2>1
    <2>3. v # w /\ ~(v < w)
        BY <1>2, <1>3, <2>2
    <2> QED
        BY <1>2, <2>1, <2>3
<1>5. ASSUME NEW v \in found, k # 0, v >= p[k] PROVE \E i \in 1 .. k : p[i] = v
    <2>1. PICK w \in found : w = p[k]
        BY <1>5
    <2>2. Cardinality(Above(found, w)) = k - 1
        BY <1>5, <2>1
    <2>3. Cardinality(Above(found, v)) <= k - 1
        <3>1. v = w \/ w < v
            BY <1>2, <1>5, <2>1
        <3> QED
            BY <1>2, <1>3, <2>2, <3>1
    <2>4. PICK i \in 1 .. k : i = Cardinality(Above(found, v)) + 1
        BY <1>2, <2>3
    <2>5. PICK x \in found : x = p[i]
        OBVIOUS
    <2>6. Cardinality(Above(found, x)) = Cardinality(Above(found, v))
        BY <1>2, <2>4, <2>5
    <2>7. ~(x < v) /\ ~(v < x)
        BY <1>2, <1>3, <2>6
    <2>8. x = v
        BY <1>2, <2>7
    <2> QED
        BY <2>5, <2>8
<1> QED
    BY <1>1, <1>4, <1>5 DEF IsPage

LEMMA PageFound ==
    ASSUME TypeOK, NEW l, NEW maxID \in Nat, NEW limit \in Int
    PROVE  /\ Bounded(Found(l, maxID)) /\ Found(l, maxID) \subseteq VideoIds
           /\ IsPage(Page(l, maxID, limit), Found(l, maxID))
           /\ Len(Page(l, maxID, limit)) = 0 => Found(l, maxID) = {}
<1> DEFINE found == Found(l, maxID)
           k == IF Cardinality(found) < clampLimit(limit) THEN Cardinality(found) ELSE clampLimit(limit)
           p == Page(l, maxID, limit)
<1>1. Bounded(found) /\ found \subseteq VideoIds
    <2>1. found \subseteq VideoIds
        BY DEF Found, InList
    <2>2. Len(videos) \in Nat /\ \A v \in VideoIds : v \in Nat /\ v <= Len(videos)
        BY Counted DEF VideoIds
    <2> HIDE DEF found
    <2> QED
        BY <2>1, <2>2 DEF Bounded
<1>2. p = [i \in 1 .. k |-> CHOOSE v \in found : Cardinality(Above(found, v)) = i - 1]
    BY DEF Page, Found, Above
<1>3. clampLimit(limit) \in Nat \ {0}
    BY FeedAssumption DEF clampLimit
<1> HIDE DEF found, p
<1>4. Cardinality(found) \in Nat /\ (Cardinality(found) = 0 => found = {})
    BY <1>1, PartsAreFinite
<1>5. k \in Nat /\ k <= Cardinality(found) /\ (k = 0 => Cardinality(found) = 0)
    BY <1>3, <1>4
<1> HIDE DEF k
<1>6. \A i \in 1 .. k : i - 1 \in Nat /\ i - 1 < Cardinality(found)
    BY <1>4, <1>5
<1>7. \A i \in 1 .. k : \E v \in found : Cardinality(Above(found, v)) = i - 1
    BY <1>1, <1>6, RankExists
<1>8. \A i \in 1 .. k : p[i] \in found /\ Cardinality(Above(found, p[i])) = i - 1
    BY <1>2, <1>7
<1>9. p \in [1 .. k -> found]
    BY <1>2, <1>8
<1>10. IsPage(p, found) /\ Len(p) = k
    BY <1>1, <1>5, <1>8, <1>9, RankedIsPage
<1> QED
    BY <1>1, <1>4, <1>5, <1>10 DEF found, p

\* A page cut short is still the newest of what was found.
LEMMA CutPageIsPage ==
    ASSUME NEW found \in SUBSET Nat, NEW p, IsPage(p, found), NEW k \in Nat, k < Len(p)
    PROVE  IsPage(SubSeq(p, 1, k), found) /\ Len(SubSeq(p, 1, k)) = k
<1> DEFINE q == SubSeq(p, 1, k)
<1>1. p \in Seq(found) /\ Len(p) \in Nat /\ \A i \in 1 .. Len(p) : p[i] \in found
    BY ElementOfSeq DEF IsPage
<1>2. q \in Seq(found) /\ Len(q) = k /\ \A i \in 1 .. k : q[i] = p[i]
    BY <1>1, SubSeqProperties
<1> HIDE DEF q
<1>3. \A i, j \in 1 .. k : i < j => q[i] > q[j]
    BY <1>2 DEF IsPage
<1>4. ASSUME NEW v \in found, k # 0, v >= q[k] PROVE \E i \in 1 .. k : q[i] = v
    <2>1. p[k] > p[Len(p)] /\ q[k] = p[k] /\ p[k] \in found /\ p[Len(p)] \in found /\ Len(p) # 0
        BY <1>1, <1>2, <1>4 DEF IsPage
    <2>2. v \in Nat /\ p[k] \in Nat /\ p[Len(p)] \in Nat /\ v >= p[Len(p)]
        <3>1. v \in Nat /\ p[k] \in Nat /\ p[Len(p)] \in Nat
            BY <2>1
        <3> QED
            BY <1>4, <2>1, <3>1
    <2>3. PICK i \in 1 .. Len(p) : p[i] = v
        BY <2>1, <2>2 DEF IsPage
    <2>4. i <= k
        <3>1. ASSUME k < i PROVE FALSE
            <4>1. p[k] > v
                BY <1>1, <1>4, <2>3, <3>1 DEF IsPage
            <4> QED
                BY <1>4, <2>1, <2>2, <4>1
        <3> QED
            BY <1>1, <3>1
    <2> QED
        BY <1>2, <2>3, <2>4
<1> QED
    BY <1>2, <1>3, <1>4 DEF IsPage, q

-----------------------------------------------------------------------------
(* Every request and every change of the store keeps the client's types. *)

LEMMA StoreStepGrows ==
    ASSUME FeedTypeOK, StoreStep
    PROVE  /\ [Next]_vars /\ TypeOK /\ TypeOK'
           /\ Len(users) \in Nat /\ Len(users') \in Nat /\ Len(users) <= Len(users')
           /\ Len(videos) \in Nat /\ Len(videos') \in Nat /\ Len(videos) <= Len(videos')
<1>1. [Next]_vars
    BY DEF StoreStep, Next
<1>2. TypeOK /\ TypeOK'
    BY <1>1, StepIsTyped DEF FeedTypeOK
<1>3. /\ Len(users) \in Nat /\ Len(users') \in Nat /\ Len(videos) \in Nat /\ Len(videos') \in Nat
    BY <1>2, LenProperties DEF TypeOK
<1>4. ASSUME NEW n \in Names, CreateUser(n)
      PROVE  Len(users) <= Len(users') /\ Len(videos) <= Len(videos')
    <2>1. Len(users') = Len(users) + 1 /\ videos' = videos
        BY <1>2, <1>4, AppendProperties DEF CreateUser, TypeOK
    <2> QED
        BY <1>3, <2>1
<1>5. ASSUME NEW a \in UserIds, NEW url \in URLs, CreateVideo(a, url)
      PROVE  Len(users) <= Len(users') /\ Len(videos) <= Len(videos')
    <2>1. [author |-> a, playURL |-> url, playURLs |-> {}, status |-> "ready",
           likeCount |-> 0, commentCount |-> 0] \in Video
        BY <1>3 DEF UserIds, Video, Statuses
    <2>2. PICK row \in Video : videos' = Append(videos, row)
        BY <1>5, <2>1 DEF CreateVideo
    <2>3. Len(videos') = Len(videos) + 1 /\ users' = users
        BY <1>2, <1>5, <2>2, AppendProperties DEF CreateVideo, TypeOK
    <2> QED
        BY <1>3, <2>3
<1>6. ASSUME NEW u \in UserIds, NEW f \in UserIds, Follow(u, f) \/ Unfollow(u, f)
      PROVE  Len(users) <= Len(users') /\ Len(videos) <= Len(videos')
    BY <1>3, <1>6 DEF Follow, Unfollow
<1> QED
    BY <1>1, <1>2, <1>3, <1>4, <1>5, <1>6 DEF StoreStep

LEMMA StoreStepFeedTyped ==
    ASSUME FeedTypeOK, StoreStep
    PROVE  FeedTypeOK' /\ VideoIds \subseteq VideoIds'
<1>1. VideoIds \subseteq VideoIds' /\ UserIds \subseteq UserIds' /\ TypeOK'
    BY StoreStepGrows DEF VideoIds, UserIds
<1>2. Lists \subseteq Lists'
    BY <1>1 DEF Lists
<1>3. cursor' \in 0 .. Len(videos')
    BY StoreStepGrows DEF FeedTypeOK, StoreStep
<1>4. seen' \in Seq(VideoIds')
    <2>1. seen' = seen /\ seen \in Seq(VideoIds)
        BY DEF FeedTypeOK, StoreStep
    <2> QED
        BY <1>1, <2>1, SeqMonotonic
<1>5. /\ list' \in Lists' \cup {[kind |-> "none", of |-> 0]}
      /\ steady' \subseteq VideoIds' /\ atEnd' \in BOOLEAN /\ emptied' \in BOOLEAN
    BY <1>1, <1>2 DEF FeedTypeOK, StoreStep
<1> QED
    BY <1>1, <1>3, <1>4, <1>5 DEF FeedTypeOK

LEMMA PageIsTyped ==
    ASSUME FeedTypeOK, NEW page, IsPage(page, Found(list, cursor))
    PROVE  /\ page \in Seq(VideoIds) /\ Len(page) \in Nat /\ seen \o page \in Seq(VideoIds)
           /\ Len(page) = 0 <=> page = << >>
           /\ \A i \in 1 .. Len(page) : page[i] \in Found(list, cursor) /\ page[i] \in VideoIds
           /\ \A v \in VideoIds : v \in Nat \ {0} /\ v <= Len(videos)
           /\ Len(seen) \in Nat /\ Len(videos) \in Nat /\ cursor \in Nat
           /\ \A i \in 1 .. Len(seen) : seen[i] \in VideoIds
           /\ Len(seen) = 0 <=> seen = << >>
           /\ Len(seen \o page) = Len(seen) + Len(page)
           /\ \A i \in 1 .. Len(seen) + Len(page) :
                 (seen \o page)[i] = IF i <= Len(seen) THEN seen[i] ELSE page[i - Len(seen)]
<1>1. Found(list, cursor) \subseteq VideoIds
    BY DEF Found, InList
<1>2. page \in Seq(Found(list, cursor)) /\ Len(page) \in Nat
    BY DEF IsPage
<1>3. page \in Seq(VideoIds)
    BY <1>1, <1>2, SeqMonotonic
<1>4. seen \in Seq(VideoIds) /\ Len(seen) \in Nat
    BY LenProperties DEF FeedTypeOK
<1>5. /\ \A i \in 1 .. Len(page) : page[i] \in Found(list, cursor)
      /\ \A i \in 1 .. Len(seen) : seen[i] \in VideoIds
    BY <1>2, <1>4, ElementOfSeq
<1>6. Len(videos) \in Nat /\ cursor \in Nat /\ \A v \in VideoIds : v \in Nat \ {0} /\ v <= Len(videos)
    BY Counted DEF FeedTypeOK, VideoIds
<1>7. (Len(page) = 0 <=> page = << >>) /\ (Len(seen) = 0 <=> seen = << >>)
    BY <1>3, <1>4, EmptySeq
<1> QED
    BY <1>1, <1>2, <1>3, <1>4, <1>5, <1>6, <1>7, ConcatProperties

LEMMA WriteFeedTyped ==
    ASSUME FeedTypeOK, NEW page, IsPage(page, Found(list, cursor)), WriteFeed(page),
           emptied' \in BOOLEAN
    PROVE  FeedTypeOK'
<1>1. VideoIds' = VideoIds /\ UserIds' = UserIds /\ Lists' = Lists /\ TypeOK'
    <2>1. [Next]_vars
        BY DEF WriteFeed
    <2> QED
        BY <2>1, StepIsTyped DEF WriteFeed, vars, VideoIds, UserIds, Lists, FeedTypeOK
<1>2. seen' \in Seq(VideoIds')
    BY <1>1, PageIsTyped DEF WriteFeed
<1>3. cursor' \in 0 .. Len(videos')
    <2>1. videos' = videos
        BY DEF WriteFeed, vars
    <2>2. CASE page = << >>
        BY <2>1, <2>2, PageIsTyped DEF WriteFeed
    <2>3. CASE page # << >>
        <3>1. page[Len(page)] \in VideoIds
            BY <2>3, PageIsTyped
        <3>2. cursor' = page[Len(page)]
            BY <2>3 DEF WriteFeed
        <3> QED
            BY <2>1, <3>1, <3>2, PageIsTyped
    <2> QED
        BY <2>2, <2>3
<1> QED
    BY <1>1, <1>2, <1>3 DEF FeedTypeOK, WriteFeed

\* The page of a request, whole or cut short by a read error.
LEMMA RequestWritesPage ==
    ASSUME FeedTypeOK, NEW limit \in Limits,
           NextPage(limit) \/ \E n \in 0 .. MaxLimit : CutPage(limit, n)
    PROVE  \E page : /\ IsPage(page, Found(list, cursor)) /\ WriteFeed(page) /\ emptied' \in BOOLEAN
                     /\ Len(page) = 0 => Found(list, cursor) = {} \/ emptied'
                     /\ emptied => emptied'
<1>1. /\ Bounded(Found(list, cursor)) /\ IsPage(Page(list, cursor, limit), Found(list, cursor))
      /\ Len(Page(list, cursor, limit)) = 0 => Found(list, cursor) = {}
    <2>1. TypeOK /\ cursor \in Nat /\ limit \in Int
        BY Counted, FeedAssumption DEF FeedTypeOK
    <2> QED
        BY <2>1, PageFound
<1>2. CASE NextPage(limit)
    BY <1>1, <1>2 DEF NextPage, FeedTypeOK
<1>3. ASSUME NEW n \in 0 .. MaxLimit, CutPage(limit, n)
      PROVE  \E page : /\ IsPage(page, Found(list, cursor)) /\ WriteFeed(page) /\ emptied' \in BOOLEAN
                       /\ Len(page) = 0 => Found(list, cursor) = {} \/ emptied'
                       /\ emptied => emptied'
    <2>1. PICK whole : whole = Page(list, cursor, limit)
        OBVIOUS
    <2>2. /\ n \in Nat /\ n < Len(whole) /\ WriteFeed(SubSeq(whole, 1, n))
          /\ emptied' = (emptied \/ n = 0) /\ IsPage(whole, Found(list, cursor))
        BY <1>1, <1>3, <2>1, FeedAssumption DEF CutPage
    <2>3. Found(list, cursor) \in SUBSET Nat
        BY <1>1 DEF Bounded
    <2>4. IsPage(SubSeq(whole, 1, n), Found(list, cursor)) /\ Len(SubSeq(whole, 1, n)) = n
        BY <2>2, <2>3, CutPageIsPage
    <2> QED
        BY <2>2, <2>4 DEF FeedTypeOK
<1> QED
    BY <1>2, <1>3

LEMMA FeedStepIsTyped == FeedTypeOK /\ [FeedNext]_<<vars, feedVars>> => FeedTypeOK'
<1> SUFFICES ASSUME FeedTypeOK, [FeedNext]_<<vars, feedVars>> PROVE FeedTypeOK'
    OBVIOUS
<1>1. ASSUME NEW l \in Lists, Begin(l) PROVE FeedTypeOK'
    BY <1>1, StepIsTyped DEF Begin, FeedTypeOK, vars, InList, TypeOK, Lists, UserIds, VideoIds
<1>2. ASSUME NEW limit \in Limits, NextPage(limit) \/ \E n \in 0 .. MaxLimit : CutPage(limit, n)
      PROVE  FeedTypeOK'
    BY <1>2, RequestWritesPage, WriteFeedTyped
<1>3. CASE StoreStep
    BY <1>3, StoreStepFeedTyped
<1>4. CASE UNCHANGED <<vars, feedVars>>
    BY <1>4 DEF FeedTypeOK, vars, feedVars, TypeOK, Lists, UserIds, VideoIds
<1> QED
    BY <1>1, <1>2, <1>3, <1>4 DEF FeedNext

LEMMA FeedStartIsTyped == FeedInit => FeedTypeOK
<1> SUFFICES ASSUME FeedInit PROVE FeedTypeOK
    OBVIOUS
<1>1. TypeOK /\ Len(videos) \in Nat
    BY StartIsTyped, Counted DEF FeedInit
<1>2. seen \in Seq(VideoIds) /\ cursor \in 0 .. Len(videos)
    BY <1>1, EmptySeq DEF FeedInit
<1> QED
    BY <1>1, <1>2 DEF FeedInit, FeedTypeOK

\* A client's cursor is 0 or the id of a video, and it is only ever given videos that
\* exist (store.go:378-433, 734-760, video.go:124-152).
THEOREM FeedTypeCorrect == FeedSpec => []FeedTypeOK
    BY FeedStartIsTyped, FeedStepIsTyped, PTL DEF FeedSpec

-----------------------------------------------------------------------------
(* Paging down a list. *)

\* Where the client is: at the last video it was given, and it skipped none that was in
\* its list all the time, unless a read error emptied a page.
CursorInv == ~atEnd => IF seen = << >> THEN cursor = 0 ELSE cursor = seen[Len(seen)]
NotBegun == list.kind = "none" => seen = << >> /\ ~atEnd
NoneSkipped ==
    ~emptied => \A v \in steady : \/ \E i \in 1 .. Len(seen) : seen[i] = v
                                  \/ ~atEnd /\ (cursor = 0 \/ v < cursor)

PagingInv == NewestFirst /\ CursorInv /\ NotBegun /\ steady \subseteq InList(list) /\ NoneSkipped

LEMMA WriteFeedKeepsPaging ==
    ASSUME FeedTypeOK, PagingInv, NEW page, IsPage(page, Found(list, cursor)), WriteFeed(page),
           Len(page) = 0 => Found(list, cursor) = {} \/ emptied', emptied => emptied'
    PROVE  PagingInv'
<1>0. /\ list.kind # "none" /\ ~atEnd /\ seen' = seen \o page
      /\ cursor' = IF page = << >> THEN 0 ELSE page[Len(page)]
      /\ atEnd' = (page = << >>) /\ list' = list /\ steady' = steady /\ videos' = videos
      /\ following' = following
    BY DEF WriteFeed, vars
<1>1. /\ Len(page) \in Nat /\ Len(seen) \in Nat /\ cursor \in Nat
      /\ Len(page) = 0 <=> page = << >>
      /\ Len(seen) = 0 <=> seen = << >>
      /\ \A i \in 1 .. Len(page) : page[i] \in Nat \ {0} /\ page[i] \in Found(list, cursor)
      /\ \A i \in 1 .. Len(seen) : seen[i] \in Nat \ {0}
      /\ Len(seen') = Len(seen) + Len(page)
      /\ \A i \in 1 .. Len(seen) + Len(page) :
            seen'[i] = IF i <= Len(seen) THEN seen[i] ELSE page[i - Len(seen)]
    BY <1>0, PageIsTyped
<1>2. /\ \A i, j \in 1 .. Len(seen) : i < j => seen[i] > seen[j]
      /\ IF seen = << >> THEN cursor = 0 ELSE cursor = seen[Len(seen)]
    BY <1>0 DEF PagingInv, NewestFirst, CursorInv
<1>3. /\ \A i, j \in 1 .. Len(page) : i < j => page[i] > page[j]
      /\ Len(page) # 0 => \A v \in Found(list, cursor) :
                             v >= page[Len(page)] => \E i \in 1 .. Len(page) : page[i] = v
    BY DEF IsPage
<1>4. \A i \in 1 .. Len(page) : cursor = 0 \/ page[i] < cursor
    BY <1>1 DEF Found
<1>5. NewestFirst'
    <2>1. \A i \in 1 .. Len(seen) : \A j \in 1 .. Len(page) : seen[i] > page[j]
        <3> SUFFICES ASSUME NEW i \in 1 .. Len(seen), NEW j \in 1 .. Len(page)
                     PROVE  seen[i] > page[j]
            OBVIOUS
        <3>1. seen # << >> /\ Len(seen) \in 1 .. Len(seen) /\ cursor = seen[Len(seen)]
            BY <1>1, <1>2
        <3>2. page[j] < cursor
            BY <1>1, <1>4, <3>1
        <3>3. i = Len(seen) \/ seen[i] > seen[Len(seen)]
            BY <1>1, <1>2, <3>1
        <3> QED
            BY <1>1, <3>1, <3>2, <3>3
    <2>2. ASSUME NEW i \in 1 .. Len(seen'), NEW j \in 1 .. Len(seen'), i < j
          PROVE  seen'[i] > seen'[j]
        <3>1. CASE j <= Len(seen)
            BY <1>1, <1>2, <2>2, <3>1
        <3>2. CASE i <= Len(seen) /\ ~(j <= Len(seen))
            <4>1. i \in 1 .. Len(seen) /\ j - Len(seen) \in 1 .. Len(page)
                BY <1>1, <3>2
            <4> QED
                BY <1>1, <2>1, <3>2, <4>1
        <3>3. CASE ~(i <= Len(seen))
            <4>1. PICK a \in 1 .. Len(page), b \in 1 .. Len(page) :
                      a = i - Len(seen) /\ b = j - Len(seen)
                <5>1. i - Len(seen) \in 1 .. Len(page) /\ j - Len(seen) \in 1 .. Len(page)
                    BY <1>1, <2>2, <3>3
                <5> QED
                    BY <5>1
            <4>2. a < b /\ ~(j <= Len(seen))
                BY <1>1, <2>2, <3>3, <4>1
            <4>3. seen'[i] = page[a] /\ seen'[j] = page[b]
                BY <1>1, <3>3, <4>1, <4>2
            <4> QED
                BY <1>3, <4>2, <4>3
        <3> QED
            BY <1>1, <2>2, <3>1, <3>2, <3>3
    <2> QED
        BY <2>2 DEF NewestFirst
<1>6. CursorInv'
    <2> SUFFICES ASSUME page # << >>
                 PROVE  seen' # << >> /\ cursor' = seen'[Len(seen')]
        BY <1>0 DEF CursorInv
    <2>1. Len(page) \in 1 .. Len(page) /\ Len(seen') # 0
        BY <1>1
    <2>2. Len(seen') \in 1 .. Len(seen) + Len(page) /\ ~(Len(seen') <= Len(seen))
          /\ Len(seen') - Len(seen) = Len(page)
        BY <1>1, <2>1
    <2>3. seen'[Len(seen')] = page[Len(page)]
        BY <1>1, <2>2
    <2>4. seen' # << >>
        BY <2>1, EmptySeq
    <2> QED
        BY <1>0, <2>3, <2>4
<1>7. InList(list)' = InList(list)
    BY <1>0 DEF InList, Selects, VideoIds
<1>8. NoneSkipped'
    <2> SUFFICES ASSUME ~emptied', NEW v \in steady
                 PROVE  \/ \E i \in 1 .. Len(seen') : seen'[i] = v
                        \/ ~atEnd' /\ (cursor' = 0 \/ v < cursor')
        BY <1>0 DEF NoneSkipped
    <2>1. v \in InList(list) /\ v \in Nat
        BY Counted DEF PagingInv, InList, VideoIds, FeedTypeOK
    <2>2. CASE \E i \in 1 .. Len(seen) : seen[i] = v
        <3>1. PICK i \in 1 .. Len(seen) : seen[i] = v
            BY <2>2
        <3>2. i \in 1 .. Len(seen') /\ seen'[i] = v
            BY <1>1, <3>1
        <3> QED
            BY <3>2
    <2>3. CASE cursor = 0 \/ v < cursor
        <3>1. v \in Found(list, cursor)
            BY <2>1, <2>3 DEF Found
        <3>2. Len(page) # 0 /\ page # << >>
            BY <1>1, <3>1
        <3>3. page[Len(page)] \in Nat
            BY <1>1, <3>2
        <3>4. CASE v >= page[Len(page)]
            <4>1. PICK i \in 1 .. Len(page) : page[i] = v
                BY <1>3, <3>1, <3>2, <3>4
            <4>2. /\ Len(seen) + i \in 1 .. Len(seen) + Len(page) /\ ~(Len(seen) + i <= Len(seen))
                  /\ Len(seen) + i - Len(seen) = i
                BY <1>1
            <4>3. seen'[Len(seen) + i] = v /\ Len(seen) + i \in 1 .. Len(seen')
                BY <1>1, <4>1, <4>2
            <4> QED
                BY <4>3
        <3>5. CASE ~(v >= page[Len(page)])
            <4>1. ~atEnd' /\ cursor' = page[Len(page)]
                BY <1>0, <3>2
            <4>2. v < page[Len(page)]
                BY <2>1, <3>3, <3>5
            <4> QED
                BY <4>1, <4>2
        <3> QED
            BY <3>4, <3>5
    <2> QED
        BY <2>2, <2>3 DEF PagingInv, NoneSkipped
<1>9. NotBegun'
    BY <1>0 DEF NotBegun
<1> QED
    BY <1>0, <1>5, <1>6, <1>7, <1>8, <1>9 DEF PagingInv

LEMMA FeedStepKeepsPaging ==
    ASSUME FeedTypeOK, PagingInv, [FeedNext]_<<vars, feedVars>>
    PROVE  PagingInv'
<1>1. ASSUME NEW l \in Lists, Begin(l) PROVE PagingInv'
    <2>1. /\ list.kind = "none" /\ list' = l /\ steady' = InList(l) /\ seen' = seen /\ cursor' = cursor
          /\ atEnd' = atEnd /\ emptied' = emptied /\ videos' = videos /\ following' = following
        BY <1>1 DEF Begin, vars
    <2>2. seen = << >> /\ ~atEnd /\ cursor = 0
        BY <2>1 DEF PagingInv, NotBegun, CursorInv
    <2>3. InList(l)' = InList(l)
        BY <2>1 DEF InList, Selects, VideoIds
    <2>4. InList(list)' = InList(l)
        BY <2>1 DEF InList, Selects, VideoIds
    <2> QED
        BY <2>1, <2>2, <2>4 DEF PagingInv, NewestFirst, CursorInv, NotBegun, NoneSkipped
<1>2. ASSUME NEW limit \in Limits, NextPage(limit) \/ \E n \in 0 .. MaxLimit : CutPage(limit, n)
      PROVE  PagingInv'
    BY <1>2, RequestWritesPage, WriteFeedKeepsPaging
<1>3. CASE StoreStep
    BY <1>3 DEF StoreStep, PagingInv, NewestFirst, CursorInv, NotBegun, NoneSkipped
<1>4. CASE UNCHANGED <<vars, feedVars>>
    BY <1>4 DEF vars, feedVars, PagingInv, NewestFirst, CursorInv, NotBegun, NoneSkipped,
                InList, Selects, VideoIds
<1> QED
    BY <1>1, <1>2, <1>3, <1>4 DEF FeedNext

LEMMA FeedStartsPaging == FeedInit => PagingInv
<1> SUFFICES ASSUME FeedInit PROVE PagingInv
    OBVIOUS
<1>1. Len(seen) = 0
    BY DEF FeedInit
<1> QED
    BY <1>1 DEF FeedInit, PagingInv, NewestFirst, CursorInv, NotBegun, NoneSkipped

\* Videos come newest first and none twice, whatever limits the client asks with and
\* whatever is published, followed and unfollowed between its pages (store.go:378-433,
\* 734-760).
THEOREM PagesDescend == FeedSpec => []NewestFirst
<1>1. FeedTypeOK /\ PagingInv /\ [FeedNext]_<<vars, feedVars>> => PagingInv'
    BY FeedStepKeepsPaging
<1>2. PagingInv => NewestFirst
    BY DEF PagingInv
<1> QED
    BY <1>1, <1>2, FeedStartsPaging, FeedTypeCorrect, PTL DEF FeedSpec

\* By the time the client gets an empty page it was given every video that was in its
\* list when it began and never left it, unless a read error emptied a page.
THEOREM EndIsComplete == FeedSpec => []EndMeansComplete
<1>1. FeedTypeOK /\ PagingInv /\ [FeedNext]_<<vars, feedVars>> => PagingInv'
    BY FeedStepKeepsPaging
<1>2. PagingInv => EndMeansComplete
    <2> SUFFICES ASSUME PagingInv, atEnd, ~emptied, NEW v \in steady
                 PROVE  v \in {seen[i] : i \in 1 .. Len(seen)}
        BY DEF EndMeansComplete
    <2> QED
        BY DEF PagingInv, NoneSkipped
<1> QED
    BY <1>1, <1>2, FeedStartsPaging, FeedTypeCorrect, PTL DEF FeedSpec

-----------------------------------------------------------------------------
(* Recommend: sequences that are cut, filtered and joined. *)

\* A sequence, position by position.
LEMMA InjectiveSeq ==
    ASSUME NEW S, NEW s \in Seq(S)
    PROVE  /\ Len(s) \in Nat /\ DOMAIN s = 1 .. Len(s)
           /\ \A i \in 1 .. Len(s) : s[i] \in S
           /\ IsInjective(s) <=> \A i, j \in 1 .. Len(s) : s[i] = s[j] => i = j
<1>1. Len(s) \in Nat /\ DOMAIN s = 1 .. Len(s)
    BY LenProperties
<1>2. \A i \in 1 .. Len(s) : s[i] \in S
    BY ElementOfSeq
<1> QED
    BY <1>1, <1>2 DEF IsInjective

\* Counted from below, too, every rank is some member's.
LEMMA RankFromBelow ==
    ASSUME NEW S, Bounded(S), NEW r \in Nat, r < Cardinality(S)
    PROVE  \E v \in S : Cardinality({w \in S : w < v}) = r
<1>1. IsFiniteSet(S) /\ Cardinality(S) \in Nat /\ \A w \in S : w \in Nat
    BY PartsAreFinite DEF Bounded
<1>2. PICK q \in Nat : q = Cardinality(S) - 1 - r /\ q < Cardinality(S)
    BY <1>1
<1>3. PICK v \in S : Cardinality(Above(S, v)) = q
    BY <1>2, RankExists
<1>4. PICK T : T = Above(S, v) \cup {v}
    OBVIOUS
<1>5. T \in SUBSET S /\ Cardinality(T) = q + 1
    BY <1>3, <1>4, OneMoreThanRank
<1>6. {w \in S : w < v} = S \ T
    BY <1>1, <1>4 DEF Above
<1>7. S \cap T = T
    BY <1>5
<1>8. Cardinality(S \ T) = Cardinality(S) - Cardinality(T)
    BY <1>1, <1>7, FS_Difference
<1>9. Cardinality(S \ T) = r
    BY <1>1, <1>2, <1>5, <1>8
<1> QED
    BY <1>6, <1>9

\* What is kept of a sequence are entries of it, each once.
LEMMA KeepFacts ==
    ASSUME NEW S, NEW s \in Seq(S), NEW kept \in SUBSET (1 .. Len(s))
    PROVE  /\ Keep(s, kept) \in Seq(S)
           /\ Len(Keep(s, kept)) = Cardinality(kept) /\ Cardinality(kept) \in Nat
           /\ Cardinality(kept) = 0 => kept = {}
           /\ \A k \in 1 .. Cardinality(kept) : \E i \in kept : Keep(s, kept)[k] = s[i]
           /\ IsInjective(s) => IsInjective(Keep(s, kept))
<1>1. Len(s) \in Nat /\ \A i \in 1 .. Len(s) : s[i] \in S
    BY InjectiveSeq
<1>2. Bounded(kept)
    <2>1. kept \in SUBSET Nat /\ \A i \in kept : i <= Len(s)
        BY <1>1
    <2> QED
        BY <1>1, <2>1 DEF Bounded
<1>3. Cardinality(kept) \in Nat /\ (Cardinality(kept) = 0 => kept = {})
    BY <1>2, PartsAreFinite
<1> DEFINE n == Cardinality(kept)
           at == [k \in 1 .. n |-> CHOOSE i \in kept : Cardinality({j \in kept : j < i}) = k - 1]
           q == Keep(s, kept)
<1>4. q = [k \in 1 .. n |-> s[at[k]]]
    BY DEF Keep
<1>5. ASSUME NEW k \in 1 .. n
      PROVE  at[k] \in kept /\ Cardinality({j \in kept : j < at[k]}) = k - 1
    <2>1. k - 1 \in Nat /\ k - 1 < Cardinality(kept)
        BY <1>3
    <2>2. \E i \in kept : Cardinality({j \in kept : j < i}) = k - 1
        BY <1>2, <2>1, RankFromBelow
    <2> QED
        BY <2>2
<1> HIDE DEF at, q
<1>6. \A k \in 1 .. n : q[k] = s[at[k]] /\ q[k] \in S
    BY <1>1, <1>4, <1>5
<1>7. q \in [1 .. n -> S]
    BY <1>4, <1>6
<1>8. q \in Seq(S) /\ Len(q) = n
    BY <1>3, <1>7, FunctionIsSequence
<1>9. ASSUME IsInjective(s), NEW k \in 1 .. n, NEW l \in 1 .. n, q[k] = q[l] PROVE k = l
    <2>1. at[k] = at[l]
        <3>1. \A x, y \in 1 .. Len(s) : s[x] = s[y] => x = y
            BY <1>9, InjectiveSeq
        <3>2. at[k] \in 1 .. Len(s) /\ at[l] \in 1 .. Len(s)
            BY <1>5
        <3>3. s[at[k]] = s[at[l]]
            BY <1>6, <1>9
        <3> QED
            BY <3>1, <3>2, <3>3
    <2>2. k - 1 = l - 1
        BY <1>5, <2>1
    <2> QED
        BY <2>2
<1>10. IsInjective(s) => IsInjective(q)
    BY <1>8, <1>9, InjectiveSeq
<1> QED
    BY <1>3, <1>5, <1>6, <1>8, <1>10 DEF q

\* What is left when the entries in T are taken out.
LEMMA WithoutFacts ==
    ASSUME NEW S, NEW s \in Seq(S), NEW T
    PROVE  /\ Without(s, T) \in Seq(S) /\ Len(Without(s, T)) \in Nat
           /\ \A k \in 1 .. Len(Without(s, T)) : Without(s, T)[k] \in S \ T
           /\ IsInjective(s) => IsInjective(Without(s, T))
<1>1. PICK kept : kept = {i \in DOMAIN s : s[i] \notin T}
    OBVIOUS
<1>2. kept \in SUBSET (1 .. Len(s))
    BY <1>1, InjectiveSeq
<1>3. Without(s, T) = Keep(s, kept)
    BY <1>1 DEF Without
<1>4. \A i \in kept : s[i] \in S \ T
    BY <1>1, <1>2, InjectiveSeq
<1>5. PICK w : w = Keep(s, kept)
    OBVIOUS
<1>6. /\ w \in Seq(S) /\ Len(w) \in Nat /\ (IsInjective(s) => IsInjective(w))
      /\ \A k \in 1 .. Len(w) : \E i \in kept : w[k] = s[i]
    BY <1>2, <1>5, KeepFacts
<1>7. \A k \in 1 .. Len(w) : w[k] \in S \ T
    BY <1>4, <1>6
<1> QED
    BY <1>3, <1>5, <1>6, <1>7

\* A sequence that is cut keeps its first entries.
LEMMA TopFacts ==
    ASSUME NEW S, NEW s \in Seq(S), NEW n \in Nat
    PROVE  /\ Top(s, n) \in Seq(S) /\ Len(Top(s, n)) \in Nat
           /\ Len(Top(s, n)) = IF Len(s) < n THEN Len(s) ELSE n
           /\ \A k \in 1 .. Len(Top(s, n)) : k \in 1 .. Len(s) /\ Top(s, n)[k] = s[k]
           /\ IsInjective(s) => IsInjective(Top(s, n))
<1> DEFINE m == IF Len(s) < n THEN Len(s) ELSE n
           t == Top(s, n)
<1>1. /\ Len(s) \in Nat /\ m \in Nat /\ m <= Len(s) /\ m - 1 + 1 = m
      /\ \A i \in 1 .. m : i \in 1 .. Len(s) /\ s[i] \in S
    BY InjectiveSeq
<1>2. t = SubSeq(s, 1, m)
    BY DEF Top
<1> HIDE DEF t
<1> SUFFICES /\ t \in Seq(S) /\ Len(t) = m
             /\ (\A k \in 1 .. Len(t) : k \in 1 .. Len(s) /\ t[k] = s[k])
             /\ IsInjective(s) => IsInjective(t)
    BY <1>1 DEF t
<1> HIDE DEF m
<1>3. t \in Seq(S) /\ Len(t) = m /\ \A i \in 1 .. m : t[i] = s[i]
    BY <1>1, <1>2, SubSeqProperties
<1>4. IsInjective(s) => IsInjective(t)
    BY <1>1, <1>3, InjectiveSeq
<1> QED
    BY <1>1, <1>3, <1>4

\* Joining sequences that have nothing in common repeats nothing.
LEMMA JoinFacts ==
    ASSUME NEW S, NEW s \in Seq(S), NEW t \in Seq(S)
    PROVE  /\ s \o t \in Seq(S) /\ Len(s \o t) = Len(s) + Len(t)
           /\ \A i \in 1 .. Len(s) + Len(t) :
                  (s \o t)[i] = IF i <= Len(s) THEN s[i] ELSE t[i - Len(s)]
           /\ IsInjective(s) /\ IsInjective(t) /\ (\A j \in 1 .. Len(t) : t[j] \notin Range(s))
                => IsInjective(s \o t)
<1>1. Len(s) \in Nat /\ Len(t) \in Nat
    BY InjectiveSeq
<1> DEFINE j == s \o t
<1>2. /\ j \in Seq(S) /\ Len(j) = Len(s) + Len(t)
      /\ \A i \in 1 .. Len(s) + Len(t) : j[i] = IF i <= Len(s) THEN s[i] ELSE t[i - Len(s)]
    BY ConcatProperties
<1> HIDE DEF j
<1>3. ASSUME IsInjective(s), IsInjective(t), \A i \in 1 .. Len(t) : t[i] \notin Range(s)
      PROVE  IsInjective(j)
    <2>1. \A i \in 1 .. Len(s) : s[i] \in Range(s)
        BY InjectiveSeq DEF Range
    <2>2. ASSUME NEW k \in 1 .. Len(j), NEW l \in 1 .. Len(j), j[k] = j[l] PROVE k = l
        <3>1. \A x, y \in 1 .. Len(s) : s[x] = s[y] => x = y
            BY <1>3, InjectiveSeq
        <3>2. \A x, y \in 1 .. Len(t) : t[x] = t[y] => x = y
            BY <1>3, InjectiveSeq
        <3>3. k \in 1 .. Len(s) \/ k - Len(s) \in 1 .. Len(t)
            BY <1>1, <1>2
        <3>4. l \in 1 .. Len(s) \/ l - Len(s) \in 1 .. Len(t)
            BY <1>1, <1>2
        <3>5. CASE k \in 1 .. Len(s) /\ l \in 1 .. Len(s)
            BY <1>1, <1>2, <2>2, <3>1, <3>5
        <3>6. CASE ~(k \in 1 .. Len(s)) /\ ~(l \in 1 .. Len(s))
            <4>1. j[k] = t[k - Len(s)] /\ j[l] = t[l - Len(s)]
                BY <1>1, <1>2, <3>6
            <4>2. k - Len(s) = l - Len(s)
                BY <2>2, <3>2, <3>3, <3>4, <3>6, <4>1
            <4> QED
                BY <1>1, <1>2, <4>2
        <3>7. CASE k \in 1 .. Len(s) /\ ~(l \in 1 .. Len(s))
            <4>1. j[k] \in Range(s)
                BY <1>1, <1>2, <2>1, <3>7
            <4>2. j[l] = t[l - Len(s)] /\ l - Len(s) \in 1 .. Len(t)
                BY <1>1, <1>2, <3>4, <3>7
            <4> QED
                BY <1>3, <2>2, <4>1, <4>2
        <3>8. CASE ~(k \in 1 .. Len(s)) /\ l \in 1 .. Len(s)
            <4>1. j[l] \in Range(s)
                BY <1>1, <1>2, <2>1, <3>8
            <4>2. j[k] = t[k - Len(s)] /\ k - Len(s) \in 1 .. Len(t)
                BY <1>1, <1>2, <3>3, <3>8
            <4> QED
                BY <1>3, <2>2, <4>1, <4>2
        <3> QED
            BY <3>5, <3>6, <3>7, <3>8
    <2> QED
        BY <1>2, <2>2, InjectiveSeq
<1> QED
    BY <1>2, <1>3 DEF j

-----------------------------------------------------------------------------
(* From recalled lists to a page. *)

\* A list of videos without repetition.
Listing(s) == s \in Seq(Videos) /\ IsInjective(s)

\* The constants, and that the ids of videos are bounded.
LEMMA RecConstants ==
    /\ MaxPublished \in Nat /\ ListLimit \in Nat /\ RecallLimit \in Nat /\ MaxFaults \in Nat
    /\ RankLimit \in Nat /\ PageSize \in Nat /\ PageSize > 0 /\ MaxPerAuthor \in Nat /\ MaxPerAuthor > 0
    /\ \A S \in SUBSET Videos : Bounded(S)
<1>1. /\ MaxPublished \in Nat /\ ListLimit \in Nat /\ RecallLimit \in Nat /\ MaxFaults \in Nat
      /\ RankLimit \in Nat \ {0} /\ PageSize \in Nat \ {0} /\ MaxPerAuthor \in Nat \ {0}
    BY RecommendAssumption
<1>2. ASSUME NEW S \in SUBSET Videos PROVE Bounded(S)
    BY <1>1 DEF Bounded, Videos
<1> QED
    BY <1>1, <1>2

\* A recall that failed is a listing, too.
LEMMA EmptyListing == Listing(<<>>) /\ Len(<<>>) = 0
<1>1. PICK e : e = <<>> /\ e \in Seq(Videos) /\ Len(e) = 0
    BY EmptySeq
<1>2. \A i \in 1 .. Len(e) : FALSE
    BY <1>1
<1>3. IsInjective(e)
    BY <1>1, <1>2, InjectiveSeq
<1> QED
    BY <1>1, <1>3 DEF Listing

\* What recall and ranking read and make are listings.
LEMMA NewestListed ==
    ASSUME NEW S \in SUBSET Videos
    PROVE  Listing(NewestOf(S))
<1>1. Bounded(S) /\ Cardinality(S) \in Nat
    BY RecConstants, PartsAreFinite
<1> DEFINE n == Cardinality(S)
           q == NewestOf(S)
<1>2. q = [k \in 1 .. n |-> CHOOSE v \in S : Cardinality(Above(S, v)) = k - 1]
    BY DEF NewestOf, Above
<1>3. ASSUME NEW k \in 1 .. n PROVE q[k] \in S /\ Cardinality(Above(S, q[k])) = k - 1
    <2>1. k - 1 \in Nat /\ k - 1 < Cardinality(S)
        BY <1>1
    <2>2. \E v \in S : Cardinality(Above(S, v)) = k - 1
        BY <1>1, <2>1, RankExists
    <2> QED
        BY <1>2, <2>2
<1> HIDE DEF q
<1>4. q \in [1 .. n -> Videos]
    BY <1>2, <1>3
<1>5. q \in Seq(Videos) /\ Len(q) = n
    BY <1>1, <1>4, FunctionIsSequence
<1>6. ASSUME NEW k \in 1 .. n, NEW l \in 1 .. n, q[k] = q[l] PROVE k = l
    <2>1. k - 1 = l - 1
        BY <1>3, <1>6
    <2> QED
        BY <2>1
<1>7. IsInjective(q)
    BY <1>5, <1>6, InjectiveSeq
<1> QED
    BY <1>5, <1>7 DEF Listing, q

LEMMA RecalledListed ==
    ASSUME hot \subseteq Videos, fresh \subseteq Videos
    PROVE  Listing(NewestRecalled) /\ \A h \in Hottest : Listing(h)
<1>1. Listing(NewestRecalled)
    <2>1. PICK s : s = NewestOf(fresh) /\ Listing(s)
        BY NewestListed
    <2>2. Listing(Top(s, RecallLimit))
        BY <2>1, RecConstants, TopFacts DEF Listing
    <2> QED
        BY <2>1, <2>2 DEF NewestRecalled
<1>2. ASSUME NEW h \in Hottest PROVE Listing(h)
    <2>1. Cardinality(hot) \in Nat /\ RecallLimit \in Nat
        BY RecConstants, PartsAreFinite
    <2>2. PICK n \in Nat : h \in [1 .. n -> hot] /\ IsInjective(h)
        BY <2>1 DEF Hottest
    <2>3. h \in [1 .. n -> Videos]
        BY <2>2
    <2> QED
        BY <2>2, <2>3, FunctionIsSequence DEF Listing
<1> QED
    BY <1>1, <1>2

\* The list put together from both recalls repeats nothing: what is hot is taken from
\* the hot list only.
LEMMA MergedListed ==
    ASSUME NEW h, Listing(h), NEW f, Listing(f)
    PROVE  Listing(MergeAndRank(h, f))
<1>1. PICK w : w = Without(f, Range(h))
    OBVIOUS
<1>2. Listing(w) /\ Len(w) \in Nat /\ \A k \in 1 .. Len(w) : w[k] \notin Range(h)
    BY <1>1, WithoutFacts DEF Listing
<1>3. \A i \in 1 .. Len(h) : h[i] \notin Range(w)
    <2>1. \A k \in 1 .. Len(w) : \A i \in 1 .. Len(h) : w[k] # h[i]
        BY <1>2, InjectiveSeq DEF Range, Listing
    <2>2. DOMAIN w = 1 .. Len(w)
        BY <1>2, InjectiveSeq DEF Listing
    <2> QED
        BY <2>1, <2>2 DEF Range
<1>4. PICK j : j = w \o h /\ Listing(j)
    BY <1>2, <1>3, JoinFacts DEF Listing
<1>5. Listing(Top(j, RankLimit))
    BY <1>4, RecConstants, TopFacts DEF Listing
<1> QED
    BY <1>1, <1>4, <1>5 DEF MergeAndRank

\* Without authors, re-ranking keeps the first entries.
LEMMA Reranked ==
    ASSUME NEW s, Listing(s)
    PROVE  /\ Listing(DiversityRerank(s)) /\ Len(DiversityRerank(s)) \in Nat
           /\ Len(DiversityRerank(s)) <= MaxPerAuthor
           /\ Len(s) # 0 => Len(DiversityRerank(s)) # 0
           /\ \A k \in 1 .. Len(DiversityRerank(s)) : \E i \in 1 .. Len(s) : DiversityRerank(s)[k] = s[i]
<1>1. s \in Seq(Videos) /\ Len(s) \in Nat /\ DOMAIN s = 1 .. Len(s) /\ MaxPerAuthor \in Nat /\ MaxPerAuthor > 0
    BY InjectiveSeq, RecConstants DEF Listing
<1>2. PICK kept : kept = {i \in DOMAIN s : Cardinality({j \in 1 .. i - 1 : AuthorID(s[j]) = AuthorID(s[i])}) < MaxPerAuthor}
    OBVIOUS
<1>3. DiversityRerank(s) = Keep(s, kept)
    BY <1>2 DEF DiversityRerank
<1>4. ASSUME NEW i \in 1 .. Len(s)
      PROVE  Cardinality({j \in 1 .. i - 1 : AuthorID(s[j]) = AuthorID(s[i])}) = i - 1
    <2>1. {j \in 1 .. i - 1 : AuthorID(s[j]) = AuthorID(s[i])} = 1 .. i - 1
        BY DEF AuthorID
    <2>2. Cardinality(1 .. i - 1) = i - 1
        BY FS_Interval
    <2> QED
        BY <2>1, <2>2
<1>5. kept = {i \in 1 .. Len(s) : i - 1 < MaxPerAuthor}
    BY <1>1, <1>2, <1>4
<1>6. kept \in SUBSET (1 .. Len(s)) /\ kept \in SUBSET (1 .. MaxPerAuthor)
    BY <1>1, <1>5
<1>7. Cardinality(kept) <= MaxPerAuthor
    <2>1. IsFiniteSet(1 .. MaxPerAuthor) /\ Cardinality(1 .. MaxPerAuthor) = MaxPerAuthor
        BY <1>1, FS_Interval
    <2> QED
        BY <1>6, <2>1, FS_Subset
<1>8. Len(s) # 0 => 1 \in kept
    BY <1>1, <1>5
<1> QED
    BY <1>1, <1>3, <1>6, <1>7, <1>8, KeepFacts DEF Listing

\* Injection keeps the page it is given, and appends at most one video to a page of
\* fewer than ten, and nothing to an empty one.
LEMMA Injected ==
    ASSUME NEW s, Listing(s), NEW f, Listing(f)
    PROVE  /\ Listing(FreshInjection(s, f)) /\ Len(FreshInjection(s, f)) \in Nat
           /\ Len(s) <= Len(FreshInjection(s, f))
           /\ Len(s) < 10 => Len(FreshInjection(s, f)) <= Len(s) + 1
           /\ Len(s) = 0 => Len(FreshInjection(s, f)) = 0
           /\ \A k \in 1 .. Len(s) : FreshInjection(s, f)[k] = s[k]
<1>1. s \in Seq(Videos) /\ Len(s) \in Nat /\ DOMAIN s = 1 .. Len(s) /\ (Len(s) = 0 => s = <<>>)
    <2>1. s # <<>> => Len(s) # 0
        BY EmptySeq DEF Listing
    <2> QED
        BY <2>1, InjectiveSeq DEF Listing
<1>2. CASE FreshInjection(s, f) = s
    BY <1>1, <1>2
<1>3. CASE FreshInjection(s, f) # s
    <2>1. s # <<>> /\ ~(Needed(s, f) <= 0) /\ FreshInjection(s, f) = s \o Top(Without(f, Range(s)), Needed(s, f))
        BY <1>3 DEF FreshInjection
    <2>2. Needed(s, f) \in Int /\ (Len(s) < 10 => Needed(s, f) <= 1)
        <3>1. PICK old : old = {i \in DOMAIN s : s[i] \in Range(f)}
            OBVIOUS
        <3>2. Cardinality(old) \in Nat
            <4>1. old \in SUBSET (1 .. Len(s))
                BY <1>1, <3>1
            <4>2. IsFiniteSet(old)
                <5>1. IsFiniteSet(1 .. Len(s))
                    BY <1>1, FS_Interval
                <5> QED
                    BY <4>1, <5>1, FS_Subset
            <4> QED
                BY <4>2, FS_CardinalityType
        <3>3. PICK target : target = IF Len(s) < 10 THEN 1 ELSE Len(s) \div 5
            OBVIOUS
        <3>4. target \in Int
            BY <1>1, <3>3
        <3>5. Needed(s, f) = target - Cardinality(old)
            BY <3>1, <3>3 DEF Needed
        <3> QED
            BY <3>2, <3>3, <3>4, <3>5
    <2>3. PICK n \in Nat : n = Needed(s, f)
        BY <2>1, <2>2
    <2>4. PICK w : w = Without(f, Range(s)) /\ Listing(w) /\ Len(w) \in Nat
                   /\ \A k \in 1 .. Len(w) : w[k] \notin Range(s)
        BY WithoutFacts DEF Listing
    <2>5. PICK extra : /\ extra = Top(w, n) /\ Listing(extra) /\ Len(extra) \in Nat /\ Len(extra) <= n
                       /\ \A k \in 1 .. Len(extra) : extra[k] \notin Range(s)
        BY <2>4, TopFacts DEF Listing
    <2>6. FreshInjection(s, f) = s \o extra
        BY <2>1, <2>3, <2>4, <2>5
    <2>7. PICK r : r = s \o extra
        OBVIOUS
    <2>8. /\ Listing(r) /\ Len(r) = Len(s) + Len(extra)
          /\ \A i \in 1 .. Len(s) + Len(extra) : r[i] = IF i <= Len(s) THEN s[i] ELSE extra[i - Len(s)]
        BY <2>5, <2>7, JoinFacts DEF Listing
    <2>9. \A k \in 1 .. Len(s) : r[k] = s[k]
        BY <1>1, <2>5, <2>8
    <2>10. Len(s) # 0
        BY <1>1, <2>1
    <2> QED
        BY <1>1, <2>2, <2>3, <2>5, <2>6, <2>7, <2>8, <2>9, <2>10
<1> QED
    BY <1>2, <1>3

\* A page is a listing and no longer than a page may be.
LEMMA PageListed ==
    ASSUME NEW s, Listing(s), NEW f, Listing(f)
    PROVE  Listing(PageOf(s, f)) /\ Len(PageOf(s, f)) \in Nat /\ Len(PageOf(s, f)) <= PageSize
<1>1. PICK d : d = DiversityRerank(s) /\ Listing(d)
    BY Reranked
<1>2. PICK r : r = FreshInjection(d, f) /\ Listing(r) /\ Len(r) \in Nat
    BY <1>1, Injected
<1>3. Listing(Top(r, PageSize)) /\ Len(Top(r, PageSize)) \in Nat /\ Len(Top(r, PageSize)) <= PageSize
    BY <1>2, RecConstants, TopFacts DEF Listing
<1> QED
    BY <1>1, <1>2, <1>3 DEF PageOf

\* A set of at most one element that the page has beside another.
OneBesideNew(again, page) == again # {} => Cardinality(again) = 1 /\ again # Range(page)

\* Of a list of which nothing was seen, at most one entry of the page was, and not the
\* first.
LEMMA PageRepeatsOne ==
    ASSUME MaxPerAuthor < 10, NEW s, Listing(s), NEW f, Listing(f),
           NEW S, \A i \in 1 .. Len(s) : s[i] \notin S
    PROVE  OneBesideNew(Range(PageOf(s, f)) \cap S, PageOf(s, f))
<1>1. s \in Seq(Videos) /\ Len(s) \in Nat /\ PageSize \in Nat /\ PageSize > 0 /\ MaxPerAuthor \in Nat
    BY InjectiveSeq, RecConstants DEF Listing
<1>2. PICK d : /\ d = DiversityRerank(s) /\ Listing(d) /\ Len(d) \in Nat /\ Len(d) <= MaxPerAuthor
               /\ \A k \in 1 .. Len(d) : d[k] \notin S
    <2>1. \A k \in 1 .. Len(DiversityRerank(s)) : DiversityRerank(s)[k] \notin S
        BY Reranked
    <2> QED
        BY <2>1, Reranked
<1>3. PICK r : /\ r = FreshInjection(d, f) /\ Listing(r) /\ Len(r) \in Nat
               /\ Len(d) <= Len(r) /\ Len(r) <= Len(d) + 1 /\ (Len(d) = 0 => Len(r) = 0)
               /\ \A k \in 1 .. Len(d) : r[k] \notin S
    <2>1. Len(d) < 10
        BY <1>1, <1>2
    <2>2. \A k \in 1 .. Len(d) : FreshInjection(d, f)[k] \notin S
        BY <1>2, Injected
    <2> QED
        BY <1>2, <2>1, <2>2, Injected
<1>4. PICK p : /\ p = Top(r, PageSize) /\ p \in Seq(Videos) /\ Len(p) \in Nat
               /\ Len(p) = IF Len(r) < PageSize THEN Len(r) ELSE PageSize
               /\ \A k \in 1 .. Len(p) : k \in 1 .. Len(r) /\ p[k] = r[k]
    BY <1>1, <1>3, TopFacts DEF Listing
<1>5. PageOf(s, f) = p
    BY <1>2, <1>3, <1>4 DEF PageOf
<1>6. DOMAIN p = 1 .. Len(p)
    BY <1>4, InjectiveSeq
<1>7. ASSUME NEW k \in 1 .. Len(p), p[k] \in S PROVE k = Len(d) + 1 /\ Len(d) # 0
    <2>1. k \in 1 .. Len(r) /\ r[k] \in S
        BY <1>4, <1>7
    <2>2. k \notin 1 .. Len(d)
        BY <1>3, <2>1
    <2> QED
        BY <1>2, <1>3, <2>1, <2>2
<1>8. PICK again : again = Range(p) \cap S
    OBVIOUS
<1>9. ASSUME again # {} PROVE Cardinality(again) = 1 /\ again # Range(p)
    <2>1. PICK k \in 1 .. Len(p) : p[k] \in S
        BY <1>6, <1>8, <1>9 DEF Range
    <2>2. again = {p[k]}
        <3>1. \A l \in 1 .. Len(p) : p[l] \in S => l = k
            BY <1>7, <2>1
        <3> QED
            BY <1>6, <1>8, <2>1, <3>1 DEF Range
    <2>3. 1 \in 1 .. Len(p) /\ 1 \in 1 .. Len(d)
        BY <1>2, <1>4, <1>7, <2>1
    <2>4. p[1] \in Range(p) /\ p[1] \notin S
        BY <1>3, <1>4, <1>6, <2>3 DEF Range
    <2> QED
        BY <1>8, <2>2, <2>4, FS_Singleton
<1> QED
    BY <1>5, <1>8, <1>9 DEF OneBesideNew

-----------------------------------------------------------------------------
(* Requests. *)

\* What an answer holds: a page without repetition, and what of it was seen before.
Answerable == \A p \in Procs :
    /\ req[p].pc = "filter" => Listing(req[p].fresh) /\ Listing(req[p].ranked)
    /\ req[p].pc = "answer" => Listing(req[p].page)

Modest == \A p \in Procs : req[p].pc = "answer" => OneBesideNew(req[p].again, req[p].page)

\* The states and fields of a request.
LEMMA RequestFacts ==
    ASSUME RecTypeOK, NEW p \in Procs
    PROVE  /\ req[p].pc \in {"idle", "filter", "answer"}
           /\ req[p].pc = "filter" => req[p].fresh \in Seq(Videos) /\ req[p].ranked \in Seq(Videos)
           /\ req[p].pc = "answer" => /\ req[p].page \in Seq(Videos) /\ Len(req[p].page) <= PageSize
                                      /\ req[p].again \subseteq Videos /\ Range(req[p].page) \subseteq Videos
<1>1. req[p] \in Requests
    BY DEF RecTypeOK
<1>2. CASE req[p] = Idle
    BY <1>2 DEF Idle
<1>3. CASE req[p] \in [pc : {"filter"}, fresh : Seq(Videos), ranked : Seq(Videos)]
    BY <1>3
<1>4. CASE req[p] \in [pc : {"answer"}, page : {s \in Seq(Videos) : Len(s) <= PageSize}, again : SUBSET Videos]
    <2>1. req[p].page \in Seq(Videos) /\ req[p].pc = "answer" /\ Len(req[p].page) <= PageSize /\ req[p].again \subseteq Videos
        BY <1>4
    <2>2. Range(req[p].page) \subseteq Videos
        BY <2>1, InjectiveSeq DEF Range
    <2> QED
        BY <2>1, <2>2
<1> QED
    BY <1>1, <1>2, <1>3, <1>4 DEF Requests

\* A request begins.
LEMMA RecallStarts ==
    ASSUME RecTypeOK, NEW p \in Procs, MultiRecall(p)
    PROVE  \E f, ranked : /\ Listing(f) /\ Listing(ranked)
                          /\ req' = [req EXCEPT ![p] = [pc |-> "filter", fresh |-> f, ranked |-> ranked]]
<1>1. PICK h \in Hottest \cup {<<>>}, f \in {NewestRecalled, <<>>} :
          req' = [req EXCEPT ![p] = [pc |-> "filter", fresh |-> f, ranked |-> MergeAndRank(h, f)]]
    BY DEF MultiRecall
<1>2. Listing(h) /\ Listing(f)
    BY RecalledListed, EmptyListing DEF RecTypeOK
<1> QED
    BY <1>1, <1>2, MergedListed

\* A request comes to its page.
LEMMA FilterAnswers ==
    ASSUME RecTypeOK, Answerable, NEW p \in Procs, FilterSeen(p)
    PROVE  \E page, again :
              /\ Listing(page) /\ Len(page) \in Nat /\ Len(page) <= PageSize
              /\ again = Range(page) \cap recSeen
              /\ MaxPerAuthor < 10 => OneBesideNew(again, page)
              /\ req' = [req EXCEPT ![p] = [pc |-> "answer", page |-> page, again |-> again]]
<1>1. PICK s : (s = Without(req[p].ranked, recSeen) \/ s = <<>>) /\ Filtered(p, s)
    BY DEF FilterSeen
<1>2. Listing(req[p].ranked) /\ Listing(req[p].fresh)
    BY DEF Answerable, FilterSeen
<1>3. Listing(s) /\ \A i \in 1 .. Len(s) : s[i] \notin recSeen
    <2>1. CASE s = Without(req[p].ranked, recSeen)
        BY <1>2, <2>1, WithoutFacts DEF Listing
    <2>2. CASE s = <<>>
        <3>1. Listing(s) /\ Len(s) = 0
            BY <2>2, EmptyListing
        <3>2. \A i \in 1 .. Len(s) : FALSE
            BY <3>1
        <3> QED
            BY <3>1, <3>2
    <2> QED
        BY <1>1, <2>1, <2>2
<1>4. PICK page : page = PageOf(s, req[p].fresh)
    OBVIOUS
<1>5. Listing(page) /\ Len(page) \in Nat /\ Len(page) <= PageSize
    BY <1>2, <1>3, <1>4, PageListed
<1>6. MaxPerAuthor < 10 => OneBesideNew(Range(page) \cap recSeen, page)
    BY <1>2, <1>3, <1>4, PageRepeatsOne
<1>7. req' = [req EXCEPT ![p] = [pc |-> "answer", page |-> page, again |-> Range(page) \cap recSeen]]
    BY <1>1, <1>4 DEF Filtered
<1> QED
    BY <1>5, <1>6, <1>7

\* A call that fails, and one that does not.
LEMMA FaultsCounted ==
    ASSUME faults \in 0 .. MaxFaults, Fault \/ UNCHANGED faults
    PROVE  faults' \in 0 .. MaxFaults
    BY RecConstants DEF Fault

\* Every step keeps the types and the listings.
LEMMA RecStartTyped == RecInit => RecTypeOK
<1> SUFFICES ASSUME RecInit PROVE RecTypeOK
    OBVIOUS
<1>1. ListVideos \subseteq Videos
    BY RecConstants DEF RecInit, ListVideos, Videos
<1>2. req \in [Procs -> Requests]
    BY DEF RecInit, Requests
<1>3. 0 \in 0 .. MaxFaults
    BY RecConstants
<1> QED
    BY <1>1, <1>2, <1>3 DEF RecInit, RecTypeOK

LEMMA PoolsTyped ==
    ASSUME RecTypeOK, Publish \/ RefreshPools \/ PruneHot \/ PruneFresh \/ Forget
    PROVE  RecTypeOK'
<1>1. UNCHANGED <<req, served, dropped>> /\ recSeen' \subseteq recSeen
    BY DEF Publish, RefreshPools, PruneHot, PruneFresh, Forget, history
<1>2. published' \in 0 .. MaxPublished
    BY RecConstants DEF Publish, RefreshPools, PruneHot, PruneFresh, Forget, poolVars, RecTypeOK
<1>3. ListVideos \subseteq Videos
    BY RecConstants DEF RecTypeOK, ListVideos, Videos
<1>4. hot' \subseteq Videos /\ fresh' \subseteq Videos /\ task' \in {"waiting", "pruneHot", "pruneFresh"}
    BY <1>3 DEF Publish, RefreshPools, PruneHot, PruneFresh, Forget, poolVars, RecTypeOK
<1>5. faults' \in 0 .. MaxFaults
    <2>1. Fault \/ UNCHANGED faults
        BY DEF Publish, RefreshPools, PruneHot, PruneFresh, Forget
    <2> QED
        BY <2>1, FaultsCounted DEF RecTypeOK
<1> QED
    BY <1>1, <1>2, <1>4, <1>5 DEF RecTypeOK

LEMMA RequestsTyped ==
    ASSUME RecTypeOK, Answerable, NEW p \in Procs, MultiRecall(p) \/ FilterSeen(p) \/ GiveAnswer(p)
    PROVE  RecTypeOK' /\ Answerable'
<1>1. /\ UNCHANGED poolVars
      /\ Fault \/ UNCHANGED faults
    BY DEF MultiRecall, FilterSeen, GiveAnswer, MarkSeen
<1>2. /\ published' \in 0 .. MaxPublished /\ hot' \subseteq Videos /\ fresh' \subseteq Videos
      /\ task' \in {"waiting", "pruneHot", "pruneFresh"} /\ faults' \in 0 .. MaxFaults
    BY <1>1, FaultsCounted DEF poolVars, RecTypeOK
<1>3. recSeen' \subseteq Videos /\ served' \subseteq Videos /\ dropped' \subseteq Videos
    <2>1. CASE GiveAnswer(p)
        <3>1. PICK page : page = Range(req[p].page)
            OBVIOUS
        <3>2. page \subseteq Videos
            BY <2>1, <3>1, RequestFacts DEF GiveAnswer
        <3>3. /\ recSeen' \subseteq recSeen \cup page /\ served' \subseteq served \cup page
              /\ dropped' \subseteq dropped \cup page
            BY <2>1, <3>1 DEF GiveAnswer, MarkSeen
        <3> QED
            BY <3>2, <3>3 DEF RecTypeOK
    <2>2. CASE UNCHANGED <<recSeen, history>>
        BY <2>2 DEF RecTypeOK, history
    <2> QED
        BY <2>1, <2>2 DEF MultiRecall, FilterSeen
<1>4. PICK new \in Requests :
          /\ req' = [req EXCEPT ![p] = new]
          /\ new.pc = "filter" => Listing(new.fresh) /\ Listing(new.ranked)
          /\ new.pc = "answer" => Listing(new.page)
    <2>1. CASE MultiRecall(p)
        <3>1. PICK f, ranked : /\ Listing(f) /\ Listing(ranked)
                               /\ req' = [req EXCEPT ![p] = [pc |-> "filter", fresh |-> f, ranked |-> ranked]]
            BY <2>1, RecallStarts
        <3>2. [pc |-> "filter", fresh |-> f, ranked |-> ranked] \in Requests
            BY <3>1 DEF Requests, Listing
        <3> QED
            BY <3>1, <3>2
    <2>2. CASE FilterSeen(p)
        <3>1. PICK page, again :
                  /\ Listing(page) /\ Len(page) <= PageSize /\ again = Range(page) \cap recSeen
                  /\ req' = [req EXCEPT ![p] = [pc |-> "answer", page |-> page, again |-> again]]
            BY <2>2, FilterAnswers
        <3>2. again \in SUBSET Videos /\ page \in {s \in Seq(Videos) : Len(s) <= PageSize}
            BY <3>1 DEF RecTypeOK, Listing
        <3>3. [pc |-> "answer", page |-> page, again |-> again] \in Requests
            BY <3>2 DEF Requests
        <3> QED
            BY <3>1, <3>3
    <2>3. CASE GiveAnswer(p)
        <3>1. Idle \in Requests /\ Idle.pc = "idle"
            BY DEF Requests, Idle
        <3>2. req' = [req EXCEPT ![p] = Idle]
            BY <2>3 DEF GiveAnswer
        <3> QED
            BY <3>1, <3>2
    <2> QED
        BY <2>1, <2>2, <2>3
<1>5. req' \in [Procs -> Requests] /\ \A q \in Procs : req'[q] = IF q = p THEN new ELSE req[q]
    BY <1>4 DEF RecTypeOK
<1>6. Answerable'
    BY <1>4, <1>5 DEF Answerable
<1> QED
    BY <1>2, <1>3, <1>5, <1>6 DEF RecTypeOK

LEMMA RecStepTyped ==
    ASSUME RecTypeOK, Answerable, [RecNext]_recVars
    PROVE  RecTypeOK' /\ Answerable'
<1>1. CASE UNCHANGED recVars
    BY <1>1 DEF recVars, poolVars, history, RecTypeOK, Answerable
<1>2. CASE Publish \/ RefreshPools \/ PruneHot \/ PruneFresh \/ Forget
    <2>1. UNCHANGED req
        BY <1>2 DEF Publish, RefreshPools, PruneHot, PruneFresh, Forget
    <2> QED
        BY <1>2, <2>1, PoolsTyped DEF Answerable
<1>3. CASE \E p \in Procs : MultiRecall(p) \/ FilterSeen(p) \/ GiveAnswer(p)
    BY <1>3, RequestsTyped
<1> QED
    BY <1>1, <1>2, <1>3 DEF RecNext, Answer

\* At most one entry of an answer was seen, and it is beside one that was not.
LEMMA StaysModest ==
    ASSUME MaxPerAuthor < 10, RecTypeOK, Answerable, Modest, [RecNext]_recVars
    PROVE  Modest'
<1>1. CASE UNCHANGED req
    BY <1>1 DEF Modest
<1>2. ASSUME NEW p \in Procs, MultiRecall(p) \/ GiveAnswer(p) PROVE Modest'
    <2>1. \A q \in Procs : req'[q].pc = "answer" => req'[q] = req[q]
        BY <1>2 DEF MultiRecall, GiveAnswer, Idle, RecTypeOK
    <2> QED
        BY <2>1 DEF Modest
<1>3. ASSUME NEW p \in Procs, FilterSeen(p) PROVE Modest'
    <2>1. PICK page, again :
              /\ OneBesideNew(again, page)
              /\ req' = [req EXCEPT ![p] = [pc |-> "answer", page |-> page, again |-> again]]
        BY <1>3, FilterAnswers
    <2>2. \A q \in Procs : \/ req'[q] = req[q]
                           \/ req'[q].again = again /\ req'[q].page = page
        BY <2>1 DEF RecTypeOK
    <2> QED
        BY <2>1, <2>2 DEF Modest
<1> QED
    BY <1>1, <1>2, <1>3 DEF RecNext, Answer, Publish, RefreshPools, PruneHot, PruneFresh, Forget, recVars

\* Whatever is marked as seen was given to the user, or was to be.
Marked == recSeen \subseteq served \cup dropped

LEMMA StaysMarked ==
    ASSUME Marked, [RecNext]_recVars
    PROVE  Marked'
<1>1. CASE recSeen' \subseteq recSeen /\ UNCHANGED history
    BY <1>1 DEF Marked, history
<1>2. ASSUME NEW p \in Procs, GiveAnswer(p) PROVE Marked'
    BY <1>2 DEF Marked, GiveAnswer, MarkSeen
<1> QED
    BY <1>1, <1>2 DEF RecNext, Answer, MultiRecall, FilterSeen, Publish, RefreshPools, PruneHot, PruneFresh,
        Forget, recVars

\* The state of the recommendation feed stays within its types, and pages within
\* their size.
THEOREM RecTypeCorrect == RecSpec => []RecTypeOK
<1>1. RecInit => Answerable
    BY DEF RecInit, Answerable, Idle
<1> QED
    BY <1>1, RecStartTyped, RecStepTyped, PTL DEF RecSpec

\* No page holds a video twice, though three stages put it together from two lists
\* that overlap (scorer.go:35-60, 91-135): what the hot list has is not taken from
\* the fresh one, and what is injected is not on the page.
THEOREM PagesDistinct == RecSpec => []NoVideoTwice
<1>1. RecInit => Answerable
    BY DEF RecInit, Answerable, Idle
<1>2. Answerable => NoVideoTwice
    BY DEF Answerable, NoVideoTwice, Pages, Listing
<1> QED
    BY <1>1, <1>2, RecStartTyped, RecStepTyped, PTL DEF RecSpec

\* A page repeats at most one video the user was known to have seen, and only beside
\* a new one, as long as re-ranking leaves fewer than ten entries (service.go:71
\* leaves two), of which a fifth is less than two.
THEOREM RepeatsOne ==
    ASSUME MaxPerAuthor < 10
    PROVE  RecSpec => []RepeatsOneBesideNew
<1>1. RecInit => Answerable /\ Modest
    BY DEF RecInit, Answerable, Modest, Idle
<1>2. Modest => RepeatsOneBesideNew
    BY DEF Modest, OneBesideNew, RepeatsOneBesideNew, Pages
<1>3. RecTypeOK /\ Answerable /\ Modest /\ [RecNext]_recVars => Modest'
    BY StaysModest
<1> QED
    BY <1>1, <1>2, <1>3, RecStartTyped, RecStepTyped, PTL DEF RecSpec

\* Nothing is filtered out that was never shown (service.go:88): a page is marked as
\* seen when it is given, with what could not be read of it.
THEOREM SeenWasGiven == RecSpec => []SeenWasServed
<1>1. RecInit => Marked
    BY DEF RecInit, Marked
<1>2. Marked => SeenWasServed
    BY DEF Marked, SeenWasServed
<1> QED
    BY <1>1, <1>2, StaysMarked, PTL DEF RecSpec
=============================================================================
