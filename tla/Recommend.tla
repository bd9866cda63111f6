------------------------------ MODULE Recommend ------------------------------
(***************************************************************************)
(* The recommendation feed, internal/rec: the pools and their background   *)
(* refresh (service.go, store.go), recall, ranking, filters and re-ranking *)
(* of a page (recall.go, scorer.go, filter.go), and the wiring of          *)
(* cmd/server.  It follows one user, whose requests may overlap, and the   *)
(* one of the four equal shards this user is served from.                  *)
(*                                                                         *)
(* A video is its number, higher for newer.  Nothing writes the            *)
(* collaborative-filtering pool or passes social videos, so those two      *)
(* recalls are empty.  A recalled entry carries no author: the field stays *)
(* 0 for all, so that no video is the user's own (FilterSelfAuthor) and    *)
(* all seem to have one author (DiversityRerank).                          *)
(***************************************************************************)
EXTENDS Integers, Sequences, FiniteSets, Functions

CONSTANTS
    MaxPublished,    \* bound: videos published
    Procs,           \* request goroutines of the user
    ListLimit,       \* what ListVideos(0, 1000) is clamped to
    RecallLimit,     \* recallHotLimit and recallFreshLimit
    RankLimit,       \* 5 * pageSize
    PageSize,
    MaxPerAuthor,    \* the argument of DiversityRerank
    MaxFaults        \* bound: calls of Redis or MySQL that fail, and expiries of seen

ASSUME RecommendAssumption ==
    /\ {MaxPublished, ListLimit, RecallLimit, MaxFaults} \subseteq Nat
    /\ {RankLimit, PageSize, MaxPerAuthor} \subseteq Nat \ {0}

VARIABLES
    published,   \* how many videos there are
    hot, fresh,  \* the members of rec:hot:{shard} and rec:fresh:{shard}
    task,        \* where RunBackgroundTasks is
    recSeen,     \* rec:seen:{uid}
    req,         \* the request each goroutine runs
    served,      \* history: the videos the user was shown
    dropped,     \* history: those left out of an answer as their row was not read
    faults

poolVars == <<published, hot, fresh, task>>
history == <<served, dropped>>
recVars == <<poolVars, recSeen, req, history, faults>>

Videos == 1 .. MaxPublished
Idle == [pc |-> "idle"]
Fault == faults < MaxFaults /\ faults' = faults + 1
Top(s, n) == SubSeq(s, 1, IF Len(s) < n THEN Len(s) ELSE n)

\* The entries of s at the positions kept, in their order.
Keep(s, kept) ==
    [k \in 1 .. Cardinality(kept) |->
        s[CHOOSE i \in kept : Cardinality({j \in kept : j < i}) = k - 1]]

Without(s, S) == Keep(s, {i \in DOMAIN s : s[i] \notin S})

NewestOf(S) ==
    [k \in 1 .. Cardinality(S) |-> CHOOSE v \in S : Cardinality({w \in S : w > v}) = k - 1]

ListVideos == {v \in 1 .. published : v > published - ListLimit}

Requests ==
    {Idle} \cup [pc : {"filter"}, fresh : Seq(Videos), ranked : Seq(Videos)]
    \cup [pc : {"answer"}, page : {s \in Seq(Videos) : Len(s) <= PageSize}, again : SUBSET Videos]

RecTypeOK ==
    /\ published \in 0 .. MaxPublished
    /\ hot \subseteq Videos /\ fresh \subseteq Videos
    /\ task \in {"waiting", "pruneHot", "pruneFresh"}
    /\ recSeen \subseteq Videos
    /\ req \in [Procs -> Requests]
    /\ served \subseteq Videos /\ dropped \subseteq Videos
    /\ faults \in 0 .. MaxFaults

\* cmd/server fills both pools from the store when it starts, and only then the
\* fresh one.
RecInit ==
    /\ published \in 0 .. MaxPublished
    /\ hot = ListVideos /\ fresh = ListVideos
    /\ task = "waiting"
    /\ recSeen = {}
    /\ req = [p \in Procs |-> Idle]
    /\ served = {} /\ dropped = {}
    /\ faults = 0

-----------------------------------------------------------------------------
(* The pools. *)

Publish ==
    /\ published < MaxPublished
    /\ published' = published + 1
    /\ UNCHANGED <<hot, fresh, task, recSeen, req, history, faults>>

\* refreshPools: ZADD for each listed video, errors dropped.
RefreshPools ==
    /\ task = "waiting" /\ task' = "pruneHot"
    /\ \E added \in SUBSET ListVideos :
          /\ hot' = hot \cup added
          /\ IF added = ListVideos THEN UNCHANGED faults ELSE Fault
    /\ UNCHANGED <<published, fresh, recSeen, req, history>>

\* PrunePools: ZREMRANGEBYSCORE up to the time a week ago in milliseconds, which is
\* above every heat score.
PruneHot ==
    /\ task = "pruneHot" /\ task' = "pruneFresh"
    /\ \/ hot' = {} /\ UNCHANGED faults
       \/ UNCHANGED hot /\ Fault
    /\ UNCHANGED <<published, fresh, recSeen, req, history>>

\* The same for the fresh pool, whose scores are milliseconds: the oldest go.  (An
\* error removes nothing, as when none is old.)
PruneFresh ==
    /\ task = "pruneFresh" /\ task' = "waiting"
    /\ \E old \in 0 .. MaxPublished : fresh' = {v \in fresh : v > old}
    /\ UNCHANGED <<published, hot, recSeen, req, history, faults>>

-----------------------------------------------------------------------------
(* From recalled lists to a page. *)

\* Fresh videos carry their time in milliseconds as a score, times 0.7, which is
\* above every heat; a video of both pools counts as hot.
MergeAndRank(h, f) ==
    Top(Without(f, Range(h)) \o h, RankLimit)

AuthorID(v) == 0

\* An entry goes when enough entries before it have its author.
DiversityRerank(s) ==
    LET Before(i) == {j \in 1 .. i - 1 : AuthorID(s[j]) = AuthorID(s[i])}
    IN Keep(s, {i \in DOMAIN s : Cardinality(Before(i)) < MaxPerAuthor})

\* At least one, and a fifth, of the page is to be fresh; what is missing is
\* appended from the fresh list, seen or not.  An empty page stays empty.
Needed(s, f) ==
    LET target == IF Len(s) < 10 THEN 1 ELSE Len(s) \div 5
    IN target - Cardinality({i \in DOMAIN s : s[i] \in Range(f)})

\* Mutant of FreshInjection: it does not look at what the page has already.
FreshInjectionBlind(s, f) ==
    IF s = <<>> \/ f = <<>> THEN s ELSE s \o Top(f, 1)

FreshInjection(s, f) ==
    IF s = <<>> \/ f = <<>> \/ Needed(s, f) <= 0 THEN s
    ELSE s \o Top(Without(f, Range(s)), Needed(s, f))

\* Mutant of PageOf: it is not cut.
PageUncut(s, f) == FreshInjection(s, f)

PageOf(s, f) == Top(FreshInjection(DiversityRerank(s), f), PageSize)

-----------------------------------------------------------------------------
(* GetRecommendFeed. *)

Hottest ==
    LET n == IF Cardinality(hot) < RecallLimit THEN Cardinality(hot) ELSE RecallLimit
    IN {s \in [1 .. n -> hot] : IsInjective(s)}

NewestRecalled == Top(NewestOf(fresh), RecallLimit)

\* MultiRecall: the hottest, in any order heat may give them, and the newest; a
\* recall that fails gives nothing.  (The two read one pool each and what one finds
\* says nothing of the other, so they are one step.)
MultiRecall(p) ==
    /\ req[p] = Idle
    /\ \E h \in Hottest \cup {<<>>}, f \in {NewestRecalled, <<>>} :
          /\ IF h \in Hottest /\ f = NewestRecalled THEN UNCHANGED faults ELSE Fault
          /\ req' = [req EXCEPT ![p] =
                        [pc |-> "filter", fresh |-> f, ranked |-> MergeAndRank(h, f)]]
    /\ UNCHANGED <<poolVars, recSeen, history>>

\* The page, and what of it the user is known to have seen (history).
Filtered(p, s) ==
    LET page == PageOf(s, req[p].fresh)
    IN req' = [req EXCEPT ![p] =
                  [pc |-> "answer", page |-> page, again |-> Range(page) \cap recSeen]]

\* Mutant of FilterSeen: an error lets everything through.
FilterSeenOpen(p) ==
    /\ req[p].pc = "filter"
    /\ \/ Filtered(p, Without(req[p].ranked, recSeen)) /\ UNCHANGED faults
       \/ Filtered(p, req[p].ranked) /\ Fault
    /\ UNCHANGED <<poolVars, recSeen, history>>

\* FilterSeen, which lets nothing through on an error, and the rest of the list's
\* way to a page.
FilterSeen(p) ==
    /\ req[p].pc = "filter"
    /\ \/ Filtered(p, Without(req[p].ranked, recSeen)) /\ UNCHANGED faults
       \/ Filtered(p, <<>>) /\ Fault
    /\ UNCHANGED <<poolVars, recSeen, history>>

\* Mutants of MarkSeen: everything recalled is marked, or nothing.
MarkRecalled(S) == recSeen' = recSeen \cup S \cup fresh /\ UNCHANGED faults
MarkNothing(S) == UNCHANGED <<recSeen, faults>>

\* MarkSeen of every id of the page, its error dropped.
MarkSeen(S) ==
    \/ recSeen' = recSeen \cup S /\ UNCHANGED faults
    \/ UNCHANGED recSeen /\ Fault

\* BatchGet leaves out a video whose row cannot be read (and BatchIsLiked only adds
\* a flag); these calls touch no pool, and one step with MarkSeen stands for both.
\* The answer's cursor is the score of the last of a full page, else 0, and no
\* request reads it.
GiveAnswer(p) ==
    /\ req[p].pc = "answer"
    /\ LET page == Range(req[p].page)
       IN \/ /\ MarkSeen(page)
             /\ served' = served \cup page
             /\ UNCHANGED dropped
          \/ \E lost \in (SUBSET page) \ {{}} :
                /\ recSeen' = recSeen \cup page /\ Fault
                /\ served' = served \cup (page \ lost)
                /\ dropped' = dropped \cup lost
    /\ req' = [req EXCEPT ![p] = Idle]
    /\ UNCHANGED poolVars

\* A week without a page, and the set is gone.
Forget ==
    /\ recSeen' = {}
    /\ Fault
    /\ UNCHANGED <<poolVars, req, history>>

Answer(p) == FilterSeen(p) \/ GiveAnswer(p)

RecNext ==
    \/ Publish \/ RefreshPools \/ PruneHot \/ PruneFresh \/ Forget
    \/ \E p \in Procs : MultiRecall(p) \/ Answer(p)

\* Redis and MySQL answer, one way or the other, so that every request ends.  Users
\* need not ask.
RecSpec == RecInit /\ [][RecNext]_recVars
RecFairSpec == RecSpec /\ \A p \in Procs : []<>(req[p] = Idle)

-----------------------------------------------------------------------------
(* Properties. *)

Pages == {req[p] : p \in {q \in Procs : req[q].pc = "answer"}}

\* No page holds a video twice, though three stages put it together from two lists
\* that overlap (scorer.go:35-60, 91-135).
NoVideoTwice == \A r \in Pages : IsInjective(r.page)

\* Whatever failed on the way, a page repeats at most one video the user was known
\* to have seen, and only beside a new one (filter.go:22, scorer.go:96-124).
RepeatsOneBesideNew ==
    \A r \in Pages : r.again # {} => Cardinality(r.again) = 1 /\ r.again # Range(r.page)

\* What the user is taken to have seen was in an answer, or is in one under way, but
\* for videos whose row could not be read (service.go:88): nothing is filtered out
\* that was never shown.
SeenWasServed ==
    recSeen \subseteq served \cup dropped \cup UNION {Range(r.page) : r \in Pages}

\* A user who keeps asking is shown everything that stays among the newest of the
\* fresh pool, whatever else is recalled, whatever failed and however often requests
\* overlap, unless its row could not be read (service.go:64-80).
Recallable == {v \in fresh : Cardinality({w \in fresh : w > v}) < RecallLimit}
EveryRecallableShown ==
    (\A p \in Procs : []<>(req[p].pc = "answer"))
        => []<>(Recallable \subseteq served \cup dropped)
=============================================================================
