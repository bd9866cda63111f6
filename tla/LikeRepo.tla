------------------------------ MODULE LikeRepo ------------------------------
(***************************************************************************)
(* The two tables that like events are persisted to, and the statements    *)
(* that write them: internal/like/mysql_repo.go and its in-memory stand-in *)
(* memLikeRepo (cmd/server/main.go, cmd/likeworker/main.go).  One          *)
(* statement, or one call under memLikeRepo's mutex, is atomic.            *)
(***************************************************************************)
EXTENDS Integers

CONSTANTS Users, Videos

VARIABLES
    record,   \* like_record: [liked, ts] by <<uid, vid>>; ts = -1 for no row
    stats     \* video_stats.like_count; an absent row is 0

Pairs == Users \X Videos
NoRow == [liked |-> FALSE, ts |-> -1]
Delta(e) == IF e.liked THEN 1 ELSE -1
Most(a, b) == IF a >= b THEN a ELSE b

RepoTypeOK ==
    /\ record \in [Pairs -> [liked : BOOLEAN, ts : Int]]
    /\ stats \in [Videos -> Nat]

RepoInit ==
    /\ record = [k \in Pairs |-> NoRow]
    /\ stats = [v \in Videos |-> 0]

\* Mutant of Upserted: no comparison of updated_at.
UpsertedAlways(row, e) == [liked |-> e.liked, ts |-> e.ts]

\* INSERT ... ON DUPLICATE KEY UPDATE: a first event makes the row; a later one
\* changes status and updated_at only if its timestamp is greater.
Upserted(row, e) ==
    IF row = NoRow \/ e.ts > row.ts THEN [liked |-> e.liked, ts |-> e.ts] ELSE row

UpsertLike(e) ==
    record' = [record EXCEPT ![<<e.u, e.v>>] = Upserted(@, e)]

\* Mutants of ApplyCountDeltas: without GREATEST, and with GREATEST around the
\* delta only.
ApplyUnclamped(e) == stats' = [stats EXCEPT ![e.v] = @ + Delta(e)]
ApplyClampedDelta(e) == stats' = [stats EXCEPT ![e.v] = @ + Most(0, Delta(e))]

\* like_count = GREATEST(0, like_count + delta), also for a new row.
ApplyCountDeltas(e) ==
    stats' = [stats EXCEPT ![e.v] = Most(0, @ + Delta(e))]
=============================================================================
