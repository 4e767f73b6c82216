------------------------------ MODULE LiveMap ------------------------------
(***************************************************************************)
(* What the platform keeps and sends of where one character has been: the  *)
(* trail in Redis (packages/adapters/redis-adapter/src/trail.ts) and the   *)
(* room its positions are published on.                                    *)
(*                                                                         *)
(* The trail is the sorted set tracking:users:<character> of places by the *)
(* time of the last visit.  The time of a visit is taken when its          *)
(* transaction is sent; Redis executes the transactions of the client in   *)
(* order, and some time later.                                             *)
(***************************************************************************)
EXTENDS GridRooms, Sequences, FiniteSets

CONSTANTS
    Places,     \* points of the continent, [x, y]
    Viewers,    \* the points viewers look at
    Radii,      \* how far they look
    MaxPoints,  \* TRAIL_MAX_STORE_POINTS
    MaxTime,    \* TRAIL_MAX_STORE_TIME_MS, in units of the clock
    Second,     \* units of the clock in a second
    MaxClock,   \* bound: the clock
    MaxSent     \* bound: transactions sent and not executed

ASSUME LiveMapAssumption ==
    /\ IsFiniteSet(Places)
    /\ Places \subseteq [x : Nat, y : Nat]
    /\ Viewers \subseteq [x : Nat, y : Nat]
    /\ Radii \subseteq Nat
    /\ MaxPoints \in Nat \ {0}
    /\ MaxTime \in Nat \ {0}
    /\ Second \in Nat \ {0}
    /\ MaxClock \in Nat
    /\ MaxSent \in Nat

VARIABLES
    clock,    \* milliseconds, in a coarser unit; starts at 1
    sent,     \* visits sent to Redis and not executed, in order
    visited,  \* when Redis last recorded a visit of each place; 0 is never
    trail,    \* the sorted set: a score for each member, 0 for none
    expires   \* when Redis drops the sorted set

vars == <<clock, sent, visited, trail, expires>>

-----------------------------------------------------------------------------
(* Redis' sorted set. *)

Empty == [p \in Places |-> 0]
Members(set) == {p \in Places : set[p] # 0}

\* Members with the same score are in the order of their bytes, which are
\* the coordinates packed as two big-endian numbers.
PackedBefore(p, q) == p.x < q.x \/ (p.x = q.x /\ p.y < q.y)

After(set, p) ==
    {q \in Members(set) : \/ set[q] > set[p]
                          \/ set[q] = set[p] /\ PackedBefore(p, q)}

ZAdd(set, p, score) == [set EXCEPT ![p] = score]

\* MUTANT: -TrailStoreMaxPoints, one member fewer.
ZRemRangeByRankShort(set) ==
    [p \in Places |-> IF Cardinality(After(set, p)) < MaxPoints - 1
                      THEN set[p] ELSE 0]

\* Ranks 0 to -(MaxPoints + 1) go: all but the last MaxPoints members.
ZRemRangeByRank(set) ==
    [p \in Places |-> IF Cardinality(After(set, p)) < MaxPoints
                      THEN set[p] ELSE 0]

\* MUTANT: the limit itself stays.
ZRemRangeByScoreBelow(set, limit) ==
    [p \in Places |-> IF set[p] >= limit THEN set[p] ELSE 0]

\* Scores 0 to the limit go, the limit with them.
ZRemRangeByScore(set, limit) ==
    [p \in Places |-> IF set[p] > limit THEN set[p] ELSE 0]

\* Math.floor(TrailStoreMaxTimeMs / 1000): the time to live is in seconds.
Retention == Second * (MaxTime \div Second)

-----------------------------------------------------------------------------

\* MUTANT: the limit is stored for the time.
AddDataPointLimit(p) ==
    /\ Len(sent) < MaxSent
    /\ sent' = Append(sent, [place |-> p, at |-> clock - MaxTime])
    /\ UNCHANGED <<clock, visited, trail, expires>>

\* A position was published on its room, and its visit is sent to Redis.
AddDataPoint(p) ==
    /\ Len(sent) < MaxSent
    /\ sent' = Append(sent, [place |-> p, at |-> clock])
    /\ UNCHANGED <<clock, visited, trail, expires>>

\* The transaction: ZADD, EXPIRE (which deletes the key when given 0), and
\* the two removals.
Execute ==
    LET visit == Head(sent)
        added == ZAdd(trail, visit.place, visit.at)
        live  == IF Retention = 0 THEN Empty ELSE added
    IN
    /\ sent # <<>>
    /\ sent' = Tail(sent)
    /\ visited' = [visited EXCEPT ![visit.place] = visit.at]
    /\ trail' = ZRemRangeByScore(ZRemRangeByRank(live), visit.at - MaxTime)
    /\ expires' = clock + Retention
    /\ UNCHANGED clock

\* The process dies: what it sent and Redis has not read is gone.
Crash ==
    /\ sent # <<>>
    /\ sent' = <<>>
    /\ UNCHANGED <<clock, visited, trail, expires>>

\* Time passes, and with it the key's time to live.
Tick ==
    /\ clock < MaxClock
    /\ clock' = clock + 1
    /\ trail' = IF expires <= clock + 1 THEN Empty ELSE trail
    /\ UNCHANGED <<sent, visited, expires>>

Init ==
    /\ clock = 1
    /\ sent = <<>>
    /\ visited = Empty
    /\ trail = Empty
    /\ expires = 0

Next ==
    \/ \E p \in Places : AddDataPoint(p)
    \/ Execute
    \/ Crash
    \/ Tick

Spec == Init /\ [][Next]_vars

-----------------------------------------------------------------------------

Visit == [place : Places, at : Nat \ {0}]

\* Every variable has the values the code can give it.
TypeOK ==
    /\ clock \in Nat \ {0}
    /\ sent \in Seq(Visit)
    /\ visited \in [Places -> Nat]
    /\ trail \in [Places -> Nat]
    /\ expires \in Nat

\* Nothing is forgotten too early: a place is in the trail, with the time of
\* its last visit, while its visit is younger than the whole seconds of
\* TRAIL_MAX_STORE_TIME_MS and fewer than TRAIL_MAX_STORE_POINTS others were
\* visited as late.  The transaction trims what later visits left, and its
\* EXPIRE counts from another moment than its scores (trail.ts:45-65).
VisitedSince(p) == {q \in Places \ {p} : visited[q] >= visited[p]}
TrailComplete ==
    \A p \in Members(visited) :
        (/\ clock < visited[p] + Retention
         /\ Cardinality(VisitedSince(p)) < MaxPoints) =>
            trail[p] = visited[p]

\* Nothing is kept that ought to be forgotten when the next visit is recorded:
\* at most TRAIL_MAX_STORE_POINTS places, and none TRAIL_MAX_STORE_TIME_MS
\* older than the newest.
TrailTrimmed ==
    /\ Cardinality(Members(trail)) <= MaxPoints
    /\ \A p, q \in Members(trail) : trail[q] < trail[p] + MaxTime

(* The inductive invariant behind both: transactions are executed in the    *)
(* order of their times, and the key outlives every visit by the retention. *)

VisitsInOrder ==
    /\ \A i \in 1 .. Len(sent) : sent[i].at <= clock
    /\ \A i, j \in 1 .. Len(sent) : i < j => sent[i].at <= sent[j].at
    /\ \A p \in Places : visited[p] <= clock
    /\ \A i \in 1 .. Len(sent), p \in Places : visited[p] <= sent[i].at

TrailFollowsVisits ==
    /\ \A p \in Places : trail[p] \in {0, visited[p]}
    /\ \A p \in Members(visited) : visited[p] + Retention <= expires

TrailInv ==
    TypeOK /\ VisitsInOrder /\ TrailFollowsVisits /\ TrailComplete /\ TrailTrimmed

JustPublished == {sent[i].place : i \in 1 .. Len(sent)}

\* A viewer hears no one far away: the room of every position it hears comes
\* within the radius of the point it looks at, although the comparison is
\* made in whole rooms from the viewer's own (geo-coordinates.ts:168-178).
RoomsReachRadius ==
    \A v \in Viewers, r \in Radii, p \in JustPublished :
        GridRoom(p) \in NearestRooms(v, r) =>
            SquaredDistance(Gap(v.x, GridRoom(p).col), Gap(v.y, GridRoom(p).row))
                <= r * r

\* A viewer hears everyone close enough: a position is published on a room
\* the viewer listens to if it is nearer than the radius by three rooms.
\* Two would not do: the radius and both points are rounded down.
NearPlayersHeard ==
    \A v \in Viewers, r \in Radii, p \in JustPublished :
        LET near == r - 3 * GridSize
        IN (near >= 0 /\ SquaredDistance(p.x - v.x, p.y - v.y) <= near * near) =>
                GridRoom(p) \in NearestRooms(v, r)
=============================================================================
