--------------------------- MODULE LiveMapProofs ---------------------------
(* Proofs about LiveMap, for a map, places, radii and limits of any size, any *)
(* time and any number of transactions under way.                             *)
EXTENDS LiveMap, FiniteSetTheorems, SequenceTheorems, WellFoundedInduction, TLAPS

-----------------------------------------------------------------------------
(* Arithmetic of rooms. *)

LEMMA Floor ==
    \A z \in Int :
        /\ z \div GridSize \in Int
        /\ GridSize * (z \div GridSize) <= z
        /\ z < GridSize * (z \div GridSize) + GridSize
BY GridAssumption

LEMMA FloorMonotone ==
    \A y, z \in Int : y <= z => y \div GridSize <= z \div GridSize
BY GridAssumption

LEMMA SquaresOrdered ==
    \A a, b \in Int : (-b <= a /\ a <= b) => a * a <= b * b
<1> SUFFICES ASSUME NEW a \in Int, NEW b \in Int, -b <= a, a <= b
             PROVE  a * a <= b * b
  OBVIOUS
<1>1. 0 <= (b - a) * (b + a)
  OBVIOUS
<1>2. (b - a) * (b + a) = b * b - a * a
  OBVIOUS
<1> QED
  BY <1>1, <1>2

LEMMA RootsOrdered ==
    \A a, b \in Int : (a * a <= b * b /\ 0 <= b) => -b <= a /\ a <= b
<1> SUFFICES ASSUME NEW a \in Int, NEW b \in Int, a * a <= b * b, 0 <= b
             PROVE  -b <= a /\ a <= b
  OBVIOUS
<1>1. ASSUME b < a PROVE FALSE
  <2>1. b * b <= a * b /\ a * b < a * a
    BY <1>1
  <2> QED
    BY <2>1
<1>2. ASSUME a < -b PROVE FALSE
  <2>1. b * b <= (-a) * b /\ (-a) * b < (-a) * (-a) /\ (-a) * (-a) = a * a
    BY <1>2
  <2> QED
    BY <2>1
<1> QED
  BY <1>1, <1>2

\* Scaling an offset of rooms to points.
LEMMA ScaledSquares ==
    \A i, j \in Int :
        (GridSize * i) * (GridSize * i) + (GridSize * j) * (GridSize * j)
            = (GridSize * GridSize) * (i * i + j * j)
BY GridAssumption

\* The gap to a column is no more than the sides of the columns between.
LEMMA GapBound ==
    \A z, i \in Int :
        LET n == GridSize * (i - z \div GridSize)
        IN Gap(z, i) \in Nat /\ (Gap(z, i) <= n \/ Gap(z, i) <= -n)
<1> SUFFICES ASSUME NEW z \in Int, NEW i \in Int
             PROVE  LET n == GridSize * (i - z \div GridSize)
                    IN Gap(z, i) \in Nat /\ (Gap(z, i) <= n \/ Gap(z, i) <= -n)
  OBVIOUS
<1> DEFINE k == z \div GridSize
<1>1. k \in Int /\ GridSize * k <= z /\ z < GridSize * k + GridSize
  BY Floor
<1> HIDE DEF k
<1>2. GridSize * (i - k) = GridSize * i - GridSize * k
  BY <1>1, GridAssumption
<1>3. GridSize * i \in Int /\ GridSize * k \in Int
  BY <1>1, GridAssumption
<1>4. CASE i = k
  BY <1>1, <1>3, <1>4, GridAssumption DEF Gap, k
<1>5. CASE i < k
  <2>1. GridSize * i + GridSize <= GridSize * k
    BY <1>1, <1>5, GridAssumption
  <2> QED
    BY <1>1, <1>2, <1>3, <2>1, GridAssumption DEF Gap, k
<1>6. CASE i > k
  <2>1. GridSize * k + GridSize <= GridSize * i
    BY <1>1, <1>6, GridAssumption
  <2> QED
    BY <1>1, <1>2, <1>3, <2>1, GridAssumption DEF Gap, k
<1> QED
  BY <1>1, <1>4, <1>5, <1>6

\* Nothing far away: a room of the list comes within the radius.
LEMMA RoomsInReach ==
    ASSUME NEW v \in [x : Nat, y : Nat], NEW r \in Nat,
           NEW col \in Int, NEW row \in Int,
           Room(col, row) \in NearestRooms(v, r)
    PROVE  SquaredDistance(Gap(v.x, col), Gap(v.y, row)) <= r * r
<1> DEFINE i == col - v.x \div GridSize
           j == row - v.y \div GridSize
           reach == r \div GridSize
           m == GridSize * i
           n == GridSize * j
           gx == Gap(v.x, col)
           gy == Gap(v.y, row)
<1>1. reach \in Int /\ GridSize * reach <= r /\ i \in Int /\ j \in Int
  BY Floor
<1>2. i * i + j * j <= reach * reach
  <2>1. LET room == Room(col, row)
        IN IsInside(room.col - GridRoom(v).col, room.row - GridRoom(v).row, reach)
    BY DEF NearestRooms
  <2>2. /\ Room(col, row).col = col /\ Room(col, row).row = row
        /\ GridRoom(v).col = v.x \div GridSize /\ GridRoom(v).row = v.y \div GridSize
    BY DEF GridRoom, Room
  <2> QED
    BY <2>1, <2>2 DEF IsInside, SquaredDistance
<1>3. /\ gx \in Nat /\ (gx <= m \/ gx <= -m)
      /\ gy \in Nat /\ (gy <= n \/ gy <= -n)
  <2>1. v.x \in Int /\ v.y \in Int
    OBVIOUS
  <2>2. gx \in Nat /\ (gx <= m \/ gx <= -m)
    BY <2>1, GapBound
  <2>3. gy \in Nat /\ (gy <= n \/ gy <= -n)
    BY <2>1, GapBound
  <2> QED
    BY <2>2, <2>3
<1>4. m * m + n * n = (GridSize * GridSize) * (i * i + j * j)
  BY <1>1, ScaledSquares
<1> HIDE DEF i, j, reach, gx, gy
<1>5. m \in Int /\ n \in Int
  BY <1>1, GridAssumption
<1>6. gx * gx <= m * m /\ gy * gy <= n * n
  <2>1. gx * gx <= m * m
    <3> HIDE DEF m
    <3> QED
      BY <1>3, <1>5, SquaresOrdered
  <2>2. gy * gy <= n * n
    <3> HIDE DEF n
    <3> QED
      BY <1>3, <1>5, SquaresOrdered
  <2> QED
    BY <2>1, <2>2
<1>7. (GridSize * GridSize) * (i * i + j * j)
        <= (GridSize * GridSize) * (reach * reach)
  BY <1>1, <1>2, GridAssumption
<1>8. (GridSize * GridSize) * (reach * reach) <= r * r
  <2>1. 0 <= reach
    BY GridAssumption DEF reach
  <2>2. (GridSize * reach) * (GridSize * reach) <= r * r
    BY <1>1, <2>1, SquaresOrdered, GridAssumption
  <2> QED
    BY <1>1, <2>2, GridAssumption
<1>9. gx * gx + gy * gy <= r * r
  BY <1>1, <1>3, <1>4, <1>5, <1>6, <1>7, <1>8, GridAssumption
<1> QED
  BY <1>9 DEF SquaredDistance, gx, gy

\* Points that differ by d lie in rooms that differ by less than a side more.
LEMMA RoomOffset ==
    ASSUME NEW y \in Int, NEW z \in Int, NEW b \in Nat,
           -b <= z - y, z - y <= b
    PROVE  LET n == GridSize * (z \div GridSize - y \div GridSize)
           IN n \in Int /\ -(b + GridSize) <= n /\ n <= b + GridSize
<1> DEFINE i == z \div GridSize
           k == y \div GridSize
<1>1. /\ i \in Int /\ GridSize * i <= z /\ z < GridSize * i + GridSize
      /\ k \in Int /\ GridSize * k <= y /\ y < GridSize * k + GridSize
  BY Floor
<1> HIDE DEF i, k
<1>2. GridSize * (i - k) = GridSize * i - GridSize * k
  BY <1>1, GridAssumption
<1>3. GridSize * i \in Int /\ GridSize * k \in Int
  BY <1>1, GridAssumption
<1>4. GridSize * (i - k) \in Int
  BY <1>2, <1>3
<1> QED
  BY <1>1, <1>2, <1>3, <1>4, GridAssumption DEF i, k

\* Everyone near: a circle smaller by three rooms lies in the rooms of the list.
LEMMA NearInReach ==
    ASSUME NEW v \in [x : Nat, y : Nat], NEW p \in [x : Nat, y : Nat],
           NEW r \in Nat,
           r - 3 * GridSize >= 0,
           SquaredDistance(p.x - v.x, p.y - v.y)
               <= (r - 3 * GridSize) * (r - 3 * GridSize)
    PROVE  GridRoom(p) \in NearestRooms(v, r)
<1> DEFINE dx == p.x - v.x
           dy == p.y - v.y
           near == r - 3 * GridSize
           i == p.x \div GridSize - v.x \div GridSize
           j == p.y \div GridSize - v.y \div GridSize
           reach == r \div GridSize
           m == GridSize * i
           n == GridSize * j
           ax == IF dx < 0 THEN -dx ELSE dx
           ay == IF dy < 0 THEN -dy ELSE dy
<1>1. /\ v.x \in Int /\ v.y \in Int /\ p.x \in Int /\ p.y \in Int
      /\ GridSize \in Nat /\ GridSize > 0 /\ near \in Nat
  BY GridAssumption
<1>2. /\ reach \in Int /\ r < GridSize * reach + GridSize /\ i \in Int /\ j \in Int
      /\ GridSize * reach \in Int
  BY <1>1, Floor
<1>3. ax * ax + ay * ay <= near * near
  BY <1>1 DEF SquaredDistance
<1>4. ax \in Nat /\ ay \in Nat /\ dx <= ax /\ -ax <= dx /\ dy <= ay /\ -ay <= dy
  BY <1>1
<1>5. ax <= near /\ ay <= near
  <2> HIDE DEF ax, ay, near
  <2>1. /\ ax * ax \in Nat /\ ay * ay \in Nat
        /\ ax * ax <= near * near /\ ay * ay <= near * near
    BY <1>1, <1>3, <1>4
  <2> QED
    BY <1>1, <1>4, <2>1, RootsOrdered
<1>6. /\ m \in Int /\ -(ax + GridSize) <= m /\ m <= ax + GridSize
      /\ n \in Int /\ -(ay + GridSize) <= n /\ n <= ay + GridSize
  BY <1>1, <1>4, RoomOffset
<1>7. i * i + j * j <= reach * reach
  <2>1. (GridSize * GridSize) * (i * i + j * j) = m * m + n * n
    BY <1>2, ScaledSquares
  <2>2. m * m <= (ax + GridSize) * (ax + GridSize)
    <3> HIDE DEF m, ax
    <3> QED
      BY <1>1, <1>4, <1>6, SquaresOrdered
  <2>3. n * n <= (ay + GridSize) * (ay + GridSize)
    <3> HIDE DEF n, ay
    <3> QED
      BY <1>1, <1>4, <1>6, SquaresOrdered
  <2>4. (ax + GridSize) * (ax + GridSize) + (ay + GridSize) * (ay + GridSize)
          <= (near + 2 * GridSize) * (near + 2 * GridSize)
    <3> HIDE DEF ax, ay, near
    <3>1. GridSize * ax <= GridSize * near /\ GridSize * ay <= GridSize * near
      BY <1>1, <1>4, <1>5
    <3>2. (ax + GridSize) * (ax + GridSize)
            = ax * ax + 2 * (GridSize * ax) + GridSize * GridSize
      BY <1>1, <1>4
    <3>3. (ay + GridSize) * (ay + GridSize)
            = ay * ay + 2 * (GridSize * ay) + GridSize * GridSize
      BY <1>1, <1>4
    <3>4. (near + 2 * GridSize) * (near + 2 * GridSize)
            = near * near + 4 * (GridSize * near) + 4 * (GridSize * GridSize)
      BY <1>1
    <3>5. 0 <= GridSize * GridSize
      BY <1>1
    <3> QED
      BY <1>1, <1>3, <1>4, <3>1, <3>2, <3>3, <3>4, <3>5
  <2>5. (near + 2 * GridSize) * (near + 2 * GridSize)
          <= (GridSize * reach) * (GridSize * reach)
    <3>1. near + 2 * GridSize \in Nat /\ near + 2 * GridSize <= GridSize * reach
      BY <1>1, <1>2
    <3> HIDE DEF near, reach
    <3> QED
      BY <1>1, <1>2, <3>1, SquaresOrdered
  <2>6. (GridSize * reach) * (GridSize * reach)
          = (GridSize * GridSize) * (reach * reach)
    BY <1>1, <1>2
  <2> HIDE DEF i, j, reach, m, n, ax, ay, near
  <2>7. (GridSize * GridSize) * (i * i + j * j)
          <= (GridSize * GridSize) * (reach * reach)
    BY <1>1, <1>2, <1>4, <1>6, <2>1, <2>2, <2>3, <2>4, <2>5, <2>6
  <2>8. ASSUME NEW a \in Int, NEW b \in Int, NEW c \in Nat \ {0}, c * a <= c * b
        PROVE  a <= b
    BY <2>8
  <2>9. GridSize * GridSize \in Nat \ {0}
    BY <1>1
  <2>10. i * i + j * j \in Int /\ reach * reach \in Int
    BY <1>2
  <2> QED
    BY <2>7, <2>8, <2>9, <2>10
<1>8. /\ p.x \div GridSize \in (v.x - r) \div GridSize .. (v.x + r) \div GridSize
      /\ p.y \div GridSize \in (v.y - r) \div GridSize .. (v.y + r) \div GridSize
  <2>1. /\ v.x - r <= p.x /\ p.x <= v.x + r /\ v.y - r <= p.y /\ p.y <= v.y + r
    BY <1>1, <1>4, <1>5
  <2> QED
    BY <1>1, <2>1, Floor, FloorMonotone
<1>9. GridRoom(p) \in [col : (v.x - r) \div GridSize .. (v.x + r) \div GridSize,
                       row : (v.y - r) \div GridSize .. (v.y + r) \div GridSize]
  BY <1>8 DEF GridRoom, Room
<1>10. LET room == GridRoom(p)
       IN IsInside(room.col - GridRoom(v).col, room.row - GridRoom(v).row, reach)
  <2>1. /\ GridRoom(p).col = p.x \div GridSize /\ GridRoom(p).row = p.y \div GridSize
        /\ GridRoom(v).col = v.x \div GridSize /\ GridRoom(v).row = v.y \div GridSize
    BY DEF GridRoom, Room
  <2> QED
    BY <1>7, <2>1 DEF IsInside, SquaredDistance
<1> QED
  BY <1>9, <1>10 DEF NearestRooms

-----------------------------------------------------------------------------
(* Type correctness. *)

LEMMA RetentionBound == Retention \in Nat /\ Retention <= MaxTime
<1> DEFINE whole == MaxTime \div Second
<1>1. whole \in Nat /\ Second * whole <= MaxTime
  BY LiveMapAssumption
<1>2. Second * whole \in Nat
  BY <1>1, LiveMapAssumption
<1> QED
  BY <1>1, <1>2 DEF Retention

LEMMA TrimmedType ==
    ASSUME NEW set \in [Places -> Nat], NEW limit
    PROVE  /\ ZRemRangeByRank(set) \in [Places -> Nat]
           /\ ZRemRangeByScore(set, limit) \in [Places -> Nat]
BY DEF ZRemRangeByRank, ZRemRangeByScore

\* The transaction that is executed next.
LEMMA HeadOfSent ==
    ASSUME TypeOK, sent # <<>>
    PROVE  /\ Head(sent).place \in Places /\ Head(sent).at \in Nat \ {0}
           /\ Head(sent) = sent[1] /\ 1 \in 1 .. Len(sent)
           /\ Tail(sent) \in Seq(Visit)
           /\ Len(sent) \in Nat
           /\ \A i \in 1 .. Len(Tail(sent)) :
                i + 1 \in 1 .. Len(sent) /\ Tail(sent)[i] = sent[i + 1]
<1>1. Head(sent) \in Visit
  BY HeadTailProperties DEF TypeOK
<1>2. Len(sent) \in Nat \ {0} /\ Len(Tail(sent)) = Len(sent) - 1
  BY EmptySeq, HeadTailProperties DEF TypeOK
<1> QED
  BY <1>1, <1>2, HeadTailProperties DEF TypeOK, Visit

LEMMA SentTypes ==
    TypeOK => \A i \in 1 .. Len(sent) : sent[i].place \in Places /\ sent[i].at \in Nat
<1> SUFFICES ASSUME TypeOK, NEW i \in 1 .. Len(sent)
             PROVE  sent[i].place \in Places /\ sent[i].at \in Nat
  OBVIOUS
<1>1. sent[i] \in Visit
  BY ElementOfSeq DEF TypeOK
<1> QED
  BY <1>1 DEF Visit

LEMMA InitType == Init => TypeOK
BY DEF Init, TypeOK, Empty

LEMMA NextType == TypeOK /\ [Next]_vars => TypeOK'
<1> SUFFICES ASSUME TypeOK, [Next]_vars PROVE TypeOK'
  OBVIOUS
<1>1. ASSUME NEW p \in Places, AddDataPoint(p) PROVE TypeOK'
  <2>1. [place |-> p, at |-> clock] \in Visit
    BY DEF TypeOK, Visit
  <2> QED
    BY <1>1, <2>1 DEF TypeOK, AddDataPoint
<1>2. CASE Execute
  <2> DEFINE visit == Head(sent)
             added == ZAdd(trail, visit.place, visit.at)
             live  == IF Retention = 0 THEN Empty ELSE added
  <2>1. /\ visit.place \in Places /\ visit.at \in Nat /\ Tail(sent) \in Seq(Visit)
    BY <1>2, HeadOfSent DEF Execute
  <2>2. added \in [Places -> Nat] /\ Empty \in [Places -> Nat]
    BY <2>1 DEF TypeOK, ZAdd, Empty
  <2>3. live \in [Places -> Nat]
    BY <2>2
  <2>4. trail' \in [Places -> Nat]
    <3>1. trail' = ZRemRangeByScore(ZRemRangeByRank(live), visit.at - MaxTime)
      BY <1>2 DEF Execute
    <3> HIDE DEF live, visit
    <3> QED
      BY <2>3, <3>1, TrimmedType
  <2>5. expires' \in Nat /\ clock' = clock
    BY <1>2, RetentionBound DEF Execute, TypeOK
  <2>6. visited' \in [Places -> Nat] /\ sent' \in Seq(Visit)
    BY <1>2, <2>1 DEF Execute, TypeOK
  <2> QED
    BY <2>4, <2>5, <2>6 DEF TypeOK
<1>3. CASE Crash
  BY <1>3 DEF TypeOK, Crash
<1>4. CASE Tick
  BY <1>4 DEF TypeOK, Tick, Empty
<1>5. CASE UNCHANGED vars
  BY <1>5 DEF TypeOK, vars
<1> QED
  BY <1>1, <1>2, <1>3, <1>4, <1>5 DEF Next

\* Every variable has the values the code can give it.
THEOREM TypeCorrect == Spec => []TypeOK
BY InitType, NextType, PTL DEF Spec

-----------------------------------------------------------------------------
(* What trimming leaves. *)

LEMMA LeastElement ==
    ASSUME NEW T \in SUBSET Nat, T # {}
    PROVE  \E m \in T : \A n \in T : m <= n
<1> DEFINE Less == OpToRel(<, Nat)
<1>1. IsWellFoundedOn(Less, Nat)
  BY NatLessThanWellFounded
<1>2. PICK m \in T : \A n \in T : <<n, m>> \notin Less
  <2> HIDE DEF Less
  <2> QED
    BY <1>1, WFMin
<1>3. \A n \in T : ~ (n < m)
  BY <1>2 DEF OpToRel
<1> QED
  BY <1>3

LEMMA AfterFinite ==
    \A set, p : /\ After(set, p) \subseteq Members(set)
                /\ IsFiniteSet(After(set, p)) /\ Cardinality(After(set, p)) \in Nat
                /\ IsFiniteSet(Members(set)) /\ Cardinality(Members(set)) \in Nat
BY LiveMapAssumption, FS_Subset, FS_CardinalityType DEF After, Members

\* Members are in a line.
LEMMA AfterOrders ==
    ASSUME NEW set \in [Places -> Nat]
    PROVE  /\ \A p \in Members(set) : p \notin After(set, p)
           /\ \A p, q \in Members(set) :
                p # q => p \in After(set, q) \/ q \in After(set, p)
           /\ \A p, q \in Members(set) :
                q \in After(set, p) => After(set, q) \subseteq After(set, p)
<1>1. \A p, q \in Places :
        /\ p.x \in Nat /\ p.y \in Nat
        /\ p # q => PackedBefore(p, q) \/ PackedBefore(q, p)
  BY LiveMapAssumption DEF PackedBefore
<1>2. \A p \in Places : ~PackedBefore(p, p)
  BY <1>1 DEF PackedBefore
<1>3. \A p, q, r \in Places :
        PackedBefore(p, q) /\ PackedBefore(q, r) => PackedBefore(p, r)
  BY <1>1 DEF PackedBefore
<1>4. \A p \in Members(set) : p \in Places /\ set[p] \in Nat
  BY DEF Members
<1> QED
  BY <1>1, <1>2, <1>3, <1>4 DEF After

\* The rank range leaves no more than the limit: of the places that stay, the
\* first has all the others after it.
LEMMA RankLimit ==
    ASSUME NEW set \in [Places -> Nat]
    PROVE  Cardinality(Members(ZRemRangeByRank(set))) <= MaxPoints
<1> DEFINE kept == Members(ZRemRangeByRank(set))
           room(p) == MaxPoints - Cardinality(After(set, p))
<1>1. \A p \in kept : /\ p \in Members(set)
                       /\ Cardinality(After(set, p)) < MaxPoints
                       /\ Cardinality(After(set, p)) \in Nat
  BY AfterFinite DEF Members, ZRemRangeByRank
<1>2. CASE kept = {}
  BY <1>2, FS_EmptySet, LiveMapAssumption
<1>3. CASE kept # {}
  <2>1. {room(p) : p \in kept} \subseteq Nat /\ {room(p) : p \in kept} # {}
    BY <1>1, <1>3, LiveMapAssumption
  <2>2. PICK first \in kept : \A p \in kept : room(first) <= room(p)
    <3> HIDE DEF room, kept
    <3>1. PICK m \in {room(p) : p \in kept} : \A n \in {room(p) : p \in kept} : m <= n
      BY <2>1, LeastElement
    <3> QED
      BY <3>1
  <2> DEFINE others == After(set, first)
  <2>3. IsFiniteSet(others) /\ Cardinality(others) \in Nat /\ Cardinality(others) < MaxPoints
    BY <1>1, AfterFinite
  <2>4. \A p \in kept : p # first => p \in others
    <3> SUFFICES ASSUME NEW p \in kept, p # first, first \in After(set, p) PROVE FALSE
      BY <1>1, AfterOrders
    <3>1. others \subseteq After(set, p) /\ first \notin others
      BY <1>1, AfterOrders
    <3>2. others # After(set, p)
      BY <3>1
    <3>3. Cardinality(others) <= Cardinality(After(set, p))
          /\ Cardinality(others) # Cardinality(After(set, p))
      BY <3>1, <3>2, AfterFinite, FS_Subset
    <3> QED
      BY <1>1, <2>2, <3>3, LiveMapAssumption
  <2>5. kept \subseteq others \cup {first}
    BY <2>4
  <2>6. IsFiniteSet(others \cup {first}) /\ Cardinality(others \cup {first}) <= MaxPoints
    <3> HIDE DEF others
    <3>1. /\ IsFiniteSet(others \cup {first})
          /\ Cardinality(others \cup {first}) =
                IF first \in others THEN Cardinality(others) ELSE Cardinality(others) + 1
      BY <2>3, FS_AddElement, Zenon
    <3> QED
      BY <2>3, <3>1, LiveMapAssumption
  <2>7. Cardinality(kept) \in Nat /\ Cardinality(kept) <= Cardinality(others \cup {first})
    BY <2>5, <2>6, FS_Subset, FS_CardinalityType
  <2>8. Cardinality(others \cup {first}) \in Nat
    BY <2>6, FS_CardinalityType
  <2> QED
    BY <2>6, <2>7, <2>8, LiveMapAssumption
<1> QED
  BY <1>2, <1>3

-----------------------------------------------------------------------------
(* The trail. *)

LEMMA InitTrail == Init => TrailInv
<1> SUFFICES ASSUME Init PROVE TrailInv
  OBVIOUS
<1>1. TypeOK
  BY InitType
<1>2. Members(visited) = {} /\ Members(trail) = {}
  BY DEF Init, Empty, Members
<1>3. VisitsInOrder
  BY DEF Init, VisitsInOrder, Empty
<1>4. TrailFollowsVisits /\ TrailComplete
  BY <1>2 DEF Init, TrailFollowsVisits, TrailComplete, Empty
<1>5. TrailTrimmed
  BY <1>2, FS_EmptySet, LiveMapAssumption DEF TrailTrimmed
<1> QED
  BY <1>1, <1>3, <1>4, <1>5 DEF TrailInv

LEMMA AddDataPointTrail ==
    ASSUME TrailInv, NEW p \in Places, AddDataPoint(p)
    PROVE  TrailInv'
<1> USE DEF TrailInv, AddDataPoint
<1>1. TypeOK'
  BY NextType DEF Next
<1>2. /\ Len(sent) \in Nat /\ Len(sent') = Len(sent) + 1
      /\ \A i \in 1 .. Len(sent) : sent'[i] = sent[i]
      /\ sent'[Len(sent) + 1].at = clock
  BY DEF TypeOK
<1>3. \A i \in 1 .. Len(sent) : sent[i].at \in Nat
  BY SentTypes
<1>4. VisitsInOrder'
  <2>1. \A i \in 1 .. Len(sent') : i \in 1 .. Len(sent) \/ i = Len(sent) + 1
    BY <1>2
  <2>2. clock \in Nat
    BY DEF TypeOK
  <2> QED
    BY <1>2, <1>3, <2>1, <2>2 DEF VisitsInOrder
<1>5. TrailFollowsVisits' /\ TrailComplete' /\ TrailTrimmed'
  BY DEF TrailFollowsVisits, TrailComplete, TrailTrimmed, VisitedSince, Members
<1> QED
  BY <1>1, <1>4, <1>5

LEMMA CrashTrail ==
    ASSUME TrailInv, Crash
    PROVE  TrailInv'
<1> USE DEF TrailInv, Crash
<1>1. TypeOK'
  BY NextType DEF Next
<1>2. Len(sent') = 0
  BY EmptySeq
<1>3. VisitsInOrder'
  BY <1>2 DEF VisitsInOrder
<1>4. TrailFollowsVisits' /\ TrailComplete' /\ TrailTrimmed'
  BY DEF TrailFollowsVisits, TrailComplete, TrailTrimmed, VisitedSince, Members
<1> QED
  BY <1>1, <1>3, <1>4

LEMMA TickTrail ==
    ASSUME TrailInv, Tick
    PROVE  TrailInv'
<1> USE DEF TrailInv, Tick
<1>1. TypeOK'
  BY NextType DEF Next
<1>2. /\ clock \in Nat /\ expires \in Nat /\ visited \in [Places -> Nat]
      /\ Retention \in Nat
  BY RetentionBound DEF TypeOK
<1>3. VisitsInOrder'
  <2>1. \A i \in 1 .. Len(sent) : sent[i].at \in Nat
    BY SentTypes
  <2> QED
    BY <1>2, <2>1 DEF VisitsInOrder
<1>4. TrailFollowsVisits'
  BY DEF TrailFollowsVisits, Members, Empty
<1>5. TrailComplete'
  <2> SUFFICES ASSUME NEW p \in Members(visited),
                      clock + 1 < visited[p] + Retention,
                      Cardinality(VisitedSince(p)) < MaxPoints
               PROVE  trail'[p] = visited[p]
    BY DEF TrailComplete, Members, VisitedSince
  <2>1. p \in Places /\ visited[p] \in Nat /\ clock < visited[p] + Retention
    BY <1>2 DEF Members
  <2>2. trail[p] = visited[p]
    BY <2>1 DEF TrailComplete
  <2>3. ~(expires <= clock + 1)
    BY <1>2, <2>1 DEF TrailFollowsVisits
  <2> QED
    BY <2>2, <2>3
<1>6. TrailTrimmed'
  <2>1. CASE expires <= clock + 1
    <3>1. Members(trail') = {}
      BY <2>1 DEF Members, Empty
    <3>2. Cardinality(Members(trail')) <= MaxPoints
      BY <3>1, FS_EmptySet, LiveMapAssumption
    <3>3. Members(trail)' = {}
      BY <3>1 DEF Members
    <3> QED
      BY <3>1, <3>2, <3>3 DEF TrailTrimmed
  <2>2. CASE ~(expires <= clock + 1)
    BY <2>2 DEF TrailTrimmed, Members
  <2> QED
    BY <2>1, <2>2
<1> QED
  BY <1>1, <1>3, <1>4, <1>5, <1>6

LEMMA ExecuteTrail ==
    ASSUME TrailInv, Execute
    PROVE  TrailInv'
<1> DEFINE place == Head(sent).place
           at    == Head(sent).at
           added == ZAdd(trail, place, at)
           live  == IF Retention = 0 THEN Empty ELSE added
           ranked == ZRemRangeByRank(live)
<1> USE DEF TrailInv
<1>1. TypeOK'
  BY NextType DEF Next
<1>2. /\ clock \in Nat /\ Retention \in Nat /\ Retention <= MaxTime /\ MaxTime \in Nat
      /\ visited \in [Places -> Nat] /\ trail \in [Places -> Nat]
      /\ place \in Places /\ at \in Nat \ {0}
  BY HeadOfSent, RetentionBound, LiveMapAssumption DEF Execute, TypeOK
<1>3. /\ visited' = [visited EXCEPT ![place] = at]
      /\ trail' = ZRemRangeByScore(ranked, at - MaxTime)
      /\ expires' = clock + Retention
      /\ clock' = clock
      /\ sent' = Tail(sent)
  BY DEF Execute
\* The visit is the latest: its time is between all the others and the clock.
<1>4. at <= clock /\ \A p \in Places : visited[p] <= at
  BY HeadOfSent DEF Execute, VisitsInOrder
<1>5. /\ added \in [Places -> Nat] /\ live \in [Places -> Nat]
      /\ \A p \in Places : added[p] \in {0, visited'[p]} /\ visited'[p] <= at
      /\ \A p \in Places : trail'[p] \in {0, live[p]} /\ live[p] \in {0, added[p]}
  BY <1>2, <1>3, <1>4
  DEF ZAdd, Empty, ZRemRangeByRank, ZRemRangeByScore, TrailFollowsVisits
<1>6. VisitsInOrder'
  <2>1. \A i \in 1 .. Len(sent') :
            /\ i + 1 \in 1 .. Len(sent) /\ sent'[i] = sent[i + 1]
            /\ 1 < i + 1 /\ sent[i + 1].at \in Nat
    BY <1>3, HeadOfSent, SentTypes DEF Execute
  <2>2. \A i \in 1 .. Len(sent') : at <= sent'[i].at
    BY <2>1, HeadOfSent DEF Execute, VisitsInOrder
  <2>3. /\ \A i \in 1 .. Len(sent') : sent'[i].at <= clock
        /\ \A i, j \in 1 .. Len(sent') : i < j => sent'[i].at <= sent'[j].at
    BY <2>1 DEF VisitsInOrder
  <2>4. \A p \in Places : visited'[p] \in Nat /\ visited'[p] <= clock
    BY <1>1, <1>2, <1>4, <1>5 DEF TypeOK
  <2>5. \A i \in 1 .. Len(sent'), p \in Places : visited'[p] <= sent'[i].at
    <3> HIDE DEF place, at, added, live
    <3>1. \A i \in 1 .. Len(sent') : sent'[i].at \in Nat
      BY <2>1
    <3> QED
      BY <1>2, <1>5, <2>2, <2>4, <3>1
  <2> QED
    BY <1>3, <2>3, <2>4, <2>5 DEF VisitsInOrder
<1>7. TrailFollowsVisits'
  <2>1. \A p \in Places : trail'[p] \in {0, visited'[p]}
    BY <1>5
  <2>2. \A p \in Places : visited'[p] + Retention <= expires'
    <3> HIDE DEF place, at, added, live
    <3>1. \A p \in Places : visited'[p] \in Nat
      BY <1>1 DEF TypeOK
    <3> QED
      BY <1>2, <1>3, <1>4, <1>5, <3>1
  <2> QED
    BY <1>3, <2>1, <2>2 DEF TrailFollowsVisits, Members
<1>8. TrailComplete'
  <2> SUFFICES ASSUME NEW p \in Places, visited'[p] # 0,
                      clock < visited'[p] + Retention,
                      Cardinality(VisitedSince(p)') < MaxPoints
               PROVE  trail'[p] = visited'[p]
    BY <1>3 DEF TrailComplete, Members
  <2>1. visited'[p] \in Nat /\ visited'[p] <= at
    BY <1>1, <1>5 DEF TypeOK
  <2>2. IsFiniteSet(VisitedSince(p)') /\ Cardinality(VisitedSince(p)') \in Nat
    BY LiveMapAssumption, FS_Subset, FS_CardinalityType DEF VisitedSince
  <2>3. Retention # 0 /\ live = added
    BY <1>2, <1>4, <2>1
  <2>4. added[p] = visited'[p]
    <3>1. CASE p = place
      BY <1>2, <1>3, <3>1 DEF ZAdd
    <3>2. CASE p # place
      <4>1. visited[p] = visited'[p] /\ added[p] = trail[p]
        BY <1>2, <1>3, <3>2 DEF ZAdd
      <4>2. VisitedSince(p) \subseteq VisitedSince(p)'
        BY <1>2, <1>3, <1>4, <4>1 DEF VisitedSince
      <4>3. Cardinality(VisitedSince(p)) < MaxPoints
        <5>1. /\ Cardinality(VisitedSince(p)) \in Nat
              /\ Cardinality(VisitedSince(p)) <= Cardinality(VisitedSince(p)')
          BY <2>2, <4>2, FS_Subset, FS_CardinalityType
        <5> QED
          BY <2>2, <5>1, LiveMapAssumption
      <4> QED
        BY <4>1, <4>3 DEF TrailComplete, Members
    <3> QED
      BY <3>1, <3>2
  <2>5. After(added, p) \subseteq VisitedSince(p)'
    <3> SUFFICES ASSUME NEW q \in After(added, p)
                 PROVE  q \in VisitedSince(p)'
      OBVIOUS
    <3>1. /\ q \in Places /\ added[q] # 0
          /\ \/ added[q] > added[p]
             \/ added[q] = added[p] /\ PackedBefore(p, q)
      BY DEF After, Members
    <3>2. ~PackedBefore(p, p)
      <4>1. p.x \in Nat /\ p.y \in Nat
        BY LiveMapAssumption
      <4> QED
        BY <4>1 DEF PackedBefore
    <3>3. added[q] = visited'[q] /\ added[q] \in Nat /\ added[p] \in Nat
      BY <1>5, <3>1
    <3>4. q # p /\ visited'[q] >= visited'[p]
      BY <2>4, <3>1, <3>2, <3>3
    <3> QED
      BY <3>1, <3>4 DEF VisitedSince
  <2>6. ranked[p] = added[p]
    <3>1. /\ Cardinality(After(added, p)) \in Nat
          /\ Cardinality(After(added, p)) <= Cardinality(VisitedSince(p)')
      BY <2>2, <2>5, AfterFinite, FS_Subset
    <3>2. Cardinality(After(added, p)) < MaxPoints
      BY <2>2, <3>1, LiveMapAssumption
    <3> QED
      BY <2>3, <3>2 DEF ZRemRangeByRank
  <2>7. visited'[p] > at - MaxTime
    BY <1>2, <1>4, <2>1
  <2> QED
    BY <1>3, <2>4, <2>6, <2>7 DEF ZRemRangeByScore
<1>9. TrailTrimmed'
  <2>1. ranked \in [Places -> Nat] /\ trail' \in [Places -> Nat]
    BY <1>3, <1>5, TrimmedType
  <2>2. Members(trail') \subseteq Members(ranked)
    BY <1>3, <2>1 DEF Members, ZRemRangeByScore
  <2>3. Cardinality(Members(ranked)) <= MaxPoints
    BY <1>5, RankLimit
  <2>4. Cardinality(Members(trail')) <= MaxPoints
    <3>1. /\ Cardinality(Members(trail')) \in Nat
          /\ Cardinality(Members(ranked)) \in Nat
          /\ Cardinality(Members(trail')) <= Cardinality(Members(ranked))
      BY <2>2, AfterFinite, FS_Subset
    <3> QED
      BY <2>3, <3>1, LiveMapAssumption
  <2>5. \A p \in Members(trail') : /\ trail'[p] \in Nat
                                    /\ trail'[p] <= at /\ trail'[p] > at - MaxTime
    <3> SUFFICES ASSUME NEW p \in Places, trail'[p] # 0
                 PROVE  /\ trail'[p] \in Nat
                        /\ trail'[p] <= at /\ trail'[p] > at - MaxTime
      BY DEF Members
    <3>1. trail'[p] = visited'[p]
      BY <1>5
    <3>2. trail'[p] > at - MaxTime
      BY <1>3 DEF ZRemRangeByScore
    <3> QED
      BY <1>5, <2>1, <3>1, <3>2
  <2>6. \A p, q \in Members(trail') : trail'[q] < trail'[p] + MaxTime
    BY <1>2, <2>5
  <2>7. Members(trail') = Members(trail)'
    BY DEF Members
  <2> QED
    BY <2>4, <2>6, <2>7 DEF TrailTrimmed
<1> QED
  BY <1>1, <1>6, <1>7, <1>8, <1>9

LEMMA NextTrail == TrailInv /\ [Next]_vars => TrailInv'
<1> SUFFICES ASSUME TrailInv, [Next]_vars PROVE TrailInv'
  OBVIOUS
<1>1. CASE UNCHANGED vars
  BY <1>1
  DEF vars, TrailInv, TypeOK, VisitsInOrder, TrailFollowsVisits, TrailComplete,
      TrailTrimmed, VisitedSince, Members
<1> QED
  BY <1>1, AddDataPointTrail, ExecuteTrail, CrashTrail, TickTrail DEF Next

LEMMA TrailInvariant == Spec => []TrailInv
BY InitTrail, NextTrail, PTL DEF Spec

\* Nothing is forgotten too early: a place is in the trail, with the time of
\* its last visit, while its visit is younger than the whole seconds of
\* TRAIL_MAX_STORE_TIME_MS and fewer than TRAIL_MAX_STORE_POINTS others were
\* visited as late.
THEOREM TrailIsComplete == Spec => []TrailComplete
<1>1. TrailInv => TrailComplete
  BY DEF TrailInv
<1> QED
  BY <1>1, TrailInvariant, PTL

\* Nothing is kept that ought to be forgotten when the next visit is recorded.
THEOREM TrailIsTrimmed == Spec => []TrailTrimmed
<1>1. TrailInv => TrailTrimmed
  BY DEF TrailInv
<1> QED
  BY <1>1, TrailInvariant, PTL

-----------------------------------------------------------------------------
(* The rooms of what is published. *)

LEMMA Published == TypeOK => JustPublished \subseteq [x : Nat, y : Nat]
<1> SUFFICES ASSUME TypeOK, NEW i \in 1 .. Len(sent)
             PROVE  sent[i].place \in [x : Nat, y : Nat]
  BY DEF JustPublished
<1> QED
  BY SentTypes, LiveMapAssumption

\* A viewer hears no one far away: the room of every position it hears comes
\* within the radius of the point it looks at.
THEOREM RoomsReach == Spec => []RoomsReachRadius
<1>1. TypeOK => RoomsReachRadius
  <2> SUFFICES ASSUME NEW v \in [x : Nat, y : Nat], NEW r \in Nat,
                      NEW p \in [x : Nat, y : Nat], GridRoom(p) \in NearestRooms(v, r)
               PROVE  SquaredDistance(Gap(v.x, GridRoom(p).col),
                                      Gap(v.y, GridRoom(p).row)) <= r * r
    BY Published, LiveMapAssumption DEF RoomsReachRadius
  <2>1. /\ GridRoom(p).col \in Int /\ GridRoom(p).row \in Int
        /\ GridRoom(p) = Room(GridRoom(p).col, GridRoom(p).row)
    BY Floor DEF GridRoom, Room
  <2> HIDE DEF GridRoom
  <2> QED
    BY <2>1, RoomsInReach
<1> QED
  BY <1>1, TypeCorrect, PTL

\* A viewer hears everyone who is nearer than the radius by three rooms.
THEOREM NearAreHeard == Spec => []NearPlayersHeard
<1>1. TypeOK => NearPlayersHeard
  BY Published, NearInReach, LiveMapAssumption DEF NearPlayersHeard
<1> QED
  BY <1>1, TypeCorrect, PTL
=============================================================================
