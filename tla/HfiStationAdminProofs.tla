----------------------- MODULE HfiStationAdminProofs -----------------------
(***************************************************************************)
(* What holds of the administration of stations for any planning areas,    *)
(* stations, admins, worker processes and numbers of requests.             *)
(***************************************************************************)
EXTENDS HfiStationAdmin, TLAPS, FiniteSetTheorems, WellFoundedInduction

\* How many members of S are no greater than each, by o.
RanksIn(S, o) == {Cardinality({j \in S : o[j] <= o[i]}) : i \in S}

(* Distinct numbers rank from 1 to how many they are.                      *)
LEMMA Ranks ==
  ASSUME NEW S, IsFiniteSet(S), NEW o, \A i \in S : o[i] \in Int,
         \A i, j \in S : o[i] = o[j] => i = j
  PROVE  RanksIn(S, o) = 1 .. Cardinality(S)
<1> DEFINE Upto(i) == {j \in S : o[j] <= o[i]}
           n == Cardinality(S)
           rank == [i \in S |-> Cardinality(Upto(i))]
<1>1. n \in Nat
  BY FS_CardinalityType
<1>2. ASSUME NEW i \in S
      PROVE  IsFiniteSet(Upto(i)) /\ Cardinality(Upto(i)) \in 1 .. n
  <2>1. IsFiniteSet(Upto(i)) /\ Cardinality(Upto(i)) <= n
    BY FS_Subset
  <2>2. i \in Upto(i)
    OBVIOUS
  <2>3. Cardinality(Upto(i)) # 0
    BY <2>1, <2>2, FS_EmptySet
  <2>4. Cardinality(Upto(i)) \in Nat
    BY <2>1, FS_CardinalityType
  <2> QED
    BY <1>1, <2>1, <2>3, <2>4
<1>3. ASSUME NEW i \in S, NEW k \in S, o[i] < o[k]
      PROVE  rank[i] # rank[k]
  <2>1. Upto(i) \in SUBSET Upto(k)
    BY <1>3
  <2>2. k \in Upto(k) /\ k \notin Upto(i)
    BY <1>3
  <2> HIDE DEF Upto
  <2>3. Upto(i) # Upto(k)
    BY <2>2
  <2>4. Cardinality(Upto(i)) # Cardinality(Upto(k))
    BY <1>2, <2>1, <2>3, FS_Subset
  <2> QED
    BY <2>4
<1> HIDE DEF Upto
<1>4. rank \in Injection(S, 1 .. n)
  <2>1. rank \in [S -> 1 .. n]
    BY <1>2
  <2>2. \A i, k \in S : rank[i] = rank[k] => i = k
    BY <1>3
  <2> QED
    BY <2>1, <2>2 DEF Injection, IsInjective
<1>5. IsFiniteSet(1 .. n) /\ Cardinality(1 .. n) = n
  BY <1>1, FS_Interval
<1> HIDE DEF rank
<1>6. rank \in Surjection(S, 1 .. n)
  BY <1>4, <1>5, FS_Injection
<1>7. {rank[i] : i \in S} = 1 .. n
  BY <1>6 DEF Surjection
<1> QED
  BY <1>7 DEF rank, Upto, RanksIn

(* Of consecutive numbers, one less than a number are smaller.             *)
LEMMA Smaller ==
  ASSUME NEW S, IsFiniteSet(S), NEW o, \A i, j \in S : o[i] = o[j] => i = j,
         NEW n \in Nat, {o[i] : i \in S} = 1 .. n, NEW i \in S
  PROVE  Cardinality({j \in S : o[j] < o[i]}) = o[i] - 1
<1> DEFINE T == {j \in S : o[j] < o[i]}
           f == [j \in T |-> o[j]]
<1>1. IsFiniteSet(T)
  BY FS_Subset
<1>2. \A j \in S : o[j] \in 1 .. n
  OBVIOUS
<1>3. f \in Bijection(T, 1 .. o[i] - 1)
  <2>1. f \in [T -> 1 .. o[i] - 1]
    BY <1>2
  <2>2. \A j, k \in T : f[j] = f[k] => j = k
    OBVIOUS
  <2>3. ASSUME NEW m \in 1 .. o[i] - 1
        PROVE  \E j \in T : f[j] = m
    <3>1. m \in 1 .. n
      BY <1>2
    <3>2. PICK j \in S : o[j] = m
      BY <3>1
    <3>3. j \in T
      BY <3>2, <1>2
    <3> QED
      BY <3>2, <3>3
  <2> QED
    BY <2>1, <2>2, <2>3 DEF Bijection, Injection, Surjection, IsInjective
<1>4. ExistsBijection(T, 1 .. o[i] - 1)
  BY <1>3 DEF ExistsBijection
<1>5. Cardinality(1 .. o[i] - 1) = Cardinality(T)
  BY <1>1, <1>4, FS_Bijection
<1>6. o[i] - 1 \in Nat
  BY <1>2
<1>7. Cardinality(1 .. o[i] - 1) = o[i] - 1
  BY <1>6, FS_Interval
<1> QED
  BY <1>5, <1>7

(* The largest of the numbers up to one is this one.                       *)
LEMMA LargestOfInterval ==
  ASSUME NEW n \in Nat
  PROVE  LargestOf(1 .. n) = n
<1>1. CASE n = 0
  BY <1>1 DEF LargestOf
<1>2. CASE n # 0
  <2>1. n \in 1 .. n /\ \A m \in 1 .. n : m <= n
    BY <1>2
  <2>2. ~ (1 .. n = {})
    BY <2>1
  <2>3. \A k \in 1 .. n : (\A m \in 1 .. n : m <= k) => k = n
    BY <2>1
  <2>4. LargestOf(1 .. n) = CHOOSE k \in 1 .. n : \A m \in 1 .. n : m <= k
    BY <2>2 DEF LargestOf
  <2> QED
    BY <2>1, <2>3, <2>4
<1> QED
  BY <1>1, <1>2

(* A set of numbers that is bounded and not empty has a largest one.       *)
LEMMA LargestIsLargest ==
  ASSUME NEW A, A # {}, NEW N \in Nat, \A x \in A : x \in 0 .. N
  PROVE  LargestOf(A) \in A /\ \A x \in A : x <= LargestOf(A)
<1> DEFINE Bounds == {b \in Nat : \A x \in A : x <= b}
           R == {p \in Nat \X Nat : p[1] < p[2]}
<1>1. Bounds \subseteq Nat /\ N \in Bounds
  OBVIOUS
<1>2. IsWellFoundedOn(R, Nat)
  BY NatLessThanWellFounded DEF OpToRel
<1> HIDE DEF R
<1>3. PICK b \in Bounds : \A c \in Bounds : ~(<<c, b>> \in R)
  BY <1>1, <1>2, WFMin
<1>4. b \in Nat /\ \A x \in A : x <= b
  OBVIOUS
<1>5. b \in A
  <2>1. SUFFICES ASSUME b \notin A PROVE FALSE
    OBVIOUS
  <2>2. \A x \in A : x < b /\ x \in Nat
    BY <1>4, <2>1
  <2>3. b # 0 /\ b - 1 \in Nat /\ b - 1 < b
    BY <1>4, <2>2
  <2>4. b - 1 \in Bounds
    BY <1>4, <2>2, <2>3
  <2>5. <<b - 1, b>> \in R
    BY <1>4, <2>3 DEF R
  <2> QED
    BY <1>3, <2>4, <2>5
<1>6. LargestOf(A) = CHOOSE n \in A : \A x \in A : x <= n
  BY DEF LargestOf
<1> QED
  BY <1>4, <1>5, <1>6

-----------------------------------------------------------------------------
(* The stations of the planning areas.                                     *)

\* The stations that may be in an area.
Pairs == {<<Initial[i][1], Initial[i][2]>> : i \in DOMAIN Initial} \union Offered
StationCodes == {p[1] : p \in Pairs}
RowType == [station : StationCodes, area : Areas, order : Nat, deleted : BOOLEAN]
Requests == [removed : SUBSET [area : Areas, station : StationCodes, row : Nat],
             added : Seq(Offered)]

\* The stations of each area are at first different, and numbered from 1 without a gap.
Parameters ==
  /\ MaxAdded \in Nat /\ MaxRequests \in Nat
  /\ Initial \in Seq(Int \X Areas \X Nat)
  /\ Offered \subseteq Int \X Areas
  /\ \A i, j \in DOMAIN Initial : i # j /\ Initial[i][2] = Initial[j][2] =>
       Initial[i][1] # Initial[j][1] /\ Initial[i][3] # Initial[j][3]
  /\ \A a \in Areas :
       LET here == {i \in DOMAIN Initial : Initial[i][2] = a}
       IN {Initial[i][3] : i \in here} = 1 .. Cardinality(here)

\* Rows are added, and stay what they are rows of.
Grown(now, rs) ==
  /\ Len(rs) <= Len(now)
  /\ \A i \in 1 .. Len(rs) : now[i].area = rs[i].area /\ now[i].station = rs[i].station

\* No order is larger than the number of rows.
Bounded(rs) == \A i \in 1 .. Len(rs) : rs[i].order <= Len(rs)

(* Two tables with the same rows of an area have the same stations in it.  *)
LEMMA SameRows ==
  ASSUME NEW rs, NEW qs, NEW a, RowsOf(rs, a) = RowsOf(qs, a)
  PROVE  /\ StationsIn(rs, a) = StationsIn(qs, a)
         /\ \A i : i \in DOMAIN rs /\ rs[i].area = a <=> i \in DOMAIN qs /\ qs[i].area = a
         /\ \A i \in DOMAIN rs : rs[i].area = a => rs[i] = qs[i]
<1> DEFINE A == {i \in DOMAIN rs : rs[i].area = a}
           B == {i \in DOMAIN qs : qs[i].area = a}
<1>1. A = B
  <2>1. DOMAIN RowsOf(rs, a) = A /\ DOMAIN RowsOf(qs, a) = B
    BY DEF RowsOf
  <2> QED
    BY <2>1
<1>2. \A i \in A : RowsOf(rs, a)[i] = rs[i] /\ RowsOf(qs, a)[i] = qs[i]
  BY <1>1 DEF RowsOf
<1>3. \A i \in A : rs[i] = qs[i]
  BY <1>2
<1> QED
  BY <1>1, <1>3 DEF StationsIn, Live

(* The rows after a save: those removed are deleted and without order, the *)
(* others of their areas have their rank, and additions come after these.  *)
LEMMA SavedRows ==
  ASSUME Parameters, NEW now \in Seq(RowType), NEW rs \in Seq(RowType), Grown(now, rs),
         Bounded(now), Bounded(rs), NEW f \in Requests
  PROVE  LET t == SaveStations(now, rs, f)
             gone == get_stations_for_removal(rs, f.removed)
         IN /\ t \in Seq(RowType) /\ Len(t) = Len(now) + Len(f.added) /\ Bounded(t)
            /\ \A i \in 1 .. Len(now) :
                 /\ t[i].area = now[i].area /\ t[i].station = now[i].station
                 /\ t[i].deleted <=> now[i].deleted \/ i \in gone
                 /\ t[i].order = IF i \in gone THEN 0
                                 ELSE IF i \in Moved(rs, f) THEN NewOrder(rs, f, gone, i)
                                 ELSE now[i].order
            /\ \A k \in 1 .. Len(f.added) : t[Len(now) + k] = AddedRow(rs, f, gone, k)
<1> DEFINE n == Len(now)
           l == Len(rs)
           m == Len(f.added)
           gone == get_stations_for_removal(rs, f.removed)
           t == SaveStations(now, rs, f)
           moved == Reordered(rs, f, gone)
<1>1. /\ n \in Nat /\ l \in Nat /\ m \in Nat /\ l <= n
      /\ DOMAIN now = 1 .. n /\ DOMAIN rs = 1 .. l /\ DOMAIN f.added = 1 .. m
      /\ f.added \in Seq(Offered)
      /\ \A i \in 1 .. n : now[i] \in RowType
      /\ \A i \in 1 .. l : rs[i] \in RowType
      /\ \A k \in 1 .. m : f.added[k] \in Offered
  BY DEF Requests, Grown
<1>2. /\ \A i \in 1 .. n : /\ now[i].order \in 0 .. n /\ now[i].area \in Areas
                           /\ now[i].deleted \in BOOLEAN /\ now[i].station \in StationCodes
      /\ \A i \in 1 .. l : /\ rs[i].order \in 0 .. l /\ rs[i].area \in Areas
                           /\ rs[i].deleted \in BOOLEAN /\ rs[i].station \in StationCodes
      /\ \A k \in 1 .. m : f.added[k][1] \in StationCodes /\ f.added[k][2] \in Areas
  <2>1. \A i \in 1 .. n : /\ now[i].order \in Nat /\ now[i].area \in Areas
                           /\ now[i].deleted \in BOOLEAN /\ now[i].station \in StationCodes
    BY <1>1 DEF RowType
  <2>2. \A i \in 1 .. l : /\ rs[i].order \in Nat /\ rs[i].area \in Areas
                           /\ rs[i].deleted \in BOOLEAN /\ rs[i].station \in StationCodes
    BY <1>1 DEF RowType
  <2>3. (\A i \in 1 .. n : now[i].order <= n) /\ (\A i \in 1 .. l : rs[i].order <= l)
    BY DEF Bounded
  <2>4. \A k \in 1 .. m : f.added[k][1] \in StationCodes /\ f.added[k][2] \in Areas
    BY <1>1 DEF Parameters, Pairs, StationCodes
  <2> HIDE DEF n, l, m
  <2> QED
    BY <1>1, <2>1, <2>2, <2>3, <2>4
<1>3. /\ gone \in SUBSET (1 .. l) /\ Staying(rs, f, gone) \in SUBSET (1 .. l)
      /\ moved \in SUBSET Staying(rs, f, gone) /\ moved \intersect gone = {}
  BY <1>1 DEF get_stations_for_removal, Reordered, Staying, Live
<1>4. ASSUME NEW i \in 1 .. l
      PROVE  NewOrder(rs, f, gone, i) \in 0 .. l
  <2> DEFINE upto == {j \in moved : rs[j].area = rs[i].area /\ rs[j].order <= rs[i].order}
  <2>2. upto \in SUBSET (1 .. l)
    BY <1>3
  <2> HIDE DEF upto, l
  <2>1. IsFiniteSet(1 .. l) /\ Cardinality(1 .. l) = l
    BY <1>1, FS_Interval
  <2>3. Cardinality(upto) \in Nat /\ Cardinality(upto) <= l
    BY <2>1, <2>2, FS_Subset, FS_CardinalityType
  <2> QED
    BY <1>1, <2>3 DEF NewOrder, upto
<1> HIDE DEF gone, moved, n, m, l
<1>5. ASSUME NEW a
      PROVE  get_next_order(rs, f, gone, a) \in 1 .. l + 1
  <2> DEFINE updated == {i \in moved : rs[i].area = a}
             existing == {i \in Staying(rs, f, gone) : rs[i].area = a}
             A == {NewOrder(rs, f, gone, i) : i \in updated}
             B == {rs[i].order : i \in existing}
  <2>1. (\A x \in A : x \in 0 .. l) /\ (\A x \in B : x \in 0 .. l)
    BY <1>2, <1>3, <1>4
  <2>2. get_next_order(rs, f, gone, a) = IF updated # {} THEN LargestOf(A) + 1 ELSE LargestOf(B) + 1
    BY DEF get_next_order, moved
  <2> HIDE DEF B
  <2>3. B = {} => LargestOf(B) = 0
    BY DEF LargestOf
  <2>4. B # {} => LargestOf(B) \in 0 .. l
    BY <1>1, <2>1, LargestIsLargest
  <2>5. updated # {} => A # {}
    OBVIOUS
  <2> HIDE DEF A, updated
  <2>6. A # {} => LargestOf(A) \in 0 .. l
    BY <1>1, <2>1, LargestIsLargest
  <2> QED
    BY <1>1, <2>2, <2>3, <2>4, <2>5, <2>6
<1>6. ASSUME NEW k \in 1 .. m
      PROVE  AddedRow(rs, f, gone, k) \in RowType /\ AddedRow(rs, f, gone, k).order <= n + m
  <2> DEFINE a == f.added[k][2]
             before == {j \in 1 .. k - 1 : f.added[j][2] = a}
             order == get_next_order(rs, f, gone, a) + Cardinality(before)
  <2>1. IsFiniteSet(1 .. k - 1) /\ Cardinality(1 .. k - 1) = k - 1
    <3>1. k - 1 \in Nat
      BY <1>1
    <3> QED
      BY <3>1, FS_Interval
  <2>2. IsFiniteSet(before) /\ Cardinality(before) \in Nat /\ Cardinality(before) <= k - 1
    <3>1. before \in SUBSET (1 .. k - 1)
      OBVIOUS
    <3> HIDE DEF before
    <3> QED
      BY <2>1, <3>1, FS_Subset, FS_CardinalityType
  <2>3. AddedRow(rs, f, gone, k) = [station |-> f.added[k][1], area |-> a, deleted |-> FALSE, order |-> order]
    BY DEF AddedRow
  <2>4. get_next_order(rs, f, gone, a) \in 1 .. l + 1
    BY <1>5
  <2> HIDE DEF before
  <2>5. order \in Nat /\ order <= n + m
    BY <1>1, <2>2, <2>4
  <2> HIDE DEF order
  <2> QED
    BY <1>2, <2>3, <2>5 DEF RowType
<1> DEFINE StationAfter(i) ==
             CASE i > n -> AddedRow(rs, f, gone, i - n)
               [] i \in gone -> [now[i] EXCEPT !.deleted = TRUE, !.order = 0]
               [] i \in moved -> [now[i] EXCEPT !.order = NewOrder(rs, f, gone, i)]
               [] OTHER -> now[i]
<1>7. t = [i \in 1 .. n + m |-> StationAfter(i)]
  BY DEF SaveStations, Saved, Moved, n, m, gone, moved
<1>8. ASSUME NEW i \in 1 .. n
      PROVE  StationAfter(i) = IF i \in gone THEN [now[i] EXCEPT !.deleted = TRUE, !.order = 0]
                      ELSE IF i \in moved THEN [now[i] EXCEPT !.order = NewOrder(rs, f, gone, i)]
                      ELSE now[i]
  <2>1. ~(i > n)
    BY <1>1
  <2>2. i \in gone => i \notin moved
    BY <1>3
  <2> QED
    BY <2>1, <2>2
<1>9. ASSUME NEW k \in 1 .. m
      PROVE  StationAfter(n + k) = AddedRow(rs, f, gone, k)
  <2> DEFINE i == n + k
  <2>1. i > n /\ i \notin 1 .. n /\ i - n = k /\ i \notin 1 .. l
    BY <1>1
  <2> HIDE DEF i
  <2>2. i \notin gone /\ i \notin moved
    BY <2>1, <1>3
  <2>3. StationAfter(i) = AddedRow(rs, f, gone, k)
    BY <2>1, <2>2
  <2> QED
    BY <2>3 DEF i
<1> HIDE DEF t, StationAfter
<1>10. /\ \A i \in 1 .. n : t[i] = StationAfter(i)
       /\ \A k \in 1 .. m : t[n + k] = AddedRow(rs, f, gone, k)
  <2>1. (\A i \in 1 .. n : i \in 1 .. n + m) /\ (\A k \in 1 .. m : n + k \in 1 .. n + m)
    BY <1>1
  <2>2. \A i \in 1 .. n + m : t[i] = StationAfter(i)
    BY <1>7
  <2>3. \A i \in 1 .. n : t[i] = StationAfter(i)
    BY <2>1, <2>2
  <2>4. \A k \in 1 .. m : t[n + k] = StationAfter(n + k)
    BY <2>1, <2>2
  <2> QED
    BY <1>9, <2>3, <2>4
<1>11. ASSUME NEW i \in 1 .. n
       PROVE  /\ t[i] \in RowType /\ t[i].order <= n
              /\ t[i].area = now[i].area /\ t[i].station = now[i].station
              /\ t[i].deleted <=> now[i].deleted \/ i \in gone
              /\ t[i].order = IF i \in gone THEN 0
                              ELSE IF i \in moved THEN NewOrder(rs, f, gone, i)
                              ELSE now[i].order
  <2>1. now[i] \in RowType /\ now[i].order \in 0 .. n
    BY <1>1, <1>2
  <2>2. CASE i \in gone
    <3> DEFINE removed == [now[i] EXCEPT !.deleted = TRUE]
    <3>1. t[i] = [removed EXCEPT !.order = 0]
      BY <2>2, <1>8, <1>10
    <3>2. removed \in RowType /\ removed.area = now[i].area /\ removed.station = now[i].station /\ removed.deleted
      BY <2>1 DEF RowType
    <3> HIDE DEF removed
    <3> QED
      BY <1>1, <2>2, <3>1, <3>2 DEF RowType
  <2>3. CASE i \notin gone /\ i \in moved
    <3>1. t[i] = [now[i] EXCEPT !.order = NewOrder(rs, f, gone, i)]
      BY <2>3, <1>8, <1>10
    <3>2. NewOrder(rs, f, gone, i) \in 0 .. l
      BY <2>3, <1>3, <1>4
    <3> DEFINE order == NewOrder(rs, f, gone, i)
    <3>3. order \in Nat /\ order <= n
      BY <3>2, <1>1
    <3> HIDE DEF order
    <3>4. t[i] = [now[i] EXCEPT !.order = order]
      BY <3>1 DEF order
    <3>5. /\ t[i] \in RowType /\ t[i].order = order
          /\ t[i].area = now[i].area /\ t[i].station = now[i].station /\ t[i].deleted = now[i].deleted
      BY <2>1, <3>3, <3>4 DEF RowType
    <3> QED
      BY <2>3, <3>3, <3>5 DEF order
  <2>4. CASE i \notin gone /\ i \notin moved
    <3>1. t[i] = now[i]
      BY <2>4, <1>8, <1>10
    <3>2. now[i].order <= n /\ now[i].deleted \in BOOLEAN
      BY <1>1, <2>1 DEF RowType
    <3> QED
      BY <2>1, <2>4, <3>1, <3>2
  <2> QED
    BY <2>2, <2>3, <2>4
<1>12. ASSUME NEW i \in 1 .. n + m
       PROVE  t[i] \in RowType /\ t[i].order <= n + m
  <2>1. CASE i \in 1 .. n
    <3>1. t[i] \in RowType /\ t[i].order <= n /\ t[i].order \in Nat
      BY <2>1, <1>11 DEF RowType
    <3> QED
      BY <1>1, <3>1
  <2>2. CASE i \notin 1 .. n
    <3>1. i - n \in 1 .. m /\ n + (i - n) = i
      BY <2>2, <1>1
    <3> QED
      BY <3>1, <1>6, <1>10
  <2> QED
    BY <2>1, <2>2
<1>13. t \in Seq(RowType) /\ Len(t) = n + m
  <2>1. DOMAIN t = 1 .. n + m /\ n + m \in Nat
    BY <1>7, <1>1
  <2>2. t \in [1 .. n + m -> RowType]
    <3>1. \A i \in 1 .. n + m : StationAfter(i) = t[i]
      BY <1>7
    <3> QED
      BY <1>7, <1>12, <3>1
  <2> QED
    BY <2>1, <2>2
<1>14. Bounded(t)
  BY <1>12, <1>13 DEF Bounded
<1>15. moved = Moved(rs, f)
  BY DEF moved, Moved, gone
<1> QED
  BY <1>10, <1>11, <1>13, <1>14, <1>15 DEF t, n, m, gone

(* A save that has read the rows of an area as they are numbers those that *)
(* stay by their rank and those added after them: there is no gap.         *)
LEMMA SaveKeepsNumbers ==
  ASSUME Parameters, NEW now \in Seq(RowType), NEW rs \in Seq(RowType), Grown(now, rs),
         Bounded(now), Bounded(rs), Unique(now), NEW f \in Requests,
         NEW a \in Areas, RowsOf(rs, a) = RowsOf(now, a), ConsecutiveIn(now, a)
  PROVE  ConsecutiveIn(SaveStations(now, rs, f), a)
<1> DEFINE n == Len(now)
           m == Len(f.added)
           gone == get_stations_for_removal(rs, f.removed)
           t == SaveStations(now, rs, f)
           moved == Reordered(rs, f, gone)
           S == StationsIn(rs, a)
           T == StationsIn(rs, a) \ gone
           K == {k \in 1 .. m : f.added[k][2] = a}
           ranked == \E i \in gone : rs[i].area = a
<1>1. /\ n \in Nat /\ m \in Nat /\ Len(rs) \in Nat /\ Len(rs) <= n
      /\ DOMAIN now = 1 .. n /\ DOMAIN rs = 1 .. Len(rs) /\ DOMAIN f.added = 1 .. m
      /\ \A i \in 1 .. n : now[i].order \in Nat
      /\ \A i \in 1 .. Len(rs) : rs[i].area \in Areas /\ rs[i].order \in Nat
  <2>1. (\A i \in 1 .. n : now[i] \in RowType) /\ (\A i \in 1 .. Len(rs) : rs[i] \in RowType)
    OBVIOUS
  <2>2. (\A i \in 1 .. n : now[i].order \in Nat) /\ (\A i \in 1 .. Len(rs) : rs[i].area \in Areas /\ rs[i].order \in Nat)
    BY <2>1 DEF RowType
  <2> QED
    BY <2>2 DEF Requests, Grown
<1>2. /\ S = StationsIn(now, a)
      /\ \A i : i \in DOMAIN rs /\ rs[i].area = a <=> i \in DOMAIN now /\ now[i].area = a
      /\ \A i \in DOMAIN rs : rs[i].area = a => rs[i] = now[i]
  BY SameRows
\* Of this area only rows that are not deleted are removed or moved.
<1>3. /\ \A i \in gone : rs[i].area = a => i \in S
      /\ moved \in SUBSET Live(rs) /\ moved \intersect gone = {}
      /\ gone \in SUBSET (1 .. Len(rs)) /\ gone \in SUBSET (1 .. n)
  <2>1. \A r \in f.removed : r.row \in Nat
    BY DEF Requests
  <2>2. gone \in SUBSET (1 .. Len(rs)) /\ \A i \in gone : rs[i].order # 0
    BY <1>1, <2>1 DEF get_stations_for_removal
  <2>3. ASSUME NEW i \in gone, rs[i].area = a
        PROVE  i \in S
    <3>1. i \in DOMAIN rs /\ i \in DOMAIN now /\ now[i] = rs[i] /\ now[i].order # 0
      BY <1>1, <1>2, <2>2, <2>3
    <3>2. ~rs[i].deleted
      BY <2>3, <3>1 DEF ConsecutiveIn
    <3> QED
      BY <2>3, <3>1, <3>2 DEF StationsIn, Live
  <2> HIDE DEF gone
  <2>4. moved \in SUBSET Live(rs) /\ moved \intersect gone = {}
    BY DEF Reordered, Staying
  <2> QED
    BY <1>1, <2>2, <2>3, <2>4
<1>4. S \in SUBSET (1 .. n) /\ T \in SUBSET (1 .. n) /\ K \in SUBSET (1 .. m) /\ T \in SUBSET S
  BY <1>1, <1>2 DEF StationsIn, Live
<1>5. /\ \A i \in S : rs[i].order \in Nat /\ rs[i].order # 0 /\ rs[i].area = a /\ rs[i] = now[i]
      /\ {rs[i].order : i \in S} = 1 .. Cardinality(S)
      /\ \A i, j \in S : rs[i].order = rs[j].order => i = j
  <2>1. \A i \in S : i \in DOMAIN rs /\ i \in DOMAIN now /\ rs[i].area = a /\ rs[i] = now[i] /\ now[i].area = a
    BY <1>2 DEF StationsIn, Live
  <2>2. {now[i].order : i \in S} = 1 .. Cardinality(S)
    BY <1>2 DEF ConsecutiveIn
  <2>3. {rs[i].order : i \in S} = {now[i].order : i \in S}
    BY <2>1
  <2>4. \A i \in S : rs[i].order \in Nat /\ rs[i].order # 0
    BY <1>1, <2>1, <2>2, <2>3
  <2>5. \A i, j \in S : now[i].order = now[j].order => i = j
    BY <2>1, <2>4 DEF Unique
  <2> QED
    BY <2>1, <2>2, <2>3, <2>4, <2>5
<1> HIDE DEF S, T, K, gone, moved, n, m
<1>6. /\ IsFiniteSet(S) /\ Cardinality(S) \in Nat /\ IsFiniteSet(T) /\ Cardinality(T) \in Nat
      /\ IsFiniteSet(K) /\ Cardinality(K) \in Nat
  <2>1. IsFiniteSet(1 .. n) /\ IsFiniteSet(1 .. m)
    BY <1>1, FS_Interval
  <2> QED
    BY <1>4, <2>1, FS_Subset, FS_CardinalityType
<1>7. \A i : i \in T <=> i \in S /\ i \notin gone
  BY DEF T, S
<1>8. /\ ranked => /\ \A i \in T : i \in moved
                   /\ {NewOrder(rs, f, gone, i) : i \in T} = 1 .. Cardinality(T)
      /\ ~ranked => /\ \A i \in T : i \notin moved
                    /\ {rs[i].order : i \in T} = 1 .. Cardinality(T)
      /\ K # {} => get_next_order(rs, f, gone, a) = Cardinality(T) + 1
  <2>1. CASE ranked
    <3>1. {i \in moved : rs[i].area = a} = T
      <4>1. a \in {r.area : r \in f.removed} /\ a \in {rs[j].area : j \in gone}
        BY <2>1 DEF gone, get_stations_for_removal
      <4> QED
        BY <1>5, <1>7, <4>1 DEF moved, Reordered, Staying, S, StationsIn
    <3>2. \A i \in T : NewOrder(rs, f, gone, i) = Cardinality({j \in T : rs[j].order <= rs[i].order})
      <4>1. SUFFICES ASSUME NEW i \in T
                     PROVE  NewOrder(rs, f, gone, i) = Cardinality({j \in T : rs[j].order <= rs[i].order})
        OBVIOUS
      <4>2. {j \in moved : rs[j].area = rs[i].area /\ rs[j].order <= rs[i].order}
              = {j \in T : rs[j].order <= rs[i].order}
        BY <1>5, <1>7, <3>1
      <4> QED
        BY <4>2 DEF NewOrder, moved
    <3> DEFINE o == [i \in T |-> rs[i].order]
    <3>3. /\ \A i \in T : o[i] \in Int
          /\ \A i, j \in T : o[i] = o[j] => i = j
          /\ \A i \in T : {j \in T : o[j] <= o[i]} = {j \in T : rs[j].order <= rs[i].order}
      BY <1>5, <1>7
    <3> HIDE DEF o
    <3>4. RanksIn(T, o) = 1 .. Cardinality(T)
      BY <1>6, <3>3, Ranks, Zenon
    <3>5. {NewOrder(rs, f, gone, i) : i \in T} = 1 .. Cardinality(T)
      <4>1. \A i \in T : NewOrder(rs, f, gone, i) = Cardinality({j \in T : o[j] <= o[i]})
        BY <3>2, <3>3
      <4> QED
        BY <3>4, <4>1 DEF RanksIn
    <3>6. get_next_order(rs, f, gone, a) = Cardinality(T) + 1
      <4>1. CASE T = {}
        <5>1. {i \in Staying(rs, f, gone) : rs[i].area = a} = {}
          BY <4>1, <1>7 DEF Staying, S, StationsIn
        <5>2. Cardinality(T) = 0
          BY <4>1, FS_EmptySet
        <5> QED
          BY <4>1, <5>1, <5>2, <3>1 DEF get_next_order, LargestOf, moved
      <4>2. CASE T # {}
        <5>1. get_next_order(rs, f, gone, a) = LargestOf({NewOrder(rs, f, gone, i) : i \in T}) + 1
          BY <4>2, <3>1 DEF get_next_order, moved
        <5> QED
          BY <5>1, <3>5, <1>6, LargestOfInterval
      <4> QED
        BY <4>1, <4>2
    <3>7. \A i \in T : i \in moved
      BY <3>1
    <3> QED
      BY <2>1, <3>5, <3>6, <3>7
  <2>2. CASE ~ranked
    <3>1. {i \in moved : rs[i].area = a} = {} /\ S = T
      BY <2>2, <1>5, <1>7 DEF moved, Reordered
    <3>2. {rs[i].order : i \in T} = 1 .. Cardinality(T)
      BY <3>1, <1>5
    <3>3. ASSUME K # {}
          PROVE  get_next_order(rs, f, gone, a) = Cardinality(T) + 1
      <4>1. a \in {f.added[k][2] : k \in DOMAIN f.added}
        BY <3>3, <1>1 DEF K
      <4>2. {i \in Staying(rs, f, gone) : rs[i].area = a} = T
        BY <4>1, <1>5, <1>7 DEF Staying, S, StationsIn
      <4>3. get_next_order(rs, f, gone, a) = LargestOf({rs[i].order : i \in T}) + 1
        BY <3>1, <4>2 DEF get_next_order, moved
      <4> QED
        BY <4>3, <3>2, <1>6, LargestOfInterval
    <3>4. \A i \in T : i \notin moved
      BY <3>1, <1>5, <1>7
    <3> QED
      BY <2>2, <3>2, <3>3, <3>4
  <2> QED
    BY <2>1, <2>2
<1> DEFINE OrderAdded(k) == get_next_order(rs, f, gone, f.added[k][2])
                              + Cardinality({j \in 1 .. k - 1 : f.added[j][2] = f.added[k][2]})
<1>9. /\ Len(t) = n + m /\ DOMAIN t = 1 .. n + m
      /\ \A i \in 1 .. n :
           /\ t[i].area = now[i].area /\ (t[i].deleted <=> now[i].deleted \/ i \in gone)
           /\ t[i].order = IF i \in gone THEN 0
                           ELSE IF i \in moved THEN NewOrder(rs, f, gone, i)
                           ELSE now[i].order
      /\ \A k \in 1 .. m :
           t[n + k].area = f.added[k][2] /\ ~t[n + k].deleted /\ t[n + k].order = OrderAdded(k)
  <2>1. t \in Seq(RowType) /\ Len(t) = n + m
    BY SavedRows DEF t, n, m
  <2>2. moved = Moved(rs, f)
    BY DEF Moved, moved, gone
  <2>3. \A k \in 1 .. m : t[n + k] = AddedRow(rs, f, gone, k)
    BY SavedRows DEF t, n, m, gone
  <2>4. ASSUME NEW k \in 1 .. m
        PROVE  /\ AddedRow(rs, f, gone, k).area = f.added[k][2] /\ ~AddedRow(rs, f, gone, k).deleted
               /\ AddedRow(rs, f, gone, k).order = OrderAdded(k)
    BY DEF AddedRow
  <2>5. \A i \in 1 .. n :
          /\ t[i].area = now[i].area /\ (t[i].deleted <=> now[i].deleted \/ i \in gone)
          /\ t[i].order = IF i \in gone THEN 0
                          ELSE IF i \in moved THEN NewOrder(rs, f, gone, i)
                          ELSE now[i].order
    BY <2>2, SavedRows DEF t, n, m, gone
  <2> HIDE DEF OrderAdded
  <2>6. \A k \in 1 .. m : t[n + k].area = f.added[k][2] /\ ~t[n + k].deleted /\ t[n + k].order = OrderAdded(k)
    BY <2>3, <2>4
  <2> QED
    BY <2>1, <2>5, <2>6
<1> HIDE DEF OrderAdded
<1>10. \A k \in K : /\ k \in 1 .. m /\ t[n + k].area = a /\ ~t[n + k].deleted
                     /\ t[n + k].order = Cardinality(T) + Cardinality({j \in K : j <= k})
  <2>1. SUFFICES ASSUME NEW k \in K
                 PROVE  /\ k \in 1 .. m /\ t[n + k].area = a /\ ~t[n + k].deleted
                        /\ t[n + k].order = Cardinality(T) + Cardinality({j \in K : j <= k})
    OBVIOUS
  <2> DEFINE before == {j \in 1 .. k - 1 : f.added[j][2] = a}
  <2>2. k \in 1 .. m /\ f.added[k][2] = a /\ get_next_order(rs, f, gone, a) = Cardinality(T) + 1
    BY <1>8 DEF K
  <2>3. IsFiniteSet(before)
    <3>1. IsFiniteSet(1 .. k - 1)
      BY <1>1, <2>2, FS_Interval
    <3> QED
      BY <3>1, FS_Subset
  <2>4. {j \in K : j <= k} = before \union {k} /\ k \notin before
    BY <2>2, <1>1 DEF K
  <2>5. /\ t[n + k].area = a /\ ~t[n + k].deleted
        /\ t[n + k].order = get_next_order(rs, f, gone, a) + Cardinality(before)
    <3>1. t[n + k].area = a /\ ~t[n + k].deleted /\ t[n + k].order = OrderAdded(k)
      BY <1>9, <2>2
    <3> QED
      BY <2>2, <3>1 DEF OrderAdded
  <2> HIDE DEF before
  <2>6. Cardinality({j \in K : j <= k}) = Cardinality(before) + 1 /\ Cardinality(before) \in Nat
    BY <2>3, <2>4, FS_AddElement, FS_CardinalityType
  <2> QED
    BY <2>2, <2>5, <2>6, <1>6
<1>11. StationsIn(t, a) = T \union {n + k : k \in K}
  <2>1. \A i \in 1 .. n : i \in StationsIn(t, a) <=> i \in T
    <3>1. SUFFICES ASSUME NEW i \in 1 .. n
                   PROVE  i \in StationsIn(t, a) <=> i \in T
      OBVIOUS
    <3>2. i \in DOMAIN t /\ i \in DOMAIN now
      BY <1>1, <1>9
    <3>3. i \in StationsIn(t, a) <=> ~t[i].deleted /\ t[i].area = a
      BY <3>2 DEF StationsIn, Live
    <3>4. i \in S <=> ~now[i].deleted /\ now[i].area = a
      BY <3>2, <1>2 DEF StationsIn, Live
    <3> QED
      BY <3>3, <3>4, <1>7, <1>9
  <2>2. \A k \in 1 .. m : n + k \in StationsIn(t, a) <=> k \in K
    <3>1. SUFFICES ASSUME NEW k \in 1 .. m
                   PROVE  n + k \in StationsIn(t, a) <=> k \in K
      OBVIOUS
    <3>3. n + k \in 1 .. n + m
      BY <1>1
    <3>2. n + k \in DOMAIN t /\ t[n + k].area = f.added[k][2] /\ ~t[n + k].deleted
      BY <3>3, <1>9
    <3> QED
      BY <3>2 DEF StationsIn, Live, K
  <2>3. StationsIn(t, a) \in SUBSET (1 .. n + m)
    BY <1>9 DEF StationsIn, Live
  <2>4. ASSUME NEW i \in StationsIn(t, a)
        PROVE  i \in T \union {n + k : k \in K}
    <3>1. CASE i \in 1 .. n
      BY <3>1, <2>1
    <3>2. CASE i \notin 1 .. n
      <4>1. i - n \in 1 .. m /\ i = n + (i - n)
        BY <3>2, <2>3, <1>1
      <4>2. PICK k \in 1 .. m : i = n + k
        BY <4>1
      <4> QED
        BY <4>2, <2>2
    <3> QED
      BY <3>1, <3>2
  <2>5. ASSUME NEW i \in T \union {n + k : k \in K}
        PROVE  i \in StationsIn(t, a)
    BY <2>1, <2>2, <1>4
  <2> QED
    BY <2>4, <2>5
<1>12. {t[i].order : i \in T} = 1 .. Cardinality(T)
  <2>1. \A i \in T : i \in 1 .. n /\ i \notin gone /\ rs[i] = now[i]
    BY <1>4, <1>5, <1>7
  <2>2. CASE ranked
    <3>1. \A i \in T : t[i].order = NewOrder(rs, f, gone, i)
      BY <2>1, <2>2, <1>8, <1>9
    <3> QED
      BY <2>2, <3>1, <1>8
  <2>3. CASE ~ranked
    <3>1. \A i \in T : t[i].order = rs[i].order
      BY <2>1, <2>3, <1>8, <1>9
    <3> QED
      BY <2>3, <3>1, <1>8
  <2> QED
    BY <2>2, <2>3
<1>13. {Cardinality({j \in K : j <= k}) : k \in K} = 1 .. Cardinality(K)
  <2> DEFINE o == [k \in K |-> k]
  <2>1. /\ \A k \in K : o[k] \in Int
        /\ \A k, j \in K : o[k] = o[j] => k = j
        /\ \A k \in K : {j \in K : o[j] <= o[k]} = {j \in K : j <= k}
    BY <1>4
  <2> HIDE DEF o
  <2>2. RanksIn(K, o) = 1 .. Cardinality(K)
    BY <1>6, <2>1, Ranks, Zenon
  <2> QED
    BY <2>1, <2>2 DEF RanksIn
<1>14. {t[n + k].order : k \in K} = Cardinality(T) + 1 .. Cardinality(T) + Cardinality(K)
  <2> DEFINE c == Cardinality(T)
             d == Cardinality(K)
             rank(k) == Cardinality({j \in K : j <= k})
  <2>1. c \in Nat /\ d \in Nat
    BY <1>6
  <2>2. {rank(k) : k \in K} = 1 .. d
    BY <1>13
  <2>3. \A k \in K : t[n + k].order = c + rank(k)
    BY <1>10
  <2> HIDE DEF c, d, rank
  <2>4. ASSUME NEW x \in c + 1 .. c + d
        PROVE  \E k \in K : t[n + k].order = x
    <3>1. x - c \in 1 .. d /\ x = c + (x - c)
      BY <2>1
    <3>2. PICK k \in K : rank(k) = x - c
      BY <3>1, <2>2
    <3> QED
      BY <3>1, <3>2, <2>3
  <2>5. ASSUME NEW k \in K
        PROVE  t[n + k].order \in c + 1 .. c + d
    <3>1. rank(k) \in 1 .. d
      BY <2>2
    <3> QED
      BY <3>1, <2>1, <2>3
  <2>6. {t[n + k].order : k \in K} = c + 1 .. c + d
    BY <2>4, <2>5
  <2> QED
    BY <2>6 DEF c, d
<1> DEFINE A == {n + k : k \in K}
<1>15. IsFiniteSet(A) /\ Cardinality(A) = Cardinality(K)
  <2> DEFINE g == [k \in K |-> n + k]
  <2>1. \A k, j \in K : g[k] = g[j] => k = j
    BY <1>1, <1>4
  <2>2. g \in Bijection(K, A)
    BY <2>1 DEF Bijection, Injection, Surjection, IsInjective
  <2>3. ExistsBijection(K, A)
    BY <2>2 DEF ExistsBijection
  <2> QED
    BY <2>3, <1>6, FS_Bijection
<1>16. T \intersect A = {}
  BY <1>4, <1>1
<1> HIDE DEF A
<1>17. Cardinality(T \union A) = Cardinality(T) + Cardinality(K)
  <2>1. Cardinality(T \union A) = Cardinality(T) + Cardinality(A) - Cardinality(T \intersect A)
    BY <1>15, <1>6, FS_Union
  <2>2. Cardinality(T \intersect A) = 0
    BY <1>16, FS_EmptySet
  <2> QED
    BY <2>1, <2>2, <1>15, <1>6
<1>18. {t[i].order : i \in StationsIn(t, a)}
         = (1 .. Cardinality(T)) \union (Cardinality(T) + 1 .. Cardinality(T) + Cardinality(K))
  <2>1. {t[i].order : i \in StationsIn(t, a)} = {t[i].order : i \in T} \union {t[n + k].order : k \in K}
    BY <1>11
  <2> QED
    BY <2>1, <1>12, <1>14
<1>19. {t[i].order : i \in StationsIn(t, a)} = 1 .. Cardinality(StationsIn(t, a))
  <2>1. StationsIn(t, a) = T \union A
    BY <1>11 DEF A
  <2> QED
    BY <2>1, <1>6, <1>17, <1>18
<1>20. \A i \in DOMAIN t : t[i].area = a /\ t[i].deleted => t[i].order = 0
  <2>1. SUFFICES ASSUME NEW i \in 1 .. n + m, t[i].area = a, t[i].deleted
                 PROVE  t[i].order = 0
    BY <1>9
  <2>2. i \in 1 .. n
    <3>1. CASE i \notin 1 .. n
      <4>1. i - n \in 1 .. m /\ n + (i - n) = i
        BY <3>1, <1>1
      <4>2. ~t[n + (i - n)].deleted
        BY <4>1, <1>9
      <4> QED
        BY <4>1, <4>2, <2>1
    <3> QED
      BY <3>1
  <2>3. (i \in gone \/ now[i].deleted) /\ now[i].area = a
    BY <2>1, <2>2, <1>9
  <2>4. CASE i \notin gone
    <3>1. now[i].deleted /\ now[i].order = 0
      BY <2>2, <2>3, <2>4, <1>1 DEF ConsecutiveIn
    <3>2. i \notin moved
      <4>1. SUFFICES ASSUME i \in moved PROVE FALSE
        OBVIOUS
      <4>2. i \in DOMAIN rs /\ ~rs[i].deleted
        BY <4>1, <1>3 DEF Live
      <4>3. rs[i] = now[i]
        BY <4>2, <2>2, <2>3, <1>1, <1>2
      <4> QED
        BY <3>1, <4>2, <4>3
    <3> QED
      BY <2>2, <2>4, <3>1, <3>2, <1>9
  <2> QED
    BY <2>2, <2>4, <1>9
<1> QED
  BY <1>19, <1>20 DEF ConsecutiveIn, t

(* Areas that the request does not name keep their rows and numbers.       *)
LEMMA Untouched ==
  ASSUME Parameters, NEW now \in Seq(RowType), NEW rs \in Seq(RowType), Grown(now, rs),
         Bounded(now), Bounded(rs), NEW f \in Requests,
         NEW a \in Areas, a \notin Affected(f), ConsecutiveIn(now, a)
  PROVE  ConsecutiveIn(SaveStations(now, rs, f), a)
<1> DEFINE n == Len(now)
           m == Len(f.added)
           gone == get_stations_for_removal(rs, f.removed)
           t == SaveStations(now, rs, f)
<1>1. n \in Nat /\ m \in Nat /\ DOMAIN now = 1 .. n /\ DOMAIN f.added = 1 .. m
  BY DEF Requests
<1>2. t \in Seq(RowType) /\ Len(t) = n + m
  BY SavedRows
<1>3. DOMAIN t = 1 .. n + m
  BY <1>1, <1>2
<1>4. \A i \in 1 .. n :
        /\ t[i].area = now[i].area /\ (t[i].deleted <=> now[i].deleted \/ i \in gone)
        /\ t[i].order = IF i \in gone THEN 0
                        ELSE IF i \in Moved(rs, f) THEN NewOrder(rs, f, gone, i)
                        ELSE now[i].order
  BY SavedRows
<1>5. \A k \in 1 .. m : t[n + k].area # a
  <2>1. \A k \in 1 .. m : t[n + k] = AddedRow(rs, f, gone, k)
    BY SavedRows
  <2>2. \A k \in 1 .. m : AddedRow(rs, f, gone, k).area = f.added[k][2]
    BY DEF AddedRow
  <2>3. \A k \in 1 .. m : f.added[k][2] # a
    BY <1>1 DEF Affected
  <2> HIDE DEF t, gone, n, m
  <2> QED
    BY <2>1, <2>2, <2>3
<1>6. \A i \in gone \union Moved(rs, f) :
        rs[i].area \in Affected(f) /\ i \in 1 .. Len(rs)
  BY DEF get_stations_for_removal, Moved, Reordered, Staying, Affected, Live
<1> HIDE DEF t, gone, n, m
<1>7. \A i \in 1 .. n : now[i].area = a => i \notin gone /\ i \notin Moved(rs, f)
  BY <1>6 DEF Grown
<1>8. \A i \in 1 .. n + m : t[i].area = a => i \in 1 .. n
  <2>1. SUFFICES ASSUME NEW i \in 1 .. n + m, i \notin 1 .. n
                 PROVE  t[i].area # a
    OBVIOUS
  <2>2. i - n \in 1 .. m /\ n + (i - n) = i
    BY <2>1, <1>1
  <2> QED
    BY <2>2, <1>5
<1>9. \A i \in 1 .. n : i \in 1 .. n + m
  BY <1>1
<1>10. \A i : /\ i \in DOMAIN t /\ t[i].area = a <=> i \in DOMAIN now /\ now[i].area = a
              /\ i \in DOMAIN now /\ now[i].area = a =>
                   (t[i].deleted <=> now[i].deleted) /\ t[i].order = now[i].order
  BY <1>1, <1>3, <1>4, <1>7, <1>8, <1>9
<1>11. StationsIn(t, a) = StationsIn(now, a)
  BY <1>10 DEF StationsIn, Live
<1>12. \A i \in StationsIn(now, a) : t[i].order = now[i].order
  BY <1>10 DEF StationsIn, Live
<1> QED
  BY <1>10, <1>11, <1>12 DEF ConsecutiveIn, t

-----------------------------------------------------------------------------
\* Requests name stations that there are.
FormOK == form \in [Admins -> Requests]

\* The rows that were shown or read are still rows of these stations.
ReadersHaveSeenRows ==
  \A u \in Admins : Grown(rows, shown[u]) /\ Grown(rows, read[u]) /\ Bounded(read[u])

\* A removal is a station of the page, under its order where the page cannot mix these up.
PagesShowRows ==
  \A u \in Admins : \A r \in form[u].removed :
    \E i \in StationsIn(shown[u], r.area) :
      /\ shown[u][i].station = r.station
      /\ r.area \notin outdated /\ Alone(shown[u], r.area) => shown[u][i].order = r.row + 1

\* The inductive invariant.
IInv ==
  /\ TypeOK /\ FormOK /\ Unique(rows) /\ Bounded(rows) /\ OrdersAreConsecutive
  /\ ReadersHaveSeenRows /\ PagesShowRows

(* What a table and a page hold.                                           *)
LEMMA RowsAreSeq == Rows = Seq(RowType)
  BY DEF Rows, RowType, StationCodes, Pairs

(* The row of a station on the page is one less than its order, where its  *)
(* area is numbered and the page cannot mix up orders of two areas.        *)
LEMMA ShownRow ==
  ASSUME Parameters, IInv, NEW of \in hydrations, NEW i \in Live(rows)
  PROVE  /\ RowShown(of, i) \in Nat
         /\ rows[i].area \notin outdated /\ Alone(rows, rows[i].area) =>
              rows[i].order = RowShown(of, i) + 1
<1> DEFINE a == rows[i].area
           S == StationsIn(rows, a)
           B == {j \in S : \/ OrderShown(of, j) < OrderShown(of, i)
                           \/ OrderShown(of, j) = OrderShown(of, i) /\ rows[j].station < rows[i].station}
<1>1. rows \in Seq(RowType) /\ Len(rows) \in Nat /\ DOMAIN rows = 1 .. Len(rows)
  BY RowsAreSeq DEF IInv, TypeOK
<1>2. \A j \in 1 .. Len(rows) : /\ rows[j] \in RowType /\ rows[j].order \in Nat
                                /\ rows[j].area \in Areas /\ rows[j].station \in StationCodes
  <2>1. \A j \in 1 .. Len(rows) : rows[j] \in RowType
    BY <1>1
  <2> QED
    BY <2>1 DEF RowType
<1>3. i \in S /\ i \in 1 .. Len(rows) /\ S \in SUBSET (1 .. Len(rows)) /\ S \in SUBSET Live(rows)
  BY <1>1 DEF StationsIn, Live
<1>4. \A j \in 1 .. Len(rows) : rows[j].station \in Int
  <2>1. Pairs \subseteq Int \X Areas
    BY DEF Pairs, Parameters
  <2> QED
    BY <1>2, <2>1 DEF StationCodes
<1>5. IsFiniteSet(S) /\ Cardinality(S) \in Nat
  <2> DEFINE n == Len(rows)
  <2>1. n \in Nat /\ S \in SUBSET (1 .. n)
    BY <1>1, <1>3
  <2> HIDE DEF n, S
  <2>2. IsFiniteSet(1 .. n)
    BY <2>1, FS_Interval
  <2> QED
    BY <2>1, <2>2, FS_Subset, FS_CardinalityType
<1>6. RowShown(of, i) \in Nat
  <2>1. B \in SUBSET S
    OBVIOUS
  <2>2. RowShown(of, i) = Cardinality(B)
    BY DEF RowShown
  <2> HIDE DEF B, S
  <2> QED
    BY <2>1, <2>2, <1>5, FS_Subset, FS_CardinalityType
<1>7. ASSUME a \notin outdated, Alone(rows, a)
      PROVE  RowShown(of, i) + 1 = rows[i].order
  <2>1. ASSUME NEW j \in S
        PROVE  OrderShown(of, j) = rows[j].order
    <3> DEFINE k == of[rows[j].station]
    <3>1. rows[j].station \in Codes
      BY <1>3 DEF Codes
    <3>2. k \in Live(rows) /\ rows[k].station = rows[j].station
      BY <3>1 DEF hydrations
    <3> HIDE DEF k
    <3>3. k = j
      BY <3>2, <1>7 DEF Alone
    <3> QED
      BY <3>3 DEF OrderShown, k
  <2>2. ConsecutiveIn(rows, a)
    BY <1>2, <1>3, <1>7 DEF IInv, OrdersAreConsecutive
  <2>3. {rows[j].order : j \in S} = 1 .. Cardinality(S)
    BY <2>2 DEF ConsecutiveIn
  <2>4. \A j, k \in S : rows[j].order = rows[k].order => j = k
    <3>1. SUFFICES ASSUME NEW j \in S, NEW k \in S, rows[j].order = rows[k].order
                   PROVE  j = k
      OBVIOUS
    <3>2. rows[j].order # 0
      BY <2>3, <1>5
    <3> QED
      BY <1>1, <1>3, <3>1, <3>2 DEF IInv, Unique, StationsIn
  <2>5. B = {j \in S : rows[j].order < rows[i].order}
    <3>1. ASSUME NEW j \in S
          PROVE  j \in B <=> rows[j].order < rows[i].order
      <4>1. OrderShown(of, j) = rows[j].order /\ OrderShown(of, i) = rows[i].order
        BY <2>1, <1>3
      <4>2. rows[j].order = rows[i].order => j = i
        BY <2>4, <1>3
      <4>3. ~(rows[i].station < rows[i].station)
        BY <1>3, <1>4
      <4> QED
        BY <4>1, <4>2, <4>3, <1>2, <1>3
    <3> QED
      BY <3>1
  <2>6. Cardinality({j \in S : rows[j].order < rows[i].order}) = rows[i].order - 1
    <3> DEFINE o == [j \in S |-> rows[j].order]
    <3>1. /\ \A j, k \in S : o[j] = o[k] => j = k
          /\ {o[j] : j \in S} = 1 .. Cardinality(S)
      BY <2>3, <2>4
    <3>2. {j \in S : o[j] < o[i]} = {j \in S : rows[j].order < rows[i].order} /\ o[i] = rows[i].order
      BY <1>3
    <3> HIDE DEF o, S
    <3>3. Cardinality({j \in S : o[j] < o[i]}) = o[i] - 1
      BY <3>1, <1>3, <1>5, Smaller, Zenon
    <3> QED
      BY <3>2, <3>3
  <2>7. RowShown(of, i) = rows[i].order - 1
    BY <2>5, <2>6 DEF RowShown
  <2> QED
    BY <2>7, <1>2, <1>3
<1> QED
  BY <1>6, <1>7

(* Nobody has asked for anything.                                          *)
LEMMA Initially ==
  ASSUME Parameters, Init
  PROVE  IInv
<1>1. /\ DOMAIN rows = DOMAIN Initial /\ DOMAIN Initial = 1 .. Len(Initial) /\ Len(Initial) \in Nat
      /\ \A i \in DOMAIN Initial : /\ rows[i] = [station |-> Initial[i][1], area |-> Initial[i][2],
                                                 order |-> Initial[i][3], deleted |-> FALSE]
                                   /\ Initial[i] \in Int \X Areas \X Nat
  BY DEF Init, Parameters
<1>2. \A a \in Areas : StationsIn(rows, a) = {i \in DOMAIN Initial : Initial[i][2] = a}
  BY <1>1 DEF StationsIn, Live
<1>3. \A a \in Areas : ConsecutiveIn(rows, a)
  <2>1. ASSUME NEW a \in Areas
        PROVE  {rows[i].order : i \in StationsIn(rows, a)} = 1 .. Cardinality(StationsIn(rows, a))
    <3> DEFINE here == {i \in DOMAIN Initial : Initial[i][2] = a}
    <3>1. {Initial[i][3] : i \in here} = 1 .. Cardinality(here)
      BY DEF Parameters
    <3>2. \A i \in here : rows[i].order = Initial[i][3]
      BY <1>1
    <3>3. StationsIn(rows, a) = here
      BY <1>2
    <3> HIDE DEF here
    <3> QED
      BY <3>1, <3>2, <3>3
  <2> QED
    BY <2>1, <1>1 DEF ConsecutiveIn
<1>4. rows \in Seq(RowType) /\ Len(rows) = Len(Initial)
  <2>1. ASSUME NEW i \in 1 .. Len(Initial)
        PROVE  rows[i] \in RowType
    <3>1. i \in DOMAIN Initial
      BY <1>1
    <3>2. <<Initial[i][1], Initial[i][2]>> \in Pairs
      BY <3>1 DEF Pairs
    <3>3. Initial[i][1] \in StationCodes
      BY <3>2 DEF StationCodes
    <3>4. Initial[i][2] \in Areas /\ Initial[i][3] \in Nat
      BY <3>1, <1>1
    <3>5. rows[i] = [station |-> Initial[i][1], area |-> Initial[i][2],
                     order |-> Initial[i][3], deleted |-> FALSE]
      BY <3>1, <1>1
    <3> QED
      BY <3>3, <3>4, <3>5 DEF RowType
  <2>2. rows \in [1 .. Len(Initial) -> RowType]
    BY <2>1, <1>1 DEF Init
  <2> QED
    BY <2>2, <1>1
<1>5. Bounded(rows)
  <2>1. SUFFICES ASSUME NEW i \in 1 .. Len(Initial)
                 PROVE  rows[i].order <= Len(Initial)
    BY <1>4 DEF Bounded
  <2> DEFINE a == Initial[i][2]
             here == StationsIn(rows, a)
             n == Len(Initial)
  <2>2. a \in Areas /\ i \in here /\ here \in SUBSET (1 .. n) /\ n \in Nat
    BY <1>1 DEF StationsIn, Live
  <2>3. rows[i].order \in 1 .. Cardinality(here)
    BY <1>3, <2>2 DEF ConsecutiveIn
  <2> HIDE DEF here, n, a
  <2>4. IsFiniteSet(1 .. n) /\ Cardinality(1 .. n) = n
    BY <2>2, FS_Interval
  <2>5. Cardinality(here) <= n /\ Cardinality(here) \in Nat
    BY <2>2, <2>4, FS_Subset, FS_CardinalityType
  <2> QED
    BY <2>2, <2>3, <2>5 DEF n
<1>6. TypeOK
  <2>1. <<>> \in Rows /\ rows \in Rows
    BY <1>4, RowsAreSeq
  <2>2. requests \in 0 .. MaxRequests
    BY DEF Init, Parameters
  <2> QED
    BY <2>1, <2>2 DEF Init, TypeOK, NoForm
<1>7. FormOK /\ PagesShowRows
  <2>1. NoForm \in Requests
    BY DEF NoForm, Requests
  <2> QED
    BY <2>1 DEF FormOK, PagesShowRows, Init, NoForm
<1>8. ReadersHaveSeenRows
  <2>1. Grown(rows, <<>>) /\ Bounded(<<>>)
    BY <1>4 DEF Grown, Bounded
  <2> QED
    BY <2>1 DEF ReadersHaveSeenRows, Init
<1>9. Unique(rows)
  <2>1. \A i \in DOMAIN Initial : /\ rows[i].area = Initial[i][2] /\ rows[i].order = Initial[i][3]
                                  /\ rows[i].station = Initial[i][1]
    BY <1>1
  <2>2. \A i, j \in DOMAIN Initial : i # j /\ Initial[i][2] = Initial[j][2] =>
          Initial[i][1] # Initial[j][1] /\ Initial[i][3] # Initial[j][3]
    BY DEF Parameters
  <2>3. DOMAIN rows = DOMAIN Initial
    BY <1>1
  <2> QED
    BY <2>1, <2>2, <2>3 DEF Unique
<1>10. OrdersAreConsecutive
  BY <1>3 DEF OrdersAreConsecutive
<1> QED
  BY <1>5, <1>6, <1>7, <1>8, <1>9, <1>10 DEF IInv

(* What a page asks to remove is on the page, under this row.              *)
LEMMA RequestOfPage ==
  ASSUME Parameters, IInv, NEW of \in hydrations, NEW gone \in SUBSET Live(rows),
         NEW added \in UNION {[1 .. n -> Offered] : n \in 0 .. MaxAdded}
  PROVE  LET f == [removed |-> {[area |-> rows[i].area, station |-> rows[i].station,
                                 row |-> RowShown(of, i)] : i \in gone},
                   added |-> added]
         IN /\ f \in Requests
            /\ \A r \in f.removed :
                 \E i \in StationsIn(rows, r.area) :
                   /\ rows[i].station = r.station
                   /\ r.area \notin outdated /\ Alone(rows, r.area) => rows[i].order = r.row + 1
<1> DEFINE r(i) == [area |-> rows[i].area, station |-> rows[i].station, row |-> RowShown(of, i)]
           removed == {r(i) : i \in gone}
<1>1. ASSUME NEW i \in gone
      PROVE  /\ r(i) \in [area : Areas, station : StationCodes, row : Nat]
             /\ i \in StationsIn(rows, r(i).area) /\ rows[i].station = r(i).station
             /\ r(i).area \notin outdated /\ Alone(rows, r(i).area) => rows[i].order = r(i).row + 1
  <2>1. i \in Live(rows) /\ i \in DOMAIN rows
    BY DEF Live
  <2>2. rows[i] \in RowType
    BY <2>1, RowsAreSeq DEF IInv, TypeOK
  <2>3. /\ RowShown(of, i) \in Nat
        /\ rows[i].area \notin outdated /\ Alone(rows, rows[i].area) =>
              rows[i].order = RowShown(of, i) + 1
    BY <2>1, ShownRow
  <2> QED
    BY <2>1, <2>2, <2>3 DEF RowType, StationsIn
<1>2. added \in Seq(Offered)
  <2>1. PICK n \in 0 .. MaxAdded : added \in [1 .. n -> Offered]
    OBVIOUS
  <2>2. n \in Nat
    BY DEF Parameters
  <2> QED
    BY <2>1, <2>2
<1> HIDE DEF r
<1>3. [removed |-> removed, added |-> added] \in Requests
  BY <1>1, <1>2 DEF Requests
<1>4. \A x \in removed : \E i \in StationsIn(rows, x.area) :
        /\ rows[i].station = x.station
        /\ x.area \notin outdated /\ Alone(rows, x.area) => rows[i].order = x.row + 1
  BY <1>1
<1> QED
  BY <1>3, <1>4 DEF r

(* A save that is not refused keeps the rows and, where it has read them as*)
(* they are or does not touch them, their numbers.                         *)
LEMMA SaveKeepsAll ==
  ASSUME Parameters, IInv, NEW u \in Admins, ~Conflict(rows, read[u], form[u])
  PROVE  LET t == SaveStations(rows, read[u], form[u])
             gone == get_stations_for_removal(read[u], form[u].removed)
         IN /\ t \in Seq(RowType) /\ Unique(t) /\ Bounded(t)
            /\ \A qs : Grown(rows, qs) /\ Len(qs) \in Nat => Grown(t, qs)
            /\ \A i \in 1 .. Len(rows) : i \in DOMAIN t /\ (t[i].deleted <=> rows[i].deleted \/ i \in gone)
            /\ \A a \in Areas \ outdated :
                 a \notin Affected(form[u]) \/ RowsOf(read[u], a) = RowsOf(rows, a) => ConsecutiveIn(t, a)
<1> DEFINE f == form[u]
           rs == read[u]
           t == SaveStations(rows, rs, f)
<1>1. /\ rows \in Seq(RowType) /\ rs \in Seq(RowType) /\ f \in Requests
      /\ Grown(rows, rs) /\ Bounded(rows) /\ Bounded(rs) /\ Unique(rows)
      /\ ~Conflict(rows, rs, f)
  BY RowsAreSeq DEF IInv, TypeOK, FormOK, ReadersHaveSeenRows
<1>2. Len(rows) \in Nat /\ Len(f.added) \in Nat
  BY <1>1 DEF Requests
<1> HIDE DEF f, rs
<1>3. t \in Seq(RowType) /\ Len(t) = Len(rows) + Len(f.added) /\ Bounded(t)
  BY <1>1, SavedRows
<1>4. \A i \in 1 .. Len(rows) :
        /\ t[i].area = rows[i].area /\ t[i].station = rows[i].station
        /\ t[i].deleted <=> rows[i].deleted \/ i \in get_stations_for_removal(rs, f.removed)
  BY <1>1, SavedRows
<1>5. Unique(t)
  <2>1. Len(f.added) \in 0 .. Len(f.added)
    BY <1>2
  <2> QED
    BY <1>1, <2>1 DEF Conflict, SaveStations
<1>6. \A a \in Areas \ outdated : a \notin Affected(f) => ConsecutiveIn(t, a)
  <2>1. SUFFICES ASSUME NEW a \in Areas \ outdated, a \notin Affected(f) PROVE ConsecutiveIn(t, a)
    OBVIOUS
  <2>2. ConsecutiveIn(rows, a) /\ a \in Areas
    BY DEF IInv, OrdersAreConsecutive
  <2> QED
    BY <1>1, <2>1, <2>2, Untouched, Zenon
<1>7. \A a \in Areas \ outdated : RowsOf(rs, a) = RowsOf(rows, a) => ConsecutiveIn(t, a)
  <2>1. SUFFICES ASSUME NEW a \in Areas \ outdated, RowsOf(rs, a) = RowsOf(rows, a) PROVE ConsecutiveIn(t, a)
    OBVIOUS
  <2>2. ConsecutiveIn(rows, a) /\ a \in Areas
    BY DEF IInv, OrdersAreConsecutive
  <2> QED
    BY <1>1, <2>1, <2>2, SaveKeepsNumbers, Zenon
<1> HIDE DEF t
<1>8. \A qs : Grown(rows, qs) /\ Len(qs) \in Nat => Grown(t, qs)
  <2> DEFINE n == Len(rows)
             l == Len(t)
             m == Len(f.added)
  <2>1. n \in Nat /\ m \in Nat /\ l = n + m
    BY <1>2, <1>3
  <2>2. \A i \in 1 .. n : t[i].area = rows[i].area /\ t[i].station = rows[i].station
    BY <1>4
  <2> HIDE DEF n, l, m
  <2>3. SUFFICES ASSUME NEW qs, Grown(rows, qs), Len(qs) \in Nat PROVE Grown(t, qs)
    OBVIOUS
  <2>4. /\ Len(qs) <= n
        /\ \A i \in 1 .. Len(qs) : rows[i].area = qs[i].area /\ rows[i].station = qs[i].station
    BY <2>3 DEF Grown, n
  <2>5. Len(qs) <= l /\ \A i \in 1 .. Len(qs) : i \in 1 .. n
    BY <2>1, <2>3, <2>4
  <2>6. \A i \in 1 .. Len(qs) : t[i].area = qs[i].area /\ t[i].station = qs[i].station
    BY <2>2, <2>4, <2>5
  <2> QED
    BY <2>5, <2>6 DEF Grown, l
<1>9. \A i \in 1 .. Len(rows) : i \in DOMAIN t
  <2>1. DOMAIN t = 1 .. Len(t)
    BY <1>3
  <2> QED
    BY <2>1, <1>2, <1>3
<1> QED
  BY <1>3, <1>4, <1>5, <1>6, <1>7, <1>8, <1>9 DEF t, f, rs

(* Every step keeps the invariant, and no save removes what it should not. *)
LEMMA Steps ==
  ASSUME Parameters, IInv, [Next]_vars
  PROVE  IInv' /\ [RemovesAtMostCrossProduct /\ RemovesWhatIsShown]_vars
<1> USE DEF IInv
<1>0. /\ rows \in Seq(RowType) /\ Len(rows) \in Nat /\ DOMAIN rows = 1 .. Len(rows)
      /\ Live(rows) \in SUBSET (1 .. Len(rows))
      /\ \A u \in Admins : /\ shown[u] \in Seq(RowType) /\ Len(shown[u]) \in Nat
                           /\ read[u] \in Seq(RowType) /\ Len(read[u]) \in Nat
  <2>1. rows \in Seq(RowType)
    BY RowsAreSeq DEF TypeOK
  <2>2. \A u \in Admins : shown[u] \in Seq(RowType) /\ read[u] \in Seq(RowType)
    BY RowsAreSeq DEF TypeOK
  <2>3. Len(rows) \in Nat /\ DOMAIN rows = 1 .. Len(rows)
    BY <2>1
  <2> QED
    BY <2>1, <2>2, <2>3 DEF Live
<1>1. ASSUME NEW u \in Admins, ShowPage(u)
      PROVE  IInv' /\ RemovesAtMostCrossProduct /\ RemovesWhatIsShown
  <2>1. PICK of \in hydrations, gone \in SUBSET Live(rows),
             added \in UNION {[1 .. n -> Offered] : n \in 0 .. MaxAdded} :
          form' = [form EXCEPT ![u] =
            [removed |-> {[area |-> rows[i].area, station |-> rows[i].station,
                           row |-> RowShown(of, i)] : i \in gone},
             added |-> added]]
    BY <1>1 DEF ShowPage
  <2> DEFINE f == [removed |-> {[area |-> rows[i].area, station |-> rows[i].station,
                                 row |-> RowShown(of, i)] : i \in gone},
                   added |-> added]
  <2>2. /\ f \in Requests
        /\ \A r \in f.removed :
             \E i \in StationsIn(rows, r.area) :
               /\ rows[i].station = r.station
               /\ r.area \notin outdated /\ Alone(rows, r.area) => rows[i].order = r.row + 1
    BY RequestOfPage
  <2>3. form' = [form EXCEPT ![u] = f]
    BY <2>1
  <2> HIDE DEF f
  <2>4. /\ shown' = [shown EXCEPT ![u] = rows] /\ pc' = [pc EXCEPT ![u] = "page"]
        /\ pc[u] # "save" /\ UNCHANGED <<rows, read, requests, outdated>>
    BY <1>1 DEF ShowPage
  <2>5. FormOK'
    BY <2>2, <2>3 DEF FormOK
  <2>6. form'[u] = f /\ \A v \in Admins : v # u => form'[v] = form[v]
    BY <2>3 DEF FormOK
  <2>7. shown'[u] = rows /\ \A v \in Admins : v # u => shown'[v] = shown[v]
    BY <2>4 DEF TypeOK
  <2>8. TypeOK'
    <3>1. (\A v \in Admins :
             /\ \A r \in form[v].removed : r.row \in Nat
             /\ \A k \in DOMAIN form[v].added : form[v].added[k] \in Offered)'
      BY <2>5 DEF FormOK, Requests
    <3>2. shown' \in [Admins -> Rows] /\ pc' \in [Admins -> {"idle", "page", "save", "ok", "refused"}]
      BY <2>4 DEF TypeOK
    <3>3. read' \in [Admins -> Rows] /\ requests' \in 0 .. MaxRequests /\ rows' \in Rows
      BY <2>4 DEF TypeOK
    <3>4. Rows' = Rows /\ outdated' \subseteq Areas
      BY <2>4 DEF Rows, TypeOK
    <3> QED
      BY <3>1, <3>2, <3>3, <3>4 DEF TypeOK
  <2>9. ReadersHaveSeenRows'
    <3>1. Grown(rows, rows)
      BY <1>0 DEF Grown
    <3>2. \A v \in Admins : Grown(rows, shown'[v])
      BY <3>1, <2>7 DEF ReadersHaveSeenRows
    <3> QED
      BY <3>2, <2>4 DEF ReadersHaveSeenRows
  <2>10. PagesShowRows'
    BY <2>2, <2>4, <2>6, <2>7 DEF PagesShowRows
  <2>11. Unique(rows)' /\ Bounded(rows)' /\ OrdersAreConsecutive'
    BY <2>4 DEF Unique, Bounded, OrdersAreConsecutive
  <2>12. RemovesAtMostCrossProduct /\ RemovesWhatIsShown
    <3>1. \A v \in Admins : ~(pc[v] = "save" /\ pc'[v] = "ok")
      BY <2>4 DEF TypeOK
    <3> QED
      BY <3>1, <2>4 DEF RemovesAtMostCrossProduct, RemovesWhatIsShown
  <2> QED
    BY <2>5, <2>8, <2>9, <2>10, <2>11, <2>12
<1>2. ASSUME NEW u \in Admins, ReadStations(u)
      PROVE  IInv' /\ RemovesAtMostCrossProduct /\ RemovesWhatIsShown
  <2>1. /\ read' = [read EXCEPT ![u] = rows] /\ pc' = [pc EXCEPT ![u] = "save"]
        /\ requests' = requests + 1 /\ requests < MaxRequests
        /\ UNCHANGED <<rows, form, shown, outdated>>
    BY <1>2 DEF ReadStations
  <2>2. TypeOK'
    BY <2>1 DEF TypeOK, Parameters
  <2>3. ReadersHaveSeenRows'
    <3>1. Grown(rows, rows)
      BY <1>0 DEF Grown
    <3>2. \A v \in Admins : read'[v] = rows \/ read'[v] = read[v]
      BY <2>1 DEF TypeOK
    <3> QED
      BY <3>1, <3>2, <2>1 DEF ReadersHaveSeenRows
  <2>4. FormOK' /\ PagesShowRows'
    BY <2>1 DEF FormOK, PagesShowRows
  <2>5. Unique(rows)' /\ Bounded(rows)' /\ OrdersAreConsecutive'
    BY <2>1 DEF Unique, Bounded, OrdersAreConsecutive
  <2>6. RemovesAtMostCrossProduct /\ RemovesWhatIsShown
    <3>1. \A v \in Admins : ~(pc[v] = "save" /\ pc'[v] = "ok")
      BY <2>1 DEF TypeOK
    <3> QED
      BY <3>1, <2>1 DEF RemovesAtMostCrossProduct, RemovesWhatIsShown
  <2> QED
    BY <2>2, <2>3, <2>4, <2>5, <2>6
<1>3. ASSUME NEW u \in Admins, Save(u)
      PROVE  IInv' /\ RemovesAtMostCrossProduct /\ RemovesWhatIsShown
  <2> DEFINE f == form[u]
             t == SaveStations(rows, read[u], f)
             gone == get_stations_for_removal(read[u], f.removed)
             refused == Conflict(rows, read[u], f)
             Late == {a \in Affected(f) : ~refused /\ RowsOf(read[u], a) # RowsOf(rows, a)}
  <2>1. /\ pc[u] = "save" /\ rows' = IF refused THEN rows ELSE t
        /\ pc' = [pc EXCEPT ![u] = IF refused THEN "refused" ELSE "ok"]
        /\ form' = [form EXCEPT ![u] = NoForm]
        /\ shown' = [shown EXCEPT ![u] = <<>>] /\ read' = [read EXCEPT ![u] = <<>>]
        /\ outdated' = outdated \union Late /\ requests' = requests
    BY <1>3 DEF Save
  <2>2. ~refused =>
          /\ t \in Seq(RowType) /\ Unique(t) /\ Bounded(t)
          /\ \A qs : Grown(rows, qs) /\ Len(qs) \in Nat => Grown(t, qs)
          /\ \A i \in 1 .. Len(rows) : i \in DOMAIN t /\ (t[i].deleted <=> rows[i].deleted \/ i \in gone)
          /\ \A a \in Areas \ outdated :
               a \notin Affected(f) \/ RowsOf(read[u], a) = RowsOf(rows, a) => ConsecutiveIn(t, a)
    BY SaveKeepsAll
  <2>3. f \in Requests /\ Affected(f) \subseteq Areas
    <3>1. f \in Requests
      BY DEF FormOK
    <3>2. (\A r \in f.removed : r.area \in Areas) /\ (\A k \in DOMAIN f.added : f.added[k] \in Offered)
      BY <3>1 DEF Requests
    <3>3. \A k \in DOMAIN f.added : f.added[k][2] \in Areas
      BY <3>2 DEF Parameters
    <3> HIDE DEF f
    <3> QED
      BY <3>1, <3>2, <3>3 DEF Affected
  <2>4. \A a \in Areas \ outdated' : /\ a \in Areas \ outdated
                                     /\ ~refused => \/ a \notin Affected(f)
                                                    \/ RowsOf(read[u], a) = RowsOf(rows, a)
    BY <2>1
  <2>5. outdated \subseteq outdated' /\ outdated' \subseteq Areas
    BY <2>1, <2>3 DEF TypeOK
  <2> HIDE DEF t, refused, Late, gone, f
  <2>6. /\ rows' \in Seq(RowType) /\ Unique(rows') /\ Bounded(rows')
        /\ \A qs : Grown(rows, qs) /\ Len(qs) \in Nat => Grown(rows', qs)
    BY <1>0, <2>1, <2>2
  <2>7. OrdersAreConsecutive'
    <3>1. ASSUME NEW a \in Areas \ outdated'
          PROVE  ConsecutiveIn(rows', a)
      <4>1. CASE refused
        BY <4>1, <2>1, <2>4 DEF OrdersAreConsecutive
      <4>2. CASE ~refused
        BY <4>2, <2>1, <2>2, <2>4
      <4> QED
        BY <4>1, <4>2
    <3> QED
      BY <3>1 DEF OrdersAreConsecutive
  <2>8. NoForm \in Requests /\ NoForm.removed = {} /\ <<>> \in Rows
    BY RowsAreSeq DEF NoForm, Requests
  <2>9. FormOK'
    BY <2>1, <2>8 DEF FormOK
  <2>10. form'[u] = NoForm /\ \A v \in Admins : v # u => form'[v] = form[v]
    BY <2>1 DEF FormOK
  <2>11. \A v \in Admins : /\ shown'[v] = <<>> \/ shown'[v] = shown[v]
                           /\ v # u => shown'[v] = shown[v]
                           /\ read'[v] = <<>> \/ read'[v] = read[v]
    BY <2>1 DEF TypeOK
  <2>12. TypeOK'
    <3>1. (\A v \in Admins :
             /\ \A r \in form[v].removed : r.row \in Nat
             /\ \A k \in DOMAIN form[v].added : form[v].added[k] \in Offered)'
      BY <2>9 DEF FormOK, Requests
    <3>2. rows' \in Rows /\ Rows' = Rows
      BY <2>6, RowsAreSeq DEF Rows
    <3>3. pc' \in [Admins -> {"idle", "page", "save", "ok", "refused"}]
      BY <2>1 DEF TypeOK
    <3>4. shown' \in [Admins -> Rows] /\ read' \in [Admins -> Rows]
      BY <2>1, <2>8 DEF TypeOK
    <3>5. requests' \in 0 .. MaxRequests
      BY <2>1 DEF TypeOK
    <3> QED
      BY <3>1, <3>2, <3>3, <3>4, <3>5, <2>5 DEF TypeOK
  <2>13. ReadersHaveSeenRows'
    <3>1. Grown(rows, <<>>) /\ Bounded(<<>>) /\ Len(<<>>) \in Nat
      BY <1>0 DEF Grown, Bounded
    <3>2. \A v \in Admins : Grown(rows', shown'[v]) /\ Grown(rows', read'[v]) /\ Bounded(read'[v])
      BY <3>1, <2>6, <2>11, <1>0 DEF ReadersHaveSeenRows
    <3> QED
      BY <3>2 DEF ReadersHaveSeenRows
  <2>14. PagesShowRows'
    <3>1. SUFFICES ASSUME NEW v \in Admins, NEW r \in form'[v].removed
                   PROVE  \E i \in StationsIn(shown'[v], r.area) :
                            /\ shown'[v][i].station = r.station
                            /\ r.area \notin outdated' /\ Alone(shown'[v], r.area) =>
                                 shown'[v][i].order = r.row + 1
      BY DEF PagesShowRows
    <3>2. v # u /\ form'[v] = form[v] /\ shown'[v] = shown[v]
      BY <2>8, <2>10, <2>11
    <3> QED
      BY <3>2, <2>5 DEF PagesShowRows
  <2>15. RemovesAtMostCrossProduct
    <3>1. SUFFICES ASSUME NEW i \in Live(rows), i \notin Live(rows')
                   PROVE  \E r, s \in f.removed :
                            /\ r.area = rows[i].area /\ s.station = rows[i].station
                            /\ r = s \/ \E j \in StationsIn(shown[u], s.area) :
                                         j # i /\ shown[u][j].station = rows[i].station
      BY <2>1 DEF RemovesAtMostCrossProduct, f
    <3>2. i \in 1 .. Len(rows) /\ ~rows[i].deleted
      BY <1>0 DEF Live
    <3>3. ~refused /\ rows' = t
      BY <3>1, <2>1
    <3>4. i \in gone
      BY <3>1, <3>2, <3>3, <2>2 DEF Live
    <3>5. PICK r \in f.removed, s \in f.removed : read[u][i].area = r.area /\ read[u][i].station = s.station
      BY <3>4 DEF get_stations_for_removal, gone
    <3>6. i \in 1 .. Len(read[u])
      BY <3>4, <1>0 DEF get_stations_for_removal, gone
    <3>7. rows[i].area = r.area /\ rows[i].station = s.station
      BY <3>5, <3>6 DEF ReadersHaveSeenRows, Grown
    <3>8. CASE s.area = rows[i].area
      BY <3>7, <3>8
    <3>9. CASE s.area # rows[i].area
      <4>1. PICK j \in StationsIn(shown[u], s.area) : shown[u][j].station = s.station
        BY DEF PagesShowRows, f
      <4>2. j \in 1 .. Len(shown[u]) /\ shown[u][j].area = s.area
        BY <1>0 DEF StationsIn, Live
      <4>3. rows[j].area = s.area
        BY <4>2 DEF ReadersHaveSeenRows, Grown
      <4>4. j # i
        BY <4>3, <3>9
      <4> QED
        BY <4>1, <4>4, <3>7
    <3> QED
      BY <3>8, <3>9
  <2>16. RemovesWhatIsShown
    <3>1. SUFFICES ASSUME NEW v \in Admins, pc[v] = "save", pc'[v] = "ok",
                          NEW r \in form[v].removed, r.area \notin outdated, Alone(shown[v], r.area),
                          RowsOf(shown[v], r.area) = RowsOf(rows, r.area),
                          RowsOf(read[v], r.area) = RowsOf(rows, r.area),
                          NEW i \in StationsIn(rows, r.area), rows[i].station = r.station
                   PROVE  rows'[i].deleted
      BY DEF RemovesWhatIsShown
    <3>2. v = u /\ ~refused /\ rows' = t
      BY <3>1, <2>1 DEF TypeOK
    <3>3. PICK j \in StationsIn(shown[v], r.area) : shown[v][j].station = r.station /\ shown[v][j].order = r.row + 1
      BY <3>1 DEF PagesShowRows
    <3>4. /\ j \in StationsIn(rows, r.area) /\ j \in DOMAIN rows /\ shown[v][j] = rows[j]
          /\ rows[j].area = r.area
      <4>1. StationsIn(shown[v], r.area) = StationsIn(rows, r.area)
        BY <3>1, SameRows
      <4>2. j \in DOMAIN shown[v] /\ shown[v][j].area = r.area /\ j \in DOMAIN rows /\ rows[j].area = r.area
        BY <4>1 DEF StationsIn, Live
      <4>3. \A k \in DOMAIN shown[v] : shown[v][k].area = r.area => shown[v][k] = rows[k]
        BY <3>1, SameRows
      <4> QED
        BY <4>1, <4>2, <4>3
    <3>5. i = j
      BY <3>1, <3>3, <3>4 DEF Unique, StationsIn, Live
    <3>6. j \in DOMAIN read[v] /\ read[v][j] = rows[j]
      <4>1. \A k : k \in DOMAIN read[v] /\ read[v][k].area = r.area <=> k \in DOMAIN rows /\ rows[k].area = r.area
        BY <3>1, SameRows
      <4>2. \A k \in DOMAIN read[v] : read[v][k].area = r.area => read[v][k] = rows[k]
        BY <3>1, SameRows
      <4> QED
        BY <3>4, <4>1, <4>2
    <3>7. j \in gone
      BY <3>2, <3>3, <3>4, <3>6 DEF get_stations_for_removal, gone, f
    <3> QED
      BY <3>2, <3>4, <3>5, <3>7, <2>2, <1>0
  <2> QED
    BY <2>6, <2>7, <2>9, <2>12, <2>13, <2>14, <2>15, <2>16
<1>4. CASE UNCHANGED vars
  <2>1. IInv'
    BY <1>4 DEF vars, TypeOK, FormOK, ReadersHaveSeenRows, PagesShowRows, OrdersAreConsecutive, Rows
  <2> QED
    BY <1>4, <2>1
<1> QED
  BY <1>1, <1>2, <1>3, <1>4 DEF Next

(* The inductive invariant of station administration: the types, the rows   *)
(* and their numbers, the pages and forms that are open and the rows that  *)
(* were read, for any admins, areas, stations and worker processes.        *)
THEOREM Invariant == ASSUME Parameters PROVE Spec => []IInv
<1>1. Init => IInv
  BY Initially
<1>2. IInv /\ [Next]_vars => IInv'
  BY Steps
<1> QED
  BY <1>1, <1>2, PTL DEF Spec

(* Handlers of any number of worker processes leave no gap and no double in*)
(* the numbers of an area, and no number on a deleted row, until one saves *)
(* what it worked out from rows of this area that another has changed.     *)
THEOREM NumbersHaveNoGap ==
  ASSUME Parameters
  PROVE  Spec => [](TypeOK /\ OrdersAreConsecutive)
<1>1. IInv => TypeOK /\ OrdersAreConsecutive
  BY DEF IInv
<1> QED
  BY <1>1, Invariant, PTL

(* The three filters of a removal find at most the stations it names in the*)
(* areas it names, and never miss one that the page and the handler have   *)
(* seen as it is, in an area that shares no station.                       *)
THEOREM RowsNameTheirStations ==
  ASSUME Parameters
  PROVE  Spec => RemovalsAreExact
<1>1. IInv /\ [Next]_vars => [RemovesAtMostCrossProduct /\ RemovesWhatIsShown]_vars
  BY Steps
<1> QED
  BY <1>1, Invariant, PTL DEF Spec, RemovalsAreExact
=============================================================================
