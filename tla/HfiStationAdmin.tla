--------------------------- MODULE HfiStationAdmin ---------------------------
(***************************************************************************)
(* The stations of the planning areas of a fire centre, and the page where *)
(* admins remove and add them: admin_update_stations of routers/hfi_calc.py*)
(* with hfi/hfi_admin.py.  The page names a station by its row in the list *)
(* of the area; the handler reads the stations, works out the new order of *)
(* those that stay, and saves removals, orders and additions in one commit.*)
(*                                                                         *)
(* A handler has no await: only other worker processes get in between.     *)
(***************************************************************************)
EXTENDS Integers, Sequences, FiniteSets

CONSTANTS
  Admins, Areas,
  Initial,   \* the rows at first: a sequence of <<station, area, order>>
  Offered,   \* pairs <<station, area>> an admin may add
  Workers,   \* number of worker processes
  MaxRemoved, MaxAdded, MaxRequests  \* bounds: of a request, and their number

VARIABLES
  rows,     \* planning_weather_stations, by id; order 0 is NULL
  pc,       \* of each admin: a page shown, stations read, and the answer
  form,     \* what the admin asks for
  shown,    \* ghost: the rows when the page was loaded
  read,     \* the rows the handler has read
  requests,
  outdated  \* ghost: areas changed by a handler that had not read them as they were

vars == <<rows, pc, form, shown, read, requests, outdated>>

Live(rs) == {i \in DOMAIN rs : ~rs[i].deleted}
StationsIn(rs, a) == {i \in Live(rs) : rs[i].area = a}
NoForm == [removed |-> {}, added |-> <<>>]

Init ==
  /\ rows = [i \in DOMAIN Initial |-> [station |-> Initial[i][1], area |-> Initial[i][2],
                                       order |-> Initial[i][3], deleted |-> FALSE]]
  /\ pc = [u \in Admins |-> "idle"] /\ form = [u \in Admins |-> NoForm]
  /\ shown = [u \in Admins |-> <<>>] /\ read = [u \in Admins |-> <<>>]
  /\ requests = 0 /\ outdated = {}

-----------------------------------------------------------------------------
(* The page.  hydrate_fire_centres makes one WeatherStation of a station,  *)
(* for all its areas, with the order it has in one of them.                *)
OrderShown(of, i) == rows[of[rows[i].station]].order

\* rowId of the page: the place in sortBy(stations, order); ties by the station's code.
RowShown(of, i) ==
  Cardinality({j \in StationsIn(rows, rows[i].area) :
    \/ OrderShown(of, j) < OrderShown(of, i)
    \/ OrderShown(of, j) = OrderShown(of, i) /\ rows[j].station < rows[i].station})

Codes == {rows[i].station : i \in Live(rows)}

hydrations == {of \in [Codes -> Live(rows)] : \A c \in Codes : rows[of[c]].station = c}

ShowPage(u) ==
  /\ pc[u] \in {"idle", "ok", "refused"} /\ requests < MaxRequests
  /\ \E of \in hydrations, gone \in SUBSET Live(rows),
        added \in UNION {[1 .. n -> Offered] : n \in 0 .. MaxAdded} :
       /\ Cardinality(gone) <= MaxRemoved /\ (gone # {} \/ added # <<>>)
       /\ form' = [form EXCEPT ![u] =
            [removed |-> {[area |-> rows[i].area, station |-> rows[i].station,
                           row |-> RowShown(of, i)] : i \in gone},
             added |-> added]]
  /\ shown' = [shown EXCEPT ![u] = rows]
  /\ pc' = [pc EXCEPT ![u] = "page"]
  /\ UNCHANGED <<rows, read, requests, outdated>>

-----------------------------------------------------------------------------
(* admin_update_stations, up to update_stations.                           *)
ReadStations(u) ==
  /\ pc[u] = "page" /\ requests < MaxRequests
  /\ Cardinality({v \in Admins : pc[v] = "save"}) < Workers
  /\ read' = [read EXCEPT ![u] = rows]
  /\ pc' = [pc EXCEPT ![u] = "save"]
  /\ requests' = requests + 1
  /\ UNCHANGED <<rows, form, shown, outdated>>

\* Regression: the area and the order of a removal are enough.
InThatPlace(rs, removed) ==
  {i \in DOMAIN rs : \E r \in removed : rs[i].area = r.area /\ rs[i].order = r.row + 1}

\* Three filters, each over all the removals; deleted rows are not left out.
get_stations_for_removal(rs, removed) ==
  {i \in DOMAIN rs :
    /\ rs[i].area \in {r.area : r \in removed}
    /\ rs[i].station \in {r.station : r \in removed}
    /\ rs[i].order \in {r.row + 1 : r \in removed}}

\* get_stations_for_affected_planning_areas, without those just marked as removed.
Staying(rs, f, gone) ==
  {i \in Live(rs) \ gone :
    /\ rs[i].area \in {r.area : r \in f.removed} \union {f.added[k][2] : k \in DOMAIN f.added}
    /\ rs[i].order # 0}

\* update_station_ordering: the stations that stay in areas with removals.
Reordered(rs, f, gone) ==
  {i \in Staying(rs, f, gone) : rs[i].area \in {rs[j].area : j \in gone}}

NewOrder(rs, f, gone, i) ==
  Cardinality({j \in Reordered(rs, f, gone) : rs[j].area = rs[i].area /\ rs[j].order <= rs[i].order})

LargestOf(orders) == IF orders = {} THEN 0 ELSE CHOOSE n \in orders : \A m \in orders : m <= n

\* Regression: the orders before the update are continued.
AfterTheOld(rs, f, gone, a) ==
  LargestOf({rs[i].order : i \in {j \in Live(rs) : rs[j].area = a}}) + 1

get_next_order(rs, f, gone, a) ==
  LET updated == {i \in Reordered(rs, f, gone) : rs[i].area = a}
      existing == {i \in Staying(rs, f, gone) : rs[i].area = a}
  IN IF updated # {} THEN LargestOf({NewOrder(rs, f, gone, i) : i \in updated}) + 1
     ELSE LargestOf({rs[i].order : i \in existing}) + 1

\* add_stations: the k-th addition, after those to the same area.
AddedRow(rs, f, gone, k) ==
  LET a == f.added[k][2]
  IN [station |-> f.added[k][1], area |-> a, deleted |-> FALSE,
      order |-> get_next_order(rs, f, gone, a)
                  + Cardinality({j \in 1 .. k - 1 : f.added[j][2] = a})]

-----------------------------------------------------------------------------
(* save_hfi_stations: the statements of the bulk save, and the constraints *)
(* unique_order_for_planning_area (rows that are deleted included) and     *)
(* unique_non_deleted_station_per_planning_area, checked at each of them.  *)
Unique(rs) ==
  \A i, j \in DOMAIN rs : i # j /\ rs[i].area = rs[j].area =>
    /\ rs[i].order # rs[j].order \/ rs[i].order = 0
    /\ rs[i].station # rs[j].station \/ rs[i].deleted \/ rs[j].deleted

\* The rows after the removals, the new orders of the stations in done, and the first k
\* additions.
Saved(now, rs, f, done, k) ==
  LET gone == get_stations_for_removal(rs, f.removed)
      Row(i) ==
        CASE i > Len(now) -> AddedRow(rs, f, gone, i - Len(now))
          [] i \in gone -> [now[i] EXCEPT !.deleted = TRUE, !.order = 0]
          [] i \in done -> [now[i] EXCEPT !.order = NewOrder(rs, f, gone, i)]
          [] OTHER -> now[i]
  IN [i \in 1 .. Len(now) + k |-> Row(i)]

Moved(rs, f) == Reordered(rs, f, get_stations_for_removal(rs, f.removed))

SaveStations(now, rs, f) == Saved(now, rs, f, Moved(rs, f), Len(f.added))

\* The new orders are saved in the order of the old ones.
Conflict(now, rs, f) ==
  \/ \E i \in Moved(rs, f) :
       ~Unique(Saved(now, rs, f, {j \in Moved(rs, f) : rs[j].order <= rs[i].order}, 0))
  \/ \E k \in 0 .. Len(f.added) : ~Unique(Saved(now, rs, f, Moved(rs, f), k))

RowsOf(rs, a) == [i \in {j \in DOMAIN rs : rs[j].area = a} |-> rs[i]]

Affected(f) == {r.area : r \in f.removed} \union {f.added[k][2] : k \in DOMAIN f.added}

\* With an IntegrityError nothing is saved, and the answer is 400.
Save(u) ==
  LET refused == Conflict(rows, read[u], form[u])
  IN /\ pc[u] = "save"
     /\ rows' = IF refused THEN rows ELSE SaveStations(rows, read[u], form[u])
     /\ pc' = [pc EXCEPT ![u] = IF refused THEN "refused" ELSE "ok"]
     /\ form' = [form EXCEPT ![u] = NoForm]
     /\ shown' = [shown EXCEPT ![u] = <<>>] /\ read' = [read EXCEPT ![u] = <<>>]
     /\ outdated' = outdated \union
          {a \in Affected(form[u]) : ~refused /\ RowsOf(read[u], a) # RowsOf(rows, a)}
     /\ UNCHANGED requests

Next == \E u \in Admins : ShowPage(u) \/ ReadStations(u) \/ Save(u)

Spec == Init /\ [][Next]_vars

-----------------------------------------------------------------------------
Rows ==
  LET pairs == {<<Initial[i][1], Initial[i][2]>> : i \in DOMAIN Initial} \union Offered
  IN Seq([station : {p[1] : p \in pairs}, area : Areas, order : Nat, deleted : BOOLEAN])

TypeOK ==
  /\ rows \in Rows /\ outdated \subseteq Areas
  /\ pc \in [Admins -> {"idle", "page", "save", "ok", "refused"}]
  /\ shown \in [Admins -> Rows] /\ read \in [Admins -> Rows]
  /\ \A u \in Admins :
       /\ \A r \in form[u].removed : r.row \in Nat
       /\ \A k \in DOMAIN form[u].added : form[u].added[k] \in Offered
  /\ requests \in 0 .. MaxRequests

ConsecutiveIn(rs, a) ==
  /\ {rs[i].order : i \in StationsIn(rs, a)} = 1 .. Cardinality(StationsIn(rs, a))
  /\ \A i \in DOMAIN rs : rs[i].area = a /\ rs[i].deleted => rs[i].order = 0

(* The stations of an area are numbered from 1 without a gap: the page's   *)
(* row plus one is the order, as get_stations_for_removal takes it to be.  *)
(* "An existing station could be removed and hence have no order": no      *)
(* deleted row keeps an order, which would be taken for ever.  Only a      *)
(* handler whose rows of this very area another has changed breaks this.   *)
OrdersAreConsecutive == \A a \in Areas \ outdated : ConsecutiveIn(rows, a)

RemovesWhatIsRequested ==
  \A i \in Live(rows) : i \notin Live(rows') =>
    \E u \in Admins : pc[u] = "save"
      /\ \E r \in form[u].removed : r.area = rows[i].area /\ r.station = rows[i].station

\* Or the same request removes this station from another area, and something from here.
RemovesAtMostCrossProduct ==
  \A i \in Live(rows) : i \notin Live(rows') =>
    \E u \in Admins : pc[u] = "save" /\ \E r, s \in form[u].removed :
      /\ r.area = rows[i].area /\ s.station = rows[i].station
      /\ r = s \/ \E j \in StationsIn(shown[u], s.area) :
                   j # i /\ shown[u][j].station = rows[i].station

\* No station of this area is in another one as well.
Alone(rs, a) ==
  \A i \in StationsIn(rs, a), j \in Live(rs) : rs[i].station = rs[j].station => i = j

RemovesWhatIsShown ==
  \A u \in Admins : pc[u] = "save" /\ pc'[u] = "ok" =>
    \A r \in form[u].removed :
      /\ r.area \notin outdated /\ Alone(shown[u], r.area)
      /\ RowsOf(shown[u], r.area) = RowsOf(rows, r.area)
      /\ RowsOf(read[u], r.area) = RowsOf(rows, r.area)
      => \A i \in StationsIn(rows, r.area) : rows[i].station = r.station => rows'[i].deleted

(* "Returns the station model requested to remove": a station leaves an    *)
(* area only when a request names this station in this area.               *)
OnlyRequestedStationsAreRemoved == [][RemovesWhatIsRequested]_vars

(* The same but for stations that the request removes from another area.   *)
(* A removal that is answered with success has removed the station, when it*)
(* was picked on a page that has the area as it is, and as the handler has *)
(* read it, and no station of the area is in another one as well.          *)
RemovalsAreExact == [][RemovesAtMostCrossProduct /\ RemovesWhatIsShown]_vars
=============================================================================
