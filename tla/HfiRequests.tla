----------------------------- MODULE HfiRequests -----------------------------
(***************************************************************************)
(* Requests of the HFI calculator for one fire centre and one prep period: *)
(* routers/hfi_calc.py and db/crud/hfi_calc.py.  A user changes a setting  *)
(* (a station selected, its fuel type, the fire starts of a day) by loading*)
(* the most recent request, calculating results, and storing the changed   *)
(* request as a new one; others mark planning areas as ready; an admin     *)
(* changes the stations of an area, which is then not ready any more.      *)
(*                                                                         *)
(* Handlers run on the event loops of several worker processes: a handler  *)
(* keeps its worker except while it awaits the calculation.                *)
(***************************************************************************)
EXTENDS Integers, Sequences

CONSTANTS
  Users, Workers, Areas,
  Values, Default,  \* settings of an area, and the one of a new request
  MaxSets, MaxToggles, MaxAdmins, MaxFailures  \* bounds: handlers started, failures

VARIABLES
  requests, \* committed hfi_request rows, each with its hfi_ready records
  clock,    \* the last create_timestamp
  pc, worker, \* of each user's handler
  change,   \* what the user sets: <<area, value>>, or nothing
  request,  \* the HFIResultRequest of a handler that calculates
  previous, \* previous_latest_request (store), or the request looked up (toggle)
  row,      \* the row a handler has inserted, or the ready state it writes
  sets, toggles, admins, failures,
  lastSet,    \* ghost: the value last set, with success, for each area
  answered,   \* ghost: the ready state last reported, for each area
  changed,    \* ghost: areas whose stations changed since they were toggled
  uncleared,  \* ghost: those of them whose update was rolled back
  crossed,    \* ghost: areas whose ready state was written while a store had copied
              \* the one before, or on a request that is not the most recent
  since,      \* ghost: of each user's handler, areas that others set since it loaded
  overwritten \* ghost: areas whose last setting a store of what was loaded before it
              \* has replaced

handlers == <<pc, worker, change, request, previous, row>>
counts == <<sets, toggles, admins, failures>>
ghosts == <<lastSet, answered, changed, uncleared, crossed, since, overwritten>>
vars == <<requests, clock, handlers, counts, ghosts>>

NotReady == [a \in Areas |-> FALSE]
NewSettings == [a \in Areas |-> Default]
Nothing == <<>>
Changes == (Areas \X Values) \union {Nothing}

\* Regression: in ascending order of create_timestamp.
OldestOf(rs) ==
  IF rs = <<>> THEN 0
  ELSE CHOOSE i \in 1 .. Len(rs) : \A j \in 1 .. Len(rs) : rs[i].stamp <= rs[j].stamp

\* get_most_recent_updated_hfi_request; 0 is None.
MostRecentOf(rs) ==
  IF rs = <<>> THEN 0
  ELSE CHOOSE i \in 1 .. Len(rs) : \A j \in 1 .. Len(rs) : rs[j].stamp <= rs[i].stamp

most_recent == MostRecentOf(requests)

\* get_prepared_request: the stored request, or a new one with default values.
get_prepared_request ==
  IF most_recent = 0 THEN NewSettings ELSE requests[most_recent].settings

\* Regression: the setting becomes the area's, not its value.
ApplyPair(settings, c) == IF c = Nothing THEN settings ELSE [settings EXCEPT ![c[1]] = c[1]]

\* A prep day outside the period changes nothing, and the request is stored all the same.
Apply(settings, c) == IF c = Nothing THEN settings ELSE [settings EXCEPT ![c[1]] = c[2]]

Init ==
  /\ requests = <<>> /\ clock = 0
  /\ pc = [u \in Users |-> "idle"] /\ worker \in [Users -> Workers]
  /\ change = [u \in Users |-> Nothing] /\ request = [u \in Users |-> NewSettings]
  /\ previous = [u \in Users |-> 0] /\ row = [u \in Users |-> Nothing]
  /\ sets = 0 /\ toggles = 0 /\ admins = 0 /\ failures = 0
  /\ lastSet = NewSettings /\ answered = NotReady /\ changed = {}
  /\ uncleared = {} /\ crossed = {} /\ since = [u \in Users |-> {}] /\ overwritten = {}

Free(w) == \A u \in Users : worker[u] = w => pc[u] \in {"idle", "calculate"}

Starts(u, w, step) ==
  /\ pc[u] = "idle" /\ Free(w)
  /\ pc' = [pc EXCEPT ![u] = step] /\ worker' = [worker EXCEPT ![u] = w]

Steps(u, from, to) ==
  /\ pc[u] = from
  /\ pc' = [pc EXCEPT ![u] = to]
  /\ UNCHANGED worker

-----------------------------------------------------------------------------
(* set_planning_area_station, ..._fuel_type and set_fire_start_range.      *)
Load(u, w, c) ==
  /\ sets < MaxSets
  /\ Starts(u, w, "calculate")
  /\ sets' = sets + 1
  /\ change' = [change EXCEPT ![u] = c]
  /\ request' = [request EXCEPT ![u] = Apply(get_prepared_request, c)]
  /\ since' = [since EXCEPT ![u] = {}]
  /\ UNCHANGED <<requests, clock, previous, row, toggles, admins, failures, lastSet,
                 answered, changed, uncleared, crossed, overwritten>>

\* The weather API fails, and nothing is stored.
calculate_fails(u) ==
  /\ Steps(u, "calculate", "idle")
  /\ UNCHANGED <<requests, clock, change, request, previous, row, counts, ghosts>>

\* store_hfi_request, first query; the worker is free to run the handler again.
StoreBegins(u) ==
  /\ Free(worker[u])
  /\ Steps(u, "calculate", "insert")
  /\ previous' = [previous EXCEPT ![u] = most_recent]
  /\ UNCHANGED <<requests, clock, change, request, row, counts, ghosts>>

ReadyRecords(u) == IF previous[u] = 0 THEN NotReady ELSE requests[previous[u]].ready

\* The row with its create_timestamp, then the ready records of the previous request.
StoreInserts(u) ==
  /\ Steps(u, "insert", "commit")
  /\ clock' = clock + 1
  /\ row' = [row EXCEPT ![u] =
               [stamp |-> clock + 1, settings |-> request[u], ready |-> ReadyRecords(u)]]
  /\ UNCHANGED <<requests, change, request, previous, counts, ghosts>>

AreaOf(c) == IF c = Nothing THEN {} ELSE {c[1]}

StoreCommits(u) ==
  /\ Steps(u, "commit", "idle")
  /\ requests' = Append(requests, row[u])
  /\ lastSet' = Apply(lastSet, change[u])
  /\ since' = [v \in Users |-> since[v] \union (IF v = u THEN {} ELSE AreaOf(change[u]))]
  /\ overwritten' =
       IF \E i \in DOMAIN requests : requests[i].stamp > row[u].stamp
       THEN overwritten \union AreaOf(change[u])
       ELSE (overwritten \union since[u]) \ AreaOf(change[u])
  /\ UNCHANGED <<clock, change, request, previous, row, counts, answered, changed, uncleared,
                 crossed>>

-----------------------------------------------------------------------------
(* toggle_ready: without a request it raises, and nothing changes.         *)
ToggleReads(u, w, a) ==
  /\ toggles < MaxToggles /\ most_recent # 0
  /\ Starts(u, w, "toggle")
  /\ toggles' = toggles + 1
  /\ previous' = [previous EXCEPT ![u] = most_recent]
  /\ row' = [row EXCEPT ![u] = [area |-> a, ready |-> ~requests[most_recent].ready[a]]]
  /\ UNCHANGED <<requests, clock, change, request, sets, admins, failures, ghosts>>

\* A ready state of area a is answered, and whether a store crosses with it.
Answers(a, ready, crosses) ==
  /\ answered' = [answered EXCEPT ![a] = ready]
  /\ crossed' = IF crosses THEN crossed \union {a} ELSE crossed \ {a}

ToggleCommits(u) ==
  LET a == row[u].area  ready == row[u].ready  p == previous[u]
  IN /\ Steps(u, "toggle", "idle")
     /\ requests' = [requests EXCEPT ![p].ready[a] = ready]
     /\ Answers(a, ready, p # most_recent \/ \E v \in Users :
                             pc[v] = "commit" \/ (pc[v] = "insert" /\ previous[v] # p))
     /\ changed' = changed \ {a} /\ uncleared' = uncleared \ {a}
     /\ UNCHANGED <<clock, change, request, previous, row, counts, lastSet, since, overwritten>>

-----------------------------------------------------------------------------
(* admin_update_stations: save_hfi_stations commits the stations of area a.*)
AdminSaves(u, w, a) ==
  /\ admins < MaxAdmins
  /\ Starts(u, w, "unready")
  /\ admins' = admins + 1
  /\ row' = [row EXCEPT ![u] = [area |-> a, ready |-> FALSE]]
  /\ changed' = changed \union {a}
  /\ UNCHANGED <<requests, clock, change, request, previous, sets, toggles, failures,
                 lastSet, answered, uncleared, crossed, since, overwritten>>

\* Regression: the update is restricted to the request stored first.
OnlyTheFirst(a) ==
  [i \in DOMAIN requests |-> [requests[i] EXCEPT !.ready[a] = @ /\ i # 1]]

\* The update of unready_planning_areas: every request of the fire centre.
unready_planning_areas(a) ==
  [i \in DOMAIN requests |-> [requests[i] EXCEPT !.ready[a] = FALSE]]

AdminUnreadies(u) ==
  LET a == row[u].area
  IN /\ Steps(u, "unready", "idle")
     /\ requests' = unready_planning_areas(a)
     /\ Answers(a, FALSE, \E v \in Users : pc[v] = "commit")
     /\ uncleared' = uncleared \ {a}
     /\ UNCHANGED <<clock, change, request, previous, row, counts, lastSet, changed, since,
                    overwritten>>

\* The cache cannot be cleared, and get_write_session_scope rolls the update back.
clear_cache_fails(u) ==
  /\ failures < MaxFailures
  /\ Steps(u, "unready", "idle")
  /\ failures' = failures + 1
  /\ uncleared' = uncleared \union {row[u].area}
  /\ UNCHANGED <<requests, clock, change, request, previous, row, sets, toggles, admins,
                 lastSet, answered, changed, crossed, since, overwritten>>

Next ==
  \E u \in Users :
    \/ \E w \in Workers, c \in Changes : Load(u, w, c)
    \/ calculate_fails(u)
    \/ StoreBegins(u)
    \/ StoreInserts(u)
    \/ StoreCommits(u)
    \/ \E w \in Workers, a \in Areas : ToggleReads(u, w, a)
    \/ ToggleCommits(u)
    \/ \E w \in Workers, a \in Areas : AdminSaves(u, w, a)
    \/ AdminUnreadies(u)
    \/ clear_cache_fails(u)

Spec == Init /\ [][Next]_vars

-----------------------------------------------------------------------------
Settings == [Areas -> Values]
Requests == [stamp : Nat, settings : Settings, ready : [Areas -> BOOLEAN]]
Pcs == {"idle", "calculate", "insert", "commit", "toggle", "unready"}

TypeOK ==
  /\ requests \in Seq(Requests) /\ clock \in Nat
  /\ pc \in [Users -> Pcs] /\ worker \in [Users -> Workers]
  /\ change \in [Users -> Changes] /\ request \in [Users -> Settings]
  /\ previous \in [Users -> 0 .. Len(requests)] /\ DOMAIN row = Users
  /\ \A u \in Users :
       /\ pc[u] = "commit" => row[u] \in Requests
       /\ pc[u] \in {"toggle", "unready"} => row[u] \in [area : Areas, ready : BOOLEAN]
  /\ sets \in 0 .. MaxSets /\ toggles \in 0 .. MaxToggles
  /\ admins \in 0 .. MaxAdmins /\ failures \in 0 .. MaxFailures
  /\ lastSet \in Settings /\ answered \in [Areas -> BOOLEAN]
  /\ changed \subseteq Areas /\ uncleared \subseteq Areas /\ crossed \subseteq Areas
  /\ since \in [Users -> SUBSET Areas] /\ overwritten \subseteq Areas

(* "Enable / disable a station", "Set the fuel type for a station": the    *)
(* most recent request has the value last set for each area, unless a      *)
(* handler that had loaded the request before stored it since.             *)
NoSettingIsLost ==
  most_recent # 0 =>
    \A a \in Areas \ overwritten : requests[most_recent].settings[a] = lastSet[a]

(* "Copy over ready records for existing hfi request": the ready state a   *)
(* user was answered is the one of the most recent request, until the area *)
(* is toggled again or loses it to a change of its stations, unless it was *)
(* written between a store's copy and its commit.                          *)
ReadyIsAsAnswered ==
  most_recent # 0 =>
    \A a \in Areas \ crossed : requests[most_recent].ready[a] = answered[a]

(* Whatever handlers do on whatever workers, ready states and settings are *)
(* lost only to a store they cross with, and then of its areas only.       *)
NothingIsLost == ReadyIsAsAnswered /\ NoSettingIsLost

(* An area whose stations an admin has changed is not ready until a user   *)
(* toggles it again, unless the cache could not be cleared for this very   *)
(* area, or a store crossed with the update.                               *)
ClearedAreasAreNotReady ==
  \A a \in changed \ (uncleared \union crossed) :
    \/ \E u \in Users : pc[u] = "unready" /\ row[u].area = a
    \/ most_recent # 0 => ~requests[most_recent].ready[a]
=============================================================================
