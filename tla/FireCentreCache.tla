---------------------------- MODULE FireCentreCache ----------------------------
(***************************************************************************)
(* The list of fire centres with their stations, which takes seconds to    *)
(* put together from the database and WF1 and is kept in Redis for a day   *)
(* (hfi/fire_centre_cache.py).  A request that finds no list reads the     *)
(* database, waits for WF1 and stores what it read, whatever an            *)
(* administrator changed and cleared in the meantime.                      *)
(***************************************************************************)
EXTENDS Naturals

CONSTANTS
  None,
  Readers, \* requests for the list
  MaxEdits \* bound: changes of the administrators

VARIABLES
  stations, \* the state of the database, as a number
  cache,    \* the state of which Redis has the list, or None
  hydrating \* what a request has read while it waits for WF1, or None

vars == <<stations, cache, hydrating>>

TypeOK ==
  /\ stations \in 0 .. MaxEdits
  /\ cache \in 0 .. MaxEdits \union {None}
  /\ hydrating \in [Readers -> 0 .. MaxEdits \union {None}]

Init ==
  /\ stations = 0
  /\ cache = None
  /\ hydrating = [r \in Readers |-> None]

\* get_fire_centres that misses the cache, or cannot reach it.
Hydrate(r) ==
  /\ hydrating[r] = None
  /\ hydrating' = [hydrating EXCEPT ![r] = stations]
  /\ UNCHANGED <<stations, cache>>

\* put_cached_hydrated_fire_centres; an error of Redis is only logged.
Put(r) ==
  /\ hydrating[r] # None
  /\ cache' \in {cache, hydrating[r]}
  /\ hydrating' = [hydrating EXCEPT ![r] = None]
  /\ UNCHANGED stations

\* admin_update_stations clears the list and commits with no await in between;
\* when the list cannot be cleared nothing is committed.
AdminUpdates ==
  /\ stations < MaxEdits
  /\ stations' = stations + 1
  /\ cache' = None
  /\ UNCHANGED hydrating

\* Regression: nothing expires.
Kept == cache # None /\ FALSE /\ UNCHANGED vars

\* cache_expiry_seconds
Expire ==
  /\ cache # None
  /\ cache' = None
  /\ UNCHANGED <<stations, hydrating>>

Next == (\E r \in Readers : Hydrate(r) \/ Put(r)) \/ AdminUpdates \/ Expire

Fairness == (\A r \in Readers : WF_vars(Put(r))) /\ WF_vars(Expire)

Spec == Init /\ [][Next]_vars /\ Fairness

\* Once the stations stay as they are, the list that is served is theirs for good:
\* one that was read before a change, and put after the change cleared the cache,
\* goes when it expires.
StaleListsExpire == <>[](cache \in {None, stations})
=============================================================================
