------------------------------ MODULE MCServices ------------------------------
(***************************************************************************)
(* The API and the jobs that bring weather in: its calculations            *)
(* (MCCalculations), the requests of the HFI calculator, the administration*)
(* of its stations, Morecast with WF1 and Redis, and MCWeatherJobs.  They  *)
(* share no state, so a behaviour is one of a component: the topic it      *)
(* starts with.  The same two people use all of the API.                   *)
(***************************************************************************)
EXTENDS HfiRequests, MCCalculations, MCWeatherJobs

CONSTANTS
  PlanningAreas, Initial, Offered,
  MaxRemoved, MaxAdded, MaxRequests,                           \* HfiStationAdmin
  Readers, NoPage, NoId, MaxSubmissions, MaxReads               \* MoreCast

\* HfiStationAdmin
VARIABLES stationRows, adminPc, adminForm, shown, read, saves, outdated
\* MoreCast
VARIABLES wf1, cache, token, forecastRows, forecastPc, forecastRequest, number, page, form, left, submissions,
          reads, faults, clears, posted, raced

adminVars == <<stationRows, adminPc, adminForm, shown, read, saves, outdated>>
morecastVars == <<wf1, cache, token, forecastRows, forecastPc, forecastRequest, number, page, form, left,
                  submissions, reads, faults, clears, posted, raced>>

\* The stations of two planning areas, and those an admin may add: one is in both then.
StationsAtFirst == <<<<1, "north", 1>>, <<2, "north", 2>>, <<3, "south", 1>>>>
StationsToAdd == {<<1, "north">>, <<4, "north">>, <<2, "south">>}

Admin == INSTANCE HfiStationAdminProofs WITH
  Admins <- Users, Areas <- PlanningAreas, Workers <- Cardinality(Workers),
  rows <- stationRows, pc <- adminPc, form <- adminForm, requests <- saves

Morecast == INSTANCE MoreCastProofs WITH
  Forecasters <- Users,
  rows <- forecastRows, pc <- forecastPc, request <- forecastRequest, clock <- submissions

AllTopics == Topics \union {"hfi requests", "station admin", "morecast"} \union WeatherJobs

ServicesInit ==
  /\ topic \in AllTopics /\ asked = None
  /\ Init /\ Admin!Init /\ Morecast!Init /\ JobsInit(topic)
  /\ \A u, v \in Users : worker[u] = worker[v]  \* a handler gets its worker when it starts

notAsked == <<topic, asked>>
api == <<vars, adminVars, morecastVars>>

ServicesNext ==
  \/ topic \in Topics /\ Ask /\ UNCHANGED <<api, jobsVars>>
  \/ topic = "hfi requests" /\ Next /\ UNCHANGED <<notAsked, adminVars, morecastVars, jobsVars>>
  \/ topic = "station admin" /\ Admin!Next /\ UNCHANGED <<notAsked, vars, morecastVars, jobsVars>>
  \/ topic = "morecast" /\ Morecast!Next /\ UNCHANGED <<notAsked, vars, adminVars, jobsVars>>
  \/ topic = "noaa" /\ Noaa!Next /\ UNCHANGED <<notAsked, api, namVars, rdpsVars, readingsVars>>
  \/ topic = "nam" /\ Nam!Next /\ UNCHANGED <<notAsked, api, noaaVars, rdpsVars, readingsVars>>
  \/ topic = "rdps" /\ Rdps!Next /\ UNCHANGED <<notAsked, api, noaaVars, namVars, readingsVars>>
  \/ topic = "readings" /\ Actuals!Next /\ UNCHANGED <<notAsked, api, noaaVars, namVars, rdpsVars>>

ServicesSpec == ServicesInit /\ [][ServicesNext]_<<notAsked, api, jobsVars>>

Symmetry == Permutations(Users) \union Permutations(Workers) \union Permutations(Areas)
              \union Permutations(Stations)

-----------------------------------------------------------------------------
\* Types of what the components keep.
TypesOK == topic \in AllTopics /\ TypeOK /\ Admin!TypeOK /\ Morecast!TypeOK /\ JobTypesOK

\* The stations of an area are numbered without a gap, and no deleted row keeps an
\* order, until a handler saves what it made of rows another has changed.
OrdersAreConsecutive == Admin!OrdersAreConsecutive

\* The stations that are requested on an up to date page are removed, and no others but
\* those that the request removes from another area.
RemovalsAreExact == Admin!RemovalsAreExact

\* A cached page of dailies shows what WF1 has, or is about to be cleared, unless
\* handlers raced for the station.
CachedDailiesAreCurrent == Morecast!CachedDailiesAreCurrent

\* What the database stores was given to WF1, and its most recent forecast is the
\* one WF1 has.
DatabaseAgreesWithWf1 == Morecast!DatabaseAgreesWithWf1
=============================================================================
