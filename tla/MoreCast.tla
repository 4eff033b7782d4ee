------------------------------- MODULE MoreCast -------------------------------
(***************************************************************************)
(* Submitting forecasts of MoreCast 2 (save_forecasts of                   *)
(* routers/morecast_v2.py): a handler reads the dailies that WF1 has for   *)
(* the stations of the request, from the cache of redis or from WF1, posts *)
(* the forecasts to WF1 under the ids of the dailies it found, clears the  *)
(* cached pages that name a station, and stores the forecasts in the       *)
(* database.  Readers fill the same cache.  The model has one date: a      *)
(* daily, like a forecast, is that of a station.                           *)
(*                                                                         *)
(* WF1 and redis are external; every step below is one await or one call   *)
(* to them, and handlers of any process interleave between the steps.      *)
(***************************************************************************)
EXTENDS Integers, FiniteSets, FiniteSetsExt

CONSTANTS
  Forecasters, Readers, Stations,
  NoPage, NoId,
  MaxSubmissions, MaxReads, MaxFaults  \* bounds

Handlers == Forecasters \union Readers
Queries == SUBSET Stations \ {{}}

VARIABLES
  wf1,    \* the forecasts WF1 holds
  cache,  \* redis: the page of dailies cached for each query
  token,  \* redis: the access token of WF1 it holds
  rows,   \* the committed rows of morecast_forecast
  pc,     \* where each handler is
  request, \* the stations of its request
  number, \* a submission's create_timestamp; it stands for its forecasts too
  page,   \* the dailies it has read
  form,   \* what a submission posts: for each station a daily's id, or none
  left,   \* the stations whose pages a submission has yet to clear
  clock, reads, faults,
  clears, \* ghost: how often the pages of each station were cleared
  posted, \* ghost: the submissions that WF1 carried out
  raced   \* ghost: stations of overlapping submissions, of a page stored after
          \* a clearing that it had been fetched before, or of a failed submission

locals == <<pc, request, number, page, form, left>>
counts == <<clock, reads, faults>>
ghosts == <<clears, posted, raced>>
vars == <<wf1, cache, token, rows, locals, counts, ghosts>>

\* A daily of WF1 with a forecast; value is the submission it is from.
Daily == [id : 1 .. MaxSubmissions, station : Stations, by : Forecasters,
          value : 1 .. MaxSubmissions]
Page == [dailies : SUBSET Daily, got : [Stations -> Nat]]
Row == [station : Stations, stamp : 1 .. MaxSubmissions, by : Forecasters]

\* What WF1 answers to a query for the dailies of some stations.
Answer(S) == [dailies |-> {d \in wf1 : d.station \in S}, got |-> clears]

\* create_timestamp of the rows get_forecasts_in_range returns for a station.
MostRecent(s) == Max({0} \union {r.stamp : r \in {x \in rows : x.station = s}})

\* Regression: only the key of the station alone.
KeyOfAlone(s) == {{s}}

\* The keys that scan_iter finds for a station's id.
KeysWith(s) == {S \in Queries : s \in S}

\* construct_wf1_forecast: the id of the station's daily on the page, if any.
Forms(p, S) ==
  {f \in [S -> UNION {{d.id : d \in p.dailies}, {NoId}}] :
     \A s \in S : LET found == {d.id : d \in {x \in p.dailies : x.station = s}}
                  IN f[s] \in IF found = {} THEN {NoId} ELSE found}

\* The dailies of WF1 once it has carried out a post.
Carried(h) ==
  {d \in wf1 : d.station \notin request[h] \/ form[h][d.station] # d.id}
  \union {[d EXCEPT !.value = number[h]] :
            d \in {x \in wf1 : x.station \in request[h] /\ form[h][x.station] = x.id}}
  \union {[id |-> number[h], station |-> s, by |-> h, value |-> number[h]] :
            s \in {x \in request[h] : form[h][x] = NoId}}

Init ==
  /\ wf1 = {} /\ rows = {} /\ token = "none"
  /\ cache = [S \in Queries |-> NoPage]
  /\ pc = [h \in Handlers |-> "idle"]
  /\ request = [h \in Handlers |-> {}]
  /\ number = [h \in Forecasters |-> 0]
  /\ page = [h \in Handlers |-> NoPage]
  /\ form = [h \in Forecasters |-> <<>>]
  /\ left = [h \in Forecasters |-> {}]
  /\ clock = 0 /\ reads = 0 /\ faults = 0
  /\ clears = [s \in Stations |-> 0] /\ posted = {} /\ raced = {}

\* save_forecasts takes its time stamp before anything else.
Submit(h, S) ==
  /\ pc[h] = "idle" /\ clock < MaxSubmissions
  /\ clock' = clock + 1
  /\ pc' = [pc EXCEPT ![h] = "query"]
  /\ request' = [request EXCEPT ![h] = S]
  /\ number' = [number EXCEPT ![h] = clock']
  /\ raced' = raced \union UNION {request[g] \intersect S : g \in Forecasters}
  /\ UNCHANGED <<wf1, cache, token, rows, page, form, left, reads, faults, clears, posted>>

\* get_determinates_for_date_range, or any other reader of the dailies.
Read(h, S) ==
  /\ pc[h] = "idle" /\ reads < MaxReads
  /\ reads' = reads + 1
  /\ pc' = [pc EXCEPT ![h] = "query"]
  /\ request' = [request EXCEPT ![h] = S]
  /\ UNCHANGED <<wf1, cache, token, rows, number, page, form, left, clock, faults, ghosts>>

\* A handler is done, whatever it answers.
Done(h) ==
  /\ pc' = [pc EXCEPT ![h] = "idle"]
  /\ request' = [request EXCEPT ![h] = {}]
  /\ page' = [page EXCEPT ![h] = NoPage]
  /\ IF h \in Forecasters
     THEN /\ number' = [number EXCEPT ![h] = 0]
          /\ form' = [form EXCEPT ![h] = <<>>]
          /\ left' = [left EXCEPT ![h] = {}]
     ELSE UNCHANGED <<number, form, left>>

\* Where a handler goes once it has its page.
Goes(h, p) ==
  IF h \in Readers THEN Done(h)
  ELSE /\ pc' = [pc EXCEPT ![h] = "post"]
       /\ \E f \in Forms(p, request[h]) : form' = [form EXCEPT ![h] = f]
       /\ page' = [page EXCEPT ![h] = NoPage]
       /\ UNCHANGED <<request, number, left>>

\* fetch_access_token: the token of the cache, or a new one that is cached.
Authorised == token # "revoked" /\ token' = "live"

\* _fetch_cached_response finds the page in the cache.
Hit(h) ==
  /\ pc[h] = "query" /\ cache[request[h]] # NoPage
  /\ Goes(h, cache[request[h]])
  /\ UNCHANGED <<wf1, cache, token, rows, counts, ghosts>>

\* It asks WF1 when the page is not there, or redis cannot say.
Miss(h) ==
  /\ pc[h] = "query" /\ Authorised
  /\ IF cache[request[h]] = NoPage THEN UNCHANGED faults
     ELSE faults < MaxFaults /\ faults' = faults + 1
  /\ page' = [page EXCEPT ![h] = Answer(request[h])]
  /\ pc' = [pc EXCEPT ![h] = "fill"]
  /\ UNCHANGED <<wf1, cache, rows, request, number, form, left, clock, reads, ghosts>>

\* The page is cached; raced records that a clearing came in between.
Fill(h) ==
  /\ pc[h] = "fill"
  /\ cache' = [cache EXCEPT ![request[h]] = page[h]]
  /\ raced' = raced \union {s \in request[h] : page[h].got[s] < clears[s]}
  /\ Goes(h, page[h])
  /\ UNCHANGED <<wf1, token, rows, counts, clears, posted>>

\* redis does not take the page, which is only logged.
NotFilled(h) ==
  /\ pc[h] = "fill" /\ faults < MaxFaults
  /\ faults' = faults + 1
  /\ Goes(h, page[h])
  /\ UNCHANGED <<wf1, cache, token, rows, clock, reads, ghosts>>

\* An error of WF1, a token it does not know any more included, is an answer
\* without dailies, which is not cached and raises an exception.
QueryFails(h) ==
  /\ pc[h] = "query" /\ cache[request[h]] = NoPage
  /\ \/ token = "revoked" /\ UNCHANGED faults
     \/ faults < MaxFaults /\ faults' = faults + 1
  /\ Done(h)
  /\ UNCHANGED <<wf1, cache, token, rows, clock, reads, ghosts>>

\* post_forecasts: WF1 carries out the post and answers with a success.
Post(h) ==
  /\ pc[h] = "post" /\ Authorised
  /\ wf1' = Carried(h) /\ posted' = posted \union {number[h]}
  /\ pc' = [pc EXCEPT ![h] = "clear"]
  /\ left' = [left EXCEPT ![h] = request[h]]
  /\ UNCHANGED <<cache, rows, request, number, page, form, counts, clears, raced>>

\* Regression: what WF1 answers is only logged.
RefusalIsIgnored(h) ==
  /\ pc[h] = "post" /\ faults < MaxFaults
  /\ faults' = faults + 1
  /\ pc' = [pc EXCEPT ![h] = "clear"]
  /\ left' = [left EXCEPT ![h] = request[h]]
  /\ UNCHANGED <<wf1, cache, token, rows, request, number, page, form, clock, reads, ghosts>>

\* WF1 refuses the post: 400, nothing is stored.
PostRefused(h) ==
  /\ pc[h] = "post"
  /\ \/ token = "revoked" /\ UNCHANGED faults
     \/ faults < MaxFaults /\ faults' = faults + 1
  /\ Done(h)
  /\ UNCHANGED <<wf1, cache, token, rows, clock, reads, ghosts>>

\* WF1 carries out the post and its answer is lost: also 400.
AnswerLost(h) ==
  /\ pc[h] = "post" /\ Authorised /\ faults < MaxFaults
  /\ wf1' = Carried(h) /\ posted' = posted \union {number[h]}
  /\ faults' = faults + 1
  /\ raced' = raced \union request[h]
  /\ Done(h)
  /\ UNCHANGED <<cache, rows, clock, reads, clears>>

\* clear_cache_matching for one of the stations.
Clear(h, s) ==
  /\ pc[h] = "clear" /\ s \in left[h]
  /\ cache' = [S \in Queries |-> IF S \in KeysWith(s) THEN NoPage ELSE cache[S]]
  /\ clears' = [clears EXCEPT ![s] = @ + 1]
  /\ left' = [left EXCEPT ![h] = @ \ {s}]
  /\ UNCHANGED <<wf1, token, rows, pc, request, number, page, form, counts, posted, raced>>

\* redis is down: 400, though WF1 has the forecasts.
ClearFails(h) ==
  /\ pc[h] = "clear" /\ left[h] # {} /\ faults < MaxFaults
  /\ faults' = faults + 1
  /\ raced' = raced \union request[h]
  /\ Done(h)
  /\ UNCHANGED <<wf1, cache, token, rows, clock, reads, clears, posted>>

\* save_all_forecasts inserts one row for each station, and commits.
Save(h) ==
  /\ pc[h] = "clear" /\ left[h] = {}
  /\ rows' = rows \union {[station |-> s, stamp |-> number[h], by |-> h] : s \in request[h]}
  /\ Done(h)
  /\ UNCHANGED <<wf1, cache, token, counts, ghosts>>

\* The insert fails: 500, though WF1 has the forecasts.
SaveFails(h) ==
  /\ pc[h] = "clear" /\ left[h] = {} /\ faults < MaxFaults
  /\ faults' = faults + 1
  /\ raced' = raced \union request[h]
  /\ Done(h)
  /\ UNCHANGED <<wf1, cache, token, rows, clock, reads, clears, posted>>

\* A page is removed REDIS_DAILIES_BY_STATION_CODE_CACHE_EXPIRY seconds later.
PageExpires(S) ==
  /\ cache[S] # NoPage
  /\ cache' = [cache EXCEPT ![S] = NoPage]
  /\ UNCHANGED <<wf1, token, rows, locals, counts, ghosts>>

\* WF1 forgets a token that redis still has; the code does not handle that.
TokenRevoked ==
  /\ token = "live" /\ faults < MaxFaults
  /\ token' = "revoked" /\ faults' = faults + 1
  /\ UNCHANGED <<wf1, cache, rows, locals, clock, reads, ghosts>>

\* The cached token expires after REDIS_AUTH_CACHE_EXPIRY seconds at most.
TokenExpires ==
  /\ token # "none"
  /\ token' = "none"
  /\ UNCHANGED <<wf1, cache, rows, locals, counts, ghosts>>

Next ==
  \/ \E h \in Forecasters, S \in Queries : Submit(h, S)
  \/ \E h \in Readers, S \in Queries : Read(h, S)
  \/ \E h \in Handlers : Hit(h) \/ Miss(h) \/ Fill(h) \/ NotFilled(h) \/ QueryFails(h)
  \/ \E h \in Forecasters :
       \/ Post(h) \/ PostRefused(h) \/ AnswerLost(h) \/ ClearFails(h)
       \/ \E s \in Stations : Clear(h, s)
       \/ Save(h) \/ SaveFails(h)
  \/ \E S \in Queries : PageExpires(S)
  \/ TokenRevoked \/ TokenExpires

Spec == Init /\ [][Next]_vars

-----------------------------------------------------------------------------
TypeOK ==
  /\ wf1 \subseteq Daily /\ rows \subseteq Row /\ token \in {"none", "live", "revoked"}
  /\ cache \in [Queries -> Page \union {NoPage}]
  /\ page \in [Handlers -> Page \union {NoPage}]
  /\ pc \in [Handlers -> {"idle", "query", "fill", "post", "clear"}]
  /\ request \in [Handlers -> SUBSET Stations]
  /\ number \in [Forecasters -> 0 .. MaxSubmissions] /\ left \in [Forecasters -> SUBSET Stations]
  /\ form = [h \in Forecasters |-> form[h]]
  /\ clock \in 0 .. MaxSubmissions /\ reads \in 0 .. MaxReads /\ faults \in 0 .. MaxFaults
  /\ clears \in [Stations -> Nat]
  /\ posted \subseteq 1 .. MaxSubmissions /\ raced \subseteq Stations

ForecastsOf(s) == {d \in wf1 : d.station = s}

\* A cached page shows the forecasts that WF1 has, unless the submission that
\* changed them is about to clear it, or handlers raced for the station: no
\* page that names it among others survives clear_cache_matching.
CachedDailiesAreCurrent ==
  \A S \in Queries : \A s \in S \ raced :
    \/ cache[S] = NoPage
    \/ {d \in cache[S].dailies : d.station = s} = ForecastsOf(s)
    \/ \E h \in Forecasters : s \in left[h]

\* Whatever fails, a submission is stored only after WF1 has carried it out; and
\* the forecast that the database shows as the most recent is the only one that WF1
\* has of the station, unless one is being submitted or handlers raced for it.
DatabaseAgreesWithWf1 ==
  /\ \A r \in rows : r.stamp \in posted
  /\ \A s \in Stations \ raced :
       (\A h \in Forecasters : s \notin request[h])
         => {d.value : d \in ForecastsOf(s)} = {MostRecent(s)} \ {0}
=============================================================================
