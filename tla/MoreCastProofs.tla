---------------------------- MODULE MoreCastProofs ----------------------------
(***************************************************************************)
(* That the cached dailies and the database agree with WF1, for any number *)
(* of forecasters, readers, stations, submissions and failures, where no   *)
(* two submissions raced for a station.                                    *)
(***************************************************************************)
EXTENDS MoreCast, TLAPS

(* What is no page is not taken for one, and what is no id not for an id.  *)
Parameters ==
  /\ Forecasters \intersect Readers = {}
  /\ NoPage \notin Page /\ NoId \notin Nat
  /\ MaxSubmissions \in Nat /\ MaxReads \in Nat /\ MaxFaults \in Nat

Ids == (1 .. MaxSubmissions) \union {NoId}
OnPage(p, s) == {d \in p.dailies : d.station = s}
-----------------------------------------------------------------------------
(* What a handler has at each of its awaits.                               *)
Positions ==
  /\ \A h \in Handlers : IF pc[h] = "idle" THEN request[h] = {} ELSE request[h] \in Queries
  /\ \A h \in Handlers : pc[h] = "fill" => page[h] \in Page
  /\ \A h \in Readers : pc[h] \in {"idle", "query", "fill"}
  /\ \A h \in Forecasters :
       /\ pc[h] # "idle" => number[h] \in 1 .. clock
       /\ pc[h] = "post" => form[h] \in [request[h] -> Ids]
       /\ pc[h] = "clear" => number[h] \in posted
       /\ pc[h] # "clear" => left[h] = {}
       /\ left[h] \subseteq request[h]

(* Two submissions of one station at the same time race for it.            *)
Apart == \A g, h \in Forecasters : g # h => request[g] \intersect request[h] \subseteq raced

(* A page a handler has fetched and not cached yet is as good as a cached  *)
(* one until the pages of the station are cleared; and nobody clears those *)
(* of a submission but itself.                                             *)
PagesAreCurrent ==
  \A h \in Handlers : pc[h] = "fill" => \A s \in request[h] :
    /\ page[h].got[s] <= clears[s]
    /\ s \in raced \/ page[h].got[s] # clears[s] \/ OnPage(page[h], s) = ForecastsOf(s)
         \/ \E g \in Forecasters : s \in left[g]
    /\ h \in Forecasters => s \in raced \/ OnPage(page[h], s) = ForecastsOf(s)

(* WF1 has one forecast of a station, which a submission finds.            *)
OneForecast == \A s \in Stations \ raced : \A d, e \in ForecastsOf(s) : d = e

FormsFit ==
  \A h \in Forecasters : pc[h] = "post" => \A s \in request[h] \ raced :
    IF ForecastsOf(s) = {} THEN form[h][s] = NoId
    ELSE \E d \in ForecastsOf(s) : form[h][s] = d.id

(* Time stamps grow, and the rows of a station have a most recent one.     *)
Stamps(s) == {0} \union {r.stamp : r \in {x \in rows : x.station = s}}
Greatest(s, n) == n \in Stamps(s) /\ \A m \in Stamps(s) : m <= n

StampsGrow ==
  /\ \A r \in rows : r.stamp \in posted /\ r.stamp <= clock
  /\ \A s \in Stations : \E n \in Stamps(s) : Greatest(s, n)
  /\ \A h \in Forecasters : \A s \in request[h] \ raced : \A n \in Stamps(s) : n < number[h]

(* Between a post and the commit WF1 is ahead of the database, by the      *)
(* submission that is being stored.                                        *)
Wf1Values(s) == {d.value : d \in ForecastsOf(s)}

ValuesAgree ==
  /\ \A s \in Stations \ raced :
       (\A h \in Forecasters : pc[h] = "clear" => s \notin request[h])
         => \A n \in Stamps(s) : Greatest(s, n) => Wf1Values(s) = {n} \ {0}
  /\ \A h \in Forecasters : pc[h] = "clear" => \A s \in request[h] \ raced : Wf1Values(s) = {number[h]}

Agreement == OneForecast /\ FormsFit /\ StampsGrow /\ ValuesAgree

IInv == TypeOK /\ Positions /\ Apart /\ PagesAreCurrent /\ CachedDailiesAreCurrent /\ Agreement
-----------------------------------------------------------------------------
(* What a step of one handler does to the local state of all.              *)
Others(h) ==
  /\ \A g \in Handlers \ {h} : pc'[g] = pc[g] /\ request'[g] = request[g] /\ page'[g] = page[g]
  /\ \A g \in Forecasters \ {h} : number'[g] = number[g] /\ form'[g] = form[g] /\ left'[g] = left[g]

LocalTypes ==
  /\ page \in [Handlers -> Page \union {NoPage}]
  /\ pc \in [Handlers -> {"idle", "query", "fill", "post", "clear"}]
  /\ request \in [Handlers -> SUBSET Stations]
  /\ number \in [Forecasters -> 0 .. MaxSubmissions] /\ left \in [Forecasters -> SUBSET Stations]
  /\ form = [h \in Forecasters |-> form[h]]

Ended(h) ==
  /\ pc'[h] = "idle" /\ request'[h] = {}
  /\ h \in Forecasters => left'[h] = {}

LEMMA DoneEnds ==
  ASSUME Parameters, LocalTypes, NEW h \in Handlers, Done(h)
  PROVE  LocalTypes' /\ Others(h) /\ Ended(h)
<1>1. CASE h \in Forecasters
  <2>1. /\ pc' = [pc EXCEPT ![h] = "idle"] /\ request' = [request EXCEPT ![h] = {}]
        /\ page' = [page EXCEPT ![h] = NoPage] /\ number' = [number EXCEPT ![h] = 0]
        /\ form' = [form EXCEPT ![h] = <<>>] /\ left' = [left EXCEPT ![h] = {}]
    BY <1>1 DEF Done
  <2>2. form' = [g \in Forecasters |-> form'[g]] /\ \A g \in Forecasters \ {h} : form'[g] = form[g]
    BY <1>1, <2>1 DEF LocalTypes
  <2>3. /\ pc' \in [Handlers -> {"idle", "query", "fill", "post", "clear"}]
        /\ page' \in [Handlers -> Page \union {NoPage}]
        /\ request' \in [Handlers -> SUBSET Stations]
        /\ number' \in [Forecasters -> 0 .. MaxSubmissions]
        /\ left' \in [Forecasters -> SUBSET Stations]
    BY <1>1, <2>1 DEF LocalTypes, Parameters
  <2> QED
    BY <1>1, <2>1, <2>2, <2>3 DEF LocalTypes, Others, Ended
<1>2. CASE h \notin Forecasters
  BY <1>2 DEF Parameters, LocalTypes, Done, Others, Ended, Handlers
<1> QED
  BY <1>1, <1>2

Posting(h, p) ==
  /\ h \in Forecasters /\ pc'[h] = "post"
  /\ request'[h] = request[h] /\ number'[h] = number[h] /\ left'[h] = left[h]
  /\ form'[h] \in Forms(p, request[h])

LEMMA GoesOn ==
  ASSUME Parameters, LocalTypes, NEW h \in Handlers, NEW p, Goes(h, p)
  PROVE  /\ LocalTypes' /\ Others(h)
         /\ (h \in Readers /\ Ended(h)) \/ Posting(h, p)
<1>1. CASE h \in Readers
  BY <1>1, DoneEnds DEF Goes
<1>2. CASE h \notin Readers
  <2>1. h \in Forecasters
    BY <1>2 DEF Handlers
  <2> QED
    BY <1>2, <2>1 DEF Parameters, LocalTypes, Goes, Others, Posting, Handlers
<1> QED
  BY <1>1, <1>2

(* The forms a page gives rise to are of its ids.                          *)
LEMMA FormsAreOfThePage ==
  ASSUME NEW p \in Page, NEW S \in Queries, NEW f \in Forms(p, S)
  PROVE  /\ f \in [S -> Ids]
         /\ \A s \in S : IF OnPage(p, s) = {} THEN f[s] = NoId
                        ELSE \E d \in OnPage(p, s) : f[s] = d.id
<1>1. \A d \in p.dailies : d.id \in 1 .. MaxSubmissions
  BY DEF Page, Daily
<1>2. f \in [S -> UNION {{d.id : d \in p.dailies}, {NoId}}]
  BY DEF Forms
<1>3. f \in [S -> Ids]
  BY <1>1, <1>2 DEF Ids
<1>4. ASSUME NEW s \in S
      PROVE  IF OnPage(p, s) = {} THEN f[s] = NoId ELSE \E d \in OnPage(p, s) : f[s] = d.id
  <2> DEFINE found == {d.id : d \in OnPage(p, s)}
  <2>1. f[s] \in IF found = {} THEN {NoId} ELSE found
    BY DEF Forms, OnPage
  <2>2. found = {} <=> OnPage(p, s) = {}
    OBVIOUS
  <2> QED
    BY <2>1, <2>2
<1> QED
  BY <1>3, <1>4
-----------------------------------------------------------------------------
(* A step of a handler that changes nothing of a station that did not race.*)
Quiet(h) ==
  /\ LocalTypes' /\ Others(h)
  /\ rows' = rows /\ clock' = clock /\ clears' = clears
  /\ posted \subseteq posted' /\ raced \subseteq raced'
  /\ \A s \in Stations \ raced' : ForecastsOf(s)' = ForecastsOf(s)

Local == TypeOK /\ Positions /\ Apart /\ PagesAreCurrent /\ Agreement

LEMMA HandlerCases ==
  ASSUME Parameters
  PROVE  Forecasters \subseteq Handlers /\ \A h \in Handlers : h \in Forecasters <=> h \notin Readers
  BY DEF Parameters, Handlers

(* Only a handler that clears pages has some left, of its own stations.    *)
LEMMA EndKeepsLeft ==
  ASSUME Positions, NEW h \in Handlers, Quiet(h), Ended(h),
         h \in Forecasters /\ pc[h] = "clear" => request[h] \subseteq raced'
  PROVE  \A g \in Forecasters : left[g] \subseteq left'[g] \union raced'
  BY DEF Positions, Quiet, Others, Ended

LEMMA EndKeeps ==
  ASSUME Parameters, Local, NEW h \in Handlers, Quiet(h), Ended(h),
         h \in Forecasters /\ pc[h] = "clear" => request[h] \subseteq raced'
  PROVE  Positions' /\ Apart' /\ PagesAreCurrent' /\ Agreement'
<1> USE HandlerCases
<1>1. \A g \in Forecasters : left[g] \subseteq left'[g] \union raced'
  BY EndKeepsLeft DEF Local
<1>2. Positions'
  BY DEF Local, Positions, Quiet, Others, Ended, Handlers
<1>3. Apart'
  BY DEF Local, Apart, Quiet, Others, Ended
<1>4. PagesAreCurrent'
  <2> SUFFICES ASSUME NEW g \in Handlers, pc'[g] = "fill", NEW s \in request'[g]
               PROVE  /\ page'[g].got[s] <= clears'[s]
                      /\ s \in raced' \/ page'[g].got[s] # clears'[s] \/ OnPage(page'[g], s) = ForecastsOf(s)'
                           \/ \E f \in Forecasters : s \in left'[f]
                      /\ g \in Forecasters => s \in raced' \/ OnPage(page'[g], s) = ForecastsOf(s)'
    BY DEF PagesAreCurrent, OnPage
  <2>1. g # h /\ pc[g] = "fill" /\ s \in request[g] /\ page'[g] = page[g] /\ clears' = clears
    BY DEF Quiet, Others, Ended
  <2>2. s \in raced' \/ ForecastsOf(s)' = ForecastsOf(s)
    BY <2>1 DEF Quiet, Local, TypeOK
  <2>3. /\ page[g].got[s] <= clears[s]
        /\ s \in raced \/ page[g].got[s] # clears[s] \/ OnPage(page[g], s) = ForecastsOf(s)
             \/ \E f \in Forecasters : s \in left[f]
        /\ g \in Forecasters => s \in raced \/ OnPage(page[g], s) = ForecastsOf(s)
    BY <2>1 DEF Local, PagesAreCurrent
  <2> HIDE DEF ForecastsOf
  <2> QED
    BY <1>1, <2>1, <2>2, <2>3 DEF Quiet
<1>5. OneForecast'
  BY DEF Local, Agreement, OneForecast, Quiet
<1>6. FormsFit'
  <2> SUFFICES ASSUME NEW g \in Forecasters, pc'[g] = "post", NEW s \in request'[g] \ raced'
               PROVE  IF ForecastsOf(s)' = {} THEN form'[g][s] = NoId
                      ELSE \E d \in ForecastsOf(s)' : form'[g][s] = d.id
    BY DEF FormsFit
  <2>1. g # h /\ pc[g] = "post" /\ s \in request[g] \ raced /\ form'[g] = form[g] /\ s \in Stations
    BY DEF Quiet, Others, Ended, Local, TypeOK
  <2>2. ForecastsOf(s)' = ForecastsOf(s)
    BY <2>1 DEF Quiet
  <2> QED
    BY <2>1, <2>2 DEF Local, Agreement, FormsFit
<1>7. StampsGrow'
  <2>1. \A s : Stamps(s)' = Stamps(s)
    BY DEF Stamps, Quiet
  <2> QED
    BY <2>1 DEF Local, Agreement, StampsGrow, Greatest, Quiet, Others, Ended
<1>8. ValuesAgree'
  <2>1. \A s : Stamps(s)' = Stamps(s)
    BY DEF Stamps, Quiet
  <2>2. \A s \in Stations \ raced' : Wf1Values(s)' = Wf1Values(s)
    BY DEF Wf1Values, Quiet
  <2>3. ASSUME NEW s \in Stations \ raced', \A g \in Forecasters : pc'[g] = "clear" => s \notin request'[g]
        PROVE  \A n \in Stamps(s)' : Greatest(s, n)' => Wf1Values(s)' = {n} \ {0}
    <3>1. \A g \in Forecasters : pc[g] = "clear" => s \notin request[g]
      BY <2>3 DEF Quiet, Others
    <3> QED
      BY <2>1, <2>2, <3>1 DEF Local, Agreement, ValuesAgree, Greatest, Quiet
  <2>4. ASSUME NEW g \in Forecasters, pc'[g] = "clear", NEW s \in request'[g] \ raced'
        PROVE  Wf1Values(s)' = {number'[g]}
    <3>1. g # h /\ pc[g] = "clear" /\ s \in request[g] \ raced /\ number'[g] = number[g] /\ s \in Stations
      BY <2>4 DEF Quiet, Others, Ended, Local, TypeOK
    <3> QED
      BY <2>2, <3>1 DEF Local, Agreement, ValuesAgree
  <2> HIDE DEF Wf1Values, Greatest, Stamps
  <2> QED
    BY <2>3, <2>4 DEF ValuesAgree
<1> QED
  BY <1>2, <1>3, <1>4, <1>5, <1>6, <1>7, <1>8 DEF Agreement

(* A submission that has its page chooses the ids it posts to.             *)
LEMMA PostingKeeps ==
  ASSUME Parameters, Local, NEW h \in Forecasters, pc[h] \in {"query", "fill"}, Quiet(h),
         NEW p \in Page, Posting(h, p),
         \A s \in request[h] \ raced' : OnPage(p, s) = ForecastsOf(s)
  PROVE  /\ Positions' /\ Apart' /\ PagesAreCurrent' /\ Agreement'
         /\ \A g \in Forecasters : left[g] \subseteq left'[g] \union raced'
<1> USE HandlerCases
<1>1. \A g \in Forecasters : left'[g] = left[g] /\ number'[g] = number[g]
  BY DEF Quiet, Others, Posting
<1>2. \A g \in Handlers : request'[g] = request[g]
  BY DEF Quiet, Others, Posting
<1>3. /\ request[h] \in Queries /\ request[h] \subseteq Stations /\ h \notin Readers
  BY DEF Local, Positions, TypeOK
<1>4. /\ form'[h] \in [request[h] -> Ids]
      /\ \A s \in request[h] : IF OnPage(p, s) = {} THEN form'[h][s] = NoId
                              ELSE \E d \in OnPage(p, s) : form'[h][s] = d.id
  BY <1>3, FormsAreOfThePage DEF Posting
<1>5. Positions'
  BY <1>1, <1>2, <1>3, <1>4 DEF Local, Positions, Quiet, Others, Posting, Handlers
<1>6. Apart'
  BY <1>1, <1>2 DEF Local, Apart, Quiet
<1>7. PagesAreCurrent'
  <2> SUFFICES ASSUME NEW g \in Handlers, pc'[g] = "fill", NEW s \in request'[g]
               PROVE  /\ page'[g].got[s] <= clears'[s]
                      /\ s \in raced' \/ page'[g].got[s] # clears'[s] \/ OnPage(page'[g], s) = ForecastsOf(s)'
                           \/ \E f \in Forecasters : s \in left'[f]
                      /\ g \in Forecasters => s \in raced' \/ OnPage(page'[g], s) = ForecastsOf(s)'
    BY DEF PagesAreCurrent, OnPage
  <2>1. pc[g] = "fill" /\ s \in request[g] /\ page'[g] = page[g] /\ clears' = clears /\ s \in Stations
    BY DEF Quiet, Others, Posting, Local, TypeOK
  <2>2. s \in raced' \/ ForecastsOf(s)' = ForecastsOf(s)
    BY <2>1 DEF Quiet
  <2>3. /\ page[g].got[s] <= clears[s]
        /\ s \in raced \/ page[g].got[s] # clears[s] \/ OnPage(page[g], s) = ForecastsOf(s)
             \/ \E f \in Forecasters : s \in left[f]
        /\ g \in Forecasters => s \in raced \/ OnPage(page[g], s) = ForecastsOf(s)
    BY <2>1 DEF Local, PagesAreCurrent
  <2> HIDE DEF ForecastsOf
  <2> QED
    BY <1>1, <2>1, <2>2, <2>3 DEF Quiet
<1>8. OneForecast'
  BY DEF Local, Agreement, OneForecast, Quiet
<1>9. FormsFit'
  <2> SUFFICES ASSUME NEW g \in Forecasters, pc'[g] = "post", NEW s \in request'[g] \ raced'
               PROVE  IF ForecastsOf(s)' = {} THEN form'[g][s] = NoId
                      ELSE \E d \in ForecastsOf(s)' : form'[g][s] = d.id
    BY DEF FormsFit
  <2>1. s \in request[g] \ raced /\ s \in Stations
    BY <1>2 DEF Quiet, Local, TypeOK
  <2>2. ForecastsOf(s)' = ForecastsOf(s)
    BY <2>1 DEF Quiet
  <2>3. CASE g = h
    BY <1>2, <1>4, <2>1, <2>2, <2>3
  <2>4. CASE g # h
    <3>1. pc[g] = "post" /\ form'[g] = form[g]
      BY <2>4 DEF Quiet, Others
    <3> QED
      BY <2>1, <2>2, <3>1 DEF Local, Agreement, FormsFit
  <2> QED
    BY <2>3, <2>4
<1>10. \A s : Stamps(s)' = Stamps(s)
  BY DEF Stamps, Quiet
<1>11. StampsGrow'
  BY <1>1, <1>2, <1>10 DEF Local, Agreement, StampsGrow, Greatest, Quiet
<1>12. ValuesAgree'
  <2>1. \A s \in Stations \ raced' : Wf1Values(s)' = Wf1Values(s)
    BY DEF Wf1Values, Quiet
  <2>2. \A g \in Forecasters : pc'[g] = "clear" <=> pc[g] = "clear"
    BY DEF Quiet, Others, Posting
  <2>3. \A g \in Forecasters : request[g] \subseteq Stations
    BY DEF Local, TypeOK
  <2>4. \A s, n : Greatest(s, n)' <=> Greatest(s, n)
    BY <1>10 DEF Greatest
  <2>5. raced \subseteq raced'
    BY DEF Quiet
  <2>6. ValuesAgree
    BY DEF Local, Agreement
  <2> HIDE DEF Wf1Values, Greatest, Stamps
  <2> QED
    BY <1>1, <1>2, <1>10, <2>1, <2>2, <2>3, <2>4, <2>5, <2>6 DEF ValuesAgree
<1> QED
  BY <1>1, <1>5, <1>6, <1>7, <1>8, <1>9, <1>11, <1>12 DEF Agreement

(* The cache stays as good as it was.                                      *)
LEMMA CacheKeeps ==
  ASSUME CachedDailiesAreCurrent, cache' = cache, raced \subseteq raced',
         \A s \in Stations \ raced' : ForecastsOf(s)' = ForecastsOf(s) \/ \E g \in Forecasters : s \in left'[g],
         \A g \in Forecasters : left[g] \subseteq left'[g] \union raced'
  PROVE  CachedDailiesAreCurrent'
<1> SUFFICES ASSUME NEW S \in Queries, NEW s \in S \ raced', cache[S] # NoPage,
                    \A g \in Forecasters : s \notin left'[g]
             PROVE  {d \in cache[S].dailies : d.station = s} = ForecastsOf(s)'
  BY DEF CachedDailiesAreCurrent
<1>1. s \in Stations \ raced' /\ s \in S \ raced
  BY DEF Queries
<1>2. \A g \in Forecasters : s \notin left[g]
  OBVIOUS
<1>3. {d \in cache[S].dailies : d.station = s} = ForecastsOf(s)
  BY <1>1, <1>2 DEF CachedDailiesAreCurrent
<1> QED
  BY <1>1, <1>3
-----------------------------------------------------------------------------
(* The state, but for the local state of handlers.                         *)
SharedTypes ==
  /\ wf1 \subseteq Daily /\ rows \subseteq Row /\ token \in {"none", "live", "revoked"}
  /\ cache \in [Queries -> Page \union {NoPage}]
  /\ clock \in 0 .. MaxSubmissions /\ reads \in 0 .. MaxReads /\ faults \in 0 .. MaxFaults
  /\ clears \in [Stations -> Nat]
  /\ posted \subseteq 1 .. MaxSubmissions /\ raced \subseteq Stations

LEMMA Types ==
  /\ TypeOK <=> LocalTypes /\ SharedTypes
  /\ TypeOK' <=> LocalTypes' /\ SharedTypes'
  BY DEF TypeOK, LocalTypes, SharedTypes

LEMMA MoreFaults ==
  ASSUME Parameters, SharedTypes, faults < MaxFaults
  PROVE  faults + 1 \in 0 .. MaxFaults
  BY DEF Parameters, SharedTypes

(* What WF1 has after a post.                                              *)
LEMMA CarriedOut ==
  ASSUME Parameters, Local, NEW h \in Forecasters, pc[h] = "post", wf1' = Carried(h)
  PROVE  /\ wf1' \subseteq Daily
         /\ \A s \in Stations \ request[h] : ForecastsOf(s)' = ForecastsOf(s)
         /\ \A s \in request[h] \ raced : Wf1Values(s)' = {number[h]}
                                           /\ \A d, e \in ForecastsOf(s)' : d = e
<1> DEFINE old == {d \in wf1 : d.station \notin request[h] \/ form[h][d.station] # d.id}
           met == {x \in wf1 : x.station \in request[h] /\ form[h][x.station] = x.id}
           changed == {[d EXCEPT !.value = number[h]] : d \in met}
           new == {[id |-> number[h], station |-> s, by |-> h, value |-> number[h]] :
                     s \in {x \in request[h] : form[h][x] = NoId}}
<1>1. wf1' = (old \union changed) \union new
  BY DEF Carried
<1>2. request[h] \subseteq Stations /\ number[h] \in 1 .. MaxSubmissions /\ number[h] \in Nat
  BY DEF Local, TypeOK, Positions, Handlers, Parameters
<1>3. \A d \in wf1 : d \in Daily /\ d.id \in Nat /\ d.id # NoId
  BY DEF Local, TypeOK, Daily, Parameters
<1>4. \A d \in wf1 : [d EXCEPT !.value = number[h]] \in Daily
                  /\ [d EXCEPT !.value = number[h]].station = d.station
                  /\ [d EXCEPT !.value = number[h]].value = number[h]
  BY <1>2, <1>3 DEF Daily
<1>5. \A d \in new : d \in Daily /\ d.station \in request[h] /\ form[h][d.station] = NoId /\ d.value = number[h]
  BY <1>2 DEF Daily
<1>6. wf1' \subseteq Daily
  BY <1>1, <1>3, <1>4, <1>5
<1>7. ASSUME NEW s \in Stations \ request[h]
      PROVE  ForecastsOf(s)' = ForecastsOf(s)
  <2>1. \A d \in wf1' : d.station = s <=> d \in old /\ d.station = s
    <3>1. \A d \in changed : d.station # s
      BY <1>4
    <3>2. \A d \in new : d.station # s
      BY <1>5
    <3> HIDE DEF old, changed, new
    <3> QED
      BY <1>1, <3>1, <3>2
  <2>2. \A d \in wf1 : d.station = s => d \in old
    OBVIOUS
  <2> QED
    BY <1>1, <2>1, <2>2 DEF ForecastsOf
<1>8. ASSUME NEW s \in request[h] \ raced
      PROVE  Wf1Values(s)' = {number[h]} /\ \A d, e \in ForecastsOf(s)' : d = e
  <2>1. /\ IF ForecastsOf(s) = {} THEN form[h][s] = NoId ELSE \E d \in ForecastsOf(s) : form[h][s] = d.id
        /\ \A d, e \in ForecastsOf(s) : d = e
    BY <1>2 DEF Local, Agreement, FormsFit, OneForecast
  <2>2. CASE ForecastsOf(s) = {}
    <3> DEFINE n == [id |-> number[h], station |-> s, by |-> h, value |-> number[h]]
    <3>1. n \in new
      BY <2>1, <2>2
    <3>2. \A d \in new : d.station = s => d = n
      OBVIOUS
    <3>3. \A d \in wf1 : d.station # s
      BY <2>2 DEF ForecastsOf
    <3>4. \A d \in old \union changed : d.station # s
      BY <1>4, <3>3
    <3>5. n.station = s /\ n.value = number[h]
      OBVIOUS
    <3> HIDE DEF n, old, changed, new
    <3>6. ForecastsOf(s)' = {n}
      BY <1>1, <3>1, <3>2, <3>4, <3>5 DEF ForecastsOf
    <3> QED
      BY <3>5, <3>6 DEF Wf1Values
  <2>3. CASE ForecastsOf(s) # {}
    <3>1. PICK d \in ForecastsOf(s) : form[h][s] = d.id
      BY <2>1, <2>3
    <3>2. ForecastsOf(s) = {d} /\ d \in wf1 /\ d.station = s
      BY <2>1 DEF ForecastsOf
    <3> DEFINE n == [d EXCEPT !.value = number[h]]
    <3>3. d \in met
      BY <3>1, <3>2
    <3>4. n \in changed
      BY <3>3
    <3>5. \A e \in old : e.station # s
      BY <3>1, <3>2 DEF ForecastsOf
    <3>6. \A e \in changed : e.station = s => e = n
      <4>1. \A e \in met : e.station = s => e = d
        BY <3>2 DEF ForecastsOf
      <4> QED
        BY <1>4, <4>1
    <3>7. \A e \in new : e.station # s
      BY <1>3, <1>5, <3>1, <3>2
    <3>8. n.station = s /\ n.value = number[h]
      BY <1>4, <3>2
    <3> HIDE DEF n, old, changed, new
    <3>9. ForecastsOf(s)' = {n}
      BY <1>1, <3>4, <3>5, <3>6, <3>7, <3>8 DEF ForecastsOf
    <3> QED
      BY <3>8, <3>9 DEF Wf1Values
  <2> QED
    BY <2>2, <2>3
<1> QED
  BY <1>6, <1>7, <1>8
-----------------------------------------------------------------------------
(* Handlers begin.                                                         *)
LEMMA SubmitKeeps ==
  ASSUME Parameters, IInv, NEW h \in Forecasters, NEW S \in Queries, Submit(h, S)
  PROVE  IInv'
<1> USE HandlerCases
<1> DEFINE stamp == clock + 1
<1>1. /\ pc[h] = "idle" /\ clock < MaxSubmissions /\ clock' = stamp
      /\ pc' = [pc EXCEPT ![h] = "query"] /\ request' = [request EXCEPT ![h] = S]
      /\ number' = [number EXCEPT ![h] = stamp]
      /\ raced' = raced \union UNION {request[g] \intersect S : g \in Forecasters}
      /\ UNCHANGED <<wf1, cache, token, rows, page, form, left, reads, faults, clears, posted>>
  BY DEF Submit
<1>2. TypeOK /\ Positions /\ Apart /\ PagesAreCurrent /\ CachedDailiesAreCurrent /\ Agreement
  BY DEF IInv
<1>3. /\ S \subseteq Stations /\ S \in Queries /\ raced \subseteq raced' /\ raced' \subseteq Stations
      /\ stamp \in 1 .. MaxSubmissions /\ clock \in Nat /\ stamp \in Nat
  BY <1>1, <1>2 DEF TypeOK, Queries, Parameters
<1>4. TypeOK'
  BY <1>1, <1>2, <1>3 DEF TypeOK, Parameters
<1>5. /\ \A g \in Handlers \ {h} : pc'[g] = pc[g] /\ request'[g] = request[g] /\ page'[g] = page[g]
      /\ \A g \in Forecasters \ {h} : number'[g] = number[g] /\ form'[g] = form[g] /\ left'[g] = left[g]
      /\ pc'[h] = "query" /\ request'[h] = S /\ number'[h] = stamp /\ left'[h] = {}
  BY <1>1, <1>2 DEF TypeOK, Positions
<1>6. Positions'
  <2>1. \A g \in Handlers : IF pc'[g] = "idle" THEN request'[g] = {} ELSE request'[g] \in Queries
    BY <1>2, <1>3, <1>5 DEF Positions
  <2>2. \A g \in Forecasters : number'[g] \in 1 .. clock' \/ pc'[g] = "idle"
    BY <1>1, <1>2, <1>3, <1>5 DEF Positions
  <2> QED
    BY <1>1, <1>2, <1>5, <2>1, <2>2 DEF Positions, Handlers
<1>7. Apart'
  <2>1. \A g \in Forecasters \ {h} : request[g] \intersect S \subseteq raced'
    BY <1>1
  <2> QED
    BY <1>2, <1>3, <1>5, <2>1 DEF Apart
<1>8. PagesAreCurrent'
  <2>1. \A g \in Handlers : pc'[g] = "fill" => g # h
    BY <1>5
  <2>2. left' = left /\ clears' = clears /\ wf1' = wf1
    BY <1>1
  <2> QED
    BY <1>2, <1>3, <1>5, <2>1, <2>2 DEF PagesAreCurrent, OnPage, ForecastsOf
<1>9. CachedDailiesAreCurrent'
  BY <1>1, <1>2, <1>3 DEF CachedDailiesAreCurrent, ForecastsOf
<1>10. OneForecast'
  BY <1>1, <1>2, <1>3 DEF Agreement, OneForecast, ForecastsOf
<1>11. FormsFit'
  <2>1. \A g \in Forecasters : pc'[g] = "post" => g # h
    BY <1>5
  <2> QED
    BY <1>1, <1>2, <1>3, <1>5, <2>1 DEF Agreement, FormsFit, ForecastsOf
<1>12. \A s : Stamps(s)' = Stamps(s)
  BY <1>1 DEF Stamps
<1>13. StampsGrow'
  <2>1. \A s : \A n \in Stamps(s) : n \in Nat /\ n < stamp
    BY <1>2, <1>3 DEF Agreement, StampsGrow, Stamps, TypeOK, Row
  <2>2. \A r \in rows : r.stamp \in posted /\ r.stamp <= stamp
    BY <1>2, <1>3 DEF Agreement, StampsGrow, TypeOK, Row
  <2>3. \A g \in Forecasters : \A s \in request'[g] \ raced' : \A n \in Stamps(s) : n < number'[g]
    BY <1>2, <1>3, <1>5, <2>1 DEF Agreement, StampsGrow
  <2> QED
    BY <1>1, <1>2, <1>12, <2>2, <2>3 DEF Agreement, StampsGrow, Greatest
<1>14. ValuesAgree'
  <2>1. \A g \in Forecasters : pc'[g] = "clear" <=> pc[g] = "clear" /\ g # h
    BY <1>1, <1>5
  <2>2. \A s : Wf1Values(s)' = Wf1Values(s)
    BY <1>1 DEF Wf1Values, ForecastsOf
  <2>3. \A s, n : Greatest(s, n)' <=> Greatest(s, n)
    BY <1>12 DEF Greatest
  <2>4. ValuesAgree /\ pc[h] # "clear"
    BY <1>1, <1>2 DEF Agreement
  <2> HIDE DEF Wf1Values, Greatest, Stamps
  <2> QED
    BY <1>3, <1>5, <1>12, <2>1, <2>2, <2>3, <2>4 DEF ValuesAgree
<1> QED
  BY <1>4, <1>6, <1>7, <1>8, <1>9, <1>10, <1>11, <1>13, <1>14 DEF IInv, Agreement

LEMMA ReadKeeps ==
  ASSUME Parameters, IInv, NEW h \in Readers, NEW S \in Queries, Read(h, S)
  PROVE  IInv'
<1> USE HandlerCases
<1>1. /\ pc[h] = "idle" /\ reads < MaxReads /\ reads' = reads + 1
      /\ pc' = [pc EXCEPT ![h] = "query"] /\ request' = [request EXCEPT ![h] = S]
      /\ UNCHANGED <<wf1, cache, token, rows, number, page, form, left, clock, faults, ghosts>>
  BY DEF Read
<1>2. TypeOK /\ Positions /\ Apart /\ PagesAreCurrent /\ CachedDailiesAreCurrent /\ Agreement
  BY DEF IInv
<1>3. h \in Handlers /\ h \notin Forecasters /\ S \subseteq Stations
  BY DEF Handlers, Queries
<1>4. reads + 1 \in 0 .. MaxReads
  BY <1>1, <1>2 DEF TypeOK, Parameters
<1>5. TypeOK'
  BY <1>1, <1>2, <1>3, <1>4 DEF TypeOK, ghosts
<1>6. /\ \A g \in Handlers \ {h} : pc'[g] = pc[g] /\ request'[g] = request[g] /\ page'[g] = page[g]
      /\ \A g \in Forecasters : pc'[g] = pc[g] /\ request'[g] = request[g]
      /\ pc'[h] = "query" /\ request'[h] = S
      /\ UNCHANGED <<wf1, cache, rows, number, form, left, clock, clears, posted, raced>>
  BY <1>1, <1>2, <1>3 DEF TypeOK, ghosts
<1>7. Positions'
  BY <1>2, <1>3, <1>6 DEF Positions, Handlers
<1>8. Apart'
  BY <1>2, <1>6 DEF Apart
<1>9. PagesAreCurrent'
  <2>1. \A g \in Handlers : pc'[g] = "fill" => g # h
    BY <1>6
  <2> QED
    BY <1>2, <1>6, <2>1 DEF PagesAreCurrent, OnPage, ForecastsOf
<1>10. CachedDailiesAreCurrent'
  BY <1>2, <1>6 DEF CachedDailiesAreCurrent, ForecastsOf
<1>11. Agreement'
  <2>1. OneForecast' /\ FormsFit'
    BY <1>2, <1>6 DEF Agreement, OneForecast, FormsFit, ForecastsOf
  <2>2. StampsGrow'
    BY <1>2, <1>6 DEF Agreement, StampsGrow, Stamps, Greatest
  <2>3. ValuesAgree'
    <3>1. \A s : Wf1Values(s)' = Wf1Values(s) /\ Stamps(s)' = Stamps(s) /\ \A n : Greatest(s, n)' <=> Greatest(s, n)
      BY <1>6 DEF Wf1Values, ForecastsOf, Greatest, Stamps
    <3> HIDE DEF Wf1Values, Greatest, Stamps
    <3> QED
      BY <1>2, <1>6, <3>1 DEF Agreement, ValuesAgree
  <2> QED
    BY <2>1, <2>2, <2>3 DEF Agreement
<1> QED
  BY <1>5, <1>7, <1>8, <1>9, <1>10, <1>11 DEF IInv
-----------------------------------------------------------------------------
(* Handlers get a page.                                                    *)
LEMMA MissKeeps ==
  ASSUME Parameters, IInv, NEW h \in Handlers, Miss(h)
  PROVE  IInv'
<1> USE HandlerCases
<1>1. /\ pc[h] = "query" /\ token' = "live"
      /\ faults' \in {faults, faults + 1} /\ (faults' # faults => faults < MaxFaults)
      /\ page' = [page EXCEPT ![h] = Answer(request[h])]
      /\ pc' = [pc EXCEPT ![h] = "fill"]
      /\ UNCHANGED <<wf1, cache, rows, request, number, form, left, clock, reads, ghosts>>
  BY DEF Miss, Authorised
<1>2. TypeOK /\ Positions /\ Apart /\ PagesAreCurrent /\ CachedDailiesAreCurrent /\ Agreement
  BY DEF IInv
<1>3. Answer(request[h]) \in Page
  BY <1>2 DEF Answer, Page, TypeOK
<1>4. TypeOK'
  BY <1>1, <1>2, <1>3 DEF TypeOK, Parameters, ghosts
<1>5. /\ \A g \in Handlers \ {h} : pc'[g] = pc[g] /\ page'[g] = page[g]
      /\ pc'[h] = "fill" /\ page'[h] = Answer(request[h])
      /\ UNCHANGED <<wf1, cache, rows, request, number, form, left, clock, clears, posted, raced>>
  BY <1>1, <1>2 DEF TypeOK, ghosts
<1>6. Positions'
  BY <1>1, <1>2, <1>3, <1>5 DEF Positions, Handlers
<1>7. Apart'
  BY <1>2, <1>5 DEF Apart
<1>8. PagesAreCurrent'
  <2> SUFFICES ASSUME NEW g \in Handlers, pc'[g] = "fill", NEW s \in request[g]
               PROVE  /\ page'[g].got[s] <= clears[s]
                      /\ s \in raced \/ page'[g].got[s] # clears[s] \/ OnPage(page'[g], s) = ForecastsOf(s)
                           \/ \E f \in Forecasters : s \in left[f]
                      /\ g \in Forecasters => s \in raced \/ OnPage(page'[g], s) = ForecastsOf(s)
    BY <1>5 DEF PagesAreCurrent, OnPage, ForecastsOf
  <2>1. CASE g = h
    <3>1. s \in Stations
      BY <1>2 DEF TypeOK
    <3>2. OnPage(Answer(request[h]), s) = ForecastsOf(s)
      BY <2>1 DEF OnPage, Answer, ForecastsOf
    <3>3. Answer(request[h]).got[s] = clears[s] /\ clears[s] \in Nat
      BY <1>2, <3>1 DEF Answer, TypeOK
    <3> QED
      BY <1>5, <2>1, <3>2, <3>3
  <2>2. CASE g # h
    BY <1>2, <1>5, <2>2 DEF PagesAreCurrent, OnPage, ForecastsOf
  <2> QED
    BY <2>1, <2>2
<1>9. CachedDailiesAreCurrent'
  BY <1>2, <1>5 DEF CachedDailiesAreCurrent, ForecastsOf
<1>10. Agreement'
  <2>1. \A g \in Forecasters : (pc'[g] = "post" <=> pc[g] = "post") /\ (pc'[g] = "clear" <=> pc[g] = "clear")
    BY <1>1, <1>5
  <2>2. OneForecast' /\ FormsFit'
    BY <1>2, <1>5, <2>1 DEF Agreement, OneForecast, FormsFit, ForecastsOf
  <2>3. StampsGrow'
    BY <1>2, <1>5 DEF Agreement, StampsGrow, Stamps, Greatest
  <2>4. ValuesAgree'
    <3>1. \A s : Wf1Values(s)' = Wf1Values(s) /\ Stamps(s)' = Stamps(s) /\ \A n : Greatest(s, n)' <=> Greatest(s, n)
      BY <1>5 DEF Wf1Values, ForecastsOf, Greatest, Stamps
    <3> HIDE DEF Wf1Values, Greatest, Stamps
    <3> QED
      BY <1>2, <1>5, <2>1, <3>1 DEF Agreement, ValuesAgree
  <2> QED
    BY <2>2, <2>3, <2>4 DEF Agreement
<1> QED
  BY <1>4, <1>6, <1>7, <1>8, <1>9, <1>10 DEF IInv

(* Nobody else is about to clear the pages of an unraced station.          *)
LEMMA OnlyOne ==
  ASSUME Positions, Apart, NEW h \in Forecasters, pc[h] # "clear", NEW s \in request[h] \ raced
  PROVE  \A g \in Forecasters : s \notin left[g]
  BY DEF Positions, Apart

(* A handler goes on with a page that shows what WF1 has of all stations   *)
(* but those that raced, and may have cached it.                           *)
LEMMA GoesOnKeeps ==
  ASSUME Parameters, IInv, NEW h \in Handlers, pc[h] \in {"query", "fill"}, NEW p \in Page, Goes(h, p),
         h \in Forecasters => \A s \in request[h] \ raced' : OnPage(p, s) = ForecastsOf(s),
         SharedTypes', UNCHANGED <<wf1, rows, clock, clears, posted>>, raced \subseteq raced'
  PROVE  /\ TypeOK' /\ Positions' /\ Apart' /\ PagesAreCurrent' /\ Agreement'
         /\ \A g \in Forecasters : left[g] \subseteq left'[g] \union raced'
<1> USE HandlerCases
<1>1. LocalTypes /\ Local
  BY Types DEF IInv, Local
<1>2. LocalTypes' /\ Others(h) /\ ((h \in Readers /\ Ended(h)) \/ Posting(h, p))
  BY <1>1, GoesOn
<1>3. TypeOK'
  BY <1>2, Types DEF IInv
<1>4. Quiet(h)
  BY <1>2 DEF Quiet, ForecastsOf
<1>5. CASE h \in Readers /\ Ended(h)
  <2>1. h \notin Forecasters
    BY <1>5
  <2>2. \A g \in Forecasters : left[g] \subseteq left'[g] \union raced'
    BY <1>1, <1>4, <1>5, <2>1, EndKeepsLeft DEF Local
  <2> QED
    BY <1>1, <1>3, <1>4, <1>5, <2>1, <2>2, EndKeeps
<1>6. CASE Posting(h, p)
  <2>1. h \in Forecasters
    BY <1>6 DEF Posting
  <2> QED
    BY <1>1, <1>3, <1>4, <1>6, <2>1, PostingKeeps
<1> QED
  BY <1>2, <1>5, <1>6

LEMMA HitKeeps ==
  ASSUME Parameters, IInv, NEW h \in Handlers, Hit(h)
  PROVE  IInv'
<1> USE HandlerCases
<1> DEFINE S == request[h]
           p == cache[S]
<1>1. /\ pc[h] = "query" /\ p # NoPage /\ Goes(h, p)
      /\ UNCHANGED <<wf1, cache, token, rows, clock, reads, faults, clears, posted, raced>>
  BY DEF Hit, counts, ghosts
<1>2. TypeOK /\ Positions /\ Apart /\ CachedDailiesAreCurrent
  BY DEF IInv
<1>3. S \in Queries
  BY <1>1, <1>2 DEF Positions
<1>4. p \in Page
  BY <1>1, <1>2, <1>3 DEF TypeOK
<1>5. h \in Forecasters => \A s \in S \ raced' : OnPage(p, s) = ForecastsOf(s)
  <2> SUFFICES ASSUME h \in Forecasters, NEW s \in S \ raced
               PROVE  OnPage(p, s) = ForecastsOf(s)
    BY <1>1
  <2>1. \A g \in Forecasters : s \notin left[g]
    BY <1>1, <1>2, OnlyOne
  <2> QED
    BY <1>1, <1>2, <1>3, <2>1 DEF CachedDailiesAreCurrent, OnPage
<1>6. SharedTypes'
  BY <1>1, <1>2 DEF TypeOK, SharedTypes
<1>7. /\ TypeOK' /\ Positions' /\ Apart' /\ PagesAreCurrent' /\ Agreement'
      /\ \A g \in Forecasters : left[g] \subseteq left'[g] \union raced'
  BY <1>1, <1>4, <1>5, <1>6, GoesOnKeeps
<1>8. CachedDailiesAreCurrent'
  BY <1>1, <1>2, <1>7, CacheKeeps DEF ForecastsOf
<1> QED
  BY <1>7, <1>8 DEF IInv

LEMMA FillKeeps ==
  ASSUME Parameters, IInv, NEW h \in Handlers, Fill(h)
  PROVE  IInv'
<1> USE HandlerCases
<1> DEFINE S == request[h]
           p == page[h]
<1>1. /\ pc[h] = "fill" /\ Goes(h, p) /\ cache' = [cache EXCEPT ![S] = p]
      /\ raced' = raced \union {s \in S : p.got[s] < clears[s]}
      /\ UNCHANGED <<wf1, token, rows, clock, reads, faults, clears, posted>>
  BY DEF Fill, counts
<1>2. TypeOK /\ Positions /\ PagesAreCurrent /\ CachedDailiesAreCurrent
  BY DEF IInv
<1>3. S \in Queries /\ S \subseteq Stations /\ p \in Page
  BY <1>1, <1>2 DEF Positions, Queries
<1>4. raced \subseteq raced' /\ raced' \subseteq Stations
  BY <1>1, <1>2, <1>3 DEF TypeOK
<1>5. h \in Forecasters => \A s \in S \ raced' : OnPage(p, s) = ForecastsOf(s)
  BY <1>1, <1>2, <1>4 DEF PagesAreCurrent
<1>6. SharedTypes'
  BY <1>1, <1>2, <1>3, <1>4 DEF TypeOK, SharedTypes
<1>7. /\ TypeOK' /\ Positions' /\ Apart' /\ PagesAreCurrent' /\ Agreement'
      /\ \A g \in Forecasters : left[g] \subseteq left'[g] \union raced'
  BY <1>1, <1>3, <1>4, <1>5, <1>6, GoesOnKeeps
<1>8. CachedDailiesAreCurrent'
  <2> SUFFICES ASSUME NEW T \in Queries, NEW s \in T \ raced', cache'[T] # NoPage,
                      \A g \in Forecasters : s \notin left'[g]
               PROVE  {d \in cache'[T].dailies : d.station = s} = ForecastsOf(s)
    BY <1>1 DEF CachedDailiesAreCurrent, ForecastsOf
  <2>1. s \in Stations /\ s \notin raced /\ \A g \in Forecasters : s \notin left[g]
    BY <1>4, <1>7 DEF Queries
  <2>2. CASE T = S
    <3>1. cache'[T] = p /\ s \in S
      BY <1>1, <1>2, <1>3, <2>2 DEF TypeOK
    <3>2. p.got[s] \in Nat /\ clears[s] \in Nat /\ ~(p.got[s] < clears[s]) /\ p.got[s] <= clears[s]
      BY <1>1, <1>2, <1>3, <2>1, <3>1 DEF TypeOK, Page, PagesAreCurrent
    <3> QED
      BY <1>1, <1>2, <2>1, <3>1, <3>2 DEF PagesAreCurrent, OnPage
  <2>3. CASE T # S
    BY <1>1, <1>2, <2>1, <2>3 DEF TypeOK, CachedDailiesAreCurrent
  <2> QED
    BY <2>2, <2>3
<1> QED
  BY <1>7, <1>8 DEF IInv

LEMMA NotFilledKeeps ==
  ASSUME Parameters, IInv, NEW h \in Handlers, NotFilled(h)
  PROVE  IInv'
<1> USE HandlerCases
<1>1. /\ pc[h] = "fill" /\ faults < MaxFaults /\ faults' = faults + 1 /\ Goes(h, page[h])
      /\ UNCHANGED <<wf1, cache, token, rows, clock, reads, clears, posted, raced>>
  BY DEF NotFilled, ghosts
<1>2. TypeOK /\ Positions /\ PagesAreCurrent /\ CachedDailiesAreCurrent
  BY DEF IInv
<1>3. page[h] \in Page
  BY <1>1, <1>2 DEF Positions
<1>4. h \in Forecasters => \A s \in request[h] \ raced' : OnPage(page[h], s) = ForecastsOf(s)
  BY <1>1, <1>2 DEF PagesAreCurrent
<1>5. SharedTypes'
  BY <1>1, <1>2, MoreFaults DEF TypeOK, SharedTypes
<1>6. /\ TypeOK' /\ Positions' /\ Apart' /\ PagesAreCurrent' /\ Agreement'
      /\ \A g \in Forecasters : left[g] \subseteq left'[g] \union raced'
  BY <1>1, <1>3, <1>4, <1>5, GoesOnKeeps
<1>7. CachedDailiesAreCurrent'
  BY <1>1, <1>2, <1>6, CacheKeeps DEF ForecastsOf
<1> QED
  BY <1>6, <1>7 DEF IInv
-----------------------------------------------------------------------------
(* A handler ends; a submission that WF1 may have carried out has raced.   *)
LEMMA FailureKeeps ==
  ASSUME Parameters, IInv, NEW h \in Handlers, Done(h), SharedTypes',
         UNCHANGED <<cache, rows, clock, clears>>, posted \subseteq posted', raced \subseteq raced',
         \A s \in Stations \ raced' : ForecastsOf(s)' = ForecastsOf(s),
         h \in Forecasters /\ pc[h] = "clear" => request[h] \subseteq raced'
  PROVE  IInv'
<1> USE HandlerCases
<1>1. LocalTypes /\ Local /\ Positions /\ CachedDailiesAreCurrent
  BY Types DEF IInv, Local
<1>2. LocalTypes' /\ Others(h) /\ Ended(h)
  BY <1>1, DoneEnds
<1>3. TypeOK'
  BY <1>2, Types
<1>4. Quiet(h)
  BY <1>2 DEF Quiet
<1>5. Positions' /\ Apart' /\ PagesAreCurrent' /\ Agreement'
  BY <1>1, <1>2, <1>4, EndKeeps
<1>6. \A g \in Forecasters : left[g] \subseteq left'[g] \union raced'
  BY <1>1, <1>2, <1>4, EndKeepsLeft
<1>7. CachedDailiesAreCurrent'
  BY <1>1, <1>6, CacheKeeps
<1> QED
  BY <1>3, <1>5, <1>7 DEF IInv

LEMMA QueryFailureKeeps ==
  ASSUME Parameters, IInv, NEW h \in Handlers, QueryFails(h)
  PROVE  IInv'
<1>1. /\ pc[h] = "query" /\ Done(h) /\ faults' \in {faults, faults + 1}
      /\ (faults' # faults => faults < MaxFaults)
      /\ UNCHANGED <<wf1, cache, token, rows, clock, reads, clears, posted, raced>>
  BY DEF QueryFails, ghosts
<1>2. SharedTypes'
  BY <1>1, MoreFaults, Types DEF IInv, SharedTypes
<1> QED
  BY <1>1, <1>2, FailureKeeps DEF ForecastsOf

LEMMA RefusalKeeps ==
  ASSUME Parameters, IInv, NEW h \in Forecasters, PostRefused(h)
  PROVE  IInv'
<1>1. /\ pc[h] = "post" /\ Done(h) /\ faults' \in {faults, faults + 1}
      /\ (faults' # faults => faults < MaxFaults)
      /\ UNCHANGED <<wf1, cache, token, rows, clock, reads, clears, posted, raced>>
  BY DEF PostRefused, ghosts
<1>2. SharedTypes'
  BY <1>1, MoreFaults, Types DEF IInv, SharedTypes
<1> QED
  BY <1>1, <1>2, FailureKeeps, HandlerCases DEF ForecastsOf

LEMMA LostAnswerKeeps ==
  ASSUME Parameters, IInv, NEW h \in Forecasters, AnswerLost(h)
  PROVE  IInv'
<1>1. /\ pc[h] = "post" /\ token' = "live" /\ faults < MaxFaults /\ faults' = faults + 1
      /\ wf1' = Carried(h) /\ posted' = posted \union {number[h]} /\ raced' = raced \union request[h]
      /\ Done(h) /\ UNCHANGED <<cache, rows, clock, reads, clears>>
  BY DEF AnswerLost, Authorised
<1>2. Local /\ TypeOK /\ Positions
  BY DEF IInv, Local
<1>3. /\ wf1' \subseteq Daily
      /\ \A s \in Stations \ request[h] : ForecastsOf(s)' = ForecastsOf(s)
  BY <1>1, <1>2, CarriedOut
<1>4. number[h] \in 1 .. MaxSubmissions /\ request[h] \subseteq Stations
  BY <1>1, <1>2, HandlerCases DEF TypeOK, Positions
<1>5. SharedTypes'
  BY <1>1, <1>2, <1>3, <1>4, MoreFaults, Types DEF SharedTypes
<1>6. \A s \in Stations \ raced' : ForecastsOf(s)' = ForecastsOf(s)
  BY <1>1, <1>3
<1> QED
  BY <1>1, <1>5, <1>6, FailureKeeps, HandlerCases

LEMMA ClearFailureKeeps ==
  ASSUME Parameters, IInv, NEW h \in Forecasters, ClearFails(h) \/ SaveFails(h)
  PROVE  IInv'
<1>1. /\ faults < MaxFaults /\ faults' = faults + 1 /\ raced' = raced \union request[h] /\ Done(h)
      /\ UNCHANGED <<wf1, cache, token, rows, clock, reads, clears, posted>>
  BY DEF ClearFails, SaveFails
<1>2. request[h] \subseteq Stations
  BY HandlerCases DEF IInv, TypeOK
<1>3. SharedTypes'
  BY <1>1, <1>2, MoreFaults, Types DEF IInv, SharedTypes
<1> QED
  BY <1>1, <1>3, FailureKeeps, HandlerCases DEF ForecastsOf
-----------------------------------------------------------------------------
(* The steps of a submission that succeeds.                                *)
LEMMA PostKeeps ==
  ASSUME Parameters, IInv, NEW h \in Forecasters, Post(h)
  PROVE  IInv'
<1> USE HandlerCases
<1> DEFINE S == request[h]
<1>1. /\ pc[h] = "post" /\ token' = "live" /\ wf1' = Carried(h) /\ posted' = posted \union {number[h]}
      /\ pc' = [pc EXCEPT ![h] = "clear"] /\ left' = [left EXCEPT ![h] = S]
      /\ UNCHANGED <<cache, rows, request, number, page, form, clock, reads, faults, clears, raced>>
  BY DEF Post, Authorised, counts
<1>2. Local /\ TypeOK /\ Positions /\ Apart /\ PagesAreCurrent /\ CachedDailiesAreCurrent /\ Agreement
  BY DEF IInv, Local
<1>3. /\ wf1' \subseteq Daily
      /\ \A s \in Stations \ S : ForecastsOf(s)' = ForecastsOf(s)
      /\ \A s \in S \ raced : Wf1Values(s)' = {number[h]} /\ \A d, e \in ForecastsOf(s)' : d = e
  BY <1>1, <1>2, CarriedOut
<1>4. number[h] \in 1 .. MaxSubmissions /\ S \subseteq Stations
  BY <1>1, <1>2 DEF TypeOK, Positions
<1>5. TypeOK'
  BY <1>1, <1>2, <1>3, <1>4 DEF TypeOK
<1>6. /\ \A g \in Handlers \ {h} : pc'[g] = pc[g]
      /\ \A g \in Forecasters \ {h} : left'[g] = left[g]
      /\ pc'[h] = "clear" /\ left'[h] = S /\ left[h] = {}
  BY <1>1, <1>2 DEF TypeOK, Positions
<1>7. Positions'
  BY <1>1, <1>2, <1>6 DEF Positions, Handlers
<1>8. Apart'
  BY <1>1, <1>2 DEF Apart
<1>9. \A s \in Stations : ForecastsOf(s)' = ForecastsOf(s) \/ \E g \in Forecasters : s \in left'[g]
  BY <1>3, <1>6
<1>10. PagesAreCurrent'
  <2> SUFFICES ASSUME NEW g \in Handlers, pc'[g] = "fill", NEW s \in request[g]
               PROVE  /\ page[g].got[s] <= clears[s]
                      /\ s \in raced \/ page[g].got[s] # clears[s] \/ OnPage(page[g], s) = ForecastsOf(s)'
                           \/ \E f \in Forecasters : s \in left'[f]
                      /\ g \in Forecasters => s \in raced \/ OnPage(page[g], s) = ForecastsOf(s)'
    BY <1>1 DEF PagesAreCurrent, OnPage
  <2>1. g # h /\ pc[g] = "fill" /\ s \in Stations
    BY <1>2, <1>6 DEF TypeOK
  <2>2. g \in Forecasters => s \in raced \/ s \notin S
    BY <1>2, <2>1 DEF Apart
  <2>3. /\ page[g].got[s] <= clears[s]
        /\ s \in raced \/ page[g].got[s] # clears[s] \/ OnPage(page[g], s) = ForecastsOf(s)
             \/ \E f \in Forecasters : s \in left[f]
        /\ g \in Forecasters => s \in raced \/ OnPage(page[g], s) = ForecastsOf(s)
    BY <1>2, <2>1 DEF PagesAreCurrent
  <2>4. \A f \in Forecasters : s \in left[f] => s \in left'[f]
    BY <1>6
  <2> HIDE DEF ForecastsOf
  <2> QED
    BY <1>3, <1>9, <2>1, <2>2, <2>3, <2>4
<1>11. CachedDailiesAreCurrent'
  <2>1. \A g \in Forecasters : left[g] \subseteq left'[g] \union raced'
    BY <1>6
  <2> QED
    BY <1>1, <1>2, <1>9, <2>1, CacheKeeps
<1>12. OneForecast'
  BY <1>1, <1>2, <1>3 DEF Agreement, OneForecast
<1>13. FormsFit'
  <2> SUFFICES ASSUME NEW g \in Forecasters, pc'[g] = "post", NEW s \in request[g] \ raced
               PROVE  IF ForecastsOf(s)' = {} THEN form[g][s] = NoId
                      ELSE \E d \in ForecastsOf(s)' : form[g][s] = d.id
    BY <1>1 DEF FormsFit
  <2>1. g # h /\ pc[g] = "post" /\ s \in Stations
    BY <1>2, <1>6 DEF TypeOK
  <2>2. s \notin S
    BY <1>2, <2>1 DEF Apart
  <2> QED
    BY <1>2, <1>3, <2>1, <2>2 DEF Agreement, FormsFit
<1>14. StampsGrow'
  BY <1>1, <1>2 DEF Agreement, StampsGrow, Stamps, Greatest
<1>15. ValuesAgree'
  <2>1. \A s \in Stations \ S : Wf1Values(s)' = Wf1Values(s)
    BY <1>3 DEF Wf1Values
  <2>2. \A s : Stamps(s)' = Stamps(s) /\ \A n : Greatest(s, n)' <=> Greatest(s, n)
    BY <1>1 DEF Greatest, Stamps
  <2>3. ASSUME NEW g \in Forecasters, pc'[g] = "clear", NEW s \in request[g] \ raced
        PROVE  Wf1Values(s)' = {number[g]}
    <3>1. s \in Stations
      BY <1>2 DEF TypeOK
    <3>2. CASE g = h
      BY <1>3, <3>2
    <3>3. CASE g # h
      <4>1. s \notin S /\ pc[g] = "clear"
        BY <1>2, <1>6, <2>3, <3>3 DEF Apart
      <4> QED
        BY <1>2, <2>1, <3>1, <4>1 DEF Agreement, ValuesAgree
    <3> QED
      BY <3>2, <3>3
  <2>4. ASSUME NEW s \in Stations \ raced, \A g \in Forecasters : pc'[g] = "clear" => s \notin request[g]
        PROVE  \A n \in Stamps(s) : Greatest(s, n) => Wf1Values(s)' = {n} \ {0}
    <3>1. s \notin S /\ \A g \in Forecasters : pc[g] = "clear" => s \notin request[g]
      BY <1>6, <2>4
    <3> QED
      BY <1>2, <2>1, <3>1 DEF Agreement, ValuesAgree
  <2> HIDE DEF Wf1Values, Greatest, Stamps
  <2> QED
    BY <1>1, <2>2, <2>3, <2>4 DEF ValuesAgree
<1> QED
  BY <1>5, <1>7, <1>8, <1>10, <1>11, <1>12, <1>13, <1>14, <1>15 DEF IInv, Agreement

LEMMA ClearKeeps ==
  ASSUME Parameters, IInv, NEW h \in Forecasters, NEW s \in Stations, Clear(h, s)
  PROVE  IInv'
<1> USE HandlerCases
<1>1. /\ pc[h] = "clear" /\ s \in left[h]
      /\ cache' = [S \in Queries |-> IF S \in KeysWith(s) THEN NoPage ELSE cache[S]]
      /\ clears' = [clears EXCEPT ![s] = @ + 1]
      /\ left' = [left EXCEPT ![h] = @ \ {s}]
      /\ UNCHANGED <<wf1, token, rows, pc, request, number, page, form, clock, reads, faults, posted, raced>>
  BY DEF Clear, counts
<1>2. TypeOK /\ Positions /\ Apart /\ PagesAreCurrent /\ CachedDailiesAreCurrent /\ Agreement
  BY DEF IInv
<1>3. TypeOK'
  BY <1>1, <1>2 DEF TypeOK
<1>4. /\ \A g \in Forecasters \ {h} : left'[g] = left[g]
      /\ left'[h] = left[h] \ {s}
      /\ \A t \in Stations \ {s} : clears'[t] = clears[t]
      /\ clears'[s] = clears[s] + 1 /\ clears[s] \in Nat
  BY <1>1, <1>2 DEF TypeOK
<1>5. Positions'
  BY <1>1, <1>2, <1>4 DEF Positions
<1>6. Apart'
  BY <1>1, <1>2 DEF Apart
<1>7. PagesAreCurrent'
  <2> SUFFICES ASSUME NEW g \in Handlers, pc[g] = "fill", NEW t \in request[g]
               PROVE  /\ page[g].got[t] <= clears'[t]
                      /\ t \in raced \/ page[g].got[t] # clears'[t] \/ OnPage(page[g], t) = ForecastsOf(t)
                           \/ \E f \in Forecasters : t \in left'[f]
                      /\ g \in Forecasters => t \in raced \/ OnPage(page[g], t) = ForecastsOf(t)
    BY <1>1 DEF PagesAreCurrent, OnPage, ForecastsOf
  <2>1. t \in Stations /\ page[g] \in Page
    BY <1>2 DEF TypeOK, Positions
  <2>2. page[g].got[t] \in Nat
    BY <2>1 DEF Page
  <2>3. /\ page[g].got[t] <= clears[t]
        /\ t \in raced \/ page[g].got[t] # clears[t] \/ OnPage(page[g], t) = ForecastsOf(t)
             \/ \E f \in Forecasters : t \in left[f]
        /\ g \in Forecasters => t \in raced \/ OnPage(page[g], t) = ForecastsOf(t)
    BY <1>2 DEF PagesAreCurrent
  <2> HIDE DEF ForecastsOf, OnPage
  <2>4. CASE t = s
    BY <1>4, <2>2, <2>3, <2>4
  <2>5. CASE t # s
    BY <1>4, <2>1, <2>3, <2>5
  <2> QED
    BY <2>4, <2>5
<1>8. CachedDailiesAreCurrent'
  <2> SUFFICES ASSUME NEW S \in Queries, NEW t \in S \ raced, cache'[S] # NoPage,
                      \A g \in Forecasters : t \notin left'[g]
               PROVE  {d \in cache'[S].dailies : d.station = t} = ForecastsOf(t)
    BY <1>1 DEF CachedDailiesAreCurrent, ForecastsOf
  <2>1. S \notin KeysWith(s) /\ cache'[S] = cache[S]
    BY <1>1
  <2>2. t # s
    BY <2>1 DEF KeysWith
  <2>3. \A g \in Forecasters : t \notin left[g]
    BY <1>4, <2>2
  <2> QED
    BY <1>2, <2>1, <2>3 DEF CachedDailiesAreCurrent
<1>9. Agreement'
  <2>1. OneForecast' /\ FormsFit'
    BY <1>1, <1>2 DEF Agreement, OneForecast, FormsFit, ForecastsOf
  <2>2. StampsGrow'
    BY <1>1, <1>2 DEF Agreement, StampsGrow, Stamps, Greatest
  <2>3. ValuesAgree'
    <3>1. \A t : Wf1Values(t)' = Wf1Values(t) /\ Stamps(t)' = Stamps(t) /\ \A n : Greatest(t, n)' <=> Greatest(t, n)
      BY <1>1 DEF Wf1Values, ForecastsOf, Greatest, Stamps
    <3> HIDE DEF Wf1Values, Greatest, Stamps
    <3> QED
      BY <1>1, <1>2, <3>1 DEF Agreement, ValuesAgree
  <2> QED
    BY <2>1, <2>2, <2>3 DEF Agreement
<1> QED
  BY <1>3, <1>5, <1>6, <1>7, <1>8, <1>9 DEF IInv

LEMMA SaveKeeps ==
  ASSUME Parameters, IInv, NEW h \in Forecasters, Save(h)
  PROVE  IInv'
<1> USE HandlerCases
<1> DEFINE S == request[h]
           inserted == {[station |-> s, stamp |-> number[h], by |-> h] : s \in S}
<1>1. /\ pc[h] = "clear" /\ left[h] = {} /\ rows' = rows \union inserted /\ Done(h)
      /\ UNCHANGED <<wf1, cache, token, clock, reads, faults, clears, posted, raced>>
  BY DEF Save, counts, ghosts
<1>2. LocalTypes /\ TypeOK /\ Positions /\ Apart /\ PagesAreCurrent /\ CachedDailiesAreCurrent /\ Agreement
  BY Types DEF IInv
<1>3. LocalTypes' /\ Others(h) /\ Ended(h)
  BY <1>1, <1>2, DoneEnds
<1>4. /\ number[h] \in 1 .. clock /\ number[h] \in 1 .. MaxSubmissions /\ number[h] \in posted /\ number[h] \in Nat
      /\ S \subseteq Stations
  BY <1>1, <1>2 DEF TypeOK, Positions
<1>5. TypeOK'
  <2>1. inserted \subseteq Row
    BY <1>4 DEF Row
  <2> QED
    BY <1>1, <1>2, <1>3, <2>1, Types DEF SharedTypes
<1>6. /\ \A g \in Forecasters : left'[g] = left[g]
      /\ \A g \in Handlers \ {h} : pc'[g] = pc[g] /\ request'[g] = request[g] /\ page'[g] = page[g]
      /\ \A g \in Forecasters \ {h} : number'[g] = number[g] /\ form'[g] = form[g]
      /\ pc'[h] = "idle" /\ request'[h] = {}
  BY <1>1, <1>3 DEF Others, Ended
<1>7. Positions'
  BY <1>1, <1>2, <1>6 DEF Positions, Handlers
<1>8. Apart'
  BY <1>1, <1>2, <1>6 DEF Apart
<1>9. PagesAreCurrent'
  <2>1. \A g \in Handlers : pc'[g] = "fill" => g # h
    BY <1>6
  <2> QED
    BY <1>1, <1>2, <1>6, <2>1 DEF PagesAreCurrent, OnPage, ForecastsOf
<1>10. CachedDailiesAreCurrent'
  BY <1>1, <1>2, <1>6 DEF CachedDailiesAreCurrent, ForecastsOf
<1>11. OneForecast'
  BY <1>1, <1>2 DEF Agreement, OneForecast, ForecastsOf
<1>12. FormsFit'
  <2>1. \A g \in Forecasters : pc'[g] = "post" => g # h
    BY <1>6
  <2> QED
    BY <1>1, <1>2, <1>6, <2>1 DEF Agreement, FormsFit, ForecastsOf
<1>13. \A s \in Stations \ S : Stamps(s)' = Stamps(s)
  <2>1. \A s \in Stations \ S : {x \in rows' : x.station = s} = {x \in rows : x.station = s}
    BY <1>1
  <2> QED
    BY <2>1 DEF Stamps
<1>14. \A s \in S : Stamps(s)' = Stamps(s) \union {number[h]}
  <2> TAKE s \in S
  <2> DEFINE row == [station |-> s, stamp |-> number[h], by |-> h]
  <2>1. row \in inserted /\ row.station = s /\ row.stamp = number[h]
    OBVIOUS
  <2>2. \A x \in inserted : x.station = s => x = row
    OBVIOUS
  <2> HIDE DEF row, inserted
  <2>3. {x \in rows' : x.station = s} = {x \in rows : x.station = s} \union {row}
    BY <1>1, <2>1, <2>2
  <2>4. {x.stamp : x \in {y \in rows : y.station = s} \union {row}}
          = {x.stamp : x \in {y \in rows : y.station = s}} \union {number[h]}
    BY <2>1
  <2> QED
    BY <2>3, <2>4 DEF Stamps
<1>15. \A s : \A n \in Stamps(s) : n \in Nat
  BY <1>2 DEF TypeOK, Row, Stamps
<1>16. StampsGrow'
  <2>1. \A r \in rows' : r.stamp \in posted' /\ r.stamp <= clock'
    BY <1>1, <1>2, <1>4 DEF Agreement, StampsGrow
  <2>2. ASSUME NEW s \in Stations
        PROVE  \E n \in Stamps(s)' : Greatest(s, n)'
    <3>1. PICK n \in Stamps(s) : n \in Nat /\ \A m \in Stamps(s) : m \in Nat /\ m <= n
      BY <1>2, <1>15 DEF Agreement, StampsGrow, Greatest
    <3>2. CASE s \in S /\ n <= number[h]
      <4>1. Stamps(s)' = Stamps(s) \union {number[h]}
        BY <1>14, <3>2
      <4>2. \A m \in Stamps(s) \union {number[h]} : m <= number[h]
        BY <1>4, <3>1, <3>2
      <4>3. number[h] \in Stamps(s)' /\ \A m \in Stamps(s)' : m <= number[h]
        BY <3>1, <4>1, <4>2
      <4> QED
        BY <4>3 DEF Greatest
    <3>3. CASE s \in S /\ ~(n <= number[h])
      <4>1. Stamps(s)' = Stamps(s) \union {number[h]}
        BY <1>14, <3>3
      <4>2. \A m \in Stamps(s) \union {number[h]} : m <= n
        BY <1>4, <3>1, <3>3
      <4>3. n \in Stamps(s)' /\ \A m \in Stamps(s)' : m <= n
        BY <3>1, <4>1, <4>2
      <4> QED
        BY <4>3 DEF Greatest
    <3>4. CASE s \notin S
      BY <1>13, <3>1, <3>4 DEF Greatest
    <3> QED
      BY <3>2, <3>3, <3>4
  <2>3. ASSUME NEW g \in Forecasters, NEW s \in request'[g] \ raced', NEW n \in Stamps(s)'
        PROVE  n < number'[g]
    <3>1. g # h /\ s \in request[g] \ raced /\ s \notin S /\ s \in Stations
      BY <1>1, <1>2, <1>6 DEF Apart, TypeOK
    <3> QED
      BY <1>2, <1>6, <1>13, <3>1 DEF Agreement, StampsGrow
  <2> QED
    BY <2>1, <2>2, <2>3 DEF StampsGrow
<1>17. ValuesAgree'
  <2>1. \A s : Wf1Values(s)' = Wf1Values(s)
    BY <1>1 DEF Wf1Values, ForecastsOf
  <2>2. ASSUME NEW g \in Forecasters, pc'[g] = "clear", NEW s \in request'[g] \ raced'
        PROVE  Wf1Values(s)' = {number'[g]}
    <3>1. g # h /\ pc[g] = "clear" /\ s \in request[g] \ raced /\ number'[g] = number[g]
      BY <1>1, <1>6, <2>2
    <3> QED
      BY <1>2, <2>1, <3>1 DEF Agreement, ValuesAgree
  <2>3. ASSUME NEW s \in Stations \ raced', \A g \in Forecasters : pc'[g] = "clear" => s \notin request'[g],
               NEW n \in Stamps(s)', Greatest(s, n)'
        PROVE  Wf1Values(s)' = {n} \ {0}
    <3>1. CASE s \in S
      <4>1. Wf1Values(s) = {number[h]} /\ \A m \in Stamps(s) : m < number[h]
        BY <1>1, <1>2, <2>3, <3>1 DEF Agreement, ValuesAgree, StampsGrow
      <4>2. number[h] \in Stamps(s)' /\ n \in Stamps(s) \union {number[h]}
        BY <1>14, <3>1
      <4>3. number[h] <= n
        BY <2>3, <4>2 DEF Greatest
      <4>4. n = number[h]
        BY <1>4, <1>15, <4>1, <4>2, <4>3
      <4> QED
        BY <1>4, <2>1, <4>1, <4>4
    <3>2. CASE s \notin S
      <4>1. \A g \in Forecasters : pc[g] = "clear" => s \notin request[g]
        BY <1>6, <2>3, <3>2
      <4>2. n \in Stamps(s) /\ Greatest(s, n) /\ s \in Stations \ raced
        BY <1>1, <1>13, <2>3, <3>2 DEF Greatest
      <4> QED
        BY <1>2, <2>1, <4>1, <4>2 DEF Agreement, ValuesAgree
    <3> QED
      BY <3>1, <3>2
  <2> HIDE DEF Wf1Values, Greatest, Stamps
  <2> QED
    BY <2>2, <2>3 DEF ValuesAgree
<1> QED
  BY <1>5, <1>7, <1>8, <1>9, <1>10, <1>11, <1>12, <1>16, <1>17 DEF IInv, Agreement
-----------------------------------------------------------------------------
(* Expiry and revocation change no handler; an empty page agrees with all. *)
LEMMA SurroundingsKeep ==
  ASSUME Parameters, IInv,
         (\E S \in Queries : PageExpires(S)) \/ TokenRevoked \/ TokenExpires \/ UNCHANGED vars
  PROVE  IInv'
<1>1. /\ UNCHANGED <<wf1, rows, pc, request, number, page, form, left, clock, reads, clears, posted, raced>>
      /\ cache' = cache \/ \E S \in Queries : cache' = [cache EXCEPT ![S] = NoPage]
      /\ token' \in {token, "none", "revoked"}
      /\ faults' = faults \/ (faults < MaxFaults /\ faults' = faults + 1)
  BY DEF PageExpires, TokenRevoked, TokenExpires, vars, locals, counts, ghosts
<1>2. TypeOK /\ Positions /\ Apart /\ PagesAreCurrent /\ CachedDailiesAreCurrent /\ Agreement
  BY DEF IInv
<1>3. TypeOK'
  BY <1>1, <1>2 DEF TypeOK, Parameters
<1>4. Positions' /\ Apart'
  BY <1>1, <1>2 DEF Positions, Apart
<1>5. PagesAreCurrent'
  BY <1>1, <1>2 DEF PagesAreCurrent, OnPage, ForecastsOf
<1>6. CachedDailiesAreCurrent'
  <2>1. \A S \in Queries : cache'[S] \in {cache[S], NoPage}
    BY <1>1, <1>2 DEF TypeOK
  <2> QED
    BY <1>1, <1>2, <2>1 DEF CachedDailiesAreCurrent, ForecastsOf
<1>7. Agreement'
  <2>1. OneForecast' /\ FormsFit'
    BY <1>1, <1>2 DEF Agreement, OneForecast, FormsFit, ForecastsOf
  <2>2. StampsGrow'
    BY <1>1, <1>2 DEF Agreement, StampsGrow, Stamps, Greatest
  <2>3. ValuesAgree'
    <3>1. \A t : Wf1Values(t)' = Wf1Values(t) /\ Stamps(t)' = Stamps(t) /\ \A n : Greatest(t, n)' <=> Greatest(t, n)
      BY <1>1 DEF Wf1Values, ForecastsOf, Greatest, Stamps
    <3> HIDE DEF Wf1Values, Greatest, Stamps
    <3> QED
      BY <1>1, <1>2, <3>1 DEF Agreement, ValuesAgree
  <2> QED
    BY <2>1, <2>2, <2>3 DEF Agreement
<1> QED
  BY <1>3, <1>4, <1>5, <1>6, <1>7 DEF IInv

LEMMA Initially == ASSUME Parameters, Init PROVE IInv
<1> USE HandlerCases
<1>1. TypeOK
  BY DEF Init, TypeOK, Parameters
<1>2. Positions /\ Apart
  BY DEF Init, Positions, Apart, Handlers
<1>3. PagesAreCurrent /\ CachedDailiesAreCurrent
  BY DEF Init, PagesAreCurrent, CachedDailiesAreCurrent
<1>4. \A s : Stamps(s) = {0} /\ ForecastsOf(s) = {} /\ Wf1Values(s) = {}
  BY DEF Init, Stamps, ForecastsOf, Wf1Values
<1>5. OneForecast /\ FormsFit
  BY <1>4 DEF Init, OneForecast, FormsFit
<1>6. StampsGrow
  <2>1. \A s : Greatest(s, 0) /\ 0 \in Stamps(s)
    BY <1>4 DEF Greatest
  <2>2. rows = {} /\ \A h \in Forecasters : request[h] = {}
    BY DEF Init
  <2> QED
    BY <2>1, <2>2 DEF StampsGrow
<1>7. ValuesAgree
  <2>1. \A h \in Forecasters : pc[h] # "clear"
    BY DEF Init
  <2>2. \A s : \A n \in Stamps(s) : Wf1Values(s) = {n} \ {0}
    BY <1>4
  <2> HIDE DEF Wf1Values, Stamps
  <2> QED
    BY <2>1, <2>2 DEF ValuesAgree
<1> QED
  BY <1>1, <1>2, <1>3, <1>5, <1>6, <1>7 DEF IInv, Agreement

(* The inductive invariant of MoreCast: the types, where each request and    *)
(* page can be, that what is in the cache is current or about to be cleared, *)
(* and that WF1 and the database agree but for a counted fault.              *)
THEOREM Invariant == ASSUME Parameters PROVE Spec => []IInv
<1>1. Init => IInv
  BY Initially
<1>2. IInv /\ [Next]_vars => IInv'
  <2> SUFFICES ASSUME IInv, [Next]_vars PROVE IInv'
    OBVIOUS
  <2> USE HandlerCases
  <2>1. CASE \E h \in Forecasters, S \in Queries : Submit(h, S)
    BY <2>1, SubmitKeeps
  <2>2. CASE \E h \in Readers, S \in Queries : Read(h, S)
    BY <2>2, ReadKeeps
  <2>3. CASE \E h \in Handlers : Hit(h) \/ Miss(h) \/ Fill(h) \/ NotFilled(h) \/ QueryFails(h)
    BY <2>3, HitKeeps, MissKeeps, FillKeeps, NotFilledKeeps, QueryFailureKeeps
  <2>4. CASE \E h \in Forecasters : Post(h) \/ PostRefused(h) \/ AnswerLost(h)
    BY <2>4, PostKeeps, RefusalKeeps, LostAnswerKeeps
  <2>5. CASE \E h \in Forecasters : ClearFails(h) \/ Save(h) \/ SaveFails(h)
    BY <2>5, ClearFailureKeeps, SaveKeeps
  <2>6. CASE \E h \in Forecasters, s \in Stations : Clear(h, s)
    BY <2>6, ClearKeeps
  <2>7. CASE (\E S \in Queries : PageExpires(S)) \/ TokenRevoked \/ TokenExpires \/ UNCHANGED vars
    BY <2>7, SurroundingsKeep
  <2> QED
    BY <2>1, <2>2, <2>3, <2>4, <2>5, <2>6, <2>7 DEF Next
<1> QED
  BY <1>1, <1>2, PTL DEF Spec

(* Handlers, pages, forecasts and rows keep their types, whatever fails.   *)
THEOREM TypeCorrect == ASSUME Parameters PROVE Spec => []TypeOK
<1>1. IInv => TypeOK
  BY DEF IInv
<1> QED
  BY <1>1, Invariant, PTL

(* A page of dailies in the cache of redis shows the forecasts that WF1 has*)
(* of each of its stations, or the submission that changed them is about to*)
(* clear it, unless handlers raced for the station: get_wf1_forecasts and  *)
(* clear_cache_matching of routers/morecast_v2.py.                         *)
THEOREM CacheIsCurrent == ASSUME Parameters PROVE Spec => []CachedDailiesAreCurrent
<1>1. IInv => CachedDailiesAreCurrent
  BY DEF IInv
<1> QED
  BY <1>1, Invariant, PTL

(* What is in the database was carried out by WF1, and its most recent     *)
(* forecast of a station is the only one WF1 has, unless one is being      *)
(* submitted or handlers raced for the station.                            *)
THEOREM DatabaseAgrees == ASSUME Parameters PROVE Spec => []DatabaseAgreesWithWf1
<1>1. ASSUME IInv PROVE DatabaseAgreesWithWf1
  <2>1. TypeOK /\ Positions /\ Agreement
    BY <1>1 DEF IInv
  <2>2. \A r \in rows : r.stamp \in posted
    BY <2>1 DEF Agreement, StampsGrow
  <2>3. ASSUME NEW s \in Stations \ raced, \A h \in Forecasters : s \notin request[h]
        PROVE  {d.value : d \in ForecastsOf(s)} = {MostRecent(s)} \ {0}
    <3>1. PICK n \in Stamps(s) : Greatest(s, n)
      BY <2>1 DEF Agreement, StampsGrow
    <3>2. \A m \in Stamps(s) : m \in Nat
      BY <2>1 DEF TypeOK, Row, Stamps
    <3>3. MostRecent(s) = n
      <4>1. MostRecent(s) = CHOOSE x \in Stamps(s) : \A y \in Stamps(s) : x >= y
        BY DEF MostRecent, Max, Stamps
      <4>2. \A y \in Stamps(s) : n >= y
        BY <3>1, <3>2 DEF Greatest
      <4>3. \A x \in Stamps(s) : (\A y \in Stamps(s) : x >= y) => x = n
        BY <3>2, <4>2
      <4> HIDE DEF Stamps
      <4> QED
        BY <4>1, <4>2, <4>3
    <3>4. Wf1Values(s) = {n} \ {0}
      BY <2>1, <2>3, <3>1 DEF Agreement, ValuesAgree
    <3> QED
      BY <3>3, <3>4 DEF Wf1Values
  <2> QED
    BY <2>2, <2>3 DEF DatabaseAgreesWithWf1
<1> QED
  BY <1>1, Invariant, PTL
=============================================================================
