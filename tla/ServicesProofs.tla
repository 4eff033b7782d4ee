---------------------------- MODULE ServicesProofs ----------------------------
(***************************************************************************)
(* What holds of the API and the jobs of MCServices.  First the requests of*)
(* the HFI calculator, for every number of users, worker processes, areas, *)
(* values and handlers; then that a behaviour of the services is one of    *)
(* each component; then that every question that is asked of the           *)
(* calculations is one that the theorems of CalculationsProofs speak of, so*)
(* that what is proved of the components and of the calculations holds of  *)
(* the services.                                                           *)
(***************************************************************************)
EXTENDS MCServices, WeatherJobsProofs, CalculationsProofs

(* A new request has the default settings, bounds are numbers.             *)
Parameters ==
  /\ Default \in Values
  /\ MaxSets \in Nat /\ MaxToggles \in Nat /\ MaxAdmins \in Nat /\ MaxFailures \in Nat

\* Of the rows rs the m-th has the largest stamp, and no two have the same.
Latest(rs, m) == m \in 1 .. Len(rs) /\ \A j \in 1 .. Len(rs) : rs[j].stamp <= rs[m].stamp
StampsApart(rs) == \A i, j \in 1 .. Len(rs) : rs[i].stamp = rs[j].stamp => i = j

\* Every insertion takes a stamp of its own; commits need not follow them in order.
StampsAreTaken ==
  /\ StampsApart(requests)
  /\ requests = <<>> \/ \E m \in 1 .. Len(requests) : Latest(requests, m)
  /\ \A i \in 1 .. Len(requests) : requests[i].stamp <= clock
  /\ \A u \in Users : pc[u] = "commit" =>
       /\ row[u].stamp <= clock
       /\ \A i \in 1 .. Len(requests) : requests[i].stamp # row[u].stamp
       /\ \A v \in Users : pc[v] = "commit" /\ row[v].stamp = row[u].stamp => v = u

\* The ready states and the settings of the most recent row, or those of no request.
LastReady == IF most_recent = 0 THEN NotReady ELSE requests[most_recent].ready
LastSettings == IF most_recent = 0 THEN NewSettings ELSE requests[most_recent].settings

\* Wherever a ready state is copied to, it is the one that was answered.
ReadyIsCarried ==
  /\ \A a \in Areas \ crossed : LastReady[a] = answered[a]
  /\ \A u \in Users :
       /\ pc[u] = "insert" => \A a \in Areas \ crossed : ReadyRecords(u)[a] = answered[a]
       /\ pc[u] = "commit" => \A a \in Areas \ crossed : row[u].ready[a] = answered[a]
       /\ pc[u] = "toggle" => previous[u] # 0

\* What a handler stores differs from what was set only in areas that others have set
\* since it loaded the request, or whose setting was lost before.
SettingsAreCarried ==
  /\ \A a \in Areas \ overwritten : LastSettings[a] = lastSet[a]
  /\ \A u \in Users :
       /\ pc[u] \in {"calculate", "insert", "commit"} =>
            \A a \in (Areas \ (overwritten \union since[u])) \union AreaOf(change[u]) :
              request[u][a] = Apply(lastSet, change[u])[a]
       /\ pc[u] = "commit" => row[u].settings = request[u]

\* An area whose stations changed was answered to be not ready, or is about to be.
ChangesAreAnswered ==
  \A a \in changed \ uncleared :
    ~answered[a] \/ \E u \in Users : pc[u] = "unready" /\ row[u].area = a

IInv ==
  /\ TypeOK /\ StampsAreTaken
  /\ ReadyIsCarried /\ SettingsAreCarried /\ ChangesAreAnswered
-----------------------------------------------------------------------------
(* The query for the most recent request finds the row with the largest    *)
(* stamp, and none where there is no row.                                  *)
LEMMA LatestIsFound ==
  ASSUME NEW rs \in Seq(Requests), StampsApart(rs), NEW m, Latest(rs, m)
  PROVE  MostRecentOf(rs) = m
<1>1. Len(rs) \in Nat /\ m \in 1 .. Len(rs) /\ rs # <<>>
  BY DEF Latest
<1>2. \A i \in 1 .. Len(rs) : rs[i].stamp \in Nat
  <2>1. \A i \in 1 .. Len(rs) : rs[i] \in Requests
    OBVIOUS
  <2> QED
    BY <2>1 DEF Requests
<1>3. ASSUME NEW i \in 1 .. Len(rs), \A j \in 1 .. Len(rs) : rs[j].stamp <= rs[i].stamp
      PROVE  i = m
  <2>1. rs[m].stamp <= rs[i].stamp /\ rs[i].stamp <= rs[m].stamp
    BY <1>1, <1>3 DEF Latest
  <2>2. rs[m].stamp = rs[i].stamp
    BY <1>1, <1>2, <2>1
  <2> QED
    BY <1>1, <2>2 DEF StampsApart
<1>4. MostRecentOf(rs) = CHOOSE i \in 1 .. Len(rs) : \A j \in 1 .. Len(rs) : rs[j].stamp <= rs[i].stamp
  BY <1>1 DEF MostRecentOf
<1>5. \A j \in 1 .. Len(rs) : rs[j].stamp <= rs[m].stamp
  BY DEF Latest
<1> QED
  BY <1>1, <1>3, <1>4, <1>5

LEMMA MostRecent ==
  ASSUME IInv
  PROVE  /\ requests = <<>> => most_recent = 0
         /\ requests # <<>> => Latest(requests, most_recent)
         /\ most_recent \in 0 .. Len(requests)
<1>1. requests \in Seq(Requests) /\ StampsApart(requests)
  BY DEF IInv, TypeOK, StampsAreTaken
<1>2. CASE requests = <<>>
  BY <1>1, <1>2 DEF most_recent, MostRecentOf
<1>3. CASE requests # <<>>
  <2>1. PICK m \in 1 .. Len(requests) : Latest(requests, m)
    BY <1>3 DEF IInv, StampsAreTaken
  <2>2. most_recent = m
    BY <1>1, <2>1, LatestIsFound DEF most_recent
  <2> QED
    BY <1>1, <1>3, <2>1, <2>2
<1> QED
  BY <1>2, <1>3

(* A change gives an area one of the values.                               *)
LEMMA ApplyType ==
  ASSUME NEW s \in Settings, NEW c \in Changes
  PROVE  Apply(s, c) \in Settings
  BY DEF Apply, Settings, Changes, Nothing

LEMMA PreparedRequest ==
  ASSUME IInv, Parameters
  PROVE  /\ get_prepared_request = LastSettings /\ LastSettings \in Settings
         /\ LastReady \in [Areas -> BOOLEAN]
<1>1. requests \in Seq(Requests) /\ Len(requests) \in Nat /\ most_recent \in 0 .. Len(requests)
  BY MostRecent DEF IInv, TypeOK
<1>2. get_prepared_request = LastSettings
  BY DEF get_prepared_request, LastSettings
<1>3. NewSettings \in Settings /\ NotReady \in [Areas -> BOOLEAN]
  BY DEF NewSettings, Settings, NotReady, Parameters
<1>4. most_recent # 0 => requests[most_recent] \in Requests
  BY <1>1
<1> QED
  BY <1>2, <1>3, <1>4 DEF LastSettings, LastReady, Requests

LEMMA InitIInv ==
  ASSUME Parameters, Init
  PROVE  IInv
<1>1. requests = <<>> /\ Len(requests) = 0 /\ requests \in Seq(Requests)
  BY DEF Init
<1>2. NewSettings \in Settings /\ NotReady \in [Areas -> BOOLEAN] /\ Nothing \in Changes
  BY DEF NewSettings, NotReady, Settings, Changes, Parameters
<1>4. \A u \in Users : pc[u] = "idle"
  BY DEF Init
<1>3. TypeOK
  <2>1. clock \in Nat /\ sets \in 0 .. MaxSets /\ toggles \in 0 .. MaxToggles
        /\ admins \in 0 .. MaxAdmins /\ failures \in 0 .. MaxFailures
    BY DEF Init, Parameters
  <2>2. pc \in [Users -> Pcs] /\ worker \in [Users -> Workers]
    BY DEF Init, Pcs
  <2>3. change \in [Users -> Changes] /\ request \in [Users -> Settings]
    BY <1>2 DEF Init
  <2>4. previous \in [Users -> 0 .. Len(requests)] /\ DOMAIN row = Users
    BY <1>1 DEF Init
  <2>5. lastSet \in Settings /\ answered \in [Areas -> BOOLEAN] /\ changed \subseteq Areas
        /\ uncleared \subseteq Areas /\ crossed \subseteq Areas /\ overwritten \subseteq Areas
        /\ since \in [Users -> SUBSET Areas]
    BY <1>2 DEF Init
  <2> QED
    BY <1>1, <1>4, <2>1, <2>2, <2>3, <2>4, <2>5 DEF TypeOK
<1>5. StampsAreTaken
  BY <1>1, <1>4 DEF StampsAreTaken, StampsApart
<1>6. most_recent = 0
  BY <1>1 DEF most_recent, MostRecentOf
<1>7. ReadyIsCarried /\ SettingsAreCarried /\ ChangesAreAnswered
  BY <1>4, <1>6 DEF ReadyIsCarried, SettingsAreCarried, LastReady, LastSettings, ChangesAreAnswered, Init
<1> QED
  BY <1>3, <1>5, <1>7 DEF IInv

-----------------------------------------------------------------------------
(* What a step does to the rows: it keeps their stamps and settings.       *)
KeepsRows ==
  /\ requests' \in Seq(Requests) /\ Len(requests') = Len(requests)
  /\ \A i \in 1 .. Len(requests) : /\ requests'[i].stamp = requests[i].stamp
                                   /\ requests'[i].settings = requests[i].settings

LEMMA KeepsMostRecent ==
  ASSUME IInv, KeepsRows
  PROVE  most_recent' = most_recent /\ LastSettings' = LastSettings
<1>1. /\ requests \in Seq(Requests) /\ Len(requests) \in Nat
      /\ requests = <<>> <=> Len(requests) = 0
      /\ requests' = <<>> <=> Len(requests) = 0
  BY DEF IInv, TypeOK, KeepsRows
<1>2. CASE requests = <<>>
  <2>1. most_recent' = 0 /\ most_recent = 0
    BY <1>1, <1>2 DEF most_recent, MostRecentOf
  <2> QED
    BY <2>1 DEF LastSettings, NewSettings
<1>3. CASE requests # <<>>
  <2>1. Latest(requests, most_recent)
    BY <1>3, MostRecent
  <2>2. Latest(requests', most_recent) /\ StampsApart(requests')
    BY <2>1 DEF Latest, StampsApart, KeepsRows, IInv, StampsAreTaken
  <2>3. MostRecentOf(requests') = most_recent
    BY <2>2, LatestIsFound DEF KeepsRows
  <2>4. most_recent' = most_recent
    BY <2>3 DEF most_recent
  <2>5. most_recent \in 1 .. Len(requests)
    BY <2>1 DEF Latest
  <2> QED
    BY <1>1, <2>4, <2>5 DEF LastSettings, KeepsRows
<1> QED
  BY <1>2, <1>3

LEMMA ToggleKeepsRows ==
  ASSUME IInv, NEW u \in Users, ToggleCommits(u)
  PROVE  /\ KeepsRows
         /\ row[u] \in [area : Areas, ready : BOOLEAN] /\ previous[u] \in 1 .. Len(requests)
         /\ \A i \in 1 .. Len(requests) :
              requests'[i].ready = IF i = previous[u]
                                     THEN [requests[i].ready EXCEPT ![row[u].area] = row[u].ready]
                                     ELSE requests[i].ready
<1> DEFINE n == previous[u]
           a == row[u].area
<1>1. /\ requests \in Seq(Requests) /\ pc[u] = "toggle"
      /\ row[u] \in [area : Areas, ready : BOOLEAN]
      /\ Len(requests) \in Nat /\ n \in 0 .. Len(requests) /\ n # 0
  BY DEF IInv, TypeOK, ReadyIsCarried, ToggleCommits, Steps
<1>2. requests' = [requests EXCEPT ![n] = [requests[n] EXCEPT !.ready = [@ EXCEPT ![a] = row[u].ready]]]
  BY DEF ToggleCommits
<1>3. n \in 1 .. Len(requests) /\ requests[n] \in Requests
  BY <1>1
<1>4. [requests[n] EXCEPT !.ready = [@ EXCEPT ![a] = row[u].ready]]
        = [stamp |-> requests[n].stamp, settings |-> requests[n].settings,
           ready |-> [requests[n].ready EXCEPT ![a] = row[u].ready]]
  BY <1>3 DEF Requests
<1>5. [requests[n] EXCEPT !.ready = [@ EXCEPT ![a] = row[u].ready]] \in Requests
  BY <1>1, <1>3, <1>4 DEF Requests
<1>6. requests' \in Seq(Requests) /\ Len(requests') = Len(requests)
  BY <1>1, <1>2, <1>3, <1>5
<1>7. \A i \in 1 .. Len(requests) :
        requests'[i] = IF i = n
                         THEN [stamp |-> requests[n].stamp, settings |-> requests[n].settings,
                               ready |-> [requests[n].ready EXCEPT ![a] = row[u].ready]]
                         ELSE requests[i]
  BY <1>1, <1>2, <1>3, <1>4
<1>8. KeepsRows
  BY <1>6, <1>7 DEF KeepsRows
<1> QED
  BY <1>1, <1>3, <1>7, <1>8

LEMMA UnreadyKeepsRows ==
  ASSUME IInv, NEW u \in Users, AdminUnreadies(u)
  PROVE  /\ KeepsRows
         /\ row[u].area \in Areas
         /\ \A i \in 1 .. Len(requests) :
              requests'[i].ready = [requests[i].ready EXCEPT ![row[u].area] = FALSE]
<1> DEFINE a == row[u].area
<1>1. requests \in Seq(Requests) /\ Len(requests) \in Nat /\ a \in Areas
  BY DEF IInv, TypeOK, AdminUnreadies, Steps
<1>2. requests' = [i \in DOMAIN requests |-> [requests[i] EXCEPT !.ready = [@ EXCEPT ![a] = FALSE]]]
  BY DEF AdminUnreadies, unready_planning_areas
<1>4. DOMAIN requests = 1 .. Len(requests)
  BY <1>1
<1>5. ASSUME NEW i \in 1 .. Len(requests)
      PROVE  /\ requests'[i] \in Requests
             /\ requests'[i].stamp = requests[i].stamp /\ requests'[i].settings = requests[i].settings
             /\ requests'[i].ready = [requests[i].ready EXCEPT ![a] = FALSE]
  <2>1. requests[i] \in Requests
    BY <1>1
  <2>2. requests'[i] = [requests[i] EXCEPT !.ready = [@ EXCEPT ![a] = FALSE]]
    BY <1>2, <1>4
  <2> QED
    BY <2>1, <2>2 DEF Requests
<1>6. requests' \in [1 .. Len(requests) -> Requests]
  BY <1>2, <1>4, <1>5
<1>7. requests' \in Seq(Requests) /\ Len(requests') = Len(requests)
  BY <1>1, <1>6
<1>8. KeepsRows
  BY <1>5, <1>7 DEF KeepsRows
<1> QED
  BY <1>1, <1>5, <1>8

(* A row that is committed after one with a larger stamp is not the most   *)
(* recent one.                                                             *)
Late(u) == \E i \in DOMAIN requests : requests[i].stamp > row[u].stamp

LEMMA CommitAppends ==
  ASSUME IInv, NEW u \in Users, StoreCommits(u)
  PROVE  /\ requests' \in Seq(Requests) /\ Len(requests') = Len(requests) + 1 /\ row[u] \in Requests
         /\ \A i \in 1 .. Len(requests) : requests'[i] = requests[i]
         /\ requests'[Len(requests) + 1] = row[u]
         /\ StampsApart(requests')
         /\ Late(u) => Latest(requests', most_recent)
         /\ ~Late(u) => Latest(requests', Len(requests) + 1)
<1>1. requests \in Seq(Requests) /\ row[u] \in Requests /\ Len(requests) \in Nat /\ pc[u] = "commit"
  BY DEF IInv, TypeOK, StoreCommits, Steps
<1>2. requests' = Append(requests, row[u])
  BY DEF StoreCommits
<1>3. /\ requests' \in Seq(Requests) /\ Len(requests') = Len(requests) + 1
      /\ \A i \in 1 .. Len(requests) : requests'[i] = requests[i]
      /\ requests'[Len(requests) + 1] = row[u]
  BY <1>1, <1>2
<1>4. \A i \in 1 .. Len(requests') : i \in 1 .. Len(requests) \/ i = Len(requests) + 1
  BY <1>1, <1>3
<1>5. /\ StampsApart(requests)
      /\ \A i \in 1 .. Len(requests) : requests[i].stamp # row[u].stamp
  BY <1>1 DEF IInv, StampsAreTaken
<1>6. StampsApart(requests')
  BY <1>3, <1>4, <1>5 DEF StampsApart
<1>7. row[u].stamp \in Nat /\ \A i \in 1 .. Len(requests) : requests[i].stamp \in Nat
  <2>1. \A i \in 1 .. Len(requests) : requests[i] \in Requests
    BY <1>1
  <2> QED
    BY <1>1, <2>1 DEF Requests
<1>8. ASSUME Late(u)
      PROVE  Latest(requests', most_recent)
  <2>1. PICK i \in 1 .. Len(requests) : requests[i].stamp > row[u].stamp
    BY <1>1, <1>8 DEF Late
  <2>2. requests # <<>>
    BY <1>1, <2>1
  <2>3. Latest(requests, most_recent)
    BY <2>2, MostRecent
  <2>4. most_recent \in 1 .. Len(requests) /\ requests[i].stamp <= requests[most_recent].stamp
    BY <2>3 DEF Latest
  <2>5. row[u].stamp <= requests[most_recent].stamp
    BY <1>7, <2>1, <2>4
  <2>6. most_recent \in 1 .. Len(requests')
    BY <1>1, <1>3, <2>4
  <2> QED
    BY <1>3, <1>4, <2>3, <2>4, <2>5, <2>6 DEF Latest
<1>9. ASSUME ~Late(u)
      PROVE  Latest(requests', Len(requests) + 1)
  <2>1. \A i \in 1 .. Len(requests) : requests[i].stamp <= row[u].stamp
    BY <1>1, <1>7, <1>9 DEF Late
  <2> QED
    BY <1>1, <1>3, <1>4, <1>7, <2>1 DEF Latest
<1> QED
  BY <1>1, <1>3, <1>6, <1>8, <1>9

LEMMA CommitMovesOn ==
  ASSUME IInv, NEW u \in Users, StoreCommits(u)
  PROVE  /\ Late(u) => LastReady' = LastReady /\ LastSettings' = LastSettings
         /\ ~Late(u) => LastReady' = row[u].ready /\ LastSettings' = row[u].settings
<1>1. requests \in Seq(Requests) /\ Len(requests) \in Nat /\ most_recent \in 0 .. Len(requests)
  BY MostRecent DEF IInv, TypeOK
<1>2. CASE Late(u)
  <2>1. MostRecentOf(requests') = most_recent
    BY <1>2, CommitAppends, LatestIsFound
  <2>2. most_recent' = most_recent
    BY <2>1 DEF most_recent
  <2>3. requests # <<>>
    BY <1>1, <1>2 DEF Late
  <2>4. most_recent \in 1 .. Len(requests)
    BY <2>3, MostRecent DEF Latest
  <2>5. requests'[most_recent] = requests[most_recent] /\ most_recent # 0
    BY <1>1, <2>4, CommitAppends
  <2> QED
    BY <1>2, <2>2, <2>5 DEF LastReady, LastSettings
<1>3. CASE ~Late(u)
  <2>1. MostRecentOf(requests') = Len(requests) + 1
    BY <1>3, CommitAppends, LatestIsFound
  <2>2. most_recent' = Len(requests) + 1
    BY <2>1 DEF most_recent
  <2>3. requests'[Len(requests) + 1] = row[u]
    BY CommitAppends
  <2> QED
    BY <1>1, <1>3, <2>2, <2>3 DEF LastReady, LastSettings
<1> QED
  BY <1>2, <1>3

-----------------------------------------------------------------------------
(* One lemma for each part of the invariant.                               *)
LEMMA TypeStep ==
  ASSUME Parameters, IInv, Next
  PROVE  TypeOK'
<1> USE DEF IInv, TypeOK
<1>0. PICK u \in Users :
        \/ \E w \in Workers, c \in Changes : Load(u, w, c)
        \/ calculate_fails(u) \/ StoreBegins(u) \/ StoreInserts(u) \/ StoreCommits(u)
        \/ \E w \in Workers, a \in Areas : ToggleReads(u, w, a)
        \/ ToggleCommits(u)
        \/ \E w \in Workers, a \in Areas : AdminSaves(u, w, a)
        \/ AdminUnreadies(u) \/ clear_cache_fails(u)
  BY DEF Next
<1>1. ASSUME NEW w \in Workers, NEW c \in Changes, Load(u, w, c)  PROVE TypeOK'
  <2>1. Apply(get_prepared_request, c) \in Settings
    BY PreparedRequest, ApplyType
  <2> QED
    BY <1>1, <2>1, SMTT(60) DEF Load, Starts, Pcs, Parameters
<1>2. CASE calculate_fails(u)
  BY <1>2 DEF calculate_fails, Steps, Pcs, counts, ghosts
<1>3. CASE StoreBegins(u)
  <2>1. most_recent \in 0 .. Len(requests)
    BY MostRecent
  <2> QED
    BY <1>3, <2>1 DEF StoreBegins, Steps, Pcs, counts, ghosts
<1>4. CASE StoreInserts(u)
  <2>1. ReadyRecords(u) \in [Areas -> BOOLEAN]
    <3>1. previous[u] # 0 => requests[previous[u]] \in Requests
      OBVIOUS
    <3> QED
      BY <3>1 DEF ReadyRecords, Requests, NotReady
  <2>2. [stamp |-> clock + 1, settings |-> request[u], ready |-> ReadyRecords(u)] \in Requests
    BY <2>1 DEF Requests
  <2> QED
    BY <1>4, <2>2 DEF StoreInserts, Steps, Pcs, counts, ghosts
<1>5. CASE StoreCommits(u)
  <2>1. requests' \in Seq(Requests) /\ Len(requests') = Len(requests) + 1
    BY <1>5, CommitAppends
  <2>2. Apply(lastSet, change[u]) \in Settings
    BY ApplyType
  <2>3. AreaOf(change[u]) \subseteq Areas
    BY DEF AreaOf, Changes, Nothing
  <2>4. since' \in [Users -> SUBSET Areas] /\ overwritten' \subseteq Areas
    BY <1>5, <2>3 DEF StoreCommits
  <2> QED
    BY <1>5, <2>1, <2>2, <2>4 DEF StoreCommits, Steps, Pcs, counts
<1>6. ASSUME NEW w \in Workers, NEW a \in Areas, ToggleReads(u, w, a)  PROVE TypeOK'
  <2>1. most_recent \in 1 .. Len(requests)
    BY <1>6, MostRecent DEF ToggleReads
  <2>2. [area |-> a, ready |-> ~requests[most_recent].ready[a]] \in [area : Areas, ready : BOOLEAN]
    BY <2>1 DEF Requests
  <2> QED
    BY <1>6, <2>1, <2>2 DEF ToggleReads, Starts, Pcs, Parameters, ghosts
<1>7. CASE ToggleCommits(u)
  <2>1. KeepsRows /\ row[u] \in [area : Areas, ready : BOOLEAN]
    BY <1>7, ToggleKeepsRows
  <2> QED
    BY <1>7, <2>1 DEF ToggleCommits, Answers, Steps, Pcs, counts, KeepsRows
<1>8. ASSUME NEW w \in Workers, NEW a \in Areas, AdminSaves(u, w, a)  PROVE TypeOK'
  BY <1>8 DEF AdminSaves, Starts, Pcs, Parameters
<1>9. CASE AdminUnreadies(u)
  <2>1. KeepsRows /\ row[u].area \in Areas
    BY <1>9, UnreadyKeepsRows
  <2> QED
    BY <1>9, <2>1 DEF AdminUnreadies, Answers, Steps, Pcs, counts, KeepsRows
<1>10. CASE clear_cache_fails(u)
  <2>1. row[u].area \in Areas
    BY <1>10 DEF clear_cache_fails, Steps
  <2> QED
    BY <1>10, <2>1 DEF clear_cache_fails, Steps, Pcs, Parameters
<1> QED
  BY <1>0, <1>1, <1>2, <1>3, <1>4, <1>5, <1>6, <1>7, <1>8, <1>9, <1>10

LEMMA StampsStep ==
  ASSUME IInv, Next
  PROVE  StampsAreTaken'
<1> USE DEF StampsAreTaken
<1>0. PICK u \in Users :
        \/ \E w \in Workers, c \in Changes : Load(u, w, c)
        \/ calculate_fails(u) \/ StoreBegins(u) \/ StoreInserts(u) \/ StoreCommits(u)
        \/ \E w \in Workers, a \in Areas : ToggleReads(u, w, a)
        \/ ToggleCommits(u)
        \/ \E w \in Workers, a \in Areas : AdminSaves(u, w, a)
        \/ AdminUnreadies(u) \/ clear_cache_fails(u)
  BY DEF Next
<1>1. /\ pc \in [Users -> Pcs] /\ DOMAIN row = Users /\ clock \in Nat
      /\ requests \in Seq(Requests) /\ Len(requests) \in Nat
      /\ \A i \in 1 .. Len(requests) : requests[i] \in Requests
      /\ \A v \in Users : pc[v] = "commit" => row[v] \in Requests
  BY DEF IInv, TypeOK
<1>11. /\ \A i \in 1 .. Len(requests) : requests[i].stamp \in Nat
       /\ \A v \in Users : pc[v] = "commit" => row[v].stamp \in Nat
  BY <1>1 DEF Requests
<1>2. StampsAreTaken
  BY DEF IInv
<1>3. ASSUME UNCHANGED <<requests, clock>>,
             \A v \in Users : pc'[v] = "commit" => pc[v] = "commit" /\ row'[v] = row[v]
      PROVE  StampsAreTaken'
  BY <1>2, <1>3 DEF StampsApart, Latest
<1>4. CASE \E w \in Workers, c \in Changes : Load(u, w, c)
  BY <1>1, <1>3, <1>4 DEF Load, Starts
<1>5. CASE calculate_fails(u) \/ StoreBegins(u) \/ clear_cache_fails(u)
  BY <1>1, <1>3, <1>5 DEF calculate_fails, StoreBegins, clear_cache_fails, Steps
<1>6. CASE StoreInserts(u)
  <2>1. pc[u] # "commit" /\ pc' = [pc EXCEPT ![u] = "commit"] /\ requests' = requests /\ clock' = clock + 1
        /\ row'[u].stamp = clock + 1 /\ \A v \in Users \ {u} : row'[v] = row[v]
    BY <1>1, <1>6 DEF StoreInserts, Steps
  <2>2. \A v \in Users \ {u} : pc'[v] = pc[v]
    BY <1>1, <2>1
  <2>3. /\ \A i \in 1 .. Len(requests) : requests[i].stamp < clock + 1
        /\ \A v \in Users : pc[v] = "commit" => row[v].stamp < clock + 1
    BY <1>1, <1>11, <1>2
  <2>4. StampsApart(requests') /\ (requests' = <<>> \/ \E m \in 1 .. Len(requests') : Latest(requests', m))
    BY <1>2, <2>1
  <2>5. \A i \in 1 .. Len(requests') : requests'[i].stamp <= clock'
    BY <1>1, <1>11, <2>1, <2>3
  <2>6. ASSUME NEW v \in Users, pc'[v] = "commit"
        PROVE  /\ row'[v].stamp <= clock'
               /\ \A i \in 1 .. Len(requests') : requests'[i].stamp # row'[v].stamp
               /\ \A x \in Users : pc'[x] = "commit" /\ row'[x].stamp = row'[v].stamp => x = v
    <3>1. CASE v = u
      <4>1. row'[v].stamp = clock + 1 /\ \A x \in Users \ {u} : pc'[x] = "commit" => row'[x].stamp < clock + 1
        BY <2>1, <2>2, <2>3, <3>1
      <4>2. \A x \in Users \ {u} : pc'[x] = "commit" => row'[x].stamp \in Nat
        BY <1>11, <2>1, <2>2
      <4>3. \A x \in Users : pc'[x] = "commit" /\ row'[x].stamp = row'[v].stamp => x = v
        BY <1>1, <3>1, <4>1, <4>2
      <4> QED
        BY <1>1, <1>11, <2>1, <2>3, <4>1, <4>3
    <3>2. CASE v # u
      <4>1. pc[v] = "commit" /\ row'[v] = row[v] /\ row[v].stamp < clock + 1 /\ row[v].stamp \in Nat
        BY <1>11, <2>1, <2>2, <2>3, <2>6, <3>2
      <4>2. \A x \in Users : pc'[x] = "commit" /\ row'[x].stamp = row'[v].stamp => x = v
        BY <1>1, <1>2, <2>1, <2>2, <4>1
      <4> QED
        BY <1>1, <1>2, <2>1, <4>1, <4>2
    <3> QED
      BY <3>1, <3>2
  <2> QED
    BY <2>4, <2>5, <2>6
<1>7. CASE StoreCommits(u)
  <2>1. pc[u] = "commit" /\ pc' = [pc EXCEPT ![u] = "idle"] /\ UNCHANGED <<clock, row>>
    BY <1>7 DEF StoreCommits, Steps
  <2>2. /\ Len(requests') = Len(requests) + 1 /\ requests'[Len(requests) + 1] = row[u]
        /\ \A i \in 1 .. Len(requests) : requests'[i] = requests[i]
        /\ StampsApart(requests') /\ \E m \in 1 .. Len(requests') : Latest(requests', m)
    BY <1>7, CommitAppends DEF Latest
  <2>3. \A i \in 1 .. Len(requests') : i \in 1 .. Len(requests) \/ i = Len(requests) + 1
    BY <1>1, <2>2
  <2>4. \A i \in 1 .. Len(requests') : requests'[i].stamp <= clock'
    BY <1>2, <2>1, <2>2, <2>3
  <2>5. ASSUME NEW v \in Users, pc'[v] = "commit"
        PROVE  /\ row'[v].stamp <= clock'
               /\ \A i \in 1 .. Len(requests') : requests'[i].stamp # row'[v].stamp
               /\ \A x \in Users : pc'[x] = "commit" /\ row'[x].stamp = row'[v].stamp => x = v
    <3>1. v # u /\ pc[v] = "commit" /\ \A x \in Users : pc'[x] = "commit" => pc[x] = "commit"
      BY <1>1, <2>1, <2>5
    <3>2. row[u].stamp # row[v].stamp
      BY <1>2, <2>1, <3>1
    <3> QED
      BY <1>2, <2>1, <2>2, <2>3, <3>1, <3>2
  <2> QED
    BY <2>2, <2>4, <2>5
<1>8. CASE \E w \in Workers, a \in Areas : ToggleReads(u, w, a) \/ AdminSaves(u, w, a)
  BY <1>1, <1>3, <1>8 DEF ToggleReads, AdminSaves, Starts
<1>9. CASE ToggleCommits(u) \/ AdminUnreadies(u)
  <2>1. KeepsRows
    BY <1>9, ToggleKeepsRows, UnreadyKeepsRows
  <2>2. UNCHANGED <<clock, row>> /\ \A v \in Users : pc'[v] = "commit" <=> pc[v] = "commit"
    BY <1>1, <1>9 DEF ToggleCommits, AdminUnreadies, Steps
  <2>3. StampsApart(requests') /\ (requests' = <<>> \/ \E m \in 1 .. Len(requests') : Latest(requests', m))
    <3>1. StampsApart(requests')
      BY <1>2, <2>1 DEF KeepsRows, StampsApart
    <3>2. CASE requests = <<>>
      <4>1. requests' \in Seq(Requests) /\ Len(requests') = 0
        BY <2>1, <3>2 DEF KeepsRows
      <4>2. requests' = <<>>
        BY <4>1
      <4> QED
        BY <3>1, <4>2
    <3>3. CASE requests # <<>>
      <4>1. PICK m \in 1 .. Len(requests) : Latest(requests, m)
        BY <1>2, <3>3
      <4>2. Len(requests') = Len(requests) /\ Latest(requests', m)
        BY <2>1, <4>1 DEF KeepsRows, Latest
      <4> QED
        BY <3>1, <4>2
    <3> QED
      BY <3>1, <3>2, <3>3
  <2>4. Len(requests') = Len(requests) /\ \A i \in 1 .. Len(requests') : requests'[i].stamp = requests[i].stamp
    BY <2>1 DEF KeepsRows
  <2>5. \A i \in 1 .. Len(requests') : requests'[i].stamp <= clock'
    BY <1>2, <2>2, <2>4
  <2>6. \A v \in Users : pc'[v] = "commit" =>
          /\ row'[v].stamp <= clock'
          /\ \A i \in 1 .. Len(requests') : requests'[i].stamp # row'[v].stamp
          /\ \A x \in Users : pc'[x] = "commit" /\ row'[x].stamp = row'[v].stamp => x = v
    BY <1>2, <2>2, <2>4
  <2> QED
    BY <2>3, <2>5, <2>6
<1> QED
  BY <1>0, <1>4, <1>5, <1>6, <1>7, <1>8, <1>9

LEMMA ReadyStep ==
  ASSUME Parameters, IInv, Next
  PROVE  ReadyIsCarried'
<1> USE DEF ReadyIsCarried
<1>0. PICK u \in Users :
        \/ \E w \in Workers, c \in Changes : Load(u, w, c)
        \/ calculate_fails(u) \/ StoreBegins(u) \/ StoreInserts(u) \/ StoreCommits(u)
        \/ \E w \in Workers, a \in Areas : ToggleReads(u, w, a)
        \/ ToggleCommits(u)
        \/ \E w \in Workers, a \in Areas : AdminSaves(u, w, a)
        \/ AdminUnreadies(u) \/ clear_cache_fails(u)
  BY DEF Next
<1>1. /\ pc \in [Users -> Pcs] /\ DOMAIN row = Users /\ previous \in [Users -> 0 .. Len(requests)]
      /\ requests \in Seq(Requests) /\ Len(requests) \in Nat /\ answered \in [Areas -> BOOLEAN]
      /\ \A i \in 1 .. Len(requests) : requests[i].ready \in [Areas -> BOOLEAN]
  <2>1. requests \in Seq(Requests)
    BY DEF IInv, TypeOK
  <2>2. \A i \in 1 .. Len(requests) : requests[i] \in Requests
    BY <2>1
  <2> QED
    BY <2>1, <2>2 DEF IInv, TypeOK, Requests
<1>2. ReadyIsCarried
  BY DEF IInv
<1>3. requests' = requests => LastReady' = LastReady
  BY DEF LastReady, most_recent
<1>4. ASSUME UNCHANGED <<requests, answered, crossed>>,
             \A v \in Users : \/ pc'[v] = pc[v] /\ row'[v] = row[v] /\ previous'[v] = previous[v]
                              \/ pc'[v] \notin {"insert", "commit", "toggle"}
      PROVE  ReadyIsCarried'
  BY <1>2, <1>3, <1>4 DEF ReadyRecords
<1>5. CASE \E w \in Workers, c \in Changes : Load(u, w, c)
  BY <1>1, <1>4, <1>5 DEF Load, Starts
<1>6. CASE calculate_fails(u) \/ clear_cache_fails(u)
  BY <1>1, <1>4, <1>6 DEF calculate_fails, clear_cache_fails, Steps, ghosts
<1>7. CASE \E w \in Workers, a \in Areas : AdminSaves(u, w, a)
  BY <1>1, <1>4, <1>7 DEF AdminSaves, Starts
<1>8. CASE StoreBegins(u)
  <2>1. UNCHANGED <<requests, answered, crossed, row>> /\ pc' = [pc EXCEPT ![u] = "insert"]
        /\ previous' = [previous EXCEPT ![u] = most_recent]
    BY <1>8 DEF StoreBegins, Steps, ghosts
  <2>2. ReadyRecords(u)' = LastReady /\ \A v \in Users \ {u} : ReadyRecords(v)' = ReadyRecords(v)
    BY <1>1, <2>1 DEF ReadyRecords, LastReady
  <2> QED
    BY <1>1, <1>2, <1>3, <2>1, <2>2
<1>9. CASE StoreInserts(u)
  <2>1. UNCHANGED <<requests, answered, crossed, previous>> /\ pc[u] = "insert"
        /\ pc' = [pc EXCEPT ![u] = "commit"] /\ row'[u].ready = ReadyRecords(u)
        /\ \A v \in Users \ {u} : row'[v] = row[v]
    BY <1>1, <1>9 DEF StoreInserts, Steps, ghosts
  <2>2. \A v \in Users : ReadyRecords(v)' = ReadyRecords(v)
    BY <2>1 DEF ReadyRecords
  <2> QED
    BY <1>1, <1>2, <1>3, <2>1, <2>2
<1>10. CASE StoreCommits(u)
  <2>1. UNCHANGED <<answered, crossed, previous, row>> /\ pc[u] = "commit" /\ pc' = [pc EXCEPT ![u] = "idle"]
    BY <1>10 DEF StoreCommits, Steps
  <2>2. LastReady' = LastReady \/ LastReady' = row[u].ready
    BY <1>10, CommitMovesOn
  <2>3. \A v \in Users : ReadyRecords(v)' = ReadyRecords(v)
    <3>1. \A i \in 1 .. Len(requests) : requests'[i] = requests[i]
      BY <1>10, CommitAppends
    <3> QED
      BY <1>1, <2>1, <3>1 DEF ReadyRecords
  <2> QED
    BY <1>1, <1>2, <2>1, <2>2, <2>3
<1>11. CASE \E w \in Workers, a \in Areas : ToggleReads(u, w, a)
  <2>1. UNCHANGED <<requests, answered, crossed>> /\ pc' = [pc EXCEPT ![u] = "toggle"] /\ most_recent # 0
        /\ previous' = [previous EXCEPT ![u] = most_recent]
        /\ \A v \in Users \ {u} : row'[v] = row[v]
    BY <1>1, <1>11 DEF ToggleReads, Starts, ghosts
  <2>2. \A v \in Users \ {u} : ReadyRecords(v)' = ReadyRecords(v)
    BY <1>1, <2>1 DEF ReadyRecords
  <2> QED
    BY <1>1, <1>2, <1>3, <2>1, <2>2
<1>12. CASE ToggleCommits(u)
  <2> DEFINE a == row[u].area
             p == previous[u]
  <2>1. /\ UNCHANGED <<previous, row>> /\ pc[u] = "toggle" /\ pc' = [pc EXCEPT ![u] = "idle"]
        /\ answered' = [answered EXCEPT ![a] = row[u].ready]
        /\ a \notin crossed' => /\ p = most_recent
                                /\ \A v \in Users : pc[v] # "commit" /\ (pc[v] = "insert" => previous[v] = p)
        /\ \A b \in Areas \ crossed' : b = a \/ b \notin crossed
    BY <1>12 DEF ToggleCommits, Answers, Steps
  <2>2. /\ KeepsRows /\ a \in Areas /\ p \in 1 .. Len(requests)
        /\ \A i \in 1 .. Len(requests) :
             requests'[i].ready = IF i = p THEN [requests[i].ready EXCEPT ![a] = row[u].ready]
                                           ELSE requests[i].ready
    BY <1>12, ToggleKeepsRows
  <2>3. most_recent' = most_recent /\ most_recent \in 0 .. Len(requests)
    BY <2>2, KeepsMostRecent, MostRecent
  <2>4. ASSUME NEW b \in Areas \ crossed'
        PROVE  /\ LastReady'[b] = answered'[b]
               /\ \A v \in Users : pc'[v] = "insert" => ReadyRecords(v)'[b] = answered'[b]
               /\ \A v \in Users : pc'[v] = "commit" => row'[v].ready[b] = answered'[b]
    <3>1. CASE b = a
      <4>1. /\ p = most_recent /\ answered'[b] = row[u].ready
            /\ \A v \in Users : pc[v] # "commit" /\ (pc[v] = "insert" => previous[v] = p)
        BY <1>1, <2>1, <2>2, <3>1
      <4>2. requests'[p].ready[b] = row[u].ready
        BY <1>1, <2>2, <3>1
      <4>3. p # 0
        BY <1>1, <2>2
      <4> QED
        BY <1>1, <2>1, <2>3, <4>1, <4>2, <4>3 DEF LastReady, ReadyRecords
    <3>2. CASE b # a
      <4>1. b \notin crossed /\ answered'[b] = answered[b]
        BY <1>1, <2>1, <2>2, <3>2
      <4>2. \A i \in 1 .. Len(requests) : requests'[i].ready[b] = requests[i].ready[b]
        BY <1>1, <2>2, <3>2
      <4>3. LastReady'[b] = LastReady[b]
        <5>1. CASE most_recent = 0
          BY <2>3, <5>1 DEF LastReady, NotReady
        <5>2. CASE most_recent # 0
          <6>1. most_recent \in 1 .. Len(requests)
            BY <1>1, <2>3, <5>2
          <6> QED
            BY <2>3, <4>2, <5>2, <6>1 DEF LastReady
        <5> QED
          BY <5>1, <5>2
      <4>4. ASSUME NEW v \in Users
            PROVE  ReadyRecords(v)'[b] = ReadyRecords(v)[b]
        <5>1. CASE previous[v] = 0
          BY <2>1, <5>1 DEF ReadyRecords, NotReady
        <5>2. CASE previous[v] # 0
          <6>1. previous[v] \in 1 .. Len(requests)
            BY <1>1, <5>2
          <6> QED
            BY <2>1, <4>2, <5>2, <6>1 DEF ReadyRecords
        <5> QED
          BY <5>1, <5>2
      <4> QED
        BY <1>1, <1>2, <2>1, <4>1, <4>3, <4>4
    <3> QED
      BY <3>1, <3>2
  <2>5. \A v \in Users : pc'[v] = "toggle" => previous'[v] # 0
    BY <1>1, <1>2, <2>1
  <2> QED
    BY <2>4, <2>5
<1>13. CASE AdminUnreadies(u)
  <2> DEFINE a == row[u].area
  <2>1. /\ UNCHANGED <<previous, row>> /\ pc[u] = "unready" /\ pc' = [pc EXCEPT ![u] = "idle"]
        /\ answered' = [answered EXCEPT ![a] = FALSE]
        /\ a \notin crossed' => \A v \in Users : pc[v] # "commit"
        /\ \A b \in Areas \ crossed' : b = a \/ b \notin crossed
    BY <1>13 DEF AdminUnreadies, Answers, Steps
  <2>2. /\ KeepsRows /\ a \in Areas
        /\ \A i \in 1 .. Len(requests) : requests'[i].ready = [requests[i].ready EXCEPT ![a] = FALSE]
    BY <1>13, UnreadyKeepsRows
  <2>3. most_recent' = most_recent /\ most_recent \in 0 .. Len(requests)
    BY <2>2, KeepsMostRecent, MostRecent
  <2>4. ASSUME NEW b \in Areas \ crossed'
        PROVE  /\ LastReady'[b] = answered'[b]
               /\ \A v \in Users : pc'[v] = "insert" => ReadyRecords(v)'[b] = answered'[b]
               /\ \A v \in Users : pc'[v] = "commit" => row'[v].ready[b] = answered'[b]
    <3>1. CASE b = a
      <4>1. answered'[b] = FALSE /\ \A v \in Users : pc'[v] # "commit"
        BY <1>1, <2>1, <2>2, <3>1
      <4>2. \A i \in 1 .. Len(requests) : requests'[i].ready[b] = FALSE
        BY <1>1, <2>2, <3>1
      <4>3. NotReady[b] = FALSE
        BY DEF NotReady
      <4>4. LastReady'[b] = FALSE
        BY <1>1, <2>3, <4>2, <4>3 DEF LastReady, NotReady
      <4>5. \A v \in Users : ReadyRecords(v)'[b] = FALSE
        BY <1>1, <2>1, <4>2, <4>3 DEF ReadyRecords, NotReady
      <4> QED
        BY <4>1, <4>4, <4>5
    <3>2. CASE b # a
      <4>1. b \notin crossed /\ answered'[b] = answered[b]
        BY <1>1, <2>1, <2>2, <3>2
      <4>2. \A i \in 1 .. Len(requests) : requests'[i].ready[b] = requests[i].ready[b]
        BY <1>1, <2>2, <3>2
      <4>3. LastReady'[b] = LastReady[b]
        <5>1. CASE most_recent = 0
          BY <2>3, <5>1 DEF LastReady, NotReady
        <5>2. CASE most_recent # 0
          <6>1. most_recent \in 1 .. Len(requests)
            BY <1>1, <2>3, <5>2
          <6> QED
            BY <2>3, <4>2, <5>2, <6>1 DEF LastReady
        <5> QED
          BY <5>1, <5>2
      <4>4. ASSUME NEW v \in Users
            PROVE  ReadyRecords(v)'[b] = ReadyRecords(v)[b]
        <5>1. CASE previous[v] = 0
          BY <2>1, <5>1 DEF ReadyRecords, NotReady
        <5>2. CASE previous[v] # 0
          <6>1. previous[v] \in 1 .. Len(requests)
            BY <1>1, <5>2
          <6> QED
            BY <2>1, <4>2, <5>2, <6>1 DEF ReadyRecords
        <5> QED
          BY <5>1, <5>2
      <4> QED
        BY <1>1, <1>2, <2>1, <4>1, <4>3, <4>4
    <3> QED
      BY <3>1, <3>2
  <2>5. \A v \in Users : pc'[v] = "toggle" => previous'[v] # 0
    BY <1>1, <1>2, <2>1
  <2> QED
    BY <2>4, <2>5
<1> QED
  BY <1>0, <1>5, <1>6, <1>7, <1>8, <1>9, <1>10, <1>11, <1>12, <1>13

LEMMA SettingsStep ==
  ASSUME Parameters, IInv, Next
  PROVE  SettingsAreCarried'
<1>0. PICK u \in Users :
        \/ \E w \in Workers, c \in Changes : Load(u, w, c)
        \/ calculate_fails(u) \/ StoreBegins(u) \/ StoreInserts(u) \/ StoreCommits(u)
        \/ \E w \in Workers, a \in Areas : ToggleReads(u, w, a)
        \/ ToggleCommits(u)
        \/ \E w \in Workers, a \in Areas : AdminSaves(u, w, a)
        \/ AdminUnreadies(u) \/ clear_cache_fails(u)
  BY DEF Next
<1>1. /\ pc \in [Users -> Pcs] /\ DOMAIN row = Users
      /\ request \in [Users -> Settings] /\ change \in [Users -> Changes]
      /\ since \in [Users -> SUBSET Areas] /\ lastSet \in Settings
      /\ \A v \in Users : AreaOf(change[v]) \subseteq Areas
  BY DEF IInv, TypeOK, AreaOf, Changes, Nothing
<1>2. SettingsAreCarried
  BY DEF IInv
<1>3. requests' = requests => LastSettings' = LastSettings
  BY DEF LastSettings, most_recent
\* The handlers that go on keep what they have loaded.
<1>4. ASSUME LastSettings' = LastSettings, UNCHANGED <<lastSet, overwritten>>,
             \A v \in Users :
               \/ /\ change'[v] = change[v] /\ request'[v] = request[v] /\ since'[v] = since[v]
                  /\ pc'[v] \in {"calculate", "insert"} => pc[v] \in {"calculate", "insert"}
                  /\ pc'[v] = "commit" => \/ pc[v] = "commit" /\ row'[v] = row[v]
                                          \/ pc[v] = "insert" /\ row'[v].settings = request[v]
               \/ pc'[v] \notin {"calculate", "insert", "commit"}
      PROVE  SettingsAreCarried'
  BY <1>2, <1>4 DEF SettingsAreCarried, Apply, AreaOf
<1>5. ASSUME NEW w \in Workers, NEW c \in Changes, Load(u, w, c)
      PROVE  SettingsAreCarried'
  <2>1. /\ UNCHANGED <<requests, lastSet, overwritten, row>> /\ pc' = [pc EXCEPT ![u] = "calculate"]
        /\ change' = [change EXCEPT ![u] = c]
        /\ request' = [request EXCEPT ![u] = Apply(LastSettings, c)]
        /\ since' = [since EXCEPT ![u] = {}]
    BY <1>5, PreparedRequest DEF Load, Starts
  <2>2. AreaOf(c) \subseteq Areas /\ LastSettings \in Settings
    BY PreparedRequest DEF AreaOf, Changes, Nothing
  <2>3. \A a \in (Areas \ overwritten) \union AreaOf(c) : Apply(LastSettings, c)[a] = Apply(lastSet, c)[a]
    BY <1>1, <1>2, <2>2 DEF SettingsAreCarried, Apply, AreaOf, Settings, Changes, Nothing
  <2>4. \A v \in Users \ {u} : /\ pc'[v] = pc[v] /\ change'[v] = change[v]
                               /\ request'[v] = request[v] /\ since'[v] = since[v]
    BY <1>1, <2>1
  <2>5. pc'[u] = "calculate" /\ change'[u] = c /\ request'[u] = Apply(LastSettings, c) /\ since'[u] = {}
    BY <1>1, <2>1
  <2>6. \A v \in Users : Apply(lastSet, change[v])' = Apply(lastSet, change'[v])
                         /\ AreaOf(change[v])' = AreaOf(change'[v])
    BY <2>1 DEF Apply, AreaOf
  <2> QED
    BY <1>2, <1>3, <2>1, <2>3, <2>4, <2>5, <2>6 DEF SettingsAreCarried
<1>6. CASE calculate_fails(u) \/ clear_cache_fails(u)
  BY <1>1, <1>3, <1>4, <1>6 DEF calculate_fails, clear_cache_fails, Steps, ghosts
<1>7. CASE StoreBegins(u)
  BY <1>1, <1>3, <1>4, <1>7 DEF StoreBegins, Steps, ghosts
<1>8. CASE StoreInserts(u)
  BY <1>1, <1>3, <1>4, <1>8 DEF StoreInserts, Steps, ghosts
<1>9. CASE \E w \in Workers, a \in Areas : ToggleReads(u, w, a) \/ AdminSaves(u, w, a)
  BY <1>1, <1>3, <1>4, <1>9 DEF ToggleReads, AdminSaves, Starts, ghosts
<1>10. CASE ToggleCommits(u) \/ AdminUnreadies(u)
  <2>1. LastSettings' = LastSettings
    BY <1>10, ToggleKeepsRows, UnreadyKeepsRows, KeepsMostRecent
  <2> QED
    BY <1>1, <1>4, <1>10, <2>1 DEF ToggleCommits, AdminUnreadies, Steps
<1>11. CASE StoreCommits(u)
  <2> DEFINE mine == AreaOf(change[u])
  <2>1. /\ pc[u] = "commit" /\ pc' = [pc EXCEPT ![u] = "idle"] /\ UNCHANGED <<change, request, row>>
        /\ lastSet' = Apply(lastSet, change[u])
        /\ \A v \in Users \ {u} : since'[v] = since[v] \union mine
        /\ overwritten' = IF Late(u) THEN overwritten \union mine ELSE (overwritten \union since[u]) \ mine
    BY <1>11 DEF StoreCommits, Steps, Late
  <2>2. \A a \in Areas \ mine : lastSet'[a] = lastSet[a]
    BY <1>1, <2>1 DEF Apply, AreaOf, Settings, Changes, Nothing
  <2>3. ASSUME NEW a \in Areas \ overwritten'
        PROVE  LastSettings'[a] = lastSet'[a]
    <3>1. CASE Late(u)
      <4>1. LastSettings' = LastSettings /\ a \notin mine /\ a \notin overwritten
        BY <1>11, <2>1, <3>1, CommitMovesOn
      <4> QED
        BY <1>2, <2>2, <4>1 DEF SettingsAreCarried
    <3>2. CASE ~Late(u)
      <4>1. LastSettings' = request[u]
        BY <1>2, <1>11, <2>1, <3>2, CommitMovesOn DEF SettingsAreCarried
      <4>2. a \in (Areas \ (overwritten \union since[u])) \union mine
        BY <2>1, <3>2
      <4>3. request[u][a] = Apply(lastSet, change[u])[a]
        BY <1>2, <2>1, <4>2 DEF SettingsAreCarried
      <4> QED
        BY <2>1, <4>1, <4>3
    <3> QED
      BY <3>1, <3>2
  <2>4. ASSUME NEW v \in Users, pc'[v] \in {"calculate", "insert", "commit"},
               NEW a \in (Areas \ (overwritten' \union since'[v])) \union AreaOf(change[v])
        PROVE  request[v][a] = Apply(lastSet', change[v])[a]
    <3>1. v # u /\ pc[v] = pc'[v]
      BY <1>1, <2>1, <2>4
    <3>2. CASE a \in AreaOf(change[v])
      <4>1. request[v][a] = Apply(lastSet, change[v])[a]
        BY <1>2, <2>4, <3>1, <3>2 DEF SettingsAreCarried
      <4>2. lastSet' \in Settings
        BY <1>1, <2>1, ApplyType
      <4>3. Apply(lastSet', change[v])[a] = Apply(lastSet, change[v])[a]
        BY <1>1, <3>2, <4>2 DEF Apply, AreaOf, Settings, Changes, Nothing
      <4> QED
        BY <4>1, <4>3
    <3>3. CASE a \notin AreaOf(change[v])
      <4>1. a \in Areas /\ a \notin mine /\ a \notin overwritten /\ a \notin since[v]
        BY <2>1, <2>4, <3>1, <3>3
      <4>2. request[v][a] = Apply(lastSet, change[v])[a]
        BY <1>2, <2>4, <3>1, <4>1 DEF SettingsAreCarried
      <4>3. lastSet' \in Settings /\ lastSet'[a] = lastSet[a]
        BY <1>1, <2>1, <2>2, <4>1, ApplyType
      <4>4. Apply(lastSet', change[v])[a] = Apply(lastSet, change[v])[a]
        BY <1>1, <3>3, <4>1, <4>3 DEF Apply, AreaOf, Settings, Changes, Nothing
      <4> QED
        BY <4>2, <4>4
    <3> QED
      BY <3>2, <3>3
  <2>5. \A v \in Users : pc'[v] = "commit" => row[v].settings = request[v]
    BY <1>1, <1>2, <2>1 DEF SettingsAreCarried
  <2>6. \A v \in Users : Apply(lastSet, change[v])' = Apply(lastSet', change[v])
                         /\ AreaOf(change[v])' = AreaOf(change[v])
    BY <2>1 DEF Apply, AreaOf
  <2> HIDE DEF mine
  <2> QED
    BY <2>1, <2>3, <2>4, <2>5, <2>6 DEF SettingsAreCarried
<1> QED
  BY <1>0, <1>5, <1>6, <1>7, <1>8, <1>9, <1>10, <1>11

LEMMA ChangesStep ==
  ASSUME IInv, Next
  PROVE  ChangesAreAnswered'
<1> USE DEF ChangesAreAnswered
<1>0. PICK u \in Users :
        \/ \E w \in Workers, c \in Changes : Load(u, w, c)
        \/ calculate_fails(u) \/ StoreBegins(u) \/ StoreInserts(u) \/ StoreCommits(u)
        \/ \E w \in Workers, a \in Areas : ToggleReads(u, w, a)
        \/ ToggleCommits(u)
        \/ \E w \in Workers, a \in Areas : AdminSaves(u, w, a)
        \/ AdminUnreadies(u) \/ clear_cache_fails(u)
  BY DEF Next
<1>1. /\ pc \in [Users -> Pcs] /\ DOMAIN row = Users
      /\ answered \in [Areas -> BOOLEAN] /\ changed \subseteq Areas
  BY DEF IInv, TypeOK
<1>2. ChangesAreAnswered
  BY DEF IInv
<1>3. ASSUME UNCHANGED <<changed, answered, uncleared>>,
             \A v \in Users : pc[v] = "unready" => pc'[v] = "unready" /\ row'[v] = row[v]
      PROVE  ChangesAreAnswered'
  BY <1>2, <1>3
<1>4. CASE \E w \in Workers, c \in Changes : Load(u, w, c)
  BY <1>1, <1>3, <1>4 DEF Load, Starts
<1>5. CASE calculate_fails(u) \/ StoreBegins(u) \/ StoreCommits(u)
  BY <1>1, <1>3, <1>5 DEF calculate_fails, StoreBegins, StoreCommits, Steps, ghosts
<1>6. CASE StoreInserts(u)
  BY <1>1, <1>3, <1>6 DEF StoreInserts, Steps, ghosts
<1>7. CASE \E w \in Workers, a \in Areas : ToggleReads(u, w, a)
  BY <1>1, <1>3, <1>7 DEF ToggleReads, Starts, ghosts
<1>8. CASE ToggleCommits(u)
  <2>1. /\ UNCHANGED row /\ changed' = changed \ {row[u].area} /\ uncleared' = uncleared \ {row[u].area}
        /\ answered' = [answered EXCEPT ![row[u].area] = row[u].ready]
    BY <1>8 DEF ToggleCommits, Answers
  <2>2. \A v \in Users : pc[v] = "unready" => pc'[v] = "unready"
    BY <1>1, <1>8 DEF ToggleCommits, Steps
  <2> QED
    BY <1>1, <1>2, <2>1, <2>2
<1>9. ASSUME NEW w \in Workers, NEW a \in Areas, AdminSaves(u, w, a)
      PROVE  ChangesAreAnswered'
  <2>1. /\ UNCHANGED <<answered, uncleared>> /\ changed' = changed \union {a}
        /\ pc'[u] = "unready" /\ row'[u].area = a
        /\ \A v \in Users : pc[v] = "unready" => pc'[v] = "unready" /\ row'[v] = row[v]
    BY <1>1, <1>9 DEF AdminSaves, Starts
  <2> QED
    BY <1>2, <2>1
<1>10. CASE AdminUnreadies(u)
  <2>1. /\ UNCHANGED <<row, changed>> /\ uncleared' = uncleared \ {row[u].area}
        /\ answered' = [answered EXCEPT ![row[u].area] = FALSE]
    BY <1>10 DEF AdminUnreadies, Answers
  <2>2. \A v \in Users \ {u} : pc[v] = "unready" => pc'[v] = "unready"
    BY <1>1, <1>10 DEF AdminUnreadies, Steps
  <2> QED
    BY <1>1, <1>2, <2>1, <2>2
<1>11. CASE clear_cache_fails(u)
  <2>1. UNCHANGED <<row, changed, answered>> /\ uncleared' = uncleared \union {row[u].area}
    BY <1>11 DEF clear_cache_fails
  <2>2. \A v \in Users \ {u} : pc[v] = "unready" => pc'[v] = "unready"
    BY <1>1, <1>11 DEF clear_cache_fails, Steps
  <2> QED
    BY <1>2, <2>1, <2>2
<1> QED
  BY <1>0, <1>4, <1>5, <1>6, <1>7, <1>8, <1>9, <1>10, <1>11
-----------------------------------------------------------------------------
LEMMA Stutter ==
  ASSUME IInv, UNCHANGED vars
  PROVE  IInv'
<1> USE DEF vars, handlers, counts, ghosts
<1>1. TypeOK' /\ ChangesAreAnswered'
  BY DEF IInv, TypeOK, ChangesAreAnswered
<1>2. StampsAreTaken'
  BY DEF IInv, StampsAreTaken, StampsApart, Latest
<1>3. LastReady' = LastReady /\ LastSettings' = LastSettings
  BY DEF LastReady, LastSettings, most_recent
<1>4. ReadyIsCarried'
  BY <1>3 DEF IInv, ReadyIsCarried, ReadyRecords
<1>5. SettingsAreCarried'
  BY <1>3 DEF IInv, SettingsAreCarried, Apply, AreaOf
<1> QED
  BY <1>1, <1>2, <1>4, <1>5 DEF IInv

(* The handlers keep the invariant, on whatever workers they run.          *)
THEOREM Invariant ==
  ASSUME Parameters
  PROVE  Spec => []IInv
<1>1. Init => IInv
  BY InitIInv
<1>2. IInv /\ [Next]_vars => IInv'
  <2>1. IInv /\ Next => IInv'
    BY TypeStep, StampsStep, ReadyStep, SettingsStep, ChangesStep DEF IInv
  <2> QED
    BY <2>1, Stutter
<1> QED
  BY <1>1, <1>2, PTL DEF Spec

(* The rows, the handlers and the ghosts keep their types.                 *)
THEOREM TypeCorrect ==
  ASSUME Parameters
  PROVE  Spec => []TypeOK
<1>1. IInv => TypeOK
  BY DEF IInv
<1> QED
  BY <1>1, Invariant, PTL

(* Whatever processes the handlers run on and however they overlap, a ready*)
(* state or a setting is lost only to a store that crosses with it.        *)
THEOREM LostOnlyToCrossingStores ==
  ASSUME Parameters
  PROVE  Spec => []NothingIsLost
<1>1. IInv => NothingIsLost
  BY DEF NothingIsLost, ReadyIsAsAnswered, NoSettingIsLost, IInv, ReadyIsCarried, LastReady,
         SettingsAreCarried, LastSettings
<1> QED
  BY <1>1, Invariant, PTL

(* An area whose stations an admin changed is not ready until it is toggled*)
(* again, unless clearing the cache failed for it or a store crossed.      *)
THEOREM ChangedAreasLoseReadiness ==
  ASSUME Parameters
  PROVE  Spec => []ClearedAreasAreNotReady
<1>1. IInv => ClearedAreasAreNotReady
  <2> SUFFICES ASSUME IInv, NEW a \in changed \ (uncleared \union crossed)
               PROVE  \/ \E u \in Users : pc[u] = "unready" /\ row[u].area = a
                      \/ most_recent # 0 => ~requests[most_recent].ready[a]
    BY DEF ClearedAreasAreNotReady
  <2>1. a \in Areas \ crossed
    BY DEF IInv, TypeOK
  <2>2. LastReady[a] = answered[a]
    BY <2>1 DEF IInv, ReadyIsCarried
  <2> QED
    BY <2>2 DEF LastReady, IInv, ChangesAreAnswered
<1> QED
  BY <1>1, Invariant, PTL

-----------------------------------------------------------------------------
(* The components have no variable in common: a step of one leaves those of*)
(* the others as they are.                                                 *)
servicesVars == <<notAsked, api, jobsVars>>

LEMMA RequestsImplement == ServicesSpec => Spec
<1>1. ServicesInit => Init
  BY DEF ServicesInit
<1>2. [ServicesNext]_servicesVars => [Next]_vars
  BY DEF ServicesNext, servicesVars, api
<1> QED
  BY <1>1, <1>2, PTL DEF ServicesSpec, Spec, servicesVars

LEMMA AdminImplements == ServicesSpec => Admin!Spec
<1>1. ServicesInit => Admin!Init
  BY DEF ServicesInit
<1>2. [ServicesNext]_servicesVars => [Admin!Next]_Admin!vars
  BY DEF ServicesNext, servicesVars, api, adminVars, Admin!vars
<1> QED
  BY <1>1, <1>2, PTL DEF ServicesSpec, Admin!Spec, servicesVars

LEMMA MorecastImplements == ServicesSpec => Morecast!Spec
<1>1. ServicesInit => Morecast!Init
  BY DEF ServicesInit
<1>2. [ServicesNext]_servicesVars => [Morecast!Next]_Morecast!vars
  BY DEF ServicesNext, servicesVars, api, morecastVars,
         Morecast!vars, Morecast!locals, Morecast!counts, Morecast!ghosts
<1> QED
  BY <1>1, <1>2, PTL DEF ServicesSpec, Morecast!Spec, servicesVars

LEMMA NoaaImplements == ServicesSpec => Noaa!Spec
<1>1. ServicesInit => Noaa!Init
  BY DEF ServicesInit, JobsInit
<1>2. [ServicesNext]_servicesVars => [Noaa!Next]_Noaa!vars
  BY DEF ServicesNext, servicesVars, jobsVars, noaaVars, Noaa!vars
<1> QED
  BY <1>1, <1>2, PTL DEF ServicesSpec, Noaa!Spec, servicesVars

LEMMA NamImplements == ServicesSpec => Nam!Spec
<1>1. ServicesInit => Nam!Init
  BY DEF ServicesInit, JobsInit
<1>2. [ServicesNext]_servicesVars => [Nam!Next]_Nam!vars
  BY DEF ServicesNext, servicesVars, jobsVars, namVars,
         Nam!vars, Nam!world, Nam!tables, Nam!job
<1> QED
  BY <1>1, <1>2, PTL DEF ServicesSpec, Nam!Spec, servicesVars

LEMMA RdpsImplements == ServicesSpec => Rdps!Spec
<1>1. ServicesInit => Rdps!Init
  BY DEF ServicesInit, JobsInit
<1>2. [ServicesNext]_servicesVars => [Rdps!Next]_Rdps!vars
  BY DEF ServicesNext, servicesVars, jobsVars, rdpsVars,
         Rdps!vars, Rdps!jobVars, Rdps!bounds
<1> QED
  BY <1>1, <1>2, PTL DEF ServicesSpec, Rdps!Spec, servicesVars

LEMMA ReadingsImplements == ServicesSpec => Actuals!Spec
<1>1. ServicesInit => Actuals!Init
  BY DEF ServicesInit, JobsInit
<1>2. [ServicesNext]_servicesVars => [Actuals!Next]_Actuals!vars
  BY DEF ServicesNext, servicesVars, jobsVars, readingsVars, Actuals!vars
<1> QED
  BY <1>1, <1>2, PTL DEF ServicesSpec, Actuals!Spec, servicesVars

LEMMA TopicsAreKnown == ServicesSpec => [](topic \in AllTopics)
<1>1. ServicesInit => topic \in AllTopics
  BY DEF ServicesInit
<1>2. topic \in AllTopics /\ [ServicesNext]_servicesVars => (topic \in AllTopics)'
  <2>1. UNCHANGED servicesVars => topic' = topic
    BY DEF servicesVars, notAsked
  <2>2. ServicesNext => topic' = topic
    BY DEF ServicesNext, notAsked, Ask
  <2> QED
    BY <2>1, <2>2 DEF AllTopics
<1> QED
  BY <1>1, <1>2, PTL DEF ServicesSpec, servicesVars

-----------------------------------------------------------------------------
(* What is asked is one of the questions of the topic, and stays.          *)
AskedOfTopic == asked # None => asked \in Questions(topic)

LEMMA QuestionsAreAsked == asked = None /\ [][Ask]_<<topic, asked>> => []AskedOfTopic
<1>1. asked = None => AskedOfTopic
  BY DEF AskedOfTopic
<1>2. AskedOfTopic /\ [Ask]_<<topic, asked>> => AskedOfTopic'
  BY DEF AskedOfTopic, Ask
<1> QED
  BY <1>1, <1>2, PTL

LEMMA BehaviourIsAsked ==
  ASSUME About("behaviour"), AskedOfTopic
  PROVE  asked.fuel \in Hfi!FuelTypeEnum /\ asked.x \in Fuels
<1>1. Questions("behaviour") = BehaviourQuestions
  BY DEF Questions
<1>2. asked \in BehaviourQuestions
  BY <1>1 DEF About, AskedOfTopic
<1> QED
  BY <1>2 DEF BehaviourQuestions

LEMMA StationsAreAsked ==
  ASSUME About("stations"), AskedOfTopic
  PROVE  asked.wf1 \in Wf1
<1>1. Questions("stations") = StationQuestions
  BY DEF Questions
<1>2. asked \in StationQuestions
  BY <1>1 DEF About, AskedOfTopic
<1> QED
  BY <1>2 DEF StationQuestions

(* So it is for the questions of the topics.                               *)
THEOREM BehaviourOfQuestions ==
  ASSUME Apart
  PROVE  asked = None /\ [][Ask]_<<topic, asked>> => []BehaviourIsWhole
<1>1. AskedOfTopic => BehaviourIsWhole
  <2> SUFFICES ASSUME AskedOfTopic PROVE BehaviourIsWhole
    OBVIOUS
  <2>1. ASSUME About("behaviour") PROVE Hfi!PredictionIsWhole(asked.fuel, asked.x)
    <3>1. asked.fuel \in Hfi!FuelTypeEnum /\ asked.x \in Fuels
      BY <2>1, BehaviourIsAsked
    <3>2. Fuels \subseteq FuelInputs(asked.fuel)
      BY AreNumbers DEF Fuels, FuelInputs, Maybe, MaybeNumber, Num, Hfi!Num
    <3> QED
      BY <3>1, <3>2, PredictionsAreWhole
  <2>2. ASSUME About("stations")
        PROVE  Hfi!StationsAnswerForThemselves(<<asked.request, OtherRequest>>, <<asked.wf1, OtherWf1>>)
    <3> DEFINE wf1s == <<asked.wf1, OtherWf1>>
               asks == <<asked.request, OtherRequest>>
               Ok(w) == None \notin {w.daily, w.hourlies} =>
                          /\ w.cfbR \in Int /\ w.hfiR \in Int
                          /\ w.daily.type \notin {"N/A", "ERROR"}
                          /\ None \notin AdvisoriesOf({w.critical})
    <3>1. \A c \in Maybe : None \notin AdvisoriesOf({c})
      BY DEF Apart, AdvisoriesOf, Maybe, MaybeNumber, Num, Hfi!Num
    <3>2. Ok(asked.wf1)
      <4>1. asked.wf1 \in Wf1
        BY <2>2, StationsAreAsked
      <4> QED
        BY <3>1, <4>1 DEF Wf1, Wf1Dailies
    <3>3. Ok(OtherWf1)
      BY <3>1 DEF OtherWf1, Maybe
    <3>4. DOMAIN wf1s = {1, 2} /\ wf1s[1] = asked.wf1 /\ wf1s[2] = OtherWf1
      OBVIOUS
    <3> HIDE DEF wf1s, asks
    <3>5. \A s \in DOMAIN wf1s : Ok(wf1s[s])
      BY <3>2, <3>3, <3>4
    <3>6. Hfi!StationsAnswerForThemselves(asks, wf1s)
      BY <3>5, StationsAreAnswered
    <3> QED
      BY <3>6 DEF wf1s, asks
  <2> QED
    BY <2>1, <2>2 DEF BehaviourIsWhole
<1> QED
  BY <1>1, QuestionsAreAsked, PTL

(* No reading, row or pair of the questions is None.                       *)
BiasApart ==
  /\ JobFails # None
  /\ None \notin [at : Int, value : MaybeNumber, valid : BOOLEAN, precipitation : MaybeNumber]
  /\ None \notin [model : {"GDPS", "RDPS"}, run : Int, at : Int, value : MaybeNumber, precip_24h : MaybeNumber]
  /\ None \notin (SUBSET [at : Int, x : MaybeNumber, y : MaybeNumber]) \X MaybeNumber

LEMMA BiasIsAsked ==
  ASSUME About("bias"), AskedOfTopic
  PROVE  /\ DOMAIN asked.kinds = {18, 20, 21}
         /\ DOMAIN asked.values = {<<0, 18>>, <<12, 18>>, <<0, 21>>, <<12, 21>>, <<12, 44>>}
         /\ \A k \in DOMAIN asked.values : asked.values[k] \in {Absent, None, 5}
<1>1. Questions("bias") = BiasQuestions
  BY DEF Questions
<1>2. asked \in BiasQuestions
  BY <1>1 DEF About, AskedOfTopic
<1> QED
  BY <1>2 DEF BiasQuestions

(* The rows of a question have the unique constraints of their tables.     *)
LEMMA QuestionIsKeyed ==
  ASSUME About("bias"), AskedOfTopic, BiasApart
  PROVE  /\ Keyed(Readings(asked.kinds), ModelRows(asked.values))
         /\ Distinguished(Readings(asked.kinds), ModelRows(asked.values))
<1> DEFINE hours == {x \in DOMAIN asked.kinds : asked.kinds[x] # "none"}
           reading(t) == [at |-> t, value |-> IF asked.kinds[t] = "missing" THEN None ELSE 7,
                          valid |-> asked.kinds[t] # "invalid",
                          precipitation |-> IF asked.kinds[t] = "missing" THEN None ELSE 2]
           keys == {x \in DOMAIN asked.values : asked.values[x] # Absent}
           gdpsRow(k) == [model |-> "GDPS", run |-> k[1], at |-> k[2],
                      value |-> asked.values[k], precip_24h |-> asked.values[k]]
           readings == Readings(asked.kinds)
           gdps == {gdpsRow(k) : k \in keys}
           rdps == {[model |-> "RDPS", run |-> 6, at |-> 20, value |-> 1, precip_24h |-> 1]}
           modelRows == ModelRows(asked.values)
<1>1. readings = {reading(t) : t \in hours} /\ modelRows = gdps \union rdps
  BY DEF Readings, ModelRows
<1>2. hours \in SUBSET {18, 20, 21} /\ \A t \in hours : t \in Int
  BY BiasIsAsked
<1>3. /\ keys \in SUBSET {<<0, 18>>, <<12, 18>>, <<0, 21>>, <<12, 21>>, <<12, 44>>}
      /\ \A k \in keys : k = <<k[1], k[2]>> /\ k[1] \in Int /\ k[2] \in Int /\ asked.values[k] \in MaybeNumber
  BY BiasIsAsked DEF MaybeNumber
<1> HIDE DEF hours, keys
<1>4. IsFiniteSet(readings)
  <2> DEFINE f == [t \in hours |-> reading(t)]
  <2>1. f \in Surjection(hours, readings)
    BY <1>1 DEF Surjection
  <2>2. IsFiniteSet(hours)
    <3>1. hours \in SUBSET (18 .. 21) /\ 18 \in Int /\ 21 \in Int
      BY <1>2
    <3>2. IsFiniteSet(18 .. 21)
      BY <3>1, FS_Interval, Zenon
    <3> QED
      BY <3>1, <3>2, FS_Subset
  <2> HIDE DEF f, readings
  <2> QED
    BY <2>1, <2>2, FS_Surjection
<1>5. IsFiniteSet(modelRows)
  <2> DEFINE f == [k \in keys |-> gdpsRow(k)]
  <2>1. f \in Surjection(keys, gdps)
    BY DEF Surjection
  <2>2. IsFiniteSet(keys)
    <3>4. 0 \in Int /\ 12 \in Int /\ 18 \in Int /\ 44 \in Int
      OBVIOUS
    <3>1. IsFiniteSet(0 .. 12) /\ IsFiniteSet(18 .. 44)
      BY <3>4, FS_Interval, Zenon
    <3>2. IsFiniteSet((0 .. 12) \X (18 .. 44))
      BY <3>1, FS_Product
    <3>3. keys \in SUBSET ((0 .. 12) \X (18 .. 44))
      BY <1>3
    <3> QED
      BY <3>2, <3>3, FS_Subset
  <2> HIDE DEF f, gdps
  <2>3. IsFiniteSet(gdps)
    BY <2>1, <2>2, FS_Surjection
  <2>4. IsFiniteSet(rdps)
    BY FS_Singleton
  <2> HIDE DEF rdps, modelRows
  <2> QED
    BY <1>1, <2>3, <2>4, FS_Union
<1>6. \A a \in readings : /\ a.at \in Int /\ a.value \in MaybeNumber /\ a.valid \in BOOLEAN
                         /\ a \in [at : Int, value : MaybeNumber, valid : BOOLEAN, precipitation : MaybeNumber]
  <2>1. ASSUME NEW t \in hours
        PROVE  reading(t) \in [at : Int, value : MaybeNumber, valid : BOOLEAN, precipitation : MaybeNumber]
    <3> DEFINE missing == asked.kinds[t] = "missing"
               valid == asked.kinds[t] # "invalid"
    <3>1. valid \in BOOLEAN /\ t \in Int
      BY <1>2
    <3>2. (IF missing THEN None ELSE 7) \in MaybeNumber /\ (IF missing THEN None ELSE 2) \in MaybeNumber
      BY DEF MaybeNumber
    <3> HIDE DEF missing, valid
    <3>3. [at |-> t, value |-> IF missing THEN None ELSE 7, valid |-> valid,
           precipitation |-> IF missing THEN None ELSE 2]
            \in [at : Int, value : MaybeNumber, valid : BOOLEAN, precipitation : MaybeNumber]
      BY <3>1, <3>2
    <3> QED
      BY <3>3 DEF missing, valid
  <2> HIDE DEF reading
  <2> QED
    BY <1>1, <2>1
<1>7. \A p \in modelRows : /\ p.at \in Int /\ p.run \in Int /\ p.value \in MaybeNumber
        /\ p \in [model : {"GDPS", "RDPS"}, run : Int, at : Int, value : MaybeNumber, precip_24h : MaybeNumber]
  BY <1>1, <1>3 DEF MaybeNumber
<1>8. \A a, b \in readings : a.at = b.at => a = b
  BY <1>1
<1>9. \A p, q \in modelRows : p.model = q.model /\ p.run = q.run /\ p.at = q.at => p = q
  BY <1>1, <1>3
<1> HIDE DEF readings, modelRows
<1>10. Keyed(readings, modelRows)
  BY <1>4, <1>5, <1>6, <1>7, <1>8, <1>9 DEF BiasApart, Keyed
<1>11. Distinguished(readings, modelRows)
  <2>1. {SampleOf(e) : e \in readings \X modelRows} \in SUBSET [at : Int, x : MaybeNumber, y : MaybeNumber]
    BY <1>6, <1>7 DEF SampleOf
  <2>2. {p.value : p \in modelRows} \in SUBSET MaybeNumber
    BY <1>7
  <2>3. PairsOf(readings, modelRows)
          \in SUBSET ((SUBSET [at : Int, x : MaybeNumber, y : MaybeNumber]) \X MaybeNumber)
    BY <2>1, <2>2 DEF PairsOf
  <2> QED
    BY <2>3 DEF BiasApart, Distinguished
<1> QED
  BY <1>10, <1>11 DEF readings, modelRows

(* So it is for the questions of the topics.                               *)
THEOREM BiasOfQuestions ==
  ASSUME BiasApart
  PROVE  asked = None /\ [][Ask]_<<topic, asked>> => []LearnedOnce
<1>1. AskedOfTopic => LearnedOnce
  BY QuestionIsKeyed, LearningIsOnce DEF LearnedOnce
<1> QED
  BY <1>1, QuestionsAreAsked, PTL

(* No row of an area is None, and no run has it for its id.                *)
AdvisoryApart ==
  None \notin Int \union [shape : Int, run : Int, threshold : Int, area : Int]

(* Two pixels are a zone, and the questions are about zones.               *)
LEMMA TwoPixels ==
  ASSUME NEW p, IsPixel(p), NEW q, IsPixel(q)
  PROVE  IsZone(<<p, q>>)
<1>1. \A i \in DOMAIN <<p, q>> : <<p, q>>[i] = p \/ <<p, q>>[i] = q
  OBVIOUS
<1>2. p \in {<<p, q>>[i] : i \in DOMAIN <<p, q>>} /\ q \in {<<p, q>>[i] : i \in DOMAIN <<p, q>>}
  OBVIOUS
<1>3. <<p, q>> \in Seq({<<p, q>>[i] : i \in DOMAIN <<p, q>>})
  BY <1>2
<1> QED
  BY <1>1, <1>3 DEF IsZone

LEMMA RasterIsAsked ==
  ASSUME About("raster"), AskedOfTopic
  PROVE  IsZone(asked.zone) /\ IsAge(asked.snow)
<1>1. Questions("raster") = RasterQuestions
  BY DEF Questions
<1>2. asked \in RasterQuestions
  BY <1>1 DEF About, AskedOfTopic
<1>3. asked.snow \in {None, 7, 8} /\ \E p, q \in Pixels : asked.zone = <<p, q>>
  BY <1>2 DEF RasterQuestions
<1>4. \A p \in Pixels : IsPixel(p)
  BY DEF Pixels, IsPixel
<1> QED
  BY <1>3, <1>4, TwoPixels DEF IsAge

LEMMA AdvisoryIsAsked ==
  ASSUME About("advisories"), AskedOfTopic
  PROVE  IsZone(asked.zones[1]) /\ IsZone(asked.zones[2]) /\ IsAge(asked.snow)
<1>1. Questions("advisories") = AdvisoryQuestions
  BY DEF Questions
<1>2. asked \in AdvisoryQuestions
  BY <1>1 DEF About, AskedOfTopic
<1>3. /\ asked.snow \in {None, 7}
      /\ \A i \in 1 .. 2 : \E p, q \in ZonePixels : asked.zones[i] = <<p, q>>
  BY <1>2 DEF AdvisoryQuestions
<1>4. \A p \in ZonePixels : IsPixel(p)
  BY DEF ZonePixels, IsPixel
<1>5. \A i \in 1 .. 2 : IsZone(asked.zones[i])
  BY <1>3, <1>4, TwoPixels
<1> QED
  BY <1>3, <1>5 DEF IsAge

(* What the tables of a question have, whatever its zones.                 *)
AdvisoryRun(i) == [id |-> i, run_type |-> "forecast", run_datetime |-> i, for_date |-> 1]

(* The row of a run is stored once.                                        *)
LEMMA RunIsStoredOnce ==
  ASSUME AdvisoryApart, NEW db, \A r \in db.run_parameters : r = AdvisoryRun(r.id), NEW j \in Int
  PROVE  Advisories!save_run_parameters(db, j, "forecast", j, 1)
           = IF AdvisoryRun(j) \in db.run_parameters THEN db
             ELSE [db EXCEPT !.run_parameters = @ \union {AdvisoryRun(j)}]
<1> DEFINE its == {r \in db.run_parameters : r.run_type = "forecast" /\ r.run_datetime = j /\ r.for_date = 1}
<1>1. its = IF AdvisoryRun(j) \in db.run_parameters THEN {AdvisoryRun(j)} ELSE {}
  BY DEF AdvisoryRun
<1>2. AdvisoryRun(j).id = j /\ j # None
  BY DEF AdvisoryRun, AdvisoryApart
<1> HIDE DEF its
<1>3. Advisories!get_run_parameters_id(db, "forecast", j, 1) # None <=> AdvisoryRun(j) \in db.run_parameters
  BY <1>1, <1>2 DEF Advisories!get_run_parameters_id, its
<1> QED
  BY <1>3 DEF Advisories!save_run_parameters, AdvisoryRun

(* Rows that are stored for a run have it in a column, and areas are numbers. *)
LEMMA RowsHaveTheirRun ==
  ASSUME NEW zones, \A z \in DOMAIN zones : z \in Int /\ IsZone(zones[z]), NEW snow, IsAge(snow), NEW run \in Int
  PROVE  /\ \A h \in Advisories!HighHfiRows(zones, snow, run) :
              h.run = run /\ h \in [shape : Int, run : Int, threshold : Int, area : Int]
         /\ \A r \in Advisories!TpiRows(zones, snow, run) : r.run = run
<1> DEFINE of(z) == {[shape |-> z, run |-> run, threshold |-> r.threshold, area |-> r.area] :
                       r \in Advisories!calculate_high_hfi_areas(zones[z], snow)}
<1>1. Advisories!HighHfiRows(zones, snow, run) = UNION {of(z) : z \in DOMAIN zones}
  BY DEF Advisories!HighHfiRows
<1>2. ASSUME NEW z \in DOMAIN zones, NEW r \in Advisories!calculate_high_hfi_areas(zones[z], snow)
      PROVE  r.threshold \in Int /\ r.area \in Int
  <2> DEFINE pixels(t) == {i \in Advisories!ClassifiedPixels(zones[z], snow) :
                             Advisories!get_threshold_from_hfi(zones[z][i], snow) = t}
  <2> DEFINE classes == {Advisories!get_threshold_from_hfi(zones[z][i], snow) :
                           i \in Advisories!ClassifiedPixels(zones[z], snow)}
  <2>5. Advisories!calculate_high_hfi_areas(zones[z], snow)
          = {[threshold |-> t, area |-> Cardinality(pixels(t))] : t \in classes}
    BY CardinalityOfPixels DEF Advisories!calculate_high_hfi_areas
  <2>6. \A t \in classes : \E i \in DOMAIN zones[z] : t = Advisories!get_threshold_from_hfi(zones[z][i], snow)
    BY DEF Advisories!ClassifiedPixels
  <2>1. PICK i \in DOMAIN zones[z] :
          /\ r.threshold = Advisories!get_threshold_from_hfi(zones[z][i], snow)
          /\ r.area = Cardinality(pixels(r.threshold))
    <3> HIDE DEF pixels, classes
    <3> QED
      BY <2>5, <2>6
  <2>2. pixels(r.threshold) \in SUBSET DOMAIN zones[z]
    BY DEF Advisories!ClassifiedPixels
  <2> HIDE DEF pixels
  <2>3. Cardinality(pixels(r.threshold)) \in Nat
    BY <2>2, PixelsAreFinite
  <2>4. Advisories!MaskedHfi(zones[z][i], snow) \in 0 .. 2
    BY <2>1, ClassesOfPixels DEF IsZone
  <2> QED
    BY <2>1, <2>3, <2>4 DEF Advisories!get_threshold_from_hfi
<1>3. ASSUME NEW z \in DOMAIN zones, NEW h \in of(z)
      PROVE  h.run = run /\ h \in [shape : Int, run : Int, threshold : Int, area : Int]
  BY <1>2
<1>4. \A r \in Advisories!TpiRows(zones, snow, run) : r.run = run
  BY DEF Advisories!TpiRows
<1> HIDE DEF of
<1> QED
  BY <1>1, <1>3, <1>4

(* The tables of a question have what the theorems ask of them.            *)
LEMMA TablesOfTheQuestion ==
  ASSUME AdvisoryApart, NEW zones, IsZone(zones[1]), IsZone(zones[2]), NEW snow, IsAge(snow)
  PROVE  /\ ShapesAreUnique(AdvisoryDb(zones, snow)) /\ RunsAreUnique(AdvisoryDb(zones, snow))
         /\ None \notin AdvisoryDb(zones, snow).high_hfi_area
         /\ StoredByStages(AdvisoryDb(zones, snow), 2, <<zones[1], zones[2], zones[1]>>, snow)
<1> DEFINE these == <<zones[1], zones[2], zones[1]>>
           old == [hfi |-> 4000, snow |-> 0, fuel |-> 1, tpi |-> 1]
           before == [z \in 1 .. 3 |-> <<old>>]
           hours == (1 :> <<10, 12>>) @@ (2 :> <<14, 18>>) @@ (3 :> None)
           stored(db, i) == Advisories!save_run_parameters(db, i, "forecast", i, 1)
           areas == Advisories!HighHfiRows(these, snow, 2) \union Advisories!HighHfiRows(before, snow, 1)
           tpis == Advisories!TpiRows(these, snow, 2) \union Advisories!TpiRows(before, snow, 1)
           fuels == Advisories!store_advisory_fuel_stats(these, 2, FuelTypes)
                    \union Advisories!store_advisory_fuel_stats(before, 1, FuelTypes)
           start == [run_parameters |-> {}, sfms_fuel_types |-> FuelTypes, advisory_shapes |-> Shapes,
                     high_hfi_area |-> areas, advisory_tpi_stats |-> tpis, advisory_fuel_stats |-> fuels,
                     critical_hours |-> {}]
           all == Advisories!save_critical_hours(start, hours, 2) \union Advisories!save_critical_hours(start, hours, 1)
           db == AdvisoryDb(zones, snow)
<1>1. db = [stored(stored(stored(start, 1), 2), 1) EXCEPT !.critical_hours = all]
  BY DEF AdvisoryDb
<1>2. /\ \A z \in DOMAIN these : z \in Int /\ IsZone(these[z])
      /\ \A z \in DOMAIN before : z \in Int /\ IsZone(before[z])
  <2>1. IsPixel(old)
    BY DEF IsPixel
  <2>2. IsZone(<<old>>)
    <3> HIDE DEF old
    <3> QED
      BY <2>1 DEF IsZone
  <2> HIDE DEF old
  <2> QED
    BY <2>2
<1>3. /\ \A h \in Advisories!HighHfiRows(these, snow, 2) :
           h.run = 2 /\ h \in [shape : Int, run : Int, threshold : Int, area : Int]
      /\ \A h \in Advisories!HighHfiRows(before, snow, 1) :
           h.run = 1 /\ h \in [shape : Int, run : Int, threshold : Int, area : Int]
      /\ \A r \in Advisories!TpiRows(these, snow, 2) : r.run = 2
      /\ \A r \in Advisories!TpiRows(before, snow, 1) : r.run = 1
  <2> HIDE DEF these, before
  <2> QED
    BY <1>2, RowsHaveTheirRun
<1>4. /\ DOMAIN these = 1 .. 3 /\ IsZone(these[1]) /\ IsZone(these[2]) /\ IsZone(these[3])
  BY <1>2
<1> HIDE DEF these, before, areas, tpis, fuels, all
<1> DEFINE one == [start EXCEPT !.run_parameters = {AdvisoryRun(1)}]
           two == [start EXCEPT !.run_parameters = {AdvisoryRun(1), AdvisoryRun(2)}]
<1>5. stored(start, 1) = one
  <2>1. start.run_parameters = {}
    OBVIOUS
  <2> HIDE DEF start
  <2>2. stored(start, 1) = [start EXCEPT !.run_parameters = @ \union {AdvisoryRun(1)}]
    BY <2>1, RunIsStoredOnce
  <2> QED
    BY <2>1, <2>2
<1>6. stored(one, 2) = two
  <2>1. one.run_parameters = {AdvisoryRun(1)}
    OBVIOUS
  <2>4. AdvisoryRun(1) = AdvisoryRun(AdvisoryRun(1).id) /\ AdvisoryRun(2) # AdvisoryRun(1)
    BY DEF AdvisoryRun
  <2>3. [one EXCEPT !.run_parameters = {AdvisoryRun(1), AdvisoryRun(2)}] = two
    OBVIOUS
  <2> HIDE DEF one, two, start
  <2>2. stored(one, 2) = [one EXCEPT !.run_parameters = @ \union {AdvisoryRun(2)}]
    BY <2>1, <2>4, RunIsStoredOnce
  <2> QED
    BY <2>1, <2>2, <2>3
<1>7. stored(two, 1) = two
  <2>1. two.run_parameters = {AdvisoryRun(1), AdvisoryRun(2)}
    OBVIOUS
  <2>2. AdvisoryRun(1).id = 1 /\ AdvisoryRun(2).id = 2
    BY DEF AdvisoryRun
  <2> HIDE DEF two
  <2> QED
    BY <2>1, <2>2, RunIsStoredOnce
<1> HIDE DEF stored
<1>8. /\ db.run_parameters = {AdvisoryRun(1), AdvisoryRun(2)} /\ db.advisory_shapes = Shapes
      /\ db.high_hfi_area = areas /\ db.advisory_tpi_stats = tpis
  <2>1. db = [two EXCEPT !.critical_hours = all]
    BY <1>1, <1>5, <1>6, <1>7
  <2> HIDE DEF db
  <2> QED
    BY <2>1
<1> HIDE DEF db, start, hours
<1>9. ShapesAreUnique(db)
  <2>1. Shapes = {[id |-> 1, source_identifier |-> "11", combustible_area |-> 3, fire_centre |-> "K"],
                  [id |-> 2, source_identifier |-> "12", combustible_area |-> 2, fire_centre |-> "K"],
                  [id |-> 3, source_identifier |-> "13", combustible_area |-> 2, fire_centre |-> None]}
    BY DEF Shapes
  <2>2. \A z, y \in Shapes : z.id = y.id \/ z.source_identifier = y.source_identifier => z = y
    BY <2>1
  <2> QED
    BY <1>8, <2>2 DEF ShapesAreUnique
<1>10. RunsAreUnique(db)
  <2>1. IsFiniteSet({AdvisoryRun(1)}) /\ IsFiniteSet({AdvisoryRun(2)})
    BY FS_Singleton
  <2>2. IsFiniteSet({AdvisoryRun(1)} \union {AdvisoryRun(2)})
    BY <2>1, FS_Union
  <2>3. {AdvisoryRun(1)} \union {AdvisoryRun(2)} = db.run_parameters
    BY <1>8
  <2>4. IsFiniteSet(db.run_parameters)
    BY <2>2, <2>3
  <2> QED
    BY <1>8, <2>4 DEF RunsAreUnique, AdvisoryRun
<1>11. None \notin db.high_hfi_area
  BY <1>3, <1>8 DEF AdvisoryApart, areas
<1>12. StoredByStages(db, 2, these, snow)
  BY <1>3, <1>4, <1>8 DEF StoredByStages, areas, tpis
<1> QED
  BY <1>9, <1>10, <1>11, <1>12 DEF db, these

(* So the stages agree on the zones of the questions, and the views on the *)
(* rows that are stored for them.                                          *)
THEOREM AdvisoriesOfQuestions ==
  ASSUME AdvisoryApart
  PROVE  asked = None /\ [][Ask]_<<topic, asked>> => []AdvisoriesAgree
<1>1. AskedOfTopic => AdvisoriesAgree
  <2> SUFFICES ASSUME AskedOfTopic PROVE AdvisoriesAgree
    OBVIOUS
  <2>1. ASSUME About("raster") PROVE Advisories!StagesAgree(asked.zone, asked.snow, FuelTypes)
    <3>1. DOMAIN FuelTypes = 1 .. 3 /\ \A i \in 1 .. 3 : FuelTypes[i].fuel_type_id \in Int
      BY DEF FuelTypes
    <3>2. 1 \in Int /\ 3 \in Int
      OBVIOUS
    <3>3. IsFiniteSet(1 .. 3)
      BY <3>2, FS_Interval, Zenon
    <3> QED
      BY <2>1, <3>1, <3>3, RasterIsAsked, StagesAlwaysAgree
  <2>2. ASSUME About("advisories")
        PROVE  /\ Advisories!ViewsAgree(AdvisoryDb(asked.zones, asked.snow), 2)
               /\ Advisories!RunsAreListed(AdvisoryDb(asked.zones, asked.snow), "forecast", 1)
    BY <2>2, AdvisoryIsAsked, TablesOfTheQuestion, ViewsAlwaysAgree, RunsAreAlwaysListed
  <2> QED
    BY <2>1, <2>2 DEF AdvisoriesAgree
<1> QED
  BY <1>1, QuestionsAreAsked, PTL

\* An intensity that is flat below a threshold and rises in a line from it on never falls
\* (the intensities MCCalculations asks the critical hours about).
LEMMA StepsRise == \A hfi \in Intensities : Rises(hfi)
<1> SUFFICES ASSUME NEW hfi \in Intensities PROVE Rises(hfi)
  OBVIOUS
<1>1. PICK t \in {0, 60} \union 76 .. 101 :
        hfi = [f \in 0 .. 101 |-> IF f < t THEN 100 ELSE 4000 + 30 * (f - t)]
  BY DEF Intensities
<1>2. t \in Int
  OBVIOUS
<1>3. hfi \in [0 .. 101 -> Int]
  BY <1>1, <1>2
<1> DEFINE at(f) == IF f < t THEN 100 ELSE 4000 + 30 * (f - t)
<1>4. \A f \in 0 .. 101 : hfi[f] = at(f)
  BY <1>1
<1>5. ASSUME NEW x \in Int, NEW y \in Int, x <= y PROVE at(x) <= at(y)
  <2>1. CASE y < t
    BY <1>2, <1>5, <2>1
  <2>2. CASE x < t /\ t <= y
    BY <1>2, <1>5, <2>2
  <2>3. CASE t <= x /\ t <= y
    BY <1>2, <1>5, <2>3
  <2> QED
    BY <1>2, <1>5, <2>1, <2>2, <2>3
<1> HIDE DEF at
<1>6. ASSUME NEW x \in 0 .. 101, NEW y \in 0 .. 101, x <= y PROVE hfi[x] <= hfi[y]
  <2>1. at(x) <= at(y)
    BY <1>5, <1>6
  <2> QED
    BY <1>4, <2>1
<1> QED
  BY <1>3, <1>6 DEF Rises

(* The intensities and humidities of the questions are such.               *)
LEMMA HoursAreAsked ==
  ASSUME About("hours"), AskedOfTopic
  PROVE  /\ Rises(asked.hfi) /\ asked.daily \in 0 .. 101 /\ asked.prev \in Int
         /\ Hourly(asked.rhs) \in [7 .. 12 -> Int \union {None}]
<1>1. Questions("hours") = HoursQuestions
  BY DEF Questions
<1>2. asked \in HoursQuestions
  BY <1>1 DEF About, AskedOfTopic
<1>3. /\ asked.hfi \in Intensities /\ asked.daily \in {60, 73, 85, 90} /\ asked.prev \in {80, 90}
      /\ asked.rhs \in [1 .. 3 -> {None, 50, 101}]
  BY <1>2 DEF HoursQuestions
<1>4. Rises(asked.hfi)
  BY <1>3, StepsRise
<1>5. Hourly(asked.rhs) \in [7 .. 12 -> Int \union {None}]
  <2> DEFINE rhs == asked.rhs
             obs == [i \in 1 .. 7 |->
                       [time |-> 13 + i, rh |-> IF i > 4 THEN rhs[1] ELSE IF i > 2 THEN rhs[2] ELSE rhs[3]]]
             its(h) == {i \in DOMAIN obs : (obs[i].time - 7) % 24 = h}
             latest(h) == CHOOSE i \in its(h) : \A j \in its(h) : obs[j].time <= obs[i].time
             humidity(h) == IF its(h) = {} THEN None ELSE obs[latest(h)].rh
  <2>1. Hourly(rhs) = [h \in 7 .. 12 |-> humidity(h)]
    BY DEF Hourly, Critical!build_hourly_rh_dict
  <2>2. \A i \in 1 .. 7 : obs[i].time = 13 + i /\ obs[i].rh \in {rhs[1], rhs[2], rhs[3]}
    OBVIOUS
  <2>3. DOMAIN obs = 1 .. 7
    OBVIOUS
  <2>4. rhs[1] \in {None, 50, 101} /\ rhs[2] \in {None, 50, 101} /\ rhs[3] \in {None, 50, 101}
    BY <1>3
  <2> HIDE DEF obs, rhs
  <2>5. ASSUME NEW h \in 7 .. 12 PROVE humidity(h) \in Int \union {None}
    <3>1. \A i, j \in its(h) : i = j
      BY <2>2, <2>3
    <3>2. its(h) # {} => latest(h) \in its(h)
      BY <2>2, <2>3, <3>1
    <3> QED
      BY <2>2, <2>3, <2>4, <3>2
  <2> HIDE DEF humidity
  <2>6. Hourly(rhs) \in [7 .. 12 -> Int \union {None}]
    BY <2>1, <2>5
  <2> QED
    BY <2>6 DEF rhs
<1> QED
  BY <1>3, <1>4, <1>5

LEMMA ZonesAreAsked ==
  ASSUME About("zones"), AskedOfTopic
  PROVE  \A z \in DOMAIN ZonesOf(asked) : HaveHours(ZonesOf(asked)[z].stations)
<1>1. Questions("zones") = ZoneQuestions
  BY DEF Questions
<1>2. asked \in ZoneQuestions
  BY <1>1 DEF About, AskedOfTopic
<1> DEFINE Hours == {None} \union [start : 0 .. 23, end : 0 .. 23]
<1>3. asked.station.hours \in Hours /\ asked.other.hours \in Hours
  BY <1>2 DEF ZoneQuestions, ZoneStations
<1>4. \A a, b \in 0 .. 23 : StationOfZone(a, b).hours \in Hours
  BY DEF StationOfZone
<1> HIDE DEF Hours
<1>5. StationOfZone(13, 20).hours \in Hours /\ StationOfZone(9, 17).hours \in Hours
  <2>1. 13 \in 0 .. 23 /\ 20 \in 0 .. 23 /\ 9 \in 0 .. 23 /\ 17 \in 0 .. 23
    OBVIOUS
  <2> QED
    BY <1>4, <2>1, Zenon
<1>6. HaveHours(<<asked.station, StationOfZone(13, 20), asked.other>>)
  <2>1. 1 \in Int /\ 3 \in Int
    OBVIOUS
  <2>2. IsFiniteSet(1 .. 3)
    BY <2>1, FS_Interval, Zenon
  <2> QED
    BY <1>3, <1>5, <2>2 DEF HaveHours, Hours
<1>7. HaveHours(<<StationOfZone(9, 17)>>)
  <2>1. 1 \in Int
    OBVIOUS
  <2>2. IsFiniteSet(1 .. 1)
    BY <2>1, FS_Interval, Zenon
  <2> QED
    BY <1>5, <2>2 DEF HaveHours, Hours
<1>8. DOMAIN ZonesOf(asked) = {1, 2}
  BY DEF ZonesOf
<1>9. /\ ZonesOf(asked)[1].stations = <<asked.station, StationOfZone(13, 20), asked.other>>
      /\ ZonesOf(asked)[2].stations = <<StationOfZone(9, 17)>>
  BY DEF ZonesOf
<1> QED
  BY <1>6, <1>7, <1>8, <1>9

(* So the hours of the questions are critical, and those of their zones    *)
(* are of their stations.                                                  *)
THEOREM HoursOfQuestions == asked = None /\ [][Ask]_<<topic, asked>> => []HoursAreCritical
<1>1. AskedOfTopic => HoursAreCritical
  <2> SUFFICES ASSUME AskedOfTopic PROVE HoursAreCritical
    OBVIOUS
  <2>1. ASSUME About("hours")
        PROVE  Critical!HoursAreCritical(asked.daily, asked.hfi, TargetHfi, asked.daily, asked.prev,
                                         Hourly(asked.rhs))
    <3>1. /\ Rises(asked.hfi) /\ asked.daily \in 0 .. 101 /\ asked.prev \in Int
          /\ Hourly(asked.rhs) \in [7 .. 12 -> Int \union {None}]
      BY <2>1, HoursAreAsked
    <3>2. \A target \in Nat :
            Critical!HoursAreCritical(asked.daily, asked.hfi, target, asked.daily, asked.prev,
                                      Hourly(asked.rhs))
      BY <3>1, TablesOfTheRedBook, HoursAreAlwaysCritical, Zenon
    <3>3. TargetHfi \in Nat
      BY DEF TargetHfi
    <3> QED
      BY <3>2, <3>3, Zenon
  <2>2. ASSUME About("zones") PROVE Critical!HoursAreOfItsStations(ZonesOf(asked))
    BY <2>2, ZonesAreAsked, ZonesHaveTheirHours
  <2> QED
    BY <2>1, <2>2 DEF HoursAreCritical
<1> QED
  BY <1>1, QuestionsAreAsked, PTL

(* The rows that are asked about have such cells.                          *)
LEMMA ChartIsAsked ==
  ASSUME About("chart"), AskedOfTopic
  PROVE  asked.row \in [1 .. 4 -> ChartRowCells]
<1>1. Questions("chart") = ChartQuestions
  BY DEF Questions
<1>2. asked \in ChartQuestions
  BY <1>1 DEF About, AskedOfTopic
<1>3. asked.row \in [1 .. 4 -> ChartCells]
  BY <1>2 DEF ChartQuestions
<1>4. \A c \in ChartCells : c \in ChartRowCells
  <2>1. \A t \in Int, u \in Int, d \in Int, b \in BOOLEAN : [inside |-> b, t700 |-> t, t850 |-> u, d850 |-> d] \in ChartRowCells
    BY DEF ChartRowCells
  <2>2. \A d \in {0, 15, 24, 40} : [inside |-> TRUE, t700 |-> 0, t850 |-> 12, d850 |-> d] \in ChartRowCells
    <3>1. \A d \in {0, 15, 24, 40} : d \in Int
      OBVIOUS
    <3>2. 0 \in Int /\ 12 \in Int
      OBVIOUS
    <3> QED
      BY <2>1, <3>1, <3>2, Zenon
  <2>3. [inside |-> FALSE, t700 |-> 0, t850 |-> 30, d850 |-> 20] \in ChartRowCells
    <3>1. 0 \in Int /\ 30 \in Int /\ 20 \in Int
      OBVIOUS
    <3> QED
      BY <2>1, <3>1, Zenon
  <2> QED
    BY <2>2, <2>3, Zenon DEF ChartCells
<1> QED
  BY <1>3, <1>4

(* So the charts of the questions are whole.                               *)
THEOREM ChartOfQuestions == asked = None /\ [][Ask]_<<topic, asked>> => []ChartIsWhole
<1>1. AskedOfTopic => ChartIsWhole
  <2> SUFFICES ASSUME AskedOfTopic, About("chart")
               PROVE  /\ Chart!ChartIsWhole(asked.row)
                      /\ asked.row[1].inside =>
                           \A t \in 10 .. 20, d \in 0 .. 30 : Chart!SeverityGrows(asked.row[1].t700, t, d)
                      /\ \A model \in {"GDPS", "RDPS", "HRDPS"} : Chart!SpansFollow(model)
    BY DEF ChartIsWhole
  <2>1. asked.row \in [1 .. 4 -> ChartRowCells]
    BY ChartIsAsked
  <2>2. Chart!ChartIsWhole(asked.row)
    BY <2>1, ChartsAreWhole
  <2>3. asked.row[1].t700 \in Int
    BY <2>1 DEF ChartRowCells
  <2>4. \A t \in 10 .. 20, d \in 0 .. 30 : Chart!SeverityGrows(asked.row[1].t700, t, d)
    BY <2>3, MoreIsWorse
  <2> QED
    BY <2>2, <2>4, SpansOfModels
<1> QED
  BY <1>1, QuestionsAreAsked, PTL

(* Raw dailies of some stations and days, one of each.                     *)
RawsOf(s, K) ==
  /\ s \in Seq([code : Int, day : Int, complete : BOOLEAN, x : FuelInputs("C3")])
  /\ \A r \in 1 .. Len(s) : <<s[r].code, s[r].day>> \in K
  /\ \A r, q \in 1 .. Len(s) : s[r].code = s[q].code /\ s[r].day = s[q].day => r = q

(* Dailies of other stations or days can be added.                         *)
LEMMA RawsTogether ==
  ASSUME NEW s, NEW K, NEW t, NEW L, RawsOf(s, K), RawsOf(t, L), K \intersect L = {}
  PROVE  RawsOf(s \o t, K \union L)
<1> DEFINE u == s \o t
           R == [code : Int, day : Int, complete : BOOLEAN, x : FuelInputs("C3")]
           key(r) == <<r.code, r.day>>
<1>1. s \in Seq(R) /\ t \in Seq(R)
  BY DEF RawsOf
<1>2. /\ \A r \in 1 .. Len(s) : key(s[r]) \in K
      /\ \A r \in 1 .. Len(t) : key(t[r]) \in L
      /\ \A r, q \in 1 .. Len(s) : key(s[r]) = key(s[q]) => r = q
      /\ \A r, q \in 1 .. Len(t) : key(t[r]) = key(t[q]) => r = q
  BY DEF RawsOf
<1>3. \A a, b : a.code = b.code /\ a.day = b.day => key(a) = key(b)
  OBVIOUS
<1> HIDE DEF R
<1>4. /\ u \in Seq(R) /\ Len(u) = Len(s) + Len(t) /\ Len(s) \in Nat /\ Len(t) \in Nat
      /\ \A i \in 1 .. Len(u) : \/ i \in 1 .. Len(s) /\ u[i] = s[i]
                                \/ i \notin 1 .. Len(s) /\ i - Len(s) \in 1 .. Len(t) /\ u[i] = t[i - Len(s)]
  BY <1>1
<1>5. \A i \in 1 .. Len(u) : key(u[i]) \in K \union L
  <2> HIDE DEF key, u
  <2> QED
    BY <1>2, <1>4
<1>6. ASSUME NEW r \in 1 .. Len(u), NEW q \in 1 .. Len(u), key(u[r]) = key(u[q]) PROVE r = q
  <2> HIDE DEF key, u
  <2>1. CASE r \in 1 .. Len(s) /\ q \in 1 .. Len(s)
    BY <1>2, <1>4, <1>6, <2>1
  <2>2. CASE r \notin 1 .. Len(s) /\ q \notin 1 .. Len(s)
    <3>1. /\ r - Len(s) \in 1 .. Len(t) /\ q - Len(s) \in 1 .. Len(t)
          /\ key(t[r - Len(s)]) = key(t[q - Len(s)])
      BY <1>4, <1>6, <2>2
    <3>2. r - Len(s) = q - Len(s)
      BY <1>2, <3>1
    <3> QED
      BY <1>4, <3>2
  <2>3. CASE r \in 1 .. Len(s) /\ q \notin 1 .. Len(s)
    BY <1>2, <1>4, <1>6, <2>3
  <2>4. CASE r \notin 1 .. Len(s) /\ q \in 1 .. Len(s)
    BY <1>2, <1>4, <1>6, <2>4
  <2> QED
    BY <2>1, <2>2, <2>3, <2>4
<1>7. \A r, q \in 1 .. Len(u) : u[r].code = u[q].code /\ u[r].day = u[q].day => r = q
  <2> SUFFICES ASSUME NEW r \in 1 .. Len(u), NEW q \in 1 .. Len(u), u[r].code = u[q].code, u[r].day = u[q].day
               PROVE  r = q
    OBVIOUS
  <2>1. key(u[r]) = key(u[q])
    BY <1>3
  <2> HIDE DEF key
  <2> QED
    BY <1>6, <2>1
<1> QED
  BY <1>4, <1>5, <1>7 DEF RawsOf, R

(* Those of one station and day.                                           *)
LEMMA MaybeRaws ==
  ASSUME NEW c \in Int, NEW d \in Int, NEW s \in MaybeDaily(c, d)
  PROVE  RawsOf(s, {<<c, d>>})
<1>1. ASSUME NEW b \in MaybeNumber, NEW h \in Int PROVE Inputs(b, h) \in FuelInputs("C3")
  BY DEF Inputs, FuelInputs, MaybeNumber
<1>2. CASE s = <<>>
  <2>1. Len(s) = 0
    BY <1>2
  <2> QED
    BY <1>2, <2>1 DEF RawsOf
<1>3. CASE s # <<>>
  <2>1. PICK x \in {Inputs(None, 100), Inputs(1, 100), Inputs(1, 3000), Inputs(1, 5000)} : s = <<Daily(c, d, x)>>
    BY <1>3 DEF MaybeDaily
  <2>2. x \in FuelInputs("C3")
    <3>1. None \in MaybeNumber /\ 1 \in MaybeNumber /\ 100 \in Int /\ 3000 \in Int /\ 5000 \in Int
      BY DEF MaybeNumber
    <3>2. /\ Inputs(None, 100) \in FuelInputs("C3") /\ Inputs(1, 100) \in FuelInputs("C3")
          /\ Inputs(1, 3000) \in FuelInputs("C3") /\ Inputs(1, 5000) \in FuelInputs("C3")
      BY <1>1, <3>1
    <3> QED
      BY <2>1, <3>2
  <2> DEFINE daily == Daily(c, d, x)
  <2>3. /\ daily \in [code : Int, day : Int, complete : BOOLEAN, x : FuelInputs("C3")]
        /\ <<daily.code, daily.day>> = <<c, d>>
    BY <2>2 DEF Daily
  <2>4. Len(s) = 1 /\ s[1] = daily /\ s = <<daily>>
    BY <2>1
  <2> HIDE DEF daily
  <2> QED
    BY <2>3, <2>4 DEF RawsOf
<1> QED
  BY <1>2, <1>3

(* The questions about prep periods are of such dailies and stations.      *)
LEMMA PrepIsAsked ==
  ASSUME About("prep"), AskedOfTopic
  PROVE  /\ asked.days \in Nat /\ asked.days > 0
         /\ \A a \in DOMAIN PrepAreas : \E m : PrepInputs(asked.raws, Len(asked.raws), PrepAreas[a], m, {1, 2})
<1>1. Questions("prep") = PrepQuestions
  BY DEF Questions
<1>2. asked \in PrepQuestions
  BY <1>1 DEF About, AskedOfTopic
<1> DEFINE Join(a, b, c, d) == ((d \o a) \o b) \o c
           lists == {Join(a, b, c, d) : a \in MaybeDaily(1, 1), b \in MaybeDaily(2, 1),
                                        c \in MaybeDaily(1, 2), d \in MaybeDaily(2, 2)}
<1>3. asked.days \in 1 .. 2 /\ asked.infos \in Infos /\ asked.raws \in lists
  <2>1. PrepQuestions = [days : 1 .. 2, starts : {<<>>, <<"high">>, <<"low", "high">>}, infos : Infos, raws : lists]
    BY DEF PrepQuestions
  <2> HIDE DEF lists
  <2> QED
    BY <1>2, <2>1
<1> DEFINE raws == asked.raws
           infos == asked.infos
           n == Len(raws)
<1>4. PICK a \in MaybeDaily(1, 1), b \in MaybeDaily(2, 1), c \in MaybeDaily(1, 2), d \in MaybeDaily(2, 2) :
        raws = ((d \o a) \o b) \o c
  <2> HIDE DEF Join, raws
  <2>1. \E a \in MaybeDaily(1, 1), b \in MaybeDaily(2, 1), c \in MaybeDaily(1, 2), d \in MaybeDaily(2, 2) :
          raws = Join(a, b, c, d)
    BY <1>3 DEF raws
  <2> QED
    BY <2>1 DEF Join
<1>5. RawsOf(raws, (({<<2, 2>>} \union {<<1, 1>>}) \union {<<2, 1>>}) \union {<<1, 2>>})
  <2>1. RawsOf(a, {<<1, 1>>}) /\ RawsOf(b, {<<2, 1>>}) /\ RawsOf(c, {<<1, 2>>}) /\ RawsOf(d, {<<2, 2>>})
    BY MaybeRaws
  <2>2. RawsOf(d \o a, {<<2, 2>>} \union {<<1, 1>>})
    <3>1. {<<2, 2>>} \intersect {<<1, 1>>} = {}
      OBVIOUS
    <3> QED
      BY <2>1, <3>1, RawsTogether
  <2>3. RawsOf((d \o a) \o b, ({<<2, 2>>} \union {<<1, 1>>}) \union {<<2, 1>>})
    <3>1. ({<<2, 2>>} \union {<<1, 1>>}) \intersect {<<2, 1>>} = {}
      OBVIOUS
    <3> QED
      BY <2>1, <2>2, <3>1, RawsTogether
  <2> QED
    <3>1. (({<<2, 2>>} \union {<<1, 1>>}) \union {<<2, 1>>}) \intersect {<<1, 2>>} = {}
      OBVIOUS
    <3> QED
      BY <1>4, <2>1, <2>3, <3>1, RawsTogether
<1> HIDE DEF raws
<1>6. /\ n \in Nat /\ DOMAIN raws = 1 .. n
      /\ \A r \in 1 .. n : /\ raws[r].code \in {1, 2} /\ raws[r].day \in Int /\ raws[r].complete \in BOOLEAN
                           /\ raws[r].x \in FuelInputs("C3")
      /\ \A r, q \in 1 .. n : raws[r].code = raws[q].code /\ raws[r].day = raws[q].day => r = q
  <2>1. /\ raws \in Seq([code : Int, day : Int, complete : BOOLEAN, x : FuelInputs("C3")])
        /\ \A r \in 1 .. n : <<raws[r].code, raws[r].day>> \in {<<2, 2>>, <<1, 1>>, <<2, 1>>, <<1, 2>>}
        /\ \A r, q \in 1 .. n : raws[r].code = raws[q].code /\ raws[r].day = raws[q].day => r = q
    BY <1>5 DEF RawsOf
  <2>2. \A r \in 1 .. n : raws[r].code \in {1, 2}
    BY <2>1
  <2>3. \A r \in 1 .. n : raws[r] \in [code : Int, day : Int, complete : BOOLEAN, x : FuelInputs("C3")]
    <3> DEFINE R == [code : Int, day : Int, complete : BOOLEAN, x : FuelInputs("C3")]
    <3>1. raws \in Seq(R)
      BY <2>1
    <3> HIDE DEF R
    <3>2. \A r \in 1 .. n : raws[r] \in R
      BY <3>1
    <3> QED
      BY <3>2 DEF R
  <2> QED
    BY <2>1, <2>2, <2>3
<1> HIDE DEF n
<1>7. ASSUME NEW m \in Nat, NEW stations, DOMAIN stations = 1 .. m,
             \A i \in 1 .. m : stations[i].fuel \in {"C3", "C7B"}
      PROVE  PrepInputs(raws, n, stations, m, {1, 2})
  <2>1. \A f \in {"C3", "C7B"} : f \in Hfi!FuelTypeEnum /\ FuelInputs("C3") = FuelInputs(f)
    BY DEF Hfi!FuelTypeEnum, FuelInputs
  <2> QED
    BY <1>6, <1>7, <2>1 DEF PrepInputs
<1>8. PICK p \in BOOLEAN, q \in BOOLEAN, f \in {"C3", "C7B"} :
        infos = <<[code |-> 1, selected |-> p, fuel |-> "C3"], [code |-> 2, selected |-> q, fuel |-> "C3"],
                  [code |-> 3, selected |-> TRUE, fuel |-> f]>>
  <2> DEFINE Three(p, q, f) ==
        <<[code |-> 1, selected |-> p, fuel |-> "C3"], [code |-> 2, selected |-> q, fuel |-> "C3"],
          [code |-> 3, selected |-> TRUE, fuel |-> f]>>
  <2>1. infos \in {Three(p, q, f) : p \in BOOLEAN, q \in BOOLEAN, f \in {"C3", "C7B"}}
    BY <1>3 DEF Infos
  <2> HIDE DEF Three, infos
  <2>2. \E p \in BOOLEAN, q \in BOOLEAN, f \in {"C3", "C7B"} : infos = Three(p, q, f)
    BY <2>1
  <2> QED
    BY <2>2 DEF Three
<1>9. DOMAIN infos = 1 .. 3 /\ \A i \in 1 .. 3 : infos[i].fuel \in {"C3", "C7B"}
  BY <1>8
<1> HIDE DEF infos
<1>10. PrepInputs(raws, n, infos, 3, {1, 2})
  BY <1>7, <1>9
<1>11. PrepInputs(raws, n, <<infos[1]>>, 1, {1, 2})
  <2> DEFINE one == <<infos[1]>>
  <2>1. DOMAIN one = 1 .. 1 /\ \A i \in 1 .. 1 : one[i].fuel \in {"C3", "C7B"}
    BY <1>9
  <2> HIDE DEF one
  <2>2. PrepInputs(raws, n, one, 1, {1, 2})
    BY <1>7, <2>1
  <2> QED
    BY <2>2 DEF one
<1>12. PrepAreas = <<infos, <<infos[1]>>>>
  BY DEF PrepAreas, infos
<1>13. \A a_ \in DOMAIN PrepAreas : \E m : PrepInputs(raws, n, PrepAreas[a_], m, {1, 2})
  BY <1>10, <1>11, <1>12
<1> QED
  BY <1>3, <1>13 DEF raws, n

(* The table of the questions.                                             *)
LEMMA PrepLevels == IsLookup(PrepLookup, 5)
<1>1. DOMAIN PrepLookup = {"low", "high"}
  BY DEF PrepLookup
<1>2. \A g \in 1 .. 5 : (g + 1) \div 2 \in 1 .. 5 /\ g \in 1 .. 5
  OBVIOUS
<1>3. \A s \in {"low", "high"} : PrepLookup[s] = [g \in 1 .. 5 |-> IF s = "low" THEN (g + 1) \div 2 ELSE g]
  BY DEF PrepLookup
<1> QED
  BY <1>1, <1>2, <1>3 DEF IsLookup

(* Every answer to the questions about prep periods is whole.              *)
THEOREM PrepOfQuestions ==
  ASSUME Apart PROVE asked = None /\ [][Ask]_<<topic, asked>> => []PrepResultIsWhole
<1>1. ASSUME AskedOfTopic, About("prep"), NEW results, results = PrepResults, results # OtherError,
             NEW a \in DOMAIN PrepAreas
      PROVE  /\ Hfi!ResultIsWhole(results[a], asked.raws, PrepAreas[a], {1, 2}, asked.days)
             /\ Hfi!SheetsShowTheirDays(results[a], {1, 2}, asked.days)
  <2>1. /\ asked.days \in Nat /\ asked.days > 0
        /\ \A b \in DOMAIN PrepAreas : \E m : PrepInputs(asked.raws, Len(asked.raws), PrepAreas[b], m, {1, 2})
    BY <1>1, PrepIsAsked
  <2>2. IsLookup(PrepLookup, 5)
    BY PrepLevels
  <2>3. results = Hfi!calculate_hfi_results(asked.raws, PrepAreas, {1, 2}, asked.days, <<asked.starts, <<>>>>,
                                            PrepLookup, "low")
    BY <1>1 DEF PrepResults
  <2> QED
    BY <1>1, <2>1, <2>2, <2>3, ResultsAreWhole
<1>2. ASSUME AskedOfTopic, About("period") PROVE Hfi!PeriodIsWhole(asked.start, asked.end, 9)
  <2>1. Questions("period") = PeriodQuestions
    BY DEF Questions
  <2>2. asked \in PeriodQuestions
    BY <1>2, <2>1 DEF About, AskedOfTopic
  <2>3. asked.start \in Int \union {None} /\ asked.end \in Int \union {None} /\ 9 \in Int
    BY <2>2 DEF PeriodQuestions
  <2> QED
    BY <2>3, PeriodsAreWhole
<1>3. AskedOfTopic => PrepResultIsWhole
  BY <1>1, <1>2 DEF PrepResultIsWhole
<1> QED
  BY <1>3, QuestionsAreAsked, PTL

(* The questions about WF1 are of such stations, codes and dailies.        *)
LEMMA Wf1IsAsked ==
  ASSUME About("wf1"), AskedOfTopic
  PROVE  /\ \E S : asked.stations \in Seq(S)
         /\ asked.size \in 1 .. 2
         /\ \E m \in Nat : asked.codes # None => DOMAIN asked.codes = 1 .. m
         /\ \E k \in Nat : /\ DOMAIN asked.dailies = 1 .. k
                           /\ \A i \in 1 .. k : asked.dailies[i].type \in {"ACTUAL", "MANUAL", "FORECAST"}
<1>1. Questions("wf1") = Wf1Questions
  BY DEF Questions
<1>2. asked \in Wf1Questions
  BY <1>1 DEF About, AskedOfTopic
<1> DEFINE A == RawStations(1, {1})
           B == RawStations(2, {1, 2})
           one(a) == <<a>>
           two(a, b) == <<a, b>>
           lists == {<<>>} \union {one(a) : a \in A} \union {two(a, b) : a \in A, b \in B}
<1>3. asked.stations \in lists /\ asked.dailies \in Noons /\ asked.size \in 1 .. 2
      /\ asked.codes \in {None, <<1>>, <<2, 1, 3>>}
  <2>1. Wf1Questions = [stations : lists, dailies : Noons, size : 1 .. 2, codes : {None, <<1>>, <<2, 1, 3>>}]
    BY DEF Wf1Questions
  <2> HIDE DEF lists
  <2> QED
    BY <1>2, <2>1
<1>4. asked.stations \in Seq(A \union B)
  <2> DEFINE s == asked.stations
  <2>1. s = <<>> \/ (\E a \in A : s = one(a)) \/ \E a \in A, b \in B : s = two(a, b)
    <3> HIDE DEF A, B, one, two, s
    <3> QED
      BY <1>3 DEF s
  <2> HIDE DEF A, B, s
  <2>2. /\ \A a \in A : one(a) \in Seq(A \union B)
        /\ \A a \in A, b \in B : two(a, b) \in Seq(A \union B)
    OBVIOUS
  <2>3. <<>> \in Seq(A \union B)
    OBVIOUS
  <2> HIDE DEF one, two, lists
  <2>4. s \in Seq(A \union B)
    <3>1. CASE s = <<>>
      BY <2>3, <3>1
    <3>2. CASE \E a \in A : s = one(a)
      <4>1. PICK a \in A : s = one(a)
        BY <3>2
      <4> QED
        BY <2>2, <4>1
    <3>3. CASE \E a \in A, b \in B : s = two(a, b)
      <4>1. PICK a \in A, b \in B : s = two(a, b)
        BY <3>3
      <4> QED
        BY <2>2, <4>1
    <3> QED
      BY <2>1, <3>1, <3>2, <3>3
  <2> QED
    BY <2>4 DEF s
<1>5. \E m \in Nat : asked.codes # None => DOMAIN asked.codes = 1 .. m
  <2>1. DOMAIN <<1>> = 1 .. 1 /\ DOMAIN <<2, 1, 3>> = 1 .. 3 /\ 1 \in Nat /\ 3 \in Nat
    OBVIOUS
  <2> DEFINE c == asked.codes
  <2>2. c = None \/ c = <<1>> \/ c = <<2, 1, 3>>
    BY <1>3
  <2> HIDE DEF c
  <2>3. c # None => DOMAIN c = 1 .. 1 \/ DOMAIN c = 1 .. 3
    BY <2>1, <2>2
  <2>4. \E m \in Nat : c # None => DOMAIN c = 1 .. m
    BY <2>1, <2>3
  <2> QED
    BY <2>4 DEF c
<1>6. \E k \in Nat : /\ DOMAIN asked.dailies = 1 .. k
                     /\ \A i \in 1 .. k : asked.dailies[i].type \in {"ACTUAL", "MANUAL", "FORECAST"}
  <2> DEFINE d == asked.dailies
             three == <<Noon(2, "MANUAL"), Noon(3, "ACTUAL"), Noon(1, "FORECAST"), Noon(2, "ACTUAL")>>
  <2>1. \A id, t : Noon(id, t).type = t
    BY DEF Noon
  <2>2. CASE d = <<>>
    <3>1. DOMAIN d = 1 .. 0 /\ 0 \in Nat
      BY <2>2
    <3> QED
      BY <3>1
  <2>3. CASE d = <<Noon(1, "ACTUAL"), Noon(2, "FORECAST")>>
    <3>1. DOMAIN d = 1 .. 2 /\ 2 \in Nat /\ d[1] = Noon(1, "ACTUAL") /\ d[2] = Noon(2, "FORECAST")
      BY <2>3
    <3>2. \A i \in 1 .. 2 : i = 1 \/ i = 2
      OBVIOUS
    <3> QED
      BY <2>1, <3>1, <3>2
  <2>4. CASE d = three
    <3>1. DOMAIN d = 1 .. 4 /\ 4 \in Nat /\ d[1] = Noon(2, "MANUAL") /\ d[2] = Noon(3, "ACTUAL")
          /\ d[3] = Noon(1, "FORECAST") /\ d[4] = Noon(2, "ACTUAL")
      BY <2>4
    <3>2. \A i \in 1 .. 4 : i = 1 \/ i = 2 \/ i = 3 \/ i = 4
      OBVIOUS
    <3> QED
      BY <2>1, <3>1, <3>2
  <2> QED
    BY <1>3, <2>2, <2>3, <2>4 DEF Noons
<1> QED
  BY <1>3, <1>4, <1>5, <1>6

(* So what is made of WF1's answers agrees for the questions.              *)
LEMMA Wf1OfQuestions ==
  ASSUME About("wf1"), AskedOfTopic
  PROVE  /\ Determinates!PagesAreWhole(asked.stations, asked.size)
         /\ Determinates!StationListsAgree(asked.stations)
         /\ Determinates!CodesFindTheSame(asked.stations, asked.codes)
         /\ Determinates!GroupsAreWhole(<<asked.stations, asked.stations \o asked.stations>>)
         /\ Determinates!ObservationsAreOwn(asked.stations, asked.dailies)
<1>1. PICK S : asked.stations \in Seq(S)
  BY Wf1IsAsked
<1>2. PICK m \in Nat : asked.codes # None => DOMAIN asked.codes = 1 .. m
  BY Wf1IsAsked
<1>3. PICK k \in Nat : /\ DOMAIN asked.dailies = 1 .. k
                       /\ \A i \in 1 .. k : asked.dailies[i].type \in {"ACTUAL", "MANUAL", "FORECAST"}
  BY Wf1IsAsked
<1>4. asked.size \in Nat /\ asked.size > 0
  BY Wf1IsAsked
<1>5. <<asked.stations, asked.stations \o asked.stations>> \in Seq(Seq(S))
  <2>1. asked.stations \o asked.stations \in Seq(S)
    BY <1>1
  <2> QED
    BY <1>1, <2>1
<1> QED
  BY <1>1, <1>2, <1>3, <1>4, <1>5, Wf1ListsAgree

(* The cells of the questions, in their turn.                              *)
LEMMA TurnOfCells ==
  ASSUME NEW p \in 1 .. 6
  PROVE  /\ DOMAIN CellsInTurn = 1 .. 6 /\ CellsInTurn[p] \in Cells
         /\ CellsInTurn[p][1] = IF p <= 3 THEN "a" ELSE "b"
         /\ CellsInTurn[p][2] = IF p <= 3 THEN p ELSE p - 3
<1>1. /\ CellsInTurn[1] = <<"a", 1>> /\ CellsInTurn[2] = <<"a", 2>> /\ CellsInTurn[3] = <<"a", 3>>
      /\ CellsInTurn[4] = <<"b", 1>> /\ CellsInTurn[5] = <<"b", 2>> /\ CellsInTurn[6] = <<"b", 3>>
      /\ DOMAIN CellsInTurn = 1 .. 6
  BY DEF CellsInTurn
<1>2. p = 1 \/ p = 2 \/ p = 3 \/ p = 4 \/ p = 5 \/ p = 6
  OBVIOUS
<1>3. /\ CellsInTurn[p][1] = IF p <= 3 THEN "a" ELSE "b"
      /\ CellsInTurn[p][2] = IF p <= 3 THEN p ELSE p - 3
  BY <1>1, <1>2
<1>4. CellsInTurn[p] \in Cells
  BY <1>1, <1>2 DEF Cells
<1> QED
  BY <1>1, <1>3, <1>4

(* The rows of the questions have one of a station, day and time stamp.    *)
LEMMA RowsAreStampedOnce ==
  ASSUME NEW rows \in SUBSET Forecasts
  PROVE  StampedOnce(rows)
<1> DEFINE forecastRow(c, d, t) == [code |-> c, day |-> d, stamp |-> t]
<1>1. ASSUME NEW r \in Forecasts PROVE r = forecastRow(r.code, r.day, r.stamp) /\ r.stamp \in Int
  <2>1. CASE r \in {forecastRow(c, d, 1) : c \in {"a", "b"}, d \in 2 .. 3}
    <3>1. PICK c \in {"a", "b"}, d \in 2 .. 3 : r = forecastRow(c, d, 1)
      BY <2>1
    <3> QED
      BY <3>1
  <2>2. CASE r = forecastRow("a", 2, 2)
    BY <2>2
  <2> QED
    BY <2>1, <2>2 DEF Forecasts
<1> HIDE DEF forecastRow
<1>2. \A r \in rows : r = forecastRow(r.code, r.day, r.stamp) /\ r.stamp \in Int
  BY <1>1
<1> QED
  BY <1>2 DEF StampedOnce

(* WF1's answer to a question has one daily of a station and day.          *)
LEMMA DailiesOfQuestions ==
  ASSUME NEW types \in [Cells -> {"NONE", "ACTUAL", "FORECAST"}]
  PROVE  \E N, W, C : OneDailyEach(RawDailies(types), N, W, C)
<1> DEFINE D == {i \in DOMAIN CellsInTurn : types[CellsInTurn[i]] # "NONE"}
           its == Kept(CellsInTurn, D)
           at == InTurn(D)
           N == Cardinality(D)
           C == {"a", "b"}
           W == Cells \union {<<"wf1", c[1], c[2]>> : c \in Cells}
           chain(c) == IF types[c] = "ACTUAL" THEN <<<<"wf1", c[1], c[2]>>>> ELSE None
           daily(c) == [id |-> c, station |-> Station(c[1]), type |-> types[c], day |-> c[2], weather |-> c,
                        codes |-> [k \in SixCodes |-> chain(c)]]
           raw == [i \in DOMAIN its |-> daily(its[i])]
<1>1. RawDailies(types) = raw
  BY DEF RawDailies, SixCodes
<1>2. DOMAIN CellsInTurn = 1 .. 6
  <2>1. 1 \in 1 .. 6
    OBVIOUS
  <2> QED
    BY <2>1, TurnOfCells
<1>3. D \in SUBSET (1 .. 6)
  BY <1>2
<1>4. Picks(its, CellsInTurn, at, N, D)
  <2> HIDE DEF D
  <2>1. 6 \in Nat
    OBVIOUS
  <2> QED
    BY <1>2, <1>3, <2>1, KeptPicks
<1> HIDE DEF D, its, at, N
<1>5. /\ N \in Nat /\ DOMAIN its = 1 .. N /\ at \in [1 .. N -> D]
      /\ \A i \in 1 .. N : its[i] = CellsInTurn[at[i]]
      /\ \A i, j \in 1 .. N : i < j <=> at[i] < at[j]
  BY <1>4 DEF Picks
<1>6. \A i \in 1 .. N : /\ at[i] \in 1 .. 6 /\ its[i] \in Cells
                        /\ its[i][1] = IF at[i] <= 3 THEN "a" ELSE "b"
                        /\ its[i][2] = IF at[i] <= 3 THEN at[i] ELSE at[i] - 3
  <2> SUFFICES ASSUME NEW i \in 1 .. N
               PROVE  /\ at[i] \in 1 .. 6 /\ its[i] \in Cells
                      /\ its[i][1] = IF at[i] <= 3 THEN "a" ELSE "b"
                      /\ its[i][2] = IF at[i] <= 3 THEN at[i] ELSE at[i] - 3
    OBVIOUS
  <2> DEFINE p == at[i]
  <2>1. p \in 1 .. 6 /\ its[i] = CellsInTurn[p]
    BY <1>3, <1>5
  <2> HIDE DEF p
  <2>2. /\ CellsInTurn[p] \in Cells
        /\ CellsInTurn[p][1] = IF p <= 3 THEN "a" ELSE "b"
        /\ CellsInTurn[p][2] = IF p <= 3 THEN p ELSE p - 3
    BY <2>1, TurnOfCells
  <2> QED
    BY <2>1, <2>2 DEF p
<1>7. ASSUME NEW c \in Cells
      PROVE  /\ c[1] \in C /\ c[2] \in Int /\ c \in W
             /\ [k \in SixCodes |-> chain(c)] \in [SixCodes -> Chains(W)]
  <2>1. c[1] \in C /\ c[2] \in Int
    BY DEF Cells
  <2>2. chain(c) \in Chains(W)
    <3>1. <<"wf1", c[1], c[2]>> \in W
      OBVIOUS
    <3> HIDE DEF W
    <3> DEFINE w == <<"wf1", c[1], c[2]>>
    <3>2. w \in W
      BY <3>1
    <3> HIDE DEF w
    <3>3. <<w>> \in Seq(W)
      BY <3>2
    <3>4. <<<<"wf1", c[1], c[2]>>>> \in Seq(W)
      BY <3>3 DEF w
    <3> QED
      BY <3>4 DEF Chains
  <2> HIDE DEF chain
  <2> QED
    BY <2>1, <2>2
<1>8. \A i \in 1 .. N : raw[i] = daily(its[i])
  BY <1>5
<1>9. \A c \in Cells : /\ daily(c).station.code = c[1] /\ daily(c).day = c[2] /\ daily(c).weather = c
                       /\ daily(c).codes = [k \in SixCodes |-> chain(c)]
  BY DEF Station
<1>10. DOMAIN raw = 1 .. N
  BY <1>5
<1> HIDE DEF daily, raw, W, chain
<1>11. \A i \in 1 .. N : /\ raw[i].station.code = its[i][1] /\ raw[i].day = its[i][2]
                         /\ raw[i].station.code \in C /\ raw[i].day \in Int /\ raw[i].weather \in W
                         /\ raw[i].codes \in [SixCodes -> Chains(W)]
  <2> SUFFICES ASSUME NEW i \in 1 .. N
               PROVE  /\ raw[i].station.code = its[i][1] /\ raw[i].day = its[i][2]
                      /\ raw[i].station.code \in C /\ raw[i].day \in Int /\ raw[i].weather \in W
                      /\ raw[i].codes \in [SixCodes -> Chains(W)]
    OBVIOUS
  <2> DEFINE c == its[i]
  <2>1. c \in Cells /\ raw[i] = daily(c)
    BY <1>6, <1>8
  <2> HIDE DEF c, C
  <2>2. /\ raw[i].station.code = c[1] /\ raw[i].day = c[2] /\ raw[i].weather = c
        /\ raw[i].codes = [k \in SixCodes |-> chain(c)]
    BY <1>9, <2>1
  <2>3. /\ c[1] \in C /\ c[2] \in Int /\ c \in W
        /\ [k \in SixCodes |-> chain(c)] \in [SixCodes -> Chains(W)]
    BY <1>7, <2>1
  <2>4. c = its[i]
    BY DEF c
  <2> QED
    BY <2>2, <2>3, <2>4
<1>12. ASSUME NEW i \in 1 .. N, NEW j \in 1 .. N, raw[i].station.code = raw[j].station.code
       PROVE  /\ raw[i].day = raw[j].day => i = j
              /\ i < j => raw[i].day < raw[j].day
  <2>1. its[i][1] = its[j][1] /\ raw[i].day = its[i][2] /\ raw[j].day = its[j][2]
    BY <1>11, <1>12
  <2>2. at[i] <= 3 <=> at[j] <= 3
    BY <1>6, <2>1
  <2>3. /\ its[i][2] = its[j][2] <=> at[i] = at[j]
        /\ its[i][2] < its[j][2] <=> at[i] < at[j]
    BY <1>6, <2>2
  <2>4. ~(i < j) /\ ~(j < i) => i = j
    BY <1>5
  <2> QED
    BY <1>5, <1>6, <2>1, <2>3, <2>4
<1>13. OneDailyEach(raw, N, W, C)
  <2>1. N \in Nat /\ DOMAIN raw = 1 .. N
    BY <1>5, <1>10
  <2>2. \A p \in 1 .. N : /\ raw[p].station.code \in C /\ raw[p].day \in Int /\ raw[p].weather \in W
                          /\ raw[p].codes \in [SixCodes -> Chains(W)]
    BY <1>11
  <2>3. \A p, q \in 1 .. N :
          WillBeMapped(raw[p]) /\ WillBeMapped(raw[q]) /\ raw[p].station.code = raw[q].station.code =>
            /\ raw[p].day = raw[q].day => p = q
            /\ p < q /\ raw[p].type = "FORECAST" /\ raw[q].type = "FORECAST" => raw[p].day < raw[q].day
    BY <1>12
  <2> HIDE DEF C
  <2> QED
    BY <2>1, <2>2, <2>3, Zenon DEF OneDailyEach
<1> QED
  BY <1>1, <1>13

(* So the lists of WF1 and the determinates of the questions agree.        *)
THEOREM DeterminatesOfQuestions == asked = None /\ [][Ask]_<<topic, asked>> => []DeterminatesAgree
<1>1. ASSUME About("determinates"), AskedOfTopic,
             NEW answer,
             answer = Determinates!get_determinates_for_date_range(RawDailies(asked.types), asked.rows, {"a", "b"},
                                                                   asked.known, 2, 3),
             answer # None
      PROVE  /\ Determinates!OneForecastEach(answer) /\ Determinates!ForecastsContinue(answer)
             /\ Determinates!ObservedAreShown(answer, Determinates!get_observed_dailies(RawDailies(asked.types),
                                                                                       asked.known, 2, 3))
  <2>1. Questions("determinates") = DeterminateQuestions
    BY DEF Questions
  <2>2. asked \in DeterminateQuestions
    BY <1>1, <2>1 DEF About, AskedOfTopic
  <2>3. /\ asked.types \in [Cells -> {"NONE", "ACTUAL", "FORECAST"}]
        /\ asked.rows \in SUBSET Forecasts /\ asked.known \in {{"a"}, {"a", "b"}}
    BY <2>2 DEF DeterminateQuestions
  <2> DEFINE dailies == RawDailies(asked.types)
             rows == asked.rows
             known == asked.known
             codes == {"a", "b"}
             first == 2
             last == 3
  <2>4. PICK N, W, C : OneDailyEach(dailies, N, W, C)
    BY <2>3, DailiesOfQuestions
  <2>5. StampedOnce(rows)
    BY <2>3, RowsAreStampedOnce
  <2>6. known \in SUBSET codes /\ first \in Int
    BY <2>3
  <2>7. answer = Determinates!get_determinates_for_date_range(dailies, rows, codes, known, first, last)
    BY <1>1
  <2> HIDE DEF dailies, rows, known, codes, first, last
  <2>8. /\ Determinates!OneForecastEach(answer)
        /\ Determinates!ForecastsContinue(answer)
        /\ Determinates!ObservedAreShown(answer, Determinates!get_observed_dailies(dailies, known, first, last))
    BY <1>1, <2>4, <2>5, <2>6, <2>7, DeterminatesAreWhole
  <2> QED
    BY <2>8 DEF dailies, known, first, last
<1>2. AskedOfTopic => DeterminatesAgree
  BY <1>1, Wf1OfQuestions DEF DeterminatesAgree
<1> QED
  BY <1>2, QuestionsAreAsked, PTL

-----------------------------------------------------------------------------
(* No answer of the HFI calculator is lost but to a store it crosses with. *)
THEOREM NoAnswerIsLost ==
  ASSUME Parameters
  PROVE  ServicesSpec => []NothingIsLost
  BY RequestsImplement, LostOnlyToCrossingStores, PTL

(* An area whose stations changed is not shown as ready to anyone, unless  *)
(* its update was rolled back or crossed with a store.                     *)
THEOREM ClearedAreasStayNotReady ==
  ASSUME Parameters
  PROVE  ServicesSpec => []ClearedAreasAreNotReady
  BY RequestsImplement, ChangedAreasLoseReadiness, PTL

(* The stations of an area are numbered without a gap until a handler that *)
(* has not read them as they are changes them.                             *)
THEOREM OrdersHaveNoGap ==
  ASSUME Admin!Parameters
  PROVE  ServicesSpec => []OrdersAreConsecutive
<1>1. Admin!Spec => [](Admin!TypeOK /\ Admin!OrdersAreConsecutive)
  BY Admin!NumbersHaveNoGap
<1> QED
  BY <1>1, AdminImplements, PTL DEF OrdersAreConsecutive

(* The stations requested on an up to date page are removed, and no others *)
(* but those that the request removes from another area.                   *)
THEOREM RequestedStationsAreRemoved ==
  ASSUME Admin!Parameters
  PROVE  ServicesSpec => RemovalsAreExact
<1>1. Admin!Spec => Admin!RemovalsAreExact
  BY Admin!RowsNameTheirStations
<1> QED
  BY <1>1, AdminImplements, PTL DEF RemovalsAreExact

(* No page of dailies outlives a submission to WF1, whoever else reads.    *)
THEOREM DailiesAreCurrent ==
  ASSUME Morecast!Parameters
  PROVE  ServicesSpec => []CachedDailiesAreCurrent
<1>1. Morecast!Spec => []Morecast!CachedDailiesAreCurrent
  BY Morecast!CacheIsCurrent
<1> QED
  BY <1>1, MorecastImplements, PTL DEF CachedDailiesAreCurrent

(* The database never shows a forecast that WF1 was not given.             *)
THEOREM ForecastsAgree ==
  ASSUME Morecast!Parameters
  PROVE  ServicesSpec => []DatabaseAgreesWithWf1
<1>1. Morecast!Spec => []Morecast!DatabaseAgreesWithWf1
  BY Morecast!DatabaseAgrees
<1> QED
  BY <1>1, MorecastImplements, PTL DEF DatabaseAgreesWithWf1

(* A run of NOAA is marked complete by the job that has its files, and only*)
(* then, but for the runs of midnight.                                     *)
THEOREM RunsAreMarked ==
  ASSUME NoaaParameters
  PROVE  ServicesSpec => []CompletedRunsAreMarked
  BY NoaaImplements, CompletenessNeverLies, LaterRunsAreMarked, PTL DEF CompletedRunsAreMarked

(* Precipitation of a run of NAM adds up, whichever hours it rains.        *)
THEOREM PrecipitationIsWhole ==
  ASSUME NamParameters
  PROVE  ServicesSpec => []PrecipitationAddsUp
  BY NamImplements, NamAddsUp, PTL DEF PrecipitationAddsUp

(* A computed raster covers the 24 hours to its hour.                      *)
THEOREM ComputedRastersCoverOneDay ==
  ASSUME RdpsParameters
  PROVE  ServicesSpec => []ComputedCoversOneDay
<1>1. Rdps!Spec => []Rdps!ComputedCoversOneDay
  BY RastersCoverOneDay
<1> QED
  BY <1>1, RdpsImplements, PTL DEF ComputedCoversOneDay

(* Whatever of a job fails, a row stands for an object that is stored.     *)
THEOREM RowsStandForObjects ==
  ASSUME RdpsParameters
  PROVE  ServicesSpec => []RowsNameTheirObjects
<1>1. Rdps!Spec => []Rdps!SkippedUrlsAreStored
  BY RowsKeepTheirObjects
<1>2. Rdps!Spec => []Rdps!StoredUnderItsOwnDate
  BY MidnightOnly
<1> QED
  BY <1>1, <1>2, RdpsImplements, PTL DEF RowsNameTheirObjects

(* No reading of WF1 is lost to a missed run or counted twice.             *)
THEOREM ReadingsStay ==
  ASSUME ReadingsParameters
  PROVE  ServicesSpec => []ReadingsAreKept
  BY ReadingsImplements, ReadingsKept, PTL DEF ReadingsAreKept

(* A daily of the HFI calculator has a whole prediction or none, and the   *)
(* fire behaviour calculator answers each of its stations by itself, with  *)
(* a whole advisory or none.                                               *)
THEOREM BehaviourStaysWhole ==
  ASSUME Apart
  PROVE  ServicesSpec => []BehaviourIsWhole
<1>1. ServicesInit => asked = None
  BY DEF ServicesInit
<1>2. [ServicesNext]_<<notAsked, api, jobsVars>> => [Ask]_<<topic, asked>>
  BY DEF ServicesNext, notAsked
<1> QED
  BY <1>1, <1>2, BehaviourOfQuestions, PTL DEF ServicesSpec

(* Each reading is learned once, with the newest prediction for its hour,  *)
(* and a prediction is adjusted where its hour was learned.                *)
THEOREM LearnedOnceAlways ==
  ASSUME BiasApart
  PROVE  ServicesSpec => []LearnedOnce
<1>1. ServicesInit => asked = None
  BY DEF ServicesInit
<1>2. [ServicesNext]_<<notAsked, api, jobsVars>> => [Ask]_<<topic, asked>>
  BY DEF ServicesNext, notAsked
<1> QED
  BY <1>1, <1>2, BiasOfQuestions, PTL DEF ServicesSpec

(* The stages of the consumer agree on the pixels of a zone, and the views *)
(* of the API on what is stored of them.                                   *)
THEOREM AdvisoriesAlwaysAgree ==
  ASSUME AdvisoryApart
  PROVE  ServicesSpec => []AdvisoriesAgree
<1>1. ServicesInit => asked = None
  BY DEF ServicesInit
<1>2. [ServicesNext]_<<notAsked, api, jobsVars>> => [Ask]_<<topic, asked>>
  BY DEF ServicesNext, notAsked
<1> QED
  BY <1>1, <1>2, AdvisoriesOfQuestions, PTL DEF ServicesSpec

(* The critical hours of a day are those at which its diurnal curve reaches*)
(* the critical FFMC, and those of a zone lie within its stations'.        *)
THEOREM HoursStayCritical == ServicesSpec => []HoursAreCritical
<1>1. ServicesInit => asked = None
  BY DEF ServicesInit
<1>2. [ServicesNext]_<<notAsked, api, jobsVars>> => [Ask]_<<topic, asked>>
  BY DEF ServicesNext, notAsked
<1> QED
  BY <1>1, <1>2, HoursOfQuestions, PTL DEF ServicesSpec

(* A C-Haines chart shows all that is not low under its severity, the worse*)
(* on top, and its predictions follow each other.                          *)
THEOREM ChartsStayWhole == ServicesSpec => []ChartIsWhole
<1>1. ServicesInit => asked = None
  BY DEF ServicesInit
<1>2. [ServicesNext]_<<notAsked, api, jobsVars>> => [Ask]_<<topic, asked>>
  BY DEF ServicesNext, notAsked
<1> QED
  BY <1>1, <1>2, ChartOfQuestions, PTL DEF ServicesSpec

(* The results of a prep period are whole in every planning area, the daily*)
(* sheets show the dailies of their days, and a period has the days that   *)
(* are asked for.                                                          *)
THEOREM PrepResultsStayWhole == ASSUME Apart PROVE ServicesSpec => []PrepResultIsWhole
<1>1. ServicesInit => asked = None
  BY DEF ServicesInit
<1>2. [ServicesNext]_<<notAsked, api, jobsVars>> => [Ask]_<<topic, asked>>
  BY DEF ServicesNext, notAsked
<1> QED
  BY <1>1, <1>2, PrepOfQuestions, PTL DEF ServicesSpec

(* The lists made of WF1's stations and dailies agree; of a station and day *)
(* there is one forecast or none, and its moisture codes continue those of *)
(* the day before.                                                         *)
THEOREM DeterminatesStayAgreed == ServicesSpec => []DeterminatesAgree
<1>1. ServicesInit => asked = None
  BY DEF ServicesInit
<1>2. [ServicesNext]_<<notAsked, api, jobsVars>> => [Ask]_<<topic, asked>>
  BY DEF ServicesNext, notAsked
<1> QED
  BY <1>1, <1>2, DeterminatesOfQuestions, PTL DEF ServicesSpec

(* Everything the components keep has its type.                            *)
THEOREM ServicesTypeCorrect ==
  ASSUME Parameters, Admin!Parameters, Morecast!Parameters, NoaaParameters, NamParameters,
         RdpsParameters, ReadingsParameters
  PROVE  ServicesSpec => []TypesOK
<1>1. Admin!Spec => [](Admin!TypeOK /\ Admin!OrdersAreConsecutive)
  BY Admin!NumbersHaveNoGap
<1>2. Morecast!Spec => []Morecast!TypeOK
  BY Morecast!TypeCorrect
<1>3. Rdps!Spec => []Rdps!TypeOK
  BY RdpsTypeCorrect
<1>4. ServicesSpec => [](Noaa!TypeOK /\ Nam!TypeOK /\ Rdps!TypeOK /\ Actuals!TypeOK)
  BY <1>3, NoaaImplements, NoaaTypeCorrect, NamImplements, NamAddsUp, RdpsImplements,
     ReadingsImplements, ReadingsKept, PTL
<1> QED
  BY <1>1, <1>2, <1>4, TopicsAreKnown, RequestsImplement, TypeCorrect, AdminImplements,
     MorecastImplements, PTL DEF TypesOK, JobTypesOK
===============================================================================
