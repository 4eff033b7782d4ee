-------------------------- MODULE CalculationsProofs --------------------------
(***************************************************************************)
(* Calculations of MCCalculations for every input: the fire behaviour of a *)
(* station, for the HFI calculator and for the fire behaviour calculator,  *)
(* what the bias of a weather model is learned from, what the stages and   *)
(* the views of an advisory make of its rasters, the critical hours of a   *)
(* station and of a zone, the placemarks of a C-Haines chart, the results  *)
(* of a prep period, and the lists and determinates made of WF1's dailies. *)
(* That the questions of the run are such inputs is in ServicesProofs.     *)
(***************************************************************************)
EXTENDS MCCalculations, Lists, TLAPS, FiniteSetTheorems, SequenceTheorems, WellFoundedInduction

\* What stands for no number is told from every number and kind of fire, and from the
\* records of an answer.
NoNumbers == {None, Returned} \union Hfi!Errors
MaybeNumber == Int \union {None}
Kinds == {"SUR", "IC", "CC"}

AdvisoriesOf(hours) ==
  [hfi : Int, ros : Int, fire_type : Kinds, cfb : Int, flame_length : Int,
   sixty_minute_fire_size : Int, thirty_minute_fire_size : Int, critical_hours : hours]

Apart ==
  /\ None # Returned /\ None \notin Hfi!Errors /\ Returned \notin Hfi!Errors
  /\ CffdrsError # InputError /\ CffdrsError # OtherError /\ InputError # OtherError
  /\ NoNumbers \intersect (Int \union Kinds) = {}
  /\ Hfi!Errors \intersect
       [ros : MaybeNumber, hfi : MaybeNumber, intensity_group : MaybeNumber,
        sixty_minute_fire_size : MaybeNumber, fire_type : Kinds \union {None}] = {}
  /\ None \notin AdvisoriesOf(MaybeNumber)

(* What a daily of the HFI calculator has: crown base height and crown fuel *)
(* load are among FUEL_TYPE_DEFAULTS, and the row of a mixed fuel type has  *)
(* its percentage of conifer or of dead fir.                                *)
FuelInputs(f) ==
  {x \in [pc : MaybeNumber, pdf : MaybeNumber, cc : MaybeNumber, cbh : Int, cfl : Int,
          bui : MaybeNumber, ffmc : MaybeNumber, isi : MaybeNumber, ws : MaybeNumber,
          cfbR : Int, hfiR : Int] :
     /\ f \in {"M1", "M2"} => x.pc # None
     /\ f \in {"M3", "M4"} => x.pdf # None}

LEMMA Numbers ==
  ASSUME Apart PROVE \A x \in Int \union Kinds : Hfi!IsNumber(x)
  BY DEF Apart, Hfi!IsNumber, NoNumbers

LEMMA AreNumbers ==
  ASSUME Apart, NEW x \in Int
  PROVE  Hfi!IsNumber(x) /\ x # None /\ x # Returned /\ x \notin Hfi!Errors
  BY DEF Apart, Hfi!IsNumber, NoNumbers

LEMMA RWorks ==
  ASSUME Apart, NEW S \in SUBSET Int, NEW n PROVE Hfi!R(S, n) = n
  BY AreNumbers DEF Hfi!R

(* Calls that end well, and the first that does not.                       *)
LEMMA NoError ==
  ASSUME NEW calls, \A i \in DOMAIN calls : calls[i] \notin Hfi!Errors, NEW result
  PROVE  Hfi!Unless(calls, result) = result
  BY DEF Hfi!Unless

LEMMA FirstError ==
  ASSUME NEW S, NEW calls \in Seq(S), NEW i \in DOMAIN calls, calls[i] \in Hfi!Errors,
         \A j \in 1 .. i - 1 : calls[j] \notin Hfi!Errors, NEW result
  PROVE  Hfi!Unless(calls, result) = calls[i]
<1> DEFINE First(k) == calls[k] \in Hfi!Errors /\ \A j \in 1 .. k - 1 : calls[j] \notin Hfi!Errors
           c == CHOOSE k \in DOMAIN calls : First(k)
<1>1. First(i)
  OBVIOUS
<1>2. c \in DOMAIN calls /\ First(c)
  BY <1>1
<1> HIDE DEF c
<1>3. DOMAIN calls = 1 .. Len(calls) /\ Len(calls) \in Nat
  OBVIOUS
<1>4. c = i
  BY <1>1, <1>2, <1>3
<1> QED
  BY <1>4 DEF Hfi!Unless, c

(* Intensity groups.                                                       *)
LEMMA GroupsAreKnown == ASSUME NEW h \in Int PROVE Hfi!calculate_intensity_group(h) \in 1 .. 5
  BY DEF Hfi!calculate_intensity_group

-----------------------------------------------------------------------------
(* With all that the fuel type needs, a function of R gives a number.      *)
LEMMA FuelIsKnown ==
  ASSUME NEW f \in Hfi!FuelTypeEnum, NEW x \in FuelInputs(f),
         Hfi!is_grass_fuel_type(f) => x.cc # None
  PROVE  Hfi!OfFuel(f, x) \subseteq Int
<1>1. /\ x.cc \in MaybeNumber /\ x.cbh \in Int
      /\ f \in {"M1", "M2"} => x.pc \in Int
      /\ f \in {"M3", "M4"} => x.pdf \in Int
  BY DEF FuelInputs, MaybeNumber
<1> QED
  BY <1>1 DEF Hfi!OfFuel, Hfi!is_grass_fuel_type, MaybeNumber

LEMMA SpreadIsKnown ==
  ASSUME Apart, NEW f \in Hfi!FuelTypeEnum, NEW x \in FuelInputs(f),
         Hfi!is_grass_fuel_type(f) => x.cc # None,
         x.ws # None, x.bui # None, x.ffmc # None
  PROVE  /\ Hfi!surface_fuel_consumption(f, x) = Hfi!Num
         /\ Hfi!rate_of_spread(f, x, Hfi!Num, Hfi!Num) = IF x.isi = None THEN CffdrsError ELSE Hfi!Num
         /\ Hfi!back_rate_of_spread(f, x, x.ws, Hfi!Num, Hfi!Num) = Hfi!Num
         /\ Hfi!length_to_breadth_ratio(x.ws) = Hfi!Num
<1> DEFINE S == Hfi!OfFuel(f, x)
<1>1. /\ f \in {"M1", "M2"} => x.pc \in Int
      /\ x.bui \in Int /\ x.ffmc \in Int /\ x.ws \in Int /\ x.isi \in Int \union {None}
      /\ Hfi!Num \in Int /\ Hfi!Num # None
  BY AreNumbers DEF FuelInputs, MaybeNumber, Hfi!Num
<1>2. S \subseteq Int
  BY FuelIsKnown
<1> HIDE DEF S, Hfi!Num
<1>3. (IF f \in {"M1", "M2"} THEN {x.pc} ELSE {}) \in SUBSET Int
  BY <1>1
<1>4. Hfi!R(IF f \in {"M1", "M2"} THEN {x.pc} ELSE {}, Hfi!Num) = Hfi!Num
  BY <1>3, RWorks
<1>5. \A T \in {S \union {Hfi!Num}, S \union {x.ws}, {x.ws}} : Hfi!R(T, Hfi!Num) = Hfi!Num
  BY <1>1, <1>2, RWorks
<1> QED
  BY <1>1, <1>4, <1>5 DEF Hfi!surface_fuel_consumption, Hfi!rate_of_spread,
     Hfi!back_rate_of_spread, Hfi!length_to_breadth_ratio, S

LEMMA CrownsAreKnown ==
  ASSUME Apart, NEW f \in Hfi!FuelTypeEnum, NEW x \in FuelInputs(f), NEW ros \in Int
  PROVE  /\ Hfi!crown_fraction_burned(x, Hfi!Num, Hfi!Num, ros) = x.cfbR
         /\ Hfi!calculate_cfb(f, x, Hfi!Num, Hfi!Num, ros) \in Int
<1>1. x.cbh \in Int /\ x.cfbR \in Int /\ Hfi!Num \in Int /\ Hfi!Num # None /\ x.cbh # None
  BY AreNumbers DEF FuelInputs, Hfi!Num
<1> HIDE DEF Hfi!Num
<1>2. Hfi!R({x.cbh, Hfi!Num, ros}, x.cfbR) = x.cfbR
  BY <1>1, RWorks
<1> QED
  BY <1>1, <1>2 DEF Hfi!crown_fraction_burned, Hfi!calculate_cfb

LEMMA IntensityIsKnown ==
  ASSUME Apart, NEW f \in Hfi!FuelTypeEnum, NEW x \in FuelInputs(f),
         Hfi!is_grass_fuel_type(f) => x.cc # None,
         NEW ros \in Int, NEW cfb \in Int, NEW cfl \in Int
  PROVE  Hfi!head_fire_intensity(f, x, ros, cfb, cfl, Hfi!Num) = x.hfiR
<1> DEFINE S == (Hfi!OfFuel(f, x) \ {x.cc, x.cbh}) \union {cfb, cfl, Hfi!Num}
<1>1. Hfi!Num \in Int /\ cfb # None /\ cfl # None /\ S \subseteq Int
  BY FuelIsKnown, AreNumbers DEF Hfi!Num
<1> HIDE DEF S, Hfi!Num
<1>2. Hfi!total_fuel_consumption(f, x, cfb, cfl, Hfi!Num) = Hfi!Num
  BY <1>1, RWorks DEF Hfi!total_fuel_consumption, S
<1>3. Hfi!R({Hfi!Num, ros}, x.hfiR) = x.hfiR
  BY <1>1, RWorks
<1>4. Hfi!Unless(<<Hfi!Num>>, x.hfiR) = x.hfiR
  <2>1. \A i \in DOMAIN <<Hfi!Num>> : <<Hfi!Num>>[i] \notin Hfi!Errors
    BY <1>1, AreNumbers
  <2> QED
    BY <2>1, NoError
<1> QED
  BY <1>2, <1>3, <1>4 DEF Hfi!head_fire_intensity

LEMMA FireTypes ==
  ASSUME Apart, NEW f, NEW cfb \in Int PROVE Hfi!get_fire_type(f, cfb) \in Kinds
  BY AreNumbers DEF Hfi!get_fire_type, Kinds

LEMMA SizesAreKnown ==
  ASSUME Apart, NEW ros \in Int, NEW bros \in Int, NEW cfb \in Int, NEW lb \in Int
  PROVE  Hfi!get_fire_size(ros, bros, cfb, lb) = Hfi!Num
<1>1. Hfi!Num \in Int
  BY DEF Hfi!Num
<1> HIDE DEF Hfi!Num
<1>2. Hfi!fire_distance(ros, cfb) = Hfi!Num /\ Hfi!length_to_breadth_ratio_t(lb, cfb) = Hfi!Num
  BY <1>1, RWorks DEF Hfi!fire_distance, Hfi!length_to_breadth_ratio_t
<1>3. \A i \in DOMAIN <<Hfi!Num, Hfi!Num>> : <<Hfi!Num, Hfi!Num>>[i] \notin Hfi!Errors
  BY <1>1, AreNumbers
<1> QED
  BY <1>2, <1>3, NoError, AreNumbers DEF Hfi!get_fire_size

(* A prediction of calls that all went well has all of its parts.          *)
LEMMA CompletedCalls ==
  ASSUME Apart, NEW f, NEW calls \in Seq(Int), NEW cfb \in Int, NEW ros \in Int, NEW hfi \in Int,
         NEW size \in Int \union {None}
  PROVE  Hfi!CompletePrediction(f, calls, cfb, ros, hfi, size)
           = Hfi!FireBehaviourPrediction(ros, hfi, Hfi!calculate_intensity_group(hfi), size,
                                         Hfi!get_fire_type(f, cfb))
<1> DEFINE type == Hfi!get_fire_type(f, cfb)
           all == calls \o <<type, hfi>>
<1>1. type \in Int \union Kinds /\ hfi # None
  BY FireTypes, AreNumbers
<1> HIDE DEF type
<1>2. all \in Seq(Int \union Kinds)
  BY <1>1
<1> HIDE DEF all
<1>3. \A i \in DOMAIN all : all[i] \notin Hfi!Errors
  <2>1. \A i \in DOMAIN all : all[i] \in Int \union Kinds
    BY <1>2
  <2> QED
    BY <2>1 DEF Apart, NoNumbers
<1>4. Hfi!Unless(all, Hfi!FireBehaviourPrediction(ros, hfi, Hfi!calculate_intensity_group(hfi), size,
                                                  type))
        = Hfi!FireBehaviourPrediction(ros, hfi, Hfi!calculate_intensity_group(hfi), size, type)
  BY <1>3, NoError
<1> QED
  BY <1>1, <1>4 DEF Hfi!CompletePrediction, all, type

LEMMA WholePrediction ==
  ASSUME Apart, NEW f, NEW cfb \in Int, NEW ros \in Int, NEW hfi \in Int,
         NEW size \in Int \union {None}
  PROVE  LET p == Hfi!FireBehaviourPrediction(ros, hfi, Hfi!calculate_intensity_group(hfi), size,
                                              Hfi!get_fire_type(f, cfb))
         IN /\ p \notin Hfi!Errors /\ Hfi!OrNone(p) = p
            /\ \A v \in {"ros", "hfi", "intensity_group", "fire_type"} : Hfi!IsNumber(p[v])
            /\ p.sixty_minute_fire_size = size
<1> DEFINE group == Hfi!calculate_intensity_group(hfi)
           type == Hfi!get_fire_type(f, cfb)
           p == Hfi!FireBehaviourPrediction(ros, hfi, group, size, type)
<1>1. group \in 1 .. 5 /\ type \in Kinds
  BY GroupsAreKnown, FireTypes
<1> HIDE DEF group, type
<1>2. p \in [ros : MaybeNumber, hfi : MaybeNumber, intensity_group : MaybeNumber,
             sixty_minute_fire_size : MaybeNumber, fire_type : Kinds \union {None}]
  BY <1>1 DEF Hfi!FireBehaviourPrediction, MaybeNumber
<1>3. p \notin Hfi!Errors
  BY <1>2 DEF Apart
<1>4. Hfi!OrNone(p) = p
  BY <1>3 DEF Hfi!OrNone, Hfi!Errors
<1>5. \A v \in {"ros", "hfi", "intensity_group", "fire_type"} : p[v] \in Int \union Kinds
  BY <1>1 DEF Hfi!FireBehaviourPrediction
<1>6. \A v \in {"ros", "hfi", "intensity_group", "fire_type"} : Hfi!IsNumber(p[v])
  BY <1>5, Numbers
<1>7. p.sixty_minute_fire_size = size
  BY DEF Hfi!FireBehaviourPrediction
<1> QED
  BY <1>3, <1>4, <1>6, <1>7 DEF group, type

(* A prediction ends with the first of its calls that fails.               *)
LEMMA StoppedCalls ==
  ASSUME NEW f, NEW S, NEW calls \in Seq(S), NEW i \in DOMAIN calls, calls[i] \in Hfi!Errors,
         \A j \in 1 .. i - 1 : calls[j] \notin Hfi!Errors, NEW cfb, NEW ros, NEW hfi, NEW size
  PROVE  Hfi!CompletePrediction(f, calls, cfb, ros, hfi, size) = calls[i]
<1> DEFINE type == Hfi!get_fire_type(f, cfb)
           last == IF hfi = None THEN OtherError ELSE hfi
           all == calls \o <<type, last>>
           T == S \union {type, last}
<1>1. /\ calls \in Seq(T) /\ <<type, last>> \in Seq(T)
      /\ Len(calls) \in Nat /\ DOMAIN calls = 1 .. Len(calls)
  OBVIOUS
<1> HIDE DEF type, last, T
<1>2. /\ all \in Seq(T) /\ i \in DOMAIN all
      /\ \A k \in 1 .. i : all[k] = calls[k]
  BY <1>1
<1>3. all[i] \in Hfi!Errors /\ \A j \in 1 .. i - 1 : all[j] \notin Hfi!Errors
  BY <1>1, <1>2
<1> HIDE DEF all
<1>4. Hfi!Unless(all, Hfi!FireBehaviourPrediction(ros, hfi, Hfi!calculate_intensity_group(hfi), size,
                                                  type)) = all[i]
  BY <1>2, <1>3, FirstError
<1>5. all[i] = calls[i]
  BY <1>1, <1>2
<1> QED
  BY <1>4, <1>5 DEF Hfi!CompletePrediction, all, type, last

LEMMA AnswersToErrors ==
  ASSUME Apart
  PROVE  /\ Hfi!NoPrediction \notin Hfi!Errors
         /\ Hfi!OrNone(InputError) = Hfi!NoPrediction /\ Hfi!OrNone(CffdrsError) = Hfi!NoPrediction
         /\ Hfi!OrNone(OtherError) = OtherError /\ OtherError \in Hfi!Errors
<1>1. Hfi!NoPrediction \in [ros : MaybeNumber, hfi : MaybeNumber, intensity_group : MaybeNumber,
                            sixty_minute_fire_size : MaybeNumber,
                            fire_type : Kinds \union {None}]
  BY DEF Hfi!NoPrediction, Hfi!FireBehaviourPrediction, MaybeNumber
<1> QED
  BY <1>1 DEF Apart, Hfi!OrNone, Hfi!Errors

LEMMA WithoutIsi ==
  ASSUME Apart, NEW f \in Hfi!FuelTypeEnum, NEW x \in FuelInputs(f),
         Hfi!is_grass_fuel_type(f) => x.cc # None,
         x.ws # None, x.bui # None, x.ffmc # None, x.isi = None, f # "C7B"
  PROVE  Hfi!PredictionOfDaily(f, x) = Hfi!NoPrediction
<1> DEFINE cfb == Hfi!calculate_cfb(f, x, Hfi!Num, Hfi!Num, CffdrsError)
           hfi == IF None \in {cfb, x.cfl} THEN None
                  ELSE Hfi!head_fire_intensity(f, x, CffdrsError, cfb, x.cfl, Hfi!Num)
           lb == Hfi!length_to_breadth_ratio(x.ws)
           bros == Hfi!back_rate_of_spread(f, x, Hfi!calculate_wind_speed(x), Hfi!Num, Hfi!Num)
           size == Hfi!get_fire_size(CffdrsError, bros, cfb, lb)
           calls == <<Hfi!Num, CffdrsError, cfb, hfi, lb, bros, size>>
<1>1. /\ Hfi!surface_fuel_consumption(f, x) = Hfi!Num
      /\ Hfi!rate_of_spread(f, x, Hfi!Num, Hfi!Num) = CffdrsError
  BY SpreadIsKnown
<1>2. Hfi!PredictionOfDaily(f, x)
        = Hfi!OrNone(Hfi!PredictionOfSpread(f, x, Hfi!Num, Hfi!Num, CffdrsError, cfb))
  BY <1>1 DEF Hfi!PredictionOfDaily, Hfi!calculate_fire_behaviour_prediction,
     Hfi!foliar_moisture_content, Hfi!calculate_fire_behaviour_prediction_using_cffdrs
<1>3. Hfi!PredictionOfSpread(f, x, Hfi!Num, Hfi!Num, CffdrsError, cfb)
        = Hfi!CompletePrediction(f, calls, cfb, CffdrsError, hfi, size)
  BY DEF Hfi!PredictionOfSpread
<1>4. Hfi!Num \notin Hfi!Errors /\ CffdrsError \in Hfi!Errors
  <2>1. Hfi!Num \in Int
    BY DEF Hfi!Num
  <2> QED
    BY <2>1, AreNumbers DEF Hfi!Errors
<1> HIDE DEF cfb, hfi, lb, bros, size, Hfi!Num
<1>5. /\ calls \in Seq({Hfi!Num, CffdrsError, cfb, hfi, lb, bros, size})
      /\ 2 \in DOMAIN calls /\ calls[2] = CffdrsError
      /\ \A j \in 1 .. 2 - 1 : calls[j] \notin Hfi!Errors
  BY <1>4
<1> HIDE DEF calls
<1>6. Hfi!CompletePrediction(f, calls, cfb, CffdrsError, hfi, size) = CffdrsError
  BY <1>4, <1>5, StoppedCalls
<1> QED
  BY <1>2, <1>3, <1>6, AnswersToErrors

LEMMA C7BWithoutBui ==
  ASSUME Apart, NEW x \in FuelInputs("C7B"), x.cc # None, x.ws # None, x.bui = 0, x.ffmc # None
  PROVE  Hfi!PredictionOfDaily("C7B", x) = OtherError
<1> DEFINE sfc == Hfi!surface_fuel_consumption("C7", x)
           cfb == Hfi!crown_fraction_burned(x, Hfi!Num, sfc, OtherError)
           hfi == Hfi!head_fire_intensity("C7", x, OtherError, cfb, x.cfl, sfc)
           calls == <<OtherError, sfc, cfb, hfi>>
<1>1. x.bui # None
  BY AreNumbers
<1>2. Hfi!PredictionOfDaily("C7B", x)
        = Hfi!OrNone(Hfi!CompletePrediction("C7B", calls, cfb, OtherError, hfi, None))
  BY <1>1 DEF Hfi!PredictionOfDaily, Hfi!calculate_fire_behaviour_prediction,
     Hfi!foliar_moisture_content, Hfi!calculate_fire_behaviour_prediction_using_c7b,
     Hfi!c7b_rate_of_spread
<1> HIDE DEF sfc, cfb, hfi
<1>3. calls \in Seq({OtherError, sfc, cfb, hfi}) /\ 1 \in DOMAIN calls /\ calls[1] = OtherError
      /\ \A j \in 1 .. 1 - 1 : calls[j] \notin Hfi!Errors
  OBVIOUS
<1> HIDE DEF calls
<1>4. Hfi!CompletePrediction("C7B", calls, cfb, OtherError, hfi, None) = OtherError
  BY <1>3, StoppedCalls, AnswersToErrors
<1> QED
  BY <1>2, <1>4, AnswersToErrors

(* A whole prediction, with a size or without.                             *)
HasAllParts(p, size) ==
  /\ p \notin Hfi!Errors
  /\ \A v \in {"ros", "hfi", "intensity_group", "fire_type"} : Hfi!IsNumber(p[v])
  /\ p.sixty_minute_fire_size = size
  /\ p.intensity_group \in 1 .. 5

LEMMA CompletedIsWhole ==
  ASSUME Apart, NEW f, NEW calls \in Seq(Int), NEW cfb \in Int, NEW ros \in Int, NEW hfi \in Int,
         NEW size \in Int \union {None}
  PROVE  HasAllParts(Hfi!OrNone(Hfi!CompletePrediction(f, calls, cfb, ros, hfi, size)), size)
<1> DEFINE p == Hfi!FireBehaviourPrediction(ros, hfi, Hfi!calculate_intensity_group(hfi), size,
                                            Hfi!get_fire_type(f, cfb))
<1>1. Hfi!CompletePrediction(f, calls, cfb, ros, hfi, size) = p
  BY CompletedCalls
<1>2. /\ p \notin Hfi!Errors /\ Hfi!OrNone(p) = p
      /\ \A v \in {"ros", "hfi", "intensity_group", "fire_type"} : Hfi!IsNumber(p[v])
      /\ p.sixty_minute_fire_size = size
  BY WholePrediction
<1>3. p.intensity_group \in 1 .. 5
  BY GroupsAreKnown DEF Hfi!FireBehaviourPrediction
<1> QED
  BY <1>1, <1>2, <1>3 DEF HasAllParts

LEMMA WithIsi ==
  ASSUME Apart, NEW f \in Hfi!FuelTypeEnum, NEW x \in FuelInputs(f),
         Hfi!is_grass_fuel_type(f) => x.cc # None,
         x.ws # None, x.bui # None, x.ffmc # None, x.isi # None, f # "C7B"
  PROVE  HasAllParts(Hfi!PredictionOfDaily(f, x), Hfi!Num)
<1> DEFINE cfb == Hfi!calculate_cfb(f, x, Hfi!Num, Hfi!Num, Hfi!Num)
           calls == <<Hfi!Num, Hfi!Num, cfb, x.hfiR, Hfi!Num, Hfi!Num, Hfi!Num>>
<1>1. /\ Hfi!surface_fuel_consumption(f, x) = Hfi!Num
      /\ Hfi!rate_of_spread(f, x, Hfi!Num, Hfi!Num) = Hfi!Num
      /\ Hfi!back_rate_of_spread(f, x, x.ws, Hfi!Num, Hfi!Num) = Hfi!Num
      /\ Hfi!length_to_breadth_ratio(x.ws) = Hfi!Num
  BY SpreadIsKnown
<1>2. Hfi!Num \in Int /\ x.cfl \in Int /\ x.hfiR \in Int /\ x.ws \in Int
  BY DEF Hfi!Num, FuelInputs, MaybeNumber
<1>3. cfb \in Int
  BY <1>2, CrownsAreKnown
<1> HIDE DEF Hfi!Num, cfb
<1>4. cfb # None /\ x.cfl # None
  BY <1>2, <1>3, AreNumbers
<1>5. Hfi!head_fire_intensity(f, x, Hfi!Num, cfb, x.cfl, Hfi!Num) = x.hfiR
  BY <1>2, <1>3, IntensityIsKnown
<1>6. Hfi!get_fire_size(Hfi!Num, Hfi!Num, cfb, Hfi!Num) = Hfi!Num
  BY <1>2, <1>3, SizesAreKnown
<1>7. Hfi!PredictionOfDaily(f, x)
        = Hfi!OrNone(Hfi!PredictionOfSpread(f, x, Hfi!Num, Hfi!Num, Hfi!Num, cfb))
  BY <1>1 DEF Hfi!PredictionOfDaily, Hfi!calculate_fire_behaviour_prediction,
     Hfi!foliar_moisture_content, Hfi!calculate_fire_behaviour_prediction_using_cffdrs, cfb
<1>8. Hfi!PredictionOfSpread(f, x, Hfi!Num, Hfi!Num, Hfi!Num, cfb)
        = Hfi!CompletePrediction(f, calls, cfb, Hfi!Num, x.hfiR, Hfi!Num)
  BY <1>1, <1>4, <1>5, <1>6 DEF Hfi!PredictionOfSpread, Hfi!calculate_wind_speed
<1>9. calls \in Seq(Int)
  BY <1>2, <1>3
<1> HIDE DEF calls
<1>10. HasAllParts(Hfi!OrNone(Hfi!CompletePrediction(f, calls, cfb, Hfi!Num, x.hfiR, Hfi!Num)),
                   Hfi!Num)
  BY <1>2, <1>3, <1>9, CompletedIsWhole
<1> QED
  BY <1>7, <1>8, <1>10

LEMMA C7BWithBui ==
  ASSUME Apart, NEW x \in FuelInputs("C7B"), x.cc # None, x.ws # None, x.bui # None, x.bui # 0,
         x.ffmc # None
  PROVE  HasAllParts(Hfi!PredictionOfDaily("C7B", x), None)
<1> DEFINE calls == <<Hfi!Num, Hfi!Num, x.cfbR, x.hfiR>>
<1>1. /\ "C7" \in Hfi!FuelTypeEnum /\ x \in FuelInputs("C7") /\ ~Hfi!is_grass_fuel_type("C7")
      /\ x.cc \in Int /\ x.ws \in Int /\ x.bui \in Int /\ x.ffmc \in Int
      /\ Hfi!Num \in Int /\ x.cfl \in Int /\ x.hfiR \in Int /\ x.cfbR \in Int
  BY DEF Hfi!Num, FuelInputs, MaybeNumber, Hfi!FuelTypeEnum, Hfi!is_grass_fuel_type
<1> HIDE DEF Hfi!Num
<1>2. /\ Hfi!surface_fuel_consumption("C7", x) = Hfi!Num
      /\ Hfi!crown_fraction_burned(x, Hfi!Num, Hfi!Num, Hfi!Num) = x.cfbR
  BY <1>1, SpreadIsKnown, CrownsAreKnown
<1>3. Hfi!head_fire_intensity("C7", x, Hfi!Num, x.cfbR, x.cfl, Hfi!Num) = x.hfiR
  BY <1>1, IntensityIsKnown
<1>4. {x.ffmc, x.bui, x.ws, x.cc} \in SUBSET Int
  BY <1>1
<1>5. Hfi!R({x.ffmc, x.bui, x.ws, x.cc}, Hfi!Num) = Hfi!Num
  BY <1>4, RWorks
<1>6. Hfi!c7b_rate_of_spread(x) = Hfi!Num
  BY <1>5 DEF Hfi!c7b_rate_of_spread
<1>7. Hfi!PredictionOfDaily("C7B", x)
        = Hfi!OrNone(Hfi!CompletePrediction("C7B", calls, x.cfbR, Hfi!Num, x.hfiR, None))
  BY <1>2, <1>3, <1>6 DEF Hfi!PredictionOfDaily, Hfi!calculate_fire_behaviour_prediction,
     Hfi!foliar_moisture_content, Hfi!calculate_fire_behaviour_prediction_using_c7b
<1>8. calls \in Seq(Int)
  BY <1>1
<1> HIDE DEF calls
<1>9. HasAllParts(Hfi!OrNone(Hfi!CompletePrediction("C7B", calls, x.cfbR, Hfi!Num, x.hfiR, None)),
                  None)
  BY <1>1, <1>8, CompletedIsWhole
<1> QED
  BY <1>7, <1>9

(* A daily has a prediction or none, or ends with an error.                *)
DailyIsPredicted(p, f, x) ==
  \/ p = Hfi!NoPrediction
  \/ p = OtherError /\ f = "C7B" /\ x.bui = 0
  \/ f # "C7B" /\ HasAllParts(p, Hfi!Num)
  \/ f = "C7B" /\ HasAllParts(p, None)

LEMMA DailiesArePredicted ==
  ASSUME Apart, NEW f \in Hfi!FuelTypeEnum, NEW x \in FuelInputs(f)
  PROVE  DailyIsPredicted(Hfi!PredictionOfDaily(f, x), f, x)
<1> DEFINE p == Hfi!PredictionOfDaily(f, x)
<1>1. CASE None \in {x.ws, x.bui, x.ffmc} \/ (x.cc = None /\ Hfi!is_grass_fuel_type(f))
  <2>1. Hfi!calculate_fire_behaviour_prediction(f, x) = InputError
    BY <1>1 DEF Hfi!calculate_fire_behaviour_prediction
  <2>2. p = Hfi!NoPrediction
    BY <2>1, AnswersToErrors DEF Hfi!PredictionOfDaily
  <2> QED
    BY <2>2 DEF DailyIsPredicted
<1> DEFINE Known == /\ x.ws # None /\ x.bui # None /\ x.ffmc # None
                    /\ Hfi!is_grass_fuel_type(f) => x.cc # None
<1> HIDE DEF p
<1>2. CASE Known /\ f # "C7B" /\ x.isi = None
  BY <1>2, WithoutIsi DEF p, DailyIsPredicted
<1>3. CASE Known /\ f # "C7B" /\ x.isi # None
  BY <1>3, WithIsi DEF p, DailyIsPredicted
<1>4. CASE Known /\ f = "C7B" /\ x.bui = 0
  BY <1>4, C7BWithoutBui DEF p, DailyIsPredicted, Hfi!is_grass_fuel_type
<1>5. CASE Known /\ f = "C7B" /\ x.bui # 0
  BY <1>5, C7BWithBui DEF p, DailyIsPredicted, Hfi!is_grass_fuel_type
<1> QED
  BY <1>1, <1>2, <1>3, <1>4, <1>5 DEF p

(* A daily of the HFI calculator has a whole prediction or none, for every *)
(* fuel type, intensity and crown fraction, and weather that is known or   *)
(* not; an error only for C7B with a build-up index of zero.               *)
THEOREM PredictionsAreWhole ==
  ASSUME Apart, NEW f \in Hfi!FuelTypeEnum, NEW x \in FuelInputs(f)
  PROVE  Hfi!PredictionIsWhole(f, x)
<1> DEFINE p == Hfi!PredictionOfDaily(f, x)
<1> HIDE DEF p
<1>1. Hfi!Num \in Int
  BY DEF Hfi!Num
<1>2. Hfi!IsNumber(Hfi!Num) /\ ~Hfi!IsNumber(None)
  BY <1>1, AreNumbers DEF Hfi!IsNumber
<1> HIDE DEF Hfi!Num
<1>3. DailyIsPredicted(p, f, x)
  BY DailiesArePredicted DEF p
<1> QED
  BY <1>2, <1>3, AnswersToErrors DEF Hfi!PredictionIsWhole, p, HasAllParts, DailyIsPredicted

-----------------------------------------------------------------------------
(* The fire behaviour calculator.                                          *)
LEMMA FirstOfErrors ==
  ASSUME NEW S, NEW calls \in Seq(S), NEW i \in DOMAIN calls, calls[i] \in Hfi!Errors
  PROVE  \E k \in DOMAIN calls : /\ calls[k] \in Hfi!Errors
                                 /\ \A j \in 1 .. k - 1 : calls[j] \notin Hfi!Errors
<1> DEFINE T == {k \in DOMAIN calls : calls[k] \in Hfi!Errors}
           Less == {ss \in Nat \X Nat : ss[1] < ss[2]}
<1>1. DOMAIN calls = 1 .. Len(calls) /\ Len(calls) \in Nat /\ T \subseteq Nat /\ i \in T
  OBVIOUS
<1>2. IsWellFoundedOn(Less, Nat)
  BY NatLessThanWellFounded DEF OpToRel
<1> HIDE DEF Less
<1>3. PICK k \in T : \A j \in T : ~(<<j, k>> \in Less)
  BY <1>1, <1>2, WFMin
<1>4. ASSUME NEW j \in 1 .. k - 1 PROVE calls[j] \notin Hfi!Errors
  <2>1. j \in DOMAIN calls /\ j < k /\ j \in Nat /\ k \in Nat
    BY <1>1, <1>4
  <2>2. <<j, k>> \in Less
    BY <2>1 DEF Less
  <2> QED
    BY <1>3, <2>1, <2>2
<1> QED
  BY <1>4

(* What does not end with an error comes to its result.                    *)
LEMMA NoneFailed ==
  ASSUME NEW S, NEW calls \in Seq(S), NEW result, Hfi!Unless(calls, result) \notin Hfi!Errors
  PROVE  Hfi!Unless(calls, result) = result /\ \A i \in DOMAIN calls : calls[i] \notin Hfi!Errors
<1>1. ASSUME NEW i \in DOMAIN calls, calls[i] \in Hfi!Errors PROVE FALSE
  <2>1. PICK k \in DOMAIN calls : /\ calls[k] \in Hfi!Errors
                                  /\ \A j \in 1 .. k - 1 : calls[j] \notin Hfi!Errors
    BY <1>1, FirstOfErrors
  <2>2. Hfi!Unless(calls, result) = calls[k]
    BY <2>1, FirstError
  <2> QED
    BY <2>1, <2>2
<1> QED
  BY <1>1 DEF Hfi!Unless

LEMMA OneCall ==
  ASSUME NEW call, NEW result, Hfi!Unless(<<call>>, result) \notin Hfi!Errors
  PROVE  Hfi!Unless(<<call>>, result) = result /\ call \notin Hfi!Errors
<1>1. <<call>> \in Seq({call}) /\ 1 \in DOMAIN <<call>> /\ <<call>>[1] = call
  OBVIOUS
<1> DEFINE calls == <<call>>
<1> HIDE DEF calls
<1>2. Hfi!Unless(calls, result) = result /\ \A i \in DOMAIN calls : calls[i] \notin Hfi!Errors
  BY <1>1, NoneFailed DEF calls
<1> QED
  BY <1>1, <1>2 DEF calls

(* The parts of an advisory, where each of its calls ends well.            *)
LEMMA PartsOrErrors ==
  ASSUME Apart, NEW f, NEW x, x.cfbR \in Int, x.hfiR \in Int, NEW fmc, NEW sfc, NEW ros
  PROVE  /\ Hfi!rate_of_spread(f, x, fmc, sfc) \in Hfi!Errors \union {Hfi!Num}
         /\ Hfi!get_fire_type(f, Hfi!calculate_cfb(f, x, Hfi!Num, sfc, ros)) \notin Hfi!Errors =>
              Hfi!calculate_cfb(f, x, Hfi!Num, sfc, ros) \in Int
              /\ Hfi!get_fire_type(f, Hfi!calculate_cfb(f, x, Hfi!Num, sfc, ros)) \in Kinds
<1>1. /\ CffdrsError \in Hfi!Errors /\ OtherError \in Hfi!Errors
      /\ \A S, n : Hfi!R(S, n) \in {n, OtherError}
      /\ Hfi!Num \in Int /\ Hfi!Num # None
  BY AreNumbers DEF Hfi!Errors, Hfi!R, Hfi!Num
<1>2. Hfi!rate_of_spread(f, x, fmc, sfc) \in Hfi!Errors \union {Hfi!Num}
  BY <1>1 DEF Hfi!rate_of_spread
<1> DEFINE cfb == Hfi!calculate_cfb(f, x, Hfi!Num, sfc, ros)
<1>3. ASSUME Hfi!get_fire_type(f, cfb) \notin Hfi!Errors
      PROVE  cfb \in Int /\ Hfi!get_fire_type(f, cfb) \in Kinds
  <2>1. cfb \in {0, None, x.cfbR, OtherError}
    BY <1>1 DEF Hfi!calculate_cfb, Hfi!crown_fraction_burned
  <2>2. f = "D1" => cfb = 0
    BY DEF Hfi!calculate_cfb, Hfi!NoCrown
  <2>3. ~Hfi!IsNumber(None) /\ ~Hfi!IsNumber(OtherError)
    BY DEF Hfi!IsNumber, Hfi!Errors
  <2> HIDE DEF cfb
  <2>4. cfb \in Int
    BY <1>1, <1>3, <2>1, <2>2, <2>3 DEF Hfi!get_fire_type
  <2> QED
    BY <2>4, FireTypes
<1> QED
  BY <1>2, <1>3

LEMMA IntensityOrError ==
  ASSUME NEW f, NEW x, NEW ros, NEW cfb, NEW cfl, NEW sfc,
         Hfi!head_fire_intensity(f, x, ros, cfb, cfl, sfc) \notin Hfi!Errors
  PROVE  Hfi!head_fire_intensity(f, x, ros, cfb, cfl, sfc) = x.hfiR
<1> DEFINE tfc == Hfi!total_fuel_consumption(f, x, cfb, cfl, sfc)
<1>1. Hfi!head_fire_intensity(f, x, ros, cfb, cfl, sfc)
        = Hfi!Unless(<<tfc>>, Hfi!R({tfc, ros}, x.hfiR))
  BY DEF Hfi!head_fire_intensity
<1> HIDE DEF tfc
<1>2. Hfi!head_fire_intensity(f, x, ros, cfb, cfl, sfc) = Hfi!R({tfc, ros}, x.hfiR)
  BY <1>1, OneCall
<1> QED
  BY <1>2 DEF Hfi!R, Hfi!Errors

LEMMA SizeOrError ==
  ASSUME NEW ros, NEW bros, NEW cfb, NEW lb, Hfi!get_fire_size(ros, bros, cfb, lb) \notin Hfi!Errors
  PROVE  Hfi!get_fire_size(ros, bros, cfb, lb) = Hfi!Num
<1> DEFINE d == Hfi!fire_distance(ros, cfb)
           l == Hfi!length_to_breadth_ratio_t(lb, cfb)
           calls == <<d, l>>
<1>1. Hfi!get_fire_size(ros, bros, cfb, lb) \in {CffdrsError, Hfi!Unless(calls, Hfi!Num)}
  BY DEF Hfi!get_fire_size
<1> HIDE DEF d, l
<1>2. calls \in Seq({d, l})
  OBVIOUS
<1> HIDE DEF calls
<1>3. CffdrsError \in Hfi!Errors
  BY DEF Hfi!Errors
<1> QED
  BY <1>1, <1>2, <1>3, NoneFailed

LEMMA AdvisoryIsWhole ==
  ASSUME Apart, NEW f, NEW x, x.cfbR \in Int, x.hfiR \in Int, NEW critical,
         Hfi!calculate_fire_behaviour_advisory(f, x, critical) \notin Hfi!Errors
  PROVE  Hfi!calculate_fire_behaviour_advisory(f, x, critical) \in AdvisoriesOf({critical})
<1> DEFINE a == Hfi!calculate_fire_behaviour_advisory(f, x, critical)
           sfc == Hfi!surface_fuel_consumption(f, x)
           ros == Hfi!rate_of_spread(f, x, Hfi!Num, sfc)
           cfb == Hfi!calculate_cfb(f, x, Hfi!Num, sfc, ros)
           ros_t == Hfi!rate_of_spread_t(ros, cfb)
           cfb_t == Hfi!calculate_cfb(f, x, Hfi!Num, sfc, ros_t)
           lb == Hfi!length_to_breadth_ratio(x.ws)
           cfl == IF x.cfl = None THEN Hfi!Num ELSE x.cfl
           hfi == Hfi!head_fire_intensity(f, x, ros, cfb, cfl, sfc)
           hfi_t == Hfi!head_fire_intensity(f, x, ros_t, cfb_t, cfl, sfc)
           type == Hfi!get_fire_type(f, cfb)
           flame == Hfi!get_approx_flame_length(hfi)
           bros == Hfi!back_rate_of_spread(f, x, Hfi!calculate_wind_speed(x), Hfi!Num, sfc)
           size == Hfi!get_fire_size(ros, bros, cfb, lb)
           size_t == Hfi!get_fire_size(ros_t, bros, cfb_t, lb)
           calls == <<sfc, ros, cfb, ros_t, cfb_t, hfi, hfi_t, critical, type, flame, bros,
                      size, size_t>>
           answer == [hfi |-> hfi, ros |-> ros, fire_type |-> type, cfb |-> cfb, flame_length |-> flame,
                      sixty_minute_fire_size |-> size, thirty_minute_fire_size |-> size,
                      critical_hours |-> critical]
<1>1. a = Hfi!Unless(calls, answer)
  BY DEF Hfi!calculate_fire_behaviour_advisory, Hfi!AdvisoryOfSpread, Hfi!foliar_moisture_content
<1>2. ros \notin Hfi!Errors => ros = Hfi!Num
  BY PartsOrErrors
<1>3. type \notin Hfi!Errors => cfb \in Int /\ type \in Kinds
  BY PartsOrErrors
<1>4. hfi \notin Hfi!Errors => hfi = x.hfiR
  BY IntensityOrError
<1>5. flame \notin Hfi!Errors => flame = Hfi!Num
  BY DEF Hfi!get_approx_flame_length, Hfi!Errors
<1>6. size \notin Hfi!Errors => size = Hfi!Num
  BY SizeOrError
<1>7. Hfi!Num \in Int
  BY DEF Hfi!Num
<1> HIDE DEF a, sfc, ros, cfb, ros_t, cfb_t, lb, cfl, hfi, hfi_t, type, flame, bros, size, size_t,
             Hfi!Num
<1>8. calls \in Seq({sfc, ros, cfb, ros_t, cfb_t, hfi, hfi_t, critical, type, flame, bros, size, size_t})
  OBVIOUS
<1>9. /\ DOMAIN calls = 1 .. 13 /\ calls[2] = ros /\ calls[3] = cfb /\ calls[6] = hfi /\ calls[9] = type
      /\ calls[10] = flame /\ calls[12] = size
  OBVIOUS
<1> HIDE DEF calls
<1>10. a = answer /\ \A i \in DOMAIN calls : calls[i] \notin Hfi!Errors
  <2>1. Hfi!Unless(calls, answer) \notin Hfi!Errors
    BY <1>1 DEF a
  <2> HIDE DEF answer
  <2> QED
    BY <1>1, <1>8, <2>1, NoneFailed
<1>11. \A call \in {ros, cfb, hfi, type, flame, size} : call \notin Hfi!Errors
  BY <1>9, <1>10
<1>12. ros \in Int /\ cfb \in Int /\ hfi \in Int /\ type \in Kinds /\ flame \in Int /\ size \in Int
  BY <1>2, <1>3, <1>4, <1>5, <1>6, <1>7, <1>11
<1>13. answer \in AdvisoriesOf({critical})
  BY <1>12 DEF AdvisoriesOf
<1> QED
  BY <1>10, <1>13 DEF a

LEMMA WindIsOfADaily ==
  ASSUME NEW request, NEW yesterday, NEW daily,
         Hfi!calculate_wind_speed_result(request, yesterday, daily) \notin Hfi!Errors
  PROVE  Hfi!calculate_wind_speed_result(request, yesterday, daily).status
           = IF request.ws = None THEN daily.type ELSE "ADJUSTED"
<1> DEFINE bui == Hfi!bui_calc(daily.dmc, daily.dc)
           ws == IF request.ws = None THEN daily.ws ELSE request.ws
           ffmc == Hfi!fine_fuel_moisture_code(yesterday.ffmc, daily.temp, daily.rh, daily.precip, ws)
           isi == Hfi!initial_spread_index(ffmc, ws)
           fwi == Hfi!fire_weather_index(isi, bui)
           all == IF \A v \in {bui, ffmc, isi, ws, fwi} : Hfi!IsNumber(v) THEN Hfi!Num ELSE OtherError
           calls == <<bui, ffmc, isi, fwi, all>>
           answer == [ffmc |-> ffmc, bui |-> bui, isi |-> isi, ws |-> ws, fwi |-> fwi,
                      status |-> IF request.ws = None THEN daily.type ELSE "ADJUSTED"]
<1>1. Hfi!calculate_wind_speed_result(request, yesterday, daily) = Hfi!Unless(calls, answer)
  BY DEF Hfi!calculate_wind_speed_result, Hfi!WindResult
<1> HIDE DEF bui, ffmc, isi, fwi, all, ws
<1>2. calls \in Seq({bui, ffmc, isi, fwi, all})
  OBVIOUS
<1> HIDE DEF calls
<1>3. answer.status = IF request.ws = None THEN daily.type ELSE "ADJUSTED"
  OBVIOUS
<1> HIDE DEF answer
<1> QED
  BY <1>1, <1>2, <1>3, NoneFailed

LEMMA ProcessedIsWhole ==
  ASSUME Apart, NEW request, NEW its, its.cfbR \in Int, its.hfiR \in Int,
         its.daily.type \notin {"N/A", "ERROR"}, Hfi!process_request(request, its) \notin Hfi!Errors
  PROVE  /\ Hfi!process_request(request, its).status \notin {"N/A", "ERROR"}
         /\ Hfi!process_request(request, its).advisory \in AdvisoriesOf({its.critical})
<1> DEFINE wind == Hfi!calculate_wind_speed_result(request, its.yesterday, its.daily)
           x == [pc |-> request.pc, pdf |-> request.pdf, cc |-> request.cc, cbh |-> request.cbh,
                 cfl |-> request.cfl, bui |-> wind.bui, ffmc |-> wind.ffmc, isi |-> wind.isi,
                 ws |-> wind.ws, cfbR |-> its.cfbR, hfiR |-> its.hfiR]
           advisory == Hfi!calculate_fire_behaviour_advisory(request.fuel, x, its.critical)
           answer == [status |-> wind.status, advisory |-> advisory]
           p == Hfi!process_request(request, its)
<1>1. OtherError \in Hfi!Errors
  BY DEF Hfi!Errors
<1>2. p = Hfi!Unless(<<wind>>, Hfi!Unless(<<advisory>>, answer))
  BY <1>1 DEF Hfi!process_request, Hfi!AdvisoryInWind
<1>3. x.cfbR \in Int /\ x.hfiR \in Int
  OBVIOUS
<1> HIDE DEF wind, x
<1> HIDE DEF advisory
<1>4. p = Hfi!Unless(<<advisory>>, answer) /\ wind \notin Hfi!Errors
  BY <1>2, OneCall
<1>5. p = answer /\ advisory \notin Hfi!Errors
  BY <1>4, OneCall
<1>6. advisory \in AdvisoriesOf({its.critical})
  BY <1>3, <1>5, AdvisoryIsWhole DEF advisory
<1>7. wind.status \notin {"N/A", "ERROR"}
  BY <1>4, WindIsOfADaily DEF wind
<1> QED
  BY <1>5, <1>6, <1>7

(* The fire behaviour calculator answers each of its requests by itself,   *)
(* with all of the advisory or none of it, whatever is requested, whatever *)
(* WF1 knows, and wherever a calculation fails.                            *)
THEOREM StationsAreAnswered ==
  ASSUME Apart, NEW requests, NEW wf1,
         \A s \in DOMAIN wf1 :
           None \notin {wf1[s].daily, wf1[s].hourlies} =>
             /\ wf1[s].cfbR \in Int /\ wf1[s].hfiR \in Int
             /\ wf1[s].daily.type \notin {"N/A", "ERROR"}
             /\ None \notin AdvisoriesOf({wf1[s].critical})
  PROVE  Hfi!StationsAnswerForThemselves(requests, wf1)
<1> DEFINE answer == Hfi!get_stations_data(requests, wf1)
           Of(r) == LET its == wf1[r.code]
                    IN IF None \in {its.daily, its.hourlies}
                       THEN Hfi!process_request_without_observation("N/A")
                       ELSE Hfi!OrError(Hfi!process_request(r, its))
<1>1. SUFFICES ASSUME answer # OtherError
               PROVE /\ DOMAIN answer = DOMAIN requests
                     /\ \A i \in DOMAIN answer :
                          /\ answer[i] = Hfi!get_stations_data(<<requests[i]>>, wf1)[1]
                          /\ answer[i].status \in {"N/A", "ERROR"} <=> answer[i].advisory = None
                          /\ answer[i].advisory # None =>
                               \A v \in DOMAIN answer[i].advisory \ {"critical_hours"} :
                                 Hfi!IsNumber(answer[i].advisory[v])
  BY DEF Hfi!StationsAnswerForThemselves
<1>2. /\ \A i \in DOMAIN requests : requests[i].code \in DOMAIN wf1
      /\ answer = [i \in DOMAIN requests |-> Of(requests[i])]
  BY <1>1 DEF Hfi!get_stations_data
<1> HIDE DEF answer
<1>3. DOMAIN answer = DOMAIN requests
  BY <1>2
<1>4. ASSUME NEW i \in DOMAIN requests
      PROVE  /\ answer[i] = Hfi!get_stations_data(<<requests[i]>>, wf1)[1]
             /\ answer[i].status \in {"N/A", "ERROR"} <=> answer[i].advisory = None
             /\ answer[i].advisory # None =>
                  \A v \in DOMAIN answer[i].advisory \ {"critical_hours"} :
                    Hfi!IsNumber(answer[i].advisory[v])
  <2> DEFINE r == requests[i]
             its == wf1[r.code]
             p == Hfi!process_request(r, its)
  <2>1. answer[i] = Of(r) /\ r.code \in DOMAIN wf1
    BY <1>2
  <2>2. Hfi!get_stations_data(<<r>>, wf1)[1] = Of(r)
    <3>1. DOMAIN <<r>> = {1} /\ <<r>>[1] = r
      OBVIOUS
    <3> HIDE DEF r, Of
    <3> DEFINE one == <<r>>
    <3>2. one[1] = r /\ DOMAIN one = {1}
      BY <3>1
    <3> HIDE DEF one
    <3>3. Hfi!get_stations_data(one, wf1) = [k \in DOMAIN one |-> Of(one[k])]
      BY <2>1, <3>2 DEF Hfi!get_stations_data, Of
    <3> QED
      BY <3>2, <3>3 DEF one
  <2>3. \A status : Hfi!process_request_without_observation(status).status = status
                    /\ Hfi!process_request_without_observation(status).advisory = None
    BY DEF Hfi!process_request_without_observation
  <2> HIDE DEF r, p
  <2>4. CASE None \in {its.daily, its.hourlies}
    <3>1. answer[i] = Hfi!process_request_without_observation("N/A")
      BY <2>1, <2>4
    <3> QED
      BY <2>1, <2>2, <2>3, <3>1 DEF r
  <2>5. CASE None \notin {its.daily, its.hourlies} /\ p \in Hfi!Errors
    <3>1. answer[i] = Hfi!process_request_without_observation("ERROR")
      BY <2>1, <2>5 DEF Hfi!OrError, p
    <3> QED
      BY <2>1, <2>2, <2>3, <3>1 DEF r
  <2>6. CASE None \notin {its.daily, its.hourlies} /\ p \notin Hfi!Errors
    <3>1. answer[i] = p
      BY <2>1, <2>6 DEF Hfi!OrError, p
    <3>2. /\ p.status \notin {"N/A", "ERROR"} /\ p.advisory \in AdvisoriesOf({its.critical})
          /\ None \notin AdvisoriesOf({its.critical})
      BY <2>1, <2>6, ProcessedIsWhole DEF p
    <3> DEFINE a == p.advisory
    <3> HIDE DEF a
    <3>3. \A v \in DOMAIN a \ {"critical_hours"} : a[v] \in Int \union Kinds
      BY <3>2 DEF a, AdvisoriesOf
    <3>4. \A v \in DOMAIN a \ {"critical_hours"} : Hfi!IsNumber(a[v])
      BY <3>3, Numbers
    <3> QED
      BY <2>1, <2>2, <3>1, <3>2, <3>4 DEF r, a
  <2> QED
    BY <2>4, <2>5, <2>6
<1> QED
  BY <1>3, <1>4

-----------------------------------------------------------------------------
-----------------------------------------------------------------------------
(* Induction, for a set of numbers.                                        *)
LEMMA AllNumbers ==
  ASSUME NEW P \in SUBSET Nat, 0 \in P, \A n \in P : n + 1 \in P
  PROVE  P = Nat
<1> DEFINE T == Nat \ P
           Less == {ss \in Nat \X Nat : ss[1] < ss[2]}
<1>1. SUFFICES ASSUME T # {} PROVE FALSE
  OBVIOUS
<1>2. IsWellFoundedOn(Less, Nat)
  BY NatLessThanWellFounded DEF OpToRel
<1> HIDE DEF Less
<1>3. PICK n \in T : \A m \in T : ~(<<m, n>> \in Less)
  BY <1>1, <1>2, WFMin
<1>4. n \in Nat /\ n - 1 \in Nat /\ n - 1 < n
  BY <1>3
<1>5. n - 1 \in P
  BY <1>3, <1>4 DEF Less
<1> QED
  BY <1>3, <1>4, <1>5

LastOf(s) == CHOOSE x \in s : \A y \in s : x >= y

LEMMA LastNumber ==
  ASSUME NEW n \in Nat, NEW s \in SUBSET (1 .. n), s # {}
  PROVE  LastOf(s) \in s /\ \A y \in s : y <= LastOf(s)
<1> DEFINE T == {m \in Nat : \A y \in s : y <= m}
           Less == {ss \in Nat \X Nat : ss[1] < ss[2]}
<1>1. n \in T /\ T \subseteq Nat
  OBVIOUS
<1>2. IsWellFoundedOn(Less, Nat)
  BY NatLessThanWellFounded DEF OpToRel
<1> HIDE DEF Less
<1>3. PICK m \in T : \A k \in T : ~(<<k, m>> \in Less)
  BY <1>1, <1>2, WFMin
<1>4. m \in s
  <2>1. SUFFICES ASSUME m \notin s PROVE FALSE
    OBVIOUS
  <2>2. m \in Nat /\ \A y \in s : y <= m
    BY <1>3
  <2>4. PICK y \in s : y \in 1 .. n
    OBVIOUS
  <2>5. m # 0
    BY <2>2, <2>4
  <2>3. m - 1 \in T /\ <<m - 1, m>> \in Less
    BY <2>1, <2>2, <2>5 DEF Less
  <2> QED
    BY <1>3, <2>3
<1>5. \E x \in s : \A y \in s : x >= y
  BY <1>3, <1>4
<1> QED
  BY <1>5 DEF LastOf

(* A fold over a set of numbers, the last one at the end, exists where its *)
(* step keeps to a set of results.                                         *)
FoldsUp(f, n, base, g) ==
  \A s \in SUBSET (1 .. n) : f[s] = IF s = {} THEN base ELSE g[<<f[s \ {LastOf(s)}], LastOf(s)>>]

LEMMA FoldExists ==
  ASSUME NEW n \in Nat, NEW A, NEW base \in A, NEW g \in [A \X (1 .. n) -> A]
  PROVE  \E f \in [SUBSET (1 .. n) -> A] : FoldsUp(f, n, base, g)
<1> DEFINE Exists(k) == \E f \in [SUBSET (1 .. k) -> A] : FoldsUp(f, k, base, g)
           P == {k \in Nat : k <= n => Exists(k)}
<1>1. Exists(0)
  <2> DEFINE f == [s \in SUBSET (1 .. 0) |-> base]
  <2>1. f \in [SUBSET (1 .. 0) -> A] /\ 1 .. 0 = {}
    OBVIOUS
  <2>2. FoldsUp(f, 0, base, g)
    BY <2>1 DEF FoldsUp
  <2> QED
    BY <2>1, <2>2
<1>2. ASSUME NEW k \in Nat, Exists(k), k + 1 <= n PROVE Exists(k + 1)
  <2>2. PICK e \in [SUBSET (1 .. k) -> A] : FoldsUp(e, k, base, g)
    BY <1>2
  <2> DEFINE f == [s \in SUBSET (1 .. k + 1) |->
                     IF k + 1 \in s THEN g[<<e[s \ {k + 1}], k + 1>>] ELSE e[s]]
  <2>3. \A s \in SUBSET (1 .. k + 1) :
          s \ {k + 1} \in SUBSET (1 .. k) /\ (k + 1 \notin s => s \in SUBSET (1 .. k))
    OBVIOUS
  <2>4. f \in [SUBSET (1 .. k + 1) -> A]
    BY <1>2, <2>2, <2>3
  <2>5. ASSUME NEW s \in SUBSET (1 .. k + 1), s # {}
        PROVE  f[s] = g[<<f[s \ {LastOf(s)}], LastOf(s)>>]
    <3> DEFINE m == LastOf(s)
    <3>1. m \in s /\ \A y \in s : y <= m
      <4>1. k + 1 \in Nat
        OBVIOUS
      <4> QED
        BY <4>1, <2>5, LastNumber
    <3> HIDE DEF m
    <3>2. CASE k + 1 \in s
      <4>1. m = k + 1
        BY <3>1, <3>2
      <4>2. f[s \ {m}] = e[s \ {m}]
        BY <2>3, <4>1
      <4> QED
        BY <3>2, <4>1, <4>2 DEF m
    <3>3. CASE k + 1 \notin s
      <4>1. s \in SUBSET (1 .. k) /\ s \ {m} \in SUBSET (1 .. k) /\ f[s] = e[s] /\ f[s \ {m}] = e[s \ {m}]
        BY <2>3, <3>3
      <4>2. e[s] = g[<<e[s \ {m}], m>>]
        BY <2>2, <2>5, <4>1 DEF FoldsUp, m
      <4> QED
        BY <4>1, <4>2 DEF m
    <3> QED
      BY <3>2, <3>3
  <2>6. f[{}] = base
    <3>1. {} \in SUBSET (1 .. k) /\ {} \in SUBSET (1 .. k + 1)
      OBVIOUS
    <3> QED
      BY <2>2, <3>1 DEF FoldsUp
  <2> HIDE DEF f
  <2>7. FoldsUp(f, k + 1, base, g)
    BY <2>5, <2>6 DEF FoldsUp
  <2> QED
    BY <2>4, <2>7
<1> HIDE DEF Exists
<1>3. P = Nat
  <2>1. 0 \in P /\ \A k \in P : k + 1 \in P
    BY <1>1, <1>2
  <2> HIDE DEF P
  <2> QED
    BY <2>1, AllNumbers DEF P
<1>4. Exists(n)
  BY <1>3
<1> QED
  BY <1>4 DEF Exists

LEMMA LastOfInterval ==
  ASSUME NEW k \in Nat
  PROVE  1 .. k + 1 # {} /\ LastOf(1 .. k + 1) = k + 1 /\ (1 .. k + 1) \ {k + 1} = 1 .. k
<1> DEFINE s == 1 .. k + 1
<1>1. s \in SUBSET (1 .. k + 1) /\ k + 1 \in s /\ k + 1 \in Nat
  OBVIOUS
<1>2. LastOf(s) \in s /\ \A y \in s : y <= LastOf(s)
  BY <1>1, LastNumber
<1>3. LastOf(s) = k + 1
  BY <1>1, <1>2
<1> QED
  BY <1>3

(* A finite set can be listed in a strict order.                           *)
LEMMA InOrderExists ==
  ASSUME NEW S, IsFiniteSet(S), NEW R,
         \A x \in S : <<x, x>> \notin R,
         \A x, y \in S : x = y \/ <<x, y>> \in R \/ <<y, x>> \in R,
         \A x, y, z \in S : <<x, y>> \in R /\ <<y, z>> \in R => <<x, z>> \in R
  PROVE  \E s \in [1 .. Cardinality(S) -> S] : \A i, j \in DOMAIN s : i < j => <<s[i], s[j]>> \in R
<1> DEFINE Below(x) == {y \in S : <<y, x>> \in R}
           n == Cardinality(S)
           rank == [x \in S |-> Cardinality(Below(x)) + 1]
<1>1. n \in Nat
  BY FS_CardinalityType
<1>2. ASSUME NEW x \in S
      PROVE  IsFiniteSet(Below(x)) /\ Cardinality(Below(x)) \in Nat /\ rank[x] \in 1 .. n
  <2>1. IsFiniteSet(Below(x)) /\ Cardinality(Below(x)) <= n /\ (Cardinality(Below(x)) = n => Below(x) = S)
    BY FS_Subset
  <2>2. x \notin Below(x)
    OBVIOUS
  <2>3. Cardinality(Below(x)) \in Nat
    BY <2>1, FS_CardinalityType
  <2> QED
    BY <1>1, <2>1, <2>2, <2>3
<1>3. ASSUME NEW x \in S, NEW y \in S, <<x, y>> \in R PROVE rank[x] < rank[y]
  <2>1. Below(x) \in SUBSET Below(y) /\ x \in Below(y) /\ x \notin Below(x)
    BY <1>3
  <2>2. Below(x) # Below(y)
    BY <2>1
  <2> HIDE DEF Below
  <2>3. Cardinality(Below(x)) <= Cardinality(Below(y)) /\ Cardinality(Below(x)) # Cardinality(Below(y))
    BY <1>2, <2>1, <2>2, FS_Subset
  <2> QED
    BY <1>2, <2>3
<1> HIDE DEF Below
<1>4. rank \in [S -> 1 .. n]
  BY <1>2
<1>5. \A x, y \in S : rank[x] = rank[y] => x = y
  <2> SUFFICES ASSUME NEW x \in S, NEW y \in S, x # y PROVE rank[x] # rank[y]
    OBVIOUS
  <2>1. rank[x] \in 1 .. n /\ rank[y] \in 1 .. n
    BY <1>2
  <2>2. rank[x] < rank[y] \/ rank[y] < rank[x]
    BY <1>3
  <2> HIDE DEF rank, n
  <2> QED
    BY <1>1, <2>1, <2>2
<1> HIDE DEF rank
<1>6. rank \in Injection(S, 1 .. n)
  BY <1>4, <1>5 DEF Injection, IsInjective
<1>7. IsFiniteSet(1 .. n) /\ Cardinality(1 .. n) = n
  BY <1>1, FS_Interval
<1>8. rank \in Surjection(S, 1 .. n)
  BY <1>6, <1>7, FS_Injection
<1>9. \A i \in 1 .. n : \E x \in S : rank[x] = i
  BY <1>8 DEF Surjection
<1> DEFINE s == [i \in 1 .. n |-> CHOOSE x \in S : rank[x] = i]
<1>10. \A i \in 1 .. n : s[i] \in S /\ rank[s[i]] = i
  BY <1>9
<1>11. s \in [1 .. n -> S] /\ DOMAIN s = 1 .. n
  BY <1>10
<1> HIDE DEF s, n
<1>12. ASSUME NEW i \in 1 .. n, NEW j \in 1 .. n, i < j PROVE <<s[i], s[j]>> \in R
  <2>1. s[i] # s[j]
    BY <1>10, <1>12, <1>1
  <2>2. CASE <<s[j], s[i]>> \in R
    BY <1>3, <1>10, <1>12, <1>1, <2>2
  <2> QED
    BY <1>10, <2>1, <2>2
<1> QED
  BY <1>11, <1>12 DEF n

-----------------------------------------------------------------------------
(* The module has the cardinality of FiniteSets.                           *)
LEMMA CardinalityOfRows == \A T : Bias!Cardinality(T) = Cardinality(T)
  BY DEF Bias!Cardinality, Cardinality

(* What the bias of a model is learned from.                               *)
Keyed(actuals, predictions) ==
  /\ IsFiniteSet(actuals) /\ IsFiniteSet(predictions)
  /\ None \notin actuals /\ None \notin predictions
  /\ \A a \in actuals : a.at \in Int
  /\ \A p \in predictions : p.at \in Int /\ p.run \in Int
  /\ \A a, b \in actuals : a.at = b.at => a = b
  /\ \A p, q \in predictions : p.model = q.model /\ p.run = q.run /\ p.at = q.at => p = q

Joined(actuals, predictions, model, start, end) ==
  {r \in actuals \X predictions :
     r[1].valid /\ r[1].at \in start .. end /\ r[2].at = r[1].at /\ r[2].model = model}
Precedes(r, q) == r[1].at < q[1].at \/ (r[1].at = q[1].at /\ r[2].run > q[2].run)

IsQuery(query, rows) ==
  /\ Cardinality(rows) \in Nat /\ query \in [1 .. Cardinality(rows) -> rows]
  /\ \A i, j \in 1 .. Cardinality(rows) : i < j => Precedes(query[i], query[j])
  /\ \A r \in rows : \E i \in 1 .. Cardinality(rows) : query[i] = r

LEMMA QueryIsInOrder ==
  ASSUME NEW actuals, NEW predictions, Keyed(actuals, predictions), NEW model, NEW start, NEW end
  PROVE  IsQuery(Bias!get_actuals_left_outer_join_with_predictions(actuals, predictions, model, start, end),
                 Joined(actuals, predictions, model, start, end))
<1> DEFINE rows == Joined(actuals, predictions, model, start, end)
           n == Cardinality(rows)
           R == {pair \in rows \X rows : Precedes(pair[1], pair[2])}
           query == Bias!get_actuals_left_outer_join_with_predictions(actuals, predictions, model, start, end)
           InOrder(s) == \A i, j \in DOMAIN s : i < j => Precedes(s[i], s[j])
<1>1. IsFiniteSet(rows)
  <2>1. IsFiniteSet(actuals \X predictions)
    BY FS_Product DEF Keyed
  <2>2. rows \in SUBSET (actuals \X predictions)
    BY DEF Joined
  <2> HIDE DEF rows
  <2> QED
    BY <2>1, <2>2, FS_Subset
<1>2. n \in Nat
  BY <1>1, FS_CardinalityType
<1>3. \A r \in rows : /\ r[1].at \in Int /\ r[2].run \in Int /\ r = <<r[1], r[2]>>
                      /\ r[1] \in actuals /\ r[2] \in predictions
                      /\ r[2].at = r[1].at /\ r[2].model = model
  BY DEF Joined, Keyed
<1>4. \A r, q \in rows : r[1].at = q[1].at /\ r[2].run = q[2].run => r = q
  <2> SUFFICES ASSUME NEW r \in rows, NEW q \in rows, r[1].at = q[1].at, r[2].run = q[2].run
               PROVE  r[1] = q[1] /\ r[2] = q[2]
    BY <1>3
  <2> HIDE DEF rows
  <2> QED
    BY <1>3 DEF Keyed
<1> HIDE DEF rows
<1>5. \E s \in [1 .. n -> rows] : InOrder(s)
  <2>1. /\ \A x \in rows : <<x, x>> \notin R
        /\ \A x, y \in rows : x = y \/ <<x, y>> \in R \/ <<y, x>> \in R
        /\ \A x, y, z \in rows : <<x, y>> \in R /\ <<y, z>> \in R => <<x, z>> \in R
    BY <1>3, <1>4 DEF Precedes
  <2>2. \A x, y : <<x, y>> \in R => Precedes(x, y)
    OBVIOUS
  <2> HIDE DEF R
  <2>3. \E s \in [1 .. n -> rows] : \A i, j \in DOMAIN s : i < j => <<s[i], s[j]>> \in R
    BY <1>1, <2>1, InOrderExists
  <2> QED
    BY <2>2, <2>3
<1>6. query = CHOOSE s \in [1 .. n -> rows] : InOrder(s)
  BY CardinalityOfRows DEF Bias!get_actuals_left_outer_join_with_predictions, Joined, Precedes, rows
<1> HIDE DEF query
<1>7. query \in [1 .. n -> rows] /\ InOrder(query)
  <2> HIDE DEF InOrder, n
  <2> QED
    BY <1>5, <1>6
<1>8. \A i, j \in 1 .. n : query[i] = query[j] => i = j
  <2> SUFFICES ASSUME NEW i \in 1 .. n, NEW j \in 1 .. n, query[i] = query[j], i < j PROVE FALSE
    BY <1>2
  <2>1. Precedes(query[i], query[j]) /\ query[i] \in rows
    BY <1>7
  <2> QED
    BY <1>3, <2>1 DEF Precedes
<1> HIDE DEF n
<1>9. query \in Surjection(1 .. n, rows)
  <2>1. query \in Injection(1 .. n, rows)
    BY <1>7, <1>8 DEF Injection, IsInjective
  <2>2. IsFiniteSet(1 .. n) /\ Cardinality(1 .. n) = n
    BY <1>2, FS_Interval
  <2> QED
    BY <1>1, <2>1, <2>2, FS_Injection DEF n
<1>10. \A r \in rows : \E i \in 1 .. n : query[i] = r
  BY <1>9 DEF Surjection
<1> QED
  BY <1>2, <1>7, <1>10 DEF IsQuery, n, query, rows

SamplesOf(actuals, predictions) ==
  [at : Int,
   x : {p.value : p \in predictions}
       \union {Bias!construct_interpolated_noon_prediction(p[1], p[2]).value :
                  p \in predictions \X predictions},
   y : {a.value : a \in actuals}]
CollectionsOf(actuals, predictions) ==
  {c \in [samples : Seq(SamplesOf(actuals, predictions)), prev_actual : actuals \union {None},
          prev_prediction : predictions \union {None}] :
     c.prev_prediction = None => c.prev_actual = None}

LEMMA StaysCollection ==
  ASSUME NEW actuals, NEW predictions, Keyed(actuals, predictions),
         NEW c \in CollectionsOf(actuals, predictions), NEW row \in actuals \X predictions
  PROVE  Bias!Collect(c, row) \in CollectionsOf(actuals, predictions)
<1> DEFINE S == SamplesOf(actuals, predictions)
           its(p, a) == [at |-> a.at, x |-> p.value, y |-> a.value]
           noon == Bias!construct_interpolated_noon_prediction(c.prev_prediction, row[2])
           filled == Bias!add_sample(c.samples, noon, c.prev_actual)
<1>1. /\ row[1] \in actuals /\ row[2] \in predictions /\ c.samples \in Seq(S)
      /\ c.prev_actual \in actuals \union {None} /\ c.prev_prediction \in predictions \union {None}
      /\ c.prev_prediction = None => c.prev_actual = None
      /\ row[2] # None
  BY DEF CollectionsOf, Keyed
<1>2. its(row[2], row[1]) \in S
  BY <1>1 DEF SamplesOf, Keyed
<1>3. c.prev_actual # None => its(noon, c.prev_actual) \in S
  <2> SUFFICES ASSUME c.prev_actual # None PROVE its(noon, c.prev_actual) \in S
    OBVIOUS
  <2>1. c.prev_actual \in actuals /\ <<c.prev_prediction, row[2]>> \in predictions \X predictions
    BY <1>1
  <2>2. noon.value \in {Bias!construct_interpolated_noon_prediction(p[1], p[2]).value :
                          p \in predictions \X predictions}
    <3>1. noon = Bias!construct_interpolated_noon_prediction(
                   <<c.prev_prediction, row[2]>>[1], <<c.prev_prediction, row[2]>>[2])
      OBVIOUS
    <3> HIDE DEF noon
    <3> QED
      BY <2>1, <3>1
  <2> HIDE DEF noon
  <2> QED
    BY <2>1, <2>2 DEF SamplesOf, Keyed
<1>4. \A samples \in Seq(S) : Bias!add_sample(samples, row[2], row[1]) \in Seq(S)
  <2> HIDE DEF S
  <2> QED
    BY <1>2 DEF Bias!add_sample
<1>5. c.prev_actual # None => filled \in Seq(S)
  <2> HIDE DEF S, noon
  <2> QED
    BY <1>1, <1>3 DEF Bias!add_sample
<1> HIDE DEF S, filled, its
<1>6. Bias!Collect(c, row) \in {c} \union [samples : Seq(S), prev_actual : {row[1]}, prev_prediction : {row[2]}]
  BY <1>1, <1>4, <1>5 DEF Bias!Collect, filled, noon
<1> QED
  BY <1>1, <1>6 DEF CollectionsOf, S

(* The loop over the rows of a query, one after the other.                 *)
LEMMA CollectedInTurn ==
  ASSUME NEW actuals, NEW predictions, Keyed(actuals, predictions),
         NEW n \in Nat, NEW query \in [1 .. n -> actuals \X predictions]
  PROVE  \E st \in [0 .. n -> CollectionsOf(actuals, predictions)] :
           /\ st[0] = Bias!NothingCollected
           /\ \A k \in 0 .. n - 1 : st[k + 1] = Bias!Collect(st[k], query[k + 1])
           /\ Bias!collect_data(query) = st[n].samples
<1> DEFINE A == CollectionsOf(actuals, predictions)
           g == [x \in A \X (1 .. n) |-> Bias!Collect(x[1], query[x[2]])]
           Loop(f) == f = [s \in SUBSET DOMAIN query |->
                             IF s = {} THEN Bias!NothingCollected
                             ELSE Bias!Collect(f[s \ {LastOf(s)}], query[LastOf(s)])]
           iter == CHOOSE f : Loop(f)
           st == [k \in 0 .. n |-> iter[1 .. k]]
<1>1. Bias!NothingCollected \in A
  BY DEF Bias!NothingCollected, CollectionsOf
<1>2. \A c \in A, k \in 1 .. n : Bias!Collect(c, query[k]) \in A
  BY StaysCollection
<1>3. DOMAIN query = 1 .. n
  OBVIOUS
<1> HIDE DEF A
<1>4. \E f : Loop(f)
  <2>1. g \in [A \X (1 .. n) -> A]
    BY <1>2
  <2>2. \A c \in A, k \in 1 .. n : g[<<c, k>>] = Bias!Collect(c, query[k])
    OBVIOUS
  <2> HIDE DEF g
  <2>3. PICK f \in [SUBSET (1 .. n) -> A] : FoldsUp(f, n, Bias!NothingCollected, g)
    BY <1>1, <2>1, FoldExists
  <2>4. ASSUME NEW s \in SUBSET (1 .. n), s # {}
        PROVE  f[s] = Bias!Collect(f[s \ {LastOf(s)}], query[LastOf(s)])
    <3>1. LastOf(s) \in 1 .. n /\ s \ {LastOf(s)} \in SUBSET (1 .. n)
      BY <2>4, LastNumber
    <3>2. f[s \ {LastOf(s)}] \in A
      BY <2>3, <3>1
    <3> QED
      BY <2>2, <2>3, <2>4, <3>1, <3>2 DEF FoldsUp
  <2>5. f[{}] = Bias!NothingCollected
    BY <2>3 DEF FoldsUp
  <2>6. f = [s \in SUBSET (1 .. n) |->
               IF s = {} THEN Bias!NothingCollected ELSE Bias!Collect(f[s \ {LastOf(s)}], query[LastOf(s)])]
    BY <2>3, <2>4, <2>5
  <2> QED
    BY <1>3, <2>6
<1>5. Loop(iter)
  <2> HIDE DEF Loop
  <2> QED
    BY <1>4
<1>6. Bias!collect_data(query) = iter[DOMAIN query].samples
  BY DEF Bias!collect_data, Bias!FoldLeft, Bias!MapThenFoldSet, Bias!Max, LastOf
<1> HIDE DEF iter
<1>7. \A s \in SUBSET (1 .. n) :
        iter[s] = IF s = {} THEN Bias!NothingCollected
                  ELSE Bias!Collect(iter[s \ {LastOf(s)}], query[LastOf(s)])
  BY <1>3, <1>5
<1> HIDE DEF Loop
<1>8. st[0] = Bias!NothingCollected
  <2>1. 1 .. 0 = {} /\ {} \in SUBSET (1 .. n) /\ 0 \in 0 .. n
    OBVIOUS
  <2> QED
    BY <1>7, <2>1
<1>9. ASSUME NEW k \in 0 .. n - 1 PROVE st[k + 1] = Bias!Collect(st[k], query[k + 1])
  <2>1. k \in 0 .. n /\ k + 1 \in 0 .. n /\ k \in Nat /\ 1 .. k + 1 \in SUBSET (1 .. n)
    OBVIOUS
  <2>2. 1 .. k + 1 # {} /\ LastOf(1 .. k + 1) = k + 1 /\ (1 .. k + 1) \ {k + 1} = 1 .. k
    BY <2>1, LastOfInterval
  <2>3. st[k] = iter[1 .. k] /\ st[k + 1] = iter[1 .. k + 1]
    BY <2>1
  <2> HIDE DEF st
  <2>4. iter[1 .. k + 1]
          = Bias!Collect(iter[(1 .. k + 1) \ {LastOf(1 .. k + 1)}], query[LastOf(1 .. k + 1)])
    BY <1>7, <2>1, <2>2
  <2> QED
    BY <2>2, <2>3, <2>4
<1>10. st[n] = iter[DOMAIN query] /\ DOMAIN st = 0 .. n
  BY <1>3
<1>11. st = [k \in 0 .. n |-> st[k]]
  OBVIOUS
<1> HIDE DEF st
<1>12. \A k \in 0 .. n : st[k] \in A
  <2> DEFINE P == {k \in Nat : k <= n => st[k] \in A}
  <2>1. 0 \in P
    BY <1>1, <1>8
  <2>2. ASSUME NEW k \in P PROVE k + 1 \in P
    <3> SUFFICES ASSUME k + 1 <= n PROVE st[k + 1] \in A
      OBVIOUS
    <3>1. k \in 0 .. n - 1 /\ k + 1 \in 1 .. n /\ st[k] \in A
      OBVIOUS
    <3> QED
      BY <1>2, <1>9, <3>1
  <2> HIDE DEF P
  <2>3. P = Nat
    BY <2>1, <2>2, AllNumbers DEF P
  <2> QED
    BY <2>3 DEF P
<1>13. st \in [0 .. n -> A]
  BY <1>11, <1>12
<1> QED
  BY <1>6, <1>8, <1>9, <1>10, <1>13 DEF A

-----------------------------------------------------------------------------
(* The first row of a reading, and the rows that are learned.              *)
IsFirst(query, i) == i = 1 \/ query[i - 1][1] # query[i][1]
IsKnown(row) == None \notin {row[1].value, row[2].value}
LearnedRows(query, k) == {i \in 1 .. k : IsFirst(query, i) /\ IsKnown(query[i])}
SampleOf(row) == [at |-> row[1].at, x |-> row[2].value, y |-> row[1].value]

CollectedSo(query, k, c) ==
  /\ c.prev_actual = IF k = 0 THEN None ELSE query[k][1]
  /\ k # 0 => c.prev_prediction.at = c.prev_actual.at
  /\ Bias!ToSet(c.samples) = {SampleOf(query[i]) : i \in LearnedRows(query, k)}
  /\ Len(c.samples) = Cardinality(LearnedRows(query, k))
  /\ IsFiniteSet(LearnedRows(query, k))

LEMMA AppendedToSet ==
  ASSUME NEW S, NEW s \in Seq(S), NEW e \in S
  PROVE  Bias!ToSet(Append(s, e)) = Bias!ToSet(s) \union {e} /\ Len(Append(s, e)) = Len(s) + 1
<1>1. /\ DOMAIN Append(s, e) = 1 .. Len(s) + 1 /\ DOMAIN s = 1 .. Len(s) /\ Len(s) \in Nat
      /\ Append(s, e)[Len(s) + 1] = e /\ \A i \in 1 .. Len(s) : Append(s, e)[i] = s[i]
  OBVIOUS
<1>2. 1 .. Len(s) + 1 = (1 .. Len(s)) \union {Len(s) + 1}
  BY <1>1
<1> QED
  BY <1>1, <1>2 DEF Bias!ToSet

(* A step of the loop: a gap at noon is never filled, as the reading and   *)
(* the prediction that were kept are of the same hour.                     *)
LEMMA CollectsFirst ==
  ASSUME NEW actuals, NEW predictions, Keyed(actuals, predictions), NEW model, NEW start, NEW end,
         NEW n \in Nat, NEW query \in [1 .. n -> Joined(actuals, predictions, model, start, end)],
         NEW k \in 0 .. n - 1, NEW c \in CollectionsOf(actuals, predictions), CollectedSo(query, k, c)
  PROVE  CollectedSo(query, k + 1, Bias!Collect(c, query[k + 1]))
<1> DEFINE row == query[k + 1]
           S == SamplesOf(actuals, predictions)
           d == Bias!Collect(c, row)
           new == IF IsFirst(query, k + 1) /\ IsKnown(row) THEN {k + 1} ELSE {}
<1>1. \A i \in 1 .. n : /\ query[i][1] \in actuals /\ query[i][2] \in predictions
                        /\ query[i][1].at \in Int /\ query[i][2].at = query[i][1].at
                        /\ query[i][1] # None /\ query[i][2] # None
  BY DEF Joined, Keyed
<1>2. k + 1 \in 1 .. n /\ k \in Nat /\ (k # 0 => k \in 1 .. n)
  OBVIOUS
<1>3. LearnedRows(query, k + 1) = LearnedRows(query, k) \union new
  BY <1>2 DEF LearnedRows
<1>4. k + 1 \notin LearnedRows(query, k)
  BY <1>2 DEF LearnedRows
<1>5. c.samples \in Seq(S)
  BY DEF CollectionsOf
<1>6. SampleOf(row) \in S
  BY <1>1, <1>2 DEF SamplesOf, SampleOf
<1>7. CASE row[1] = c.prev_actual
  <2>1. k # 0 /\ ~IsFirst(query, k + 1)
    BY <1>1, <1>2, <1>7 DEF CollectedSo, IsFirst
  <2>2. d = c
    BY <1>7 DEF Bias!Collect
  <2>3. LearnedRows(query, k + 1) = LearnedRows(query, k)
    BY <1>3, <2>1
  <2>4. c.prev_actual = query[k + 1][1]
    BY <1>7
  <2> QED
    BY <1>2, <2>1, <2>2, <2>3, <2>4 DEF CollectedSo
<1>8. CASE row[1] # c.prev_actual
  <2>1. IsFirst(query, k + 1)
    BY <1>2, <1>8 DEF CollectedSo, IsFirst
  <2>2. ~(/\ None \notin {c.prev_actual, c.prev_prediction}
          /\ Bias!HourOf(c.prev_actual.at) = 20 /\ Bias!HourOf(row[2].at) = 21
          /\ Bias!HourOf(c.prev_prediction.at) = 18)
    BY DEF CollectedSo
  <2>3. d = [samples |-> Bias!add_sample(c.samples, row[2], row[1]),
             prev_actual |-> row[1], prev_prediction |-> row[2]]
    BY <1>8, <2>2 DEF Bias!Collect
  <2>4. d.prev_actual = row[1] /\ d.prev_prediction.at = d.prev_actual.at
    BY <1>1, <1>2, <2>3
  <2>5. d.samples = IF IsKnown(row) THEN Append(c.samples, SampleOf(row)) ELSE c.samples
    BY <2>3 DEF Bias!add_sample, IsKnown, SampleOf
  <2> HIDE DEF row, S, d
  <2>6. CASE IsKnown(row)
    <3>1. LearnedRows(query, k + 1) = LearnedRows(query, k) \union {k + 1}
      BY <1>3, <2>1, <2>6
    <3>2. /\ Bias!ToSet(d.samples) = Bias!ToSet(c.samples) \union {SampleOf(row)}
          /\ Len(d.samples) = Len(c.samples) + 1
      BY <1>5, <1>6, <2>5, <2>6, AppendedToSet
    <3>3. /\ Cardinality(LearnedRows(query, k + 1)) = Cardinality(LearnedRows(query, k)) + 1
          /\ IsFiniteSet(LearnedRows(query, k + 1))
      BY <1>4, <3>1, FS_AddElement DEF CollectedSo
    <3>4. {SampleOf(query[i]) : i \in LearnedRows(query, k + 1)}
            = {SampleOf(query[i]) : i \in LearnedRows(query, k)} \union {SampleOf(row)}
      BY <3>1 DEF row
    <3>5. /\ Bias!ToSet(d.samples) = {SampleOf(query[i]) : i \in LearnedRows(query, k + 1)}
          /\ Len(d.samples) = Cardinality(LearnedRows(query, k + 1))
      BY <3>2, <3>3, <3>4 DEF CollectedSo
    <3>6. CollectedSo(query, k + 1, d)
      BY <1>2, <2>4, <3>3, <3>5 DEF CollectedSo, row
    <3> QED
      BY <3>6 DEF row, d
  <2>7. CASE ~IsKnown(row)
    <3>1. LearnedRows(query, k + 1) = LearnedRows(query, k)
      BY <1>3, <2>7
    <3> QED
      BY <1>2, <2>4, <2>5, <2>7, <3>1 DEF CollectedSo, row, d
  <2> QED
    BY <2>6, <2>7
<1> QED
  BY <1>7, <1>8

LEMMA CollectsAll ==
  ASSUME NEW actuals, NEW predictions, Keyed(actuals, predictions), NEW model, NEW start, NEW end,
         NEW n \in Nat, NEW query \in [1 .. n -> Joined(actuals, predictions, model, start, end)]
  PROVE  /\ Bias!ToSet(Bias!collect_data(query)) = {SampleOf(query[i]) : i \in LearnedRows(query, n)}
         /\ Len(Bias!collect_data(query)) = Cardinality(LearnedRows(query, n))
<1>1. query \in [1 .. n -> actuals \X predictions]
  BY DEF Joined
<1>2. PICK st \in [0 .. n -> CollectionsOf(actuals, predictions)] :
        /\ st[0] = Bias!NothingCollected
        /\ \A k \in 0 .. n - 1 : st[k + 1] = Bias!Collect(st[k], query[k + 1])
        /\ Bias!collect_data(query) = st[n].samples
  BY <1>1, CollectedInTurn
<1> DEFINE P == {k \in Nat : k <= n => CollectedSo(query, k, st[k])}
<1>3. 0 \in P
  <2>1. LearnedRows(query, 0) = {}
    BY DEF LearnedRows
  <2>2. Bias!ToSet(<< >>) = {} /\ Len(<< >>) = 0
    BY DEF Bias!ToSet
  <2>3. Cardinality({}) = 0 /\ IsFiniteSet({})
    BY FS_EmptySet
  <2>4. st[0].samples = << >> /\ st[0].prev_actual = None
    BY <1>2 DEF Bias!NothingCollected
  <2>5. {SampleOf(query[i]) : i \in LearnedRows(query, 0)} = {}
    BY <2>1
  <2>6. CollectedSo(query, 0, st[0])
    BY <2>1, <2>2, <2>3, <2>4, <2>5 DEF CollectedSo
  <2> QED
    BY <2>6
<1>4. ASSUME NEW k \in P PROVE k + 1 \in P
  <2> SUFFICES ASSUME k + 1 <= n PROVE CollectedSo(query, k + 1, st[k + 1])
    OBVIOUS
  <2>1. k \in 0 .. n - 1 /\ k \in 0 .. n /\ CollectedSo(query, k, st[k])
    OBVIOUS
  <2>2. st[k] \in CollectionsOf(actuals, predictions)
    BY <1>2, <2>1
  <2>3. CollectedSo(query, k + 1, Bias!Collect(st[k], query[k + 1]))
    BY <2>1, <2>2, CollectsFirst
  <2> QED
    BY <1>2, <2>1, <2>3
<1> HIDE DEF P
<1>5. P = Nat
  BY <1>3, <1>4, AllNumbers DEF P
<1>6. CollectedSo(query, n, st[n])
  BY <1>5 DEF P
<1> QED
  BY <1>2, <1>6 DEF CollectedSo

-----------------------------------------------------------------------------
(* The rows of a reading come together, that of the newest run first.      *)
Newest(predictions, model, a) ==
  {p \in predictions : /\ p.model = model /\ p.at = a.at
                       /\ \A q \in predictions : q.model = model /\ q.at = a.at => q.run <= p.run}
Expected(actuals, predictions, model, start, end) ==
  {e \in actuals \X predictions :
     /\ e[1].valid /\ e[1].at \in start .. end /\ e[2] \in Newest(predictions, model, e[1])
     /\ None \notin {e[1].value, e[2].value}}

LEMMA FirstIsNewest ==
  ASSUME NEW actuals, NEW predictions, Keyed(actuals, predictions), NEW model, NEW start, NEW end,
         NEW query, IsQuery(query, Joined(actuals, predictions, model, start, end)),
         NEW i \in 1 .. Cardinality(Joined(actuals, predictions, model, start, end))
  PROVE  IsFirst(query, i) <=> query[i][2] \in Newest(predictions, model, query[i][1])
<1> DEFINE rows == Joined(actuals, predictions, model, start, end)
           n == Cardinality(rows)
<1>1. \A r \in rows : /\ r[1] \in actuals /\ r[2] \in predictions /\ r[1].valid /\ r[1].at \in start .. end
                      /\ r[1].at \in Int /\ r[2].at = r[1].at /\ r[2].model = model /\ r[2].run \in Int
  BY DEF Joined, Keyed
<1>2. \A a \in actuals, p \in predictions :
        a.valid /\ a.at \in start .. end /\ p.at = a.at /\ p.model = model => <<a, p>> \in rows
  BY DEF Joined
<1>3. /\ n \in Nat /\ \A j \in 1 .. n : query[j] \in rows
      /\ \A j, k \in 1 .. n : j < k => Precedes(query[j], query[k])
      /\ \A r \in rows : \E j \in 1 .. n : query[j] = r
  BY DEF IsQuery
<1>4. i \in 1 .. n
  OBVIOUS
<1> HIDE DEF rows, n
<1>5. ASSUME ~IsFirst(query, i) PROVE query[i][2] \notin Newest(predictions, model, query[i][1])
  <2>1. i - 1 \in 1 .. n /\ i - 1 < i /\ query[i - 1][1] = query[i][1]
    BY <1>3, <1>4, <1>5 DEF IsFirst
  <2>2. Precedes(query[i - 1], query[i]) /\ query[i] \in rows /\ query[i - 1] \in rows
    BY <1>3, <1>4, <2>1
  <2>3. /\ query[i - 1][2].run > query[i][2].run /\ query[i - 1][2].run \in Int /\ query[i][2].run \in Int
        /\ query[i - 1][2] \in predictions /\ query[i - 1][2].model = model
        /\ query[i - 1][2].at = query[i][1].at
    BY <1>1, <2>1, <2>2 DEF Precedes
  <2> QED
    BY <2>3 DEF Newest
<1>6. ASSUME IsFirst(query, i), NEW q \in predictions, q.model = model, q.at = query[i][1].at
      PROVE  q.run <= query[i][2].run
  <2> SUFFICES ASSUME q.run > query[i][2].run PROVE FALSE
    BY <1>1, <1>3, <1>4 DEF Keyed
  <2>1. query[i] \in rows /\ q.run \in Int
    BY <1>3, <1>4 DEF Keyed
  <2>2. <<query[i][1], q>> \in rows
    BY <1>1, <1>2, <1>6, <2>1
  <2>3. PICK j \in 1 .. n : query[j] = <<query[i][1], q>>
    BY <1>3, <2>2
  <2>4. query[j][1] = query[i][1] /\ query[j][2] = q
    BY <2>3
  <2>5. j < i
    <3>1. j # i
      BY <1>1, <2>1, <2>4
    <3>2. ~(i < j)
      BY <1>1, <1>3, <1>4, <2>1, <2>4 DEF Precedes
    <3> QED
      BY <1>3, <1>4, <3>1, <3>2
  <2>6. i - 1 \in 1 .. n /\ i - 1 < i /\ query[i - 1][1] # query[i][1] /\ j # i - 1 /\ j < i - 1
    BY <1>3, <1>4, <1>6, <2>4, <2>5 DEF IsFirst
  <2>7. /\ query[i - 1] \in rows /\ query[j] \in rows
        /\ Precedes(query[i - 1], query[i]) /\ Precedes(query[j], query[i - 1])
    BY <1>3, <1>4, <2>6
  <2>8. query[i - 1][1].at # query[i][1].at
    BY <1>1, <2>1, <2>6, <2>7 DEF Keyed
  <2> QED
    BY <1>1, <2>1, <2>4, <2>7, <2>8 DEF Precedes
<1>7. query[i][2] \in predictions /\ query[i][2].model = model /\ query[i][2].at = query[i][1].at
  BY <1>1, <1>3, <1>4
<1> QED
  BY <1>5, <1>6, <1>7 DEF Newest

LEMMA ExpectedAreLearned ==
  ASSUME NEW actuals, NEW predictions, Keyed(actuals, predictions), NEW model, NEW start, NEW end
  PROVE  LET samples == Bias!collect_data(Bias!get_actuals_left_outer_join_with_predictions(
                                                actuals, predictions, model, start, end))
             expected == Expected(actuals, predictions, model, start, end)
         IN /\ Bias!ToSet(samples) = {SampleOf(e) : e \in expected}
            /\ Len(samples) = Cardinality(expected)
<1> DEFINE rows == Joined(actuals, predictions, model, start, end)
           n == Cardinality(rows)
           query == Bias!get_actuals_left_outer_join_with_predictions(actuals, predictions, model, start, end)
           expected == Expected(actuals, predictions, model, start, end)
           learned == LearnedRows(query, n)
           f == [i \in learned |-> query[i]]
<1>1. IsQuery(query, rows)
  BY QueryIsInOrder
<1>2. /\ \A e \in expected : e \in rows /\ IsKnown(e) /\ e[2] \in Newest(predictions, model, e[1])
      /\ \A r \in rows : IsKnown(r) /\ r[2] \in Newest(predictions, model, r[1]) => r \in expected
  BY DEF Expected, Joined, Newest, IsKnown
<1>3. \A r \in rows : r[1].at \in Int /\ r[2].run \in Int
  BY DEF Joined, Keyed
<1> HIDE DEF query
<1>4. \A i \in 1 .. n : IsFirst(query, i) <=> query[i][2] \in Newest(predictions, model, query[i][1])
  BY <1>1, FirstIsNewest
<1> HIDE DEF rows, n, expected
<1>5. /\ n \in Nat /\ query \in [1 .. n -> rows]
      /\ \A i, j \in 1 .. n : i < j => Precedes(query[i], query[j])
      /\ \A r \in rows : \E i \in 1 .. n : query[i] = r
  BY <1>1 DEF IsQuery, n
<1>6. \A i \in learned : i \in 1 .. n /\ query[i] \in expected
  BY <1>2, <1>4, <1>5 DEF LearnedRows
<1>7. \A e \in expected : \E i \in learned : query[i] = e
  BY <1>2, <1>4, <1>5 DEF LearnedRows
<1>8. \A i, j \in 1 .. n : query[i] = query[j] => i = j
  <2> SUFFICES ASSUME NEW i \in 1 .. n, NEW j \in 1 .. n, query[i] = query[j], i < j PROVE FALSE
    BY <1>5
  <2>1. Precedes(query[i], query[j]) /\ query[i] \in rows
    BY <1>5
  <2> QED
    BY <1>3, <2>1 DEF Precedes
<1>9. learned \in SUBSET (1 .. n)
  BY <1>6
<1> HIDE DEF learned
<1>10. {SampleOf(query[i]) : i \in learned} = {SampleOf(e) : e \in expected}
  BY <1>6, <1>7
<1>11. Cardinality(learned) = Cardinality(expected)
  <2>1. f \in Bijection(learned, expected)
    BY <1>6, <1>7, <1>8 DEF Bijection, Injection, Surjection, IsInjective
  <2>2. IsFiniteSet(learned)
    <3>1. IsFiniteSet(1 .. n)
      BY <1>5, FS_Interval
    <3> QED
      BY <1>9, <3>1, FS_Subset
  <2> HIDE DEF f
  <2> QED
    BY <2>1, <2>2, FS_Bijection DEF ExistsBijection
<1>12. /\ Bias!ToSet(Bias!collect_data(query)) = {SampleOf(query[i]) : i \in learned}
       /\ Len(Bias!collect_data(query)) = Cardinality(learned)
  BY <1>5, CollectsAll DEF rows, learned
<1> QED
  BY <1>10, <1>11, <1>12 DEF query, expected

-----------------------------------------------------------------------------
(* None and JobFails are no regressions' values.                           *)
PairsOf(actuals, predictions) ==
  (SUBSET {SampleOf(e) : e \in actuals \X predictions}) \X {p.value : p \in predictions}
Distinguished(actuals, predictions) ==
  /\ JobFails # None
  /\ None \notin PairsOf(actuals, predictions)

(* No two of the expected samples are of the same hour.                    *)
LEMMA HoursOfSamples ==
  ASSUME NEW actuals, NEW predictions, Keyed(actuals, predictions), NEW model, NEW start, NEW end
  PROVE  LET expected == Expected(actuals, predictions, model, start, end)
         IN Cardinality({s.at : s \in {SampleOf(e) : e \in expected}}) = Cardinality(expected)
<1> DEFINE expected == Expected(actuals, predictions, model, start, end)
           hours == {s.at : s \in {SampleOf(e) : e \in expected}}
           f == [e \in expected |-> e[1].at]
<1>1. IsFiniteSet(expected)
  <2>1. expected \in SUBSET (actuals \X predictions)
    BY DEF Expected
  <2>2. IsFiniteSet(actuals \X predictions)
    BY FS_Product DEF Keyed
  <2> HIDE DEF expected
  <2> QED
    BY <2>1, <2>2, FS_Subset
<1>2. \A e \in expected : /\ e = <<e[1], e[2]>> /\ e[1] \in actuals /\ e[2] \in predictions
                          /\ e[2].model = model /\ e[2].at = e[1].at
                          /\ \A q \in predictions : q.model = model /\ q.at = e[1].at => q.run <= e[2].run
  BY DEF Expected, Newest
<1>3. \A e : SampleOf(e).at = e[1].at
  BY DEF SampleOf
<1> HIDE DEF expected
<1>4. hours = {e[1].at : e \in expected}
  BY <1>3
<1>5. ASSUME NEW d \in expected, NEW e \in expected, d[1].at = e[1].at PROVE d = e
  <2>1. d[1] = e[1]
    BY <1>2, <1>5 DEF Keyed
  <2>2. d[2].run <= e[2].run /\ e[2].run <= d[2].run /\ d[2].run \in Int /\ e[2].run \in Int
    BY <1>2, <1>5 DEF Keyed
  <2>3. d[2] = e[2]
    BY <1>2, <1>5, <2>2 DEF Keyed
  <2> QED
    BY <1>2, <2>1, <2>3
<1>6. f \in Bijection(expected, hours)
  BY <1>4, <1>5 DEF Bijection, Injection, Surjection, IsInjective
<1> HIDE DEF f, hours
<1>7. Cardinality(hours) = Cardinality(expected)
  BY <1>1, <1>6, FS_Bijection DEF ExistsBijection
<1> QED
  BY <1>7 DEF hours, expected

(* Every reading that counts is learned exactly once, whatever the rows.   *)
THEOREM LearningIsOnce ==
  ASSUME NEW actuals, NEW predictions, Keyed(actuals, predictions), Distinguished(actuals, predictions),
         NEW model, NEW start, NEW end
  PROVE  Bias!LearnedOnce(actuals, predictions, model, start, end)
<1> DEFINE samples == Bias!collect_data(Bias!get_actuals_left_outer_join_with_predictions(
                                                actuals, predictions, model, start, end))
           newest(a) ==
             {p \in predictions : /\ p.model = model /\ p.at = a.at
                                  /\ \A q \in predictions : q.model = model /\ q.at = a.at => q.run <= p.run}
           expected == {e \in actuals \X predictions :
                     /\ e[1].valid /\ e[1].at \in start .. end /\ e[2] \in newest(e[1])
                     /\ None \notin {e[1].value, e[2].value}}
           noons == {a \in actuals : /\ a.valid /\ a.at \in start .. end /\ a.value # None
                                     /\ Bias!HourOf(a.at) = 20 /\ newest(a) = {}}
           models == Bias!learn_models(samples)
<1>1. expected = Expected(actuals, predictions, model, start, end)
  BY DEF Expected, Newest
<1>2. Bias!ToSet(samples) = {SampleOf(e) : e \in expected} /\ Len(samples) = Cardinality(expected)
  <2>1. LET e == Expected(actuals, predictions, model, start, end)
        IN Bias!ToSet(samples) = {SampleOf(x) : x \in e} /\ Len(samples) = Cardinality(e)
    BY ExpectedAreLearned
  <2> HIDE DEF samples, expected
  <2> QED
    BY <1>1, <2>1
<1>3. Bias!ToSet(samples) \in SUBSET {SampleOf(e) : e \in actuals \X predictions}
  BY <1>2
<1>4. expected \in SUBSET (actuals \X predictions)
  OBVIOUS
<1> HIDE DEF expected
<1>5. \A h : (\E s \in Bias!ToSet(samples) : Bias!HourOf(s.at) = h)
                <=> \E e \in expected : Bias!HourOf(e[1].at) = h
  <2>1. \A e : SampleOf(e).at = e[1].at
    BY DEF SampleOf
  <2> HIDE DEF samples
  <2> QED
    BY <1>2, <2>1
<1> HIDE DEF samples
<1>6. \A h : h \in DOMAIN models <=> \E e \in expected : Bias!HourOf(e[1].at) = h
  BY <1>5 DEF Bias!learn_models
<1>7. \A h \in DOMAIN models : models[h] \in SUBSET {SampleOf(e) : e \in actuals \X predictions}
  BY <1>3 DEF Bias!learn_models
<1> HIDE DEF models
<1>8. ASSUME NEW p \in predictions, p.value # None, NEW h
      PROVE  None \notin {Bias!predict(models, p.value, h), Bias!predict_wind_direction(models, p.value, h)}
               <=> \E e \in expected : Bias!HourOf(e[1].at) = h
  <2>1. CASE h \in DOMAIN models
    <3>1. /\ Bias!predict(models, p.value, h) = <<models[h], p.value>>
          /\ Bias!predict_wind_direction(models, p.value, h) = <<models[h], p.value>>
      BY <1>8, <2>1 DEF Bias!predict, Bias!predict_wind_direction
    <3>2. <<models[h], p.value>> \in PairsOf(actuals, predictions)
      BY <1>7, <2>1 DEF PairsOf
    <3>3. <<models[h], p.value>> # None
      BY <3>2 DEF Distinguished
    <3> QED
      BY <1>6, <2>1, <3>1, <3>3
  <2>2. CASE h \notin DOMAIN models
    BY <1>6, <2>2 DEF Bias!predict
  <2> QED
    BY <2>1, <2>2
<1>9. ASSUME NEW p \in {q \in predictions : q.value # None}, NEW noon \in BOOLEAN
      PROVE  LET adjusted == Bias!add_bias_adjustments(models, p, noon)
             IN \A h \in DOMAIN adjusted :
                  None \notin adjusted[h] <=> \E e \in expected : Bias!HourOf(e[1].at) = h
  <2> DEFINE of(h) == {Bias!predict(models, p.value, h), Bias!predict_wind_direction(models, p.value, h)}
             hours == IF noon THEN {18, 21} ELSE {Bias!HourOf(p.at)}
             adjusted == Bias!add_bias_adjustments(models, p, noon)
  <2>1. adjusted = [h \in hours |-> of(h)]
    BY DEF Bias!add_bias_adjustments
  <2>2. \A h : None \notin of(h) <=> \E e \in expected : Bias!HourOf(e[1].at) = h
    BY <1>8
  <2> HIDE DEF of, hours, adjusted
  <2>3. \A h \in DOMAIN adjusted : None \notin adjusted[h] <=> \E e \in expected : Bias!HourOf(e[1].at) = h
    BY <2>1, <2>2
  <2> QED
    BY <2>3 DEF adjusted
<1>10. {SampleOf(e) : e \in expected} = {[at |-> e[1].at, x |-> e[2].value, y |-> e[1].value] : e \in expected}
  BY DEF SampleOf
<1>11. \A i \in DOMAIN samples :
         \E e \in expected : samples[i] = [at |-> e[1].at, x |-> e[2].value, y |-> e[1].value]
  <2>1. \A i \in DOMAIN samples : samples[i] \in Bias!ToSet(samples)
    BY DEF Bias!ToSet
  <2> QED
    BY <1>2, <1>10, <2>1
<1>12. Len(samples) = Cardinality({s.at : s \in Bias!ToSet(samples)})
  <2>1. Cardinality({s.at : s \in {SampleOf(e) : e \in expected}}) = Cardinality(expected)
    BY <1>1, HoursOfSamples
  <2> QED
    BY <1>2, <2>1
<1>13. {[at |-> e[1].at, x |-> e[2].value, y |-> e[1].value] : e \in expected} \in SUBSET Bias!ToSet(samples)
  BY <1>2, <1>10
<1> HIDE DEF noons
<1>14. ASSUME NEW p \in {q \in predictions : q.value # None}, NEW noon \in BOOLEAN
       PROVE  LET adjusted == Bias!add_bias_adjustments(models, p, noon)
              IN \A h \in DOMAIN adjusted :
                   /\ (\E e \in expected : Bias!HourOf(e[1].at) = h) => None \notin adjusted[h]
                   /\ None \notin adjusted[h] =>
                        \/ \E e \in expected : Bias!HourOf(e[1].at) = h
                        \/ h = 20 /\ noons # {}
  BY <1>9
<1> QED
  BY <1>11, <1>12, <1>13, <1>14, CardinalityOfRows DEF Bias!LearnedOnce, samples, expected, models, noons

-----------------------------------------------------------------------------
(* The module has the cardinality of FiniteSets.                           *)
LEMMA CardinalityOfPixels == \A T : Advisories!Cardinality(T) = Cardinality(T)
  BY DEF Advisories!Cardinality, Cardinality

(* The areas of rows that stand for disjoint parts add up to the whole.    *)
LEMMA AreasAddUp ==
  ASSUME NEW I, IsFiniteSet(I), NEW rows, IsFiniteSet(rows), NEW part \in [rows -> SUBSET I],
         \A r \in rows : r.area = Cardinality(part[r]),
         \A r, q \in rows : r # q => part[r] \intersect part[q] = {}
  PROVE  Advisories!AreaOf(rows) = Cardinality(UNION {part[r] : r \in rows})
<1> DEFINE Whole(s) == UNION {part[r] : r \in s}
           Some(s) == CHOOSE x \in s : TRUE
           f == [s \in SUBSET rows |-> Cardinality(Whole(s))]
           Sums(g) == g = [s \in SUBSET rows |->
                             IF s = {} THEN 0 ELSE Advisories!Area(Some(s)) + g[s \ {Some(s)}]]
           iter == CHOOSE g : Sums(g)
<1>1. \A s \in SUBSET rows : IsFiniteSet(s) /\ IsFiniteSet(Whole(s)) /\ Cardinality(Whole(s)) \in Nat
  <2> SUFFICES ASSUME NEW s \in SUBSET rows
               PROVE  IsFiniteSet(s) /\ IsFiniteSet(Whole(s)) /\ Cardinality(Whole(s)) \in Nat
    OBVIOUS
  <2>1. Whole(s) \in SUBSET I
    OBVIOUS
  <2> HIDE DEF Whole
  <2> QED
    BY <2>1, FS_Subset, FS_CardinalityType
<1>2. \A s \in SUBSET rows : s # {} => Some(s) \in s
  OBVIOUS
<1>3. ASSUME NEW s \in SUBSET rows, NEW r \in s
      PROVE  Cardinality(Whole(s)) = Advisories!Area(r) + Cardinality(Whole(s \ {r}))
  <2>1. Whole(s) = part[r] \union Whole(s \ {r}) /\ part[r] \intersect Whole(s \ {r}) = {}
    OBVIOUS
  <2>2. IsFiniteSet(part[r]) /\ IsFiniteSet(Whole(s \ {r})) /\ part[r] \in SUBSET I
    BY <1>1, FS_Subset
  <2> HIDE DEF Whole
  <2>3. Cardinality(part[r] \union Whole(s \ {r}))
          = Cardinality(part[r]) + Cardinality(Whole(s \ {r})) - Cardinality(part[r] \intersect Whole(s \ {r}))
    BY <2>2, FS_Union
  <2>4. Cardinality({}) = 0 /\ Cardinality(part[r]) \in Nat /\ Cardinality(Whole(s \ {r})) \in Nat
    BY <2>2, FS_EmptySet, FS_CardinalityType
  <2>5. r \in rows /\ Advisories!Area(r) = Cardinality(part[r])
    BY DEF Advisories!Area
  <2>6. Cardinality(Whole(s)) = Cardinality(part[r] \union Whole(s \ {r}))
    BY <2>1
  <2>7. Cardinality(part[r] \intersect Whole(s \ {r})) = 0
    BY <2>1, <2>4
  <2> QED
    BY <2>3, <2>4, <2>5, <2>6, <2>7
<1>4. Whole({}) = {} /\ Cardinality({}) = 0
  BY FS_EmptySet
<1> HIDE DEF Whole, Some
<1>5. Sums(f)
  <2>1. ASSUME NEW s \in SUBSET rows, s # {} PROVE f[s] = Advisories!Area(Some(s)) + f[s \ {Some(s)}]
    <3>1. Some(s) \in s /\ s \ {Some(s)} \in SUBSET rows
      BY <1>2, <2>1
    <3> QED
      BY <1>3, <3>1
  <2>2. f[{}] = 0
    BY <1>4
  <2>3. f = [s \in SUBSET rows |-> IF s = {} THEN 0 ELSE Advisories!Area(Some(s)) + f[s \ {Some(s)}]]
    BY <2>1, <2>2
  <2> QED
    BY <2>3
<1> HIDE DEF f
<1>6. Sums(iter)
  <2> HIDE DEF Sums
  <2> QED
    BY <1>5
<1>7. Advisories!AreaOf(rows) = iter[rows]
  BY DEF Advisories!AreaOf, Advisories!MapThenSumSet, Advisories!MapThenFoldSet, Some
<1> HIDE DEF iter
<1>8. \A s \in SUBSET rows : iter[s] = IF s = {} THEN 0 ELSE Advisories!Area(Some(s)) + iter[s \ {Some(s)}]
  BY <1>6
<1> HIDE DEF Sums
<1> DEFINE P == {n \in Nat : \A s \in SUBSET rows : Cardinality(s) = n => iter[s] = Cardinality(Whole(s))}
<1>9. 0 \in P
  <2>1. ASSUME NEW s \in SUBSET rows, Cardinality(s) = 0 PROVE iter[s] = Cardinality(Whole(s))
    <3>1. s = {}
      BY <1>1, <2>1, FS_EmptySet
    <3> QED
      BY <1>4, <1>8, <3>1
  <2> QED
    BY <2>1
<1>10. ASSUME NEW n \in P PROVE n + 1 \in P
  <2>1. ASSUME NEW s \in SUBSET rows, Cardinality(s) = n + 1 PROVE iter[s] = Cardinality(Whole(s))
    <3>5. n \in Nat
      OBVIOUS
    <3>6. Cardinality(s) # Cardinality({})
      BY <1>4, <2>1, <3>5
    <3>1. s # {} /\ IsFiniteSet(s)
      BY <1>1, <3>6
    <3>2. Some(s) \in s /\ s \ {Some(s)} \in SUBSET rows
      BY <1>2, <3>1
    <3>3. Cardinality(s \ {Some(s)}) = n
      <4>1. Cardinality(s \ {Some(s)}) = Cardinality(s) - 1
        BY <3>1, <3>2, FS_RemoveElement
      <4> QED
        BY <2>1, <3>5, <4>1
    <3>4. iter[s \ {Some(s)}] = Cardinality(Whole(s \ {Some(s)}))
      BY <3>2, <3>3
    <3> QED
      BY <1>3, <1>8, <3>1, <3>2, <3>4
  <2> QED
    BY <2>1
<1> HIDE DEF P
<1>11. P = Nat
  BY <1>9, <1>10, AllNumbers DEF P
<1>12. Cardinality(rows) \in P
  BY <1>11, FS_CardinalityType
<1>13. iter[rows] = Cardinality(Whole(rows))
  BY <1>12 DEF P
<1> QED
  BY <1>7, <1>13 DEF Whole

(* Sets that share nothing are together as large as both.                  *)
LEMMA TogetherApart ==
  ASSUME NEW S, IsFiniteSet(S), NEW T, IsFiniteSet(T), S \intersect T = {}
  PROVE  /\ IsFiniteSet(S \union T) /\ Cardinality(S) \in Nat /\ Cardinality(T) \in Nat
         /\ Cardinality(S \union T) = Cardinality(S) + Cardinality(T)
<1>1. /\ IsFiniteSet(S \union T)
      /\ Cardinality(S \union T) = Cardinality(S) + Cardinality(T) - Cardinality(S \intersect T)
  BY FS_Union
<1>2. Cardinality(S) \in Nat /\ Cardinality(T) \in Nat
  BY FS_CardinalityType
<1>3. Cardinality(S \intersect T) = 0
  BY FS_EmptySet
<1> QED
  BY <1>1, <1>2, <1>3

-----------------------------------------------------------------------------
(* A pixel holds numbers, a zone is a sequence of pixels, and the snow has *)
(* an age or was never processed.                                          *)
IsPixel(p) == p.hfi \in Int /\ p.snow \in Int /\ p.fuel \in Int /\ p.tpi \in Int
IsZone(zone) == zone \in Seq({zone[i] : i \in DOMAIN zone}) /\ \A i \in DOMAIN zone : IsPixel(zone[i])
IsAge(snow) == snow # None => snow \in Int

\* What the snow cancels, and the pixels of a class without and with the snow.
Covered(p, snow) == snow # None /\ snow <= 7 /\ p.snow \in 11 .. 100
OfClass(zone, t) == {i \in DOMAIN zone : Advisories!classify_hfi(zone[i].hfi) = t}
Masked(zone, snow, t) == {i \in DOMAIN zone : Advisories!MaskedHfi(zone[i], snow) = t}

(* An intensity has one class, and the two classifications agree on it.    *)
LEMMA HfiHasOneClass ==
  ASSUME NEW h \in Int
  PROVE  /\ Advisories!classify_hfi(h) \in 0 .. 2
         /\ \A t \in Advisories!Thresholds :
              Advisories!classify_by_threshold(h, t) = IF Advisories!classify_hfi(h) = t THEN 1 ELSE 0
<1>1. Advisories!classify_hfi(h) = IF h < 4000 THEN 0 ELSE IF h < 10000 THEN 1 ELSE 2
  <2>1. CASE h < 4000
    BY <2>1 DEF Advisories!classify_hfi
  <2>2. CASE h \in 4000 .. 9999
    <3>1. ~(h < 4000) /\ h < 10000
      BY <2>2
    <3>2. Advisories!classify_hfi(h) = 1
      BY <2>2, <3>1 DEF Advisories!classify_hfi, Advisories!Advisory
    <3> QED
      BY <3>1, <3>2
  <2>3. CASE h >= 10000
    BY <2>3 DEF Advisories!classify_hfi, Advisories!Warning
  <2> QED
    BY <2>1, <2>2, <2>3
<1>2. Advisories!classify_by_threshold(h, 1) = IF h >= 4000 /\ h < 10000 THEN 1 ELSE 0
  BY DEF Advisories!classify_by_threshold, Advisories!Advisory, Advisories!Warning
<1>3. Advisories!classify_by_threshold(h, 2) = IF h >= 10000 THEN 1 ELSE 0
  BY DEF Advisories!classify_by_threshold, Advisories!Advisory, Advisories!Warning
<1>4. Advisories!Thresholds = {1, 2}
  BY DEF Advisories!Thresholds, Advisories!Advisory, Advisories!Warning
<1> QED
  BY <1>1, <1>2, <1>3, <1>4

(* The two ways of classifying a pixel, and what the snow does to both.    *)
LEMMA ClassesOfPixels ==
  ASSUME NEW p, IsPixel(p), NEW snow, IsAge(snow)
  PROVE  /\ Advisories!classify_hfi(p.hfi) \in 0 .. 2 /\ Advisories!MaskedHfi(p, snow) \in 0 .. 2
         /\ \A t \in Advisories!Thresholds :
              /\ Advisories!MaskedHfi(p, snow) = t <=> Advisories!classify_hfi(p.hfi) = t /\ ~Covered(p, snow)
              /\ Advisories!classify_by_threshold(p.hfi, t)
                   = IF Advisories!classify_hfi(p.hfi) = t THEN 1 ELSE 0
<1> DEFINE c == Advisories!classify_hfi(p.hfi)
<1>1. c \in 0 .. 2
  BY HfiHasOneClass DEF IsPixel
<1>2. \A t \in Advisories!Thresholds : Advisories!classify_by_threshold(p.hfi, t) = IF c = t THEN 1 ELSE 0
  BY HfiHasOneClass DEF IsPixel
<1> HIDE DEF c
<1>3. Advisories!MaskedHfi(p, snow) = IF Covered(p, snow) THEN 0 ELSE c
  <2>1. Advisories!classify_snow_mask(p.snow) = IF p.snow \in 11 .. 100 THEN 0 ELSE 1
    BY DEF IsPixel, Advisories!classify_snow_mask
  <2>2. CASE snow = None \/ snow > 7
    BY <2>2 DEF Advisories!MaskedHfi, Covered, IsAge, c
  <2>3. CASE ~(snow = None \/ snow > 7)
    <3>1. Advisories!MaskedHfi(p, snow) = c * Advisories!classify_snow_mask(p.snow)
      BY <2>3 DEF Advisories!MaskedHfi, Advisories!apply_snow_mask, c
    <3>2. Covered(p, snow) <=> p.snow \in 11 .. 100
      BY <2>3 DEF Covered, IsAge
    <3>3. c * 0 = 0 /\ c * 1 = c
      BY <1>1
    <3> QED
      BY <2>1, <3>1, <3>2, <3>3
  <2> QED
    BY <2>2, <2>3
<1>4. \A t \in Advisories!Thresholds : t \in 1 .. 2
  BY DEF Advisories!Thresholds, Advisories!Advisory, Advisories!Warning
<1> QED
  BY <1>1, <1>2, <1>3, <1>4 DEF c

(* The pixels of a zone can be counted.                                    *)
LEMMA PixelsAreFinite ==
  ASSUME NEW zone, IsZone(zone)
  PROVE  /\ IsFiniteSet(DOMAIN zone)
         /\ \A S \in SUBSET DOMAIN zone : IsFiniteSet(S) /\ Cardinality(S) \in Nat
<1>1. DOMAIN zone = 1 .. Len(zone) /\ Len(zone) \in Nat
  BY DEF IsZone
<1>2. IsFiniteSet(1 .. Len(zone))
  BY <1>1, FS_Interval
<1> QED
  BY <1>1, <1>2, FS_Subset, FS_CardinalityType

(* The area of the polygons of a threshold.                                *)
LEMMA PolygonsHaveTheirArea ==
  ASSUME NEW zone, IsZone(zone), NEW snow, IsAge(snow), NEW t \in Advisories!Thresholds
  PROVE  Advisories!AreaOf({r \in Advisories!calculate_high_hfi_areas(zone, snow) : r.threshold = t})
           = Cardinality(Masked(zone, snow, t))
<1> DEFINE rows == {r \in Advisories!calculate_high_hfi_areas(zone, snow) : r.threshold = t}
           its == Masked(zone, snow, t)
           row == [threshold |-> t, area |-> Cardinality(its)]
           part == [r \in rows |-> its]
<1>1. t # 0
  BY DEF Advisories!Thresholds, Advisories!Advisory, Advisories!Warning
<1>2. \A u : u # 0 => {i \in Advisories!ClassifiedPixels(zone, snow) :
                          Advisories!get_threshold_from_hfi(zone[i], snow) = u}
                        = Masked(zone, snow, u)
  BY DEF Advisories!ClassifiedPixels, Advisories!get_threshold_from_hfi, Masked
<1>3. rows = IF its = {} THEN {} ELSE {row}
  <2>1. \A u \in {Advisories!get_threshold_from_hfi(zone[i], snow) :
                    i \in Advisories!ClassifiedPixels(zone, snow)} : u # 0
    BY DEF Advisories!ClassifiedPixels
  <2>2. t \in {Advisories!get_threshold_from_hfi(zone[i], snow) :
                 i \in Advisories!ClassifiedPixels(zone, snow)} <=> its # {}
    BY <1>1 DEF Advisories!ClassifiedPixels, Advisories!get_threshold_from_hfi, Masked
  <2>3. Advisories!calculate_high_hfi_areas(zone, snow)
          = {[threshold |-> u, area |-> Cardinality(Masked(zone, snow, u))] :
               u \in {Advisories!get_threshold_from_hfi(zone[i], snow) :
                        i \in Advisories!ClassifiedPixels(zone, snow)}}
    BY <1>2, <2>1, CardinalityOfPixels DEF Advisories!calculate_high_hfi_areas
  <2> QED
    BY <2>2, <2>3
<1>4. its \in SUBSET DOMAIN zone
  BY DEF Masked
<1> HIDE DEF rows, its
<1>5. IsFiniteSet(rows) /\ \A r, q \in rows : r = q
  BY <1>3, FS_EmptySet, FS_Singleton
<1>6. \A r \in rows : r.area = Cardinality(its)
  BY <1>3
<1>7. UNION {part[r] : r \in rows} = its
  BY <1>3
<1>8. part \in [rows -> SUBSET DOMAIN zone] /\ \A r \in rows : part[r] = its
  BY <1>4
<1> HIDE DEF part, row
<1>9. IsFiniteSet(DOMAIN zone)
  BY PixelsAreFinite
<1>10. Advisories!AreaOf(rows) = Cardinality(UNION {part[r] : r \in rows})
  BY <1>5, <1>6, <1>8, <1>9, AreasAddUp
<1> QED
  BY <1>7, <1>10 DEF rows, its

(* The area of the fuel types of a threshold.                              *)
LEMMA FuelsHaveTheirArea ==
  ASSUME NEW zone, IsZone(zone), NEW fuel_types, IsFiniteSet(DOMAIN fuel_types),
         \A i \in DOMAIN fuel_types : fuel_types[i].fuel_type_id \in Int, NEW t \in Advisories!Thresholds
  PROVE  Advisories!AreaOf({r \in Advisories!FuelAreas(zone, fuel_types) : r.threshold = t})
           = Cardinality({i \in OfClass(zone, t) :
                            zone[i].fuel \in Advisories!combustible_fuel_type_ids(fuel_types)})
<1> DEFINE ids == Advisories!combustible_fuel_type_ids(fuel_types)
           its(f) == {i \in OfClass(zone, t) : zone[i].fuel = f}
           burning == {g \in ids : Cardinality(its(g)) > 0}
           row(f) == [fuel |-> f, threshold |-> t, area |-> Cardinality(its(f))]
           rows == {r \in Advisories!FuelAreas(zone, fuel_types) : r.threshold = t}
           part == [r \in rows |-> its(r.fuel)]
           all == {i \in OfClass(zone, t) : zone[i].fuel \in ids}
<1>1. \A f \in ids : f \in Int /\ f > 0
  BY DEF Advisories!combustible_fuel_type_ids
<1>2. ASSUME NEW i \in DOMAIN zone, NEW f \in ids
      PROVE  zone[i].fuel * Advisories!classify_by_threshold(zone[i].hfi, t) = f <=> i \in its(f)
  <2>1. Advisories!classify_by_threshold(zone[i].hfi, t) = IF i \in OfClass(zone, t) THEN 1 ELSE 0
    BY HfiHasOneClass DEF IsZone, IsPixel, OfClass
  <2>2. zone[i].fuel \in Int /\ zone[i].fuel * 1 = zone[i].fuel /\ zone[i].fuel * 0 = 0
    BY DEF IsZone, IsPixel
  <2> QED
    BY <1>1, <2>1, <2>2
<1>3. Advisories!calculate_fuel_type_areas(zone, t, fuel_types) = {row(f) : f \in burning}
  <2> DEFINE masked == Advisories!create_masked_fuel_type_tif(zone, t)
             count(f) == Cardinality({i \in DOMAIN masked : masked[i] = f})
  <2>1. \A f \in ids : {i \in DOMAIN masked : masked[i] = f} = its(f)
    BY <1>2 DEF Advisories!create_masked_fuel_type_tif, OfClass
  <2> HIDE DEF masked
  <2>2. \A f \in ids : count(f) = Cardinality(its(f))
    BY <2>1
  <2>3. Advisories!calculate_fuel_type_areas(zone, t, fuel_types)
          = {[fuel |-> f, threshold |-> t, area |-> count(f)] : f \in {g \in ids : count(g) > 0}}
    BY CardinalityOfPixels DEF Advisories!calculate_fuel_type_areas, masked
  <2> HIDE DEF count, its, ids
  <2>4. {g \in ids : count(g) > 0} = burning
    BY <2>2
  <2>5. \A f \in burning : [fuel |-> f, threshold |-> t, area |-> count(f)] = row(f)
    BY <2>2
  <2>6. Advisories!calculate_fuel_type_areas(zone, t, fuel_types)
          = {[fuel |-> f, threshold |-> t, area |-> count(f)] : f \in burning}
    BY <2>3, <2>4
  <2> HIDE DEF burning, row
  <2> QED
    BY <2>5, <2>6
<1>4. rows = Advisories!calculate_fuel_type_areas(zone, t, fuel_types)
  <2>1. ASSUME NEW u, NEW r \in Advisories!calculate_fuel_type_areas(zone, u, fuel_types) PROVE r.threshold = u
    <3> DEFINE masked == Advisories!create_masked_fuel_type_tif(zone, u)
               count(f) == Cardinality({i \in DOMAIN masked : masked[i] = f})
               S == {f \in ids : count(f) > 0}
    <3>1. r \in {[fuel |-> f, threshold |-> u, area |-> count(f)] : f \in S}
      BY <2>1, CardinalityOfPixels DEF Advisories!calculate_fuel_type_areas
    <3> HIDE DEF S, count
    <3> QED
      BY <3>1
  <2> QED
    BY <2>1 DEF Advisories!FuelAreas
<1>5. \A f \in ids : its(f) \in SUBSET DOMAIN zone
  BY DEF OfClass
<1>6. IsFiniteSet(ids)
  <2> DEFINE D == DOMAIN fuel_types
             T == {fuel_types[i].fuel_type_id : i \in D}
             g == [i \in D |-> fuel_types[i].fuel_type_id]
  <2>1. g \in Surjection(D, T)
    BY DEF Surjection
  <2>2. IsFiniteSet(D)
    OBVIOUS
  <2> HIDE DEF g, D
  <2>3. IsFiniteSet(T)
    BY <2>1, <2>2, FS_Surjection
  <2>4. ids \in SUBSET T
    BY DEF Advisories!combustible_fuel_type_ids, D
  <2> HIDE DEF T, ids
  <2> QED
    BY <2>3, <2>4, FS_Subset
<1>7. \A f \in burning : f \in ids
  OBVIOUS
<1>8. \A f \in ids : its(f) # {} => f \in burning
  <2>1. ASSUME NEW f \in ids, its(f) # {} PROVE Cardinality(its(f)) > 0
    <3>1. IsFiniteSet(its(f)) /\ Cardinality(its(f)) \in Nat
      BY <1>5, PixelsAreFinite
    <3>2. Cardinality(its(f)) # 0
      BY <2>1, <3>1, FS_EmptySet
    <3> QED
      BY <3>1, <3>2
  <2> QED
    BY <2>1
<1> HIDE DEF ids, rows, burning
<1>9. \A r \in rows : r.fuel \in burning /\ r = row(r.fuel)
  <2>1. \A f \in burning : row(f).fuel = f
    OBVIOUS
  <2> HIDE DEF row
  <2> QED
    BY <1>3, <1>4, <2>1
<1>10. \A f \in burning : row(f) \in rows
  BY <1>3, <1>4
<1>11. UNION {its(f) : f \in burning} = all
  <2>1. ASSUME NEW i \in all PROVE zone[i].fuel \in burning /\ i \in its(zone[i].fuel)
    BY <1>8
  <2>2. \A f \in burning : its(f) \in SUBSET all
    BY <1>7
  <2> HIDE DEF its, all
  <2> QED
    BY <2>1, <2>2
<1>12. IsFiniteSet(rows)
  <2> DEFINE g == [f \in burning |-> row(f)]
  <2>1. g \in Surjection(burning, rows)
    BY <1>9, <1>10 DEF Surjection
  <2>2. IsFiniteSet(burning)
    BY <1>6, FS_Subset DEF burning
  <2> HIDE DEF g
  <2> QED
    BY <2>1, <2>2, FS_Surjection
<1>13. \A f, g : f # g => its(f) \intersect its(g) = {}
  OBVIOUS
<1> HIDE DEF its
<1>14. /\ \A r \in rows : r.area = Cardinality(part[r])
       /\ \A r, q \in rows : r # q => part[r] \intersect part[q] = {}
  BY <1>9, <1>13
<1>15. part \in [rows -> SUBSET DOMAIN zone]
  BY <1>5, <1>7, <1>9
<1>16. UNION {part[r] : r \in rows} = UNION {its(f) : f \in burning}
  <2>1. \A f \in burning : row(f).fuel = f
    OBVIOUS
  <2>2. \A r \in rows : part[r] = its(r.fuel)
    OBVIOUS
  <2> HIDE DEF row, part
  <2> QED
    BY <1>9, <1>10, <2>1, <2>2
<1> HIDE DEF part, row
<1>17. IsFiniteSet(DOMAIN zone)
  BY PixelsAreFinite
<1>18. Advisories!AreaOf(rows) = Cardinality(UNION {part[r] : r \in rows})
  BY <1>12, <1>14, <1>15, <1>17, AreasAddUp
<1> QED
  BY <1>11, <1>16, <1>18 DEF rows, ids

(* The pixels whose TPI is counted.                                        *)
LEMMA CountedPixels ==
  ASSUME NEW zone, IsZone(zone), NEW snow, IsAge(snow)
  PROVE  LET tpi == Advisories!store_elevation_tpi_stats(zone, snow)
         IN tpi.valley_bottom + tpi.mid_slope + tpi.upper_slope
              + Cardinality({i \in Advisories!ClassifiedPixels(zone, snow) : zone[i].tpi \notin 1 .. 3})
              = Cardinality(Masked(zone, snow, Advisories!Advisory))
                + Cardinality(Masked(zone, snow, Advisories!Warning))
<1> DEFINE tpi == Advisories!store_elevation_tpi_stats(zone, snow)
           all == Advisories!ClassifiedPixels(zone, snow)
           counted(c) == {i \in all : zone[i].tpi = c}
           rest == {i \in all : zone[i].tpi \notin 1 .. 3}
           its(t) == Masked(zone, snow, t)
<1>1. \A i \in DOMAIN zone : Advisories!MaskedHfi(zone[i], snow) \in 0 .. 2 /\ zone[i].tpi \in Int
  BY ClassesOfPixels DEF IsZone, IsPixel
<1>2. \A c \in 1 .. 3 : {i \in DOMAIN zone : Advisories!raster_mul(zone[i], snow) = c} = counted(c)
  <2>1. ASSUME NEW c \in 1 .. 3, NEW i \in DOMAIN zone
        PROVE  Advisories!raster_mul(zone[i], snow) = c <=> i \in counted(c)
    <3>1. zone[i].tpi * 1 = zone[i].tpi /\ zone[i].tpi * 0 = 0
      BY <1>1
    <3>2. i \in all <=> Advisories!MaskedHfi(zone[i], snow) >= 1
      BY <1>1 DEF Advisories!ClassifiedPixels, Advisories!get_threshold_from_hfi
    <3> HIDE DEF all
    <3> QED
      BY <3>1, <3>2 DEF Advisories!raster_mul
  <2>2. all \in SUBSET DOMAIN zone
    BY DEF Advisories!ClassifiedPixels
  <2> HIDE DEF all
  <2> QED
    BY <2>1, <2>2
<1>3. tpi.valley_bottom = Cardinality(counted(1)) /\ tpi.mid_slope = Cardinality(counted(2))
        /\ tpi.upper_slope = Cardinality(counted(3))
  <2>1. 1 \in 1 .. 3 /\ 2 \in 1 .. 3 /\ 3 \in 1 .. 3
    OBVIOUS
  <2>2. \A c \in 1 .. 3 : Advisories!process_tpi_by_firezone(zone, snow)[c] = Cardinality(counted(c))
    BY <1>2, CardinalityOfPixels DEF Advisories!process_tpi_by_firezone
  <2> HIDE DEF counted
  <2> QED
    BY <2>1, <2>2 DEF Advisories!store_elevation_tpi_stats
<1>4. /\ all \in SUBSET DOMAIN zone /\ its(1) \in SUBSET DOMAIN zone /\ its(2) \in SUBSET DOMAIN zone
      /\ all = its(1) \union its(2) /\ its(1) \intersect its(2) = {}
  BY <1>1 DEF Advisories!ClassifiedPixels, Advisories!get_threshold_from_hfi, Masked
<1>5. \A i \in all : zone[i].tpi \in Int
  BY <1>1, <1>4
<1> HIDE DEF all, its, tpi
<1>6. /\ IsFiniteSet(its(1)) /\ IsFiniteSet(its(2)) /\ IsFiniteSet(counted(1)) /\ IsFiniteSet(counted(2))
      /\ IsFiniteSet(counted(3)) /\ IsFiniteSet(rest)
  BY <1>4, PixelsAreFinite
<1>7. /\ counted(1) \intersect counted(2) = {} /\ (counted(1) \union counted(2)) \intersect counted(3) = {}
      /\ (counted(1) \union counted(2) \union counted(3)) \intersect rest = {}
      /\ counted(1) \union counted(2) \union counted(3) \union rest = all
  BY <1>5
<1> HIDE DEF counted, rest
<1>8. Cardinality(all) = Cardinality(its(1)) + Cardinality(its(2))
  BY <1>4, <1>6, TogetherApart
<1> DEFINE A == counted(1) \union counted(2)
           B == A \union counted(3)
<1>9. IsFiniteSet(A) /\ Cardinality(A) = Cardinality(counted(1)) + Cardinality(counted(2))
  BY <1>6, <1>7, TogetherApart
<1>10. IsFiniteSet(B) /\ Cardinality(B) = Cardinality(A) + Cardinality(counted(3))
  <2>1. A \intersect counted(3) = {}
    BY <1>7
  <2> HIDE DEF A
  <2> QED
    BY <1>6, <1>9, <2>1, TogetherApart
<1>11. Cardinality(all) = Cardinality(B) + Cardinality(rest)
  <2>1. B \intersect rest = {} /\ B \union rest = all
    BY <1>7
  <2> HIDE DEF B
  <2> QED
    BY <1>6, <1>10, <2>1, TogetherApart
<1>12. Advisories!Advisory = 1 /\ Advisories!Warning = 2
  BY DEF Advisories!Advisory, Advisories!Warning
<1> HIDE DEF A, B
<1>13. tpi.valley_bottom + tpi.mid_slope + tpi.upper_slope + Cardinality(rest)
         = Cardinality(its(1)) + Cardinality(its(2))
  BY <1>3, <1>8, <1>9, <1>10, <1>11
<1> QED
  BY <1>12, <1>13 DEF tpi, its, rest, all

(* The stages agree on every zone, whatever its pixels, the snow and the   *)
(* fuel types.                                                             *)
THEOREM StagesAlwaysAgree ==
  ASSUME NEW zone, IsZone(zone), NEW snow, IsAge(snow),
         NEW fuel_types, IsFiniteSet(DOMAIN fuel_types),
         \A i \in DOMAIN fuel_types : fuel_types[i].fuel_type_id \in Int
  PROVE  Advisories!StagesAgree(zone, snow, fuel_types)
<1> DEFINE areas == Advisories!calculate_high_hfi_areas(zone, snow)
           tpi == Advisories!store_elevation_tpi_stats(zone, snow)
           burns(i) == zone[i].fuel \in Advisories!combustible_fuel_type_ids(fuel_types)
           covered(i) == snow # None /\ snow <= 7 /\ zone[i].snow \in 11 .. 100
           area(t) == Advisories!AreaOf({r \in areas : r.threshold = t})
           fuel(t) == Advisories!AreaOf({r \in Advisories!FuelAreas(zone, fuel_types) : r.threshold = t})
           its(t) == {i \in DOMAIN zone : Advisories!classify_hfi(zone[i].hfi) = t}
           counted == tpi.valley_bottom + tpi.mid_slope + tpi.upper_slope
                        + Cardinality({i \in Advisories!ClassifiedPixels(zone, snow) : zone[i].tpi \notin 1 .. 3})
<1>1. Advisories!Advisory \in Advisories!Thresholds /\ Advisories!Warning \in Advisories!Thresholds
  BY DEF Advisories!Thresholds
<1>2. \A t \in Advisories!Thresholds : area(t) = Cardinality(Masked(zone, snow, t))
  BY PolygonsHaveTheirArea
<1>3. counted = Cardinality(Masked(zone, snow, Advisories!Advisory))
                + Cardinality(Masked(zone, snow, Advisories!Warning))
  BY CountedPixels
<1>4. ASSUME NEW t \in Advisories!Thresholds
      PROVE  fuel(t) = area(t) - Cardinality({i \in its(t) : ~burns(i) /\ ~covered(i)})
                               + Cardinality({i \in its(t) : burns(i) /\ covered(i)})
  <2> DEFINE A == {i \in its(t) : burns(i) /\ covered(i)}
             B == {i \in its(t) : burns(i) /\ ~covered(i)}
             C == {i \in its(t) : ~burns(i) /\ ~covered(i)}
  <2>1. fuel(t) = Cardinality({i \in its(t) : burns(i)})
    BY FuelsHaveTheirArea DEF OfClass
  <2>2. area(t) = Cardinality({i \in its(t) : ~covered(i)})
    <3>1. Masked(zone, snow, t) = {i \in its(t) : ~covered(i)}
      BY ClassesOfPixels DEF Masked, Covered, IsZone
    <3> QED
      BY <1>2, <3>1
  <2>3. /\ {i \in its(t) : burns(i)} = A \union B /\ A \intersect B = {}
        /\ {i \in its(t) : ~covered(i)} = B \union C /\ B \intersect C = {}
    <3> HIDE DEF its, burns, covered
    <3> QED
      OBVIOUS
  <2>4. A \in SUBSET DOMAIN zone /\ B \in SUBSET DOMAIN zone /\ C \in SUBSET DOMAIN zone
    OBVIOUS
  <2> HIDE DEF A, B, C, fuel, area
  <2>5. IsFiniteSet(A) /\ IsFiniteSet(B) /\ IsFiniteSet(C)
    BY <2>4, PixelsAreFinite
  <2>6. fuel(t) = Cardinality(A \union B) /\ area(t) = Cardinality(B \union C)
    BY <2>1, <2>2, <2>3
  <2>7. /\ Cardinality(A \union B) = Cardinality(A) + Cardinality(B) /\ Cardinality(A) \in Nat
        /\ Cardinality(B) \in Nat
    BY <2>3, <2>5, TogetherApart
  <2>8. Cardinality(B \union C) = Cardinality(B) + Cardinality(C) /\ Cardinality(C) \in Nat
    BY <2>3, <2>5, TogetherApart
  <2>9. fuel(t) = area(t) - Cardinality(C) + Cardinality(A)
    BY <2>6, <2>7, <2>8
  <2> QED
    BY <2>9 DEF A, C
<1>5. counted = area(Advisories!Advisory) + area(Advisories!Warning)
  BY <1>1, <1>2, <1>3
<1> QED
  BY <1>4, <1>5, CardinalityOfPixels DEF Advisories!StagesAgree
(* The three columns of a run are unique together.                         *)
RunsAreUnique(db) ==
  /\ IsFiniteSet(db.run_parameters)
  /\ \A r \in db.run_parameters : r.run_datetime \in Int
  /\ \A r, q \in db.run_parameters :
       r.run_type = q.run_type /\ r.run_datetime = q.run_datetime /\ r.for_date = q.for_date => r = q

(* Every run of a day is listed once, the newest first, and is found by the *)
(* request for it.                                                         *)
THEOREM RunsAreAlwaysListed ==
  ASSUME NEW db, RunsAreUnique(db), NEW run_type, NEW for_date
  PROVE  Advisories!RunsAreListed(db, run_type, for_date)
<1> DEFINE rows == {r \in db.run_parameters : r.run_type = run_type /\ r.for_date = for_date}
           times == {r.run_datetime : r \in rows}
           n == Cardinality(times)
           R == {pair \in times \X times : pair[1] > pair[2]}
           InOrder(s) == \A i, j \in DOMAIN s : i < j => s[i] > s[j]
           listed == Advisories!get_run_datetimes(db, run_type, for_date)
           f == [r \in rows |-> r.run_datetime]
<1>1. IsFiniteSet(rows)
  BY FS_Subset DEF RunsAreUnique
<1>2. \A r, q \in rows : r.run_datetime = q.run_datetime => r = q
  BY DEF RunsAreUnique
<1>3. \A x \in times : x \in Int
  BY DEF RunsAreUnique
<1>4. f \in Bijection(rows, times)
  BY <1>2 DEF Bijection, Injection, Surjection, IsInjective
<1>5. \A r \in rows : r.run_datetime \in times
  OBVIOUS
<1>6. \A r \in rows : Advisories!get_run_parameters_id(db, run_type, r.run_datetime, for_date) = r.id
  <2> SUFFICES ASSUME NEW r \in rows
               PROVE  Advisories!get_run_parameters_id(db, run_type, r.run_datetime, for_date) = r.id
    OBVIOUS
  <2>1. {q \in db.run_parameters : /\ q.run_type = run_type /\ q.run_datetime = r.run_datetime
                                   /\ q.for_date = for_date} = {r}
    BY DEF RunsAreUnique
  <2>2. (CHOOSE q \in {r} : TRUE) = r
    OBVIOUS
  <2> HIDE DEF rows
  <2> QED
    BY <2>1, <2>2 DEF Advisories!get_run_parameters_id
<1> HIDE DEF f, rows
<1>7. IsFiniteSet(times) /\ Cardinality(rows) = n
  BY <1>1, <1>4, FS_Bijection DEF ExistsBijection
<1>8. n \in Nat
  BY <1>7, FS_CardinalityType
<1>9. listed = CHOOSE s \in [1 .. n -> times] : InOrder(s)
  BY CardinalityOfPixels DEF Advisories!get_run_datetimes, rows
<1> HIDE DEF times
<1>10. \E s \in [1 .. n -> times] : InOrder(s)
  <2>1. /\ \A x \in times : <<x, x>> \notin R
        /\ \A x, y \in times : x = y \/ <<x, y>> \in R \/ <<y, x>> \in R
        /\ \A x, y, z \in times : <<x, y>> \in R /\ <<y, z>> \in R => <<x, z>> \in R
    BY <1>3
  <2>2. \A x, y : <<x, y>> \in R => x > y
    OBVIOUS
  <2> HIDE DEF R
  <2>3. \E s \in [1 .. n -> times] : \A i, j \in DOMAIN s : i < j => <<s[i], s[j]>> \in R
    BY <1>7, <2>1, InOrderExists
  <2> QED
    BY <2>2, <2>3
<1> HIDE DEF listed
<1>11. listed \in [1 .. n -> times] /\ InOrder(listed)
  <2> HIDE DEF InOrder, n
  <2> QED
    BY <1>9, <1>10
<1>12. Len(listed) = n /\ DOMAIN listed = 1 .. n
  BY <1>8, <1>11
<1>13. \A x \in times : \E i \in 1 .. n : listed[i] = x
  <2>1. listed \in Injection(1 .. n, times)
    <3>1. \A i, j \in 1 .. n : listed[i] = listed[j] => i = j
      <4> SUFFICES ASSUME NEW i \in 1 .. n, NEW j \in 1 .. n, listed[i] = listed[j], i < j PROVE FALSE
        BY <1>8
      <4>1. listed[i] > listed[j] /\ listed[i] \in times
        BY <1>11
      <4> QED
        BY <1>3, <4>1
    <3> QED
      BY <1>11, <3>1 DEF Injection, IsInjective
  <2>2. IsFiniteSet(1 .. n) /\ Cardinality(1 .. n) = n
    BY <1>8, FS_Interval
  <2>3. listed \in Surjection(1 .. n, times)
    BY <1>7, <2>1, <2>2, FS_Injection
  <2> QED
    BY <2>3 DEF Surjection
<1>14. \A r \in rows : \E i \in DOMAIN listed :
         Advisories!get_run_parameters_id(db, run_type, listed[i], for_date) = r.id
  BY <1>5, <1>6, <1>12, <1>13
<1> HIDE DEF n
<1>15. \A i, j \in DOMAIN listed : i < j => listed[i] > listed[j]
  BY <1>11
<1>16. Len(listed) = Cardinality(rows)
  BY <1>7, <1>12
<1> QED
  BY <1>14, <1>15, <1>16, CardinalityOfPixels DEF Advisories!RunsAreListed, listed, rows

-----------------------------------------------------------------------------
(* What the views take for granted of the shapes, and what the stages have *)
(* stored of a run.                                                        *)
ShapesAreUnique(db) ==
  \A z, y \in db.advisory_shapes : z.id = y.id \/ z.source_identifier = y.source_identifier => z = y
StoredByStages(db, run, zones, snow) ==
  /\ {h \in db.high_hfi_area : h.run = run} = Advisories!HighHfiRows(zones, snow, run)
  /\ {r \in db.advisory_tpi_stats : r.run = run} = Advisories!TpiRows(zones, snow, run)
  /\ \A z \in DOMAIN zones : IsZone(zones[z])

(* A zone with a counted pixel has an area.                                *)
LEMMA CountedHasArea ==
  ASSUME NEW zone, IsZone(zone), NEW snow, IsAge(snow),
         NEW k \in DOMAIN Advisories!store_elevation_tpi_stats(zone, snow),
         Advisories!store_elevation_tpi_stats(zone, snow)[k] > 0
  PROVE  Advisories!calculate_high_hfi_areas(zone, snow) # {}
<1>1. PICK c \in 1 .. 3 : Advisories!process_tpi_by_firezone(zone, snow)[c] > 0
  <2>1. /\ k \in {"valley_bottom", "mid_slope", "upper_slope"}
        /\ Advisories!store_elevation_tpi_stats(zone, snow)[k]
             \in {Advisories!process_tpi_by_firezone(zone, snow)[1],
                  Advisories!process_tpi_by_firezone(zone, snow)[2],
                  Advisories!process_tpi_by_firezone(zone, snow)[3]}
    BY DEF Advisories!store_elevation_tpi_stats
  <2>2. 1 \in 1 .. 3 /\ 2 \in 1 .. 3 /\ 3 \in 1 .. 3
    OBVIOUS
  <2> QED
    BY <2>1, <2>2
<1>2. Cardinality({i \in DOMAIN zone : Advisories!raster_mul(zone[i], snow) = c}) > 0
  BY <1>1, CardinalityOfPixels DEF Advisories!process_tpi_by_firezone
<1>3. PICK i \in DOMAIN zone : Advisories!raster_mul(zone[i], snow) = c
  BY <1>2, FS_EmptySet
<1>4. Advisories!MaskedHfi(zone[i], snow) >= 1
  BY <1>3 DEF Advisories!raster_mul, IsZone, IsPixel
<1>5. i \in Advisories!ClassifiedPixels(zone, snow)
  BY <1>4 DEF Advisories!ClassifiedPixels, Advisories!get_threshold_from_hfi
<1> QED
  BY <1>5, CardinalityOfPixels DEF Advisories!calculate_high_hfi_areas

(* The views agree on a run, whatever is stored of other runs.             *)
THEOREM ViewsAlwaysAgree ==
  ASSUME NEW db, ShapesAreUnique(db), None \notin db.high_hfi_area, NEW run, NEW zones, NEW snow, IsAge(snow),
         StoredByStages(db, run, zones, snow)
  PROVE  Advisories!ViewsAgree(db, run)
<1> DEFINE shapes == Advisories!get_shapes(db, run)
           summary == Advisories!get_provincial_summary(db, run)
           centred == {z \in db.advisory_shapes : z.fire_centre # None}
           of(view, z) == {r \in view : r.fire_shape_id = z.source_identifier}
           shares(view) == {<<r.threshold, r.elevated_hfi_percentage>> : r \in view}
           areas(z) == {h \in db.high_hfi_area : h.shape = z.id /\ h.run = run}
           listed(z, h) == [fire_shape_id |-> z.source_identifier, threshold |-> h.threshold,
                            elevated_hfi_percentage |-> Advisories!Percentage(h.area, z.combustible_area)]
           rolled(z, h) == [fire_shape_id |-> z.source_identifier, fire_centre_name |-> z.fire_centre,
                            threshold |-> IF h = None THEN None ELSE h.threshold,
                            elevated_hfi_percentage |->
                              IF h = None THEN 0 ELSE Advisories!Percentage(h.area, z.combustible_area)]
           some(z) == IF areas(z) = {} THEN {None} ELSE areas(z)
           tpi(z) == Advisories!get_fire_zone_tpi_stats(db, run, z.source_identifier)
<1>1. ASSUME shapes # ServerError, NEW z \in db.advisory_shapes
      PROVE  of(shapes, z) = {listed(z, h) : h \in areas(z)}
  <2>1. shapes = {listed(row[1], row[2]) : row \in Advisories!get_hfi_area(db, run)}
    BY <1>1 DEF Advisories!get_shapes
  <2>2. \A row \in Advisories!get_hfi_area(db, run) :
          row[1] \in db.advisory_shapes /\ row[2] \in areas(row[1])
    BY DEF Advisories!get_hfi_area
  <2>3. \A h \in areas(z) : <<z, h>> \in Advisories!get_hfi_area(db, run)
    BY DEF Advisories!get_hfi_area
  <2>4. \A y, h : listed(y, h).fire_shape_id = y.source_identifier
    OBVIOUS
  <2>5. \A y \in db.advisory_shapes : y.source_identifier = z.source_identifier => y = z
    BY DEF ShapesAreUnique
  <2> HIDE DEF listed, areas, shapes
  <2>6. ASSUME NEW r \in of(shapes, z) PROVE r \in {listed(z, h) : h \in areas(z)}
    <3>1. PICK row \in Advisories!get_hfi_area(db, run) : r = listed(row[1], row[2])
      BY <2>1
    <3>2. row[1] = z
      BY <2>2, <2>4, <2>5, <3>1
    <3> QED
      BY <2>2, <3>1, <3>2
  <2>7. ASSUME NEW h \in areas(z) PROVE listed(z, h) \in of(shapes, z)
    <3>1. <<z, h>>[1] = z /\ <<z, h>>[2] = h
      OBVIOUS
    <3> QED
      BY <2>1, <2>3, <2>4, <3>1
  <2> QED
    BY <2>6, <2>7
<1>2. ASSUME summary # ServerError, NEW z \in centred PROVE of(summary, z) = {rolled(z, h) : h \in some(z)}
  <2> DEFINE rows == Advisories!get_provincial_rollup(db, run)
  <2>1. summary = {rolled(row[1], row[2]) : row \in rows}
    BY <1>2 DEF Advisories!get_provincial_summary
  <2>2. rows = UNION {{s} \X some(s) : s \in centred}
    BY DEF Advisories!get_provincial_rollup
  <2>3. \A y, h : rolled(y, h).fire_shape_id = y.source_identifier
    OBVIOUS
  <2>4. \A y \in centred : y.source_identifier = z.source_identifier => y = z
    BY DEF ShapesAreUnique
  <2> HIDE DEF rolled, some, summary, rows, centred
  <2>5. ASSUME NEW r \in of(summary, z) PROVE r \in {rolled(z, h) : h \in some(z)}
    <3>1. PICK row \in rows : r = rolled(row[1], row[2])
      BY <2>1
    <3>2. PICK s \in centred : row \in {s} \X some(s)
      BY <2>2, <3>1
    <3>3. row[1] = s /\ row[2] \in some(s)
      BY <3>2
    <3>4. s = z
      BY <2>3, <2>4, <3>1, <3>3
    <3> QED
      BY <3>1, <3>3, <3>4
  <2>6. ASSUME NEW h \in some(z) PROVE rolled(z, h) \in of(summary, z)
    <3>1. <<z, h>> \in rows /\ <<z, h>>[1] = z /\ <<z, h>>[2] = h
      BY <1>2, <2>2
    <3> QED
      BY <2>1, <2>3, <3>1
  <2> QED
    BY <2>5, <2>6
<1>3. ASSUME shapes # ServerError, summary # ServerError, NEW z \in centred
      PROVE  shares(of(summary, z)) = IF of(shapes, z) = {} THEN {<<None, 0>>} ELSE shares(of(shapes, z))
  <2>1. of(shapes, z) = {listed(z, h) : h \in areas(z)} /\ of(summary, z) = {rolled(z, h) : h \in some(z)}
    BY <1>1, <1>2, <1>3
  <2>2. CASE areas(z) = {}
    <3>1. of(shapes, z) = {} /\ of(summary, z) = {rolled(z, None)}
      <4>1. some(z) = {None}
        BY <2>2
      <4> HIDE DEF of, some, areas, rolled, listed
      <4> QED
        BY <2>1, <2>2, <4>1
    <3>2. rolled(z, None).threshold = None /\ rolled(z, None).elevated_hfi_percentage = 0
      OBVIOUS
    <3> HIDE DEF of, rolled
    <3> QED
      BY <3>1, <3>2
  <2>3. CASE areas(z) # {}
    <3>1. of(shapes, z) # {} /\ of(summary, z) = {rolled(z, h) : h \in areas(z)}
      <4>1. some(z) = areas(z)
        BY <2>3
      <4> HIDE DEF of, some, areas, rolled, listed
      <4> QED
        BY <2>1, <2>3, <4>1
    <3>2. ASSUME NEW h \in areas(z)
          PROVE  /\ rolled(z, h).threshold = listed(z, h).threshold
                 /\ rolled(z, h).elevated_hfi_percentage = listed(z, h).elevated_hfi_percentage
      <4>1. h # None
        OBVIOUS
      <4> HIDE DEF areas
      <4> QED
        BY <4>1
    <3> HIDE DEF of, rolled, listed, areas
    <3> QED
      BY <2>1, <3>1, <3>2
  <2> QED
    BY <2>2, <2>3
<1>4. ASSUME NEW z \in centred, tpi(z) # None
      PROVE  \E r \in db.advisory_tpi_stats :
               r.run = run /\ r.shape = z.id /\ tpi(z) = Advisories!InSquareMetres(r.tpi)
  <2> DEFINE its == {r \in db.advisory_tpi_stats :
                       r.run = run /\ \E y \in db.advisory_shapes :
                                        y.source_identifier = z.source_identifier /\ y.id = r.shape}
  <2>1. its # {} /\ tpi(z) = Advisories!InSquareMetres((CHOOSE r \in its : TRUE).tpi)
    BY <1>4 DEF Advisories!get_fire_zone_tpi_stats, Advisories!get_zonal_tpi_stats
  <2>2. PICK r \in its : tpi(z) = Advisories!InSquareMetres(r.tpi)
    <3> HIDE DEF its, tpi
    <3> QED
      BY <2>1
  <2>3. r.shape = z.id
    BY DEF ShapesAreUnique
  <2> QED
    BY <2>2, <2>3
<1>5. ASSUME NEW z \in centred, tpi(z) # None
      PROVE  <<z.source_identifier, tpi(z)>> \in Advisories!get_fire_centre_tpi_stats(db, run, z.fire_centre)
  <2>1. PICK r \in db.advisory_tpi_stats :
          r.run = run /\ r.shape = z.id /\ tpi(z) = Advisories!InSquareMetres(r.tpi)
    BY <1>4, <1>5
  <2>2. <<z, r>> \in Advisories!get_centre_tpi_stats(db, run, z.fire_centre)
        /\ <<z, r>>[1] = z /\ <<z, r>>[2] = r
    BY <2>1 DEF Advisories!get_centre_tpi_stats
  <2> HIDE DEF tpi
  <2> QED
    BY <2>1, <2>2 DEF Advisories!get_fire_centre_tpi_stats
<1>6. ASSUME shapes # ServerError, NEW z \in centred, tpi(z) # None, NEW k \in DOMAIN tpi(z), tpi(z)[k] > 0
      PROVE  of(shapes, z) # {}
  <2>1. PICK r \in db.advisory_tpi_stats :
          r.run = run /\ r.shape = z.id /\ tpi(z) = Advisories!InSquareMetres(r.tpi)
    BY <1>4, <1>6
  <2>2. r \in Advisories!TpiRows(zones, snow, run)
    BY <2>1 DEF StoredByStages
  <2>3. z.id \in DOMAIN zones /\ r.tpi = Advisories!store_elevation_tpi_stats(zones[z.id], snow)
    BY <2>1, <2>2 DEF Advisories!TpiRows
  <2>4. k \in DOMAIN r.tpi /\ r.tpi[k] > 0
    <3>1. DOMAIN tpi(z) = DOMAIN r.tpi /\ tpi(z)[k] = r.tpi[k] * 100 * 100
      BY <1>6, <2>1 DEF Advisories!InSquareMetres, Advisories!PixelSize
    <3>2. r.tpi[k] \in Nat
      <4>1. \A c \in 1 .. 3 : Advisories!process_tpi_by_firezone(zones[z.id], snow)[c] \in Nat
        <5>1. IsZone(zones[z.id])
          BY <2>3 DEF StoredByStages
        <5>2. \A c \in 1 .. 3 : {i \in DOMAIN zones[z.id] : Advisories!raster_mul(zones[z.id][i], snow) = c}
                             \in SUBSET DOMAIN zones[z.id]
          OBVIOUS
        <5>3. \A c \in 1 .. 3 :
                Cardinality({i \in DOMAIN zones[z.id] : Advisories!raster_mul(zones[z.id][i], snow) = c}) \in Nat
          BY <5>1, <5>2, PixelsAreFinite
        <5> QED
          BY <5>3, CardinalityOfPixels DEF Advisories!process_tpi_by_firezone
      <4>2. 1 \in 1 .. 3 /\ 2 \in 1 .. 3 /\ 3 \in 1 .. 3
        OBVIOUS
      <4> QED
        BY <1>6, <2>3, <3>1, <4>1, <4>2 DEF Advisories!store_elevation_tpi_stats
    <3> QED
      BY <1>6, <3>1, <3>2
  <2>5. Advisories!calculate_high_hfi_areas(zones[z.id], snow) # {}
    BY <2>3, <2>4, CountedHasArea DEF StoredByStages
  <2>6. \E h \in Advisories!HighHfiRows(zones, snow, run) : h.shape = z.id
    <3>1. PICK a \in Advisories!calculate_high_hfi_areas(zones[z.id], snow) : TRUE
      BY <2>5
    <3> DEFINE h == [shape |-> z.id, run |-> run, threshold |-> a.threshold, area |-> a.area]
               of_zone(y) == {[shape |-> y, run |-> run, threshold |-> x.threshold, area |-> x.area] :
                                x \in Advisories!calculate_high_hfi_areas(zones[y], snow)}
    <3>2. h \in of_zone(z.id) /\ h.shape = z.id
      OBVIOUS
    <3>3. Advisories!HighHfiRows(zones, snow, run) = UNION {of_zone(y) : y \in DOMAIN zones}
      BY DEF Advisories!HighHfiRows
    <3> HIDE DEF h, of_zone
    <3> QED
      BY <2>3, <3>2, <3>3
  <2>7. areas(z) # {}
    BY <2>6 DEF StoredByStages
  <2> HIDE DEF of, areas, listed, tpi
  <2> QED
    BY <1>1, <1>6, <2>7
<1> HIDE DEF shares, of, tpi, shapes, summary
<1>7. shapes # ServerError /\ summary # ServerError =>
        \A z \in centred :
          /\ shares(of(summary, z)) = IF of(shapes, z) = {} THEN {<<None, 0>>} ELSE shares(of(shapes, z))
          /\ tpi(z) # None =>
               /\ <<z.source_identifier, tpi(z)>>
                    \in Advisories!get_fire_centre_tpi_stats(db, run, z.fire_centre)
               /\ (\E k \in DOMAIN tpi(z) : tpi(z)[k] > 0) => of(shapes, z) # {}
  BY <1>3, <1>5, <1>6
<1> QED
  BY <1>7 DEF Advisories!ViewsAgree, shares, of, tpi, shapes, summary

-----------------------------------------------------------------------------
(* A set of numbers has a least one if none is negative, and both ends     *)
(* if it lies between two numbers.                                         *)
LEMMA LeastExists ==
  ASSUME NEW S \in SUBSET Nat, S # {}
  PROVE  \E n \in S : \A m \in S : n <= m
<1> DEFINE Less == {ss \in Nat \X Nat : ss[1] < ss[2]}
<1>1. IsWellFoundedOn(Less, Nat)
  BY NatLessThanWellFounded DEF OpToRel
<1>2. \A m, n \in Nat : m < n => <<m, n>> \in Less
  OBVIOUS
<1> HIDE DEF Less
<1>3. PICK n \in S : \A m \in S : ~(<<m, n>> \in Less)
  BY <1>1, WFMin
<1>4. ASSUME NEW m \in S PROVE n <= m
  <2>1. m \in Nat /\ n \in Nat /\ ~(m < n)
    BY <1>2, <1>3
  <2> QED
    BY <2>1
<1> QED
  BY <1>4

LEMMA EndsExist ==
  ASSUME NEW a \in Int, NEW b \in Int, NEW S \in SUBSET (a .. b), S # {}
  PROVE  /\ Critical!Min(S) \in S /\ \A x \in S : Critical!Min(S) <= x
         /\ Critical!Max(S) \in S /\ \A x \in S : x <= Critical!Max(S)
<1>0. PICK s \in S : TRUE
  OBVIOUS
<1>a. \A x \in S : x \in Int /\ a <= x /\ x <= b /\ x - a \in Nat /\ b - x \in Nat
  OBVIOUS
<1> DEFINE Up == {x - a : x \in S}
           Down == {b - x : x \in S}
<1>1. \E n \in Up : \A m \in Up : n <= m
  <2>1. Up \in SUBSET Nat /\ s - a \in Up
    BY <1>a
  <2> HIDE DEF Up
  <2> QED
    BY <2>1, LeastExists
<1>2. \E n \in Down : \A m \in Down : n <= m
  <2>1. Down \in SUBSET Nat /\ b - s \in Down
    BY <1>a
  <2> HIDE DEF Down
  <2> QED
    BY <2>1, LeastExists
<1>3. \E n \in S : \A x \in S : n <= x
  <2>1. PICK n \in S : \A m \in Up : n - a <= m
    BY <1>1
  <2>2. ASSUME NEW x \in S PROVE n <= x
    <3>1. x - a \in Up /\ n \in Int /\ x \in Int
      OBVIOUS
    <3>2. n - a <= x - a
      BY <2>1, <3>1
    <3> QED
      BY <3>1, <3>2
  <2> QED
    BY <2>2
<1>4. \E n \in S : \A x \in S : n >= x
  <2>1. PICK n \in S : \A m \in Down : b - n <= m
    BY <1>2
  <2>2. ASSUME NEW x \in S PROVE n >= x
    <3>1. b - x \in Down /\ n \in Int /\ x \in Int
      OBVIOUS
    <3>2. b - n <= b - x
      BY <2>1, <3>1
    <3> QED
      BY <3>1, <3>2
  <2> QED
    BY <2>2
<1>5. Critical!Min(S) \in S /\ \A x \in S : Critical!Min(S) <= x
  BY <1>3 DEF Critical!Min
<1>6. Critical!Max(S) \in S /\ \A x \in S : Critical!Max(S) >= x
  BY <1>4 DEF Critical!Max
<1>7. Critical!Max(S) \in Int /\ \A x \in S : x \in Int
  BY <1>6, <1>a
<1> QED
  BY <1>5, <1>6, <1>7

(* The nearest of some whole numbers.                                      *)
LEMMA NearestExists ==
  ASSUME NEW S \in SUBSET Int, S # {}, NEW x \in Int
  PROVE  Critical!Nearest(S, x) \in S
<1> DEFINE D == {Critical!Distance(k, x) : k \in S}
<1>1. \A k \in S : Critical!Distance(k, x) \in Nat
  BY DEF Critical!Distance
<1>2. PICK d \in D : \A e \in D : d <= e
  <2>1. D \in SUBSET Nat /\ D # {}
    BY <1>1
  <2> HIDE DEF D
  <2> QED
    BY <2>1, LeastExists
<1>3. \E k \in S : \A j \in S : Critical!Distance(k, x) <= Critical!Distance(j, x)
  BY <1>2
<1> HIDE DEF D
<1> QED
  BY <1>3 DEF Critical!Nearest

-----------------------------------------------------------------------------
LEMMA CurveIsWhole ==
  ASSUME Critical!TablesAreWhole, NEW daily \in Int, NEW prev \in Int
  PROVE  /\ \A h \in 13 .. 31 : Critical!get_afternoon_overnight_diurnal_ffmc(h, daily) \in 0 .. 101
         /\ Critical!get_afternoon_overnight_diurnal_ffmc(16, daily)
              <= Critical!get_afternoon_overnight_diurnal_ffmc(17, daily)
         /\ \A h \in 7 .. 12, rh \in Int :
              LET f == Critical!get_morning_diurnal_ffmc(h, prev, rh) IN f # None => f \in 0 .. 101
<1>1. Critical!Nearest(DOMAIN Afternoon, daily) \in DOMAIN Afternoon
      /\ Critical!Nearest(DOMAIN Morning, prev) \in DOMAIN Morning
  BY NearestExists DEF Critical!TablesAreWhole
<1>2. \A h \in 13 .. 31 : Critical!get_afternoon_overnight_diurnal_ffmc(h, daily) \in 0 .. 101
  BY <1>1 DEF Critical!TablesAreWhole, Critical!get_afternoon_overnight_diurnal_ffmc
<1>3. Critical!get_afternoon_overnight_diurnal_ffmc(16, daily)
        <= Critical!get_afternoon_overnight_diurnal_ffmc(17, daily)
  BY <1>1 DEF Critical!TablesAreWhole, Critical!get_afternoon_overnight_diurnal_ffmc
<1>4. ASSUME NEW h \in 7 .. 12, NEW rh \in Int, Critical!get_morning_diurnal_ffmc(h, prev, rh) # None
      PROVE  Critical!get_morning_diurnal_ffmc(h, prev, rh) \in 0 .. 101
  <2> DEFINE ranges == Morning[Critical!Nearest(DOMAIN Morning, prev)][h]
             its == {i \in DOMAIN ranges : ranges[i].lower <= rh /\ rh <= ranges[i].upper}
             first == CHOOSE i \in its : \A j \in its : i <= j
  <2>1. ranges \in Seq([lower : Int, upper : Int, ffmc : 0 .. 101])
    BY <1>1 DEF Critical!TablesAreWhole
  <2>2. its # {} /\ Critical!get_morning_diurnal_ffmc(h, prev, rh) = ranges[first].ffmc
    BY <1>4 DEF Critical!get_morning_diurnal_ffmc
  <2>3. its \in SUBSET Nat /\ its \in SUBSET DOMAIN ranges
    BY <2>1
  <2> HIDE DEF its, ranges
  <2>4. first \in its
    BY <2>2, <2>3, LeastExists
  <2> HIDE DEF first
  <2>5. first \in DOMAIN ranges
    BY <2>3, <2>4
  <2>6. \A S : ranges \in Seq(S) => ranges[first] \in S
    BY <2>5
  <2>7. ranges[first] \in [lower : Int, upper : Int, ffmc : 0 .. 101]
    BY <2>1, <2>6, Zenon
  <2> QED
    BY <2>2, <2>7
<1> QED
  BY <1>2, <1>3, <1>4
(* Where the hours start, for a search that found a critical code f.       *)
LEMMA StartIsCritical ==
  ASSUME Critical!TablesAreWhole, NEW daily \in Int, NEW prev \in Int, NEW f \in Int,
         NEW rh, rh = None \/ rh \in [7 .. 12 -> Int \union {None}],
         NEW start, start = Critical!get_critical_hours_start(f, daily, prev, rh),
         start \notin {None, OtherError}
  PROVE  /\ daily >= f /\ start \in 7 .. 17
         /\ start > 13 => /\ \A h \in start .. 16 : Critical!get_afternoon_overnight_diurnal_ffmc(h, daily) >= f
                          /\ Critical!get_afternoon_overnight_diurnal_ffmc(start - 1, daily) < f
         /\ start <= 13 => /\ Critical!get_afternoon_overnight_diurnal_ffmc(13, daily) >= f
                           /\ \A h \in start .. 12 :
                                /\ Critical!get_morning_diurnal_ffmc(h, prev, rh[h]) \in 0 .. 101
                                /\ Critical!get_morning_diurnal_ffmc(h, prev, rh[h]) >= f
                           /\ start > 7 => Critical!get_morning_diurnal_ffmc(start - 1, prev, rh[start - 1]) < f
<1> DEFINE unknown(c) == rh[c] = None \/ Critical!get_morning_diurnal_ffmc(c, prev, rh[c]) = None
           Late(c) == Critical!get_afternoon_overnight_diurnal_ffmc(c, daily)
           Early(c) == Critical!get_morning_diurnal_ffmc(c, prev, rh[c])
           morning == {c \in 7 .. 12 : unknown(c) \/ Early(c) < f}
           afternoon == {c \in 13 .. 16 : Late(c) < f}
<1>1. rh # None /\ ~(daily < f)
  BY DEF Critical!get_critical_hours_start
<1>2. start = IF 13 \in afternoon THEN Critical!Max(afternoon) + 1
              ELSE IF morning = {} THEN 7
              ELSE IF unknown(Critical!Max(morning)) THEN OtherError ELSE Critical!Max(morning) + 1
  BY <1>1 DEF Critical!get_critical_hours_start
<1>3. \A c \in 7 .. 12 : ~unknown(c) => Early(c) \in 0 .. 101
  BY <1>1, CurveIsWhole
<1>4. \A c \in 13 .. 16 : Late(c) \in 0 .. 101
  <2>1. \A c \in 13 .. 31 : Late(c) \in 0 .. 101
    BY CurveIsWhole
  <2> QED
    BY <2>1
<1>5. \A c : c \in afternoon <=> c \in 13 .. 16 /\ Late(c) < f
  OBVIOUS
<1>6. \A c : c \in morning <=> c \in 7 .. 12 /\ (unknown(c) \/ Early(c) < f)
  OBVIOUS
<1>7. morning \in SUBSET (7 .. 12) /\ afternoon \in SUBSET (13 .. 16)
  OBVIOUS
<1> HIDE DEF morning, afternoon, unknown, Late, Early
<1>a. 7 \in Int /\ 12 \in Int /\ 13 \in Int /\ 16 \in Int
  OBVIOUS
<1>8. afternoon # {} => /\ Critical!Max(afternoon) \in afternoon
                        /\ \A x \in afternoon : x <= Critical!Max(afternoon)
  <2> SUFFICES ASSUME afternoon # {}
               PROVE  /\ Critical!Max(afternoon) \in afternoon
                      /\ \A x \in afternoon : x <= Critical!Max(afternoon)
    OBVIOUS
  <2>1. afternoon \in SUBSET (13 .. 16) /\ 13 \in Int /\ 16 \in Int
    BY <1>7
  <2> QED
    BY <2>1, EndsExist, Zenon
<1>9. morning # {} => Critical!Max(morning) \in morning /\ \A x \in morning : x <= Critical!Max(morning)
  BY <1>7, <1>a, EndsExist, Zenon
<1>10. /\ daily >= f /\ start \in 7 .. 17
       /\ start > 13 => (\A h \in start .. 16 : Late(h) >= f) /\ Late(start - 1) < f
       /\ start <= 13 => /\ Late(13) >= f
                         /\ \A h \in start .. 12 : Early(h) \in 0 .. 101 /\ Early(h) >= f
                         /\ start > 7 => Early(start - 1) < f
  <2>1. CASE 13 \in afternoon
    <3>1. start = Critical!Max(afternoon) + 1 /\ Critical!Max(afternoon) \in 13 .. 16
          /\ Late(Critical!Max(afternoon)) < f
      BY <1>2, <1>5, <1>8, <2>1
    <3>2. ASSUME NEW h \in start .. 16 PROVE Late(h) >= f
      BY <1>4, <1>5, <1>8, <2>1, <3>1
    <3> QED
      BY <1>1, <3>1, <3>2
  <2>2. CASE 13 \notin afternoon
    <3>1. Late(13) >= f
      BY <1>4, <1>5, <2>2
    <3>2. CASE morning = {}
      <4>1. start = 7
        BY <1>2, <2>2, <3>2
      <4>2. \A h \in 7 .. 12 : Early(h) \in 0 .. 101 /\ Early(h) >= f
        BY <1>3, <1>6, <3>2
      <4> QED
        BY <1>1, <3>1, <4>1, <4>2
    <3>3. CASE morning # {}
      <4>1. start = Critical!Max(morning) + 1 /\ ~unknown(Critical!Max(morning))
        BY <1>2, <2>2, <3>3
      <4>2. Critical!Max(morning) \in 7 .. 12 /\ Early(Critical!Max(morning)) < f
        BY <1>6, <1>9, <3>3, <4>1
      <4>3. ASSUME NEW h \in start .. 12 PROVE Early(h) \in 0 .. 101 /\ Early(h) >= f
        BY <1>3, <1>6, <1>9, <3>3, <4>1, <4>2
      <4> QED
        BY <1>1, <3>1, <4>1, <4>2, <4>3
    <3> QED
      BY <3>2, <3>3
  <2> QED
    BY <2>1, <2>2
<1> QED
  BY <1>10 DEF Late, Early

(* Where they end.                                                         *)
Unclocked(end) == IF end < 13 THEN end + 24 ELSE end

LEMMA EndIsCritical ==
  ASSUME Critical!TablesAreWhole, NEW daily \in Int, NEW f \in Int, NEW start \in 7 .. 17, NEW last,
         last = Unclocked(Critical!get_critical_hours_end(f, daily, start)),
         NEW first, first = IF start < 13 THEN 14 ELSE start + 1
  PROVE  /\ last \in first - 1 .. 31
         /\ \A h \in first .. last : Critical!get_afternoon_overnight_diurnal_ffmc(h, daily) >= f
         /\ last < 31 => Critical!get_afternoon_overnight_diurnal_ffmc(last + 1, daily) < f
<1> DEFINE end == Critical!get_critical_hours_end(f, daily, start)
           Late(c) == Critical!get_afternoon_overnight_diurnal_ffmc(c, daily)
           S == Critical!StopsAfter(f, daily, start)
<1>1. \A c : c \in S <=> (c \in first .. 31 /\ Late(c) < f) \/ c = 32
  BY DEF Critical!StopsAfter
<1>2. first \in 14 .. 18
  OBVIOUS
<1>3. \A c \in 13 .. 31 : Late(c) \in 0 .. 101
  BY CurveIsWhole
<1>4. end = IF Critical!Min(S) - 1 >= 24 THEN Critical!Min(S) - 1 - 24 ELSE Critical!Min(S) - 1
  BY DEF Critical!get_critical_hours_end
<1>b. last = IF end < 13 THEN end + 24 ELSE end
  BY DEF Unclocked
<1> HIDE DEF S, Late, end
<1>5. S \in SUBSET (first .. 32) /\ 32 \in S
  BY <1>1, <1>2
<1>6. Critical!Min(S) \in S /\ \A x \in S : Critical!Min(S) <= x
  <2>1. first \in Int /\ 32 \in Int /\ S # {}
    BY <1>2, <1>5
  <2> QED
    BY <1>5, <2>1, EndsExist, Zenon
<1>7. Critical!Min(S) \in first .. 32 /\ last = Critical!Min(S) - 1
  <2>1. Critical!Min(S) \in first .. 32
    BY <1>5, <1>6
  <2> QED
    BY <1>2, <1>4, <1>b, <2>1
<1>8. last \in first - 1 .. 31
  BY <1>2, <1>7
<1>9. ASSUME NEW h \in first .. last PROVE Late(h) >= f
  BY <1>1, <1>2, <1>3, <1>6, <1>7
<1>10. ASSUME last < 31 PROVE Late(last + 1) < f
  BY <1>1, <1>2, <1>6, <1>7, <1>10
<1> QED
  BY <1>8, <1>9, <1>10 DEF Late

(* On the diurnal curve, between the two ends.                             *)
LEMMA CurveIsCritical ==
  ASSUME Critical!TablesAreWhole, NEW daily \in 0 .. 101, NEW prev \in Int, NEW f \in Int,
         NEW rh, rh = None \/ rh \in [7 .. 12 -> Int \union {None}],
         NEW start, start = Critical!get_critical_hours_start(f, daily, prev, rh),
         start \notin {None, OtherError},
         NEW last,
         last = Unclocked(Critical!get_critical_hours_end(f, daily, start))
  PROVE  /\ start \in 7 .. 17 /\ last \in start .. 31
         /\ \A h \in start .. last : /\ Critical!DiurnalFFMC(h, daily, prev, rh) \in 0 .. 101
                                     /\ Critical!DiurnalFFMC(h, daily, prev, rh) >= f
         /\ start > 7 => Critical!DiurnalFFMC(start - 1, daily, prev, rh) < f
         /\ last < 31 => Critical!DiurnalFFMC(last + 1, daily, prev, rh) < f
<1> DEFINE first == IF start < 13 THEN 14 ELSE start + 1
           Late(h) == Critical!get_afternoon_overnight_diurnal_ffmc(h, daily)
           Early(h) == Critical!get_morning_diurnal_ffmc(h, prev, rh[h])
           curve(h) == Critical!DiurnalFFMC(h, daily, prev, rh)
<1>1. /\ daily >= f /\ start \in 7 .. 17
      /\ start > 13 => (\A h \in start .. 16 : Late(h) >= f) /\ Late(start - 1) < f
      /\ start <= 13 => /\ Late(13) >= f
                        /\ \A h \in start .. 12 : Early(h) \in 0 .. 101 /\ Early(h) >= f
                        /\ start > 7 => Early(start - 1) < f
  BY StartIsCritical
<1>2. /\ last \in first - 1 .. 31
      /\ \A h \in first .. last : Late(h) >= f
      /\ last < 31 => Late(last + 1) < f
  <2>1. start \in 7 .. 17 /\ daily \in Int
    BY <1>1
  <2>2. \A n : n = (IF start < 13 THEN 14 ELSE start + 1) =>
           /\ last \in n - 1 .. 31
           /\ \A h \in n .. last : Critical!get_afternoon_overnight_diurnal_ffmc(h, daily) >= f
           /\ last < 31 => Critical!get_afternoon_overnight_diurnal_ffmc(last + 1, daily) < f
    BY <2>1, EndIsCritical, Zenon
  <2> HIDE DEF first
  <2>3. first = (IF start < 13 THEN 14 ELSE start + 1)
    BY DEF first
  <2> QED
    BY <2>2, <2>3, Zenon
<1>3. Late(16) <= Late(17) /\ \A h \in 13 .. 31 : Late(h) \in 0 .. 101
  <2>1. daily \in Int
    OBVIOUS
  <2> QED
    BY <2>1, CurveIsWhole
<1>4. \A h \in 7 .. 31 : curve(h) = IF h = 17 THEN daily ELSE IF h < 13 THEN Early(h) ELSE Late(h)
  BY DEF Critical!DiurnalFFMC
<1>5. start \in 7 .. 17 /\ first = (IF start < 13 THEN 14 ELSE start + 1) /\ last \in first - 1 .. 31
  BY <1>1, <1>2
<1> HIDE DEF first, Late, Early, curve
<1>6. first \in 14 .. 18 /\ start < first /\ last \in start .. 31 /\ (start < 13 => first = 14)
  BY <1>5
<1>7. ASSUME NEW h \in start .. last
      PROVE  curve(h) \in 0 .. 101 /\ curve(h) >= f
  <2>1. h \in 7 .. 31
    BY <1>5
  <2>2. CASE h = 17
    BY <1>1, <1>4, <2>1, <2>2
  <2>3. CASE h < 13
    <3>1. start <= 13 /\ h \in start .. 12 /\ curve(h) = Early(h)
      BY <1>4, <1>5, <2>1, <2>3
    <3> QED
      BY <1>1, <3>1
  <2>4. CASE h >= 13 /\ h # 17
    <3>1. curve(h) = Late(h) /\ h \in 13 .. 31
      BY <1>4, <2>1, <2>4
    <3>2. CASE h >= first
      <4>1. h \in first .. last
        BY <1>5, <1>6, <3>2
      <4> QED
        BY <1>2, <1>3, <3>1, <4>1
    <3>3. CASE h < first
      <4>1. CASE start <= 13
        <5>1. h = 13
          BY <1>5, <2>4, <3>1, <3>3, <4>1
        <5> QED
          BY <1>1, <1>3, <3>1, <4>1, <5>1
      <4>2. CASE start > 13
        <5>1. h = start /\ h \in start .. 16
          BY <1>5, <2>4, <3>1, <3>3, <4>2
        <5> QED
          BY <1>1, <1>3, <3>1, <4>2, <5>1
      <4> QED
        BY <1>5, <4>1, <4>2
    <3> QED
      BY <1>6, <3>1, <3>2, <3>3
  <2> QED
    BY <2>1, <2>2, <2>3, <2>4
<1>8. ASSUME start > 7 PROVE curve(start - 1) < f
  <2>1. CASE start > 13
    <3>1. start - 1 \in 13 .. 16 /\ curve(start - 1) = Late(start - 1)
      BY <1>4, <1>5, <2>1
    <3> QED
      BY <1>1, <2>1, <3>1
  <2>2. CASE start <= 13
    <3>1. start - 1 \in 7 .. 12 /\ curve(start - 1) = Early(start - 1)
      BY <1>4, <1>5, <1>8, <2>2
    <3> QED
      BY <1>1, <1>8, <2>2, <3>1
  <2> QED
    BY <1>5, <2>1, <2>2
<1>9. ASSUME last < 31 PROVE curve(last + 1) < f
  <2>1. last + 1 \in 14 .. 31 /\ Late(last + 1) < f
    BY <1>2, <1>5, <1>6, <1>9
  \* The column of 18:00 is not lower than that of 16:00, which was critical.
  <2>2. last # 16
    <3> SUFFICES ASSUME last = 16 PROVE FALSE
      OBVIOUS
    <3>1. Late(17) < f
      BY <2>1
    <3>2. Late(16) >= f
      <4>1. CASE first <= 16
        <5>1. 16 \in first .. last
          BY <1>6, <4>1
        <5> QED
          BY <1>2, <5>1
      <4>2. CASE first > 16
        <5>1. start = 16
          BY <1>5, <4>2
        <5>2. 16 \in start .. 16 /\ start > 13
          BY <5>1
        <5> QED
          BY <1>1, <5>2
      <4> QED
        BY <1>6, <4>1, <4>2
    <3>3. Late(16) \in Int /\ Late(17) \in Int
      BY <1>3
    <3> QED
      BY <1>3, <3>1, <3>2, <3>3
  <2>3. curve(last + 1) = Late(last + 1)
    BY <1>4, <1>6, <2>1, <2>2
  <2> QED
    BY <2>1, <2>3
<1> QED
  BY <1>5, <1>6, <1>7, <1>8, <1>9 DEF curve

(* Intensities that rise with the code.                                    *)
Rises(hfi) == hfi \in [0 .. 101 -> Int] /\ \A x, y \in 0 .. 101 : x <= y => hfi[x] <= hfi[y]

(* The hours that a search leads to (get_critical_hours of prediction.py)  *)
(* are critical, each of them and no other: for any curves of the tables,  *)
(* any known or missing humidities, and intensities that rise.             *)
THEOREM HoursAreAlwaysCritical ==
  ASSUME Critical!TablesAreWhole, NEW ffmc, NEW target \in Nat, NEW daily \in 0 .. 101, NEW prev \in Int,
         NEW hfi, Rises(hfi), NEW rh, rh = None \/ rh \in [7 .. 12 -> Int \union {None}]
  PROVE  Critical!HoursAreCritical(ffmc, hfi, target, daily, prev, rh)
<1> DEFINE Hours(found) == Critical!get_critical_hours(found, target, daily, prev, rh)
           curve(h) == Critical!DiurnalFFMC(h, daily, prev, rh)
           Until(found) == IF Hours(found).end < 13 THEN Hours(found).end + 24 ELSE Hours(found).end
<1> SUFFICES ASSUME NEW found \in Critical!get_ffmc_for_target_hfi(ffmc, hfi, target),
                    Hours(found) \notin {None, OtherError}, found[1] # 0
             PROVE  /\ \A h \in Hours(found).start .. Until(found) :
                         curve(h) >= found[1] /\ 100 * (target - hfi[curve(h)]) <= target
                    /\ Hours(found).start > 7 => curve(Hours(found).start - 1) < found[1]
                    /\ Until(found) < 31 => curve(Until(found) + 1) < found[1]
  BY DEF Critical!HoursAreCritical
<1> DEFINE f == found[1]
           start == Critical!get_critical_hours_start(f, daily, prev, rh)
           end == Critical!get_critical_hours_end(f, daily, start)
           last == Unclocked(end)
\* What the search found.
<1>a. DOMAIN hfi = 0 .. 101 /\ \A x \in 0 .. 101 : hfi[x] \in Int
  BY DEF Rises
<1>b. /\ f \in DOMAIN hfi /\ found[2] = hfi[f]
      /\ 100 * Critical!Distance(target, hfi[f]) <= target \/ (f = 101 /\ hfi[f] < target)
  BY DEF Critical!get_ffmc_for_target_hfi
<1>1. f \in 1 .. 101 /\ found[2] = hfi[f]
  BY <1>a, <1>b
<1>2. ~(f = 101 /\ hfi[f] < target)
  BY <1>1 DEF Critical!get_critical_hours
<1>3. 100 * (target - hfi[f]) <= target
  <2>1. \/ 100 * Critical!Distance(target, hfi[f]) <= target
        \/ f = 101 /\ hfi[f] < target
    BY <1>b
  <2>2. hfi[f] \in Int /\ target \in Int
    BY <1>1, <1>a
  <2> QED
    BY <1>2, <2>1, <2>2 DEF Critical!Distance
<1>4. Hours(found) = (IF start \in {None, OtherError} THEN start ELSE [start |-> start, end |-> end])
  BY <1>1, <1>2 DEF Critical!get_critical_hours
<1>5. start \notin {None, OtherError} /\ Hours(found).start = start /\ Hours(found).end = end
  BY <1>4
<1>6. Until(found) = last
  BY <1>5 DEF Unclocked
\* Its hours, from one end to the other.
<1>7. /\ start \in 7 .. 17 /\ last \in start .. 31
      /\ \A h \in start .. last : curve(h) \in 0 .. 101 /\ curve(h) >= f
      /\ start > 7 => curve(start - 1) < f
      /\ last < 31 => curve(last + 1) < f
  <2>1. f \in Int
    BY <1>1
  <2> HIDE DEF f
  <2> QED
    BY <2>1, <1>5, CurveIsCritical
<1> HIDE DEF f, start, end, last, curve, Hours, Until
<1>8. ASSUME NEW h \in start .. last
      PROVE  100 * (target - hfi[curve(h)]) <= target
  <2>1. f \in 0 .. 101 /\ curve(h) \in 0 .. 101 /\ f <= curve(h)
    BY <1>1, <1>7
  <2>2. hfi[f] <= hfi[curve(h)]
    BY <2>1 DEF Rises
  <2>3. hfi[f] \in Int /\ hfi[curve(h)] \in Int
    BY <1>a, <2>1
  <2> QED
    BY <1>3, <2>2, <2>3
<1> QED
  BY <1>5, <1>6, <1>7, <1>8 DEF f

(* The hours that a station leads to are its own.                          *)
LEMMA StationsOwnHours ==
  ASSUME NEW s, NEW f, Critical!HoursOfStation(s, f) \notin Critical!Errors
  PROVE  Critical!HoursOfStation(s, f) = s.hours
<1> DEFINE wind == Critical!calculate_wind_speed_result([ws |-> None], s.yesterday, s.daily)
           x == Critical!InputsOf(s, f, wind)
           sfc == Critical!surface_fuel_consumption(f, x)
           ros == Critical!rate_of_spread(f, x, Critical!foliar_moisture_content, sfc)
<1>1. Critical!Errors = Hfi!Errors
  BY DEF Critical!Errors, Hfi!Errors
<1>2. \A calls, result : Critical!Unless(calls, result) = Hfi!Unless(calls, result)
  BY <1>1 DEF Critical!Unless, Hfi!Unless
<1>3. Critical!HoursOfStation(s, f) = Hfi!Unless(<<wind>>, Hfi!Unless(<<sfc, ros>>, s.hours))
  <2>1. s.yesterday # None
    BY DEF Critical!HoursOfStation, Critical!Errors
  <2> QED
    BY <1>2, <2>1 DEF Critical!HoursOfStation, Critical!HoursInWind
<1> HIDE DEF wind, x, sfc, ros
<1>4. Hfi!Unless(<<wind>>, Hfi!Unless(<<sfc, ros>>, s.hours)) = Hfi!Unless(<<sfc, ros>>, s.hours)
  BY <1>1, <1>3, OneCall
<1>5. <<sfc, ros>> \in Seq({sfc, ros})
  OBVIOUS
<1>6. Hfi!Unless(<<sfc, ros>>, s.hours) = s.hours
  BY <1>1, <1>3, <1>4, <1>5, NoneFailed
<1> QED
  BY <1>3, <1>4, <1>6

(* Times of some stations, and what a zone makes of them.                  *)
IsTimes(times) ==
  /\ IsFiniteSet(DOMAIN times) /\ DOMAIN times \in SUBSET Int /\ DOMAIN times # {}
  /\ \A i \in DOMAIN times : times[i] \in 0 .. 23

LEMMA CardinalityOfStations == \A T : Critical!Cardinality(T) = Cardinality(T)
  BY DEF Critical!Cardinality, Cardinality

LEMMA SortedExists ==
  ASSUME NEW times, IsTimes(times)
  PROVE  Critical!Sorted(times) \in [1 .. Cardinality(DOMAIN times) -> DOMAIN times]
<1> DEFINE D == DOMAIN times
           n == Cardinality(D)
           Before(i, j) == times[i] < times[j] \/ (times[i] = times[j] /\ i < j)
           Earlier == {p \in D \X D : Before(p[1], p[2])}
           InOrder(s) == \A i, j \in DOMAIN s : i < j => Before(s[i], s[j])
<1>1. IsFiniteSet(D) /\ \A i \in D : i \in Int /\ times[i] \in Int
  BY DEF IsTimes
<1>2. \A i, j \in D : <<i, j>> \in Earlier <=> Before(i, j)
  OBVIOUS
<1>3. /\ \A i \in D : ~Before(i, i)
      /\ \A i, j \in D : i = j \/ Before(i, j) \/ Before(j, i)
      /\ \A i, j, k \in D : Before(i, j) /\ Before(j, k) => Before(i, k)
  BY <1>1
<1>4. Critical!Sorted(times) = CHOOSE s \in [1 .. n -> D] : InOrder(s)
  BY CardinalityOfStations DEF Critical!Sorted
<1> HIDE DEF D, n, Before, Earlier
<1>5. \E s \in [1 .. n -> D] : \A i, j \in DOMAIN s : i < j => <<s[i], s[j]>> \in Earlier
  <2>1. /\ \A i \in D : <<i, i>> \notin Earlier
        /\ \A i, j \in D : i = j \/ <<i, j>> \in Earlier \/ <<j, i>> \in Earlier
        /\ \A i, j, k \in D : <<i, j>> \in Earlier /\ <<j, k>> \in Earlier => <<i, k>> \in Earlier
    BY <1>2, <1>3
  <2> QED
    BY <1>1, <2>1, InOrderExists DEF n
<1>6. \E s \in [1 .. n -> D] : InOrder(s)
  BY <1>2, <1>5
<1> HIDE DEF InOrder
<1>7. Critical!Sorted(times) \in [1 .. n -> D]
  BY <1>4, <1>6
<1> QED
  BY <1>7 DEF n, D

(* A percentile lies between two of the times.                             *)
LEMMA PercentileIsBetween ==
  ASSUME NEW times, IsTimes(times), Cardinality(DOMAIN times) >= 3, NEW q \in {1, 3}
  PROVE  /\ Critical!Percentile4(times, q) \in Int
         /\ \E i \in DOMAIN times : 4 * times[i] <= Critical!Percentile4(times, q)
         /\ \E i \in DOMAIN times : Critical!Percentile4(times, q) <= 4 * times[i]
<1> DEFINE s == Critical!Sorted(times)
           n == Cardinality(DOMAIN times)
           at == (n - 1) * q
           i == at \div 4 + 1
           r == at % 4
           a == times[s[i]]
           b == times[s[i + 1]]
<1>1. n \in Nat /\ n >= 3 /\ \A k \in DOMAIN times : times[k] \in Int
  BY FS_CardinalityType DEF IsTimes
<1>2. s \in [1 .. n -> DOMAIN times]
  BY SortedExists
<1>3. Critical!Percentile4(times, q) = IF r = 0 THEN 4 * a ELSE a * (4 - r) + b * r
  BY CardinalityOfStations DEF Critical!Percentile4
<1> HIDE DEF n, s
<1>4. at \in Nat /\ (at = n - 1 \/ at = 3 * (n - 1))
  BY <1>1
<1>5. i \in 1 .. n /\ r \in 0 .. 3 /\ (r # 0 => i + 1 \in 1 .. n)
  <2>1. CASE at = n - 1
    BY <1>1, <2>1
  <2>2. CASE at = 3 * (n - 1)
    BY <1>1, <2>2
  <2> QED
    BY <1>4, <2>1, <2>2
<1> HIDE DEF i, r, at
<1>6. s[i] \in DOMAIN times /\ a \in Int
  BY <1>1, <1>2, <1>5
<1>7. r # 0 => s[i + 1] \in DOMAIN times /\ b \in Int
  BY <1>1, <1>2, <1>5
<1> DEFINE p == Critical!Percentile4(times, q)
<1>8. CASE r = 0
  <2>1. p = 4 * a
    BY <1>3, <1>8
  <2> QED
    BY <1>6, <2>1
<1>9. CASE r # 0
  <2>1. p = a * (4 - r) + b * r /\ r \in {1, 2, 3} /\ a \in Int /\ b \in Int
    BY <1>3, <1>5, <1>6, <1>7, <1>9
  <2> DEFINE c == a
             d == b
  <2>2. p = c * (4 - r) + d * r /\ c \in Int /\ d \in Int
    BY <2>1
  <2> HIDE DEF p, c, d
  <2>3. p \in Int /\ (4 * c <= p \/ 4 * d <= p) /\ (p <= 4 * c \/ p <= 4 * d)
    <3>1. CASE r = 1
      BY <2>2, <3>1
    <3>2. CASE r = 2
      BY <2>2, <3>2
    <3>3. CASE r = 3
      BY <2>2, <3>3
    <3> QED
      BY <2>1, <3>1, <3>2, <3>3
  <2> QED
    BY <1>6, <1>7, <1>9, <2>3 DEF p, c, d
<1> QED
  BY <1>8, <1>9

LEMMA TimesAreOfStations ==
  ASSUME NEW times, IsTimes(times)
  PROVE  /\ \E i \in DOMAIN times : times[i] <= Critical!determine_start_time(times)
         /\ \E i \in DOMAIN times : Critical!determine_end_time(times) <= times[i]
<1> DEFINE all == {times[i] : i \in DOMAIN times}
<1>1. Cardinality(DOMAIN times) \in Nat /\ \A i \in DOMAIN times : times[i] \in Int
  BY FS_CardinalityType DEF IsTimes
<1>2. CASE Cardinality(DOMAIN times) < 3
  <2>1. all \in SUBSET (0 .. 23) /\ all # {} /\ 0 \in Int /\ 23 \in Int
    BY DEF IsTimes
  <2>2. Critical!Min(all) \in all /\ Critical!Max(all) \in all
    <3> HIDE DEF all
    <3> QED
      BY <2>1, EndsExist, Zenon
  <2>3. /\ Critical!determine_start_time(times) = Critical!Min(all)
        /\ Critical!determine_end_time(times) = Critical!Max(all)
    BY <1>2, CardinalityOfStations DEF Critical!determine_start_time, Critical!determine_end_time
  <2>4. PICK i \in DOMAIN times : Critical!Min(all) = times[i]
    BY <2>2
  <2>5. PICK j \in DOMAIN times : Critical!Max(all) = times[j]
    BY <2>2
  <2> HIDE DEF all
  <2> QED
    BY <1>1, <2>3, <2>4, <2>5
<1>3. CASE Cardinality(DOMAIN times) >= 3
  <2>1. /\ Critical!determine_start_time(times) = Critical!Percentile4(times, 1) \div 4
        /\ Critical!determine_end_time(times) = (Critical!Percentile4(times, 3) + 3) \div 4
    BY <1>1, <1>3, CardinalityOfStations DEF Critical!determine_start_time, Critical!determine_end_time
  <2>2. PICK i \in DOMAIN times : 4 * times[i] <= Critical!Percentile4(times, 1)
    BY <1>3, PercentileIsBetween
  <2>3. PICK j \in DOMAIN times : Critical!Percentile4(times, 3) <= 4 * times[j]
    BY <1>3, PercentileIsBetween
  <2>4. Critical!Percentile4(times, 1) \in Int /\ Critical!Percentile4(times, 3) \in Int
    BY <1>3, PercentileIsBetween
  <2>5. times[i] <= Critical!Percentile4(times, 1) \div 4
    BY <1>1, <2>2, <2>4
  <2>6. (Critical!Percentile4(times, 3) + 3) \div 4 <= times[j]
    BY <1>1, <2>3, <2>4
  <2> QED
    BY <2>1, <2>5, <2>6
<1> QED
  BY <1>1, <1>2, <1>3

(* What is known of the stations of a zone: their hours are of the clock.  *)
HaveHours(stations) ==
  /\ IsFiniteSet(DOMAIN stations) /\ DOMAIN stations \in SUBSET Int
  /\ \A i \in DOMAIN stations : stations[i].hours \in {None} \union [start : 0 .. 23, end : 0 .. 23]

\* The stations of a zone that lead to hours for the fuel type that a code names.
Leading(stations, code) ==
  {i \in DOMAIN stations :
     /\ Critical!check_station_valid(stations[i])
     /\ Critical!HoursOfStation(stations[i], Critical!FuelOf(code)) \notin Critical!Errors \union {None}}

(* The representative hours of a fuel type lie within its stations'.       *)
LEMMA HoursAreRepresentative ==
  ASSUME NEW stations, HaveHours(stations), NEW code, Leading(stations, code) # {},
         NEW hours,
         hours = [i \in Leading(stations, code) |->
                    Critical!HoursOfStation(stations[i], Critical!FuelOf(code))]
  PROVE  LET its == Critical!calculate_representative_hours(hours)
         IN /\ \E i \in Leading(stations, code) : hours[i].start <= its[1]
            /\ \E i \in Leading(stations, code) : its[2] <= hours[i].end
<1> DEFINE D == Leading(stations, code)
           starts == [i \in DOMAIN hours |-> hours[i].start]
           ends == [i \in DOMAIN hours |-> hours[i].end]
<1>1. D \in SUBSET DOMAIN stations
  BY DEF Leading
<1>2. IsFiniteSet(D) /\ D \in SUBSET Int /\ D # {}
  BY <1>1, FS_Subset DEF HaveHours
<1>3. ASSUME NEW i \in D PROVE hours[i].start \in 0 .. 23 /\ hours[i].end \in 0 .. 23
  <2>1. hours[i] = stations[i].hours /\ hours[i] # None
    BY StationsOwnHours DEF Leading
  <2> QED
    BY <1>1, <2>1 DEF HaveHours
<1>4. DOMAIN hours = D
  OBVIOUS
<1>5. DOMAIN starts = D /\ DOMAIN ends = D
  BY <1>4
<1>6. \A i \in D : starts[i] = hours[i].start /\ ends[i] = hours[i].end
  BY <1>4
<1>7. Critical!calculate_representative_hours(hours)
        = <<Critical!determine_start_time(starts), Critical!determine_end_time(ends)>>
  BY DEF Critical!calculate_representative_hours
<1> HIDE DEF D, starts, ends
<1>8. IsTimes(starts) /\ IsTimes(ends)
  BY <1>2, <1>3, <1>5, <1>6 DEF IsTimes
<1>9. PICK i \in D : starts[i] <= Critical!determine_start_time(starts)
  BY <1>5, <1>8, TimesAreOfStations
<1>10. PICK j \in D : Critical!determine_end_time(ends) <= ends[j]
  BY <1>5, <1>8, TimesAreOfStations
<1> QED
  BY <1>6, <1>7, <1>9, <1>10 DEF D

(* The fuel types of a zone, from the areas that burn there.               *)
FuelsThere(zone) == {r.fuel : r \in Critical!ToSet(zone.stats)} \ {"Non-fuel"}

LEMMA FuelTypesThere ==
  ASSUME NEW zone
  PROVE  DOMAIN Critical!get_fuel_types_by_area(zone.stats) = FuelsThere(zone)
  BY DEF Critical!get_fuel_types_by_area, FuelsThere, Critical!ToSet

(* The hours of a zone, unless it names a fuel type that is not known.     *)
LEMMA HoursByFuelType ==
  ASSUME NEW stations, NEW codes,
         Critical!calculate_critical_hours_by_fuel_type(stations, codes) # OtherError
  PROVE  Critical!calculate_critical_hours_by_fuel_type(stations, codes)
           = [code \in {c \in codes : Leading(stations, c) # {}} |->
                [i \in Leading(stations, code) |->
                   Critical!HoursOfStation(stations[i], Critical!FuelOf(code))]]
<1> DEFINE valid == {i \in DOMAIN stations : Critical!check_station_valid(stations[i])}
           hours(code) == [i \in valid |-> Critical!HoursOfStation(stations[i], Critical!FuelOf(code))]
           of(code) == {i \in valid : hours(code)[i] \notin Critical!Errors \union {None}}
<1>1. Critical!calculate_critical_hours_by_fuel_type(stations, codes)
        = [code \in {c \in codes : of(c) # {}} |-> [i \in of(code) |-> hours(code)[i]]]
  BY DEF Critical!calculate_critical_hours_by_fuel_type
<1>2. \A code : of(code) = Leading(stations, code)
  BY DEF Leading
<1>3. \A code : \A i \in Leading(stations, code) :
        hours(code)[i] = Critical!HoursOfStation(stations[i], Critical!FuelOf(code))
  BY DEF Leading
<1> HIDE DEF of, hours
<1> QED
  BY <1>1, <1>2, <1>3

(* A zone has hours for the fuel types that burn there and whose stations  *)
(* lead to some, once each, and they lie within those of the stations.     *)
THEOREM ZonesHaveTheirHours ==
  ASSUME NEW zones, \A z \in DOMAIN zones : HaveHours(zones[z].stations)
  PROVE  Critical!HoursAreOfItsStations(zones)
<1> DEFINE rows == Critical!calculate_critical_hours_by_zone(zones)
           its(z) == Critical!calculate_critical_hours_by_fuel_type(
                       zones[z].stations, DOMAIN Critical!get_fuel_types_by_area(zones[z].stats))
           lead(z, code) == Leading(zones[z].stations, code)
           hour(z, code, i) == Critical!HoursOfStation(zones[z].stations[i], Critical!FuelOf(code))
           of(z, code) ==
             {Critical!HoursOfStation(s, Critical!FuelOf(code)) :
                s \in {x \in Critical!ToSet(zones[z].stations) : Critical!check_station_valid(x)}}
             \ (Critical!Errors \union {None})
           row(z, code) == <<z, code, Critical!calculate_representative_hours(its(z)[code])>>
<1> SUFFICES ASSUME rows # OtherError
             PROVE  /\ \A z \in DOMAIN zones : \A code \in FuelsThere(zones[z]) :
                         Critical!Cardinality({r \in rows : r[1] = z /\ r[2] = code})
                           = IF of(z, code) = {} THEN 0 ELSE 1
                    /\ \A r \in rows : /\ r[2] \in FuelsThere(zones[r[1]])
                                       /\ \E h \in of(r[1], r[2]) : h.start <= r[3][1]
                                       /\ \E h \in of(r[1], r[2]) : r[3][2] <= h.end
  BY DEF Critical!HoursAreOfItsStations, FuelsThere
<1>1. /\ \A z \in DOMAIN zones : its(z) # OtherError
      /\ rows = UNION {{row(z, code) : code \in DOMAIN its(z)} : z \in DOMAIN zones}
  <2> DEFINE hours == [z \in DOMAIN zones |-> its(z)]
  <2>1. rows = IF OtherError \in {hours[z] : z \in DOMAIN zones} THEN OtherError
               ELSE UNION {{<<z, code, Critical!calculate_representative_hours(hours[z][code])>> :
                              code \in DOMAIN hours[z]} : z \in DOMAIN zones}
    BY DEF Critical!calculate_critical_hours_by_zone
  <2>2. \A z \in DOMAIN zones : hours[z] = its(z)
    OBVIOUS
  <2> HIDE DEF rows, its, hours
  <2>3. OtherError \notin {hours[z] : z \in DOMAIN zones}
    BY <2>1
  <2> QED
    BY <2>1, <2>2, <2>3
<1>2. ASSUME NEW z \in DOMAIN zones
      PROVE  /\ DOMAIN its(z) = {c \in FuelsThere(zones[z]) : lead(z, c) # {}}
             /\ \A code \in DOMAIN its(z) : its(z)[code] = [i \in lead(z, code) |-> hour(z, code, i)]
  <2>1. its(z) = [code \in {c \in FuelsThere(zones[z]) : lead(z, c) # {}} |->
                    [i \in lead(z, code) |-> hour(z, code, i)]]
    BY <1>1, HoursByFuelType, FuelTypesThere
  <2> HIDE DEF its, lead, hour
  <2> QED
    BY <2>1
<1>3. \A z, code : {hour(z, code, i) : i \in lead(z, code)} = of(z, code)
  BY DEF Leading, Critical!ToSet
<1> HIDE DEF its, lead, hour, of, rows
<1>4. \A r : r \in rows <=> \E z \in DOMAIN zones : \E code \in DOMAIN its(z) : r = row(z, code)
  BY <1>1
<1>5. \A z, code : row(z, code)[1] = z /\ row(z, code)[2] = code
        /\ row(z, code)[3] = Critical!calculate_representative_hours(its(z)[code])
  OBVIOUS
<1> HIDE DEF row
<1>6. ASSUME NEW z \in DOMAIN zones, NEW code \in FuelsThere(zones[z])
      PROVE  Critical!Cardinality({r \in rows : r[1] = z /\ r[2] = code})
               = IF of(z, code) = {} THEN 0 ELSE 1
  <2> DEFINE T == {r \in rows : r[1] = z /\ r[2] = code}
  <2>1. lead(z, code) = {} <=> of(z, code) = {}
    BY <1>3
  <2>a. ASSUME NEW r \in T PROVE r = row(z, code) /\ code \in DOMAIN its(z)
    <3>1. PICK y \in DOMAIN zones : \E c \in DOMAIN its(y) : r = row(y, c)
      BY <1>4
    <3>2. PICK c \in DOMAIN its(y) : r = row(y, c)
      BY <3>1
    <3>3. y = z /\ c = code
      BY <1>5, <3>2
    <3> QED
      BY <3>2, <3>3
  <2>b. code \in DOMAIN its(z) => row(z, code) \in T
    BY <1>4, <1>5
  <2>c. code \in DOMAIN its(z) <=> lead(z, code) # {}
    BY <1>2
  <2> HIDE DEF T
  <2>2. CASE lead(z, code) = {}
    <3>1. T = {}
      BY <2>a, <2>c, <2>2
    <3> QED
      BY <2>1, <2>2, <3>1, FS_EmptySet, CardinalityOfStations DEF T
  <2>3. CASE lead(z, code) # {}
    <3>1. T = {row(z, code)}
      BY <2>a, <2>b, <2>c, <2>3
    <3> QED
      BY <2>1, <2>3, <3>1, FS_Singleton, CardinalityOfStations DEF T
  <2> QED
    BY <2>2, <2>3
<1>7. ASSUME NEW r \in rows
      PROVE  /\ r[2] \in FuelsThere(zones[r[1]])
             /\ \E h \in of(r[1], r[2]) : h.start <= r[3][1]
             /\ \E h \in of(r[1], r[2]) : r[3][2] <= h.end
  <2>1. PICK z \in DOMAIN zones : \E code \in DOMAIN its(z) : r = row(z, code)
    BY <1>4
  <2>2. PICK code \in DOMAIN its(z) : r = row(z, code)
    BY <2>1
  <2> DEFINE hours == its(z)[code]
  <2>3. /\ code \in FuelsThere(zones[z]) /\ lead(z, code) # {}
        /\ hours = [i \in lead(z, code) |-> hour(z, code, i)]
    BY <1>2
  <2>4. r[1] = z /\ r[2] = code /\ r[3] = Critical!calculate_representative_hours(hours)
    BY <1>5, <2>2
  <2> HIDE DEF hours
  <2>5. /\ \E i \in lead(z, code) : hours[i].start <= r[3][1]
        /\ \E i \in lead(z, code) : r[3][2] <= hours[i].end
    BY <2>3, <2>4, HoursAreRepresentative DEF lead, hour
  <2>6. \A i \in lead(z, code) : hours[i] \in of(z, code)
    BY <1>3, <2>3
  <2> QED
    BY <2>3, <2>4, <2>5, <2>6
<1> QED
  BY <1>6, <1>7

-----------------------------------------------------------------------------
(* The ranks of a strict order of a finite set are its numbers.            *)
Before(R, S, x) == {y \in S : y = x \/ <<y, x>> \in R}

LEMMA RanksAreNumbers ==
  ASSUME NEW S, IsFiniteSet(S), NEW R,
         \A x \in S : <<x, x>> \notin R,
         \A x, y \in S : x = y \/ <<x, y>> \in R \/ <<y, x>> \in R,
         \A x, y, z \in S : <<x, y>> \in R /\ <<y, z>> \in R => <<x, z>> \in R
  PROVE  /\ Cardinality(S) \in Nat
         /\ \A x \in S : Cardinality(Before(R, S, x)) \in 1 .. Cardinality(S)
         /\ \A x, y \in S : <<x, y>> \in R <=> Cardinality(Before(R, S, x)) < Cardinality(Before(R, S, y))
         /\ \A x, y \in S : Cardinality(Before(R, S, x)) = Cardinality(Before(R, S, y)) => x = y
         /\ \A i \in 1 .. Cardinality(S) : \E x \in S : Cardinality(Before(R, S, x)) = i
<1> DEFINE n == Cardinality(S)
           rank == [x \in S |-> Cardinality(Before(R, S, x))]
<1>1. n \in Nat
  BY FS_CardinalityType
<1>2. ASSUME NEW x \in S
      PROVE  IsFiniteSet(Before(R, S, x)) /\ Cardinality(Before(R, S, x)) \in Nat /\ rank[x] \in 1 .. n
  <2> DEFINE B == Before(R, S, x)
  <2>1. B \in SUBSET S /\ x \in B
    BY DEF Before
  <2> HIDE DEF B
  <2>2. IsFiniteSet(B) /\ Cardinality(B) <= n
    BY <2>1, FS_Subset
  <2>3. Cardinality(B) \in Nat /\ B # {}
    BY <2>1, <2>2, FS_CardinalityType
  <2>4. Cardinality(B) # 0
    BY <2>2, <2>3, FS_EmptySet
  <2> QED
    BY <1>1, <2>2, <2>3, <2>4 DEF B
<1>3. ASSUME NEW x \in S, NEW y \in S, <<x, y>> \in R PROVE rank[x] < rank[y]
  <2> DEFINE A == Before(R, S, x)
             B == Before(R, S, y)
  <2>1. A \in SUBSET B /\ y \in B
    BY <1>3 DEF Before
  <2>2. y \notin A
    BY <1>3 DEF Before
  <2>3. A # B /\ IsFiniteSet(B) /\ rank[x] = Cardinality(A) /\ rank[y] = Cardinality(B)
    BY <1>2, <2>1, <2>2
  <2>4. Cardinality(A) \in Nat /\ Cardinality(B) \in Nat
    BY <1>2
  <2> HIDE DEF A, B
  <2>5. Cardinality(A) <= Cardinality(B) /\ Cardinality(A) # Cardinality(B)
    BY <2>1, <2>3, FS_Subset
  <2> QED
    BY <2>3, <2>4, <2>5
<1>4. rank \in [S -> 1 .. n]
  BY <1>2
<1> HIDE DEF rank, n
<1>5. \A x, y \in S : rank[x] \in Nat /\ rank[y] \in Nat
  BY <1>1, <1>4
<1>6. \A x, y \in S : <<x, y>> \in R <=> rank[x] < rank[y]
  <2> SUFFICES ASSUME NEW x \in S, NEW y \in S PROVE <<x, y>> \in R <=> rank[x] < rank[y]
    OBVIOUS
  <2>1. CASE x = y
    BY <1>5, <2>1
  <2>2. CASE <<x, y>> \in R
    BY <1>3, <2>2
  <2>3. CASE <<y, x>> \in R
    <3>1. rank[y] < rank[x] /\ <<x, y>> \notin R
      BY <1>3, <2>3
    <3> QED
      BY <1>5, <3>1
  <2> QED
    BY <2>1, <2>2, <2>3
<1>7. \A x, y \in S : rank[x] = rank[y] => x = y
  BY <1>5, <1>6
<1>8. rank \in Injection(S, 1 .. n)
  BY <1>4, <1>7 DEF Injection, IsInjective
<1>9. IsFiniteSet(1 .. n) /\ Cardinality(1 .. n) = n
  BY <1>1, FS_Interval
<1>10. rank \in Surjection(S, 1 .. n)
  BY <1>8, <1>9, FS_Injection DEF n
<1>11. \A i \in 1 .. n : \E x \in S : rank[x] = i
  BY <1>10 DEF Surjection
<1>12. \A x \in S : rank[x] = Cardinality(Before(R, S, x))
  BY DEF rank
<1> QED
  BY <1>1, <1>4, <1>6, <1>7, <1>11, <1>12 DEF n

(* What InTurn lists: the numbers of a set, each once and in their order.  *)
Lists(at, D) ==
  /\ Cardinality(D) \in Nat /\ at \in [1 .. Cardinality(D) -> D]
  /\ \A i, j \in 1 .. Cardinality(D) : i < j <=> at[i] < at[j]
  /\ \A d \in D : \E k \in 1 .. Cardinality(D) : at[k] = d

LEMMA InTurnLists ==
  ASSUME NEW D, IsFiniteSet(D), D \in SUBSET Int
  PROVE  Lists(InTurn(D), D)
<1> DEFINE n == Cardinality(D)
           R == {p \in D \X D : p[1] < p[2]}
           at == InTurn(D)
<1>1. \A x, y \in D : <<x, y>> \in R <=> x < y
  OBVIOUS
<1>2. \A x \in D : x \in Int
  OBVIOUS
<1>3. ASSUME NEW x \in D PROVE {j \in D : j <= x} = Before(R, D, x)
  <2>1. \A j \in D : j <= x <=> (j = x \/ <<j, x>> \in R)
    BY <1>1, <1>2
  <2> HIDE DEF R
  <2> QED
    BY <2>1 DEF Before
<1>4. /\ \A x \in D : <<x, x>> \notin R
      /\ \A x, y \in D : x = y \/ <<x, y>> \in R \/ <<y, x>> \in R
      /\ \A x, y, z \in D : <<x, y>> \in R /\ <<y, z>> \in R => <<x, z>> \in R
  BY <1>1, <1>2
<1> HIDE DEF R
<1>5. /\ n \in Nat
      /\ \A x, y \in D : <<x, y>> \in R <=> Cardinality(Before(R, D, x)) < Cardinality(Before(R, D, y))
      /\ \A i \in 1 .. n : \E x \in D : Cardinality(Before(R, D, x)) = i
      /\ \A x \in D : Cardinality(Before(R, D, x)) \in 1 .. n
      /\ \A x, y \in D : Cardinality(Before(R, D, x)) = Cardinality(Before(R, D, y)) => x = y
  BY <1>4, RanksAreNumbers
<1>6. at = [k \in 1 .. n |-> CHOOSE i \in D : Cardinality({j \in D : j <= i}) = k]
  BY DEF InTurn
<1> DEFINE rank == [x \in D |-> Cardinality({j \in D : j <= x})]
<1>7. \A x \in D : rank[x] = Cardinality(Before(R, D, x)) /\ rank[x] = Cardinality({j \in D : j <= x})
  BY <1>3
<1> HIDE DEF n, at, rank
<1>13. /\ \A x, y \in D : <<x, y>> \in R <=> rank[x] < rank[y]
       /\ \A x \in D : rank[x] \in 1 .. n
       /\ \A x, y \in D : rank[x] = rank[y] => x = y
  <2>1. \A x \in D : rank[x] = Cardinality(Before(R, D, x))
    BY <1>7
  <2> QED
    BY <1>5, <2>1
<1>8. \A k \in 1 .. n : at[k] \in D /\ rank[at[k]] = k
  <2> SUFFICES ASSUME NEW k \in 1 .. n PROVE at[k] \in D /\ rank[at[k]] = k
    OBVIOUS
  <2>1. \E i \in D : Cardinality({j \in D : j <= i}) = k
    BY <1>5, <1>7
  <2>2. at[k] = CHOOSE i \in D : Cardinality({j \in D : j <= i}) = k
    BY <1>6
  <2> QED
    BY <1>7, <2>1, <2>2
<1>9. at \in [1 .. n -> D]
  BY <1>6, <1>8
<1>10. \A x, y \in D : x < y <=> rank[x] < rank[y]
  BY <1>1, <1>13
<1>11. \A i, j \in 1 .. n : i < j <=> at[i] < at[j]
  <2>1. \A k \in 1 .. n : at[k] \in D /\ rank[at[k]] = k
    BY <1>8
  <2>2. n \in Nat /\ \A i, j \in 1 .. n : at[i] < at[j] <=> rank[at[i]] < rank[at[j]]
    BY <1>5, <1>10, <2>1
  <2>3. ASSUME NEW i \in 1 .. n, NEW j \in 1 .. n PROVE i < j <=> at[i] < at[j]
    <3>1. rank[at[i]] = i /\ rank[at[j]] = j /\ (at[i] < at[j] <=> rank[at[i]] < rank[at[j]])
      BY <2>1, <2>2
    <3> QED
      BY <3>1
  <2> QED
    BY <2>3
<1>12. \A d \in D : \E k \in 1 .. n : at[k] = d
  <2> SUFFICES ASSUME NEW d \in D PROVE \E k \in 1 .. n : at[k] = d
    OBVIOUS
  <2>1. rank[d] \in 1 .. n
    BY <1>13
  <2>2. at[rank[d]] \in D /\ rank[at[rank[d]]] = rank[d]
    BY <1>8, <2>1
  <2> QED
    BY <1>13, <2>1, <2>2
<1> QED
  BY <1>5, <1>9, <1>11, <1>12 DEF Lists, n, at

(* What Kept lists: the members at those positions, in their order.       *)
IsKept(kept, s, D) ==
  /\ Cardinality(D) \in Nat /\ DOMAIN kept = 1 .. Cardinality(D)
  /\ kept = [k \in 1 .. Cardinality(D) |-> s[InTurn(D)[k]]]
  /\ \A k \in DOMAIN kept : InTurn(D)[k] \in D /\ kept[k] = s[InTurn(D)[k]]
  /\ \A j, k \in DOMAIN kept : j < k <=> InTurn(D)[j] < InTurn(D)[k]
  /\ \A i \in D : \E k \in DOMAIN kept : InTurn(D)[k] = i /\ kept[k] = s[i]

LEMMA KeptLists ==
  ASSUME NEW D, IsFiniteSet(D), D \in SUBSET Int, NEW s
  PROVE  IsKept(Kept(s, D), s, D)
<1> DEFINE at == InTurn(D)
           kept == Kept(s, D)
<1>1. Lists(at, D)
  BY InTurnLists
<1>2. kept = [k \in 1 .. Cardinality(D) |-> s[at[k]]]
  BY DEF Kept
<1> HIDE DEF at, kept
<1>3. /\ Cardinality(D) \in Nat /\ at \in [1 .. Cardinality(D) -> D]
      /\ \A i, j \in 1 .. Cardinality(D) : i < j <=> at[i] < at[j]
      /\ \A d \in D : \E k \in 1 .. Cardinality(D) : at[k] = d
  BY <1>1 DEF Lists
<1>4. DOMAIN kept = 1 .. Cardinality(D) /\ \A k \in DOMAIN kept : kept[k] = s[at[k]]
  BY <1>2
<1>5. \A i \in D : \E k \in DOMAIN kept : at[k] = i /\ kept[k] = s[i]
  BY <1>3, <1>4
<1>6. /\ \A k \in DOMAIN kept : at[k] \in D /\ kept[k] = s[at[k]]
      /\ \A j, k \in DOMAIN kept : j < k <=> at[j] < at[k]
  BY <1>3, <1>4
<1>7. Cardinality(D) \in Nat
  BY <1>3
<1> QED
  BY <1>2, <1>4, <1>5, <1>6, <1>7 DEF at, kept, IsKept

(* A selection of a list is a list of its members.                         *)
LEMMA KeptIsList ==
  ASSUME NEW n \in Nat, NEW A, NEW s \in [1 .. n -> A], NEW D \in SUBSET (1 .. n)
  PROVE  /\ IsFiniteSet(D) /\ D \in SUBSET Int
         /\ Kept(s, D) \in [1 .. Cardinality(D) -> A] /\ Cardinality(D) \in 0 .. n
         /\ Kept(s, D) \in Seq(A) /\ Len(Kept(s, D)) = Cardinality(D)
<1>1. IsFiniteSet(D) /\ Cardinality(D) \in 0 .. n
  <2>1. IsFiniteSet(1 .. n) /\ Cardinality(1 .. n) = n
    BY FS_Interval
  <2> DEFINE S == 1 .. n
  <2>2. IsFiniteSet(S) /\ D \in SUBSET S /\ Cardinality(S) = n
    BY <2>1
  <2> HIDE DEF S
  <2>3. IsFiniteSet(D) /\ Cardinality(D) <= n
    BY <2>2, FS_Subset
  <2> QED
    BY <2>3, FS_CardinalityType
<1>2. D \in SUBSET Int
  OBVIOUS
<1> DEFINE kept == Kept(s, D)
           m == Cardinality(D)
<1>6. IsKept(kept, s, D)
  BY <1>1, <1>2, KeptLists
<1>3. kept = [k \in 1 .. m |-> s[InTurn(D)[k]]] /\ m \in Nat /\ \A k \in 1 .. m : InTurn(D)[k] \in D
  BY <1>6 DEF IsKept
<1> HIDE DEF kept, m
<1>4. kept \in [1 .. m -> A]
  <2>1. \A k \in 1 .. m : s[InTurn(D)[k]] \in A
    BY <1>3
  <2> QED
    BY <1>3, <2>1
<1>5. kept \in Seq(A) /\ Len(kept) = m
  BY <1>3, <1>4
<1> QED
  BY <1>1, <1>2, <1>4, <1>5 DEF kept, m

(* What SortedBy returns: all positions, by key and then as they are.      *)
Sorts(at, key, n) ==
  /\ at \in [1 .. n -> 1 .. n] /\ \A i \in 1 .. n : \E k \in 1 .. n : at[k] = i
  /\ \A j, k \in 1 .. n : j < k => \/ key[at[j]] < key[at[k]]
                                    \/ (key[at[j]] = key[at[k]] /\ at[j] < at[k])

SortsInto(sorted, s, key, n) == \E at : Sorts(at, key, n) /\ sorted = [k \in 1 .. n |-> s[at[k]]]

LEMMA SortedBySorts ==
  ASSUME NEW n \in Nat, NEW key \in [1 .. n -> Int], NEW A, NEW s \in [1 .. n -> A]
  PROVE  /\ SortedBy(s, key) \in [1 .. n -> A]
         /\ SortsInto(SortedBy(s, key), s, key, n)
<1> DEFINE D == 1 .. n
           Less(i, j) == key[i] < key[j] \/ (key[i] = key[j] /\ i < j)
           R == {p \in D \X D : Less(p[1], p[2])}
           UpTo(i) == {j \in D : key[j] < key[i] \/ (key[j] = key[i] /\ j <= i)}
           rank == [x \in D |-> Cardinality(Before(R, D, x))]
           at == [k \in D |-> CHOOSE i \in D : Cardinality(UpTo(i)) = k]
<1>1. IsFiniteSet(D) /\ Cardinality(D) = n
  BY FS_Interval
<1>2. \A x, y \in D : <<x, y>> \in R <=> Less(x, y)
  OBVIOUS
<1>3. /\ \A x \in D : ~Less(x, x) /\ x \in Int /\ key[x] \in Int
      /\ \A x, y \in D : x = y \/ Less(x, y) \/ Less(y, x)
      /\ \A x, y, z \in D : Less(x, y) /\ Less(y, z) => Less(x, z)
  OBVIOUS
<1>4. ASSUME NEW x \in D PROVE UpTo(x) = Before(R, D, x)
  <2>1. \A j \in D : (key[j] < key[x] \/ (key[j] = key[x] /\ j <= x)) <=> (j = x \/ <<j, x>> \in R)
    BY <1>2, <1>3
  <2> HIDE DEF R, D
  <2> QED
    BY <2>1 DEF Before
<1>5. SortedBy(s, key) = [k \in D |-> s[at[k]]]
  <2>1. DOMAIN s = D
    OBVIOUS
  <2> QED
    BY <2>1 DEF SortedBy
<1> HIDE DEF Less, R, D
<1>6. /\ \A x \in D : rank[x] \in 1 .. n /\ rank[x] = Cardinality(UpTo(x))
      /\ \A x, y \in D : Less(x, y) <=> rank[x] < rank[y]
      /\ \A x, y \in D : rank[x] = rank[y] => x = y
      /\ \A i \in 1 .. n : \E x \in D : rank[x] = i
  <2>1. /\ \A x \in D : <<x, x>> \notin R
        /\ \A x, y \in D : x = y \/ <<x, y>> \in R \/ <<y, x>> \in R
        /\ \A x, y, z \in D : <<x, y>> \in R /\ <<y, z>> \in R => <<x, z>> \in R
    BY <1>2, <1>3
  <2>2. /\ \A x, y \in D : <<x, y>> \in R <=> Cardinality(Before(R, D, x)) < Cardinality(Before(R, D, y))
        /\ \A i \in 1 .. n : \E x \in D : Cardinality(Before(R, D, x)) = i
        /\ \A x \in D : Cardinality(Before(R, D, x)) \in 1 .. n
        /\ \A x, y \in D : Cardinality(Before(R, D, x)) = Cardinality(Before(R, D, y)) => x = y
    BY <1>1, <2>1, RanksAreNumbers
  <2>3. \A x \in D : rank[x] = Cardinality(Before(R, D, x))
    OBVIOUS
  <2>4. \A x \in D : rank[x] = Cardinality(UpTo(x))
    BY <1>4, <2>3
  <2>5. \A x \in D : rank[x] \in 1 .. n
    BY <2>2, <2>3
  <2>6. \A x, y \in D : <<x, y>> \in R <=> rank[x] < rank[y]
    BY <2>2, <2>3
  <2>7. \A x, y \in D : rank[x] = rank[y] => x = y
    BY <2>2, <2>3
  <2>8. \A i \in 1 .. n : \E x \in D : rank[x] = i
    BY <2>2, <2>3
  <2> HIDE DEF rank
  <2> QED
    BY <1>2, <2>4, <2>5, <2>6, <2>7, <2>8
<1> HIDE DEF rank, UpTo
<1>7. \A k \in D : at[k] \in D /\ rank[at[k]] = k
  <2> SUFFICES ASSUME NEW k \in D PROVE at[k] \in D /\ rank[at[k]] = k
    OBVIOUS
  <2>1. k \in 1 .. n
    BY DEF D
  <2>2. PICK x \in D : rank[x] = k
    BY <1>6, <2>1
  <2>3. \E i \in D : Cardinality(UpTo(i)) = k
    BY <1>6, <2>2
  <2> QED
    BY <1>6, <2>3
<1>8. at = [k \in D |-> at[k]]
  OBVIOUS
<1> HIDE DEF at
<1>9. at \in [D -> D]
  BY <1>7, <1>8
<1>10. \A i \in D : at[rank[i]] = i /\ rank[i] \in D
  BY <1>6, <1>7 DEF D
<1>11. \A j, k \in D : j < k => Less(at[j], at[k])
  BY <1>6, <1>7
<1>12. Sorts(at, key, n)
  <2>1. \A j, k \in D : j < k => \/ key[at[j]] < key[at[k]]
                                 \/ (key[at[j]] = key[at[k]] /\ at[j] < at[k])
    BY <1>11 DEF Less
  <2> QED
    BY <1>9, <1>10, <2>1 DEF Sorts, D
<1>13. SortedBy(s, key) \in [1 .. n -> A]
  BY <1>5, <1>7 DEF D
<1>14. SortedBy(s, key) = [k \in 1 .. n |-> s[at[k]]]
  BY <1>5 DEF D
<1> QED
  BY <1>12, <1>13, <1>14 DEF SortsInto

(* The lists of the module are those of Lists.                             *)
LEMMA ListsOfCharts ==
  /\ \A D : Chart!InTurn(D) = InTurn(D)
  /\ \A s, key : Chart!SortedBy(s, key) = SortedBy(s, key)
<1>1. \A D : Chart!InTurn(D) = InTurn(D)
  BY DEF Chart!InTurn, InTurn, Chart!Cardinality, Cardinality
<1>2. \A s, key : Chart!SortedBy(s, key) = SortedBy(s, key)
  BY DEF Chart!SortedBy, SortedBy, Chart!Cardinality, Cardinality
<1> QED
  BY <1>1, <1>2

(* A function of the first numbers is a sequence.                          *)
LEMMA IsSequence ==
  ASSUME NEW n \in Nat, NEW A, NEW s \in [1 .. n -> A]
  PROVE  s \in Seq(A) /\ Len(s) = n /\ DOMAIN s = 1 .. n
  OBVIOUS

(* What a piece of a list has, and where.                                  *)
LEMMA PieceOf ==
  ASSUME NEW n \in Nat, NEW A, NEW s \in [1 .. n -> A], NEW b \in 1 .. n, NEW e \in b .. n
  PROVE  /\ DOMAIN SubSeq(s, b, e) = 1 .. e - b + 1
         /\ \A k \in 1 .. e - b + 1 : SubSeq(s, b, e)[k] = s[b + k - 1] /\ b + k - 1 \in b .. e
         /\ b .. e \in SUBSET (1 .. n)
<1>1. s \in Seq(A) /\ b \in Int /\ e \in Int /\ b <= e /\ b .. e \in SUBSET (1 .. n)
  OBVIOUS
<1>2. \A k \in b .. e : s[k] \in A
  BY <1>1
<1>3. /\ Len(SubSeq(s, b, e)) = e - b + 1 /\ SubSeq(s, b, e) \in Seq(A)
      /\ \A k \in 1 .. e - b + 1 : SubSeq(s, b, e)[k] = s[b + k - 1]
  <2>1. /\ SubSeq(s, b, e) \in Seq(A)
        /\ Len(SubSeq(s, b, e)) = IF b <= e THEN e - b + 1 ELSE 0
        /\ \A i \in 1 .. e - b + 1 : SubSeq(s, b, e)[i] = s[b + i - 1]
    BY <1>1, <1>2, SubSeqProperties
  <2> QED
    BY <1>1, <2>1
<1>4. DOMAIN SubSeq(s, b, e) = 1 .. e - b + 1
  BY <1>3
<1> QED
  BY <1>1, <1>3, <1>4

(* Where neighbours of one kind begin.                                     *)
Begins(f, n) == {i \in 1 .. n : i = 1 \/ f[i - 1] # f[i]}

(* Each has a beginning before it.                                         *)
LEMMA BeginExists ==
  ASSUME NEW n \in Nat, NEW f, NEW x \in 1 .. n
  PROVE  \E y \in Begins(f, n) : y <= x /\ \A z \in y .. x : f[z] = f[x]
<1> DEFINE S == {y \in 1 .. x : \A z \in y .. x : f[z] = f[x]}
<1>1. x \in Int /\ x >= 1
  OBVIOUS
<1>2. x \in S /\ S \in SUBSET Nat
  BY <1>1
<1>3. PICK y \in S : \A w \in S : y <= w
  <2> HIDE DEF S
  <2> QED
    BY <1>2, LeastExists
<1>4. y \in 1 .. x /\ \A z \in y .. x : f[z] = f[x]
  BY <1>3
<1>5. y = 1 \/ f[y - 1] # f[y]
  <2> SUFFICES ASSUME y # 1, f[y - 1] = f[y] PROVE FALSE
    OBVIOUS
  <2>1. y - 1 \in 1 .. x /\ f[y] = f[x]
    BY <1>1, <1>4
  <2>2. \A z \in y - 1 .. x : z = y - 1 \/ z \in y .. x
    BY <1>1, <1>4
  <2>3. y - 1 \in S
    BY <1>4, <2>1, <2>2
  <2>4. y <= y - 1
    BY <1>3, <2>3
  <2> QED
    BY <1>4, <2>4
<1> QED
  BY <1>1, <1>4, <1>5 DEF Begins

(* Neighbours of one kind, listed from one beginning to the next.          *)
AreRuns(begins, ends, m, f, n) ==
  /\ m \in Nat /\ begins \in [1 .. m -> 1 .. n]
  /\ ends = [k \in 1 .. m |-> IF k = m THEN n ELSE begins[k + 1] - 1]
  /\ n > 0 => m > 0 /\ begins[1] = 1
  /\ n = 0 => m = 0
  /\ \A k \in 1 .. m : ends[k] \in begins[k] .. n
  /\ \A k \in 1 .. m : \A p \in begins[k] .. ends[k] : f[p] = f[begins[k]]
  /\ \A p \in 1 .. n : \E k \in 1 .. m : f[p] = f[begins[k]] /\ begins[k] <= p

(* The beginnings, listed in turn, make such runs.                         *)
LEMMA RunsFollow ==
  ASSUME NEW n \in Nat, NEW f, NEW begins, Lists(begins, Begins(f, n)),
         NEW m, m = Cardinality(Begins(f, n)),
         NEW ends, ends = [k \in 1 .. m |-> IF k = m THEN n ELSE begins[k + 1] - 1]
  PROVE  AreRuns(begins, ends, m, f, n)
<1> DEFINE D == Begins(f, n)
<1>1. D \in SUBSET (1 .. n) /\ (n > 0 => 1 \in D)
  BY DEF Begins
<1>2. /\ m \in Nat /\ begins \in [1 .. m -> D]
      /\ \A i, j \in 1 .. m : i < j <=> begins[i] < begins[j]
      /\ \A d \in D : \E k \in 1 .. m : begins[k] = d
  BY DEF Lists
<1>3. \A x \in 1 .. n : \E y \in D : y <= x /\ \A z \in y .. x : f[z] = f[x]
  BY BeginExists
<1> HIDE DEF D
<1>4. begins \in [1 .. m -> 1 .. n]
  BY <1>1, <1>2
<1>5. n > 0 => m > 0 /\ begins[1] = 1
  <2> SUFFICES ASSUME n > 0 PROVE m > 0 /\ begins[1] = 1
    OBVIOUS
  <2>1. PICK k \in 1 .. m : begins[k] = 1
    BY <1>1, <1>2
  <2>2. m > 0 /\ 1 \in 1 .. m /\ begins[1] \in 1 .. n
    BY <1>2, <1>4
  <2>3. ~(1 < k)
    BY <1>2, <1>4, <2>1, <2>2
  <2> QED
    BY <1>2, <2>1, <2>2, <2>3
<1>6. n = 0 => m = 0
  BY <1>2, <1>4
<1>7. ASSUME NEW k \in 1 .. m PROVE ends[k] \in begins[k] .. n
  <2>1. CASE k = m
    BY <1>4, <1>7, <2>1
  <2>2. CASE k # m
    <3>1. k + 1 \in 1 .. m /\ k < k + 1 /\ ends[k] = begins[k + 1] - 1
      BY <1>2, <1>7, <2>2
    <3>2. begins[k] < begins[k + 1] /\ begins[k] \in 1 .. n /\ begins[k + 1] \in 1 .. n
      BY <1>2, <1>4, <3>1
    <3> QED
      BY <3>1, <3>2
  <2> QED
    BY <2>1, <2>2
<1>8. ASSUME NEW k \in 1 .. m, NEW p \in begins[k] .. ends[k] PROVE f[p] = f[begins[k]]
  <2>1. begins[k] \in 1 .. n /\ ends[k] \in 1 .. n /\ p \in 1 .. n /\ begins[k] <= p /\ p <= ends[k]
    BY <1>4, <1>7
  <2>2. PICK y \in D : y <= p /\ \A z \in y .. p : f[z] = f[p]
    BY <1>3, <2>1
  <2>3. PICK j \in 1 .. m : begins[j] = y
    BY <1>2
  <2>4. j <= k
    <3> SUFFICES ASSUME j > k PROVE FALSE
      BY <1>2
    <3>1. k + 1 \in 1 .. m /\ k # m /\ (k + 1 = j \/ k + 1 < j)
      BY <1>2
    <3>2. ends[k] = begins[k + 1] - 1 /\ begins[k + 1] <= begins[j]
      BY <1>2, <1>4, <3>1
    <3> QED
      BY <1>4, <2>1, <2>2, <2>3, <3>1, <3>2
  <2>5. begins[j] <= begins[k]
    BY <1>2, <1>4, <2>4
  <2> QED
    BY <1>4, <2>1, <2>2, <2>3, <2>5
<1>9. ASSUME NEW p \in 1 .. n PROVE \E k \in 1 .. m : f[p] = f[begins[k]] /\ begins[k] <= p
  <2>1. PICK y \in D : y <= p /\ \A z \in y .. p : f[z] = f[p]
    BY <1>3
  <2>2. y \in 1 .. n /\ y \in y .. p
    BY <1>1, <2>1
  <2>3. f[y] = f[p]
    BY <2>1, <2>2
  <2> QED
    BY <1>2, <2>1, <2>3
<1> QED
  BY <1>2, <1>4, <1>5, <1>6, <1>7, <1>8, <1>9 DEF AreRuns

(* The pieces of a list, one after the other, are the list.                *)
LEMMA PiecesMakeTheWhole ==
  ASSUME NEW n \in Nat, NEW A, NEW s \in [1 .. n -> A],
         NEW begins, NEW ends, NEW m, NEW f, AreRuns(begins, ends, m, f, n)
  PROVE  Chart!FlattenSeq([k \in 1 .. m |-> SubSeq(s, begins[k], ends[k])]) = s
<1> DEFINE pieces == [k \in 1 .. m |-> SubSeq(s, begins[k], ends[k])]
           Flat(g) == g = [i \in 1 .. Len(pieces) |-> IF i = 1 THEN pieces[i] ELSE g[i - 1] \o pieces[i]]
           flatten == CHOOSE e : Flat(e)
           so_far == [i \in 1 .. m |-> SubSeq(s, 1, ends[i])]
<1>15. /\ m \in Nat /\ begins \in [1 .. m -> 1 .. n]
       /\ ends = [k \in 1 .. m |-> IF k = m THEN n ELSE begins[k + 1] - 1]
       /\ n > 0 => m > 0 /\ begins[1] = 1
       /\ n = 0 => m = 0
       /\ \A k \in 1 .. m : ends[k] \in begins[k] .. n
  BY DEF AreRuns
<1>1. s \in Seq(A) /\ Len(s) = n
  OBVIOUS
<1>2. DOMAIN pieces = 1 .. m /\ Len(pieces) = m /\ \A k \in 1 .. m : pieces[k] = SubSeq(s, begins[k], ends[k])
  <2> DEFINE T == {SubSeq(s, begins[k], ends[k]) : k \in 1 .. m}
  <2>1. pieces \in [1 .. m -> T]
    OBVIOUS
  <2>2. \A k \in 1 .. m : pieces[k] = SubSeq(s, begins[k], ends[k])
    OBVIOUS
  <2> HIDE DEF T, pieces
  <2> QED
    BY <1>15, <2>1, <2>2
<1>3. Chart!FlattenSeq(pieces) = IF Len(pieces) = 0 THEN pieces ELSE flatten[Len(pieces)]
  BY DEF Chart!FlattenSeq
<1> HIDE DEF pieces
<1>4. ASSUME NEW i \in 1 .. m
      PROVE  so_far[i] = IF i = 1 THEN pieces[i] ELSE so_far[i - 1] \o pieces[i]
  <2>1. CASE i = 1
    <3>1. n > 0 /\ begins[1] = 1
      BY <1>15, <2>1
    <3> QED
      BY <1>2, <1>15, <2>1, <3>1
  <2>2. CASE i # 1
    <3>1. i - 1 \in 1 .. m /\ i - 1 # m /\ i \in 1 .. m
      BY <1>15, <2>2
    <3>2. ends[i - 1] = begins[i] - 1 /\ begins[i] \in 1 .. n /\ ends[i] \in begins[i] .. n
      BY <1>15, <3>1
    <3> DEFINE k == ends[i - 1]
               b == begins[i]
               e == ends[i]
    <3>6. k = b - 1 /\ b \in 1 .. n /\ e \in b .. n /\ Len(s) = n
      BY <1>1, <3>2
    <3> HIDE DEF k, b, e
    <3>7. k \in 1 - 1 .. Len(s) /\ e \in k .. Len(s) /\ b = k + 1 /\ 1 \in 1 .. Len(s) + 1
      BY <3>6
    <3>3. k \in 1 - 1 .. Len(s) /\ ends[i] \in k .. Len(s) /\ begins[i] = k + 1 /\ 1 \in 1 .. Len(s) + 1
      BY <3>7 DEF b, e
    <3>4. SubSeq(s, 1, k) \o SubSeq(s, k + 1, ends[i]) = SubSeq(s, 1, ends[i])
      BY <1>1, <3>3, ConcatAdjacentSubSeq
    <3>5. so_far[i - 1] = SubSeq(s, 1, k) /\ so_far[i] = SubSeq(s, 1, ends[i]) /\ pieces[i] = SubSeq(s, k + 1, ends[i])
      BY <1>2, <3>1, <3>3 DEF k
    <3> QED
      BY <2>2, <3>4, <3>5
  <2> QED
    BY <2>1, <2>2
<1>5. so_far = [i \in 1 .. m |-> IF i = 1 THEN pieces[i] ELSE so_far[i - 1] \o pieces[i]]
  BY <1>4
<1>6. Flat(so_far)
  <2> HIDE DEF so_far
  <2> QED
    BY <1>2, <1>5
<1>7. Flat(flatten)
  <2> HIDE DEF Flat, so_far
  <2> QED
    BY <1>6
<1> HIDE DEF so_far, flatten
<1>8. \A i \in 1 .. m : flatten[i] = IF i = 1 THEN pieces[i] ELSE flatten[i - 1] \o pieces[i]
  BY <1>2, <1>7
<1> DEFINE P == {k \in Nat : k \in 1 .. m => flatten[k] = so_far[k]}
<1>9. 0 \in P /\ P \in SUBSET Nat
  OBVIOUS
<1>10. ASSUME NEW k \in P PROVE k + 1 \in P
  <2>1. SUFFICES ASSUME k + 1 \in 1 .. m PROVE flatten[k + 1] = so_far[k + 1]
    OBVIOUS
  <2>2. k \in Nat /\ (k = 0 \/ k \in 1 .. m)
    BY <1>15, <2>1
  <2>3. k \in 1 .. m => flatten[k] = so_far[k]
    OBVIOUS
  <2> QED
    BY <1>4, <1>8, <1>15, <2>1, <2>2, <2>3
<1> HIDE DEF P
<1>11. P = Nat
  BY <1>9, <1>10, AllNumbers
<1>12. m > 0 => flatten[m] = s
  <2> SUFFICES ASSUME m > 0 PROVE flatten[m] = s
    OBVIOUS
  <2>1. m \in P /\ m \in 1 .. m /\ ends[m] = n
    BY <1>11, <1>15
  <2>2. flatten[m] = so_far[m]
    BY <2>1 DEF P
  <2>3. so_far[m] = SubSeq(s, 1, n)
    BY <2>1 DEF so_far
  <2>4. SubSeq(s, 1, n) = s
    BY <1>1, SubSeqFull
  <2> QED
    BY <2>2, <2>3, <2>4
<1>13. m = 0 => n = 0 /\ pieces = s
  BY <1>1, <1>2, <1>15 DEF pieces
<1>14. Chart!FlattenSeq(pieces) = s
  BY <1>2, <1>3, <1>12, <1>13, <1>15
<1> QED
  BY <1>14 DEF pieces

(* The cells of a row of the raster, of any temperatures.                  *)
ChartRowCells == [inside : BOOLEAN, t700 : Int, t850 : Int, d850 : Int]

LEMMA SeverityIsKnown == \A index \in Int : Chart!get_severity(index) \in 0 .. 3
  BY DEF Chart!get_severity

(* Outside of the box the index is zero.                                   *)
LEMMA IndexIsKnown ==
  ASSUME NEW n \in Nat, NEW row \in [1 .. n -> ChartRowCells]
  PROVE  /\ Chart!calculate_row_data(row) \in [1 .. n -> Int]
         /\ \A x \in 1 .. n : ~row[x].inside => Chart!calculate_row_data(row)[x] = 0
<1>1. \A a, b, c \in Int : Chart!calculate_c_haines_index(a, b, c) \in Int
  BY DEF Chart!calculate_c_haines_index
<1>2. \A x \in 1 .. n : row[x].t700 \in Int /\ row[x].t850 \in Int /\ row[x].d850 \in Int
  BY DEF ChartRowCells
<1>3. DOMAIN row = 1 .. n
  OBVIOUS
<1> DEFINE i(x) == Chart!calculate_c_haines_index(row[x].t700, row[x].t850, row[x].d850)
           index == Chart!calculate_row_data(row)
<1>4. \A x \in 1 .. n : i(x) \in Int
  BY <1>1, <1>2
<1>5. index = [x \in 1 .. n |-> IF row[x].inside THEN i(x) ELSE 0]
  BY <1>3 DEF Chart!calculate_row_data
<1> HIDE DEF i, index
<1>6. index \in [1 .. n -> Int] /\ \A x \in 1 .. n : ~row[x].inside => index[x] = 0
  BY <1>4, <1>5
<1> QED
  BY <1>6 DEF index

(* A polygon for each run of cells of one severity that is not low.        *)
ArePolygons(polygons, m, index, n) ==
  /\ m \in Nat /\ polygons \in [1 .. m -> [at : 1 .. n, severity : 1 .. 3]]
  /\ \A i \in 1 .. m : polygons[i].severity = Chart!get_severity(index[polygons[i].at])
  /\ \A x \in 1 .. n : Chart!get_severity(index[x]) # 0 =>
       \E i \in 1 .. m : polygons[i].severity = Chart!get_severity(index[x])

(* GDAL's polygons are such, for any row of indices.                       *)
LEMMA PolygonsAreWhole ==
  ASSUME NEW n \in Nat, NEW index \in [1 .. n -> Int],
         NEW polygons, polygons = Chart!Polygons(Chart!generate_severity_data(index))
  PROVE  \E m : ArePolygons(polygons, m, index, n)
<1> DEFINE sev == [x \in 1 .. n |-> Chart!get_severity(index[x])]
           D == {x \in 1 .. n : sev[x] # 0 /\ (x = 1 \/ sev[x - 1] # sev[x])}
           at == InTurn(D)
           m == Cardinality(D)
<1>1. DOMAIN index = 1 .. n /\ sev \in [1 .. n -> 0 .. 3]
  BY SeverityIsKnown
<1>2. /\ Chart!generate_severity_data(index).severity = sev
      /\ DOMAIN Chart!generate_severity_data(index).mask = 1 .. n
      /\ \A x \in 1 .. n : Chart!generate_severity_data(index).mask[x] <=> sev[x] # 0
  BY <1>1 DEF Chart!generate_severity_data
<1> HIDE DEF sev
<1>3. D \in SUBSET (1 .. n) /\ IsFiniteSet(D) /\ D \in SUBSET Int
  <2>1. IsFiniteSet(1 .. n)
    BY FS_Interval
  <2> QED
    BY <2>1, FS_Subset
<1>4. D = {x \in DOMAIN Chart!generate_severity_data(index).mask :
             /\ Chart!generate_severity_data(index).mask[x]
             /\ (x = 1 \/ Chart!generate_severity_data(index).severity[x - 1]
                            # Chart!generate_severity_data(index).severity[x])}
  BY <1>2
<1>5. polygons = [i \in DOMAIN at |-> [at |-> at[i], severity |-> sev[at[i]]]]
  <2> HIDE DEF D
  <2> QED
    BY <1>2, <1>4, ListsOfCharts DEF Chart!Polygons
<1>6. \A x \in D : sev[x] \in 1 .. 3 /\ x \in 1 .. n
  BY <1>1
<1>7. \A x \in 1 .. n : sev[x] # 0 => \E y \in D : sev[y] = sev[x]
  <2> SUFFICES ASSUME NEW x \in 1 .. n, sev[x] # 0 PROVE \E y \in D : sev[y] = sev[x]
    OBVIOUS
  <2>1. PICK y \in Begins(sev, n) : y <= x /\ \A z \in y .. x : sev[z] = sev[x]
    BY BeginExists
  <2>2. y \in 1 .. n /\ (y = 1 \/ sev[y - 1] # sev[y])
    BY DEF Begins
  <2>3. sev[y] = sev[x]
    BY <2>1, <2>2
  <2> QED
    BY <2>2, <2>3
<1> HIDE DEF D
<1>8. /\ m \in Nat /\ at \in [1 .. m -> D]
      /\ \A d \in D : \E k \in 1 .. m : at[k] = d
  BY <1>3, InTurnLists DEF Lists
<1> HIDE DEF at, m
<1>9. DOMAIN at = 1 .. m /\ \A i \in 1 .. m : at[i] \in D /\ polygons[i] = [at |-> at[i], severity |-> sev[at[i]]]
  BY <1>5, <1>8
<1>14. \A i \in 1 .. m : polygons[i].at = at[i] /\ polygons[i].severity = sev[at[i]] /\ at[i] \in 1 .. n
  <2> SUFFICES ASSUME NEW i \in 1 .. m
               PROVE  polygons[i].at = at[i] /\ polygons[i].severity = sev[at[i]] /\ at[i] \in 1 .. n
    OBVIOUS
  <2>1. at[i] \in 1 .. n
    BY <1>6, <1>9
  <2>2. polygons[i] = [at |-> at[i], severity |-> sev[at[i]]]
    BY <1>9
  <2> QED
    BY <2>1, <2>2
<1>10. polygons \in [1 .. m -> [at : 1 .. n, severity : 1 .. 3]]
  BY <1>5, <1>6, <1>8
<1>11. \A x \in 1 .. n : sev[x] = Chart!get_severity(index[x])
  BY DEF sev
<1>12. \A i \in 1 .. m : polygons[i].severity = Chart!get_severity(index[polygons[i].at])
  BY <1>11, <1>14
<1>13. \A x \in 1 .. n : sev[x] # 0 => \E i \in 1 .. m : polygons[i].severity = sev[x]
  <2> SUFFICES ASSUME NEW x \in 1 .. n, sev[x] # 0 PROVE \E i \in 1 .. m : polygons[i].severity = sev[x]
    OBVIOUS
  <2>1. PICK y \in D : sev[y] = sev[x]
    BY <1>7
  <2>2. PICK i \in 1 .. m : at[i] = y
    BY <1>8
  <2> QED
    BY <1>14, <2>1, <2>2
<1>15. \A x \in 1 .. n : Chart!get_severity(index[x]) # 0 =>
                \E i \in 1 .. m : polygons[i].severity = Chart!get_severity(index[x])
  BY <1>11, <1>13
<1> QED
  BY <1>8, <1>10, <1>12, <1>15 DEF ArePolygons

(* The polygons sorted by severity: the same, the milder ones first.       *)
AreSorted(sorted, polygons, m, n) ==
  /\ sorted \in [1 .. m -> [at : 1 .. n, severity : 1 .. 3]]
  /\ \A i, j \in 1 .. m : i <= j => sorted[i].severity <= sorted[j].severity
  /\ \A i \in 1 .. m : \E j \in 1 .. m : sorted[i] = polygons[j]
  /\ \A j \in 1 .. m : \E i \in 1 .. m : sorted[i] = polygons[j]

(* SortedBySeverity makes them so.                                         *)
LEMMA SortedPolygons ==
  ASSUME NEW m \in Nat, NEW n, NEW polygons \in [1 .. m -> [at : 1 .. n, severity : 1 .. 3]]
  PROVE  AreSorted(Chart!SortedBySeverity(polygons), polygons, m, n)
<1> DEFINE P == [at : 1 .. n, severity : 1 .. 3]
           key == [i \in 1 .. m |-> polygons[i].severity]
           sorted == Chart!SortedBySeverity(polygons)
<1>1. \A p \in P : p.severity \in 1 .. 3
  OBVIOUS
<1> HIDE DEF P
<1>2. key \in [1 .. m -> Int] /\ polygons \in [1 .. m -> P] /\ DOMAIN polygons = 1 .. m
  BY <1>1 DEF P
<1>3. sorted = SortedBy(polygons, key)
  BY <1>2, ListsOfCharts DEF Chart!SortedBySeverity
<1> HIDE DEF key, sorted
<1>4. sorted \in [1 .. m -> P]
  BY <1>2, <1>3, SortedBySorts
<1>12. SortsInto(sorted, polygons, key, m)
  BY <1>2, <1>3, SortedBySorts
<1>5. PICK at : Sorts(at, key, m) /\ sorted = [k \in 1 .. m |-> polygons[at[k]]]
  BY <1>12 DEF SortsInto
<1>6. /\ at \in [1 .. m -> 1 .. m] /\ \A i \in 1 .. m : \E k \in 1 .. m : at[k] = i
      /\ \A j, k \in 1 .. m : j < k => key[at[j]] <= key[at[k]]
  <2>1. /\ at \in [1 .. m -> 1 .. m] /\ \A i \in 1 .. m : \E k \in 1 .. m : at[k] = i
        /\ \A j, k \in 1 .. m : j < k => \/ key[at[j]] < key[at[k]]
                                         \/ (key[at[j]] = key[at[k]] /\ at[j] < at[k])
    BY <1>5 DEF Sorts
  <2>2. \A j \in 1 .. m : key[at[j]] \in Int
    BY <1>2, <2>1
  <2>3. ASSUME NEW j \in 1 .. m, NEW k \in 1 .. m, j < k PROVE key[at[j]] <= key[at[k]]
    <3> DEFINE a == key[at[j]]
               b == key[at[k]]
    <3>1. (a < b \/ a = b) /\ a \in Int /\ b \in Int
      BY <2>1, <2>2, <2>3
    <3> HIDE DEF a, b
    <3>2. a <= b
      BY <3>1
    <3> QED
      BY <3>2 DEF a, b
  <2> QED
    BY <2>1, <2>3
<1>11. \A k \in 1 .. m : key[k] = polygons[k].severity /\ key[k] \in Int
  BY <1>2 DEF key
<1>7. \A k \in 1 .. m : /\ at[k] \in 1 .. m /\ sorted[k] = polygons[at[k]]
                        /\ sorted[k].severity = key[at[k]] /\ key[at[k]] \in Int
  BY <1>5, <1>6, <1>11
<1>8. ASSUME NEW i \in 1 .. m, NEW j \in 1 .. m, i <= j PROVE sorted[i].severity <= sorted[j].severity
  <2>1. i = j \/ i < j
    BY <1>8
  <2>2. i = j => sorted[i].severity = sorted[j].severity /\ sorted[i].severity \in Int
    BY <1>7
  <2>3. i < j => key[at[i]] <= key[at[j]]
    BY <1>6
  <2> QED
    BY <1>7, <2>1, <2>2, <2>3
<1>9. \A i \in 1 .. m : \E j \in 1 .. m : sorted[i] = polygons[j]
  BY <1>7
<1>10. ASSUME NEW j \in 1 .. m PROVE \E i \in 1 .. m : sorted[i] = polygons[j]
  <2>1. PICK k \in 1 .. m : at[k] = j
    BY <1>6
  <2> QED
    BY <1>7, <2>1
<1> QED
  BY <1>4, <1>8, <1>9, <1>10 DEF P, AreSorted, sorted

(* The placemarks of a chart (generate_kml_prediction of kml.py) show each *)
(* severity above low once, the milder ones first, with all of its polygons*)
(* in the order of the GeoJSON: for a row of any length and temperatures.  *)
THEOREM ChartsAreWhole ==
  ASSUME NEW n \in Nat, NEW row \in [1 .. n -> ChartRowCells]
  PROVE  Chart!ChartIsWhole(row)
<1> DEFINE index == Chart!calculate_row_data(row)
           polygons == Chart!Polygons(Chart!generate_severity_data(index))
           sorted == Chart!SortedBySeverity(polygons)
           marks == Chart!generate_kml_prediction(polygons)
           sev(x) == Chart!get_severity(index[x])
<1>1. index \in [1 .. n -> Int] /\ \A x \in 1 .. n : ~row[x].inside => index[x] = 0
  BY IndexIsKnown
<1>2. \A x \in 1 .. n : sev(x) \in 0 .. 3 /\ (~row[x].inside => sev(x) = 0)
  BY <1>1, SeverityIsKnown DEF Chart!get_severity
<1> HIDE DEF index
<1>19. PICK m : ArePolygons(polygons, m, index, n)
  BY <1>1, PolygonsAreWhole
<1>3. /\ m \in Nat /\ polygons \in [1 .. m -> [at : 1 .. n, severity : 1 .. 3]]
      /\ \A i \in 1 .. m : polygons[i].severity = sev(polygons[i].at)
      /\ \A x \in 1 .. n : sev(x) # 0 => \E i \in 1 .. m : polygons[i].severity = sev(x)
  BY <1>19 DEF ArePolygons
<1> HIDE DEF polygons, sev
<1>4. /\ sorted \in [1 .. m -> [at : 1 .. n, severity : 1 .. 3]]
      /\ \A i, j \in 1 .. m : i <= j => sorted[i].severity <= sorted[j].severity
      /\ \A i \in 1 .. m : \E j \in 1 .. m : sorted[i] = polygons[j]
      /\ \A j \in 1 .. m : \E i \in 1 .. m : sorted[i] = polygons[j]
  <2>1. AreSorted(sorted, polygons, m, n)
    BY <1>3, SortedPolygons
  <2> HIDE DEF sorted
  <2> QED
    BY <2>1 DEF AreSorted
<1> DEFINE f == [i \in 1 .. m |-> sorted[i].severity]
           D == Begins(f, m)
           begins == InTurn(D)
           l == Cardinality(D)
           ends == [k \in 1 .. l |-> IF k = l THEN m ELSE begins[k + 1] - 1]
<1>5. D = {i \in DOMAIN sorted : i = 1 \/ sorted[i - 1].severity # sorted[i].severity}
  <2>1. DOMAIN sorted = 1 .. m
    BY <1>4
  <2> HIDE DEF sorted
  <2>2. ASSUME NEW i \in 1 .. m
        PROVE  (i = 1 \/ f[i - 1] # f[i]) <=> (i = 1 \/ sorted[i - 1].severity # sorted[i].severity)
    <3>1. i # 1 => i - 1 \in 1 .. m
      BY <1>3
    <3>2. \A j \in 1 .. m : f[j] = sorted[j].severity
      OBVIOUS
    <3> HIDE DEF f
    <3> QED
      BY <3>1, <3>2
  <2> HIDE DEF f
  <2> QED
    BY <2>1, <2>2 DEF Begins
<1>6. D \in SUBSET (1 .. m) /\ IsFiniteSet(D) /\ D \in SUBSET Int
  <2>1. D \in SUBSET (1 .. m)
    BY DEF Begins
  <2>2. m \in Int /\ 1 \in Int
    BY <1>3
  <2> DEFINE S == 1 .. m
  <2>3. IsFiniteSet(S) /\ S \in SUBSET Int
    BY <2>2, FS_Interval
  <2> HIDE DEF D, S
  <2>4. IsFiniteSet(D)
    BY <2>1, <2>3, FS_Subset DEF S
  <2> QED
    BY <2>1, <2>3, <2>4 DEF S
<1>7. \A i \in 1 .. m : sorted[i].severity = f[i] /\ f[i] \in 1 .. 3
  BY <1>4
<1> HIDE DEF D, sorted
<1>8. Lists(begins, D)
  BY <1>6, InTurnLists
<1> HIDE DEF begins
<1>9. l \in Nat /\ begins \in [1 .. l -> D] /\ DOMAIN begins = 1 .. l /\ Len(begins) = l /\ Len(sorted) = m
  <2>1. l \in Nat /\ begins \in [1 .. l -> D]
    BY <1>8 DEF Lists
  <2> HIDE DEF l
  <2>2. DOMAIN begins = 1 .. l /\ Len(begins) = l
    BY <2>1, IsSequence
  <2>3. Len(sorted) = m
    BY <1>3, <1>4, IsSequence
  <2> QED
    BY <2>1, <2>2, <2>3
<1>10. marks = [k \in 1 .. l |-> [severity |-> sorted[begins[k]].severity,
                                  polygons |-> SubSeq(sorted, begins[k], ends[k])]]
  <2> DEFINE last(k) == IF k = Len(begins) THEN Len(sorted) ELSE begins[k + 1] - 1
  <2>1. marks = [k \in DOMAIN begins |-> [severity |-> sorted[begins[k]].severity,
                                           polygons |-> SubSeq(sorted, begins[k], last(k))]]
    BY <1>5, ListsOfCharts DEF Chart!generate_kml_prediction, sorted, begins
  <2>2. \A k \in 1 .. l : last(k) = ends[k]
    BY <1>9
  <2> HIDE DEF last, l, ends, marks
  <2> QED
    BY <1>9, <2>1, <2>2
<1> HIDE DEF f, l, ends
<1>20. AreRuns(begins, ends, l, f, m)
  BY <1>3, <1>8, RunsFollow DEF D, l, ends
<1>11. /\ l \in Nat /\ begins \in [1 .. l -> 1 .. m]
       /\ \A k \in 1 .. l : ends[k] \in begins[k] .. m
       /\ \A k \in 1 .. l : \A p \in begins[k] .. ends[k] : f[p] = f[begins[k]]
       /\ \A p \in 1 .. m : \E k \in 1 .. l : f[p] = f[begins[k]] /\ begins[k] <= p
  BY <1>20 DEF AreRuns
<1> HIDE DEF marks
\* The milder ones first.
<1>12. ASSUME NEW i \in 1 .. l, NEW j \in 1 .. l, i < j PROVE f[begins[i]] < f[begins[j]]
  <2>1. begins[i] < begins[j] /\ begins[i] \in 1 .. m /\ begins[j] \in D
    BY <1>8, <1>9, <1>11, <1>12 DEF Lists, l
  <2>2. begins[j] \in 1 .. m /\ f[begins[j] - 1] # f[begins[j]]
    BY <2>1 DEF D, Begins
  <2>3. begins[j] - 1 \in 1 .. m /\ begins[i] <= begins[j] - 1 /\ begins[j] - 1 <= begins[j]
    BY <1>3, <2>1, <2>2
  <2>4. f[begins[i]] <= f[begins[j] - 1] /\ f[begins[j] - 1] <= f[begins[j]]
    BY <1>4, <1>7, <2>1, <2>2, <2>3
  <2> QED
    BY <1>7, <2>1, <2>2, <2>3, <2>4
<1>13. \A k \in 1 .. l : marks[k].severity = f[begins[k]] /\ marks[k].polygons = SubSeq(sorted, begins[k], ends[k])
  BY <1>7, <1>10, <1>11
<1>14. DOMAIN marks = 1 .. l
  BY <1>10
<1>15. \A i, j \in DOMAIN marks : i < j => marks[i].severity < marks[j].severity
  BY <1>12, <1>13, <1>14
\* All of the polygons.
<1>16. Chart!FlattenSeq([i \in DOMAIN marks |-> marks[i].polygons]) = Chart!re_project_and_classify_geojson(polygons)
  <2>1. [i \in DOMAIN marks |-> marks[i].polygons] = [k \in 1 .. l |-> SubSeq(sorted, begins[k], ends[k])]
    BY <1>13, <1>14
  <2> DEFINE P == [at : 1 .. n, severity : 1 .. 3]
  <2>3. m \in Nat /\ sorted \in [1 .. m -> P]
    BY <1>3, <1>4
  <2> HIDE DEF P
  <2>2. Chart!FlattenSeq([k \in 1 .. l |-> SubSeq(sorted, begins[k], ends[k])]) = sorted
    BY <1>20, <2>3, PiecesMakeTheWhole
  <2> QED
    BY <2>1, <2>2 DEF Chart!re_project_and_classify_geojson, sorted
\* Every severity that there is.
<1>17. {marks[i].severity : i \in DOMAIN marks} = {sev(x) : x \in DOMAIN row} \ {0}
  <2>1. DOMAIN row = 1 .. n
    OBVIOUS
  <2>2. ASSUME NEW k \in 1 .. l PROVE \E x \in 1 .. n : f[begins[k]] = sev(x) /\ sev(x) # 0
    <3>1. begins[k] \in 1 .. m
      BY <1>11
    <3>2. PICK j \in 1 .. m : sorted[begins[k]] = polygons[j]
      BY <1>4, <3>1
    <3>3. polygons[j].severity = sev(polygons[j].at) /\ polygons[j].at \in 1 .. n
      BY <1>3
    <3> QED
      BY <1>7, <3>1, <3>2, <3>3
  <2>3. ASSUME NEW x \in 1 .. n, sev(x) # 0 PROVE \E k \in 1 .. l : f[begins[k]] = sev(x)
    <3>1. PICK j \in 1 .. m : polygons[j].severity = sev(x)
      BY <1>3, <2>3
    <3>2. PICK i \in 1 .. m : sorted[i] = polygons[j]
      BY <1>4
    <3>3. PICK k \in 1 .. l : f[i] = f[begins[k]]
      BY <1>11
    <3> QED
      BY <1>7, <3>1, <3>2, <3>3
  <2>4. \A k \in 1 .. l : marks[k].severity = f[begins[k]]
    BY <1>13
  <2>5. ASSUME NEW s \in {marks[i].severity : i \in DOMAIN marks} PROVE s \in {sev(x) : x \in DOMAIN row} \ {0}
    <3>1. PICK k \in 1 .. l : s = f[begins[k]]
      BY <1>14, <2>4
    <3>2. PICK x \in 1 .. n : f[begins[k]] = sev(x) /\ sev(x) # 0
      BY <2>2
    <3>3. s = sev(x) /\ x \in DOMAIN row /\ s # 0
      BY <2>1, <3>1, <3>2
    <3> QED
      BY <3>3
  <2>6. ASSUME NEW s \in {sev(x) : x \in DOMAIN row} \ {0} PROVE s \in {marks[i].severity : i \in DOMAIN marks}
    <3>1. PICK x \in 1 .. n : s = sev(x) /\ s # 0
      BY <2>1
    <3>2. PICK k \in 1 .. l : f[begins[k]] = sev(x)
      BY <2>3, <3>1
    <3> QED
      BY <1>14, <2>4, <3>1, <3>2
  <2> QED
    BY <2>5, <2>6
\* Under their own.
<1>18. ASSUME NEW i \in DOMAIN marks, NEW p \in DOMAIN marks[i].polygons
       PROVE  row[marks[i].polygons[p].at].inside /\ marks[i].polygons[p].severity = marks[i].severity
  <2> DEFINE q == begins[i] + p - 1
  <2>1. i \in 1 .. l /\ marks[i].polygons = SubSeq(sorted, begins[i], ends[i])
    BY <1>13, <1>14
  <2>2. begins[i] \in 1 .. m /\ ends[i] \in begins[i] .. m
    BY <1>11, <2>1
  <2> DEFINE b == begins[i]
             e == ends[i]
  <2>3. p \in DOMAIN SubSeq(sorted, b, e) /\ marks[i].polygons[p] = SubSeq(sorted, b, e)[p]
    BY <2>1
  <2>10. b \in 1 .. m /\ e \in b .. m
    BY <2>2
  <2> HIDE DEF b, e
  <2>11. p \in 1 .. e - b + 1 /\ marks[i].polygons[p] = sorted[b + p - 1] /\ b + p - 1 \in b .. e /\ b .. e \in SUBSET (1 .. m)
    <3> DEFINE P == [at : 1 .. n, severity : 1 .. 3]
    <3>1. m \in Nat /\ sorted \in [1 .. m -> P]
      BY <1>3, <1>4
    <3> HIDE DEF P
    <3>2. /\ DOMAIN SubSeq(sorted, b, e) = 1 .. e - b + 1
          /\ \A k \in 1 .. e - b + 1 : SubSeq(sorted, b, e)[k] = sorted[b + k - 1] /\ b + k - 1 \in b .. e
          /\ b .. e \in SUBSET (1 .. m)
      BY <2>10, <3>1, PieceOf
    <3> QED
      BY <2>3, <3>2
  <2>4. marks[i].polygons[p] = sorted[q] /\ q \in begins[i] .. ends[i] /\ q \in 1 .. m
    BY <2>11 DEF b, e
  <2> HIDE DEF q
  <2>5. f[q] = f[begins[i]]
    BY <1>11, <2>1, <2>4
  <2>6. sorted[q].severity = marks[i].severity
    BY <1>7, <1>13, <2>1, <2>4, <2>5
  <2>7. PICK j \in 1 .. m : sorted[q] = polygons[j]
    BY <1>4, <2>4
  <2>8. polygons[j].severity = sev(polygons[j].at) /\ polygons[j].at \in 1 .. n /\ polygons[j].severity \in 1 .. 3
    BY <1>3
  <2>9. row[polygons[j].at].inside
    BY <1>2, <2>8 DEF ChartRowCells
  <2> QED
    BY <2>4, <2>6, <2>7, <2>9
<1> QED
  BY <1>15, <1>16, <1>17, <1>18 DEF Chart!ChartIsWhole, marks, polygons, index, sev

(* Warmer below, colder above or drier is never less severe.               *)
LEMMA MoreIsWorse ==
  ASSUME NEW t700 \in Int, NEW t850 \in Int, NEW d850 \in Int
  PROVE  Chart!SeverityGrows(t700, t850, d850)
<1> DEFINE c(d) == IF 4 * d - 12 > 108 THEN 108 ELSE IF 4 * d - 12 > 60 THEN 60 + (4 * d - 12 - 60) \div 2 ELSE 4 * d - 12
<1>1. \A t, u, d \in Int : /\ Chart!calculate_c_haines_index(t, u, d) = 6 * (u - t) - 24 + c(d)
                           /\ Chart!calculate_c_haines_index(t, u, d) \in Int
  BY DEF Chart!calculate_c_haines_index
<1>2. \A d \in Int : c(d) \in Int /\ c(d) <= c(d + 1)
  <2> SUFFICES ASSUME NEW d \in Int PROVE c(d) \in Int /\ c(d) <= c(d + 1)
    OBVIOUS
  <2> QED
    OBVIOUS
<1> HIDE DEF c
<1>3. \A i, j \in Int : i <= j => Chart!get_severity(i) <= Chart!get_severity(j)
  BY DEF Chart!get_severity
<1> DEFINE i == Chart!calculate_c_haines_index(t700, t850, d850)
           warmer == Chart!calculate_c_haines_index(t700, t850 + 1, d850)
           colder == Chart!calculate_c_haines_index(t700 - 1, t850, d850)
           drier == Chart!calculate_c_haines_index(t700, t850, d850 + 1)
<1>4. i = 6 * (t850 - t700) - 24 + c(d850) /\ i \in Int
  BY <1>1
<1>5. warmer = 6 * (t850 + 1 - t700) - 24 + c(d850) /\ warmer \in Int
  BY <1>1
<1>6. colder = 6 * (t850 - (t700 - 1)) - 24 + c(d850) /\ colder \in Int
  BY <1>1
<1>7. drier = 6 * (t850 - t700) - 24 + c(d850 + 1) /\ drier \in Int
  BY <1>1
<1>8. c(d850) \in Int /\ c(d850 + 1) \in Int /\ c(d850) <= c(d850 + 1)
  BY <1>2
<1> DEFINE x == c(d850)
           y == c(d850 + 1)
<1> HIDE DEF i, warmer, colder, drier, x, y
<1>9. i <= warmer /\ i <= colder /\ i <= drier
  <2>1. /\ i = 6 * (t850 - t700) - 24 + x /\ warmer = 6 * (t850 + 1 - t700) - 24 + x
        /\ colder = 6 * (t850 - (t700 - 1)) - 24 + x /\ drier = 6 * (t850 - t700) - 24 + y
        /\ x \in Int /\ y \in Int /\ x <= y
    BY <1>4, <1>5, <1>6, <1>7, <1>8 DEF x, y
  <2> QED
    BY <2>1
<1>10. /\ Chart!get_severity(i) <= Chart!get_severity(warmer)
       /\ Chart!get_severity(i) <= Chart!get_severity(colder)
       /\ Chart!get_severity(i) <= Chart!get_severity(drier)
  BY <1>3, <1>4, <1>5, <1>6, <1>7, <1>9
<1> QED
  BY <1>10 DEF i, warmer, colder, drier, Chart!SeverityGrows

(* A prediction of a model is shown until the next one is.                 *)
LEMMA SpansOfModels == \A model \in {"GDPS", "RDPS", "HRDPS"} : Chart!SpansFollow(model)
<1>1. ASSUME NEW H \in SUBSET Int, NEW d \in Int, d > 0, NEW h \in H, \A g \in H : g > h => g >= h + d,
             {g \in H : g > h} # {} => h + d \in H
      PROVE  {g \in H : g > h} # {} => h + d = CHOOSE g \in {k \in H : k > h} : \A f \in {k \in H : k > h} : g <= f
  <2> DEFINE later == {g \in H : g > h}
             pick == CHOOSE g \in later : \A f \in later : g <= f
  <2> SUFFICES ASSUME later # {} PROVE h + d = pick
    OBVIOUS
  <2>1. h + d \in later /\ \A f \in later : h + d <= f
    BY <1>1
  <2>2. \A g \in later : g \in Int
    OBVIOUS
  <2> HIDE DEF later
  <2>3. pick \in later /\ \A f \in later : pick <= f
    BY <2>1
  <2> HIDE DEF pick
  <2>4. pick <= h + d /\ h + d <= pick /\ pick \in Int
    BY <2>1, <2>2, <2>3
  <2> QED
    BY <2>4
<1>2. ASSUME NEW H \in SUBSET Int, NEW model, H = Chart!model_prediction_hour_iterator(model),
             NEW d \in Int, d > 0, d = IF model = "GDPS" THEN 3 ELSE 1,
             \A h, g \in H : g > h => g >= h + d /\ h + d \in H
      PROVE  Chart!SpansFollow(model)
  <2> SUFFICES ASSUME NEW h \in H, {g \in H : g > h} # {}
               PROVE  Chart!TimeSpan(model, h).end = CHOOSE g \in {k \in H : k > h} : \A f \in {k \in H : k > h} : g <= f
    BY <1>2 DEF Chart!SpansFollow
  <2>1. Chart!TimeSpan(model, h).end = h + d
    BY <1>2 DEF Chart!TimeSpan
  <2> QED
    BY <1>1, <1>2, <2>1
<1>3. Chart!SpansFollow("GDPS")
  <2> DEFINE H == {3 * i : i \in 0 .. 80}
  <2>1. H = Chart!model_prediction_hour_iterator("GDPS")
    BY DEF Chart!model_prediction_hour_iterator
  <2>2. ASSUME NEW h \in H, NEW g \in H, g > h PROVE g >= h + 3 /\ h + 3 \in H
    <3>1. PICK i \in 0 .. 80 : h = 3 * i
      OBVIOUS
    <3>2. PICK j \in 0 .. 80 : g = 3 * j
      OBVIOUS
    <3>3. i < j /\ i + 1 \in 0 .. 80 /\ h + 3 = 3 * (i + 1)
      BY <2>2, <3>1, <3>2
    <3> QED
      BY <3>1, <3>2, <3>3
  <2>3. H \in SUBSET Int
    OBVIOUS
  <2> HIDE DEF H
  <2> QED
    BY <1>2, <2>1, <2>2, <2>3
<1>4. ASSUME NEW n \in Nat, NEW model, model # "GDPS", Chart!model_prediction_hour_iterator(model) = 0 .. n
      PROVE  Chart!SpansFollow(model)
  <2> DEFINE H == 0 .. n
  <2>1. \A h, g \in H : g > h => g >= h + 1 /\ h + 1 \in H
    OBVIOUS
  <2>2. H \in SUBSET Int /\ H = Chart!model_prediction_hour_iterator(model)
    BY <1>4
  <2> HIDE DEF H
  <2> QED
    BY <1>2, <1>4, <2>1, <2>2
<1>5. Chart!SpansFollow("RDPS")
  <2>1. Chart!model_prediction_hour_iterator("RDPS") = 0 .. 84
    BY DEF Chart!model_prediction_hour_iterator
  <2> QED
    BY <1>4, <2>1
<1>6. Chart!SpansFollow("HRDPS")
  <2>1. Chart!model_prediction_hour_iterator("HRDPS") = 0 .. 48
    BY DEF Chart!model_prediction_hour_iterator
  <2> QED
    BY <1>4, <2>1
<1> QED
  BY <1>3, <1>5, <1>6

(* States one after the other, from a first one.                           *)
Turns(st, n, base, g) == st[0] = base /\ \A k \in 0 .. n - 1 : st[k + 1] = g[<<st[k], k + 1>>]

(* Such states exist.                                                      *)
LEMMA TurnsExist ==
  ASSUME NEW n \in Nat, NEW A, NEW base \in A, NEW g \in [A \X (1 .. n) -> A]
  PROVE  \E st \in [0 .. n -> A] : Turns(st, n, base, g)
<1>1. PICK f \in [SUBSET (1 .. n) -> A] : FoldsUp(f, n, base, g)
  BY FoldExists
<1> DEFINE st == [k \in 0 .. n |-> f[1 .. k]]
<1>2. st \in [0 .. n -> A]
  <2>1. \A k \in 0 .. n : 1 .. k \in SUBSET (1 .. n)
    OBVIOUS
  <2> QED
    BY <1>1, <2>1
<1>3. st[0] = base
  <2>1. 1 .. 0 = {} /\ 0 \in 0 .. n
    OBVIOUS
  <2> QED
    BY <1>1, <2>1 DEF FoldsUp
<1>4. ASSUME NEW k \in 0 .. n - 1 PROVE st[k + 1] = g[<<st[k], k + 1>>]
  <2>1. k \in 0 .. n /\ k + 1 \in 0 .. n /\ k \in Nat /\ 1 .. k + 1 \in SUBSET (1 .. n)
    OBVIOUS
  <2>2. 1 .. k + 1 # {} /\ LastOf(1 .. k + 1) = k + 1 /\ (1 .. k + 1) \ {k + 1} = 1 .. k
    BY <2>1, LastOfInterval
  <2>3. st[k] = f[1 .. k] /\ st[k + 1] = f[1 .. k + 1]
    BY <2>1
  <2> HIDE DEF st
  <2> QED
    BY <1>1, <2>1, <2>2, <2>3 DEF FoldsUp
<1> QED
  BY <1>2, <1>3, <1>4 DEF Turns

(* A sum of numbers that lie between two lies between as many of each.     *)
LEMMA SumIsBetween ==
  ASSUME NEW n \in Nat, NEW numbers \in [1 .. n -> Int], NEW lo \in Int, NEW hi \in Int,
         \A k \in 1 .. n : lo <= numbers[k] /\ numbers[k] <= hi
  PROVE  /\ Hfi!SumOf(numbers) \in Int
         /\ n * lo <= Hfi!SumOf(numbers) /\ Hfi!SumOf(numbers) <= n * hi
<1> DEFINE g == [x \in Int \X (1 .. n) |-> x[1] + numbers[x[2]]]
           Loop(f) == f = [s \in SUBSET DOMAIN numbers |->
                             IF s = {} THEN 0 ELSE f[s \ {LastOf(s)}] + numbers[LastOf(s)]]
           iter == CHOOSE f : Loop(f)
<1>1. DOMAIN numbers = 1 .. n
  OBVIOUS
<1>2. \E f : Loop(f)
  <2>1. g \in [Int \X (1 .. n) -> Int]
    OBVIOUS
  <2>2. \A c \in Int, k \in 1 .. n : g[<<c, k>>] = c + numbers[k]
    OBVIOUS
  <2> HIDE DEF g
  <2>3. PICK f \in [SUBSET (1 .. n) -> Int] : FoldsUp(f, n, 0, g)
    <3>1. n \in Nat /\ 0 \in Int
      OBVIOUS
    <3> QED
      BY <2>1, <3>1, FoldExists, Zenon
  <2>4. ASSUME NEW s \in SUBSET (1 .. n), s # {}
        PROVE  f[s] = f[s \ {LastOf(s)}] + numbers[LastOf(s)]
    <3>1. LastOf(s) \in 1 .. n /\ s \ {LastOf(s)} \in SUBSET (1 .. n)
      BY <2>4, LastNumber
    <3>2. f[s \ {LastOf(s)}] \in Int
      BY <2>3, <3>1
    <3> QED
      BY <2>2, <2>3, <2>4, <3>1, <3>2 DEF FoldsUp
  <2>5. f[{}] = 0
    BY <2>3 DEF FoldsUp
  <2>6. f = [s \in SUBSET (1 .. n) |-> IF s = {} THEN 0 ELSE f[s \ {LastOf(s)}] + numbers[LastOf(s)]]
    BY <2>3, <2>4, <2>5
  <2> QED
    BY <1>1, <2>6
<1>3. Loop(iter)
  <2> HIDE DEF Loop
  <2> QED
    BY <1>2
<1>4. Hfi!SumOf(numbers) = iter[DOMAIN numbers]
  BY DEF Hfi!SumOf, Hfi!FoldLeft, Hfi!MapThenFoldSet, Hfi!Max, LastOf
<1> HIDE DEF iter
<1>5. \A s \in SUBSET (1 .. n) : iter[s] = IF s = {} THEN 0 ELSE iter[s \ {LastOf(s)}] + numbers[LastOf(s)]
  BY <1>1, <1>3
<1> HIDE DEF Loop, g
<1> DEFINE Between(k) == iter[1 .. k] \in Int /\ k * lo <= iter[1 .. k] /\ iter[1 .. k] <= k * hi
           P == {k \in Nat : k <= n => Between(k)}
<1>6. 0 \in P
  <2>1. 1 .. 0 = {} /\ {} \in SUBSET (1 .. n)
    OBVIOUS
  <2>2. iter[1 .. 0] = 0
    BY <1>5, <2>1
  <2> QED
    BY <2>2
<1>7. ASSUME NEW k \in P PROVE k + 1 \in P
  <2>1. SUFFICES ASSUME k + 1 <= n PROVE Between(k + 1)
    OBVIOUS
  <2>2. k \in Nat /\ Between(k) /\ k + 1 \in 1 .. n /\ 1 .. k + 1 \in SUBSET (1 .. n)
    BY <2>1
  <2>3. 1 .. k + 1 # {} /\ LastOf(1 .. k + 1) = k + 1 /\ (1 .. k + 1) \ {k + 1} = 1 .. k
    BY <2>2, LastOfInterval
  <2>4. iter[1 .. k + 1] = iter[1 .. k] + numbers[k + 1]
    BY <1>5, <2>2, <2>3
  <2> DEFINE a == iter[1 .. k]
             b == iter[1 .. k + 1]
             c == numbers[k + 1]
             kl == k * lo
             kh == k * hi
  <2>5. b = a + c /\ a \in Int /\ c \in Int /\ kl <= a /\ a <= kh /\ lo <= c /\ c <= hi /\ kl \in Int /\ kh \in Int
    BY <2>2, <2>4
  <2>6. (k + 1) * lo = kl + lo /\ (k + 1) * hi = kh + hi
    BY <2>2
  <2> HIDE DEF a, b, c, kl, kh
  <2>7. b \in Int /\ kl + lo <= b /\ b <= kh + hi
    BY <2>5
  <2> QED
    BY <2>6, <2>7 DEF b
<1> HIDE DEF Between
<1>8. P = Nat
  <2>1. P \in SUBSET Nat
    OBVIOUS
  <2> HIDE DEF P
  <2> QED
    BY <1>6, <1>7, <2>1, AllNumbers
<1>9. Between(n)
  <2>1. n \in P
    BY <1>8
  <2> QED
    BY <2>1
<1> QED
  BY <1>1, <1>4, <1>9 DEF Between

(* A quotient of such a sum lies between the two, rounded up as well if    *)
(* there is a remainder.                                                   *)
LEMMA QuotientIsBetween ==
  ASSUME NEW n \in Nat, n > 0, NEW sum \in Int, NEW lo \in Int, NEW hi \in Int,
         n * lo <= sum, sum <= n * hi
  PROVE  /\ sum \div n \in Int /\ sum % n \in Int /\ sum % n >= 0 /\ sum % n < n
         /\ lo <= sum \div n /\ sum \div n <= hi
         /\ sum % n > 0 => sum \div n + 1 <= hi
<1> DEFINE q == sum \div n
           r == sum % n
<1>1. q \in Int /\ r \in 0 .. n - 1 /\ sum = n * q + r
  OBVIOUS
<1> HIDE DEF q, r
<1>2. lo <= q
  <2> SUFFICES ASSUME q + 1 <= lo PROVE FALSE
    BY <1>1
  <2>1. n * (q + 1) <= n * lo
    BY <1>1
  <2>2. n * (q + 1) = n * q + n
    BY <1>1
  <2> QED
    BY <1>1, <2>1, <2>2
<1>3. q <= hi
  <2> SUFFICES ASSUME hi + 1 <= q PROVE FALSE
    BY <1>1
  <2>1. n * (hi + 1) <= n * q
    BY <1>1
  <2>2. n * (hi + 1) = n * hi + n
    BY <1>1
  <2> QED
    BY <1>1, <2>1, <2>2
<1>4. r > 0 => q # hi
  BY <1>1
<1> QED
  BY <1>1, <1>2, <1>3, <1>4 DEF q, r

(* The lists of the module are those of Lists.                             *)
LEMMA ListsOfResults ==
  /\ \A D : Hfi!InTurn(D) = InTurn(D)
  /\ \A s, D : Hfi!Kept(s, D) = Kept(s, D)
  /\ \A s, key : Hfi!SortedBy(s, key) = SortedBy(s, key)
  /\ \A D : Hfi!Cardinality(D) = Cardinality(D)
<1>1. \A D : Hfi!InTurn(D) = InTurn(D)
  BY DEF Hfi!InTurn, InTurn, Hfi!Cardinality, Cardinality
<1>2. \A s, D : Hfi!Kept(s, D) = Kept(s, D)
  BY DEF Hfi!Kept, Kept, Hfi!InTurn, InTurn, Hfi!Cardinality, Cardinality
<1>3. \A s, key : Hfi!SortedBy(s, key) = SortedBy(s, key)
  BY DEF Hfi!SortedBy, SortedBy, Hfi!Cardinality, Cardinality
<1>4. \A D : Hfi!Cardinality(D) = Cardinality(D)
  BY DEF Hfi!Cardinality, Cardinality
<1> QED
  BY <1>1, <1>2, <1>3, <1>4

(* The ends of a set of numbers.                                           *)
LEMMA EndsOfNumbers ==
  ASSUME NEW top \in Nat, NEW S \in SUBSET (0 .. top), S # {}
  PROVE  /\ Hfi!Least(S) \in S /\ Hfi!Greatest(S) \in S
         /\ \A x \in S : Hfi!Least(S) <= x /\ x <= Hfi!Greatest(S)
<1>1. /\ Critical!Min(S) \in S /\ \A x \in S : Critical!Min(S) <= x
      /\ Critical!Max(S) \in S /\ \A x \in S : x <= Critical!Max(S)
  <2>1. 0 \in Int /\ top \in Int
    OBVIOUS
  <2> QED
    BY <2>1, EndsExist, Zenon
<1>2. (\E x \in S : \A y \in S : x <= y) /\ (\E x \in S : \A y \in S : y <= x)
  BY <1>1
<1> QED
  BY <1>2 DEF Hfi!Least, Hfi!Greatest

(* Dailies of the HFI calculator.                                          *)
PrepDailies(codes) ==
  [code : codes, day : Int, complete : BOOLEAN, intensity_group : (1 .. 5) \union {None}]

(* The mean of some dailies, which lies between their groups, is there if  *)
(* each of the stations has one and all of them have a group.              *)
MeanOfGroups(mean, its, k, count) ==
  /\ mean # None <=> k = count /\ k # 0 /\ \A i \in 1 .. k : its[i].intensity_group # None
  /\ mean # None => /\ mean \in 1 .. 5
                    /\ Hfi!Least({its[i].intensity_group : i \in 1 .. k}) <= mean
                    /\ mean <= Hfi!Greatest({its[i].intensity_group : i \in 1 .. k})

(* What is calculated is such a mean.                                      *)
LEMMA MeanIsBetween ==
  ASSUME Apart, NEW codes, NEW k \in Nat, NEW its \in [1 .. k -> PrepDailies(codes)], NEW count \in Nat
  PROVE  MeanOfGroups(Hfi!calculate_mean_intensity(its, count), its, k, count)
<1> DEFINE groups == [i \in 1 .. k |-> its[i].intensity_group]
           mean == Hfi!calculate_mean_intensity(its, count)
           sum == Hfi!SumOf(groups)
           S == {its[i].intensity_group : i \in 1 .. k}
           All == \A i \in 1 .. k : groups[i] # None
<1>1. \A i \in 1 .. k : groups[i] = its[i].intensity_group /\ groups[i] \in (1 .. 5) \union {None}
  BY DEF PrepDailies
<1>2. DOMAIN its = 1 .. k /\ Len(its) = k /\ DOMAIN groups = 1 .. k
  BY IsSequence
<1>3. mean = IF k # count \/ k = 0 \/ \E i \in 1 .. k : groups[i] = None THEN None
             ELSE IF 4 * (sum % k) >= 3 * k THEN sum \div k + 1 ELSE sum \div k
  <2> DEFINE n == Len(its)
  <2>1. [i \in DOMAIN its |-> its[i].intensity_group] = groups
    BY <1>2
  <2> HIDE DEF groups
  <2>2. mean = IF n # count \/ n = 0 \/ \E i \in DOMAIN groups : groups[i] = None THEN None
               ELSE IF 4 * (sum % n) >= 3 * n THEN sum \div n + 1 ELSE sum \div n
    BY <2>1 DEF Hfi!calculate_mean_intensity
  <2> QED
    BY <1>2, <2>2
<1>4. S = {groups[i] : i \in 1 .. k}
  BY <1>1
<1> HIDE DEF groups, mean, S, sum
<1>5. ASSUME k = count, k # 0, All
      PROVE  mean \in 1 .. 5 /\ Hfi!Least(S) <= mean /\ mean <= Hfi!Greatest(S)
  <2>1. \A i \in 1 .. k : groups[i] \in 1 .. 5 /\ groups[i] \in S
    BY <1>1, <1>4, <1>5
  <2>2. S \in SUBSET (1 .. 5) /\ 1 \in 1 .. k
    BY <1>4, <1>5, <2>1
  <2>3. S \in SUBSET (0 .. 5) /\ S # {}
    BY <2>1, <2>2
  <2> DEFINE lo == Hfi!Least(S)
             hi == Hfi!Greatest(S)
  <2>4. lo \in S /\ hi \in S /\ \A x \in S : lo <= x /\ x <= hi
    <3>1. 5 \in Nat
      OBVIOUS
    <3> QED
      BY <2>3, <3>1, EndsOfNumbers
  <2>5. lo \in 1 .. 5 /\ hi \in 1 .. 5 /\ \A i \in 1 .. k : lo <= groups[i] /\ groups[i] <= hi
    BY <2>1, <2>2, <2>4
  <2> HIDE DEF lo, hi
  <2>6. groups \in [1 .. k -> Int]
    BY <1>2, <2>1 DEF groups
  <2>7. sum \in Int /\ k * lo <= sum /\ sum <= k * hi
    <3>1. k \in Nat /\ lo \in Int /\ hi \in Int /\ \A i \in 1 .. k : lo <= groups[i] /\ groups[i] <= hi
      BY <2>5
    <3> QED
      BY <2>6, <3>1, SumIsBetween, Zenon DEF sum
  <2>8. /\ sum \div k \in Int /\ sum % k \in Int /\ sum % k >= 0
        /\ lo <= sum \div k /\ sum \div k <= hi
        /\ sum % k > 0 => sum \div k + 1 <= hi
    BY <1>5, <2>5, <2>7, QuotientIsBetween
  <2> DEFINE q == sum \div k
             r == sum % k
  <2>9. mean = IF 4 * r >= 3 * k THEN q + 1 ELSE q
    BY <1>3, <1>5
  <2>10. q \in Int /\ r \in Int /\ lo <= q /\ q <= hi /\ (r > 0 => q + 1 <= hi) /\ (4 * r >= 3 * k => r > 0)
    BY <1>5, <2>8
  <2> HIDE DEF q, r
  <2>11. mean \in Int /\ lo <= mean /\ mean <= hi
    BY <2>5, <2>9, <2>10
  <2> QED
    BY <2>5, <2>11 DEF lo, hi
<1>6. mean # None <=> k = count /\ k # 0 /\ All
  <2>1. ~(k = count /\ k # 0 /\ All) => mean = None
    BY <1>3
  <2>2. k = count /\ k # 0 /\ All => mean # None
    BY <1>5, AreNumbers
  <2> QED
    BY <2>1, <2>2
<1>7. mean # None => mean \in 1 .. 5 /\ Hfi!Least(S) <= mean /\ mean <= Hfi!Greatest(S)
  BY <1>5, <1>6
<1> QED
  BY <1>1, <1>6, <1>7 DEF MeanOfGroups, mean, S

(* All of some numbers are there if they are as many.                      *)
LEMMA AllOfThem ==
  ASSUME NEW n \in Nat, NEW V \in SUBSET (1 .. n)
  PROVE  IsFiniteSet(V) /\ Cardinality(V) \in Nat /\ (Cardinality(V) = n <=> V = 1 .. n)
<1>1. 1 \in Int /\ n \in Int
  OBVIOUS
<1>2. IsFiniteSet(1 .. n) /\ Cardinality(1 .. n) = n
  BY FS_Interval
<1> DEFINE S == 1 .. n
<1>3. IsFiniteSet(S) /\ Cardinality(S) = n /\ V \in SUBSET S
  BY <1>2
<1> HIDE DEF S
<1>4. IsFiniteSet(V) /\ (Cardinality(S) = Cardinality(V) => S = V)
  BY <1>3, FS_Subset
<1>5. Cardinality(V) \in Nat
  BY <1>4, FS_CardinalityType
<1> QED
  BY <1>3, <1>4, <1>5 DEF S

(* The mean of the prep levels of some days, which lies between them, is   *)
(* there if each day has one.                                              *)
MeanOfLevels(mean, levels, days) ==
  /\ mean # None <=> \A d \in 1 .. days : levels[d] # None
  /\ mean # None => /\ Hfi!Least({levels[d] : d \in 1 .. days}) <= mean
                    /\ mean <= Hfi!Greatest({levels[d] : d \in 1 .. days})

(* What is calculated is such a mean.                                      *)
LEMMA LevelIsBetween ==
  ASSUME Apart, NEW days \in Nat, days > 0, NEW top \in Nat,
         NEW levels \in [1 .. days -> (1 .. top) \union {None}]
  PROVE  MeanOfLevels(Hfi!calculate_mean_prep_level(levels, days), levels, days)
<1> DEFINE V == {d \in 1 .. days : levels[d] \notin {None, 0}}
           valid == Kept(levels, V)
           mean == Hfi!calculate_mean_prep_level(levels, days)
           n == Len(valid)
           sum == Hfi!SumOf(valid)
           S == {levels[d] : d \in 1 .. days}
           All == \A d \in 1 .. days : levels[d] # None
<1>1. DOMAIN levels = 1 .. days
  OBVIOUS
<1>2. mean = IF valid = <<>> \/ n # days THEN None
             ELSE IF 2 * (sum % n) > n \/ (2 * (sum % n) = n /\ (sum \div n) % 2 = 1)
                  THEN sum \div n + 1 ELSE sum \div n
  BY <1>1, ListsOfResults DEF Hfi!calculate_mean_prep_level
<1>3. \A d \in 1 .. days : levels[d] # None => levels[d] \in 1 .. top
  OBVIOUS
<1>4. V \in SUBSET (1 .. days) /\ \A d \in 1 .. days : d \in V <=> levels[d] # None
  BY <1>3
<1> HIDE DEF V
<1>5. /\ IsFiniteSet(V) /\ V \in SUBSET Int /\ Cardinality(V) \in Nat
      /\ Len(valid) = Cardinality(V)
      /\ Cardinality(V) = days <=> V = 1 .. days
  <2> DEFINE A == (1 .. top) \union {None}
  <2>1. levels \in [1 .. days -> A]
    OBVIOUS
  <2> HIDE DEF A, valid
  <2>2. IsFiniteSet(V) /\ Cardinality(V) \in Nat /\ (Cardinality(V) = days <=> V = 1 .. days)
    BY <1>4, AllOfThem
  <2>3. V \in SUBSET Int /\ Len(valid) = Cardinality(V)
    <3>1. V \in SUBSET Int /\ Len(Kept(levels, V)) = Cardinality(V)
      <4>1. V \in SUBSET (1 .. days)
        BY <1>4
      <4> QED
        BY <4>1, <2>1, KeptIsList
    <3> QED
      BY <3>1 DEF valid
  <2> QED
    BY <2>2, <2>3
<1> HIDE DEF valid
<1>6. /\ DOMAIN valid = 1 .. Cardinality(V)
      /\ \A k \in DOMAIN valid : InTurn(V)[k] \in V /\ valid[k] = levels[InTurn(V)[k]]
  <2>1. IsFiniteSet(V) /\ V \in SUBSET Int
    BY <1>5
  <2>2. IsKept(valid, levels, V)
    BY <2>1, KeptLists DEF valid
  <2> QED
    BY <2>2 DEF IsKept
<1>7. n = days <=> All
  BY <1>4, <1>5
<1> HIDE DEF mean, n, sum, S
<1>8. ASSUME All PROVE mean \in Int /\ Hfi!Least(S) <= mean /\ mean <= Hfi!Greatest(S)
  <2>1. n = days /\ V = 1 .. days /\ Cardinality(V) = days /\ DOMAIN valid = 1 .. days
    BY <1>5, <1>6, <1>7, <1>8 DEF n
  <2>2. valid # <<>>
    <3>1. DOMAIN <<>> = 1 .. 0
      OBVIOUS
    <3>2. 1 \in DOMAIN valid /\ 1 \notin 1 .. 0
      BY <2>1
    <3> QED
      BY <3>1, <3>2
  <2>3. \A d \in 1 .. days : levels[d] \in S /\ levels[d] \in 1 .. top
    BY <1>3, <1>8 DEF S
  <2>4. S \in SUBSET (0 .. top) /\ S \in SUBSET Int
    <3>1. \A x \in 1 .. top : x \in 0 .. top /\ x \in Int
      OBVIOUS
    <3>2. \A x \in S : x \in 1 .. top
      BY <2>3 DEF S
    <3> QED
      BY <3>1, <3>2
  <2>5. S # {}
    <3>1. 1 \in 1 .. days
      OBVIOUS
    <3> QED
      BY <2>3, <3>1
  <2> DEFINE lo == Hfi!Least(S)
             hi == Hfi!Greatest(S)
  <2>6. lo \in S /\ hi \in S /\ \A x \in S : lo <= x /\ x <= hi
    BY <2>4, <2>5, EndsOfNumbers
  <2>7. lo \in Int /\ hi \in Int
    BY <2>4, <2>6
  <2>8. valid \in [1 .. days -> Int] /\ \A k \in 1 .. days : lo <= valid[k] /\ valid[k] <= hi
    <3>1. ASSUME NEW k \in 1 .. days PROVE valid[k] \in Int /\ valid[k] \in S
      <4>1. InTurn(V)[k] \in 1 .. days /\ valid[k] = levels[InTurn(V)[k]]
        BY <1>6, <2>1
      <4> QED
        BY <2>3, <4>1
    <3>2. valid = [k \in 1 .. days |-> valid[k]]
      BY <2>1 DEF valid, Kept
    <3>3. \A k \in 1 .. days : valid[k] \in Int
      BY <3>1
    <3> HIDE DEF lo, hi
    <3>4. valid \in [1 .. days -> Int]
      BY <3>2, <3>3, Zenon
    <3> QED
      BY <2>6, <3>1, <3>4
  <2> HIDE DEF lo, hi
  <2>9. sum \in Int /\ days * lo <= sum /\ sum <= days * hi
    BY <2>7, <2>8, SumIsBetween, Zenon DEF sum
  <2>10. /\ sum \div days \in Int /\ sum % days \in Int /\ sum % days >= 0
         /\ lo <= sum \div days /\ sum \div days <= hi
         /\ sum % days > 0 => sum \div days + 1 <= hi
    BY <2>7, <2>9, QuotientIsBetween
  <2> DEFINE q == sum \div days
             r == sum % days
             up == 2 * r > days \/ (2 * r = days /\ q % 2 = 1)
  <2>11. mean = IF up THEN q + 1 ELSE q
    BY <1>2, <2>1, <2>2
  <2>12. q \in Int /\ r \in Int /\ lo <= q /\ q <= hi /\ (r > 0 => q + 1 <= hi)
    BY <2>10
  <2> HIDE DEF q, r
  <2>13. up => r > 0
    BY <2>12
  <2> HIDE DEF up
  <2>14. mean \in Int /\ lo <= mean /\ mean <= hi
    BY <2>7, <2>11, <2>12, <2>13
  <2> QED
    BY <2>14 DEF lo, hi
<1>9. mean # None <=> All
  <2>1. ~All => mean = None
    BY <1>2, <1>7
  <2>2. All => mean # None
    BY <1>8, AreNumbers
  <2> QED
    BY <2>1, <2>2
<1>10. mean # None => Hfi!Least(S) <= mean /\ mean <= Hfi!Greatest(S)
  BY <1>8, <1>9
<1> QED
  BY <1>9, <1>10 DEF MeanOfLevels, mean, S

(* What a planning area is calculated from: its stations, and dailies of   *)
(* WF1, one of a station and day, each with what the fuel type of its      *)
(* station needs.                                                          *)
PrepInputs(raws, n, infos, m, known) ==
  /\ n \in Nat /\ DOMAIN raws = 1 .. n /\ m \in Nat /\ DOMAIN infos = 1 .. m
  /\ \A i \in 1 .. m : infos[i].fuel \in Hfi!FuelTypeEnum
  /\ \A r \in 1 .. n : raws[r].code \in known /\ raws[r].day \in Int /\ raws[r].complete \in BOOLEAN
  /\ \A r \in 1 .. n, i \in 1 .. m : infos[i].code = raws[r].code => raws[r].x \in FuelInputs(infos[i].fuel)
  /\ \A r, q \in 1 .. n : raws[r].code = raws[q].code /\ raws[r].day = raws[q].day => r = q

(* What is known of a station is one of the entries of its code.           *)
LEMMA InfoIsOne ==
  ASSUME NEW m \in Nat, NEW infos, DOMAIN infos = 1 .. m, NEW code, \E i \in 1 .. m : infos[i].code = code
  PROVE  \E i \in 1 .. m : infos[i].code = code /\ Hfi!InfoOf(infos, code) = infos[i]
<1> DEFINE S == {i \in 1 .. m : infos[i].code = code}
<1>1. S \in SUBSET (0 .. m) /\ S # {} /\ S = {i \in DOMAIN infos : infos[i].code = code}
  OBVIOUS
<1>2. \A i \in S : i \in 1 .. m /\ infos[i].code = code
  OBVIOUS
<1> HIDE DEF S
<1>3. Hfi!Greatest(S) \in S
  BY <1>1, EndsOfNumbers
<1>4. Hfi!InfoOf(infos, code) = infos[Hfi!Greatest(S)]
  BY <1>1 DEF Hfi!InfoOf
<1> QED
  BY <1>2, <1>3, <1>4

(* The daily of a raw one.                                                 *)
IsDailyOf(daily, raw, f, codes) ==
  /\ daily \in PrepDailies(codes) /\ daily.code = raw.code /\ daily.day = raw.day
  /\ daily.intensity_group # None <=> Hfi!PredictionOfDaily(f, raw.x) # Hfi!NoPrediction

(* A daily that is not an error is that of its raw one.                    *)
LEMMA DailyOfRaw ==
  ASSUME Apart, NEW codes, NEW raw, raw.code \in codes, raw.day \in Int, raw.complete \in BOOLEAN,
         NEW f \in Hfi!FuelTypeEnum, raw.x \in FuelInputs(f),
         Hfi!generate_station_daily(raw, f) \notin Hfi!Errors
  PROVE  IsDailyOf(Hfi!generate_station_daily(raw, f), raw, f, codes)
<1> DEFINE p == Hfi!PredictionOfDaily(f, raw.x)
           daily == [code |-> raw.code, day |-> raw.day, complete |-> raw.complete,
                     intensity_group |-> p.intensity_group]
<1>1. DailyIsPredicted(p, f, raw.x)
  BY DailiesArePredicted
<1> HIDE DEF p
<1>2. Hfi!generate_station_daily(raw, f) = Hfi!Unless(<<p>>, daily)
  BY DEF Hfi!generate_station_daily, Hfi!StationDaily, p
<1>3. p \notin Hfi!Errors
  <2> SUFFICES ASSUME p \in Hfi!Errors PROVE FALSE
    OBVIOUS
  <2>1. <<p>> \in Seq({p}) /\ 1 \in DOMAIN <<p>> /\ <<p>>[1] = p /\ \A j \in 1 .. 1 - 1 : <<p>>[j] \notin Hfi!Errors
    OBVIOUS
  <2>2. Hfi!Unless(<<p>>, daily) = p
    <3> DEFINE calls == <<p>>
    <3>1. calls \in Seq({p}) /\ 1 \in DOMAIN calls /\ calls[1] = p /\ \A j \in 1 .. 1 - 1 : calls[j] \notin Hfi!Errors
      BY <2>1
    <3> HIDE DEF calls, daily
    <3>2. Hfi!Unless(calls, daily) = p
      BY <3>1, FirstError
    <3> QED
      BY <3>2 DEF calls
  <2> QED
    BY <1>2, <2>2
<1>4. Hfi!generate_station_daily(raw, f) = daily
  <2>1. \A i \in DOMAIN <<p>> : <<p>>[i] \notin Hfi!Errors
    BY <1>3
  <2> HIDE DEF daily
  <2> QED
    BY <1>2, <2>1, NoError
<1>5. Hfi!NoPrediction.intensity_group = None
  BY DEF Hfi!NoPrediction, Hfi!FireBehaviourPrediction
<1>6. p = Hfi!NoPrediction \/ (p # Hfi!NoPrediction /\ p.intensity_group \in 1 .. 5 /\ p.intensity_group # None)
  <2>1. CASE p = OtherError
    BY <1>3, <2>1 DEF Hfi!Errors
  <2>2. CASE p.intensity_group \in 1 .. 5
    <3>1. p.intensity_group # None
      BY <2>2, AreNumbers
    <3> QED
      BY <1>5, <2>2, <3>1
  <2> QED
    BY <1>1, <2>1, <2>2 DEF DailyIsPredicted, HasAllParts
<1>7. p.intensity_group \in (1 .. 5) \union {None} /\ (p.intensity_group # None <=> p # Hfi!NoPrediction)
  BY <1>5, <1>6
<1> QED
  BY <1>4, <1>7 DEF IsDailyOf, PrepDailies, p

(* The dailies of the selected stations of a planning area, one of each    *)
(* raw daily.                                                              *)
AreDailies(dailies, k, at, raws, n, infos, m, codes) ==
  /\ k \in Nat /\ dailies \in [1 .. k -> PrepDailies(codes)]
  /\ \A i \in 1 .. k : /\ at[i] \in 1 .. n
                       /\ \E j \in 1 .. m : infos[j].code = raws[at[i]].code /\ infos[j].selected
                       /\ IsDailyOf(dailies[i], raws[at[i]], Hfi!InfoOf(infos, raws[at[i]].code).fuel, codes)
  /\ \A r \in 1 .. n : (\E j \in 1 .. m : infos[j].code = raws[r].code /\ infos[j].selected) =>
                         \E i \in 1 .. k : at[i] = r
  /\ \A i, j \in 1 .. k : at[i] = at[j] => i = j

(* The dailies of an area are these, if none is an error.                  *)
LEMMA DailiesOfArea ==
  ASSUME Apart, NEW raws, NEW n, NEW infos, NEW m, NEW known, PrepInputs(raws, n, infos, m, known),
         NEW dailies, dailies = Hfi!calculate_station_dailies(raws, infos),
         \A i \in DOMAIN dailies : dailies[i] \notin Hfi!Errors
  PROVE  \E k, at : AreDailies(dailies, k, at, raws, n, infos, m, known)
<1> DEFINE D == {r \in 1 .. n : \E j \in 1 .. m : infos[j].code = raws[r].code /\ infos[j].selected}
           its == Kept(raws, D)
           at == InTurn(D)
           k == Cardinality(D)
           fuel(r) == Hfi!InfoOf(infos, raws[r].code).fuel
<1>1. /\ n \in Nat /\ DOMAIN raws = 1 .. n /\ m \in Nat /\ DOMAIN infos = 1 .. m
      /\ \A i \in 1 .. m : infos[i].fuel \in Hfi!FuelTypeEnum
      /\ \A r \in 1 .. n : raws[r].code \in known /\ raws[r].day \in Int /\ raws[r].complete \in BOOLEAN
      /\ \A r \in 1 .. n, i \in 1 .. m : infos[i].code = raws[r].code => raws[r].x \in FuelInputs(infos[i].fuel)
  BY DEF PrepInputs
<1>2. dailies = [i \in DOMAIN its |-> Hfi!generate_station_daily(its[i], Hfi!InfoOf(infos, its[i].code).fuel)]
  <2>1. D = {r \in DOMAIN raws : \E i \in DOMAIN infos : infos[i].code = raws[r].code /\ infos[i].selected}
    BY <1>1
  <2> HIDE DEF D
  <2> QED
    BY <2>1, ListsOfResults DEF Hfi!calculate_station_dailies
<1>3. ASSUME NEW r \in D
      PROVE  fuel(r) \in Hfi!FuelTypeEnum /\ raws[r].x \in FuelInputs(fuel(r))
  <2>1. PICK i \in 1 .. m : infos[i].code = raws[r].code /\ Hfi!InfoOf(infos, raws[r].code) = infos[i]
    BY <1>1, InfoIsOne
  <2> QED
    BY <1>1, <2>1
<1>4. \A r \in 1 .. n : r \in D <=> \E j \in 1 .. m : infos[j].code = raws[r].code /\ infos[j].selected
  OBVIOUS
<1>5. D \in SUBSET (1 .. n) /\ D \in SUBSET Int /\ IsFiniteSet(D)
  <2>1. D \in SUBSET (1 .. n)
    OBVIOUS
  <2> HIDE DEF D
  <2> QED
    BY <1>1, <2>1, AllOfThem
<1> HIDE DEF D, fuel
<1>6. IsKept(its, raws, D)
  BY <1>5, KeptLists
<1> HIDE DEF its, at, k
<1>7. /\ k \in Nat /\ DOMAIN its = 1 .. k
      /\ \A i \in 1 .. k : at[i] \in D /\ its[i] = raws[at[i]]
      /\ \A i, j \in 1 .. k : i < j <=> at[i] < at[j]
      /\ \A r \in D : \E i \in 1 .. k : at[i] = r
  BY <1>6 DEF IsKept, at, k
<1>8. /\ DOMAIN dailies = 1 .. k
      /\ \A i \in 1 .. k : dailies[i] = Hfi!generate_station_daily(raws[at[i]], fuel(at[i]))
  BY <1>2, <1>7 DEF fuel
<1>9. ASSUME NEW i \in 1 .. k PROVE IsDailyOf(dailies[i], raws[at[i]], fuel(at[i]), known)
  <2>1. at[i] \in D /\ at[i] \in 1 .. n
    BY <1>5, <1>7
  <2>2. /\ raws[at[i]].code \in known /\ raws[at[i]].day \in Int /\ raws[at[i]].complete \in BOOLEAN
        /\ fuel(at[i]) \in Hfi!FuelTypeEnum /\ raws[at[i]].x \in FuelInputs(fuel(at[i]))
    BY <1>1, <1>3, <2>1
  <2>3. dailies[i] = Hfi!generate_station_daily(raws[at[i]], fuel(at[i])) /\ dailies[i] \notin Hfi!Errors
    BY <1>8
  <2> QED
    BY <2>2, <2>3, DailyOfRaw
<1>10. dailies \in [1 .. k -> PrepDailies(known)]
  <2>1. \A i \in 1 .. k : dailies[i] \in PrepDailies(known)
    BY <1>9 DEF IsDailyOf
  <2>2. dailies = [i \in 1 .. k |-> dailies[i]]
    BY <1>2, <1>8
  <2> QED
    BY <2>1, <2>2
<1>11. \A i, j \in 1 .. k : at[i] = at[j] => i = j
  <2> SUFFICES ASSUME NEW i \in 1 .. k, NEW j \in 1 .. k, at[i] = at[j] PROVE i = j
    OBVIOUS
  <2>1. at[i] \in Int
    BY <1>5, <1>7
  <2>2. ~(i < j) /\ ~(j < i)
    BY <1>7, <2>1
  <2>3. i \in Int /\ j \in Int
    BY <1>7
  <2> QED
    BY <2>2, <2>3
<1>12. AreDailies(dailies, k, at, raws, n, infos, m, known)
  <2>1. ASSUME NEW i \in 1 .. k
        PROVE  /\ at[i] \in 1 .. n
               /\ \E j \in 1 .. m : infos[j].code = raws[at[i]].code /\ infos[j].selected
               /\ IsDailyOf(dailies[i], raws[at[i]], Hfi!InfoOf(infos, raws[at[i]].code).fuel, known)
    BY <1>4, <1>5, <1>7, <1>9 DEF fuel
  <2>2. ASSUME NEW r \in 1 .. n, \E j \in 1 .. m : infos[j].code = raws[r].code /\ infos[j].selected
        PROVE  \E i \in 1 .. k : at[i] = r
    BY <1>4, <1>7, <2>2
  <2> QED
    BY <1>7, <1>10, <1>11, <2>1, <2>2 DEF AreDailies
<1> QED
  BY <1>12

(* The stations of a planning area that its results need: those that are   *)
(* selected and that WF1 knows.                                            *)
CodesOfArea(infos, m, known) ==
  {infos[i].code : i \in {j \in 1 .. m : infos[j].selected}} \intersect known

(* They are finitely many.                                                 *)
LEMMA CodesAreSome ==
  ASSUME NEW m \in Nat, NEW infos, NEW known
  PROVE  /\ IsFiniteSet(CodesOfArea(infos, m, known)) /\ Cardinality(CodesOfArea(infos, m, known)) \in Nat
         /\ \A c : c \in CodesOfArea(infos, m, known) <=>
              c \in known /\ \E j \in 1 .. m : infos[j].code = c /\ infos[j].selected
<1> DEFINE J == {j \in 1 .. m : infos[j].selected}
           C == {infos[i].code : i \in J}
<1>1. IsFiniteSet(J)
  <2>1. J \in SUBSET (1 .. m)
    OBVIOUS
  <2> HIDE DEF J
  <2> QED
    BY <2>1, AllOfThem
<1>2. IsFiniteSet(C)
  <2> DEFINE f == [i \in J |-> infos[i].code]
  <2>1. f \in [J -> C] /\ \A c \in C : \E i \in J : f[i] = c
    OBVIOUS
  <2> HIDE DEF f, J, C
  <2>2. f \in Surjection(J, C)
    BY <2>1 DEF Surjection
  <2> QED
    BY <1>1, <2>2, FS_Surjection
<1>3. \A c : c \in C <=> \E j \in 1 .. m : infos[j].code = c /\ infos[j].selected
  OBVIOUS
<1>4. CodesOfArea(infos, m, known) = C \intersect known
  BY DEF CodesOfArea
<1> HIDE DEF C
<1>5. IsFiniteSet(C \intersect known)
  <2>1. C \intersect known \in SUBSET C
    OBVIOUS
  <2> QED
    BY <1>2, <2>1, FS_Subset
<1>6. Cardinality(C \intersect known) \in Nat
  BY <1>5, FS_CardinalityType
<1> QED
  BY <1>3, <1>4, <1>5, <1>6

(* The dailies of a day, one of a station, and what their mean says.       *)
DayIsMeant(mean, its, d, raws, n, infos, codes) ==
  /\ mean # None <=>
       /\ codes # {}
       /\ \A c \in codes : \E r \in 1 .. n :
            /\ raws[r].code = c /\ raws[r].day = d
            /\ Hfi!PredictionOfDaily(Hfi!InfoOf(infos, c).fuel, raws[r].x) # Hfi!NoPrediction
  /\ mean # None => /\ mean \in 1 .. 5
                    /\ Hfi!Least({its[i].intensity_group : i \in DOMAIN its}) <= mean
                    /\ mean <= Hfi!Greatest({its[i].intensity_group : i \in DOMAIN its})

(* The mean of a day is such a mean.                                       *)
LEMMA DayOfArea ==
  ASSUME Apart, NEW raws, NEW n, NEW infos, NEW m, NEW known, PrepInputs(raws, n, infos, m, known),
         NEW dailies, NEW k, NEW at, AreDailies(dailies, k, at, raws, n, infos, m, known),
         NEW d \in Int, NEW codes, codes = CodesOfArea(infos, m, known)
  PROVE  LET its == Hfi!get_prep_day_dailies(d, dailies)
         IN DayIsMeant(Hfi!calculate_mean_intensity(its, Hfi!Cardinality(codes)), its, d, raws, n, infos, codes)
<1> DEFINE E == {i \in 1 .. k : dailies[i].day = d}
           its == Kept(dailies, E)
           e == Cardinality(E)
           C == {dailies[i].code : i \in E}
           count == Cardinality(codes)
           mean == Hfi!calculate_mean_intensity(its, count)
           Burns(r) == Hfi!PredictionOfDaily(Hfi!InfoOf(infos, raws[r].code).fuel, raws[r].x) # Hfi!NoPrediction
<1>1. /\ k \in Nat /\ dailies \in [1 .. k -> PrepDailies(known)]
      /\ \A i \in 1 .. k : /\ at[i] \in 1 .. n
                           /\ \E j \in 1 .. m : infos[j].code = raws[at[i]].code /\ infos[j].selected
                           /\ IsDailyOf(dailies[i], raws[at[i]], Hfi!InfoOf(infos, raws[at[i]].code).fuel, known)
      /\ \A r \in 1 .. n : (\E j \in 1 .. m : infos[j].code = raws[r].code /\ infos[j].selected) =>
                             \E i \in 1 .. k : at[i] = r
      /\ \A i, j \in 1 .. k : at[i] = at[j] => i = j
  BY DEF AreDailies
<1>2. /\ n \in Nat /\ m \in Nat /\ \A r \in 1 .. n : raws[r].code \in known
      /\ \A r, q \in 1 .. n : raws[r].code = raws[q].code /\ raws[r].day = raws[q].day => r = q
  BY DEF PrepInputs
<1>3. /\ IsFiniteSet(codes) /\ count \in Nat
      /\ \A c : c \in codes <=> c \in known /\ \E j \in 1 .. m : infos[j].code = c /\ infos[j].selected
  BY <1>2, CodesAreSome
<1>4. \A i \in 1 .. k : /\ at[i] \in 1 .. n /\ dailies[i].code = raws[at[i]].code /\ dailies[i].day = raws[at[i]].day
                        /\ dailies[i].intensity_group # None <=> Burns(at[i])
                        /\ dailies[i].code \in codes
  <2> SUFFICES ASSUME NEW i \in 1 .. k
               PROVE  /\ at[i] \in 1 .. n /\ dailies[i].code = raws[at[i]].code /\ dailies[i].day = raws[at[i]].day
                      /\ dailies[i].intensity_group # None <=> Burns(at[i])
                      /\ dailies[i].code \in codes
    OBVIOUS
  <2>1. IsDailyOf(dailies[i], raws[at[i]], Hfi!InfoOf(infos, raws[at[i]].code).fuel, known)
    BY <1>1
  <2>2. at[i] \in 1 .. n /\ \E j \in 1 .. m : infos[j].code = raws[at[i]].code /\ infos[j].selected
    BY <1>1
  <2> QED
    BY <1>2, <1>3, <2>1, <2>2 DEF IsDailyOf
<1> HIDE DEF Burns
<1>5. Hfi!get_prep_day_dailies(d, dailies) = its /\ Hfi!Cardinality(codes) = count
  <2>1. DOMAIN dailies = 1 .. k
    BY <1>1
  <2>2. {i \in DOMAIN dailies : dailies[i].day = d} = E
    BY <2>1
  <2> HIDE DEF E
  <2> QED
    BY <2>2, ListsOfResults DEF Hfi!get_prep_day_dailies
<1>6. E \in SUBSET (1 .. k) /\ E \in SUBSET Int /\ IsFiniteSet(E) /\ e \in Nat
  <2>1. E \in SUBSET (1 .. k)
    OBVIOUS
  <2> HIDE DEF E
  <2> QED
    BY <1>1, <2>1, AllOfThem
<1>7. \A i \in 1 .. k : i \in E <=> dailies[i].day = d
  OBVIOUS
<1>8. C \in SUBSET codes
  BY <1>4, <1>6
<1>9. \A c \in C : \E i \in E : dailies[i].code = c
  OBVIOUS
<1>10. \A i \in E : dailies[i].code \in C
  OBVIOUS
<1> HIDE DEF E
<1>11. Cardinality(C) = e /\ IsFiniteSet(C)
  <2> DEFINE f == [i \in E |-> dailies[i].code]
  <2>1. ASSUME NEW i \in E, NEW j \in E, f[i] = f[j] PROVE i = j
    <3>1. i \in 1 .. k /\ j \in 1 .. k /\ dailies[i].day = d /\ dailies[j].day = d
      BY <1>6, <1>7
    <3>2. raws[at[i]].code = raws[at[j]].code /\ raws[at[i]].day = raws[at[j]].day
      BY <1>4, <2>1, <3>1
    <3>3. at[i] \in 1 .. n /\ at[j] \in 1 .. n
      BY <1>4, <3>1
    <3>4. at[i] = at[j]
      BY <1>2, <3>2, <3>3
    <3> QED
      BY <1>1, <3>1, <3>4
  <2>2. f \in [E -> C] /\ \A c \in C : \E i \in E : f[i] = c
    BY <1>9, <1>10
  <2> HIDE DEF f, C
  <2>3. f \in Bijection(E, C)
    BY <2>1, <2>2 DEF Bijection, Injection, Surjection, IsInjective
  <2>4. ExistsBijection(E, C)
    BY <2>3 DEF ExistsBijection
  <2> QED
    BY <1>6, <2>4, FS_Bijection
<1>12. e = count <=> C = codes
  <2> HIDE DEF C, e, count
  <2> QED
    BY <1>3, <1>8, <1>11, FS_Subset DEF count
<1>13. /\ its \in [1 .. e -> PrepDailies(known)]
       /\ \A i \in 1 .. e : \E j \in E : its[i] = dailies[j]
       /\ \A j \in E : \E i \in 1 .. e : its[i] = dailies[j]
  <2>1. IsKept(its, dailies, E)
    <3> HIDE DEF its
    <3> QED
      BY <1>6, KeptLists DEF its
  <2>2. /\ \A i \in 1 .. e : InTurn(E)[i] \in E /\ its[i] = dailies[InTurn(E)[i]]
        /\ \A j \in E : \E i \in 1 .. e : InTurn(E)[i] = j
        /\ DOMAIN its = 1 .. e
    <3> HIDE DEF its
    <3> QED
      BY <2>1 DEF IsKept
  <2>3. \A i \in 1 .. e : its[i] \in PrepDailies(known)
    <3> HIDE DEF its, C, mean, count
    <3> SUFFICES ASSUME NEW i \in 1 .. e PROVE its[i] \in PrepDailies(known)
      OBVIOUS
    <3>1. InTurn(E)[i] \in 1 .. k /\ its[i] = dailies[InTurn(E)[i]]
      BY <1>6, <2>2
    <3> QED
      BY <1>1, <3>1
  <2>4. its = [i \in 1 .. e |-> its[i]]
    BY DEF Kept
  <2> HIDE DEF its
  <2>5. its \in [1 .. e -> PrepDailies(known)]
    BY <2>3, <2>4, Zenon
  <2> QED
    BY <2>2, <2>5
<1> HIDE DEF its, e, C, count
<1>14. MeanOfGroups(mean, its, e, count)
  BY <1>3, <1>6, <1>13, MeanIsBetween DEF e, mean
<1> HIDE DEF mean
<1>15. mean # None <=> e = count /\ e # 0 /\ \A j \in E : dailies[j].intensity_group # None
  BY <1>13, <1>14 DEF MeanOfGroups
<1>16. e # 0 <=> C # {}
  BY <1>6, <1>9, <1>10, FS_EmptySet DEF e
<1> DEFINE Complete == \A c \in codes : \E r \in 1 .. n :
                         /\ raws[r].code = c /\ raws[r].day = d
                         /\ Hfi!PredictionOfDaily(Hfi!InfoOf(infos, c).fuel, raws[r].x) # Hfi!NoPrediction
<1>17. ASSUME mean # None PROVE codes # {} /\ Complete
  <2>1. C = codes /\ C # {} /\ \A j \in E : dailies[j].intensity_group # None
    BY <1>12, <1>15, <1>16, <1>17
  <2>2. ASSUME NEW c \in codes
        PROVE  \E r \in 1 .. n :
                 /\ raws[r].code = c /\ raws[r].day = d
                 /\ Hfi!PredictionOfDaily(Hfi!InfoOf(infos, c).fuel, raws[r].x) # Hfi!NoPrediction
    <3>1. PICK i \in E : dailies[i].code = c
      BY <1>9, <2>1
    <3>2. i \in 1 .. k /\ dailies[i].day = d /\ Burns(at[i])
      BY <1>4, <1>6, <1>7, <2>1
    <3>3. at[i] \in 1 .. n /\ raws[at[i]].code = c /\ raws[at[i]].day = d
      BY <1>4, <3>1, <3>2
    <3> QED
      BY <3>2, <3>3 DEF Burns
  <2> QED
    BY <2>1, <2>2
<1>18. ASSUME codes # {}, Complete PROVE mean # None
  <2>1. ASSUME NEW c \in codes PROVE \E i \in E : dailies[i].code = c /\ dailies[i].intensity_group # None
    <3>1. PICK r \in 1 .. n : /\ raws[r].code = c /\ raws[r].day = d
                              /\ Hfi!PredictionOfDaily(Hfi!InfoOf(infos, c).fuel, raws[r].x) # Hfi!NoPrediction
      BY <1>18
    <3>2. PICK i \in 1 .. k : at[i] = r
      BY <1>1, <1>3, <3>1
    <3>3. Burns(at[i]) /\ dailies[i].code = c /\ dailies[i].day = d
      BY <1>4, <3>1, <3>2 DEF Burns
    <3> QED
      BY <1>4, <1>7, <3>2, <3>3
  <2>2. C = codes
    BY <1>8, <1>10, <2>1
  <2>3. ASSUME NEW j \in E PROVE dailies[j].intensity_group # None
    <3>1. PICK i \in E : dailies[i].code = dailies[j].code /\ dailies[i].intensity_group # None
      BY <1>8, <1>10, <2>1
    <3>2. i \in 1 .. k /\ j \in 1 .. k /\ dailies[i].day = d /\ dailies[j].day = d
      BY <1>6, <1>7
    <3>3. raws[at[i]].code = raws[at[j]].code /\ raws[at[i]].day = raws[at[j]].day
      BY <1>4, <3>1, <3>2
    <3>4. at[i] \in 1 .. n /\ at[j] \in 1 .. n
      BY <1>4, <3>2
    <3>5. at[i] = at[j]
      BY <1>2, <3>3, <3>4
    <3>6. i = j
      BY <1>1, <3>2, <3>5
    <3> QED
      BY <3>1, <3>6
  <2> QED
    BY <1>12, <1>15, <1>16, <1>18, <2>2, <2>3
<1>19. mean # None => /\ mean \in 1 .. 5
                      /\ Hfi!Least({its[i].intensity_group : i \in DOMAIN its}) <= mean
                      /\ mean <= Hfi!Greatest({its[i].intensity_group : i \in DOMAIN its})
  <2>1. DOMAIN its = 1 .. e
    BY <1>13
  <2> QED
    BY <1>14, <2>1 DEF MeanOfGroups
<1>20. DayIsMeant(mean, its, d, raws, n, infos, codes)
  BY <1>17, <1>18, <1>19 DEF DayIsMeant
<1> QED
  BY <1>5, <1>20 DEF mean

(* The elements of a list that is kept.                                    *)
LEMMA KeptElements ==
  ASSUME NEW s, NEW D \in SUBSET Int, IsFiniteSet(D)
  PROVE  Hfi!ToSet(Kept(s, D)) = {s[i] : i \in D}
<1> DEFINE t == Kept(s, D)
<1>1. IsKept(t, s, D)
  BY KeptLists
<1> HIDE DEF t
<1>2. /\ DOMAIN t = 1 .. Cardinality(D)
      /\ \A k \in 1 .. Cardinality(D) : InTurn(D)[k] \in D /\ t[k] = s[InTurn(D)[k]]
      /\ \A i \in D : \E k \in 1 .. Cardinality(D) : InTurn(D)[k] = i
  BY <1>1 DEF IsKept
<1>3. \A x : x \in Hfi!ToSet(t) <=> \E k \in 1 .. Cardinality(D) : t[k] = x
  BY <1>2 DEF Hfi!ToSet
<1> DEFINE E == {s[i] : i \in D}
<1>4. \A x : x \in E <=> \E i \in D : s[i] = x
  OBVIOUS
<1> HIDE DEF E
<1>5. \A x : x \in Hfi!ToSet(t) <=> x \in E
  <2>1. ASSUME NEW x, x \in Hfi!ToSet(t) PROVE x \in E
    BY <1>2, <1>3, <1>4, <2>1
  <2>2. ASSUME NEW x, x \in E PROVE x \in Hfi!ToSet(t)
    <3>1. PICK i \in D : s[i] = x
      BY <1>4, <2>2
    <3>2. PICK k \in 1 .. Cardinality(D) : InTurn(D)[k] = i
      BY <1>2
    <3> QED
      BY <1>2, <1>3, <3>1, <3>2
  <2> QED
    BY <2>1, <2>2
<1> QED
  BY <1>5 DEF t, E

(* What the parts of an answer for a planning area are, if it is one.      *)
AnswerOf(result, dailies, days, starts, lookup, count) ==
  /\ \A i \in DOMAIN dailies : dailies[i] \notin Hfi!Errors
  /\ DOMAIN result.daily_results = 1 .. days
  /\ \A d \in 1 .. days :
       LET its == Hfi!get_prep_day_dailies(d, dailies)
           group == Hfi!calculate_mean_intensity(its, count)
           level == Hfi!calculate_prep_level(group, starts[d], lookup)
       IN /\ result.daily_results[d].dailies = its
          /\ result.daily_results[d].mean_intensity_group = group
          /\ result.daily_results[d].prep_level = level
          /\ level # OtherError
  /\ result.mean_prep_level =
       Hfi!calculate_mean_prep_level([d \in 1 .. days |-> result.daily_results[d].prep_level], days)

(* An answer that is no error has these parts.                             *)
LEMMA AreasAnswer ==
  ASSUME NEW infos, NEW m, DOMAIN infos = 1 .. m, NEW known, NEW days, NEW starts, NEW lookup, NEW dailies,
         NEW result, result = Hfi!ResultOfDailies(dailies, infos, known, days, starts, lookup), result # OtherError
  PROVE  AnswerOf(result, dailies, days, starts, lookup, Hfi!Cardinality(CodesOfArea(infos, m, known)))
<1> DEFINE count == Hfi!Cardinality(CodesOfArea(infos, m, known))
           its(d) == Hfi!get_prep_day_dailies(d, dailies)
           group(d) == Hfi!calculate_mean_intensity(its(d), count)
           level(d) == Hfi!calculate_prep_level(group(d), starts[d], lookup)
           days_ == Hfi!calculate_daily_results(days, dailies, starts, lookup, count)
           levels == [d \in 1 .. days |-> days_[d].prep_level]
<1>1. count = Hfi!Cardinality({infos[i].code : i \in {j \in DOMAIN infos : infos[j].selected}} \intersect known)
  BY DEF CodesOfArea
<1> HIDE DEF count
<1>2. /\ \A i \in DOMAIN dailies : dailies[i] \notin Hfi!Errors
      /\ result = Hfi!PlanningAreaResult(days, days_)
  <2> HIDE DEF days_
  <2>1. result = IF \E i \in DOMAIN dailies : dailies[i] \in Hfi!Errors THEN OtherError
                 ELSE Hfi!PlanningAreaResult(days, days_)
    BY <1>1 DEF Hfi!ResultOfDailies, days_
  <2> QED
    BY <2>1
<1>3. /\ DOMAIN days_ = 1 .. days
      /\ \A d \in 1 .. days : /\ days_[d].dailies = its(d) /\ days_[d].mean_intensity_group = group(d)
                              /\ days_[d].prep_level = level(d)
  <2> HIDE DEF group, its, level
  <2>1. days_ = [d \in 1 .. days |->
                   [date |-> d, dailies |-> its(d), fire_starts |-> starts[d], mean_intensity_group |-> group(d),
                    prep_level |-> level(d),
                    all_dailies_valid |-> \A i \in DOMAIN its(d) : Hfi!validate_station_daily(its(d)[i])]]
    BY DEF Hfi!calculate_daily_results, its, group, level
  <2> HIDE DEF days_
  <2> QED
    BY <2>1
<1> HIDE DEF days_, its, group, level
<1>4. /\ \A d \in 1 .. days : days_[d].prep_level # OtherError
      /\ result.mean_prep_level = Hfi!calculate_mean_prep_level(levels, days)
      /\ result.daily_results = days_
  <2>1. result = IF \E d \in 1 .. days : levels[d] = OtherError THEN OtherError
                 ELSE [all_dailies_valid |-> days_[days].all_dailies_valid,
                       highest_daily_intensity_group |->
                         Hfi!calculate_max_intensity_group([d \in 1 .. days |-> days_[d].mean_intensity_group]),
                       mean_prep_level |-> Hfi!calculate_mean_prep_level(levels, days),
                       daily_results |-> days_]
    BY <1>2 DEF Hfi!PlanningAreaResult
  <2>2. \A d \in 1 .. days : levels[d] = days_[d].prep_level
    OBVIOUS
  <2> HIDE DEF levels
  <2> QED
    BY <2>1, <2>2
<1> QED
  BY <1>2, <1>3, <1>4 DEF AnswerOf, count, its, group, level

(* The levels of the table of the database: for a number of fire starts    *)
(* one of each intensity group.                                            *)
IsLookup(lookup, top) == top \in Nat /\ \A s \in DOMAIN lookup : lookup[s] \in [1 .. 5 -> 1 .. top]

(* Whether each station of an area has what its results need on a day.     *)
IsComplete(d, raws, n, infos, codes) ==
  \A c \in codes : \E r \in 1 .. n :
    /\ raws[r].code = c /\ raws[r].day = d
    /\ Hfi!PredictionOfDaily(Hfi!InfoOf(infos, c).fuel, raws[r].x) # Hfi!NoPrediction

(* The results of a planning area are whole.                               *)
LEMMA AreaIsWhole ==
  ASSUME Apart, NEW raws, NEW n, NEW infos, NEW m, NEW known, PrepInputs(raws, n, infos, m, known),
         NEW days \in Nat, days > 0, NEW starts, NEW lookup, NEW top, IsLookup(lookup, top),
         NEW result,
         result = Hfi!ResultOfDailies(Hfi!calculate_station_dailies(raws, infos), infos, known, days, starts, lookup)
  PROVE  Hfi!ResultIsWhole(result, raws, infos, known, days)
<1> DEFINE codes == CodesOfArea(infos, m, known)
           count == Hfi!Cardinality(codes)
           dailies == Hfi!calculate_station_dailies(raws, infos)
           results == result.daily_results
           its(d) == Hfi!get_prep_day_dailies(d, dailies)
           group(d) == Hfi!calculate_mean_intensity(its(d), count)
           levels == [d \in 1 .. days |-> results[d].prep_level]
           mean == result.mean_prep_level
           Complete(d) == IsComplete(d, raws, n, infos, codes)
<1>1. /\ n \in Nat /\ DOMAIN raws = 1 .. n /\ m \in Nat /\ DOMAIN infos = 1 .. m
  BY DEF PrepInputs
<1> SUFFICES ASSUME result \notin Hfi!Errors PROVE Hfi!ResultIsWhole(result, raws, infos, known, days)
  BY DEF Hfi!ResultIsWhole
<1>2. AnswerOf(result, dailies, days, starts, lookup, count)
  <2>1. result # OtherError
    BY DEF Hfi!Errors
  <2> HIDE DEF dailies
  <2> QED
    BY <1>1, <2>1, AreasAnswer DEF dailies
<1> HIDE DEF dailies
<1>3. /\ \A i \in DOMAIN dailies : dailies[i] \notin Hfi!Errors
      /\ \A d \in 1 .. days :
           /\ results[d].dailies = its(d) /\ results[d].mean_intensity_group = group(d)
           /\ results[d].prep_level = Hfi!calculate_prep_level(group(d), starts[d], lookup)
           /\ results[d].prep_level # OtherError
      /\ mean = Hfi!calculate_mean_prep_level(levels, days)
  BY <1>2 DEF AnswerOf
<1>4. PICK k, at : AreDailies(dailies, k, at, raws, n, infos, m, known)
  BY <1>3, DailiesOfArea DEF dailies
<1>5. ASSUME NEW d \in 1 .. days PROVE DayIsMeant(group(d), its(d), d, raws, n, infos, codes)
  <2>1. d \in Int
    OBVIOUS
  <2> QED
    BY <1>4, <2>1, DayOfArea
<1> HIDE DEF codes, count, results, mean, its, group
<1>6. \A d \in 1 .. days : /\ group(d) # None <=> codes # {} /\ Complete(d)
                           /\ group(d) # None => group(d) \in 1 .. 5
  BY <1>5 DEF DayIsMeant, IsComplete
<1> HIDE DEF Complete
<1>7. /\ top \in Nat
      /\ \A d \in 1 .. days : /\ levels[d] \in (1 .. top) \union {None}
                              /\ levels[d] # None <=> codes # {} /\ Complete(d)
  <2> SUFFICES ASSUME NEW d \in 1 .. days
               PROVE  /\ levels[d] \in (1 .. top) \union {None}
                      /\ levels[d] # None <=> codes # {} /\ Complete(d)
    BY DEF IsLookup
  <2>1. levels[d] = Hfi!calculate_prep_level(group(d), starts[d], lookup) /\ levels[d] # OtherError
    BY <1>3
  <2>2. CASE group(d) = None
    BY <1>6, <2>1, <2>2 DEF Hfi!calculate_prep_level
  <2>3. CASE group(d) # None
    <3>1. starts[d] \in DOMAIN lookup /\ levels[d] = lookup[starts[d]][group(d)]
      BY <2>1, <2>3 DEF Hfi!calculate_prep_level
    <3>2. levels[d] \in 1 .. top
      BY <1>6, <2>3, <3>1 DEF IsLookup
    <3> HIDE DEF levels
    <3>3. levels[d] # None
      <4>1. levels[d] \in Int
        BY <3>2
      <4> QED
        BY <4>1, AreNumbers
    <3> QED
      BY <1>6, <2>3, <3>2, <3>3
  <2> QED
    BY <2>2, <2>3
<1>8. levels \in [1 .. days -> (1 .. top) \union {None}]
  BY <1>7
<1>9. {results[d].prep_level : d \in 1 .. days} = {levels[d] : d \in 1 .. days}
  OBVIOUS
<1> HIDE DEF levels
<1>10. MeanOfLevels(mean, levels, days)
  BY <1>3, <1>7, <1>8, LevelIsBetween
<1>11. mean # None <=> codes # {} /\ \A d \in 1 .. days : Complete(d)
  <2>1. 1 \in 1 .. days
    OBVIOUS
  <2> QED
    BY <1>7, <1>10, <2>1 DEF MeanOfLevels
<1>12. mean # None => /\ Hfi!Least({results[d].prep_level : d \in 1 .. days}) <= mean
                      /\ mean <= Hfi!Greatest({results[d].prep_level : d \in 1 .. days})
  BY <1>9, <1>10 DEF MeanOfLevels
<1>13. ASSUME NEW d \in 1 .. days, results[d].mean_intensity_group # None
       PROVE  LET groups == {results[d].dailies[i].intensity_group : i \in DOMAIN results[d].dailies}
              IN /\ Hfi!Least(groups) <= results[d].mean_intensity_group
                 /\ results[d].mean_intensity_group <= Hfi!Greatest(groups)
  <2>1. DayIsMeant(group(d), its(d), d, raws, n, infos, codes)
    BY <1>5
  <2>2. results[d].dailies = its(d) /\ results[d].mean_intensity_group = group(d)
    BY <1>3
  <2>3. /\ Hfi!Least({its(d)[i].intensity_group : i \in DOMAIN its(d)}) <= group(d)
        /\ group(d) <= Hfi!Greatest({its(d)[i].intensity_group : i \in DOMAIN its(d)})
    BY <1>13, <2>1, <2>2 DEF DayIsMeant
  <2> QED
    BY <2>2, <2>3
<1>14. codes = {infos[i].code : i \in {j \in DOMAIN infos : infos[j].selected}} \intersect known
  BY <1>1 DEF codes, CodesOfArea
<1>15. \A d \in 1 .. days : Complete(d) <=>
         \A c \in codes : \E i \in DOMAIN raws :
           /\ raws[i].code = c /\ raws[i].day = d
           /\ Hfi!PredictionOfDaily(Hfi!InfoOf(infos, c).fuel, raws[i].x) # Hfi!NoPrediction
  BY <1>1 DEF Complete, IsComplete
<1> QED
  BY <1>11, <1>12, <1>13, <1>14, <1>15 DEF Hfi!ResultIsWhole, results, mean

(* The dailies of all days of a result, one day after the other.           *)
LEMMA DailiesOfDays ==
  ASSUME NEW days \in Nat, NEW result, NEW S, DOMAIN result.daily_results = 1 .. days,
         \A d \in 1 .. days : result.daily_results[d].dailies \in Seq(S)
  PROVE  \A x : x \in Hfi!ToSet(Hfi!get_station_dailies(result)) <=>
           \E d \in 1 .. days : x \in Hfi!ToSet(result.daily_results[d].dailies)
<1> DEFINE results == result.daily_results
           n == days
           g == [x \in Seq(S) \X (1 .. n) |-> x[1] \o results[x[2]].dailies]
           Loop(f) == f = [s \in SUBSET DOMAIN results |->
                             IF s = {} THEN <<>> ELSE f[s \ {LastOf(s)}] \o results[LastOf(s)].dailies]
           iter == CHOOSE f : Loop(f)
<1>1. DOMAIN results = 1 .. n /\ \A k \in 1 .. n : results[k].dailies \in Seq(S)
  OBVIOUS
<1>2. Hfi!get_station_dailies(result) = iter[DOMAIN results]
  BY DEF Hfi!get_station_dailies, Hfi!FoldLeft, Hfi!MapThenFoldSet, Hfi!Max, LastOf
<1> HIDE DEF results
<1>3. \E f : Loop(f) /\ f \in [SUBSET (1 .. n) -> Seq(S)]
  <2>1. g \in [Seq(S) \X (1 .. n) -> Seq(S)]
    BY <1>1
  <2>2. \A c \in Seq(S), k \in 1 .. n : g[<<c, k>>] = c \o results[k].dailies
    OBVIOUS
  <2> HIDE DEF g
  <2>3. PICK f \in [SUBSET (1 .. n) -> Seq(S)] : FoldsUp(f, n, <<>>, g)
    <3>1. n \in Nat /\ <<>> \in Seq(S)
      OBVIOUS
    <3> QED
      BY <2>1, <3>1, FoldExists, Zenon
  <2>4. ASSUME NEW s \in SUBSET (1 .. n), s # {}
        PROVE  f[s] = f[s \ {LastOf(s)}] \o results[LastOf(s)].dailies
    <3>1. LastOf(s) \in 1 .. n /\ s \ {LastOf(s)} \in SUBSET (1 .. n)
      BY <2>4, LastNumber
    <3>2. f[s \ {LastOf(s)}] \in Seq(S)
      BY <2>3, <3>1
    <3> QED
      BY <2>2, <2>3, <2>4, <3>1, <3>2 DEF FoldsUp
  <2>5. f[{}] = <<>>
    BY <2>3 DEF FoldsUp
  <2>6. f = [s \in SUBSET (1 .. n) |-> IF s = {} THEN <<>> ELSE f[s \ {LastOf(s)}] \o results[LastOf(s)].dailies]
    BY <2>3, <2>4, <2>5
  <2> QED
    BY <1>1, <2>3, <2>6
<1>4. Loop(iter)
  <2> HIDE DEF Loop
  <2> QED
    BY <1>3
<1> HIDE DEF iter
<1>5. \A s \in SUBSET (1 .. n) : iter[s] = IF s = {} THEN <<>> ELSE iter[s \ {LastOf(s)}] \o results[LastOf(s)].dailies
  BY <1>1, <1>4
<1> HIDE DEF Loop, g
<1> DEFINE Has(k) == /\ iter[1 .. k] \in Seq(S)
                     /\ \A x : x \in Hfi!ToSet(iter[1 .. k]) <=> \E d \in 1 .. k : x \in Hfi!ToSet(results[d].dailies)
           P == {k \in Nat : k <= n => Has(k)}
<1>6. 0 \in P
  <2>1. 1 .. 0 = {} /\ {} \in SUBSET (1 .. n)
    OBVIOUS
  <2>2. iter[1 .. 0] = <<>>
    BY <1>5, <2>1
  <2>3. Hfi!ToSet(<<>>) = {}
    BY DEF Hfi!ToSet
  <2>4. <<>> \in Seq(S) /\ \A d \in 1 .. 0 : FALSE
    OBVIOUS
  <2> HIDE DEF results
  <2>5. \A x : x \in Hfi!ToSet(iter[1 .. 0]) <=> \E d \in 1 .. 0 : x \in Hfi!ToSet(results[d].dailies)
    BY <2>2, <2>3, <2>4
  <2>6. Has(0)
    BY <2>2, <2>4, <2>5
  <2> HIDE DEF Has
  <2> QED
    BY <2>6
<1>7. ASSUME NEW k \in P PROVE k + 1 \in P
  <2>1. SUFFICES ASSUME k + 1 <= n PROVE Has(k + 1)
    OBVIOUS
  <2>2. k \in Nat /\ Has(k) /\ k + 1 \in 1 .. n /\ 1 .. k + 1 \in SUBSET (1 .. n)
    BY <2>1
  <2>3. 1 .. k + 1 # {} /\ LastOf(1 .. k + 1) = k + 1 /\ (1 .. k + 1) \ {k + 1} = 1 .. k
    BY <2>2, LastOfInterval
  <2>4. iter[1 .. k + 1] = iter[1 .. k] \o results[k + 1].dailies
    BY <1>5, <2>2, <2>3
  <2> DEFINE a == iter[1 .. k]
             b == results[k + 1].dailies
             c == iter[1 .. k + 1]
  <2>5. a \in Seq(S) /\ b \in Seq(S) /\ c = a \o b
    BY <1>1, <2>2, <2>4
  <2>6. \A x : x \in Hfi!ToSet(a) <=> \E d \in 1 .. k : x \in Hfi!ToSet(results[d].dailies)
    BY <2>2
  <2> HIDE DEF a, c, Has
  <2>7. c \in Seq(S) /\ \A x : x \in Hfi!ToSet(c) <=> x \in Hfi!ToSet(a) \/ x \in Hfi!ToSet(b)
    <3> HIDE DEF b
    <3>1. Len(c) = Len(a) + Len(b) /\ Len(a) \in Nat /\ Len(b) \in Nat /\ c \in Seq(S)
      BY <2>5
    <3>2. /\ \A x : x \in Hfi!ToSet(a) <=> \E i \in 1 .. Len(a) : a[i] = x
          /\ \A x : x \in Hfi!ToSet(b) <=> \E i \in 1 .. Len(b) : b[i] = x
          /\ \A x : x \in Hfi!ToSet(c) <=> \E i \in 1 .. Len(c) : c[i] = x
      <4>1. DOMAIN a = 1 .. Len(a) /\ DOMAIN b = 1 .. Len(b) /\ DOMAIN c = 1 .. Len(c)
        BY <2>5, <3>1
      <4> QED
        BY <4>1 DEF Hfi!ToSet
    <3>3. /\ \A i \in 1 .. Len(a) : i \in 1 .. Len(c) /\ c[i] = a[i]
          /\ \A i \in 1 .. Len(b) : i + Len(a) \in 1 .. Len(c) /\ c[i + Len(a)] = b[i]
          /\ \A i \in 1 .. Len(c) : i \in 1 .. Len(a) \/ (i - Len(a) \in 1 .. Len(b) /\ c[i] = b[i - Len(a)])
      BY <2>5, <3>1
    <3>4. ASSUME NEW x, x \in Hfi!ToSet(c) PROVE x \in Hfi!ToSet(a) \/ x \in Hfi!ToSet(b)
      BY <3>2, <3>3, <3>4
    <3>5. ASSUME NEW x, x \in Hfi!ToSet(a) \/ x \in Hfi!ToSet(b) PROVE x \in Hfi!ToSet(c)
      BY <3>2, <3>3, <3>5
    <3> QED
      BY <3>1, <3>4, <3>5
  <2>8. \A d : d \in 1 .. k + 1 <=> d \in 1 .. k \/ d = k + 1
    BY <2>2
  <2>9. \A x : x \in Hfi!ToSet(c) <=> \E d \in 1 .. k + 1 : x \in Hfi!ToSet(results[d].dailies)
    BY <2>6, <2>7, <2>8
  <2> QED
    BY <2>7, <2>9 DEF Has, c
<1> HIDE DEF Has
<1>8. P = Nat
  <2>1. P \in SUBSET Nat
    OBVIOUS
  <2> HIDE DEF P
  <2> QED
    BY <1>6, <1>7, <2>1, AllNumbers
<1>9. Has(n)
  <2>1. n \in P
    BY <1>8
  <2> QED
    BY <2>1
<1> QED
  BY <1>1, <1>2, <1>9 DEF Has, results

(* The elements of the dailies of a day, and of those of some stations.    *)
LEMMA DailiesOfDay ==
  ASSUME NEW k \in Nat, NEW S, NEW dailies \in [1 .. k -> S], NEW d
  PROVE  /\ Hfi!get_prep_day_dailies(d, dailies) \in Seq(S)
         /\ Hfi!ToSet(Hfi!get_prep_day_dailies(d, dailies)) = {dailies[i] : i \in {j \in 1 .. k : dailies[j].day = d}}
<1> DEFINE D == {j \in 1 .. k : dailies[j].day = d}
<1>1. DOMAIN dailies = 1 .. k
  OBVIOUS
<1>2. D \in SUBSET (1 .. k)
  OBVIOUS
<1>3. D = {i \in DOMAIN dailies : dailies[i].day = d}
  BY <1>1
<1>4. \A i \in D : i \in 1 .. k
  BY <1>2
<1> HIDE DEF D
<1>5. Hfi!get_prep_day_dailies(d, dailies) = Kept(dailies, D)
  BY <1>3, ListsOfResults DEF Hfi!get_prep_day_dailies
<1>6. D \in SUBSET Int /\ IsFiniteSet(D)
  BY <1>2, AllOfThem
<1>7. Kept(dailies, D) \in Seq(S) 
  BY <1>2, KeptIsList
<1>8. Hfi!ToSet(Kept(dailies, D)) = {dailies[i] : i \in D}
  BY <1>6, KeptElements
<1> QED
  BY <1>5, <1>7, <1>8 DEF D

(* What is left of dailies are those of the stations that are known.       *)
LEMMA MergedElements ==
  ASSUME NEW S, NEW dailies \in Seq(S), NEW stations
  PROVE  \A x : x \in Hfi!ToSet(Hfi!get_merged_station_data(stations, dailies)) <=>
           x \in Hfi!ToSet(dailies) /\ x.code \in stations
<1> DEFINE k == Len(dailies)
           D == {i \in 1 .. k : dailies[i].code \in stations}
<1>1. k \in Nat /\ DOMAIN dailies = 1 .. k
  OBVIOUS
<1> HIDE DEF k
<1>2. D \in SUBSET (1 .. k) /\ D = {i \in DOMAIN dailies : dailies[i].code \in stations}
  BY <1>1
<1>3. \A i : i \in D <=> i \in DOMAIN dailies /\ dailies[i].code \in stations
  BY <1>1
<1> HIDE DEF D
<1>4. Hfi!get_merged_station_data(stations, dailies) = Kept(dailies, D)
  BY <1>2, ListsOfResults DEF Hfi!get_merged_station_data
<1>5. D \in SUBSET Int /\ IsFiniteSet(D)
  BY <1>1, <1>2, AllOfThem
<1>6. Hfi!ToSet(Kept(dailies, D)) = {dailies[i] : i \in D}
  BY <1>5, KeptElements
<1> QED
  BY <1>3, <1>4, <1>6 DEF Hfi!ToSet

(* The sheet of each day has the dailies of that day.                      *)
LEMMA SheetsOfArea ==
  ASSUME Apart, NEW raws, NEW n, NEW infos, NEW m, NEW known, PrepInputs(raws, n, infos, m, known),
         NEW days \in Nat, NEW starts, NEW lookup, NEW result, NEW stations, result # OtherError,
         result = Hfi!ResultOfDailies(Hfi!calculate_station_dailies(raws, infos), infos, known, days, starts, lookup)
  PROVE  Hfi!SheetsShowTheirDays(result, stations, days)
<1> DEFINE dailies == Hfi!calculate_station_dailies(raws, infos)
           count == Hfi!Cardinality(CodesOfArea(infos, m, known))
           results == result.daily_results
           all == Hfi!get_station_dailies(result)
           S == PrepDailies(known)
<1>1. DOMAIN infos = 1 .. m
  BY DEF PrepInputs
<1>2. AnswerOf(result, dailies, days, starts, lookup, count)
  <2> HIDE DEF dailies
  <2> QED
    BY <1>1, AreasAnswer DEF dailies
<1> HIDE DEF dailies
<1>3. /\ \A i \in DOMAIN dailies : dailies[i] \notin Hfi!Errors
      /\ DOMAIN results = 1 .. days
      /\ \A d \in 1 .. days : results[d].dailies = Hfi!get_prep_day_dailies(d, dailies)
  BY <1>2 DEF AnswerOf
<1>4. PICK k, at : AreDailies(dailies, k, at, raws, n, infos, m, known)
  BY <1>3, DailiesOfArea DEF dailies
<1>5. k \in Nat /\ dailies \in [1 .. k -> S]
  BY <1>4 DEF AreDailies
<1> HIDE DEF S
<1>6. \A d \in 1 .. days : /\ results[d].dailies \in Seq(S)
                           /\ Hfi!ToSet(results[d].dailies) = {dailies[i] : i \in {j \in 1 .. k : dailies[j].day = d}}
  BY <1>3, <1>5, DailiesOfDay
<1>7. \A x : x \in Hfi!ToSet(all) <=> \E d \in 1 .. days : x \in Hfi!ToSet(results[d].dailies)
  BY <1>3, <1>6, DailiesOfDays
<1> HIDE DEF results, all
<1>8. \A d \in 1 .. days : \A x : x \in Hfi!ToSet(results[d].dailies) <=> x.day = d /\ \E i \in 1 .. k : x = dailies[i]
  BY <1>6
<1>9. \A d \in 1 .. days : \A x : x \in Hfi!ToSet(results[d].dailies) <=> x \in Hfi!ToSet(all) /\ x.day = d
  BY <1>7, <1>8
<1>10. ASSUME NEW d \in 1 .. days
       PROVE  Hfi!ToSet(Hfi!DailyTable(result, stations, d).dailies) =
                {r \in Hfi!ToSet(all) : r.day = d /\ r.code \in stations}
  <2>1. Hfi!DailyTable(result, stations, d).dailies = Hfi!get_merged_station_data(stations, results[d].dailies)
    BY DEF Hfi!DailyTable, results
  <2>2. \A x : x \in Hfi!ToSet(Hfi!get_merged_station_data(stations, results[d].dailies)) <=>
                 x \in Hfi!ToSet(results[d].dailies) /\ x.code \in stations
    BY <1>6, MergedElements
  <2> QED
    BY <1>9, <2>1, <2>2
<1> QED
  BY <1>10 DEF Hfi!SheetsShowTheirDays, all

(* The results of a prep period are whole in every planning area, and the  *)
(* daily sheets show the dailies of their days: of any stations, any       *)
(* number of days and any dailies of WF1, one of a station and day.        *)
THEOREM ResultsAreWhole ==
  ASSUME Apart, NEW raws, NEW n, NEW areas, NEW known, NEW days \in Nat, days > 0, NEW starts, NEW lowest,
         NEW lookup, NEW top, IsLookup(lookup, top),
         \A a \in DOMAIN areas : \E m : PrepInputs(raws, n, areas[a], m, known),
         NEW results, results = Hfi!calculate_hfi_results(raws, areas, known, days, starts, lookup, lowest),
         results # OtherError
  PROVE  \A a \in DOMAIN areas :
           /\ Hfi!ResultIsWhole(results[a], raws, areas[a], known, days)
           /\ \A stations : Hfi!SheetsShowTheirDays(results[a], stations, days)
<1> DEFINE result(a) == Hfi!ResultOfDailies(Hfi!calculate_station_dailies(raws, areas[a]), areas[a], known, days,
                                            Hfi!FireStartsOf(starts[a], days, lowest), lookup)
           answers == [a \in DOMAIN areas |-> result(a)]
<1>1. results = Hfi!AllOrError(answers)
  BY DEF Hfi!calculate_hfi_results
<1> HIDE DEF result
<1>2. results = answers /\ \A a \in DOMAIN areas : answers[a] # OtherError
  <2>1. DOMAIN answers = DOMAIN areas
    OBVIOUS
  <2> HIDE DEF answers
  <2> QED
    BY <1>1, <2>1 DEF Hfi!AllOrError
<1> SUFFICES ASSUME NEW a \in DOMAIN areas
             PROVE  /\ Hfi!ResultIsWhole(results[a], raws, areas[a], known, days)
                    /\ \A stations : Hfi!SheetsShowTheirDays(results[a], stations, days)
  OBVIOUS
<1>3. results[a] = result(a) /\ results[a] # OtherError
  BY <1>2
<1>4. PICK m : PrepInputs(raws, n, areas[a], m, known)
  OBVIOUS
<1> HIDE DEF answers
<1>5. Hfi!ResultIsWhole(results[a], raws, areas[a], known, days)
  BY <1>3, <1>4, AreaIsWhole DEF result
<1>6. ASSUME NEW stations PROVE Hfi!SheetsShowTheirDays(results[a], stations, days)
  BY <1>3, <1>4, SheetsOfArea DEF result
<1> QED
  BY <1>5, <1>6

(* A period has one to seven days, those that are asked for if they are as *)
(* few.                                                                    *)
LEMMA PeriodsAreWhole ==
  ASSUME NEW start \in Int \union {None}, NEW end \in Int \union {None}, NEW today \in Int
  PROVE  Hfi!PeriodIsWhole(start, end, today)
<1> DEFINE first == IF start = None THEN today ELSE start
           last == IF end = None THEN first + 4 ELSE end
           until == CASE last - first > 6 -> first + 6 [] last - first < 1 -> first [] OTHER -> last
<1>1. first \in Int /\ last \in Int
  <2>1. first \in Int
    OBVIOUS
  <2> HIDE DEF first
  <2> QED
    BY <2>1
<1>2. Hfi!validate_date_range(start, end, today) = [start_date |-> first, end_date |-> until]
  BY DEF Hfi!validate_date_range
<1>3. end # None => end = last
  OBVIOUS
<1> HIDE DEF first, last
<1>4. /\ until - first + 1 \in 1 .. 7
      /\ last \in first .. first + 6 => until = last
  BY <1>1
<1> HIDE DEF until
<1> QED
  BY <1>2, <1>3, <1>4 DEF Hfi!PeriodIsWhole, Hfi!days_in_range, first

-----------------------------------------------------------------------------
(* A part of a sequence.                                                   *)
LEMMA PartOfSequence ==
  ASSUME NEW S, NEW s \in Seq(S), NEW a \in Nat, NEW b \in Nat, a <= b, b <= Len(s)
  PROVE  LET u == SubSeq(s, a + 1, b)
         IN u \in Seq(S) /\ Len(u) = b - a /\ DOMAIN u = 1 .. b - a /\ \A i \in 1 .. b - a : u[i] = s[a + i]
<1>1. Len(s) \in Nat /\ \A i \in a + 1 .. b : s[i] \in S
  OBVIOUS
<1> DEFINE m == a + 1
           u == SubSeq(s, m, b)
<1>2. /\ u \in Seq(S) /\ Len(u) = IF m <= b THEN b - m + 1 ELSE 0
      /\ \A i \in 1 .. b - m + 1 : u[i] = s[m + i - 1]
  <2>1. m \in Int /\ b \in Int /\ \A i \in m .. b : s[i] \in S
    BY <1>1
  <2> HIDE DEF m
  <2> QED
    BY <2>1, SubSeqProperties
<1> HIDE DEF u
<1>3. Len(u) = b - a /\ b - m + 1 = b - a
  BY <1>2
<1>4. \A i \in 1 .. b - a : m + i - 1 = a + i
  OBVIOUS
<1> HIDE DEF m
<1>5. \A i \in 1 .. b - a : u[i] = s[a + i]
  BY <1>2, <1>3, <1>4
<1>6. DOMAIN u = 1 .. b - a
  BY <1>2, <1>3
<1> QED
  BY <1>2, <1>3, <1>5, <1>6 DEF u, m

(* Two parts, the second of which follows the first.                       *)
LEMMA PartsOfSequence ==
  ASSUME NEW S, NEW s \in Seq(S), NEW a \in Nat, NEW b \in Nat, a <= b, b <= Len(s)
  PROVE  SubSeq(s, a + 1, Len(s)) = SubSeq(s, a + 1, b) \o SubSeq(s, b + 1, Len(s))
<1> DEFINE len == Len(s)
           u == SubSeq(s, a + 1, b)
           v == SubSeq(s, b + 1, len)
           w == SubSeq(s, a + 1, len)
<1>1. len \in Nat /\ a <= len /\ b <= len
  OBVIOUS
<1>2. u \in Seq(S) /\ Len(u) = b - a /\ DOMAIN u = 1 .. b - a /\ \A i \in 1 .. b - a : u[i] = s[a + i]
  BY PartOfSequence
<1>3. v \in Seq(S) /\ Len(v) = len - b /\ DOMAIN v = 1 .. len - b /\ \A i \in 1 .. len - b : v[i] = s[b + i]
  BY <1>1, PartOfSequence
<1>4. w \in Seq(S) /\ Len(w) = len - a /\ DOMAIN w = 1 .. len - a /\ \A i \in 1 .. len - a : w[i] = s[a + i]
  BY <1>1, PartOfSequence
<1> HIDE DEF len, u, v, w
<1>5. /\ Len(u \o v) = len - a /\ u \o v \in Seq(S)
      /\ \A i \in 1 .. Len(u) + Len(v) : (u \o v)[i] = IF i <= Len(u) THEN u[i] ELSE v[i - Len(u)]
  <2>1. /\ Len(u \o v) = Len(u) + Len(v) /\ u \o v \in Seq(S)
        /\ \A i \in 1 .. Len(u) + Len(v) : (u \o v)[i] = IF i <= Len(u) THEN u[i] ELSE v[i - Len(u)]
    BY <1>2, <1>3, ConcatProperties
  <2> QED
    BY <1>1, <1>2, <1>3, <2>1
<1>6. ASSUME NEW i \in 1 .. len - a PROVE (u \o v)[i] = w[i]
  <2>1. CASE i <= b - a
    <3>1. i \in 1 .. Len(u)
      BY <1>1, <1>2, <2>1
    <3>2. (u \o v)[i] = u[i]
      BY <1>1, <1>2, <1>3, <1>5, <3>1
    <3> QED
      BY <1>2, <1>4, <3>1, <3>2
  <2>2. CASE ~(i <= b - a)
    <3> DEFINE j == i - (b - a)
    <3>1. j \in 1 .. len - b /\ b + j = a + i /\ i = Len(u) + j
      BY <1>1, <1>2, <2>2
    <3> HIDE DEF j
    <3>2. (u \o v)[i] = v[j]
      <4>1. i \in 1 .. Len(u) + Len(v) /\ ~(i <= Len(u)) /\ i - Len(u) = j
        BY <1>1, <1>2, <1>3, <2>2, <3>1
      <4> QED
        BY <1>5, <4>1
    <3> QED
      BY <1>3, <1>4, <3>1, <3>2
  <2> QED
    BY <2>1, <2>2
<1>7. DOMAIN (u \o v) = 1 .. len - a /\ u \o v = [i \in 1 .. len - a |-> (u \o v)[i]]
  <2> DEFINE t == u \o v
  <2>1. t \in Seq(S) /\ Len(t) = len - a
    BY <1>5
  <2> HIDE DEF t
  <2>2. DOMAIN t = 1 .. len - a /\ t = [i \in 1 .. len - a |-> t[i]]
    BY <2>1
  <2> QED
    BY <2>2 DEF t
<1>8. w = [i \in 1 .. len - a |-> w[i]]
  BY <1>4
<1>9. u \o v = w
  BY <1>6, <1>7, <1>8
<1> QED
  BY <1>9 DEF u, v, w, len

(* Another page follows exactly when something of the selection is left.   *)
LEMMA AnotherPage ==
  ASSUME NEW len \in Nat, NEW size \in Nat, size > 0, NEW n \in Nat
  PROVE  n + 1 < (len + size - 1) \div size <=> (n + 1) * size < len
<1> DEFINE t == (len + size - 1) \div size
           r == (len + size - 1) % size
<1>1. t \in Int /\ r \in 0 .. size - 1 /\ len + size - 1 = size * t + r
  OBVIOUS
<1> HIDE DEF t, r
<1>2. ASSUME n + 1 < t PROVE (n + 1) * size < len
  <2>1. (n + 2) * size <= t * size
    <3>1. n + 2 <= t /\ n + 2 \in Int
      BY <1>1, <1>2
    <3> QED
      BY <1>1, <3>1
  <2>2. (n + 2) * size = (n + 1) * size + size /\ (n + 1) * size \in Int /\ t * size = size * t /\ size * t \in Int
    BY <1>1
  <2> QED
    BY <1>1, <2>1, <2>2
<1>3. ASSUME t <= n + 1 PROVE len <= (n + 1) * size
  <2>1. t * size <= (n + 1) * size
    BY <1>1, <1>3
  <2>2. (n + 1) * size \in Int /\ t * size = size * t /\ size * t \in Int
    BY <1>1
  <2> QED
    BY <1>1, <2>1, <2>2
<1>4. (n + 1) * size \in Int
  OBVIOUS
<1> QED
  BY <1>1, <1>2, <1>3, <1>4 DEF t

(* The pages of a selection, of any size, are all of it.                   *)
LEMMA PagesMakeTheWhole ==
  ASSUME NEW S, NEW selected \in Seq(S), NEW size \in Nat, size > 0
  PROVE  Determinates!PagesAreWhole(selected, size)
<1> DEFINE len == Len(selected)
           rest(n) == SubSeq(selected, n * size + 1, len)
           page(n) == Determinates!ServedPage(selected, size, n)
           whole == [n \in 0 .. len |-> rest(n)]
           Loop(f) == f = [n \in DOMAIN [k \in 0 .. len |-> selected] |->
                             LET p == Determinates!ServedPage([k \in 0 .. len |-> selected][n], size, n)
                             IN p.content \o (IF n + 1 < p.totalPages THEN f[n + 1] ELSE <<>>)]
           from == CHOOSE f : Loop(f)
<1>1. len \in Nat
  OBVIOUS
<1>2. ASSUME NEW n \in Nat
      PROVE  /\ page(n).totalPages = (len + size - 1) \div size
             /\ n + 1 < page(n).totalPages <=> (n + 1) * size < len
             /\ page(n).content = SubSeq(selected, n * size + 1, IF (n + 1) * size < len THEN (n + 1) * size ELSE len)
  <2>1. page(n).totalPages = (len + size - 1) \div size
    BY DEF Determinates!ServedPage
  <2>2. page(n).content = SubSeq(selected, n * size + 1, IF (n + 1) * size < len THEN (n + 1) * size ELSE len)
    BY DEF Determinates!ServedPage
  <2> QED
    BY <1>1, <2>1, <2>2, AnotherPage
<1>3. ASSUME NEW n \in 0 .. len
      PROVE  /\ n + 1 < page(n).totalPages => n + 1 \in 0 .. len
             /\ rest(n) = page(n).content \o (IF n + 1 < page(n).totalPages THEN rest(n + 1) ELSE <<>>)
  <2> DEFINE a == n * size
             b == (n + 1) * size
  <2>1. a \in Nat /\ b \in Nat /\ b = a + size /\ n \in Nat /\ n + 1 <= b
    <3>1. n \in Nat /\ n + 1 \in Nat
      BY <1>1
    <3>2. a \in Nat /\ b = a + size
      BY <3>1
    <3>3. b >= n + 1
      BY <3>1
    <3> QED
      BY <3>1, <3>2, <3>3
  <2>2. /\ n + 1 < page(n).totalPages <=> b < len
        /\ page(n).content = SubSeq(selected, a + 1, IF b < len THEN b ELSE len)
    BY <1>2, <2>1
  <2>3. rest(n) = SubSeq(selected, a + 1, len) /\ rest(n + 1) = SubSeq(selected, b + 1, len)
    OBVIOUS
  <2> HIDE DEF a, b, page, rest
  <2>4. CASE b < len
    <3>1. SubSeq(selected, a + 1, len) = SubSeq(selected, a + 1, b) \o SubSeq(selected, b + 1, len)
      <4>1. a <= b /\ b <= Len(selected)
        BY <1>1, <2>1, <2>4 DEF len
      <4> QED
        BY <2>1, <4>1, PartsOfSequence DEF len
    <3>2. n + 1 < page(n).totalPages /\ page(n).content = SubSeq(selected, a + 1, b)
      BY <2>2, <2>4
    <3>3. n + 1 \in 0 .. len
      BY <1>1, <2>1, <2>4
    <3>4. rest(n) = page(n).content \o rest(n + 1)
      BY <2>3, <3>1, <3>2
    <3> QED
      BY <3>2, <3>3, <3>4
  <2>5. CASE ~(b < len)
    <3>1. SubSeq(selected, a + 1, len) \in Seq(S)
      <4>1. \A i \in a + 1 .. len : selected[i] \in S
        BY <1>1, <2>1 DEF len
      <4>2. a + 1 \in Int /\ len \in Int
        BY <1>1, <2>1
      <4> HIDE DEF len
      <4> QED
        BY <4>1, <4>2, SubSeqProperties
    <3> QED
      BY <2>2, <2>3, <2>5, <3>1
  <2> QED
    BY <2>4, <2>5
<1>4. DOMAIN [k \in 0 .. len |-> selected] = 0 .. len /\ \A n \in 0 .. len : [k \in 0 .. len |-> selected][n] = selected
  OBVIOUS
<1>5. \A f : Loop(f) <=> f = [n \in 0 .. len |-> page(n).content \o (IF n + 1 < page(n).totalPages THEN f[n + 1] ELSE <<>>)]
  BY <1>4
<1> HIDE DEF Loop, page, rest, len
<1>6. Loop(whole)
  <2>1. \A n \in 0 .. len : whole[n] = page(n).content \o (IF n + 1 < page(n).totalPages THEN whole[n + 1] ELSE <<>>)
    BY <1>3
  <2> QED
    BY <1>5, <2>1
<1>7. Loop(from)
  BY <1>6
<1> HIDE DEF whole, from
<1>8. \A n \in 0 .. len : from[n] = page(n).content \o (IF n + 1 < page(n).totalPages THEN from[n + 1] ELSE <<>>)
  BY <1>5, <1>7
<1> DEFINE Same(k) == \A n \in 0 .. len : n + k >= len => from[n] = rest(n)
           P == {k \in Nat : Same(k)}
<1>9. 0 \in P
  <2> SUFFICES ASSUME NEW n \in 0 .. len, n + 0 >= len PROVE from[n] = rest(n)
    OBVIOUS
  <2>1. n = len /\ n + 1 \notin 0 .. len
    BY <1>1
  <2> QED
    BY <1>3, <1>8, <2>1
<1>10. ASSUME NEW k \in P PROVE k + 1 \in P
  <2> SUFFICES ASSUME NEW n \in 0 .. len, n + (k + 1) >= len PROVE from[n] = rest(n)
    OBVIOUS
  <2>1. n + 1 \in 0 .. len => from[n + 1] = rest(n + 1)
    <3>1. n + 1 \in 0 .. len => (n + 1) + k >= len
      BY <1>1
    <3> QED
      BY <3>1
  <2> QED
    BY <1>3, <1>8, <2>1
<1> HIDE DEF Same
<1>11. P = Nat
  <2>1. P \in SUBSET Nat
    OBVIOUS
  <2> HIDE DEF P
  <2> QED
    BY <1>9, <1>10, <2>1, AllNumbers
<1>12. from[0] = rest(0)
  <2>1. Same(len)
    BY <1>1, <1>11
  <2>2. 0 \in 0 .. len /\ 0 + len >= len
    BY <1>1
  <2> QED
    BY <2>1, <2>2 DEF Same
<1>13. rest(0) = selected
  <2>1. 0 * size + 1 = 1
    OBVIOUS
  <2>2. SubSeq(selected, 1, Len(selected)) = selected
    <3>1. SubSeq(selected, 1, Len(selected)) \in Seq(S) /\ Len(SubSeq(selected, 1, Len(selected))) = Len(selected)
      OBVIOUS
    <3>2. \A i \in 1 .. Len(selected) : SubSeq(selected, 1, Len(selected))[i] = selected[i]
      OBVIOUS
    <3> QED
      BY <3>1, <3>2
  <2> QED
    BY <2>1, <2>2 DEF rest, len
<1>14. Determinates!fetch_paged_response_generator([n \in 0 .. len |-> selected], size) = from[0]
  BY DEF Determinates!fetch_paged_response_generator, from, Loop
<1> QED
  BY <1>12, <1>13, <1>14 DEF Determinates!PagesAreWhole, len

(* The lists of WF1 are those of Lists.                                    *)
LEMMA ListsOfWf1 ==
  /\ \A s, D : Determinates!Kept(s, D) = Kept(s, D)
  /\ \A s : Determinates!ToSet(s) = {s[i] : i \in DOMAIN s}
  /\ \A D : Determinates!Cardinality(D) = Cardinality(D)
<1>1. \A s, D : Determinates!Kept(s, D) = Kept(s, D)
  BY DEF Determinates!Kept, Kept, Determinates!InTurn, InTurn, Determinates!Cardinality, Cardinality
<1>2. \A s : Determinates!ToSet(s) = {s[i] : i \in DOMAIN s}
  BY DEF Determinates!ToSet
<1>3. \A D : Determinates!Cardinality(D) = Cardinality(D)
  BY DEF Determinates!Cardinality, Cardinality
<1> QED
  BY <1>1, <1>2, <1>3

(* What is kept of a list are its members at those positions.              *)
KeepsThose(t, s, D) ==
  /\ \E k \in Nat : DOMAIN t = 1 .. k
  /\ \A i \in DOMAIN t : \E j \in D : t[i] = s[j]
  /\ \A j \in D : \E i \in DOMAIN t : t[i] = s[j]

(* What it lists are those.                                                *)
LEMMA KeptThose ==
  ASSUME NEW n \in Nat, NEW s, DOMAIN s = 1 .. n, NEW D \in SUBSET (1 .. n)
  PROVE  Determinates!Kept(s, D) = Kept(s, D) /\ KeepsThose(Kept(s, D), s, D)
<1>1. IsFiniteSet(D) /\ D \in SUBSET Int
  BY AllOfThem
<1>2. IsKept(Kept(s, D), s, D)
  BY <1>1, KeptLists
<1> QED
  BY <1>2, ListsOfWf1 DEF IsKept, KeepsThose

(* The positions of the stations that are valid.                           *)
ValidOf(raw, n) == {i \in 1 .. n : Determinates!is_station_valid(raw[i])}

(* They are found by them.                                                 *)
LEMMA ValidThose ==
  ASSUME NEW n \in Nat, NEW raw, DOMAIN raw = 1 .. n
  PROVE  KeepsThose(Determinates!Valid(raw), raw, ValidOf(raw, n))
<1>1. ValidOf(raw, n) \in SUBSET (1 .. n)
  BY DEF ValidOf
<1>2. ValidOf(raw, n) = {i \in DOMAIN raw : Determinates!is_station_valid(raw[i])}
  BY DEF ValidOf
<1> QED
  BY <1>1, <1>2, KeptThose DEF Determinates!Valid

(* The lists of stations, each of the valid ones.                          *)
Listed(raw, i) == [id |-> raw[i].id, code |-> raw[i].code, zone |-> Determinates!construct_zone_code(raw[i])]

(* The lists show those that are valid, in the order of WF1.               *)
LEMMA ListsOfStations ==
  ASSUME NEW n \in Nat, NEW raw, DOMAIN raw = 1 .. n
  PROVE  /\ \A x : x \in Determinates!ToSet(Determinates!station_list_mapper(raw)) <=>
                     \E i \in ValidOf(raw, n) : x = [code |-> raw[i].code]
         /\ \A x : x \in Determinates!ToSet(Determinates!wfwx_station_list_mapper(raw)) <=>
                     \E i \in ValidOf(raw, n) : x = Listed(raw, i)
<1> DEFINE valid == Determinates!Valid(raw)
           V == ValidOf(raw, n)
           codes == [i \in DOMAIN valid |-> [code |-> valid[i].code]]
           stations == [i \in DOMAIN valid |-> [id |-> valid[i].id, code |-> valid[i].code,
                                                zone |-> Determinates!construct_zone_code(valid[i])]]
<1>1. KeepsThose(valid, raw, V)
  BY ValidThose
<1> HIDE DEF V
<1>2. Determinates!station_list_mapper(raw) = codes /\ Determinates!wfwx_station_list_mapper(raw) = stations
  BY DEF Determinates!station_list_mapper, Determinates!wfwx_station_list_mapper
<1> HIDE DEF valid
<1>3. \A i \in DOMAIN valid : \E j \in V : codes[i] = [code |-> raw[j].code] /\ stations[i] = Listed(raw, j)
  BY <1>1 DEF KeepsThose, Listed
<1>4. \A j \in V : \E i \in DOMAIN valid : codes[i] = [code |-> raw[j].code] /\ stations[i] = Listed(raw, j)
  BY <1>1 DEF KeepsThose, Listed
<1>5. DOMAIN codes = DOMAIN valid /\ DOMAIN stations = DOMAIN valid
  OBVIOUS
<1> HIDE DEF codes, stations
<1>6. /\ \A x : x \in Determinates!ToSet(codes) <=> \E i \in DOMAIN valid : x = codes[i]
      /\ \A x : x \in Determinates!ToSet(stations) <=> \E i \in DOMAIN valid : x = stations[i]
  BY <1>5 DEF Determinates!ToSet
<1>7. \A x : x \in Determinates!ToSet(codes) <=> \E i \in V : x = [code |-> raw[i].code]
  <2>1. ASSUME NEW x, x \in Determinates!ToSet(codes) PROVE \E i \in V : x = [code |-> raw[i].code]
    <3>1. PICK i \in DOMAIN valid : x = codes[i]
      BY <1>6, <2>1
    <3> QED
      BY <1>3, <3>1
  <2>2. ASSUME NEW j \in V PROVE [code |-> raw[j].code] \in Determinates!ToSet(codes)
    <3>1. PICK i \in DOMAIN valid : codes[i] = [code |-> raw[j].code]
      BY <1>4
    <3> QED
      BY <1>6, <3>1
  <2> QED
    BY <2>1, <2>2
<1>8. \A x : x \in Determinates!ToSet(stations) <=> \E i \in V : x = Listed(raw, i)
  <2>1. ASSUME NEW x, x \in Determinates!ToSet(stations) PROVE \E i \in V : x = Listed(raw, i)
    <3>1. PICK i \in DOMAIN valid : x = stations[i]
      BY <1>6, <2>1
    <3> QED
      BY <1>3, <3>1
  <2>2. ASSUME NEW j \in V PROVE Listed(raw, j) \in Determinates!ToSet(stations)
    <3>1. PICK i \in DOMAIN valid : stations[i] = Listed(raw, j)
      BY <1>4
    <3> QED
      BY <1>6, <3>1
  <2> QED
    BY <2>1, <2>2
<1> QED
  BY <1>2, <1>7, <1>8 DEF V

(* The stations of the fire centres are the valid ones that have one.      *)
LEMMA ListsOfCentres ==
  ASSUME NEW n \in Nat, NEW raw, DOMAIN raw = 1 .. n
  PROVE  LET centres == Determinates!fire_center_mapper(raw)
         IN \A x : x \in UNION {Determinates!ToSet(centres[c]) : c \in DOMAIN centres} <=>
              \E i \in ValidOf(raw, n) :
                /\ raw[i].centre # None
                /\ x = [code |-> raw[i].code, zone |-> Determinates!construct_zone_code(raw[i])]
<1> DEFINE V == {i \in 1 .. n : Determinates!is_station_valid(raw[i]) /\ Determinates!is_station_fire_zone_valid(raw[i])}
           valid == Kept(raw, V)
           D(c) == {i \in DOMAIN valid : valid[i].centre = c}
           its(c) == Kept(valid, D(c))
           entry(s) == [code |-> s.code, zone |-> Determinates!construct_zone_code(s)]
           centres == Determinates!fire_center_mapper(raw)
           C == {valid[i].centre : i \in DOMAIN valid}
<1>1. V \in SUBSET (1 .. n) /\ V = {i \in DOMAIN raw : /\ Determinates!is_station_valid(raw[i])
                                                       /\ Determinates!is_station_fire_zone_valid(raw[i])}
  OBVIOUS
<1>2. \A i : i \in V <=> i \in ValidOf(raw, n) /\ raw[i].centre # None
  BY DEF ValidOf, Determinates!is_station_fire_zone_valid
<1> HIDE DEF V
<1>3. KeepsThose(valid, raw, V)
  BY <1>1, KeptThose
<1>4. centres = [c \in C |-> [i \in DOMAIN its(c) |-> entry(its(c)[i])]]
  BY <1>1, ListsOfWf1 DEF Determinates!fire_center_mapper
<1> HIDE DEF valid, centres
<1>5. PICK k \in Nat : DOMAIN valid = 1 .. k
  BY <1>3 DEF KeepsThose
<1>6. ASSUME NEW c PROVE KeepsThose(its(c), valid, D(c))
  <2>1. D(c) \in SUBSET (1 .. k)
    BY <1>5
  <2> HIDE DEF D
  <2> QED
    BY <1>5, <2>1, KeptThose
<1>7. \A c, i : i \in D(c) <=> i \in 1 .. k /\ valid[i].centre = c
  BY <1>5
<1> HIDE DEF its, D
<1>8. \A c \in C : Determinates!ToSet(centres[c]) = {entry(its(c)[i]) : i \in DOMAIN its(c)}
  <2> HIDE DEF entry, C
  <2> SUFFICES ASSUME NEW c \in C PROVE Determinates!ToSet(centres[c]) = {entry(its(c)[i]) : i \in DOMAIN its(c)}
    OBVIOUS
  <2>1. centres[c] = [i \in DOMAIN its(c) |-> entry(its(c)[i])]
    BY <1>4
  <2> QED
    BY <2>1 DEF Determinates!ToSet
<1>9. DOMAIN centres = C
  BY <1>4
<1>10. \A c : c \in C <=> \E i \in 1 .. k : valid[i].centre = c
  BY <1>5
<1> HIDE DEF C, entry
<1>11. ASSUME NEW x, x \in UNION {Determinates!ToSet(centres[c]) : c \in DOMAIN centres}
       PROVE  \E i \in V : x = entry(raw[i])
  <2>1. PICK c \in C : x \in Determinates!ToSet(centres[c])
    BY <1>9, <1>11
  <2>2. PICK i \in DOMAIN its(c) : x = entry(its(c)[i])
    BY <1>8, <2>1
  <2>3. PICK j \in D(c) : its(c)[i] = valid[j]
    BY <1>6, <2>2 DEF KeepsThose
  <2>4. j \in DOMAIN valid
    BY <1>5, <1>7, <2>3
  <2>5. PICK r \in V : valid[j] = raw[r]
    BY <1>3, <2>4 DEF KeepsThose
  <2> QED
    BY <2>2, <2>3, <2>5
<1>12. ASSUME NEW r \in V PROVE entry(raw[r]) \in UNION {Determinates!ToSet(centres[c]) : c \in DOMAIN centres}
  <2>1. PICK j \in DOMAIN valid : valid[j] = raw[r]
    BY <1>3 DEF KeepsThose
  <2>2. raw[r].centre \in C /\ j \in D(raw[r].centre)
    BY <1>5, <1>7, <1>10, <2>1
  <2>3. PICK i \in DOMAIN its(raw[r].centre) : its(raw[r].centre)[i] = valid[j]
    BY <1>6, <2>2 DEF KeepsThose
  <2>4. entry(raw[r]) \in Determinates!ToSet(centres[raw[r].centre])
    BY <1>8, <2>1, <2>2, <2>3
  <2> QED
    BY <1>9, <2>2, <2>4
<1>13. \A x : x \in UNION {Determinates!ToSet(centres[c]) : c \in DOMAIN centres} <=>
              \E i \in ValidOf(raw, n) : raw[i].centre # None /\ x = entry(raw[i])
  BY <1>2, <1>11, <1>12
<1> QED
  BY <1>13 DEF centres, entry

(* So the lists of stations agree.                                         *)
LEMMA StationsOfLists ==
  ASSUME NEW n \in Nat, NEW raw, DOMAIN raw = 1 .. n
  PROVE  Determinates!StationListsAgree(raw)
<1> DEFINE W == Determinates!ToSet(Determinates!wfwx_station_list_mapper(raw))
           L == Determinates!ToSet(Determinates!station_list_mapper(raw))
           centres == Determinates!fire_center_mapper(raw)
           U == UNION {Determinates!ToSet(centres[c]) : c \in DOMAIN centres}
           V == ValidOf(raw, n)
           zone(i) == Determinates!construct_zone_code(raw[i])
<1>1. /\ \A x : x \in L <=> \E i \in V : x = [code |-> raw[i].code]
      /\ \A x : x \in W <=> \E i \in V : x = Listed(raw, i)
  BY ListsOfStations
<1>2. \A x : x \in U <=> \E i \in V : raw[i].centre # None /\ x = [code |-> raw[i].code, zone |-> zone(i)]
  BY ListsOfCentres
<1>3. \A i \in V : zone(i) # None => raw[i].centre # None
  BY DEF Determinates!construct_zone_code
<1>4. \A i : Listed(raw, i) = [id |-> raw[i].id, code |-> raw[i].code, zone |-> zone(i)]
  BY DEF Listed
<1> HIDE DEF W, L, U, V, zone
<1>5. \A i : Listed(raw, i).code = raw[i].code /\ Listed(raw, i).zone = zone(i)
  BY <1>4
<1>6. {s.code : s \in L} = {s.code : s \in W}
  <2>1. \A c : c \in {s.code : s \in L} <=> \E i \in V : c = raw[i].code
    <3>1. \A x \in L : \E i \in V : x.code = raw[i].code
      BY <1>1
    <3>2. \A i \in V : \E x \in L : x.code = raw[i].code
      <4> SUFFICES ASSUME NEW i \in V PROVE \E x \in L : x.code = raw[i].code
        OBVIOUS
      <4>1. [code |-> raw[i].code] \in L /\ [code |-> raw[i].code].code = raw[i].code
        BY <1>1
      <4> QED
        BY <4>1
    <3> QED
      BY <3>1, <3>2
  <2>2. \A c : c \in {s.code : s \in W} <=> \E i \in V : c = raw[i].code
    BY <1>1, <1>5
  <2> QED
    BY <2>1, <2>2
<1>7. \A x : x \in {[code |-> s.code, zone |-> s.zone] : s \in W} <=>
               \E i \in V : x = [code |-> raw[i].code, zone |-> zone(i)]
  BY <1>1, <1>5
<1>8. \A x : x \in {[code |-> s.code, zone |-> s.zone] : s \in {y \in W : y.zone # None}} =>
               \E i \in V : zone(i) # None /\ x = [code |-> raw[i].code, zone |-> zone(i)]
  BY <1>1, <1>5
<1>9. U \subseteq {[code |-> s.code, zone |-> s.zone] : s \in W}
  BY <1>2, <1>7
<1>10. {[code |-> s.code, zone |-> s.zone] : s \in {y \in W : y.zone # None}} \subseteq U
  BY <1>2, <1>3, <1>8
<1> QED
  BY <1>6, <1>9, <1>10 DEF Determinates!StationListsAgree, W, L, U

(* The largest of some numbers.                                            *)
LEMMA LastOfPlaces ==
  ASSUME NEW n \in Nat, NEW S \in SUBSET (1 .. n), S # {}
  PROVE  \E i \in S : \A j \in S : j <= i
<1>1. 1 \in Int /\ n \in Int /\ S \in SUBSET (1 .. n)
  OBVIOUS
<1> QED
  BY <1>1, EndsExist, Zenon

(* To ask WF1 for the codes of stations finds the same ones as to look for *)
(* them in the list of all.                                                *)
LEMMA CodesOfLists ==
  ASSUME NEW n \in Nat, NEW raw, DOMAIN raw = 1 .. n, NEW codes, NEW m \in Nat,
         codes # None => DOMAIN codes = 1 .. m
  PROVE  Determinates!CodesFindTheSame(raw, codes)
<1> DEFINE Q == {i \in 1 .. n : Determinates!BuildQueryStations(raw[i])}
           served == Kept(raw, Q)
           all == Determinates!wfwx_station_list_mapper(served)
           found == Determinates!get_wfwx_stations_from_station_codes(all, codes)
           wanted == IF codes = None THEN HfiStations ELSE Determinates!ToSet(codes)
           A == {i \in 1 .. n : Determinates!BuildQueryByStationCode(raw[i], wanted)}
           asked_ == Kept(raw, A)
           V == ValidOf(raw, n)
<1>1. Q \in SUBSET (1 .. n) /\ A \in SUBSET (1 .. n)
  OBVIOUS
<1>2. Q = {i \in DOMAIN raw : Determinates!BuildQueryStations(raw[i])}
      /\ A = {i \in DOMAIN raw : Determinates!BuildQueryByStationCode(raw[i], wanted)}
  OBVIOUS
<1>3. \A i \in V : i \in Q
  BY DEF ValidOf, Determinates!is_station_valid, Determinates!BuildQueryStations
<1>4. \A i \in 1 .. n : i \in A <=> raw[i].code \in wanted
  BY DEF Determinates!BuildQueryByStationCode
<1> HIDE DEF Q, A, wanted
<1>5. KeepsThose(served, raw, Q) /\ KeepsThose(asked_, raw, A)
  BY <1>1, KeptThose
<1>6. Determinates!CodesFindTheSame(raw, codes) <=>
        {s.code : s \in Determinates!ToSet(found)} =
          {s.code : s \in Determinates!ToSet(Determinates!station_list_mapper(asked_))}
  <2>1. Determinates!Kept(raw, {i \in DOMAIN raw : Determinates!BuildQueryStations(raw[i])}) = served
    BY <1>2, ListsOfWf1
  <2>2. Determinates!Kept(raw, {i \in DOMAIN raw : Determinates!BuildQueryByStationCode(raw[i], wanted)}) = asked_
    BY <1>2, ListsOfWf1
  <2> HIDE DEF served, asked_
  <2> QED
    BY <2>1, <2>2, Zenon DEF Determinates!CodesFindTheSame, wanted
<1> HIDE DEF served, asked_
<1>7. PICK k \in Nat : DOMAIN served = 1 .. k
  BY <1>5 DEF KeepsThose
<1>8. PICK l \in Nat : DOMAIN asked_ = 1 .. l
  BY <1>5 DEF KeepsThose
<1>9. \A x : x \in Determinates!ToSet(all) <=> \E i \in ValidOf(served, k) : x = Listed(served, i)
  BY <1>7, ListsOfStations
<1>10. \A x : x \in Determinates!ToSet(Determinates!station_list_mapper(asked_)) <=>
                \E i \in ValidOf(asked_, l) : x = [code |-> asked_[i].code]
  BY <1>8, ListsOfStations
<1> HIDE DEF all
<1>11. \A c : (\E i \in DOMAIN all : all[i].code = c) <=> \E i \in V : raw[i].code = c
  <2>1. ASSUME NEW i \in DOMAIN all PROVE \E j \in V : raw[j].code = all[i].code
    <3>1. all[i] \in Determinates!ToSet(all)
      BY DEF Determinates!ToSet
    <3>2. PICK p \in ValidOf(served, k) : all[i] = Listed(served, p)
      BY <1>9, <3>1
    <3>3. p \in DOMAIN served /\ Determinates!is_station_valid(served[p]) /\ all[i].code = served[p].code
      BY <1>7, <3>2 DEF ValidOf, Listed
    <3>4. PICK j \in Q : served[p] = raw[j]
      BY <1>5, <3>3 DEF KeepsThose
    <3>5. j \in V
      BY <1>1, <3>3, <3>4 DEF ValidOf
    <3> QED
      BY <3>3, <3>4, <3>5
  <2>2. ASSUME NEW j \in V PROVE \E i \in DOMAIN all : all[i].code = raw[j].code
    <3>1. PICK p \in DOMAIN served : served[p] = raw[j]
      BY <1>3, <1>5 DEF KeepsThose
    <3>2. p \in ValidOf(served, k)
      BY <1>7, <3>1 DEF ValidOf
    <3>3. Listed(served, p) \in Determinates!ToSet(all) /\ Listed(served, p).code = raw[j].code
      BY <1>9, <3>1, <3>2 DEF Listed
    <3>4. PICK i \in DOMAIN all : all[i] = Listed(served, p)
      BY <3>3 DEF Determinates!ToSet
    <3> QED
      BY <3>3, <3>4
  <2> QED
    BY <2>1, <2>2
<1>12. \A c : c \in {s.code : s \in Determinates!ToSet(Determinates!station_list_mapper(asked_))} <=>
                c \in wanted /\ \E i \in V : raw[i].code = c
  <2> DEFINE L == Determinates!ToSet(Determinates!station_list_mapper(asked_))
  <2>1. ASSUME NEW x \in L PROVE x.code \in wanted /\ \E i \in V : raw[i].code = x.code
    <3>1. PICK p \in ValidOf(asked_, l) : x = [code |-> asked_[p].code]
      BY <1>10
    <3>2. p \in DOMAIN asked_ /\ Determinates!is_station_valid(asked_[p]) /\ x.code = asked_[p].code
      BY <1>8, <3>1 DEF ValidOf
    <3>3. PICK j \in A : asked_[p] = raw[j]
      BY <1>5, <3>2 DEF KeepsThose
    <3>4. j \in V /\ raw[j].code \in wanted
      BY <1>1, <1>4, <3>2, <3>3 DEF ValidOf
    <3> QED
      BY <3>2, <3>3, <3>4
  <2>2. ASSUME NEW i \in V, raw[i].code \in wanted PROVE \E x \in L : x.code = raw[i].code
    <3>1. i \in A
      BY <1>4, <2>2 DEF ValidOf
    <3>2. PICK p \in DOMAIN asked_ : asked_[p] = raw[i]
      BY <1>5, <3>1 DEF KeepsThose
    <3>3. p \in ValidOf(asked_, l)
      BY <1>8, <3>2 DEF ValidOf
    <3>4. [code |-> asked_[p].code] \in L /\ [code |-> asked_[p].code].code = raw[i].code
      BY <1>10, <3>2, <3>3
    <3> QED
      BY <3>4
  <2> HIDE DEF L
  <2>3. \A c : c \in {s.code : s \in L} <=> c \in wanted /\ \E i \in V : raw[i].code = c
    <3>1. ASSUME NEW c, c \in {s.code : s \in L} PROVE c \in wanted /\ \E i \in V : raw[i].code = c
      BY <2>1, <3>1
    <3>2. ASSUME NEW c, c \in wanted, \E i \in V : raw[i].code = c PROVE c \in {s.code : s \in L}
      BY <2>2, <3>2
    <3> QED
      BY <3>1, <3>2
  <2> QED
    BY <2>3 DEF L
<1>13. \E h \in Nat : DOMAIN all = 1 .. h
  <2>1. KeepsThose(Determinates!Valid(served), served, ValidOf(served, k))
    BY <1>7, ValidThose
  <2>2. DOMAIN all = DOMAIN Determinates!Valid(served)
    BY DEF all, Determinates!wfwx_station_list_mapper
  <2> QED
    BY <2>1, <2>2 DEF KeepsThose
<1>14. PICK h \in Nat : DOMAIN all = 1 .. h
  BY <1>13
<1>15. \A c : c \in {s.code : s \in Determinates!ToSet(found)} <=> c \in wanted /\ \E i \in DOMAIN all : all[i].code = c
  <2>1. CASE codes = None
    <3> DEFINE D == {i \in DOMAIN all : all[i].code \in HfiStations}
    <3>1. D \in SUBSET (1 .. h)
      BY <1>14
    <3>2. \A i : i \in D <=> i \in DOMAIN all /\ all[i].code \in HfiStations
      OBVIOUS
    <3>3. found = Determinates!Kept(all, D)
      BY <2>1 DEF Determinates!get_wfwx_stations_from_station_codes
    <3> HIDE DEF D, found
    <3>4. KeepsThose(found, all, D)
      BY <1>14, <3>1, <3>3, KeptThose
    <3>5. wanted = HfiStations
      BY <2>1 DEF wanted
    <3>6. \A x \in Determinates!ToSet(found) : \E j \in D : x = all[j]
      BY <3>4 DEF KeepsThose, Determinates!ToSet
    <3>7. \A j \in D : all[j] \in Determinates!ToSet(found)
      BY <3>4 DEF KeepsThose, Determinates!ToSet
    <3>8. ASSUME NEW c, c \in {s.code : s \in Determinates!ToSet(found)}
          PROVE  c \in wanted /\ \E i \in DOMAIN all : all[i].code = c
      BY <3>2, <3>5, <3>6, <3>8
    <3>9. ASSUME NEW c, c \in wanted, NEW i \in DOMAIN all, all[i].code = c
          PROVE  c \in {s.code : s \in Determinates!ToSet(found)}
      BY <3>2, <3>5, <3>7, <3>9
    <3> QED
      BY <3>8, <3>9
  <2>2. CASE codes # None
    <3> DEFINE last(c) == CHOOSE i \in DOMAIN all :
                            /\ all[i].code = c
                            /\ \A j \in DOMAIN all : all[j].code = c => j <= i
               known == {all[i].code : i \in DOMAIN all}
               D == {i \in DOMAIN codes : codes[i] \in known}
               kept == Kept(codes, D)
    <3>1. D \in SUBSET (1 .. m) /\ DOMAIN codes = 1 .. m
      BY <2>2
    <3>2. found = [i \in DOMAIN kept |-> all[last(kept[i])]]
      <4> DEFINE t == Determinates!Kept(codes, {i \in DOMAIN codes : codes[i] \in {all[j].code : j \in DOMAIN all}})
      <4>1. t = kept
        BY ListsOfWf1
      <4>2. found = IF codes = None THEN Determinates!Kept(all, {i \in DOMAIN all : all[i].code \in HfiStations})
                    ELSE [i \in DOMAIN t |-> all[last(t[i])]]
        BY DEF Determinates!get_wfwx_stations_from_station_codes
      <4> HIDE DEF kept, t, found, last
      <4> QED
        BY <2>2, <4>1, <4>2
    <3>3. \A c : c \in known <=> \E i \in DOMAIN all : all[i].code = c
      OBVIOUS
    <3> HIDE DEF known
    <3>4. \A i : i \in D <=> i \in DOMAIN codes /\ codes[i] \in known
      OBVIOUS
    <3> HIDE DEF D
    <3>5. KeepsThose(kept, codes, D)
      BY <3>1, KeptThose
    <3>6. ASSUME NEW c \in known PROVE all[last(c)].code = c
      <4> DEFINE S == {i \in 1 .. h : all[i].code = c}
      <4>1. S \in SUBSET (1 .. h) /\ S # {}
        BY <1>14, <3>3
      <4>2. \E i \in S : \A j \in S : j <= i
        <5> HIDE DEF S
        <5> QED
          BY <4>1, LastOfPlaces
      <4>3. \E i \in DOMAIN all : all[i].code = c /\ \A j \in DOMAIN all : all[j].code = c => j <= i
        BY <1>14, <4>2
      <4> QED
        BY <4>3
    <3> HIDE DEF last, kept, found
    <3>7. wanted = Determinates!ToSet(codes)
      BY <2>2 DEF wanted
    <3>8. \A c : c \in wanted <=> \E i \in DOMAIN codes : codes[i] = c
      BY <3>7 DEF Determinates!ToSet
    <3>9. DOMAIN found = DOMAIN kept /\ \A i \in DOMAIN kept : found[i] = all[last(kept[i])]
      BY <3>2
    <3>10. \A i \in DOMAIN kept : found[i].code = kept[i] /\ kept[i] \in known /\ kept[i] \in wanted
      <4> SUFFICES ASSUME NEW i \in DOMAIN kept PROVE found[i].code = kept[i] /\ kept[i] \in known /\ kept[i] \in wanted
        OBVIOUS
      <4>1. PICK j \in D : kept[i] = codes[j]
        BY <3>5 DEF KeepsThose
      <4>2. kept[i] \in known /\ kept[i] \in wanted
        BY <3>4, <3>8, <4>1
      <4> QED
        BY <3>6, <3>9, <4>2
    <3>11. ASSUME NEW c, c \in {s.code : s \in Determinates!ToSet(found)}
           PROVE  c \in wanted /\ \E i \in DOMAIN all : all[i].code = c
      <4>1. PICK i \in DOMAIN found : c = found[i].code
        BY <3>11 DEF Determinates!ToSet
      <4> QED
        BY <3>3, <3>9, <3>10, <4>1
    <3>12. ASSUME NEW c, c \in wanted, c \in known PROVE c \in {s.code : s \in Determinates!ToSet(found)}
      <4>1. PICK j \in DOMAIN codes : codes[j] = c
        BY <3>8, <3>12
      <4>2. PICK i \in DOMAIN kept : kept[i] = c
        BY <3>4, <3>5, <3>12, <4>1 DEF KeepsThose
      <4>3. found[i] \in Determinates!ToSet(found) /\ found[i].code = c
        BY <3>9, <3>10, <4>2 DEF Determinates!ToSet
      <4> QED
        BY <4>3
    <3> QED
      BY <3>3, <3>11, <3>12
  <2> QED
    BY <2>1, <2>2
<1> QED
  BY <1>6, <1>11, <1>12, <1>15

(* What a station observed is the weather of one of its own dailies.       *)
LEMMA ObservationsOfDailies ==
  ASSUME NEW n \in Nat, NEW raw, DOMAIN raw = 1 .. n, NEW m \in Nat, NEW dailies, DOMAIN dailies = 1 .. m,
         \A i \in 1 .. m : dailies[i].type \in {"ACTUAL", "MANUAL", "FORECAST"}
  PROVE  Determinates!ObservationsAreOwn(raw, dailies)
<1> DEFINE valid == Determinates!Valid(raw)
           at(s, types) == {i \in DOMAIN dailies : dailies[i].station.id = s.id /\ dailies[i].type \in types}
           noon(s, types) == IF at(s, types) = {} THEN None
                             ELSE dailies[CHOOSE i \in at(s, types) : \A j \in at(s, types) : j <= i].weather
           detailed == Determinates!get_detailed_stations(raw, dailies)
           own(s) == {d.weather : d \in {x \in Determinates!ToSet(dailies) : x.station.id = s.id /\ x.type # "FORECAST"}}
<1>1. KeepsThose(valid, raw, ValidOf(raw, n))
  BY ValidThose
<1> HIDE DEF valid
<1>2. detailed = [i \in DOMAIN valid |->
                    [code |-> valid[i].code, observations |-> noon(valid[i], {"ACTUAL", "MANUAL"}),
                     forecasts |-> noon(valid[i], {"FORECAST"})]]
  BY DEF Determinates!get_detailed_stations, valid
<1> HIDE DEF noon, detailed
<1>3. ASSUME NEW i \in DOMAIN valid
      PROVE  \E shown \in Determinates!ToSet(detailed) :
               shown.code = valid[i].code /\ shown.observations = noon(valid[i], {"ACTUAL", "MANUAL"})
  <2>1. DOMAIN detailed = DOMAIN valid /\ detailed[i].code = valid[i].code
        /\ detailed[i].observations = noon(valid[i], {"ACTUAL", "MANUAL"})
    BY <1>2
  <2> QED
    BY <2>1 DEF Determinates!ToSet
<1>4. ASSUME NEW s PROVE noon(s, {"ACTUAL", "MANUAL"}) \in IF own(s) = {} THEN {None} ELSE own(s)
  <2> DEFINE T == at(s, {"ACTUAL", "MANUAL"})
  <2>1. T \in SUBSET (1 .. m)
    OBVIOUS
  <2>2. \A i : i \in T <=> i \in 1 .. m /\ dailies[i].station.id = s.id /\ dailies[i].type # "FORECAST"
    OBVIOUS
  <2>3. noon(s, {"ACTUAL", "MANUAL"}) = IF T = {} THEN None
                                        ELSE dailies[CHOOSE i \in T : \A j \in T : j <= i].weather
    BY DEF noon
  <2>4. \A w : w \in own(s) <=> \E i \in T : w = dailies[i].weather
    <3> HIDE DEF T
    <3>1. \A x : x \in Determinates!ToSet(dailies) <=> \E i \in 1 .. m : x = dailies[i]
      BY DEF Determinates!ToSet
    <3> DEFINE X == {x \in Determinates!ToSet(dailies) : x.station.id = s.id /\ x.type # "FORECAST"}
    <3>2. \A x : x \in X <=> \E i \in T : x = dailies[i]
      BY <2>2, <3>1
    <3> HIDE DEF X
    <3>3. \A w : w \in {d.weather : d \in X} <=> \E i \in T : w = dailies[i].weather
      BY <3>2
    <3> QED
      BY <3>3 DEF X
  <2> HIDE DEF T, own
  <2>5. CASE T = {}
    <3>1. own(s) = {}
      BY <2>4, <2>5
    <3> QED
      BY <2>3, <2>5, <3>1
  <2>6. CASE T # {}
    <3> DEFINE last == CHOOSE i \in T : \A j \in T : j <= i
    <3>1. last \in T
      <4>1. \E i \in T : \A j \in T : j <= i
        BY <2>1, <2>6, LastOfPlaces
      <4> QED
        BY <4>1
    <3> HIDE DEF last
    <3>2. dailies[last].weather \in own(s)
      BY <2>4, <3>1
    <3> QED
      BY <2>3, <2>6, <3>2 DEF last
  <2> QED
    BY <2>5, <2>6
<1> HIDE DEF own
<1>5. ASSUME NEW s \in Determinates!ToSet(raw), Determinates!is_station_valid(s)
      PROVE  \E shown \in Determinates!ToSet(detailed) :
               shown.code = s.code /\ shown.observations \in IF own(s) = {} THEN {None} ELSE own(s)
  <2>1. PICK j \in 1 .. n : s = raw[j]
    BY DEF Determinates!ToSet
  <2>2. j \in ValidOf(raw, n)
    BY <1>5, <2>1 DEF ValidOf
  <2>3. PICK i \in DOMAIN valid : valid[i] = s
    BY <1>1, <2>1, <2>2 DEF KeepsThose
  <2>4. PICK shown \in Determinates!ToSet(detailed) :
          shown.code = s.code /\ shown.observations = noon(s, {"ACTUAL", "MANUAL"})
    BY <1>3, <2>3
  <2> QED
    BY <1>4, <2>4
<1> QED
  BY <1>5 DEF Determinates!ObservationsAreOwn, detailed, own

(* A list of lists, put one after the other.                               *)
Flattens(st, seqs, n, S) ==
  /\ \A k \in 1 .. n : st[k] \in Seq(S)
  /\ st[1] = seqs[1] /\ \A k \in 1 .. n - 1 : st[k + 1] = st[k] \o seqs[k + 1]
  /\ Determinates!FlattenSeq(seqs) = st[n]

(* Rows one after the other are such a list.                               *)
LEMMA Flattening ==
  ASSUME NEW n \in Nat, n > 0, NEW S, NEW seqs \in [1 .. n -> Seq(S)]
  PROVE  \E st : Flattens(st, seqs, n, S)
<1> DEFINE Loop(f) == f = [i \in 1 .. Len(seqs) |-> IF i = 1 THEN seqs[i] ELSE f[i - 1] \o seqs[i]]
           flat == CHOOSE f : Loop(f)
           g == [x \in Seq(S) \X (1 .. n) |-> x[1] \o seqs[x[2]]]
<1>1. Len(seqs) = n /\ \A k \in 1 .. n : seqs[k] \in Seq(S)
  BY IsSequence
<1>2. PICK st \in [0 .. n -> Seq(S)] : Turns(st, n, <<>>, g)
  <2>1. g \in [Seq(S) \X (1 .. n) -> Seq(S)]
    BY <1>1
  <2>2. n \in Nat /\ <<>> \in Seq(S)
    OBVIOUS
  <2> HIDE DEF g
  <2> QED
    BY <2>1, <2>2, TurnsExist, Zenon
<1>3. st[0] = <<>> /\ \A k \in 0 .. n - 1 : st[k + 1] = st[k] \o seqs[k + 1]
  <2>1. \A k \in 0 .. n - 1 : st[k] \in Seq(S) /\ k + 1 \in 1 .. n
    BY <1>2
  <2>2. \A x \in Seq(S), k \in 1 .. n : g[<<x, k>>] = x \o seqs[k]
    OBVIOUS
  <2> HIDE DEF g
  <2> QED
    BY <1>2, <2>1, <2>2 DEF Turns
<1> HIDE DEF g
<1>4. st[1] = seqs[1]
  <2>1. 0 \in 0 .. n - 1 /\ 0 + 1 = 1 /\ 1 \in 1 .. n
    OBVIOUS
  <2>2. st[1] = <<>> \o seqs[1]
    BY <1>3, <2>1
  <2> QED
    BY <1>1, <2>1, <2>2
<1>5. Loop([i \in 1 .. n |-> st[i]])
  <2> DEFINE f == [i \in 1 .. n |-> st[i]]
  <2>1. ASSUME NEW i \in 1 .. n PROVE st[i] = IF i = 1 THEN seqs[i] ELSE f[i - 1] \o seqs[i]
    <3>1. CASE i = 1
      BY <1>4, <3>1
    <3>2. CASE i # 1
      <4>1. i - 1 \in 0 .. n - 1 /\ (i - 1) + 1 = i /\ i - 1 \in 1 .. n
        BY <3>2
      <4>2. st[i] = st[i - 1] \o seqs[i]
        BY <1>3, <4>1
      <4> QED
        BY <3>2, <4>1, <4>2
    <3> QED
      BY <3>1, <3>2
  <2>2. f = [i \in 1 .. n |-> IF i = 1 THEN seqs[i] ELSE f[i - 1] \o seqs[i]]
    BY <2>1
  <2> QED
    BY <1>1, <2>2
<1>6. Loop(flat)
  <2> HIDE DEF Loop
  <2> QED
    BY <1>5
<1> HIDE DEF flat
<1>7. \A i \in 1 .. n : flat[i] = IF i = 1 THEN seqs[i] ELSE flat[i - 1] \o seqs[i]
  BY <1>1, <1>6
<1>8. Determinates!FlattenSeq(seqs) = flat[n]
  <2>1. Len(seqs) # 0
    BY <1>1
  <2>2. Determinates!FlattenSeq(seqs) = flat[Len(seqs)]
    BY <2>1 DEF Determinates!FlattenSeq, flat
  <2> QED
    BY <1>1, <2>2
<1> HIDE DEF Loop
<1> DEFINE P == {k \in Nat : k + 1 <= n => flat[k + 1] \in Seq(S)}
<1>9. \A k \in 1 .. n - 1 : flat[k + 1] = flat[k] \o seqs[k + 1]
  <2> SUFFICES ASSUME NEW k \in 1 .. n - 1 PROVE flat[k + 1] = flat[k] \o seqs[k + 1]
    OBVIOUS
  <2>1. k + 1 \in 1 .. n /\ k + 1 # 1 /\ (k + 1) - 1 = k
    OBVIOUS
  <2> QED
    BY <1>7, <2>1
<1>10. flat[1] = seqs[1]
  BY <1>7
<1>11. 0 \in P
  <2>1. 1 \in 1 .. n
    OBVIOUS
  <2> QED
    BY <1>1, <1>10, <2>1
<1>12. ASSUME NEW k \in P PROVE k + 1 \in P
  <2> SUFFICES ASSUME (k + 1) + 1 <= n PROVE flat[(k + 1) + 1] \in Seq(S)
    OBVIOUS
  <2>1. k + 1 \in 1 .. n - 1 /\ (k + 1) + 1 \in 1 .. n /\ flat[k + 1] \in Seq(S)
    OBVIOUS
  <2>2. flat[(k + 1) + 1] = flat[k + 1] \o seqs[(k + 1) + 1]
    BY <1>9, <2>1
  <2> QED
    BY <1>1, <2>1, <2>2
<1>13. P = Nat
  <2>1. P \in SUBSET Nat
    OBVIOUS
  <2> HIDE DEF P
  <2> QED
    BY <1>11, <1>12, <2>1, AllNumbers
<1>14. \A k \in 1 .. n : flat[k] \in Seq(S)
  <2> SUFFICES ASSUME NEW k \in 1 .. n PROVE flat[k] \in Seq(S)
    OBVIOUS
  <2>1. k - 1 \in Nat /\ (k - 1) + 1 = k /\ k <= n
    OBVIOUS
  <2>2. k - 1 \in P
    BY <1>13, <2>1
  <2> QED
    BY <2>1, <2>2
<1>15. Flattens(flat, seqs, n, S)
  BY <1>8, <1>9, <1>10, <1>14 DEF Flattens
<1> QED
  BY <1>15

(* How many of a list are of a code.                                       *)
Count(s, c) == Cardinality({i \in DOMAIN s : s[i].code = c})

(* Of two lists together, one has what each of them has.                   *)
LEMMA CountTogether ==
  ASSUME NEW S, NEW s \in Seq(S), NEW t \in Seq(S), NEW c
  PROVE  Count(s, c) \in Nat /\ Count(t, c) \in Nat /\ Count(s \o t, c) = Count(s, c) + Count(t, c)
<1> DEFINE n == Len(s)
           m == Len(t)
           A == {i \in 1 .. n : s[i].code = c}
           B == {i \in 1 .. m : t[i].code = c}
           C == {i \in n + 1 .. n + m : t[i - n].code = c}
           f == [i \in B |-> i + n]
<1>1. n \in Nat /\ m \in Nat /\ DOMAIN s = 1 .. n /\ DOMAIN t = 1 .. m
  OBVIOUS
<1>2. DOMAIN (s \o t) = 1 .. n + m /\ \A i \in 1 .. n + m : (s \o t)[i] = IF i <= n THEN s[i] ELSE t[i - n]
  <2>1. Len(s \o t) = n + m /\ s \o t \in Seq(S)
        /\ \A i \in 1 .. n + m : (s \o t)[i] = IF i <= n THEN s[i] ELSE t[i - n]
    BY ConcatProperties
  <2> DEFINE u == s \o t
  <2>2. u \in Seq(S) /\ Len(u) = n + m
    BY <2>1
  <2> HIDE DEF u, n, m
  <2>3. DOMAIN u = 1 .. n + m
    BY <2>2
  <2> QED
    BY <2>1, <2>3 DEF u
<1> HIDE DEF n, m
<1>3. {i \in DOMAIN (s \o t) : (s \o t)[i].code = c} = A \union C
  <2> DEFINE u == s \o t
  <2>1. DOMAIN u = 1 .. n + m /\ \A i \in 1 .. n + m : u[i] = IF i <= n THEN s[i] ELSE t[i - n]
    BY <1>2
  <2> HIDE DEF u
  <2>2. ASSUME NEW i \in 1 .. n + m PROVE u[i].code = c <=> i \in A \union C
    <3>1. CASE i <= n
      <4>1. i \in 1 .. n /\ i \notin n + 1 .. n + m
        BY <1>1, <3>1
      <4> QED
        BY <2>1, <3>1, <4>1
    <3>2. CASE ~(i <= n)
      <4>1. i \notin 1 .. n /\ i \in n + 1 .. n + m
        BY <1>1, <3>2
      <4> QED
        BY <2>1, <3>2, <4>1
    <3> QED
      BY <3>1, <3>2
  <2>3. A \union C \subseteq 1 .. n + m
    BY <1>1
  <2> HIDE DEF A, C
  <2>4. {i \in DOMAIN u : u[i].code = c} = A \union C
    BY <2>1, <2>2, <2>3
  <2> QED
    BY <2>4 DEF u
<1>4. IsFiniteSet(A) /\ Cardinality(A) \in Nat /\ IsFiniteSet(B) /\ Cardinality(B) \in Nat
  <2>1. A \in SUBSET (1 .. n) /\ B \in SUBSET (1 .. m)
    OBVIOUS
  <2> HIDE DEF A, B
  <2> QED
    BY <1>1, <2>1, AllOfThem
<1>5. IsFiniteSet(C) /\ Cardinality(C) = Cardinality(B)
  <2>1. f \in [B -> C]
    BY <1>1
  <2>2. \A i, j \in B : f[i] = f[j] => i = j
    BY <1>1
  <2>3. ASSUME NEW k \in C PROVE \E i \in B : f[i] = k
    <3>1. k - n \in B /\ (k - n) + n = k
      BY <1>1
    <3>2. f[k - n] = (k - n) + n
      BY <3>1
    <3> QED
      BY <3>1, <3>2
  <2> HIDE DEF f, B, C
  <2>4. f \in Bijection(B, C)
    BY <2>1, <2>2, <2>3 DEF Bijection, Injection, Surjection, IsInjective
  <2>5. ExistsBijection(B, C)
    BY <2>4 DEF ExistsBijection
  <2> QED
    BY <1>4, <2>5, FS_Bijection
<1>6. A \intersect C = {}
  BY <1>1
<1>7. Cardinality(A \union C) = Cardinality(A) + Cardinality(C)
  <2>1. Cardinality(A \intersect C) = 0
    BY <1>6, FS_EmptySet
  <2>2. Cardinality(A \union C) = Cardinality(A) + Cardinality(C) - Cardinality(A \intersect C)
    <3> HIDE DEF A, C
    <3> QED
      BY <1>4, <1>5, FS_Union
  <2> HIDE DEF A, C
  <2> QED
    BY <1>4, <1>5, <2>1, <2>2
<1>8. Count(s, c) = Cardinality(A) /\ Count(t, c) = Cardinality(B)
  BY <1>1 DEF Count
<1>9. Count(s \o t, c) = Cardinality(A \union C)
  BY <1>3 DEF Count
<1> QED
  BY <1>4, <1>5, <1>7, <1>8, <1>9

(* One counts as one.                                                      *)
LEMMA CountOfOne ==
  ASSUME NEW m, NEW c PROVE Count(<<m>>, c) = IF m.code = c THEN 1 ELSE 0
<1> DEFINE A == {i \in DOMAIN <<m>> : <<m>>[i].code = c}
<1>1. A = IF m.code = c THEN {1} ELSE {}
  <2>1. DOMAIN <<m>> = {1} /\ <<m>>[1] = m
    OBVIOUS
  <2> QED
    BY <2>1
<1>2. Cardinality({1}) = 1 /\ Cardinality({}) = 0
  BY FS_Singleton, FS_EmptySet
<1>3. Count(<<m>>, c) = Cardinality(A)
  BY DEF Count
<1> HIDE DEF A
<1> QED
  BY <1>1, <1>2, <1>3

(* And none as none.                                                       *)
LEMMA CountOfNone ==
  ASSUME NEW S, NEW s \in Seq(S), NEW c
  PROVE  Count(s, c) # 0 <=> \E i \in DOMAIN s : s[i].code = c
<1> DEFINE A == {i \in 1 .. Len(s) : s[i].code = c}
<1>1. DOMAIN s = 1 .. Len(s) /\ Len(s) \in Nat
  OBVIOUS
<1>2. A \in SUBSET (1 .. Len(s))
  OBVIOUS
<1>3. A # {} <=> \E i \in DOMAIN s : s[i].code = c
  BY <1>1
<1>4. Count(s, c) = Cardinality(A)
  BY <1>1 DEF Count
<1> HIDE DEF A
<1>5. IsFiniteSet(A)
  BY <1>1, <1>2, AllOfThem
<1> QED
  BY <1>3, <1>4, <1>5, FS_EmptySet

(* The members of a group are listed once each.                            *)
LEMMA GroupIsUnique ==
  ASSUME NEW n \in Nat, NEW S, NEW members \in [1 .. n -> S]
  PROVE  LET u == Determinates!unique_weather_stations_mapper(members)
         IN /\ u \in Seq(S)
            /\ \A c : Count(u, c) = IF \E i \in 1 .. n : members[i].code = c THEN 1 ELSE 0
<1> DEFINE with(x, m) == IF \E i \in DOMAIN x : x[i].code = m.code THEN x ELSE Append(x, m)
           g == [x \in Seq(S) \X (1 .. n) |-> with(x[1], members[x[2]])]
           Loop(f) == f = [s \in SUBSET DOMAIN members |->
                             IF s = {} THEN <<>> ELSE with(f[s \ {LastOf(s)}], members[LastOf(s)])]
           iter == CHOOSE f : Loop(f)
<1>1. DOMAIN members = 1 .. n /\ \A k \in 1 .. n : members[k] \in S
  OBVIOUS
<1>2. Determinates!unique_weather_stations_mapper(members) = iter[DOMAIN members]
  BY DEF Determinates!unique_weather_stations_mapper, Determinates!FoldLeft, Determinates!MapThenFoldSet,
         Determinates!Max, LastOf
<1>3. \A x \in Seq(S), m \in S : with(x, m) \in Seq(S)
  OBVIOUS
<1> HIDE DEF with
<1>4. \E f : Loop(f)
  <2>1. g \in [Seq(S) \X (1 .. n) -> Seq(S)]
    BY <1>1, <1>3
  <2>2. \A x \in Seq(S), k \in 1 .. n : g[<<x, k>>] = with(x, members[k])
    OBVIOUS
  <2> HIDE DEF g
  <2>3. PICK f \in [SUBSET (1 .. n) -> Seq(S)] : FoldsUp(f, n, <<>>, g)
    <3>1. n \in Nat /\ <<>> \in Seq(S)
      OBVIOUS
    <3> QED
      BY <2>1, <3>1, FoldExists, Zenon
  <2>4. ASSUME NEW s \in SUBSET (1 .. n), s # {}
        PROVE  f[s] = with(f[s \ {LastOf(s)}], members[LastOf(s)])
    <3>1. LastOf(s) \in 1 .. n /\ s \ {LastOf(s)} \in SUBSET (1 .. n)
      BY <2>4, LastNumber
    <3>2. f[s \ {LastOf(s)}] \in Seq(S)
      BY <2>3, <3>1
    <3> QED
      BY <2>2, <2>3, <2>4, <3>1, <3>2 DEF FoldsUp
  <2>5. f[{}] = <<>>
    BY <2>3 DEF FoldsUp
  <2>6. f = [s \in SUBSET (1 .. n) |-> IF s = {} THEN <<>> ELSE with(f[s \ {LastOf(s)}], members[LastOf(s)])]
    BY <2>3, <2>4, <2>5
  <2> QED
    BY <1>1, <2>6
<1>5. Loop(iter)
  <2> HIDE DEF Loop
  <2> QED
    BY <1>4
<1> HIDE DEF iter
<1>6. \A s \in SUBSET (1 .. n) : iter[s] = IF s = {} THEN <<>> ELSE with(iter[s \ {LastOf(s)}], members[LastOf(s)])
  BY <1>1, <1>5
<1> HIDE DEF Loop, g
<1> DEFINE Has(k) == /\ iter[1 .. k] \in Seq(S)
                     /\ \A c : Count(iter[1 .. k], c) = IF \E i \in 1 .. k : members[i].code = c THEN 1 ELSE 0
           P == {k \in Nat : k <= n => Has(k)}
<1>7. 0 \in P
  <2>1. 1 .. 0 = {} /\ {} \in SUBSET (1 .. n)
    OBVIOUS
  <2>2. iter[1 .. 0] = <<>> /\ <<>> \in Seq(S)
    BY <1>6, <2>1
  <2>3. \A c : Count(<<>>, c) = 0
    <3> SUFFICES ASSUME NEW c PROVE Count(<<>>, c) = 0
      OBVIOUS
    <3>1. DOMAIN <<>> = {} 
      OBVIOUS
    <3>2. ~\E i \in DOMAIN <<>> : <<>>[i].code = c
      BY <3>1
    <3> QED
      BY <2>2, <3>2, CountOfNone
  <2>4. Has(0)
    BY <2>1, <2>2, <2>3
  <2> HIDE DEF Has
  <2> QED
    BY <2>4
<1>8. ASSUME NEW k \in P PROVE k + 1 \in P
  <2>1. SUFFICES ASSUME k + 1 <= n PROVE Has(k + 1)
    OBVIOUS
  <2>2. k \in Nat /\ Has(k) /\ k + 1 \in 1 .. n /\ 1 .. k + 1 \in SUBSET (1 .. n)
    BY <2>1
  <2>3. 1 .. k + 1 # {} /\ LastOf(1 .. k + 1) = k + 1 /\ (1 .. k + 1) \ {k + 1} = 1 .. k
    BY <2>2, LastOfInterval
  <2> DEFINE x == iter[1 .. k]
             y == iter[1 .. k + 1]
             m == members[k + 1]
  <2>4. y = with(x, m)
    BY <1>6, <2>2, <2>3
  <2>5. x \in Seq(S) /\ m \in S /\ \A c : Count(x, c) = IF \E i \in 1 .. k : members[i].code = c THEN 1 ELSE 0
    BY <1>1, <2>2
  <2> HIDE DEF x, y, Has
  <2>6. \A c : (\E i \in 1 .. k + 1 : members[i].code = c) <=> (\E i \in 1 .. k : members[i].code = c) \/ m.code = c
    <3>1. \A i : i \in 1 .. k + 1 <=> i \in 1 .. k \/ i = k + 1
      BY <2>2
    <3> QED
      BY <3>1
  <2> HIDE DEF m
  <2>7. CASE \E i \in DOMAIN x : x[i].code = m.code
    <3>1. y = x
      BY <2>4, <2>7 DEF with
    <3>2. Count(x, m.code) # 0
      BY <2>5, <2>7, CountOfNone
    <3>3. \E i \in 1 .. k : members[i].code = m.code
      BY <2>5, <3>2
    <3>4. \A c : Count(y, c) = IF \E i \in 1 .. k + 1 : members[i].code = c THEN 1 ELSE 0
      BY <2>5, <2>6, <3>1, <3>3
    <3> QED
      BY <2>5, <3>1, <3>4 DEF Has, y
  <2>8. CASE ~\E i \in DOMAIN x : x[i].code = m.code
    <3>1. y = Append(x, m)
      BY <2>4, <2>8 DEF with
    <3>2. y = x \o <<m>> /\ y \in Seq(S) /\ <<m>> \in Seq(S)
      BY <2>5, <3>1
    <3>3. Count(x, m.code) = 0
      BY <2>5, <2>8, CountOfNone
    <3>4. ~\E i \in 1 .. k : members[i].code = m.code
      BY <2>5, <3>3
    <3>5. ASSUME NEW c PROVE Count(y, c) = IF \E i \in 1 .. k + 1 : members[i].code = c THEN 1 ELSE 0
      <4>1. Count(y, c) = Count(x, c) + Count(<<m>>, c)
        BY <2>5, <3>2, CountTogether
      <4>2. Count(<<m>>, c) = IF m.code = c THEN 1 ELSE 0
        BY CountOfOne
      <4>3. Count(x, c) = IF \E i \in 1 .. k : members[i].code = c THEN 1 ELSE 0
        BY <2>5
      <4> QED
        BY <2>6, <3>4, <4>1, <4>2, <4>3
    <3> QED
      BY <3>2, <3>5 DEF Has, y
  <2> QED
    BY <2>7, <2>8
<1> HIDE DEF Has
<1>9. P = Nat
  <2>1. P \in SUBSET Nat
    OBVIOUS
  <2> HIDE DEF P
  <2> QED
    BY <1>7, <1>8, <2>1, AllNumbers
<1>10. Has(n)
  <2>1. n \in P
    BY <1>9
  <2> QED
    BY <2>1
<1> QED
  BY <1>1, <1>2, <1>10 DEF Has

(* A station of several groups is listed once for each of them.            *)
LEMMA GroupsOfStations ==
  ASSUME NEW n \in Nat, NEW groups, DOMAIN groups = 1 .. n, NEW S, \A h \in 1 .. n : groups[h] \in Seq(S)
  PROVE  Determinates!GroupsAreWhole(groups)
<1> DEFINE seqs == [h \in DOMAIN groups |-> Determinates!unique_weather_stations_mapper(groups[h])]
           listed == Determinates!get_stations_by_group_ids(groups)
           In(h, c) == \E x \in Determinates!ToSet(groups[h]) : x.code = c
<1> SUFFICES ASSUME NEW g0 \in 1 .. n, NEW c
             PROVE  Count(listed, c) = Cardinality({h \in 1 .. n : In(h, c)})
  BY ListsOfWf1 DEF Determinates!GroupsAreWhole, Count
<1>1. ASSUME NEW h \in 1 .. n PROVE seqs[h] \in Seq(S) /\ Count(seqs[h], c) = IF In(h, c) THEN 1 ELSE 0
  <2> DEFINE k == Len(groups[h])
             u == Determinates!unique_weather_stations_mapper(groups[h])
  <2>1. k \in Nat /\ groups[h] \in [1 .. k -> S] /\ DOMAIN groups[h] = 1 .. k
    <3>1. groups[h] \in Seq(S)
      OBVIOUS
    <3> QED
      BY <3>1
  <2>2. u \in Seq(S) /\ Count(u, c) = IF \E i \in 1 .. k : groups[h][i].code = c THEN 1 ELSE 0
    BY <2>1, GroupIsUnique
  <2>3. In(h, c) <=> \E i \in 1 .. k : groups[h][i].code = c
    BY <2>1 DEF Determinates!ToSet
  <2>4. seqs[h] = u
    OBVIOUS
  <2> HIDE DEF u, k, In, seqs
  <2> QED
    BY <2>2, <2>3, <2>4
<1> HIDE DEF In
<1>2. seqs \in [1 .. n -> Seq(S)]
  BY <1>1
<1>3. listed = Determinates!FlattenSeq(seqs)
  BY DEF Determinates!get_stations_by_group_ids
<1> HIDE DEF seqs, listed
<1>17. n > 0
  OBVIOUS
<1>18. PICK st : Flattens(st, seqs, n, S)
  BY <1>2, <1>17, Flattening
<1>4. /\ \A k \in 1 .. n : st[k] \in Seq(S)
      /\ st[1] = seqs[1] /\ \A k \in 1 .. n - 1 : st[k + 1] = st[k] \o seqs[k + 1]
      /\ listed = st[n]
  BY <1>3, <1>18 DEF Flattens
<1> DEFINE H(k) == {h \in 1 .. k : In(h, c)}
           P == {k \in Nat : k + 1 <= n => Count(st[k + 1], c) = Cardinality(H(k + 1))}
<1>5. \A k \in Nat : IsFiniteSet(H(k)) /\ Cardinality(H(k)) \in Nat
  <2> SUFFICES ASSUME NEW k \in Nat PROVE IsFiniteSet(H(k)) /\ Cardinality(H(k)) \in Nat
    OBVIOUS
  <2>1. H(k) \in SUBSET (1 .. k)
    OBVIOUS
  <2> HIDE DEF H
  <2> QED
    BY <2>1, AllOfThem
<1>6. ASSUME NEW k \in Nat PROVE Cardinality(H(k + 1)) = Cardinality(H(k)) + IF In(k + 1, c) THEN 1 ELSE 0
  <2>1. H(k + 1) = IF In(k + 1, c) THEN H(k) \union {k + 1} ELSE H(k)
    OBVIOUS
  <2>2. k + 1 \notin H(k)
    OBVIOUS
  <2>3. IsFiniteSet(H(k)) /\ Cardinality(H(k)) \in Nat
    BY <1>5
  <2> HIDE DEF H
  <2>4. Cardinality(H(k) \union {k + 1}) = Cardinality(H(k)) + 1
    BY <2>2, <2>3, FS_AddElement
  <2> QED
    BY <2>1, <2>3, <2>4
<1>7. Cardinality(H(0)) = 0
  <2>1. H(0) = {}
    OBVIOUS
  <2> QED
    BY <2>1, FS_EmptySet
<1> HIDE DEF H
<1>8. 0 \in P
  <2>1. 0 \in Nat /\ 0 + 1 = 1 /\ 1 \in 1 .. n
    OBVIOUS
  <2>2. Cardinality(H(1)) = IF In(1, c) THEN 1 ELSE 0
    <3>1. Cardinality(H(0 + 1)) = Cardinality(H(0)) + IF In(0 + 1, c) THEN 1 ELSE 0
      BY <1>6, <2>1
    <3>2. 0 + 1 = 1
      OBVIOUS
    <3>3. Cardinality(H(1)) = 0 + IF In(1, c) THEN 1 ELSE 0
      BY <1>7, <3>1, <3>2
    <3> QED
      BY <3>3
  <2>3. Count(st[1], c) = IF In(1, c) THEN 1 ELSE 0
    BY <1>1, <1>4, <2>1
  <2> QED
    BY <2>1, <2>2, <2>3
<1>9. ASSUME NEW k \in P PROVE k + 1 \in P
  <2> SUFFICES ASSUME (k + 1) + 1 <= n PROVE Count(st[(k + 1) + 1], c) = Cardinality(H((k + 1) + 1))
    OBVIOUS
  <2>1. k + 1 \in 1 .. n - 1 /\ k + 1 \in 1 .. n /\ (k + 1) + 1 \in 1 .. n /\ k + 1 \in Nat
        /\ Count(st[k + 1], c) = Cardinality(H(k + 1))
    OBVIOUS
  <2>2. st[(k + 1) + 1] = st[k + 1] \o seqs[(k + 1) + 1]
    BY <1>4, <2>1
  <2>3. Count(st[(k + 1) + 1], c) = Count(st[k + 1], c) + Count(seqs[(k + 1) + 1], c)
    <3> DEFINE s == st[k + 1]
               t == seqs[(k + 1) + 1]
    <3>1. s \in Seq(S) /\ t \in Seq(S)
      BY <1>1, <1>4, <2>1
    <3> HIDE DEF s, t
    <3>2. Count(s \o t, c) = Count(s, c) + Count(t, c)
      BY <3>1, CountTogether
    <3> QED
      BY <2>2, <3>2 DEF s, t
  <2>4. Count(seqs[(k + 1) + 1], c) = IF In((k + 1) + 1, c) THEN 1 ELSE 0
    BY <1>1, <2>1
  <2>5. Cardinality(H((k + 1) + 1)) = Cardinality(H(k + 1)) + IF In((k + 1) + 1, c) THEN 1 ELSE 0
    BY <1>6, <2>1
  <2> QED
    BY <2>1, <2>3, <2>4, <2>5
<1>10. P = Nat
  <2>1. P \in SUBSET Nat
    OBVIOUS
  <2> HIDE DEF P
  <2> QED
    BY <1>8, <1>9, <2>1, AllNumbers
<1>11. Count(st[n], c) = Cardinality(H(n))
  <2>1. n - 1 \in Nat /\ (n - 1) + 1 = n
    OBVIOUS
  <2>2. n - 1 \in P
    BY <1>10, <2>1
  <2> QED
    BY <2>1, <2>2
<1> QED
  BY <1>4, <1>11 DEF H

(* What the API makes of the stations and dailies of WF1 is whole: the     *)
(* pages of a selection are all of it, the lists of stations agree, both   *)
(* ways to find stations by code find the same, a station is listed once   *)
(* for each of its groups, and it is shown its own observations.           *)
THEOREM Wf1ListsAgree ==
  ASSUME NEW S, NEW stations \in Seq(S), NEW groups \in Seq(Seq(S)), NEW size \in Nat, size > 0,
         NEW codes, NEW m \in Nat, codes # None => DOMAIN codes = 1 .. m,
         NEW k \in Nat, NEW dailies, DOMAIN dailies = 1 .. k,
         \A i \in 1 .. k : dailies[i].type \in {"ACTUAL", "MANUAL", "FORECAST"}
  PROVE  /\ Determinates!PagesAreWhole(stations, size)
         /\ Determinates!StationListsAgree(stations)
         /\ Determinates!CodesFindTheSame(stations, codes)
         /\ Determinates!GroupsAreWhole(groups)
         /\ Determinates!ObservationsAreOwn(stations, dailies)
<1>1. Len(stations) \in Nat /\ DOMAIN stations = 1 .. Len(stations)
  OBVIOUS
<1>2. Len(groups) \in Nat /\ DOMAIN groups = 1 .. Len(groups) /\ \A h \in 1 .. Len(groups) : groups[h] \in Seq(S)
  OBVIOUS
<1>3. Determinates!PagesAreWhole(stations, size)
  BY PagesMakeTheWhole
<1>4. Determinates!StationListsAgree(stations)
  BY <1>1, StationsOfLists
<1>5. Determinates!CodesFindTheSame(stations, codes)
  BY <1>1, CodesOfLists
<1>6. Determinates!GroupsAreWhole(groups)
  BY <1>2, GroupsOfStations
<1>7. Determinates!ObservationsAreOwn(stations, dailies)
  BY <1>1, ObservationsOfDailies
<1> QED
  BY <1>3, <1>4, <1>5, <1>6, <1>7

(* A list t has those of another, s, at the positions D, in their order.   *)
Picks(t, s, at, k, D) ==
  /\ k \in Nat /\ DOMAIN t = 1 .. k /\ at \in [1 .. k -> D]
  /\ \A i \in 1 .. k : t[i] = s[at[i]]
  /\ \A i, j \in 1 .. k : i < j <=> at[i] < at[j]
  /\ \A p \in D : \E i \in 1 .. k : at[i] = p

(* That is what Kept makes.                                                *)
LEMMA KeptPicks ==
  ASSUME NEW n \in Nat, NEW s, DOMAIN s = 1 .. n, NEW D \in SUBSET (1 .. n)
  PROVE  /\ Determinates!Kept(s, D) = Kept(s, D)
         /\ Picks(Kept(s, D), s, InTurn(D), Cardinality(D), D)
<1>1. IsFiniteSet(D) /\ D \in SUBSET Int
  BY AllOfThem
<1>2. IsKept(Kept(s, D), s, D)
  BY <1>1, KeptLists
<1>3. Lists(InTurn(D), D)
  BY <1>1, InTurnLists
<1> DEFINE at == InTurn(D)
           k == Cardinality(D)
           t == Kept(s, D)
<1>4. /\ k \in Nat /\ DOMAIN t = 1 .. k /\ \A i \in 1 .. k : t[i] = s[at[i]]
  BY <1>2 DEF IsKept
<1>5. /\ at \in [1 .. k -> D]
      /\ \A i, j \in 1 .. k : i < j <=> at[i] < at[j]
      /\ \A p \in D : \E i \in 1 .. k : at[i] = p
  BY <1>3 DEF Lists
<1> QED
  BY <1>4, <1>5, ListsOfWf1 DEF Picks

(* Dailies that are mapped: those of the query with a type, of the stations*)
(* that are valid.                                                         *)
Selected(dailies, N, codes, first, last, types) ==
  {p \in 1 .. N : /\ Determinates!BuildQueryDailiesByStationCode(dailies[p], first, last, codes)
                  /\ Determinates!is_station_valid(dailies[p].station) /\ dailies[p].type \in types}

MapsThose(mapped, k, at, dailies, det, D) ==
  /\ k \in Nat /\ mapped = [i \in 1 .. k |-> Determinates!Indeterminate(dailies[at[i]], det)]
  /\ at \in [1 .. k -> D]
  /\ \A i, j \in 1 .. k : i < j <=> at[i] < at[j]
  /\ \A p \in D : \E i \in 1 .. k : at[i] = p

(* The list of the determinates of some types is such a list.              *)
LEMMA MappedPicks ==
  ASSUME NEW N \in Nat, NEW dailies, DOMAIN dailies = 1 .. N, NEW codes, NEW first, NEW last, NEW types, NEW det
  PROVE  \E k, at : MapsThose(Determinates!Mapped(Determinates!DailiesOf(dailies, codes, first, last), types, det),
                              k, at, dailies, det, Selected(dailies, N, codes, first, last, types))
<1> DEFINE B == {p \in 1 .. N : Determinates!BuildQueryDailiesByStationCode(dailies[p], first, last, codes)}
           raw == Determinates!DailiesOf(dailies, codes, first, last)
           n == Cardinality(B)
           f == InTurn(B)
           ok(d) == Determinates!is_station_valid(d.station) /\ d.type \in types
           E == {i \in 1 .. n : ok(raw[i])}
           its == Kept(raw, E)
           k == Cardinality(E)
           g == InTurn(E)
           D == Selected(dailies, N, codes, first, last, types)
           mapped == Determinates!Mapped(raw, types, det)
<1>1. B \in SUBSET (1 .. N) /\ D = {p \in B : ok(dailies[p])}
  BY DEF Selected
<1>2. Picks(raw, dailies, f, n, B)
  <2>1. raw = Determinates!Kept(dailies, {i \in DOMAIN dailies :
                  Determinates!BuildQueryDailiesByStationCode(dailies[i], first, last, codes)})
    BY DEF Determinates!DailiesOf
  <2>2. raw = Determinates!Kept(dailies, B)
    BY <2>1
  <2> HIDE DEF B, raw
  <2> QED
    BY <1>1, <2>2, KeptPicks
<1> HIDE DEF B, raw, f, n, D
<1>3. /\ n \in Nat /\ DOMAIN raw = 1 .. n /\ f \in [1 .. n -> B]
      /\ \A i \in 1 .. n : raw[i] = dailies[f[i]]
      /\ \A i, j \in 1 .. n : i < j <=> f[i] < f[j]
      /\ \A p \in B : \E i \in 1 .. n : f[i] = p
  BY <1>2 DEF Picks
<1>4. E \in SUBSET (1 .. n)
  OBVIOUS
<1>5. Picks(its, raw, g, k, E) /\ Determinates!Kept(raw, E) = its
  <2> HIDE DEF E
  <2> QED
    BY <1>3, <1>4, KeptPicks
<1>6. mapped = [i \in DOMAIN its |-> Determinates!Indeterminate(its[i], det)]
  <2> DEFINE t == Determinates!Kept(raw, {i \in DOMAIN raw :
                      Determinates!is_station_valid(raw[i].station) /\ raw[i].type \in types})
  <2>1. mapped = [i \in DOMAIN t |-> Determinates!Indeterminate(t[i], det)]
    BY DEF Determinates!Mapped
  <2>2. t = its
    BY <1>3, <1>5
  <2> HIDE DEF t, its, mapped
  <2> QED
    BY <2>1, <2>2
<1>7. \A i \in E : ok(dailies[f[i]])
  BY <1>3
<1>8. \A i \in 1 .. n : ok(dailies[f[i]]) => i \in E
  BY <1>3
<1> HIDE DEF E, its, k, g, ok, mapped
<1>9. /\ k \in Nat /\ DOMAIN its = 1 .. k /\ g \in [1 .. k -> E]
      /\ \A i \in 1 .. k : its[i] = raw[g[i]]
      /\ \A i, j \in 1 .. k : i < j <=> g[i] < g[j]
      /\ \A p \in E : \E i \in 1 .. k : g[i] = p
  BY <1>5 DEF Picks
<1> DEFINE at == [i \in 1 .. k |-> f[g[i]]]
<1>10. \A i \in 1 .. k : g[i] \in 1 .. n /\ at[i] = f[g[i]] /\ its[i] = dailies[at[i]] /\ at[i] \in D
  BY <1>1, <1>3, <1>4, <1>7, <1>9
<1>11. at \in [1 .. k -> D]
  BY <1>10
<1>12. \A i, j \in 1 .. k : i < j <=> at[i] < at[j]
  BY <1>3, <1>9, <1>10
<1>13. ASSUME NEW p \in D PROVE \E i \in 1 .. k : at[i] = p
  <2>1. PICK q \in 1 .. n : f[q] = p
    BY <1>1, <1>3
  <2>2. q \in E
    BY <1>1, <1>8, <2>1
  <2>3. PICK i \in 1 .. k : g[i] = q
    BY <1>9, <2>2
  <2> QED
    BY <1>10, <2>1, <2>3
<1>14. mapped = [i \in 1 .. k |-> Determinates!Indeterminate(dailies[at[i]], det)]
  BY <1>6, <1>9, <1>10
<1> HIDE DEF at
<1>15. MapsThose(mapped, k, at, dailies, det, D)
  BY <1>9, <1>11, <1>12, <1>13, <1>14 DEF MapsThose
<1> QED
  BY <1>15 DEF mapped, raw, D

(* Of the dailies: their values, that WF1 has one of a station and day, and*)
(* the forecasts of a station in the order of their days.                  *)
SixCodes == {"ffmc", "dmc", "dc", "isi", "bui", "fwi"}
Chains(W) == Seq(W) \union {None}
WillBeMapped(daily) ==
  Determinates!is_station_valid(daily.station) /\ daily.type \in {"ACTUAL", "MANUAL", "FORECAST"}
OneDailyEach(dailies, N, W, C) ==
  /\ N \in Nat /\ DOMAIN dailies = 1 .. N
  /\ \A p \in 1 .. N : /\ dailies[p].station.code \in C /\ dailies[p].day \in Int /\ dailies[p].weather \in W
                       /\ dailies[p].codes \in [SixCodes -> Chains(W)]
  /\ \A p, q \in 1 .. N :
       WillBeMapped(dailies[p]) /\ WillBeMapped(dailies[q]) /\ dailies[p].station.code = dailies[q].station.code =>
         /\ dailies[p].day = dailies[q].day => p = q
         /\ p < q /\ dailies[p].type = "FORECAST" /\ dailies[q].type = "FORECAST" => dailies[p].day < dailies[q].day

(* The list of all: the actuals, then the forecasts, with one of a station *)
(* and day, and the day before a forecast in front of it.                  *)
ForecastValues(W, C) == [code : C, day : Int, determinate : {"Actual", "Forecast"}, weather : W,
                 codes : [SixCodes -> Chains(W)]]
AreInTurn(all, n, a, W, C) ==
  /\ n \in Nat /\ a \in 0 .. n /\ all \in [1 .. n -> ForecastValues(W, C)]
  /\ \A i \in 1 .. n : all[i].determinate = IF i <= a THEN "Actual" ELSE "Forecast"
  /\ \A i \in 1 .. n : i > a => \A c \in SixCodes : all[i].codes[c] = None
  /\ \A i, j \in 1 .. n : all[i].code = all[j].code /\ all[i].day = all[j].day => i = j
  /\ \A i, j \in 1 .. n : i > a /\ all[j].code = all[i].code /\ all[j].day = all[i].day - 1 => j < i

(* What is made of a daily is such a value.                                *)
LEMMA ValueOfDaily ==
  ASSUME NEW W, NEW C, NEW d, d.station.code \in C, d.day \in Int, d.weather \in W, d.codes \in [SixCodes -> Chains(W)]
  PROVE  /\ \A det \in {"Actual", "Forecast"} :
              LET x == Determinates!Indeterminate(d, det)
              IN x \in ForecastValues(W, C) /\ x.code = d.station.code /\ x.day = d.day /\ x.determinate = det
         /\ \A c \in SixCodes : Determinates!Indeterminate(d, "Forecast").codes[c] = None
<1>1. [c \in DOMAIN d.codes |-> None] \in [SixCodes -> Chains(W)]
  BY DEF Chains
<1> SUFFICES ASSUME NEW det \in {"Actual", "Forecast"}
             PROVE  LET x == Determinates!Indeterminate(d, det)
                    IN /\ x \in ForecastValues(W, C) /\ x.code = d.station.code /\ x.day = d.day /\ x.determinate = det
                       /\ det = "Forecast" => \A c \in SixCodes : x.codes[c] = None
  OBVIOUS
<1> DEFINE codes == IF det = "Actual" THEN d.codes ELSE [c \in DOMAIN d.codes |-> None]
           x == [code |-> d.station.code, day |-> d.day, determinate |-> det, weather |-> d.weather, codes |-> codes]
<1>2. Determinates!Indeterminate(d, det) = x
  BY DEF Determinates!Indeterminate
<1>3. codes \in [SixCodes -> Chains(W)]
  BY <1>1
<1>4. det = "Forecast" => \A c \in SixCodes : codes[c] = None
  <2>1. DOMAIN d.codes = SixCodes
    OBVIOUS
  <2> QED
    BY <2>1
<1> HIDE DEF codes
<1>5. x \in ForecastValues(W, C) /\ x.code = d.station.code /\ x.day = d.day /\ x.determinate = det /\ x.codes = codes
  BY <1>3 DEF ForecastValues
<1> QED
  BY <1>2, <1>4, <1>5

(* The list is the list of the actuals with that of the forecasts after it.*)
AreAll(all, dailies, D, W, C) ==
  \E n, a : /\ AreInTurn(all, n, a, W, C)
            /\ \A p \in D : \E i \in 1 .. a : all[i].code = dailies[p].station.code /\ all[i].day = dailies[p].day

(* That is the order of all the determinates.                              *)
LEMMA AllAreInTurn ==
  ASSUME NEW W, NEW C, NEW N, NEW dailies, OneDailyEach(dailies, N, W, C), NEW codes, NEW first, NEW last
  PROVE  LET raw == Determinates!DailiesOf(dailies, codes, first, last)
         IN AreAll(Determinates!InOrder(Determinates!Mapped(raw, {"ACTUAL", "MANUAL"}, "Actual"),
                                        Determinates!Mapped(raw, {"FORECAST"}, "Forecast")),
                   dailies, Selected(dailies, N, codes, first, last, {"ACTUAL", "MANUAL"}), W, C)
<1> DEFINE mapped(types, det) ==
             Determinates!Mapped(Determinates!DailiesOf(dailies, codes, first, last), types, det)
           s == mapped({"ACTUAL", "MANUAL"}, "Actual")
           t == mapped({"FORECAST"}, "Forecast")
           all == Determinates!InOrder(s, t)
           A == Selected(dailies, N, codes, first, last, {"ACTUAL", "MANUAL"})
           F == Selected(dailies, N, codes, first, last, {"FORECAST"})
<1>1. /\ N \in Nat /\ DOMAIN dailies = 1 .. N
      /\ \A p \in 1 .. N : /\ dailies[p].station.code \in C /\ dailies[p].day \in Int /\ dailies[p].weather \in W
                           /\ dailies[p].codes \in [SixCodes -> Chains(W)]
  BY DEF OneDailyEach
<1>2. PICK a, f : MapsThose(s, a, f, dailies, "Actual", A)
  BY <1>1, MappedPicks
<1>3. PICK b, g : MapsThose(t, b, g, dailies, "Forecast", F)
  BY <1>1, MappedPicks
<1>4. /\ A \in SUBSET (1 .. N) /\ \A p \in A : WillBeMapped(dailies[p]) /\ dailies[p].type # "FORECAST"
      /\ F \in SUBSET (1 .. N) /\ \A p \in F : WillBeMapped(dailies[p]) /\ dailies[p].type = "FORECAST"
  BY DEF Selected, WillBeMapped
<1> HIDE DEF A, F, s, t, mapped
<1>5. /\ a \in Nat /\ s = [i \in 1 .. a |-> Determinates!Indeterminate(dailies[f[i]], "Actual")]
      /\ f \in [1 .. a -> A]
      /\ \A i, j \in 1 .. a : i < j <=> f[i] < f[j]
      /\ \A p \in A : \E i \in 1 .. a : f[i] = p
  BY <1>2 DEF MapsThose
<1>6. /\ b \in Nat /\ t = [i \in 1 .. b |-> Determinates!Indeterminate(dailies[g[i]], "Forecast")]
      /\ g \in [1 .. b -> F]
      /\ \A i, j \in 1 .. b : i < j <=> g[i] < g[j]
  BY <1>3 DEF MapsThose
<1> DEFINE n == a + b
           from == [i \in 1 .. n |-> IF i <= a THEN f[i] ELSE g[i - a]]
           det(i) == IF i <= a THEN "Actual" ELSE "Forecast"
           daily(i) == dailies[from[i]]
           list == [i \in 1 .. n |-> Determinates!Indeterminate(daily(i), det(i))]
<1>7. n \in Nat /\ a \in 0 .. n
  BY <1>5, <1>6
<1>8. all = list
  <2>1. s \in Seq(ForecastValues(W, C)) /\ Len(s) = a
    <3>1. \A i \in 1 .. a : Determinates!Indeterminate(dailies[f[i]], "Actual") \in ForecastValues(W, C)
      BY <1>1, <1>4, <1>5, ValueOfDaily
    <3> DEFINE v(i) == Determinates!Indeterminate(dailies[f[i]], "Actual")
    <3> HIDE DEF v
    <3>2. s = [i \in 1 .. a |-> v(i)] /\ \A i \in 1 .. a : v(i) \in ForecastValues(W, C)
      BY <1>5, <3>1 DEF v
    <3> QED
      BY <1>5, <3>2, IsSequence
  <2>2. t \in Seq(ForecastValues(W, C)) /\ Len(t) = b
    <3>1. \A i \in 1 .. b : Determinates!Indeterminate(dailies[g[i]], "Forecast") \in ForecastValues(W, C)
      BY <1>1, <1>4, <1>6, ValueOfDaily
    <3> DEFINE v(i) == Determinates!Indeterminate(dailies[g[i]], "Forecast")
    <3> HIDE DEF v
    <3>2. t = [i \in 1 .. b |-> v(i)] /\ \A i \in 1 .. b : v(i) \in ForecastValues(W, C)
      BY <1>6, <3>1 DEF v
    <3> QED
      BY <1>6, <3>2, IsSequence
  <2>3. all = s \o t
    BY DEF Determinates!InOrder
  <2>4. all \in Seq(ForecastValues(W, C)) /\ Len(all) = n
        /\ \A i \in 1 .. n : all[i] = IF i <= a THEN s[i] ELSE t[i - a]
    <3> DEFINE V == ForecastValues(W, C)
               u == s \o t
               m == Len(s) + Len(t)
    <3>1. s \in Seq(V) /\ t \in Seq(V) /\ Len(s) = a /\ Len(t) = b
      BY <2>1, <2>2
    <3> HIDE DEF V
    <3>2. u \in Seq(V) /\ Len(u) = m /\ \A i \in 1 .. m : u[i] = IF i <= Len(s) THEN s[i] ELSE t[i - Len(s)]
      BY <3>1, ConcatProperties, SMTT(30)
    <3>3. m = n
      BY <3>1
    <3>4. all = u
      BY <2>3
    <3> HIDE DEF u, m, n, all
    <3>5. all \in Seq(V) /\ Len(all) = n /\ \A i \in 1 .. n : all[i] = IF i <= a THEN s[i] ELSE t[i - a]
      BY <3>1, <3>2, <3>3, <3>4, Zenon
    <3> QED
      BY <3>5 DEF V
  <2>5. ASSUME NEW i \in 1 .. n PROVE all[i] = Determinates!Indeterminate(daily(i), det(i))
    <3>1. CASE i <= a
      <4>1. i \in 1 .. a /\ from[i] = f[i]
        BY <1>5, <1>6, <3>1
      <4> QED
        BY <1>5, <2>4, <3>1, <4>1
    <3>2. CASE ~(i <= a)
      <4>1. i - a \in 1 .. b /\ from[i] = g[i - a]
        BY <1>5, <1>6, <3>2
      <4> QED
        BY <1>6, <2>4, <3>2, <4>1
    <3> QED
      BY <3>1, <3>2
  <2> HIDE DEF list, daily, det, n, all
  <2>6. all = [i \in 1 .. n |-> all[i]]
    BY <2>4
  <2> QED
    BY <2>5, <2>6 DEF list
<1>9. \A i \in 1 .. n : /\ from[i] \in 1 .. N /\ WillBeMapped(daily(i))
                        /\ i <= a => from[i] \in A /\ from[i] = f[i]
                        /\ i > a => from[i] \in F /\ from[i] = g[i - a] /\ i - a \in 1 .. b
  <2> SUFFICES ASSUME NEW i \in 1 .. n
               PROVE  /\ from[i] \in 1 .. N /\ WillBeMapped(dailies[from[i]])
                      /\ i <= a => from[i] \in A /\ from[i] = f[i]
                      /\ i > a => from[i] \in F /\ from[i] = g[i - a] /\ i - a \in 1 .. b
    OBVIOUS
  <2>1. from[i] = IF i <= a THEN f[i] ELSE g[i - a]
    OBVIOUS
  <2>2. CASE i <= a
    <3>1. i \in 1 .. a /\ ~(i > a)
      BY <1>5, <1>6, <2>2
    <3>2. f[i] \in A
      BY <1>5, <3>1
    <3> HIDE DEF from
    <3> QED
      BY <1>4, <2>1, <2>2, <3>1, <3>2
  <2>3. CASE ~(i <= a)
    <3>1. i - a \in 1 .. b
      BY <1>5, <1>6, <2>3
    <3>2. g[i - a] \in F
      BY <1>6, <3>1
    <3> HIDE DEF from
    <3> QED
      BY <1>4, <2>1, <2>3, <3>1, <3>2
  <2> QED
    BY <2>2, <2>3
<1>10. \A i \in 1 .. n : /\ daily(i).type = "FORECAST" <=> i > a
                         /\ daily(i).day \in Int
  BY <1>1, <1>4, <1>7, <1>9
<1>11. \A i \in 1 .. n : /\ list[i] \in ForecastValues(W, C) /\ list[i].code = daily(i).station.code
                         /\ list[i].day = daily(i).day /\ list[i].determinate = det(i)
                         /\ i > a => \A c \in SixCodes : list[i].codes[c] = None
  <2> SUFFICES ASSUME NEW i \in 1 .. n
               PROVE  /\ list[i] \in ForecastValues(W, C) /\ list[i].code = daily(i).station.code
                      /\ list[i].day = daily(i).day /\ list[i].determinate = det(i)
                      /\ i > a => \A c \in SixCodes : list[i].codes[c] = None
    OBVIOUS
  <2> DEFINE d == daily(i)
  <2>1. d.station.code \in C /\ d.day \in Int /\ d.weather \in W /\ d.codes \in [SixCodes -> Chains(W)]
    BY <1>1, <1>9
  <2>2. list[i] = Determinates!Indeterminate(d, det(i))
    OBVIOUS
  <2>3. det(i) \in {"Actual", "Forecast"} /\ (i > a => det(i) = "Forecast")
    BY <1>7
  <2> HIDE DEF d, list, det
  <2>4. /\ list[i] \in ForecastValues(W, C) /\ list[i].code = d.station.code
        /\ list[i].day = d.day /\ list[i].determinate = det(i)
        /\ i > a => \A c \in SixCodes : list[i].codes[c] = None
    BY <2>1, <2>2, <2>3, ValueOfDaily
  <2> QED
    BY <2>4 DEF d
<1>12. \A i, j \in 1 .. n : from[i] = from[j] => i = j
  <2> SUFFICES ASSUME NEW i \in 1 .. n, NEW j \in 1 .. n, from[i] = from[j] PROVE i = j
    OBVIOUS
  <2>1. i > a <=> j > a
    BY <1>10
  <2>2. CASE i > a
    <3>1. from[i] = g[i - a] /\ from[j] = g[j - a] /\ i - a \in 1 .. b /\ j - a \in 1 .. b
      BY <1>9, <2>1, <2>2
    <3>2. g[i - a] \in 1 .. N /\ g[j - a] \in 1 .. N
      BY <1>4, <1>6, <3>1
    <3>3. ~(i - a < j - a) /\ ~(j - a < i - a)
      BY <1>6, <3>1, <3>2
    <3> QED
      BY <1>7, <3>1, <3>3
  <2>3. CASE ~(i > a)
    <3>1. from[i] = f[i] /\ from[j] = f[j] /\ i \in 1 .. a /\ j \in 1 .. a
      BY <1>5, <1>7, <1>9, <2>1, <2>3
    <3>2. f[i] \in 1 .. N /\ f[j] \in 1 .. N
      BY <1>4, <1>5, <3>1
    <3>3. ~(i < j) /\ ~(j < i)
      BY <1>5, <3>1, <3>2
    <3> QED
      BY <3>1, <3>3
  <2> QED
    BY <2>2, <2>3
<1>13. \A i, j \in 1 .. n : i > a /\ j > a /\ i < j => from[i] < from[j]
  <2> SUFFICES ASSUME NEW i \in 1 .. n, NEW j \in 1 .. n, i > a, j > a, i < j PROVE from[i] < from[j]
    OBVIOUS
  <2>1. from[i] = g[i - a] /\ from[j] = g[j - a] /\ i - a \in 1 .. b /\ j - a \in 1 .. b
    BY <1>9
  <2>2. i - a < j - a
    BY <1>7
  <2> QED
    BY <1>6, <2>1, <2>2
<1> HIDE DEF from, all
<1>14. \A i, j \in 1 .. n : list[i].code = list[j].code /\ list[i].day = list[j].day => i = j
  <2> SUFFICES ASSUME NEW i \in 1 .. n, NEW j \in 1 .. n, list[i].code = list[j].code, list[i].day = list[j].day
               PROVE  i = j
    OBVIOUS
  <2>1. daily(i).station.code = daily(j).station.code /\ daily(i).day = daily(j).day
    BY <1>11
  <2>2. from[i] = from[j]
    BY <1>9, <2>1 DEF OneDailyEach
  <2> QED
    BY <1>12, <2>2
<1>15. ASSUME NEW i \in 1 .. n, NEW j \in 1 .. n, i > a, list[j].code = list[i].code, list[j].day = list[i].day - 1
       PROVE  j < i
  <2>1. daily(i).station.code = daily(j).station.code /\ daily(j).day = daily(i).day - 1
        /\ daily(i).day \in Int /\ daily(j).day \in Int
    BY <1>10, <1>11, <1>15
  <2>2. i # j
    BY <2>1
  <2>3. CASE j > a
    <3>1. SUFFICES ASSUME i < j PROVE FALSE
      BY <1>7, <2>2
    <3>2. from[i] < from[j] /\ daily(i).type = "FORECAST" /\ daily(j).type = "FORECAST"
      BY <1>10, <1>13, <1>15, <2>3, <3>1
    <3>3. daily(i).day < daily(j).day
      BY <1>9, <2>1, <3>2 DEF OneDailyEach
    <3> QED
      BY <2>1, <3>3
  <2>4. CASE ~(j > a)
    BY <1>7, <1>15, <2>4
  <2> QED
    BY <2>3, <2>4
<1>16. ASSUME NEW p \in A
       PROVE  \E i \in 1 .. a : list[i].code = dailies[p].station.code /\ list[i].day = dailies[p].day
  <2>1. PICK i \in 1 .. a : f[i] = p
    BY <1>5
  <2>2. i \in 1 .. n /\ i <= a
    BY <1>5, <1>6
  <2>3. from[i] = p
    BY <1>9, <2>1, <2>2
  <2> QED
    BY <1>11, <2>2, <2>3
<1>17. list \in [1 .. n -> ForecastValues(W, C)]
  <2> DEFINE e(i) == Determinates!Indeterminate(daily(i), det(i))
  <2>1. \A i \in 1 .. n : e(i) \in ForecastValues(W, C)
    BY <1>11
  <2>2. list = [i \in 1 .. n |-> e(i)]
    OBVIOUS
  <2> HIDE DEF e, list
  <2> QED
    BY <2>1, <2>2
<1>18. \A i \in 1 .. n : list[i].determinate = IF i <= a THEN "Actual" ELSE "Forecast"
  BY <1>11
<1> HIDE DEF list, n, det, daily
<1>19. AreInTurn(list, n, a, W, C)
  BY <1>7, <1>11, <1>14, <1>15, <1>17, <1>18 DEF AreInTurn
<1>20. AreAll(all, dailies, A, W, C)
  BY <1>8, <1>16, <1>19 DEF AreAll
<1> QED
  BY <1>20 DEF all, s, t, mapped, A

(* The place of a station's value of a day, if there is one.               *)
LEMMA IndexIsPlace ==
  ASSUME NEW n \in Nat, NEW all, DOMAIN all = 1 .. n, NEW code, NEW day
  PROVE  LET y == Determinates!IndexOf(all, code, day)
         IN /\ y \in 0 .. n
            /\ y # 0 => all[y].code = code /\ all[y].day = day
            /\ \A i \in 1 .. n : all[i].code = code /\ all[i].day = day => y # 0
<1> DEFINE its == {i \in 1 .. n : all[i].code = code /\ all[i].day = day}
           y == Determinates!IndexOf(all, code, day)
<1>1. y = IF its = {} THEN 0 ELSE CHOOSE i \in its : \A j \in its : i >= j
  BY DEF Determinates!IndexOf, Determinates!Max
<1>2. its \in SUBSET (1 .. n)
  OBVIOUS
<1>3. \A i \in its : i \in 1 .. n /\ all[i].code = code /\ all[i].day = day
  OBVIOUS
<1>4. \A i \in 1 .. n : all[i].code = code /\ all[i].day = day => i \in its
  OBVIOUS
<1> HIDE DEF its, y
<1>5. /\ y \in 0 .. n
      /\ y # 0 => all[y].code = code /\ all[y].day = day
      /\ \A i \in 1 .. n : all[i].code = code /\ all[i].day = day => y # 0
  <2>1. CASE its = {}
    BY <1>1, <1>4, <2>1
  <2>2. CASE its # {}
    <3>1. PICK m \in its : \A j \in its : j <= m
      BY <1>2, <2>2, LastOfPlaces
    <3>2. \A j \in its : m >= j
      BY <1>2, <3>1
    <3>3. y \in its
      BY <1>1, <2>2, <3>2
    <3>4. y \in 1 .. n /\ y # 0
      BY <1>3, <3>3
    <3> QED
      BY <1>3, <3>3, <3>4
  <2> QED
    BY <2>1, <2>2
<1> QED
  BY <1>5 DEF y

(* The moisture codes of a day continue those of the day before; nothing   *)
(* but the codes of a value changes.                                       *)
Continues(new, x, y) ==
  \A c \in {"ffmc", "dmc", "dc"} :
    new.codes[c] = IF y.codes[c] = None THEN x.codes[c] ELSE Append(y.codes[c], x.weather)

(* That is what is calculated.                                             *)
LEMMA CalculatedValue ==
  ASSUME NEW W, NEW C, NEW x \in ForecastValues(W, C), NEW y \in ForecastValues(W, C)
  PROVE  LET new == Determinates!calculate_fwi_values(y, x)
         IN /\ new \in ForecastValues(W, C)
            /\ new.code = x.code /\ new.day = x.day /\ new.determinate = x.determinate /\ new.weather = x.weather
            /\ Continues(new, x, y)
<1> DEFINE moisture(c) == IF y.codes[c] = None THEN x.codes[c] ELSE Append(y.codes[c], x.weather)
           isi == IF moisture("ffmc") = None THEN x.codes["isi"] ELSE Append(moisture("ffmc"), x.weather)
           bui == IF moisture("dmc") = None \/ moisture("dc") = None THEN x.codes["bui"]
                  ELSE moisture("dmc") \o moisture("dc")
           fwi == IF isi = None \/ bui = None THEN x.codes["fwi"] ELSE isi \o bui
           codes == [ffmc |-> moisture("ffmc"), dmc |-> moisture("dmc"), dc |-> moisture("dc"),
                     isi |-> isi, bui |-> bui, fwi |-> fwi]
           new == [x EXCEPT !.codes = codes]
<1>1. Determinates!calculate_fwi_values(y, x) = new
  BY DEF Determinates!calculate_fwi_values
<1>2. /\ x.codes \in [SixCodes -> Chains(W)] /\ x.weather \in W /\ y.codes \in [SixCodes -> Chains(W)]
      /\ x.code \in C /\ x.day \in Int /\ x.determinate \in {"Actual", "Forecast"}
      /\ x = [code |-> x.code, day |-> x.day, determinate |-> x.determinate, weather |-> x.weather, codes |-> x.codes]
  BY DEF ForecastValues
<1>3. \A c \in SixCodes : x.codes[c] \in Seq(W) \union {None} /\ y.codes[c] \in Seq(W) \union {None}
  BY <1>2 DEF Chains
<1>4. "ffmc" \in SixCodes /\ "dmc" \in SixCodes /\ "dc" \in SixCodes /\ "isi" \in SixCodes /\ "bui" \in SixCodes
      /\ "fwi" \in SixCodes
  BY DEF SixCodes
<1>5. \A c \in SixCodes : moisture(c) \in Seq(W) \union {None}
  <2> SUFFICES ASSUME NEW c \in SixCodes PROVE moisture(c) \in Seq(W) \union {None}
    OBVIOUS
  <2>1. CASE y.codes[c] = None
    BY <1>3, <2>1
  <2>2. CASE y.codes[c] # None
    <3>1. y.codes[c] \in Seq(W)
      BY <1>3, <2>2
    <3>2. Append(y.codes[c], x.weather) \in Seq(W)
      BY <1>2, <3>1
    <3> QED
      BY <2>2, <3>2
  <2> QED
    BY <2>1, <2>2
<1>6. \A c : moisture(c) = IF y.codes[c] = None THEN x.codes[c] ELSE Append(y.codes[c], x.weather)
  OBVIOUS
<1> HIDE DEF moisture
<1>7. isi \in Seq(W) \union {None}
  <2>1. CASE moisture("ffmc") = None
    BY <1>3, <1>4, <2>1
  <2>2. CASE moisture("ffmc") # None
    <3>1. moisture("ffmc") \in Seq(W)
      BY <1>4, <1>5, <2>2
    <3>2. Append(moisture("ffmc"), x.weather) \in Seq(W)
      BY <1>2, <3>1
    <3> QED
      BY <2>2, <3>2
  <2> QED
    BY <2>1, <2>2
<1>8. bui \in Seq(W) \union {None}
  <2>1. CASE moisture("dmc") = None \/ moisture("dc") = None
    BY <1>3, <1>4, <2>1
  <2>2. CASE ~(moisture("dmc") = None \/ moisture("dc") = None)
    <3>1. moisture("dmc") \in Seq(W) /\ moisture("dc") \in Seq(W)
      BY <1>4, <1>5, <2>2
    <3>2. moisture("dmc") \o moisture("dc") \in Seq(W)
      BY <3>1
    <3> QED
      BY <2>2, <3>2
  <2> QED
    BY <2>1, <2>2
<1> HIDE DEF isi, bui
<1>9. fwi \in Seq(W) \union {None}
  <2>1. CASE isi = None \/ bui = None
    BY <1>3, <1>4, <2>1
  <2>2. CASE ~(isi = None \/ bui = None)
    <3>1. isi \in Seq(W) /\ bui \in Seq(W)
      BY <1>7, <1>8, <2>2
    <3>2. isi \o bui \in Seq(W)
      BY <3>1
    <3> QED
      BY <2>2, <3>2
  <2> QED
    BY <2>1, <2>2
<1> HIDE DEF fwi
<1>10. codes \in [SixCodes -> Chains(W)]
  <2>1. DOMAIN codes = SixCodes
    BY DEF SixCodes
  <2>2. \A c \in SixCodes : codes[c] \in Chains(W)
    BY <1>4, <1>5, <1>7, <1>8, <1>9 DEF SixCodes, Chains
  <2>3. codes = [c \in SixCodes |-> codes[c]]
    BY <2>1
  <2> HIDE DEF codes
  <2> QED
    BY <2>2, <2>3
<1>11. \A c \in {"ffmc", "dmc", "dc"} : codes[c] = moisture(c)
  OBVIOUS
<1> HIDE DEF codes
<1>12. new = [code |-> x.code, day |-> x.day, determinate |-> x.determinate, weather |-> x.weather, codes |-> codes]
  BY <1>2
<1> HIDE DEF new
<1>13. new \in ForecastValues(W, C) /\ new.code = x.code /\ new.day = x.day /\ new.determinate = x.determinate
       /\ new.weather = x.weather /\ new.codes = codes
  BY <1>2, <1>10, <1>12 DEF ForecastValues
<1>14. Continues(new, x, y)
  BY <1>6, <1>11, <1>13 DEF Continues
<1> QED
  BY <1>1, <1>13, <1>14

(* The values after get_fwi_values: each continues the one of the day      *)
(* before where that is earlier in the list.                               *)
AreCalculated(new, all, n, W, C) ==
  /\ new \in [1 .. n -> ForecastValues(W, C)]
  /\ \A i \in 1 .. n : /\ new[i].code = all[i].code /\ new[i].day = all[i].day
                       /\ new[i].determinate = all[i].determinate /\ new[i].weather = all[i].weather
  /\ \A i, j \in 1 .. n : j < i /\ all[j].code = all[i].code /\ all[j].day = all[i].day - 1 =>
                            Continues(new[i], all[i], new[j])

(* One turn of the loop.                                                   *)
Turn(x, i, all) ==
  LET y == Determinates!IndexOf(x, all[i].code, all[i].day - 1)
  IN IF y = 0 THEN x ELSE [x EXCEPT ![i] = Determinates!calculate_fwi_values(x[y], x[i])]

(* The values in the loop: up to k they are calculated.                    *)
UpTo(x, k, all, n, W, C) ==
  /\ x \in [1 .. n -> ForecastValues(W, C)]
  /\ \A i \in 1 .. n : /\ x[i].code = all[i].code /\ x[i].day = all[i].day
                       /\ x[i].determinate = all[i].determinate /\ x[i].weather = all[i].weather
  /\ \A i \in 1 .. n : i > k => x[i] = all[i]
  /\ \A i, j \in 1 .. n : i <= k /\ j < i /\ all[j].code = all[i].code /\ all[j].day = all[i].day - 1 =>
                            Continues(x[i], all[i], x[j])

(* Each turn leaves such values.                                           *)
LEMMA TurnIsTyped ==
  ASSUME NEW W, NEW C, NEW n \in Nat, NEW all, NEW i \in 1 .. n, NEW x \in [1 .. n -> ForecastValues(W, C)]
  PROVE  Turn(x, i, all) \in [1 .. n -> ForecastValues(W, C)]
<1> DEFINE y == Determinates!IndexOf(x, all[i].code, all[i].day - 1)
           v == Determinates!calculate_fwi_values(x[y], x[i])
<1>1. Turn(x, i, all) = IF y = 0 THEN x ELSE [x EXCEPT ![i] = v]
  BY DEF Turn
<1>2. y \in 0 .. n
  <2>1. DOMAIN x = 1 .. n
    OBVIOUS
  <2> QED
    BY <2>1, IndexIsPlace
<1>3. y # 0 => v \in ForecastValues(W, C)
  <2> SUFFICES ASSUME y # 0 PROVE v \in ForecastValues(W, C)
    OBVIOUS
  <2>1. y \in 1 .. n
    BY <1>2
  <2> HIDE DEF y
  <2>2. x[y] \in ForecastValues(W, C) /\ x[i] \in ForecastValues(W, C)
    BY <2>1
  <2> QED
    BY <2>2, CalculatedValue
<1> HIDE DEF y, v
<1> QED
  BY <1>1, <1>3

(* A turn calculates its value, from one that no later turn changes.       *)
LEMMA TurnCalculates ==
  ASSUME NEW W, NEW C, NEW n \in Nat, NEW a, NEW all, AreInTurn(all, n, a, W, C),
         NEW k \in Nat, k + 1 <= n, NEW x, UpTo(x, k, all, n, W, C)
  PROVE  UpTo(Turn(x, k + 1, all), k + 1, all, n, W, C)
<1> DEFINE m == k + 1
           y == Determinates!IndexOf(x, all[m].code, all[m].day - 1)
           v == Determinates!calculate_fwi_values(x[y], x[m])
           new == Turn(x, m, all)
<1>1. new = IF y = 0 THEN x ELSE [x EXCEPT ![m] = v]
  BY DEF Turn
<1>2. m \in 1 .. n /\ m \in Int /\ k \in Int /\ n \in Int /\ m = k + 1
  OBVIOUS
<1>3. /\ x \in [1 .. n -> ForecastValues(W, C)]
      /\ \A i \in 1 .. n : /\ x[i].code = all[i].code /\ x[i].day = all[i].day
                           /\ x[i].determinate = all[i].determinate /\ x[i].weather = all[i].weather
      /\ \A i \in 1 .. n : i > k => x[i] = all[i]
      /\ \A i, j \in 1 .. n : i <= k /\ j < i /\ all[j].code = all[i].code /\ all[j].day = all[i].day - 1 =>
                                Continues(x[i], all[i], x[j])
  BY DEF UpTo
<1>4. /\ all \in [1 .. n -> ForecastValues(W, C)]
      /\ \A i, j \in 1 .. n : all[i].code = all[j].code /\ all[i].day = all[j].day => i = j
  BY DEF AreInTurn
<1>5. /\ y \in 0 .. n
      /\ y # 0 => x[y].code = all[m].code /\ x[y].day = all[m].day - 1
      /\ \A i \in 1 .. n : x[i].code = all[m].code /\ x[i].day = all[m].day - 1 => y # 0
  <2> DEFINE code == all[m].code
             day == all[m].day - 1
  <2>1. DOMAIN x = 1 .. n
    BY <1>3
  <2>2. y = Determinates!IndexOf(x, code, day)
    OBVIOUS
  <2> HIDE DEF code, day, y
  <2>3. /\ y \in 0 .. n
        /\ y # 0 => x[y].code = code /\ x[y].day = day
        /\ \A i \in 1 .. n : x[i].code = code /\ x[i].day = day => y # 0
    BY <2>1, <2>2, IndexIsPlace
  <2> QED
    BY <2>3 DEF code, day
<1>6. new \in [1 .. n -> ForecastValues(W, C)]
  BY <1>2, <1>3, TurnIsTyped
<1>7. y # 0 => /\ v.code = x[m].code /\ v.day = x[m].day /\ v.determinate = x[m].determinate
               /\ v.weather = x[m].weather /\ Continues(v, x[m], x[y])
  <2> SUFFICES ASSUME y # 0
               PROVE  /\ v.code = x[m].code /\ v.day = x[m].day /\ v.determinate = x[m].determinate
                      /\ v.weather = x[m].weather /\ Continues(v, x[m], x[y])
    OBVIOUS
  <2>1. y \in 1 .. n
    BY <1>5
  <2> HIDE DEF y
  <2>2. x[y] \in ForecastValues(W, C) /\ x[m] \in ForecastValues(W, C)
    BY <1>2, <1>3, <2>1
  <2> HIDE DEF m
  <2> QED
    BY <2>2, CalculatedValue
<1> HIDE DEF new, v, y, m
<1>8. \A i \in 1 .. n : new[i] = IF i = m /\ y # 0 THEN v ELSE x[i]
  <2>1. CASE y = 0
    BY <1>1, <2>1
  <2>2. CASE y # 0
    <3>1. new = [x EXCEPT ![m] = v]
      BY <1>1, <2>2
    <3> QED
      BY <1>2, <1>3, <2>2, <3>1
  <2> QED
    BY <2>1, <2>2
<1>9. \A i \in 1 .. n : /\ new[i].code = all[i].code /\ new[i].day = all[i].day
                        /\ new[i].determinate = all[i].determinate /\ new[i].weather = all[i].weather
  BY <1>3, <1>7, <1>8
<1>10. ASSUME NEW i \in 1 .. n, i > m PROVE new[i] = all[i]
  <2>1. i # m /\ i > k
    BY <1>2, <1>10
  <2> QED
    BY <1>3, <1>8, <2>1
<1>11. ASSUME NEW i \in 1 .. n, NEW j \in 1 .. n, i <= m, j < i, all[j].code = all[i].code,
              all[j].day = all[i].day - 1
       PROVE  Continues(new[i], all[i], new[j])
  <2>1. CASE i = m
    <3>1. x[j].code = all[m].code /\ x[j].day = all[m].day - 1
      BY <1>3, <1>11, <2>1
    <3>2. y # 0
      BY <1>5, <3>1
    <3>3. y \in 1 .. n
      BY <1>5, <3>2
    <3>4. all[y].code = all[j].code /\ all[y].day = all[j].day
      BY <1>3, <1>5, <1>11, <2>1, <3>2, <3>3
    <3>5. y = j
      BY <1>4, <3>3, <3>4
    <3>6. j # m
      BY <1>11, <2>1
    <3>7. x[m] = all[m]
      BY <1>2, <1>3
    <3> QED
      BY <1>7, <1>8, <2>1, <3>2, <3>5, <3>6, <3>7
  <2>2. CASE i # m
    <3>1. i <= k /\ j # m
      BY <1>2, <1>11, <2>2
    <3>2. new[i] = x[i] /\ new[j] = x[j]
      BY <1>8, <2>2, <3>1
    <3> QED
      BY <1>3, <1>11, <3>1, <3>2
  <2> QED
    BY <2>1, <2>2
<1>12. UpTo(new, m, all, n, W, C)
  BY <1>6, <1>9, <1>10, <1>11 DEF UpTo
<1> QED
  BY <1>12 DEF new, m

(* What get_fwi_values answers with: the calculated values, the actuals and*)
(* the forecasts apart.                                                    *)
AnswersWith(pair, new, all, n) ==
  /\ pair[1] = Kept(new, {i \in 1 .. n : all[i].determinate = "Actual"})
  /\ pair[2] = Kept(new, {i \in 1 .. n : all[i].determinate = "Forecast"})

(* At the end all of them are calculated.                                  *)
LEMMA ValuesAreCalculated ==
  ASSUME NEW W, NEW C, NEW n, NEW a, NEW s, NEW t,
         NEW all, all = Determinates!InOrder(s, t), AreInTurn(all, n, a, W, C)
  PROVE  \E new : AreCalculated(new, all, n, W, C) /\ AnswersWith(Determinates!get_fwi_values(s, t), new, all, n)
<1>1. n \in Nat /\ all \in [1 .. n -> ForecastValues(W, C)]
  BY DEF AreInTurn
<1>2. DOMAIN all = 1 .. n /\ Len(all) = n
  BY <1>1, IsSequence
<1> DEFINE Loop(f) ==
             f = [m \in 0 .. Len(all) |->
                    IF m = 0 THEN all
                    ELSE LET so_far == f[m - 1]
                             y == Determinates!IndexOf(so_far, all[m].code, all[m].day - 1)
                         IN IF y = 0 THEN so_far
                            ELSE [so_far EXCEPT ![m] = Determinates!calculate_fwi_values(so_far[y], so_far[m])]]
           upTo == CHOOSE f : Loop(f)
           are(det) == Determinates!Kept(upTo[Len(all)], {i \in DOMAIN all : all[i].determinate = det})
           pair == Determinates!get_fwi_values(s, t)
<1>3. pair = <<are("Actual"), are("Forecast")>>
  BY DEF Determinates!get_fwi_values
<1>4. \A f : Loop(f) <=> f = [m \in 0 .. n |-> IF m = 0 THEN all ELSE Turn(f[m - 1], m, all)]
  BY <1>2 DEF Turn
<1>5. \E f : Loop(f)
  <2> DEFINE A == [1 .. n -> ForecastValues(W, C)]
             g == [x \in A \X (1 .. n) |-> Turn(x[1], x[2], all)]
  <2>1. \A x \in A, k \in 1 .. n : Turn(x, k, all) \in A
    BY <1>1, TurnIsTyped
  <2> HIDE DEF A
  <2>2. g \in [A \X (1 .. n) -> A]
    BY <2>1
  <2>3. \A x \in A, k \in 1 .. n : g[<<x, k>>] = Turn(x, k, all)
    OBVIOUS
  <2>4. all \in A
    BY <1>1 DEF A
  <2> HIDE DEF g
  <2>5. PICK st \in [0 .. n -> A] : Turns(st, n, all, g)
    BY <1>1, <2>2, <2>4, TurnsExist
  <2>6. st[0] = all /\ \A k \in 0 .. n - 1 : st[k + 1] = g[<<st[k], k + 1>>]
    BY <2>5 DEF Turns
  <2>7. ASSUME NEW m \in 0 .. n PROVE st[m] = IF m = 0 THEN all ELSE Turn(st[m - 1], m, all)
    <3>1. CASE m = 0
      BY <2>6, <3>1
    <3>2. CASE m # 0
      <4>1. m - 1 \in 0 .. n - 1 /\ m - 1 \in 0 .. n /\ m \in 1 .. n /\ (m - 1) + 1 = m
        BY <1>1, <3>2
      <4>2. st[m] = g[<<st[m - 1], m>>]
        BY <2>6, <4>1
      <4>3. st[m - 1] \in A
        BY <2>5, <4>1
      <4> QED
        BY <2>3, <3>2, <4>1, <4>2, <4>3
    <3> QED
      BY <3>1, <3>2
  <2>8. st = [m \in 0 .. n |-> IF m = 0 THEN all ELSE Turn(st[m - 1], m, all)]
    BY <2>5, <2>7
  <2> HIDE DEF Loop
  <2> QED
    BY <1>4, <2>8
<1>6. Loop(upTo)
  <2> HIDE DEF Loop
  <2> QED
    BY <1>5
<1>7. \A i \in DOMAIN all : i \in 1 .. n
  BY <1>2
<1>8. {i \in DOMAIN all : all[i].determinate = "Actual"} = {i \in 1 .. n : all[i].determinate = "Actual"}
      /\ {i \in DOMAIN all : all[i].determinate = "Forecast"} = {i \in 1 .. n : all[i].determinate = "Forecast"}
  BY <1>2
<1>9. are("Actual") = Kept(upTo[n], {i \in 1 .. n : all[i].determinate = "Actual"})
      /\ are("Forecast") = Kept(upTo[n], {i \in 1 .. n : all[i].determinate = "Forecast"})
  <2> HIDE DEF upTo
  <2> QED
    BY <1>2, <1>8, ListsOfWf1
<1>10. AnswersWith(pair, upTo[n], all, n)
  <2> HIDE DEF upTo, are, pair
  <2>1. pair[1] = are("Actual") /\ pair[2] = are("Forecast")
    BY <1>3
  <2> QED
    BY <1>9, <2>1 DEF AnswersWith
<1> HIDE DEF Loop, upTo, are, pair
<1>11. upTo = [m \in 0 .. n |-> IF m = 0 THEN all ELSE Turn(upTo[m - 1], m, all)]
  BY <1>4, <1>6
<1>12. upTo[0] = all /\ \A k \in Nat : k + 1 <= n => upTo[k + 1] = Turn(upTo[k], k + 1, all)
  <2>1. 0 \in 0 .. n
    BY <1>1
  <2>2. upTo[0] = all
    BY <1>11, <2>1
  <2>3. ASSUME NEW k \in Nat, k + 1 <= n PROVE upTo[k + 1] = Turn(upTo[k], k + 1, all)
    <3>1. k + 1 \in 0 .. n /\ k + 1 # 0 /\ (k + 1) - 1 = k
      BY <1>1, <2>3
    <3>2. \A m \in 0 .. n : m # 0 => upTo[m] = Turn(upTo[m - 1], m, all)
      BY <1>11
    <3>3. upTo[k + 1] = Turn(upTo[(k + 1) - 1], k + 1, all)
      BY <3>1, <3>2
    <3> QED
      BY <3>1, <3>3
  <2> QED
    BY <2>2, <2>3
<1> DEFINE P == {k \in Nat : k <= n => UpTo(upTo[k], k, all, n, W, C)}
<1>13. 0 \in P
  <2>1. UpTo(all, 0, all, n, W, C)
    BY <1>1 DEF UpTo
  <2> QED
    BY <1>12, <2>1
<1>14. ASSUME NEW k \in P PROVE k + 1 \in P
  <2> SUFFICES ASSUME k + 1 <= n PROVE UpTo(upTo[k + 1], k + 1, all, n, W, C)
    OBVIOUS
  <2>1. k \in Nat /\ k + 1 <= n /\ UpTo(upTo[k], k, all, n, W, C)
    BY <1>1
  <2>2. UpTo(Turn(upTo[k], k + 1, all), k + 1, all, n, W, C)
    BY <1>1, <2>1, TurnCalculates
  <2> QED
    BY <1>12, <2>1, <2>2
<1>15. P = Nat
  <2>1. P \in SUBSET Nat
    OBVIOUS
  <2> HIDE DEF P
  <2> QED
    BY <1>13, <1>14, <2>1, AllNumbers
<1>16. UpTo(upTo[n], n, all, n, W, C)
  <2>1. n \in P
    BY <1>1, <1>15
  <2> QED
    BY <1>1, <2>1
<1> HIDE DEF P
<1>17. AreCalculated(upTo[n], all, n, W, C)
  BY <1>1, <1>16 DEF UpTo, AreCalculated
<1> QED
  BY <1>10, <1>17 DEF pair

(* The rows of our forecasts have a time stamp, and one row of each.       *)
StampedOnce(rows) ==
  /\ \A r \in rows : r.stamp \in Int
  /\ \A r, x \in rows : r.code = x.code /\ r.day = x.day /\ r.stamp = x.stamp => r = x

IsList(x) == \E k \in Nat : x = [i \in 1 .. k |-> x[i]]

(* The values of an answer are calculated ones, and our forecasts the most *)
(* recent where there is an actual.                                        *)
PartsOf(answer, new, all, n, first, rows) ==
  /\ IsList(answer.actuals)
  /\ IsList(answer.forecasts)
  /\ \A i \in DOMAIN answer.actuals : \E p \in 1 .. n : answer.actuals[i] = new[p] /\ all[p].determinate = "Actual"
  /\ \A i \in DOMAIN answer.forecasts : \E p \in 1 .. n :
       answer.forecasts[i] = new[p] /\ all[p].determinate = "Forecast"
  /\ \A p \in 1 .. n : all[p].determinate = "Actual" /\ first <= new[p].day =>
       \E i \in DOMAIN answer.actuals : answer.actuals[i] = new[p]
  /\ \A r \in answer.ours :
       /\ r \in rows
       /\ \A x \in rows : x.code = r.code /\ x.day = r.day => x.stamp <= r.stamp
       /\ \E i \in DOMAIN answer.actuals : answer.actuals[i].code = r.code /\ answer.actuals[i].day = r.day

(* What is kept from a day on of what was kept.                            *)
KeepsSince(u, s, D, first) ==
  /\ IsList(u)
  /\ \A i \in DOMAIN u : \E p \in D : u[i] = s[p]
  /\ \A p \in D : first <= s[p].day => \E i \in DOMAIN u : u[i] = s[p]

(* They are the values from the first day on.                              *)
LEMMA KeptSince ==
  ASSUME NEW n \in Nat, NEW s, DOMAIN s = 1 .. n, NEW D \in SUBSET (1 .. n), NEW first
  PROVE  KeepsSince(Determinates!Kept(Kept(s, D), {i \in DOMAIN Kept(s, D) : first <= Kept(s, D)[i].day}), s, D, first)
<1> DEFINE t == Kept(s, D)
           ok(v) == first <= v.day
           E == {i \in DOMAIN t : ok(t[i])}
           u == Determinates!Kept(t, E)
<1>1. KeepsThose(t, s, D)
  BY KeptThose
<1> HIDE DEF t
<1>2. PICK k \in Nat : DOMAIN t = 1 .. k
  BY <1>1 DEF KeepsThose
<1>3. /\ \A i \in DOMAIN t : \E p \in D : t[i] = s[p]
      /\ \A p \in D : \E i \in DOMAIN t : t[i] = s[p]
  BY <1>1 DEF KeepsThose
<1>4. E \in SUBSET (1 .. k) /\ \A i \in E : i \in DOMAIN t
  BY <1>2
<1>5. \A i \in DOMAIN t : ok(t[i]) => i \in E
  OBVIOUS
<1> HIDE DEF E, ok
<1>6. KeepsThose(u, t, E)
  BY <1>2, <1>4, KeptThose
<1> HIDE DEF u
<1>7. /\ \E m \in Nat : DOMAIN u = 1 .. m
      /\ \A i \in DOMAIN u : \E j \in E : u[i] = t[j]
      /\ \A j \in E : \E i \in DOMAIN u : u[i] = t[j]
  BY <1>6 DEF KeepsThose
<1>10. IsList(u)
  <2>1. u = Kept(t, E)
    BY ListsOfWf1 DEF u
  <2>2. u = [i \in 1 .. Cardinality(E) |-> t[InTurn(E)[i]]]
    BY <2>1 DEF Kept
  <2>3. IsFiniteSet(E) /\ Cardinality(E) \in Nat
    BY <1>2, <1>4, AllOfThem
  <2> QED
    BY <2>2, <2>3 DEF IsList
<1>8. \A i \in DOMAIN u : \E p \in D : u[i] = s[p]
  BY <1>3, <1>4, <1>7
<1>9. \A p \in D : ok(s[p]) => \E i \in DOMAIN u : u[i] = s[p]
  BY <1>3, <1>5, <1>7
<1> QED
  BY <1>8, <1>9, <1>10 DEF u, t, E, ok, KeepsSince

(* An answer has these parts.                                              *)
LEMMA PartsOfAnswer ==
  ASSUME NEW n \in Nat, NEW new, DOMAIN new = 1 .. n, NEW all, NEW pair, AnswersWith(pair, new, all, n),
         NEW rows, NEW codes, NEW known, NEW first,
         NEW answer, answer = Determinates!AnswerOf(pair, rows, codes, known, first), answer # None
  PROVE  PartsOf(answer, new, all, n, first, rows)
<1> DEFINE since(list) == Determinates!Kept(list, {i \in DOMAIN list : first <= list[i].day})
           actuals == since(pair[1])
           forecasts == since(pair[2])
           days == {actuals[i].day : i \in DOMAIN actuals}
           from_db == IF days = {} THEN Determinates!get_forecasts(rows, None, None, codes)
                      ELSE Determinates!get_forecasts(rows, Determinates!Min(days), Determinates!Max(days), codes)
           whole == [actuals |-> actuals, forecasts |-> forecasts,
                     ours |-> Determinates!filter_for_api_forecasts(from_db, actuals)]
           A == {i \in 1 .. n : all[i].determinate = "Actual"}
           F == {i \in 1 .. n : all[i].determinate = "Forecast"}
<1>1. answer = whole
  <2>1. answer = IF \E r \in from_db : r.code \notin known THEN None ELSE whole
    BY DEF Determinates!AnswerOf
  <2> HIDE DEF whole, from_db
  <2> QED
    BY <2>1
<1>2. pair[1] = Kept(new, A) /\ pair[2] = Kept(new, F)
  BY DEF AnswersWith
<1>3. A \in SUBSET (1 .. n) /\ F \in SUBSET (1 .. n)
  OBVIOUS
<1>4. \A i : i \in A <=> i \in 1 .. n /\ all[i].determinate = "Actual"
  OBVIOUS
<1>5. \A i : i \in F <=> i \in 1 .. n /\ all[i].determinate = "Forecast"
  OBVIOUS
<1> HIDE DEF A, F
<1>6. KeepsSince(actuals, new, A, first) /\ KeepsSince(forecasts, new, F, first)
  BY <1>2, <1>3, KeptSince
<1> HIDE DEF actuals, forecasts
<1>7. /\ IsList(actuals)
      /\ \A i \in DOMAIN actuals : \E p \in A : actuals[i] = new[p]
      /\ \A p \in A : first <= new[p].day => \E i \in DOMAIN actuals : actuals[i] = new[p]
      /\ IsList(forecasts)
      /\ \A i \in DOMAIN forecasts : \E p \in F : forecasts[i] = new[p]
  BY <1>6 DEF KeepsSince
<1>8. \A r \in from_db : /\ r \in rows
                         /\ \A x \in rows : x.code = r.code /\ x.day = r.day => x.stamp <= r.stamp
  <2>1. \A a, b : \A r \in Determinates!get_forecasts(rows, a, b, codes) :
          r \in rows /\ \A x \in rows : x.code = r.code /\ x.day = r.day => x.stamp <= r.stamp
    BY DEF Determinates!get_forecasts
  <2> HIDE DEF days
  <2> QED
    BY <2>1
<1> HIDE DEF from_db, since
<1>9. answer.actuals = actuals /\ answer.forecasts = forecasts
      /\ answer.ours = Determinates!filter_for_api_forecasts(from_db, actuals)
  BY <1>1
<1>10. \A r \in answer.ours : r \in from_db /\ \E i \in DOMAIN actuals : actuals[i].code = r.code /\ actuals[i].day = r.day
  BY <1>9 DEF Determinates!filter_for_api_forecasts, Determinates!actual_exists
<1>11. \A p \in 1 .. n : all[p].determinate = "Actual" /\ first <= new[p].day =>
         \E i \in DOMAIN answer.actuals : answer.actuals[i] = new[p]
  BY <1>4, <1>7, <1>9
<1>12. \A i \in DOMAIN answer.actuals : \E p \in 1 .. n : answer.actuals[i] = new[p] /\ all[p].determinate = "Actual"
  BY <1>4, <1>7, <1>9
<1>13. \A i \in DOMAIN answer.forecasts : \E p \in 1 .. n :
         answer.forecasts[i] = new[p] /\ all[p].determinate = "Forecast"
  BY <1>5, <1>7, <1>9
<1> QED
  BY <1>7, <1>8, <1>9, <1>10, <1>11, <1>12, <1>13 DEF PartsOf

(* A list of such values is a sequence of them.                            *)
LEMMA ListIsSequence ==
  ASSUME NEW V, NEW x, IsList(x), NEW n, NEW new \in [1 .. n -> V], \A i \in DOMAIN x : \E q \in 1 .. n : x[i] = new[q]
  PROVE  x \in Seq(V) /\ Len(x) \in Nat /\ DOMAIN x = 1 .. Len(x)
<1>1. PICK k \in Nat : x = [i \in 1 .. k |-> x[i]]
  BY DEF IsList
<1>2. DOMAIN x = 1 .. k
  BY <1>1
<1>3. \A i \in 1 .. k : x[i] \in V
  BY <1>2
<1>4. x \in [1 .. k -> V]
  BY <1>1, <1>3
<1> QED
  BY <1>4, IsSequence

(* The answer about some days agrees with itself: a station has one        *)
(* forecast of a day or an actual with ours, the moisture codes of a       *)
(* forecast continue those that are shown of the day before, and the       *)
(* actuals that Morecast shows by themselves are among those of the answer.*)
THEOREM DeterminatesAreWhole ==
  ASSUME NEW W, NEW C, NEW N, NEW dailies, OneDailyEach(dailies, N, W, C), NEW rows, StampedOnce(rows),
         NEW codes, NEW known \in SUBSET codes, NEW first \in Int, NEW last,
         NEW answer,
         answer = Determinates!get_determinates_for_date_range(dailies, rows, codes, known, first, last),
         answer # None
  PROVE  /\ Determinates!OneForecastEach(answer)
         /\ Determinates!ForecastsContinue(answer)
         /\ Determinates!ObservedAreShown(answer, Determinates!get_observed_dailies(dailies, known, first, last))
<1> DEFINE raw == Determinates!DailiesOf(dailies, codes \intersect known, first - 1, last)
           s == Determinates!Mapped(raw, {"ACTUAL", "MANUAL"}, "Actual")
           t == Determinates!Mapped(raw, {"FORECAST"}, "Forecast")
           all == Determinates!InOrder(s, t)
           pair == Determinates!get_fwi_values(s, t)
           S == Selected(dailies, N, known, first - 1, last, {"ACTUAL", "MANUAL"})
<1>1. codes \intersect known = known
  OBVIOUS
<1>2. answer = Determinates!AnswerOf(pair, rows, codes, known, first)
  BY DEF Determinates!get_determinates_for_date_range, Determinates!weather_indeterminate_list_mapper
<1>3. PICK n, a : /\ AreInTurn(all, n, a, W, C)
                  /\ \A p \in S : \E i \in 1 .. a : /\ all[i].code = dailies[p].station.code
                                                    /\ all[i].day = dailies[p].day
  <2>1. AreAll(all, dailies, Selected(dailies, N, codes \intersect known, first - 1, last, {"ACTUAL", "MANUAL"}), W, C)
    BY AllAreInTurn
  <2>2. AreAll(all, dailies, S, W, C)
    BY <1>1, <2>1
  <2> HIDE DEF all, S
  <2> QED
    BY <2>2 DEF AreAll
<1>4. /\ n \in Nat /\ a \in 0 .. n /\ all \in [1 .. n -> ForecastValues(W, C)]
      /\ \A i \in 1 .. n : all[i].determinate = IF i <= a THEN "Actual" ELSE "Forecast"
      /\ \A i \in 1 .. n : i > a => \A c \in SixCodes : all[i].codes[c] = None
      /\ \A i, j \in 1 .. n : all[i].code = all[j].code /\ all[i].day = all[j].day => i = j
      /\ \A i, j \in 1 .. n : i > a /\ all[j].code = all[i].code /\ all[j].day = all[i].day - 1 => j < i
  BY <1>3 DEF AreInTurn
<1>5. PICK new : AreCalculated(new, all, n, W, C) /\ AnswersWith(pair, new, all, n)
  <2> HIDE DEF s, t
  <2> QED
    BY <1>3, ValuesAreCalculated
<1> HIDE DEF all, pair, s, t, raw
<1>6. /\ new \in [1 .. n -> ForecastValues(W, C)]
      /\ \A i \in 1 .. n : /\ new[i].code = all[i].code /\ new[i].day = all[i].day
                           /\ new[i].determinate = all[i].determinate /\ new[i].weather = all[i].weather
      /\ \A i, j \in 1 .. n : j < i /\ all[j].code = all[i].code /\ all[j].day = all[i].day - 1 =>
                                Continues(new[i], all[i], new[j])
  BY <1>5 DEF AreCalculated
<1>7. PartsOf(answer, new, all, n, first, rows)
  <2>1. DOMAIN new = 1 .. n
    BY <1>6
  <2> QED
    BY <1>2, <1>4, <1>5, <2>1, PartsOfAnswer
<1>8. /\ IsList(answer.actuals)
      /\ IsList(answer.forecasts)
      /\ \A i \in DOMAIN answer.actuals : \E p \in 1 .. n : answer.actuals[i] = new[p] /\ all[p].determinate = "Actual"
      /\ \A i \in DOMAIN answer.forecasts : \E p \in 1 .. n :
           answer.forecasts[i] = new[p] /\ all[p].determinate = "Forecast"
      /\ \A p \in 1 .. n : all[p].determinate = "Actual" /\ first <= new[p].day =>
           \E i \in DOMAIN answer.actuals : answer.actuals[i] = new[p]
      /\ \A r \in answer.ours :
           /\ r \in rows
           /\ \A x \in rows : x.code = r.code /\ x.day = r.day => x.stamp <= r.stamp
           /\ \E i \in DOMAIN answer.actuals : answer.actuals[i].code = r.code /\ answer.actuals[i].day = r.day
  BY <1>7 DEF PartsOf
<1>9. Determinates!OneForecastEach(answer)
  <2> SUFFICES ASSUME NEW f \in answer.ours
               PROVE  /\ \A i \in DOMAIN answer.forecasts :
                           <<answer.forecasts[i].code, answer.forecasts[i].day>> # <<f.code, f.day>>
                      /\ \A g \in answer.ours : <<g.code, g.day>> = <<f.code, f.day>> => g = f
    BY DEF Determinates!OneForecastEach
  <2>1. ASSUME NEW i \in DOMAIN answer.forecasts, answer.forecasts[i].code = f.code, answer.forecasts[i].day = f.day
        PROVE  FALSE
    <3>1. PICK p \in 1 .. n : answer.forecasts[i] = new[p] /\ all[p].determinate = "Forecast"
      BY <1>8
    <3>2. PICK j \in DOMAIN answer.actuals : answer.actuals[j].code = f.code /\ answer.actuals[j].day = f.day
      BY <1>8
    <3>3. PICK q \in 1 .. n : answer.actuals[j] = new[q] /\ all[q].determinate = "Actual"
      BY <1>8
    <3>4. all[p].code = all[q].code /\ all[p].day = all[q].day
      BY <1>6, <2>1, <3>1, <3>2, <3>3
    <3>5. p = q
      BY <1>4, <3>4
    <3> QED
      BY <3>1, <3>3, <3>5
  <2>2. ASSUME NEW g \in answer.ours, g.code = f.code, g.day = f.day PROVE g = f
    <3>1. g \in rows /\ f \in rows /\ g.stamp <= f.stamp /\ f.stamp <= g.stamp
      BY <1>8, <2>2
    <3>2. g.stamp \in Int /\ f.stamp \in Int
      BY <3>1 DEF StampedOnce
    <3>3. g.stamp = f.stamp
      BY <3>1, <3>2
    <3> QED
      BY <2>2, <3>1, <3>3 DEF StampedOnce
  <2> QED
    BY <2>1, <2>2
<1>10. Determinates!ForecastsContinue(answer)
  <2> DEFINE u == answer.actuals \o answer.forecasts
  <2> DEFINE k1 == Len(answer.actuals)
             k2 == Len(answer.forecasts)
  <2>3. k1 \in Nat /\ DOMAIN answer.actuals = 1 .. k1 /\ answer.actuals \in Seq(ForecastValues(W, C))
    <3> DEFINE x == answer.actuals
               V == ForecastValues(W, C)
    <3>1. IsList(x) /\ new \in [1 .. n -> V] /\ \A i \in DOMAIN x : \E q \in 1 .. n : x[i] = new[q]
      BY <1>6, <1>8
    <3> HIDE DEF x, V
    <3>2. x \in Seq(V) /\ Len(x) \in Nat /\ DOMAIN x = 1 .. Len(x)
      BY <3>1, ListIsSequence, Zenon
    <3> QED
      BY <3>2 DEF x, V
  <2>4. k2 \in Nat /\ DOMAIN answer.forecasts = 1 .. k2 /\ answer.forecasts \in Seq(ForecastValues(W, C))
    <3> DEFINE x == answer.forecasts
               V == ForecastValues(W, C)
    <3>1. IsList(x) /\ new \in [1 .. n -> V] /\ \A i \in DOMAIN x : \E q \in 1 .. n : x[i] = new[q]
      BY <1>6, <1>8
    <3> HIDE DEF x, V
    <3>2. x \in Seq(V) /\ Len(x) \in Nat /\ DOMAIN x = 1 .. Len(x)
      BY <3>1, ListIsSequence, Zenon
    <3> QED
      BY <3>2 DEF x, V
  <2>5. u \in Seq(ForecastValues(W, C)) /\ Len(u) = k1 + k2
        /\ \A i \in 1 .. k1 + k2 : u[i] = IF i <= k1 THEN answer.actuals[i] ELSE answer.forecasts[i - k1]
    <3> DEFINE x == answer.actuals
               z == answer.forecasts
    <3>1. x \in Seq(ForecastValues(W, C)) /\ z \in Seq(ForecastValues(W, C)) /\ Len(x) = k1 /\ Len(z) = k2
      BY <2>3, <2>4
    <3>3. u = x \o z
      OBVIOUS
    <3> HIDE DEF x, z, u, k1, k2
    <3>2. x \o z \in Seq(ForecastValues(W, C)) /\ Len(x \o z) = k1 + k2
          /\ \A i \in 1 .. k1 + k2 : (x \o z)[i] = IF i <= k1 THEN x[i] ELSE z[i - k1]
      BY <3>1, ConcatProperties
    <3>4. /\ u \in Seq(ForecastValues(W, C)) /\ Len(u) = k1 + k2
          /\ \A i \in 1 .. k1 + k2 : u[i] = IF i <= k1 THEN x[i] ELSE z[i - k1]
      BY <3>2, <3>3, Zenon
    <3> QED
      BY <3>4 DEF x, z
  <2>6. DOMAIN u = 1 .. k1 + k2
    <3> DEFINE V == ForecastValues(W, C)
    <3>1. u \in Seq(V) /\ Len(u) = k1 + k2
      BY <2>5
    <3> HIDE DEF V, u, k1, k2
    <3> DEFINE k == k1 + k2
    <3>2. Len(u) = k
      BY <3>1
    <3> HIDE DEF k
    <3>3. DOMAIN u = 1 .. k
      BY <3>1, <3>2
    <3> QED
      BY <3>3 DEF k
  <2> HIDE DEF u, k1, k2
  <2>7. ASSUME NEW y \in 1 .. k1 + k2 PROVE \E q \in 1 .. n : u[y] = new[q]
    <3>1. CASE y <= k1
      <4>2. y \in 1 .. k1
        BY <2>3, <2>4, <3>1
      <4>1. y \in DOMAIN answer.actuals /\ u[y] = answer.actuals[y]
        BY <2>3, <2>5, <3>1, <4>2
      <4> QED
        BY <1>8, <4>1
    <3>2. CASE ~(y <= k1)
      <4>1. y - k1 \in 1 .. k2
        BY <2>3, <2>4, <3>2
      <4>2. y - k1 \in DOMAIN answer.forecasts /\ u[y] = answer.forecasts[y - k1]
        BY <2>3, <2>4, <2>5, <3>2, <4>1
      <4> QED
        BY <1>8, <4>2
    <3> QED
      BY <3>1, <3>2
  <2> SUFFICES ASSUME NEW f \in Determinates!ToSet(answer.forecasts),
                      Determinates!IndexOf(u, f.code, f.day - 1) # 0, NEW c \in {"ffmc", "dmc", "dc"}
               PROVE  LET y == Determinates!IndexOf(u, f.code, f.day - 1)
                      IN f.codes[c] = IF u[y].codes[c] = None THEN None ELSE Append(u[y].codes[c], f.weather)
    BY DEF Determinates!ForecastsContinue, u
  <2> DEFINE y == Determinates!IndexOf(u, f.code, f.day - 1)
  <2>15. PICK i \in DOMAIN answer.forecasts : f = answer.forecasts[i]
    BY ListsOfWf1
  <2>8. PICK p \in 1 .. n : f = new[p] /\ all[p].determinate = "Forecast"
    BY <1>8, <2>15
  <2>9. y \in 1 .. k1 + k2 /\ u[y].code = new[p].code /\ u[y].day = new[p].day - 1
    <3> DEFINE code == new[p].code
               day == new[p].day - 1
    <3>1. k1 + k2 \in Nat /\ y = Determinates!IndexOf(u, code, day) /\ y # 0
      BY <2>3, <2>4, <2>8
    <3> DEFINE k == k1 + k2
    <3> HIDE DEF code, day, y, k
    <3>2. DOMAIN u = 1 .. k /\ k \in Nat
      BY <2>6, <3>1 DEF k
    <3>4. y \in 0 .. k /\ (y # 0 => u[y].code = code /\ u[y].day = day)
      BY <3>1, <3>2, IndexIsPlace
    <3>3. y \in 1 .. k1 + k2
      BY <3>1, <3>4 DEF k
    <3> QED
      BY <3>1, <3>3, <3>4 DEF code, day
  <2> HIDE DEF y
  <2>10. PICK q \in 1 .. n : u[y] = new[q]
    BY <2>7, <2>9
  <2>11. all[q].code = all[p].code /\ all[q].day = all[p].day - 1 /\ p > a
    BY <1>4, <1>6, <2>8, <2>9, <2>10
  <2>12. q < p
    BY <1>4, <2>11
  <2>13. Continues(new[p], all[p], new[q])
    BY <1>6, <2>11, <2>12
  <2>14. all[p].codes[c] = None /\ all[p].weather = new[p].weather
    BY <1>4, <1>6, <2>11 DEF SixCodes
  <2> QED
    BY <2>8, <2>10, <2>13, <2>14 DEF Continues, y
<1>11. Determinates!ObservedAreShown(answer, Determinates!get_observed_dailies(dailies, known, first, last))
  <2> DEFINE B == {p \in 1 .. N : Determinates!BuildQueryDailiesByStationCode(dailies[p], first, last, known)}
             its == Determinates!DailiesOf(dailies, known, first, last)
             observed == Determinates!get_observed_dailies(dailies, known, first, last)
  <2>1. N \in Nat /\ DOMAIN dailies = 1 .. N /\ \A p \in 1 .. N : dailies[p].day \in Int
    BY DEF OneDailyEach
  <2>2. KeepsThose(its, dailies, B)
    <3>1. its = Determinates!Kept(dailies, B)
      BY <2>1 DEF Determinates!DailiesOf
    <3>2. B \in SUBSET (1 .. N)
      OBVIOUS
    <3> HIDE DEF B, its
    <3> QED
      BY <2>1, <3>1, <3>2, KeptThose
  <2> DEFINE E == {i \in DOMAIN its : Determinates!is_station_valid(its[i].station) /\ its[i].type = "ACTUAL"}
  <2>3. observed = Determinates!Kept(its, E)
    BY DEF Determinates!get_observed_dailies, Determinates!dailies_list_mapper
  <2>4. \A p \in B : /\ p \in 1 .. N
                     /\ Determinates!BuildQueryDailiesByStationCode(dailies[p], first, last, known)
    OBVIOUS
  <2> HIDE DEF B, its, observed
  <2>5. PICK m \in Nat : DOMAIN its = 1 .. m
    BY <2>2 DEF KeepsThose
  <2>6. E \in SUBSET (1 .. m)
    BY <2>5
  <2>7. KeepsThose(observed, its, E)
    <3> HIDE DEF E
    <3> QED
      BY <2>3, <2>5, <2>6, KeptThose
  <2> SUFFICES ASSUME NEW i \in DOMAIN observed
               PROVE  \E x \in Determinates!ToSet(answer.actuals) :
                        x.code = observed[i].station.code /\ x.day = observed[i].day
    BY ListsOfWf1 DEF Determinates!ObservedAreShown, observed
  <2>8. PICK j \in E : observed[i] = its[j]
    BY <2>7 DEF KeepsThose
  <2>9. j \in DOMAIN its /\ Determinates!is_station_valid(its[j].station) /\ its[j].type = "ACTUAL"
    OBVIOUS
  <2>10. PICK p \in B : its[j] = dailies[p]
    BY <2>2, <2>9 DEF KeepsThose
  <2>11. /\ dailies[p].station.id \in known /\ first <= dailies[p].day /\ dailies[p].day <= last
         /\ dailies[p].day \in Int /\ p \in 1 .. N
    BY <2>1, <2>4 DEF Determinates!BuildQueryDailiesByStationCode
  <2>12. p \in S
    <3>1. first - 1 <= dailies[p].day
      BY <2>11
    <3>2. Determinates!BuildQueryDailiesByStationCode(dailies[p], first - 1, last, known)
      BY <2>11, <3>1 DEF Determinates!BuildQueryDailiesByStationCode
    <3> QED
      BY <2>9, <2>10, <2>11, <3>2 DEF Selected
  <2> HIDE DEF S, E
  <2>13. PICK q \in 1 .. a : all[q].code = dailies[p].station.code /\ all[q].day = dailies[p].day
    BY <1>3, <2>12
  <2>14. q \in 1 .. n /\ all[q].determinate = "Actual"
    BY <1>4
  <2>15. new[q].code = dailies[p].station.code /\ new[q].day = dailies[p].day
    BY <1>6, <2>13, <2>14
  <2>16. PICK z \in DOMAIN answer.actuals : answer.actuals[z] = new[q]
    BY <1>8, <2>11, <2>14, <2>15
  <2> QED
    BY <2>8, <2>10, <2>15, <2>16, ListsOfWf1
<1> QED
  BY <1>9, <1>10, <1>11

===============================================================================
