---------------------------- MODULE ClosedLoop_proofs ----------------------------
(***************************************************************************)
(* What is proved of PowerControl, against a meter that may show anything, *)
(* holds in every house. With one converter the request the loop remembers *)
(* is the one the cloud holds, every decision makes progress, and a house  *)
(* once balanced stays so.                                                 *)
(***************************************************************************)
EXTENDS ClosedLoop, PowerControlRefinement_proofs, Induction

-----------------------------------------------------------------------------
(* The house                                                               *)

(* The open controller knows any power and any reading.                    *)
Unrestricted == Watts = Nat /\ Readings = Reading

AvailType == avail \in [Ecoflow -> Nat]
LoadType == load \in Nat
HouseType == TypeOK /\ AvailType /\ LoadType

(* What a converter yields is a power.                                     *)
LEMMA YieldIsPower ==
    ASSUME NEW c \in Ecoflow, TypeOK, AvailType
    PROVE  Yields[c] \in Nat
  BY DEF Yields, AtMost, TypeOK, AvailType

LEMMA AvailInit == LoopInit => AvailType
  BY PlantAssumption DEF LoopInit, AvailType

LEMMA AvailNext == AvailType /\ [LoopNext]_loopedVars => AvailType'
  <1> SUFFICES ASSUME AvailType, [LoopNext]_loopedVars PROVE AvailType'
    OBVIOUS
  <1>1. CASE UNCHANGED avail
    BY <1>1 DEF AvailType
  <1>2. CASE \E c \in Ecoflow, w \in Avails : AvailChanges(c, w)
    BY <1>2, PlantAssumption DEF AvailChanges, AvailType
  <1> QED
    BY <1>1, <1>2
    DEF LoopNext, LoopStep, Measure, Wait, Recover, LoadChanges, FaultyStep, CalmDown,
        plantVars, loopedVars

LEMMA LoadKept ==
    /\ LoopInit => LoadType
    /\ LoadType /\ [LoopNext]_loopedVars => LoadType'
  <1>1. LoopInit => LoadType
    BY PlantAssumption DEF LoopInit, LoadType
  <1>2. LoadType /\ [LoopNext]_loopedVars => LoadType'
    BY PlantAssumption
    DEF LoopNext, LoopStep, Measure, Wait, Recover, LoadChanges, AvailChanges, FaultyStep,
        CalmDown, plantVars, loopedVars, LoadType
  <1> QED
    BY <1>1, <1>2

(* What all converters yield is a power, so that what the meter shows is a *)
(* reading.                                                                *)
LEMMA EcoflowFinite == IsFiniteSet(Ecoflow)
  <1> DEFINE n == Len(EcoflowSeq)
  <1>1. EcoflowSeq \in Seq(Ecoflow)
    BY ConverterAssumption
  <1>2. n \in Nat /\ DOMAIN EcoflowSeq = 1..n /\ IsFiniteSet(1..n)
    BY <1>1, LenProperties, FS_Interval
  <1>3. EcoflowSeq \in Surjection(1..n, Ecoflow)
    BY <1>1, <1>2 DEF Surjection, Ecoflow, ToSet
  <1> QED
    BY <1>2, <1>3, FS_Surjection

LEMMA ExchangeIsReading ==
    ASSUME HouseType
    PROVE  /\ Yielded \in Nat /\ Net \in Int
           /\ MeterShows \subseteq Reading
  <1>1. DOMAIN Yields = Ecoflow /\ \A c \in Ecoflow : Yields[c] \in Nat
    BY YieldIsPower DEF HouseType, Yields
  <1>2. Yielded \in Nat
    <2>1. 0 \in Nat /\ \A a, b \in Nat : a + b \in Nat
      OBVIOUS
    <2>2. IsFiniteSet(DOMAIN Yields) /\ \A c \in DOMAIN Yields : Yields[c] \in Nat
      BY <1>1, EcoflowFinite
    <2>3. SumFunction(Yields) \in Nat
      BY <2>1, <2>2, SumStaysIn
    <2> QED
      BY <2>3 DEF Yielded
  <1>3. Net \in Int
    BY <1>2 DEF Net, HouseType, LoadType
  <1> QED
    BY <1>2, <1>3 DEF MeterShows, Reading

-----------------------------------------------------------------------------
(* Every step of the closed loop is one of the open controller             *)

LEMMA LoopStepOpen ==
    ASSUME Unrestricted, TypeOK, AvailType, LoopStep
    PROVE  Next
  <1>1. CASE Decide \/ Limit \/ EndSet \/ EndRefresh
    BY <1>1 DEF Next, Apply, Refresh
  <1>2. ASSUME NEW c \in Ecoflow, SetPower(c)
        PROVE  Next
    BY <1>2 DEF Next, Apply, Converters
  <1>3. ASSUME NEW c \in Ecoflow, QueryAnswered(c, Yields[c])
        PROVE  Next
    <2>1. Yields[c] \in Watts \cup {0}
      BY YieldIsPower DEF Unrestricted
    <2> QED
      BY <1>3, <2>1 DEF Next, Refresh, Converters
  <1>4. ASSUME NEW c \in Marstek, SetPowerNoEffect(c) \/ QueryUnsupported(c)
        PROVE  Next
    BY <1>4 DEF Next, Apply, Refresh, Converters
  <1>5. ASSUME NEW c \in Converters, NothingLeft(c)
        PROVE  Next
    BY <1>5 DEF Next, Apply
  <1> QED
    BY <1>1, <1>2, <1>3, <1>4, <1>5 DEF LoopStep, Reliable

LEMMA FaultyStepOpen ==
    ASSUME FaultyStep
    PROVE  Next
  <1>1. ASSUME NEW c \in Ecoflow, NEW w \in Watts, AppSetsDemand(c, w)
        PROVE  Next
    BY <1>1 DEF Next, Environment
  <1>2. ASSUME NEW c \in Ecoflow, SetPowerNoEffect(c)
        PROVE  Next
    BY <1>2 DEF Next, Apply, Converters
  <1>3. ASSUME NEW c \in Ecoflow, QueryFailed(c)
        PROVE  Next
    BY <1>3 DEF Next, Refresh, Converters
  <1>4. ASSUME NEW c \in Ecoflow, NEW d \in Watts, QueryAnswered(c, d)
        PROVE  Next
    BY <1>4 DEF Next, Refresh, Converters
  <1>5. CASE Crash
    BY <1>5 DEF Next, Environment
  <1> QED
    BY <1>1, <1>2, <1>3, <1>4, <1>5 DEF FaultyStep

LEMMA LoopNextOpen ==
    ASSUME Unrestricted, HouseType, [LoopNext]_loopedVars
    PROVE  [Next]_vars
  <1>1. CASE LoopStep
    BY <1>1, LoopStepOpen DEF HouseType
  <1>2. CASE Measure
    BY <1>2, ExchangeIsReading DEF Unrestricted, Measure, Next, Environment
  <1>3. CASE Wait \/ Recover
    BY <1>3 DEF Wait, Recover, Next, Environment
  <1>4. CASE FaultyStep
    BY <1>4, FaultyStepOpen
  <1>5. CASE UNCHANGED vars
    BY <1>5
  <1> QED
    BY <1>1, <1>2, <1>3, <1>4, <1>5
    DEF LoopNext, LoadChanges, AvailChanges, CalmDown, loopedVars

-----------------------------------------------------------------------------
(* The controller in any house                                             *)

LEMMA HouseTypeHolds ==
    ASSUME Unrestricted
    PROVE  LoopSpec => []HouseType
<1>1. LoopInit => HouseType
  BY InitType, AvailInit, LoadKept DEF LoopInit, HouseType
<1>2. HouseType /\ [LoopNext]_loopedVars => HouseType'
  <2>1. HouseType /\ [LoopNext]_loopedVars => TypeOK'
    BY LoopNextOpen, NextType DEF HouseType
  <2> QED
    BY <2>1, AvailNext, LoadKept DEF HouseType
<1> QED
  BY <1>1, <1>2, PTL DEF LoopSpec

(* The closed loop takes no step the open controller does not.             *)
LEMMA OpenLoop ==
  ASSUME Unrestricted PROVE LoopSpec => Spec
<1>1. LoopInit => Init
  BY DEF LoopInit
<1>2. HouseType /\ [LoopNext]_loopedVars => [Next]_vars
  BY LoopNextOpen
<1> QED
  BY <1>1, <1>2, HouseTypeHolds, PTL DEF LoopSpec, Spec

(* In any house what is sent lies within limits in force while the event   *)
(* was processed. (mqtt.go:281-291, energy_device.go:11-16)                *)
THEOREM LimitsInHouse ==
  ASSUME Unrestricted PROVE LoopSpec => []WithinLimitsInForce
  BY OpenLoop, LimitsInForceCorrect, PTL

-----------------------------------------------------------------------------
(* Readings that show the house                                            *)

(* The house looks as before while nobody touches it.                      *)
LEMMA SameHouse ==
    ASSUME UNCHANGED <<demand, avail, load>>
    PROVE  UNCHANGED <<Yields, Yielded, Net, MeterShows, TotalDemand>>
  <1>1. UNCHANGED Yields
    BY DEF Yields
  <1>2. UNCHANGED <<Yielded, TotalDemand>>
    BY <1>1 DEF Yielded, TotalDemand
  <1>3. UNCHANGED Net
    BY <1>2 DEF Net
  <1> QED
    BY <1>1, <1>2, <1>3 DEF MeterShows

AllFresh == \A k \in 1..Len(inbox) : inbox[k] \in MeterShows

LEMMA TailFresh ==
    ASSUME TypeOK, AllFresh, UNCHANGED MeterShows,
           UNCHANGED inbox \/ (inbox # <<>> /\ inbox' = Tail(inbox))
    PROVE  AllFresh'
  <1>1. inbox \in Seq(Readings)
    BY DEF TypeOK
  <1>2. CASE UNCHANGED inbox
    BY <1>2 DEF AllFresh
  <1>3. CASE inbox # <<>> /\ inbox' = Tail(inbox)
    <2>1. /\ Len(inbox) \in Nat \ {0} /\ Len(inbox') = Len(inbox) - 1
          /\ \A k \in 1..Len(inbox') : inbox'[k] = inbox[k + 1]
      BY <1>1, <1>3, HeadTailProperties, EmptySeq, LenProperties
    <2> QED
      BY <2>1 DEF AllFresh
  <1> QED
    BY <1>2, <1>3

(* What a house with a steady file never lets go of.                       *)
LEMMA LoopInvariants ==
    ASSUME Unrestricted, Edits = {}
    PROVE  LoopSpec => []HouseType /\ []RefinementInvariant
  <1>1. Spec => []RefinementInvariant
    BY RefinementCorrect
  <1>2. LoopSpec => Spec
    BY OpenLoop
  <1> QED
    BY <1>1, <1>2, HouseTypeHolds, PTL

-----------------------------------------------------------------------------
(* A balanced house                                                        *)

(* The sum of one value is the value.                                      *)
LEMMA SumOfOne ==
    ASSUME NEW c, NEW f, DOMAIN f = {c}, f[c] \in Int
    PROVE  SumFunction(f) = f[c]
  <1>1. IsFiniteSet(DOMAIN f)
    BY FS_Singleton
  <1>2. PICK sum : /\ SumFunction(f) = sum[DOMAIN f] /\ sum[{}] = 0
                   /\ \A s \in SUBSET DOMAIN f :
                         s # {} => \E x \in s : sum[s] = f[x] + sum[s \ {x}]
    BY <1>1, SumEquation
  <1>3. {c} \ {c} = {}
    OBVIOUS
  <1>4. \E x \in {c} : sum[{c}] = f[x] + sum[{c} \ {x}]
    BY <1>2
  <1>5. sum[{c}] = f[c] + 0
    BY <1>2, <1>3, <1>4
  <1> QED
    BY <1>2, <1>5

SingleConverter == Len(EcoflowSeq) = 1

LEMMA OnlyOne ==
    ASSUME SingleConverter
    PROVE  \E c : Ecoflow = {c}
  <1>1. EcoflowSeq \in Seq(Ecoflow)
    BY ConverterAssumption
  <1>2. DOMAIN EcoflowSeq = {1}
    BY <1>1 DEF SingleConverter
  <1>3. Ecoflow = {EcoflowSeq[1]}
    BY <1>2 DEF Ecoflow, ToSet
  <1> QED
    BY <1>3

(* With one converter the sums are its request and what it yields.         *)
LEMMA HouseOfOne ==
    ASSUME HouseType, NEW c, Ecoflow = {c}
    PROVE  /\ demand[c] \in Nat /\ avail[c] \in Nat /\ load \in Nat
           /\ TotalDemand = demand[c] /\ Yielded = AtMost(demand[c], avail[c])
           /\ Net = load - Yielded /\ Yielded \in Nat /\ Net \in Int
  <1>1. /\ DOMAIN demand = {c} /\ demand[c] \in Nat /\ avail[c] \in Nat /\ load \in Nat
    BY DEF HouseType, TypeOK, AvailType, LoadType
  <1>2. TotalDemand = demand[c]
    BY <1>1, SumOfOne DEF TotalDemand
  <1>3. /\ DOMAIN Yields = {c} /\ Yields[c] = AtMost(demand[c], avail[c]) /\ Yields[c] \in Nat
    BY <1>1 DEF Yields, AtMost
  <1>4. Yielded = Yields[c]
    BY <1>3, SumOfOne DEF Yielded
  <1> QED
    BY <1>1, <1>2, <1>3, <1>4 DEF Net

(* Whatever the loop does in a balanced house leaves it balanced: it knows *)
(* the house, or nothing, wherever it is; the readings that wait show the  *)
(* house; and what it sends asks for more than is available, as what it    *)
(* replaces did.                                                           *)
Settled ==
    /\ calm /\ pc # "down" /\ Balanced
    /\ TotalDemand \in cfg.base..cfg.upper
    /\ AllFresh
    /\ pc = "idle" => currentRequested = 0 \/ Remembered
    /\ pc = "refresh" =>
          /\ AtMostOneIn(todo)
          /\ IF \E i \in 1..Len(todo) : todo[i] \in Ecoflow
             THEN currentRequested = 0 /\ currentDelivered = 0
             ELSE currentRequested = 0 \/ Remembered
    /\ pc \in Computing => Remembered /\ \E r \in MeterShows : Event = Aligned(r)
    /\ Sending =>
          /\ Net > cfg.interm /\ Yielded < TotalDemand /\ Yielded < call.new
          /\ call.new \in cfg.base..cfg.upper

(* A house nobody touches stays as it is; only the loop's place changes.   *)
LEMMA SettledHouse ==
    ASSUME HouseType, Settled, UNCHANGED <<demand, avail, load, cfg, calm>>,
           UNCHANGED inbox \/ (inbox # <<>> /\ inbox' = Tail(inbox))
    PROVE  /\ calm' /\ Balanced' /\ (TotalDemand \in cfg.base..cfg.upper)' /\ AllFresh'
           /\ UNCHANGED <<Yielded, Net, MeterShows, TotalDemand>>
           /\ UNCHANGED <<currentRequested, currentDelivered>> => Remembered' = Remembered
  <1>1. UNCHANGED <<Yielded, Net, MeterShows, TotalDemand>>
    BY SameHouse
  <1>2. Balanced' /\ (TotalDemand \in cfg.base..cfg.upper)'
    BY <1>1 DEF Settled, Balanced
  <1>3. AllFresh'
    BY <1>1, TailFresh DEF HouseType, Settled
  <1> QED
    BY <1>1, <1>2, <1>3 DEF Settled, Remembered

(* A decision that is sent, in a balanced house, asks for more than is     *)
(* available: all other readings of the house end at the standing request. *)
LEMMA SettledDecision ==
    ASSUME SingleConverter, HouseType, RefinementInvariant, Settled, pc = "announce", ToBeSent
    PROVE  /\ Net > cfg.interm /\ Yielded < TotalDemand /\ Yielded < call.new
           /\ call.new \in cfg.base..cfg.upper
  <1> DEFINE D == TotalDemand
             Y == Yielded
  <1>1. PICK c : Ecoflow = {c}
    BY OnlyOne
  <1>2. /\ D \in Nat /\ Y \in Nat /\ Net \in Int /\ Y <= D
    BY <1>1, HouseOfOne DEF AtMost
  <1>3. /\ cfg.base \in Int /\ cfg.upper \in Int /\ cfg.interm \in Nat
        /\ cfg.base <= D /\ D <= cfg.upper
    BY <1>2, FieldsType DEF HouseType, TypeOK, Settled
  <1>4. /\ currentRequested = D /\ currentDelivered = Y
        /\ call.new # D
    BY DEF Settled, Computing, Remembered, ToBeSent
  <1>5. PICK r \in MeterShows : Event = Aligned(r)
    BY DEF Settled, Computing
  <1>6. Event = IF Net >= 0 THEN [power |-> Net, out |-> 0] ELSE [power |-> 0, out |-> -Net]
    BY <1>2, <1>5 DEF MeterShows, Aligned
  <1>7. IF Net >= 0 THEN call.power = Net /\ call.out = 0
                    ELSE call.power = 0 /\ call.out = -Net
    BY <1>6 DEF Event
  <1> DEFINE target == Regulator!Target(Event)
  <1>8. /\ cfg = Loaded(file) /\ target \in Int
        /\ call.out > 0 => target = D - call.out
        /\ call.out = 0 /\ call.power > cfg.interm => target = Y + call.power - cfg.interm
        /\ call.out = 0 /\ call.power <= cfg.interm => target = D
    BY <1>4, TargetType, SteadyFacts DEF HouseType, RefinementInvariant, Computing
  <1>9. call.new = AtLeast(AtMost(target, cfg.upper), cfg.base)
    BY DEF RefinementInvariant, DecisionSoFar
  <1>10. \/ Net \in 0..cfg.interm
         \/ Net > cfg.interm /\ (D = cfg.upper \/ Y < D)
         \/ Net < 0 /\ D = cfg.base
    BY DEF Settled, Balanced
  <1> HIDE DEF D, Y, target
  <1>11. Net > cfg.interm
    <2>1. CASE Net \in 0..cfg.interm
      <3>1. target = D
        BY <1>2, <1>3, <1>7, <1>8, <2>1
      <3> QED
        BY <1>2, <1>3, <1>4, <1>9, <3>1 DEF AtLeast, AtMost
    <2>2. CASE Net < 0 /\ D = cfg.base
      <3>1. target < cfg.base
        BY <1>2, <1>3, <1>7, <1>8, <2>2
      <3> QED
        BY <1>2, <1>3, <1>4, <1>8, <1>9, <2>2, <3>1 DEF AtLeast, AtMost
    <2> QED
      BY <1>2, <1>3, <1>10, <2>1, <2>2
  <1>12. target = Y + Net - cfg.interm
    BY <1>2, <1>3, <1>7, <1>8, <1>11
  <1>13. Y < D
    <2> SUFFICES ASSUME Y = D
                 PROVE  FALSE
      BY <1>2
    <2>1. D = cfg.upper /\ target > cfg.upper
      BY <1>2, <1>3, <1>10, <1>11, <1>12
    <2> QED
      BY <1>2, <1>3, <1>4, <1>8, <1>9, <2>1 DEF AtLeast, AtMost
  <1>14. Y < call.new /\ call.new \in cfg.base..cfg.upper
    BY <1>2, <1>3, <1>8, <1>9, <1>11, <1>12, <1>13 DEF AtLeast, AtMost
  <1> QED
    BY <1>11, <1>13, <1>14 DEF D, Y

(* The converter is asked for more than it can yield, and yields as before.*)
LEMMA SettledSetPower ==
    ASSUME SingleConverter, HouseType, RefinementInvariant, Settled, NEW c \in Ecoflow,
           SetPower(c), UNCHANGED plantVars
    PROVE  Settled'
  <1>1. Ecoflow = {c}
    BY OnlyOne
  <1>2. /\ pc = "set" /\ pc' = "set" /\ call.rest > 0
        /\ call' = [call EXCEPT !.rest = @ - ReportedSet(c, @)]
        /\ demand' = [demand EXCEPT ![c] = call.rest]
        /\ UNCHANGED <<cfg, inbox, load, avail, calm>>
    BY DEF SetPower, VisitNext, Asked, watchVars, plantVars
  <1>3. /\ call \in Call /\ call.new \in Int /\ demand \in [Ecoflow -> Nat]
        /\ cfg.base \in Int /\ cfg.upper \in Int /\ cfg.interm \in Nat
    BY FieldsType DEF HouseType, TypeOK
  <1>4. call'.new = call.new
    BY <1>2, <1>3 DEF Call
  <1>5. /\ Net > cfg.interm /\ Yielded < TotalDemand /\ Yielded < call.new
        /\ call.new \in cfg.base..cfg.upper
    BY <1>2 DEF Settled, Sending
  <1>6. call.rest = call.new
    BY <1>2, <1>3, <1>5 DEF RefinementInvariant, OrderOutstanding, AtMost
  <1>7. call.new \in Nat /\ demand' \in [Ecoflow -> Nat] /\ demand'[c] = call.new
    BY <1>1, <1>2, <1>3, <1>5, <1>6
  <1>8. /\ demand[c] \in Nat /\ avail[c] \in Nat /\ load \in Nat
        /\ TotalDemand = demand[c] /\ Yielded = AtMost(demand[c], avail[c])
        /\ Net = load - Yielded /\ Yielded \in Nat /\ Net \in Int
    BY <1>1, HouseOfOne
  <1>9. TotalDemand' = demand'[c]
    BY <1>1, <1>7, SumOfOne DEF TotalDemand
  <1>10. Yielded' = AtMost(demand'[c], avail[c])
    <2>1. DOMAIN Yields' = {c} /\ Yields'[c] = AtMost(demand'[c], avail[c])
      BY <1>1, <1>2 DEF Yields
    <2>2. Yields'[c] \in Int
      BY <1>7, <1>8, <2>1 DEF AtMost
    <2> QED
      BY <2>1, <2>2, SumOfOne DEF Yielded
  <1>11. Yielded' = Yielded /\ Yielded' < TotalDemand'
    BY <1>5, <1>7, <1>8, <1>9, <1>10 DEF AtMost
  <1>12. Net' = Net
    BY <1>2, <1>11 DEF Net
  <1>13. Balanced' /\ AllFresh'
    BY <1>2, <1>5, <1>11, <1>12 DEF Balanced, Settled, AllFresh, MeterShows
  <1> QED
    BY <1>2, <1>4, <1>5, <1>7, <1>9, <1>11, <1>12, <1>13 DEF Settled, Sending, Computing

(* What the loop asks the converter it hears, and hears the house.         *)
LEMMA SettledQuery ==
    ASSUME SingleConverter, HouseType, Settled, NEW c, QueryNext(c),
           UNCHANGED plantVars,
           \/ c \in Ecoflow /\ QueryAnswered(c, Yields[c])
           \/ c \in Marstek /\ QueryUnsupported(c)
    PROVE  Settled'
  <1>1. /\ pc = "refresh" /\ pc' = "refresh" /\ todo # <<>> /\ c = Head(todo)
        /\ todo' = Tail(todo) /\ todo \in Seq(Converters)
        /\ UNCHANGED <<call, demand, avail, load, cfg, calm, inbox>>
    BY DEF QueryNext, watchVars, plantVars, HouseType, TypeOK
  <1>2. c = todo[1] /\ 1 \in 1..Len(todo)
    BY <1>1, HeadTailProperties, EmptySeq, LenProperties
  <1>3. /\ calm' /\ Balanced' /\ (TotalDemand \in cfg.base..cfg.upper)' /\ AllFresh'
        /\ UNCHANGED <<Yielded, TotalDemand>>
        /\ UNCHANGED <<currentRequested, currentDelivered>> => Remembered' = Remembered
    BY <1>1, SettledHouse
  <1>4. AtMostOneIn(todo)
    BY <1>1 DEF Settled
  <1>5. /\ AtMostOneIn(todo')
        /\ c \in Ecoflow => \A i \in 1..Len(todo') : todo'[i] \notin Ecoflow
        /\ (\E i \in 1..Len(todo') : todo'[i] \in Ecoflow) =>
              \E i \in 1..Len(todo) : todo[i] \in Ecoflow
    BY <1>1, <1>4, TailVisitedOnce
  <1>6. CASE c \in Ecoflow /\ QueryAnswered(c, Yields[c])
    <2>1. currentRequested = 0 /\ currentDelivered = 0
      BY <1>1, <1>2, <1>6 DEF Settled
    <2>2. Ecoflow = {c}
      BY <1>6, OnlyOne
    <2>3. demand[c] = TotalDemand /\ Yields[c] = Yielded /\ TotalDemand \in Nat /\ Yielded \in Nat
      BY <2>2, HouseOfOne DEF Yields
    <2>4. currentRequested' = TotalDemand /\ currentDelivered' = Yielded
      BY <1>6, <2>1, <2>3 DEF QueryAnswered
    <2>5. Remembered'
      BY <1>3, <2>4 DEF Remembered
    <2> QED
      BY <1>1, <1>3, <1>5, <1>6, <2>5 DEF Settled, Sending, Computing
  <1>7. CASE c \in Marstek /\ QueryUnsupported(c)
    <2>1. c \notin Ecoflow /\ UNCHANGED <<currentRequested, currentDelivered>>
      BY <1>7, ConverterAssumption DEF QueryUnsupported
    <2>2. Remembered' = Remembered
      BY <1>3, <2>1
    <2>3. IF \E i \in 1..Len(todo') : todo'[i] \in Ecoflow
          THEN currentRequested' = 0 /\ currentDelivered' = 0
          ELSE currentRequested' = 0 \/ Remembered'
      BY <1>1, <1>5, <2>1, <2>2 DEF Settled
    <2> QED
      BY <1>1, <1>3, <1>5, <2>3 DEF Settled, Sending, Computing
  <1> QED
    BY <1>6, <1>7

LEMMA SettledDecide ==
    ASSUME SingleConverter, HouseType, RefinementInvariant, Settled, Decide, UNCHANGED plantVars
    PROVE  Settled'
  <1>1. /\ UNCHANGED <<demand, avail, load, cfg, calm>>
        /\ UNCHANGED inbox \/ (inbox # <<>> /\ inbox' = Tail(inbox))
    BY DEF Decide, SkipEvent, StartRefresh, TakeEvent, AimBelowExport, SeeImport, AimAtImport,
        KeepRequest, CheckUpper, TakeUpper, CheckBase, TakeBase, Settle, Announce, Compute,
        watchVars, plantVars
  <1>2. /\ calm' /\ Balanced' /\ (TotalDemand \in cfg.base..cfg.upper)' /\ AllFresh'
        /\ UNCHANGED <<Yielded, Net, MeterShows, TotalDemand>>
        /\ UNCHANGED <<currentRequested, currentDelivered>> => Remembered' = Remembered
    BY <1>1, SettledHouse
  <1>3. call \in Call /\ inbox \in Seq(Readings)
    BY DEF HouseType, TypeOK
  <1>4. CASE SkipEvent
    <2>1. /\ pc' = "refresh" /\ todo' \in VisitOrders
          /\ currentRequested' = 0 /\ currentDelivered' = 0
      BY <1>4 DEF SkipEvent, StartRefresh
    <2>2. AtMostOneIn(todo')
      BY <2>1, VisitedOnce DEF SingleConverter
    <2> QED
      BY <1>2, <2>1, <2>2 DEF Settled, Sending, Computing
  <1>5. CASE TakeEvent
    <2> DEFINE r == Head(inbox)
    <2>1. /\ pc = "idle" /\ pc' = "aim" /\ inbox # <<>> /\ currentRequested # 0
          /\ call'.power = Aligned(r).power /\ call'.out = Aligned(r).out
          /\ UNCHANGED <<currentRequested, currentDelivered>>
      BY <1>5 DEF TakeEvent, Disregarded
    <2>2. r = inbox[1] /\ 1 \in 1..Len(inbox) /\ r \in Readings
      BY <1>3, <2>1, HeadTailProperties, EmptySeq, LenProperties, ElementOfSeq
    <2>3. r \in MeterShows
      BY <2>2 DEF Settled, AllFresh
    <2>4. Event' = Aligned(r)
      BY <2>1, <2>2, AlignedType DEF Event
    <2>5. Remembered'
      BY <1>2, <2>1 DEF Settled
    <2>6. \E s \in MeterShows : Event' = Aligned(s)
      BY <2>3, <2>4
    <2> HIDE DEF r
    <2>7. (\E s \in MeterShows : Event = Aligned(s))'
      BY <1>2, <2>6 DEF Aligned
    <2> QED
      BY <1>2, <2>1, <2>5, <2>7 DEF Settled, Sending, Computing
  <1>6. CASE \/ AimBelowExport \/ SeeImport \/ AimAtImport \/ KeepRequest
             \/ CheckUpper \/ TakeUpper \/ CheckBase \/ TakeBase
    <2>1. /\ pc \in Computing /\ pc' \in Computing
          /\ call'.power = call.power /\ call'.out = call.out
          /\ UNCHANGED <<currentRequested, currentDelivered>>
      BY <1>3, <1>6 DEF AimBelowExport, SeeImport, AimAtImport, KeepRequest, CheckUpper,
          TakeUpper, CheckBase, TakeBase, Compute, Computing, Call
    <2>2. Event' = Event
      BY <2>1 DEF Event
    <2>3. Remembered'
      BY <1>2, <2>1 DEF Settled
    <2>4. (\E s \in MeterShows : Event = Aligned(s))'
      BY <1>2, <2>1, <2>2 DEF Settled, Aligned
    <2> QED
      BY <1>2, <2>1, <2>3, <2>4 DEF Settled, Sending, Computing
  <1>7. CASE Settle
    <2>1. /\ pc = "announce" /\ pc' = "idle" /\ UNCHANGED <<currentRequested, currentDelivered>>
      BY <1>7 DEF Settle
    <2>2. Remembered'
      BY <1>2, <2>1 DEF Settled, Computing
    <2> QED
      BY <1>2, <2>1, <2>2 DEF Settled, Sending, Computing
  <1>8. CASE Announce
    <2>1. pc = "announce" /\ ToBeSent /\ pc' = "floor" /\ call'.new = call.new
      BY <1>3, <1>8 DEF Announce, Call
    <2>2. /\ Net > cfg.interm /\ Yielded < TotalDemand /\ Yielded < call.new
          /\ call.new \in cfg.base..cfg.upper
      BY <2>1, SettledDecision
    <2> QED
      BY <1>1, <1>2, <2>1, <2>2 DEF Settled, Sending, Computing
  <1> QED
    BY <1>4, <1>5, <1>6, <1>7, <1>8 DEF Decide

(* Sending a request of which nothing comes, or starting to forget it,     *)
(* leaves the house alone.                                                 *)
LEMMA SettledSending ==
    ASSUME SingleConverter, HouseType, Settled, UNCHANGED plantVars,
           \/ Limit \/ EndSet
           \/ \E c \in Marstek : SetPowerNoEffect(c)
           \/ \E c \in Converters : NothingLeft(c)
    PROVE  Settled'
  <1>1. call \in Call
    BY DEF HouseType, TypeOK
  <1>2. /\ UNCHANGED <<demand, avail, load, cfg, calm, inbox>>
        /\ \/ StartRefresh
           \/ Sending /\ Sending' /\ call'.new = call.new
    BY <1>1 DEF Limit, EndSet, StillRealtime, NoLongerRealtime, TakeFloor, ExceedsCap, WithinCap,
        TakeCap, Compute, Visit, SetPowerNoEffect, NothingLeft, VisitNext, Asked, Sending,
        StartRefresh, watchVars, plantVars, Call
  <1>3. /\ calm' /\ Balanced' /\ (TotalDemand \in cfg.base..cfg.upper)' /\ AllFresh'
        /\ UNCHANGED <<Yielded, Net, TotalDemand>>
    BY <1>2, SettledHouse
  <1>4. CASE StartRefresh
    <2>1. /\ pc' = "refresh" /\ todo' \in VisitOrders
          /\ currentRequested' = 0 /\ currentDelivered' = 0
      BY <1>4 DEF StartRefresh
    <2>2. AtMostOneIn(todo')
      BY <2>1, VisitedOnce DEF SingleConverter
    <2> QED
      BY <1>3, <2>1, <2>2 DEF Settled, Sending, Computing
  <1>5. CASE Sending /\ Sending' /\ call'.new = call.new
    BY <1>2, <1>3, <1>5 DEF Settled, Sending, Computing
  <1> QED
    BY <1>2, <1>4, <1>5

LEMMA SettledNext ==
    ASSUME SingleConverter, HouseType, RefinementInvariant, Settled, [LoopNext]_loopedVars
    PROVE  Settled'
  <1>1. CASE LoopStep
    <2>1. CASE EndRefresh
      <3>1. /\ pc = "refresh" /\ pc' = "idle" /\ todo = <<>>
            /\ UNCHANGED <<currentRequested, currentDelivered, demand, avail, load, cfg, calm, inbox>>
        BY <1>1, <2>1 DEF LoopStep, EndRefresh, watchVars, plantVars
      <3>2. currentRequested = 0 \/ Remembered
        BY <3>1 DEF Settled
      <3> QED
        BY <3>1, <3>2, SettledHouse DEF Settled, Sending, Computing
    <2>2. ASSUME NEW c \in Ecoflow, QueryAnswered(c, Yields[c])
          PROVE  Settled'
      BY <1>1, <2>2, SettledQuery DEF LoopStep, QueryAnswered
    <2>3. ASSUME NEW c \in Marstek, QueryUnsupported(c)
          PROVE  Settled'
      BY <1>1, <2>3, SettledQuery DEF LoopStep, QueryUnsupported
    <2>4. ASSUME NEW c \in Ecoflow, SetPower(c)
          PROVE  Settled'
      BY <1>1, <2>4, SettledSetPower DEF LoopStep
    <2>5. CASE \/ Limit \/ EndSet
               \/ \E c \in Marstek : SetPowerNoEffect(c)
               \/ \E c \in Converters : NothingLeft(c)
      BY <1>1, <2>5, SettledSending DEF LoopStep
    <2>6. CASE Decide
      BY <1>1, <2>6, SettledDecide DEF LoopStep
    <2> QED
      BY <1>1, <2>1, <2>2, <2>3, <2>4, <2>5, <2>6 DEF LoopStep, Reliable
  <1>2. CASE Measure
    <2>1. PICK r \in MeterShows : MeterMessage(r)
      BY <1>2 DEF Measure
    <2>2. /\ inbox' = Append(inbox, r)
          /\ UNCHANGED <<pc, todo, call, currentRequested, currentDelivered, demand, avail, load,
                         cfg, calm>>
      BY <1>2, <2>1 DEF Measure, MeterMessage, loopVars, watchVars
    <2>3. inbox \in Seq(Readings)
      BY DEF HouseType, TypeOK
    <2>4. /\ Len(inbox) \in Nat /\ Len(inbox') = Len(inbox) + 1
          /\ \A k \in 1..Len(inbox) : inbox'[k] = inbox[k]
          /\ inbox'[Len(inbox) + 1] = r
      BY <2>2, <2>3
    <2>5. UNCHANGED <<Yielded, Net, MeterShows, TotalDemand>>
      BY <2>2, SameHouse
    <2>6. AllFresh'
      BY <2>1, <2>4, <2>5 DEF Settled, AllFresh
    <2>7. Balanced' /\ Remembered' = Remembered /\ Event' = Event
      BY <2>2, <2>5 DEF Settled, Balanced, Remembered, Event
    <2>8. pc \in Computing => (\E s \in MeterShows : Event = Aligned(s))'
      BY <2>5, <2>7 DEF Settled, Aligned
    <2> QED
      BY <2>2, <2>5, <2>6, <2>7, <2>8 DEF Settled, Sending, Computing
  <1>3. CASE Wait \/ UNCHANGED loopedVars
    <2>1. UNCHANGED <<pc, todo, call, currentRequested, currentDelivered, demand, avail, load,
                      cfg, calm, inbox>>
      BY <1>3 DEF Wait, Tick, loopedVars, plantVars, vars, loopVars, watchVars
    <2>2. /\ calm' /\ Balanced' /\ (TotalDemand \in cfg.base..cfg.upper)' /\ AllFresh'
          /\ UNCHANGED <<Yielded, Net, MeterShows, TotalDemand>>
          /\ Remembered' = Remembered
      BY <2>1, SettledHouse
    <2>3. Event' = Event
      BY <2>1 DEF Event
    <2>4. pc \in Computing => (\E s \in MeterShows : Event = Aligned(s))'
      BY <2>2, <2>3 DEF Settled, Aligned
    <2> QED
      BY <2>1, <2>2, <2>4 DEF Settled, Sending, Computing
  <1> QED
    BY <1>1, <1>2, <1>3
    DEF LoopNext, Settled, Recover, Restart, LoadChanges, AvailChanges, FaultyStep, CalmDown,
        Disturbed

LEMMA RestIsSettled == AtRest /\ Balanced => Settled
  BY DEF AtRest, Settled, AllFresh, Remembered, Sending, Computing

(* A house with one converter, once it is balanced and the loop waits with *)
(* a true memory or none, stays balanced for good, whatever the load, the  *)
(* limits, what the converter can yield and the number of readings.        *)
(* (mqtt.go:264-308)                                                       *)
THEOREM BalanceKept ==
    ASSUME Unrestricted, Edits = {}, SingleConverter
    PROVE  LoopSpec => StaysBalanced
  <1>1. HouseType /\ RefinementInvariant /\ Settled /\ [LoopNext]_loopedVars => Settled'
    BY SettledNext
  <1>2. AtRest /\ Balanced => Settled
    BY RestIsSettled
  <1>3. Settled => Balanced
    BY DEF Settled
  <1> QED
    BY <1>1, <1>2, <1>3, LoopInvariants, PTL DEF LoopSpec, StaysBalanced

-----------------------------------------------------------------------------
(* What is remembered                                                      *)

(* While the converter is still to be queried nothing is summed up; from   *)
(* the answer on until the next request the sum is the request, or zero.   *)
MemoryTrue ==
    /\ RequestKnown
    /\ pc = "refresh" =>
          /\ AtMostOneIn(todo)
          /\ IF \E i \in 1..Len(todo) : todo[i] \in Ecoflow
             THEN currentRequested = 0
             ELSE currentRequested \in {0, TotalDemand}
    /\ pc = "down" => currentRequested = 0

(* A loop over the plugins queries one converter and then the next.        *)
LEMMA MemoryQuery ==
    ASSUME SingleConverter, HouseType, MemoryTrue, NEW c, QueryNext(c),
           \/ \E d : QueryAnswered(c, d)
           \/ QueryFailed(c) \/ QueryUnsupported(c)
    PROVE  MemoryTrue'
  <1>1. /\ pc = "refresh" /\ pc' = "refresh" /\ todo # <<>> /\ c = Head(todo)
        /\ todo' = Tail(todo) /\ todo \in Seq(Converters) /\ UNCHANGED demand
    BY DEF QueryNext, HouseType, TypeOK
  <1>2. c = todo[1] /\ 1 \in 1..Len(todo)
    BY <1>1, HeadTailProperties, EmptySeq, LenProperties
  <1>3. UNCHANGED TotalDemand
    BY <1>1 DEF TotalDemand
  <1>4. /\ AtMostOneIn(todo')
        /\ c \in Ecoflow => \A i \in 1..Len(todo') : todo'[i] \notin Ecoflow
        /\ (\E i \in 1..Len(todo') : todo'[i] \in Ecoflow) =>
              \E i \in 1..Len(todo) : todo[i] \in Ecoflow
    BY <1>1, TailVisitedOnce DEF MemoryTrue
  <1>5. ASSUME NEW d, QueryAnswered(c, d)
        PROVE  MemoryTrue'
    <2>1. c \in Ecoflow /\ currentRequested' = currentRequested + demand[c]
      BY <1>5 DEF QueryAnswered
    <2>2. currentRequested = 0
      BY <1>1, <1>2, <2>1 DEF MemoryTrue
    <2>3. Ecoflow = {c}
      BY <2>1, OnlyOne
    <2>4. demand[c] = TotalDemand /\ demand[c] \in Nat
      BY <2>3, HouseOfOne
    <2>5. currentRequested' = TotalDemand'
      BY <1>3, <2>1, <2>2, <2>4
    <2> QED
      BY <1>1, <1>4, <2>1, <2>5 DEF MemoryTrue, RequestKnown
  <1>6. CASE QueryFailed(c) \/ QueryUnsupported(c)
    <2>1. UNCHANGED currentRequested
      BY <1>6 DEF QueryFailed, QueryUnsupported
    <2>2. (\A i \in 1..Len(todo) : todo[i] \notin Ecoflow) => currentRequested \in {0, TotalDemand}
      BY <1>1 DEF MemoryTrue
    <2>3. (\E i \in 1..Len(todo) : todo[i] \in Ecoflow) => currentRequested = 0
      BY <1>1 DEF MemoryTrue
    <2> QED
      BY <1>1, <1>3, <1>4, <2>1, <2>2, <2>3 DEF MemoryTrue, RequestKnown
  <1> QED
    BY <1>5, <1>6

LEMMA MemoryNext ==
    ASSUME SingleConverter, "app" \notin Disturbances, HouseType, MemoryTrue,
           [LoopNext]_loopedVars
    PROVE  MemoryTrue'
  <1>1. CASE StartRefresh
    <2>1. pc' = "refresh" /\ todo' \in VisitOrders /\ currentRequested' = 0
      BY <1>1 DEF StartRefresh
    <2>2. AtMostOneIn(todo')
      BY <2>1, VisitedOnce DEF SingleConverter
    <2> QED
      BY <2>1, <2>2 DEF MemoryTrue, RequestKnown
  <1>2. CASE /\ pc \notin {"set", "refresh", "down"} /\ pc' \notin {"refresh", "down"}
             /\ UNCHANGED <<currentRequested, demand>>
    <2>1. UNCHANGED TotalDemand
      BY <1>2 DEF TotalDemand
    <2> QED
      BY <1>2, <2>1 DEF MemoryTrue, RequestKnown
  <1>3. CASE pc' = "set"
    BY <1>3 DEF MemoryTrue, RequestKnown
  <1>4. CASE UNCHANGED <<pc, todo, currentRequested, demand>>
    <2>1. UNCHANGED TotalDemand
      BY <1>4 DEF TotalDemand
    <2> QED
      BY <1>4, <2>1 DEF MemoryTrue, RequestKnown
  <1>5. ASSUME NEW c, NEW d, QueryAnswered(c, d)
        PROVE  MemoryTrue'
    BY <1>5, MemoryQuery DEF QueryAnswered
  <1>6. ASSUME NEW c, QueryFailed(c) \/ QueryUnsupported(c)
        PROVE  MemoryTrue'
    BY <1>6, MemoryQuery DEF QueryFailed, QueryUnsupported
  <1>7. CASE EndRefresh
    <2>1. /\ pc = "refresh" /\ pc' = "idle" /\ todo = <<>>
          /\ UNCHANGED <<currentRequested, demand>>
      BY <1>7 DEF EndRefresh
    <2>2. UNCHANGED TotalDemand
      BY <2>1 DEF TotalDemand
    <2>3. currentRequested \in {0, TotalDemand}
      BY <2>1 DEF MemoryTrue
    <2> QED
      BY <2>1, <2>2, <2>3 DEF MemoryTrue, RequestKnown
  <1>8. CASE Crash \/ Recover
    BY <1>8 DEF Crash, Recover, Restart, MemoryTrue, RequestKnown
  <1>9. Decide \/ Limit \/ EndSet => StartRefresh \/ <1>2!1
    BY DEF Decide, SkipEvent, TakeEvent, AimBelowExport, SeeImport, AimAtImport, KeepRequest,
        CheckUpper, TakeUpper, CheckBase, TakeBase, Settle, Announce, Limit, StillRealtime,
        NoLongerRealtime, TakeFloor, ExceedsCap, WithinCap, TakeCap, EndSet, Compute, Visit
  <1>10. \A c : SetPower(c) \/ SetPowerNoEffect(c) \/ NothingLeft(c) => pc' = "set"
    BY DEF SetPower, SetPowerNoEffect, NothingLeft, VisitNext
  <1>11. CASE LoopStep
    BY <1>1, <1>2, <1>3, <1>5, <1>6, <1>7, <1>9, <1>10, <1>11 DEF LoopStep, Reliable
  <1>12. CASE FaultyStep
    BY <1>3, <1>5, <1>6, <1>8, <1>10, <1>12 DEF FaultyStep, Disturbed
  <1> QED
    BY <1>4, <1>8, <1>11, <1>12
    DEF LoopNext, Measure, MeterMessage, Wait, Tick, LoadChanges, AvailChanges, CalmDown, vars,
        loopVars, loopedVars

(* With one converter that nobody else controls the loop remembers the     *)
(* request the cloud holds, or none, wherever it waits or decides, for all *)
(* loads, limits, windows, readings and disturbances other than the app.   *)
(* (mqtt.go:306-307, energy_device.go:38-55, ecoflow.go:148-153)           *)
THEOREM MemoryCorrect ==
    ASSUME Unrestricted, SingleConverter, "app" \notin Disturbances
    PROVE  LoopSpec => []RequestKnown
  <1>1. LoopInit => MemoryTrue
    BY DEF LoopInit, Init, MemoryTrue, RequestKnown
  <1>2. HouseType /\ MemoryTrue /\ [LoopNext]_loopedVars => MemoryTrue'
    BY MemoryNext
  <1>3. MemoryTrue => RequestKnown
    BY DEF MemoryTrue
  <1> QED
    BY <1>1, <1>2, <1>3, HouseTypeHolds, PTL DEF LoopSpec

-----------------------------------------------------------------------------
(* Every decision makes progress                                           *)

(* What is sent is still the decision on the event and the memory it was   *)
(* made on.                                                                *)
OrderIsDecision ==
    Sending => call.new = AtLeast(AtMost(Regulator!Target(Event), cfg.upper), cfg.base)

LEMMA OrderStaysDecision ==
    ASSUME Edits = {}, TypeOK, RefinementInvariant, OrderIsDecision, [Next]_vars
    PROVE  OrderIsDecision'
  <1> DEFINE decision == AtLeast(AtMost(Regulator!Target(Event), cfg.upper), cfg.base)
  <1>1. /\ ~Reload /\ UNCHANGED file
        /\ pc # "down" /\ pc' # "down" => UNCHANGED cfg
    BY ConfigStaysSteady DEF RefinementInvariant
  <1>2. call \in Call
    BY DEF TypeOK
  <1>3. ASSUME UNCHANGED <<cfg, file, currentRequested, currentDelivered>>,
               call'.power = call.power, call'.out = call.out
        PROVE  decision' = decision
    <2>1. Event' = Event
      BY <1>3 DEF Event
    <2>2. Regulator!Target(Event)' = Regulator!Target(Event)
      BY <1>3, <2>1 DEF Regulator!Target
    <2> QED
      BY <1>3, <2>2
  <1>4. CASE Announce
    <2>1. /\ pc = "announce" /\ pc' # "down" /\ call'.new = call.new
          /\ call'.power = call.power /\ call'.out = call.out
          /\ UNCHANGED <<currentRequested, currentDelivered>>
      BY <1>2, <1>4 DEF Announce, Call
    <2>2. call.new = decision
      BY <2>1 DEF RefinementInvariant, DecisionSoFar
    <2>3. decision' = decision
      BY <1>1, <1>3, <2>1
    <2> QED
      BY <2>1, <2>2, <2>3 DEF OrderIsDecision
  <1>5. CASE Limit \/ Apply
    <2>1. \/ StartRefresh
          \/ /\ Sending /\ pc # "down" /\ pc' # "down"
             /\ call'.new = call.new /\ call'.power = call.power /\ call'.out = call.out
             /\ UNCHANGED <<currentRequested, currentDelivered>>
      BY <1>2, <1>5 DEF Limit, Apply, EndSet, StillRealtime, NoLongerRealtime, TakeFloor,
          ExceedsCap, WithinCap, TakeCap, Compute, Visit, SetPower, SetPowerNoEffect, NothingLeft,
          VisitNext, Asked, Sending, StartRefresh, Call
    <2>2. CASE StartRefresh
      BY <2>2 DEF StartRefresh, OrderIsDecision, Sending
    <2>3. CASE ~StartRefresh
      <3>1. decision' = decision
        BY <1>1, <1>3, <2>1, <2>3
      <3> QED
        BY <2>1, <2>3, <3>1 DEF OrderIsDecision
    <2> QED
      BY <2>2, <2>3
  <1>6. CASE (Decide /\ ~Announce) \/ Refresh \/ Crash \/ Restart
    <2>1. ~Sending'
      BY <1>6 DEF Decide, SkipEvent, StartRefresh, TakeEvent, AimBelowExport, SeeImport,
          AimAtImport, KeepRequest, CheckUpper, TakeUpper, CheckBase, TakeBase, Settle, Compute,
          Refresh, QueryAnswered, QueryFailed, QueryUnsupported, QueryNext, EndRefresh, Crash,
          Restart, Sending
    <2> QED
      BY <2>1 DEF OrderIsDecision
  <1>7. CASE (Environment /\ ~Crash /\ ~Restart) \/ UNCHANGED vars
    <2>1. UNCHANGED <<pc, call, currentRequested, currentDelivered>>
      BY <1>7 DEF Environment, MeterMessage, ChangeFile, AppSetsDemand, Tick, loopVars, vars
    <2>2. Sending => decision' = decision
      BY <1>1, <1>3, <2>1 DEF Sending
    <2> QED
      BY <2>1, <2>2 DEF OrderIsDecision, Sending
  <1> QED
    BY <1>1, <1>4, <1>5, <1>6, <1>7 DEF Next

(* The decision of an informed loop, in numbers.                           *)
LEMMA InformedDecision ==
    ASSUME HouseType, RefinementInvariant, OrderIsDecision, Informed, NEW c, Ecoflow = {c},
           pc = "announce" \/ Sending
    PROVE  LET D == TotalDemand
               Y == Yielded
               target == IF Net < 0 THEN D + Net
                         ELSE IF Net > cfg.interm THEN load - cfg.interm ELSE D
           IN  /\ call.new = AtLeast(AtMost(target, cfg.upper), cfg.base)
               /\ currentRequested = D /\ D = demand[c] /\ Y = AtMost(D, avail[c])
               /\ Net = load - Y /\ target \in Int
               /\ D \in Nat /\ avail[c] \in Nat /\ load \in Nat /\ Y \in Nat
               /\ cfg.base \in Int /\ cfg.upper \in Int /\ cfg.interm \in Nat
  <1>1. /\ demand[c] \in Nat /\ avail[c] \in Nat /\ load \in Nat
        /\ TotalDemand = demand[c] /\ Yielded = AtMost(demand[c], avail[c])
        /\ Net = load - Yielded /\ Yielded \in Nat /\ Net \in Int
    BY HouseOfOne
  <1>2. /\ cfg = Loaded(file) /\ cfg.base \in Int /\ cfg.upper \in Int
        /\ cfg.interm \in Nat
    BY SteadyFacts DEF HouseType, RefinementInvariant, Sending
  <1>3. currentRequested = TotalDemand /\ currentDelivered = Yielded
    BY DEF Informed, Remembered
  <1>4. PICK r \in MeterShows : Event = Aligned(r)
    BY DEF Informed, Event
  <1>5. Event = IF Net >= 0 THEN [power |-> Net, out |-> 0] ELSE [power |-> 0, out |-> -Net]
    BY <1>1, <1>4 DEF MeterShows, Aligned
  <1>6. Regulator!Target(Event) =
            IF Net < 0 THEN TotalDemand + Net
            ELSE IF Net > cfg.interm THEN load - cfg.interm ELSE TotalDemand
    BY <1>1, <1>2, <1>3, <1>5 DEF Regulator!Target
  <1>7. call.new = AtLeast(AtMost(Regulator!Target(Event), cfg.upper), cfg.base)
    BY DEF RefinementInvariant, DecisionSoFar, OrderIsDecision
  <1> QED
    BY <1>1, <1>2, <1>3, <1>6, <1>7

(* A decision is withheld when it is what is requested already; then there *)
(* is no reason, or no means, to change the exchange.                      *)
LEMMA WithheldIfBalanced ==
    ASSUME SingleConverter, HouseType, RefinementInvariant, OrderIsDecision, Informed,
           0 < cfg.base, cfg.base <= cfg.upper, Settle
    PROVE  Balanced
  <1> DEFINE D == TotalDemand
             target == IF Net < 0 THEN D + Net
                       ELSE IF Net > cfg.interm THEN load - cfg.interm ELSE D
  <1>1. PICK c : Ecoflow = {c}
    BY OnlyOne
  <1>2. /\ call.new = AtLeast(AtMost(target, cfg.upper), cfg.base)
        /\ currentRequested = D /\ Yielded = AtMost(D, avail[c])
        /\ Net = load - Yielded /\ target \in Int
        /\ D \in Nat /\ avail[c] \in Nat /\ load \in Nat /\ Yielded \in Nat
        /\ cfg.base \in Int /\ cfg.upper \in Int /\ cfg.interm \in Nat
    BY <1>1, InformedDecision DEF Settle
  <1>3. call.new = D
    BY <1>2 DEF Settle, ToBeSent, AtLeast, AtMost
  <1> HIDE DEF D
  <1>4. CASE Net < 0
    BY <1>2, <1>3, <1>4 DEF Balanced, AtLeast, AtMost, D
  <1>5. CASE Net > cfg.interm
    BY <1>2, <1>3, <1>5 DEF Balanced, AtLeast, AtMost, D
  <1>6. CASE Net \in 0..cfg.interm
    BY <1>6 DEF Balanced
  <1> QED
    BY <1>2, <1>4, <1>5, <1>6

(* A decision that reaches the converter balances the house or lowers a    *)
(* request it does not meet.                                               *)
LEMMA SentImproves ==
    ASSUME SingleConverter, HouseType, RefinementInvariant, OrderIsDecision, Informed,
           0 < cfg.base, cfg.base <= cfg.upper, NEW c \in Ecoflow, SetPower(c), UNCHANGED plantVars
    PROVE  Balanced' \/ (Net < 0 /\ TotalDemand' < TotalDemand)
  <1> DEFINE D == TotalDemand
             target == IF Net < 0 THEN D + Net
                       ELSE IF Net > cfg.interm THEN load - cfg.interm ELSE D
             new == AtLeast(AtMost(target, cfg.upper), cfg.base)
             yield == AtMost(new, avail[c])
  <1>1. Ecoflow = {c}
    BY OnlyOne
  <1>2. /\ pc = "set" /\ call.rest > 0 /\ demand' = [demand EXCEPT ![c] = call.rest]
        /\ UNCHANGED <<cfg, load, avail>>
    BY DEF SetPower, VisitNext, Asked, watchVars, plantVars
  <1>3. /\ call.new = new
        /\ Yielded = AtMost(D, avail[c]) /\ Net = load - Yielded /\ target \in Int
        /\ D \in Nat /\ avail[c] \in Nat /\ load \in Nat /\ Yielded \in Nat
        /\ cfg.base \in Int /\ cfg.upper \in Int /\ cfg.interm \in Nat
    BY <1>1, <1>2, InformedDecision DEF Sending
  <1>4. new \in cfg.base..cfg.upper /\ new \in Nat
    BY <1>3 DEF AtLeast, AtMost
  <1>5. call.rest = new
    BY <1>2, <1>3, <1>4 DEF RefinementInvariant, OrderOutstanding, AtMost
  <1>6. demand' \in [Ecoflow -> Nat] /\ demand'[c] = new
    BY <1>1, <1>2, <1>4, <1>5 DEF HouseType, TypeOK
  <1>7. TotalDemand' = new
    <2> HIDE DEF new
    <2>1. DOMAIN demand' = {c} /\ demand'[c] = new /\ demand'[c] \in Int
      BY <1>1, <1>4, <1>6
    <2>2. SumFunction(demand') = new
      BY <2>1, SumOfOne
    <2> QED
      BY <2>2 DEF TotalDemand
  <1>8. Yielded' = yield /\ yield \in Nat
    <2> HIDE DEF new
    <2>1. DOMAIN Yields' = {c} /\ Yields'[c] = yield /\ yield \in Nat
      BY <1>1, <1>2, <1>3, <1>4, <1>6 DEF Yields, AtMost
    <2> HIDE DEF yield
    <2>2. SumFunction(Yields') = yield
      BY <2>1, SumOfOne
    <2> QED
      BY <2>1, <2>2 DEF Yielded
  <1>9. Net' = load - yield
    BY <1>2, <1>8 DEF Net
  <1> DEFINE Better == /\ load - yield \in 0..cfg.interm \/ new = cfg.upper \/ yield < new \/ load - yield < 0
                       /\ load - yield < 0 => new = cfg.base
  <1>10. Better \/ (Net < 0 /\ new < D)
    <2> HIDE DEF D
    <2>1. CASE Net < 0
      BY <1>3, <2>1 DEF AtLeast, AtMost
    <2>2. CASE Net > cfg.interm
      BY <1>3, <2>2 DEF AtLeast, AtMost
    <2>3. CASE Net \in 0..cfg.interm
      BY <1>3, <2>3 DEF AtLeast, AtMost
    <2> QED
      BY <1>3, <2>1, <2>2, <2>3
  <1> HIDE DEF new, yield, target
  <1>11. Better => Balanced'
    BY <1>2, <1>3, <1>4, <1>7, <1>8, <1>9 DEF Balanced
  <1> QED
    BY <1>7, <1>10, <1>11 DEF D

(* With one converter and consistent limits above zero every decision made *)
(* on the house as it is balances it, or lowers a request the converter    *)
(* does not meet, and none is withheld that the house needs: only finitely *)
(* many lie between the loop and a balanced house. It holds for all loads, *)
(* limits, requests, powers available and disturbances.                    *)
(* (mqtt.go:264-308, energy_device.go:8-33)                                *)
THEOREM ProgressOfDecisions ==
    ASSUME Unrestricted, Edits = {}, SingleConverter
    PROVE  LoopSpec => DecisionsImprove
  <1> DEFINE Improves ==
        Informed /\ 0 < cfg.base /\ cfg.base <= cfg.upper =>
          /\ Settle => Balanced
          /\ (\E c \in Ecoflow : SetPower(c))
                => Balanced' \/ (Net < 0 /\ TotalDemand' < TotalDemand)
  <1>1. Init => OrderIsDecision
    BY DEF Init, OrderIsDecision, Sending
  <1>2. TypeOK /\ RefinementInvariant /\ OrderIsDecision /\ [Next]_vars => OrderIsDecision'
    BY OrderStaysDecision
  <1>3. HouseType /\ RefinementInvariant /\ OrderIsDecision /\ [LoopNext]_loopedVars
        => [Improves]_loopedVars
    <2> SUFFICES ASSUME HouseType, RefinementInvariant, OrderIsDecision, LoopNext,
                        Informed, 0 < cfg.base, cfg.base <= cfg.upper
                 PROVE  /\ Settle => Balanced
                        /\ (\E c \in Ecoflow : SetPower(c))
                              => Balanced' \/ (Net < 0 /\ TotalDemand' < TotalDemand)
      OBVIOUS
    <2>1. Settle => Balanced
      BY WithheldIfBalanced
    <2>2. ASSUME NEW c \in Ecoflow, SetPower(c)
          PROVE  Balanced' \/ (Net < 0 /\ TotalDemand' < TotalDemand)
      <3>1. todo' # todo
        BY <2>2, HeadTailProperties, LenProperties DEF SetPower, VisitNext, HouseType, TypeOK
      <3>2. UNCHANGED plantVars
        BY <2>2, <3>1
        DEF LoopNext, LoopStep, Measure, MeterMessage, Wait, Tick, Recover, Restart, LoadChanges,
            AvailChanges, FaultyStep, CalmDown, vars, loopVars
      <3> QED
        BY <2>2, <3>2, SentImproves
    <2> QED
      BY <2>1, <2>2
  <1>4. LoopSpec => Spec
    BY OpenLoop
  <1>5. LoopSpec => []OrderIsDecision
    <2>1. Spec => []TypeOK
      BY TypeCorrect
    <2>2. Spec => []RefinementInvariant
      BY RefinementCorrect
    <2>3. Spec => []OrderIsDecision
      BY <1>1, <1>2, <2>1, <2>2, PTL DEF Spec
    <2> QED
      BY <1>4, <2>3, PTL
  <1>6. LoopSpec => [][Improves]_loopedVars
    BY <1>3, <1>5, LoopInvariants, PTL DEF LoopSpec
  <1> QED
    BY <1>6 DEF DecisionsImprove

=============================================================================
