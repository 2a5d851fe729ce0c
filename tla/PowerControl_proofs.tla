--------------------------- MODULE PowerControl_proofs ---------------------------
(***************************************************************************)
(* What TLAPS proves of PowerControl for every value of its constants.     *)
(***************************************************************************)
EXTENDS PowerControl, SequenceTheorems, TLAPS

-----------------------------------------------------------------------------
(* Types                                                                   *)

(* Both orders of the plugins are sequences of converters.                 *)
LEMMA VisitOrdersType == VisitOrders \subseteq Seq(Converters)
<1>1. EcoflowSeq \in Seq(Converters)
  BY ConverterAssumption, SeqMonotonic DEF Converters
<1>2. MarstekSeq \in Seq(Converters)
  BY ConverterAssumption, SeqMonotonic DEF Converters
<1> QED
  BY <1>1, <1>2, ConcatProperties DEF VisitOrders

(* The defaults keep a configuration a configuration.                      *)
LEMMA DefaultsType ==
  ASSUME NEW c \in Config
  PROVE  WithDefaults(c) \in Config
<1>1. /\ OrDefault(c.base, DefaultBase) \in Int
      /\ OrDefault(c.upper, DefaultUpper) \in Int
  BY BoundAssumption DEF OrDefault, Config
<1>2. WithDefaults(c) = [c EXCEPT !.base = OrDefault(c.base, DefaultBase),
                                  !.upper = OrDefault(c.upper, DefaultUpper)]
  BY DEF WithDefaults, Config
<1> QED
  BY <1>1, <1>2 DEF Config

(* A fresh start has a configuration, whatever the file leaves out.        *)
LEMMA LoadedType ==
  ASSUME NEW f \in File
  PROVE  Loaded(f) \in Config
<1>1. InitialConfig \in Config
  BY BoundAssumption DEF InitialConfig, Config
<1>2. Merge(InitialConfig, f) \in Config
  BY <1>1 DEF Merge, Config, File, Fields
<1> QED
  BY <1>2, DefaultsType DEF Loaded

(* Setting a local keeps the types of the others.                          *)
LEMMA LocalsType ==
  ASSUME NEW c \in Call, NEW w \in Int
  PROVE  [c EXCEPT !.new = w] \in Call /\ [c EXCEPT !.rest = w] \in Call
BY DEF Call

(* The fields of a configuration and of the locals.                        *)
LEMMA FieldsType ==
  /\ \A c \in Config : /\ c.base \in Int /\ c.upper \in Int
                       /\ c.interm \in Nat /\ c.wait \in Int
  /\ \A c \in Call : /\ c.power \in Int /\ c.out \in Nat
                     /\ c.new \in Int /\ c.rest \in Int
  /\ NoCall \in Call /\ NoLimits \in Limits
BY DEF Config, Call, NoCall, NoLimits, Limits

(* Steps that only compute keep the types.                                 *)
LEMMA ComputeType ==
  ASSUME TypeOK, NEW from, NEW to \in Places, NEW locals \in Call,
         Compute(from, to, locals)
  PROVE  TypeOK'
BY DEF Compute, TypeOK, watchVars

(* So does the beginning of a refresh.                                     *)
LEMMA RefreshType ==
  ASSUME TypeOK, StartRefresh,
         UNCHANGED <<blockLeft, watchVars, demand>>, inbox' \in Seq(Readings)
  PROVE  TypeOK'
BY VisitOrdersType, FieldsType DEF StartRefresh, TypeOK, watchVars, Places

(* The step of the loop over the converters to the next one.               *)
LEMMA VisitType ==
  ASSUME NEW c, todo \in Seq(Converters), todo # <<>>, c = Head(todo),
         todo' = Tail(todo)
  PROVE  c \in Converters /\ todo' \in Seq(Converters)
BY HeadTailProperties

LEMMA InitType == ASSUME Init PROVE TypeOK
<1>1. file \in Files \cup Edits /\ cfg \in Config
  BY LoadedType, EnvironmentAssumption DEF Init
<1>2. demand \in [Ecoflow -> Nat] /\ blockLeft \in Nat
  BY EnvironmentAssumption, BoundAssumption DEF Init
<1>3. inbox \in Seq(Readings) /\ todo \in Seq(Converters)
  BY EmptySeq DEF Init
<1> QED
  BY <1>1, <1>2, <1>3, FieldsType DEF Init, TypeOK, Places

LEMMA DecideType == ASSUME TypeOK, Decide PROVE TypeOK'
<1> USE DEF TypeOK
<1>1. CASE SkipEvent
  <2>1. inbox' \in Seq(Readings)
    BY <1>1, HeadTailProperties DEF SkipEvent
  <2> QED
    BY <1>1, <2>1, RefreshType DEF SkipEvent
<1>2. CASE TakeEvent
  <2>1. Head(inbox) \in Readings /\ inbox' \in Seq(Readings)
    BY <1>2, HeadTailProperties DEF TakeEvent
  <2>2. Aligned(Head(inbox)) \in Reading
    BY <2>1, EnvironmentAssumption DEF Aligned, Reading
  <2>3. call' \in Call
    BY <1>2, <2>2 DEF TakeEvent, Call, Reading
  <2>4. inForce' \in Limits
    BY <1>2 DEF TakeEvent, Limits, Config
  <2> QED
    BY <1>2, <2>1, <2>3, <2>4 DEF TakeEvent, watchVars, Places
<1>3. CASE AimBelowExport
  <2>1. currentRequested - call.out \in Int
    BY FieldsType
  <2>2. [call EXCEPT !.new = currentRequested - call.out] \in Call
    BY <2>1, LocalsType
  <2> QED
    BY <1>3, <2>2, ComputeType DEF AimBelowExport, Places
<1>4. CASE SeeImport
  BY <1>4, ComputeType DEF SeeImport, Places
<1>5. CASE AimAtImport
  <2>1. currentDelivered + call.power - cfg.interm \in Int
    BY FieldsType
  <2>2. [call EXCEPT !.new = currentDelivered + call.power - cfg.interm] \in Call
    BY <2>1, LocalsType
  <2> QED
    BY <1>5, <2>2, ComputeType DEF AimAtImport, Places
<1>6. CASE KeepRequest
  BY <1>6, ComputeType DEF KeepRequest, Places
<1>7. CASE CheckUpper
  BY <1>7, ComputeType DEF CheckUpper, Places
<1>8. CASE TakeUpper
  <2>1. [call EXCEPT !.new = cfg.upper] \in Call
    BY FieldsType, LocalsType
  <2> QED
    BY <1>8, <2>1, ComputeType DEF TakeUpper, Places
<1>9. CASE CheckBase
  BY <1>9, ComputeType DEF CheckBase, Places
<1>10. CASE TakeBase
  <2>1. [call EXCEPT !.new = cfg.base] \in Call
    BY FieldsType, LocalsType
  <2> QED
    BY <1>10, <2>1, ComputeType DEF TakeBase, Places
<1>11. CASE Settle
  BY <1>11, FieldsType DEF Settle, watchVars, Places
<1>12. CASE Announce
  <2>a. call \in Call /\ call.new \in Int /\ cfg.wait \in Int
    BY FieldsType DEF TypeOK
  <2>b. call' \in Call
    BY <1>12, <2>a, LocalsType DEF Announce
  <2>c. blockLeft' \in Nat
    BY <1>12, <2>a DEF Announce, AtLeast
  <2>1. call' \in Call /\ blockLeft' \in Nat
    BY <2>b, <2>c
  <2> QED
    BY <1>12, <2>1 DEF Announce, watchVars, Places
<1> QED
  BY <1>1, <1>2, <1>3, <1>4, <1>5, <1>6, <1>7, <1>8, <1>9, <1>10, <1>11, <1>12
     DEF Decide

LEMMA LimitType == ASSUME TypeOK, Limit PROVE TypeOK'
<1> USE DEF TypeOK
<1>1. CASE StillRealtime
  BY <1>1, ComputeType DEF StillRealtime, Places
<1>2. CASE NoLongerRealtime
  BY <1>2, RefreshType DEF NoLongerRealtime
<1>3. CASE TakeFloor
  <2>1. [call EXCEPT !.rest = cfg.base] \in Call
    BY FieldsType, LocalsType
  <2> QED
    BY <1>3, <2>1, ComputeType DEF TakeFloor, Places
<1>4. CASE ExceedsCap
  BY <1>4, ComputeType DEF ExceedsCap, Places
<1>5. CASE WithinCap
  <2>1. call' \in Call
    BY <1>5, FieldsType, LocalsType DEF WithinCap, Visit
  <2> QED
    BY <1>5, <2>1, VisitOrdersType DEF WithinCap, Visit, watchVars, Places
<1>6. CASE TakeCap
  <2>1. call' \in Call
    BY <1>6, FieldsType, LocalsType DEF TakeCap, Visit
  <2> QED
    BY <1>6, <2>1, VisitOrdersType DEF TakeCap, Visit, watchVars, Places
<1> QED
  BY <1>1, <1>2, <1>3, <1>4, <1>5, <1>6 DEF Limit

LEMMA ApplyType == ASSUME TypeOK, Apply PROVE TypeOK'
<1> USE DEF TypeOK
<1>1. ASSUME NEW c, VisitNext(c), Asked(c)
      PROVE  c \in Converters /\ todo' \in Seq(Converters) /\ call' \in Call
  <2>1. ReportedSet(c, call.rest) \in Int
    BY FieldsType DEF ReportedSet
  <2>2. call.rest - ReportedSet(c, call.rest) \in Int
    BY <2>1, FieldsType
  <2> QED
    BY <1>1, <2>2, VisitType, LocalsType DEF VisitNext, Asked
<1>2. ASSUME NEW c, SetPower(c) PROVE TypeOK'
  <2>1. todo' \in Seq(Converters) /\ call' \in Call
    BY <1>1, <1>2 DEF SetPower
  <2>2. call.rest \in Nat
    BY <1>2, FieldsType DEF SetPower, Asked
  <2>3. demand' \in [Ecoflow -> Nat]
    BY <1>2, <2>2 DEF SetPower
  <2> QED
    BY <1>2, <2>1, <2>3 DEF SetPower, VisitNext, watchVars
<1>3. ASSUME NEW c, SetPowerNoEffect(c) PROVE TypeOK'
  BY <1>1, <1>3 DEF SetPowerNoEffect, VisitNext, watchVars
<1>4. ASSUME NEW c, NothingLeft(c) PROVE TypeOK'
  BY <1>4, VisitType DEF NothingLeft, VisitNext, watchVars
<1>5. CASE EndSet
  BY <1>5, RefreshType DEF EndSet
<1> QED
  BY <1>2, <1>3, <1>4, <1>5 DEF Apply

LEMMA RefreshStepType == ASSUME TypeOK, Refresh PROVE TypeOK'
<1> USE DEF TypeOK
<1>1. ASSUME NEW c, NEW d \in Watts \cup {0}, QueryAnswered(c, d) PROVE TypeOK'
  <2>1. demand[c] \in Nat /\ d \in Nat
    BY <1>1, EnvironmentAssumption DEF QueryAnswered
  <2>2. currentRequested' \in Nat /\ currentDelivered' \in Nat
    BY <1>1, <2>1 DEF QueryAnswered
  <2> QED
    BY <1>1, <2>2, VisitType DEF QueryAnswered, QueryNext, watchVars
<1>2. ASSUME NEW c, QueryFailed(c) PROVE TypeOK'
  BY <1>2, VisitType DEF QueryFailed, QueryNext, watchVars
<1>3. ASSUME NEW c, QueryUnsupported(c) PROVE TypeOK'
  BY <1>3, VisitType DEF QueryUnsupported, QueryNext, watchVars
<1>4. CASE EndRefresh
  BY <1>4 DEF EndRefresh, watchVars, Places
<1> QED
  BY <1>1, <1>2, <1>3, <1>4 DEF Refresh

(* Noting the limits the watcher writes keeps them sets of numbers.        *)
LEMMA WatcherType ==
  ASSUME TypeOK, NEW from, cfg' \in Config, unread' \subseteq Fields,
         NEW to \in {"watching", "unmarshal", "defaultBase", "defaultUpper"},
         WatcherStep(from, to)
  PROVE  TypeOK'
<1>1. inForce' \in Limits
  BY DEF WatcherStep, NoteLimits, TypeOK, Limits, Config
<1> QED
  BY <1>1 DEF WatcherStep, TypeOK

LEMMA ReloadType == ASSUME TypeOK, Reload PROVE TypeOK'
<1> USE DEF TypeOK
<1>1. ASSUME NEW g \in Fields, WriteField(g) PROVE TypeOK'
  <2>1. file.val \in Config
    BY EnvironmentAssumption DEF File
  <2>2. CASE g = "base"
    BY <1>1, <2>1, <2>2, WatcherType DEF WriteField, Config
  <2>3. CASE g = "upper"
    BY <1>1, <2>1, <2>3, WatcherType DEF WriteField, Config
  <2>4. CASE g = "interm"
    BY <1>1, <2>1, <2>4, WatcherType DEF WriteField, Config
  <2>5. CASE g = "wait"
    BY <1>1, <2>1, <2>5, WatcherType DEF WriteField, Config
  <2>6. CASE g = "realtime"
    BY <1>1, <2>1, <2>6, WatcherType DEF WriteField, Config
  <2> QED
    BY <2>2, <2>3, <2>4, <2>5, <2>6 DEF Fields
<1>2. CASE EndUnmarshal
  BY <1>2, WatcherType DEF EndUnmarshal
<1>3. CASE DefaultBaseRequest
  <2>0. OrDefault(cfg.base, DefaultBase) \in Int
    BY BoundAssumption DEF OrDefault, Config
  <2>1. cfg' \in Config
    BY <1>3, <2>0 DEF DefaultBaseRequest, Config
  <2> QED
    BY <1>3, <2>1, WatcherType DEF DefaultBaseRequest
<1>4. CASE DefaultUpperBatLimit
  <2>0. OrDefault(cfg.upper, DefaultUpper) \in Int
    BY BoundAssumption DEF OrDefault, Config
  <2>1. cfg' \in Config
    BY <1>4, <2>0 DEF DefaultUpperBatLimit, Config
  <2> QED
    BY <1>4, <2>1, WatcherType DEF DefaultUpperBatLimit
<1> QED
  BY <1>1, <1>2, <1>3, <1>4 DEF Reload

LEMMA EnvironmentType == ASSUME TypeOK, Environment PROVE TypeOK'
<1> USE DEF TypeOK
<1>1. ASSUME NEW r \in Readings, MeterMessage(r) PROVE TypeOK'
  <2>1. inbox' \in Seq(Readings)
    BY <1>1, AppendProperties DEF MeterMessage
  <2> QED
    BY <1>1, <2>1 DEF MeterMessage, loopVars, watchVars
<1>2. ASSUME NEW f \in Edits, ChangeFile(f) PROVE TypeOK'
  <2>1. watcher' \in {"watching", "unmarshal"} /\ unread' \subseteq Fields
    BY <1>2, EnvironmentAssumption DEF ChangeFile, File
  <2> QED
    BY <1>2, <2>1 DEF ChangeFile, loopVars
<1>3. ASSUME NEW c \in Ecoflow, NEW w \in Watts, AppSetsDemand(c, w)
      PROVE  TypeOK'
  <2>1. demand' \in [Ecoflow -> Nat]
    BY <1>3, EnvironmentAssumption DEF AppSetsDemand
  <2> QED
    BY <1>3, <2>1 DEF AppSetsDemand, loopVars, watchVars
<1>4. CASE Tick
  BY <1>4 DEF Tick, watchVars
<1>5. CASE Crash
  <2>1. cfg' \in Config
    BY <1>5, BoundAssumption DEF Crash, InitialConfig, Config
  <2>2. inbox' \in Seq(Readings) /\ todo' \in Seq(Converters)
    BY <1>5, EmptySeq DEF Crash
  <2> QED
    BY <1>5, <2>1, <2>2, FieldsType DEF Crash, Places
<1>6. CASE Restart
  <2>1. cfg' \in Config
    BY <1>6, LoadedType, EnvironmentAssumption DEF Restart
  <2> QED
    BY <1>6, <2>1, BoundAssumption DEF Restart, Places
<1> QED
  BY <1>1, <1>2, <1>3, <1>4, <1>5, <1>6 DEF Environment

LEMMA NextType == ASSUME TypeOK, [Next]_vars PROVE TypeOK'
<1>1. CASE UNCHANGED vars
  BY <1>1 DEF vars, loopVars, watchVars, TypeOK
<1> QED
  BY <1>1, DecideType, LimitType, ApplyType, RefreshStepType, ReloadType,
     EnvironmentType DEF Next

(* Every variable keeps its type in every behaviour of the controller.     *)
THEOREM TypeCorrect == Spec => []TypeOK
<1>1. Init => TypeOK
  BY InitType
<1>2. TypeOK /\ [Next]_vars => TypeOK'
  BY NextType
<1> QED
  BY <1>1, <1>2, PTL DEF Spec

-----------------------------------------------------------------------------
(* The limits                                                              *)

(* Reload and environment leave the loop alone, unless the process ends or *)
(* starts.                                                                 *)
LEMMA OthersLeaveLoop ==
  ASSUME Reload \/ Environment
  PROVE  \/ UNCHANGED <<pc, call, todo, currentRequested>>
         \/ Crash \/ Restart
BY DEF Reload, WriteField, EndUnmarshal, DefaultBaseRequest,
       DefaultUpperBatLimit, WatcherStep, Environment, MeterMessage,
       ChangeFile, AppSetsDemand, Tick, loopVars

(* They only ever add to the limits on record.                             *)
LEMMA LimitsOnlyGrow ==
  ASSUME TypeOK, LimitsRecorded, Reload \/ Environment, ~Crash, ~Restart
  PROVE  /\ LimitsRecorded'
         /\ inForce.base \subseteq inForce'.base
         /\ inForce.upper \subseteq inForce'.upper
<1>1. CASE Reload
  <2>1. NoteLimits /\ UNCHANGED pc
    BY <1>1 DEF Reload, WriteField, EndUnmarshal, DefaultBaseRequest,
                DefaultUpperBatLimit, WatcherStep
  <2>2. CASE inForce = NoLimits
    <3>1. ~Deciding
      BY <2>2 DEF LimitsRecorded, NoLimits
    <3> QED
      BY <2>1, <2>2, <3>1 DEF NoteLimits, LimitsRecorded, Deciding
  <2>3. CASE inForce # NoLimits
    <3>1. Deciding
      BY <2>3 DEF LimitsRecorded
    <3>2. /\ inForce'.base = inForce.base \cup {cfg'.base}
          /\ inForce'.upper = inForce.upper \cup {cfg'.upper}
      BY <2>1, <2>3 DEF NoteLimits
    <3> QED
      BY <2>1, <3>1, <3>2 DEF LimitsRecorded, Deciding
  <2> QED
    BY <2>2, <2>3
<1>2. CASE Environment
  <2>1. UNCHANGED <<pc, inForce, cfg>>
    BY <1>2 DEF Environment, MeterMessage, ChangeFile, AppSetsDemand, Tick,
                loopVars, watchVars
  <2> QED
    BY <2>1 DEF LimitsRecorded, Deciding
<1> QED
  BY <1>1, <1>2

(* Limits that are steady after such a step were steady before it, and the *)
(* same.                                                                   *)
LEMMA SteadyBefore ==
  ASSUME TypeOK, LimitsRecorded, Deciding, Reload \/ Environment,
         ~Crash, ~Restart, LimitsSteady'
  PROVE  LimitsSteady /\ cfg'.base = cfg.base /\ cfg'.upper = cfg.upper
<1>1. /\ inForce.base \subseteq inForce'.base
      /\ inForce.upper \subseteq inForce'.upper
  BY LimitsOnlyGrow
<1>2. inForce'.base = {cfg'.base} /\ inForce'.upper = {cfg'.upper}
  BY DEF LimitsSteady
<1>3. cfg.base \in inForce.base /\ cfg.upper \in inForce.upper
  BY DEF LimitsRecorded
<1>4. cfg'.base = cfg.base /\ cfg'.upper = cfg.upper
  BY <1>1, <1>2, <1>3
<1>5. inForce.base = {cfg.base} /\ inForce.upper = {cfg.upper}
  BY <1>1, <1>2, <1>3, <1>4
<1>6. inForce = [base |-> {cfg.base}, upper |-> {cfg.upper}]
  BY <1>5 DEF TypeOK, Limits
<1> QED
  BY <1>4, <1>6 DEF LimitsSteady

LEMMA OthersKeepLimits ==
  ASSUME TypeOK, LimitInvariant, Reload \/ Environment
  PROVE  LimitInvariant'
<1>1. CASE Crash
  BY <1>1 DEF Crash, LimitInvariant, LimitsRecorded, Deciding, FloorPassed,
     WindowRespected, NoCall, ComparisonsHold, LimitsSteady, NoLimits,
     WithinLimitsInForce, BlockedOnlyLowers, Sending, AnnouncedIsSent
<1>2. CASE Restart
  BY <1>2 DEF Restart, LimitInvariant, LimitsRecorded, Deciding, FloorPassed,
     WindowRespected, ComparisonsHold, LimitsSteady, NoLimits,
     WithinLimitsInForce, BlockedOnlyLowers, Sending, AnnouncedIsSent
<1>3. CASE ~Crash /\ ~Restart
  <2>1. UNCHANGED <<pc, call, todo, currentRequested>>
    BY <1>3, OthersLeaveLoop
  <2>2. /\ LimitsRecorded'
        /\ inForce.base \subseteq inForce'.base
        /\ inForce.upper \subseteq inForce'.upper
    BY <1>3, LimitsOnlyGrow DEF LimitInvariant
  <2>3. FloorPassed'
    BY <2>1, <2>2 DEF LimitInvariant, FloorPassed
  <2>4. WithinLimitsInForce'
    BY <2>1, <2>2 DEF LimitInvariant, WithinLimitsInForce
  <2>5. CASE Deciding /\ LimitsSteady'
    <3>1. LimitsSteady /\ cfg'.base = cfg.base /\ cfg'.upper = cfg.upper
      BY <1>3, <2>5, SteadyBefore DEF LimitInvariant
    <3>2. WindowRespected' /\ ComparisonsHold'
      BY <2>1, <2>5, <3>1 DEF LimitInvariant, WindowRespected, ComparisonsHold
    <3>3. BlockedOnlyLowers' /\ AnnouncedIsSent'
      BY <2>1, <2>5, <3>1
         DEF LimitInvariant, BlockedOnlyLowers, AnnouncedIsSent, Sending
    <3> QED
      BY <2>2, <2>3, <2>4, <3>2, <3>3 DEF LimitInvariant
  <2>6. CASE ~Deciding \/ ~LimitsSteady'
    <3>1. WindowRespected' /\ ComparisonsHold'
      BY <2>1, <2>6 DEF LimitInvariant, WindowRespected, ComparisonsHold, Deciding
    <3>2. BlockedOnlyLowers' /\ AnnouncedIsSent'
      BY <2>1, <2>6 DEF LimitInvariant, BlockedOnlyLowers, AnnouncedIsSent,
                        Sending, Deciding
    <3> QED
      BY <2>2, <2>3, <2>4, <3>1, <3>2 DEF LimitInvariant
  <2> QED
    BY <2>5, <2>6
<1> QED
  BY <1>1, <1>2, <1>3

(* Where the loop is not deciding, no limits are on record and nothing     *)
(* else is promised.                                                       *)
LEMMA NotDecidingKeepsLimits ==
  ASSUME ~Deciding', inForce' = NoLimits, call' = NoCall
  PROVE  LimitInvariant'
BY DEF LimitInvariant, LimitsRecorded, FloorPassed, WindowRespected,
       ComparisonsHold, LimitsSteady, WithinLimitsInForce, BlockedOnlyLowers,
       AnnouncedIsSent, Deciding, Sending, NoCall, NoLimits

LEMMA RefreshKeepsLimits ==
  ASSUME StartRefresh PROVE LimitInvariant'
BY NotDecidingKeepsLimits DEF StartRefresh, Deciding

LEMMA DecideKeepsLimits ==
  ASSUME TypeOK, LimitInvariant, Decide
  PROVE  LimitInvariant'
<1> DEFINE Parts == /\ LimitsRecorded' /\ FloorPassed' /\ WindowRespected'
                    /\ ComparisonsHold' /\ WithinLimitsInForce'
                    /\ BlockedOnlyLowers' /\ AnnouncedIsSent'
<1> SUFFICES Parts
  BY DEF LimitInvariant
<1>a. /\ call.power \in Int /\ call.out \in Nat /\ call.new \in Int
      /\ call.rest \in Int /\ currentRequested \in Nat
      /\ cfg.base \in Int /\ cfg.upper \in Int /\ cfg.interm \in Nat
  BY FieldsType DEF TypeOK
<1>b. call = [power |-> call.power, out |-> call.out, inWindow |-> call.inWindow,
              new |-> call.new, rest |-> call.rest]
  BY DEF TypeOK, Call
<1> USE DEF LimitInvariant, LimitsRecorded, FloorPassed, WindowRespected,
            ComparisonsHold, LimitsSteady, WithinLimitsInForce,
            BlockedOnlyLowers, AnnouncedIsSent, Deciding, Sending, AtMost, AtLeast
<1>1. CASE SkipEvent
  BY <1>1, RefreshKeepsLimits DEF SkipEvent
<1>2. CASE TakeEvent
  <2> DEFINE r == Aligned(Head(inbox))
  <2>1. r \in Reading
    BY <1>2, HeadTailProperties, EnvironmentAssumption
       DEF TakeEvent, TypeOK, Aligned, Reading
  <2>2. call'.inWindow = (blockLeft > 0) /\ call'.power = r.power
    BY <1>2 DEF TakeEvent
  <2>3. call'.new = currentRequested /\ currentRequested' = currentRequested
    BY <1>2 DEF TakeEvent
  <2>4. blockLeft > 0 => r.power <= 0
    BY <1>2, <2>1 DEF TakeEvent, Disregarded, Blocked, Reading
  <2>5. pc' = "aim" /\ cfg' = cfg
    BY <1>2 DEF TakeEvent, watchVars
  <2>6. inForce' = [base |-> {cfg.base}, upper |-> {cfg.upper}]
    BY <1>2 DEF TakeEvent
  <2> HIDE DEF r
  <2> QED
    BY <2>2, <2>3, <2>4, <2>5, <2>6
<1>3. CASE AimBelowExport
  BY <1>3, <1>a, <1>b DEF AimBelowExport, Compute, watchVars
<1>4. CASE SeeImport
  BY <1>4, <1>a, <1>b DEF SeeImport, Compute, watchVars
<1>5. CASE AimAtImport
  BY <1>5, <1>a, <1>b DEF AimAtImport, Compute, watchVars
<1>6. CASE KeepRequest
  BY <1>6, <1>a, <1>b DEF KeepRequest, Compute, watchVars
<1>7. CASE CheckUpper
  BY <1>7, <1>a, <1>b DEF CheckUpper, Compute, watchVars
<1>8. CASE TakeUpper
  BY <1>8, <1>a, <1>b DEF TakeUpper, Compute, watchVars
<1>9. CASE CheckBase
  BY <1>9, <1>a, <1>b DEF CheckBase, Compute, watchVars
<1>10. CASE TakeBase
  BY <1>10, <1>a, <1>b DEF TakeBase, Compute, watchVars
<1>11. CASE Settle
  BY <1>11, NotDecidingKeepsLimits DEF Settle
<1>12. CASE Announce
  BY <1>12, <1>a, <1>b DEF Announce, watchVars
<1> QED
  BY <1>1, <1>2, <1>3, <1>4, <1>5, <1>6, <1>7, <1>8, <1>9, <1>10, <1>11, <1>12
     DEF Decide

LEMMA LimitKeepsLimits ==
  ASSUME TypeOK, LimitInvariant, Limit
  PROVE  LimitInvariant'
<1>a. /\ call.power \in Int /\ call.out \in Nat /\ call.new \in Int
      /\ call.rest \in Int /\ currentRequested \in Nat
      /\ cfg.base \in Int /\ cfg.upper \in Int
  BY FieldsType DEF TypeOK
<1>b. call = [power |-> call.power, out |-> call.out, inWindow |-> call.inWindow,
              new |-> call.new, rest |-> call.rest]
  BY DEF TypeOK, Call
<1> USE DEF LimitInvariant, LimitsRecorded, FloorPassed, WindowRespected,
            ComparisonsHold, LimitsSteady, WithinLimitsInForce,
            BlockedOnlyLowers, AnnouncedIsSent, Deciding, Sending, AtMost, AtLeast
<1>1. CASE StillRealtime
  BY <1>1, <1>a, <1>b DEF StillRealtime, Compute, watchVars
<1>2. CASE NoLongerRealtime
  BY <1>2, RefreshKeepsLimits DEF NoLongerRealtime
<1>3. CASE TakeFloor
  BY <1>3, <1>a, <1>b DEF TakeFloor, Compute, watchVars
<1>4. CASE ExceedsCap
  BY <1>4, <1>a, <1>b DEF ExceedsCap, Compute, watchVars
<1>5. CASE WithinCap
  <2>1. /\ pc = "cap" /\ pc' = "set" /\ call.rest <= cfg.upper
        /\ UNCHANGED <<cfg, inForce, currentRequested>>
    BY <1>5 DEF WithinCap, Visit, watchVars
  <2>2. /\ call'.rest = call.rest /\ call'.new = call.new
        /\ call'.inWindow = call.inWindow
    BY <1>5, <1>b DEF WithinCap, Visit
  <2>3. cfg.base \in inForce.base /\ cfg.upper \in inForce.upper
    BY <2>1
  <2>4. PICK b \in inForce.base : call.rest >= b
    BY <2>1
  <2>5. b \in Int
    BY <2>4 DEF TypeOK, Limits
  <2>6. call.rest >= AtMost(b, cfg.upper)
    BY <1>a, <2>1, <2>4, <2>5
  <2>7. WithinLimitsInForce'
    BY <2>1, <2>2, <2>3, <2>4, <2>6
  <2> QED
    BY <1>a, <2>1, <2>2, <2>3, <2>7
<1>6. CASE TakeCap
  BY <1>6, <1>a, <1>b DEF TakeCap, Visit, watchVars
<1> QED
  BY <1>1, <1>2, <1>3, <1>4, <1>5, <1>6 DEF Limit

LEMMA ApplyKeepsLimits ==
  ASSUME TypeOK, LimitInvariant, Apply
  PROVE  LimitInvariant'
<1>a. /\ call.new \in Int /\ call.rest \in Int /\ currentRequested \in Nat
      /\ cfg.base \in Int /\ cfg.upper \in Int
  BY FieldsType DEF TypeOK
<1>1. CASE EndSet
  BY <1>1, RefreshKeepsLimits DEF EndSet
<1>2. ASSUME NEW c, VisitNext(c), Asked(c) \/ (call.rest <= 0 /\ UNCHANGED call)
      PROVE  LimitInvariant'
  <2>1. /\ pc = "set" /\ UNCHANGED <<pc, cfg, inForce, currentRequested>>
        /\ call'.new = call.new /\ call'.inWindow = call.inWindow
    BY <1>2 DEF VisitNext, Asked, watchVars, TypeOK, Call
  <2>2. call'.rest = call.rest \/ call'.rest = 0
    BY <1>a, <1>2 DEF Asked, ReportedSet, TypeOK, Call
  <2> QED
    BY <1>a, <2>1, <2>2
       DEF LimitInvariant, LimitsRecorded, FloorPassed, WindowRespected,
           ComparisonsHold, LimitsSteady, WithinLimitsInForce,
           BlockedOnlyLowers, AnnouncedIsSent, Deciding, Sending, AtMost, AtLeast
<1>3. CASE Apply /\ ~EndSet
  BY <1>2, <1>3 DEF Apply, SetPower, SetPowerNoEffect, NothingLeft
<1> QED
  BY <1>1, <1>3

LEMMA RefreshStepKeepsLimits ==
  ASSUME LimitInvariant, Refresh
  PROVE  LimitInvariant'
<1>1. /\ pc = "refresh" /\ pc' \in {"refresh", "idle"}
      /\ UNCHANGED <<call, inForce>>
  BY DEF Refresh, QueryAnswered, QueryFailed, QueryUnsupported, QueryNext,
         EndRefresh
<1> QED
  BY <1>1 DEF LimitInvariant, LimitsRecorded, FloorPassed, WindowRespected,
     ComparisonsHold, LimitsSteady, WithinLimitsInForce, BlockedOnlyLowers,
     AnnouncedIsSent, Deciding, Sending, NoLimits

LEMMA NextKeepsLimits ==
  ASSUME TypeOK, LimitInvariant, [Next]_vars
  PROVE  LimitInvariant'
<1>1. CASE UNCHANGED vars
  BY <1>1 DEF vars, loopVars, watchVars, LimitInvariant, LimitsRecorded,
     FloorPassed, WindowRespected, ComparisonsHold, LimitsSteady,
     WithinLimitsInForce, BlockedOnlyLowers, AnnouncedIsSent, Deciding, Sending
<1> QED
  BY <1>1, DecideKeepsLimits, LimitKeepsLimits, ApplyKeepsLimits,
     RefreshStepKeepsLimits, OthersKeepLimits DEF Next

(* The strengthened invariant holds in every behaviour.                    *)
THEOREM LimitsCorrect == Spec => []LimitInvariant
<1>1. Init => LimitInvariant
  BY NotDecidingKeepsLimits
     DEF Init, LimitInvariant, LimitsRecorded, FloorPassed, WindowRespected,
         ComparisonsHold, LimitsSteady, WithinLimitsInForce, BlockedOnlyLowers,
         AnnouncedIsSent, Deciding, Sending, NoCall, NoLimits
<1>2. TypeOK /\ LimitInvariant /\ [Next]_vars => LimitInvariant'
  BY NextKeepsLimits
<1> QED
  BY <1>1, <1>2, TypeCorrect, PTL DEF Spec

(* What is sent lies within limits in force while the event was processed, *)
(* however a reload falls between the reads of the limits.                 *)
THEOREM LimitsInForceCorrect == Spec => []WithinLimitsInForce
<1>1. LimitInvariant => WithinLimitsInForce
  BY DEF LimitInvariant
<1> QED
  BY <1>1, LimitsCorrect, PTL

(* Within the block window a request is only lowered, or the base request. *)
THEOREM BlockWindowCorrect == Spec => []BlockedOnlyLowers
<1>1. LimitInvariant => BlockedOnlyLowers
  BY DEF LimitInvariant
<1> QED
  BY <1>1, LimitsCorrect, PTL

(* With consistent, steady limits the loop sends what it announces.        *)
THEOREM AnnouncementCorrect == Spec => []AnnouncedIsSent
<1>1. LimitInvariant => AnnouncedIsSent
  BY DEF LimitInvariant
<1> QED
  BY <1>1, LimitsCorrect, PTL

-----------------------------------------------------------------------------
(* Answers                                                                 *)

(* With one converter a loop over the plugins meets it at most once.       *)
AtMostOneIn(t) ==
    \A i, j \in 1..Len(t) : t[i] \in Ecoflow /\ t[j] \in Ecoflow => i = j

LEMMA VisitedOnce ==
  ASSUME Len(EcoflowSeq) <= 1, NEW t \in VisitOrders
  PROVE  AtMostOneIn(t)
<1>1. EcoflowSeq \in Seq(Converters) /\ MarstekSeq \in Seq(Converters)
  BY ConverterAssumption, SeqMonotonic DEF Converters
<1>2. \A i \in 1..Len(MarstekSeq) : MarstekSeq[i] \notin Ecoflow
  BY ConverterAssumption, ElementOfSeq
<1>3. Len(EcoflowSeq) \in Nat /\ Len(MarstekSeq) \in Nat
  BY ConverterAssumption, LenProperties
<1>4. CASE t = EcoflowSeq \o MarstekSeq
  <2>1. /\ Len(t) = Len(EcoflowSeq) + Len(MarstekSeq)
        /\ \A i \in 1..Len(t) : t[i] = IF i <= Len(EcoflowSeq) THEN EcoflowSeq[i]
                                       ELSE MarstekSeq[i - Len(EcoflowSeq)]
    BY <1>1, <1>4, ConcatProperties
  <2>2. \A i \in 1..Len(t) : t[i] \in Ecoflow => i <= Len(EcoflowSeq)
    BY <1>2, <1>3, <2>1
  <2> QED
    BY <1>3, <2>1, <2>2 DEF AtMostOneIn
<1>5. CASE t = MarstekSeq \o EcoflowSeq
  <2>1. /\ Len(t) = Len(MarstekSeq) + Len(EcoflowSeq)
        /\ \A i \in 1..Len(t) : t[i] = IF i <= Len(MarstekSeq) THEN MarstekSeq[i]
                                       ELSE EcoflowSeq[i - Len(MarstekSeq)]
    BY <1>1, <1>5, ConcatProperties
  <2>2. \A i \in 1..Len(t) : t[i] \in Ecoflow => i > Len(MarstekSeq)
    BY <1>2, <1>3, <2>1
  <2> QED
    BY <1>3, <2>1, <2>2 DEF AtMostOneIn
<1> QED
  BY <1>4, <1>5 DEF VisitOrders

LEMMA TailVisitedOnce ==
  ASSUME NEW t \in Seq(Converters), t # <<>>, AtMostOneIn(t)
  PROVE  /\ AtMostOneIn(Tail(t))
         /\ Head(t) \in Ecoflow =>
               \A i \in 1..Len(Tail(t)) : Tail(t)[i] \notin Ecoflow
         /\ (\E i \in 1..Len(Tail(t)) : Tail(t)[i] \in Ecoflow) =>
               \E i \in 1..Len(t) : t[i] \in Ecoflow
<1>1. /\ Len(t) \in Nat \ {0} /\ Len(Tail(t)) = Len(t) - 1 /\ Head(t) = t[1]
      /\ \A i \in 1..Len(Tail(t)) : Tail(t)[i] = t[i + 1]
  BY HeadTailProperties, EmptySeq, LenProperties
<1>2. \A i \in 1..Len(Tail(t)) : i + 1 \in 1..Len(t) /\ i + 1 # 1
  BY <1>1
<1> QED
  BY <1>1, <1>2 DEF AtMostOneIn

(* A positive sum has been answered: with one converter a refresh has      *)
(* counted nothing before it asks that converter, and asks it once.        *)
SumAnswered ==
    /\ currentRequested > 0 \/ Deciding => answered
    /\ pc = "refresh" =>
          /\ AtMostOneIn(todo)
          /\ (\E i \in 1..Len(todo) : todo[i] \in Ecoflow) =>
                currentRequested = 0 /\ answered

LEMMA LoopKeepsSum ==
  ASSUME TypeOK, SumAnswered, Len(EcoflowSeq) <= 1, Decide \/ Limit \/ Apply
  PROVE  SumAnswered'
<1>1. CASE StartRefresh
  BY <1>1, VisitedOnce DEF StartRefresh, SumAnswered, Deciding
<1>2. CASE TakeEvent
  BY <1>2 DEF TakeEvent, Disregarded, SumAnswered, TypeOK, Deciding
<1>3. CASE Settle
  BY <1>3 DEF Settle, SumAnswered, Deciding
<1>4. CASE /\ Deciding /\ pc' # "refresh"
           /\ UNCHANGED <<currentRequested, answered>>
  BY <1>4 DEF SumAnswered
<1>5. Decide => StartRefresh \/ TakeEvent \/ Settle \/ <1>4!1
  BY DEF Decide, SkipEvent, AimBelowExport, SeeImport, AimAtImport,
     KeepRequest, CheckUpper, TakeUpper, CheckBase, TakeBase, Announce,
     Compute, Deciding
<1>6. Limit => StartRefresh \/ <1>4!1
  BY DEF Limit, StillRealtime, NoLongerRealtime, TakeFloor, ExceedsCap,
     WithinCap, TakeCap, Compute, Visit, Deciding
<1>7. Apply => StartRefresh \/ <1>4!1
  BY DEF Apply, SetPower, SetPowerNoEffect, NothingLeft, EndSet, VisitNext,
     Deciding
<1> QED
  BY <1>1, <1>2, <1>3, <1>4, <1>5, <1>6, <1>7

LEMMA RefreshKeepsSum ==
  ASSUME TypeOK, SumAnswered, Refresh
  PROVE  SumAnswered'
<1>1. ASSUME NEW c, QueryNext(c)
      PROVE  /\ pc = "refresh" /\ pc' = "refresh" /\ ~Deciding'
             /\ AtMostOneIn(todo')
             /\ c \in Ecoflow => /\ currentRequested = 0 /\ answered
                                 /\ \A i \in 1..Len(todo') : todo'[i] \notin Ecoflow
             /\ (\E i \in 1..Len(todo') : todo'[i] \in Ecoflow) =>
                   currentRequested = 0 /\ answered
  <2>1. /\ todo \in Seq(Converters) /\ todo # <<>> /\ AtMostOneIn(todo)
        /\ todo' = Tail(todo) /\ c = Head(todo) /\ pc = "refresh" /\ pc' = pc
    BY <1>1 DEF QueryNext, TypeOK, SumAnswered
  <2>2. Head(todo) = todo[1] /\ 1 \in 1..Len(todo)
    BY <2>1, HeadTailProperties, EmptySeq, LenProperties
  <2> QED
    BY <2>1, <2>2, TailVisitedOnce DEF SumAnswered, Deciding
<1>2. ASSUME NEW c, NEW d, QueryAnswered(c, d) PROVE SumAnswered'
  <2>1. c \in Ecoflow /\ QueryNext(c) /\ answered' = answered
    BY <1>2 DEF QueryAnswered
  <2> QED
    BY <1>1, <2>1 DEF SumAnswered
<1>3. ASSUME NEW c, QueryFailed(c) PROVE SumAnswered'
  <2>1. c \in Ecoflow /\ QueryNext(c) /\ currentRequested' = currentRequested
    BY <1>3 DEF QueryFailed
  <2> QED
    BY <1>1, <2>1 DEF SumAnswered
<1>4. ASSUME NEW c, QueryUnsupported(c) PROVE SumAnswered'
  BY <1>1, <1>4 DEF QueryUnsupported, SumAnswered
<1>5. CASE EndRefresh
  BY <1>5 DEF EndRefresh, SumAnswered, Deciding
<1> QED
  BY <1>2, <1>3, <1>4, <1>5 DEF Refresh

LEMMA OthersKeepSum ==
  ASSUME SumAnswered, Reload \/ Environment
  PROVE  SumAnswered'
<1>1. CASE Crash \/ Restart
  BY <1>1 DEF Crash, Restart, SumAnswered, Deciding
<1>2. CASE UNCHANGED <<pc, todo, currentRequested, answered>>
  BY <1>2 DEF SumAnswered, Deciding
<1> QED
  BY <1>1, <1>2
     DEF Reload, WriteField, EndUnmarshal, DefaultBaseRequest,
         DefaultUpperBatLimit, WatcherStep, Environment, MeterMessage,
         ChangeFile, AppSetsDemand, Tick, loopVars

(* With one converter every decision rests on an answer of its cloud.      *)
THEOREM AnswersCorrect ==
  ASSUME Len(EcoflowSeq) <= 1
  PROVE  Spec => []DecidesOnAnswers
<1>1. Init => SumAnswered
  BY DEF Init, SumAnswered, Deciding
<1>2. TypeOK /\ SumAnswered /\ [Next]_vars => SumAnswered'
  <2>1. CASE UNCHANGED vars
    BY <2>1 DEF vars, loopVars, SumAnswered, Deciding
  <2> QED
    BY <2>1, LoopKeepsSum, RefreshKeepsSum, OthersKeepSum DEF Next
<1>3. SumAnswered => DecidesOnAnswers
  BY DEF SumAnswered, DecidesOnAnswers
<1> QED
  BY <1>1, <1>2, <1>3, TypeCorrect, PTL DEF Spec

=============================================================================
