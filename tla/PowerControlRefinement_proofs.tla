---------------------- MODULE PowerControlRefinement_proofs ----------------------
(***************************************************************************)
(* PowerControl implements Regulator, for every value of the constants     *)
(* under which the configuration file is not edited.                       *)
(***************************************************************************)
EXTENDS PowerControlRefinement, PowerControl_proofs

-----------------------------------------------------------------------------
(* Configurations and readings                                             *)

(* What is loaded is a configuration.                                      *)
LEMMA LoadedConfig ==
  ASSUME NEW f \in Files
  PROVE  Loaded(f) \in Config
BY EnvironmentAssumption, LoadedType

(* Aligning a reading gives a reading.                                     *)
LEMMA AlignedType ==
  ASSUME NEW r \in Readings
  PROVE  /\ Aligned(r) = [power |-> Aligned(r).power, out |-> Aligned(r).out]
         /\ Aligned(r).power \in Int /\ Aligned(r).out \in Nat
<1>1. r \in Reading
  BY EnvironmentAssumption
<1>2. Aligned(r) \in Reading
  <2>1. CASE r.power < 0 /\ r.out = 0
    BY <1>1, <2>1 DEF Aligned, Reading
  <2>2. CASE ~(r.power < 0 /\ r.out = 0)
    BY <1>1, <2>2 DEF Aligned
  <2> QED
    BY <2>1, <2>2
<1> QED
  BY <1>2 DEF Reading

-----------------------------------------------------------------------------
(* Steps the regulator does not see                                        *)

(* A step of the loop between taking an event and announcing a decision.   *)
LEMMA ComputeUnseen ==
  ASSUME NEW from, NEW to, NEW locals,
         Compute(from, to, locals),
         ~Sending, ~Sending', from \notin {"down", "refresh"},
         to \notin {"down", "refresh"}
  PROVE  UNCHANGED Regulator!vars
<1>1. pc = from /\ pc' = to /\ UNCHANGED <<file, currentRequested,
         currentDelivered, blockLeft, demand>>
  BY DEF Compute, watchVars
<1>2. Phase' = Phase
  BY <1>1 DEF Phase
<1>3. ~Unsent /\ ~Unsent'
  BY DEF Unsent, Sending
<1> QED
  BY <1>1, <1>2, <1>3 DEF Regulator!vars

(* Nobody writes the configuration when the file is not edited.            *)
LEMMA ConfigStaysSteady ==
  ASSUME Edits = {}, ConfigSteady, [Next]_vars
  PROVE  ConfigSteady' /\ UNCHANGED file /\ ~Reload
         /\ (pc # "down" /\ pc' # "down" => UNCHANGED cfg)
<1>1. ~Reload
  BY DEF ConfigSteady, Reload, WriteField, EndUnmarshal, DefaultBaseRequest,
         DefaultUpperBatLimit, WatcherStep
<1>2. CASE Crash
  BY <1>1, <1>2 DEF Crash, ConfigSteady
<1>3. CASE Restart
  BY <1>1, <1>3 DEF Restart, ConfigSteady
<1>4. CASE Decide \/ Limit \/ Apply \/ Refresh
  <2>1. UNCHANGED watchVars /\ pc # "down" /\ pc' # "down"
    <3>1. CASE Decide
      BY <3>1 DEF Decide, SkipEvent, StartRefresh, TakeEvent, AimBelowExport,
         SeeImport, AimAtImport, KeepRequest, CheckUpper, TakeUpper, CheckBase,
         TakeBase, Settle, Announce, Compute
    <3>2. CASE Limit
      BY <3>2 DEF Limit, StillRealtime, NoLongerRealtime, StartRefresh,
         TakeFloor, ExceedsCap, WithinCap, TakeCap, Compute, Visit
    <3>3. CASE Apply
      BY <3>3 DEF Apply, SetPower, SetPowerNoEffect, NothingLeft, VisitNext,
         EndSet, StartRefresh
    <3>4. CASE Refresh
      BY <3>4 DEF Refresh, QueryAnswered, QueryFailed, QueryUnsupported,
         QueryNext, EndRefresh
    <3> QED
      BY <1>4, <3>1, <3>2, <3>3, <3>4
  <2> QED
    BY <1>1, <2>1 DEF ConfigSteady, watchVars
<1>5. CASE \/ Environment /\ ~Crash /\ ~Restart
           \/ UNCHANGED vars
  <2>1. UNCHANGED <<watchVars, pc>>
    BY <1>5 DEF Environment, MeterMessage, ChangeFile, AppSetsDemand, Tick,
                loopVars, watchVars, vars
  <2> QED
    BY <1>1, <2>1 DEF ConfigSteady, watchVars
<1> QED
  BY <1>1, <1>2, <1>3, <1>4, <1>5 DEF Next

(* While the program runs, its configuration is that of the file.          *)
LEMMA SteadyFacts ==
  ASSUME TypeOK, ConfigSteady, pc # "down"
  PROVE  /\ cfg = Loaded(file)
         /\ cfg.base \in Int /\ cfg.upper \in Int
         /\ cfg.interm \in Nat /\ cfg.wait \in Int
<1>1. cfg = Loaded(file) /\ file \in Files
  BY DEF ConfigSteady
<1>2. cfg \in Config
  BY DEF TypeOK
<1> QED
  BY <1>1, <1>2, LoadedConfig DEF Config

(* Where the loop does not decide only the configuration is of interest.   *)
LEMMA NotDecidingRefines ==
  ASSUME ~Deciding', ConfigSteady'
  PROVE  RefinementInvariant'
BY DEF RefinementInvariant, EventActedOn, DecisionSoFar, OrderOutstanding,
       Deciding, Sending

-----------------------------------------------------------------------------
(* Deciding                                                                *)

(* Starting a refresh is forgetting.                                       *)
LEMMA RefreshForgets ==
  ASSUME StartRefresh, UNCHANGED <<blockLeft, watchVars, demand>>,
         \/ ~Sending /\ pc \notin {"down", "refresh"}
         \/ Sending /\ (~Unsent \/ Ecoflow = {})
  PROVE  Regulator!Forget
<1>1. Phase' = "learning" /\ ~Unsent'
  BY DEF StartRefresh, Phase, Unsent
<1>2. \/ Phase = "ready"
      \/ Phase = "sending" /\ (~Unsent \/ Ecoflow = {})
  BY DEF Phase, Sending
<1> QED
  BY <1>1, <1>2 DEF StartRefresh, Regulator!Forget, watchVars

(* The reading taken is acted on.                                          *)
LEMMA TakeEventRefines ==
  ASSUME TypeOK, RefinementInvariant, TakeEvent, ConfigSteady'
  PROVE  RefinementInvariant' /\ UNCHANGED Regulator!vars
<1> DEFINE r == Aligned(Head(inbox))
<1>1. /\ pc = "idle" /\ pc' = "aim" /\ UNCHANGED <<cfg, file, currentRequested,
            currentDelivered, blockLeft, demand>>
  BY DEF TakeEvent, watchVars
<1>2. Head(inbox) \in Readings
  BY HeadTailProperties DEF TakeEvent, TypeOK
<1>3. /\ r = [power |-> r.power, out |-> r.out]
      /\ r.power \in Int /\ r.out \in Nat
  BY <1>2, AlignedType
<1>4. /\ call'.power = r.power /\ call'.out = r.out
      /\ call'.new = currentRequested
  BY DEF TakeEvent
<1>5. Event' = r
  BY <1>3, <1>4 DEF Event
<1>6. /\ currentRequested # 0 /\ cfg.realtime
      /\ r.power > 0 => ~(blockLeft > 0)
  BY DEF TakeEvent, Disregarded, Blocked
<1>7. blockLeft \in Nat /\ cfg = Loaded(file)
  BY <1>1, SteadyFacts DEF TypeOK, RefinementInvariant
<1> HIDE DEF r
<1>8. Regulator!Acted(Event)'
  BY <1>1, <1>3, <1>5, <1>6, <1>7 DEF Regulator!Acted
<1>9. EventActedOn'
  BY <1>2, <1>5, <1>8 DEF EventActedOn, r
<1>10. DecisionSoFar' /\ OrderOutstanding'
  BY <1>1, <1>4 DEF DecisionSoFar, OrderOutstanding, Sending
<1>11. Phase' = Phase /\ ~Unsent /\ ~Unsent'
  BY <1>1 DEF Phase, Unsent, Sending
<1> QED
  BY <1>1, <1>9, <1>10, <1>11 DEF RefinementInvariant, Regulator!vars

Computing == {"aim", "import", "upper", "takeUpper", "base", "takeBase", "announce"}

(* A step towards the decision keeps what the regulator knows of it.       *)
LEMMA ComputingRefines ==
  ASSUME RefinementInvariant, ConfigSteady', pc \in Computing, pc' \in Computing,
         UNCHANGED <<file, cfg, currentRequested, currentDelivered, blockLeft, demand>>,
         call'.power = call.power, call'.out = call.out
  PROVE  /\ EventActedOn' /\ OrderOutstanding' /\ UNCHANGED Regulator!vars
         /\ Regulator!Target(Event)' = Regulator!Target(Event)
<1>1. Event' = Event
  BY DEF Event
<1>2. Deciding /\ ~Sending
  BY DEF Computing, Deciding, Sending
<1>3. EventActedOn'
  BY <1>1, <1>2 DEF RefinementInvariant, EventActedOn, Regulator!Acted
<1>4. OrderOutstanding'
  BY DEF OrderOutstanding, Sending, Computing
<1>5. Phase' = Phase /\ ~Unsent /\ ~Unsent'
  BY DEF Phase, Unsent, Sending, Computing
<1>6. UNCHANGED Regulator!vars
  BY <1>5 DEF Regulator!vars
<1>7. Regulator!Target(Event)' = Regulator!Target(Event)
  BY <1>1 DEF Regulator!Target
<1> QED
  BY <1>3, <1>4, <1>6, <1>7

(* The event and the target are numbers.                                   *)
LEMMA TargetType ==
  ASSUME TypeOK, ConfigSteady, pc \in Computing
  PROVE  /\ Regulator!Target(Event) \in Int
         /\ call.out > 0 => Regulator!Target(Event) = currentRequested - call.out
         /\ call.out = 0 /\ call.power > cfg.interm =>
               Regulator!Target(Event) = currentDelivered + call.power - cfg.interm
         /\ call.out = 0 /\ call.power <= cfg.interm =>
               Regulator!Target(Event) = currentRequested
<1>1. /\ call.power \in Int /\ call.out \in Nat
      /\ currentRequested \in Nat /\ currentDelivered \in Nat
  BY FieldsType DEF TypeOK
<1>2. cfg = Loaded(file) /\ cfg.interm \in Nat
  BY SteadyFacts DEF Computing
<1> QED
  BY <1>1, <1>2 DEF Regulator!Target, Event

LEMMA DecideRefines ==
  ASSUME TypeOK, RefinementInvariant, Decide, ConfigSteady'
  PROVE  RefinementInvariant' /\ [Regulator!Next]_(Regulator!vars)
<1> DEFINE Kept == RefinementInvariant' /\ UNCHANGED Regulator!vars
<1> DEFINE target == Regulator!Target(Event)
<1> DEFINE capped == AtMost(target, cfg.upper)
<1>a. ConfigSteady
  BY DEF RefinementInvariant
<1>b. /\ call.power \in Int /\ call.out \in Nat /\ call.new \in Int
      /\ call \in Call
  BY FieldsType DEF TypeOK
<1>c. ASSUME NEW from \in Computing, NEW to \in Computing, NEW locals,
             Compute(from, to, locals), locals.power = call.power,
             locals.out = call.out, DecisionSoFar'
      PROVE  Kept
  <2>1. /\ pc = from /\ pc' = to /\ call' = locals
        /\ UNCHANGED <<file, cfg, currentRequested, currentDelivered, blockLeft, demand>>
    BY <1>c DEF Compute, watchVars
  <2> QED
    BY <1>c, <2>1, ComputingRefines DEF RefinementInvariant
<1>d. ASSUME NEW from \in Computing, NEW to \in Computing, NEW locals,
             Compute(from, to, locals), locals.power = call.power,
             locals.out = call.out
      PROVE  /\ pc = from /\ pc' = to /\ call' = locals /\ UNCHANGED cfg
             /\ cfg.base \in Int /\ cfg.upper \in Int
             /\ target \in Int /\ target' = target /\ capped' = capped
             /\ call.out > 0 => target = currentRequested - call.out
             /\ call.out = 0 /\ call.power > cfg.interm =>
                   target = currentDelivered + call.power - cfg.interm
             /\ call.out = 0 /\ call.power <= cfg.interm =>
                   target = currentRequested
  <2>1. /\ pc = from /\ pc' = to /\ call' = locals
        /\ UNCHANGED <<file, cfg, currentRequested, currentDelivered, blockLeft, demand>>
    BY <1>d DEF Compute, watchVars
  <2>2. target' = target
    BY <1>d, <2>1, ComputingRefines
  <2>3. pc # "down"
    BY <2>1 DEF Computing
  <2> QED
    BY <1>a, <1>d, <2>1, <2>2, <2>3, TargetType, SteadyFacts
<1>e. \A w : /\ [call EXCEPT !.new = w].power = call.power
             /\ [call EXCEPT !.new = w].out = call.out
             /\ [call EXCEPT !.new = w].new = w
  BY <1>b DEF Call
<1>f. DecisionSoFar
  BY DEF RefinementInvariant
<1>1. CASE SkipEvent
  <2>1. Regulator!Forget
    BY <1>1, RefreshForgets DEF SkipEvent, Sending
  <2>2. RefinementInvariant'
    BY <1>1, NotDecidingRefines DEF SkipEvent, StartRefresh, Deciding
  <2> QED
    BY <2>1, <2>2 DEF Regulator!Next
<1>2. CASE TakeEvent
  BY <1>2, TakeEventRefines
<1>3. CASE AimBelowExport
  <2> DEFINE new == [call EXCEPT !.new = currentRequested - call.out]
  <2>1. Compute("aim", "upper", new) /\ call.out > 0
    BY <1>3 DEF AimBelowExport
  <2>2. new.new = target /\ target' = target /\ pc' = "upper" /\ call' = new
    BY <1>d, <1>e, <2>1 DEF Computing
  <2>3. DecisionSoFar'
    BY <2>2 DEF DecisionSoFar
  <2> QED
    BY <1>c, <1>e, <2>1, <2>3 DEF Computing
<1>4. CASE SeeImport
  <2>1. /\ pc' = "import" /\ call' = call /\ UNCHANGED cfg
        /\ call.out = 0 /\ call.power > cfg.interm
    BY <1>4, <1>d DEF SeeImport, Computing
  <2>2. DecisionSoFar'
    BY <2>1 DEF DecisionSoFar
  <2> QED
    BY <1>4, <1>c, <2>2 DEF SeeImport, Computing
<1>5. CASE AimAtImport
  <2> DEFINE new == [call EXCEPT !.new = currentDelivered + call.power - cfg.interm]
  <2>1. Compute("import", "upper", new) /\ call.out = 0 /\ call.power > cfg.interm
    BY <1>5, <1>f DEF AimAtImport, DecisionSoFar, Compute
  <2>2. new.new = target /\ target' = target /\ pc' = "upper" /\ call' = new
    BY <1>d, <1>e, <2>1 DEF Computing
  <2>3. DecisionSoFar'
    BY <2>2 DEF DecisionSoFar
  <2> QED
    BY <1>c, <1>e, <2>1, <2>3 DEF Computing
<1>6. CASE KeepRequest
  <2>1. /\ call.new = target /\ target' = target /\ pc' = "upper" /\ call' = call
    BY <1>6, <1>d, <1>f DEF KeepRequest, Computing, DecisionSoFar, Compute
  <2>2. DecisionSoFar'
    BY <2>1 DEF DecisionSoFar
  <2> QED
    BY <1>6, <1>c, <2>2 DEF KeepRequest, Computing
<1>7. CASE CheckUpper
  <2> DEFINE to == IF call.new > cfg.upper THEN "takeUpper" ELSE "base"
  <2>1. Compute("upper", to, call) /\ to \in Computing
    BY <1>7 DEF CheckUpper, Computing
  <2>2. /\ pc = "upper" /\ pc' = to /\ call' = call /\ UNCHANGED cfg
        /\ target' = target /\ capped' = capped /\ target \in Int
        /\ cfg.upper \in Int
    BY <1>d, <2>1 DEF Computing
  <2>3. call.new = target
    BY <1>f, <2>2 DEF DecisionSoFar
  <2>4. DecisionSoFar'
    BY <2>2, <2>3 DEF DecisionSoFar, AtMost
  <2> QED
    BY <1>c, <2>1, <2>4 DEF Computing
<1>8. CASE TakeUpper
  <2> DEFINE new == [call EXCEPT !.new = cfg.upper]
  <2>1. Compute("takeUpper", "base", new)
    BY <1>8 DEF TakeUpper
  <2>2. /\ pc = "takeUpper" /\ pc' = "base" /\ call' = new /\ new.new = cfg.upper
        /\ target \in Int /\ cfg.upper \in Int /\ capped' = capped
    BY <1>d, <1>e, <2>1 DEF Computing
  <2>3. target > cfg.upper
    BY <1>f, <2>2 DEF DecisionSoFar
  <2>4. capped = cfg.upper
    BY <2>2, <2>3 DEF AtMost
  <2>5. DecisionSoFar'
    BY <2>2, <2>4 DEF DecisionSoFar
  <2> QED
    BY <1>c, <1>e, <2>1, <2>5 DEF Computing
<1>9. CASE CheckBase
  <2> DEFINE to == IF call.new < cfg.base THEN "takeBase" ELSE "announce"
  <2>1. Compute("base", to, call) /\ to \in Computing
    BY <1>9 DEF CheckBase, Computing
  <2>2. /\ pc = "base" /\ pc' = to /\ call' = call /\ UNCHANGED cfg
        /\ capped' = capped /\ capped \in Int /\ cfg.base \in Int
    BY <1>d, <2>1 DEF Computing, AtMost
  <2>3. call.new = capped
    BY <1>f, <2>2 DEF DecisionSoFar
  <2>4. DecisionSoFar'
    BY <2>2, <2>3 DEF DecisionSoFar, AtLeast
  <2> QED
    BY <1>c, <2>1, <2>4 DEF Computing
<1>10. CASE TakeBase
  <2> DEFINE new == [call EXCEPT !.new = cfg.base]
  <2>1. Compute("takeBase", "announce", new)
    BY <1>10 DEF TakeBase
  <2>2. /\ pc = "takeBase" /\ pc' = "announce" /\ call' = new /\ new.new = cfg.base
        /\ UNCHANGED cfg /\ capped' = capped /\ cfg.base \in Int
        /\ target \in Int /\ cfg.upper \in Int
    BY <1>d, <1>e, <2>1 DEF Computing
  <2>3. capped < cfg.base
    BY <1>f, <2>2 DEF DecisionSoFar
  <2>4. AtLeast(capped, cfg.base) = cfg.base
    BY <2>2, <2>3 DEF AtLeast, AtMost
  <2>5. DecisionSoFar'
    BY <2>2, <2>4 DEF DecisionSoFar
  <2> QED
    BY <1>c, <1>e, <2>1, <2>5 DEF Computing
<1>11. CASE Settle
  <2>1. /\ pc = "announce" /\ pc' = "idle"
        /\ UNCHANGED <<file, currentRequested, currentDelivered, blockLeft, demand>>
    BY <1>11 DEF Settle, watchVars
  <2>2. Phase' = Phase /\ ~Unsent /\ ~Unsent'
    BY <2>1 DEF Phase, Unsent, Sending
  <2>3. UNCHANGED Regulator!vars
    BY <2>1, <2>2 DEF Regulator!vars
  <2> QED
    BY <2>1, <2>3, NotDecidingRefines DEF Deciding
<1>12. CASE Announce
  <2>1. /\ pc = "announce" /\ pc' = "floor"
        /\ blockLeft' = AtLeast(cfg.wait, 0) /\ call.new > 0 /\ call.new # currentRequested
        /\ UNCHANGED <<file, cfg, currentRequested, currentDelivered, demand>>
    BY <1>12 DEF Announce, ToBeSent, watchVars
  <2>2. call'.new = call.new /\ call'.rest = call.new
    BY <1>12, <1>b DEF Announce, Call
  <2>3. /\ cfg = Loaded(file) /\ cfg.base \in Int /\ cfg.upper \in Int
        /\ target \in Int
    BY <1>a, <2>1, SteadyFacts, TargetType DEF Computing
  <2>4. call.new = AtLeast(capped, cfg.base)
    BY <1>f, <2>1 DEF DecisionSoFar
  <2>5. call.new = Regulator!Decision(Event)
    BY <2>3, <2>4 DEF Regulator!Decision, Regulator!AtMost, Regulator!AtLeast,
                      AtMost, AtLeast
  <2>6. /\ Event \in {Aligned(r) : r \in Readings} /\ Regulator!Acted(Event)
    BY <2>1, RefinementInvariant DEF RefinementInvariant, EventActedOn, Deciding, Sending
  <2>7. Phase = "ready" /\ Phase' = "sending" /\ Unsent'
    BY <2>1 DEF Phase, Sending, Unsent
  <2>8. Regulator!Decide(Event)
    BY <2>1, <2>2, <2>3, <2>5, <2>6, <2>7
    DEF Regulator!Decide, Regulator!AtLeast, AtLeast
  <2>9. Regulator!Next
    BY <2>6, <2>8 DEF Regulator!Next
  <2>10. cfg.realtime
    BY <2>3, <2>6 DEF Regulator!Acted
  <2>11. call.new >= cfg.base
    BY <1>b, <2>3, <2>4 DEF AtLeast, AtMost
  <2>12. OrderOutstanding'
    BY <1>b, <2>1, <2>2, <2>10, <2>11 DEF OrderOutstanding
  <2>13. EventActedOn' /\ DecisionSoFar'
    BY <2>1 DEF EventActedOn, DecisionSoFar, Deciding, Sending
  <2> QED
    BY <2>9, <2>12, <2>13 DEF RefinementInvariant
<1> QED
  BY <1>1, <1>2, <1>3, <1>4, <1>5, <1>6, <1>7, <1>8, <1>9, <1>10, <1>11, <1>12
     DEF Decide

-----------------------------------------------------------------------------
(* Sending                                                                 *)

(* Every loop over the plugins is to visit all converters.                 *)
LEMMA AllVisited ==
  ASSUME NEW t \in VisitOrders
  PROVE  Ecoflow \subseteq ToSet(t)
<1>1. EcoflowSeq \in Seq(Converters) /\ MarstekSeq \in Seq(Converters)
  BY ConverterAssumption, SeqMonotonic DEF Converters
<1>2. Len(EcoflowSeq) \in Nat /\ Len(MarstekSeq) \in Nat
  BY <1>1, LenProperties
<1>3. ASSUME NEW c \in Ecoflow
      PROVE  \E i \in DOMAIN t : t[i] = c
  <2>1. PICK k \in 1..Len(EcoflowSeq) : EcoflowSeq[k] = c
    BY <1>1, LenProperties DEF Ecoflow, ToSet
  <2>2. CASE t = EcoflowSeq \o MarstekSeq
    <3>1. DOMAIN t = 1..Len(t) /\ Len(t) = Len(EcoflowSeq) + Len(MarstekSeq)
          /\ t[k] = EcoflowSeq[k]
      BY <1>1, <1>2, <2>2, ConcatProperties, LenProperties
    <3> QED
      BY <1>2, <2>1, <3>1
  <2>3. CASE t = MarstekSeq \o EcoflowSeq
    <3> DEFINE i == k + Len(MarstekSeq)
    <3>1. DOMAIN t = 1..Len(t) /\ Len(t) = Len(MarstekSeq) + Len(EcoflowSeq)
      BY <1>1, <1>2, <2>3, ConcatProperties, LenProperties
    <3>2. i \in 1..Len(t) /\ i > Len(MarstekSeq) /\ i - Len(MarstekSeq) = k
      BY <1>2, <3>1
    <3>3. t[i] = EcoflowSeq[k]
      BY <1>1, <2>3, <3>1, <3>2, ConcatProperties
    <3> QED
      BY <2>1, <3>1, <3>2, <3>3
  <2> QED
    BY <2>2, <2>3 DEF VisitOrders
<1> QED
  BY <1>3 DEF ToSet

(* Passing one of marstek leaves all converters to be visited.             *)
LEMMA TailVisits ==
  ASSUME NEW t \in Seq(Converters), t # <<>>, Ecoflow \subseteq ToSet(t),
         Head(t) \notin Ecoflow
  PROVE  Ecoflow \subseteq ToSet(Tail(t))
<1>1. /\ Len(t) \in Nat \ {0} /\ Len(Tail(t)) = Len(t) - 1 /\ Head(t) = t[1]
      /\ DOMAIN t = 1..Len(t) /\ DOMAIN Tail(t) = 1..Len(Tail(t))
      /\ \A i \in 1..Len(Tail(t)) : Tail(t)[i] = t[i + 1]
  BY HeadTailProperties, EmptySeq, LenProperties
<1>2. ASSUME NEW c \in Ecoflow
      PROVE  \E i \in DOMAIN Tail(t) : Tail(t)[i] = c
  <2>1. PICK k \in 1..Len(t) : t[k] = c
    BY <1>1 DEF ToSet
  <2>2. k # 1
    BY <1>1, <2>1
  <2>3. k - 1 \in 1..Len(Tail(t)) /\ (k - 1) + 1 = k
    BY <1>1, <2>2
  <2> QED
    BY <1>1, <2>1, <2>3
<1> QED
  BY <1>2 DEF ToSet

(* The second look at the limits changes the order of marstek and ecoflow  *)
(* and the cap, nothing the regulator knows of; but an upper limit below   *)
(* zero leaves nothing to send.                                            *)
LEMMA LimitRefines ==
  ASSUME TypeOK, RefinementInvariant, Limit, ConfigSteady'
  PROVE  RefinementInvariant' /\ [Regulator!Next]_(Regulator!vars)
<1>a. /\ call.new \in Int /\ call.rest \in Int /\ call \in Call
  BY FieldsType DEF TypeOK
<1>b. OrderOutstanding /\ ConfigSteady
  BY DEF RefinementInvariant
<1>1. /\ pc \in {"floor", "cap", "takeCap"}
      /\ pc' \in {"cap", "takeCap", "set"} /\ (pc' = "takeCap" => pc = "cap")
      /\ UNCHANGED <<cfg, file, currentRequested, currentDelivered, blockLeft, demand>>
      /\ pc' = "set" => todo' \in VisitOrders
      /\ pc = "floor" => pc' = "cap" /\ call' = call
      /\ pc = "cap" /\ pc' = "takeCap" => call' = call /\ call.rest > cfg.upper
      /\ pc = "cap" /\ pc' = "set" =>
            call' = [call EXCEPT !.rest = call.rest] /\ call.rest <= cfg.upper
      /\ pc = "takeCap" => call' = [call EXCEPT !.rest = cfg.upper] /\ pc' = "set"
      /\ pc' = "cap" => pc = "floor"
  <2>1. pc = "floor" => cfg.realtime /\ ~(call.rest < cfg.base)
    <3>1. ASSUME pc = "floor" PROVE cfg.base \in Int
      BY <1>b, <3>1, SteadyFacts
    <3> QED
      BY <1>a, <1>b, <3>1 DEF OrderOutstanding, Sending
  <2>2. pc # "takeFloor"
    BY <1>b DEF OrderOutstanding
  <2>3. CASE StillRealtime
    BY <2>1, <2>3 DEF StillRealtime, Compute, watchVars
  <2>4. CASE ExceedsCap
    BY <2>4 DEF ExceedsCap, Compute, watchVars
  <2>5. CASE WithinCap
    BY <2>5 DEF WithinCap, Visit, watchVars
  <2>6. CASE TakeCap
    BY <2>6 DEF TakeCap, Visit, watchVars
  <2> QED
    BY <2>1, <2>2, <2>3, <2>4, <2>5, <2>6
       DEF Limit, NoLongerRealtime, TakeFloor, Compute
<1>2. /\ call'.new = call.new
      /\ pc' # "set" => call'.rest = call.rest
      /\ pc = "cap" => call'.rest = call.rest
      /\ pc = "takeCap" => call'.rest = cfg.upper
  BY <1>a, <1>1 DEF Call
<1>3. /\ cfg.realtime /\ call.rest = call.new /\ call.new >= cfg.base /\ call.new > 0
      /\ pc = "takeCap" => call.rest > cfg.upper
  BY <1>b, <1>1 DEF OrderOutstanding, Sending
<1>4. cfg.upper \in Int
  BY <1>b, <1>1, SteadyFacts
<1>5. pc' = "set" => call'.rest = AtMost(call.new, cfg.upper)
  BY <1>a, <1>1, <1>2, <1>3, <1>4 DEF AtMost
<1>6. pc' = "set" => Ecoflow \subseteq ToSet(todo)'
  BY <1>1, AllVisited
<1>7. OrderOutstanding'
  BY <1>1, <1>2, <1>3, <1>5, <1>6 DEF OrderOutstanding, Sending
<1>8. EventActedOn' /\ DecisionSoFar'
  BY <1>1 DEF EventActedOn, DecisionSoFar, Deciding, Sending
<1>9. Phase = "sending" /\ Phase' = "sending" /\ Unsent
  BY <1>1 DEF Phase, Sending, Unsent
<1>10. RefinementInvariant'
  BY <1>7, <1>8 DEF RefinementInvariant
<1>11. CASE Unsent'
  BY <1>1, <1>2, <1>9, <1>10, <1>11 DEF Regulator!vars
<1>12. CASE ~Unsent'
  <2>1. Regulator!SendFails
    BY <1>1, <1>3, <1>9, <1>12 DEF Regulator!SendFails
  <2> QED
    BY <1>10, <2>1 DEF Regulator!Next
<1> QED
  BY <1>11, <1>12

(* Asking the first converter sends the order; marstek takes none of it.   *)
LEMMA ApplyRefines ==
  ASSUME TypeOK, RefinementInvariant, Apply, ConfigSteady'
  PROVE  RefinementInvariant' /\ [Regulator!Next]_(Regulator!vars)
<1>a. /\ call.new \in Int /\ call.rest \in Int /\ call \in Call
      /\ todo \in Seq(Converters)
  BY FieldsType DEF TypeOK
<1>b. OrderOutstanding /\ ConfigSteady
  BY DEF RefinementInvariant
<1>c. ASSUME NEW c, VisitNext(c)
      PROVE  /\ pc = "set" /\ pc' = "set" /\ todo # <<>> /\ c = Head(todo)
             /\ todo' = Tail(todo) /\ cfg.realtime
             /\ UNCHANGED <<cfg, file, currentRequested, currentDelivered, blockLeft>>
             /\ Phase = "sending" /\ Phase' = "sending"
             /\ EventActedOn' /\ DecisionSoFar' /\ cfg = Loaded(file)
  <2>1. /\ pc = "set" /\ pc' = "set" /\ todo # <<>> /\ c = Head(todo)
        /\ todo' = Tail(todo)
        /\ UNCHANGED <<cfg, file, currentRequested, currentDelivered, blockLeft>>
    BY <1>c DEF VisitNext, watchVars
  <2> QED
    BY <1>b, <2>1, SteadyFacts
       DEF Phase, Sending, EventActedOn, DecisionSoFar, Deciding, OrderOutstanding
<1>d. ASSUME NEW c, VisitNext(c), Asked(c)
      PROVE  /\ call.rest > 0 /\ call.new > 0 /\ Unsent
             /\ call.rest = AtMost(call.new, cfg.upper)
             /\ Ecoflow \subseteq ToSet(todo) /\ call'.new = call.new
             /\ c \in Ecoflow => call'.rest = 0
             /\ c \notin Ecoflow => call'.rest = call.rest
  <2>1. pc = "set" /\ call.rest > 0
    BY <1>c, <1>d DEF Asked
  <2>2. /\ call'.new = call.new
        /\ call'.rest = call.rest - ReportedSet(c, call.rest)
    BY <1>a, <1>d DEF Asked, Call
  <2> QED
    BY <1>a, <1>b, <2>1, <2>2 DEF ReportedSet, OrderOutstanding, Unsent
<1>e. ASSUME NEW c, VisitNext(c), ~(call'.rest > 0)
      PROVE  RefinementInvariant' /\ ~Unsent'
  <2>1. /\ pc' = "set" /\ cfg'.realtime /\ ~(call'.rest > 0)
    BY <1>a, <1>c, <1>e
  <2> QED
    BY <1>c, <1>e, <2>1 DEF RefinementInvariant, OrderOutstanding, Unsent
<1>1. ASSUME NEW c \in Converters, SetPower(c)
      PROVE  RefinementInvariant' /\ Regulator!Next
  <2>1. /\ VisitNext(c) /\ Asked(c) /\ c \in Ecoflow
        /\ demand' = [demand EXCEPT ![c] = call.rest]
    BY <1>1 DEF SetPower
  <2>2. RefinementInvariant' /\ ~Unsent'
    BY <1>d, <1>e, <2>1
  <2>3. AtMost(call.new, cfg.upper) = Regulator!Capped
    BY <1>c, <1>d, <2>1 DEF Regulator!Capped, Regulator!AtMost, AtMost
  <2>4. Regulator!Send(c)
    BY <1>c, <1>d, <2>1, <2>2, <2>3 DEF Regulator!Send
  <2> QED
    BY <2>1, <2>2, <2>4 DEF Regulator!Next
<1>2. ASSUME NEW c \in Converters, SetPowerNoEffect(c)
      PROVE  RefinementInvariant' /\ [Regulator!Next]_(Regulator!vars)
  <2>1. VisitNext(c) /\ Asked(c) /\ UNCHANGED demand
    BY <1>2 DEF SetPowerNoEffect
  <2>2. CASE c \in Ecoflow
    <3>1. RefinementInvariant' /\ ~Unsent'
      BY <1>d, <1>e, <2>1, <2>2
    <3>2. Regulator!SendFails
      BY <1>c, <1>d, <2>1, <3>1 DEF Regulator!SendFails
    <3> QED
      BY <3>1, <3>2 DEF Regulator!Next
  <2>3. CASE c \notin Ecoflow
    <3>1. Ecoflow \subseteq ToSet(todo)'
      BY <1>a, <1>c, <1>d, <2>1, <2>3, TailVisits
    <3>2. OrderOutstanding' /\ Unsent'
      BY <1>c, <1>d, <2>1, <2>3, <3>1 DEF OrderOutstanding, Unsent, AtMost
    <3>3. UNCHANGED Regulator!vars
      BY <1>c, <1>d, <2>1, <3>2 DEF Regulator!vars
    <3> QED
      BY <1>c, <2>1, <3>2, <3>3 DEF RefinementInvariant
  <2> QED
    BY <2>2, <2>3
<1>3. ASSUME NEW c \in Converters, NothingLeft(c)
      PROVE  RefinementInvariant' /\ UNCHANGED Regulator!vars
  <2>1. VisitNext(c) /\ UNCHANGED <<call, demand>> /\ call.rest <= 0
    BY <1>3 DEF NothingLeft
  <2>2. RefinementInvariant' /\ ~Unsent'
    BY <1>a, <1>e, <2>1
  <2>3. ~Unsent
    BY <1>a, <1>c, <2>1 DEF Unsent
  <2> QED
    BY <1>c, <2>1, <2>2, <2>3 DEF Regulator!vars
<1>4. CASE EndSet
  <2>1. pc = "set" /\ todo = <<>>
    BY <1>4 DEF EndSet
  <2>2. Unsent => Ecoflow = {}
    BY <1>b, <2>1 DEF Unsent, OrderOutstanding, ToSet
  <2>3. Regulator!Forget
    BY <1>4, <2>1, <2>2, RefreshForgets DEF EndSet, Sending
  <2> QED
    BY <1>4, <2>3, NotDecidingRefines DEF EndSet, StartRefresh, Deciding, Regulator!Next
<1> QED
  BY <1>1, <1>2, <1>3, <1>4 DEF Apply

-----------------------------------------------------------------------------
(* Learning and the environment                                            *)

LEMMA RefreshRefines ==
  ASSUME TypeOK, Refresh, ConfigSteady'
  PROVE  RefinementInvariant' /\ [Regulator!Next]_(Regulator!vars)
<1>a. pc = "refresh" /\ pc' \in {"refresh", "idle"}
      /\ UNCHANGED <<file, blockLeft, demand>>
  BY DEF Refresh, QueryAnswered, QueryFailed, QueryUnsupported, QueryNext,
         EndRefresh, watchVars
<1>b. /\ Phase = "learning" /\ ~Unsent /\ ~Unsent'
      /\ pc' = "refresh" => Phase' = "learning"
      /\ pc' = "idle" => Phase' = "ready"
  BY <1>a DEF Phase, Unsent, Sending
<1>c. RefinementInvariant'
  BY <1>a, NotDecidingRefines DEF Deciding
<1>1. ASSUME NEW c, NEW d \in Watts \cup {0}, QueryAnswered(c, d)
      PROVE  Regulator!Next
  <2>1. /\ pc' = "refresh" /\ c \in Ecoflow
        /\ currentRequested' = currentRequested + demand[c]
        /\ currentDelivered' = currentDelivered + d
    BY <1>a, <1>1 DEF QueryAnswered, QueryNext
  <2>2. currentDelivered' - currentDelivered \in Nat
    BY <2>1, EnvironmentAssumption DEF TypeOK
  <2>3. Regulator!Learn(c)
    BY <1>a, <1>b, <2>1, <2>2 DEF Regulator!Learn
  <2> QED
    BY <2>1, <2>3 DEF Regulator!Next
<1>2. ASSUME NEW c, QueryFailed(c) \/ QueryUnsupported(c)
      PROVE  UNCHANGED Regulator!vars
  <2>1. pc' = "refresh" /\ UNCHANGED <<currentRequested, currentDelivered>>
    BY <1>a, <1>2 DEF QueryFailed, QueryUnsupported, QueryNext
  <2> QED
    BY <1>a, <1>b, <2>1 DEF Regulator!vars
<1>3. CASE EndRefresh
  <2>1. pc' = "idle" /\ UNCHANGED <<currentRequested, currentDelivered>>
    BY <1>3 DEF EndRefresh
  <2>2. Regulator!Known
    BY <1>a, <1>b, <2>1 DEF Regulator!Known
  <2> QED
    BY <1>c, <2>2 DEF Regulator!Next
<1> QED
  BY <1>c, <1>1, <1>2, <1>3 DEF Refresh

(* The clock, the app, the end and the start of the process are steps of   *)
(* the regulator too.                                                      *)
LEMMA EnvironmentRefines ==
  ASSUME Edits = {}, TypeOK, RefinementInvariant, Environment, ConfigSteady'
  PROVE  RefinementInvariant' /\ [Regulator!Next]_(Regulator!vars)
<1>1. ASSUME UNCHANGED <<pc, call, todo, cfg, file, currentRequested,
                         currentDelivered>>,
             \/ UNCHANGED blockLeft
             \/ blockLeft > 0
      PROVE  RefinementInvariant' /\ Phase' = Phase /\ (Unsent' <=> Unsent)
  <2>1. Event' = Event
    BY <1>1 DEF Event
  <2>2. blockLeft \in Nat
    BY DEF TypeOK
  <2>3. EventActedOn'
    BY <1>1, <2>1, <2>2
       DEF RefinementInvariant, EventActedOn, Deciding, Sending, Regulator!Acted
  <2>4. DecisionSoFar'
    BY <1>1, <2>1 DEF RefinementInvariant, DecisionSoFar, Regulator!Target
  <2>5. OrderOutstanding'
    BY <1>1 DEF RefinementInvariant, OrderOutstanding, Sending
  <2>6. Phase' = Phase
    BY <1>1 DEF Phase, Sending
  <2>7. Unsent' <=> Unsent
    BY <1>1 DEF Unsent
  <2> QED
    BY <2>3, <2>4, <2>5, <2>6, <2>7 DEF RefinementInvariant
<1>2. ASSUME NEW r \in Readings, MeterMessage(r)
      PROVE  RefinementInvariant' /\ UNCHANGED Regulator!vars
  BY <1>1, <1>2 DEF MeterMessage, loopVars, watchVars, Regulator!vars
<1>3. ASSUME NEW c \in Ecoflow, NEW w \in Watts, AppSetsDemand(c, w)
      PROVE  RefinementInvariant' /\ Regulator!Next
  <2>1. RefinementInvariant' /\ Regulator!AppSetsDemand(c)
    BY <1>1, <1>3 DEF AppSetsDemand, loopVars, watchVars, Regulator!AppSetsDemand
  <2> QED
    BY <2>1 DEF Regulator!Next
<1>4. CASE Tick
  <2>1. RefinementInvariant' /\ Regulator!Tick
    BY <1>1, <1>4 DEF Tick, watchVars, Regulator!Tick
  <2> QED
    BY <2>1 DEF Regulator!Next
<1>5. CASE Crash
  <2>1. Phase # "down" /\ Phase' = "down" /\ ~Unsent'
    BY <1>5 DEF Crash, Phase, Unsent, Sending
  <2>2. Regulator!Crash
    BY <1>5, <2>1 DEF Crash, Regulator!Crash
  <2> QED
    BY <1>5, <2>2, NotDecidingRefines DEF Crash, Deciding, Regulator!Next
<1>6. CASE Restart
  <2>1. Phase = "down" /\ Phase' = "ready" /\ ~Unsent /\ ~Unsent'
    BY <1>6 DEF Restart, Phase, Unsent, Sending
  <2>2. Regulator!Restart
    BY <1>6, <2>1, BoundAssumption DEF Restart, Regulator!Restart
  <2> QED
    BY <1>6, <2>2, NotDecidingRefines DEF Restart, Deciding, Regulator!Next
<1> QED
  BY <1>2, <1>3, <1>4, <1>5, <1>6 DEF Environment

-----------------------------------------------------------------------------
(* The refinement                                                          *)

LEMMA InitRefines == ASSUME Edits = {}, Init PROVE Regulator!Init /\ RefinementInvariant
<1>1. ConfigSteady
  BY DEF Init, ConfigSteady
<1>2. RefinementInvariant
  BY <1>1 DEF Init, RefinementInvariant, EventActedOn, DecisionSoFar,
              OrderOutstanding, Deciding, Sending
<1>3. Phase = "ready" /\ ~Unsent
  BY DEF Init, Phase, Sending, Unsent
<1>4. blockLeft \in Nat /\ demand \in [Ecoflow -> Nat] /\ file \in Files
  BY EnvironmentAssumption, BoundAssumption DEF Init
<1> QED
  BY <1>2, <1>3, <1>4 DEF Init, Regulator!Init

LEMMA StepRefines ==
  ASSUME Edits = {}, TypeOK, RefinementInvariant, [Next]_vars
  PROVE  RefinementInvariant' /\ [Regulator!Next]_(Regulator!vars)
<1>1. ConfigSteady' /\ ~Reload
  BY ConfigStaysSteady DEF RefinementInvariant
<1>2. CASE UNCHANGED vars
  BY <1>2 DEF vars, loopVars, watchVars, RefinementInvariant, ConfigSteady,
     EventActedOn, Event, DecisionSoFar, OrderOutstanding, Deciding, Sending,
     Unsent, Phase, Regulator!Acted, Regulator!Target, Regulator!vars
<1> QED
  BY <1>1, <1>2, DecideRefines, LimitRefines, ApplyRefines, RefreshRefines,
     EnvironmentRefines DEF Next

(* What the regulator knows of the loop while the file is not edited.      *)
THEOREM RefinementCorrect ==
  ASSUME Edits = {} PROVE Spec => []RefinementInvariant
<1>1. Init => RefinementInvariant
  BY InitRefines
<1>2. TypeOK /\ RefinementInvariant /\ [Next]_vars => RefinementInvariant'
  BY StepRefines
<1> QED
  BY <1>1, <1>2, TypeCorrect, PTL DEF Spec

(* The controller implements the regulator while the file is not edited.   *)
THEOREM RegulatorImplemented ==
  ASSUME Edits = {} PROVE Spec => Regulates
<1>1. Init => Regulator!Init
  BY InitRefines
<1>2. TypeOK /\ RefinementInvariant /\ [Next]_vars => [Regulator!Next]_(Regulator!vars)
  BY StepRefines
<1> QED
  BY <1>1, <1>2, TypeCorrect, RefinementCorrect, PTL DEF Spec, Regulates, Regulator!Spec

=============================================================================
