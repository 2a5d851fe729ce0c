---------------------------- MODULE Lifecycle_proofs ----------------------------
(***************************************************************************)
(* Proofs about Lifecycle, for every set-up, every list of converters and  *)
(* every bound: no converter the event loop has raised is forgotten in an  *)
(* orderly end.                                                            *)
(***************************************************************************)
EXTENDS Lifecycle, TLAPS

-----------------------------------------------------------------------------
(* The inductive invariant                                                 *)

(* main registers a plugin the walk has found.                             *)
Registering ==
    main \in {"dial", "pause", "link", "stores", "listen", "assign", "writing"}
        => next >= 1

(* Only plugins that are registered are asked for power.                   *)
AskedIsRegistered ==
    /\ visits \subseteq plugins
    /\ \A c \in Converters : demand[c] = "raised" => "ecoflow" \in plugins

(* The ecoflow plugin is still to be stopped, or is resetting its          *)
(* converters, or has reset them all.                                      *)
ResetOnStop ==
    /\ main = "reset" => Converters \subseteq resets \cup toReset
    /\ main = "stop" /\ "ecoflow" \in plugins =>
          "ecoflow" \in left \/ Converters \subseteq resets

LifecycleInvariant ==
    /\ TypeOK /\ Registering /\ AskedIsRegistered /\ ResetOnStop
    /\ NoConverterForgotten

-----------------------------------------------------------------------------
(* Constants                                                               *)

LEMMA SetupTypes ==
    ASSUME TypeOK
    PROVE  /\ setup \in Setup /\ Len(setup.found) \in Nat
           /\ \A i \in 1..Len(setup.found) : setup.found[i] \in Names
  BY LifecycleAssumption DEF TypeOK, Setup

LEMMA FirstConverter ==
    ASSUME ConverterSeq # <<>>
    PROVE  Head(ConverterSeq) \in Converters
  BY LifecycleAssumption

-----------------------------------------------------------------------------
(* Types                                                                   *)

(* The parts of TypeOK.                                                    *)
MainTypes ==
    /\ main \in {"config", "database", "signals", "stat", "walk", "dial", "pause",
                 "link", "stores", "listen", "assign", "writing", "up", "stop", "reset"}
    /\ next \in 0..Len(setup.found)
    /\ left \subseteq Names /\ plugins \subseteq Names /\ stopped \subseteq Names
    /\ toReset \subseteq Converters /\ resets \subseteq Converters
    /\ tries \in 0..MaxTries - 1 /\ link \in {"nil", "client", "closed"}
ProcessTypes == setup \in Setups /\ process \in Ends \cup {"running"}
Flags == notified \in BOOLEAN /\ signalled \in BOOLEAN /\ quit \in BOOLEAN
ChannelTypes ==
    /\ signaller \in {"none", "waiting", "endHttp", "closeQuit", "sendDone", "ended"}
    /\ done \in 0..Room /\ httpDone \in 0..Room
LoopTypes ==
    /\ event \in {"none", "idle", "range"} /\ visits \subseteq Names
    /\ store \in [Loops -> {"none", "starting", "waiting", "storing", "counting",
                            "entering", "marking", "returned"}]
    /\ unseen \in [Loops -> 0..Entries]
    /\ stat \in {"none", "ticking", "stopped"}
DemandTypes == demand \in [Converters -> {"base", "raised"}]

LEMMA TypeParts ==
    TypeOK <=> MainTypes /\ ProcessTypes /\ Flags /\ ChannelTypes /\ LoopTypes /\ DemandTypes
  BY Zenon
  DEF TypeOK, MainTypes, ProcessTypes, Flags, ChannelTypes, LoopTypes, DemandTypes

(* What a step leaves alone keeps its type.                                *)
LEMMA SignalsKeepTypes ==
    ASSUME Flags, ChannelTypes, UNCHANGED signalVars
    PROVE  Flags' /\ ChannelTypes'
  <1>1. UNCHANGED <<notified, signalled, quit>> /\ UNCHANGED <<signaller, done, httpDone>>
    BY DEF signalVars
  <1>2. Flags'
    BY <1>1, Zenon DEF Flags
  <1>3. ChannelTypes'
    BY <1>1 DEF ChannelTypes
  <1> QED
    BY <1>2, <1>3

LEMMA LoopsKeepTypes ==
    ASSUME LoopTypes, UNCHANGED loopVars
    PROVE  LoopTypes'
  BY DEF LoopTypes, loopVars

LEMMA MainKeepsTypes ==
    ASSUME MainTypes, UNCHANGED <<setup, mainVars>>
    PROVE  MainTypes'
  BY DEF MainTypes, mainVars

LEMMA TypePartsNext ==
    TypeOK' <=> MainTypes' /\ ProcessTypes' /\ Flags' /\ ChannelTypes' /\ LoopTypes'
                /\ DemandTypes'
  BY TypeParts, PTL

LEMMA InitInvariant == Init => LifecycleInvariant
  <1> SUFFICES ASSUME Init PROVE LifecycleInvariant
    OBVIOUS
  <1>1. Len(setup.found) \in Nat /\ setup \in Setups
    BY LifecycleAssumption DEF Init, Setup
  <1>2. MainTypes
    BY <1>1, LifecycleAssumption DEF Init, MainTypes
  <1>3. ProcessTypes /\ ChannelTypes /\ DemandTypes
    BY LifecycleAssumption DEF Init, ProcessTypes, ChannelTypes, DemandTypes, Ends
  <1>4. Flags
    BY Zenon DEF Init, Flags
  <1>5. LoopTypes
    BY LifecycleAssumption DEF Init, LoopTypes
  <1>6. Registering /\ AskedIsRegistered /\ ResetOnStop /\ NoConverterForgotten
    BY DEF Init, Registering, AskedIsRegistered, ResetOnStop, NoConverterForgotten
  <1> QED
    BY <1>2, <1>3, <1>4, <1>5, <1>6, TypeParts DEF LifecycleInvariant

(* The start touches main's variables, and few others.                     *)
LEMMA StartTypes ==
    ASSUME TypeOK, Registering, Start
    PROVE  TypeOK'
  <1> USE TypeParts
  <1>1. ProcessTypes'
    BY DEF Start, LoadConfig, InitDatabase, SetupGracefulShutdown, StartStatLoop,
           RegisterMarstek, RegisterEcoflow, Dial, DialFails, Retry, GiveUp,
           StartEventLoop, StartStore, InitMqtt, BeginAssign, EndAssign, DevicesUp,
           Proceed, ProcessTypes, Ends
  <1>2. DemandTypes'
    BY DEF Start, LoadConfig, InitDatabase, SetupGracefulShutdown, StartStatLoop,
           RegisterMarstek, RegisterEcoflow, Dial, DialFails, Retry, GiveUp,
           StartEventLoop, StartStore, InitMqtt, BeginAssign, EndAssign, DevicesUp,
           Proceed, DemandTypes
  <1>3. Flags'
    <2>1. UNCHANGED <<notified, signalled, quit>>
      BY DEF Start, LoadConfig, InitDatabase, SetupGracefulShutdown, StartStatLoop,
             RegisterMarstek, RegisterEcoflow, Dial, DialFails, Retry, GiveUp,
             StartEventLoop, StartStore, InitMqtt, BeginAssign, EndAssign, DevicesUp,
             signalVars
    <2> QED
      BY <2>1, Zenon DEF Flags
  <1>4. ChannelTypes'
    BY DEF Start, LoadConfig, InitDatabase, SetupGracefulShutdown, StartStatLoop,
           RegisterMarstek, RegisterEcoflow, Dial, DialFails, Retry, GiveUp,
           StartEventLoop, StartStore, InitMqtt, BeginAssign, EndAssign, DevicesUp,
           ChannelTypes, signalVars
  <1>5. LoopTypes'
    <2>1. CASE UNCHANGED loopVars
      BY <2>1, LoopsKeepTypes
    <2>2. CASE StartStatLoop \/ RegisterMarstek \/ StartEventLoop \/ StartStore \/ InitMqtt
      BY <2>2
      DEF StartStatLoop, RegisterMarstek, StartEventLoop, StartStore, InitMqtt, Loops, LoopTypes
    <2>3. CASE EndAssign
      <3>1. Found \in Names
        BY <2>3, SetupTypes DEF EndAssign, Proceed, Found, Registering, MainTypes
      <3> QED
        BY <2>3, <3>1 DEF EndAssign, LoopTypes
    <2> QED
      BY <2>1, <2>2, <2>3 DEF Start, LoadConfig, InitDatabase, SetupGracefulShutdown,
         RegisterEcoflow, Dial, DialFails, Retry, GiveUp, BeginAssign, DevicesUp, loopVars
  <1>6. MainTypes'
    <2> USE DEF MainTypes, Proceed
    <2>1. CASE LoadConfig \/ InitDatabase \/ SetupGracefulShutdown \/ StartStatLoop
      BY <2>1 DEF LoadConfig, InitDatabase, SetupGracefulShutdown, StartStatLoop
    <2>2. CASE RegisterMarstek \/ RegisterEcoflow
      BY <2>2, SetupTypes DEF RegisterMarstek, RegisterEcoflow
    <2>3. CASE Dial \/ DialFails \/ StartEventLoop \/ StartStore \/ InitMqtt
      BY <2>3 DEF Dial, DialFails, StartEventLoop, StartStore, InitMqtt
    <2>4. CASE Retry
      BY <2>4, LifecycleAssumption DEF Retry
    <2>5. CASE GiveUp
      BY <2>5 DEF GiveUp, mainVars
    <2>6. CASE BeginAssign \/ DevicesUp
      BY <2>6 DEF BeginAssign, DevicesUp
    <2>7. CASE EndAssign
      <3>1. Found \in Names
        BY <2>7, SetupTypes DEF EndAssign, Found, Registering
      <3> QED
        BY <2>7, <3>1 DEF EndAssign
    <2> QED
      BY <2>1, <2>2, <2>3, <2>4, <2>5, <2>6, <2>7 DEF Start
  <1> QED
    BY <1>1, <1>2, <1>3, <1>4, <1>5, <1>6, TypePartsNext

(* Ends of the process touch nothing else.                                 *)
Ending == Fatal \/ ClientError \/ LoopFatal \/ ConcurrentMapAccess

LEMMA EndingTypes ==
    ASSUME TypeOK, Ending
    PROVE  TypeOK'
  <1>1. /\ UNCHANGED <<setup, mainVars>> /\ UNCHANGED signalVars /\ UNCHANGED loopVars
        /\ UNCHANGED demand /\ process' \in Ends
    BY DEF Ending, Fatal, ClientError, LoopFatal, ConcurrentMapAccess, Ends
  <1>2. ProcessTypes' /\ DemandTypes'
    BY <1>1, TypeParts DEF ProcessTypes, DemandTypes
  <1> QED
    BY <1>1, <1>2, TypeParts, TypePartsNext, MainKeepsTypes, SignalsKeepTypes, LoopsKeepTypes

LEMMA ShutdownTypes ==
    ASSUME TypeOK, Shutdown
    PROVE  TypeOK'
  <1> USE TypeParts
  <1>1. ProcessTypes' /\ LoopTypes'
    <2>1. UNCHANGED <<setup, loopVars>> /\ (process' = process \/ process' \in Ends)
      BY DEF Shutdown, ReceiveDone, StopMarstek, StopEcoflow, ResetPower, CloseLink,
             Return, Ends, mainVars
    <2> QED
      BY <2>1, LoopsKeepTypes DEF ProcessTypes
  <1>2. Flags' /\ ChannelTypes'
    <2>1. CASE UNCHANGED signalVars
      BY <2>1, SignalsKeepTypes
    <2>2. CASE ReceiveDone
      <3>1. UNCHANGED <<notified, signalled, quit>>
        BY <2>2 DEF ReceiveDone
      <3>2. Flags'
        BY <3>1, Zenon DEF Flags
      <3>3. ChannelTypes'
        BY <2>2, LifecycleAssumption DEF ReceiveDone, ChannelTypes
      <3> QED
        BY <3>2, <3>3
    <2> QED
      BY <2>1, <2>2 DEF Shutdown, StopMarstek, StopEcoflow, ResetPower, CloseLink, Return
  <1>3. DemandTypes'
    BY DEF Shutdown, ReceiveDone, StopMarstek, StopEcoflow, ResetPower, CloseLink,
           Return, DemandTypes
  <1>4. MainTypes'
    <2> USE DEF MainTypes
    <2>1. CASE ReceiveDone
      BY <2>1 DEF ReceiveDone
    <2>2. CASE StopMarstek \/ StopEcoflow
      BY <2>2 DEF StopMarstek, StopEcoflow, Names
    <2>3. CASE \E c \in Converters : ResetPower(c)
      BY <2>3 DEF ResetPower
    <2>4. CASE CloseLink
      BY <2>4 DEF CloseLink, Names
    <2>5. CASE Return
      BY <2>5 DEF Return, mainVars
    <2> QED
      BY <2>1, <2>2, <2>3, <2>4, <2>5 DEF Shutdown
  <1> QED
    BY <1>1, <1>2, <1>3, <1>4, TypePartsNext

LEMMA SignalTypes ==
    ASSUME TypeOK, Signal \/ Signaller
    PROVE  TypeOK'
  <1> USE TypeParts
  <1>1. UNCHANGED <<setup, mainVars>> /\ UNCHANGED loopVars /\ UNCHANGED demand
    BY DEF Signal, Signaller, TakeSignal, EndHttp, CloseQuit, SendDone, SignallerStep
  <1>2. ProcessTypes' /\ DemandTypes'
    BY <1>1 DEF Signal, Signaller, TakeSignal, EndHttp, CloseQuit, SendDone, SignallerStep,
                ProcessTypes, DemandTypes, Ends
  <1>3. ChannelTypes'
    BY LifecycleAssumption DEF Signal, Signaller, TakeSignal, EndHttp, CloseQuit, SendDone, SignallerStep,
           ChannelTypes
  <1>4. notified' \in BOOLEAN
    BY Zenon DEF Signal, Signaller, TakeSignal, EndHttp, CloseQuit, SendDone, Flags
  <1>5. signalled' \in BOOLEAN
    BY Zenon DEF Signal, Signaller, TakeSignal, EndHttp, CloseQuit, SendDone,
                 SignallerStep, Flags
  <1>6. quit' \in BOOLEAN
    BY Zenon DEF Signal, Signaller, TakeSignal, EndHttp, CloseQuit, SendDone, Flags
  <1> QED
    BY <1>1, <1>2, <1>3, <1>4, <1>5, <1>6, TypePartsNext, MainKeepsTypes, LoopsKeepTypes
    DEF Flags

LoopSteps ==
    \/ EventLoop \/ StatStops
    \/ \E l \in Loops : StoreLoop(l)

LEMMA LoopsTypes ==
    ASSUME TypeOK, LoopSteps
    PROVE  TypeOK'
  <1> USE TypeParts
  <1>1. /\ UNCHANGED <<setup, mainVars>> /\ UNCHANGED signalVars /\ UNCHANGED process
    BY DEF LoopSteps, EventLoop, TakeMessage, AskForPower, OnlyReadBack, EndEvent, EventStep,
           StatStops, StoreLoop, StoreReady, StoreReturns, StoreRound, StoreRoundEnds,
           Enter, Entered, Mark, Marked, StoreStep
  <1>2. DemandTypes'
    BY FirstConverter
    DEF LoopSteps, EventLoop, TakeMessage, AskForPower, OnlyReadBack, EndEvent, StatStops,
        StoreLoop, StoreReady, StoreReturns, StoreRound, StoreRoundEnds, Enter, Entered, Mark, Marked,
        StoreStep, DemandTypes
  <1>3. LoopTypes'
    <2> USE DEF LoopTypes
    <2>1. CASE EventLoop
      BY <2>1 DEF EventLoop, TakeMessage, AskForPower, OnlyReadBack, EndEvent, EventStep,
                  MainTypes
    <2>2. CASE StatStops
      BY <2>2 DEF StatStops
    <2>3. CASE \E l \in Loops : StoreLoop(l)
      BY <2>3, LifecycleAssumption
      DEF StoreLoop, StoreReady, StoreReturns, StoreRound, StoreRoundEnds, Enter, Entered, Mark, Marked,
          StoreStep
    <2> QED
      BY <2>1, <2>2, <2>3 DEF LoopSteps
  <1>4. ProcessTypes'
    BY <1>1 DEF ProcessTypes
  <1> QED
    BY <1>1, <1>2, <1>3, <1>4, TypePartsNext, MainKeepsTypes, SignalsKeepTypes

LEMMA StutterTypes ==
    ASSUME TypeOK, UNCHANGED vars
    PROVE  TypeOK'
  <1>1. /\ UNCHANGED <<setup, mainVars>> /\ UNCHANGED signalVars /\ UNCHANGED loopVars
        /\ UNCHANGED <<process, demand>>
    BY DEF vars
  <1>2. ProcessTypes' /\ DemandTypes'
    BY <1>1, TypeParts DEF ProcessTypes, DemandTypes
  <1> QED
    BY <1>1, <1>2, TypeParts, TypePartsNext, MainKeepsTypes, SignalsKeepTypes, LoopsKeepTypes

-----------------------------------------------------------------------------
(* The rest of the invariant                                               *)

Step ==
    \/ Start \/ Shutdown \/ Signal \/ Signaller \/ Ending \/ LoopSteps
    \/ UNCHANGED vars

LEMMA Steps == [Next]_vars => Step
  BY DEF Next, Step, Ending, LoopSteps, Gone

LEMMA TypesHold ==
    ASSUME TypeOK, Registering, Step
    PROVE  TypeOK'
  BY StartTypes, ShutdownTypes, SignalTypes, EndingTypes, LoopsTypes, StutterTypes DEF Step

(* main is at its places only through Start and Shutdown.                  *)
LEMMA MainStays ==
    ASSUME Step, ~Start, ~Shutdown
    PROVE  UNCHANGED mainVars
  BY DEF Step, Ending, Fatal, ClientError, LoopFatal, ConcurrentMapAccess,
         Signal, Signaller, TakeSignal, EndHttp, CloseQuit, SendDone, SignallerStep,
         LoopSteps, EventLoop, TakeMessage, AskForPower, OnlyReadBack, EndEvent, EventStep,
         StatStops, StoreLoop, StoreReady, StoreReturns, StoreRound, StoreRoundEnds,
         Enter, Entered, Mark, Marked, StoreStep, vars

LEMMA RegisteringHolds ==
    ASSUME TypeOK, Registering, Step
    PROVE  Registering'
  <1>1. CASE Start
    <2>1. next \in Nat
      BY SetupTypes DEF TypeOK
    <2> QED
      BY <1>1, <2>1
      DEF Registering, Start, LoadConfig, InitDatabase, SetupGracefulShutdown,
          StartStatLoop, RegisterMarstek, RegisterEcoflow, Dial, DialFails, Retry, GiveUp,
          StartEventLoop, StartStore, InitMqtt, BeginAssign, EndAssign, DevicesUp,
          Proceed, mainVars
  <1>2. CASE Shutdown
    BY <1>2 DEF Registering, Shutdown, ReceiveDone, StopMarstek, StopEcoflow, ResetPower,
                CloseLink, Return, mainVars
  <1>3. CASE ~Start /\ ~Shutdown
    BY <1>3, MainStays DEF Registering, mainVars
  <1> QED
    BY <1>1, <1>2, <1>3

(* Start registers more plugins and asks no converter for power, Shutdown  *)
(* only resets them, and an event visits what is registered.               *)
LEMMA AskedIsRegisteredHolds ==
    ASSUME TypeOK, AskedIsRegistered, Step
    PROVE  AskedIsRegistered'
  <1> USE DEF AskedIsRegistered
  <1>1. CASE Start
    <2>1. UNCHANGED demand /\ plugins \subseteq plugins' /\ visits' \subseteq plugins'
      BY <1>1
      DEF Start, LoadConfig, InitDatabase, SetupGracefulShutdown,
          StartStatLoop, RegisterMarstek, RegisterEcoflow, Dial, DialFails, Retry, GiveUp,
          StartEventLoop, StartStore, InitMqtt, BeginAssign, EndAssign, DevicesUp,
          Proceed, mainVars, loopVars
    <2> QED
      BY <2>1
  <1>2. CASE Shutdown
    <2>1. UNCHANGED <<visits, plugins>>
      BY <1>2 DEF Shutdown, ReceiveDone, StopMarstek, StopEcoflow, ResetPower,
                  CloseLink, Return, mainVars, loopVars
    <2>2. \A c \in Converters : demand'[c] = demand[c] \/ demand'[c] = "base"
      BY <1>2 DEF Shutdown, ReceiveDone, StopMarstek, StopEcoflow, ResetPower,
                  CloseLink, Return, TypeOK
    <2> QED
      BY <2>1, <2>2
  <1>3. CASE LoopSteps
    BY <1>3, MainStays
    DEF LoopSteps, EventLoop, TakeMessage, AskForPower, OnlyReadBack, EndEvent, EventStep,
        StatStops, StoreLoop, StoreReady, StoreReturns, StoreRound, StoreRoundEnds,
        Enter, Entered, Mark, Marked, StoreStep, mainVars
  <1>4. CASE Signal \/ Signaller \/ Ending \/ UNCHANGED vars
    BY <1>4 DEF Ending, Fatal, ClientError, LoopFatal, ConcurrentMapAccess,
        Signal, Signaller, TakeSignal, EndHttp, CloseQuit, SendDone, SignallerStep,
        vars, loopVars, mainVars
  <1> QED
    BY <1>1, <1>2, <1>3, <1>4 DEF Step

LEMMA ResetOnStopHolds ==
    ASSUME TypeOK, ResetOnStop, Step
    PROVE  ResetOnStop'
  <1> USE DEF ResetOnStop
  <1>1. CASE Start
    BY <1>1
    DEF Start, LoadConfig, InitDatabase, SetupGracefulShutdown,
        StartStatLoop, RegisterMarstek, RegisterEcoflow, Dial, DialFails, Retry, GiveUp,
        StartEventLoop, StartStore, InitMqtt, BeginAssign, EndAssign, DevicesUp,
        Proceed, mainVars
  <1>2. CASE Shutdown
    BY <1>2 DEF Shutdown, ReceiveDone, StopMarstek, StopEcoflow, ResetPower,
                CloseLink, Return, mainVars
  <1>3. CASE ~Start /\ ~Shutdown
    BY <1>3, MainStays DEF mainVars
  <1> QED
    BY <1>1, <1>2, <1>3

(* The process ends in order only when there is nothing left to stop.      *)
LEMMA NothingForgotten ==
    ASSUME TypeOK, AskedIsRegistered, ResetOnStop, NoConverterForgotten, Step
    PROVE  NoConverterForgotten'
  <1> USE DEF NoConverterForgotten
  <1>1. CASE ~Running
    BY <1>1
    DEF Step, Running, Start, LoadConfig, InitDatabase, SetupGracefulShutdown,
        StartStatLoop, RegisterMarstek, RegisterEcoflow, Dial, DialFails, Retry, GiveUp,
        StartEventLoop, StartStore, InitMqtt, BeginAssign, EndAssign, DevicesUp,
        Proceed, Shutdown, ReceiveDone, StopMarstek, StopEcoflow, ResetPower,
        CloseLink, Return, Ending, Fatal, ClientError, LoopFatal, ConcurrentMapAccess,
        Signal, Signaller, TakeSignal, EndHttp, CloseQuit, SendDone, SignallerStep,
        LoopSteps, EventLoop, TakeMessage, AskForPower, OnlyReadBack, EndEvent, EventStep,
        StatStops, StoreLoop, StoreReady, StoreReturns, StoreRound, StoreRoundEnds,
        Enter, Entered, Mark, Marked, StoreStep, vars, mainVars
  <1>2. CASE Return
    BY <1>2 DEF Return, AskedIsRegistered, ResetOnStop, mainVars
  <1>3. CASE Running /\ ~Return
    <2>1. process' # "ended"
      BY <1>3
      DEF Step, Running, Start, LoadConfig, InitDatabase, SetupGracefulShutdown,
        StartStatLoop, RegisterMarstek, RegisterEcoflow, Dial, DialFails, Retry, GiveUp,
        StartEventLoop, StartStore, InitMqtt, BeginAssign, EndAssign, DevicesUp,
        Proceed, Shutdown, ReceiveDone, StopMarstek, StopEcoflow, ResetPower,
        CloseLink, Ending, Fatal, ClientError, LoopFatal, ConcurrentMapAccess,
        Signal, Signaller, TakeSignal, EndHttp, CloseQuit, SendDone, SignallerStep,
        LoopSteps, EventLoop, TakeMessage, AskForPower, OnlyReadBack, EndEvent, EventStep,
        StatStops, StoreLoop, StoreReady, StoreReturns, StoreRound, StoreRoundEnds,
        Enter, Entered, Mark, Marked, StoreStep, vars
    <2> QED
      BY <2>1
  <1> QED
    BY <1>1, <1>2, <1>3

LEMMA InvariantHolds == Spec => []LifecycleInvariant
  <1>1. LifecycleInvariant /\ [Next]_vars => LifecycleInvariant'
    BY Steps, TypesHold, RegisteringHolds, AskedIsRegisteredHolds, ResetOnStopHolds,
       NothingForgotten
    DEF LifecycleInvariant
  <1> QED
    BY <1>1, InitInvariant, PTL DEF Spec

-----------------------------------------------------------------------------
(* Theorems                                                                *)

(* Every variable of the process keeps its type: in particular the dials   *)
(* are counted right, and no channel holds more than it has room for.      *)
(* (mqtt.go:111, general.go:23-24)                                         *)
THEOREM TypeCorrect == Spec => []TypeOK
  <1>1. LifecycleInvariant => TypeOK
    BY DEF LifecycleInvariant
  <1> QED
    BY <1>1, InvariantHolds, PTL

(* When the process ends in order, no converter is left as the event loop  *)
(* has raised it without having been reset, whichever plugins there are    *)
(* and whenever the signal comes. (general.go:53-58, greeter.go:52-60)     *)
THEOREM NobodyForgotten == Spec => []NoConverterForgotten
  <1>1. LifecycleInvariant => NoConverterForgotten
    BY DEF LifecycleInvariant
  <1> QED
    BY <1>1, InvariantHolds, PTL
=============================================================================
