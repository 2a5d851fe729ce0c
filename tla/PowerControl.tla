------------------------------ MODULE PowerControl ------------------------------
(***************************************************************************)
(* The realtime power controller: one goroutine takes meter readings from  *)
(* the MQTT subscription (LoopCounterAndCancelOutput, mqtt.go), decides    *)
(* how much power the micro converters shall feed into the house           *)
(* (processEvent), sends the request to their cloud                        *)
(* (SetOverallPowerConsumption, energy_device.go) and reads back what is   *)
(* requested and delivered (refreshCurrentPowerRequest).                   *)
(*                                                                         *)
(* Two more actors touch its state without any lock: the watcher of the    *)
(* configuration file (config.go), which unmarshals a changed file into    *)
(* the live configuration field by field, and the vendor's cloud, whose    *)
(* standing request per converter the owner's app may change as well.      *)
(* Each read of a configuration field by the controller is therefore a     *)
(* step of its own, and so is each write of one by the watcher.            *)
(*                                                                         *)
(* Power is counted in 0.1 W, the resolution of the vendor's API, so that  *)
(* all values are integers.                                                *)
(***************************************************************************)
EXTENDS Integers, Sequences, SequencesExt

CONSTANTS
    EcoflowSeq,   \* converters the ecoflow plugin controls, in config order
    MarstekSeq,   \* converters listed for the marstek plugin, in config order
    Watts,        \* powers the app may request or a converter may deliver
    Readings,     \* meter readings that may arrive
    Files,        \* contents the configuration file may have at first
    Edits,        \* contents it may be changed to
    StartBlock,   \* length of the block window after start (10 s in the code)
    InboxCap,     \* bound: readings waiting between the broker and the loop
    DefaultBase,  \* defaultBaseRequest
    DefaultUpper  \* defaultMaxRequest

Ecoflow == ToSet(EcoflowSeq)
Marstek == ToSet(MarstekSeq)
Converters == Ecoflow \cup Marstek

(* The plugins are the values of a Go map, so their order is arbitrary and *)
(* chosen anew by each loop over them; the converters of a plugin keep the *)
(* order of the configuration.                                             *)
VisitOrders == {EcoflowSeq \o MarstekSeq, MarstekSeq \o EcoflowSeq}

Fields == {"base", "upper", "interm", "wait", "realtime"}
(* Nothing rejects a negative limit or wait (int64 in the code). Nor does  *)
(* anything reject an intermediate size below zero, which is left out: a   *)
(* reading without import would count as import and raise the request      *)
(* within the block window.                                                *)
Config == [base: Int, upper: Int, interm: Nat, wait: Int, realtime: BOOLEAN]
Reading == [power: Int, out: Nat]

(* A configuration file gives the fields in keys the values in val.        *)
File == [val: Config, keys: SUBSET Fields]

ASSUME ConverterAssumption ==
    /\ EcoflowSeq \in Seq(Ecoflow)
    /\ MarstekSeq \in Seq(Marstek)
    /\ Ecoflow \cap Marstek = {}
ASSUME EnvironmentAssumption ==
    /\ Watts \subseteq Nat
    /\ Readings \subseteq Reading
    /\ Files \cup Edits \subseteq File
ASSUME BoundAssumption ==
    /\ StartBlock \in Nat /\ InboxCap \in Nat
    /\ DefaultBase \in Nat \ {0} /\ DefaultUpper \in Nat \ {0}

VARIABLES
    pc,               \* where the loop goroutine is
    call,             \* the locals of processEvent and what it calls
    todo,             \* converters the current loop over the plugins still visits
    currentRequested, \* the package variables of mqtt.go
    currentDelivered,
    blockLeft,        \* time left until blockRequestTime, 0 once it is past
    cfg,              \* adapter.DefaultConfig, shared with the watcher
    watcher,          \* where the watcher goroutine is
    unread,           \* fields of the file the watcher has not yet written
    file,             \* the configuration file on disk
    demand,           \* the cloud's standing request of each converter
    inbox,            \* readings not yet taken by the loop
    inForce,          \* history: the limits in force since the event was taken
    answered          \* history: the last refresh was answered by all converters

loopVars == <<pc, call, todo, currentRequested, currentDelivered, blockLeft,
              inForce, answered>>
watchVars == <<cfg, watcher, unread, file>>
vars == <<loopVars, watchVars, demand, inbox>>

AtMost(x, limit) == IF x > limit THEN limit ELSE x
AtLeast(x, limit) == IF x < limit THEN limit ELSE x

-----------------------------------------------------------------------------
(* Configuration                                                           *)

InitialConfig == [base |-> DefaultBase, upper |-> 0, interm |-> 0, wait |-> 0,
                  realtime |-> FALSE]

OrDefault(value, default) == IF value = 0 THEN default ELSE value

WithDefaults(c) == [c EXCEPT !.base = OrDefault(@, DefaultBase),
                             !.upper = OrDefault(@, DefaultUpper)]

(* What yaml.Unmarshal leaves in c: only the fields the file gives change. *)
Merge(c, f) == [g \in Fields |-> IF g \in f.keys THEN f.val[g] ELSE c[g]]

(* The configuration a fresh start has with file f.                        *)
Loaded(f) == WithDefaults(Merge(InitialConfig, f))

-----------------------------------------------------------------------------
(* Initial state                                                           *)

NoCall == [power |-> 0, out |-> 0, inWindow |-> FALSE, new |-> 0, rest |-> 0]
NoLimits == [base |-> {}, upper |-> {}]

(* ConnectMQTT refreshes before it starts the loop, while the plugin whose *)
(* Register called it is not yet in the plugins map: nothing is known.     *)
Init ==
    /\ pc = "idle" /\ call = NoCall /\ todo = <<>>
    /\ currentRequested = 0 /\ currentDelivered = 0
    /\ blockLeft = StartBlock
    /\ file \in Files /\ cfg = Loaded(file)
    /\ watcher = "watching" /\ unread = {}
    /\ demand \in [Ecoflow -> Watts]
    /\ inbox = <<>>
    /\ inForce = NoLimits /\ answered = FALSE

-----------------------------------------------------------------------------
(* Taking an event                                                         *)

(* Mutant: the sign of the realigned power is not turned.                  *)
Aligned_SignKept(r) ==
    IF r.power < 0 /\ r.out = 0 THEN [power |-> 0, out |-> r.power] ELSE r

(* A negative power with no out value is power going out.                  *)
Aligned(r) == IF r.power < 0 /\ r.out = 0 THEN [power |-> 0, out |-> -r.power]
                                          ELSE r

(* Mutant: the block window is not looked at.                              *)
Blocked_Never(r) == FALSE

(* Import is not acted on while the last request has not settled.          *)
Blocked(r) == r.power > 0 /\ blockLeft > 0

(* Mutant: a sum of zero is taken for a request.                           *)
Disregarded_ZeroAccepted(r) == ~cfg.realtime \/ Blocked(Aligned(r))

(* A sum of zero means that no request is known.                           *)
Disregarded(r) ==
    \/ currentRequested = 0
    \/ ~cfg.realtime
    \/ Blocked(Aligned(r))

(* Mutant: the sums are not reset.                                         *)
StartRefresh_NotReset ==
    /\ pc' = "refresh" /\ todo' \in VisitOrders
    /\ UNCHANGED <<currentRequested, currentDelivered>>
    /\ call' = NoCall /\ inForce' = NoLimits /\ answered' = TRUE

(* refreshCurrentPowerRequest up to its loop.                              *)
StartRefresh ==
    /\ pc' = "refresh" /\ todo' \in VisitOrders
    /\ currentRequested' = 0 /\ currentDelivered' = 0
    /\ call' = NoCall /\ inForce' = NoLimits /\ answered' = TRUE

(* Mutant: a disregarded event is not followed by a refresh.               *)
SkipEvent_NoRefresh ==
    /\ pc = "idle" /\ inbox # <<>> /\ Disregarded(Head(inbox))
    /\ inbox' = Tail(inbox)
    /\ UNCHANGED <<loopVars, watchVars, demand>>

SkipEvent ==
    /\ pc = "idle" /\ inbox # <<>> /\ Disregarded(Head(inbox))
    /\ inbox' = Tail(inbox)
    /\ StartRefresh
    /\ UNCHANGED <<blockLeft, watchVars, demand>>

TakeEvent ==
    /\ pc = "idle" /\ inbox # <<>> /\ ~Disregarded(Head(inbox))
    /\ inbox' = Tail(inbox)
    /\ LET r == Aligned(Head(inbox))
       IN  call' = [power |-> r.power, out |-> r.out,
                    inWindow |-> blockLeft > 0,
                    new |-> currentRequested, rest |-> 0]
    /\ inForce' = [base |-> {cfg.base}, upper |-> {cfg.upper}]
    /\ pc' = "aim"
    /\ UNCHANGED <<todo, currentRequested, currentDelivered, blockLeft, answered,
                   watchVars, demand>>

-----------------------------------------------------------------------------
(* Deciding on a new request                                               *)

(* A step of the loop that only changes its place and its locals.          *)
Compute(from, to, locals) ==
    /\ pc = from /\ pc' = to
    /\ call' = locals
    /\ UNCHANGED <<todo, currentRequested, currentDelivered, blockLeft, inForce,
                   answered, watchVars, demand, inbox>>

(* Mutant: what goes out is added.                                         *)
AimBelowExport_Added ==
    /\ call.out > 0
    /\ Compute("aim", "upper", [call EXCEPT !.new = currentRequested + call.out])

AimBelowExport ==
    /\ call.out > 0
    /\ Compute("aim", "upper", [call EXCEPT !.new = currentRequested - call.out])

SeeImport ==
    /\ call.out = 0 /\ call.power > cfg.interm
    /\ Compute("aim", "import", call)

(* Mutant: the intermediate range is asked for too.                        *)
AimAtImport_WholeImport ==
    Compute("import", "upper", [call EXCEPT !.new = currentDelivered + call.power])

(* Mutant: what is delivered already is left out.                          *)
AimAtImport_NoDelivered ==
    Compute("import", "upper", [call EXCEPT !.new = call.power - cfg.interm])

AimAtImport ==
    Compute("import", "upper",
            [call EXCEPT !.new = currentDelivered + call.power - cfg.interm])

KeepRequest ==
    /\ call.out = 0 /\ call.power <= cfg.interm
    /\ Compute("aim", "upper", call)

(* Mutant: the upper limit is not checked while deciding.                  *)
CheckUpper_Skipped == Compute("upper", "base", call)

(* Each limit is read twice, once to compare with it and once to take it:  *)
(* the watcher may write it in between.                                    *)
CheckUpper ==
    Compute("upper", IF call.new > cfg.upper THEN "takeUpper" ELSE "base", call)

(* Mutant: the base request is only checked where the upper limit is kept. *)
TakeUpper_ElseIf ==
    Compute("takeUpper", "announce", [call EXCEPT !.new = cfg.upper])

TakeUpper == Compute("takeUpper", "base", [call EXCEPT !.new = cfg.upper])

(* Mutant: the base request is not checked while deciding.                 *)
CheckBase_Skipped == Compute("base", "announce", call)

CheckBase ==
    Compute("base", IF call.new < cfg.base THEN "takeBase" ELSE "announce", call)

TakeBase == Compute("takeBase", "announce", [call EXCEPT !.new = cfg.base])

ToBeSent == call.new > 0 /\ call.new # currentRequested

(* The decision is published in any case; nothing else happens when it is  *)
(* what is requested already, not even a refresh.                          *)
Settle ==
    /\ pc = "announce" /\ ~ToBeSent
    /\ pc' = "idle" /\ call' = NoCall /\ inForce' = NoLimits
    /\ UNCHANGED <<todo, currentRequested, currentDelivered, blockLeft, answered,
                   watchVars, demand, inbox>>

Announce ==
    /\ pc = "announce" /\ ToBeSent
    /\ blockLeft' = AtLeast(cfg.wait, 0)
    /\ pc' = "floor" /\ call' = [call EXCEPT !.rest = call.new]
    /\ UNCHANGED <<todo, currentRequested, currentDelivered, inForce, answered,
                   watchVars, demand, inbox>>

-----------------------------------------------------------------------------
(* Setting the overall power consumption                                   *)

StillRealtime ==
    /\ cfg.realtime
    /\ Compute("floor", IF call.rest < cfg.base THEN "takeFloor" ELSE "cap", call)

NoLongerRealtime ==
    /\ pc = "floor" /\ ~cfg.realtime
    /\ StartRefresh
    /\ UNCHANGED <<blockLeft, watchVars, demand, inbox>>

TakeFloor == Compute("takeFloor", "cap", [call EXCEPT !.rest = cfg.base])

(* The loop over the plugins starts when the request is within its limits. *)
Visit(from, rest) ==
    /\ pc = from /\ pc' = "set" /\ todo' \in VisitOrders
    /\ call' = [call EXCEPT !.rest = rest]
    /\ UNCHANGED <<currentRequested, currentDelivered, blockLeft, inForce,
                   answered, watchVars, demand, inbox>>

ExceedsCap == call.rest > cfg.upper /\ Compute("cap", "takeCap", call)

(* Mutant: the upper limit is not checked again before sending.            *)
WithinCap_Unchecked == Visit("cap", call.rest)

WithinCap == call.rest <= cfg.upper /\ Visit("cap", call.rest)

TakeCap == Visit("takeCap", cfg.upper)

(* What SetPower reports as set: ecoflow claims all it was asked for,      *)
(* whatever the cloud answered, and marstek nothing.                       *)
ReportedSet(c, watts) == IF c \in Ecoflow THEN watts ELSE 0

VisitNext(c) ==
    /\ pc = "set" /\ todo # <<>> /\ c = Head(todo)
    /\ todo' = Tail(todo)
    /\ UNCHANGED <<pc, currentRequested, currentDelivered, blockLeft, inForce,
                   answered, watchVars, inbox>>

Asked(c) ==
    /\ call.rest > 0
    /\ call' = [call EXCEPT !.rest = @ - ReportedSet(c, @)]

SetPower(c) ==
    /\ VisitNext(c) /\ Asked(c)
    /\ c \in Ecoflow
    /\ demand' = [demand EXCEPT ![c] = call.rest]

(* The cloud refuses or never answers and the plugin ignores the error, or *)
(* the converter is one of marstek, whose SetPower does nothing.           *)
SetPowerNoEffect(c) == VisitNext(c) /\ Asked(c) /\ demand' = demand

NothingLeft(c) == VisitNext(c) /\ call.rest <= 0 /\ UNCHANGED <<call, demand>>

(* Mutant: nothing is read back after the requests are sent.               *)
EndSet_NoRefresh ==
    /\ pc = "set" /\ todo = <<>>
    /\ pc' = "idle" /\ call' = NoCall /\ inForce' = NoLimits
    /\ UNCHANGED <<todo, currentRequested, currentDelivered, blockLeft, answered,
                   watchVars, demand, inbox>>

EndSet ==
    /\ pc = "set" /\ todo = <<>>
    /\ StartRefresh
    /\ UNCHANGED <<blockLeft, watchVars, demand, inbox>>

-----------------------------------------------------------------------------
(* Reading back what is requested and delivered                            *)

QueryNext(c) ==
    /\ pc = "refresh" /\ todo # <<>> /\ c = Head(todo)
    /\ todo' = Tail(todo)
    /\ UNCHANGED <<pc, call, blockLeft, inForce, watchVars, demand, inbox>>

(* The cloud answers; delivered is what the inverter yields at the time.   *)
QueryAnswered(c, delivered) ==
    /\ QueryNext(c) /\ c \in Ecoflow
    /\ currentRequested' = currentRequested + demand[c]
    /\ currentDelivered' = currentDelivered + delivered
    /\ UNCHANGED answered

(* An API error is turned into two zeros and no error.                     *)
QueryFailed(c) ==
    /\ QueryNext(c) /\ c \in Ecoflow
    /\ answered' = FALSE
    /\ UNCHANGED <<currentRequested, currentDelivered>>

(* GetPower of marstek is "Not implemented yet": the error is logged.      *)
QueryUnsupported(c) ==
    /\ QueryNext(c) /\ c \in Marstek
    /\ UNCHANGED <<currentRequested, currentDelivered, answered>>

EndRefresh ==
    /\ pc = "refresh" /\ todo = <<>>
    /\ pc' = "idle"
    /\ UNCHANGED <<call, todo, currentRequested, currentDelivered, blockLeft,
                   inForce, answered, watchVars, demand, inbox>>

-----------------------------------------------------------------------------
(* The watcher of the configuration file                                   *)

(* The file changes. Its content is read at once, so a second change while *)
(* the first is being unmarshalled comes after it; while the program is    *)
(* down nobody reads it.                                                   *)
ChangeFile(f) ==
    /\ watcher = "watching"
    /\ file' = f
    /\ IF pc = "down" THEN UNCHANGED <<watcher, unread>>
                      ELSE watcher' = "unmarshal" /\ unread' = f.keys
    /\ UNCHANGED <<loopVars, cfg, demand, inbox>>

(* History: a limit the watcher writes while an event is processed.        *)
NoteLimits ==
    inForce' = IF inForce = NoLimits THEN inForce
               ELSE [base |-> inForce.base \cup {cfg'.base},
                     upper |-> inForce.upper \cup {cfg'.upper}]

WatcherStep(from, to) ==
    /\ watcher = from /\ watcher' = to
    /\ NoteLimits
    /\ UNCHANGED <<pc, call, todo, currentRequested, currentDelivered, blockLeft,
                   answered, file, demand, inbox>>

WriteField(g) ==
    /\ g \in unread
    /\ unread' = unread \ {g}
    /\ cfg' = [cfg EXCEPT ![g] = file.val[g]]
    /\ WatcherStep("unmarshal", "unmarshal")

EndUnmarshal ==
    /\ unread = {}
    /\ UNCHANGED <<cfg, unread>>
    /\ WatcherStep("unmarshal", "defaultBase")

DefaultBaseRequest ==
    /\ cfg' = [cfg EXCEPT !.base = OrDefault(@, DefaultBase)]
    /\ WatcherStep("defaultBase", "defaultUpper")
    /\ UNCHANGED unread

DefaultUpperBatLimit ==
    /\ cfg' = [cfg EXCEPT !.upper = OrDefault(@, DefaultUpper)]
    /\ WatcherStep("defaultUpper", "watching")
    /\ UNCHANGED unread

-----------------------------------------------------------------------------
(* The environment: meter, clock, the owner's app, and failures            *)

MeterMessage(r) ==
    /\ pc # "down" /\ Len(inbox) < InboxCap
    /\ inbox' = Append(inbox, r)
    /\ UNCHANGED <<loopVars, watchVars, demand>>

Tick ==
    /\ blockLeft > 0 /\ blockLeft' = blockLeft - 1
    /\ UNCHANGED <<pc, call, todo, currentRequested, currentDelivered, inForce,
                   answered, watchVars, demand, inbox>>

AppSetsDemand(c, w) ==
    /\ demand' = [demand EXCEPT ![c] = w]
    /\ UNCHANGED <<loopVars, watchVars, inbox>>

(* The process ends: OnClientError exits, log.Fatalf on a bad file or a    *)
(* missing mapping key, a panic on an unexpected answer. Its memory is     *)
(* lost; readings are not kept for it (CleanStart); the cloud is not told. *)
Crash ==
    /\ pc # "down" /\ pc' = "down"
    /\ call' = NoCall /\ todo' = <<>>
    /\ currentRequested' = 0 /\ currentDelivered' = 0 /\ blockLeft' = 0
    /\ cfg' = InitialConfig /\ watcher' = "watching" /\ unread' = {}
    /\ inbox' = <<>> /\ inForce' = NoLimits /\ answered' = FALSE
    /\ UNCHANGED <<file, demand>>

Restart ==
    /\ pc = "down" /\ pc' = "idle"
    /\ blockLeft' = StartBlock
    /\ cfg' = Loaded(file)
    /\ UNCHANGED <<call, todo, currentRequested, currentDelivered, inForce,
                   answered, watcher, unread, file, demand, inbox>>

-----------------------------------------------------------------------------
(* The specification                                                       *)

Decide ==
    \/ SkipEvent \/ TakeEvent
    \/ AimBelowExport \/ SeeImport \/ AimAtImport \/ KeepRequest
    \/ CheckUpper \/ TakeUpper \/ CheckBase \/ TakeBase
    \/ Settle \/ Announce

Limit ==
    \/ StillRealtime \/ NoLongerRealtime \/ TakeFloor
    \/ ExceedsCap \/ WithinCap \/ TakeCap

Apply ==
    \/ \E c \in Converters : SetPower(c) \/ SetPowerNoEffect(c) \/ NothingLeft(c)
    \/ EndSet

Refresh ==
    \/ \E c \in Converters :
          \/ \E d \in Watts \cup {0} : QueryAnswered(c, d)
          \/ QueryFailed(c) \/ QueryUnsupported(c)
    \/ EndRefresh

Reload ==
    \/ \E g \in Fields : WriteField(g)
    \/ EndUnmarshal \/ DefaultBaseRequest \/ DefaultUpperBatLimit

Environment ==
    \/ \E r \in Readings : MeterMessage(r)
    \/ \E f \in Edits : ChangeFile(f)
    \/ \E c \in Ecoflow, w \in Watts : AppSetsDemand(c, w)
    \/ Tick \/ Crash \/ Restart

Next == Decide \/ Limit \/ Apply \/ Refresh \/ Reload \/ Environment

Spec == Init /\ [][Next]_vars

-----------------------------------------------------------------------------
(* Properties                                                              *)

Places == {"idle", "aim", "import", "upper", "takeUpper", "base", "takeBase",
           "announce", "floor", "takeFloor", "cap", "takeCap", "set", "refresh",
           "down"}

Call == [power: Int, out: Nat, inWindow: BOOLEAN, new: Int, rest: Int]
Limits == [base: SUBSET Int, upper: SUBSET Int]

(* Every variable has its type.                                            *)
TypeOK ==
    /\ pc \in Places
    /\ call \in Call
    /\ todo \in Seq(Converters)
    /\ currentRequested \in Nat /\ currentDelivered \in Nat
    /\ blockLeft \in Nat
    /\ cfg \in Config /\ file \in Files \cup Edits
    /\ watcher \in {"watching", "unmarshal", "defaultBase", "defaultUpper"}
    /\ unread \subseteq Fields
    /\ demand \in [Ecoflow -> Nat]
    /\ inbox \in Seq(Readings)
    /\ inForce \in Limits
    /\ answered \in BOOLEAN

Deciding == pc \notin {"idle", "refresh", "down"}
Sending == pc \in {"floor", "takeFloor", "cap", "takeCap", "set"}

(* No reload has changed a limit since the event was taken.                *)
LimitsSteady == inForce = [base |-> {cfg.base}, upper |-> {cfg.upper}]

(* However the reload of the configuration falls between the reads of the  *)
(* limits, what is sent lies within limits that were in force while the    *)
(* event was processed: at most one of the upper limits, and no less than  *)
(* a base request, unless an upper limit below the base ends it lower.     *)
(* (mqtt.go:281-291 against energy_device.go:11-16 and config.go:134-144)  *)
WithinLimitsInForce ==
    pc = "set" /\ call.rest > 0 =>
        /\ \E u \in inForce.upper : call.rest <= u
        /\ \E b \in inForce.base, u \in inForce.upper : call.rest >= AtMost(b, u)

(* While the last request has not settled (blockRequestTime), a new one    *)
(* may only be lower, or the base request: the delivered power the meter   *)
(* does not yet show is not asked for twice. (mqtt.go:255-291)             *)
BlockedOnlyLowers ==
    call.inWindow /\ LimitsSteady =>
        /\ pc = "announce" \/ Sending => call.new <= AtLeast(currentRequested, cfg.base)
        /\ Sending => call.rest <= AtLeast(currentRequested, cfg.base)

(* What the loop announces and publishes is what it sends, as long as the  *)
(* limits are consistent: the two places that apply them, in opposite      *)
(* order, agree. (mqtt.go:281-305, energy_device.go:10-16)                 *)
AnnouncedIsSent ==
    pc = "set" /\ call.rest > 0 /\ LimitsSteady /\ cfg.base <= cfg.upper =>
        call.rest = call.new

(* A sum of zero stands for "not known" and for "nothing requested".       *)
(* A decision is made only on numbers all converters answered: with one    *)
(* converter a failed query leaves the sum zero and closes the gate. With  *)
(* two it does not hold, since the sum of the others is positive.          *)
(* (mqtt.go:241, ecoflow.go:149-152)                                       *)
DecidesOnAnswers == Deciding => answered

(* The inductive invariant behind the three properties above. The limits   *)
(* in force are on record exactly while the loop decides;                  *)
LimitsRecorded ==
    IF Deciding THEN cfg.base \in inForce.base /\ cfg.upper \in inForce.upper
                ELSE inForce = NoLimits

(* what is to be sent has passed a base request when it meets the cap;     *)
FloorPassed ==
    pc \in {"cap", "takeCap"} => \E b \in inForce.base : call.rest >= b

(* within the window only readings without import get as far as deciding,  *)
(* and until the base request is taken they lower the request;             *)
WindowRespected ==
    call.inWindow =>
        /\ pc = "aim" => call.new = currentRequested /\ call.power <= 0
        /\ pc # "import"
        /\ pc \in {"upper", "takeUpper"} => call.new <= currentRequested
        /\ pc \in {"base", "takeBase"} /\ LimitsSteady =>
              call.new <= currentRequested

(* and with steady limits each comparison still holds in the next step.    *)
ComparisonsHold ==
    LimitsSteady =>
        /\ pc = "takeUpper" => call.new > cfg.upper
        /\ pc = "takeCap" => call.rest > cfg.upper
        /\ pc \in {"base", "takeBase"} => call.new <= cfg.upper
        /\ pc = "floor" => call.rest = call.new
        /\ cfg.base <= cfg.upper =>
              /\ pc \in {"announce", "floor", "cap"} =>
                    cfg.base <= call.new /\ call.new <= cfg.upper
              /\ pc \notin {"takeFloor", "takeCap"}
              /\ pc = "cap" => call.rest = call.new

LimitInvariant ==
    /\ LimitsRecorded /\ FloorPassed /\ WindowRespected /\ ComparisonsHold
    /\ WithinLimitsInForce /\ BlockedOnlyLowers /\ AnnouncedIsSent

=============================================================================
