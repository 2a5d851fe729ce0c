------------------------------- MODULE Lifecycle -------------------------------
(***************************************************************************)
(* Start and end of the program: main reads the configuration, opens the   *)
(* database and initializes the devices (InitDevices, general.go), whose   *)
(* plugins start goroutines of their own while they register: the event    *)
(* loop, the loops that store device values, the statistics loop. A signal *)
(* goroutine hands SIGTERM and SIGINT on to main, which stops the plugins. *)
(*                                                                         *)
(* What an event decides is PowerControl's matter: here an event goes over *)
(* the plugins and either asks the first ecoflow converter for power or    *)
(* only reads back. Calls to the cloud return and are not lost here.       *)
(***************************************************************************)
EXTENDS Integers, Sequences, SequencesExt

CONSTANTS
    Setups,        \* the set-ups the program may be started with
    ConverterSeq,  \* converters of the ecoflow plugin, in config order
    MarstekDevices,\* the marstek devices there may be
    MaxTries,      \* attempts to dial the MQTT broker (120 by default)
    Room,          \* capacity of the channels done and httpDone (1)
    Entries        \* bound: entries a store loop makes in maps it shares

Names == {"ecoflow", "marstek"}
Converters == ToSet(ConverterSeq)

(* Which plugins the directory walk finds, in its order; whether the cloud *)
(* keys, the MQTT broker, the vendor's own MQTT listener and which marstek *)
(* devices are configured.                                                 *)
Setup == [found: Seq(Names), keys: BOOLEAN, mqtt: BOOLEAN, listen: BOOLEAN,
          marsteks: SUBSET MarstekDevices]

(* The goroutines that store values: the HTTP loop and the callback of the *)
(* ecoflow plugin, and a loop for every marstek device.                    *)
Loops == {"http", "callback"} \cup MarstekDevices

ASSUME LifecycleAssumption ==
    /\ Setups \subseteq Setup /\ MarstekDevices \cap {"http", "callback"} = {}
    /\ ConverterSeq \in Seq(Converters)
    /\ MaxTries \in Nat \ {0} /\ Room \in Nat /\ Entries \in Nat

VARIABLES
    setup,     \* configuration, environment and plugin directory
    process,   \* "running", or how the process ended
    main,      \* where the main goroutine is
    next,      \* plugins found so far by the walk
    left,      \* plugins ShutdownPlugins still has to stop
    toReset,   \* converters Stop of the ecoflow plugin still has to reset
    plugins,   \* the plugins map
    tries,     \* dials that have been tried again
    link,      \* the package variable pahoClient: "nil", "client", "closed"
    notified,  \* a signal waits in signalChan
    signaller, \* where the signal goroutine is
    done, httpDone, quit, \* the channels: tokens in the first two, third closed
    event,     \* where the event loop is
    visits,    \* plugins its current loop over the map has not yet visited
    store,     \* where each of the loops that store values is
    unseen,    \* devices and tables each has not yet entered in a shared map
    stat,      \* where the statistics loop is
    demand,    \* what each converter was last asked for
    signalled, \* history: a signal was sent
    stopped,   \* history: plugins whose Stop has returned
    resets     \* history: converters Stop has reset

mainVars == <<main, next, left, toReset, plugins, tries, link, stopped, resets>>
signalVars == <<notified, signaller, done, httpDone, quit, signalled>>
loopVars == <<event, visits, store, unseen, stat>>
vars == <<setup, process, mainVars, signalVars, loopVars, demand>>

Running == process = "running"

Init ==
    /\ setup \in Setups /\ process = "running" /\ main = "config"
    /\ next = 0 /\ left = {} /\ toReset = {} /\ plugins = {} /\ tries = 0
    /\ link = "nil" /\ stopped = {} /\ resets = {}
    /\ notified = FALSE /\ signaller = "none" /\ signalled = FALSE
    /\ done = 0 /\ httpDone = 0 /\ quit = FALSE
    /\ event = "none" /\ visits = {} /\ stat = "none"
    /\ store = [l \in Loops |-> "none"] /\ unseen = [l \in Loops |-> Entries]
    /\ demand = [c \in Converters |-> "base"]

-----------------------------------------------------------------------------
(* Start                                                                   *)

(* A step of main towards the running devices.                             *)
Proceed(from, to) ==
    /\ Running /\ main = from /\ main' = to
    /\ UNCHANGED <<setup, process, left, toReset, stopped, resets, demand>>

(* log.Fatal: the file cannot be read, the database or the broker refuse.  *)
Fatal ==
    /\ Running /\ main \in {"config", "database", "link", "listen"}
    /\ process' = "fatal"
    /\ UNCHANGED <<setup, mainVars, signalVars, loopVars, demand>>

LoadConfig ==
    /\ Proceed("config", "database")
    /\ UNCHANGED <<next, plugins, tries, link, signalVars, loopVars>>

InitDatabase ==
    /\ Proceed("database", "signals")
    /\ UNCHANGED <<next, plugins, tries, link, signalVars, loopVars>>

SetupGracefulShutdown ==
    /\ Proceed("signals", "stat")
    /\ signaller' = "waiting"
    /\ UNCHANGED <<next, plugins, tries, link, notified, done, httpDone, quit,
                   signalled, loopVars>>

StartStatLoop ==
    /\ Proceed("stat", "walk")
    /\ stat' = "ticking"
    /\ UNCHANGED <<next, plugins, tries, link, signalVars, event, visits, store, unseen>>

Found == setup.found[next]

(* InitMastek for every device: each starts a loop.                        *)
RegisterMarstek ==
    /\ next < Len(setup.found) /\ next' = next + 1 /\ setup.found[next'] = "marstek"
    /\ Proceed("walk", "assign")
    /\ store' = [l \in Loops |-> IF l \in setup.marsteks THEN "starting" ELSE store[l]]
    /\ UNCHANGED <<plugins, tries, link, signalVars, event, visits, unseen, stat>>

(* Without keys InitEcoflow returns at once, without a broker ConnectMQTT. *)
RegisterEcoflow ==
    /\ next < Len(setup.found) /\ next' = next + 1 /\ setup.found[next'] = "ecoflow"
    /\ Proceed("walk", IF ~setup.keys THEN "assign"
                       ELSE IF setup.mqtt THEN "dial" ELSE "stores")
    /\ UNCHANGED <<plugins, tries, link, signalVars, loopVars>>

Dial ==
    /\ Proceed("dial", "link")
    /\ link' = "client"
    /\ UNCHANGED <<next, plugins, tries, signalVars, loopVars>>

DialFails ==
    /\ Proceed("dial", "pause")
    /\ UNCHANGED <<next, plugins, tries, link, signalVars, loopVars>>

(* Mutant: the attempts are not counted.                                   *)
Retry_Uncounted ==
    /\ Proceed("pause", "dial")
    /\ UNCHANGED <<next, plugins, tries, link, signalVars, loopVars>>

(* Mutant: there is one attempt too many.                                  *)
Retry_OneMore ==
    /\ tries <= MaxTries /\ tries' = tries + 1
    /\ Proceed("pause", "dial")
    /\ UNCHANGED <<next, plugins, link, signalVars, loopVars>>

(* Every failed attempt is followed by a pause, the last one too.          *)
Retry ==
    /\ tries < MaxTries - 1 /\ tries' = tries + 1
    /\ Proceed("pause", "dial")
    /\ UNCHANGED <<next, plugins, link, signalVars, loopVars>>

GiveUp ==
    /\ Running /\ main = "pause" /\ tries = MaxTries - 1
    /\ process' = "fatal"
    /\ UNCHANGED <<setup, mainVars, signalVars, loopVars, demand>>

(* Connected and subscribed: go f(msgChan, topicMap).                      *)
StartEventLoop ==
    /\ Proceed("link", "stores")
    /\ event' = "idle"
    /\ UNCHANGED <<next, plugins, tries, link, signalVars, visits, store, unseen, stat>>

StartStore ==
    /\ Proceed("stores", IF setup.listen THEN "listen" ELSE "assign")
    /\ store' = [store EXCEPT !["http"] = "starting"]
    /\ UNCHANGED <<next, plugins, tries, link, signalVars, event, visits, unseen, stat>>

(* From now on the vendor's listener calls the callback.                   *)
InitMqtt ==
    /\ Proceed("listen", "assign")
    /\ store' = [store EXCEPT !["callback"] = "waiting"]
    /\ UNCHANGED <<next, plugins, tries, link, signalVars, event, visits, unseen, stat>>

(* plugins[...] = ...: the assignment is in progress while main is at      *)
(* "writing".                                                              *)
BeginAssign ==
    /\ Proceed("assign", "writing")
    /\ UNCHANGED <<next, plugins, tries, link, signalVars, loopVars>>

(* A loop over the map may visit the new entry or not.                     *)
EndAssign ==
    /\ Proceed("writing", "walk")
    /\ plugins' = plugins \cup {Found}
    /\ visits' \in {visits, IF event = "range" THEN visits \cup {Found} ELSE visits}
    /\ UNCHANGED <<next, tries, link, signalVars, event, store, unseen, stat>>

DevicesUp ==
    /\ next = Len(setup.found)
    /\ Proceed("walk", "up")
    /\ UNCHANGED <<next, plugins, tries, link, signalVars, loopVars>>

-----------------------------------------------------------------------------
(* End                                                                     *)

(* A signal; before signal.Notify it kills the process, and while one is   *)
(* waiting to be taken another is dropped.                                 *)
Signal ==
    /\ Running /\ signalled' = TRUE
    /\ IF signaller = "none"
       THEN process' = "killed" /\ UNCHANGED notified
       ELSE notified' = TRUE /\ UNCHANGED process
    /\ UNCHANGED <<setup, mainVars, signaller, done, httpDone, quit, loopVars, demand>>

SignallerStep(from, to) ==
    /\ Running /\ signaller = from /\ signaller' = to
    /\ UNCHANGED <<setup, process, mainVars, signalled, loopVars, demand>>

TakeSignal ==
    /\ notified /\ notified' = FALSE
    /\ SignallerStep("waiting", "endHttp")
    /\ UNCHANGED <<done, httpDone, quit>>

(* Mutant: httpDone is unbuffered; a send needs a receiver.                *)
EndHttp_Unbuffered ==
    /\ FALSE
    /\ SignallerStep("endHttp", "closeQuit")
    /\ UNCHANGED <<notified, done, httpDone, quit>>

(* Nobody receives from this httpDone: the loops have channels of their    *)
(* own with the same name.                                                 *)
EndHttp ==
    /\ httpDone < Room /\ httpDone' = httpDone + 1
    /\ SignallerStep("endHttp", "closeQuit")
    /\ UNCHANGED <<notified, done, quit>>

CloseQuit ==
    /\ quit' = TRUE
    /\ SignallerStep("closeQuit", "sendDone")
    /\ UNCHANGED <<notified, done, httpDone>>

SendDone ==
    /\ done < Room /\ done' = done + 1
    /\ SignallerStep("sendDone", "ended")
    /\ UNCHANGED <<notified, httpDone, quit>>

ReceiveDone ==
    /\ Running /\ main = "up" /\ main' = "stop"
    /\ done > 0 /\ done' = done - 1
    /\ left' = plugins
    /\ UNCHANGED <<setup, process, next, toReset, plugins, tries, link, stopped, resets,
                   notified, signaller, httpDone, quit, signalled, loopVars, demand>>

(* Mutant: the loop over the plugins ends with this one.                   *)
StopMarstek_Last ==
    /\ Running /\ main = "stop" /\ "marstek" \in left
    /\ left' = {} /\ stopped' = stopped \cup {"marstek"}
    /\ UNCHANGED <<setup, process, main, next, toReset, plugins, tries, link, resets,
                   signalVars, loopVars, demand>>

StopMarstek ==
    /\ Running /\ main = "stop" /\ "marstek" \in left
    /\ left' = left \ {"marstek"} /\ stopped' = stopped \cup {"marstek"}
    /\ UNCHANGED <<setup, process, main, next, toReset, plugins, tries, link, resets,
                   signalVars, loopVars, demand>>

StopEcoflow ==
    /\ Running /\ main = "stop" /\ "ecoflow" \in left
    /\ left' = left \ {"ecoflow"} /\ main' = "reset" /\ toReset' = Converters
    /\ UNCHANGED <<setup, process, next, plugins, tries, link, stopped, resets,
                   signalVars, loopVars, demand>>

(* A call on the nil client of an unset key panics before the cloud is     *)
(* asked, one on the nil client of an unset broker after it.               *)
ResetPower(c) ==
    /\ Running /\ main = "reset" /\ c \in toReset
    /\ IF ~setup.keys
       THEN process' = "panic" /\ UNCHANGED <<toReset, resets, demand>>
       ELSE /\ demand' = [demand EXCEPT ![c] = "base"]
            /\ toReset' = toReset \ {c} /\ resets' = resets \cup {c}
            /\ process' = IF link = "nil" THEN "panic" ELSE process
    /\ UNCHANGED <<setup, main, next, left, plugins, tries, link, stopped,
                   signalVars, loopVars>>

CloseLink ==
    /\ Running /\ main = "reset" /\ toReset = {}
    /\ IF link = "nil"
       THEN process' = "panic" /\ UNCHANGED <<main, link, stopped>>
       ELSE /\ link' = "closed" /\ main' = "stop"
            /\ stopped' = stopped \cup {"ecoflow"} /\ UNCHANGED process
    /\ UNCHANGED <<setup, next, left, toReset, plugins, tries, resets,
                   signalVars, loopVars, demand>>

Return ==
    /\ Running /\ main = "stop" /\ left = {}
    /\ process' = "ended"
    /\ UNCHANGED <<setup, mainVars, signalVars, loopVars, demand>>

-----------------------------------------------------------------------------
(* The loops                                                               *)

EventStep(from) ==
    /\ Running /\ event = from
    /\ UNCHANGED <<setup, mainVars, signalVars, store, unseen, stat>>

(* A message arrives, as long as the link is open.                         *)
TakeMessage ==
    /\ EventStep("idle") /\ link = "client"
    /\ event' = "range" /\ visits' = plugins
    /\ UNCHANGED <<process, demand>>

(* A goroutine is writing an entry of a map that others use: of the plugins*)
(* map, of ecoflowDeviceMap or of mapStatDatabase, once for each plugin,   *)
(* device and table; of statusChange at every poll.                        *)
Counting(l) == store[l] = "counting"
EnteringDevice == store["http"] = "entering"
Writing == main = "writing" \/ EnteringDevice \/ \E l \in Loops : Counting(l)
Marking(l) == store[l] = "marking"

(* The run time notices that a map is read or written while it is written, *)
(* or it does not: the plugins map and ecoflowDeviceMap by the event loop, *)
(* the latter also by Stop; mapStatDatabase by the statistics loop or by   *)
(* another loop that stores a record; and statusChange, which each marstek *)
(* loop reads and writes, by another of them.                              *)
ConcurrentMapAccess ==
    /\ Running
    /\ \/ event = "range" /\ visits # {} /\ main = "writing"
       \/ event = "range" /\ "ecoflow" \in visits /\ EnteringDevice
       \/ main = "reset" /\ EnteringDevice
       \/ stat = "ticking" /\ \E l \in Loops : Counting(l)
       \/ \E l \in Loops : Counting(l) /\ \E k \in Loops \ {l} : store[k] \in {"storing", "counting"}
       \/ \E l \in Loops : Marking(l) /\ \E k \in Loops \ {l} : Marking(k)
    /\ process' = "throw"
    /\ UNCHANGED <<setup, mainVars, signalVars, loopVars, demand>>

(* Only the first converter is asked, since it takes all of the request.   *)
AskForPower ==
    /\ EventStep("range") /\ "ecoflow" \in visits /\ ConverterSeq # <<>>
    /\ visits' = visits \ {"ecoflow"}
    /\ demand' = [demand EXCEPT ![Head(ConverterSeq)] = "raised"]
    /\ UNCHANGED <<process, event>>

OnlyReadBack(p) ==
    /\ EventStep("range") /\ p \in visits
    /\ visits' = visits \ {p}
    /\ UNCHANGED <<process, event, demand>>

EndEvent ==
    /\ EventStep("range") /\ visits = {}
    /\ event' = "idle"
    /\ UNCHANGED <<process, visits, demand>>

(* OnClientError: the connection breaks.                                   *)
ClientError ==
    /\ Running /\ link = "client" /\ event # "none"
    /\ process' = "exit 100"
    /\ UNCHANGED <<setup, mainVars, signalVars, loopVars, demand>>

StoreStep(l, from, to) ==
    /\ Running /\ store[l] = from /\ store' = [store EXCEPT ![l] = to]
    /\ UNCHANGED <<setup, process, mainVars, signalVars, event, visits, stat, demand>>

StoreReady(l) == StoreStep(l, "starting", "waiting") /\ UNCHANGED unseen

(* Nothing to store: no devices, no table.                                 *)
StoreReturns(l) == StoreStep(l, "starting", "returned") /\ UNCHANGED unseen

StoreRound(l) == StoreStep(l, "waiting", "storing") /\ UNCHANGED unseen

(* Mutant: the new entry is not kept.                                      *)
Enter_NotKept(l, place) ==
    /\ unseen[l] > 0 /\ unseen' = unseen
    /\ StoreStep(l, "storing", place)

(* The first record of a table enters it in mapStatDatabase, the first     *)
(* answer of a device enters the device in ecoflowDeviceMap.               *)
Enter(l, place) ==
    /\ unseen[l] > 0 /\ unseen' = [unseen EXCEPT ![l] = @ - 1]
    /\ StoreStep(l, "storing", place)

Entered(l) ==
    /\ \E place \in {"counting", "entering"} : StoreStep(l, place, "storing")
    /\ UNCHANGED unseen

(* A marstek loop marks a device after each poll, answered or not.         *)
Mark(l) ==
    /\ l \in MarstekDevices
    /\ StoreStep(l, "storing", "marking") /\ UNCHANGED unseen

Marked(l) ==
    /\ \E place \in {"storing", "waiting"} : StoreStep(l, "marking", place)
    /\ UNCHANGED unseen

StoreRoundEnds(l) ==
    /\ l \notin MarstekDevices
    /\ StoreStep(l, "storing", "waiting") /\ UNCHANGED unseen

(* log.Fatal or a panic in one of the loops: the database is gone, a table *)
(* cannot be created, a message lacks what its mapping names.              *)
LoopFatal ==
    /\ Running
    /\ \/ event # "none"
       \/ \E l \in Loops : store[l] \in {"starting", "storing"}
    /\ process' = "fatal"
    /\ UNCHANGED <<setup, mainVars, signalVars, loopVars, demand>>

StatStops ==
    /\ Running /\ stat = "ticking" /\ quit
    /\ stat' = "stopped"
    /\ UNCHANGED <<setup, process, mainVars, signalVars, event, visits, store, unseen, demand>>

(* The process is gone.                                                    *)
Gone == ~Running /\ UNCHANGED vars

-----------------------------------------------------------------------------
(* The specification                                                       *)

Start ==
    \/ LoadConfig \/ InitDatabase \/ SetupGracefulShutdown \/ StartStatLoop
    \/ RegisterMarstek \/ RegisterEcoflow
    \/ Dial \/ DialFails \/ Retry \/ GiveUp \/ StartEventLoop
    \/ StartStore \/ InitMqtt \/ BeginAssign \/ EndAssign \/ DevicesUp

Shutdown ==
    \/ ReceiveDone \/ StopMarstek \/ StopEcoflow
    \/ \E c \in Converters : ResetPower(c)
    \/ CloseLink \/ Return

Signaller == TakeSignal \/ EndHttp \/ CloseQuit \/ SendDone

EventLoop ==
    \/ TakeMessage \/ AskForPower
    \/ \E p \in Names : OnlyReadBack(p)
    \/ EndEvent

StoreLoop(l) ==
    \/ StoreReady(l) \/ StoreReturns(l) \/ StoreRound(l) \/ StoreRoundEnds(l)
    \/ Enter(l, "counting") \/ (l = "http" /\ Enter(l, "entering"))
    \/ Entered(l) \/ Mark(l) \/ Marked(l)

Next ==
    \/ Start \/ Fatal \/ Shutdown \/ Signal \/ Signaller
    \/ EventLoop \/ ClientError \/ LoopFatal \/ ConcurrentMapAccess
    \/ \E l \in Loops : StoreLoop(l)
    \/ StatStops \/ Gone

(* The goroutines run.                                                     *)
Spec ==
    /\ Init /\ [][Next]_vars
    /\ WF_vars(Start) /\ WF_vars(Shutdown) /\ WF_vars(Signaller) /\ WF_vars(EventLoop)
    /\ \A l \in Loops : WF_vars(StoreLoop(l))

-----------------------------------------------------------------------------
(* Properties                                                              *)

Ends == {"ended", "fatal", "killed", "panic", "throw", "exit 100"}

(* Every variable has its type.                                            *)
TypeOK ==
    /\ setup \in Setups /\ process \in Ends \cup {"running"}
    /\ main \in {"config", "database", "signals", "stat", "walk", "dial", "pause",
                 "link", "stores", "listen", "assign", "writing", "up", "stop", "reset"}
    /\ next \in 0..Len(setup.found)
    /\ left \subseteq Names /\ plugins \subseteq Names /\ stopped \subseteq Names
    /\ toReset \subseteq Converters /\ resets \subseteq Converters
    /\ tries \in 0..MaxTries - 1 /\ link \in {"nil", "client", "closed"}
    /\ notified \in BOOLEAN /\ signalled \in BOOLEAN /\ quit \in BOOLEAN
    /\ signaller \in {"none", "waiting", "endHttp", "closeQuit", "sendDone", "ended"}
    /\ done \in 0..Room /\ httpDone \in 0..Room
    /\ event \in {"none", "idle", "range"} /\ visits \subseteq Names
    /\ store \in [Loops -> {"none", "starting", "waiting", "storing", "counting",
                            "entering", "marking", "returned"}]
    /\ unseen \in [Loops -> 0..Entries]
    /\ stat \in {"none", "ticking", "stopped"}
    /\ demand \in [Converters -> {"base", "raised"}]

(* Start-up ends: the plugins are up, or the process gives up, however     *)
(* often the broker refuses. (mqtt.go:108-127)                             *)
StartEnds == <>(main \in {"up", "stop", "reset"} \/ ~Running)

(* A signal ends the process, whenever it comes: while the plugins are     *)
(* still registering, while one before it is handled, and though nobody    *)
(* receives from httpDone. (general.go:32-58)                              *)
SignalEndsProcess == signalled ~> ~Running

(* When the process ends in order, every converter the event loop may have *)
(* raised has been reset: no plugin is still registering, and so unknown   *)
(* to ShutdownPlugins, when the signal is acted on.                        *)
(* (general.go:53-58, greeter.go:52-60)                                    *)
NoConverterForgotten ==
    process = "ended" => \A c \in Converters : demand[c] = "raised" => c \in resets

(* The maps of plugins, devices and tables, shared without a lock by main, *)
(* the event loop, the statistics and all loops that store, are written    *)
(* only while there is something new to enter: after that no access of     *)
(* theirs can meet a write. Not so statusChange, which the loop of every   *)
(* marstek device writes at each poll: with two devices                    *)
(* ConcurrentMapAccess may end the process at any time.                    *)
(* (plugins.go:139, http.go:146, stat.go:28, marstek.go:128)               *)
MapsSettle == <>[](Running => ~Writing)

(* What the message "Reset power of" says (greeter.go:55) and does not     *)
(* hold: a reset converter is left at the base request. The event loop is  *)
(* never told to stop and the link is closed only after the resets.        *)
ResetSticks == process = "ended" => \A c \in resets : demand[c] = "base"

=============================================================================
