------------------------------- MODULE ClosedLoop -------------------------------
(***************************************************************************)
(* The controller of PowerControl together with the house it controls. The *)
(* house draws a load; each converter yields its cloud's standing request  *)
(* as far as sun and battery make it available; the meter shows the        *)
(* difference. The loop closes: what SetPower changes is what the next     *)
(* reading shows.                                                          *)
(*                                                                         *)
(* Load, available power, failures and the owner's app disturb the loop    *)
(* until the house calms down for good; the properties say what the loop   *)
(* reaches then. A disturbance that is not in Disturbances never happens.  *)
(***************************************************************************)
EXTENDS PowerControl

CONSTANTS
    Loads,        \* powers the house may draw
    Avails,       \* powers a converter may be able to yield
    Disturbances, \* the kinds of disturbance before the calm
    Rate          \* bound: readings the meter sends between two ticks

Kinds == {"load", "avail", "fading", "app", "lost", "query", "polled", "slow", "crash"}

ASSUME PlantAssumption ==
    /\ Loads \subseteq Nat /\ Avails \subseteq Nat
    /\ Disturbances \subseteq Kinds
    /\ Rate \in Nat \ {0}

VARIABLES
    load,   \* power the house draws
    avail,  \* power each converter is able to yield
    calm,   \* no disturbance happens any more
    sent    \* readings the meter has sent since the last tick

plantVars == <<load, avail, calm, sent>>
loopedVars == <<vars, plantVars>>

Yields == [c \in Ecoflow |-> AtMost(demand[c], avail[c])]
Yielded == SumFunction(Yields)
Net == load - Yielded

(* Meters show export either as an out value or as a negative power.       *)
MeterShows ==
    IF Net >= 0 THEN {[power |-> Net, out |-> 0]}
    ELSE {[power |-> 0, out |-> -Net], [power |-> Net, out |-> 0]}

LoopInit ==
    /\ Init
    /\ load \in Loads /\ avail \in [Ecoflow -> Avails] /\ calm = FALSE
    /\ sent = 0

Disturbed(kind) == ~calm /\ kind \in Disturbances

-----------------------------------------------------------------------------
(* The controller in the house                                             *)

(* A step of the loop when every call to the cloud succeeds.               *)
Reliable ==
    \/ Decide \/ Limit \/ EndSet \/ EndRefresh
    \/ \E c \in Ecoflow : SetPower(c) \/ QueryAnswered(c, Yields[c])
    \/ \E c \in Marstek : SetPowerNoEffect(c) \/ QueryUnsupported(c)
    \/ \E c \in Converters : NothingLeft(c)

LoopStep == Reliable /\ UNCHANGED plantVars

Measure ==
    /\ sent < Rate /\ sent' = sent + 1
    /\ \E r \in MeterShows : MeterMessage(r)
    /\ UNCHANGED <<load, avail, calm>>

(* Calls to the cloud have no timeout, and the window is set before them   *)
(* (mqtt.go:302, 306-307): while they are slow any time may pass at any    *)
(* place of the loop, and the window runs out over readings that show the  *)
(* house before the request. Once the house is calm the loop is prompt: a  *)
(* window of seconds outlasts a few calls and the readings that wait.      *)
Wait ==
    /\ Disturbed("slow") \/ (pc = "idle" /\ inbox = <<>>)
    /\ sent' = 0
    /\ Tick \/ (blockLeft = 0 /\ sent > 0 /\ UNCHANGED vars)
    /\ UNCHANGED <<load, avail, calm>>

Recover == Restart /\ UNCHANGED plantVars

-----------------------------------------------------------------------------
(* Disturbances                                                            *)

LoadChanges(w) ==
    /\ Disturbed("load") /\ load' = w
    /\ UNCHANGED <<vars, avail, calm, sent>>

(* Sun and battery come and go, or only fade.                              *)
AvailChanges(c, w) ==
    /\ Disturbed("avail") \/ (Disturbed("fading") /\ w < avail[c])
    /\ avail' = [avail EXCEPT ![c] = w]
    /\ UNCHANGED <<vars, load, calm, sent>>

(* A call is lost, a query fails or returns what the loop that polls the   *)
(* devices has written in between, the app interferes, the process dies.   *)
FaultyStep ==
    /\ \/ Disturbed("app") /\ \E c \in Ecoflow, w \in Watts : AppSetsDemand(c, w)
       \/ Disturbed("lost") /\ \E c \in Ecoflow : SetPowerNoEffect(c)
       \/ Disturbed("query") /\ \E c \in Ecoflow : QueryFailed(c)
       \/ Disturbed("polled") /\ \E c \in Ecoflow, d \in Watts : QueryAnswered(c, d)
       \/ Disturbed("crash") /\ Crash
    /\ UNCHANGED plantVars

(* Readings taken before may still wait.                                   *)
CalmDown ==
    /\ ~calm /\ calm' = TRUE
    /\ UNCHANGED <<vars, load, avail, sent>>

LoopNext ==
    \/ LoopStep \/ Measure \/ Wait \/ Recover
    \/ \E w \in Loads : LoadChanges(w)
    \/ \E c \in Ecoflow, w \in Avails : AvailChanges(c, w)
    \/ FaultyStep \/ CalmDown

(* The loop runs, the meter reports regularly and time passes once the     *)
(* readings of a tick are handled; a supervisor restarts the program; and  *)
(* disturbances end.                                                       *)
Fairness ==
    /\ WF_loopedVars(LoopStep) /\ WF_loopedVars(Measure)
    /\ WF_loopedVars(Wait)
    /\ WF_loopedVars(Recover) /\ WF_loopedVars(CalmDown)

LoopSpec == LoopInit /\ [][LoopNext]_loopedVars /\ Fairness

-----------------------------------------------------------------------------
(* Properties                                                              *)

TotalDemand == SumFunction(demand)

(* A grid exchange the loop has no reason, or no means, to change: import  *)
(* within the intermediate range, or at the upper limit, or because the    *)
(* converters yield less than requested; export only at the base request.  *)
Balanced ==
    \/ Net \in 0..cfg.interm
    \/ Net > cfg.interm /\ (TotalDemand = cfg.upper \/ Yielded < TotalDemand)
    \/ Net < 0 /\ TotalDemand = cfg.base

(* Once the house is calm the loop balances it and leaves it balanced: it  *)
(* neither oscillates between import and export nor gets stuck, whatever   *)
(* changes of the load, fading sun, lost and slow calls, readings that     *)
(* outlived the block window, failed queries and restarts came before.     *)
(* This holds for one converter that nobody else controls and whose yield  *)
(* does not rise behind the loop's back.                                   *)
(* (mqtt.go:264-308 with energy_device.go)                                 *)
Converges == <>[]Balanced

(* What the loop remembers is what is requested and yielded now.           *)
Remembered == currentRequested = TotalDemand /\ currentDelivered = Yielded

(* The loop decides on the house as it is.                                 *)
Informed ==
    Remembered /\ \E r \in MeterShows : [power |-> call.power, out |-> call.out] = Aligned(r)

(* A decision made on the house as it is, and not lost, balances it, or it *)
(* lowers the request of a converter that yields less than requested and   *)
(* yet too much; and none is withheld unless the house is balanced. So the *)
(* loop makes progress with every decision, for one converter and limits   *)
(* that are positive and consistent.                                       *)
(* (mqtt.go:264-308, energy_device.go:8-33)                                *)
DecisionsImprove ==
    [][Informed /\ 0 < cfg.base /\ cfg.base <= cfg.upper =>
          /\ Settle => Balanced
          /\ (\E c \in Ecoflow : SetPower(c))
                => Balanced' \/ (Net < 0 /\ TotalDemand' < TotalDemand)]_loopedVars

(* The loop waits, and what it remembers, if anything, is true.            *)
AtRest ==
    /\ calm /\ pc = "idle" /\ inbox = <<>>
    /\ currentRequested = 0 \/ Remembered
    /\ TotalDemand \in cfg.base..cfg.upper

(* Once it is at rest in a balanced house it leaves the house balanced:    *)
(* a request that never yields what it asks for may still be changed, but  *)
(* no change brings back an exchange there is a reason to act on. This,    *)
(* too, holds for one converter. (mqtt.go:264-308)                         *)
StaysBalanced == [](AtRest /\ Balanced => []Balanced)

(* What the message of an enabled realtime request says (config.go:153):   *)
(* the power request is updated if needed. It does not hold when the app   *)
(* raises a request the loop remembers at the base: a decision equal to    *)
(* the remembered request is neither sent nor followed by a refresh        *)
(* (mqtt.go:301), nor when the delivery it remembers is that of a poll     *)
(* answered earlier (http.go:164). Nor does it hold once the request is    *)
(* zero, which is taken for "unknown" (mqtt.go:241), or when the yield     *)
(* rises together with the load, so that the reading added to the          *)
(* remembered delivery gives just the remembered request (mqtt.go:273).    *)
UpdatedIfNeeded == [](calm /\ ~Balanced => <>Balanced)

(* Wherever the loop waits or decides, the request it remembers is the one *)
(* the cloud holds, or none at all: a lost call, a failed query, readings  *)
(* that waited and a restart in the middle of a request never leave it     *)
(* with another one. It holds for one converter that nobody else controls. *)
(* (mqtt.go:306-307, energy_device.go:38-55, ecoflow.go:148-153)           *)
RequestKnown ==
    pc \notin {"set", "refresh", "down"} => currentRequested \in {0, TotalDemand}

(* Control that was lost to a failed query or to a restart, so that the    *)
(* sum is zero, comes back: once the house is calm the request is known    *)
(* for good. (mqtt.go:241-244, ecoflow.go:148-153)                         *)
ControlRegained ==
    <>[](pc \notin {"set", "refresh"} => currentRequested = TotalDemand)

(* What the message "Set overall power consumption to" says                *)
(* (energy_device.go:20): after the loop over the plugins the converters   *)
(* together are asked for the request, if no call failed. It holds for one *)
(* converter; with two, the first takes all and the second keeps its own.  *)
OverallIsSet ==
    pc = "set" /\ todo = <<>> => TotalDemand = call.new
=============================================================================
