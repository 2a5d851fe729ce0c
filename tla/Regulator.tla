------------------------------- MODULE Regulator -------------------------------
(***************************************************************************)
(* What the realtime power controller promises while its configuration     *)
(* does not change: each reading it acts on leads to one decision, made in *)
(* one step from one formula. The request it decides on is sent to at most *)
(* one converter, then what is requested and delivered is learned anew,    *)
(* and nothing is decided in between.                                      *)
(*                                                                         *)
(* processEvent applies the limits in one order, SetOverallPowerConsumption*)
(* in the other and over several reads; that together they amount to       *)
(* Decision and Capped is what PowerControl is shown to implement.         *)
(***************************************************************************)
EXTENDS Integers

CONSTANTS
    Converters, \* converters a request can be sent to
    Settings,   \* the configurations the program may run with
    Readings,   \* aligned meter readings
    Watts       \* powers the app may request

VARIABLES
    settings,  \* the configuration
    phase,     \* "ready", "sending", "learning" or "down"
    requested, \* what the converters together are known to be asked for
    delivered, \* and to deliver
    window,    \* time left before import is acted on again
    order,     \* the request still to be sent, 0 if there is none
    demand     \* what each converter is asked for

vars == <<settings, phase, requested, delivered, window, order, demand>>

AtMost(x, limit) == IF x > limit THEN limit ELSE x
AtLeast(x, limit) == IF x < limit THEN limit ELSE x

Init ==
    /\ settings \in Settings
    /\ phase = "ready" /\ requested = 0 /\ delivered = 0
    /\ window \in Nat /\ order = 0
    /\ demand \in [Converters -> Nat]

-----------------------------------------------------------------------------
(* Decisions                                                               *)

Target(r) ==
    IF r.out > 0 THEN requested - r.out
    ELSE IF r.power > settings.interm THEN delivered + r.power - settings.interm
    ELSE requested

Decision(r) == AtLeast(AtMost(Target(r), settings.upper), settings.base)

(* A reading is acted on when control is on, the request is known, and     *)
(* either nothing is imported or the last request has settled.             *)
Acted(r) ==
    /\ settings.realtime /\ requested # 0
    /\ r.power > 0 => window = 0

Decide(r) ==
    /\ phase = "ready" /\ Acted(r)
    /\ Decision(r) > 0 /\ Decision(r) # requested
    /\ phase' = "sending" /\ order' = Decision(r)
    /\ window' = AtLeast(settings.wait, 0)
    /\ UNCHANGED <<settings, requested, delivered, demand>>

(* With an upper limit below the base request the upper limit is sent.     *)
Capped == AtMost(order, settings.upper)

Send(c) ==
    /\ phase = "sending" /\ order > 0
    /\ demand' = [demand EXCEPT ![c] = Capped]
    /\ order' = 0
    /\ UNCHANGED <<settings, phase, requested, delivered, window>>

(* The cloud refuses, or an upper limit below zero leaves nothing to send.  *)
SendFails ==
    /\ phase = "sending" /\ order > 0 /\ order' = 0
    /\ UNCHANGED <<settings, phase, requested, delivered, window, demand>>

-----------------------------------------------------------------------------
(* Learning                                                                *)

(* After sending, or on a reading that is not acted on. An order is only   *)
(* left unsent when there is nobody to send it to.                         *)
Forget ==
    /\ \/ phase = "ready"
       \/ phase = "sending" /\ (order = 0 \/ Converters = {})
    /\ phase' = "learning"
    /\ requested' = 0 /\ delivered' = 0 /\ order' = 0
    /\ UNCHANGED <<settings, window, demand>>

Learn(c) ==
    /\ phase = "learning"
    /\ requested' = requested + demand[c]
    /\ delivered' - delivered \in Nat
    /\ UNCHANGED <<settings, phase, window, order, demand>>

Known ==
    /\ phase = "learning" /\ phase' = "ready"
    /\ UNCHANGED <<settings, requested, delivered, window, order, demand>>

-----------------------------------------------------------------------------
(* The environment                                                         *)

Tick ==
    /\ window > 0 /\ window' = window - 1
    /\ UNCHANGED <<settings, phase, requested, delivered, order, demand>>

AppSetsDemand(c) ==
    /\ \E w \in Watts : demand' = [demand EXCEPT ![c] = w]
    /\ UNCHANGED <<settings, phase, requested, delivered, window, order>>

Crash ==
    /\ phase # "down" /\ phase' = "down"
    /\ requested' = 0 /\ delivered' = 0 /\ order' = 0 /\ window' = 0
    /\ UNCHANGED <<settings, demand>>

Restart ==
    /\ phase = "down" /\ phase' = "ready" /\ window' \in Nat
    /\ UNCHANGED <<settings, requested, delivered, order, demand>>

Next ==
    \/ \E r \in Readings : Decide(r)
    \/ \E c \in Converters : Send(c) \/ Learn(c) \/ AppSetsDemand(c)
    \/ SendFails \/ Forget \/ Known
    \/ Tick \/ Crash \/ Restart

Spec == Init /\ [][Next]_vars
=============================================================================
