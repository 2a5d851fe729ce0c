------------------------- MODULE PowerControlRefinement ------------------------
(***************************************************************************)
(* PowerControl implements Regulator as long as the configuration file is  *)
(* not edited. The decision takes effect in the step that announces it;    *)
(* the order is gone when a converter has been asked, whatever came of it. *)
(***************************************************************************)
EXTENDS PowerControl

Event == [power |-> call.power, out |-> call.out]
Unsent == pc \in {"floor", "takeFloor", "cap", "takeCap"} \/ (pc = "set" /\ call.rest > 0)

Phase ==
    IF pc = "down" THEN "down"
    ELSE IF pc = "refresh" THEN "learning"
    ELSE IF Sending THEN "sending"
    ELSE "ready"

Regulator == INSTANCE Regulator WITH
    Converters <- Ecoflow,
    Settings <- {Loaded(f) : f \in Files},
    Readings <- {Aligned(r) : r \in Readings},
    settings <- Loaded(file),
    phase <- Phase,
    requested <- currentRequested,
    delivered <- currentDelivered,
    window <- blockLeft,
    order <- IF Unsent THEN call.new ELSE 0

(* Every step of the loop, of the cloud and of the app is a step of the    *)
(* regulator or none: the many reads of the limits, in two places and two  *)
(* orders, decide nothing else than the regulator's formula, and only one  *)
(* converter is sent the decision. (mqtt.go:232-308, energy_device.go:8-55)*)
Regulates == Regulator!Spec

-----------------------------------------------------------------------------
(* The invariant behind it                                                 *)

(* Nobody writes the configuration,                                        *)
ConfigSteady ==
    /\ watcher = "watching" /\ unread = {} /\ file \in Files
    /\ pc # "down" => cfg = Loaded(file)

(* a reading that got as far as deciding is one the regulator acts on,     *)
EventActedOn ==
    Deciding /\ ~Sending =>
        /\ Event \in {Aligned(r) : r \in Readings}
        /\ Regulator!Acted(Event)

(* the decision grows by the parts of the formula,                         *)
DecisionSoFar ==
    LET target == Regulator!Target(Event)
        capped == AtMost(target, cfg.upper)
    IN  /\ pc = "aim" => call.new = currentRequested
        /\ pc = "import" => call.out = 0 /\ call.power > cfg.interm
        /\ pc \in {"upper", "takeUpper"} => call.new = target
        /\ pc = "takeUpper" => target > cfg.upper
        /\ pc \in {"base", "takeBase"} => call.new = capped
        /\ pc = "takeBase" => capped < cfg.base
        /\ pc = "announce" => call.new = AtLeast(capped, cfg.base)

(* and it is sent, capped again, to the first converter there is.          *)
OrderOutstanding ==
    /\ Sending => cfg.realtime
    /\ pc \in {"floor", "cap", "takeCap"} =>
          call.rest = call.new /\ call.new >= cfg.base /\ call.new > 0
    /\ pc # "takeFloor"
    /\ pc = "takeCap" => call.rest > cfg.upper
    /\ pc = "set" /\ call.rest > 0 =>
          /\ call.rest = AtMost(call.new, cfg.upper)
          /\ call.new > 0
          /\ Ecoflow \subseteq ToSet(todo)

RefinementInvariant ==
    ConfigSteady /\ EventActedOn /\ DecisionSoFar /\ OrderOutstanding
=============================================================================
