------------------------------ MODULE MCLifecycle ------------------------------
(***************************************************************************)
(* Instances of Lifecycle for TLC.                                         *)
(***************************************************************************)
EXTENDS Lifecycle

CONSTANTS c1, c2, marstek1, marstek2

TwoConverters == <<c1, c2>>

(* filepath.Walk is lexical.                                               *)
BothPlugins == <<"ecoflow", "marstek">>

TwoMarsteks == {marstek1, marstek2}

(* Both plugins with one marstek device; the ecoflow plugin alone with its *)
(* listener; the marstek plugin alone with both devices; no plugin.        *)
AnySetup ==
    [found: {BothPlugins}, keys: BOOLEAN, mqtt: BOOLEAN, listen: {FALSE}, marsteks: {{marstek1}}]
    \cup [found: {<<"ecoflow">>}, keys: BOOLEAN, mqtt: {TRUE}, listen: {TRUE}, marsteks: {{}}]
    \cup [found: {<<"marstek">>, <<>>}, keys: {FALSE}, mqtt: {FALSE}, listen: {FALSE},
          marsteks: {TwoMarsteks}]
UsualSetup ==
    {[found |-> BothPlugins, keys |-> TRUE, mqtt |-> TRUE, listen |-> TRUE,
      marsteks |-> {marstek1}]}
=============================================================================
