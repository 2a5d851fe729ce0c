------------------------------ MODULE MCClosedLoop ------------------------------
(***************************************************************************)
(* Instances of ClosedLoop for TLC. Loads lie below the base request,      *)
(* between the limits and beyond the upper limit; a converter may yield    *)
(* more than the upper limit or less than it.                              *)
(***************************************************************************)
EXTENDS ClosedLoop

CONSTANTS c1, c2

OneConverter == <<c1>>
TwoConverters == <<c1, c2>>
NoConverter == <<>>

House == {1, 4, 8}
LowLoad == {1}
SunAndBattery == {3, 9}
Plenty == {9}
AppWatts == {2, 5}
PowersSeen == 1..9

(* All a meter can show of House with the converters above.                *)
MeterRange == [power: -9..8, out: 0..9]
WideRange == [power: -18..8, out: 0..18]

NormalFile ==
    {[val |-> [base |-> 2, upper |-> 6, interm |-> 1, wait |-> 1, realtime |-> TRUE],
      keys |-> Fields]}
NoEdit == {}

Uncontrolled == {"load", "fading", "lost", "slow", "query", "crash"}
AppAndPoll == {"app", "polled"}
PlantOnly == {"load", "avail"}
=============================================================================
