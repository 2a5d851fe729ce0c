----------------------------- MODULE MCPowerControl -----------------------------
(***************************************************************************)
(* Instances of PowerControl for TLC. Powers are scaled down to a few      *)
(* units; the values are chosen so that readings meet, just miss and       *)
(* exceed every limit.                                                     *)
(***************************************************************************)
EXTENDS PowerControlRefinement

CONSTANTS c1, c2, m1

OneConverter == <<c1>>
TwoConverters == <<c1, c2>>
NoConverter == <<>>
OneMarstek == <<m1>>

FewWatts == {1, 3, 5}
TwoWatts == {1, 5}

(* Import within and beyond the intermediate range, export as an out value *)
(* and as a negative power.                                                *)
FewReadings == {[power |-> 1, out |-> 0], [power |-> 3, out |-> 0],
                [power |-> 0, out |-> 2], [power |-> -1, out |-> 0]}
ImportOrExport == {[power |-> 3, out |-> 0], [power |-> -2, out |-> 0]}

AllFields == {"base", "upper", "interm", "wait", "realtime"}

Settings(base, upper, wait, realtime) ==
    [base |-> base, upper |-> upper, interm |-> 1, wait |-> wait,
     realtime |-> realtime]

Normal == [val |-> Settings(2, 4, 2, TRUE), keys |-> AllFields]

(* Nothing rejects a base request above the upper limit, or an upper limit *)
(* below zero.                                                             *)
Crossed == [val |-> Settings(4, 3, 2, TRUE), keys |-> AllFields]
Negative == [val |-> Settings(2, -2, 2, TRUE), keys |-> AllFields]
AnyLimits == {Normal, Crossed, Negative}

(* With a short block window, where reloads are of interest.               *)
ShortWaitFile == {[Normal EXCEPT !.val.wait = 1]}
NoEdit == {}

(* An edit that moves both limits, and one that sets them to zero (meaning *)
(* the defaults) and switches realtime control off.                        *)
ReloadEdits ==
    {[val |-> Settings(3, 5, 0, TRUE), keys |-> {"base", "upper"}],
     [val |-> Settings(0, 0, 0, FALSE), keys |-> {"base", "upper", "realtime"}]}

=============================================================================
