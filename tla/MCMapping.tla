-------------------------------- MODULE MCMapping --------------------------------
(***************************************************************************)
(* An instance of Mapping for TLC: the mapping of adapter-template.yaml    *)
(* and its variants, in every order, for meters that show an export as a   *)
(* negative power, as an out value or as both.                             *)
(***************************************************************************)
EXTENDS Mapping, SequencesExt, TLC

Source(key) == <<"Strom", key>>
EntryOf(key, type, ifNegative) ==
    [source |-> Source(key), destination |-> key, type |-> type, ifNegative |-> ifNegative]

PowerEntry == EntryOf("power", "float64", "")
SplitEntry == EntryOf("power", "float64", "out")
OutEntry == EntryOf("out", "float64", "")
TimeEntry(type) ==
    [source |-> <<"Time">>, destination |-> "time", type |-> type, ifNegative |-> ""]

EntrySets ==
    {{PowerEntry, OutEntry}, {SplitEntry, OutEntry}, {SplitEntry}, {PowerEntry},
     {SplitEntry, OutEntry, TimeEntry("time.Time")},
     {PowerEntry, OutEntry, TimeEntry("string")},
     {PowerEntry, OutEntry, TimeEntry("other")},
     {EntryOf("power", "int64", "out"), OutEntry}}

Orders == UNION {SetToSeqs(entries) : entries \in EntrySets}

Meters == {[power |-> "signed", out |-> "none"], [power |-> "unsigned", out |-> "shown"],
           [power |-> "signed", out |-> "shown"]}
Shown(meter, net) ==
    [power |-> IF meter.power = "signed" THEN net ELSE Positive(net),
     out |-> IF meter.out = "shown" THEN Positive(-net) ELSE 0]

ValuesOf(reading, kind) ==
    [key \in {"power", "out"} |-> Leaf(kind, reading[key])]
Timestamp == "Time" :> Leaf("timestamp", 0)
Message(strom) == Object(Timestamp @@ ("Strom" :> Object(strom)))

Nets == {-15, -5, 0, 5, 15}
Readable ==
    {[object |-> Message(ValuesOf(Shown(meter, net), kind)), shows |-> "exchange", net |-> net] :
        meter \in Meters, net \in Nets, kind \in {"number", "numeral"}}

(* Values of a message that is not as it should be.                        *)
Usual == ValuesOf([power |-> 5, out |-> 0], "number")
Unusual(shows, object) == [object |-> object, shows |-> shows, net |-> 5]
Garbled ==
    {Unusual("garbled", Message((key :> Leaf("word", 0)) @@ Usual)) : key \in {"power", "out"}}
Lacking ==
    {Unusual("lacking", object) : object \in
        {Message("power" :> Leaf("number", 5)), Message("out" :> Leaf("number", 0)),
         Object(Timestamp), Object(Timestamp @@ Usual),
         Object(Timestamp @@ ("Strom" :> Leaf("number", 5)))}
        \cup {Message((key :> Leaf(kind, 0)) @@ Usual) :
                 key \in {"power", "out"}, kind \in {"null", "bool"}}}

AllContents == Readable \cup Garbled \cup Lacking

Within(values) == UNION {{i.at[key] : key \in DOMAIN i.at} : i \in {j \in values : j.kind = "object"}}
AllValues ==
    LET whole == {c.object : c \in AllContents}
    IN  whole \cup Within(whole) \cup Within(Within(whole)) \cup {Object(Empty)}

(* What the theorem about EventIsReading takes for granted.                *)
ASSUME OnlyExportSplits /\ LackingIsIncomplete
=============================================================================
