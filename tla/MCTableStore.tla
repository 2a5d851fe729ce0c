------------------------------ MODULE MCTableStore -----------------------------
(***************************************************************************)
(* Instances of TableStore for TLC.                                        *)
(***************************************************************************)
EXTENDS TableStore, TLC

CONSTANTS http, callback, marstek1, marstek2

(* Two marstek devices, each with a loop that goes over both.              *)
MarstekPairs == {marstek1, marstek2} \X {marstek1, marstek2}
EcoflowWriters == {<<http, http>>, <<callback, callback>>}

RoleOf ==
    [w \in Writers |->
        CASE w[1] = http -> "http" [] w[1] = callback -> "callback" [] OTHER -> "marstek"]
TableOf ==
    [w \in Writers |->
        CASE w[1] = http -> "device_quota" [] w[1] = callback -> "sn_mqtt" [] OTHER -> "marstek"]

Stamps == <<"timestamp">> :> "time" @@ <<"serial_number">> :> "string"
Named == Stamps @@ <<"vendor">> :> "string"
Plain == <<"soc">> :> "number"
More == Plain @@ <<"on">> :> "bool"
Nested == Plain @@ <<"bat">> :> "object" @@ <<"bat", "id">> :> "string"

Shape(w, r) ==
    CASE Role[w] = "http" -> r @@ Named
      [] Role[w] = "marstek" -> r @@ Stamps
      [] Role[w] = "callback" -> r

(* A device may stamp its records with a number instead of a time.         *)
Odd == Plain @@ <<"timestamp">> :> "number"

SteadyShape == [w \in Writers |-> {Shape(w, Plain)}]
GrowingShape ==
    [w \in Writers |->
        {Shape(w, r) : r \in {Plain, IF Role[w] = "callback" THEN Odd ELSE More}}]
Full == More @@ Nested

(* One device reports more than the table given to it has; the other comes *)
(* to report more while the loops run.                                     *)
NestingShape ==
    [w \in Writers |->
        {Shape(w, r) : r \in IF w[2] = marstek1 THEN {More} ELSE {Plain, Full}}]

Empty == <<>>

(* Tables created for devices that reported less, that of marstek by hand; *)
(* that of the callback is missing.                                        *)
Started ==
    [t \in Tables \ {"sn_mqtt"} |->
        IF t = "marstek" THEN {<<"timestamp">>}
        ELSE {<<"timestamp">>, <<"eco", "timestamp">>, <<"eco", "vendor">>,
              <<"eco", "serial_number">>}]

None == {}
OnlyShape == {"shape"}
Every == {"shape", "connection", "query", "crash"}

ASSUME OwnTables
=============================================================================
