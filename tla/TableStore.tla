------------------------------- MODULE TableStore ------------------------------
(***************************************************************************)
(* Storing device values in the database. The HTTP loop of the ecoflow     *)
(* plugin writes, the callback of its MQTT listener, and the loops of the  *)
(* marstek plugin, of which Register starts one for every marstek device:  *)
(* each of them goes over all marstek devices. A goroutine takes one       *)
(* device after the other, checks that its table exists (CheckTableExists),*)
(* adds the columns a record needs (AddTableColumns) and inserts the       *)
(* record (InsertTable). The list of known tables is one package variable, *)
(* refreshed and read by all of them without a lock.                       *)
(*                                                                         *)
(* A record is a function from the paths of its keys to the kinds of their *)
(* values; a column is named by the parts that the code joins with "_".    *)
(* Types of columns are left out: only that a value has none is told.      *)
(***************************************************************************)
EXTENDS Integers, Sequences, FiniteSets, SequencesExt

CONSTANTS
    Writers,      \* goroutines, each with a device whose records it writes
    Role,         \* what the goroutine of each is
    Table,        \* the table the records are written to
    Present,      \* the tables the database has at first, with their columns
    Shapes,       \* the records the device may report
    Disturbances  \* the kinds of disturbance before the calm

Tables == {Table[w] : w \in Writers}
Roles == {"http", "callback", "marstek"}

(* A writer is a pair of a goroutine and a device.                         *)
Goroutine(w) == w[1]
Device(w) == w[2]

(* The loops of marstek, named after the device each was started for.      *)
MarstekWriters == {w \in Writers : Role[w] = "marstek"}
MarstekDevices == {Device(w) : w \in MarstekWriters}
MarstekLoops == {Goroutine(w) : w \in MarstekWriters}

(* The connection that stores a device's records: one of the HTTP loop,    *)
(* one of the callback (mqttid), and in each marstek loop one per device.  *)
Conn(w) == IF Role[w] = "marstek" THEN w ELSE <<Role[w]>>
Conns == {<<"http">>, <<"callback">>} \cup {Conn(w) : w \in Writers}
Kinds == {"string", "bool", "number", "time", "list", "object", "null"}

ASSUME StoreAssumption ==
    /\ Role \in [Writers -> Roles]
    /\ DOMAIN Table = Writers /\ DOMAIN Shapes = Writers
    /\ DOMAIN Present \subseteq Tables
    /\ \A w \in Writers : \A r \in Shapes[w] : Range(r) \subseteq Kinds
    /\ Disturbances \subseteq {"shape", "connection", "query", "crash"}

(* There is one HTTP loop and one callback; every marstek device has a     *)
(* loop, and each loop goes over all of them. One that has no table in the *)
(* configuration has a loop and no records.                                *)
ASSUME GoroutineAssumption ==
    /\ \A v, w \in Writers :
          /\ Goroutine(v) = Goroutine(w) => Role[v] = Role[w]
          /\ Role[v] = Role[w] /\ Role[v] # "marstek" => Goroutine(v) = Goroutine(w)
          /\ Role[v] = Role[w] /\ Device(v) = Device(w) => Table[v] = Table[w]
    /\ MarstekDevices \subseteq MarstekLoops
    /\ MarstekWriters = MarstekLoops \X MarstekDevices

VARIABLES
    process,  \* "running" or "fatal"
    existing, \* tables in the database
    columns,  \* and their columns
    dbTables, \* the tables known to the program
    conn,     \* the connections
    pc,       \* where the goroutine is with each device
    started,  \* the device has been prepared for the loop
    maps,     \* what flynn.Maps returned
    missing,  \* the columns AddTableColumns found missing
    shape,    \* what each writer is told by its device
    stored,   \* whether its last record was stored
    calm      \* no disturbance happens any more

database == <<existing, columns>>
locals == <<pc, started, maps, missing, stored>>
vars == <<process, database, dbTables, conn, locals, shape, calm>>

-----------------------------------------------------------------------------
(* Fields, values and columns of a record                                  *)

Special == {"timestamp", "vendor", "serial_number"}
Prefix(w) == IF Role[w] = "marstek" THEN "marstek" ELSE "eco"

TopKeys(r) == {p \in DOMAIN r : Len(p) = 1}
Leaves(r) == {p \in DOMAIN r : r[p] # "object"}

(* collectKeys descends into objects, gives a list a value but no field,   *)
(* and drops what it does not know.                                        *)
CollectKeys(prefix, r) ==
    LET named == {p \in Leaves(r) : r[p] \notin {"list", "null"}}
    IN  [names |-> {IF Last(p) \in Special THEN <<Last(p)>> ELSE <<prefix>> \o p
                        : p \in named},
         fields |-> Cardinality(named),
         values |-> Cardinality({p \in Leaves(r) : r[p] # "null"})]

(* It panics when one of the special fields, at any depth, is not of the   *)
(* type it asserts.                                                        *)
Panics(r) ==
    \E p \in DOMAIN r :
        Last(p) \in Special /\ r[p] # IF Last(p) = "timestamp" THEN "time" ELSE "string"

(* The other two take the keys at the top, objects and lists as text, and  *)
(* give what they do not know a field but no value.                        *)
InsertHttpData(r) ==
    [names |-> {IF p[1] \in Special THEN p ELSE <<"eco">> \o p : p \in TopKeys(r)},
     fields |-> Cardinality(TopKeys(r)),
     values |-> Cardinality({p \in TopKeys(r) : r[p] # "null"})]

insertMqttData(r) ==
    [InsertHttpData(r) EXCEPT !.names = {<<"eco">> \o p : p \in TopKeys(r)}]

Row(w) ==
    CASE Role[w] = "http" -> InsertHttpData(shape[w])
      [] Role[w] = "callback" -> insertMqttData(shape[w])
      [] Role[w] = "marstek" -> CollectKeys("marstek", shape[w])

Fits(row, cols) ==
    /\ row.names \subseteq cols
    /\ Cardinality(row.names) = row.fields /\ row.fields = row.values

(* The value of a key, found again by the parts of its name.               *)
EvaluateValue(key, r) ==
    IF key \in DOMAIN r /\ r[key] # "object" THEN r[key] ELSE "null"

(* The columns a new table gets, with the values their types come from:    *)
(* each writer has names of its own for them, which are not those of the   *)
(* fields it inserts.                                                      *)
CallbackColumns(r) == {[name |-> <<"eco">> \o p, value |-> r[p]] : p \in TopKeys(r)}

HttpColumns(r) ==
    CallbackColumns(r)
    \cup {[name |-> p, value |-> r[p]] : p \in TopKeys(r) \cap {<<"timestamp">>}}

(* generateKeys puts the name of the plugin before every key.              *)
MarstekKeys(r) == {<<"marstek">> \o p : p \in Leaves(r)}

MarstekColumns(r) ==
    {[name |-> <<"marstek">> \o k, value |-> EvaluateValue(k, r)] : k \in MarstekKeys(r)}

NewColumns(w, r) ==
    CASE Role[w] = "http" -> HttpColumns(r)
      [] Role[w] = "callback" -> CallbackColumns(r)
      [] Role[w] = "marstek" -> MarstekColumns(r)

(* CreateValueColumn returns nil for a value of no known type.             *)
Typed(cols) == \A c \in cols : c.value # "null"

-----------------------------------------------------------------------------
(* Initial state                                                           *)

(* mqttid is set by InitMqtt, the others before anything is written.       *)
FirstConns == [k \in Conns |-> IF k = <<"callback">> THEN "unset" ELSE "open"]

Init ==
    /\ process = "running"
    /\ existing = DOMAIN Present
    /\ columns = [t \in Tables |-> IF t \in DOMAIN Present THEN Present[t] ELSE {}]
    /\ dbTables = existing
    /\ conn = FirstConns
    /\ pc = [w \in Writers |-> "idle"]
    /\ started = [w \in Writers |-> FALSE]
    /\ maps = [w \in Writers |-> {}] /\ missing = [w \in Writers |-> {}]
    /\ shape \in {s \in [Writers -> UNION {Shapes[w] : w \in Writers}] :
                      \A w \in Writers : s[w] \in Shapes[w]}
    /\ stored = [w \in Writers |-> FALSE] /\ calm = FALSE

-----------------------------------------------------------------------------
(* One record                                                              *)

Step(w, from, to) ==
    /\ process = "running" /\ pc[w] = from /\ pc' = [pc EXCEPT ![w] = to]
    /\ UNCHANGED <<shape, calm>>

InitMqtt ==
    /\ process = "running" /\ conn[<<"callback">>] = "unset"
    /\ conn' = [conn EXCEPT ![<<"callback">>] = "open"]
    /\ UNCHANGED <<process, database, dbTables, locals, shape, calm>>

(* A goroutine takes one device after the other, and enters its loop after *)
(* it has prepared all of them.                                            *)
Turn(w) ==
    \A v \in Writers : Goroutine(v) = Goroutine(w) =>
        /\ pc[v] \in {"idle", "left out"}
        /\ started[w] /\ Role[w] # "callback" => started[v]

(* The callback checks the table at each message, the loops at their start.*)
Checks(w) == Role[w] = "callback" \/ ~started[w]

TakeRecord(w) ==
    /\ conn[Conn(w)] # "unset" /\ Turn(w)
    /\ Step(w, "idle", IF Checks(w) THEN "maps" ELSE "columns")
    /\ UNCHANGED <<process, database, dbTables, conn, started, maps, missing, stored>>

(* readDatabaseMaps: the call, then the assignment.                        *)
ReadMaps(w, from, to) ==
    /\ Step(w, from, to)
    /\ maps' = [maps EXCEPT ![w] = existing]
    /\ UNCHANGED <<process, database, dbTables, conn, started, missing, stored>>

AssignMaps(w, from, to) ==
    /\ Step(w, from, to)
    /\ dbTables' = maps[w] /\ maps' = [maps EXCEPT ![w] = {}]
    /\ UNCHANGED <<process, database, conn, missing, stored>>

(* Mutant: any table counts as known.                                      *)
Known_Always(w) == TRUE

Known(w) == Table[w] \in dbTables

CheckTable(w) ==
    /\ Step(w, "check", IF Known(w) THEN "columns" ELSE "create")
    /\ UNCHANGED <<process, database, dbTables, conn, started, maps, missing, stored>>

(* Mutant: the new table is not committed.                                 *)
CreateTable_Uncommitted(w) ==
    /\ Step(w, "create", "remap")
    /\ columns' = [columns EXCEPT ![Table[w]] =
                       {c.name : c \in NewColumns(w, shape[w])}]
    /\ UNCHANGED <<process, existing, dbTables, conn, started, maps, missing, stored>>

(* The error of a table that exists, of a nil column or of a closed        *)
(* connection ends the program.                                            *)
CreateTable(w) ==
    LET cols == NewColumns(w, shape[w])
    IN  /\ Step(w, "create", "remap")
        /\ IF Table[w] \in existing \/ ~Typed(cols) \/ conn[Conn(w)] # "open"
           THEN process' = "fatal" /\ UNCHANGED database
           ELSE /\ existing' = existing \cup {Table[w]}
                /\ columns' = [columns EXCEPT ![Table[w]] = {c.name : c \in cols}]
                /\ UNCHANGED process
        /\ UNCHANGED <<dbTables, conn, started, maps, missing, stored>>

(* After the check a loop has started; the callback goes on to insert.     *)
AfterCheck(w) == IF Role[w] = "callback" THEN "insert" ELSE "idle"

EndCreate(w) ==
    /\ AssignMaps(w, "reassign", AfterCheck(w))
    /\ started' = [started EXCEPT ![w] = TRUE]

(* AddTableColumns; the HTTP loop starts with the callback's connection.   *)
Reachable(w) ==
    IF Role[w] = "http" /\ ~started[w]
    THEN conn[<<"callback">>] = "open"
    ELSE conn[Conn(w)] = "open"

(* Mutant: the columns are not looked at in the loop.                      *)
ReadColumns_OnlyAtStart(w) ==
    /\ Step(w, "columns", "adapt")
    /\ missing' = [missing EXCEPT ![w] =
           IF started[w] THEN {}
           ELSE CollectKeys(Prefix(w), shape[w]).names \ columns[Table[w]]]
    /\ UNCHANGED <<process, database, dbTables, conn, started, maps, stored>>

(* An error ends it; else the keys are collected, which may panic.         *)
ReadColumns(w) ==
    LET answered == Reachable(w) /\ Table[w] \in existing
    IN  /\ Step(w, "columns", "adapt")
        /\ process' = IF answered /\ Panics(shape[w]) THEN "fatal" ELSE process
        /\ missing' = [missing EXCEPT ![w] =
               IF answered THEN CollectKeys(Prefix(w), shape[w]).names \ columns[Table[w]]
                           ELSE {}]
        /\ UNCHANGED <<database, dbTables, conn, started, maps, stored>>

AddedThenInserts(w) == started[w] \/ Role[w] = "callback"

(* An error, such as that of a closed connection or of a column that is    *)
(* there already, is only logged and adds nothing. The columns wanted are  *)
(* remembered until the record is inserted.                                *)
AdaptTable(w) ==
    /\ Step(w, "adapt", IF AddedThenInserts(w) THEN "insert" ELSE "idle")
    /\ columns' = IF Reachable(w) /\ missing[w] \cap columns[Table[w]] = {}
                  THEN [columns EXCEPT ![Table[w]] = @ \cup missing[w]] ELSE columns
    /\ missing' = IF AddedThenInserts(w) THEN missing ELSE [missing EXCEPT ![w] = {}]
    /\ started' = [started EXCEPT ![w] = TRUE]
    /\ UNCHANGED <<process, existing, dbTables, conn, maps, stored>>

(* A marstek loop collects the keys once more, also when AddTableColumns   *)
(* did not get that far.                                                   *)
InsertPanics(w) == Role[w] = "marstek" /\ Panics(shape[w])

Stored(w) ==
    /\ conn[Conn(w)] = "open" /\ Table[w] \in existing /\ ~InsertPanics(w)
    /\ Fits(Row(w), columns[Table[w]])

(* Mutant: a closed connection is not opened again.                        *)
Insert_NoReconnect(w) ==
    /\ Step(w, "insert", "idle")
    /\ stored' = [stored EXCEPT ![w] = Stored(w)]
    /\ missing' = [missing EXCEPT ![w] = {}]
    /\ UNCHANGED <<process, database, dbTables, conn, started, maps>>

(* A record that cannot be inserted is lost; a closed connection is opened *)
(* again, but a marstek loop puts the new one where nobody finds it: in    *)
(* the copy its range clause made of the client.                           *)
Insert(w) ==
    /\ Step(w, "insert", "idle")
    /\ process' = IF InsertPanics(w) THEN "fatal" ELSE process
    /\ stored' = [stored EXCEPT ![w] = Stored(w)]
    /\ conn' = IF Role[w] = "marstek" THEN conn
               ELSE [conn EXCEPT ![Conn(w)] = "open"]
    /\ missing' = [missing EXCEPT ![w] = {}]
    /\ UNCHANGED <<database, dbTables, started, maps>>

Write(w) ==
    \/ TakeRecord(w)
    \/ ReadMaps(w, "maps", "assign")
    \/ AssignMaps(w, "assign", "check") /\ UNCHANGED started
    \/ CheckTable(w) \/ CreateTable(w)
    \/ ReadMaps(w, "remap", "reassign") \/ EndCreate(w)
    \/ ReadColumns(w) \/ AdaptTable(w) \/ Insert(w)

-----------------------------------------------------------------------------
(* The environment                                                         *)

Disturbed(kind) == ~calm /\ kind \in Disturbances

(* Another record is told; two loops that read one device may for a while  *)
(* be told different ones.                                                 *)
NewShape(w, r) ==
    /\ Disturbed("shape") /\ pc[w] = "idle" /\ shape' = [shape EXCEPT ![w] = r]
    /\ UNCHANGED <<process, database, dbTables, conn, locals, calm>>

ConnectionBreaks(k) ==
    /\ Disturbed("connection") /\ conn[k] = "open"
    /\ conn' = [conn EXCEPT ![k] = "closed"]
    /\ UNCHANGED <<process, database, dbTables, locals, shape, calm>>

(* The device does not answer. At the start the HTTP loop skips the check  *)
(* and a marstek loop leaves the device out for good.                      *)
QueryFails(w) ==
    /\ Disturbed("query") /\ Role[w] # "callback" /\ Turn(w)
    /\ Step(w, "idle", IF Role[w] = "marstek" /\ ~started[w] THEN "left out" ELSE "idle")
    /\ started' = [started EXCEPT ![w] = TRUE]
    /\ UNCHANGED <<process, database, dbTables, conn, maps, missing, stored>>

Crash ==
    /\ Disturbed("crash") /\ process = "running" /\ process' = "fatal"
    /\ UNCHANGED <<database, dbTables, conn, locals, shape, calm>>

(* A supervisor starts the program again; the database stays.              *)
Restart ==
    /\ process = "fatal" /\ process' = "running"
    /\ dbTables' = existing
    /\ conn' = FirstConns
    /\ pc' = [w \in Writers |-> "idle"] /\ started' = [w \in Writers |-> FALSE]
    /\ maps' = [w \in Writers |-> {}] /\ missing' = [w \in Writers |-> {}]
    /\ UNCHANGED <<database, shape, stored, calm>>

CalmDown ==
    /\ ~calm /\ calm' = TRUE
    /\ UNCHANGED <<process, database, dbTables, conn, locals, shape>>

Next ==
    \/ \E w \in Writers : Write(w) \/ QueryFails(w)
    \/ InitMqtt \/ \E k \in Conns : ConnectionBreaks(k)
    \/ \E w \in Writers : \E r \in Shapes[w] : NewShape(w, r)
    \/ Crash \/ Restart \/ CalmDown

(* Devices keep reporting and their goroutine takes each in its turn (a    *)
(* strong fairness, since taking one keeps the others from their turn);    *)
(* the goroutines run, and disturbances end.                               *)
Spec ==
    /\ Init /\ [][Next]_vars
    /\ \A w \in Writers : SF_vars(TakeRecord(w)) /\ WF_vars(Write(w))
    /\ WF_vars(InitMqtt) /\ WF_vars(Restart) /\ WF_vars(CalmDown)

-----------------------------------------------------------------------------
(* Properties                                                              *)

Places == {"idle", "maps", "assign", "check", "create", "remap", "reassign",
           "columns", "adapt", "insert", "left out"}

(* Every variable has its type.                                            *)
TypeOK ==
    /\ process \in {"running", "fatal"}
    /\ existing \subseteq Tables /\ dbTables \subseteq Tables
    /\ DOMAIN columns = Tables /\ \A t \in Tables : t \notin existing => columns[t] = {}
    /\ conn \in [Conns -> {"unset", "open", "closed"}]
    /\ pc \in [Writers -> Places] /\ started \in [Writers -> BOOLEAN]
    /\ maps \in [Writers -> SUBSET Tables] /\ DOMAIN missing = Writers
    /\ \A w \in Writers : shape[w] \in Shapes[w]
    /\ stored \in [Writers -> BOOLEAN] /\ calm \in BOOLEAN

(* A goroutine that has checked its table finds it, whatever the others do *)
(* to the list meanwhile: the list may be set back and miss a table, but   *)
(* it never names one that does not exist, so that no record is written to *)
(* a table taken for known. (database.go:137-148)                          *)
CheckedTableExists ==
    /\ dbTables \subseteq existing
    /\ \A w \in Writers :
          Checks(w) /\ pc[w] \in {"columns", "adapt", "insert"} => Table[w] \in existing

(* Every table a writer needs comes to exist.                              *)
(* (database.go:132, "check table and if not available, create table")     *)
(* It does not hold for marstek, whose new columns are computed from names *)
(* under which no value is found.                                          *)
TablesCome == <>(Tables \subseteq existing)

(* Once the disturbances end, every writer stores its records again: a new *)
(* key gets its column (database.go:224), a column that another loop adds  *)
(* first is found at the next record, a closed connection is opened again, *)
(* and the columns of a table cover the names of the inserted fields       *)
(* although three functions compute them. It does not hold                 *)
(*   - for a new key with a list or an object, which AddTableColumns does  *)
(*     not give the column InsertHttpData writes;                          *)
(*   - for a marstek device that does not answer at the start;             *)
(*   - for a marstek device whose connection breaks;                       *)
(*   - as long as a device reports a record collectKeys panics on, for     *)
(*     which the process ends each time.                                   *)
StoresAgain ==
    \A w \in Writers :
        <>[](calm /\ (stored[w] \/ \E v \in Writers : Panics(shape[v])))

(* The columns there are, and those AddTableColumns adds, have a place for *)
(* all a device reports.                                                   *)
Storable(w) ==
    /\ ~InsertPanics(w)
    /\ Fits(Row(w), columns[Table[w]] \cup CollectKeys(Prefix(w), shape[w]).names)

(* Of the columns it found missing another goroutine has added some and    *)
(* not all, so that it added none.                                         *)
Raced(w) == missing[w] \cap columns[Table[w]] \notin {{}, missing[w]}

(* The plugins and the callback write to tables of their own; the loops of *)
(* marstek share theirs.                                                   *)
OwnTables == \A v, w \in Writers : Table[v] = Table[w] => Role[v] = Role[w]

(* No loss without a cause: a record whose writer has an open connection   *)
(* and a table that has or can get a column for every field is stored,     *)
(* though new keys, the other goroutines, the list of tables they set      *)
(* back, broken connections and the end of the program come in between.    *)
(* The one cause that is left is another loop of marstek with another      *)
(* record for the same table, which adds a part of the columns between the *)
(* look at the columns and their addition.                                 *)
(* (database.go:132-250, http.go:120-220, marstek.go:120-143)              *)
LostOnlyToRace ==
    \A w \in Writers :
        pc[w] = "insert" /\ conn[Conn(w)] = "open" /\ Table[w] \in existing /\ Storable(w)
            => Stored(w) \/ Raced(w)

(* What the comment of CheckTableExists says (database.go:132): that a     *)
(* table is not available is no reason to end. It holds for one goroutine, *)
(* whatever devices it goes over, and not for two: the list of known       *)
(* tables may be set back by another goroutine between refresh and check,  *)
(* or the other creates the table first.                                   *)
NeverFatal == process = "running"
=============================================================================
