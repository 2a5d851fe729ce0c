---------------------------- MODULE TableStore_proofs ----------------------------
(***************************************************************************)
(* Proofs about TableStore, for any number of devices, tables and kinds of *)
(* records: a stale list of tables never leads to a table that is missing, *)
(* no record is lost without a cause but the race of two marstek loops,    *)
(* and a single goroutine is never ended by the check of its tables.       *)
(***************************************************************************)
EXTENDS TableStore, TLAPS

-----------------------------------------------------------------------------
(* The inductive invariant                                                 *)

(* A list of tables, once read, stays right: no table is dropped.          *)
ListsAreRight ==
    /\ dbTables \subseteq existing
    /\ \A w \in Writers : maps[w] \subseteq existing

(* Columns are missed only in a table that exists.                         *)
MissedInTable == \A w \in Writers : missing[w] # {} => Table[w] \in existing

(* The table a goroutine has created or found.                             *)
Past == {"columns", "adapt", "insert"}
Created == {"remap", "reassign"}
TableFound ==
    \A w \in Writers :
        /\ Checks(w) /\ pc[w] \in Past => Table[w] \in existing
        /\ process = "running" /\ pc[w] \in Created => Table[w] \in existing

StoreInvariant == TypeOK /\ ListsAreRight /\ MissedInTable /\ TableFound

-----------------------------------------------------------------------------
(* Types                                                                   *)

(* The parts of TypeOK.                                                    *)
DatabaseTypes ==
    /\ existing \subseteq Tables /\ dbTables \subseteq Tables
    /\ DOMAIN columns = Tables /\ \A t \in Tables : t \notin existing => columns[t] = {}
ConnTypes == conn \in [Conns -> {"unset", "open", "closed"}]
WriterTypes ==
    /\ process \in {"running", "fatal"}
    /\ pc \in [Writers -> Places]
    /\ maps \in [Writers -> SUBSET Tables] /\ DOMAIN missing = Writers
    /\ stored \in [Writers -> BOOLEAN]
ShapeTypes == \A w \in Writers : shape[w] \in Shapes[w]
StartedTypes == started \in [Writers -> BOOLEAN]
CalmTypes == calm \in BOOLEAN

LEMMA TypeParts ==
    TypeOK <=> /\ DatabaseTypes /\ ConnTypes /\ WriterTypes
               /\ ShapeTypes /\ StartedTypes /\ CalmTypes
  BY Zenon
  DEF TypeOK, DatabaseTypes, ConnTypes, WriterTypes, ShapeTypes, StartedTypes, CalmTypes

LEMMA TypePartsNext ==
    TypeOK' <=> /\ DatabaseTypes' /\ ConnTypes' /\ WriterTypes'
                /\ ShapeTypes' /\ StartedTypes' /\ CalmTypes'
  BY TypeParts, PTL

LEMMA TableTypes == \A w \in Writers : Table[w] \in Tables
  BY DEF Tables

LEMMA ConnsUsed ==
    /\ \A w \in Writers : Conn(w) \in Conns
    /\ <<"callback">> \in Conns
  BY DEF Conns

LEMMA FirstConnsTypes == FirstConns \in [Conns -> {"unset", "open", "closed"}]
  BY DEF FirstConns

LEMMA InitInvariant == Init => StoreInvariant
  <1> SUFFICES ASSUME Init PROVE StoreInvariant
    OBVIOUS
  <1>1. DatabaseTypes
    BY StoreAssumption DEF Init, DatabaseTypes
  <1>2. ConnTypes
    BY FirstConnsTypes DEF Init, ConnTypes
  <1>3. WriterTypes
    BY DEF Init, WriterTypes, Places
  <1>4. ShapeTypes
    BY DEF Init, ShapeTypes
  <1>5. StartedTypes
    BY DEF Init, StartedTypes
  <1>6. CalmTypes
    BY Zenon DEF Init, CalmTypes
  <1>7. ListsAreRight /\ MissedInTable /\ TableFound
    BY DEF Init, ListsAreRight, MissedInTable, TableFound, Past, Created
  <1> QED
    BY <1>1, <1>2, <1>3, <1>4, <1>5, <1>6, <1>7, TypeParts DEF StoreInvariant

-----------------------------------------------------------------------------
(* One record                                                              *)

LEMMA WriteKeepsTypes ==
    ASSUME StoreInvariant, NEW w \in Writers, Write(w)
    PROVE  TypeOK'
  <1> USE TypeParts DEF StoreInvariant
  <1>1. UNCHANGED <<shape, calm>>
    BY DEF Write, TakeRecord, ReadMaps, AssignMaps, CheckTable, CreateTable, EndCreate,
           ReadColumns, AdaptTable, Insert, Step
  <1>2. ShapeTypes' /\ CalmTypes'
    <2>1. ShapeTypes'
      BY <1>1 DEF ShapeTypes
    <2>2. CalmTypes'
      BY <1>1, Zenon DEF CalmTypes
    <2> QED
      BY <2>1, <2>2
  <1>3. WriterTypes'
    <2> USE DEF WriterTypes, Step
    <2>1. CASE TakeRecord(w) \/ CheckTable(w)
      BY <2>1 DEF TakeRecord, CheckTable, Places
    <2>2. CASE ReadMaps(w, "maps", "assign") \/ ReadMaps(w, "remap", "reassign")
      BY <2>2 DEF ReadMaps, Places, DatabaseTypes
    <2>3. CASE AssignMaps(w, "assign", "check") \/ EndCreate(w)
      BY <2>3 DEF EndCreate, AssignMaps, AfterCheck, Places
    <2>4. CASE CreateTable(w)
      BY <2>4 DEF CreateTable, Places
    <2>5. CASE ReadColumns(w) \/ AdaptTable(w)
      BY <2>5 DEF ReadColumns, AdaptTable, Places
    <2>6. CASE Insert(w)
      <3>1. Stored(w) \in BOOLEAN
        BY Zenon DEF Stored
      <3> QED
        BY <2>6, <3>1 DEF Insert, Places
    <2> QED
      BY <2>1, <2>2, <2>3, <2>4, <2>5, <2>6 DEF Write
  <1>4. StartedTypes'
    BY DEF StartedTypes, Write, TakeRecord, ReadMaps, AssignMaps, CheckTable, CreateTable,
           EndCreate, ReadColumns, AdaptTable, Insert
  <1>5. ConnTypes'
    BY ConnsUsed
    DEF ConnTypes, Write, TakeRecord, ReadMaps, AssignMaps, CheckTable, CreateTable,
        EndCreate, ReadColumns, AdaptTable, Insert
  <1>6. DatabaseTypes'
    <2> USE TableTypes DEF DatabaseTypes
    <2>1. CASE UNCHANGED <<existing, columns, dbTables>>
      BY <2>1
    <2>2. CASE AssignMaps(w, "assign", "check") \/ EndCreate(w)
      BY <2>2 DEF AssignMaps, EndCreate, database, WriterTypes
    <2>3. CASE CreateTable(w)
      BY <2>3 DEF CreateTable, database
    <2>4. CASE AdaptTable(w)
      BY <2>4 DEF AdaptTable, MissedInTable
    <2> QED
      BY <2>1, <2>2, <2>3, <2>4
      DEF Write, TakeRecord, ReadMaps, CheckTable, ReadColumns, Insert, database
  <1> QED
    BY <1>2, <1>3, <1>4, <1>5, <1>6, TypePartsNext

(* No table is dropped.                                                    *)
LEMMA TablesStay ==
    ASSUME NEW w \in Writers, Write(w)
    PROVE  existing \subseteq existing'
  BY DEF Write, TakeRecord, ReadMaps, AssignMaps, CheckTable, CreateTable, EndCreate,
         ReadColumns, AdaptTable, Insert, database

LEMMA WriteKeepsLists ==
    ASSUME StoreInvariant, NEW w \in Writers, Write(w)
    PROVE  ListsAreRight'
  <1> USE TablesStay, TypeParts DEF StoreInvariant, ListsAreRight, WriterTypes
  <1>1. CASE UNCHANGED <<dbTables, maps>>
    BY <1>1
  <1>2. CASE ReadMaps(w, "maps", "assign") \/ ReadMaps(w, "remap", "reassign")
    BY <1>2 DEF ReadMaps, database
  <1>3. CASE AssignMaps(w, "assign", "check") \/ EndCreate(w)
    BY <1>3 DEF AssignMaps, EndCreate, database
  <1> QED
    BY <1>1, <1>2, <1>3
    DEF Write, TakeRecord, CheckTable, CreateTable, ReadColumns, AdaptTable, Insert

LEMMA WriteKeepsMissed ==
    ASSUME StoreInvariant, NEW w \in Writers, Write(w)
    PROVE  MissedInTable'
  <1> USE TablesStay, TypeParts DEF StoreInvariant, MissedInTable, WriterTypes
  <1>1. CASE UNCHANGED missing
    BY <1>1
  <1>2. CASE ReadColumns(w)
    BY <1>2 DEF ReadColumns, database
  <1>3. CASE AdaptTable(w) \/ Insert(w)
    BY <1>3 DEF AdaptTable, Insert, database
  <1> QED
    BY <1>1, <1>2, <1>3
    DEF Write, TakeRecord, ReadMaps, AssignMaps, CheckTable, CreateTable, EndCreate

(* A table is found by its name on the list, or because it was created.    *)
LEMMA WriteKeepsFound ==
    ASSUME StoreInvariant, NEW w \in Writers, Write(w)
    PROVE  TableFound'
  <1> USE TablesStay, TypeParts DEF StoreInvariant, WriterTypes
  <1>1. /\ process = "running" /\ pc' = [pc EXCEPT ![w] = pc'[w]]
        /\ \A v \in Writers \ {w} : pc'[v] = pc[v] /\ started'[v] = started[v]
    BY DEF Write, TakeRecord, ReadMaps, AssignMaps, CheckTable, CreateTable, EndCreate,
           ReadColumns, AdaptTable, Insert, Step, StartedTypes
  <1>2. \A v \in Writers \ {w} :
           /\ Checks(v)' /\ pc'[v] \in Past => Table[v] \in existing'
           /\ process' = "running" /\ pc'[v] \in Created => Table[v] \in existing'
    BY <1>1 DEF TableFound, Checks
  <1>3. /\ Checks(w)' /\ pc'[w] \in Past => Table[w] \in existing'
        /\ process' = "running" /\ pc'[w] \in Created => Table[w] \in existing'
    <2> USE DEF Step, Past, Created, TableFound, Checks
    <2>1. CASE TakeRecord(w)
      BY <2>1 DEF TakeRecord
    <2>2. CASE ReadMaps(w, "maps", "assign") \/ ReadMaps(w, "remap", "reassign")
      BY <2>2 DEF ReadMaps, database
    <2>3. CASE AssignMaps(w, "assign", "check")
      BY <2>3 DEF AssignMaps
    <2>4. CASE CheckTable(w)
      BY <2>4 DEF CheckTable, Known, ListsAreRight
    <2>5. CASE CreateTable(w)
      BY <2>5 DEF CreateTable, database
    <2>6. CASE EndCreate(w)
      BY <2>6 DEF EndCreate, AssignMaps, AfterCheck, database
    <2>7. CASE ReadColumns(w)
      BY <2>7 DEF ReadColumns, database
    <2>8. CASE AdaptTable(w)
      BY <2>8 DEF AdaptTable, StartedTypes
    <2>9. CASE Insert(w)
      BY <2>9 DEF Insert
    <2> QED
      BY <2>1, <2>2, <2>3, <2>4, <2>5, <2>6, <2>7, <2>8, <2>9 DEF Write
  <1> QED
    BY <1>2, <1>3 DEF TableFound

-----------------------------------------------------------------------------
(* The environment                                                         *)

(* A step that moves no goroutine further.                                 *)
Surroundings ==
    \/ \E w \in Writers : QueryFails(w)
    \/ InitMqtt \/ \E k \in Conns : ConnectionBreaks(k)
    \/ \E w \in Writers : \E r \in Shapes[w] : NewShape(w, r)
    \/ Crash \/ Restart \/ CalmDown
    \/ UNCHANGED vars

LEMMA SurroundingsKeepTypes ==
    ASSUME StoreInvariant, Surroundings
    PROVE  TypeOK'
  <1> USE TypeParts DEF StoreInvariant
  <1>1. DatabaseTypes'
    BY DEF Surroundings, QueryFails, InitMqtt, ConnectionBreaks, NewShape, Crash, Restart,
           CalmDown, database, vars, DatabaseTypes
  <1>2. ConnTypes'
    BY ConnsUsed, FirstConnsTypes
    DEF Surroundings, QueryFails, InitMqtt, ConnectionBreaks, NewShape, Crash, Restart,
        CalmDown, vars, ConnTypes
  <1>3. WriterTypes'
    BY DEF Surroundings, QueryFails, InitMqtt, ConnectionBreaks, NewShape, Crash, Restart,
           CalmDown, locals, vars, WriterTypes, Step, Places
  <1>4. ShapeTypes'
    <2>1. CASE UNCHANGED shape
      BY <2>1 DEF ShapeTypes
    <2>2. CASE \E w \in Writers : \E r \in Shapes[w] : NewShape(w, r)
      BY <2>2 DEF ShapeTypes, NewShape
    <2> QED
      BY <2>1, <2>2
      DEF Surroundings, QueryFails, InitMqtt, ConnectionBreaks, Crash, Restart, CalmDown,
          vars, Step
  <1>5. StartedTypes'
    BY DEF Surroundings, QueryFails, InitMqtt, ConnectionBreaks, NewShape, Crash, Restart,
           CalmDown, locals, vars, StartedTypes
  <1>6. CalmTypes'
    <2>1. UNCHANGED calm \/ calm' = TRUE
      BY DEF Surroundings, QueryFails, InitMqtt, ConnectionBreaks, NewShape, Crash, Restart,
             CalmDown, vars, Step
    <2> QED
      BY <2>1, Zenon DEF CalmTypes
  <1> QED
    BY <1>1, <1>2, <1>3, <1>4, <1>5, <1>6, TypePartsNext

LEMMA SurroundingsKeepTables ==
    ASSUME StoreInvariant, Surroundings
    PROVE  ListsAreRight' /\ MissedInTable' /\ TableFound'
  <1> USE TypeParts DEF StoreInvariant, ListsAreRight, MissedInTable, TableFound, Checks
  <1>1. CASE \E w \in Writers : QueryFails(w)
    BY <1>1 DEF QueryFails, Step, database, WriterTypes, StartedTypes, Past, Created
  <1>2. CASE Restart
    BY <1>2 DEF Restart, database, Past, Created
  <1>3. CASE Crash
    BY <1>3 DEF Crash, database, locals
  <1>4. CASE InitMqtt \/ CalmDown \/ UNCHANGED vars
    BY <1>4 DEF InitMqtt, CalmDown, database, locals, vars
  <1>5. CASE \E k \in Conns : ConnectionBreaks(k)
    BY <1>5 DEF ConnectionBreaks, database, locals
  <1>6. CASE \E w \in Writers : \E r \in Shapes[w] : NewShape(w, r)
    BY <1>6 DEF NewShape, database, locals
  <1> QED
    BY <1>1, <1>2, <1>3, <1>4, <1>5, <1>6 DEF Surroundings

LEMMA InvariantHolds == Spec => []StoreInvariant
  <1>1. StoreInvariant /\ [Next]_vars => StoreInvariant'
    <2> SUFFICES ASSUME StoreInvariant, [Next]_vars PROVE StoreInvariant'
      OBVIOUS
    <2>1. CASE \E w \in Writers : Write(w)
      BY <2>1, WriteKeepsTypes, WriteKeepsLists, WriteKeepsMissed, WriteKeepsFound
      DEF StoreInvariant
    <2>2. CASE Surroundings
      BY <2>2, SurroundingsKeepTypes, SurroundingsKeepTables DEF StoreInvariant
    <2> QED
      BY <2>1, <2>2 DEF Next, Surroundings
  <1> QED
    BY <1>1, InitInvariant, PTL DEF Spec

-----------------------------------------------------------------------------
(* Theorems                                                                *)

(* Every variable of the store keeps its type, and a table that does not   *)
(* exist has no columns. (database.go:132-250)                             *)
THEOREM TypeCorrect == Spec => []TypeOK
  <1>1. StoreInvariant => TypeOK
    BY DEF StoreInvariant
  <1> QED
    BY <1>1, InvariantHolds, PTL

(* A goroutine that has checked its table finds it, whatever the others do *)
(* to the shared list meanwhile. (database.go:137-148)                     *)
THEOREM CheckedTablesExist == Spec => []CheckedTableExists
  <1>1. StoreInvariant => CheckedTableExists
    BY DEF StoreInvariant, ListsAreRight, TableFound, CheckedTableExists, Past
  <1> QED
    BY <1>1, InvariantHolds, PTL
-----------------------------------------------------------------------------
(* Losses                                                                  *)

(* A goroutine is busy with one of its devices at a time.                  *)
Waiting == {"idle", "left out"}
OneBusy ==
    \A v, w \in Writers :
        v # w /\ Goroutine(v) = Goroutine(w) => pc[v] \in Waiting \/ pc[w] \in Waiting

Wanted(w) == CollectKeys(Prefix(w), shape[w]).names
Usable(w) == conn[Conn(w)] = "open" /\ Table[w] \in existing

(* A marstek loop has found its table when it starts; the callback creates *)
(* one with a column for every field of the record it goes on to insert;   *)
(* and between the look at the columns and the insert, as long as the      *)
(* connection holds, each column wanted is there or among the missing,     *)
(* which have all been added unless some were there before.                *)
Prepared(w) ==
    /\ pc[w] \notin Waiting => conn[Conn(w)] # "unset"
    /\ Role[w] = "marstek" /\ started[w] /\ pc[w] # "left out" => Table[w] \in existing
    /\ process = "running" /\ Role[w] = "callback" /\ pc[w] \in Created =>
          Row(w).names \subseteq columns[Table[w]]
    /\ pc[w] = "adapt" /\ AddedThenInserts(w) /\ Usable(w) =>
          Wanted(w) \subseteq columns[Table[w]] \cup missing[w]
    /\ pc[w] = "insert" /\ Usable(w) =>
          \/ Row(w).names \subseteq columns[Table[w]]
          \/ /\ Wanted(w) \subseteq columns[Table[w]] \cup missing[w]
             /\ missing[w] \subseteq columns[Table[w]] \/ missing[w] \cap columns[Table[w]] # {}

LEMMA OneBusyInit == Init => OneBusy
  BY DEF Init, OneBusy, Waiting

LEMMA OneBusyNext ==
    ASSUME StoreInvariant, OneBusy, [Next]_vars
    PROVE  OneBusy'
  <1> USE TypeParts DEF StoreInvariant, WriterTypes
  <1>1. CASE UNCHANGED pc
    BY <1>1 DEF OneBusy
  <1>2. CASE Restart
    BY <1>2 DEF Restart, OneBusy, Waiting
  <1>3. ASSUME NEW w \in Writers, Write(w) \/ QueryFails(w)
        PROVE  OneBusy'
    <2>1. \A v \in Writers \ {w} : pc'[v] = pc[v]
      BY <1>3 DEF Write, TakeRecord, ReadMaps, AssignMaps, CheckTable, CreateTable, EndCreate,
          ReadColumns, AdaptTable, Insert, QueryFails, Step
    <2>2. pc[w] \in Waiting =>
              \A v \in Writers : Goroutine(v) = Goroutine(w) => pc[v] \in Waiting
      BY <1>3 DEF Write, TakeRecord, ReadMaps, AssignMaps, CheckTable, CreateTable, EndCreate,
          ReadColumns, AdaptTable, Insert, QueryFails, Step, Turn, Waiting
    <2> QED
      BY <2>1, <2>2 DEF OneBusy
  <1> QED
    BY <1>1, <1>2, <1>3
    DEF Next, InitMqtt, ConnectionBreaks, NewShape, Crash, CalmDown, locals, vars

(* Only the HTTP loop, or the callback, uses its connection.               *)
LEMMA ConnsOwned ==
    ASSUME NEW v \in Writers, NEW w \in Writers, Conn(v) = Conn(w), Role[v] # "marstek"
    PROVE  Goroutine(v) = Goroutine(w) /\ Role[w] = Role[v]
  <1>1. Role[w] # "marstek"
    <2> SUFFICES ASSUME Role[w] = "marstek" PROVE FALSE
      OBVIOUS
    <2>1. w \in MarstekLoops \X MarstekDevices
      BY GoroutineAssumption DEF MarstekWriters
    <2>2. PICK loop, device : w = <<loop, device>>
      BY <2>1
    <2>3. <<Role[v]>> = <<loop, device>>
      BY <2>2 DEF Conn
    <2>4. Len(<<Role[v]>>) = 1 /\ Len(<<loop, device>>) = 2
      OBVIOUS
    <2> QED
      BY <2>3, <2>4
  <1>2. Role[v] = Role[w]
    BY <1>1 DEF Conn
  <1> QED
    BY <1>1, <1>2, GoroutineAssumption

(* No table is dropped, and no column of a table that exists.              *)
LEMMA ColumnsStay ==
    ASSUME StoreInvariant, NEW w \in Writers, Table[w] \in existing, [Next]_vars
    PROVE  Table[w] \in existing' /\ columns[Table[w]] \subseteq columns'[Table[w]]
  <1> USE TypeParts, TableTypes DEF StoreInvariant, WriterTypes, DatabaseTypes
  <1>1. CASE UNCHANGED database
    BY <1>1 DEF database
  <1>2. ASSUME NEW v \in Writers, CreateTable(v)
        PROVE  Table[w] \in existing' /\ UNCHANGED columns[Table[w]]
    BY <1>2 DEF CreateTable, database
  <1>3. ASSUME NEW v \in Writers, AdaptTable(v)
        PROVE  Table[w] \in existing' /\ columns[Table[w]] \subseteq columns'[Table[w]]
    BY <1>3 DEF AdaptTable
  <1> QED
    BY <1>1, <1>2, <1>3
    DEF Next, Write, TakeRecord, ReadMaps, AssignMaps, CheckTable, EndCreate, ReadColumns, Insert,
        QueryFails, InitMqtt, ConnectionBreaks, NewShape, Crash, Restart, CalmDown, vars

LEMMA PreparedInit ==
    ASSUME Init, NEW w \in Writers
    PROVE  Prepared(w)
  BY DEF Init, Prepared, Waiting, Created

(* The writer's own steps.                                                 *)
LEMMA OwnStepPrepared ==
    ASSUME StoreInvariant, NEW w \in Writers, Prepared(w), Write(w)
    PROVE  Prepared(w)'
  <1> USE TypeParts DEF StoreInvariant, WriterTypes
  <1>1. /\ UNCHANGED <<shape, calm>> /\ process = "running"
        /\ UNCHANGED <<Wanted(w), Row(w)>>
    BY DEF Write, TakeRecord, ReadMaps, AssignMaps, CheckTable, CreateTable, EndCreate,
        ReadColumns, AdaptTable, Insert, Step, Wanted, Row
  <1>2. pc'[w] \notin Waiting => conn'[Conn(w)] # "unset"
    BY DEF Prepared, Waiting, Write, TakeRecord, ReadMaps, AssignMaps, CheckTable, CreateTable,
        EndCreate, ReadColumns, AdaptTable, Insert, Step
  <1>3. Role[w] = "marstek" /\ started'[w] /\ pc'[w] # "left out" => Table[w] \in existing'
    BY TablesStay
    DEF Prepared, TableFound, Past, Created, Checks, StartedTypes, Write, TakeRecord, ReadMaps,
        AssignMaps, CheckTable, CreateTable, EndCreate, ReadColumns, AdaptTable, Insert, Step
  <1>4. process' = "running" /\ Role[w] = "callback" /\ pc'[w] \in Created =>
            Row(w)'.names \subseteq columns'[Table[w]]
    <2>1. CASE CreateTable(w)
      <3>1. ASSUME process' = "running", Role[w] = "callback"
            PROVE  Row(w).names \subseteq columns'[Table[w]]
        <4>1. columns'[Table[w]] = {c.name : c \in CallbackColumns(shape[w])}
          BY <1>1, <2>1, <3>1, TableTypes DEF CreateTable, DatabaseTypes, NewColumns
        <4>2. Row(w).names = {<<"eco">> \o p : p \in TopKeys(shape[w])}
          BY <3>1 DEF Row, insertMqttData, InsertHttpData
        <4>3. \A p \in TopKeys(shape[w]) : <<"eco">> \o p \in columns'[Table[w]]
          <5> TAKE p \in TopKeys(shape[w])
          <5> DEFINE c == [name |-> <<"eco">> \o p, value |-> shape[w][p]]
          <5>1. c \in CallbackColumns(shape[w]) /\ c.name = <<"eco">> \o p
            BY DEF CallbackColumns
          <5> QED
            BY <4>1, <5>1
        <4> QED
          BY <4>2, <4>3
      <3> QED
        BY <1>1, <3>1
    <2>2. CASE ~CreateTable(w)
      BY <1>1, <2>2
      DEF Prepared, Created, Write, TakeRecord, ReadMaps, AssignMaps, CheckTable, EndCreate,
          ReadColumns, AdaptTable, Insert, Step, AfterCheck, database
    <2> QED
      BY <2>1, <2>2
  <1>5. pc'[w] = "adapt" /\ AddedThenInserts(w)' /\ Usable(w)' =>
            Wanted(w)' \subseteq columns'[Table[w]] \cup missing'[w]
    <2>1. CASE ReadColumns(w)
      BY <1>1, <2>1 DEF ReadColumns, AddedThenInserts, Usable, Reachable, Wanted, database
    <2>2. CASE ~ReadColumns(w)
      BY <2>2 DEF Write, TakeRecord, ReadMaps, AssignMaps, CheckTable, CreateTable, EndCreate,
          AdaptTable, Insert, Step, AfterCheck
    <2> QED
      BY <2>1, <2>2
  <1>6. pc'[w] = "insert" /\ Usable(w)' =>
            \/ Row(w)'.names \subseteq columns'[Table[w]]
            \/ /\ Wanted(w)' \subseteq columns'[Table[w]] \cup missing'[w]
               /\ \/ missing'[w] \subseteq columns'[Table[w]]
                  \/ missing'[w] \cap columns'[Table[w]] # {}
    <2>1. CASE AdaptTable(w)
      <3> SUFFICES ASSUME pc'[w] = "insert", Usable(w)'
                   PROVE  /\ Wanted(w) \subseteq columns'[Table[w]] \cup missing'[w]
                          /\ \/ missing'[w] \subseteq columns'[Table[w]]
                             \/ missing'[w] \cap columns'[Table[w]] # {}
        BY <1>1
      <3>1. AddedThenInserts(w) /\ pc[w] = "adapt" /\ missing' = missing
        BY <2>1 DEF AdaptTable, Step
      <3>2. Usable(w) /\ Reachable(w)
        BY <2>1, <3>1 DEF AdaptTable, Usable, Reachable, AddedThenInserts
      <3>3. Wanted(w) \subseteq columns[Table[w]] \cup missing[w]
        BY <3>1, <3>2 DEF Prepared
      <3>4. CASE missing[w] \cap columns[Table[w]] = {}
        <4>1. columns'[Table[w]] = columns[Table[w]] \cup missing[w]
          BY <2>1, <3>2, <3>4, TableTypes DEF AdaptTable, DatabaseTypes
        <4> QED
          BY <3>1, <3>3, <4>1
      <3>5. CASE missing[w] \cap columns[Table[w]] # {}
        BY <2>1, <3>1, <3>3, <3>5 DEF AdaptTable
      <3> QED
        BY <3>4, <3>5
    <2>2. CASE EndCreate(w)
      BY <1>1, <2>2 DEF Prepared, Created, EndCreate, AssignMaps, Step, AfterCheck, database
    <2>3. CASE ~AdaptTable(w) /\ ~EndCreate(w)
      BY <2>3 DEF Write, TakeRecord, ReadMaps, AssignMaps, CheckTable, CreateTable,
          ReadColumns, Insert, Step
    <2> QED
      BY <2>1, <2>2, <2>3
  <1> QED
    BY <1>2, <1>3, <1>4, <1>5, <1>6 DEF Prepared

(* While a writer is busy nobody else makes its table or its connection    *)
(* usable: the connections of the others are theirs, and another writer of *)
(* the table that creates it is of marstek.                                *)
LEMMA OthersDisableOnly ==
    ASSUME StoreInvariant, OneBusy, OwnTables, NEW w \in Writers, Prepared(w), [Next]_vars,
           ~Write(w), ~Restart, pc[w] \in {"adapt", "insert"}, Usable(w)'
    PROVE  Usable(w)
  <1> USE TypeParts DEF StoreInvariant, WriterTypes
  <1>1. conn[Conn(w)] = "open"
    <2>1. conn'[Conn(w)] = "open" /\ conn[Conn(w)] # "unset"
      BY DEF Usable, Prepared, Waiting
    <2>2. CASE InitMqtt
      BY <2>1, <2>2, ConnsUsed DEF InitMqtt, ConnTypes
    <2>3. ASSUME NEW v \in Writers, Insert(v), Role[v] # "marstek"
          PROVE  conn'[Conn(w)] = conn[Conn(w)]
      <3>1. v # w
        BY <2>3 DEF Write
      <3>2. pc[v] = "insert"
        BY <2>3 DEF Insert, Step
      <3>3. Conn(v) # Conn(w)
        BY <2>3, <3>1, <3>2, ConnsOwned DEF OneBusy, Waiting
      <3> QED
        BY <2>3, <3>3, ConnsUsed DEF Insert, ConnTypes
    <2>4. CASE UNCHANGED conn \/ \E k \in Conns : ConnectionBreaks(k)
      BY <2>1, <2>4, ConnsUsed DEF ConnectionBreaks, ConnTypes
    <2> QED
      BY <2>1, <2>2, <2>3, <2>4
      DEF Next, Write, TakeRecord, ReadMaps, AssignMaps, CheckTable, CreateTable, EndCreate,
          ReadColumns, AdaptTable, Insert, QueryFails, NewShape, Crash, CalmDown, vars
  <1>2. Table[w] \in existing
    <2>1. ASSUME NEW v \in Writers, CreateTable(v), Table[w] \notin existing
          PROVE  Table[w] \notin existing'
      <3>1. v # w /\ pc[v] = "create"
        BY <2>1 DEF Write, CreateTable, Step
      <3>2. Role[w] = "http"
        BY <2>1, StoreAssumption DEF Prepared, TableFound, Past, Checks, Roles
      <3>3. Table[v] # Table[w]
        BY <3>1, <3>2, GoroutineAssumption DEF OwnTables, OneBusy, Waiting
      <3> QED
        BY <2>1, <3>3 DEF CreateTable, database
    <2>2. UNCHANGED existing \/ \E v \in Writers : CreateTable(v)
      BY DEF Next, Write, TakeRecord, ReadMaps, AssignMaps, CheckTable, EndCreate, ReadColumns,
          AdaptTable, Insert, QueryFails, InitMqtt, ConnectionBreaks, NewShape, Crash, Restart,
          CalmDown, database, vars
    <2> QED
      BY <2>1, <2>2 DEF Usable
  <1> QED
    BY <1>1, <1>2 DEF Usable

(* The steps of the others, and of the surroundings.                       *)
LEMMA OtherStepPrepared ==
    ASSUME StoreInvariant, OneBusy, OwnTables, NEW w \in Writers, Prepared(w), [Next]_vars,
           ~Write(w)
    PROVE  Prepared(w)'
  <1> USE TypeParts DEF StoreInvariant, WriterTypes
  <1>1. CASE Restart
    BY <1>1 DEF Restart, Prepared, Waiting, Created
  <1>2. CASE QueryFails(w)
    <2>1. /\ pc[w] = "idle" /\ pc'[w] \in Waiting /\ UNCHANGED <<existing, conn>>
          /\ Role[w] = "marstek" /\ pc'[w] # "left out" => started[w]
      BY <1>2 DEF QueryFails, Step, Waiting, database
    <2> QED
      BY <2>1 DEF Prepared, Waiting, Created
  <1>3. CASE ~Restart /\ ~QueryFails(w)
    <2>1. UNCHANGED <<pc[w], missing[w], started[w]>>
      <3>1. CASE UNCHANGED <<pc, missing, started>>
        BY <3>1
      <3>2. ASSUME NEW v \in Writers, Write(v) \/ QueryFails(v)
            PROVE  UNCHANGED <<pc[w], missing[w], started[w]>>
        <4>1. v # w
          BY <1>3, <3>2
        <4>2. UNCHANGED pc[w]
          BY <3>2, <4>1
          DEF Write, TakeRecord, ReadMaps, AssignMaps, CheckTable, CreateTable, EndCreate,
              ReadColumns, AdaptTable, Insert, QueryFails, Step
        <4>3. UNCHANGED missing[w]
          BY <3>2, <4>1
          DEF Write, TakeRecord, ReadMaps, AssignMaps, CheckTable, CreateTable, EndCreate,
              ReadColumns, AdaptTable, Insert, QueryFails
        <4>4. UNCHANGED started[w]
          BY <3>2, <4>1
          DEF Write, TakeRecord, ReadMaps, AssignMaps, CheckTable, CreateTable, EndCreate,
              ReadColumns, AdaptTable, Insert, QueryFails, StartedTypes
        <4> QED
          BY <4>2, <4>3, <4>4
      <3> QED
        BY <1>3, <3>1, <3>2
        DEF Next, InitMqtt, ConnectionBreaks, NewShape, Crash, CalmDown, locals, vars
    <2>2. pc[w] = "idle" \/ UNCHANGED <<Wanted(w), Row(w)>>
      <3>1. ASSUME NEW v \in Writers, NEW r \in Shapes[v], NewShape(v, r)
            PROVE  pc[w] = "idle" \/ UNCHANGED shape[w]
        BY <3>1 DEF NewShape
      <3>2. UNCHANGED shape \/ \E v \in Writers : \E r \in Shapes[v] : NewShape(v, r)
        BY <1>3
        DEF Next, Write, TakeRecord, ReadMaps, AssignMaps, CheckTable, CreateTable, EndCreate,
            ReadColumns, AdaptTable, Insert, Step, QueryFails, InitMqtt, ConnectionBreaks,
            Crash, CalmDown, vars
      <3> QED
        BY <3>1, <3>2 DEF Wanted, Row
    <2>3. process' = "running" => process = "running"
      BY <1>3
      DEF Next, Write, TakeRecord, ReadMaps, AssignMaps, CheckTable, CreateTable, EndCreate,
          ReadColumns, AdaptTable, Insert, Step, QueryFails, InitMqtt, ConnectionBreaks, NewShape,
          Crash, CalmDown, vars
    <2>4. conn[Conn(w)] # "unset" => conn'[Conn(w)] # "unset"
      BY <1>3, ConnsUsed
      DEF Next, Write, TakeRecord, ReadMaps, AssignMaps, CheckTable, CreateTable, EndCreate,
          ReadColumns, AdaptTable, Insert, QueryFails, InitMqtt, ConnectionBreaks, NewShape,
          Crash, CalmDown, vars, ConnTypes
    <2>5. Table[w] \in existing => 
              Table[w] \in existing' /\ columns[Table[w]] \subseteq columns'[Table[w]]
      BY ColumnsStay
    <2>6. pc[w] \in {"adapt", "insert"} /\ Usable(w)' => Usable(w)
      BY <1>3, OthersDisableOnly
    <2>7. process = "running" /\ pc[w] \in Created => Table[w] \in existing
      BY DEF TableFound
    <2>8. AddedThenInserts(w)' = AddedThenInserts(w)
      BY <2>1 DEF AddedThenInserts
    <2>9. Usable(w) => Table[w] \in existing
      BY DEF Usable
    <2> HIDE DEF StoreInvariant, WriterTypes
    <2>10. pc'[w] \notin Waiting => conn'[Conn(w)] # "unset"
      BY <2>1, <2>4 DEF Prepared
    <2>11. Role[w] = "marstek" /\ started'[w] /\ pc'[w] # "left out" => Table[w] \in existing'
      BY <2>1, <2>5 DEF Prepared
    <2>12. process' = "running" /\ Role[w] = "callback" /\ pc'[w] \in Created =>
               Row(w)'.names \subseteq columns'[Table[w]]
      BY <2>1, <2>2, <2>3, <2>5, <2>7 DEF Prepared, Created
    <2>13. pc'[w] = "adapt" /\ AddedThenInserts(w)' /\ Usable(w)' =>
               Wanted(w)' \subseteq columns'[Table[w]] \cup missing'[w]
      BY <2>1, <2>2, <2>5, <2>6, <2>8, <2>9 DEF Prepared
    <2>14. pc'[w] = "insert" /\ Usable(w)' =>
               \/ Row(w)'.names \subseteq columns'[Table[w]]
               \/ /\ Wanted(w)' \subseteq columns'[Table[w]] \cup missing'[w]
                  /\ \/ missing'[w] \subseteq columns'[Table[w]]
                     \/ missing'[w] \cap columns'[Table[w]] # {}
      BY <2>1, <2>2, <2>5, <2>6, <2>9 DEF Prepared
    <2> QED
      BY <2>10, <2>11, <2>12, <2>13, <2>14 DEF Prepared
  <1> QED
    BY <1>1, <1>2, <1>3

(* A record whose writer has an open connection and a table that can hold  *)
(* it is stored, whatever new keys, other goroutines, stale lists, broken  *)
(* connections and restarts come in between; but for the one race of two   *)
(* marstek loops. (database.go:132-250, http.go:120-220, marstek.go:120-143)*)
THEOREM NoOtherLoss ==
    ASSUME OwnTables
    PROVE  Spec => []LostOnlyToRace
  <1> DEFINE AllPrepared == \A w \in Writers : Prepared(w)
  <1>1. StoreInvariant /\ OneBusy /\ AllPrepared /\ [Next]_vars => AllPrepared'
    <2> SUFFICES ASSUME StoreInvariant, OneBusy, AllPrepared, [Next]_vars, NEW w \in Writers
                 PROVE  Prepared(w)'
      OBVIOUS
    <2> QED
      BY OwnStepPrepared, OtherStepPrepared
  <1>2. AllPrepared => LostOnlyToRace
    <2> SUFFICES ASSUME AllPrepared, NEW w \in Writers, pc[w] = "insert",
                        conn[Conn(w)] = "open", Table[w] \in existing, Storable(w)
                 PROVE  Stored(w) \/ Raced(w)
      BY DEF LostOnlyToRace
    <2>1. \/ Row(w).names \subseteq columns[Table[w]]
          \/ /\ Wanted(w) \subseteq columns[Table[w]] \cup missing[w]
             /\ missing[w] \subseteq columns[Table[w]] \/ missing[w] \cap columns[Table[w]] # {}
      BY DEF Prepared, Usable
    <2>2. /\ ~InsertPanics(w) /\ Row(w).names \subseteq columns[Table[w]] \cup Wanted(w)
          /\ Cardinality(Row(w).names) = Row(w).fields /\ Row(w).fields = Row(w).values
      BY DEF Storable, Wanted, Fits
    <2>3. Row(w).names \subseteq columns[Table[w]] => Stored(w)
      BY <2>2 DEF Stored, Fits
    <2>4. Row(w).names \subseteq columns[Table[w]] \/ Raced(w)
      BY <2>1, <2>2 DEF Raced
    <2> QED
      BY <2>3, <2>4
  <1>3. Init => AllPrepared
    BY PreparedInit
  <1>4. StoreInvariant /\ OneBusy /\ [Next]_vars => OneBusy'
    BY OneBusyNext
  <1> QED
    BY <1>1, <1>2, <1>3, <1>4, OneBusyInit, InvariantHolds, PTL DEF Spec

-----------------------------------------------------------------------------
(* One goroutine                                                           *)

OneGoroutine == \A v, w \in Writers : Goroutine(v) = Goroutine(w)

(* Connections hold, and the process does not end of itself.               *)
Undisturbed == Disturbances \cap {"connection", "crash"} = {}

(* Each value a device reports has a column type, and the special ones the *)
(* type that is asserted.                                                  *)
RecordsTyped ==
    \A w \in Writers : \A r \in Shapes[w] : Typed(NewColumns(w, r)) /\ ~Panics(r)

(* The list just read is the one the check is made on, and no table comes  *)
(* in between.                                                             *)
AloneInvariant ==
    /\ process = "running" /\ \A k \in Conns : conn[k] # "closed"
    /\ \A w \in Writers :
          /\ pc[w] \notin Waiting => conn[Conn(w)] = "open"
          /\ pc[w] = "assign" => maps[w] = existing
          /\ pc[w] = "check" => dbTables = existing
          /\ pc[w] = "create" => Table[w] \notin existing

LEMMA AloneInit == Init => AloneInvariant
  BY DEF Init, AloneInvariant, FirstConns, Waiting

(* While the goroutine handles a device all its others wait.               *)
LEMMA OthersWait ==
    ASSUME StoreInvariant, OneBusy, OneGoroutine, NEW w \in Writers, Write(w) \/ QueryFails(w)
    PROVE  \A v \in Writers \ {w} : pc'[v] = pc[v] /\ pc[v] \in Waiting
  <1> USE TypeParts DEF StoreInvariant, WriterTypes
  <1>1. \A v \in Writers \ {w} : pc'[v] = pc[v]
    BY DEF Write, TakeRecord, ReadMaps, AssignMaps, CheckTable, CreateTable, EndCreate,
        ReadColumns, AdaptTable, Insert, QueryFails, Step
  <1>2. CASE pc[w] \in Waiting
    BY <1>1, <1>2
    DEF OneGoroutine, Write, TakeRecord, ReadMaps, AssignMaps, CheckTable, CreateTable, EndCreate,
        ReadColumns, AdaptTable, Insert, QueryFails, Step, Turn, Waiting
  <1>3. CASE pc[w] \notin Waiting
    BY <1>1, <1>3 DEF OneGoroutine, OneBusy
  <1> QED
    BY <1>2, <1>3

LEMMA WriteKeepsAlone ==
    ASSUME OneGoroutine, RecordsTyped, StoreInvariant, OneBusy, AloneInvariant,
           NEW w \in Writers, Write(w)
    PROVE  AloneInvariant'
  <1> USE TypeParts DEF StoreInvariant, WriterTypes
  <1>1. \A v \in Writers \ {w} : pc'[v] \in Waiting
    BY OthersWait
  <1>2. process' = "running"
    <2>1. CASE CreateTable(w)
      <3>1. pc[w] = "create"
        BY <2>1 DEF CreateTable, Step
      <3>2. Table[w] \notin existing /\ conn[Conn(w)] = "open"
        BY <3>1 DEF AloneInvariant, Waiting
      <3>3. Typed(NewColumns(w, shape[w]))
        BY DEF RecordsTyped, ShapeTypes
      <3> QED
        BY <2>1, <3>2, <3>3 DEF CreateTable, AloneInvariant
    <2>2. CASE UNCHANGED process
      BY <2>2 DEF AloneInvariant
    <2>3. CASE ReadColumns(w) \/ Insert(w)
      <3>1. ~Panics(shape[w])
        BY DEF RecordsTyped, ShapeTypes
      <3> QED
        BY <2>3, <3>1 DEF ReadColumns, Insert, InsertPanics, AloneInvariant
    <2> QED
      BY <2>1, <2>2, <2>3
      DEF Write, TakeRecord, ReadMaps, AssignMaps, CheckTable, EndCreate, AdaptTable
  <1>3. /\ \A k \in Conns : conn'[k] # "closed"
        /\ pc[w] \notin Waiting \/ TakeRecord(w) => conn'[Conn(w)] = "open"
    <2>1. CASE Insert(w)
      BY <2>1, ConnsUsed DEF Insert, AloneInvariant, ConnTypes, Step, Waiting
    <2>2. CASE UNCHANGED conn
      BY <2>2, ConnsUsed DEF AloneInvariant, TakeRecord, ConnTypes
    <2> QED
      BY <2>1, <2>2
      DEF Write, TakeRecord, ReadMaps, AssignMaps, CheckTable, CreateTable, EndCreate,
          ReadColumns, AdaptTable
  <1>4. pc[w] \notin Waiting \/ TakeRecord(w)
    BY DEF Write, ReadMaps, AssignMaps, CheckTable, CreateTable, EndCreate, ReadColumns,
        AdaptTable, Insert, Step, Waiting
  <1>5. /\ pc'[w] = "assign" => maps'[w] = existing'
        /\ pc'[w] = "check" => dbTables' = existing'
        /\ pc'[w] = "create" => Table[w] \notin existing'
    <2> USE DEF Step
    <2>1. CASE ReadMaps(w, "maps", "assign") \/ ReadMaps(w, "remap", "reassign")
      BY <2>1 DEF ReadMaps, database
    <2>2. CASE AssignMaps(w, "assign", "check")
      BY <2>2 DEF AssignMaps, database, AloneInvariant
    <2>3. CASE CheckTable(w)
      BY <2>3 DEF CheckTable, Known, database, AloneInvariant
    <2>4. CASE TakeRecord(w) \/ CreateTable(w) \/ EndCreate(w)
      BY <2>4 DEF TakeRecord, CreateTable, EndCreate, AssignMaps, AfterCheck
    <2>5. CASE ReadColumns(w) \/ AdaptTable(w) \/ Insert(w)
      BY <2>5 DEF ReadColumns, AdaptTable, Insert
    <2> QED
      BY <2>1, <2>2, <2>3, <2>4, <2>5 DEF Write
  <1> QED
    BY <1>1, <1>2, <1>3, <1>4, <1>5 DEF AloneInvariant, Waiting

LEMMA OthersKeepAlone ==
    ASSUME OneGoroutine, Undisturbed, StoreInvariant, OneBusy, AloneInvariant, Surroundings
    PROVE  AloneInvariant'
  <1> USE TypeParts DEF StoreInvariant, WriterTypes
  <1>1. ASSUME NEW w \in Writers, QueryFails(w)
        PROVE  AloneInvariant'
    <2>1. \A v \in Writers : pc'[v] \in Waiting
      BY <1>1, OthersWait DEF QueryFails, Step, Waiting
    <2>2. UNCHANGED <<process, conn>>
      BY <1>1 DEF QueryFails
    <2> QED
      BY <2>1, <2>2 DEF AloneInvariant, Waiting
  <1>2. CASE InitMqtt
    <2>1. \A k \in Conns : conn'[k] # "closed" /\ (conn[k] = "open" => conn'[k] = "open")
      BY <1>2, ConnsUsed DEF InitMqtt, AloneInvariant, ConnTypes
    <2>2. UNCHANGED <<process, pc, maps, existing, dbTables>>
      BY <1>2 DEF InitMqtt, locals, database
    <2> QED
      BY <2>1, <2>2, ConnsUsed DEF AloneInvariant
  <1>3. ~Crash /\ ~Restart /\ ~\E k \in Conns : ConnectionBreaks(k)
    BY DEF Undisturbed, Crash, Restart, ConnectionBreaks, Disturbed, AloneInvariant
  <1>4. CASE UNCHANGED <<process, conn, pc, maps, existing, dbTables>>
    BY <1>4 DEF AloneInvariant
  <1> QED
    BY <1>1, <1>2, <1>3, <1>4
    DEF Surroundings, NewShape, CalmDown, locals, database, vars

(* A single goroutine, whatever devices it goes over and however their     *)
(* records change, is never ended by the check of its tables: only the     *)
(* race of two makes it fatal that a table is not available.               *)
(* (database.go:132-148)                                                   *)
THEOREM AloneNeverFatal ==
    ASSUME OneGoroutine, Undisturbed, RecordsTyped
    PROVE  Spec => []NeverFatal
  <1>1. StoreInvariant /\ OneBusy /\ AloneInvariant /\ [Next]_vars => AloneInvariant'
    BY WriteKeepsAlone, OthersKeepAlone DEF Next, Surroundings
  <1>2. StoreInvariant /\ OneBusy /\ [Next]_vars => OneBusy'
    BY OneBusyNext
  <1>3. AloneInvariant => NeverFatal
    BY DEF AloneInvariant, NeverFatal
  <1> QED
    BY <1>1, <1>2, <1>3, AloneInit, OneBusyInit, InvariantHolds, PTL DEF Spec
=============================================================================
