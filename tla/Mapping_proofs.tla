----------------------------- MODULE Mapping_proofs -----------------------------
(***************************************************************************)
(* Proofs about Mapping, for every mapping and every object: each variable *)
(* has its type; a message ends the process only when the mapping does not *)
(* fit it; and the event made of a message is the exchange it shows.       *)
(***************************************************************************)
EXTENDS Mapping, Induction

-----------------------------------------------------------------------------
(* Paths                                                                   *)

(* The recursive definition of Walk is one: it has its value at the end of *)
(* a function that starts with the object and takes one step per key.      *)
LEMMA WalkEquation ==
    ASSUME NEW o, NEW path, Len(path) \in Nat
    PROVE  \E walk : /\ Walk(o, path) = walk[Len(path)] /\ walk[0] = o
                     /\ \A k \in 1..Len(path) : walk[k] = Step(walk[k - 1], path[k])
  <1> DEFINE At(f, k) == IF k = 0 THEN o ELSE Step(f[k - 1], path[k])
             Defined == {n \in Nat : \E f : f = [k \in 0..n |-> At(f, k)]}
             walk == CHOOSE f : f = [k \in 0..Len(path) |-> At(f, k)]
  <1>1. Walk(o, path) = walk[Len(path)]
    BY DEF Walk
  <1>2. 0 \in Defined
    <2> DEFINE g == [k \in 0..0 |-> o]
    <2>1. g = [k \in 0..0 |-> At(g, k)]
      OBVIOUS
    <2> QED
      BY <2>1
  <1>3. ASSUME NEW n \in Nat, n \in Defined
        PROVE  n + 1 \in Defined
    <2>1. PICK f : f = [k \in 0..n |-> At(f, k)]
      BY <1>3
    <2> DEFINE g == [k \in 0..n + 1 |-> IF k = n + 1 THEN Step(f[n], path[n + 1]) ELSE f[k]]
    <2>2. ASSUME NEW k \in 0..n + 1
          PROVE  g[k] = At(g, k)
      <3>1. CASE k = n + 1
        BY <3>1
      <3>2. CASE k \in 0..n
        <4>1. g[k] = f[k] /\ f[k] = At(f, k)
          BY <3>2, <2>1
        <4>2. k # 0 => k - 1 \in 0..n /\ g[k - 1] = f[k - 1]
          BY <3>2
        <4> QED
          BY <4>1, <4>2
      <3> QED
        BY <3>1, <3>2
    <2>3. g = [k \in 0..n + 1 |-> At(g, k)]
      BY <2>2
    <2> HIDE DEF g
    <2>4. \E h : h = [k \in 0..n + 1 |-> At(h, k)]
      BY <2>3
    <2> QED
      BY <2>4
  <1>4. Len(path) \in Defined
    <2> HIDE DEF Defined
    <2> QED
      BY <1>2, <1>3, SetInduction
  <1>5. walk = [k \in 0..Len(path) |-> At(walk, k)]
    BY <1>4
  <1> HIDE DEF walk
  <1> QED
    BY <1>1, <1>5

LEMMA StepStays ==
    ASSUME NEW i \in Values, NEW key
    PROVE  Step(i, key) \in Values
  BY ValueAssumption DEF Step

(* What a path finds in a value is a value, however long the path is.      *)
LEMMA WalkStays ==
    ASSUME NEW o \in Values, NEW path, Len(path) \in Nat
    PROVE  Walk(o, path) \in Values
  <1>1. PICK walk : /\ Walk(o, path) = walk[Len(path)] /\ walk[0] = o
                    /\ \A k \in 1..Len(path) : walk[k] = Step(walk[k - 1], path[k])
    BY WalkEquation
  <1> DEFINE Stays == {n \in Nat : n <= Len(path) => walk[n] \in Values}
  <1>2. 0 \in Stays
    BY <1>1
  <1>3. ASSUME NEW n \in Nat, n \in Stays
        PROVE  n + 1 \in Stays
    <2> SUFFICES ASSUME n + 1 <= Len(path) PROVE walk[n + 1] \in Values
      OBVIOUS
    <2>1. walk[n] \in Values
      BY <1>3
    <2>2. walk[n + 1] = Step(walk[n], path[n + 1])
      <3>1. n + 1 \in 1..Len(path) /\ (n + 1) - 1 = n
        OBVIOUS
      <3> QED
        BY <1>1, <3>1
    <2> QED
      BY <2>1, <2>2, StepStays
  <1>4. Nat \subseteq Stays
    <2> HIDE DEF Stays
    <2> QED
      BY <1>2, <1>3, SetInduction
  <1> QED
    BY <1>1, <1>4

-----------------------------------------------------------------------------
(* Conversion                                                              *)

(* What the map holds: an int64 has no fraction.                           *)
Cell == {x \in [type: Types, v: Int] : x.type = "int64" => x.v % 10 = 0}

LEMMA TruncatedType ==
    ASSUME NEW v \in Int
    PROVE  Truncated(v) \in Int /\ Truncated(v) % 10 = 0
  BY DEF Truncated

LEMMA ConvertedType ==
    ASSUME NEW o \in Values, NEW e \in Entry, Takes(o, e)
    PROVE  /\ Converted(o, e) \in Cell /\ Converted(o, e).type = e.type
           /\ e.type = "float64" => Converted(o, e).v = Walk(o, e.source).v
  <1>1. Len(e.source) \in Nat /\ e.type \in Types
    <2>1. e.source \in Seq(STRING) /\ e.type \in Types
      BY DEF Entry
    <2> QED
      BY <2>1
  <1>2. Walk(o, e.source) \in Values
    BY <1>1, WalkStays
  <1>3. Walk(o, e.source).kind # "object"
    BY <1>1 DEF Takes, Accepts, Types, Texts
  <1>4. Walk(o, e.source).v \in Int
    BY <1>2, <1>3, ValueAssumption
  <1> HIDE DEF Cell
  <1>5. /\ Converted(o, e).type = e.type
        /\ Converted(o, e).v = IF e.type = "int64" THEN Truncated(Walk(o, e.source).v)
                               ELSE IF e.type = "float64" THEN Walk(o, e.source).v ELSE 0
        /\ Converted(o, e) = [type |-> e.type, v |-> Converted(o, e).v]
    BY DEF Converted
  <1> QED
    BY <1>1, <1>4, <1>5, TruncatedType DEF Cell

-----------------------------------------------------------------------------
(* The inductive invariant                                                 *)

Control ==
    /\ mapping \in Mappings /\ content \in Contents
    /\ pc \in {"idle", "mapping", "event"} /\ process \in {"running", "ended"}
    /\ next \in 1..Len(mapping) + 1
    /\ event \in [power: Int, out: Int]

MapType == DOMAIN m \subseteq Names /\ \A name \in DOMAIN m : m[name] \in Cell

(* The entries gone over so far have found their values.                   *)
TakenSoFar == \A k \in 1..next - 1 : Takes(content.object, mapping[k])

(* The map holds the names they write, each with the type of one of them.  *)
WrittenSoFar ==
    /\ \A k \in 1..next - 1, name \in Names :
          Writes(content.object, mapping[k], name) => name \in DOMAIN m
    /\ \A name \in DOMAIN m : \E k \in 1..next - 1 :
          Writes(content.object, mapping[k], name) /\ m[name].type = mapping[k].type

MappingInvariant ==
    /\ Control /\ MapType /\ EndsOnMismatch
    /\ pc = "mapping" => TakenSoFar /\ WrittenSoFar

(* A mapping is a sequence of entries, a message an object.                *)
LEMMA InputTypes ==
    ASSUME Control
    PROVE  /\ mapping \in Seq(Entry) /\ Len(mapping) \in Nat
           /\ \A k \in 1..Len(mapping) : mapping[k] \in Entry
           /\ content.object \in Values /\ content.net \in Int
           /\ next \in Nat \ {0}
  <1>1. mapping \in Seq(Entry) /\ content \in Contents
    BY MappingAssumption DEF Control
  <1> QED
    BY <1>1, MappingAssumption DEF Control

LEMMA InvariantImplies == MappingInvariant => TypeOK /\ EndsOnMismatch
  BY DEF MappingInvariant, Control, MapType, Cell, TypeOK

-----------------------------------------------------------------------------
(* The map                                                                 *)

LEMMA PutType ==
    ASSUME NEW f, DOMAIN f \subseteq Names, \A name \in DOMAIN f : f[name] \in Cell,
           NEW name \in Names, NEW x \in Cell
    PROVE  /\ DOMAIN Put(f, name, x) \subseteq Names
           /\ \A n \in DOMAIN Put(f, name, x) : Put(f, name, x)[n] \in Cell
  <1> HIDE DEF Cell
  <1> QED
    BY DEF Put

LEMMA FilledType ==
    ASSUME MapType, NEW o \in Values, NEW e \in Entry, Takes(o, e)
    PROVE  /\ DOMAIN Filled(o, e) \subseteq Names
           /\ \A name \in DOMAIN Filled(o, e) : Filled(o, e)[name] \in Cell
  <1> DEFINE f == Converted(o, e)
             zero == [f EXCEPT !.v = 0]
             turned == [f EXCEPT !.v = -@]
  <1>1. f \in Cell
    BY ConvertedType
  <1>2. zero \in Cell /\ turned \in Cell
    <2> HIDE DEF f
    <2>1. f \in [type: Types, v: Int] /\ (f.type = "int64" => f.v % 10 = 0)
      BY <1>1 DEF Cell
    <2>2. zero \in [type: Types, v: Int] /\ turned \in [type: Types, v: Int]
      BY <2>1
    <2>3. turned.type = f.type /\ turned.v = -f.v /\ zero.v = 0
      BY <2>1
    <2>4. f.v % 10 = 0 => (-f.v) % 10 = 0
      BY <2>1
    <2> HIDE DEF zero, turned
    <2> QED
      BY <2>1, <2>2, <2>3, <2>4 DEF Cell
  <1>3. e.destination \in Names /\ e.ifNegative \in Names \cup {""}
    BY DEF Entry
  <1> HIDE DEF Cell, f, zero, turned
  <1>4. CASE Splits(o, e)
    <2>1. Filled(o, e) = Put(Put(m, e.ifNegative, turned), e.destination, zero)
      BY <1>4 DEF Filled, SplitInto, f, zero, turned
    <2>2. e.ifNegative \in Names
      BY <1>3, <1>4 DEF Splits
    <2> QED
      BY <1>2, <1>3, <2>1, <2>2, PutType DEF MapType
  <1>5. CASE ~Splits(o, e)
    <2>1. Filled(o, e) = m \/ Filled(o, e) = Put(m, e.destination, f)
      BY <1>5 DEF Filled, f
    <2> QED
      BY <1>1, <1>3, <2>1, PutType DEF MapType
  <1> QED
    BY <1>4, <1>5

(* What an entry adds to the map.                                          *)
LEMMA FilledNames ==
    ASSUME NEW o, NEW e
    PROVE  /\ \A name : name \in DOMAIN m \/ Writes(o, e, name) => name \in DOMAIN Filled(o, e)
           /\ \A name \in DOMAIN Filled(o, e) :
                 \/ Writes(o, e, name) /\ Filled(o, e)[name].type = e.type
                 \/ name \in DOMAIN m /\ Filled(o, e)[name] = m[name]
  <1> DEFINE f == Converted(o, e)
             zero == [f EXCEPT !.v = 0]
             turned == [f EXCEPT !.v = -@]
  <1>1. f.type = e.type /\ zero.type = e.type /\ turned.type = e.type
    BY DEF Converted
  <1>2. CASE Splits(o, e)
    <2>1. Filled(o, e) = Put(Put(m, e.ifNegative, turned), e.destination, zero)
      BY <1>2 DEF Filled, SplitInto
    <2> HIDE DEF f, zero, turned
    <2>2. \A name : Writes(o, e, name) <=> name \in {e.destination, e.ifNegative}
      BY <1>2 DEF Writes
    <2> QED
      BY <1>1, <2>1, <2>2 DEF Put
  <1>3. CASE ~Splits(o, e)
    <2>1. \A name : Writes(o, e, name) <=> name = e.destination
      BY <1>3 DEF Writes
    <2>2. CASE Numeric(e) /\ e.destination \in DOMAIN m
      <3>1. Filled(o, e) = m
        BY <1>3, <2>2 DEF Filled
      <3> QED
        BY <2>1, <2>2, <3>1
    <2>3. CASE ~(Numeric(e) /\ e.destination \in DOMAIN m)
      <3>1. Filled(o, e) = Put(m, e.destination, f)
        BY <1>3, <2>3 DEF Filled
      <3> HIDE DEF f, zero, turned
      <3> QED
        BY <1>1, <2>1, <3>1 DEF Put
    <2> QED
      BY <2>2, <2>3
  <1> QED
    BY <1>2, <1>3

-----------------------------------------------------------------------------
(* The invariant is inductive                                              *)

LEMMA InvariantInit == Init => MappingInvariant
  <1> SUFFICES ASSUME Init PROVE MappingInvariant
    OBVIOUS
  <1>1. /\ mapping \in Seq(Entry) /\ pc = "idle" /\ process = "running" /\ next = 1
        /\ m = Empty /\ event = NoEvent /\ mapping \in Mappings /\ content \in Contents
    BY MappingAssumption DEF Init
  <1>2. next \in 1..Len(mapping) + 1
    BY <1>1
  <1> QED
    BY <1>1, <1>2 DEF MappingInvariant, Control, MapType, Empty, NoEvent, EndsOnMismatch

(* A message is received: nothing has been gone over yet.                  *)
LEMMA ReceiveStep ==
    ASSUME MappingInvariant, NEW c \in Contents, Receive(c)
    PROVE  MappingInvariant'
  <1>1. /\ pc' = "mapping" /\ process' = "running" /\ next' = 1 /\ m' = Empty
        /\ content' = c /\ event' = NoEvent /\ UNCHANGED mapping
    BY DEF Receive, Running
  <1>2. Control'
    <2>1. Len(mapping) \in Nat
      BY InputTypes DEF MappingInvariant
    <2> QED
      BY <1>1, <2>1 DEF MappingInvariant, Control, NoEvent
  <1>3. EndsOnMismatch' /\ MapType'
    BY <1>1 DEF EndsOnMismatch, MapType, Empty
  <1>4. TakenSoFar' /\ WrittenSoFar'
    BY <1>1 DEF TakenSoFar, WrittenSoFar, Empty
  <1> QED
    BY <1>2, <1>3, <1>4 DEF MappingInvariant

(* An entry is gone over.                                                  *)
LEMMA MapEntryStep ==
    ASSUME MappingInvariant, MapEntry
    PROVE  MappingInvariant'
  <1> DEFINE o == content.object
             e == mapping[next]
  <1>1. /\ pc = "mapping" /\ pc' = "mapping" /\ process' = "running"
        /\ next <= Len(mapping) /\ next' = next + 1 /\ Takes(o, e)
        /\ m' = Filled(o, e) /\ UNCHANGED <<mapping, content, event>>
    BY DEF MapEntry, Running
  <1>2. /\ Control /\ MapType /\ TakenSoFar /\ WrittenSoFar
        /\ next \in Nat \ {0} /\ Len(mapping) \in Nat
        /\ e \in Entry /\ o \in Values
    <2>1. Control /\ MapType /\ TakenSoFar /\ WrittenSoFar
      BY <1>1 DEF MappingInvariant
    <2> QED
      BY <1>1, <2>1, InputTypes
  <1>3. Control'
    BY <1>1, <1>2 DEF Control
  <1>4. EndsOnMismatch'
    BY <1>1 DEF EndsOnMismatch
  <1>5. 1..next' - 1 = (1..next - 1) \cup {next}
    BY <1>1, <1>2
  <1>6. TakenSoFar'
    <2> SUFFICES ASSUME NEW k \in 1..next' - 1 PROVE Takes(o, mapping[k])
      BY <1>1 DEF TakenSoFar
    <2> QED
      BY <1>1, <1>2, <1>5 DEF TakenSoFar
  <1>7. ASSUME NEW k \in 1..next' - 1, NEW name \in Names, Writes(o, mapping[k], name)
        PROVE  name \in DOMAIN m'
    <2>1. CASE k = next
      BY <1>1, <1>7, <2>1, FilledNames
    <2>2. CASE k \in 1..next - 1
      <3>1. name \in DOMAIN m
        BY <1>2, <1>7, <2>2 DEF WrittenSoFar
      <3> QED
        BY <1>1, <3>1, FilledNames
    <2> QED
      BY <1>5, <2>1, <2>2
  <1>8. ASSUME NEW name \in DOMAIN m'
        PROVE  \E k \in 1..next' - 1 :
                  Writes(o, mapping[k], name) /\ m'[name].type = mapping[k].type
    <2>1. CASE Writes(o, e, name) /\ m'[name].type = e.type
      BY <1>5, <2>1
    <2>2. CASE name \in DOMAIN m /\ m'[name] = m[name]
      <3>1. PICK k \in 1..next - 1 :
               Writes(o, mapping[k], name) /\ m[name].type = mapping[k].type
        BY <1>2, <2>2 DEF WrittenSoFar
      <3> QED
        BY <1>5, <2>2, <3>1
    <2> QED
      BY <1>1, <2>1, <2>2, FilledNames
  <1>9. WrittenSoFar'
    BY <1>1, <1>7, <1>8 DEF WrittenSoFar
  <1>10. MapType'
    <2>1. /\ DOMAIN m' \subseteq Names
          /\ \A name \in DOMAIN m' : m'[name] \in Cell
      BY <1>1, <1>2, FilledType
    <2> QED
      BY <2>1 DEF MapType
  <1> QED
    BY <1>1, <1>3, <1>4, <1>6, <1>9, <1>10 DEF MappingInvariant

(* The mapping has been gone over: power and out are set just if an entry  *)
(* writes them.                                                            *)
LEMMA WrittenInTheEnd ==
    ASSUME MappingInvariant, pc = "mapping", next > Len(mapping)
    PROVE  /\ \A e \in Entries(mapping) : Takes(content.object, e)
           /\ \A name \in Names : name \in DOMAIN m <=>
                 \E e \in Entries(mapping) : Writes(content.object, e, name)
           /\ \A name \in DOMAIN m : \E e \in Entries(mapping) :
                 Writes(content.object, e, name) /\ m[name].type = e.type
  <1>1. /\ MapType /\ TakenSoFar /\ WrittenSoFar
        /\ next \in Nat /\ Len(mapping) \in Nat /\ next = Len(mapping) + 1
    <2>1. Control /\ MapType /\ TakenSoFar /\ WrittenSoFar
      BY DEF MappingInvariant
    <2>2. next \in Nat /\ Len(mapping) \in Nat
      BY <2>1, InputTypes
    <2> QED
      BY <2>1, <2>2 DEF Control
  <1>2. Entries(mapping) = {mapping[k] : k \in 1..next - 1}
    BY <1>1 DEF Entries
  <1>3. \A e \in Entries(mapping) : Takes(content.object, e)
    BY <1>1, <1>2 DEF TakenSoFar
  <1>4. \A name \in DOMAIN m : \E e \in Entries(mapping) :
           Writes(content.object, e, name) /\ m[name].type = e.type
    BY <1>1, <1>2 DEF WrittenSoFar
  <1>5. \A name \in Names, e \in Entries(mapping) :
           Writes(content.object, e, name) => name \in DOMAIN m
    BY <1>1, <1>2 DEF WrittenSoFar
  <1> QED
    BY <1>1, <1>3, <1>4, <1>5

LEMMA FailsStep ==
    ASSUME MappingInvariant, MapFails \/ EventFails
    PROVE  MappingInvariant'
  <1> DEFINE o == content.object
  <1>1. /\ pc = "mapping" /\ process' = "ended"
        /\ UNCHANGED <<mapping, content, pc, next, m, event>>
    BY DEF MapFails, EventFails, Ends
  <1>2. ~(Complete(o, mapping) /\ FloatsOnly(o, mapping))
    <2>1. CASE MapFails
      <3>1. next \in 1..Len(mapping) /\ ~Takes(o, mapping[next])
        <4>1. next <= Len(mapping) /\ ~Takes(o, mapping[next])
          BY <2>1 DEF MapFails
        <4>2. next \in Nat \ {0} /\ Len(mapping) \in Nat
          BY InputTypes DEF MappingInvariant
        <4> QED
          BY <4>1, <4>2
      <3>2. mapping[next] \in Entries(mapping)
        BY <3>1 DEF Entries
      <3> QED
        BY <3>1, <3>2 DEF Complete
    <2>2. CASE EventFails
      <3>1. next > Len(mapping) /\ ~(IsFloat("out") /\ IsFloat("power"))
        BY <2>2 DEF EventFails
      <3>2. PICK name \in {"out", "power"} : ~IsFloat(name)
        BY <3>1
      <3>3. name \in Names
        BY DEF Names
      <3>4. CASE name \notin DOMAIN m
        BY <1>1, <3>1, <3>3, <3>4, WrittenInTheEnd DEF Complete
      <3>5. CASE name \in DOMAIN m /\ m[name].type # "float64"
        BY <1>1, <3>1, <3>5, WrittenInTheEnd DEF FloatsOnly
      <3> QED
        BY <3>2, <3>4, <3>5 DEF IsFloat
    <2> QED
      BY <2>1, <2>2
  <1>3. Control' /\ MapType'
    BY <1>1 DEF MappingInvariant, Control, MapType
  <1>4. TakenSoFar' /\ WrittenSoFar'
    <2>1. TakenSoFar /\ WrittenSoFar
      BY <1>1 DEF MappingInvariant
    <2> QED
      BY <1>1, <2>1 DEF TakenSoFar, WrittenSoFar
  <1>5. EndsOnMismatch'
    BY <1>1, <1>2 DEF EndsOnMismatch
  <1> QED
    BY <1>3, <1>4, <1>5 DEF MappingInvariant

LEMMA ProcessEventStep ==
    ASSUME MappingInvariant, ProcessEvent
    PROVE  MappingInvariant'
  <1>1. /\ pc = "mapping" /\ pc' = "event" /\ process = "running" /\ process' = "running"
        /\ next > Len(mapping) /\ IsFloat("out") /\ IsFloat("power")
        /\ event' = [power |-> m["power"].v, out |-> m["out"].v]
        /\ UNCHANGED <<mapping, content, next, m>>
    BY DEF ProcessEvent, Running
  <1>2. "out" \in DOMAIN m /\ "power" \in DOMAIN m
    BY <1>1 DEF IsFloat
  <1>3. Complete(content.object, mapping)
    BY <1>1, <1>2, WrittenInTheEnd DEF Complete
  <1>4. m["power"].v \in Int /\ m["out"].v \in Int
    BY <1>2 DEF MappingInvariant, MapType, Cell
  <1>5. Control' /\ MapType'
    BY <1>1, <1>4 DEF MappingInvariant, Control, MapType
  <1> QED
    BY <1>1, <1>3, <1>5 DEF MappingInvariant, EndsOnMismatch

LEMMA InvariantNext == MappingInvariant /\ [Next]_vars => MappingInvariant'
  <1> SUFFICES ASSUME MappingInvariant, [Next]_vars PROVE MappingInvariant'
    OBVIOUS
  <1>1. CASE UNCHANGED vars
    BY <1>1 DEF vars, MappingInvariant, Control, MapType, EndsOnMismatch, TakenSoFar, WrittenSoFar
  <1>2. CASE \E c \in Contents : Receive(c)
    BY <1>2, ReceiveStep
  <1>3. CASE MapEntry
    BY <1>3, MapEntryStep
  <1>4. CASE MapFails \/ EventFails
    BY <1>4, FailsStep
  <1>5. CASE ProcessEvent
    BY <1>5, ProcessEventStep
  <1> QED
    BY <1>1, <1>2, <1>3, <1>4, <1>5 DEF Next, Gone

LEMMA InvariantHolds == Spec => []MappingInvariant
  BY InvariantInit, InvariantNext, PTL DEF Spec

-----------------------------------------------------------------------------
(* Theorems                                                                *)

(* Every variable has its type, for every mapping and every message; in    *)
(* particular no conversion leaves a fraction in an int64.                 *)
(* (mqtt_parser.go:26-139)                                                 *)
THEOREM TypeCorrect == Spec => []TypeOK
  BY InvariantHolds, InvariantImplies, PTL

(* Whatever the mapping and whatever the meter sends, the process ends on  *)
(* a message only if the mapping does not fit it, and an event is only     *)
(* made of a message in which every entry of the mapping finds its value   *)
(* and power and out are set. (mqtt_parser.go:26-150, mqtt.go:244-245)     *)
THEOREM MismatchOnly == Spec => []EndsOnMismatch
  BY InvariantHolds, InvariantImplies, PTL

-----------------------------------------------------------------------------
(* An event is what the meter has shown                                    *)

(* What the map says of the exchange so far. With a signed power an export *)
(* is in power, or power is zero and the export is in out, where no entry  *)
(* replaces it.                                                            *)
SignedSoFar ==
    /\ IsFloat("power") =>
          \/ m["power"].v = content.net
          \/ /\ content.net < 0 /\ m["power"].v = 0 /\ "out" \in DOMAIN m
             /\ IsFloat("out") => m["out"].v = -content.net
    /\ IsFloat("out") => m["out"].v \in {0, Positive(-content.net)}

UnsignedSoFar ==
    /\ IsFloat("power") => m["power"].v = Positive(content.net)
    /\ IsFloat("out") => m["out"].v = Positive(-content.net)

ReadingSoFar ==
    /\ Signed(content, mapping) => SignedSoFar
    /\ Unsigned(content, mapping) => UnsignedSoFar

ReadingInvariant ==
    /\ MappingInvariant /\ EventIsReading
    /\ pc = "mapping" => ReadingSoFar

(* What an entry finds is among what is found for its name.                *)
LEMMA FoundFor ==
    ASSUME NEW c, NEW mp, NEW k \in 1..Len(mp)
    PROVE  Walk(c.object, mp[k].source).v \in Found(c, mp, mp[k].destination)
  BY DEF Found

(* The new contents of the map, name by name, after an entry that fits.    *)
LEMMA SplitCells ==
    ASSUME NEW o \in Values, NEW e \in Entry, Takes(o, e), Splits(o, e),
           e.destination = "power", e.ifNegative = "out", m' = Filled(o, e)
    PROVE  /\ "power" \in DOMAIN m' /\ "out" \in DOMAIN m'
           /\ m'["power"].type = e.type /\ m'["power"].v = 0
           /\ m'["out"].type = e.type /\ m'["out"].v = -Converted(o, e).v
  <1> DEFINE f == Converted(o, e)
             zero == [f EXCEPT !.v = 0]
             turned == [f EXCEPT !.v = -@]
  <1>1. f \in [type: Types, v: Int] /\ f.type = e.type
    BY ConvertedType DEF Cell
  <1>2. m' = Put(Put(m, "out", turned), "power", zero)
    BY DEF Filled, SplitInto
  <1> HIDE DEF f
  <1>3. /\ zero.type = e.type /\ zero.v = 0
        /\ turned.type = e.type /\ turned.v = -f.v
    BY <1>1
  <1> HIDE DEF zero, turned
  <1>4. m'["power"] = zero /\ m'["out"] = turned
        /\ "power" \in DOMAIN m' /\ "out" \in DOMAIN m'
    BY <1>2 DEF Put
  <1> QED
    BY <1>3, <1>4 DEF f

LEMMA ReadingMapEntry ==
    ASSUME OnlyExportSplits, ReadingInvariant, MapEntry
    PROVE  ReadingSoFar'
  <1> DEFINE o == content.object
             e == mapping[next]
             f == Converted(o, e)
  <1>1. /\ Takes(o, e) /\ m' = Filled(o, e) /\ UNCHANGED <<mapping, content>>
        /\ pc = "mapping" /\ next <= Len(mapping)
    BY DEF MapEntry
  <1>2. Control /\ MapType /\ ReadingSoFar
    BY <1>1 DEF ReadingInvariant, MappingInvariant
  <1>3. /\ e \in Entry /\ o \in Values /\ content.net \in Int
        /\ next \in 1..Len(mapping)
    BY <1>1, <1>2, InputTypes
  <1>4. /\ f.type = e.type /\ f.v \in Int
        /\ e.type = "float64" => f.v \in Found(content, mapping, e.destination)
    BY <1>1, <1>3, ConvertedType, FoundFor DEF Cell
  <1>5. Splits(o, e) => f.v < 0 /\ e.destination = "power" /\ e.ifNegative = "out"
    <2>1. e \in Entries(mapping) /\ mapping \in Mappings
      BY <1>2, <1>3 DEF Entries, Control
    <2> QED
      BY <2>1 DEF OnlyExportSplits, Splits
  <1>6. Positive(content.net) >= 0 /\ (content.net < 0 => Positive(-content.net) = -content.net)
    BY <1>3 DEF Positive
  <1>7. CASE Splits(o, e)
    <2>1. /\ "power" \in DOMAIN m' /\ "out" \in DOMAIN m'
          /\ m'["power"].type = e.type /\ m'["power"].v = 0
          /\ m'["out"].type = e.type /\ m'["out"].v = -f.v
      BY <1>1, <1>3, <1>5, <1>7, SplitCells
    <2> HIDE DEF f
    <2>2. ASSUME Signed(content, mapping)
          PROVE  SignedSoFar'
      <3>1. CASE e.type = "float64"
        <4>1. f.v = content.net
          BY <1>4, <1>5, <1>7, <2>2, <3>1 DEF Signed
        <4> QED
          BY <1>1, <1>3, <1>5, <1>6, <1>7, <2>1, <4>1 DEF SignedSoFar, IsFloat
      <3>2. CASE e.type # "float64"
        BY <1>1, <2>1, <3>2 DEF SignedSoFar, IsFloat
      <3> QED
        BY <3>1, <3>2
    <2>3. ASSUME Unsigned(content, mapping)
          PROVE  UnsignedSoFar'
      <3>1. e.type # "float64"
        <4>1. e.type = "float64" => f.v = Positive(content.net)
          BY <1>4, <1>5, <1>7, <2>3 DEF Unsigned
        <4> QED
          BY <1>4, <1>5, <1>6, <1>7, <4>1
      <3> QED
        BY <1>1, <2>1, <3>1 DEF UnsignedSoFar, IsFloat
    <2> QED
      BY <1>1, <2>2, <2>3 DEF ReadingSoFar, Signed, Unsigned
  <1>8. CASE ~Splits(o, e) /\ Numeric(e) /\ e.destination \in DOMAIN m
    <2>1. m' = m
      BY <1>1, <1>8 DEF Filled
    <2> QED
      BY <1>1, <1>2, <2>1 DEF ReadingSoFar, SignedSoFar, UnsignedSoFar, IsFloat
  <1>9. CASE ~Splits(o, e) /\ ~(Numeric(e) /\ e.destination \in DOMAIN m)
    <2>1. m' = Put(m, e.destination, f)
      BY <1>1, <1>9 DEF Filled
    <2> HIDE DEF f
    <2>2. /\ m'[e.destination] = f
          /\ DOMAIN m' = DOMAIN m \cup {e.destination}
          /\ \A name \in DOMAIN m : name # e.destination => m'[name] = m[name]
      BY <2>1 DEF Put
    <2>3. e.destination \in DOMAIN m => f.type # "float64"
      BY <1>4, <1>9 DEF Numeric
    <2>4. ASSUME NEW name, name # e.destination
          PROVE  /\ name \in DOMAIN m' <=> name \in DOMAIN m
                 /\ IsFloat(name)' <=> IsFloat(name)
                 /\ name \in DOMAIN m => m'[name] = m[name]
      BY <2>2, <2>4 DEF IsFloat
    <2>5. m'[e.destination].type = "float64" => f.type = "float64" /\ e.destination \notin DOMAIN m
      BY <2>2, <2>3
    <2>6. ASSUME Signed(content, mapping)
          PROVE  SignedSoFar'
      <3>1. SignedSoFar
        BY <1>2, <2>6 DEF ReadingSoFar
      <3>2. CASE e.destination = "power"
        <4>1. IsFloat("power")' => m'["power"].v = content.net
          BY <1>4, <2>2, <2>5, <2>6, <3>2 DEF Signed, IsFloat
        <4>2. IsFloat("out")' => m'["out"].v \in {0, Positive(-content.net)}
          BY <2>4, <3>1, <3>2 DEF SignedSoFar, IsFloat
        <4> QED
          BY <1>1, <4>1, <4>2 DEF SignedSoFar
      <3>3. CASE e.destination = "out"
        <4>1. "out" \in DOMAIN m'
          BY <2>2, <3>3
        <4>2. IsFloat("out")' => m'["out"].v \in {0, Positive(-content.net)} /\ "out" \notin DOMAIN m
          BY <1>4, <2>2, <2>5, <2>6, <3>3 DEF Signed, IsFloat
        <4>3. IsFloat("power")' => IsFloat("power") /\ m'["power"] = m["power"]
          BY <2>4, <3>3 DEF IsFloat
        <4> QED
          BY <1>1, <3>1, <4>1, <4>2, <4>3 DEF SignedSoFar
      <3>4. CASE e.destination \notin {"power", "out"}
        <4>1. /\ IsFloat("power")' => IsFloat("power") /\ m'["power"] = m["power"]
              /\ IsFloat("out")' <=> IsFloat("out")
              /\ "out" \in DOMAIN m' <=> "out" \in DOMAIN m
              /\ "out" \in DOMAIN m => m'["out"] = m["out"]
          BY <2>4, <3>4 DEF IsFloat
        <4>2. IsFloat("out") => "out" \in DOMAIN m
          BY DEF IsFloat
        <4> QED
          BY <1>1, <3>1, <4>1, <4>2 DEF SignedSoFar
      <3> QED
        BY <3>2, <3>3, <3>4
    <2>7. ASSUME Unsigned(content, mapping)
          PROVE  UnsignedSoFar'
      <3>1. UnsignedSoFar
        BY <1>2, <2>7 DEF ReadingSoFar
      <3>2. IsFloat("power")' => m'["power"].v = Positive(content.net)
        <4>1. CASE e.destination = "power"
          BY <1>4, <2>2, <2>5, <2>7, <4>1 DEF Unsigned, IsFloat
        <4>2. CASE e.destination # "power"
          BY <2>4, <3>1, <4>2 DEF UnsignedSoFar, IsFloat
        <4> QED
          BY <4>1, <4>2
      <3>3. IsFloat("out")' => m'["out"].v = Positive(-content.net)
        <4>1. CASE e.destination = "out"
          BY <1>4, <2>2, <2>5, <2>7, <4>1 DEF Unsigned, IsFloat
        <4>2. CASE e.destination # "out"
          BY <2>4, <3>1, <4>2 DEF UnsignedSoFar, IsFloat
        <4> QED
          BY <4>1, <4>2
      <3> QED
        BY <1>1, <3>2, <3>3 DEF UnsignedSoFar
    <2> QED
      BY <1>1, <2>6, <2>7 DEF ReadingSoFar, Signed, Unsigned
  <1> QED
    BY <1>7, <1>8, <1>9

LEMMA ReadingProcessEvent ==
    ASSUME LackingIsIncomplete, ReadingInvariant, ProcessEvent
    PROVE  EventIsReading'
  <1>1. /\ pc = "mapping" /\ next > Len(mapping) /\ IsFloat("out") /\ IsFloat("power")
        /\ event' = [power |-> m["power"].v, out |-> m["out"].v]
        /\ UNCHANGED <<mapping, content>>
    BY DEF ProcessEvent
  <1>2. MappingInvariant' /\ pc' = "event"
    BY ProcessEventStep DEF ReadingInvariant, ProcessEvent
  <1>3. Complete(content.object, mapping)
    BY <1>1, <1>2 DEF MappingInvariant, EndsOnMismatch
  <1>4. ReadingSoFar /\ mapping \in Mappings /\ content \in Contents /\ content.net \in Int
    BY <1>1, InputTypes DEF ReadingInvariant, MappingInvariant, Control
  <1>5. content.shows # "lacking"
    BY <1>3, <1>4 DEF LackingIsIncomplete
  <1>6. ASSUME content.shows = "exchange"
        PROVE  Exchange' = content.net
    <2>1. event'.power = m["power"].v /\ event'.out = m["out"].v
      BY <1>1
    <2>2. CASE Signed(content, mapping)
      <3>1. SignedSoFar
        BY <1>4, <2>2 DEF ReadingSoFar
      <3> QED
        BY <1>1, <1>4, <2>1, <3>1 DEF SignedSoFar, Exchange, Positive
    <2>3. CASE Unsigned(content, mapping)
      <3>1. UnsignedSoFar
        BY <1>4, <2>3 DEF ReadingSoFar
      <3> QED
        BY <1>1, <1>4, <2>1, <3>1 DEF UnsignedSoFar, Exchange, Positive
    <2> QED
      BY <1>4, <1>6, <2>2, <2>3, MeterAssumption
  <1> QED
    BY <1>1, <1>5, <1>6 DEF EventIsReading

LEMMA ReadingInit == Init => ReadingInvariant
  <1> SUFFICES ASSUME Init PROVE ReadingInvariant
    OBVIOUS
  <1>1. pc = "idle"
    BY DEF Init
  <1> QED
    BY <1>1, InvariantInit DEF ReadingInvariant, EventIsReading

LEMMA ReadingNext ==
    ASSUME OnlyExportSplits, LackingIsIncomplete, ReadingInvariant, [Next]_vars
    PROVE  ReadingInvariant'
  <1>1. MappingInvariant'
    BY InvariantNext DEF ReadingInvariant
  <1>2. CASE UNCHANGED vars
    BY <1>1, <1>2
    DEF vars, ReadingInvariant, EventIsReading, Exchange, ReadingSoFar, SignedSoFar, UnsignedSoFar,
        IsFloat, Signed, Unsigned
  <1>3. CASE \E c \in Contents : Receive(c)
    <2>1. m' = Empty /\ pc' = "mapping"
      BY <1>3 DEF Receive
    <2>2. ReadingSoFar'
      BY <2>1 DEF ReadingSoFar, SignedSoFar, UnsignedSoFar, IsFloat, Empty
    <2> QED
      BY <1>1, <2>1, <2>2 DEF ReadingInvariant, EventIsReading
  <1>4. CASE MapEntry
    <2>1. pc' = "mapping"
      BY <1>4 DEF MapEntry
    <2> QED
      BY <1>1, <1>4, <2>1, ReadingMapEntry DEF ReadingInvariant, EventIsReading
  <1>5. CASE MapFails \/ EventFails
    <2>1. pc = "mapping" /\ UNCHANGED <<mapping, content, pc, m>>
      BY <1>5 DEF MapFails, EventFails, Ends
    <2>2. ReadingSoFar'
      BY <2>1 DEF ReadingInvariant, ReadingSoFar, SignedSoFar, UnsignedSoFar, IsFloat, Signed, Unsigned
    <2> QED
      BY <1>1, <2>1, <2>2 DEF ReadingInvariant, EventIsReading
  <1>6. CASE ProcessEvent
    <2>1. pc' = "event"
      BY <1>6 DEF ProcessEvent
    <2> QED
      BY <1>1, <1>6, <2>1, ReadingProcessEvent DEF ReadingInvariant
  <1> QED
    BY <1>2, <1>3, <1>4, <1>5, <1>6 DEF Next, Gone

(* As long as the mapping splits nothing but an export, the event is the   *)
(* exchange the meter shows, for every mapping with its entries in any     *)
(* order and number, and for signed and unsigned meters; and a message     *)
(* that lacks a value never becomes an event.                              *)
(* (mqtt_parser.go:28-74, mqtt.go:236-258)                                 *)
THEOREM EventCorrect ==
    ASSUME OnlyExportSplits, LackingIsIncomplete
    PROVE  Spec => []EventIsReading
  <1>1. ReadingInvariant /\ [Next]_vars => ReadingInvariant'
    BY ReadingNext
  <1>2. ReadingInvariant => EventIsReading
    BY DEF ReadingInvariant
  <1> QED
    BY <1>1, <1>2, ReadingInit, PTL DEF Spec
=============================================================================
