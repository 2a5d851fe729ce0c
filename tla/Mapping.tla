--------------------------------- MODULE Mapping ---------------------------------
(***************************************************************************)
(* What the event loop makes of the JSON object of a message: createEntry  *)
(* goes over the mapping of the topic and fills a map with the values it   *)
(* finds, processEvent takes "out" and "power" from it. The mapping is     *)
(* configuration; what the meter sends is not under its control.           *)
(*                                                                         *)
(* Numbers are integers that count tenths, so that the conversion to int64 *)
(* shows. A log.Fatal and a panic both end the process.                    *)
(***************************************************************************)
EXTENDS Integers, Sequences

CONSTANTS
    Mappings, \* mappings the topic may be configured with
    Values,   \* values a message may hold, nested ones included
    Contents  \* objects the meter may send, each with what it shows

Leaves == {"number", "numeral", "timestamp", "word", "bool", "null"}
Texts == {"numeral", "timestamp", "word"}
Types == {"int64", "float64", "string", "time.Time", "other"}
Names == {"power", "out", "time"}

(* A leaf of the object; v is 0 if it is no number and does not read as    *)
(* one. An object has more values at its keys.                             *)
Leaf(kind, v) == [kind |-> kind, v |-> v]
Object(at) == [kind |-> "object", at |-> at]

Entry == [source: Seq(STRING), destination: Names, type: Types,
          ifNegative: Names \cup {""}]

Empty == [name \in {} |-> 0]

ASSUME ValueAssumption ==
    /\ Object(Empty) \in Values
    /\ \A i \in Values :
          IF i.kind = "object" THEN \A key \in DOMAIN i.at : i.at[key] \in Values
                               ELSE i.kind \in Leaves /\ i.v \in Int

(* A message shows the exchange with the grid, import positive; or it is   *)
(* "garbled": a number is some other text; or "lacking": a value is not    *)
(* where the meter usually puts it, or of another kind.                    *)
ASSUME MappingAssumption ==
    /\ Mappings \subseteq Seq(Entry)
    /\ \A c \in Contents :
          c.object \in Values /\ c.shows \in {"exchange", "garbled", "lacking"} /\ c.net \in Int

VARIABLES
    mapping,  \* mapping of the topic
    content,  \* content of the message
    pc,       \* "idle", "mapping", "event": where the loop is
    next,     \* entry of the mapping createEntry looks at
    m,        \* map createEntry fills
    event,    \* what processEvent takes from it
    process   \* "running" or "ended"

vars == <<mapping, content, pc, next, m, event, process>>

NoEvent == [power |-> 0, out |-> 0]

Init ==
    /\ mapping \in Mappings /\ content \in Contents
    /\ pc = "idle" /\ next = 1 /\ m = Empty /\ event = NoEvent /\ process = "running"

-----------------------------------------------------------------------------
(* createEntry                                                             *)

(* Mutant: a missing key is passed over.                                   *)
Step_Continues(i, key) ==
    IF i.kind = "object" /\ key \in DOMAIN i.at THEN i.at[key] ELSE i

(* One key of the path. When it is missing the rest of the path is not     *)
(* looked at and the object stands for the value, as an object that has no *)
(* further key does; a leaf in the middle of the path is a panic, as the   *)
(* object will be.                                                         *)
Step(i, key) ==
    IF i.kind = "object" /\ key \in DOMAIN i.at THEN i.at[key] ELSE Object(Empty)

(* What the path e.Source finds in object o.                               *)
Walk(o, path) ==
    LET walk[k \in 0..Len(path)] == IF k = 0 THEN o ELSE Step(walk[k - 1], path[k])
    IN  walk[Len(path)]

(* Kinds of values reflectType converts to each type; it ends the process  *)
(* on any other: a failed type assertion, an assignment reflect refuses, a *)
(* time that cannot be parsed, the default of the float64 case.            *)
Accepts ==
    [type \in Types |->
        CASE type = "float64" -> {"number"} \cup Texts
          [] type = "int64" -> {"number"}
          [] type = "string" -> Texts
          [] type = "time.Time" -> {"timestamp"}
          [] type = "other" -> {}]

Takes(o, e) == Walk(o, e.source).kind \in Accepts[e.type]

(* Mutant: the fraction is kept.                                           *)
Truncated_Never(v) == v

(* int64() cuts towards zero.                                              *)
Truncated(v) == IF v >= 0 THEN 10 * (v \div 10) ELSE -(10 * (-v \div 10))

(* A text that is no number leaves the new float64 at zero.                *)
Converted(o, e) ==
    LET v == Walk(o, e.source).v
    IN  [type |-> e.type,
         v |-> IF e.type = "int64" THEN Truncated(v)
               ELSE IF e.type = "float64" THEN v ELSE 0]

Numeric(e) == e.type \in {"int64", "float64"}
Splits(o, e) == Numeric(e) /\ e.ifNegative # "" /\ Converted(o, e).v < 0

(* m[name] = value                                                         *)
Put(f, name, value) ==
    [x \in DOMAIN f \cup {name} |-> IF x = name THEN value ELSE f[x]]

(* The two names a negative value writes.                                  *)
SplitInto(e, f) ==
    Put(Put(m, e.ifNegative, [f EXCEPT !.v = -@]), e.destination, [f EXCEPT !.v = 0])

(* Mutant: an entry overwrites what a negative value has set.              *)
Filled_Overwrites(o, e) ==
    IF Splits(o, e) THEN SplitInto(e, Converted(o, e))
    ELSE Put(m, e.destination, Converted(o, e))

(* A negative value goes to another name, with its sign turned; a number   *)
(* never replaces what is already set, a text or a time does.              *)
Filled(o, e) ==
    IF Splits(o, e) THEN SplitInto(e, Converted(o, e))
    ELSE IF Numeric(e) /\ e.destination \in DOMAIN m THEN m
    ELSE Put(m, e.destination, Converted(o, e))

Ends ==
    /\ process' = "ended"
    /\ UNCHANGED <<mapping, content, pc, next, m, event>>

-----------------------------------------------------------------------------
(* Actions                                                                 *)

Running == process = "running"

(* json.Unmarshal has made an object of the payload.                       *)
Receive(c) ==
    /\ Running /\ pc \in {"idle", "event"} /\ pc' = "mapping"
    /\ content' = c /\ next' = 1 /\ m' = Empty /\ event' = NoEvent
    /\ UNCHANGED <<mapping, process>>

MapEntry ==
    /\ Running /\ pc = "mapping" /\ next <= Len(mapping)
    /\ Takes(content.object, mapping[next])
    /\ m' = Filled(content.object, mapping[next]) /\ next' = next + 1
    /\ UNCHANGED <<mapping, content, pc, event, process>>

MapFails ==
    /\ Running /\ pc = "mapping" /\ next <= Len(mapping)
    /\ ~Takes(content.object, mapping[next])
    /\ Ends

(* event["out"].(float64), event["power"].(float64)                        *)
IsFloat(name) == name \in DOMAIN m /\ m[name].type = "float64"

(* Mutant: a name that is not set counts as zero.                          *)
ProcessEvent_ZeroIfMissing ==
    /\ Running /\ pc = "mapping" /\ next > Len(mapping)
    /\ pc' = "event"
    /\ event' = [name \in {"power", "out"} |-> IF IsFloat(name) THEN m[name].v ELSE 0]
    /\ UNCHANGED <<mapping, content, next, m, process>>

ProcessEvent ==
    /\ Running /\ pc = "mapping" /\ next > Len(mapping) /\ IsFloat("out") /\ IsFloat("power")
    /\ pc' = "event"
    /\ event' = [power |-> m["power"].v, out |-> m["out"].v]
    /\ UNCHANGED <<mapping, content, next, m, process>>

EventFails ==
    /\ Running /\ pc = "mapping" /\ next > Len(mapping)
    /\ ~(IsFloat("out") /\ IsFloat("power"))
    /\ Ends

(* The process is gone.                                                    *)
Gone == ~Running /\ UNCHANGED vars

Next ==
    \/ \E c \in Contents : Receive(c)
    \/ MapEntry \/ MapFails \/ ProcessEvent \/ EventFails \/ Gone

Spec == Init /\ [][Next]_vars

-----------------------------------------------------------------------------
(* Properties                                                              *)

(* Every variable has its type, and an int64 has no fraction.              *)
TypeOK ==
    /\ mapping \in Mappings /\ content \in Contents
    /\ pc \in {"idle", "mapping", "event"} /\ process \in {"running", "ended"}
    /\ next \in 1..Len(mapping) + 1
    /\ DOMAIN m \subseteq Names
    /\ \A name \in DOMAIN m :
          /\ m[name] \in [type: Types, v: Int]
          /\ m[name].type = "int64" => m[name].v % 10 = 0
    /\ event \in [power: Int, out: Int]

(* What the rest of processEvent makes of an event: power is turned round  *)
(* when it is negative and nothing goes out, and out comes first.          *)
Exchange == IF event.out > 0 THEN -event.out ELSE event.power

(* What the meter shows of a net exchange where the mapping looks for it:  *)
(* a signed power, with or without the export as out, or two unsigned ones.*)
Positive(w) == IF w > 0 THEN w ELSE 0
Found(c, mp, name) ==
    {Walk(c.object, mp[k].source).v : k \in {j \in 1..Len(mp) : mp[j].destination = name}}
Signed(c, mp) ==
    Found(c, mp, "power") \subseteq {c.net} /\ Found(c, mp, "out") \subseteq {0, Positive(-c.net)}
Unsigned(c, mp) ==
    /\ Found(c, mp, "power") \subseteq {Positive(c.net)}
    /\ Found(c, mp, "out") \subseteq {Positive(-c.net)}

Writes(o, e, name) == e.destination = name \/ (Splits(o, e) /\ e.ifNegative = name)
Entries(mp) == {mp[k] : k \in 1..Len(mp)}

(* Each entry finds a value of a kind it can convert, and power and out    *)
(* are set.                                                                *)
Complete(o, mp) ==
    /\ \A e \in Entries(mp) : Takes(o, e)
    /\ \A name \in {"power", "out"} : \E e \in Entries(mp) : Writes(o, e, name)
FloatsOnly(o, mp) ==
    \A e \in Entries(mp) : Writes(o, e, "power") \/ Writes(o, e, "out") => e.type = "float64"

(* The mapping splits nothing but an export shown as a negative power.     *)
OnlyExportSplits ==
    \A mp \in Mappings : \A e \in Entries(mp) :
        e.ifNegative # "" => e.destination = "power" /\ e.ifNegative = "out"

(* What it means that a message lacks a value.                             *)
LackingIsIncomplete ==
    \A c \in Contents, mp \in Mappings : c.shows = "lacking" => ~Complete(c.object, mp)

(* What it means that a message shows the exchange.                        *)
ASSUME MeterAssumption ==
    \A c \in Contents, mp \in Mappings :
        c.shows = "exchange" => Signed(c, mp) \/ Unsigned(c, mp)

(* An event is what the meter has shown: power and out give the exchange   *)
(* with the grid, whichever way the meter shows an export, whether a       *)
(* negative power is split or not, and in whichever order the mapping is   *)
(* written; and no event is made of a message that lacks a value, though   *)
(* another value has the same key. (mqtt_parser.go:28-74, mqtt.go:236-258) *)
EventIsReading ==
    pc = "event" =>
        /\ content.shows # "lacking"
        /\ content.shows = "exchange" => Exchange = content.net

(* A message ends the process only if an entry of the mapping finds no     *)
(* value it can convert, if it leaves power or out unset, as a mapping     *)
(* that only splits a negative power does on the first import, or if one   *)
(* of them is not a float64; and only a complete one becomes an event.     *)
(* (mqtt_parser.go:28-139, mqtt.go:236-237)                                *)
EndsOnMismatch ==
    /\ process = "ended" => ~(Complete(content.object, mapping) /\ FloatsOnly(content.object, mapping))
    /\ pc = "event" => Complete(content.object, mapping)
=============================================================================
