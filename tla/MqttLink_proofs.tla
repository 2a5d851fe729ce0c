----------------------------- MODULE MqttLink_proofs -----------------------------
(***************************************************************************)
(* Proofs about MqttLink, for every bound and every Patience: no message   *)
(* is lost or overtaken, the loop calls itself stuck only when it is, and  *)
(* the keep-alive ends the process over a living link only while an event  *)
(* or the subscription holds up the answer.                                *)
(***************************************************************************)
EXTENDS MqttLink, TLAPS

-----------------------------------------------------------------------------
(* The inductive invariant                                                 *)

(* The loop exists once the subscription is granted.                       *)
LoopStarted == loop = "none" <=> main # "started"

(* The broker answers a keep-alive request at once: the answer is on the   *)
(* wire until it is read.                                                  *)
PongOnWire ==
    ping /\ link = "up" => \E i \in 1..Len(wire) : wire[i].type = "pingresp"

(* try counts ticks since the last message, if none came since the last    *)
(* tick.                                                                   *)
TriesAreQuiet ==
    /\ lastCounter <= taken
    /\ taken = lastCounter => try <= quiet

LinkInvariant ==
    /\ TypeOK /\ InOrder /\ LoopStarted /\ PongOnWire /\ TriesAreQuiet /\ StuckWhenSilent

-----------------------------------------------------------------------------
(* The wire                                                                *)

(* What a packet appended to the wire changes.                             *)
LEMMA Appended ==
    ASSUME wire \in Seq(Packet), NEW p \in Packet, wire' = Append(wire, p)
    PROVE  /\ wire' \in Seq(Packet)
           /\ Len(wire') = Len(wire) + 1
           /\ wire'[Len(wire) + 1] = p
           /\ \A i \in 1..Len(wire) : wire'[i] = wire[i]
  OBVIOUS

(* What the reader leaves of the wire.                                     *)
LEMMA Rest ==
    ASSUME wire \in Seq(Packet), wire # <<>>, wire' = Tail(wire)
    PROVE  /\ wire' \in Seq(Packet)
           /\ Len(wire) \in Nat \ {0}
           /\ Len(wire') = Len(wire) - 1
           /\ Head(wire) = wire[1] /\ wire[1] \in Packet
           /\ \A i \in 1..Len(wire') : wire'[i] = wire[i + 1]
  OBVIOUS

(* A packet that holds no message has number 0 or is none of the messages. *)
LEMMA PacketTypes ==
    /\ \A type \in Answers : Answer(type) \in Packet
    /\ \A type \in Answers : type \notin Messages
    /\ \A type \in Messages, n \in 1..MaxSent : [type |-> type, n |-> n] \in Packet
    /\ \A type \in Messages, n \in 1..MaxSent : [type |-> type, n |-> n] # Nothing
    /\ \A p \in Packet : p.type \in Messages \cup Answers /\ p.n \in 0..MaxSent
  <1>1. \A type \in Answers : Answer(type) \in Packet
    BY LinkAssumption DEF Packet, Answer
  <1>2. \A type \in Answers : type \notin Messages
    BY DEF Answers, Messages
  <1>3. \A type \in Messages, n \in 1..MaxSent : [type |-> type, n |-> n] \in Packet
    BY LinkAssumption DEF Packet
  <1>4. \A type \in Messages, n \in 1..MaxSent : [type |-> type, n |-> n] # Nothing
    <2> SUFFICES ASSUME NEW type \in Messages, NEW n \in 1..MaxSent,
                        [type |-> type, n |-> n] = Nothing
                 PROVE  FALSE
      OBVIOUS
    <2>1. type = "none"
      BY DEF Nothing, Answer
    <2> QED
      BY <2>1 DEF Messages
  <1>5. \A p \in Packet : p.type \in Messages \cup Answers /\ p.n \in 0..MaxSent
    BY DEF Packet
  <1> QED
    BY <1>1, <1>2, <1>3, <1>4, <1>5

-----------------------------------------------------------------------------
(* The initial state                                                       *)

LEMMA InvariantInit == Init => LinkInvariant
  <1> SUFFICES ASSUME Init PROVE LinkInvariant
    OBVIOUS
  <1>1. wire \in Seq(Packet) /\ Len(wire) = 0
    BY DEF Init
  <1>2. TypeOK
    <2>1. process = "running" /\ main = "connect" /\ loop = "none" /\ link = "up"
      BY DEF Init
    <2>2. reader \in Held /\ router \in Held
      BY DEF Init, Held
    <2>3. /\ sent = 0 /\ taken = 0 /\ lastCounter = 0 /\ try = 0 /\ quiet = 0
          /\ owed = FALSE /\ ping = FALSE
      BY DEF Init
    <2>4. 0 \in 0..MaxSent /\ 0 \in 0..Patience + 1 /\ 0 \in 0..Patience + 2 /\ 0 <= MaxWire
      BY LinkAssumption
    <2> QED
      BY <1>1, <2>1, <2>2, <2>3, <2>4 DEF TypeOK
  <1>3. InOrder
    BY <1>1 DEF Init, InOrder, AtReader, AtRouter
  <1>4. LoopStarted /\ PongOnWire /\ TriesAreQuiet /\ StuckWhenSilent
    BY DEF Init, LoopStarted, PongOnWire, TriesAreQuiet, StuckWhenSilent
  <1> QED
    BY <1>2, <1>3, <1>4 DEF LinkInvariant

-----------------------------------------------------------------------------
(* The order of the messages                                               *)

(* A step that moves no message keeps their order.                         *)
LEMMA OrderUntouched ==
    ASSUME InOrder, UNCHANGED <<wire, sent, reader, router, taken>>
    PROVE  InOrder'
  BY DEF InOrder, IsMessage, AtReader, AtRouter

(* The numbers of the messages that are held or on the wire.               *)
LEMMA Numbers ==
    ASSUME TypeOK, InOrder
    PROVE  /\ taken \in Nat /\ sent \in Nat /\ sent <= MaxSent
           /\ AtRouter \in Nat /\ AtReader \in Nat
           /\ taken <= AtRouter /\ AtRouter <= AtReader /\ AtReader <= sent
           /\ Len(wire) \in Nat
           /\ \A i \in 1..Len(wire) : wire[i] \in Packet /\ wire[i].n \in Nat
  <1>1. wire \in Seq(Packet) /\ taken \in Nat /\ sent \in Nat /\ sent <= MaxSent
    <2>1. wire \in Seq(Packet) /\ taken \in 0..MaxSent /\ sent \in 0..MaxSent
      BY DEF TypeOK
    <2> QED
      BY <2>1, LinkAssumption
  <1>2. AtRouter \in Nat /\ taken <= AtRouter
    BY <1>1 DEF AtRouter
  <1>3. AtReader \in Nat /\ AtRouter <= AtReader
    BY <1>2 DEF AtReader
  <1>4. \A i \in 1..Len(wire) : wire[i] \in Packet /\ wire[i].n \in Nat
    <2> SUFFICES ASSUME NEW i \in 1..Len(wire) PROVE wire[i] \in Packet /\ wire[i].n \in Nat
      OBVIOUS
    <2>1. wire[i] \in Packet
      BY <1>1
    <2> QED
      BY <2>1, PacketTypes, LinkAssumption
  <1>5. Len(wire) \in Nat
    BY <1>1
  <1> QED
    BY <1>1, <1>2, <1>3, <1>4, <1>5 DEF InOrder

(* A message the broker sends is the last one on the wire.                 *)
LEMMA OrderSent ==
    ASSUME TypeOK, InOrder, NEW type \in Messages, SendMessage(type)
    PROVE  InOrder'
  <1> DEFINE p == [type |-> type, n |-> sent + 1]
  <1>1. /\ sent < MaxSent /\ sent' = sent + 1 /\ wire' = Append(wire, p)
        /\ UNCHANGED <<reader, router, taken>>
    BY DEF SendMessage, BrokerStep, counters
  <1>2. p \in Packet /\ p.type \in Messages /\ p.n = sent + 1
    BY <1>1, PacketTypes, Numbers, LinkAssumption
  <1>3. wire \in Seq(Packet)
    BY DEF TypeOK
  <1> HIDE DEF p
  <1>4. /\ Len(wire') = Len(wire) + 1 /\ wire'[Len(wire) + 1] = p
        /\ \A i \in 1..Len(wire) : wire'[i] = wire[i]
    BY <1>1, <1>2, <1>3, Appended
  <1>5. AtReader' = AtReader /\ AtRouter' = AtRouter
    BY <1>1 DEF AtReader, AtRouter
  <1>6. AtReader' <= sent'
    BY <1>1, <1>5, Numbers
  <1>7. /\ router' # Nothing => router'.n = AtRouter'
        /\ reader' # Nothing => reader'.n = AtReader'
    BY <1>1, <1>5 DEF InOrder
  <1>8. \A i \in 1..Len(wire') : IsMessage(i)' => wire'[i].n \in AtReader' + 1 .. sent'
    BY <1>1, <1>2, <1>4, <1>5, Numbers DEF InOrder, IsMessage
  <1>9. \A i, j \in 1..Len(wire') :
           i < j /\ IsMessage(i)' /\ IsMessage(j)' => wire'[i].n < wire'[j].n
    <2> SUFFICES ASSUME NEW i \in 1..Len(wire'), NEW j \in 1..Len(wire'),
                        i < j, IsMessage(i)', IsMessage(j)'
                 PROVE  wire'[i].n < wire'[j].n
      OBVIOUS
    <2>1. i \in 1..Len(wire) /\ wire'[i] = wire[i] /\ IsMessage(i)
      BY <1>4, Numbers DEF IsMessage
    <2>2. CASE j \in 1..Len(wire)
      BY <1>4, <2>1, <2>2 DEF InOrder, IsMessage
    <2>3. CASE j = Len(wire) + 1
      <3>1. wire[i].n <= sent
        BY <2>1, Numbers DEF InOrder
      <3> QED
        BY <1>2, <1>4, <2>1, <2>3, <3>1, Numbers
    <2> QED
      BY <1>4, <2>2, <2>3, Numbers
  <1>10. \A n \in AtReader' + 1 .. sent' :
            \E i \in 1..Len(wire') : IsMessage(i)' /\ wire'[i].n = n
    <2> SUFFICES ASSUME NEW n \in AtReader + 1 .. sent + 1
                 PROVE  \E i \in 1..Len(wire') : IsMessage(i)' /\ wire'[i].n = n
      BY <1>1, <1>5
    <2>1. CASE n = sent + 1
      <3>1. Len(wire) + 1 \in 1..Len(wire')
        BY <1>4, Numbers
      <3> QED
        BY <1>2, <1>4, <2>1, <3>1 DEF IsMessage
    <2>2. CASE n \in AtReader + 1 .. sent
      <3>1. PICK i \in 1..Len(wire) : IsMessage(i) /\ wire[i].n = n
        BY <2>2 DEF InOrder
      <3>2. i \in 1..Len(wire')
        BY <1>4, Numbers
      <3> QED
        BY <1>4, <3>1, <3>2 DEF IsMessage
    <2> QED
      BY <2>1, <2>2, Numbers
  <1> QED
    BY <1>6, <1>7, <1>8, <1>9, <1>10 DEF InOrder

(* An answer of the broker takes its place behind the messages.            *)
LEMMA OrderAnswered ==
    ASSUME TypeOK, InOrder, NEW type \in Answers, wire' = Append(wire, Answer(type)),
           UNCHANGED <<sent, reader, router, taken>>
    PROVE  InOrder'
  <1>1. wire \in Seq(Packet) /\ Answer(type) \in Packet
    BY PacketTypes DEF TypeOK
  <1>2. /\ Len(wire') = Len(wire) + 1 /\ wire'[Len(wire) + 1] = Answer(type)
        /\ \A i \in 1..Len(wire) : wire'[i] = wire[i]
    BY <1>1, Appended
  <1>3. AtReader' = AtReader /\ AtRouter' = AtRouter
    BY DEF AtReader, AtRouter
  <1>4. \A i \in 1..Len(wire') : IsMessage(i)' =>
            i \in 1..Len(wire) /\ wire'[i] = wire[i] /\ IsMessage(i)
    <2>1. Answer(type).type \notin Messages
      BY PacketTypes DEF Answer
    <2> QED
      BY <1>2, <2>1, Numbers DEF IsMessage
  <1>5. \A i \in 1..Len(wire) : IsMessage(i) =>
            i \in 1..Len(wire') /\ wire'[i] = wire[i] /\ IsMessage(i)'
    BY <1>2, Numbers DEF IsMessage
  <1>6. /\ AtReader' <= sent'
        /\ router' # Nothing => router'.n = AtRouter'
        /\ reader' # Nothing => reader'.n = AtReader'
    BY <1>3 DEF InOrder
  <1>7. \A i \in 1..Len(wire') : IsMessage(i)' => wire'[i].n \in AtReader' + 1 .. sent'
    BY <1>3, <1>4 DEF InOrder
  <1>8. \A i, j \in 1..Len(wire') :
           i < j /\ IsMessage(i)' /\ IsMessage(j)' => wire'[i].n < wire'[j].n
    BY <1>4 DEF InOrder
  <1>9. \A n \in AtReader' + 1 .. sent' :
            \E i \in 1..Len(wire') : IsMessage(i)' /\ wire'[i].n = n
    <2> SUFFICES ASSUME NEW n \in AtReader + 1 .. sent
                 PROVE  \E i \in 1..Len(wire') : IsMessage(i)' /\ wire'[i].n = n
      BY <1>3
    <2>1. PICK i \in 1..Len(wire) : IsMessage(i) /\ wire[i].n = n
      BY DEF InOrder
    <2> QED
      BY <1>5, <2>1
  <1> QED
    BY <1>6, <1>7, <1>8, <1>9 DEF InOrder

(* The reader takes the next message; its number follows the last one.     *)
LEMMA OrderRead ==
    ASSUME TypeOK, InOrder, ReadMessage
    PROVE  InOrder' /\ reader' \in Held
  <1>1. /\ wire # <<>> /\ wire' = Tail(wire) /\ reader = Nothing
        /\ reader' = Head(wire) /\ Head(wire).type \in Messages
        /\ UNCHANGED <<sent, router, taken>>
    BY DEF ReadMessage, Read, CanRead, counters
  <1>2. wire \in Seq(Packet)
    BY DEF TypeOK
  <1>3. /\ Len(wire) \in Nat \ {0} /\ Len(wire') = Len(wire) - 1
        /\ Head(wire) = wire[1] /\ wire[1] \in Packet
        /\ \A i \in 1..Len(wire') : wire'[i] = wire[i + 1]
    BY <1>1, <1>2, Rest
  <1>4. 1 \in 1..Len(wire) /\ IsMessage(1) /\ wire[1].n \in AtReader + 1 .. sent
    BY <1>1, <1>3 DEF InOrder, IsMessage
  <1>5. wire[1].n = AtReader + 1
    <2>1. PICK k \in 1..Len(wire) : IsMessage(k) /\ wire[k].n = AtReader + 1
      BY <1>4, Numbers DEF InOrder
    <2>2. k = 1 \/ wire[1].n < wire[k].n
      BY <1>4, <2>1 DEF InOrder
    <2> QED
      BY <1>4, <2>1, <2>2, Numbers
  <1>6. reader' # Nothing
    <2>1. Nothing.type \notin Messages
      BY DEF Nothing, Answer, Messages
    <2> QED
      BY <1>1, <2>1
  <1>7. AtRouter' = AtRouter /\ AtReader = AtRouter /\ AtReader' = AtReader + 1
    BY <1>1, <1>6 DEF AtReader, AtRouter
  <1>8. reader'.n = AtReader' /\ AtReader' <= sent'
    BY <1>1, <1>3, <1>4, <1>5, <1>7, Numbers
  <1>9. reader' \in Held
    <2>1. wire[1].n \in 1..MaxSent
      BY <1>4, Numbers, LinkAssumption
    <2> QED
      BY <1>1, <1>3, <2>1 DEF Held, Packet
  <1>10. \A i \in 1..Len(wire') : IsMessage(i)' =>
            /\ i + 1 \in 1..Len(wire) /\ IsMessage(i + 1) /\ wire'[i] = wire[i + 1]
            /\ wire[1].n < wire[i + 1].n
    BY <1>3, <1>4 DEF IsMessage, InOrder
  <1>11. \A i \in 1..Len(wire') : IsMessage(i)' => wire'[i].n \in AtReader' + 1 .. sent'
    BY <1>1, <1>5, <1>7, <1>10, Numbers DEF InOrder
  <1>12. \A i, j \in 1..Len(wire') :
            i < j /\ IsMessage(i)' /\ IsMessage(j)' => wire'[i].n < wire'[j].n
    <2> SUFFICES ASSUME NEW i \in 1..Len(wire'), NEW j \in 1..Len(wire'),
                        i < j, IsMessage(i)', IsMessage(j)'
                 PROVE  wire'[i].n < wire'[j].n
      OBVIOUS
    <2>1. i + 1 < j + 1
      OBVIOUS
    <2> QED
      BY <1>10, <2>1 DEF InOrder
  <1>13. \A n \in AtReader' + 1 .. sent' :
            \E i \in 1..Len(wire') : IsMessage(i)' /\ wire'[i].n = n
    <2> SUFFICES ASSUME NEW n \in AtReader + 2 .. sent
                 PROVE  \E i \in 1..Len(wire') : IsMessage(i)' /\ wire'[i].n = n
      <3>1. AtReader' + 1 = AtReader + 2 /\ sent' = sent
        BY <1>1, <1>7, Numbers
      <3> QED
        BY <3>1
    <2>1. n \in AtReader + 1 .. sent
      BY Numbers
    <2>2. PICK k \in 1..Len(wire) : IsMessage(k) /\ wire[k].n = n
      BY <2>1 DEF InOrder
    <2>3. k # 1
      BY <1>5, <2>2, Numbers
    <2>4. k - 1 \in 1..Len(wire') /\ wire'[k - 1] = wire[k]
      BY <1>3, <2>3
    <2> QED
      BY <2>2, <2>4 DEF IsMessage
  <1>14. router' # Nothing => router'.n = AtRouter'
    BY <1>1, <1>7 DEF InOrder
  <1> QED
    BY <1>8, <1>9, <1>11, <1>12, <1>13, <1>14 DEF InOrder

(* An answer that is read leaves the messages behind it.                   *)
LEMMA OrderReadAnswer ==
    ASSUME TypeOK, InOrder, wire # <<>>, wire' = Tail(wire),
           Head(wire).type \notin Messages, UNCHANGED <<sent, reader, router, taken>>
    PROVE  InOrder'
  <1>1. wire \in Seq(Packet)
    BY DEF TypeOK
  <1>2. /\ Len(wire) \in Nat \ {0} /\ Len(wire') = Len(wire) - 1
        /\ Head(wire) = wire[1]
        /\ \A i \in 1..Len(wire') : wire'[i] = wire[i + 1]
    BY <1>1, Rest
  <1>3. AtReader' = AtReader /\ AtRouter' = AtRouter
    BY DEF AtReader, AtRouter
  <1>4. \A i \in 1..Len(wire') : IsMessage(i)' =>
            i + 1 \in 1..Len(wire) /\ IsMessage(i + 1) /\ wire'[i] = wire[i + 1]
    BY <1>2 DEF IsMessage
  <1>5. \A k \in 1..Len(wire) : IsMessage(k) =>
            k - 1 \in 1..Len(wire') /\ IsMessage(k - 1)' /\ wire'[k - 1] = wire[k]
    BY <1>2 DEF IsMessage
  <1>6. /\ AtReader' <= sent'
        /\ router' # Nothing => router'.n = AtRouter'
        /\ reader' # Nothing => reader'.n = AtReader'
    BY <1>3 DEF InOrder
  <1>7. \A i \in 1..Len(wire') : IsMessage(i)' => wire'[i].n \in AtReader' + 1 .. sent'
    BY <1>3, <1>4 DEF InOrder
  <1>8. \A i, j \in 1..Len(wire') :
           i < j /\ IsMessage(i)' /\ IsMessage(j)' => wire'[i].n < wire'[j].n
    <2> SUFFICES ASSUME NEW i \in 1..Len(wire'), NEW j \in 1..Len(wire'),
                        i < j, IsMessage(i)', IsMessage(j)'
                 PROVE  wire'[i].n < wire'[j].n
      OBVIOUS
    <2>1. i + 1 < j + 1
      OBVIOUS
    <2> QED
      BY <1>4, <2>1 DEF InOrder
  <1>9. \A n \in AtReader' + 1 .. sent' :
            \E i \in 1..Len(wire') : IsMessage(i)' /\ wire'[i].n = n
    <2> SUFFICES ASSUME NEW n \in AtReader + 1 .. sent
                 PROVE  \E i \in 1..Len(wire') : IsMessage(i)' /\ wire'[i].n = n
      BY <1>3
    <2>1. PICK k \in 1..Len(wire) : IsMessage(k) /\ wire[k].n = n
      BY DEF InOrder
    <2> QED
      BY <1>5, <2>1
  <1> QED
    BY <1>6, <1>7, <1>8, <1>9 DEF InOrder

(* The router takes the reader's message, the loop the router's.           *)
LEMMA OrderHandedOver ==
    ASSUME TypeOK, InOrder, Route \/ TakeMessage
    PROVE  InOrder'
  <1>1. CASE Route
    <2>1. /\ reader # Nothing /\ router = Nothing /\ router' = reader /\ reader' = Nothing
          /\ UNCHANGED <<wire, sent, taken>>
      BY <1>1 DEF Route, CanRoute, brokerVars, counters
    <2>2. AtRouter' = AtReader /\ AtReader' = AtReader
      BY <2>1 DEF AtReader, AtRouter
    <2>3. router'.n = AtRouter'
      BY <2>1, <2>2 DEF InOrder
    <2> QED
      BY <2>1, <2>2, <2>3 DEF InOrder, IsMessage
  <1>2. CASE TakeMessage
    <2>1. /\ router # Nothing /\ router' = Nothing /\ taken' = taken + 1
          /\ UNCHANGED <<wire, sent, reader>>
      BY <1>2 DEF TakeMessage, CanTake, brokerVars
    <2>2. AtReader' = AtReader
      BY <2>1 DEF AtReader, AtRouter
    <2> QED
      BY <2>1, <2>2 DEF InOrder, IsMessage
  <1> QED
    BY <1>1, <1>2

(* Every step keeps the order.                                             *)
LEMMA OrderNext ==
    ASSUME LinkInvariant, [Next]_vars
    PROVE  InOrder'
  <1> USE DEF LinkInvariant
  <1>1. CASE \E type \in Messages : SendMessage(type)
    BY <1>1, OrderSent
  <1>2. CASE AnswerSubscription \/ Leave
    <2>1. \E type \in Answers : wire' = Append(wire, Answer(type))
      BY <1>2 DEF AnswerSubscription, Leave, BrokerStep, Answers
    <2>2. UNCHANGED <<sent, reader, router, taken>>
      BY <1>2 DEF AnswerSubscription, Leave, BrokerStep, counters
    <2> QED
      BY <2>1, <2>2, OrderAnswered
  <1>3. CASE Ping
    <2>1. UNCHANGED <<sent, reader, router, taken>>
      BY <1>3 DEF Ping, counters
    <2>2. CASE link = "up"
      <3>1. wire' = Append(wire, Answer("pingresp")) /\ "pingresp" \in Answers
        BY <1>3, <2>2 DEF Ping, Answers
      <3> QED
        BY <2>1, <3>1, OrderAnswered
    <2>3. CASE link # "up"
      BY <1>3, <2>1, <2>3, OrderUntouched DEF Ping
    <2> QED
      BY <2>2, <2>3
  <1>4. CASE ReadMessage
    BY <1>4, OrderRead
  <1>5. CASE ReadSubscribed \/ ReadPong \/ ReadDisconnect
    <2>1. /\ wire # <<>> /\ wire' = Tail(wire)
          /\ UNCHANGED <<sent, reader, router, taken>>
      BY <1>5 DEF ReadSubscribed, ReadPong, ReadDisconnect, Read, CanRead, counters
    <2>2. Head(wire).type \in Answers
      BY <1>5 DEF ReadSubscribed, ReadPong, ReadDisconnect, Answers
    <2> QED
      BY <2>1, <2>2, PacketTypes, OrderReadAnswer
  <1>6. CASE Route \/ TakeMessage
    BY <1>6, OrderHandedOver
  <1>7. CASE Connect \/ LinkDies \/ EndEvent \/ Tick
    <2>1. UNCHANGED <<wire, sent, reader, router, taken>>
      BY <1>7 DEF Connect, LinkDies, EndEvent, Tick, TickOf, brokerVars, clientVars, counters
    <2> QED
      BY <2>1, OrderUntouched
  <1>8. CASE ConnectFails \/ SubscribeFails \/ ClientError \/ EventFatal
    <2>1. UNCHANGED <<wire, sent, reader, router, taken>>
      BY <1>8 DEF ConnectFails, SubscribeFails, ClientError, EventFatal, Ends,
                  brokerVars, clientVars, counters
    <2> QED
      BY <2>1, OrderUntouched
  <1>9. CASE UNCHANGED vars
    <2>1. UNCHANGED <<wire, sent, reader, router, taken>>
      BY <1>9 DEF vars, brokerVars, clientVars, counters
    <2> QED
      BY <2>1, OrderUntouched
  <1>10. CASE Gone
    BY <1>9, <1>10 DEF Gone
  <1> QED
    BY <1>1, <1>2, <1>3, <1>4, <1>5, <1>6, <1>7, <1>8, <1>9, <1>10 DEF Next, Broker, Reader

-----------------------------------------------------------------------------
(* Type correctness                                                        *)

TypeOfControl ==
    /\ process \in {"running", "fatal", "exit 100", "exit 10"}
    /\ main \in {"connect", "subscribe", "started"}
    /\ link \in {"up", "dead", "left", "closed"}
    /\ loop \in {"none", "select", "busy"}
    /\ owed \in BOOLEAN /\ ping \in BOOLEAN

TypeOfData ==
    /\ wire \in Seq(Packet) /\ Len(wire) <= MaxWire
    /\ reader \in Held /\ router \in Held

TypeOfNumbers ==
    /\ sent \in 0..MaxSent /\ taken \in 0..MaxSent /\ lastCounter \in 0..MaxSent
    /\ try \in 0..Patience + 1 /\ quiet \in 0..Patience + 2

LEMMA TypeParts == TypeOK <=> TypeOfControl /\ TypeOfData /\ TypeOfNumbers
  BY DEF TypeOK, TypeOfControl, TypeOfData, TypeOfNumbers

LEMMA ControlNext ==
    ASSUME TypeOfControl, [Next]_vars
    PROVE  TypeOfControl'
  <1> USE DEF TypeOfControl
  <1>1. CASE Connect \/ LinkDies \/ EndEvent
    BY <1>1 DEF Connect, LinkDies, EndEvent, brokerVars, clientVars
  <1>2. CASE ConnectFails \/ SubscribeFails \/ ClientError \/ EventFatal
    BY <1>2 DEF ConnectFails, SubscribeFails, ClientError, EventFatal, Ends,
                brokerVars, clientVars
  <1>3. CASE (\E type \in Messages : SendMessage(type)) \/ AnswerSubscription \/ Leave
    BY <1>3 DEF SendMessage, AnswerSubscription, Leave, BrokerStep
  <1>4. CASE Ping
    BY <1>4 DEF Ping
  <1>5. CASE Reader
    BY <1>5 DEF Reader, ReadMessage, ReadSubscribed, ReadPong, ReadDisconnect, Read
  <1>6. CASE Route \/ TakeMessage
    BY <1>6 DEF Route, TakeMessage, brokerVars
  <1>7. CASE Tick
    BY <1>7 DEF Tick, TickOf, brokerVars, clientVars
  <1>8. CASE UNCHANGED vars
    BY <1>8 DEF vars, brokerVars, clientVars
  <1> QED
    BY <1>1, <1>2, <1>3, <1>4, <1>5, <1>6, <1>7, <1>8 DEF Next, Broker, Gone

LEMMA DataNext ==
    ASSUME LinkInvariant, [Next]_vars
    PROVE  TypeOfData'
  <1>1. TypeOK /\ InOrder /\ TypeOfData
    BY TypeParts DEF LinkInvariant
  <1>2. wire \in Seq(Packet) /\ Len(wire) <= MaxWire /\ reader \in Held /\ router \in Held
    BY <1>1 DEF TypeOfData
  <1>3. CASE \E p \in Packet : BrokerStep(p)
    <2>1. PICK p \in Packet : BrokerStep(p)
      BY <1>3
    <2>2. Len(wire) < MaxWire /\ wire' = Append(wire, p) /\ UNCHANGED <<reader, router>>
      BY <2>1 DEF BrokerStep
    <2>3. wire' \in Seq(Packet) /\ Len(wire') = Len(wire) + 1
      BY <1>2, <2>2, Appended
    <2> QED
      BY <1>2, <2>2, <2>3, LinkAssumption DEF TypeOfData
  <1>4. CASE \E type \in Messages : SendMessage(type)
    <2>1. PICK type \in Messages : SendMessage(type)
      BY <1>4
    <2>2. sent < MaxSent /\ sent' = sent + 1 /\ BrokerStep([type |-> type, n |-> sent'])
      BY <2>1 DEF SendMessage
    <2>3. [type |-> type, n |-> sent'] \in Packet
      <3>1. sent' \in 1..MaxSent
        BY <1>1, <2>2, Numbers, LinkAssumption
      <3> QED
        BY <3>1, PacketTypes
    <2> QED
      BY <1>3, <2>2, <2>3
  <1>5. CASE AnswerSubscription \/ Leave
    <2>1. \E type \in Answers : BrokerStep(Answer(type))
      BY <1>5 DEF AnswerSubscription, Leave, Answers
    <2> QED
      BY <1>3, <2>1, PacketTypes
  <1>6. CASE Ping
    <2>1. CASE link = "up"
      <3>1. Len(wire) < MaxWire /\ wire' = Append(wire, Answer("pingresp"))
            /\ UNCHANGED <<reader, router>>
        BY <1>6, <2>1 DEF Ping
      <3>2. Answer("pingresp") \in Packet
        BY PacketTypes DEF Answers
      <3>3. wire' \in Seq(Packet) /\ Len(wire') = Len(wire) + 1
        BY <1>2, <3>1, <3>2, Appended
      <3> QED
        BY <1>2, <3>1, <3>3, LinkAssumption DEF TypeOfData
    <2>2. CASE link # "up"
      BY <1>2, <1>6, <2>2 DEF Ping, TypeOfData
    <2> QED
      BY <2>1, <2>2
  <1>7. CASE Reader
    <2>1. wire # <<>> /\ wire' = Tail(wire) /\ UNCHANGED router
      BY <1>7 DEF Reader, ReadMessage, ReadSubscribed, ReadPong, ReadDisconnect, Read, CanRead
    <2>2. wire' \in Seq(Packet) /\ Len(wire') = Len(wire) - 1 /\ Len(wire) \in Nat
      BY <1>2, <2>1, Rest
    <2>3. reader' \in Held
      <3>1. CASE ReadMessage
        BY <1>1, <3>1, OrderRead
      <3>2. CASE ~ReadMessage
        BY <1>2, <1>7, <3>2 DEF Reader, ReadSubscribed, ReadPong, ReadDisconnect
      <3> QED
        BY <3>1, <3>2
    <2> QED
      BY <1>2, <2>1, <2>2, <2>3, LinkAssumption DEF TypeOfData
  <1>8. CASE Route \/ TakeMessage
    BY <1>2, <1>8 DEF Route, TakeMessage, brokerVars, TypeOfData, Held
  <1>9. CASE Connect \/ LinkDies \/ EndEvent \/ Tick
    <2>1. UNCHANGED <<wire, reader, router>>
      BY <1>9 DEF Connect, LinkDies, EndEvent, Tick, TickOf, brokerVars, clientVars
    <2> QED
      BY <1>2, <2>1 DEF TypeOfData
  <1>10. CASE ConnectFails \/ SubscribeFails \/ ClientError \/ EventFatal
    <2>1. UNCHANGED <<wire, reader, router>>
      BY <1>10 DEF ConnectFails, SubscribeFails, ClientError, EventFatal, Ends,
                   brokerVars, clientVars
    <2> QED
      BY <1>2, <2>1 DEF TypeOfData
  <1>11. CASE UNCHANGED vars
    BY <1>2, <1>11 DEF vars, brokerVars, clientVars, TypeOfData
  <1> QED
    BY <1>4, <1>5, <1>6, <1>7, <1>8, <1>9, <1>10, <1>11 DEF Next, Broker, Gone

(* The ticks and the counters.                                             *)
LEMMA CountersNext ==
    ASSUME LinkInvariant, [Next]_vars
    PROVE  TypeOfNumbers' /\ TriesAreQuiet' /\ StuckWhenSilent'
  <1>1. /\ TypeOfNumbers /\ TriesAreQuiet /\ StuckWhenSilent /\ TypeOK /\ InOrder
        /\ Patience \in Nat /\ MaxSent \in Nat
    BY TypeParts, LinkAssumption DEF LinkInvariant
  <1>2. /\ sent \in Nat /\ sent <= MaxSent /\ taken \in Nat /\ taken <= MaxSent
        /\ lastCounter \in Nat /\ lastCounter <= taken
        /\ try \in Nat /\ try <= Patience + 1 /\ quiet \in Nat /\ quiet <= Patience + 2
    BY <1>1 DEF TypeOfNumbers, TriesAreQuiet
  <1>3. ASSUME process' \in {process, "fatal", "exit 100"}, UNCHANGED counters,
               sent' = sent \/ (sent < MaxSent /\ sent' = sent + 1)
        PROVE  TypeOfNumbers' /\ TriesAreQuiet' /\ StuckWhenSilent'
    <2>1. UNCHANGED <<taken, lastCounter, try, quiet>>
      BY <1>3 DEF counters
    <2>2. TriesAreQuiet' /\ StuckWhenSilent'
      BY <1>1, <1>3, <2>1 DEF TriesAreQuiet, StuckWhenSilent
    <2>3. sent' \in 0..MaxSent
      <3>1. sent \in Nat /\ sent <= MaxSent /\ MaxSent \in Nat
        BY <1>2, LinkAssumption
      <3>2. CASE sent' = sent
        BY <3>1, <3>2
      <3>3. CASE sent < MaxSent /\ sent' = sent + 1
        BY <3>1, <3>3
      <3> QED
        BY <1>3, <3>2, <3>3
    <2> QED
      BY <1>1, <2>1, <2>2, <2>3 DEF TypeOfNumbers
  <1>4. CASE Connect \/ LinkDies \/ EndEvent
    BY <1>3, <1>4 DEF Connect, LinkDies, EndEvent, brokerVars
  <1>5. CASE ConnectFails \/ SubscribeFails \/ ClientError \/ EventFatal
    BY <1>3, <1>5 DEF ConnectFails, SubscribeFails, ClientError, EventFatal, Ends, brokerVars
  <1>6. CASE \E type \in Messages : SendMessage(type)
    BY <1>3, <1>6 DEF SendMessage, BrokerStep
  <1>7. CASE AnswerSubscription \/ Leave
    BY <1>3, <1>7 DEF AnswerSubscription, Leave, BrokerStep
  <1>8. CASE Ping
    BY <1>3, <1>8 DEF Ping
  <1>9. CASE Reader
    BY <1>3, <1>9 DEF Reader, ReadMessage, ReadSubscribed, ReadPong, ReadDisconnect, Read
  <1>10. CASE Route
    BY <1>3, <1>10 DEF Route, brokerVars
  <1>11. CASE TakeMessage
    <2>1. /\ router # Nothing /\ taken' = taken + 1 /\ quiet' = 0
          /\ UNCHANGED <<process, sent, lastCounter, try>> /\ process = "running"
      BY <1>11 DEF TakeMessage, CanTake, brokerVars, Running
    <2>2. taken + 1 <= MaxSent
      <3>1. AtRouter = taken + 1
        BY <2>1 DEF AtRouter
      <3> QED
        BY <1>1, <1>2, <3>1, Numbers
    <2>3. taken' # lastCounter' /\ lastCounter' <= taken'
      BY <1>2, <2>1
    <2>4. TypeOfNumbers'
      BY <1>1, <1>2, <2>1, <2>2 DEF TypeOfNumbers
    <2> QED
      BY <2>1, <2>3, <2>4 DEF TriesAreQuiet, StuckWhenSilent
  <1>12. CASE Tick
    <2>1. /\ lastCounter' = taken /\ UNCHANGED <<taken, sent>> /\ process = "running"
          /\ quiet' = IF quiet < Patience + 2 THEN quiet + 1 ELSE quiet
      BY <1>12 DEF Tick, TickOf, brokerVars, Running
    <2>2. quiet' \in Nat /\ quiet' <= Patience + 2 /\ quiet' >= quiet
          /\ (quiet' = quiet + 1 \/ quiet' = Patience + 2)
      BY <1>1, <1>2, <2>1
    <2>3. CASE CloseIfStuck /\ taken = lastCounter /\ try > Patience
      <3>1. process' = "exit 10" /\ try' = try
        BY <1>12, <2>3 DEF Tick, TickOf
      <3>2. quiet >= Patience + 1
        BY <1>1, <1>2, <2>3 DEF TriesAreQuiet
      <3>3. quiet' = Patience + 2
        BY <1>1, <1>2, <2>2, <3>2
      <3>4. try \in Nat /\ try <= Patience + 1 /\ Patience \in Nat /\ taken \in Nat
        BY <1>2, LinkAssumption
      <3>5. try' <= quiet' /\ lastCounter' <= taken' /\ quiet' \in 0..Patience + 2
        <4>1. lastCounter' = taken /\ taken' = taken
          BY <2>1
        <4>2. lastCounter' <= taken'
          BY <3>4, <4>1
        <4>3. try <= Patience + 2
          BY <3>4
        <4>4. try' <= quiet'
          BY <3>1, <3>3, <4>3
        <4>5. Patience + 2 \in 0..Patience + 2
          BY <3>4
        <4> QED
          BY <3>3, <4>2, <4>4, <4>5
      <3>6. TypeOfNumbers'
        BY <1>1, <2>1, <3>1, <3>5 DEF TypeOfNumbers
      <3> QED
        BY <3>3, <3>5, <3>6 DEF TriesAreQuiet, StuckWhenSilent
    <2>4. CASE CloseIfStuck /\ taken = lastCounter /\ ~(try > Patience)
      <3>1. process' = "running" /\ try' = try + 1
        BY <1>12, <2>1, <2>4 DEF Tick, TickOf
      <3>2. try <= quiet
        BY <1>1, <2>4 DEF TriesAreQuiet
      <3>3. try' \in 0..Patience + 1 /\ try' <= quiet'
        BY <1>1, <1>2, <2>2, <2>4, <3>1, <3>2
      <3> QED
        BY <1>1, <1>2, <2>1, <2>2, <3>1, <3>3
           DEF TypeOfNumbers, TriesAreQuiet, StuckWhenSilent
    <2>5. CASE ~(CloseIfStuck /\ taken = lastCounter)
      <3>1. process' = "running" /\ try' = 0
        BY <1>12, <2>1, <2>5 DEF Tick, TickOf
      <3> QED
        BY <1>1, <1>2, <2>1, <2>2, <3>1 DEF TypeOfNumbers, TriesAreQuiet, StuckWhenSilent
    <2> QED
      BY <2>3, <2>4, <2>5
  <1>13. CASE UNCHANGED vars
    BY <1>3, <1>13 DEF vars, brokerVars
  <1> QED
    BY <1>4, <1>5, <1>6, <1>7, <1>8, <1>9, <1>10, <1>11, <1>12, <1>13 DEF Next, Broker, Gone

-----------------------------------------------------------------------------
(* The answer to a keep-alive and the start of the loop                    *)

LEMMA LoopStartedNext ==
    ASSUME TypeOK, LoopStarted, [Next]_vars
    PROVE  LoopStarted'
  <1> USE DEF LoopStarted
  <1>1. CASE Connect
    BY <1>1 DEF Connect
  <1>2. CASE ReadSubscribed
    BY <1>2 DEF ReadSubscribed
  <1>3. CASE TakeMessage
    BY <1>3 DEF TakeMessage, CanTake
  <1>4. CASE EndEvent
    BY <1>4 DEF EndEvent
  <1>5. CASE LinkDies \/ Tick \/ Ping \/ Route
    BY <1>5 DEF LinkDies, Tick, TickOf, Ping, Route
  <1>6. CASE ConnectFails \/ SubscribeFails \/ ClientError \/ EventFatal
    BY <1>6 DEF ConnectFails, SubscribeFails, ClientError, EventFatal, Ends
  <1>7. CASE (\E type \in Messages : SendMessage(type)) \/ AnswerSubscription \/ Leave
    BY <1>7 DEF SendMessage, AnswerSubscription, Leave, BrokerStep
  <1>8. CASE ReadMessage \/ ReadPong \/ ReadDisconnect
    BY <1>8 DEF ReadMessage, ReadPong, ReadDisconnect
  <1>9. CASE UNCHANGED vars
    BY <1>9 DEF vars
  <1> QED
    BY <1>1, <1>2, <1>3, <1>4, <1>5, <1>6, <1>7, <1>8, <1>9 DEF Next, Broker, Reader, Gone

LEMMA PongNext ==
    ASSUME TypeOK, PongOnWire, [Next]_vars
    PROVE  PongOnWire'
  <1>1. wire \in Seq(Packet)
    BY DEF TypeOK
  <1>2. ASSUME UNCHANGED <<ping, wire>>, link' = link \/ link' # "up"
        PROVE  PongOnWire'
    BY <1>2 DEF PongOnWire
  <1>3. ASSUME NEW p \in Packet, wire' = Append(wire, p), p.type = "pingresp" \/ ping' = ping,
               link' = link \/ link' # "up"
        PROVE  PongOnWire'
    <2>1. /\ Len(wire') = Len(wire) + 1 /\ wire'[Len(wire) + 1] = p /\ Len(wire) \in Nat
          /\ \A i \in 1..Len(wire) : wire'[i] = wire[i]
      BY <1>1, <1>3, Appended
    <2>2. CASE p.type = "pingresp"
      <3>1. Len(wire) + 1 \in 1..Len(wire')
        BY <2>1
      <3> QED
        BY <2>1, <2>2, <3>1 DEF PongOnWire
    <2>3. CASE ping' = ping
      <3>1. \A i \in 1..Len(wire) : i \in 1..Len(wire')
        BY <2>1
      <3> QED
        BY <1>3, <2>1, <2>3, <3>1 DEF PongOnWire
    <2> QED
      BY <1>3, <2>2, <2>3
  <1>4. CASE \E type \in Messages : SendMessage(type)
    <2>1. PICK type \in Messages : SendMessage(type)
      BY <1>4
    <2>2. /\ sent < MaxSent /\ sent' = sent + 1 /\ UNCHANGED <<link, ping>>
          /\ wire' = Append(wire, [type |-> type, n |-> sent'])
      BY <2>1 DEF SendMessage, BrokerStep
    <2>3. sent' \in 1..MaxSent
      <3>1. sent \in 0..MaxSent
        BY DEF TypeOK
      <3> QED
        BY <2>2, <3>1, LinkAssumption
    <2>4. [type |-> type, n |-> sent'] \in Packet
      BY <2>3, PacketTypes
    <2> QED
      BY <1>3, <2>2, <2>4
  <1>5. CASE AnswerSubscription \/ Leave
    <2>1. PICK type \in Answers : wire' = Append(wire, Answer(type))
      BY <1>5 DEF AnswerSubscription, Leave, BrokerStep, Answers
    <2>2. UNCHANGED ping /\ (link' = link \/ link' # "up")
      BY <1>5 DEF AnswerSubscription, Leave
    <2> QED
      BY <1>3, <2>1, <2>2, PacketTypes
  <1>6. CASE Ping
    <2>1. CASE link = "up"
      <3>1. wire' = Append(wire, Answer("pingresp")) /\ UNCHANGED link
        BY <1>6, <2>1 DEF Ping
      <3>2. Answer("pingresp") \in Packet /\ Answer("pingresp").type = "pingresp"
        BY PacketTypes DEF Answers, Answer
      <3> QED
        BY <1>3, <3>1, <3>2
    <2>2. CASE link # "up"
      BY <1>6, <2>2 DEF Ping, PongOnWire
    <2> QED
      BY <2>1, <2>2
  <1>7. CASE ReadMessage \/ ReadSubscribed
    <2>1. /\ wire # <<>> /\ wire' = Tail(wire) /\ UNCHANGED <<ping, link>>
          /\ Head(wire).type # "pingresp"
      BY <1>7 DEF ReadMessage, ReadSubscribed, Read, CanRead, Messages
    <2>2. /\ Len(wire) \in Nat \ {0} /\ Len(wire') = Len(wire) - 1
          /\ Head(wire) = wire[1]
          /\ \A i \in 1..Len(wire') : wire'[i] = wire[i + 1]
      BY <1>1, <2>1, Rest
    <2> SUFFICES ASSUME ping, link = "up"
                 PROVE  \E i \in 1..Len(wire') : wire'[i].type = "pingresp"
      BY <2>1 DEF PongOnWire
    <2>3. PICK k \in 1..Len(wire) : wire[k].type = "pingresp"
      BY DEF PongOnWire
    <2>4. k # 1
      BY <2>1, <2>2, <2>3
    <2>5. k - 1 \in 1..Len(wire') /\ wire'[k - 1] = wire[k]
      BY <2>2, <2>4
    <2> QED
      BY <2>3, <2>5
  <1>8. CASE ReadPong \/ ReadDisconnect
    BY <1>8 DEF ReadPong, ReadDisconnect, PongOnWire
  <1>9. CASE Connect \/ LinkDies \/ EndEvent \/ Tick
    BY <1>2, <1>9 DEF Connect, LinkDies, EndEvent, Tick, TickOf, brokerVars, clientVars
  <1>10. CASE ConnectFails \/ SubscribeFails \/ ClientError \/ EventFatal
    BY <1>2, <1>10 DEF ConnectFails, SubscribeFails, ClientError, EventFatal, Ends,
                       brokerVars, clientVars
  <1>11. CASE Route \/ TakeMessage
    BY <1>2, <1>11 DEF Route, TakeMessage, brokerVars
  <1>12. CASE UNCHANGED vars
    BY <1>2, <1>12 DEF vars, brokerVars, clientVars
  <1> QED
    BY <1>4, <1>5, <1>6, <1>7, <1>8, <1>9, <1>10, <1>11, <1>12 DEF Next, Broker, Reader, Gone

-----------------------------------------------------------------------------
(* The theorems                                                            *)

LEMMA InvariantNext == LinkInvariant /\ [Next]_vars => LinkInvariant'
  <1> SUFFICES ASSUME LinkInvariant, [Next]_vars PROVE LinkInvariant'
    OBVIOUS
  <1>1. TypeOK /\ LoopStarted /\ PongOnWire /\ TypeOfControl
    BY TypeParts DEF LinkInvariant
  <1>2. TypeOfControl' /\ TypeOfData' /\ TypeOfNumbers' /\ TriesAreQuiet' /\ StuckWhenSilent'
    BY <1>1, ControlNext, DataNext, CountersNext
  <1>3. TypeOK'
    BY <1>2 DEF TypeOK, TypeOfControl, TypeOfData, TypeOfNumbers
  <1>4. InOrder' /\ LoopStarted' /\ PongOnWire'
    BY <1>1, OrderNext, LoopStartedNext, PongNext
  <1> QED
    BY <1>2, <1>3, <1>4 DEF LinkInvariant

LEMMA InvariantHolds == Spec => []LinkInvariant
  BY InvariantInit, InvariantNext, PTL DEF Spec

(* Every variable has its type, whatever the broker sends.                 *)
THEOREM TypeCorrect == Spec => []TypeOK
  <1>1. LinkInvariant => TypeOK
    BY DEF LinkInvariant
  <1> QED
    BY <1>1, InvariantHolds, PTL

(* No message is lost or overtaken between the broker and the loop, however *)
(* many are sent and wherever they wait. (mqtt.go:65, mqtt.go:149)         *)
THEOREM OrderKept == Spec => []InOrder
  <1>1. LinkInvariant => InOrder
    BY DEF LinkInvariant
  <1> QED
    BY <1>1, InvariantHolds, PTL

(* Whatever the patience, the loop ends the process as stuck only after    *)
(* that many silent ticks in a row. (mqtt.go:92-103)                       *)
THEOREM StuckIsSilent == Spec => []StuckWhenSilent
  <1>1. LinkInvariant => StuckWhenSilent
    BY DEF LinkInvariant
  <1> QED
    BY <1>1, InvariantHolds, PTL

(* The keep-alive ends the process over a living link only while the loop  *)
(* handles an event or has not been started, and with two messages waiting *)
(* in front of it. (mqtt.go:65-81, mqtt.go:149-162)                        *)
THEOREM LinkKeptAlive == Spec => KeptAlive
  <1> DEFINE Excused == /\ loop = "busy" \/ main = "subscribe"
                        /\ router # Nothing /\ reader # Nothing
  <1>1. ASSUME LinkInvariant, [Next]_vars, process' = "exit 100", link = "up", vars' # vars
        PROVE  Excused
    <2>1. ClientError
      <3>1. process # "exit 100"
        <4>1. CASE Gone
          BY <1>1, <4>1 DEF Gone
        <4>2. CASE ~Gone
          BY <1>1, <4>2
             DEF Next, Connect, ConnectFails, SubscribeFails, Broker, SendMessage,
                 AnswerSubscription, Leave, BrokerStep, LinkDies, Ping, ClientError, Ends,
                 Reader, ReadMessage, ReadSubscribed, ReadPong, ReadDisconnect, Read, Route,
                 TakeMessage, EndEvent, EventFatal, Tick, TickOf, Running
        <4> QED
          BY <4>1, <4>2
      <3> QED
        BY <1>1, <3>1
           DEF Next, Connect, ConnectFails, SubscribeFails, Broker, SendMessage,
               AnswerSubscription, Leave, BrokerStep, LinkDies, Ping, Ends, Running, Gone,
               Reader, ReadMessage, ReadSubscribed, ReadPong, ReadDisconnect, Read, Route,
               TakeMessage, EndEvent, EventFatal, Tick, TickOf
    <2>2. Open /\ Settled /\ ping
      BY <1>1, <2>1 DEF ClientError
    <2>3. wire # <<>>
      <3>1. PICK i \in 1..Len(wire) : wire[i].type = "pingresp"
        BY <1>1, <2>2 DEF LinkInvariant, PongOnWire
      <3> QED
        BY <3>1
    <2>4. reader # Nothing
      BY <2>2, <2>3 DEF Settled, CanRead
    <2>5. router # Nothing
      BY <2>2, <2>4 DEF Settled, CanRoute
    <2>6. loop # "select"
      BY <2>2, <2>5 DEF Settled, CanTake
    <2>7. loop = "busy" \/ main = "subscribe"
      BY <1>1, <2>2, <2>6 DEF LinkInvariant, TypeOK, LoopStarted, Open
    <2> QED
      BY <2>4, <2>5, <2>7
  <1>2. LinkInvariant /\ [Next]_vars
            => [process' = "exit 100" /\ link = "up" => Excused]_vars
    BY <1>1
  <1> QED
    BY <1>2, InvariantHolds, PTL DEF Spec, KeptAlive
=============================================================================
