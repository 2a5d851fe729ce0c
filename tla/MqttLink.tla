-------------------------------- MODULE MqttLink --------------------------------
(***************************************************************************)
(* The way of a reading from the broker to the event loop: ConnectMQTT     *)
(* connects and subscribes and only then starts the loop                   *)
(* LoopCounterAndCancelOutput, which takes messages from an unbuffered     *)
(* channel. The client library (external) reads the connection with one    *)
(* goroutine, the reader, that hands messages one by one to another, the   *)
(* router, which calls the function that sends on the channel. While the   *)
(* loop handles an event the router waits, then the reader, and with it    *)
(* every answer of the broker behind the messages.                         *)
(*                                                                         *)
(* Time: an answer that could be read is read before a timeout runs out;   *)
(* the calls an event makes to the cloud may take longer than any.         *)
(***************************************************************************)
EXTENDS Integers, Sequences

CONSTANTS
    Patience,     \* silent ticks in a row the loop only counts (10: try > 10)
    CloseIfStuck, \* whether the loop ends the process after them (FALSE)
    MaxSent,      \* bound: messages the broker sends
    MaxWire       \* bound: packets between the broker and the reader

ASSUME LinkAssumption ==
    /\ Patience \in Nat /\ CloseIfStuck \in BOOLEAN
    /\ MaxSent \in Nat /\ MaxWire \in Nat

(* An event's payload is a JSON object of a topic with a mapping; anything *)
(* else is no JSON, or of a topic that is not in topicMap.                 *)
Messages == {"event", "anything else"}
Answers == {"suback", "pingresp", "disconnect"}
Packet == [type: Messages \cup Answers, n: 0..MaxSent]
Answer(type) == [type |-> type, n |-> 0]
Nothing == Answer("none")

VARIABLES
    process,    \* "running", or how the process ended
    main,       \* where ConnectMQTT is
    link,       \* the connection: "up", "dead", "left" by the broker, "closed"
    wire,       \* packets on their way to the reader
    sent,       \* messages the broker has sent
    owed,       \* whether the broker owes the answer to the subscription
    ping,       \* a keep-alive request is unanswered
    reader,     \* message the reader holds
    router,     \* message the router holds, in front of msgChan
    loop,       \* where the event loop is
    taken,      \* number of the last message the loop took: mqttCounter
    lastCounter,
    try,
    quiet       \* history: ticks since the last message was taken, capped

brokerVars == <<link, wire, sent, owed>>
clientVars == <<ping, reader, router>>
counters == <<taken, lastCounter, try, quiet>>
vars == <<process, main, brokerVars, clientVars, loop, counters>>

Running == process = "running"
Open == main # "connect" /\ link # "closed"

Init ==
    /\ process = "running" /\ main = "connect" /\ loop = "none"
    /\ link = "up" /\ wire = <<>> /\ sent = 0 /\ owed = FALSE
    /\ ping = FALSE /\ reader = Nothing /\ router = Nothing
    /\ taken = 0 /\ lastCounter = 0 /\ try = 0 /\ quiet = 0

Ends(how) ==
    /\ Running /\ process' = how
    /\ UNCHANGED <<main, brokerVars, clientVars, loop, counters>>

-----------------------------------------------------------------------------
(* ConnectMQTT                                                             *)

Connect ==
    /\ Running /\ main = "connect" /\ link = "up"
    /\ main' = "subscribe" /\ owed' = TRUE
    /\ UNCHANGED <<process, link, wire, sent, clientVars, loop, counters>>

(* No answer in time, or one with a reason code: log.Fatal.                *)
ConnectFails == main = "connect" /\ Ends("fatal")

(* The reader could take a packet, or hand its message on, or the router   *)
(* could hand its message to the loop.                                     *)
CanRead == Open /\ wire # <<>> /\ reader = Nothing
CanRoute == reader # Nothing /\ router = Nothing
CanTake == router # Nothing /\ loop = "select"
Settled == ~CanRead /\ ~CanRoute /\ ~CanTake

(* Mutant: the client waits for the subscription without a PacketTimeout.  *)
SubscribeFails_NoTimeout == FALSE /\ Ends("fatal")

(* The answer to the subscription is not read within PacketTimeout, or     *)
(* grants another quality of service: log.Fatal.                           *)
SubscribeFails ==
    /\ main = "subscribe" /\ Settled
    /\ Ends("fatal")

-----------------------------------------------------------------------------
(* The broker and the connection                                           *)

BrokerStep(packet) ==
    /\ Running /\ main # "connect" /\ link = "up" /\ Len(wire) < MaxWire
    /\ wire' = Append(wire, packet)
    /\ UNCHANGED <<process, main, reader, router, loop, counters>>

(* A retained message may come before the answer to the subscription.      *)
SendMessage(type) ==
    /\ sent < MaxSent /\ sent' = sent + 1
    /\ BrokerStep([type |-> type, n |-> sent'])
    /\ UNCHANGED <<link, owed, ping>>

AnswerSubscription ==
    /\ owed /\ owed' = FALSE
    /\ BrokerStep(Answer("suback"))
    /\ UNCHANGED <<link, sent, ping>>

Leave ==
    /\ BrokerStep(Answer("disconnect"))
    /\ link' = "left"
    /\ UNCHANGED <<sent, owed, ping>>

(* From now on nothing the broker sends arrives.                           *)
LinkDies ==
    /\ Running /\ link = "up" /\ link' = "dead"
    /\ UNCHANGED <<process, main, wire, sent, owed, clientVars, loop, counters>>

-----------------------------------------------------------------------------
(* The client library                                                      *)

(* A request every 30 s, which a broker that still listens answers.        *)
Ping ==
    /\ Running /\ Open /\ ~ping /\ ping' = TRUE
    /\ IF link = "up"
       THEN Len(wire) < MaxWire /\ wire' = Append(wire, Answer("pingresp"))
       ELSE UNCHANGED wire
    /\ UNCHANGED <<process, main, link, sent, owed, reader, router, loop, counters>>

(* OnClientError: the answer has not been read before the next request, or *)
(* the connection is found broken.                                         *)
ClientError ==
    /\ Open /\ Settled
    /\ ping \/ (link = "dead" /\ reader = Nothing)
    /\ Ends("exit 100")

Read ==
    /\ Running /\ CanRead /\ wire' = Tail(wire)
    /\ UNCHANGED <<process, sent, owed, router, counters>>

ReadMessage ==
    /\ Read /\ Head(wire).type \in Messages
    /\ reader' = Head(wire)
    /\ UNCHANGED <<main, link, ping, loop>>

(* Subscribe returns: go f(msgChan, topicMap).                             *)
ReadSubscribed ==
    /\ Read /\ Head(wire).type = "suback"
    /\ main' = "started" /\ loop' = "select"
    /\ UNCHANGED <<link, ping, reader>>

ReadPong ==
    /\ Read /\ Head(wire).type = "pingresp"
    /\ ping' = FALSE
    /\ UNCHANGED <<main, link, reader, loop>>

(* OnServerDisconnect only prints a message; the library closes the client *)
(* and its keep-alive, and nobody connects again.                          *)
ReadDisconnect ==
    /\ Read /\ Head(wire).type = "disconnect"
    /\ link' = "closed"
    /\ UNCHANGED <<main, ping, reader, loop>>

(* Mutant: a message is dropped when the loop is not ready for it.         *)
Route_Dropped ==
    /\ Running /\ CanRoute /\ reader' = Nothing
    /\ router' = IF loop = "busy" THEN Nothing ELSE reader
    /\ UNCHANGED <<process, main, brokerVars, ping, loop, counters>>

Route ==
    /\ Running /\ CanRoute
    /\ router' = reader /\ reader' = Nothing
    /\ UNCHANGED <<process, main, brokerVars, ping, loop, counters>>

-----------------------------------------------------------------------------
(* LoopCounterAndCancelOutput                                              *)

(* Mutant: the loop returns at a payload it cannot read.                   *)
TakeMessage_Returns ==
    /\ Running /\ CanTake
    /\ router' = Nothing /\ taken' = taken + 1 /\ quiet' = 0
    /\ loop' = IF router.type = "event" THEN "busy" ELSE "returned"
    /\ UNCHANGED <<process, main, brokerVars, ping, reader, lastCounter, try>>

(* Every message counts; only an event is handled any further.             *)
TakeMessage ==
    /\ Running /\ CanTake
    /\ router' = Nothing /\ taken' = taken + 1 /\ quiet' = 0
    /\ loop' = IF router.type = "event" THEN "busy" ELSE "select"
    /\ UNCHANGED <<process, main, brokerVars, ping, reader, lastCounter, try>>

(* processEvent returns.                                                   *)
EndEvent ==
    /\ Running /\ loop = "busy" /\ loop' = "select"
    /\ UNCHANGED <<process, main, brokerVars, clientVars, counters>>

(* The message lacks what its mapping names, or names another type.        *)
EventFatal == loop = "busy" /\ Ends("fatal")

TickOf(stuck) ==
    /\ Running /\ loop = "select" /\ Settled
    /\ IF stuck
       THEN IF try > Patience
            THEN process' = "exit 10" /\ UNCHANGED try
            ELSE try' = try + 1 /\ UNCHANGED process
       ELSE try' = 0 /\ UNCHANGED process
    /\ lastCounter' = taken
    /\ quiet' = IF quiet < Patience + 2 THEN quiet + 1 ELSE quiet
    /\ UNCHANGED <<main, brokerVars, clientVars, loop, taken>>

(* Mutant: the loop is stuck when it has ever been without a message.      *)
Tick_Accumulates == TickOf(CloseIfStuck /\ (try > 0 \/ taken = lastCounter))

(* Mutant: only a link that has delivered something can be stuck.          *)
Tick_OnceAlive == TickOf(CloseIfStuck /\ taken = lastCounter /\ taken > 0)

(* OutLoopSeconds without a message.                                       *)
Tick == TickOf(CloseIfStuck /\ taken = lastCounter)

-----------------------------------------------------------------------------
(* The specification                                                       *)

Reader == ReadMessage \/ ReadSubscribed \/ ReadPong \/ ReadDisconnect

Broker ==
    \/ \E type \in Messages : SendMessage(type)
    \/ AnswerSubscription \/ Leave \/ LinkDies

(* The process is gone.                                                    *)
Gone == ~Running /\ UNCHANGED vars

Next ==
    \/ Connect \/ ConnectFails \/ SubscribeFails
    \/ Broker \/ Ping \/ ClientError \/ Reader \/ Route
    \/ TakeMessage \/ EndEvent \/ EventFatal \/ Tick
    \/ Gone

(* The goroutines run, calls to the cloud return, timers run out: those of *)
(* PacketTimeout and of the loop's tick though a keep-alive is answered    *)
(* now and then. Of the broker nothing is required.                        *)
Spec ==
    /\ Init /\ [][Next]_vars
    /\ WF_vars(Connect \/ ConnectFails) /\ SF_vars(SubscribeFails)
    /\ WF_vars(Ping) /\ WF_vars(ClientError)
    /\ WF_vars(Reader) /\ WF_vars(Route)
    /\ WF_vars(TakeMessage) /\ WF_vars(EndEvent) /\ SF_vars(Tick)

-----------------------------------------------------------------------------
(* Properties                                                              *)

Held == {Nothing} \cup [type: Messages, n: 1..MaxSent]

(* Every variable has its type.                                            *)
TypeOK ==
    /\ process \in {"running", "fatal", "exit 100", "exit 10"}
    /\ main \in {"connect", "subscribe", "started"}
    /\ link \in {"up", "dead", "left", "closed"}
    /\ wire \in Seq(Packet) /\ Len(wire) <= MaxWire
    /\ sent \in 0..MaxSent /\ owed \in BOOLEAN /\ ping \in BOOLEAN
    /\ reader \in Held /\ router \in Held
    /\ loop \in {"none", "select", "busy"}
    /\ taken \in 0..MaxSent /\ lastCounter \in 0..MaxSent
    /\ try \in 0..Patience + 1 /\ quiet \in 0..Patience + 2

IsMessage(i) == wire[i].type \in Messages
AtRouter == IF router = Nothing THEN taken ELSE taken + 1
AtReader == IF reader = Nothing THEN AtRouter ELSE AtRouter + 1

(* The messages are taken in the order they were sent and none is missing: *)
(* those behind the last one taken are the router's, the reader's and      *)
(* those on the wire, whatever the loop was doing when they came.          *)
(* (mqtt.go:149-152 with mqtt.go:65-67)                                    *)
InOrder ==
    /\ AtReader <= sent
    /\ router # Nothing => router.n = AtRouter
    /\ reader # Nothing => reader.n = AtReader
    /\ \A i \in 1..Len(wire) : IsMessage(i) => wire[i].n \in AtReader + 1 .. sent
    /\ \A i, j \in 1..Len(wire) :
          i < j /\ IsMessage(i) /\ IsMessage(j) => wire[i].n < wire[j].n
    /\ \A n \in AtReader + 1 .. sent :
          \E i \in 1..Len(wire) : IsMessage(i) /\ wire[i].n = n

(* ConnectMQTT returns or ends the process, though retained messages may   *)
(* come before the answer to the subscription and nobody takes them before *)
(* ConnectMQTT starts the loop. (mqtt.go:149-221)                          *)
ConnectEnds == <>(main = "started" \/ ~Running)

(* A message is taken in the end, or the process ends, or the link.        *)
(* (mqtt.go:65)                                                            *)
MessagesTaken ==
    \A n \in 1..MaxSent : sent >= n ~> taken >= n \/ ~Running \/ link # "up"

(* With CloseIfStuck the process outlives its connection only so long: the *)
(* keep-alive notices a dead one, the count of silent ticks one the broker *)
(* has closed. (mqtt.go:88-98, mqtt.go:153-161)                            *)
LostLinkEnds == CloseIfStuck => (link # "up" ~> ~Running)

(* The loop calls itself stuck only after Patience + 2 ticks in a row      *)
(* without a message, however the messages came before. (mqtt.go:88-98)    *)
StuckWhenSilent == process = "exit 10" => quiet = Patience + 2

(* The keep-alive ends the process over a living link only while an event  *)
(* waits for the cloud, or before the loop has started, with two messages  *)
(* in front of the answer: a loop that is at its select never costs the    *)
(* link. (mqtt.go:65-81, mqtt.go:149-161)                                  *)
KeptAlive ==
    [][process' = "exit 100" /\ link = "up" =>
          /\ loop = "busy" \/ main = "subscribe"
          /\ router # Nothing /\ reader # Nothing]_vars
=============================================================================
