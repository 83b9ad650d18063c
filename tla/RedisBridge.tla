------------------------------ MODULE RedisBridge ------------------------------
(***************************************************************************)
(* The Redis bridge of the mod (RedisBridge.java), while the server thread *)
(* closes it and starts another (ChatService.reconnectRedis, close): each  *)
(* bridge has a listener, the daemon thread in subscriptionLoop, and the   *)
(* two share volatile fields: a step ends wherever the other thread could  *)
(* still change what comes of it.  Redis is external: it acknowledges a    *)
(* subscription, pushes what is published, and may break a connection.     *)
(***************************************************************************)
EXTENDS Integers, Sequences

CONSTANTS MaxBridges, MaxTraffic, MaxMishaps   \* bounds of the model

ASSUME BridgeAssumption == {MaxBridges, MaxTraffic, MaxMishaps} \subseteq Nat

VARIABLES
  sockets,       \* every connection made: what has arrived is its inbox
  bridges,       \* [running, subscribed, subscriber, publisher] of each
  listener,      \* its thread: where it is, the socket it uses, what it has read
  current,       \* ChatService.redis, or None
  serverThread,  \* where the server thread is in close()
  traffic,       \* how much has been published
  delivered,     \* what the listeners handed to server.execute
  mishaps

bridgeVars == <<sockets, bridges, listener, current, serverThread, traffic, delivered, mishaps>>

NoSocket == 0
NoBridge == 0
Ack      == 0   \* before the publications 1, 2, ...
Bridge   == [running |-> TRUE, subscribed |-> FALSE, subscriber |-> NoSocket, publisher |-> NoSocket]
Listener == [at |-> "connect", on |-> NoSocket, got |-> Ack]
Socket(b, refused) == [of |-> b, open |-> TRUE, live |-> TRUE, listening |-> FALSE,
                       inbox |-> <<>>, refused |-> refused]

BridgeInit ==
  /\ sockets = <<>> /\ traffic = 0 /\ delivered = <<>> /\ mishaps = 0
  /\ bridges = <<Bridge>> /\ listener = <<Listener>>
  /\ current = 1 /\ serverThread = "free"

(***************************** Connections *********************************)
\* Redis runs a PUBLISH: it is pushed to every subscription it knows of.
Pushed(all) ==
  [s \in DOMAIN all |-> IF all[s].listening THEN [all[s] EXCEPT !.inbox = Append(@, traffic + 1)] ELSE all[s]]

\* Nothing comes after the first k messages, and they do if they have been buffered.
Cut(socket, k) == [socket EXCEPT !.live = FALSE, !.listening = FALSE, !.inbox = SubSeq(@, 1, k)]

\* closeQuietly.
Closed(all, s, k) == IF s = NoSocket THEN all ELSE [all EXCEPT ![s] = [Cut(@, k) EXCEPT !.open = FALSE]]
Buffered(s) == IF s = NoSocket THEN {0} ELSE 0..Len(sockets[s].inbox)

\* Nothing more can be read.
Ended(s) == sockets[s].inbox = <<>> /\ ~(sockets[s].open /\ sockets[s].live)

\* RespConnection(): refused before or after there is a socket, which the
\* constructor then leaves open.
Refused(b) ==
  /\ mishaps < MaxMishaps /\ mishaps' = mishaps + 1
  /\ \/ UNCHANGED sockets
     \/ sockets' = Append(sockets, Socket(b, TRUE))

Breaks(s) ==
  /\ sockets[s].live /\ mishaps < MaxMishaps
  /\ mishaps' = mishaps + 1
  /\ \E k \in Buffered(s) : sockets' = [sockets EXCEPT ![s] = Cut(@, k)]
  /\ UNCHANGED <<bridges, listener, current, serverThread, traffic, delivered>>

(*************************** subscriptionLoop ******************************)
GoesTo(b, at) == listener' = [listener EXCEPT ![b].at = at, ![b].on = NoSocket, ![b].got = Ack]

\* while (running), and new RespConnection.
Connect(b) ==
  /\ listener[b].at = "connect"
  /\ IF ~bridges[b].running THEN GoesTo(b, "ended") /\ UNCHANGED <<sockets, mishaps>>
     ELSE \/ /\ sockets'  = Append(sockets, Socket(b, FALSE))
             /\ listener' = [listener EXCEPT ![b].at = "assign", ![b].on = Len(sockets) + 1]
             /\ UNCHANGED mishaps
          \/ Refused(b) /\ GoesTo(b, "finally")
  /\ UNCHANGED <<bridges, delivered>>

Assign(b) ==
  /\ listener[b].at = "assign"
  /\ bridges' = [bridges EXCEPT ![b].subscriber = listener[b].on]
  /\ GoesTo(b, "subscribe")
  /\ UNCHANGED <<sockets, mishaps, delivered>>

\* The field may have been set to null meanwhile: an exception like any other.
Subscribe(b) ==
  LET s == bridges[b].subscriber
      written == s # NoSocket /\ sockets[s].open /\ sockets[s].live
  IN  /\ listener[b].at = "subscribe"
      /\ IF written
         THEN /\ sockets'  = [sockets EXCEPT ![s].listening = TRUE, ![s].inbox = <<Ack>>]
              /\ listener' = [listener EXCEPT ![b].at = "acknowledge", ![b].on = s]
         ELSE GoesTo(b, "finally") /\ UNCHANGED sockets
      /\ UNCHANGED <<bridges, mishaps, delivered>>

Acknowledged(b) ==
  LET s == listener[b].on
  IN  /\ listener[b].at = "acknowledge"
      /\ \/ /\ sockets[s].inbox # <<>>
            /\ sockets' = [sockets EXCEPT ![s].inbox = Tail(@)]
            /\ bridges' = [bridges EXCEPT ![b].subscribed = TRUE]
            /\ GoesTo(b, "loop")
         \/ Ended(s) /\ GoesTo(b, "finally") /\ UNCHANGED <<sockets, bridges>>
      /\ UNCHANGED <<mishaps, delivered>>

\* The inner loop: subscriber.read() evaluates the field once, then waits on it.
Reads(b) ==
  IF bridges[b].subscriber = NoSocket THEN GoesTo(b, "finally")
  ELSE listener' = [listener EXCEPT ![b].at = "read", ![b].on = bridges[b].subscriber]

\* Mutant: the inner loop is left by an exception only.
LoopForever(b) ==
  /\ listener[b].at = "loop" /\ Reads(b)
  /\ UNCHANGED <<sockets, bridges, mishaps, delivered>>

Loop(b) ==
  /\ listener[b].at = "loop"
  /\ IF bridges[b].running THEN Reads(b) ELSE GoesTo(b, "finally")
  /\ UNCHANGED <<sockets, bridges, mishaps, delivered>>

ReadMessage(b) ==
  LET s == listener[b].on
  IN  /\ listener[b].at = "read"
      /\ \/ /\ sockets[s].inbox # <<>>
            /\ sockets'  = [sockets EXCEPT ![s].inbox = Tail(@)]
            /\ listener' = [listener EXCEPT ![b].at = "receive", ![b].got = Head(sockets[s].inbox)]
         \/ Ended(s) /\ GoesTo(b, "finally") /\ UNCHANGED sockets
      /\ UNCHANGED <<bridges, mishaps, delivered>>

Receive(b) ==
  /\ listener[b].at = "receive"
  /\ delivered' = Append(delivered, [number |-> listener[b].got, by |-> b, late |-> ~bridges[b].running])
  /\ GoesTo(b, "loop")
  /\ UNCHANGED <<sockets, bridges, mishaps>>

\* Mutant: the socket is forgotten, not closed.
FinallyForgotten(b) ==
  /\ listener[b].at = "finally"
  /\ bridges' = [bridges EXCEPT ![b].subscribed = FALSE]
  /\ GoesTo(b, "forget")
  /\ UNCHANGED <<sockets, mishaps, delivered>>

\* Nothing is read of the socket from here on.
Finally(b) ==
  /\ listener[b].at = "finally"
  /\ bridges' = [bridges EXCEPT ![b].subscribed = FALSE]
  /\ sockets' = Closed(sockets, bridges[b].subscriber, 0)
  /\ GoesTo(b, "forget")
  /\ UNCHANGED <<mishaps, delivered>>

\* Mutant: the exception is caught outside the loop.
ForgetForGood(b) ==
  /\ listener[b].at = "forget"
  /\ bridges' = [bridges EXCEPT ![b].subscriber = NoSocket]
  /\ GoesTo(b, "ended")
  /\ UNCHANGED <<sockets, mishaps, delivered>>

\* And the delay before the next attempt, which close() interrupts.
Forget(b) ==
  /\ listener[b].at = "forget"
  /\ bridges' = [bridges EXCEPT ![b].subscriber = NoSocket]
  /\ GoesTo(b, "connect")
  /\ UNCHANGED <<sockets, mishaps, delivered>>

Listens(b) ==
  /\ \/ Connect(b) \/ Assign(b) \/ Subscribe(b) \/ Acknowledged(b)
     \/ Loop(b) \/ ReadMessage(b) \/ Receive(b) \/ Finally(b) \/ Forget(b)
  /\ UNCHANGED <<current, serverThread, traffic>>

(****************************** Server thread ******************************)
BeginClose ==
  /\ serverThread = "free" /\ current # NoBridge
  /\ bridges' = [bridges EXCEPT ![current].running = FALSE]
  /\ serverThread' = "close"
  /\ UNCHANGED <<sockets, listener, current, traffic, delivered, mishaps>>

CloseSubscriber ==
  /\ serverThread = "close"
  /\ bridges' = [bridges EXCEPT ![current].subscribed = FALSE]
  /\ \E k \in Buffered(bridges[current].subscriber) : sockets' = Closed(sockets, bridges[current].subscriber, k)
  /\ serverThread' = "forget"
  /\ UNCHANGED <<listener, current, traffic, delivered, mishaps>>

\* subscriber = null, closePublisher, and redis = null.
ForgetSubscriber ==
  /\ serverThread = "forget"
  /\ bridges' = [bridges EXCEPT ![current].subscriber = NoSocket, ![current].publisher = NoSocket]
  /\ sockets' = Closed(sockets, bridges[current].publisher, 0)
  /\ current' = NoBridge /\ serverThread' = "closed"
  /\ UNCHANGED <<listener, traffic, delivered, mishaps>>

\* The rest of reconnectRedis, unless redis.enabled is false or the server stops.
Renew ==
  /\ serverThread = "closed" /\ Len(bridges) < MaxBridges
  /\ bridges' = Append(bridges, Bridge) /\ listener' = Append(listener, Listener)
  /\ current' = Len(bridges) + 1 /\ serverThread' = "free"
  /\ UNCHANGED <<sockets, traffic, delivered, mishaps>>

\* publish: PUBLISH runs and is answered, or the answer is lost, or the
\* connection turns out broken, or none can be made.
PublishOwn ==
  LET old == bridges[current].publisher
      s   == IF old = NoSocket THEN Len(sockets) + 1 ELSE old
      all == IF old = NoSocket THEN Append(sockets, Socket(current, FALSE)) ELSE sockets
  IN  /\ serverThread = "free" /\ current # NoBridge
      /\ \/ /\ all[s].live /\ traffic < MaxTraffic /\ traffic' = traffic + 1
            /\ \/ /\ sockets' = Pushed(all) /\ UNCHANGED mishaps
                  /\ bridges' = [bridges EXCEPT ![current].publisher = s]
               \/ /\ mishaps < MaxMishaps /\ mishaps' = mishaps + 1
                  /\ sockets' = Closed(Pushed(all), s, 0)
                  /\ bridges' = [bridges EXCEPT ![current].publisher = NoSocket]
         \/ /\ ~all[s].live
            /\ sockets' = Closed(sockets, old, 0)
            /\ bridges' = [bridges EXCEPT ![current].publisher = NoSocket]
            /\ UNCHANGED <<traffic, mishaps>>
         \/ old = NoSocket /\ Refused(current) /\ UNCHANGED <<bridges, traffic>>
      /\ UNCHANGED <<listener, current, serverThread, delivered>>

PublishElsewhere ==
  /\ traffic < MaxTraffic /\ traffic' = traffic + 1
  /\ sockets' = Pushed(sockets)
  /\ UNCHANGED <<bridges, listener, current, serverThread, delivered, mishaps>>

BridgeNext ==
  \/ \E b \in DOMAIN bridges : Listens(b)
  \/ BeginClose \/ CloseSubscriber \/ ForgetSubscriber \/ Renew
  \/ PublishOwn \/ PublishElsewhere
  \/ \E s \in DOMAIN sockets : Breaks(s)

BridgeSpec == BridgeInit /\ [][BridgeNext]_bridgeVars

BridgeFair ==
  /\ BridgeSpec
  /\ WF_bridgeVars(CloseSubscriber \/ ForgetSubscriber)
  /\ \A b \in 1..MaxBridges : WF_bridgeVars(b \in DOMAIN bridges /\ Listens(b))

(******************************* Properties ********************************)
BridgeTypeOK ==
  /\ current \in {NoBridge} \cup DOMAIN bridges /\ mishaps \in 0..MaxMishaps
  /\ \A b \in DOMAIN bridges : /\ bridges[b].subscriber \in {NoSocket} \cup DOMAIN sockets
                               /\ bridges[b].publisher \in {NoSocket} \cup DOMAIN sockets
                               /\ bridges[b].running => b = current

\* What reaches the server is in the order of the channel and comes once, but
\* for one message that a closed bridge had read: that may come late, and behind
\* the messages of the next bridge.
StragglersOnly ==
  /\ BridgeTypeOK
  /\ \A i, j \in DOMAIN delivered : i < j =>
       \/ delivered[i].number < delivered[j].number
       \/ delivered[i].number > delivered[j].number /\ delivered[j].late /\ delivered[j].by < delivered[i].by
  /\ \A i, j \in DOMAIN delivered : delivered[i].late /\ delivered[j].late /\ delivered[i].by = delivered[j].by => i = j

\* However a bridge is closed, no connection of it stays open but one that was
\* refused its login, and one that its listener was just making: the close sets
\* the field to null over it, so that the finally of the loop has none to close.
Held(s) ==
  LET b == sockets[s].of
  IN  s \in {bridges[b].subscriber, bridges[b].publisher} \/ (listener[b].at = "assign" /\ listener[b].on = s)
OnlyTheRaceLeaks ==
  \A s, t \in DOMAIN sockets :
    LET Astray(x) == sockets[x].open /\ ~sockets[x].refused /\ ~Held(x)
    IN  /\ Astray(s) => ~bridges[sockets[s].of].running
        /\ Astray(s) /\ Astray(t) /\ sockets[s].of = sockets[t].of => s = t

\* Mishaps and reconnections over, the listener of every closed bridge ends, and
\* that of the bridge in use listens and has handed over all it was sent.
Settles ==
  <>[](/\ \A b \in DOMAIN bridges : ~bridges[b].running => listener[b].at = "ended"
       /\ current # NoBridge /\ bridges[current].running =>
            /\ bridges[current].subscribed
            /\ sockets[bridges[current].subscriber].listening
            /\ sockets[bridges[current].subscriber].inbox = <<>>
            /\ listener[current].at = "read")
===============================================================================
