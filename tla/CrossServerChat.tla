---------------------------- MODULE CrossServerChat ----------------------------
(***************************************************************************)
(* Cross-server chat of the Pumpkin port: the Redis bridge (redis.rs), the *)
(* plugin-message bridge it falls back to (proxy.rs) and the two commands  *)
(* that publish: a chat message of a proxied channel (chat.rs) and the     *)
(* global mute (commands.rs).                                              *)
(*                                                                         *)
(* A server is one process whose handlers and ticks take turns; servers,   *)
(* Redis and the proxy interleave.  Redis pushes a payload to every        *)
(* subscription it holds, the publisher's included, and a server hands the *)
(* payloads to its players when its next tick drains the socket.           *)
(***************************************************************************)
EXTENDS Integers, Sequences

CONSTANTS
    Servers,
    Messages,       \* what players say in a proxied channel, each said once
    Ports,          \* Ports[m]: the servers m is addressed to, {} for all
    Forced,         \* the messages said in a Force-Proxy channel
    ProxyServers,   \* the servers whose settings enable the proxy bridge
    None,           \* no server
    MaxMutes,       \* bound: global-mute commands
    MaxFaults,      \* bound: broken connections, lost replies, stops of Redis
    MaxOrders       \* bound: reload and reconnect commands

ASSUME ChatAssumption ==
    /\ Ports \in [Messages -> SUBSET Servers]
    /\ Forced \subseteq Messages /\ ProxyServers \subseteq Servers /\ None \notin Servers
    /\ MaxMutes \in Nat /\ MaxFaults \in Nat /\ MaxOrders \in Nat

VARIABLES
    enabled,    \* redis.enabled in the configuration in memory
    ticking,    \* the servers whose start registered the tick
    bridge,     \* the Bridge: absent, or what its subscriber is doing
    publisher,  \* the Bridge's publishing connection
    inbox,      \* pushed payloads the subscriber has not drained: places in the log
    cut,        \* the subscriptions whose connection is gone, not yet noticed
    muted,      \* SessionPlayers.global_mute
    fate,       \* what the sender of each message was answered
    wire,       \* payloads the proxy has still to hand to a server
    redisUp,    \* Redis runs
    mutes, faults, orders, relays,  \* how much of each bound was used; payloads relayed
    log,        \* history: the payloads Redis was given, in the order it ran the commands
    heard,      \* history: the places in the log each server has handled
    since,      \* history: the length of the log when each server last subscribed
    carried,    \* history: <<server, message>> the proxy bridge has shown
    origin,     \* history: the server each message was said on
    doubtful,   \* history: the messages Redis pushed with the reply lost
    verdict,    \* history: the last value of the global mute anybody set
    missed      \* history: the servers that may have missed it, or heard it out of turn

connections == <<bridge, publisher, inbox, cut, since>>
counters == <<mutes, faults, orders>>
chat == <<fate, origin, doubtful>>
muting == <<muted, verdict, missed>>
proxied == <<wire, relays, carried>>
vars == <<enabled, ticking, connections, redisUp, counters, log, heard, chat, muting, proxied>>

Said(m) == [act |-> "BroadcastRaw", body |-> m]
MuteSet(v) == [act |-> "GlobalMute", body |-> v]
Payloads == {Said(m) : m \in Messages} \cup {MuteSet(v) : v \in {"on", "off"}}

Set(f, s, v) == [t \in Servers |-> IF t = s THEN v ELSE f[t]]
Fault == faults < MaxFaults /\ faults' = faults + 1
Order == orders < MaxOrders /\ orders' = orders + 1

-----------------------------------------------------------------------------
(* Bridge.publish: true when Redis answers that somebody is subscribed *)

Live(s) == bridge[s] = "subscribed" /\ s \notin cut

\* The publisher is open, or is dialled now.
Dialled(s) == bridge[s] # "absent" /\ (publisher[s] = "open" \/ (publisher[s] = "none" /\ redisUp))

Pushed(p) ==
    /\ log' = Append(log, p)
    /\ inbox' = [t \in Servers |-> IF Live(t) THEN Append(inbox[t], Len(log) + 1) ELSE inbox[t]]

\* Redis counts its subscriptions, those of connections it does not know to be gone included.
PublishAccepted(s, p) ==
    /\ Dialled(s) /\ (faults > 0 \/ \E t \in Servers : Live(t))
    /\ Pushed(p) /\ publisher' = Set(publisher, s, "open")
    /\ faults' = faults

\* Nobody is subscribed, no connection, or one that breaks before the command runs.
PublishRefused(s) ==
    /\ \/ /\ Dialled(s) /\ \A t \in Servers : ~Live(t)
          /\ publisher' = Set(publisher, s, "open") /\ faults' = faults
       \/ /\ bridge[s] = "absent"
          /\ publisher' = publisher /\ faults' = faults
       \/ /\ bridge[s] # "absent" /\ ~Dialled(s)
          /\ publisher' = Set(publisher, s, "none") /\ faults' = faults
       \/ /\ Dialled(s) /\ Fault
          /\ publisher' = Set(publisher, s, "none")
    /\ UNCHANGED <<log, inbox>>

\* Redis runs the command and the reply does not arrive in time.
PublishDoubtful(s, p) ==
    /\ Dialled(s) /\ Fault
    /\ Pushed(p) /\ publisher' = Set(publisher, s, "none")

\* proxy::publish_fields through a player of s; the proxy hands it to those
\* that listen to it.
Relayed(s, p) ==
    /\ s \in ProxyServers
    /\ relays' = relays + 1
    /\ wire' = wire \cup {[to |-> t, id |-> relays, item |-> p] : t \in ProxyServers}

NotRelayed == UNCHANGED <<relays, wire>>

-----------------------------------------------------------------------------
(* A chat message of a channel with Proxy, past every other check *)

\* Mutant: Force-Proxy asks for Redis, the proxy's answer is not looked at.
FallbackLate(s, m) ==
    \/ Relayed(s, Said(m)) /\ fate' = [fate EXCEPT ![m] = IF m \in Forced THEN "refused" ELSE "proxy"]
    \/ m \in Forced /\ NotRelayed /\ fate' = [fate EXCEPT ![m] = "refused"]
    \/ m \notin Forced /\ NotRelayed /\ fate' = [fate EXCEPT ![m] = "local"]

\* Redis did not take it: the proxy, if a player can carry it; else refused or local.
Fallback(s, m) ==
    \/ Relayed(s, Said(m)) /\ fate' = [fate EXCEPT ![m] = "proxy"]
    \/ m \in Forced /\ NotRelayed /\ fate' = [fate EXCEPT ![m] = "refused"]
    \/ m \notin Forced /\ NotRelayed /\ fate' = [fate EXCEPT ![m] = "local"]

\* Mutant: both transports are tried.
ChatBothWays(s, m) ==
    /\ fate[m] = "unsaid"
    /\ origin' = [origin EXCEPT ![m] = s]
    /\ \/ PublishAccepted(s, Said(m)) /\ Fallback(s, m) /\ doubtful' = doubtful
       \/ PublishRefused(s) /\ Fallback(s, m) /\ doubtful' = doubtful
    /\ UNCHANGED <<enabled, ticking, bridge, cut, since, redisUp, mutes, orders, heard, muting, carried>>

Chat(s, m) ==
    /\ fate[m] = "unsaid"
    /\ origin' = [origin EXCEPT ![m] = s]
    /\ \/ PublishAccepted(s, Said(m)) /\ fate' = [fate EXCEPT ![m] = "redis"]
          /\ NotRelayed /\ doubtful' = doubtful
       \/ PublishRefused(s) /\ Fallback(s, m) /\ doubtful' = doubtful
       \/ PublishDoubtful(s, Said(m)) /\ Fallback(s, m) /\ doubtful' = doubtful \cup {m}
    /\ UNCHANGED <<enabled, ticking, bridge, cut, since, redisUp, mutes, orders, heard, muting, carried>>

\* set_global_mute: here first, then the other servers.
Mute(s, v) ==
    /\ mutes < MaxMutes /\ mutes' = mutes + 1
    /\ muted' = Set(muted, s, v) /\ verdict' = v
    /\ \/ /\ PublishAccepted(s, MuteSet(v)) /\ NotRelayed
          /\ missed' = {t \in Servers : ~Live(t)}
       \/ /\ PublishRefused(s) /\ (Relayed(s, MuteSet(v)) \/ NotRelayed)
          /\ missed' = Servers
       \/ /\ PublishDoubtful(s, MuteSet(v)) /\ (Relayed(s, MuteSet(v)) \/ NotRelayed)
          /\ missed' = {t \in Servers : ~Live(t)}
    /\ UNCHANGED <<enabled, ticking, bridge, cut, since, redisUp, orders, heard, chat, carried>>

-----------------------------------------------------------------------------
(* The tick: Bridge.ensure_subscriber and Bridge.pump *)

Subscribe(s) ==
    /\ s \in ticking /\ bridge[s] = "due" /\ redisUp
    /\ bridge' = Set(bridge, s, "subscribed")
    /\ since' = Set(since, s, Len(log))
    /\ UNCHANGED <<enabled, ticking, publisher, inbox, cut, redisUp, counters, log, heard, chat, muting, proxied>>

\* No connection: the next attempt waits for reconnect_delay.
SubscribeFails(s) ==
    /\ s \in ticking /\ bridge[s] = "due"
    /\ bridge' = Set(bridge, s, "waiting")
    /\ \/ ~redisUp /\ UNCHANGED faults
       \/ redisUp /\ Fault
    /\ UNCHANGED <<enabled, ticking, publisher, inbox, cut, since, redisUp, mutes, orders, log, heard,
                   chat, muting, proxied>>

\* Mutant: every tick sets the time of the next attempt again.
DelayNeverElapses(s) ==
    /\ bridge[s] = "waiting"
    /\ bridge' = Set(bridge, s, "waiting")
    /\ UNCHANGED <<enabled, ticking, publisher, inbox, cut, since, redisUp, counters, log, heard,
                   chat, muting, proxied>>

DelayElapses(s) ==
    /\ bridge[s] = "waiting"
    /\ bridge' = Set(bridge, s, "due")
    /\ UNCHANGED <<enabled, ticking, publisher, inbox, cut, since, redisUp, counters, log, heard,
                   chat, muting, proxied>>

\* Mutant: the payloads of one tick are handled from the last to the first.
SettlesBackwards(q, v, w) ==
    \/ w = v /\ \A i \in 1..Len(q) : log[q[i]].act # "GlobalMute"
    \/ \E i \in 1..Len(q) :
          /\ log[q[i]] = MuteSet(w)
          /\ \A j \in 1..(i - 1) : log[q[j]].act # "GlobalMute"

\* w is the global mute once the payloads at the places q are handled, v before.
Settles(q, v, w) ==
    \/ w = v /\ \A i \in 1..Len(q) : log[q[i]].act # "GlobalMute"
    \/ \E i \in 1..Len(q) :
          /\ log[q[i]] = MuteSet(w)
          /\ \A j \in (i + 1)..Len(q) : log[q[j]].act # "GlobalMute"

\* Mutant: what was handled is not taken off the buffer.
PumpAgain(s) ==
    /\ s \in ticking /\ bridge[s] = "subscribed" /\ inbox[s] # <<>> /\ Len(heard[s]) < 4
    /\ heard' = Set(heard, s, heard[s] \o inbox[s])
    /\ \E w \in {"on", "off"} : Settles(inbox[s], muted[s], w) /\ muted' = Set(muted, s, w)
    /\ UNCHANGED <<bridge, cut, inbox>>
    /\ UNCHANGED <<enabled, ticking, publisher, since, redisUp, counters, log, chat, verdict, missed, proxied>>

\* Mutant: one payload a tick, the rest of the buffer is lost.
PumpFirst(s) ==
    /\ s \in ticking /\ bridge[s] = "subscribed" /\ inbox[s] # <<>>
    /\ heard' = Set(heard, s, Append(heard[s], Head(inbox[s])))
    /\ inbox' = Set(inbox, s, <<>>)
    /\ UNCHANGED <<muted, bridge, cut>>
    /\ UNCHANGED <<enabled, ticking, publisher, since, redisUp, counters, log, chat, verdict, missed, proxied>>

\* Mutant: the socket is read only to find out that it is gone.
PumpAtTheEnd(s) ==
    /\ s \in ticking /\ bridge[s] = "subscribed" /\ s \in cut
    /\ heard' = Set(heard, s, heard[s] \o inbox[s])
    /\ \E w \in {"on", "off"} : Settles(inbox[s], muted[s], w) /\ muted' = Set(muted, s, w)
    /\ inbox' = Set(inbox, s, <<>>)
    /\ bridge' = Set(bridge, s, "waiting")
    /\ cut' = cut \ {s}
    /\ UNCHANGED <<enabled, ticking, publisher, since, redisUp, counters, log, chat, verdict, missed, proxied>>

\* Everything pushed so far is handled; then a connection that is gone is dropped.
Pump(s) ==
    /\ s \in ticking /\ bridge[s] = "subscribed" /\ (inbox[s] # <<>> \/ s \in cut)
    /\ heard' = Set(heard, s, heard[s] \o inbox[s])
    /\ \E w \in {"on", "off"} : Settles(inbox[s], muted[s], w) /\ muted' = Set(muted, s, w)
    /\ inbox' = Set(inbox, s, <<>>)
    /\ bridge' = IF s \in cut THEN Set(bridge, s, "waiting") ELSE bridge
    /\ cut' = cut \ {s}
    /\ UNCHANGED <<enabled, ticking, publisher, since, redisUp, counters, log, chat, verdict, missed, proxied>>

Tick(s) == Subscribe(s) \/ SubscribeFails(s) \/ Pump(s)

\* IncomingPayloadHandler: the proxy hands over a payload; what it loses it never does.
Deliver(x) ==
    /\ x \in wire
    /\ IF x.item.act = "GlobalMute"
       THEN /\ muted' = Set(muted, x.to, x.item.body) /\ missed' = missed \cup {x.to}
            /\ UNCHANGED carried
       ELSE /\ carried' = IF Ports[x.item.body] = {} \/ x.to \in Ports[x.item.body]
                          THEN carried \cup {<<x.to, x.item.body>>} ELSE carried
            /\ UNCHANGED <<muted, missed>>
    /\ wire' = wire \ {x}
    /\ UNCHANGED <<enabled, ticking, connections, redisUp, counters, log, heard, chat, verdict, relays>>

-----------------------------------------------------------------------------
(* Commands, restarts and faults *)

\* /trchat reload reads redis.enabled again; the Bridge is left alone.
Reload(s) ==
    /\ Order
    /\ enabled' = Set(enabled, s, ~enabled[s])
    /\ UNCHANGED <<ticking, connections, redisUp, mutes, faults, log, heard, chat, muting, proxied>>

\* The bridge a server has after start or reconnect, its connections dropped.
Fresh(s, on) ==
    /\ bridge' = Set(bridge, s, IF on THEN "due" ELSE "absent")
    /\ publisher' = Set(publisher, s, "none")
    /\ inbox' = Set(inbox, s, <<>>)
    /\ cut' = cut \ {s}
    /\ since' = since

\* /trchat redis reconnect
Reconnect(s) ==
    /\ Order /\ Fresh(s, enabled[s])
    /\ missed' = missed \cup {s}
    /\ UNCHANGED <<enabled, ticking, redisUp, mutes, faults, log, heard, chat, muted, verdict, proxied>>

\* The process is restarted: start does nothing at all when Redis is disabled.
Restart(s) ==
    /\ Fault /\ Fresh(s, enabled[s])
    /\ ticking' = IF enabled[s] THEN ticking \cup {s} ELSE ticking \ {s}
    /\ muted' = Set(muted, s, "off") /\ missed' = missed \cup {s}
    /\ UNCHANGED <<enabled, redisUp, mutes, orders, log, heard, chat, verdict, proxied>>

\* A subscription's connection breaks, and with it some of what it had not delivered.
CutSubscriber(s) ==
    /\ bridge[s] = "subscribed" /\ Fault
    /\ cut' = cut \cup {s} /\ missed' = missed \cup {s}
    /\ \E n \in 0..Len(inbox[s]) : inbox' = Set(inbox, s, SubSeq(inbox[s], 1, n))
    /\ UNCHANGED <<enabled, ticking, bridge, publisher, since, redisUp, mutes, orders, log, heard,
                   chat, muted, verdict, proxied>>

CutPublisher(s) ==
    /\ publisher[s] = "open" /\ Fault
    /\ publisher' = Set(publisher, s, "broken")
    /\ UNCHANGED <<enabled, ticking, bridge, inbox, cut, since, redisUp, mutes, orders, log, heard,
                   chat, muting, proxied>>

\* publish_player_names, whose payload is not followed here, uses the publisher too.
PublishNames(s) ==
    /\ s \in ticking
    /\ \/ PublishRefused(s)
       \/ /\ Dialled(s) /\ publisher' = Set(publisher, s, "open")
          /\ UNCHANGED <<faults, log, inbox>>
    /\ UNCHANGED <<enabled, ticking, bridge, cut, since, redisUp, mutes, orders, heard, chat, muting, proxied>>

RedisStops ==
    /\ redisUp /\ Fault
    /\ redisUp' = FALSE
    /\ cut' = {s \in Servers : bridge[s] = "subscribed"}
    /\ publisher' = [s \in Servers |-> IF publisher[s] = "open" THEN "broken" ELSE publisher[s]]
    /\ UNCHANGED <<enabled, ticking, bridge, inbox, since, mutes, orders, log, heard, chat, muting, proxied>>

RedisStarts ==
    /\ ~redisUp /\ redisUp' = TRUE
    /\ UNCHANGED <<enabled, ticking, connections, counters, log, heard, chat, muting, proxied>>

Init ==
    /\ enabled \in [Servers -> BOOLEAN]
    /\ ticking = {s \in Servers : enabled[s]}
    /\ bridge = [s \in Servers |-> IF enabled[s] THEN "due" ELSE "absent"]
    /\ publisher = [s \in Servers |-> "none"]
    /\ inbox = [s \in Servers |-> <<>>]
    /\ cut = {}
    /\ muted = [s \in Servers |-> "off"]
    /\ fate = [m \in Messages |-> "unsaid"]
    /\ wire = {}
    /\ redisUp \in BOOLEAN
    /\ mutes = 0 /\ faults = 0 /\ orders = 0 /\ relays = 0
    /\ log = <<>>
    /\ heard = [s \in Servers |-> <<>>]
    /\ since = [s \in Servers |-> 0]
    /\ carried = {}
    /\ origin = [m \in Messages |-> None]
    /\ doubtful = {}
    /\ verdict = "off"
    /\ missed = {}

Next ==
    \/ \E s \in Servers, m \in Messages : Chat(s, m)
    \/ \E s \in Servers, v \in {"on", "off"} : Mute(s, v)
    \/ \E s \in Servers : Tick(s) \/ DelayElapses(s) \/ PublishNames(s)
    \/ \E x \in wire : Deliver(x)
    \/ \E s \in Servers : Reload(s) \/ Reconnect(s) \/ Restart(s) \/ CutSubscriber(s) \/ CutPublisher(s)
    \/ RedisStops \/ RedisStarts

Spec == Init /\ [][Next]_vars

\* The registered tick runs and time passes.  Nobody has to say anything, give a
\* command or start Redis, and the proxy has to deliver nothing.
FairSpec == Spec /\ \A s \in Servers : WF_vars(Tick(s)) /\ WF_vars(DelayElapses(s))

-----------------------------------------------------------------------------
(* Properties *)

Ascending(q) == \A i, j \in 1..Len(q) : i < j => q[i] < q[j]

\* The variables have their types; only a subscribed bridge has a buffer or a
\* connection to lose, and only a bridge has a publisher.
TypeOK ==
    /\ enabled \in [Servers -> BOOLEAN] /\ ticking \subseteq Servers
    /\ bridge \in [Servers -> {"absent", "due", "waiting", "subscribed"}]
    /\ publisher \in [Servers -> {"none", "open", "broken"}]
    /\ inbox \in [Servers -> Seq(1..Len(log))] /\ heard \in [Servers -> Seq(1..Len(log))]
    /\ cut \subseteq Servers /\ missed \subseteq Servers
    /\ muted \in [Servers -> {"on", "off"}] /\ verdict \in {"on", "off"}
    /\ fate \in [Messages -> {"unsaid", "redis", "proxy", "refused", "local"}]
    /\ origin \in [Messages -> Servers \cup {None}] /\ doubtful \subseteq Messages
    /\ wire \subseteq [to : Servers, id : Nat, item : Payloads]
    /\ redisUp \in BOOLEAN
    /\ mutes \in Nat /\ faults \in Nat /\ orders \in Nat /\ relays \in Nat
    /\ log \in Seq(Payloads)
    /\ since \in [Servers -> 0..Len(log)]
    /\ carried \subseteq Servers \X Messages
    /\ \A s \in Servers :
        /\ bridge[s] # "subscribed" => inbox[s] = <<>> /\ s \notin cut
        /\ bridge[s] = "absent" => publisher[s] = "none"
        /\ publisher[s] = "open" => redisUp

\* Every server handles the payloads of the channel in the one order Redis took
\* them, none twice, however often connections break and are made again: what is
\* still in the buffer comes after everything handled.
InOrder ==
    \A s \in Servers :
        /\ Ascending(heard[s]) /\ Ascending(inbox[s])
        /\ \A i \in 1..Len(heard[s]), j \in 1..Len(inbox[s]) : heard[s][i] < inbox[s][j]

\* While its connection lasts, a subscribed server misses nothing.
NothingSkipped ==
    \A s \in Servers : Live(s) =>
        \A n \in (since[s] + 1)..Len(log) :
            \/ \E i \in 1..Len(heard[s]) : heard[s][i] = n
            \/ \E i \in 1..Len(inbox[s]) : inbox[s][i] = n

HeardOf(s, m) == \E i \in 1..Len(heard[s]) : log[heard[s][i]] = Said(m)
SaidHere(s, m) == fate[m] = "local" /\ origin[m] = s

\* A message is shown to the players of a server once, by Redis, by the proxy or
\* by the sender's own loop, unless Redis pushed it and the reply was lost: then
\* the fallback shows it again.
ShownOnce ==
    \A s \in Servers, m \in Messages :
        /\ \A i, j \in 1..Len(heard[s]) :
              log[heard[s][i]] = Said(m) /\ log[heard[s][j]] = Said(m) => i = j
        /\ ~(<<s, m>> \in carried /\ SaidHere(s, m))
        /\ m \notin doubtful => ~(HeardOf(s, m) /\ (<<s, m>> \in carried \/ SaidHere(s, m)))

\* A message Force-Proxy refused is seen by nobody, unless the reply was lost.
RefusedIsUnseen ==
    \A m \in Messages : fate[m] = "refused" =>
        \A s \in Servers : /\ <<s, m>> \notin carried
                           /\ m \notin doubtful => ~HeardOf(s, m)

\* Whatever fails between the transports, a message is seen as its sender was told.
ShownAsTold == ShownOnce /\ RefusedIsUnseen

\* Servers that toggle the global mute at the same time end up agreeing: whoever
\* received the last change has, once its buffer is empty, the value the last
\* command set, its own command or another's.
MuteAgreement ==
    \A s \in Servers \ missed : inbox[s] = <<>> => muted[s] = verdict

\* What makes MuteAgreement inductive: what is still in the buffer leads there.
MuteSettles == \A s \in Servers \ missed : Settles(inbox[s], muted[s], verdict)

\* What makes ShownOnce and RefusedIsUnseen inductive: the log has a message at
\* most once, and only one the sender was told was sent, or doubtful; the proxy has
\* only messages the sender was told were sent.
OneRoute ==
    \A m \in Messages :
        /\ \A i, j \in 1..Len(log) : log[i] = Said(m) /\ log[j] = Said(m) => i = j
        /\ \A i \in 1..Len(log) : log[i] = Said(m) => fate[m] = "redis" \/ m \in doubtful
        /\ \A x \in wire : x.item = Said(m) => fate[m] = "proxy"
        /\ \A s \in Servers : <<s, m>> \in carried => fate[m] = "proxy"
        /\ fate[m] = "unsaid" => m \notin doubtful

\* The channel is what OrderedBroadcast promises.
Channel == INSTANCE OrderedBroadcast
    WITH Servers <- Servers, Payloads <- Payloads, log <- log, heard <- heard
ImplementsChannel == Channel!Spec

\* A server that has a bridge and whose tick runs gets its subscription back, as
\* long as Redis is up.
Resubscribes ==
    \A s \in Servers :
        (s \in ticking /\ bridge[s] # "absent")
            ~> (bridge[s] \in {"subscribed", "absent"} \/ s \notin ticking \/ ~redisUp)

\* What was pushed to a subscription is handled, unless the connection is lost first.
HeardInTheEnd ==
    \A s \in Servers :
        (s \in ticking /\ inbox[s] # <<>>) ~> (inbox[s] = <<>>)

\* What breaks recovers: the subscription, and what was pushed to it is handled.
Recovers == Resubscribes /\ HeardInTheEnd
=============================================================================
