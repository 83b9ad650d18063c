---------------------------- MODULE PrivateMessages ----------------------------
(***************************************************************************)
(* Private messages of the Pumpkin port: /msg and /reply (commands.rs),    *)
(* send_private (private_msg.rs), and what redis.rs does for them across   *)
(* servers: the lists of who is online elsewhere, published at every login *)
(* and logout and every 200 ticks and forgotten after 90 seconds, and the  *)
(* packets a tick drains.                                                  *)
(*                                                                         *)
(* A unit of time is the 200 ticks between two lists of a server.  The two *)
(* connections of a Bridge are one link here: CrossServerChat has them     *)
(* apart.                                                                  *)
(***************************************************************************)
EXTENDS Integers, Sequences, FiniteSets, SequencesExt

CONSTANTS
    Servers, Players,
    Display,        \* Display[p]: what p is shown as; a player or another name
    Ignores,        \* Ignores[p]: whom p ignores
    Shadowed, Spies,
    ProxyServers,   \* the servers whose settings enable the proxy bridge
    Messages,       \* each sent once
    Mentioning,     \* the messages that mention who they are for
    Writers,        \* bound: who uses /msg
    Replies,        \* bound: the messages kept for /reply
    Starts,         \* where the players may be to begin with
    Nowhere, Nobody, Proxy,
    TTL,            \* how many units a list is kept
    MaxEvents       \* bound: logins, logouts, lists of the proxy, and what breaks

ASSUME MessagesAssumption ==
    /\ Starts \subseteq [Players -> Servers \cup {Nowhere}]
    /\ Ignores \in [Players -> SUBSET Players] /\ DOMAIN Display = Players
    /\ Mentioning \subseteq Messages /\ Writers \subseteq Players
    /\ Shadowed \subseteq Players /\ Spies \subseteq Players /\ ProxyServers \subseteq Servers
    /\ Nowhere \notin Servers /\ Nobody \notin Players /\ Proxy \notin Servers
    /\ TTL \in Nat \ {0} /\ MaxEvents \in Nat

VARIABLES
    at,         \* the server each player is on
    remote,     \* REMOTE_PLAYERS: per server, [who, age] per server that reported
    last,       \* PlayerState.last_private_sender
    linked,     \* the servers connected to Redis
    inbox,      \* what Redis pushed to a server since its last tick
    wire,       \* what the proxy has still to hand to a server
    due,        \* the servers that have to publish their list in this unit
    fate,       \* per message: <<>>, <<Nobody>> if refused, or <<sender, target, as named>>
    seen,       \* <<message, player, server, copy>>: shown as a private message
    spied,      \* the same, shown as the echo for spies
    alerted,    \* <<message, player>>: told of being mentioned
    events,
    doubtful,   \* history: the messages Redis pushed and the reply was lost
    blind       \* history: <<message, server>> handled while the sender was not to be told
                \* from the lists: on none, or another listed player is shown under that name

lists == <<remote, due>>
shown == <<last, seen, spied, alerted, blind>>
vars == <<at, lists, linked, inbox, wire, fate, shown, events, doubtful>>

Names == Players \cup {Display[p] : p \in Players}
Here(s) == {p \in Players : at[p] = s}
List(s, who) == [act |-> "UpdateNames", from |-> s, who |-> who]
Private(m, p, q) == [act |-> "SendPrivateRaw", id |-> m, from |-> p, to |-> q]
Alert(m, q) == [act |-> "SendLang", id |-> m, to |-> q]
Event == events < MaxEvents /\ events' = events + 1
Empty == [x \in {} |-> {}]

-----------------------------------------------------------------------------
(* What a server does with a packet; view: the part of its state that may change *)

ViewOf(s) == [lists |-> remote[s], last |-> last, seen |-> seen, spied |-> spied,
              alerted |-> alerted, blind |-> blind]

\* p is on a list.
Known(view, p) == \E r \in DOMAIN view.lists : p \in view.lists[r].who

\* find_remote_player: who has the name as an account or is shown under it.  Of
\* several the first is taken, in the order of a HashMap: any of them.
Found(view, name) == {q \in Players : Known(view, q) /\ name \in {q, Display[q]}}

\* The lists do not tell who p is.
Mistakable(view, p) ==
    ~Known(view, p) \/ \E q \in Players \ {p} : Known(view, q) /\ Display[q] = p

\* One more copy for everybody in who, on server s: the first or a further one.
Shown(set, m, who, s) == set \cup {<<m, x, s, IF <<m, x, s, 1>> \in set THEN 2 ELSE 1>> : x \in who}

\* Mutant: the two who talk are told what they said.
EchoedToAll(set, m, p, q, s) == Shown(set, m, Spies \cap Here(s), s)

\* notify_spies_by_name
Echoed(set, m, p, q, s) == Shown(set, m, (Spies \cap Here(s)) \ {p, q}, s)

\* What a packet may make of a view.  Mutant: the list a server published comes
\* back to it.
ReceiveNamesOwn(s, view, pkt) ==
    {[view EXCEPT !.lists = [r \in DOMAIN @ \cup {pkt.from} |->
        IF r = pkt.from THEN [who |-> pkt.who, age |-> 0] ELSE @[r]]]}

\* receive_player_names: a server's own list is not kept.
ReceiveNames(s, view, pkt) ==
    IF pkt.from = s THEN {view}
    ELSE {[view EXCEPT !.lists = [r \in DOMAIN @ \cup {pkt.from} |->
              IF r = pkt.from THEN [who |-> pkt.who, age |-> 0] ELSE @[r]]]}

\* Whom the ignore list is asked about: nobody, if no list has the name.
Asked(view, name) == IF Found(view, name) = {} THEN {Nobody} ELSE Found(view, name)

\* Mutant: who is ignored is remembered as the correspondent.
ReceivePrivateRemembering(s, view, pkt) ==
    {LET here    == at[pkt.to] = s
         ignored == here /\ found \in Ignores[pkt.to]
     IN [view EXCEPT
          !.seen = IF here /\ ~ignored THEN Shown(@, pkt.id, {pkt.to}, s) ELSE @,
          !.last = IF here THEN [@ EXCEPT ![pkt.to] = pkt.from] ELSE @,
          !.blind = IF here /\ Mistakable(view, pkt.from) THEN @ \cup {<<pkt.id, s>>} ELSE @,
          !.spied = Echoed(@, pkt.id, pkt.from, pkt.to, s)] : found \in Asked(view, pkt.from)}

\* Mutant: the ignore list is asked where the sender is, never where the target is.
ReceivePrivateUnasked(s, view, pkt) ==
    IF at[pkt.to] # s THEN {view}
    ELSE {[view EXCEPT !.seen = Shown(@, pkt.id, {pkt.to}, s), !.last[pkt.to] = pkt.from]}

\* receive_private: the ignore list is asked about who is found under the name of
\* the sender.
ReceivePrivate(s, view, pkt) ==
    {LET here    == at[pkt.to] = s
         ignored == here /\ found \in Ignores[pkt.to]
     IN [view EXCEPT
          !.seen = IF here /\ ~ignored THEN Shown(@, pkt.id, {pkt.to}, s) ELSE @,
          !.last = IF here /\ ~ignored THEN [@ EXCEPT ![pkt.to] = pkt.from] ELSE @,
          !.blind = IF here /\ Mistakable(view, pkt.from) THEN @ \cup {<<pkt.id, s>>} ELSE @,
          !.spied = Echoed(@, pkt.id, pkt.from, pkt.to, s)] : found \in Asked(view, pkt.from)}

\* receive_language_notice: nobody's ignore list is asked.
ReceiveAlert(s, view, pkt) ==
    {[view EXCEPT !.alerted = IF at[pkt.to] = s THEN @ \cup {<<pkt.id, pkt.to>>} ELSE @]}

\* dispatch_fields
Dispatch(s, view, pkt) ==
    CASE pkt.act = "UpdateNames"    -> ReceiveNames(s, view, pkt)
      [] pkt.act = "SendPrivateRaw" -> ReceivePrivate(s, view, pkt)
      [] pkt.act = "SendLang"       -> ReceiveAlert(s, view, pkt)

\* The same, whatever the packets before have made of the view.
Handled(s, views, pkt) == UNION {Dispatch(s, view, pkt) : view \in views}

Become(s, view) ==
    /\ remote' = [remote EXCEPT ![s] = view.lists]
    /\ last' = view.last /\ seen' = view.seen /\ spied' = view.spied
    /\ alerted' = view.alerted /\ blind' = view.blind

-----------------------------------------------------------------------------
(* Publishing *)

Pushed(pkts) == inbox' = [t \in Servers |-> IF t \in linked THEN inbox[t] \o pkts ELSE inbox[t]]

\* publish_player_names; who has just come or is about to go may be listed or not.
PublishNames(s, who) == IF s \in linked THEN Pushed(<<List(s, who)>>) ELSE UNCHANGED inbox

\* Mutant: lists are published at logins and logouts only.
PeriodicSilent(s) ==
    /\ s \in due /\ due' = due \ {s}
    /\ UNCHANGED <<at, remote, linked, inbox, wire, fate, shown, events, doubtful>>

Periodic(s) ==
    /\ s \in due /\ due' = due \ {s}
    /\ PublishNames(s, Here(s))
    /\ UNCHANGED <<at, remote, linked, wire, fate, shown, events, doubtful>>

Join(p, s) ==
    /\ at[p] = Nowhere /\ Event
    /\ at' = [at EXCEPT ![p] = s]
    /\ \E who \in {Here(s), Here(s) \cup {p}} : PublishNames(s, who)
    /\ UNCHANGED <<lists, linked, wire, fate, shown, doubtful>>

\* The session goes, and with it who wrote last.
Leave(p) ==
    /\ at[p] # Nowhere /\ Event
    /\ at' = [at EXCEPT ![p] = Nowhere] /\ last' = [last EXCEPT ![p] = Nobody]
    /\ \E who \in {Here(at[p]), Here(at[p]) \ {p}} : PublishNames(at[p], who)
    /\ UNCHANGED <<lists, linked, wire, fate, seen, spied, alerted, blind, doubtful>>

-----------------------------------------------------------------------------
(* send_private *)

Accepted(m, p, q, name) == fate' = [fate EXCEPT ![m] = <<p, q, name>>]
Refused(m) == fate' = [fate EXCEPT ![m] = <<Nobody>>]

From(m) == fate[m][1]
To(m) == fate[m][2]
Typed(m) == fate[m][3]

NoEffect == UNCHANGED <<inbox, wire, remote, shown, events, doubtful>>

\* Nobody here has the account, nobody on a list the account or the display name.
NotFound(m, p, name) ==
    /\ ~\E q \in Here(at[p]) : q = name
    /\ Found(ViewOf(at[p]), name) = {}
    /\ Refused(m) /\ NoEffect

\* Who is shadow-muted sees their own copy, and nobody else anything.
Unheard(m, p, q, name) ==
    /\ p \in Shadowed /\ Accepted(m, p, q, name) /\ NoEffect

\* Mutant: the shadow mute holds for other servers only.
LocallyHeard(m, p, q, name) ==
    /\ Accepted(m, p, q, name) /\ seen' = Shown(seen, m, {q}, at[p])
    /\ last' = [last EXCEPT ![q] = p]
    /\ UNCHANGED <<alerted, spied, inbox, wire, remote, blind, events, doubtful>>

Locally(m, p, q, name) ==
    /\ p \notin Shadowed
    /\ IF p \in Ignores[q]
       THEN Accepted(m, p, q, name) /\ UNCHANGED <<seen, last, alerted>>
       ELSE /\ Accepted(m, p, q, name)
            /\ seen' = Shown(seen, m, {q}, at[p]) /\ last' = [last EXCEPT ![q] = p]
            /\ alerted' = IF m \in Mentioning THEN alerted \cup {<<m, q>>} ELSE alerted
    /\ spied' = Echoed(spied, m, p, q, at[p])
    /\ UNCHANGED <<inbox, wire, remote, blind, events, doubtful>>

\* An item the other server could not resolve is refused.
Unsafe(m, p) ==
    /\ p \notin Shadowed /\ Refused(m) /\ NoEffect

Relayed(s, pkts) ==
    /\ s \in ProxyServers
    /\ wire' = wire \cup {<<t, pkts[i]>> : t \in ProxyServers, i \in DOMAIN pkts}

\* Mutant: the proxy is handed what Redis took as well.
RemotelyTwice(m, p, q, name) ==
    /\ p \notin Shadowed /\ at[p] \in linked
    /\ Pushed(<<Private(m, p, q)>>) /\ Relayed(at[p], <<Private(m, p, q)>>)
    /\ Accepted(m, p, q, name) /\ UNCHANGED <<remote, shown, events, doubtful>>

\* Redis, else the proxy; the mention after the message, by whichever takes it.
Remotely(m, p, q, name) ==
    LET s    == at[p]
        pkts == <<Private(m, p, q)>> \o (IF m \in Mentioning THEN <<Alert(m, q)>> ELSE <<>>)
    IN /\ p \notin Shadowed
       /\ \/ /\ s \in linked /\ Pushed(pkts)
             /\ Accepted(m, p, q, name) /\ UNCHANGED <<wire, events, doubtful>>
          \/ /\ s \in linked /\ Event /\ Pushed(<<pkts[1]>>) /\ doubtful' = doubtful \cup {m}
             /\ \/ Relayed(s, pkts) /\ Accepted(m, p, q, name)
                \/ Accepted(m, p, q, name) /\ UNCHANGED wire
          \/ /\ s \notin linked
             /\ \/ Relayed(s, pkts) /\ Accepted(m, p, q, name)
                \/ Accepted(m, p, q, name) /\ UNCHANGED wire
             /\ UNCHANGED <<inbox, events, doubtful>>
       /\ UNCHANGED <<remote, shown>>

SendPrivate(m, p, name) ==
    /\ fate[m] = <<>> /\ at[p] # Nowhere
    /\ \/ NotFound(m, p, name)
       \/ /\ name \in Here(at[p])
          /\ Unheard(m, p, name, name) \/ Locally(m, p, name, name)
       \/ /\ name \notin Here(at[p])
          /\ \E q \in Found(ViewOf(at[p]), name) :
                Unheard(m, p, q, name) \/ Unsafe(m, p) \/ Remotely(m, p, q, name)
    /\ UNCHANGED <<at, due, linked>>

Msg(m, p) == m \notin Replies /\ p \in Writers /\ \E name \in Names : SendPrivate(m, p, name)
Reply(m, p) == last[p] # Nobody /\ SendPrivate(m, p, last[p])

-----------------------------------------------------------------------------
(* Ticks, time, and what breaks *)

\* Everything pushed since the last tick is handled.
Pump(s) ==
    /\ inbox[s] # <<>> /\ inbox' = [inbox EXCEPT ![s] = <<>>]
    /\ \E new \in FoldLeft(LAMBDA views, pkt : Handled(s, views, pkt), {ViewOf(s)}, inbox[s]) : Become(s, new)
    /\ UNCHANGED <<at, due, linked, wire, fate, events, doubtful>>

\* IncomingPayloadHandler; what the proxy loses it never hands over.
HandOver(x) ==
    /\ wire' = wire \ {x}
    /\ \E new \in Dispatch(x[1], ViewOf(x[1]), x[2]) : Become(x[1], new)
    /\ UNCHANGED <<at, due, linked, inbox, fate, events, doubtful>>

\* receive_all_player_names: the list of the proxy replaces all others.
Aggregate(s) ==
    /\ s \in ProxyServers /\ Event
    /\ remote' = [remote EXCEPT ![s] =
                     [r \in {Proxy} |-> [who |-> UNION {Here(t) : t \in ProxyServers}, age |-> 0]]]
    /\ UNCHANGED <<at, due, linked, inbox, wire, fate, shown, doubtful>>

\* Mutant: a list that was not renewed is kept.
Kept(r) == [r EXCEPT !.age = IF @ < TTL THEN @ + 1 ELSE @]
AgedForever(of) == [r \in DOMAIN of |-> Kept(of[r])]

\* expire_remote_players, before the unit is over.
Aged(of) ==
    [r \in {x \in DOMAIN of : of[x].age < TTL} |-> [of[r] EXCEPT !.age = @ + 1]]

\* The ticks of a unit drain every inbox and publish every list.
Pass ==
    /\ due = {} /\ \A s \in Servers : inbox[s] = <<>>
    /\ remote' = [s \in Servers |-> Aged(remote[s])] /\ due' = Servers
    /\ UNCHANGED <<at, linked, inbox, wire, fate, shown, events, doubtful>>

Unlink(s) ==
    /\ s \in linked /\ Event /\ linked' = linked \ {s}
    /\ UNCHANGED <<at, lists, inbox, wire, fate, shown, doubtful>>

Relink(s) ==
    /\ s \notin linked /\ linked' = linked \cup {s}
    /\ UNCHANGED <<at, lists, inbox, wire, fate, shown, events, doubtful>>

\* The server stops and starts again: its memory and its players are gone.
Restart(s) ==
    /\ Event
    /\ at' = [p \in Players |-> IF at[p] = s THEN Nowhere ELSE at[p]]
    /\ last' = [p \in Players |-> IF at[p] = s THEN Nobody ELSE last[p]]
    /\ remote' = [remote EXCEPT ![s] = Empty] /\ inbox' = [inbox EXCEPT ![s] = <<>>]
    /\ linked' = linked \ {s}
    /\ UNCHANGED <<due, wire, fate, seen, spied, alerted, blind, doubtful>>

-----------------------------------------------------------------------------
Init ==
    /\ at \in Starts
    /\ remote = [s \in Servers |-> Empty] /\ due = Servers
    /\ last = [p \in Players |-> Nobody]
    /\ linked = Servers /\ inbox = [s \in Servers |-> <<>>] /\ wire = {}
    /\ fate = [m \in Messages |-> <<>>]
    /\ seen = {} /\ spied = {} /\ alerted = {} /\ blind = {} /\ doubtful = {}
    /\ events = 0

ServerStep(s) ==
    \/ Periodic(s) \/ Pump(s) \/ Aggregate(s)
    \/ Unlink(s) \/ Relink(s) \/ Restart(s)
    \/ \E p \in Players : Join(p, s)

Next ==
    \/ \E s \in Servers : ServerStep(s)
    \/ \E p \in Players : Leave(p) \/ \E m \in Messages : Msg(m, p) \/ Reply(m, p)
    \/ \E x \in wire : HandOver(x)
    \/ Pass

Spec == Init /\ [][Next]_vars

\* Ticks keep coming; a link that is gone may stay gone.
FairSpec ==
    /\ Spec /\ WF_vars(Pass)
    /\ \A s \in Servers : WF_vars(Periodic(s)) /\ WF_vars(Pump(s))

-----------------------------------------------------------------------------
Views == Messages \X Players \X Servers \X {1, 2}

(* Every variable has its type, and no list is older than its time to live *)
(* (redis.rs: receive_player_names, expire_remote_players).                *)
TypeOK ==
    /\ at \in [Players -> Servers \cup {Nowhere}]
    /\ DOMAIN remote = Servers
    /\ \A s \in Servers : \A r \in DOMAIN remote[s] :
          /\ r \in (Servers \ {s}) \cup {Proxy}
          /\ remote[s][r].who \subseteq Players /\ remote[s][r].age \in 0..TTL
    /\ due \subseteq Servers /\ linked \subseteq Servers
    /\ last \in [Players -> Players \cup {Nobody}]
    /\ \A s \in Servers : \A i \in DOMAIN inbox[s] :
          inbox[s][i].act \in {"UpdateNames", "SendPrivateRaw", "SendLang"}
    /\ DOMAIN fate = Messages
    /\ seen \subseteq Views /\ spied \subseteq Views
    /\ alerted \subseteq Messages \X Players /\ blind \subseteq Messages \X Servers
    /\ events \in 0..MaxEvents

(* A message of a shadow-muted player reaches nobody: no copy, no echo, no  *)
(* alert, no reply target, wherever the target is (private_msg.rs:          *)
(* send_private splits before both transports).                             *)
ShadowSilent ==
    /\ \A v \in seen \cup spied \cup alerted : From(v[1]) \notin Shadowed
    /\ \A p \in Players : last[p] \notin Shadowed

(* A copy is shown to who was named, by account or display name, once on a  *)
(* server, and a second time only where Redis pushed the packet, lost its   *)
(* answer, and the proxy was handed the message as well (private_msg.rs:    *)
(* send_private; redis.rs: find_remote_player, receive_private).            *)
OnceToTheNamed ==
    \A v \in seen :
        /\ v[2] = To(v[1]) /\ Typed(v[1]) \in {v[2], Display[v[2]]}
        /\ v[4] = 2 => v[1] \in doubtful

(* The echo goes to spies that take no part in the conversation, once per   *)
(* server and transport (private_msg.rs: notify_spies_by_name; every server  *)
(* echoes what it receives, its own messages included).                     *)
SpiesApart ==
    \A v \in spied :
        /\ v[2] \in Spies \ {From(v[1]), To(v[1])}
        /\ v[4] = 2 => v[1] \in doubtful

(* Who ignores the sender sees the message only if it came from another     *)
(* server and the lists there did not tell who the sender was: the sender   *)
(* was on none, or another player was listed who is shown under that name   *)
(* (private_msg.rs: ignores; redis.rs: receive_private, find_remote_player).*)
IgnoredUnlessMistaken ==
    \A v \in seen :
        From(v[1]) \in Ignores[v[2]] => \E s \in Servers : <<v[1], s>> \in blind

(* /reply answers somebody whose message was shown to this player           *)
(* (private_msg.rs: remember_correspondent; redis.rs: receive_private).     *)
ReplyToSeen ==
    \A p \in Players : last[p] # Nobody =>
        \E v \in seen : v[2] = p /\ From(v[1]) = last[p]

(* Whatever way a private message takes, only its two ends and spies that   *)
(* are neither see it, as often as is due, and only an end can be answered. *)
KeptPrivate == TypeOK /\ ShadowSilent /\ OnceToTheNamed /\ SpiesApart /\ ReplyToSeen

(* Who is on another server can be written to again and again while both    *)
(* servers are connected: a lost list is repaired by a later one (redis.rs: *)
(* tick, publish_player_names).                                             *)
Addressable ==
    []<>(\A p \in Players, s \in Servers :
            at[p] \in linked \ {s} /\ s \in linked => Known(ViewOf(s), p))

(* Who is nowhere is forgotten in the end, even if the server that had them *)
(* never says so (redis.rs: expire_remote_players).                         *)
Forgotten ==
    <>[](\A p \in Players, s \in Servers : at[p] = Nowhere => ~Known(ViewOf(s), p))

(* The lists of remote players become true again, in both directions.       *)
ListsRecover == Addressable /\ Forgotten

(* README_EN.md:39 promises "persistent local/cross-server player ignores": *)
(* neither a copy nor an alert comes through from who is ignored.           *)
IgnoreHolds ==
    /\ \A v \in seen : From(v[1]) \notin Ignores[v[2]]
    /\ \A v \in alerted : From(v[1]) \notin Ignores[v[2]]

=============================================================================
