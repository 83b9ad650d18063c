----------------------------- MODULE PlayerSession -----------------------------
(***************************************************************************)
(* What the plugin remembers about its players: the session registry of    *)
(* playerdata.rs, the rows a login restores and a logout, or the unload of *)
(* the plugin, stores, the commands of commands.rs that change a session,  *)
(* and the message chat_pipeline routes, refuses or hands to its           *)
(* receivers.  The component is single threaded: a handler is one step.    *)
(*                                                                         *)
(* Names are players and channels themselves (the code compares them       *)
(* without case).  The guards of ChatGuards and the relay of               *)
(* CrossServerChat are not repeated here: a message may always be refused. *)
(***************************************************************************)
EXTENDS Integers, FiniteSets

CONSTANTS
    Players, Ops,       \* who is an operator, and holds every permission
    Channels, Normal,   \* Normal: the literal a bound alias falls back to
    Restricted,         \* the channels whose permission only operators hold
    Configurations,     \* the channel files an operator may have written
    Lengths,            \* the lengths of a mute, in units of the clock
    Colours,
    NoChannel, NoColour, NoSession, NoRow,
    MaxTime, MaxOrders, MaxFaults   \* bounds: the clock, commands, failures

Configuration ==
    [channels : SUBSET Channels, default : Channels, private : SUBSET Channels,
     listen : SUBSET Channels, managed : BOOLEAN]

\* The fields of PlayerState a row keeps as they are.
Settings ==
    [until : Int, shadow : BOOLEAN, spy : BOOLEAN, ignored : SUBSET Players,
     colour : Colours \cup {NoColour}]
Membership == [active : Channels \cup {NoChannel}, joined : SUBSET Channels]
PlayerState == [set : Settings, in : Membership]

ASSUME SessionAssumption ==
    /\ Ops \subseteq Players /\ Normal \in Channels
    /\ Restricted \subseteq Channels
    /\ Configurations \subseteq Configuration
    /\ \A c \in Configurations : c.default \in c.channels
    /\ Lengths \subseteq Nat
    /\ NoChannel \notin Channels /\ NoColour \notin Colours
    /\ NoSession \notin PlayerState /\ NoRow \notin PlayerState
    /\ MaxTime \in Nat /\ MaxOrders \in Nat /\ MaxFaults \in Nat

VARIABLES
    config,
    loaded,         \* the handlers of the plugin are registered
    connections,    \* per player, the logins whose logout is still to come
    session,        \* SessionPlayers.states
    row,            \* the four tables of datasource.yml
    globalMute,
    now,
    orders, faults, \* how many of MaxOrders and MaxFaults were used
    owed            \* history: the settings ordered, and not lost since

vars == <<config, loaded, connections, session, row, globalMute, now, orders, faults, owed>>

Blank == [set |-> [until |-> 0, shadow |-> FALSE, spy |-> FALSE, ignored |-> {}, colour |-> NoColour],
          in |-> [active |-> NoChannel, joined |-> {}]]

Online(p) == connections[p] > 0
HasSession(p) == session[p] # NoSession
With(f, p, v) == [q \in Players |-> IF q = p THEN v ELSE f[q]]

-----------------------------------------------------------------------------
(* Rows *)

\* Mutant: the new settings are stored only if there was a row.
StoredUpdateOnly(s, r) == IF r = NoRow THEN NoRow ELSE s

\* save_inner: every joined channel a row, the active one marked if it is among them.
Stored(s, r) ==
    [s EXCEPT !.in.active = IF s.in.active \in s.in.joined THEN s.in.active ELSE NoChannel]

\* load: without a row of player_state the other tables are not looked at.
Loaded(p) == IF row[p] = NoRow THEN Blank ELSE row[p]

\* join_with, for a player without an entry.
Fresh(s) ==
    [s EXCEPT !.in = [active |-> IF s.in.active = NoChannel THEN config.default ELSE s.in.active,
                      joined |-> s.in.joined \cup {config.default}]]

JoinedWith(p, stored) ==
    IF HasSession(p)
    THEN [session[p] EXCEPT !.in.joined = @ \cup {config.default}]
    ELSE Fresh(stored)

\* What is in force for a player: the session, nothing without one, the row of who is away.
Held(p) ==
    IF HasSession(p) THEN session[p].set
    ELSE IF (loaded /\ Online(p)) \/ row[p] = NoRow THEN Blank.set
    ELSE row[p].set

\* A step by which the players of Losers lose what was ordered for them, or, by a
\* second login, get back what is stored.
Lose(Losers) == owed' = [q \in Players |-> IF q \in Losers THEN Held(q)' ELSE owed[q]]

Fault(n) == faults + n <= MaxFaults /\ faults' = faults + n

-----------------------------------------------------------------------------
(* Logins and logouts *)

(* PersistJoinHandler.  The store may not open: no entry; the load may fail: *)
(* an entry with the defaults.                                               *)
Restore(p, outcome) ==
    session' = With(session, p,
        CASE outcome = "unopened" -> session[p]
          [] outcome = "unread"   -> JoinedWith(p, Blank)
          [] OTHER                -> JoinedWith(p, Loaded(p)))

\* A second login before the logout of the first is handled costs a fault, too.
Join(p) ==
    /\ UNCHANGED <<config, loaded, row, globalMute, now, orders>>
    /\ connections[p] < 2 /\ connections' = With(connections, p, connections[p] + 1)
    /\ IF ~loaded THEN Fault(connections[p]) /\ UNCHANGED <<session, owed>>
       ELSE \E outcome \in {"restored", "unread", "unopened"} :
               /\ Fault(connections[p] + (IF outcome = "restored" THEN 0 ELSE 1))
               /\ Restore(p, outcome)
               /\ Lose(IF HasSession(p) \/ (outcome = "restored" /\ ~Online(p)) THEN {} ELSE {p})

\* PersistLeaveHandler: the entry, or a blank one, is stored; the transaction may fail.
Leave(p) ==
    /\ UNCHANGED <<config, loaded, globalMute, now, orders>>
    /\ Online(p) /\ connections' = With(connections, p, connections[p] - 1)
    /\ IF ~loaded THEN UNCHANGED <<session, row, faults, owed>>
       ELSE /\ session' = With(session, p, NoSession)
            /\ \E saved \in BOOLEAN :
                  /\ Fault(IF saved THEN 0 ELSE 1)
                  /\ row' = IF saved
                            THEN With(row, p, Stored(IF HasSession(p) THEN session[p] ELSE Blank, row[p]))
                            ELSE row
                  /\ Lose(IF HasSession(p) /\ saved /\ connections[p] = 1 THEN {} ELSE {p})

\* on_unload: flush_all stores the sessions one after the other; one that fails may
\* take those after it along.
Unload ==
    /\ loaded /\ loaded' = FALSE
    /\ session' = [p \in Players |-> NoSession]
    /\ globalMute' = FALSE
    /\ UNCHANGED <<config, connections, now, orders>>
    /\ \E saved \in SUBSET {p \in Players : HasSession(p)} :
          /\ Fault(IF \A p \in Players : HasSession(p) => p \in saved THEN 0 ELSE 1)
          /\ row' = [p \in Players |-> IF p \in saved THEN Stored(session[p], row[p]) ELSE row[p]]
          /\ Lose({p \in Players : Online(p)} \ saved)

\* on_load registers the handlers: who is online already has no session.
Load ==
    /\ ~loaded /\ loaded' = TRUE
    /\ config' \in Configurations
    /\ Fault(IF \E p \in Players : Online(p) THEN 1 ELSE 0)
    /\ UNCHANGED <<connections, session, row, globalMute, now, orders>>
    /\ Lose({p \in Players : Online(p)})

Crash ==
    /\ Fault(1)
    /\ loaded' = FALSE /\ connections' = [p \in Players |-> 0]
    /\ session' = [p \in Players |-> NoSession] /\ globalMute' = FALSE
    /\ UNCHANGED <<config, row, now, orders>>
    /\ Lose({p \in Players : Online(p)})

\* ReloadCommand: another configuration, or the old one when the files are unreadable.
Reload ==
    /\ loaded /\ config' \in Configurations
    /\ UNCHANGED <<loaded, connections, session, row, globalMute, now, orders, faults, owed>>

-----------------------------------------------------------------------------
(* Commands *)

Command ==
    /\ loaded /\ orders < MaxOrders /\ orders' = orders + 1
    /\ UNCHANGED <<config, loaded, connections, row, now, faults>>

\* A command that finds no session changes nothing.
Order(p, set) ==
    /\ Command /\ UNCHANGED globalMute
    /\ HasSession(p)
    /\ session' = With(session, p, [session[p] EXCEPT !.set = set])
    /\ owed' = With(owed, p, set)

MutePlayer(p) ==
    \E until \in {-1} \cup {now + d : d \in Lengths} :
        Order(p, [session[p].set EXCEPT !.until = until])
UnmutePlayer(p) == Order(p, [session[p].set EXCEPT !.until = 0])
ShadowMute(p) == \E on \in BOOLEAN : Order(p, [session[p].set EXCEPT !.shadow = on])
Spy(p) == p \in Ops /\ Order(p, [session[p].set EXCEPT !.spy = ~@])
Color(p) == \E c \in Colours \cup {NoColour} : Order(p, [session[p].set EXCEPT !.colour = c])
Ignore(p) ==
    \E q \in Players \ {p} :
        Order(p, [session[p].set EXCEPT !.ignored = IF q \in @ THEN @ \ {q} ELSE @ \cup {q}])

SetGlobalMute(on) ==
    /\ Command /\ globalMute' = on /\ UNCHANGED <<session, owed>>

Move(p, in) ==
    /\ Command /\ UNCHANGED <<globalMute, owed>>
    /\ HasSession(p) /\ session' = With(session, p, [session[p] EXCEPT !.in = in])

\* ChannelJoinCommand of sender s for p.
ChannelJoin(s, p, c) ==
    /\ config.managed /\ Online(p) /\ c \in config.channels
    /\ s # p => s \in Ops /\ c \notin config.private
    /\ c \in Restricted => s \in Ops
    /\ Move(p, [active |-> c, joined |-> session[p].in.joined \cup {c}])

\* Mutant: the fallback is made active, not joined.
QuitAsideFrom(p) ==
    [active |-> config.default, joined |-> session[p].in.joined \ {session[p].in.active}]

Quit(p) ==
    LET left == session[p].in.active
        kept == left \in config.channels \cap config.listen
    IN [active |-> config.default,
        joined |-> (session[p].in.joined \ (IF kept THEN {} ELSE {left})) \cup {config.default}]

ChannelQuit(s, p) == (s = p \/ s \in Ops) /\ Online(p) /\ HasSession(p) /\ Move(p, Quit(p))

\* apply_channel_toggle: who is a member quits, wherever they speak.
Toggled(in, c) ==
    IF c \notin in.joined THEN [active |-> c, joined |-> in.joined \cup {c}]
    ELSE [active |-> IF in.active \in {c, NoChannel} THEN Normal ELSE in.active,
          joined |-> in.joined \ (IF c \in config.listen THEN {} ELSE {c})]

\* BoundAliasCommand without a message, for a channel that is not private.
BoundAlias(p, c) ==
    /\ c \in config.channels \ config.private /\ Online(p) /\ HasSession(p)
    /\ Move(p, Toggled(session[p].in, c))

-----------------------------------------------------------------------------
(* Messages *)

MuteInForce(until) == until < 0 \/ until > now

\* route_with_active: an active channel that is no longer registered is passed over.
Routed(p) ==
    IF HasSession(p) /\ session[p].in.active \in config.channels THEN session[p].in.active
    ELSE config.default

\* expire_mute
Expired(p) ==
    IF HasSession(p) /\ session[p].set.until > 0 /\ session[p].set.until <= now
    THEN [session[p] EXCEPT !.set.until = 0] ELSE session[p]

\* Mutant: a mute is over when its time is.
MutedByClock(p) ==
    \/ globalMute /\ p \notin Ops
    \/ HasSession(p) /\ session[p].set.until > now

Muted(p) ==
    \/ globalMute /\ p \notin Ops
    \/ HasSession(p) /\ MuteInForce(session[p].set.until)

\* Mutant: who listens hears it, ignored or not.
ReceiversOfAll(p, c) ==
    {q \in Players : Online(q) /\ (c \in config.listen \/ (HasSession(q) /\ c \in session[q].in.joined))}

\* The broadcast loop: ignore list, membership, listen permission.
Receivers(p, c) ==
    {q \in Players :
        /\ Online(q) /\ ~(HasSession(q) /\ p \in session[q].set.ignored)
        /\ c \in config.listen \/ (HasSession(q) /\ c \in session[q].in.joined)
        /\ c \in Restricted => q \in Ops}

Audience(p, c) ==
    IF HasSession(p) /\ session[p].set.shadow THEN {p} ELSE Receivers(p, c)

\* The channels a message of p may be for: by prefix, or routed.  Private ones
\* are left to the private messages.
MaySpeak(p, c) ==
    /\ loaded /\ Online(p) /\ c \in config.channels \ config.private
    /\ c \in Restricted => p \in Ops

\* Who receives a message the guards let pass.
Delivered(p, c) == IF MaySpeak(p, c) /\ ~Muted(p) THEN Audience(p, c) ELSE {}

\* What chat_pipeline leaves behind, delivered or not: a mute that is over is dropped.
Chat(p) ==
    /\ \E c \in Channels : MaySpeak(p, c)
    /\ session' = With(session, p, Expired(p))
    /\ owed' = With(owed, p, [owed[p] EXCEPT !.until = IF MuteInForce(@) THEN @ ELSE 0])
    /\ UNCHANGED <<config, loaded, connections, row, globalMute, now, orders, faults>>

Tick ==
    /\ now < MaxTime /\ now' = now + 1
    /\ UNCHANGED <<config, loaded, connections, session, row, globalMute, orders, faults, owed>>

-----------------------------------------------------------------------------
Init ==
    /\ config \in Configurations /\ loaded = TRUE
    /\ connections = [p \in Players |-> 0]
    /\ session = [p \in Players |-> NoSession] /\ row = [p \in Players |-> NoRow]
    /\ globalMute = FALSE /\ now = 1 /\ orders = 0 /\ faults = 0
    /\ owed = [p \in Players |-> Blank.set]

PlayerStep(p) ==
    \/ Join(p) \/ Leave(p)
    \/ MutePlayer(p) \/ UnmutePlayer(p) \/ ShadowMute(p) \/ Spy(p) \/ Color(p) \/ Ignore(p)
    \/ \E s \in Players : ChannelQuit(s, p) \/ \E c \in Channels : ChannelJoin(s, p, c)
    \/ \E c \in Channels : BoundAlias(p, c)
    \/ Chat(p)

Next ==
    \/ \E p \in Players : PlayerStep(p)
    \/ Unload \/ Load \/ Crash \/ Reload \/ Tick
    \/ \E on \in BOOLEAN : SetGlobalMute(on)

Spec == Init /\ [][Next]_vars

-----------------------------------------------------------------------------
(* Nobody without a handler registered and a login has an entry, and nobody *)
(* is in their own ignore list, in memory or stored; who has an entry       *)
(* speaks in a channel joined, or in the literal of a bound alias           *)
(* (playerdata.rs: join_with, PersistLeaveHandler; commands.rs: Toggled).   *)
Entries ==
    \A p \in Players :
        /\ HasSession(p) =>
               /\ loaded /\ Online(p)
               /\ session[p].in.active \in session[p].in.joined \cup {Normal}
               /\ p \notin session[p].set.ignored
        /\ row[p] # NoRow => p \notin row[p].set.ignored

(* Every variable has its type; a row names an active channel only if it is *)
(* among those joined (playerdata.rs: Stored, JoinedWith).                  *)
TypeOK ==
    /\ config \in Configurations /\ loaded \in BOOLEAN
    /\ connections \in [Players -> 0..2]
    /\ session \in [Players -> PlayerState \cup {NoSession}]
    /\ row \in [Players -> PlayerState \cup {NoRow}]
    /\ \A p \in Players :
           row[p] # NoRow => row[p].in.active \in row[p].in.joined \cup {NoChannel}
    /\ globalMute \in BOOLEAN /\ now \in 1..(MaxTime + 1)
    /\ orders \in 0..MaxOrders /\ faults \in 0..MaxFaults
    /\ owed \in [Players -> Settings]

(* Through any logins, logouts, reloads and clean stops, what was ordered   *)
(* for a player stays in force, online, and stays stored, away: only the    *)
(* losses named at Lose (a failed load, save or flush, a crash, a login     *)
(* overlapped by the logout of another, a plugin loaded under a player)     *)
(* take it away (playerdata.rs: load, save, join_with).                     *)
Restored == \A p \in Players : Held(p) = owed[p]

(* No message of a player under a mute, ordered in whatever session, and    *)
(* none under the global mute but of operators, reaches anybody             *)
(* (chat.rs: the mute guards; expire_mute).                                 *)
MuteEnforced ==
    \A p \in Players, c \in Channels : Delivered(p, c) # {} =>
        /\ ~MuteInForce(owed[p].until)
        /\ globalMute => p \in Ops

(* A message reaches nobody who ignores its sender, and one of a            *)
(* shadow-muted player nobody else (chat.rs: the broadcast loop).           *)
SilenceEnforced ==
    \A p \in Players, c \in Channels :
        /\ \A q \in Delivered(p, c) : q # p => p \notin owed[q].ignored
        /\ owed[p].shadow => Delivered(p, c) \subseteq {p}

(* A player hears themself where a message of theirs is routed, unless that *)
(* is the literal a bound alias falls back to, or the default channel of a  *)
(* later reload: no other change of membership leaves them talking to       *)
(* others only (commands.rs: ChannelJoin, Quit, Toggled; join_with).        *)
HearThemselves ==
    \A p \in Players :
        LET c == Routed(p)
        IN MaySpeak(p, c) /\ HasSession(p) /\ c # Normal /\ c # config.default => p \in Receivers(p, c)

(* A message reaches exactly whom the sessions allow, however they came to  *)
(* be: not past a mute or an ignore, and back to its sender.                *)
ReachesThoseAllowed == MuteEnforced /\ SilenceEnforced /\ HearThemselves

=============================================================================
