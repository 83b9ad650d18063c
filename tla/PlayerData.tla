------------------------------- MODULE PlayerData -------------------------------
(***************************************************************************)
(* What the mod remembers of a player, in memory and in the data source:   *)
(* moderation/ModerationService.java over data/PlayerDataStore.java, driven*)
(* by the login, logout, command, reload and stop handlers of              *)
(* chat/ChatService.java.                                                  *)
(*                                                                         *)
(* The server thread reads the data source itself, and hands every save to *)
(* a single saver thread.  A state is what a command sets (mute, shadow    *)
(* mute, spying, ignored players, colour), here one mark, and the channel  *)
(* membership, which ChatService keeps a copy of.                          *)
(***************************************************************************)
EXTENDS Integers, Sequences, FiniteSets

CONSTANTS
    Players,
    Marks, Clear,       \* what commands set; Clear is the mark of an unknown player
    Channels, Home,     \* memberships; Home is the one a player falls back to
    NoChannel,          \* the membership of an unknown player
    Absent,             \* no entry in a map, no row in a table, no player
    MaxEvents           \* bound: what players, operators and faults do

ASSUME DataAssumption ==
    /\ Clear \in Marks /\ Home \in Channels /\ NoChannel \notin Channels
    /\ MaxEvents \in Nat

PlayerState == [mark : Marks, channel : Channels \cup {NoChannel}]

ASSUME AbsentAssumption ==
    Absent \notin PlayerState /\ Absent \notin Channels \cup {NoChannel} /\ Absent \notin Players

VARIABLES
    db,         \* the committed rows of the data source
    states,     \* ModerationService.states
    membership, \* ChatService.joinedChannels and activeChannels
    queue,      \* the saves handed to the saver thread, oldest first
    main,       \* the operation the server thread is in
    online,     \* the player list
    events,     \* how many of MaxEvents were used
    timedOut,   \* close() gave up waiting for the saver thread
    latest,     \* history: the state last held in memory
    failed,     \* history: the players whose last save failed
    given,      \* history: the mark last set by a command
    faulty,     \* history: a save, a load or a stop went wrong
    hasty       \* history: a player was back before the saver thread had caught up

vars == <<db, states, membership, queue, main, online, events, timedOut, latest, failed, given, faulty, hasty>>

Task == [player : Players, state : PlayerState]
Ops == {"rest", "load", "reload", "persist", "await", "flush", "closed", "down"}
Main == [op : Ops, todo : SUBSET Players, player : Players \cup {Absent}, row : PlayerState \cup {Absent}]

Op(o, T) == [op |-> o, todo |-> T, player |-> Absent, row |-> Absent]
Set(f, p, v) == [q \in Players |-> IF q = p THEN v ELSE f[q]]
Empty == [mark |-> Clear, channel |-> NoChannel]

\* No save of p is queued; the last one queued is of the state s.
NoneFor(q, p) == \A i \in 1..Len(q) : q[i].player # p
LastFor(q, p, s) ==
    \E i \in 1..Len(q) :
        /\ q[i].player = p /\ q[i].state = s
        /\ \A j \in 1..Len(q) : q[j].player = p => j <= i

Event == events < MaxEvents /\ events' = events + 1

-----------------------------------------------------------------------------
(* PlayerDataStore.save, one transaction; an SQLException is only logged *)

Saved(p, s) == db' = Set(db, p, s) /\ failed' = failed \ {p} /\ faulty' = faulty
SaveFailed(p) == db' = db /\ failed' = failed \cup {p} /\ faulty' = TRUE
NoSave == UNCHANGED <<db, failed, faulty>>

\* Mutant: as many threads as there are saves.
SaverStepAnyOrder ==
    /\ main.op # "down"
    /\ \E i \in 1..Len(queue) :
        /\ Saved(queue[i].player, queue[i].state) /\ events' = events
        /\ queue' = [j \in 1..(Len(queue) - 1) |-> IF j < i THEN queue[j] ELSE queue[j + 1]]
    /\ UNCHANGED <<states, membership, main, online, timedOut, latest, given, hasty>>

\* The saver thread runs the oldest save.
SaverStep ==
    /\ main.op # "down" /\ queue # <<>>
    /\ LET task == Head(queue)
       IN \/ Saved(task.player, task.state) /\ events' = events
          \/ SaveFailed(task.player) /\ Event
    /\ queue' = Tail(queue)
    /\ UNCHANGED <<states, membership, main, online, timedOut, latest, given, hasty>>

-----------------------------------------------------------------------------
(* ModerationService.update and ChatService.persistChannelMembership *)

\* Mutant: only the map is updated.
UpdateUnsaved(p, s) ==
    /\ states' = Set(states, p, s)
    /\ latest' = Set(latest, p, s)
    /\ queue' = queue

Update(p, s) ==
    /\ states' = Set(states, p, s)
    /\ latest' = Set(latest, p, s)
    /\ queue' = Append(queue, [player |-> p, state |-> s])

In(s, c) == [mark |-> s.mark, channel |-> c]

\* The memberships restoreChannelMembership may give: the saved one, if its
\* channel still exists and admits the player.
Restored(c) == IF c = NoChannel THEN {Home} ELSE {c, Home}

\* Mutant: the membership is saved in a new state.
RestoreCleared(p, s) ==
    \E c \in Restored(s.channel) :
        /\ membership' = Set(membership, p, c)
        /\ Update(p, In(Empty, c))

\* restoreChannelMembership: the copy and the state it is saved in.
Restore(p, s) ==
    \E c \in Restored(s.channel) :
        /\ membership' = Set(membership, p, c)
        /\ Update(p, In(s, c))

-----------------------------------------------------------------------------
(* Login: PlayerDataStore.load, then restoreChannelMembership *)

\* The first query of load: the row, or none.
LoadRow(p) ==
    /\ main = Op("rest", {}) /\ p \notin online /\ Event
    /\ online' = online \cup {p}
    /\ main' = [op |-> "load", todo |-> {}, player |-> p, row |-> db[p]]
    /\ hasty' = (hasty \/ ~NoneFor(queue, p))
    /\ NoSave
    /\ UNCHANGED <<states, membership, queue, timedOut, latest, given>>

\* The other queries read the tables as they are by then.
LoadRest ==
    /\ main.op = "load" /\ main.row # Absent
    /\ Restore(main.player, In(main.row, db[main.player].channel))
    /\ main' = Op("rest", {})
    /\ NoSave
    /\ UNCHANGED <<online, events, timedOut, given, hasty>>

\* There is no row, or a query failed: the empty state is saved at once.
LoadEmpty ==
    /\ main.op = "load"
    /\ \/ /\ main.row = Absent
          /\ \/ Saved(main.player, Empty) /\ events' = events
             \/ SaveFailed(main.player) /\ Event
       \/ /\ Event /\ faulty' = TRUE
          /\ \/ db' = Set(db, main.player, Empty) /\ failed' = failed \ {main.player}
             \/ db' = db /\ failed' = failed \cup {main.player}
    /\ Restore(main.player, Empty)
    /\ main' = Op("rest", {})
    /\ UNCHANGED <<online, timedOut, given, hasty>>

-----------------------------------------------------------------------------
(* While the player is online *)

\* mute, unmute, shadow mute, spy, ignore, colour, and the mute isMuted finds expired.
SetMark(p, m) ==
    /\ main = Op("rest", {}) /\ p \in online /\ m # states[p].mark /\ Event
    /\ Update(p, [mark |-> m, channel |-> states[p].channel])
    /\ given' = Set(given, p, m)
    /\ NoSave
    /\ UNCHANGED <<membership, main, online, timedOut, hasty>>

\* Mutant: the channel maps are changed and not persisted.
SetChannelUnsaved(p, c) ==
    /\ main = Op("rest", {}) /\ p \in online /\ c # membership[p] /\ Event
    /\ membership' = Set(membership, p, c)
    /\ NoSave
    /\ UNCHANGED <<states, queue, main, online, timedOut, latest, given, hasty>>

\* setChannel, quitChannel and toggleChannel.
SetChannel(p, c) ==
    /\ main = Op("rest", {}) /\ p \in online /\ c # membership[p] /\ Event
    /\ membership' = Set(membership, p, c)
    /\ Update(p, In(states[p], c))
    /\ NoSave
    /\ UNCHANGED <<main, online, timedOut, given, hasty>>

\* reloadConfiguration restores the membership of each player in turn.
Reload ==
    /\ main = Op("rest", {}) /\ online # {} /\ Event
    /\ main' = Op("reload", online)
    /\ NoSave
    /\ UNCHANGED <<states, membership, queue, online, timedOut, latest, given, hasty>>

ReloadPlayer(p) ==
    /\ main.op = "reload" /\ p \in main.todo
    /\ Restore(p, states[p])
    /\ main' = IF main.todo = {p} THEN Op("rest", {}) ELSE Op("reload", main.todo \ {p})
    /\ NoSave
    /\ UNCHANGED <<online, events, timedOut, given, hasty>>

\* Logout persists the membership, then saves the state as it leaves the map.
Leave(p) ==
    /\ main = Op("rest", {}) /\ p \in online /\ Event
    /\ online' = online \ {p}
    /\ LET s == In(states[p], membership[p])
           task == [player |-> p, state |-> s]
       IN queue' = Append(Append(queue, task), task) /\ latest' = Set(latest, p, s)
    /\ states' = Set(states, p, Absent)
    /\ membership' = Set(membership, p, Absent)
    /\ NoSave
    /\ UNCHANGED <<main, timedOut, given, hasty>>

-----------------------------------------------------------------------------
(* Stop, crash and start *)

\* ChatService.close: persist every membership ...
Close ==
    /\ main = Op("rest", {}) /\ Event
    /\ main' = Op("persist", online)
    /\ NoSave
    /\ UNCHANGED <<states, membership, queue, online, timedOut, latest, given, hasty>>

ClosePersist(p) ==
    /\ main.op = "persist" /\ p \in main.todo
    /\ Update(p, In(states[p], membership[p]))
    /\ main' = Op("persist", main.todo \ {p})
    /\ NoSave
    /\ UNCHANGED <<membership, online, events, timedOut, given, hasty>>

\* ... forget the copies, shut the executor down ...
CloseShutdown ==
    /\ main.op = "persist" /\ main.todo = {}
    /\ membership' = [p \in Players |-> Absent]
    /\ main' = Op("await", {})
    /\ NoSave
    /\ UNCHANGED <<states, queue, online, events, timedOut, latest, given, hasty>>

\* Mutant: the executor is shut down and nobody waits for it.
CloseAwaitNobody ==
    /\ main.op = "await"
    /\ main' = Op("flush", {p \in Players : states[p] # Absent})
    /\ NoSave
    /\ UNCHANGED <<states, membership, queue, online, events, timedOut, latest, given, hasty>>

\* ... wait for it, at most ten seconds ...
CloseAwait ==
    /\ main.op = "await"
    /\ \/ queue = <<>> /\ UNCHANGED <<events, timedOut, faulty>>
       \/ queue # <<>> /\ Event /\ timedOut' = TRUE /\ faulty' = TRUE
    /\ main' = Op("flush", {p \in Players : states[p] # Absent})
    /\ UNCHANGED <<db, states, membership, queue, online, latest, failed, given, hasty>>

\* ... save every state once more on the server thread, and forget them.
CloseFlush(p) ==
    /\ main.op = "flush" /\ p \in main.todo
    /\ \/ Saved(p, states[p]) /\ events' = events
       \/ SaveFailed(p) /\ Event
    /\ main' = Op("flush", main.todo \ {p})
    /\ UNCHANGED <<states, membership, queue, online, timedOut, latest, given, hasty>>

CloseDone ==
    /\ main.op = "flush" /\ main.todo = {}
    /\ states' = [p \in Players |-> Absent]
    /\ main' = Op("closed", {})
    /\ NoSave
    /\ UNCHANGED <<membership, queue, online, events, timedOut, latest, given, hasty>>

\* The process ends; a saver thread still at work is a daemon and ends with it.
Exit ==
    /\ main.op = "closed"
    /\ main' = Op("down", {})
    /\ online' = {}
    /\ queue' = <<>>
    /\ NoSave
    /\ UNCHANGED <<db, states, membership, events, timedOut, latest, given, hasty>>

\* The process dies at any moment.
Crash ==
    /\ main.op \notin {"down", "closed"} /\ Event
    /\ main' = Op("down", {})
    /\ online' = {}
    /\ queue' = <<>>
    /\ states' = [p \in Players |-> Absent]
    /\ membership' = [p \in Players |-> Absent]
    /\ latest' = db
    /\ faulty' = TRUE
    /\ UNCHANGED <<db, timedOut, failed, given, hasty>>

Start ==
    /\ main.op = "down" /\ Event
    /\ main' = Op("rest", {})
    /\ latest' = db
    /\ timedOut' = FALSE
    /\ NoSave
    /\ UNCHANGED <<states, membership, queue, online, given, hasty>>

Init ==
    /\ db = [p \in Players |-> Absent]
    /\ states = [p \in Players |-> Absent]
    /\ membership = [p \in Players |-> Absent]
    /\ queue = <<>>
    /\ main = Op("rest", {})
    /\ online = {}
    /\ events = 0
    /\ timedOut = FALSE
    /\ latest = [p \in Players |-> Absent]
    /\ failed = {}
    /\ given = [p \in Players |-> Clear]
    /\ faulty = FALSE
    /\ hasty = FALSE

Session == \/ LoadRest \/ LoadEmpty
           \/ \E p \in Players : LoadRow(p) \/ Leave(p) \/ ReloadPlayer(p)
           \/ \E p \in Players, m \in Marks : SetMark(p, m)
           \/ \E p \in Players, c \in Channels : SetChannel(p, c)
           \/ Reload

Stop == \/ Close \/ CloseShutdown \/ CloseAwait \/ CloseDone \/ Exit
        \/ \E p \in Players : ClosePersist(p) \/ CloseFlush(p)

Next == Session \/ Stop \/ SaverStep \/ Crash \/ Start

Spec == Init /\ [][Next]_vars

\* The saver thread runs; nobody has to log in, give a command or stop the server.
FairSpec == Spec /\ WF_vars(SaverStep)

-----------------------------------------------------------------------------
(* Properties *)

Types ==
    /\ db \in [Players -> PlayerState \cup {Absent}]
    /\ states \in [Players -> PlayerState \cup {Absent}]
    /\ membership \in [Players -> Channels \cup {Absent}]
    /\ queue \in Seq(Task)
    /\ main \in Main
    /\ online \subseteq Players
    /\ events \in Nat /\ timedOut \in BOOLEAN /\ faulty \in BOOLEAN /\ hasty \in BOOLEAN
    /\ latest \in [Players -> PlayerState \cup {Absent}]
    /\ failed \subseteq Players
    /\ given \in [Players -> Marks]

\* What each operation of the server thread leaves of the maps and the queue: the
\* maps hold the players who are online, until the stop empties them.
Phases ==
    /\ IF main.op = "load"
       THEN main.player \in online /\ (main.row # Absent => db[main.player] # Absent)
       ELSE main.player = Absent
    /\ main.op \in {"reload", "persist", "flush"} => main.todo \subseteq online
    /\ IF main.op \in {"closed", "down"}
       THEN \A p \in Players : states[p] = Absent
       ELSE \A p \in Players : states[p] # Absent <=> p \in online /\ p # main.player
    /\ main.op \in {"await", "flush", "closed", "down"} => \A p \in Players : membership[p] = Absent
    /\ main.op \in {"flush", "closed"} /\ ~timedOut => queue = <<>>
    /\ main.op = "down" => queue = <<>> /\ online = {}

\* The variables have their types, and fit the operation the server thread is in.
TypeOK == Types /\ Phases

\* The membership ChatService works with is the one that is saved.
MembershipInStep ==
    \A p \in Players :
        /\ membership[p] # Absent => states[p] # Absent /\ states[p].channel = membership[p]
        /\ main.op \in {"rest", "load", "reload", "persist"} =>
              (states[p] # Absent => membership[p] # Absent)

\* Write-behind: what memory last held of a player is what the saver thread will
\* write last, or what is written already, unless that save failed.  So no order
\* of logins, commands, reloads, saves and logouts leaves an older state behind.
WriteBehind ==
    main.op # "down" =>
        \A p \in Players :
            \/ LastFor(queue, p, latest[p])
            \/ NoneFor(queue, p) /\ (db[p] = latest[p] \/ p \in failed)

\* A stop that did not time out leaves in the data source what memory held of each
\* player, whether online at the stop or gone before, unless that save failed.
StopSavesAll ==
    (main.op = "down" /\ ~timedOut) => \A p \in Players : db[p] = latest[p] \/ p \in failed

\* While the server runs and when it has stopped, nothing older comes last
\* (PlayerDataStore: saveAsync, close).
SavedInOrder == WriteBehind /\ StopSavesAll

\* What the saver thread is given gets written, or a later state does.
SavedInTheEnd ==
    \A p \in Players, s \in PlayerState :
        (latest[p] = s) ~> (db[p] = s \/ latest[p] # s \/ p \in failed \/ main.op = "down")

\* A player who comes back once the saver thread has caught up finds every setting
\* as the last command left it, over any number of sessions and restarts, as long
\* as nothing failed.
SettingsKept ==
    ~faulty /\ ~hasty => \A p \in Players : states[p] # Absent => states[p].mark = given[p]

\* What makes SettingsKept inductive: what is in the map is what was last held, and
\* that, like a row being loaded, has the mark last given; a failed save is a fault.
CacheIsLatest == \A p \in Players : states[p] # Absent => states[p] = latest[p]

HeldAsGiven ==
    /\ failed # {} \/ timedOut => faulty
    /\ ~faulty /\ ~hasty =>
          /\ \A p \in Players : IF latest[p] = Absent THEN given[p] = Clear
                                                     ELSE latest[p].mark = given[p]
          /\ main.op = "load" => NoneFor(queue, main.player) /\ main.row = latest[main.player]

Strengthening == CacheIsLatest /\ HeldAsGiven

\* README_EN.md promises mutes and persistent ignores: what a command set is still
\* set when the player is back, as long as nothing failed.
SettingsPersist ==
    ~faulty => \A p \in Players : states[p] # Absent => states[p].mark = given[p]
=============================================================================
