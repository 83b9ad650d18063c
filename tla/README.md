# TrChat, specified in TLA+

TrChat is a chat system for Minecraft servers: channels, cross-server chat over
Redis or a BungeeCord/Velocity proxy, moderation, filtering and notices. The
repository holds it twice: a Java mod (NeoForge, Forge, Fabric; `src/main/java`)
and a Rust plugin for the Pumpkin server (`pumpkin/src`). This directory
specifies the parts whose correctness depends on the order of events (what is
interleaved, repeated, lost, late or cut short) and the algorithms with more
cases than tests reach. TLC checks each specification on a small instance; TLAPS
proves the main invariants for every value of the constants.

## 1. The system

| Component | State it keeps | Operations | Meets |
|---|---|---|---|
| Chunk reader, Rust (`proxy.rs`) | pending messages, completed uids, a count of buffered characters | a packet arrives, the tick expires | the proxy, the payload handlers |
| Proxy bridge, Java (`util/proxy`) | the same, behind a lock; transports | packets on network threads, publishing | the proxy, ChatService |
| Redis bridge, Rust (`redis.rs`) | one subscription, one publishing connection, the time of the next attempt, remote players | tick (subscribe, drain), publish, reconnect, player list | Redis, chat, commands |
| Redis bridge, Java (`redis/`) | a subscriber thread, a publishing connection | the same on threads | Redis, ChatService |
| Chat path (`ChatService.java`, `chat.rs`) | last message, anti-repeat window, reply targets, channel membership, remote players | a player's message, private messages, login, logout, reload, stop | everything |
| Moderation (`ModerationService.java`) | a state per player online, the global mute | commands, login, logout, stop | the data store, ChatService |
| Data store (`PlayerDataStore.java`) | the tables; one saver thread and its queue | load on the server thread, save behind | moderation |
| Sessions, Rust (`playerdata.rs`, `datasource.rs`) | the sessions, the global mute | join, leave, flush | chat, commands |
| Update checker (`UpdateChecker.java`) | the newer release, who was notified | a scheduled check, login, announcement, close | GitHub, the server thread |
| Filter (`FilterService.java`, `filter.rs`, `cloud.rs`) | settings, words | reload, refresh of cloud words, filtering | chat |
| Chat log (`ChatLogService.java`) | a queue of lines, a file a day | log, flush, expiry, close | chat |
| Functions and snapshots (`ChatFunctionService.java`, `snapshot.rs`) | snapshots with a time | create, open, expire | chat, menus |
| Command controller (`command_controller.rs`) | the last use of each rule | a command, reload | commands |
| Private messages, remote players (`private_msg.rs`, `redis.rs`) | who is on other servers, reply targets | /msg, /reply, player lists, expiry | Redis, the proxy, sessions |
| Update checker, Rust (`updater.rs`) | the release found, who was notified | hourly check, login, logout | GitHub, admins |
| Configuration, channels, language, placeholders | what was read from files | seed, repair, load, reload, lookup | everything |
| Wire formats (`RedisEnvelopeCodec`, `resp.rs`, `TrChatProtocol`) | none, or a read buffer | encode, decode | the bridges |

How they interact. A chat message passes the guards, the filter and the
functions on the server's own thread, and is published: by Redis, else through
the proxy, else to the players of this server only. What other servers publish
arrives as a pushed payload, and the tick hands it to the players. A login
loads the player's rows, restores the channel membership and tells
administrators of a release; every later change is put in memory and queued for
the saver thread; a logout persists and forgets; a stop persists everything.

What is hard. *Concurrency*: the saver thread and the checker thread against
the server thread; servers against each other. *Failure*: a connection that
breaks before, during or after a PUBLISH; Redis stopping; a save, a load or a
stop that fails or times out; a crash. *Ordering*: chunks that arrive in any
order or twice, payloads pushed before and after a reconnection, an older save
after a newer one. *Timeouts*: an expired message whose chunks still arrive, a
reconnection delay, a stop that waits at most ten seconds.

What makes each component correct:

- reader: an envelope is delivered once, from chunks of one window, within limits;
- Redis bridge and chat: the channel's order is every server's order; a message
  is shown once; one that is refused is shown nowhere; servers agree on the
  global mute; a subscription comes back;
- data: the last state in memory is the last one written; a stop loses nothing;
  a setting is there at the next login; the working membership is the saved one;
- sessions: what was ordered for a player is in force, online and after a login;
  a message reaches whom the mutes, ignores and channels allow;
- private messages: only the two ends and the spies see one; lists of remote
  players become true again;
- update checkers: nobody online is missed, nobody is told over and over, and only of
  what is newer;
- filter: the words in use belong to the settings in use; a word in use does not
  pass, and nothing else is touched;
- chat log: a line is written once, in order; snapshots and remote players: what
  is offered is not older than its limit; cooldowns are kept over reloads;
- configuration: a value of the operator survives a repair, and what a reload
  reports is what is in force;
- wire formats and rendering: what arrives is what was sent, in pieces or not;
  what is shown is what the channel and the permissions say.

## 2. Modules

One module per component, one action per handler or thread step. `MC*` modules
give constants their values for TLC; `*_proofs` hold theorems. *History*
variables are marked in each module: no guard reads them. A *mutant* is a slip
one could make in the code, written beside the definition it would replace.

### Across servers

**ProxyReader** — the chunk reader of `proxy.rs`. `partial` (the code's `pending`),
`completed` and `buffered` are the fields of `Reader`; `now` is the clock. `Accept` is the payload
handler with the whole of `Reader::accept` (expire, validate, evict for a slot,
store, evict for space, complete, trim); `Tick` is the scheduled expiry. A chunk is
the length of its data and whether it decodes. Ties in the HashMap order (which
of several equally old entries is evicted) are nondeterministic.

**CrossServerChat** and **OrderedBroadcast** — `redis.rs`, `proxy.rs`, `chat.rs`,
`commands.rs`. Servers, each a process whose handlers and ticks take turns, with
Redis and the proxy between them. `Chat` is the end of the chat path: publish by
Redis, fall back to the proxy, refuse or show locally. `Mute` is the global-mute
command. `Subscribe`, `SubscribeFails` and `Pump` are the parts of the tick;
`PublishNames`, its last part, uses the publishing connection and is a step of its
own because handlers run between them. A PUBLISH is accepted, refused, or
*doubtful*: Redis ran it and the reply was lost. `Reload`, `Reconnect` and `Restart`
are what operators do; connections break at any point, and lose any part of what
they had not delivered. `log` is the order Redis ran the publications in; a buffer
is a sequence of places in it. `OrderedBroadcast` is what the channel promises:
one log, of which each server hears an ascending, growing sequence of places.
`ImplementsChannel` is its specification, the log and what was heard mapped to
themselves.

**PrivateMessages** — `/msg` and `/reply`, `send_private`, `notify_spies`, the packets
that carry a message, an alert or a list of players, and the lists themselves:
published at every login and logout and every 200 ticks, forgotten after 90
seconds. `Locally` and `Remotely` are the two ways of a message; `seen`, `spied` and
`alerted` are histories of who was shown what, where, by which transport. A server
knows a sender by name only: `Found` is whoever its lists have under that name, as an
account or as shown, and `ReceivePrivate` asks the ignore list about any of them, so
that what a packet makes of a server is a set. The two connections of a bridge are one link here: CrossServerChat has them apart.

**RedisConnection** — `resp.rs` and the two connections of `Bridge`, symbol by symbol:
what one tick reads ends anywhere, in a line end or in a bulk that contains one; the
answer to a PUBLISH comes in time, late, or not. `Parse` is the decoder, `Drained`
the loop of a tick.

**RedisBridge** — `RedisBridge.java`. Each bridge has a listener thread; the server
thread closes it and makes another. They share volatile fields, and a step ends
wherever the other thread could still change what comes of it: between making a
connection and storing it in the field, between reading the field and waiting on
it, between a message and `server.execute`. A refused login leaves a socket open in
the constructor, as the code does.

**WireComponents** — the conversion of hover and click events between the shape of the
host and that of the network (`redis.rs`), at any depth of a component.

### Players

**PlayerData** — `ModerationService` over `PlayerDataStore`, driven by `ChatService`.
`db` is the committed data source, `states` and `membership` the maps in memory,
`queue` the executor's queue, `main` the operation the server thread is in.
`SaverStep` is the saver thread. Login is two steps, because the queries of `load`
are not one transaction; reload, and the stop with its phases (persist, shut down,
await, flush), go player by player. A state is a *mark* (what any command sets) and
a channel. Faults are failed saves and loads, a stop that times out, and a crash.

**PlayerSession** — the same in the plugin (`playerdata.rs`, `datasource.rs`, and the
commands of `commands.rs` that change a session), with the message that a session
allows (`chat.rs`). The component is single threaded: a handler is a step. `session`
is the registry, `row` the store; `connections` counts the logins of a player, for
the host lets a second begin before the first has ended. `owed` is a history: what
was ordered for the player and not lost by one of the causes listed at `Lose`.

**ChatGuards** — `ChatService.guardMessage` and `chat_pipeline` of `chat.rs`. `last`,
`recent` and `sends` are what either port keeps of a player: the last accepted
message and the two windows. `settings` names the port, because the ports differ:
the plugin remembers the similar messages it refuses, exempts operators from the
frequency limit, takes a threshold of 0 for off, and forgets nothing at a logout
(so `Rejoin` is an action of the mod only). `Say` is a whole message: the verdict of
the guards in their order, and what it leaves in the windows. A text is an atom;
which texts are alike, too long or repetitive, and what the filters make of them,
is given by constants. `said` is a history, and the properties are stated over it
and not over the windows.

**UpdateChecker** — `UpdateChecker.java`. Two threads share the volatile `available`
and the concurrent set `notified`; each access is a step. `checker` is the checker
thread inside `check`; `main` is the server thread inside `notifyPlayer` for a login or
an announcement; `Close` is the stop, which interrupts a request but not what comes
after it. `overtaken` is a history of those recorded as notified although the set had
been emptied in the middle of their notice. **ReleaseNotices** is the Rust port, where a check is one step, with its
order of versions against the order semver.org gives (`Ascending`).

### What runs beside the chat

**ChatFunctions** — the tokens of `functions.rs` (mentions, items, inventories): where
the keys stand, which of two that overlap is taken, rights and cooldowns; and the
snapshots of `snapshot.rs` behind them. A symbol stands for a run of characters that
no key or name splits. **TextScan** is the walk both it and the filter make.

**CommandController** — `command_controller.rs` and the conditions of `condition.rs`:
the first rule that matches decides, and charges its cooldown if it allows.

**WordFilter**, **CloudWords**, **FilterRefresh** — the matcher of `filter.rs` with the
handlers that use it; the cloud words of the plugin, with dates, cache files, reloads,
failures and restarts; and those of the mod (`FilterService.java`), where every refresh
is a thread that captures the settings and replaces the words at its end.

**Configuration** — a file of every kind, seeded and repaired against the bundled ones
(`sync.rs`), read at the start and by `/trchat reload` (`config.rs`, `lang.rs`,
`special.rs`), edited by the operator, and cut short by a kill at any file. A file is a
function from paths to values.

**ChatLog** — the queue and the files of a day of `ChatLogService.java`, with writes that
fail before or within the batch, stops, crashes and restarts.

**Rendering**, **MessageScores**, **ReleaseNotes**, **Calendar** — algorithms beside their
reference definitions: tiers, parts, colours and glyphs of a message (bare where no tier
admits the sender) and its console line; the distance of two messages and the repetitions in one, over messages that are
changed one character at a time; the lines of release notes; civil dates, patterns (lowercased
with their token, so that `mm` is the minutes) and durations, on days that pass one by one.

**MCServices** composes these thirteen with ProxyReader, and **MCBackgroundThreads**
UpdateChecker with RedisBridge. The parts share no variable, so that one of them
moves in a behaviour (`service`, `part`) and the others keep still; each has its own actions,
properties and fairness.

## 3. Runs

| Run | What it shows |
|---|---|
| `background_threads` | the release checker of the mod: administrators are told of the release available unless overtaken, notices bounded, one is heard of; the threads of its Redis bridge: what comes late, what leaks, and that it settles |
| `updates_race` (violation) | an administrator who is never told of the newer release |
| `player_data` | write-behind, stop and membership under faults and crashes; what is queued is written |
| `player_data_rejoin` (violation) | a quick reconnect loads the older row |
| `cross_server` | completeness and one showing; the channel implements OrderedBroadcast |
| `cross_server_mute` | servers agree on the global mute; subscriptions come back, payloads are handled |
| `chat_guards` | cooldown and limits kept; nobody refused without cause |
| `chat_guards_zero` (violation) | a threshold of 0 refuses the second message |
| `sessions` | orders survive logins, reloads, failures and overlapping logins; messages go where sessions allow |
| `messages` | private messages stay private over both transports; lists of remote players recover |
| `messages_ignore` (violation) | an ignored player comes through |
| `services` | the fourteen components of MCServices, one at a time; of the reader, every order and repetition of packets, and that the tick alone frees an abandoned message |

Several properties are conjunctions of named parts, each explained where it is
defined; the invariants the parts rest on are checked with them or proved (section 4).

Bounds, and why they are enough:

- *reader* (in `services`): three uids, two slots, room for two characters, one remembered
  completion, a window of two clock units: each limit is reached and passed, and a
  message can outlive its window. `MaxLog` bounds the history only. Packets are all
  well-formed ones (the empty ones of one uid), and one for each check that refuses one.
- *background threads*: two administrators and another player, two releases, three
  checks and two logins, which is enough for a notice of each thread to meet a clear;
  two bridges, two publications, one mishap at any point.
- *player data*: two players, two marks, two channels, six events: a login, a
  command, a logout and a login again leave two events for faults. Steps that
  continue an operation, and the saver's, cost no event.
- *cross-server*: two servers and two messages, one of a Force-Proxy channel, one
  fault and one order; two commands for the mute. Each kind of fault is enough by
  itself to break an order or a route. The proofs are about any number.
- *chat guards*: one player, because all that is kept is kept by player; four
  messages (a limit of two, passed, and one more) out of four texts; periods of two
  units under a clock of three, so that an entry is younger than, as old as, and
  older than its period. Ten sets of settings: each guard alone and in the others'
  way, and each exemption, on both ports.
- *sessions*: two players, one an operator, two logins of a player at once; three
  channels, one restricted, one private; two states of the channel files, between
  which the default changes and a channel goes; two orders, one failing statement.
- *messages*: two servers and three players, in three places to begin with (apart, the
  third on either side, or one of them on and the rest to come); one shown under the
  name of the player who is ignored, one under that of a third, so that a name on a list
  can be another's; one shadow-muted, one a spy, one who ignores; a message to a name and a
  reply; lists that live for one unit; one event (a login, a
  logout, a lost link, answer or packet, a restart).
- *services*: each component has the smallest values that reach its cases, written
  in MCServices with what they are for: an overlap of two keys, a rule that matches
  by an empty name, a word that begins another, two versions of the resources, one
  kill, a stream of two publications cut anywhere, days around the end of an era.

`CHECK_DEADLOCK FALSE` where the model ends when its bounds are used up (players
need not join, nobody need speak). The sessions never stop.

Fairness, always weak, and only what a thread or the scheduler does by itself.
`background_threads`: a thread that has begun a task continues it, the server thread
takes what it was handed, listener threads run, and a close once begun goes on;
reconnections and mishaps need never happen. `player_data`:
the saver thread runs. Cross-server: the registered tick runs and delays elapse.
`messages`: ticks and lists keep coming, time passes; a link that is gone may stay
gone. `services`: a url answers again and again (`RefreshAnswered`), a refresh thread
fetches and ends, the hourly tick comes; the repeating task of the reader runs and time
passes. Nothing is assumed of players, operators, Redis, the proxy, or a release being found.

Each property of a passing run has mutants of mapped definitions that TLC finds
violated: where it is a conjunction, for nearly every part one of its own.

## 4. Proofs

Checked by TLAPS for every value of the constants, from the `ASSUME`s of the module
alone (bounds are natural numbers, special values are distinct).

- `ProxyReader_proofs`: types, limits, `NothingStuck`, `AtMostOnce`,
  `AssembledInOneWindow`, and with them `RetainsBounded`. `AtMostOnce` speaks of two
  completions far apart, so the inductive invariant holds `CompletionsRemembered` too:
  the map still knows a completion until it is too old or crowded out. That `buffered`
  is the sum of what is pending (`Accounting`) rests on `SumIsHeap`: the sum over a set
  is that over the set without one of its members, and that member.
- `BackgroundThreads_proofs`, the two parts of the mod with a thread of their own. *Update
  checker*: `NobodyMissed` speaks of settled states only; `EveryoneOnTheWay` says of every
  state who will still reach each administrator, `RecordedHeard` and `NoticeCurrent` that
  whoever is recorded, or about to be, heard of the release available since the set was last
  emptied or was overtaken, and `NoticesCounted` ties the one extra
  notice to a player in `notified` or about to be. *Redis bridge*: `StragglersOnly`,
  `OnlyTheRaceLeaks` and that the bridge keeps its turn. `BridgeInv` says which fields of a
  bridge go with which place of its two threads (`Wired`), which connections are open with
  nobody to close them and by which step (`Leaks`), that what is queued, in the listener's
  hand and delivered is one ascending sequence (`InTurn`), and of a replaced bridge how many
  messages can still come of it (`Lateness`).
- `PlayerData_proofs`: membership, order of the saves, stop, settings. `WriteBehind` is
  nearly inductive: it needs that what the map holds is what was last held, and the
  phases of the server thread; `SettingsKept` needs `HeldAsGiven` (`Strengthening` has
  both).
- `CrossServerChat_proofs`: types, order, `NothingSkipped`, the refinement of
  OrderedBroadcast, `ShownAsTold`, `MuteAgreement`. Every action is first shown to do
  one of five things to the log and the buffers (nothing, push, handle, discard,
  shorten); order, refinement and completeness are proved about those five.
  `ShownAsTold` rests on `OneRoute` (a message is in the log at most once, and only if
  its sender was told so or the reply was lost) and on the order; `MuteAgreement` rests
  on `MuteSettles` (what is in the buffer leads to the last value set).
- `ChatGuards_proofs`, the guards, their scores and the dates, with copies of the lemmas on
  folds and least numbers that `Services_proofs` has. *Message guards*: the inductive
  invariant is `TypeOK /\ WindowsMatch`: it turns the sizes of the windows, which the guards
  look at, into counts of the history, which `LimitsKept` and `RefusedForCause` are about.
  Each is proved of the newest message, and kept for the older ones. `RefusedForCause` names
  its one exception, the mod at a threshold of 0.
  *Message scores*: `RepeatsFound` and `DistanceIsChanges`, parts of `TextsAgree`, for every
  alphabet and message. The search for repetitions skips a place where what is left is too
  short to hold more than was counted: `FitsIs` and `PlacesAre` say what fits where,
  `TriedImproves` that a place that is skipped would not have counted, and the fold over the
  places finds the greatest count (`SearchFinds`). The distance is computed row by row; the
  table of the beginnings of two messages is the beginning of their table (`TablesAgree`),
  which gives the distance by the last letters (`DistanceIs`). A letter put in, taken out or
  replaced moves it by one at most (`SwappedIsBeside`), and while two messages differ, one
  of these brings them nearer (`OneChangeIsNearer`).
  *Calendar*: `DatesOfAllDays`, that `civil_from_days` and `days_from_civil` are the calendar
  everyone knows on all days, before the epoch too, and each other's inverses. Every
  quotient is stated as two inequalities (`Goes`), which leaves linear arithmetic: the day of
  an era falls into one year (`CountedOff`), that year is followed by the next after 365
  days, or 366 if it ends in a leap day (`YearGoesOn`, `LeapIs`), and the steps of 153 days
  are the lengths of the months (`MonthOfNext`). `CalendarIsRight` is the same of the
  stretches of days that are walked; `WalksAssumption` asks that each begins with a real
  date and its number.
- `PlayerSession_proofs`: `Restored`, with `Entries` (who has an entry is online, and
  speaks in a channel joined) and the types, is inductive; `ReachesThoseAllowed` follows
  from it without induction. The proof does not go through without the losses at
  `Lose`, among them a login that overlaps the logout of another of the same player.
- `PrivateMessages_proofs`: `KeptPrivate` and `IgnoredUnlessMistaken`. `IInv` adds what the lists
  of players may hold (`WhereOK`), what a packet under way may say (`InFlight`) and that a
  message comes to a server once, unless its answer was lost (`OnceEach`). A tick handles a whole queue of packets; `PumpIsStepwise` turns the
  fold, over the sets of what the packets so far may have made of the server, into steps of
  one packet each, and every packet is shown to keep `IInv` of what the server has by then.
- `Services_proofs`, one part per component. *Commands*: `CommandsSpaced`, with `Honest`
  (what is recorded is what was charged last) and the types. *Filter words*: `OneReading` of
  the mod's refreshes, and `WordsRecorded` of the plugin's dates and cache files. *Release
  notices*: `CompareOrders`, that the comparison of `updater.rs` is a total order up to
  equal versions; every administrator is told, once in a finding, whatever the
  releases; and `ToldOfTheNewer` under `EachAboveTheLast`, that the releases are listed in
  ascending order, as the instance lists them. *Chat log*: `LogAccounted`, from `LogInv`: every
  line waits, is in the file of its day, is lost or has expired, and those of the files are
  in order and before those that wait (`Accounts`); none waits longer than the period (`Prompt`,
  `Begun`); a file goes when it has outlived the retention, and not before (`Outlived`,
  `Swept`). *Configuration*: `ReloadHonest`, and `FilesKept` for resources
  that keep their keys from one version to the next (`KeysStay`) and that can be read
  (`BundleReadable`). Both are asserted of the instance by `MCResources`. The proof rests on a
  repair being idempotent. *Chat functions*: `TokensGranted` and `SnapshotsKept`, from
  `FunctionsInv`: the store is in order (`StoreOK`: what is missing is too old or was
  overtaken, inventories keep to the limit), a charge and the end of its cooldown belong
  together (`UseOK`), and a message is rendered, use by use, up to a cursor (`Rendering`). That
  the walk over a text takes the strongest find wherever finds overlap is `WalkIs`, which the
  *Word filter* rests on too: `FilterExact`, for all texts, words, punctuation and phrases. A
  word is spelled out from its first symbol to its last (`SpellingIs`), each find is one
  (`FindIs`), each place where one begins is covered by one that was taken (`FilterIs`), and the
  guard, which reads the filtered text, adds blocked words only (`GuardIs`).
  *Redis connections*: `StreamExact`, for every alphabet, whatever Redis writes and however
  it is cut into reads. At each depth of nesting the parser is `Stable`: an answer does not
  change when more arrives behind it, and an error stays one. So a stream drained in two
  reads gives what it gives at once (`DrainResumes`: otherwise there were a shortest stream
  that does not). The invariant, `RedisInv`, says of a subscription that what was handed over,
  followed by the payloads of what is pending, under way *and may still come*, are the
  payloads of the whole stream with the same behind it (`Agrees`): without the last part, a
  value of which one half had arrived would not be seen to be handed over later. The
  publisher has nothing pending or under way between two publishes, so that the answer
  read is that to the last one. `RedisAssumption` asks for numerals for the counts and
  lengths Redis writes.

Two things about these proofs. A fold over a sequence is not unfolded by the provers: a
lemma states it as the function from 0..n that the fold computes, and an invariant of the
loop is carried along it. And induction, which needs an operator as a parameter, is
replaced by `Least`: a set of numbers that has a member has a least one, here the first
place where the claim would fail.

Only model-checked:

- `FormatsAgree`, but for `CalendarAgrees`: the value formats (`WireComponents`) are RECURSIVE,
  which the provers cannot look into; the decimal figures that `ReadsBack`, `ClockShown` and
  `OnlyRealDates` are about are made and read by recursion over a number and a text.
- `TextsAgree`, but for `RepeatsFound` and `DistanceIsChanges`: release notes and rendered
  messages are compared with what a text of the instance should give, each by an
  algorithm of its own over the characters; each rule would be an induction over its data.
- All liveness (`BridgeSettles`, `WordsArrive` and the like), which rests on fairness.

## 5. Where code and documents disagree

Shown by a run:

- `player_data_rejoin`: `README_EN.md:39` promises persistent settings. A login reads
  the data source while saves of the player are queued, and the older row replaces the
  newer state.
- `messages_ignore`: the same line promises ignores across servers. `receive_private`
  asks the ignore list of its player only if the sender is on a list of remote players
  that has come and has not expired; the alert for a mention never asks. Another player
  who is on a list and shown under the name of the sender may be asked about instead
  (`redis.rs:541`): `IgnoredUnlessMistaken` says that these are the only ways.
- `updates_race`: `pumpkin/docs/spec/data-redis-update.md:257` says that `notified` is
  emptied when a new version appears, so that everyone is notified again.
  `UpdateChecker.java:89` adds a player after telling the older release, so that a clear
  in between is undone and the announcement passes the player over. `NobodyMissed` says
  that this is the only way.
- `chat_guards_zero`: `TrChatConfig.java:74` and `settings.yml:14` say that 0 disables
  anti-repeat. `ChatService.java:747` compares with the threshold whatever it is, and every
  similarity reaches 0; the plugin checks for 0.

Read in the code while modelling it, and modelled as the code has it:

- `redis.rs:482`: PUBLISH counts any subscriber, so a server that is itself not
  subscribed shows a message to everybody but its own players (`chat.rs:654` relies on
  the echo). `redis.rs:603`: a reload cannot make a bridge where none was made at the
  start (`lib.rs:106` says it can).
- `ChatService.java:745`: the list compare-all compares with never gets a first entry (`TrChatConfig.java:83`
  says it is stricter).
- `commands.rs:2213` toggles a bound alias by membership, `docs/spec/chat.md:152` by the
  active channel.
- `RedisBridge.java`: `close` may set the field to null over a connection the listener
  has just stored, so that the `finally`, which `data-redis-update.md:149` says closes it,
  has none to close. `OnlyTheRaceLeaks` says that this is the only way, besides a
  refused login.
- `clock.rs:100` says the caller of `days_from_civil` validates the ranges. `placeholder.rs:329`
  has no lower bound for the day: `%server_countdown_..%` takes 2024-03-00 for the last of
  February (in a build with overflow checks, `clock.rs:113` panics at the day 0 of a March).
- `config.rs:473` says a private channel without tiers renders the bare message; the
  code falls back to the flattened templates. `sync.rs:130` says a write is atomic; the
  first seed and the fallback write in place. `condition.rs:5` says what cannot be parsed
  never allows by default; behind a `!` it does.
- `updater.rs`: an administrator given the permission while online is told at the next
  login or finding only; the derived equality of versions knows 1.0 from 1.0.0, the
  order does not.

## 6. Not modelled

- *Wiring*: registration of handlers, the adapters to each mod loader, permissions as
  such, HTTP, logging; `dbprobe`, a diagnostic program. No state of their own that an
  order of events could harm.
- *The Java message reader and proxy bridge*: the algorithm is ProxyReader's, inside a
  lock. Its callback runs after the lock, and Forge calls it on network threads, so that
  two messages completed at once may swap; that hazard is listed and no property covers it.
- *The chat service of the mod* beyond guards and membership: its private messages and
  remote players follow the rules PrivateMessages takes from the plugin.
- *Configuration*: the single settings with their defaults, and `ConfigMigration` of the
  mod. *Wire formats*: the fields of an envelope and their encoding. *Placeholders*: the
  tokens that read a value of the host. *Commands*: status, clear, suggestions.
  *Rendering*: hovers, clicks, menus, and the component a function token becomes.
- Within modelled components: the fallback that rewrites a configuration file in place where
  it cannot be renamed (`sync.rs:133`); a cache file of cloud words that is not written and
  nobody kills the server; the filter of the mod reading settings and words one after the other; the separate settings of a Java player are one mark; the
  text of a message is its identity where no algorithm reads it; a letter whose lower
  case is longer than itself is no symbol of the filter; the answer of GitHub is its
  outcome; what the proxy loses is never delivered; a repeated snapshot id does not occur.

What is left is either wording, without a state, or a port of what is modelled. Two
properties would be worth having next: that PlayerData and PlayerSession implement one
abstract store that remembers what was last ordered for each player, and an order of
the messages of the Java reader under the threads of Forge.
