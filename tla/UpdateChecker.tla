----------------------------- MODULE UpdateChecker -----------------------------
(***************************************************************************)
(* The release checker of the mod (update/UpdateChecker.java).  One        *)
(* scheduled thread asks for the latest release; when it differs from the  *)
(* one known it forgets who was notified and hands an announcement to the  *)
(* server thread.  The server thread also notifies a player who joins.     *)
(* `available` is volatile and `notified` a concurrent set: the two        *)
(* threads interleave between any two accesses, so each access is a step.  *)
(***************************************************************************)
EXTENDS Integers, Sequences, FiniteSets

CONSTANTS
    Players,
    Admins,         \* those TrChatPermissions.check(_, "trchat.admin") admits
    Releases,       \* ReleaseInfo values newer than the running version
    None,           \* no newer release
    NoPlayer,
    MaxChecks,      \* bound: requests made
    MaxJoins        \* bound: logins

ASSUME CheckerAssumption ==
    /\ Admins \subseteq Players /\ IsFiniteSet(Players)
    /\ None \notin Releases /\ NoPlayer \notin Players
    /\ MaxChecks \in Nat /\ MaxJoins \in Nat

VARIABLES
    available,  \* the newer release known, or None
    notified,   \* the players already notified
    checker,    \* the checker thread: its next step and the answer it holds
    checks,     \* requests made so far
    scheduled,  \* announcements handed to the server thread and not yet run
    main,       \* the server thread: players still to notify, and the one being notified
                \* (since: history, the clears there were when its notice began)
    online,     \* the player list
    joins,      \* logins so far
    closed,     \* close() has run
    clears,     \* history: times notified was emptied
    told,       \* history: what each player was told, in order
    overtaken   \* history: those recorded as notified though notified had been
                \* emptied, for another release, while their notice was on its way

vars == <<available, notified, checker, checks, scheduled, main, online, joins, closed,
          clears, told, overtaken>>
checkerVars == <<checker, checks, scheduled>>
mainVars == <<main, online, joins, closed>>

Idle == [step |-> "idle", answer |-> None]
Rest == [todo |-> {}, player |-> NoPlayer, release |-> None, since |-> 0]

-----------------------------------------------------------------------------
(* The checker thread: check() *)

\* The request fails or is refused: the exception is logged.
FetchFailed ==
    /\ checker = Idle /\ ~closed /\ checks < MaxChecks
    /\ checks' = checks + 1
    /\ UNCHANGED <<available, notified, checker, scheduled, mainVars, clears, told, overtaken>>

\* The latest release is r, or not newer than the running version.
Fetched(r) ==
    /\ checker = Idle /\ ~closed /\ checks < MaxChecks
    /\ checks' = checks + 1
    /\ checker' = [step |-> "store", answer |-> r]
    /\ UNCHANGED <<available, notified, scheduled, mainVars, clears, told, overtaken>>

\* available = release, and whether it is another one than before.
Store ==
    /\ checker.step = "store"
    /\ LET r == checker.answer
           changed == r # None /\ r # available
       IN /\ available' = r
          /\ checker' = IF changed THEN [step |-> "clear", answer |-> r] ELSE Idle
    /\ UNCHANGED <<notified, checks, scheduled, mainVars, clears, told, overtaken>>

\* Mutant: whoever was told of the release before stays notified.
ClearNothing ==
    /\ checker.step = "clear"
    /\ checker' = [step |-> "schedule", answer |-> checker.answer]
    /\ UNCHANGED <<available, notified, checks, scheduled, mainVars, clears, told, overtaken>>

\* notified.clear()
Clear ==
    /\ checker.step = "clear"
    /\ notified' = {} /\ overtaken' = {}
    /\ clears' = clears + 1
    /\ checker' = [step |-> "schedule", answer |-> checker.answer]
    /\ UNCHANGED <<available, checks, scheduled, mainVars, told>>

\* Mutant: the release is recorded, nobody online hears of it.
ScheduleNothing ==
    /\ checker.step = "schedule"
    /\ checker' = Idle
    /\ UNCHANGED <<available, notified, checks, scheduled, mainVars, clears, told, overtaken>>

\* server.execute(() -> notifyAvailable(release))
Schedule ==
    /\ checker.step = "schedule"
    /\ scheduled' = scheduled + 1
    /\ checker' = Idle
    /\ UNCHANGED <<available, notified, checks, mainVars, clears, told, overtaken>>

CheckerStep == FetchFailed \/ (\E r \in Releases \cup {None} : Fetched(r)) \/ Store \/ Clear \/ Schedule

-----------------------------------------------------------------------------
(* The server thread *)

\* onPlayerLogin: once the checker is closed, nobody is notified.
Join(p) ==
    /\ main = Rest /\ p \notin online /\ joins < MaxJoins
    /\ online' = online \cup {p}
    /\ joins' = joins + 1
    /\ main' = IF closed THEN Rest ELSE [todo |-> {p}, player |-> NoPlayer, release |-> None, since |-> 0]
    /\ UNCHANGED <<available, notified, checkerVars, closed, clears, told, overtaken>>

Leave(p) ==
    /\ main = Rest /\ p \in online
    /\ online' = online \ {p}
    /\ UNCHANGED <<available, notified, checkerVars, main, joins, closed, clears, told, overtaken>>

\* notifyAvailable runs for the players online now.
RunAnnouncement ==
    /\ main = Rest /\ scheduled > 0
    /\ scheduled' = scheduled - 1
    /\ main' = [todo |-> online, player |-> NoPlayer, release |-> None, since |-> 0]
    /\ UNCHANGED <<available, notified, checker, checks, online, joins, closed, clears, told, overtaken>>

\* notifyPlayer(p), first access: release = available.
NotifyRead(p) ==
    /\ main.player = NoPlayer /\ p \in main.todo
    /\ main' = [todo |-> main.todo \ {p},
                player |-> IF available = None THEN NoPlayer ELSE p,
                release |-> available,
                since |-> IF available = None THEN 0 ELSE clears]
    /\ UNCHANGED <<available, notified, checkerVars, online, joins, closed, clears, told, overtaken>>

\* Mutant: whoever was notified is notified again.
IsDueAlways(p) == p \in Admins

\* !notified.contains(player) && the player is an administrator
IsDue(p) == p \notin notified /\ p \in Admins

\* Second access: a player who is not due is passed over, one who is gets the message.
NotifyTell ==
    /\ main.player # NoPlayer /\ main.release # None
    /\ LET p == main.player
       IN IF IsDue(p)
          THEN /\ told' = [q \in Players |-> IF q = p THEN Append(told[p], main.release) ELSE told[q]]
               /\ main' = [todo |-> main.todo, player |-> p, release |-> None, since |-> main.since]
          ELSE /\ told' = told
               /\ main' = [todo |-> main.todo, player |-> NoPlayer, release |-> None, since |-> 0]
    /\ UNCHANGED <<available, notified, checkerVars, online, joins, closed, clears, overtaken>>

\* Third access: notified.add(player)
NotifyAdd ==
    /\ main.player # NoPlayer /\ main.release = None
    /\ notified' = notified \cup {main.player}
    /\ overtaken' = IF main.since = clears THEN overtaken ELSE overtaken \cup {main.player}
    /\ main' = [todo |-> main.todo, player |-> NoPlayer, release |-> None, since |-> 0]
    /\ UNCHANGED <<available, checkerVars, online, joins, closed, clears, told>>

\* The server stops.  shutdownNow interrupts a request under way; a checker
\* past it, and what it has scheduled, run on.
Close ==
    /\ main = Rest /\ ~closed
    /\ closed' = TRUE
    /\ notified' = {} /\ overtaken' = {}
    /\ clears' = clears + 1
    /\ checker' \in IF checker.step = "store" THEN {checker, Idle} ELSE {checker}
    /\ UNCHANGED <<available, checks, scheduled, main, online, joins, told>>

NotifyStep == (\E p \in Players : NotifyRead(p)) \/ NotifyTell \/ NotifyAdd \/ RunAnnouncement

Init ==
    /\ available = None
    /\ notified = {}
    /\ checker = Idle
    /\ checks = 0
    /\ scheduled = 0
    /\ main = Rest
    /\ online = {}
    /\ joins = 0
    /\ closed = FALSE
    /\ clears = 0
    /\ told = [p \in Players |-> <<>>]
    /\ overtaken = {}

Next ==
    \/ CheckerStep
    \/ \E p \in Players : Join(p) \/ Leave(p)
    \/ NotifyStep
    \/ Close

Spec == Init /\ [][Next]_vars

\* Both threads run: a task begun is carried on, a task handed to the server
\* thread is taken.  Nobody has to join, leave or publish a release.
FairSpec ==
    /\ Spec
    /\ WF_vars(Store \/ Clear \/ Schedule)
    /\ WF_vars(NotifyStep)

-----------------------------------------------------------------------------
(* Properties *)

\* The variables have their types; a player being notified is online.
TypeOK ==
    /\ available \in Releases \cup {None}
    /\ notified \subseteq Players
    /\ checker \in [step : {"idle", "store", "clear", "schedule"}, answer : Releases \cup {None}]
    /\ checker.step \in {"clear", "schedule"} => checker.answer # None
    /\ checks \in Nat /\ scheduled \in Nat /\ joins \in Nat /\ clears \in Nat
    /\ closed \in BOOLEAN
    /\ main \in [todo : SUBSET Players, player : Players \cup {NoPlayer}, release : Releases \cup {None},
                 since : Nat]
    /\ main.since <= clears
    /\ main.player = NoPlayer => main.release = None
    /\ online \subseteq Players /\ main.todo \subseteq online
    /\ told \in [Players -> Seq(Releases)] /\ overtaken \subseteq Players

\* A player hears from the checker at most once for each time the set of the
\* notified was emptied, and once before: nobody is told over and over, however
\* logins, announcements and checks interleave.
NoticesBounded == \A p \in Players : Len(told[p]) <= clears + 1

\* Nothing is left to do, and no step of either thread is half done.
Settled == checker = Idle /\ scheduled = 0 /\ main = Rest

\* The last release p was told of is r.
ToldLast(p, r) == told[p] # <<>> /\ told[p][Len(told[p])] = r

\* Nobody is missed: once both threads have settled and a release is available,
\* every administrator online has been told of it, and last of it, whether the login
\* came before, during or after the check, and whichever release they heard of
\* before.  The one exception is the player being notified while notified is
\* emptied: recorded in the emptied set, they are passed over by the announcement.
NobodyMissed ==
    (Settled /\ ~closed /\ available # None) =>
        \A p \in online \cap Admins : ToldLast(p, available) \/ p \in overtaken

\* What the documentation says of it (data-redis-update.md:257): notified is emptied
\* when a new version appears, so that everyone is notified again.  False of the
\* code in the one case NobodyMissed excepts.
NewReleaseIsTold ==
    (Settled /\ ~closed /\ available # None) =>
        \A p \in online \cap Admins : ToldLast(p, available)

\* What makes NobodyMissed inductive, one: whoever is not notified is still to be
\* reached by a login, an announcement, or the check under way.
OnTheWay(p) ==
    \/ p \in notified \/ p \in main.todo \/ p = main.player
    \/ scheduled > 0
    \/ checker.step \in {"clear", "schedule"}

EveryoneOnTheWay ==
    (~closed /\ available # None) => \A p \in online \cap Admins : OnTheWay(p)

\* Two: between the clears, whoever is recorded, or about to be, heard of the release
\* available, or was overtaken.
NotifiedStands == available # None /\ ~closed /\ checker.step # "clear"

RecordedHeard ==
    NotifiedStands => \A p \in notified : ToldLast(p, available) \/ p \in overtaken

NoticeCurrent ==
    (NotifiedStands /\ main.player # NoPlayer /\ main.since = clears) =>
        IF main.release = None THEN ToldLast(main.player, available) ELSE main.release = available

\* What makes NoticesBounded inductive: the one notice beyond the clears belongs
\* to a player who is in notified, or is about to be.
NoticesCounted ==
    \A p \in Players :
        Len(told[p]) <= clears
            + (IF p \in notified \/ (main.player = p /\ main.release = None) THEN 1 ELSE 0)

\* An administrator who stays online while releases are available is told of one.
SomeReleaseIsTold ==
    \A p \in Admins :
        (p \in online /\ available # None) ~>
            (told[p] # <<>> \/ p \notin online \/ available = None \/ closed)
=============================================================================
