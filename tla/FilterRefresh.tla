---------------------------- MODULE FilterRefresh ----------------------------
(***************************************************************************)
(* The cloud words of the mod (FilterService.java): every refresh is a     *)
(* thread of its own that captures the settings, fetches each url, and at  *)
(* its end replaces the words with its own, so that the threads of a       *)
(* reload and of the hourly tick may overlap and end in any order.         *)
(***************************************************************************)
EXTENDS Integers, Sequences

CONSTANTS Workers,        \* the threads that may run at once (a bound)
          Profiles,       \* the settings a reload goes through
          Databases,      \* [url -> the words it serves]
          Idle

ASSUME RefreshAssumption ==
  /\ Len(Profiles) \in Nat \ {0} /\ DOMAIN Profiles = 1..Len(Profiles)
  /\ \A s \in DOMAIN Profiles : Profiles[s].urls \subseteq DOMAIN Databases

VARIABLES settings,       \* the settings in force, an index of Profiles
          words,          \* the words in force
          worker,         \* what each running refresh has captured and collected
          cached          \* the urls whose cache file exists

refreshVars == <<settings, words, worker, cached>>

Addresses == DOMAIN Databases
Running == {w \in Workers : worker[w] # Idle}
Refreshes(s) == Profiles[s].enabled /\ Profiles[s].urls # {}

RefreshInit ==
  /\ settings = 1
  /\ words = Profiles[1].local
  /\ worker = [w \in Workers |-> Idle]
  /\ cached = {}

\* refreshCloudAsync: the thread starts with the settings of the moment.
Started(w, s) ==
  IF Refreshes(s)
  THEN /\ worker[w] = Idle
       /\ worker' = [worker EXCEPT ![w] = [of |-> s, todo |-> Profiles[s].urls,
                                           collected |-> Profiles[s].local]]
  ELSE UNCHANGED worker

ReloadSettings(w) ==
  /\ settings < Len(Profiles)
  /\ settings' = settings + 1
  /\ words' = Profiles[settings'].local
  /\ Started(w, settings')
  /\ UNCHANGED cached

\* tick, once in 72,000.
HourlyTick(w) ==
  /\ Refreshes(settings)
  /\ Started(w, settings)
  /\ UNCHANGED <<settings, words, cached>>

\* Mutant: the ignored words of the moment are left out.
FetchUrlOfTheMoment(w, url, answers) ==
  /\ w \in Running /\ url \in worker[w].todo
  /\ worker' = [worker EXCEPT ![w].todo = @ \ {url},
                              ![w].collected = IF answers \/ url \in cached
                                               THEN @ \cup (Databases[url] \ Profiles[settings].ignored)
                                               ELSE @]
  /\ cached' = IF answers THEN cached \cup {url} ELSE cached
  /\ UNCHANGED <<settings, words>>

\* fetch: over the network, and kept; otherwise from the file, if there is one.
FetchUrl(w, url, answers) ==
  /\ w \in Running /\ url \in worker[w].todo
  /\ worker' = [worker EXCEPT ![w].todo = @ \ {url},
                              ![w].collected = IF answers \/ url \in cached
                                               THEN @ \cup (Databases[url] \ Profiles[worker[w].of].ignored)
                                               ELSE @]
  /\ cached' = IF answers THEN cached \cup {url} ELSE cached
  /\ UNCHANGED <<settings, words>>

EndRefresh(w) ==
  /\ w \in Running /\ worker[w].todo = {}
  /\ words' = worker[w].collected
  /\ worker' = [worker EXCEPT ![w] = Idle]
  /\ UNCHANGED <<settings, cached>>

\* Fair for each thread: a fetch ends, at the latest when it times out, the thread
\* ends, and the hours pass.
FetchSome(w) == \E url \in Addresses, answers \in BOOLEAN : FetchUrl(w, url, answers)

RefreshNext ==
  \E w \in Workers :
    \/ ReloadSettings(w) \/ HourlyTick(w) \/ EndRefresh(w)
    \/ FetchSome(w)

RefreshSpec == RefreshInit /\ [][RefreshNext]_refreshVars

(******************************* Properties ********************************)
RefreshTypeOK ==
  /\ settings \in DOMAIN Profiles
  /\ cached \subseteq Addresses
  /\ \A w \in Running : worker[w].of \in 1..settings /\ worker[w].todo \subseteq Addresses

Served(s)  == UNION {Databases[u] : u \in Profiles[s].urls}
Allowed(s) == Profiles[s].local \cup (Served(s) \ Profiles[s].ignored)

\* The words in force come from one reading of the settings, however the threads
\* overlap: all its local words, and no word that it ignores unless it is local.
OneReading == \E s \in 1..settings : Profiles[s].local \subseteq words /\ words \subseteq Allowed(s)

\* A refresh begun under older settings may end after the reload and put their
\* words back in force; while the cloud stays enabled this does not last: the
\* words of the settings in force are all there in the end.
NewSettingsPrevail ==
  Refreshes(Len(Profiles)) =>
    <>[](settings = Len(Profiles) => Profiles[settings].local \subseteq words)
=============================================================================
